SPECIFICATION Spec
CONSTANTS
    Token <- MCToken
    r1 = r1
    r2 = r2
    p1 = p1
    p2 = p2
    None = None
    Prior = Prior
    Request = {r1, r2}
    Password = {p1, p2}
    MaxRefreshTokens = 1
    Ops = {"register", "verify", "resend", "login", "google", "refresh", "logout", "logoutAll", "change", "forgot", "reset"}
    MaxRestarts = 1
    RedisFaults = TRUE
    DbFaults = TRUE
SYMMETRY Symmetry
INVARIANTS TypeOK CopiesSound OneRegistration OldEntriesExplained
PROPERTY RowIsOneCommand
