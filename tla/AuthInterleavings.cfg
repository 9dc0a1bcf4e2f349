SPECIFICATION Spec
CONSTANTS
    Token <- MCToken
    r1 = r1
    r2 = r2
    r3 = r3
    p1 = p1
    None = None
    Prior = Prior
    Request = {r1, r2, r3}
    Password = {p1}
    MaxRefreshTokens = 2
    Ops = {"verify", "login", "google", "refresh", "logout"}
    MaxRestarts = 0
    RedisFaults = FALSE
    DbFaults = FALSE
SYMMETRY Symmetry
INVARIANT CopiesSound
PROPERTIES RedeemedLinkStaysDead LogoutEndsSession
