SPECIFICATION FairSpec
CONSTANTS
    Token <- MCToken
    None = None
    Prior = Prior
    r1 = r1
    r2 = r2
    p1 = p1
    p2 = p2
    Request = {r1, r2}
    Password = {p1, p2}
    MaxRefreshTokens = 2
    Ops = {"verify", "login", "change"}
    MaxRestarts = 1
    RedisFaults = TRUE
    DbFaults = TRUE
PROPERTY EveryRequestAnswered
