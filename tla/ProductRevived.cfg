SPECIFICATION Spec
CONSTANTS
    ProductInfo <- MCInfo
    None = None
    Prior = Prior
    r1 = r1
    r2 = r2
    Request = {r1, r2}
    Ops = {"update", "delete"}
    MaxRestarts = 0
    RedisFaults = FALSE
PROPERTY DeletedStaysDeleted
