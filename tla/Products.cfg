SPECIFICATION FairSpec
CONSTANTS
    ProductInfo <- MCInfo
    None = None
    Prior = Prior
    r1 = r1
    r2 = r2
    r3 = r3
    Request = {r1, r2, r3}
    Ops = {"create", "update", "delete", "detail", "list"}
    MaxRestarts = 1
    RedisFaults = TRUE
INVARIANTS
    ProductsTypeOK
    OneLiveProductPerSku
    ListsFresh
    OldEntriesExplained
PROPERTIES
    RowsAreCommands
    RequestsAnswered
