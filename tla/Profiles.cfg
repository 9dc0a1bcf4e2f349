SPECIFICATION FairSpec
CONSTANTS
    None = None
    MaxRequests = 3
    Ops = {"verify", "login", "google", "logout", "patch", "me", "detail"}
    MaxRestarts = 1
    RedisFaults = TRUE
INVARIANTS
    ProfilesTypeOK
    AccountLoads
    OldEntriesExplained
PROPERTIES
    VerificationStands
    ProfilesSettle
