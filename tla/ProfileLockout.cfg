SPECIFICATION Spec
CONSTANTS
    None = None
    MaxRequests = 4
    Ops = {"verify", "google", "logout"}
    MaxRestarts = 0
    RedisFaults = FALSE
INVARIANTS
    VerifiedIsActive
