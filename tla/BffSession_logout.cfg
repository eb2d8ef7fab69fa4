SPECIFICATION Spec
CONSTANTS
    r1 = r1  r2 = r2
    Requests = {r1, r2}
    StoreKinds = {"memory", "redis"}
    TokenLife = 1  RefreshThreshold = 1  SessionTTL = 2
    MaxTokens = 3  MaxLogins = 1
    None = None
INVARIANTS LogoutDestroysSession
