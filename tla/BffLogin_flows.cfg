SPECIFICATION Spec
CONSTANTS
    b1 = b1  b2 = b2  u1 = u1  u2 = u2  p1 = p1  r1 = r1  r2 = r2
    Browsers = {b1, b2}
    Users = {u1, u2}
    Replicas = {p1}
    Requests = {r1, r2}
    CookieAge = 2  ClaimTTL = 2
    MaxAttempts = 2
    MaxFlows = 2  MaxCodes = 1
    None = None
SYMMETRY Alike
INVARIANTS TypeOK StateClaimedOnce OneSessionPerCode 
PROPERTIES ClaimsAreForgotten
