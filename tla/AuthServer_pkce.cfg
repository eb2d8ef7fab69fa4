SPECIFICATION Spec
CONSTANTS
    u1 = u1  u2 = u2  d1 = d1  a1 = a1  m1 = m1
    x1 = x1  x2 = x2  v1 = v1  v2 = v2  p1 = p1  p2 = p2
    Users = {u1}
    AutomaticClients = {a1}
    DynamicClients = {}
    MetadataClients = {}
    URIs = {x1}
    HostOf <- MCHostOf
    Verifiers = {v1, v2}
    Registrations <- Nothing
    Documents <- Nothing
    ClientRequests <- PKCERequests
    EditedSubs <- Nothing
    Pairwise = FALSE
    Handlers = {p1}
    MaxRequests = 1
    MaxConsents = 1
    MaxCodes = 2
    None = None  NoUser = NoUser  NoClient = NoClient  NoURI = NoURI  NoChallenge = NoChallenge
SYMMETRY MCSymmetry
INVARIANT CodeBoundToItsChallenge
