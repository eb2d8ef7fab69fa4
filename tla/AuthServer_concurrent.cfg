SPECIFICATION Spec
CONSTANTS
    u1 = u1  u2 = u2  d1 = d1  a1 = a1  m1 = m1
    x1 = x1  x2 = x2  v1 = v1  v2 = v2  p1 = p1  p2 = p2
    Users = {u1}
    AutomaticClients = {}
    DynamicClients = {d1}
    MetadataClients = {}
    URIs = {x1}
    HostOf <- MCHostOf
    Verifiers = {}
    Registrations <- ConfidentialRegistrations
    Documents <- Nothing
    ClientRequests <- ConfidentialRequests
    EditedSubs <- Nothing
    Pairwise = FALSE
    Handlers = {p1, p2}
    MaxRequests = 2
    MaxConsents = 2
    MaxCodes = 2
    None = None  NoUser = NoUser  NoClient = NoClient  NoURI = NoURI  NoChallenge = NoChallenge
SYMMETRY MCSymmetry
INVARIANTS TypeOK CodeRedeemedOnce OneSessionPerSub TokensBoundToTheirGrant
PROPERTIES RevocationIsPermanent ImplementsGrants RevokedGrantsStayRevoked
