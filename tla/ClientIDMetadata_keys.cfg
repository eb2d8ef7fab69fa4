SPECIFICATION Spec
CONSTANTS
    p1 = p1  p2 = p2
    MaxVersion = 2
    PublicVersions = {}
    KeySources = {"jwks_uri"}
    MaxAges <- EdgeAges
    MinTTL = 2  MaxTTL = 3  DefaultTTL = 2
    Timeout = 1
    Handlers = {p1, p2}
    None = None
INVARIANT KeysBelongToDocument
