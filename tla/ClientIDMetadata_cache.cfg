SPECIFICATION FairSpec
CONSTANTS
    p1 = p1  p2 = p2
    MaxVersion = 3
    PublicVersions = {2}
    KeySources = {"jwks", "jwks_uri"}
    MaxAges <- EdgeAges
    MinTTL = 2  MaxTTL = 3  DefaultTTL = 2
    Timeout = 1
    Handlers = {p1, p2}
    None = None
INVARIANTS TypeOK WithdrawnKeysDie CacheAgreesWithRegistry
PROPERTY EveryRequestEnds
