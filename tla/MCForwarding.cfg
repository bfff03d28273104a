SPECIFICATION ForwardingSpec
CONSTANTS
    absent = absent
    Absent = absent
    Features = {"plugins"}
    MaxUpstreamWeight = 10000
    U64Mod = 256
    HeaderName <- Names
    Opaque = "opaque"
    Routes <- SomeRoutes
    Heads <- ClientHeads
    Replies <- UpstreamHeads
    Client = "client"
    Identity = "identity"
    DefaultTotal = 30000
    MaxSent = 2
INVARIANTS
    HopByHopStripped
    IdentityTrue
    OwnHeadersFinal
    RetriesAlike
    OverridesHonoured
    ChecksAreComplete
CHECK_DEADLOCK FALSE
