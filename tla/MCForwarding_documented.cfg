SPECIFICATION ForwardingSpec
CONSTANTS
    absent = absent
    Absent = absent
    Features = {"plugins"}
    MaxUpstreamWeight = 10000
    U64Mod = 256
    HeaderName <- Names
    Opaque = "opaque"
    Routes <- Rewriting
    Heads <- Talkative
    Replies <- Plain
    Client = "client"
    Identity = "identity"
    DefaultTotal = 30000
    MaxSent = 2
INVARIANTS
    HeadersAsDocumented
CHECK_DEADLOCK FALSE
