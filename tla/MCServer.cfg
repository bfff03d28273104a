SPECIFICATION ServerSpec
CONSTANTS
    absent = absent
    Absent = absent
    c1 = c1
    c2 = c2
    c3 = c3
    Conn = {c1, c2, c3}
    Features = {"acme"}
    MaxUpstreamWeight = 10000
    U64Mod = 256
    ListenerLists <- Lists
    DrainTicks = 2
INVARIANTS
    CountExact
    DrainWaits
    ValidatedNeverPanics
    ClientCaEnforced
PROPERTIES
    NobodyForgotten
    ShutdownEnds
