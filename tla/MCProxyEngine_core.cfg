SPECIFICATION Spec
CONSTANTS
    unset = unset
    none = none
    u1 = u1
    u2 = u2
    checker = checker
    r1 = r1
    r2 = r2
    Unset = unset
    None = none
    Request = {r1, r2}
    Addr = {u1, u2}
    RouteName = {"api", "web", "void"}
    Plugin = {checker}
    Unloadable = {}
    ConfigId = {"c1"}
    Config <- Core
    StartConfig = "c1"
    Arrival <- CoreArrival
    DefaultTimeout = 1
    UsizeMod = 4
    MaxLoads = 1
SYMMETRY Symmetry
INVARIANTS
    TypeOK
    DeliveredOnce
    NeverPanics
    RefusedSendsNothing
    Filtered
    BodyForwarded
    RouteOwnUpstreams
    DeadlineBound
    MetricsAccount
PROPERTIES
    SentIsFinal
    Delivers
