SPECIFICATION Spec
CONSTANTS
    unset = unset
    none = none
    u1 = u1
    u2 = u2
    checker = checker
    r1 = r1
    r2 = r2
    Unset = unset
    None = none
    Request = {r1}
    Addr = {u1, u2}
    RouteName = {"api", "web", "void"}
    Plugin = {checker}
    Unloadable = {}
    ConfigId = {"c1"}
    Config <- Single
    StartConfig = "c1"
    Arrival <- SingleArrival
    DefaultTimeout = 1
    UsizeMod = 4
    MaxLoads = 1
INVARIANTS
    TotalTimeoutHolds
