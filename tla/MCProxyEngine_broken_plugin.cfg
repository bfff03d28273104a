SPECIFICATION Spec
CONSTANTS
    unset = unset
    none = none
    u1 = u1
    u2 = u2
    checker = checker
    r1 = r1
    r2 = r2
    Unset = unset
    None = none
    Request = {r1}
    Addr = {u1, u2}
    RouteName = {"api", "web", "void"}
    Plugin = {checker}
    Unloadable = {checker}
    ConfigId = {"c1"}
    Config <- Core
    StartConfig = "c1"
    Arrival <- CoreArrival
    DefaultTimeout = 1
    UsizeMod = 4
    MaxLoads = 1
INVARIANTS
    Filtered
