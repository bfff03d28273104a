SPECIFICATION ReloadSpec
CONSTANTS
    unset = unset
    none = none
    u1 = u1
    u2 = u2
    checker = checker
    broken = broken
    r1 = r1
    Unset = unset
    None = none
    Request = {r1}
    Addr = {u1, u2}
    RouteName = {"api", "web"}
    Plugin = {checker, broken}
    Unloadable = {broken}
    ConfigId = {"c1", "c2", "c3", "c4"}
    Config <- MCConfig
    StartConfig = "c1"
    Arrival <- MCArrival
    DefaultTimeout = 1
    UsizeMod = 4
    MaxLoads = 2
    BadFile = "bad"
    MaxSignals = 1
INVARIANTS
    ReloadRefusesNobody
