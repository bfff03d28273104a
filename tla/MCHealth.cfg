SPECIFICATION HealthSpec
CONSTANTS
    a = a
    none = none
    None = none
    Addr = {a}
    Path = {"p", "q"}
    Configs <- Files
INVARIANTS
    LatestStored
PROPERTIES
    Converges
