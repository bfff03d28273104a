SPECIFICATION Spec
CONSTANTS
    unset = unset
    Addr = {a, b, c}
    Unset = unset
    Weight <- MCWeight
    UsizeMod = 16
    MaxPools = 3
    MaxPicks = 16
INVARIANTS
    TypeOK
    WeightedShare
    Interleaved
    ScheduleReduced
\* next() is simply not called again after MaxPicks calls.
CHECK_DEADLOCK FALSE
