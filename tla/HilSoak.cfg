CONSTANTS
    Second = 2
    Durations = {1, 4}
    Delays = {0, 3}
    Cap = 3
    Lag = 1
    CounterMax = 2
SPECIFICATION Spec
INVARIANTS
    SoakPassIsEvidence
    CleanupIsOwed
    CapNeverBinds
CHECK_DEADLOCK FALSE
