CONSTANTS
    NumChannels = 2
    SweepOrder <- ByRawValue
    Devices = {1, 2}
    Mux = 3
    MaxRoutes = 2
SPECIFICATION Spec
INVARIANTS
    PassIsTrue
    EntryMaskRestored
CHECK_DEADLOCK FALSE
