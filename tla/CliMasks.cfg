CONSTANTS
    NumChannels = 2
    Offered = {"STRESS", "MIX", "SWEEP", "SELFTEST"}
    Counts = {1, 3}
    Intervals = {}
    Second = 1
    LoopTimes = {0}
    ClockSize = 8
    CountSize = 24
    FirstScan = 1
    FirstCandidate = 2
    LastAddress = 3
    OutOfBand = TRUE
SPECIFICATION Spec
INVARIANTS
    OneUserOfTheBus
    SelfTestOwesRestore
PROPERTIES
    CleanupIsVerified
    PassMeansDone
    SelfTestRestores
    SessionsEnd
