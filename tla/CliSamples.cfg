CONSTANTS
    NumChannels = 1
    Offered = {"WATCH", "SOAK", "SCAN", "DISCOVER"}
    Counts = {1, 2}
    Intervals = {3, 4}
    Second = 4
    LoopTimes = {1, 3, 9}
    ClockSize = 32
    CountSize = 17
    FirstScan = 1
    FirstCandidate = 2
    LastAddress = 3
    OutOfBand = TRUE
SPECIFICATION Spec
PROPERTIES
    PassMeansDone
    SoakVerdict
    WatchSpacing
    SessionsEnd
