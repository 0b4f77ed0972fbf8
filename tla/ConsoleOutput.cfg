SPECIFICATION Spec
CONSTANTS
    Capacity = 5
    Chunk = 2
    MarkerLength = 2
    Lengths <- RecordLengths
    CountMax = 7
    MaxRecords = 4
INVARIANTS
    RecordsAreWhole
    LossIsMarked
    StatsAreExact
PROPERTIES
    ImplementsConsoleStream
    EventuallyDrained
