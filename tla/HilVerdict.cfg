CONSTANTS
    LastAddress = 4
    FirstCandidate = 3
    Configured = 4
    Count = 2
SPECIFICATION ReplySpec
INVARIANTS
    VerdictIsTrue
    SuccessPasses
CHECK_DEADLOCK FALSE
