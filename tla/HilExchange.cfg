CONSTANTS
    MaxCalls = 3
    MaxBoots = 2
    MaxResponse = 6
SPECIFICATION Spec
INVARIANTS
    AnswerIsWhole
    BoundaryIsClean
PROPERTIES
    ImplementsCommandChannel
CHECK_DEADLOCK FALSE
