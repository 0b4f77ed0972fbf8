CONSTANT N = 3
SPECIFICATION Spec
INVARIANTS
    ResultsAreHonest
    ExitZeroIsEarned
    SealIsTrue
PROPERTIES
    OthersAreSafe
CHECK_DEADLOCK FALSE
