CONSTANT N = 2
SPECIFICATION Spec
INVARIANT FailedSealLeavesNoPass
CHECK_DEADLOCK FALSE
