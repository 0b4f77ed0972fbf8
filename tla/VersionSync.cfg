CONSTANTS
    Settable <- SomeVersions
    MaxPart = 1
    Identities = {commit1, commit2}
SYMMETRY Symmetry
SPECIFICATION Spec
INVARIANTS
    SuccessMeansSynced
    FailureIsContained
