CONSTANTS
    Settable <- HundredPatches
    MaxPart = 100
    Identities = {commit1}
SPECIFICATION Spec
INVARIANT
    CodeOrdersVersions
