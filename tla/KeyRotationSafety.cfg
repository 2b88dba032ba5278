SPECIFICATION Spec
CONSTANTS
    Keys = {k1, k2}
    Workers = {w1, w2}
    MaxQueued = 1
    MaxFaults = 1
    None = None
SYMMETRY RotationSymmetry
INVARIANTS
    TypeOK
    DeprecatedHasSuccessor
    NeverAllDeprecated
    PendingIsOwned
