SPECIFICATION Spec
CONSTANTS
    Callers = {c1, c2}
    Async = TRUE
    FailureThreshold = 2
    RecoveryTimeout = 2
    HalfOpenSuccessThreshold = 2
    FailureResetTimeout = 1
    MaxConcurrent = 2
INVARIANT IdleBreakerHasRoom
