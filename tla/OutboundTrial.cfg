SPECIFICATION FairSpec
CONSTANTS
    Callers = {c1, c2}
    MaxAttempts = 3
    FailureThreshold = 2
    RecoveryTimeout = 1
    HalfOpenSuccessThreshold = 2
    FailureResetTimeout = 1
    MaxConcurrent = 1
PROPERTY TrialEnds
