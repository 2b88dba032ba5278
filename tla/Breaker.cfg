SPECIFICATION FairSpec
CONSTANTS
    Callers = {c1, c2, c3}
    Async = TRUE
    FailureThreshold = 2
    RecoveryTimeout = 2
    HalfOpenSuccessThreshold = 2
    FailureResetTimeout = 1
    MaxConcurrent = 2
INVARIANTS
    TypeOK
    CountersMatchState
    OvershootBounded
    SlotsAccountedFor
PROPERTIES
    OpenAdmitsNobody
    OutageNotExtended
    ClosesAfterRepair
