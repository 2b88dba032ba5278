SPECIFICATION ProgressSpec
CONSTANTS
    Callers = {"p1", "p2"}
    MaxAttempts = 3
    FailureThreshold = 2
    RecoveryTimeout = 1
    HalfOpenSuccessThreshold = 2
    FailureResetTimeout = 1
    MaxConcurrent = 1
    DegQuestions = {"one", "two", "joined"}
    DegChecks = 1
    DegTTL = 1
    DegLoops = {"p1"}
    DegMaxSets = 1
    WatchQuestions = {}
    WatchChecks = 2
    WatchLoops = {"p1", "p2"}
    CliCallers = {"p1", "p2"}
    CliAttempts = 2
    CliServiceThreshold = 1
    CliMethodThreshold = 1
    CliRetryThreshold = 1
    CliServiceRecovery = 1
    CliMethodRecovery = 1
    CliRetryRecovery = 1
    MonChecks = {"memory", "cpu"}
    MonCritical = {"memory"}
    MonCooldown = 1
    MonStarts = 2
    OnceRequests = {"p1", "p2"}
    HostSignals = 2
    LogClients = {"p1", "p2"}
    LogMaxQueue = 2
    LogMaxRecords = 3
    NoteCalls = {"p1", "p2"}
CHECK_DEADLOCK FALSE
INVARIANTS
    OpenTrafficBounded
    ComponentsTyped
    AnswersAreRight
    FailuresHaveCause
PROPERTIES
    ClosesAfterRepair
    HeldUntilReleased
    Settles
    Ends
