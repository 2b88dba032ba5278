SPECIFICATION Spec
CONSTANTS
    UserRoles <- OneOperator
    UserPermissions <- MayRotate
    SessionTokens = {"t1", "t2"}
    SessionHours = 1
    SessionMaxTime = 2
    Organizations = {"o1", "o2"}
    ResourceOwner = "o1"
    KeyScopes <- ThreeKeys
    RpcWorkers = {"w1", "w2"}
    RpcIdentities = {"a", "b"}
    CrewCleaners = {"k1", "k2"}
    CrewValidity = 0
    CrewRetention = 0
    CrewGrace = 0
    CrewMaxChecks = 1
    CrewMaxTime = 2
CHECK_DEADLOCK FALSE
INVARIANTS
    TypeOK
    
    LossNeedsOverlap
    
    ErrorsKeepMeaning
    
    DocumentsSurvive
    
PROPERTIES
    StepsKeepHistory
