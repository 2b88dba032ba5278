SPECIFICATION FairSpec
CONSTANTS
    Threads = {t1, t2}
    Rules = {r1, r2}
    None = None
PROPERTY FiringIsAlerted
CHECK_DEADLOCK FALSE
