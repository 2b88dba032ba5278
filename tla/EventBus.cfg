SPECIFICATION FairSpec
CONSTANTS
    Publishers = {p1, p2, p3, p4}
    Stoppers = {s1, s2}
    None = None
INVARIANTS
    OneStart
PROPERTIES
    WaitEnds
