SPECIFICATION FairSpec
CONSTANTS
    Users = {u1}
    Requests = {q1, q2, q3}
    CacheTTL = 2
    None = None
INVARIANT TypeOK
PROPERTIES
    GrantsAreVouched
    DecisionsConverge
