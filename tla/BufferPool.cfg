CONSTANTS
    Readers = {r1, r2, r3}
    Small = {f1, f2}
    Large = {f3}
    MaxSize = 3
    TargetSize = 2
    MaxGets = 2
    Nobody = nobody
SPECIFICATION FairSpec
INVARIANTS
    TypeOK
    PoolStaysBounded
PROPERTIES
    GetsEndUnlessOvercounted
\* Readers have read all they read.
CHECK_DEADLOCK FALSE
