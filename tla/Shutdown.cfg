CONSTANTS
    Writers = {w1, w2}
    Queries = {q1}
    Merged = merged
    Close = close
    Nobody = nobody
SPECIFICATION FairSpec
INVARIANTS
    TypeOK
    
    QueriesMissRowsOnlyAtTheEnd
PROPERTIES
    CloseEndsUnlessDeadlocked
\* The process may end.
CHECK_DEADLOCK FALSE
