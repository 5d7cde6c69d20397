SPECIFICATION Spec
CONSTANTS
    q1 = q1
    w1 = w1
    w2 = w2
    Username = "user"
    Password = "secret"
    None = none
    Nobody = nobody
    Queries = {q1}
    Requests <- MCRequests
    Routes <- MCRoutes
    Sockets = {w1}
    RemoteAddr <- OneAddress
    Workers = 1
    Chunks = 2
    MaxMessages = 1
    RowsEncode = FALSE
INVARIANTS
    BoxesAreTakenOnce
CHECK_DEADLOCK FALSE
