SPECIFICATION FairSpec
CONSTANTS
    q1 = q1
    w1 = w1
    w2 = w2
    Username = "user"
    Password = "secret"
    None = none
    Nobody = nobody
    Queries = {q1}
    Requests <- MCRequests
    Routes <- MCRoutes
    Sockets = {w1, w2}
    RemoteAddr <- OneAddress
    Workers = 2
    Chunks = 2
    MaxMessages = 1
    RowsEncode = FALSE
INVARIANTS
    TypeOK
    OnlyAuthorized
    LastParameterWins
    ClientsAreAnswered
    AnswersAreWhole
    
PROPERTIES
    RequestsEndUnlessStarved
\* A query that is over and a WebSocket that is closed do nothing more.
CHECK_DEADLOCK FALSE
