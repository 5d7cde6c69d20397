SPECIFICATION FairSpec
CONSTANTS
    Http = {h1}
    Ws = {w1}
    HttpScripts <- MCPlainScripts
    WsScripts <- MCWsScripts
    MaxRequests = 3
    MaxCompactions = 0
    Compactor = compactor
    Nobody = nobody
INVARIANTS
    TypeOK
    
    AnswersAreFresh
    TransactionsAreIsolated
PROPERTIES
    CommitsAreSerial
    RequestsAreAnswered
\* Clients need not send another request.
CHECK_DEADLOCK FALSE
