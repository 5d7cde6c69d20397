SPECIFICATION Spec
CONSTANTS
    Http = {h1, h2}
    Ws = {}
    HttpScripts <- MCSavepointScripts
    WsScripts <- MCWsScripts
    MaxRequests = 1
    MaxCompactions = 0
    Compactor = compactor
    Nobody = nobody
INVARIANTS
    ConflictsAreRetried
CHECK_DEADLOCK FALSE
