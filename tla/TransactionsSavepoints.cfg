SPECIFICATION Spec
CONSTANTS
    Http = {h1, h2}
    Ws = {}
    HttpScripts <- MCSavepointScripts
    WsScripts <- MCWsScripts
    MaxRequests = 2
    MaxCompactions = 1
    Compactor = compactor
    Nobody = nobody
INVARIANTS
    BranchesAreNotCommitted
PROPERTIES
    CommitsAreSerial
SYMMETRY Symmetry
\* Clients need not send another request.
CHECK_DEADLOCK FALSE
