CONSTANTS
    Reader = {r1}
    MaxTx = 5
    MaxRows = 1
    CrashFreeTx = 3
    TargetSize = 3
    Forever = Forever
    Null = Null
SPECIFICATION FairSpec
INVARIANTS
    TypeOK
    QueriesReadTheirSnapshot
PROPERTIES
    TableIsPreserved
    FilesInUseAreImmutable
    CompactionSettles
\* There may be no transaction left to make.
CHECK_DEADLOCK FALSE
