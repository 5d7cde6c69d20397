SPECIFICATION FairSpec
CONSTANTS
    MaxTx = 5
    MaxBoot = 3
    WalsPerSnapshot = 2
    RotateCrash = FALSE
    TornWrites = TRUE
INVARIANTS
    TypeOK
    
    SnapshotSelfContained
    ReadsMatchSha
PROPERTIES
    Durability
    OnlySnapshottedWalsDeleted
    SnapshotsAdvance
    JobsAndCloseEnd
\* The process may stay down for good.
CHECK_DEADLOCK FALSE
