SPECIFICATION Spec
CONSTANTS
    MaxTx = 2
    MaxBoot = 2
    WalsPerSnapshot = 2
    RotateCrash = FALSE
    TornWrites = TRUE
INVARIANTS
    StartSucceeds
\* The process may stay down for good.
CHECK_DEADLOCK FALSE
