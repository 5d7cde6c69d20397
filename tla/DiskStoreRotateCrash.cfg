SPECIFICATION Spec
CONSTANTS
    MaxTx = 3
    MaxBoot = 4
    WalsPerSnapshot = 1
    RotateCrash = TRUE
    TornWrites = FALSE
PROPERTIES
    AckedSurvives
\* The process may stay down for good.
CHECK_DEADLOCK FALSE
