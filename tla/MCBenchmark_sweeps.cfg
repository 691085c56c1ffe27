SPECIFICATION Spec
CONSTANTS
    None = None
    Sweeps <- ShortSweeps
    Committee = 2
    Options <- AllFlags
    MaxDrivers = 2
INVARIANTS
    TypeOK
    DoneMeansTornDown
PROPERTIES
    DeploymentsStartClean
    LogsAreOfTheRun
    FilesAreTruthful
CHECK_DEADLOCK FALSE
