SPECIFICATION DriverSafety
CONSTANTS
    NumReplicas = 2
    NumTask = 3
    Costs = {1, 3}
    MaxTime = 1
    Ratio = 50
    ReportCount = 3
INVARIANTS
    TypeOK
    MutexDiscipline
    RemovesWhatItRan
    CostLedger
    LogTellsAll
    ExitMeansDrained
PROPERTY
    ImplementsDispatch
