SPECIFICATION Spec
CONSTANTS
    MaxReplicas = 2
    Commands <- MCCommands
    Files = {"config", "other"}
    Calibrating = {TRUE, FALSE}
    REPEAT = 2
    nt = 10
    blocks = 3
    ni = 4
    random <- MCRandom
    Server <- MCServer
    Settings <- MCSettings
    Kilo = 4
INVARIANTS
    CacheSizeRight
    EndsForAReason
    CalibrationRight
PROPERTY
    NotReplacedInUse
