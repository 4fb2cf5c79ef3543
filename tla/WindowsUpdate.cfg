SPECIFICATION Spec
CONSTANTS
    Daemon = {d1, d2}
    Watchdog = {w1, w2}
    Stamp = {"stamp"}
    AtLogon = FALSE
    MaxVersion = 2
    MaxEvents = 2
INVARIANTS
    TypeOK
    ImageSurvives
PROPERTIES
    PromiseKept
    DaemonComesBack
    UpdateTakesOver
    BackupsGo
CHECK_DEADLOCK FALSE
