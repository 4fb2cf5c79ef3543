SPECIFICATION Spec
CONSTANTS
    daemon = daemon
    gui = gui
    main = main
    window = window
    r1 = r1
    r2 = r2
    Thread = {main, window}
    Process = {daemon, gui}
    ProcessOf <- MCProcessOf
    Flusher = main
    Request = {r1, r2}
    Poison = {}
    RetryCap = 1
    Backoff <- MCBackoff
    FlushMax = 1
    FaultBudget = 1
INVARIANTS
    TypeOK
    NoSilentLoss
    DuplicateOnlyAfterFault
    FileKeepsOrder
PROPERTIES
    OvertakesOnlyFailed
