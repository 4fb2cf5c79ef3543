SPECIFICATION Spec
CONSTANTS
    daemon = daemon
    gui = gui
    main = main
    window = window
    r1 = r1
    r2 = r2
    Thread = {main}
    Process = {daemon}
    ProcessOf <- MCProcessOf
    Flusher = main
    Request = {r1, r2}
    Poison = {r1}
    RetryCap = 2
    Backoff <- MCBackoff
    FlushMax = 4
    FaultBudget = 0
PROPERTIES
    Drains
