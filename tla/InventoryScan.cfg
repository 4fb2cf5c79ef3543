SPECIFICATION Spec
CONSTANTS
    app = app
    driver = driver
    tool = tool
    newtool = newtool
    p1 = p1
    p2 = p2
    NoFile = NoFile
    L0Key = {driver}
    FileKey = {driver, tool}
    Path = {p1, p2}
    Priority = {p1}
    MaxChanges = 2
    MaxRestarts = 1
    MaxReenrol = 1
    MaxLost = 1
    MaxMishaps = 2
    InPlace = TRUE
    MayStop = TRUE
INVARIANTS
    TypeOK
    
PROPERTIES
    UninstallReported
    
