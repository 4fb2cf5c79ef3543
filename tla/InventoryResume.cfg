SPECIFICATION Spec
CONSTANTS
    app = app
    driver = driver
    tool = tool
    newtool = newtool
    p1 = p1
    p2 = p2
    NoFile = NoFile
    L0Key = {app}
    FileKey = {tool}
    Path = {p1, p2}
    Priority = {p1}
    MaxChanges = 2
    MaxRestarts = 1
    MaxReenrol = 0
    MaxLost = 0
    MaxMishaps = 1
    InPlace = FALSE
    MayStop = FALSE
PROPERTIES
    AdditionsEmitted
