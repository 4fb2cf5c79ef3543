SPECIFICATION StartupSpec
CONSTANT MaxIncidents = 2
INVARIANTS
    StartupTypeOK
    OneDaemon
PROPERTY AskedRuns
