SPECIFICATION Spec
CONSTANTS
    MaxReq = 2
    MaxStops = 1
    MaxCancels = 1
INVARIANTS
    TypeOK
    CompleteMeansSynced
PROPERTIES
    
    UnlinkIsNoticed
CHECK_DEADLOCK FALSE
