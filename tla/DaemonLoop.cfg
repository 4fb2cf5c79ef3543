SPECIFICATION Spec
CONSTANTS
    Post = {"p1"}
    MaxChanges = 2
INVARIANTS
    TypeOK
PROPERTIES
    WipeJustified
    InventoryArrives
    DisableStops
CHECK_DEADLOCK FALSE
