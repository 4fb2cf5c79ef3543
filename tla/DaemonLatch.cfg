SPECIFICATION Spec
CONSTANTS
    Post = {"p1"}
    MaxChanges = 3
PROPERTIES
    LatchMeansPersistent
CHECK_DEADLOCK FALSE
