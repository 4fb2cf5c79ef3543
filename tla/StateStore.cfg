SPECIFICATION Spec
CONSTANTS
    MaxToken = 2
    MaxEvents = 2
    Torn = Torn
    Ref = Ref
INVARIANTS
    TypeOK
    TokenSurvives
    UnlinkForgets
CHECK_DEADLOCK FALSE
