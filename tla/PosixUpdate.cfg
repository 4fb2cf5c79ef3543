SPECIFICATION Spec
CONSTANTS
    MaxVersion = 3
    Kinds <- MCKinds
    MaxEvents = 2
    None = None
    Torn = Torn
INVARIANTS TypeOK ImageIntact
PROPERTIES ImplementsChannel ConfirmedStays UpdateArrives
CHECK_DEADLOCK FALSE
