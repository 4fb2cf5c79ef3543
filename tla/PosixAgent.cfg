SPECIFICATION Spec
CONSTANTS
    Packages = {"p"}
    Files = {"f"}
    Attempts = 1
    Chunk = 1
    MaxEvents = 3
INVARIANTS TypeOK CompleteMeansAcknowledged
PROPERTIES PiecesMakeTheWhole PartialKeepsTheRest EnrolmentReachesDaemon
CHECK_DEADLOCK FALSE
