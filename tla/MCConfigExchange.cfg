SPECIFICATION Spec
CONSTANTS
    MaxInstalls = 2
    MaxEdits = 2
    MaxFaults = 2
CHECK_DEADLOCK FALSE
INVARIANTS
    TypeOK
    LostOnlyOver
    ReopenedOnlyIfStuck
    ConflictHasCause
PROPERTIES
    OutcomeHolds
