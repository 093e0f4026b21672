SPECIFICATION Spec
CONSTANTS
    Names = {a, b}
    Upstream = {u1}
    Edits = {e1}
    Installed = {a}
    Ops = {"install", "rm", "update"}
    ForceUpdates = TRUE
    TornCopies = TRUE
    MaxCommands = 1
    MaxFaults = 1
    MaxId = 3
CHECK_DEADLOCK FALSE
SYMMETRY Symmetry
INVARIANTS
    TypeOK
    LostOnlyAsRecorded
PROPERTIES
    HistorySpec
