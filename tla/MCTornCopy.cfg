SPECIFICATION Spec
CONSTANTS
    Names = {a}
    Upstream = {u1}
    Edits = {}
    Installed = {}
    Ops = {"install"}
    ForceUpdates = FALSE
    TornCopies = TRUE
    MaxCommands = 1
    MaxFaults = 1
    MaxId = 1
CHECK_DEADLOCK FALSE
INVARIANTS
    NoConflict
