SPECIFICATION HardSpec
CONSTANTS
    Names = {a}
    Upstream = {u1, u2}
    Edits = {}
    Installed = {a}
    Ops = {"update"}
    ForceUpdates = FALSE
    TornCopies = FALSE
    MaxCommands = 1
    MaxFaults = 1
    MaxId = 2
CHECK_DEADLOCK FALSE
INVARIANTS
    NoConflict
