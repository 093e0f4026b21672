SPECIFICATION Spec
CONSTANTS
    Names = {a}
    Upstream = {u1}
    Edits = {e1}
    Installed = {a}
    Ops = {"rm"}
    ForceUpdates = FALSE
    TornCopies = FALSE
    MaxCommands = 1
    MaxFaults = 0
    MaxId = 3
CHECK_DEADLOCK FALSE
INVARIANTS
    EditsSurvive
