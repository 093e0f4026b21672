SPECIFICATION FairSpec
CONSTANTS
    Names = {a}
    Upstream = {u1, u2}
    Edits = {}
    Installed = {a}
    Ops = {"install", "rm", "update"}
    ForceUpdates = FALSE
    TornCopies = FALSE
    MaxCommands = 3
    MaxFaults = 2
    MaxId = 4
CHECK_DEADLOCK FALSE
INVARIANTS
    NoConflict
    Consistent
    RollbackRestores
    NothingStranded
    OneOpen
    InventoryIsWhatGcDoes
PROPERTIES
    RecoveryCompletes
