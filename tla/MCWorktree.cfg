SPECIFICATION FairSpec
CONSTANTS
    Order <- PathOrder
    Parent <- ParentOf
    FuYaml = "fu.yaml"
    Scope <- SkillPaths
    Blobs = {"y0", "y1", "y2", "a", "b", "c"}
    Edits = {"e1"}
    History <- Commits
    Local = 5
    Backs = {2}
    MaxCommands = 1
    MaxMoves = 2
    MaxFaults = 1
CHECK_DEADLOCK FALSE
INVARIANTS EditsKept RevertExact CommitScoped Undisturbed
PROPERTIES ForwardOnly Recorded
