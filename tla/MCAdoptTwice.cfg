CONSTANTS
    Dirs = {"d"}
    Links = {"l"}
    Wholes = {"w"}
    Nobody = "nobody"
    Foreign = {"f1", "f2"}
    MaxMoves = 0
    MaxFaults = 2
SPECIFICATION Spec
INVARIANT NoConflictOfItsOwn
