CONSTANTS
    Dirs = {"d"}
    Links = {"l"}
    Wholes = {"w"}
    Nobody = "nobody"
    Foreign = {"f1", "f2"}
    MaxMoves = 2
    MaxFaults = 2
SPECIFICATION Spec
INVARIANTS
    TheirsKept
    NeverStripped
    NothingParked
    NamedAreSwitched
PROPERTIES
    Converges
