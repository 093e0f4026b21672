SPECIFICATION Spec
CONSTANTS
    Txns = {t1, t2}
    Stages = {"started", "staged"}
    MaxRev = 3
    MaxErrors = 2
SYMMETRY Symmetry
INVARIANTS
    NeverAhead
    JournalReadable
    AtMostOneOpen
PROPERTIES
    LifeSpec
