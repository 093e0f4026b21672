SPECIFICATION Spec
CONSTANTS
    Agents = {a1, a2}
    Skills = {s1}
    Unusable = {system}
    Reserving = {a2}
    Gens = {g1, g2}
    MaxPasses = 2
    MaxEdits = 2
    MaxFaults = 1
    MaxTrouble = 2
SYMMETRY GenSymmetry
CHECK_DEADLOCK FALSE
INVARIANTS ForeignKept ToldOrDone SecondPassIdle Foretold ActsOnListed
