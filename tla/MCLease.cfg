SPECIFICATION FairSpec
CONSTANTS
    Producers = {p1}
    Collectors = {g1}
    Scanners = {s1}
    Nobody = nobody
    MaxScans = 1
    MaxFaults = 2
    MaxMeddles = 1
INVARIANTS InUseKept VerdictTrue Evidence TheirsKept
PROPERTIES Converges
