SPECIFICATION Spec
CONSTANTS
    s1 = s1 s2 = s2 w1 = w1 w2 = w2 p1 = p1 p2 = p2
    Scans = {s1}
    NoScan = NoScan
    Uploaded = {}
    Unresolvable = {}
    Cancels = {s1}
    Replicas = {p1, p2}
    NoReplica = NoReplica
    Workers = {w1, w2}
    Home <- PairHome
    Capacity = 2
    BatchLimit = 2
    MaxFaults = 1
INVARIANTS RowIsConsistent OneRunOneAnnouncement
PROPERTIES ImplementsScanContract
CHECK_DEADLOCK FALSE
SYMMETRY ProcessSymmetry
