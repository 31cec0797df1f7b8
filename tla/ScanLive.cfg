SPECIFICATION FairSpec
CONSTANTS
    s1 = s1 s2 = s2 w1 = w1 w2 = w2 p1 = p1 p2 = p2
    Scans = {s1, s2}
    NoScan = NoScan
    Uploaded = {s1}
    Unresolvable = {s2}
    Cancels = {}
    Replicas = {p1}
    NoReplica = NoReplica
    Workers = {w1, w2}
    Home <- SameHome
    Capacity = 1
    BatchLimit = 2
    MaxFaults = 1
INVARIANTS QueueKeepsNeeded
PROPERTIES EveryScanEnds
CHECK_DEADLOCK FALSE
