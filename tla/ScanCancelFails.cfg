SPECIFICATION Spec
CONSTANTS
    s1 = s1 s2 = s2 w1 = w1 w2 = w2 p1 = p1 p2 = p2
    Scans = {s1}
    NoScan = NoScan
    Uploaded = {}
    Unresolvable = {}
    Cancels = {s1}
    Replicas = {p1}
    NoReplica = NoReplica
    Workers = {w1}
    Home <- SoleHome
    Capacity = 1
    BatchLimit = 1
    MaxFaults = 0
PROPERTIES CancelledNotFailed
CHECK_DEADLOCK FALSE
