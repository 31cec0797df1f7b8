SPECIFICATION FairSpec
CONSTANTS
    r1 = r1 r2 = r2 k1 = k1 w1 = w1 w2 = w2 p1 = p1 p2 = p2
    Requests <- LiveRequests
    Keys = {k1}
    NoKey = NoKey
    KeyOf <- LiveKeyOf
    Types = {"deletion", "foreign", "mirror"}
    TypeOf <- LiveTypeOf
    Registered = {"deletion"}
    Passive = {"mirror"}
    AutoRetry = {"deletion"}
    Payloads = {0}
    Workers = {w1, w2}
    Replicas = {p1, p2}
    Home <- PairHome
    NoWorker = NoWorker
    NoJob = NoJob
    MaxTransientRetries = 1
    MaxFaults = 1
PROPERTIES EveryJobEnds
CHECK_DEADLOCK FALSE
