SPECIFICATION Spec
CONSTANTS
    r1 = r1 r2 = r2 k1 = k1 w1 = w1 w2 = w2 p1 = p1 p2 = p2
    Requests <- RaceRequests
    Keys = {k1}
    NoKey = NoKey
    KeyOf <- RaceKeyOf
    Types = {"deletion", "foreign", "mirror"}
    TypeOf <- RaceTypeOf
    Registered = {"deletion"}
    Passive = {"mirror"}
    AutoRetry = {"deletion"}
    Payloads = {0}
    Workers = {w1, w2}
    Replicas = {p1, p2}
    Home <- PairHome
    NoWorker = NoWorker
    NoJob = NoJob
    MaxTransientRetries = 1
    MaxFaults = 2
INVARIANTS OneActivePerKey AcceptedIsDurable OwnershipIsSound
PROPERTIES ImplementsContract
CHECK_DEADLOCK FALSE
