SPECIFICATION FairSpec
CONSTANTS
    p1 = p1 p2 = p2 worker = worker user = user r1 = r1 r2 = r2
    Policies = {p1}
    NoPolicy = NoPolicy
    Initial = {p1}
    Failing = {}
    Evaluators = {worker}
    WorkerEval = worker
    AskedWhile = {}
    Outcomes = {"failed"}
    Replicas = {r1}
    NoReplica = NoReplica
    MaxAttempts = 2
    MaxFaults = 0
    MaxPauses = 0
PROPERTIES EveryEndIsAnnounced
CHECK_DEADLOCK FALSE
