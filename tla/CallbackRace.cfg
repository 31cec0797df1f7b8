SPECIFICATION FairSpec
CONSTANTS
    p1 = p1 p2 = p2 worker = worker user = user r1 = r1 r2 = r2
    Policies = {p1}
    NoPolicy = NoPolicy
    Initial = {}
    Failing = {p1}
    Evaluators = {worker}
    WorkerEval = worker
    AskedWhile = {}
    Outcomes = {"completed", "failed", "undispatched", "abandoned", "cancelled"}
    Replicas = {r1, r2}
    NoReplica = NoReplica
    MaxAttempts = 2
    MaxFaults = 1
    MaxPauses = 1
INVARIANTS DeliveryIsSound
PROPERTIES SettledIsFinal CallbackSettles
CHECK_DEADLOCK FALSE
