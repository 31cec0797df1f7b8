SPECIFICATION FairSpec
CONSTANTS
    p1 = p1 p2 = p2 worker = worker user = user r1 = r1 r2 = r2
    Policies = {p1, p2}
    NoPolicy = NoPolicy
    Initial = {p1, p2}
    Failing = {p2}
    Evaluators = {worker, user}
    WorkerEval = worker
    AskedWhile = {"running", "completed"}
    Outcomes = {"completed", "failed", "undispatched", "abandoned", "cancelled"}
    Replicas = {r1}
    NoReplica = NoReplica
    MaxAttempts = 1
    MaxFaults = 1
    MaxPauses = 0
INVARIANTS FailIsDeserved PassesAreDeserved
PROPERTIES VerdictReached
CHECK_DEADLOCK FALSE
