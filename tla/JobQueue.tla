------------------------------ MODULE JobQueue ------------------------------
(***************************************************************************)
(* The durable job queue of services/backend/backgroundjobs/jobs.go: the   *)
(* background_jobs table, concurrent Enqueue calls, and the worker pools   *)
(* of any number of backend replicas that claim rows under a lease.        *)
(*                                                                         *)
(* A request is one call of Enqueue and, at the same time, the identity of *)
(* the row that call inserts (the code draws a fresh UUID per call).  A    *)
(* worker is one goroutine of one process incarnation: Start draws a new   *)
(* worker id, so an identity is never used again after its process ends.   *)
(*                                                                         *)
(* A lease deadline is compared with the clock and never read otherwise,   *)
(* so it is "null", "future" or "past"; Expire is the passing of time.     *)
(* Environment faults (database errors, a holder paused past its lease, a  *)
(* processor that asks to run again) are counted against MaxFaults.        *)
(***************************************************************************)
EXTENDS Naturals

CONSTANTS
    Requests,             \* calls of Enqueue, and the rows they insert
    Keys, NoKey,          \* dedupe keys, and the empty key
    KeyOf,                \* EnqueueRequest.DedupeKey of each request
    Types, TypeOf,        \* job types, and EnqueueRequest.Type
    Registered,           \* types with a processor (Register)
    Passive,              \* types that are only status mirrors (RegisterPassive)
    AutoRetry,            \* types shouldAutoRetry accepts
    Payloads,             \* what a payload says is left to do
    Workers, Replicas, Home, NoWorker, NoJob,
    MaxTransientRetries,
    MaxFaults

ASSUME ConstantsAssumption ==
    /\ NoKey \notin Keys
    /\ KeyOf \in [Requests -> Keys \cup {NoKey}]
    /\ TypeOf \in [Requests -> Types]
    /\ Home \in [Workers -> Replicas]
    /\ NoWorker \notin Workers
    /\ NoJob \notin Requests
    /\ Payloads # {}
    /\ MaxTransientRetries \in Nat
    /\ MaxFaults \in Nat

VARIABLES
    status, owner, lease, work, retries, created,   \* the table, by row
    clock,                                          \* last created_at stamp
    callPc, callWork, result,                       \* Enqueue calls
    pc, job, memWork, memRetries, outcome, lost,    \* workers
    replica,                                        \* processes
    faults

tableVars  == <<status, owner, lease, work, retries>>
callVars   == <<created, clock, callPc, callWork, result>>
workerVars == <<pc, job, memWork, memRetries, outcome, lost>>
vars == <<tableVars, callVars, workerVars, replica, faults>>

Active   == {"queued", "running"}
Terminal == {"succeeded", "failed"}
Busy     == {"processing", "returned", "failing"}
Outcomes == {"ok", "requeue", "transient", "permanent"}

(* The value of a payload field nobody has written yet. *)
Blank == CHOOSE p \in Payloads : TRUE

TypeOK ==
    /\ status \in [Requests -> {"none"} \cup Active \cup Terminal]
    /\ owner \in [Requests -> Workers \cup {NoWorker}]
    /\ lease \in [Requests -> {"null", "future", "past"}]
    /\ work \in [Requests -> Payloads]
    /\ retries \in [Requests -> 0 .. MaxTransientRetries]
    /\ created \in [Requests -> Nat]
    /\ clock \in Nat
    /\ callPc \in [Requests -> {"new", "lookup", "insert", "relookup", "done", "error"}]
    /\ callWork \in [Requests -> Payloads]
    /\ result \in [Requests -> Requests \cup {NoJob}]
    /\ pc \in [Workers -> {"off", "idle", "claiming", "processing", "returned", "failing"}]
    /\ job \in [Workers -> Requests \cup {NoJob}]
    /\ memWork \in [Workers -> Payloads]
    /\ memRetries \in [Workers -> 0 .. MaxTransientRetries]
    /\ outcome \in [Workers -> Outcomes]
    /\ lost \in [Workers -> BOOLEAN]
    /\ replica \in [Replicas -> {"off", "up", "stopping", "down"}]
    /\ faults \in 0 .. MaxFaults

Init ==
    /\ status = [r \in Requests |-> "none"]
    /\ owner = [r \in Requests |-> NoWorker]
    /\ lease = [r \in Requests |-> "null"]
    /\ work = [r \in Requests |-> Blank]
    /\ retries = [r \in Requests |-> 0]
    /\ created = [r \in Requests |-> 0]
    /\ clock = 0
    /\ callPc = [r \in Requests |-> "new"]
    /\ callWork = [r \in Requests |-> Blank]
    /\ result = [r \in Requests |-> NoJob]
    /\ pc = [w \in Workers |-> "off"]
    /\ job = [w \in Workers |-> NoJob]
    /\ memWork = [w \in Workers |-> Blank]
    /\ memRetries = [w \in Workers |-> 0]
    /\ outcome = [w \in Workers |-> "ok"]
    /\ lost = [w \in Workers |-> FALSE]
    /\ replica = [p \in Replicas |-> "off"]
    /\ faults = 0

-----------------------------------------------------------------------------
(* One adverse event of the environment. *)
Fault == /\ faults < MaxFaults
         /\ faults' = faults + 1

(* FOR UPDATE: a row selected by a claim that has not committed yet. *)
Locked(j) == \E w \in Workers : pc[w] = "claiming" /\ job[w] = j

Cancelled(w) == lost[w] \/ replica[Home[w]] # "up"

(* WHERE id = ? AND status = 'running' AND lease_owner = ? *)
Owns(w) == status[job[w]] = "running" /\ owner[job[w]] = w

(* The worker goroutine goes back to its loop and forgets the job. *)
ToIdle(w) ==
    /\ pc' = [pc EXCEPT ![w] = "idle"]
    /\ job' = [job EXCEPT ![w] = NoJob]
    /\ outcome' = [outcome EXCEPT ![w] = "ok"]
    /\ lost' = [lost EXCEPT ![w] = FALSE]
    /\ memRetries' = [memRetries EXCEPT ![w] = 0]
    /\ memWork' = [memWork EXCEPT ![w] = Blank]

-----------------------------------------------------------------------------
(* Enqueue *)

ActiveWithKey(r) == {q \in Requests : status[q] \in Active /\ KeyOf[q] = KeyOf[r]}

(* The caller prepares the payload, then calls Enqueue. *)
Submit(r, p) ==
    /\ callPc[r] = "new"
    /\ callPc' = [callPc EXCEPT ![r] = "lookup"]
    /\ callWork' = [callWork EXCEPT ![r] = p]
    /\ UNCHANGED <<created, clock, result, tableVars, workerVars, replica, faults>>

(* The call returns the oldest row that is already active under its key. *)
ReturnExisting(r) ==
    /\ KeyOf[r] # NoKey
    /\ callPc' = [callPc EXCEPT ![r] = "done"]
    /\ \E q \in ActiveWithKey(r) :
         /\ \A s \in ActiveWithKey(r) : created[q] <= created[s]
         /\ result' = [result EXCEPT ![r] = q]
    /\ UNCHANGED <<created, clock, callWork, tableVars, workerVars, replica, faults>>

LookupExisting(r) == callPc[r] = "lookup" /\ ReturnExisting(r)

(* No active row was found: the new row is stamped, not yet inserted. *)
LookupNone(r) ==
    /\ callPc[r] = "lookup"
    /\ KeyOf[r] = NoKey \/ ActiveWithKey(r) = {}
    /\ callPc' = [callPc EXCEPT ![r] = "insert"]
    /\ clock' = clock + 1
    /\ created' = [created EXCEPT ![r] = clock + 1]
    /\ UNCHANGED <<callWork, result, tableVars, workerVars, replica, faults>>

(* Mutant of Conflict: migration 108 without its unique index. *)
NoUniqueIndex(r) == FALSE

(* The unique partial index over active rows with a non-empty key. *)
Conflict(r) == KeyOf[r] # NoKey /\ ActiveWithKey(r) # {}

InsertRow(r) ==
    /\ callPc[r] = "insert"
    /\ ~ Conflict(r)
    /\ status' = [status EXCEPT ![r] = "queued"]
    /\ work' = [work EXCEPT ![r] = callWork[r]]
    /\ UNCHANGED <<owner, lease, retries, created, clock, callWork, workerVars, replica>>

Insert(r) ==
    /\ InsertRow(r)
    /\ callPc' = [callPc EXCEPT ![r] = "done"]
    /\ result' = [result EXCEPT ![r] = r]
    /\ UNCHANGED faults

(* The row is committed but the acknowledgement never arrives. *)
InsertUnacknowledged(r) ==
    /\ Fault
    /\ InsertRow(r)
    /\ callPc' = [callPc EXCEPT ![r] = "error"]
    /\ UNCHANGED result

(* Mutant of InsertConflict: a conflict taken for a success. *)
AcceptOnConflict(r) ==
    /\ callPc[r] = "insert"
    /\ Conflict(r)
    /\ callPc' = [callPc EXCEPT ![r] = "done"]
    /\ result' = [result EXCEPT ![r] = r]
    /\ UNCHANGED <<created, clock, callWork, tableVars, workerVars, replica, faults>>

InsertConflict(r) ==
    /\ callPc[r] = "insert"
    /\ Conflict(r)
    /\ callPc' = [callPc EXCEPT ![r] = "relookup"]
    /\ UNCHANGED <<created, clock, callWork, result, tableVars, workerVars, replica, faults>>

RelookupExisting(r) == callPc[r] = "relookup" /\ ReturnExisting(r)

(* The conflicting row finished in between: the call fails. *)
RelookupNone(r) ==
    /\ callPc[r] = "relookup"
    /\ ActiveWithKey(r) = {}
    /\ callPc' = [callPc EXCEPT ![r] = "error"]
    /\ UNCHANGED <<created, clock, callWork, result, tableVars, workerVars, replica, faults>>

EnqueueError(r) ==
    /\ Fault
    /\ callPc[r] \in {"lookup", "insert", "relookup"}
    /\ callPc' = [callPc EXCEPT ![r] = "error"]
    /\ UNCHANGED <<created, clock, callWork, result, tableVars, workerVars, replica>>

-----------------------------------------------------------------------------
(* Processes *)

(* Start: every worker of the pool begins its loop. *)
Start(p) ==
    /\ replica[p] = "off"
    /\ replica' = [replica EXCEPT ![p] = "up"]
    /\ pc' = [w \in Workers |-> IF Home[w] = p THEN "idle" ELSE pc[w]]
    /\ UNCHANGED <<tableVars, callVars, job, memWork, memRetries, outcome, lost, faults>>

(* Some other process runs or will be started: the deployment restarts. *)
Replaced(p) == \E q \in Replicas \ {p} : replica[q] \in {"off", "up"}

(* Stop: the pool's context is cancelled; running jobs stay leased. *)
Stop(p) ==
    /\ replica[p] = "up"
    /\ Replaced(p)
    /\ replica' = [replica EXCEPT ![p] = "stopping"]
    /\ UNCHANGED <<tableVars, callVars, workerVars, faults>>

(* The process dies: its workers' memory and open transactions are gone. *)
Crash(p) ==
    /\ replica[p] \in {"up", "stopping"}
    /\ Replaced(p)
    /\ replica' = [replica EXCEPT ![p] = "down"]
    /\ pc' = [w \in Workers |-> IF Home[w] = p THEN "off" ELSE pc[w]]
    /\ job' = [w \in Workers |-> IF Home[w] = p THEN NoJob ELSE job[w]]
    /\ outcome' = [w \in Workers |-> IF Home[w] = p THEN "ok" ELSE outcome[w]]
    /\ lost' = [w \in Workers |-> IF Home[w] = p THEN FALSE ELSE lost[w]]
    /\ memRetries' = [w \in Workers |-> IF Home[w] = p THEN 0 ELSE memRetries[w]]
    /\ memWork' = [w \in Workers |-> IF Home[w] = p THEN Blank ELSE memWork[w]]
    /\ UNCHANGED <<tableVars, callVars, faults>>

(* The loop sees the cancelled context and returns. *)
WorkerExit(w) ==
    /\ pc[w] = "idle"
    /\ replica[Home[w]] = "stopping"
    /\ pc' = [pc EXCEPT ![w] = "off"]
    /\ UNCHANGED <<job, memWork, memRetries, outcome, lost, tableVars, callVars, replica, faults>>

-----------------------------------------------------------------------------
(* claim *)

(* Mutants of Claimable: the lease is not looked at; running rows are not  *)
(* taken back.                                                             *)
ClaimableWhateverLease(j) == TypeOf[j] \notin Passive /\ status[j] \in Active
ClaimableQueuedOnly(j) ==
    /\ TypeOf[j] \notin Passive
    /\ status[j] = "queued"
    /\ lease[j] \in {"null", "past"}

Claimable(j) ==
    /\ TypeOf[j] \notin Passive
    /\ status[j] \in Active
    /\ lease[j] \in {"null", "past"}

(* ORDER BY queued before running, then created_at. *)
Precedes(a, b) ==
    \/ status[a] = "queued" /\ status[b] = "running"
    \/ status[a] = status[b] /\ created[a] < created[b]

(* SELECT ... LIMIT 1 FOR UPDATE SKIP LOCKED *)
ClaimSelect(w) ==
    /\ pc[w] = "idle"
    /\ replica[Home[w]] = "up"
    /\ \E j \in Requests :
         /\ Claimable(j) /\ ~ Locked(j)
         /\ \A k \in Requests : Claimable(k) /\ ~ Locked(k) => ~ Precedes(k, j)
         /\ job' = [job EXCEPT ![w] = j]
    /\ pc' = [pc EXCEPT ![w] = "claiming"]
    /\ UNCHANGED <<memWork, memRetries, outcome, lost, tableVars, callVars, replica, faults>>

(* claim returns the candidate, with the payload it read. *)
TakeCandidate(w) ==
    /\ pc[w] = "claiming"
    /\ pc' = [pc EXCEPT ![w] = "processing"]
    /\ memWork' = [memWork EXCEPT ![w] = work[job[w]]]
    /\ memRetries' = [memRetries EXCEPT ![w] = retries[job[w]]]
    /\ UNCHANGED <<job, outcome, lost, work, retries, callVars, replica>>

ClaimCommit(w) ==
    /\ TakeCandidate(w)
    /\ status' = [status EXCEPT ![job[w]] = "running"]
    /\ owner' = [owner EXCEPT ![job[w]] = w]
    /\ lease' = [lease EXCEPT ![job[w]] = "future"]
    /\ UNCHANGED faults

(* The commit fails, yet claim still reports claimed = true and runWorker  *)
(* processes the job all the same: the row does not name this worker.      *)
ClaimCommitError(w) ==
    /\ Fault
    /\ TakeCandidate(w)
    /\ UNCHANGED <<status, owner, lease>>

(* A statement of the transaction fails, or its context is cancelled. *)
ClaimAbort(w) ==
    /\ pc[w] = "claiming"
    /\ \/ Fault
       \/ replica[Home[w]] # "up" /\ UNCHANGED faults
    /\ ToIdle(w)
    /\ UNCHANGED <<tableVars, callVars, replica>>

-----------------------------------------------------------------------------
(* process *)

Processing(w) == pc[w] = "processing" /\ TypeOf[job[w]] \in Registered

(* No processor is registered for the type: straight to markFailed. *)
NoProcessor(w) ==
    /\ pc[w] = "processing"
    /\ TypeOf[job[w]] \notin Registered
    /\ pc' = [pc EXCEPT ![w] = "failing"]
    /\ UNCHANGED <<job, memWork, memRetries, outcome, lost, tableVars, callVars, replica, faults>>

(* leaseHeartbeat: renewLease, or a lost lease that cancels the processor. *)
Heartbeat(w) ==
    /\ Processing(w) /\ ~ Cancelled(w)
    /\ ~ Locked(job[w])
    /\ IF Owns(w)
       THEN lease' = [lease EXCEPT ![job[w]] = "future"] /\ UNCHANGED lost
       ELSE lost' = [lost EXCEPT ![w] = TRUE] /\ UNCHANGED lease
    /\ UNCHANGED <<status, owner, work, retries, callVars, pc, job, memWork,
                   memRetries, outcome, replica, faults>>

(* The processor changes its copy of the payload. *)
Advance(w, p) ==
    /\ Processing(w)
    /\ memWork' = [memWork EXCEPT ![w] = p]
    /\ UNCHANGED <<pc, job, memRetries, outcome, lost, tableVars, callVars, replica, faults>>

(* The processor returns; its context is cancelled and the heartbeat ends. *)
ReturnWith(w, o) ==
    /\ pc' = [pc EXCEPT ![w] = "returned"]
    /\ outcome' = [outcome EXCEPT ![w] = o]

(* The UPDATE of UpdateProgress on a row this worker still owns. *)
ProgressRow(w, withPayload) ==
    /\ lease' = [lease EXCEPT ![job[w]] = "future"]
    /\ IF withPayload
       THEN /\ work' = [work EXCEPT ![job[w]] = memWork[w]]
            /\ retries' = [retries EXCEPT ![job[w]] = memRetries[w]]
       ELSE UNCHANGED <<work, retries>>
    /\ UNCHANGED <<status, owner>>

(* Mutant of UpdateProgress: the lease_owner condition is dropped. *)
UpdateProgressUnowned(w, withPayload) ==
    /\ Processing(w) /\ ~ Cancelled(w)
    /\ ~ Locked(job[w])
    /\ status[job[w]] = "running"
    /\ ProgressRow(w, withPayload)
    /\ UNCHANGED <<callVars, workerVars, replica, faults>>

UpdateProgress(w, withPayload) ==
    /\ Processing(w) /\ ~ Cancelled(w)
    /\ ~ Locked(job[w])
    /\ Owns(w)
    /\ ProgressRow(w, withPayload)
    /\ UNCHANGED <<callVars, workerVars, replica, faults>>

(* No row matches: the processor returns "lease is no longer owned". *)
UpdateProgressDenied(w) ==
    /\ Processing(w) /\ ~ Cancelled(w)
    /\ ~ Locked(job[w])
    /\ ~ Owns(w)
    /\ ReturnWith(w, "permanent")
    /\ UNCHANGED <<job, memWork, memRetries, lost, tableVars, callVars, replica, faults>>

(* The UPDATE is applied, the connection drops before the answer. *)
UpdateProgressUnacknowledged(w, withPayload) ==
    /\ Fault
    /\ Processing(w) /\ ~ Cancelled(w)
    /\ ~ Locked(job[w])
    /\ Owns(w)
    /\ ProgressRow(w, withPayload)
    /\ ReturnWith(w, "transient")
    /\ UNCHANGED <<job, memWork, memRetries, lost, callVars, replica>>

(* The processor returns of its own accord. *)
Return(w, o) ==
    /\ Processing(w)
    /\ IF o = "requeue" THEN Fault ELSE UNCHANGED faults
    /\ ReturnWith(w, o)
    /\ UNCHANGED <<job, memWork, memRetries, lost, tableVars, callVars, replica>>

-----------------------------------------------------------------------------
(* process, after the processor has returned *)

(* The lease was lost, or the pool is stopping: the row is left as it is. *)
LeaveLeased(w) ==
    /\ pc[w] = "returned"
    /\ lost[w] \/ (outcome[w] # "ok" /\ replica[Home[w]] # "up")
    /\ ToIdle(w)
    /\ UNCHANGED <<tableVars, callVars, replica, faults>>

Returned(w, o) ==
    /\ pc[w] = "returned" /\ outcome[w] = o
    /\ ~ lost[w]
    /\ o # "ok" => replica[Home[w]] = "up"

(* An UPDATE of the row that takes effect only while the worker owns it. *)
Guarded(w, st, ls) ==
    /\ ~ Locked(job[w])
    /\ IF Owns(w)
       THEN /\ status' = [status EXCEPT ![job[w]] = st]
            /\ owner' = [owner EXCEPT ![job[w]] = NoWorker]
            /\ lease' = [lease EXCEPT ![job[w]] = ls]
       ELSE UNCHANGED <<status, owner, lease>>

MarkSucceeded(w) ==
    /\ Returned(w, "ok")
    /\ Guarded(w, "succeeded", "null")
    /\ ToIdle(w)
    /\ UNCHANGED <<work, retries, callVars, replica, faults>>

Requeue(w) ==
    /\ Returned(w, "requeue")
    /\ Guarded(w, "running", "future")
    /\ ToIdle(w)
    /\ UNCHANGED <<work, retries, callVars, replica, faults>>

(* shouldAutoRetry(job) && isTransientError(err), with budget left. *)
Retryable(w) ==
    /\ TypeOf[job[w]] \in AutoRetry
    /\ memRetries[w] + 1 <= MaxTransientRetries

(* The UPDATE of requeueTransient: payload, retry count and delayed lease. *)
RetryRow(w) ==
    /\ Returned(w, "transient") /\ Retryable(w)
    /\ ~ Locked(job[w])
    /\ Owns(w)
    /\ owner' = [owner EXCEPT ![job[w]] = NoWorker]
    /\ lease' = [lease EXCEPT ![job[w]] = "future"]
    /\ work' = [work EXCEPT ![job[w]] = memWork[w]]
    /\ retries' = [retries EXCEPT ![job[w]] = memRetries[w] + 1]
    /\ UNCHANGED <<status, callVars, replica>>

RequeueTransient(w) ==
    /\ RetryRow(w)
    /\ ToIdle(w)
    /\ UNCHANGED faults

(* process falls through to markFailed: no budget, no such type, a         *)
(* permanent error, a row that is no longer owned, or a failed update.     *)
ToFailing(w) ==
    /\ pc' = [pc EXCEPT ![w] = "failing"]
    /\ UNCHANGED <<job, memWork, memRetries, outcome, lost, callVars, replica>>

GiveUp(w) ==
    /\ \/ Returned(w, "permanent")
       \/ /\ Returned(w, "transient")
          /\ Retryable(w) => ~ Locked(job[w]) /\ ~ Owns(w)
    /\ ToFailing(w)
    /\ UNCHANGED <<tableVars, faults>>

RequeueTransientError(w) ==
    /\ Fault
    /\ Returned(w, "transient") /\ Retryable(w)
    /\ ToFailing(w)
    /\ UNCHANGED tableVars

RequeueTransientUnacknowledged(w) ==
    /\ Fault
    /\ RetryRow(w)
    /\ ToFailing(w)

MarkFailed(w) ==
    /\ pc[w] = "failing"
    /\ Guarded(w, "failed", "null")
    /\ ToIdle(w)
    /\ UNCHANGED <<work, retries, callVars, replica, faults>>

(* The final update fails; it is logged and the row stays leased. *)
FinalUpdateError(w) ==
    /\ Fault
    /\ \/ Returned(w, "ok") \/ Returned(w, "requeue")
       \/ pc[w] = "failing"
    /\ ToIdle(w)
    /\ UNCHANGED <<tableVars, callVars, replica>>

-----------------------------------------------------------------------------
(* The holder of the lease is alive and renews it every ten seconds. *)
Renewed(j) ==
    \E w \in Workers :
      /\ owner[j] = w /\ job[w] = j /\ replica[Home[w]] = "up"
      /\ pc[w] \in Busy

(* Time passes the deadline; for a live holder that is a fault: a pause or *)
(* a database outage longer than the lease.                                *)
Expire(j) ==
    /\ lease[j] = "future"
    /\ IF Renewed(j) THEN Fault ELSE UNCHANGED faults
    /\ lease' = [lease EXCEPT ![j] = "past"]
    /\ UNCHANGED <<status, owner, work, retries, callVars, workerVars, replica>>

EnqueueStep(r) ==
    \/ LookupExisting(r) \/ LookupNone(r) \/ Insert(r) \/ InsertConflict(r)
    \/ RelookupExisting(r) \/ RelookupNone(r)

CallFault(r) == InsertUnacknowledged(r) \/ EnqueueError(r)

(* What the worker goroutine does outside the processor. *)
WorkerStep(w) ==
    \/ ClaimSelect(w) \/ ClaimCommit(w) \/ NoProcessor(w) \/ WorkerExit(w)
    \/ LeaveLeased(w) \/ MarkSucceeded(w) \/ Requeue(w) \/ RequeueTransient(w)
    \/ GiveUp(w) \/ MarkFailed(w)

WorkerFault(w) ==
    \/ ClaimCommitError(w) \/ ClaimAbort(w) \/ RequeueTransientError(w)
    \/ RequeueTransientUnacknowledged(w) \/ FinalUpdateError(w)

(* What a processor may do, whatever the job type. *)
ProcessorStep(w) ==
    \/ \E p \in Payloads : Advance(w, p)
    \/ \E b \in BOOLEAN : UpdateProgress(w, b) \/ UpdateProgressUnacknowledged(w, b)
    \/ UpdateProgressDenied(w)
    \/ \E o \in Outcomes : Return(w, o)

ReplicaStep(p) == Start(p) \/ Stop(p) \/ Crash(p)

Next ==
    \/ \E r \in Requests : \/ \E p \in Payloads : Submit(r, p)
                           \/ EnqueueStep(r) \/ CallFault(r) \/ Expire(r)
    \/ \E w \in Workers : \/ WorkerStep(w) \/ WorkerFault(w)
                          \/ Heartbeat(w) \/ ProcessorStep(w)
    \/ \E p \in Replicas : ReplicaStep(p)

Spec == Init /\ [][Next]_vars

(* Time that passes a deadline nobody renews. *)
ExpireAbandoned(j) == ~ Renewed(j) /\ Expire(j)

(* Goroutines are scheduled, a processor returns, time passes, a process   *)
(* that is to be started starts.  Faults, crashes, shutdowns and callers   *)
(* owe nothing.                                                            *)
Fairness ==
    /\ \A w \in Workers : /\ WF_vars(WorkerStep(w))
                          /\ WF_vars(\E o \in Outcomes \ {"requeue"} : Return(w, o))
    /\ \A r \in Requests : WF_vars(ExpireAbandoned(r))
    /\ \A p \in Replicas : WF_vars(Start(p))

FairSpec == Spec /\ Fairness

-----------------------------------------------------------------------------
(* Properties *)

(* Duplicate work is never active twice: among the queued and running rows *)
(* a non-empty dedupe key occurs once, whatever Enqueue calls race and     *)
(* however stale workers and claims interleave (Enqueue, migration 108).   *)
OneActivePerKey ==
    \A q, r \in Requests :
      /\ KeyOf[q] # NoKey /\ KeyOf[q] = KeyOf[r]
      /\ status[q] \in Active /\ status[r] \in Active
      => q = r

(* A call of Enqueue that reports success has a row behind it under its    *)
(* own key: a row is persisted before the call returns.                    *)
AcceptedIsDurable ==
    \A r \in Requests : callPc[r] = "done" =>
      /\ result[r] \in Requests
      /\ status[result[r]] # "none"
      /\ KeyOf[result[r]] = KeyOf[r]

(* A row a claim has locked stays claimable until the claim ends, and no   *)
(* second claim selects it (FOR UPDATE SKIP LOCKED).                       *)
ClaimIsExclusive ==
    \A v, w \in Workers : pc[w] = "claiming" =>
      /\ Claimable(job[w])
      /\ pc[v] = "claiming" /\ job[v] = job[w] => v = w

(* A worker that still owns the row it processes has the retry count the   *)
(* row has, so no write of its payload can move the count backwards.       *)
OwnerHasCurrentCount ==
    \A w \in Workers :
      pc[w] \in Busy /\ Owns(w) => memRetries[w] = retries[job[w]]

(* Who works on a row: the state is well-formed, a claim holds its row     *)
(* alone, and the worker that owns a row has the count of the row, through *)
(* expired leases, failed commits and crashes (claim, leaseHeartbeat).     *)
OwnershipIsSound == TypeOK /\ ClaimIsExclusive /\ OwnerHasCurrentCount

(* A finished job never becomes active again and never changes its         *)
(* verdict, whatever a worker that lost its lease still does.              *)
TerminalIsFinal ==
    [][\A r \in Requests : status[r] \in Terminal => status'[r] = status[r]]_vars

(* Only the worker the row names ends a job, and it has been processing    *)
(* that job: a worker whose lease was taken over changes nothing.          *)
OnlyOwnerFinishes ==
    [][\A r \in Requests :
         status[r] \notin Terminal /\ status'[r] \in Terminal
         => \E w \in Workers : /\ owner[r] = w /\ job[w] = r
                              /\ pc[w] \in {"returned", "failing"}]_vars

(* The retry budget is spent monotonically: no write of a stale payload    *)
(* gives attempts back (transient_retry_count lives in the payload).       *)
RetriesNeverReset ==
    [][\A r \in Requests : retries'[r] >= retries[r]]_vars

(* Every queued job of an executable type ends, through lost leases,       *)
(* crashes and restarts of its workers.                                    *)
EveryJobEnds ==
    \A r \in Requests :
      TypeOf[r] \notin Passive =>
        (status[r] = "queued" ~> status[r] \in Terminal)

(* What the queue promises whatever its leases and workers do: JobContract *)
(* with a lease that is not running seen as a free row.                    *)
Contract == INSTANCE JobContract WITH
    phase <- status,
    holder <- owner,
    free <- {r \in Requests : lease[r] \in {"null", "past"}},
    tries <- retries,
    MaxTries <- MaxTransientRetries

ImplementsContract == Contract!Spec
=============================================================================
