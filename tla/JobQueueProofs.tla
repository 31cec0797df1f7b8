--------------------------- MODULE JobQueueProofs ---------------------------
(***************************************************************************)
(* Proofs about JobQueue for any number of requests, workers, replicas and *)
(* payloads, any retry budget and any number of faults.                    *)
(***************************************************************************)
EXTENDS JobQueue, TLAPS

(* A worker past the selection of a candidate has one. *)
JobHeld ==
    \A w \in Workers :
      pc[w] \in {"claiming", "processing", "returned", "failing"} => job[w] \in Requests

(* The unwritten payload is a payload. *)
LEMMA BlankInPayloads == Blank \in Payloads
  BY ConstantsAssumption DEF Blank

(* The empty table and the stopped pools are well typed. *)
LEMMA InitType == Init => TypeOK /\ JobHeld
  BY ConstantsAssumption, BlankInPayloads DEF Init, TypeOK, JobHeld, Active, Terminal, Outcomes

(* Every step keeps the types, and a busy worker keeps its job. *)
LEMMA TypeStep == TypeOK /\ JobHeld /\ [Next]_vars => TypeOK' /\ JobHeld'
<1> SUFFICES ASSUME TypeOK, JobHeld, [Next]_vars
             PROVE  TypeOK' /\ JobHeld'
  OBVIOUS
<1> USE ConstantsAssumption, BlankInPayloads DEF tableVars, callVars, workerVars
<1>1. ASSUME NEW r \in Requests, NEW p \in Payloads, Submit(r, p)
      PROVE  TypeOK' /\ JobHeld'
  BY <1>1 DEF Submit, TypeOK, JobHeld
<1>2. ASSUME NEW r \in Requests, Expire(r)
      PROVE  TypeOK' /\ JobHeld'
  BY <1>2 DEF Expire, Fault, TypeOK, JobHeld
<1>3. ASSUME NEW w \in Workers, Heartbeat(w)
      PROVE  TypeOK' /\ JobHeld'
  BY <1>3 DEF Heartbeat, TypeOK, JobHeld
<1>4. ASSUME NEW r \in Requests, EnqueueStep(r)
      PROVE  TypeOK' /\ JobHeld'
  <2>1. CASE LookupExisting(r)
    BY <2>1 DEF LookupExisting, ReturnExisting, ActiveWithKey, TypeOK, JobHeld, Active
  <2>2. CASE LookupNone(r)
    BY <2>2 DEF LookupNone, TypeOK, JobHeld
  <2>3. CASE Insert(r)
    BY <2>3 DEF Insert, InsertRow, TypeOK, JobHeld, Active
  <2>4. CASE InsertConflict(r)
    BY <2>4 DEF InsertConflict, TypeOK, JobHeld, Active
  <2>5. CASE RelookupExisting(r)
    BY <2>5 DEF RelookupExisting, ReturnExisting, ActiveWithKey, TypeOK, JobHeld, Active
  <2>6. CASE RelookupNone(r)
    BY <2>6 DEF RelookupNone, TypeOK, JobHeld
  <2> QED
    BY <1>4, <2>1, <2>2, <2>3, <2>4, <2>5, <2>6 DEF EnqueueStep
<1>5. ASSUME NEW r \in Requests, CallFault(r)
      PROVE  TypeOK' /\ JobHeld'
  <2>1. CASE InsertUnacknowledged(r)
    BY <2>1 DEF InsertUnacknowledged, InsertRow, Fault, TypeOK, JobHeld, Active
  <2>2. CASE EnqueueError(r)
    BY <2>2 DEF EnqueueError, Fault, TypeOK, JobHeld
  <2> QED
    BY <1>5, <2>1, <2>2 DEF CallFault
<1>6. ASSUME NEW w \in Workers, WorkerStep(w)
      PROVE  TypeOK' /\ JobHeld'
  <2>1. CASE ClaimSelect(w)
    BY <2>1 DEF ClaimSelect, TypeOK, JobHeld
  <2>2. CASE ClaimCommit(w)
    BY <2>2 DEF ClaimCommit, TakeCandidate, TypeOK, JobHeld, Active
  <2>3. CASE NoProcessor(w)
    BY <2>3 DEF NoProcessor, TypeOK, JobHeld
  <2>4. CASE WorkerExit(w)
    BY <2>4 DEF WorkerExit, TypeOK, JobHeld
  <2>5. CASE LeaveLeased(w)
    BY <2>5 DEF LeaveLeased, ToIdle, TypeOK, JobHeld, Outcomes
  <2>6. CASE MarkSucceeded(w)
    BY <2>6 DEF MarkSucceeded, Guarded, Returned, ToIdle, TypeOK, JobHeld, Terminal, Active, Outcomes
  <2>7. CASE Requeue(w)
    BY <2>7 DEF Requeue, Guarded, Returned, ToIdle, TypeOK, JobHeld, Terminal, Active, Outcomes
  <2>8. CASE RequeueTransient(w)
    BY <2>8 DEF RequeueTransient, RetryRow, Retryable, Returned, ToIdle, TypeOK, JobHeld, Outcomes
  <2>9. CASE GiveUp(w)
    BY <2>9 DEF GiveUp, ToFailing, Returned, TypeOK, JobHeld
  <2>10. CASE MarkFailed(w)
    BY <2>10 DEF MarkFailed, Guarded, ToIdle, TypeOK, JobHeld, Terminal, Active, Outcomes
  <2> QED
    BY <1>6, <2>1, <2>2, <2>3, <2>4, <2>5, <2>6, <2>7, <2>8, <2>9, <2>10 DEF WorkerStep
<1>7. ASSUME NEW w \in Workers, WorkerFault(w)
      PROVE  TypeOK' /\ JobHeld'
  <2>1. CASE ClaimCommitError(w)
    BY <2>1 DEF ClaimCommitError, TakeCandidate, Fault, TypeOK, JobHeld
  <2>2. CASE ClaimAbort(w)
    BY <2>2 DEF ClaimAbort, ToIdle, Fault, TypeOK, JobHeld, Outcomes
  <2>3. CASE RequeueTransientError(w)
    BY <2>3 DEF RequeueTransientError, Returned, ToFailing, Fault, TypeOK, JobHeld
  <2>4. CASE RequeueTransientUnacknowledged(w)
    BY <2>4 DEF RequeueTransientUnacknowledged, RetryRow, Retryable, Returned, ToFailing, Fault, TypeOK, JobHeld
  <2>5. CASE FinalUpdateError(w)
    BY <2>5 DEF FinalUpdateError, ToIdle, Fault, Returned, TypeOK, JobHeld, Outcomes
  <2> QED
    BY <1>7, <2>1, <2>2, <2>3, <2>4, <2>5 DEF WorkerFault
<1>8. ASSUME NEW p \in Replicas, ReplicaStep(p)
      PROVE  TypeOK' /\ JobHeld'
  <2>1. CASE Start(p)
    BY <2>1 DEF Start, TypeOK, JobHeld
  <2>2. CASE Stop(p)
    BY <2>2 DEF Stop, TypeOK, JobHeld
  <2>3. CASE Crash(p)
    <3>1. /\ pc' \in [Workers -> {"off", "idle", "claiming", "processing", "returned", "failing"}]
          /\ job' \in [Workers -> Requests \cup {NoJob}]
          /\ memRetries' \in [Workers -> 0 .. MaxTransientRetries]
          /\ memWork' \in [Workers -> Payloads]
      BY <2>3 DEF Crash, TypeOK
    <3>2. /\ outcome' \in [Workers -> Outcomes]
          /\ lost' \in [Workers -> BOOLEAN]
          /\ replica' \in [Replicas -> {"off", "up", "stopping", "down"}]
      BY <2>3 DEF Crash, TypeOK, Outcomes
    <3>3. JobHeld'
      BY <2>3 DEF Crash, JobHeld, TypeOK
    <3> QED
      BY <2>3, <3>1, <3>2, <3>3 DEF Crash, TypeOK
  <2> QED
    BY <1>8, <2>1, <2>2, <2>3 DEF ReplicaStep
<1>9. ASSUME NEW w \in Workers, ProcessorStep(w)
      PROVE  TypeOK' /\ JobHeld'
  <2>1. ASSUME NEW p \in Payloads, Advance(w, p)
        PROVE  TypeOK' /\ JobHeld'
    BY <2>1 DEF Advance, TypeOK, JobHeld
  <2>2. CASE UpdateProgressDenied(w)
    BY <2>2 DEF UpdateProgressDenied, ReturnWith, Processing, TypeOK, JobHeld, Outcomes
  <2>3. ASSUME NEW b \in BOOLEAN, UpdateProgress(w, b)
        PROVE  TypeOK' /\ JobHeld'
    BY <2>3 DEF UpdateProgress, ProgressRow, Processing, TypeOK, JobHeld
  <2>4. ASSUME NEW b \in BOOLEAN, UpdateProgressUnacknowledged(w, b)
        PROVE  TypeOK' /\ JobHeld'
    <3>1. /\ lease' \in [Requests -> {"null", "future", "past"}]
          /\ work' \in [Requests -> Payloads]
          /\ retries' \in [Requests -> 0 .. MaxTransientRetries]
          /\ UNCHANGED <<status, owner>>
      BY <2>4 DEF UpdateProgressUnacknowledged, ProgressRow, Processing, TypeOK, JobHeld
    <3>2. /\ pc' = [pc EXCEPT ![w] = "returned"]
          /\ outcome' = [outcome EXCEPT ![w] = "transient"]
          /\ pc[w] = "processing"
          /\ faults' \in 0 .. MaxFaults
          /\ UNCHANGED <<job, memWork, memRetries, lost, callVars, replica>>
      BY <2>4 DEF UpdateProgressUnacknowledged, ReturnWith, Processing, Fault, TypeOK
    <3> QED
      BY <3>1, <3>2 DEF TypeOK, JobHeld, Outcomes
  <2>5. ASSUME NEW o \in Outcomes, Return(w, o)
        PROVE  TypeOK' /\ JobHeld'
    BY <2>5 DEF Return, ReturnWith, Processing, Fault, TypeOK, JobHeld
  <2> QED
    BY <1>9, <2>1, <2>2, <2>3, <2>4, <2>5 DEF ProcessorStep
<1>10. CASE UNCHANGED vars
  BY <1>10 DEF vars, TypeOK, JobHeld
<1> QED
  BY <1>1, <1>2, <1>3, <1>4, <1>5, <1>6, <1>7, <1>8, <1>9, <1>10 DEF Next

(* Every variable keeps its type, and a worker between its claim and its  *)
(* final update always has a job (claim to markSucceeded / markFailed).    *)
THEOREM TypeCorrect == Spec => [](TypeOK /\ JobHeld)
<1>1. Init => TypeOK /\ JobHeld
  BY InitType
<1>2. TypeOK /\ JobHeld /\ [Next]_vars => (TypeOK /\ JobHeld)'
  BY TypeStep
<1> QED
  BY <1>1, <1>2, PTL DEF Spec

-----------------------------------------------------------------------------
(* What one step does to the table, to one worker and to one call. *)

ProgressWrite(w) ==
    /\ pc[w] = "processing" /\ ~ Locked(job[w]) /\ Owns(w)
    /\ lease' = [lease EXCEPT ![job[w]] = "future"]
    /\ UNCHANGED <<status, owner>>
    /\ \/ UNCHANGED retries
       \/ retries' = [retries EXCEPT ![job[w]] = memRetries[w]]

FinalWrite(w) ==
    /\ pc[w] \in {"returned", "failing"} /\ ~ Locked(job[w]) /\ Owns(w)
    /\ \/ /\ \E st \in Terminal : status' = [status EXCEPT ![job[w]] = st]
          /\ lease' = [lease EXCEPT ![job[w]] = "null"]
       \/ /\ status' = [status EXCEPT ![job[w]] = "running"]
          /\ lease' = [lease EXCEPT ![job[w]] = "future"]
    /\ owner' = [owner EXCEPT ![job[w]] = NoWorker]
    /\ UNCHANGED retries

TableEffect ==
    \/ UNCHANGED <<status, owner, lease, retries>>
    \/ \E r \in Requests : Insert(r) \/ InsertUnacknowledged(r)
    \/ \E r \in Requests : Expire(r)
    \/ \E w \in Workers : ClaimCommit(w)
    \/ \E w \in Workers : ProgressWrite(w)
    \/ \E w \in Workers : RetryRow(w)
    \/ \E w \in Workers : FinalWrite(w)

(* What any step can do to the table is one of the writes of TableEffect. *)
LEMMA TableStep == [Next]_vars => TableEffect
<1> SUFFICES ASSUME [Next]_vars PROVE TableEffect
  OBVIOUS
<1> USE DEF tableVars
<1>1. ASSUME NEW r \in Requests, \/ \E p \in Payloads : Submit(r, p)
                                 \/ EnqueueStep(r) \/ CallFault(r) \/ Expire(r)
      PROVE  TableEffect
  BY <1>1 DEF TableEffect, Submit, EnqueueStep, CallFault, LookupExisting, LookupNone, Insert,
     InsertConflict, RelookupExisting, RelookupNone, ReturnExisting, InsertUnacknowledged, EnqueueError
<1>2. ASSUME NEW w \in Workers, WorkerStep(w)
      PROVE  TableEffect
  BY <1>2 DEF TableEffect, WorkerStep, ClaimSelect, NoProcessor, WorkerExit, LeaveLeased,
     MarkSucceeded, Requeue, RequeueTransient, GiveUp, MarkFailed, Guarded, Returned, FinalWrite, Terminal
<1>3. ASSUME NEW w \in Workers, WorkerFault(w)
      PROVE  TableEffect
  BY <1>3 DEF TableEffect, WorkerFault, ClaimCommitError, TakeCandidate, ClaimAbort, RequeueTransientError,
     RequeueTransientUnacknowledged, FinalUpdateError
<1>4. ASSUME NEW w \in Workers, Heartbeat(w) \/ ProcessorStep(w)
      PROVE  TableEffect
  BY <1>4 DEF TableEffect, Heartbeat, ProcessorStep, Advance, UpdateProgress, UpdateProgressDenied,
     UpdateProgressUnacknowledged, Return, ProgressRow, ProgressWrite, Processing
<1>5. ASSUME NEW p \in Replicas, ReplicaStep(p)
      PROVE  TableEffect
  BY <1>5 DEF TableEffect, ReplicaStep, Start, Stop, Crash
<1>6. CASE UNCHANGED vars
  BY <1>6 DEF TableEffect, vars
<1> QED
  BY <1>1, <1>2, <1>3, <1>4, <1>5, <1>6 DEF Next

(* A step of worker w seen from the outside: how it can come to hold a     *)
(* locked row, and how it can come to process a job.                       *)
WorkerEffect(w) ==
    /\ pc'[w] = "claiming" =>
         \/ pc[w] = "claiming" /\ job'[w] = job[w]
         \/ ClaimSelect(w)
    /\ pc'[w] \in Busy =>
         \/ pc[w] \in Busy /\ job'[w] = job[w] /\ memRetries'[w] = memRetries[w]
         \/ TakeCandidate(w)

(* What any step can do to one worker's job and retry count. *)
LEMMA WorkerEffects ==
  ASSUME TypeOK, [Next]_vars, NEW w \in Workers
  PROVE  WorkerEffect(w)
<1> USE DEF workerVars, Busy
<1>1. ASSUME NEW r \in Requests, \/ \E p \in Payloads : Submit(r, p)
                                 \/ EnqueueStep(r) \/ CallFault(r) \/ Expire(r)
      PROVE  WorkerEffect(w)
  <2>1. UNCHANGED workerVars
    BY <1>1 DEF Submit, EnqueueStep, CallFault, LookupExisting, LookupNone, Insert, InsertConflict,
       RelookupExisting, RelookupNone, ReturnExisting, InsertRow, InsertUnacknowledged, EnqueueError, Expire
  <2> QED
    BY <2>1 DEF WorkerEffect
<1>2. ASSUME NEW v \in Workers, WorkerStep(v)
      PROVE  WorkerEffect(w)
  <2>1. CASE ClaimSelect(v) \/ ClaimCommit(v) \/ NoProcessor(v) \/ WorkerExit(v) \/ GiveUp(v)
    BY <2>1 DEF WorkerEffect, ClaimSelect, ClaimCommit, TakeCandidate, NoProcessor, WorkerExit, GiveUp,
       ToFailing, Returned, TypeOK
  <2>2. CASE \/ LeaveLeased(v) \/ MarkSucceeded(v) \/ Requeue(v) \/ RequeueTransient(v) \/ MarkFailed(v)
    BY <2>2 DEF WorkerEffect, LeaveLeased, MarkSucceeded, Requeue, RequeueTransient, MarkFailed, ToIdle, TypeOK
  <2> QED
    BY <1>2, <2>1, <2>2 DEF WorkerStep
<1>3. ASSUME NEW v \in Workers, WorkerFault(v)
      PROVE  WorkerEffect(w)
  <2>1. CASE ClaimCommitError(v) \/ RequeueTransientError(v) \/ RequeueTransientUnacknowledged(v)
    BY <2>1 DEF WorkerEffect, ClaimCommitError, TakeCandidate, RequeueTransientError,
       RequeueTransientUnacknowledged, RetryRow, Returned, ToFailing, TypeOK
  <2>2. CASE ClaimAbort(v) \/ FinalUpdateError(v)
    BY <2>2 DEF WorkerEffect, ClaimAbort, FinalUpdateError, ToIdle, TypeOK
  <2> QED
    BY <1>3, <2>1, <2>2 DEF WorkerFault
<1>4. ASSUME NEW v \in Workers, Heartbeat(v) \/ ProcessorStep(v)
      PROVE  WorkerEffect(w)
  BY <1>4 DEF WorkerEffect, Heartbeat, ProcessorStep, Advance, UpdateProgress, UpdateProgressDenied,
     UpdateProgressUnacknowledged, Return, ReturnWith, Processing, TypeOK
<1>5. ASSUME NEW p \in Replicas, ReplicaStep(p)
      PROVE  WorkerEffect(w)
  <2>1. CASE Start(p)
    BY <2>1 DEF WorkerEffect, Start, TypeOK
  <2>2. CASE Stop(p)
    BY <2>2 DEF WorkerEffect, Stop
  <2>3. CASE Crash(p)
    <3>1. CASE Home[w] = p
      BY <2>3, <3>1 DEF WorkerEffect, Crash
    <3>2. CASE Home[w] # p
      BY <2>3, <3>2 DEF WorkerEffect, Crash
    <3> QED
      BY <3>1, <3>2
  <2> QED
    BY <1>5, <2>1, <2>2, <2>3 DEF ReplicaStep
<1>6. CASE UNCHANGED vars
  BY <1>6 DEF WorkerEffect, vars
<1> QED
  BY <1>1, <1>2, <1>3, <1>4, <1>5, <1>6 DEF Next

(* How a call can come to report success; a call that has returned stays   *)
(* returned.                                                               *)
CallEffect(r) ==
    /\ callPc'[r] = "done" =>
         \/ callPc[r] = "done" /\ result'[r] = result[r]
         \/ ReturnExisting(r)
         \/ Insert(r)
    /\ callPc[r] \in {"done", "error"} => callPc'[r] = callPc[r]

(* What any step can do to one Enqueue call. *)
LEMMA CallEffects ==
  ASSUME TypeOK, [Next]_vars, NEW r \in Requests
  PROVE  CallEffect(r)
<1> USE DEF callVars
<1>1. ASSUME NEW q \in Requests, NEW p \in Payloads, Submit(q, p)
      PROVE  CallEffect(r)
  BY <1>1 DEF CallEffect, Submit, TypeOK
<1>2. ASSUME NEW q \in Requests, EnqueueStep(q)
      PROVE  CallEffect(r)
  <2>1. CASE LookupExisting(q) \/ RelookupExisting(q)
    BY <2>1 DEF CallEffect, LookupExisting, RelookupExisting, ReturnExisting, TypeOK
  <2>2. CASE Insert(q)
    BY <2>2 DEF CallEffect, Insert, InsertRow, TypeOK
  <2>3. CASE LookupNone(q) \/ InsertConflict(q) \/ RelookupNone(q)
    BY <2>3 DEF CallEffect, LookupNone, InsertConflict, RelookupNone, TypeOK
  <2> QED
    BY <1>2, <2>1, <2>2, <2>3 DEF EnqueueStep
<1>3. ASSUME NEW q \in Requests, CallFault(q)
      PROVE  CallEffect(r)
  BY <1>3 DEF CallEffect, CallFault, InsertUnacknowledged, InsertRow, EnqueueError, TypeOK
<1>4. ASSUME callPc' = callPc, result' = result
      PROVE  CallEffect(r)
  BY <1>4 DEF CallEffect
<1>5. ASSUME NEW q \in Requests, Expire(q)
      PROVE  CallEffect(r)
  BY <1>4, <1>5 DEF Expire
<1>6. ASSUME NEW w \in Workers, \/ WorkerStep(w) \/ WorkerFault(w) \/ Heartbeat(w) \/ ProcessorStep(w)
      PROVE  CallEffect(r)
  <2>1. callPc' = callPc /\ result' = result
    BY <1>6 DEF WorkerStep, WorkerFault, ProcessorStep, ClaimSelect, ClaimCommit, TakeCandidate,
       NoProcessor, WorkerExit, LeaveLeased, MarkSucceeded, Requeue, RequeueTransient, RetryRow, GiveUp,
       ToFailing, MarkFailed, ClaimCommitError, ClaimAbort, RequeueTransientError,
       RequeueTransientUnacknowledged, FinalUpdateError, Heartbeat, Advance, UpdateProgress,
       UpdateProgressDenied, UpdateProgressUnacknowledged, Return
  <2> QED
    BY <1>4, <2>1
<1>7. ASSUME NEW p \in Replicas, ReplicaStep(p)
      PROVE  CallEffect(r)
  BY <1>4, <1>7 DEF ReplicaStep, Start, Stop, Crash
<1>8. CASE UNCHANGED vars
  BY <1>4, <1>8 DEF vars
<1> QED
  BY <1>1, <1>2, <1>3, <1>5, <1>6, <1>7, <1>8 DEF Next

-----------------------------------------------------------------------------
(* Safety *)

(* No step makes a row that a claim has locked unclaimable, except the     *)
(* commit of that claim.                                                   *)
LEMMA LockedStaysClaimable ==
  ASSUME TypeOK, JobHeld, ClaimIsExclusive, [Next]_vars,
         NEW j \in Requests,
         NEW w \in Workers, pc[w] = "claiming", job[w] = j, pc'[w] = "claiming"
  PROVE  Claimable(j)'
<1>1. Claimable(j) /\ Locked(j)
  BY DEF ClaimIsExclusive, Locked
<1>2. TableEffect
  BY TableStep
<1> USE <1>1 DEF Claimable, Active
<1>3. CASE UNCHANGED <<status, owner, lease, retries>>
  BY <1>3
<1>4. ASSUME NEW r \in Requests, Insert(r) \/ InsertUnacknowledged(r)
      PROVE  Claimable(j)'
  BY <1>4 DEF Insert, InsertUnacknowledged, InsertRow, TypeOK
<1>5. ASSUME NEW r \in Requests, Expire(r)
      PROVE  Claimable(j)'
  BY <1>5 DEF Expire, TypeOK
<1>6. ASSUME NEW u \in Workers, ClaimCommit(u)
      PROVE  Claimable(j)'
  <2>1. u # w /\ pc[u] = "claiming"
    BY <1>6 DEF ClaimCommit, TakeCandidate, TypeOK
  <2>2. job[u] # j
    BY <2>1 DEF ClaimIsExclusive
  <2> QED
    BY <1>6, <2>1, <2>2 DEF ClaimCommit, TypeOK
<1>7. ASSUME NEW u \in Workers, ProgressWrite(u)
      PROVE  Claimable(j)'
  BY <1>7 DEF ProgressWrite, TypeOK
<1>8. ASSUME NEW u \in Workers, RetryRow(u)
      PROVE  Claimable(j)'
  BY <1>8 DEF RetryRow, TypeOK
<1>9. ASSUME NEW u \in Workers, FinalWrite(u)
      PROVE  Claimable(j)'
  <2>1. job[u] # j
    BY <1>9 DEF FinalWrite
  <2> QED
    BY <1>9, <2>1 DEF FinalWrite, TypeOK
<1> QED
  BY <1>2, <1>3, <1>4, <1>5, <1>6, <1>7, <1>8, <1>9 DEF TableEffect

(* Every step keeps claims exclusive. *)
LEMMA ExclusiveStep ==
  ASSUME TypeOK, JobHeld, ClaimIsExclusive, [Next]_vars
  PROVE  ClaimIsExclusive'
<1>1. ASSUME NEW w \in Workers, ClaimSelect(w)
      PROVE  /\ job'[w] \in Requests /\ Claimable(job[w])' /\ ~ Locked(job'[w])
             /\ \A v \in Workers \ {w} : pc'[v] = pc[v] /\ job'[v] = job[v]
  <2>1. PICK j \in Requests : Claimable(j) /\ ~ Locked(j) /\ job' = [job EXCEPT ![w] = j]
    BY <1>1 DEF ClaimSelect
  <2>2. pc' = [pc EXCEPT ![w] = "claiming"] /\ status' = status /\ lease' = lease
    BY <1>1 DEF ClaimSelect, tableVars
  <2> QED
    BY <2>1, <2>2 DEF Claimable, TypeOK
<1>2. ASSUME NEW w \in Workers, pc'[w] = "claiming", ~ ClaimSelect(w)
      PROVE  pc[w] = "claiming" /\ job'[w] = job[w] /\ Claimable(job[w])'
  <2>1. pc[w] = "claiming" /\ job'[w] = job[w] /\ job[w] \in Requests
    BY <1>2, WorkerEffects DEF WorkerEffect, JobHeld
  <2>2. PICK j \in Requests : j = job[w]
    BY <2>1
  <2>3. Claimable(j)'
    BY <1>2, <2>1, <2>2, LockedStaysClaimable
  <2> QED
    BY <2>1, <2>2, <2>3 DEF Claimable
<1>3. ASSUME NEW v \in Workers, NEW w \in Workers,
             pc'[v] = "claiming", pc'[w] = "claiming", job'[v] = job'[w]
      PROVE  v = w
  <2>1. CASE ClaimSelect(w)
    BY <1>1, <1>3, <2>1 DEF Locked
  <2>2. CASE ClaimSelect(v)
    BY <1>1, <1>3, <2>2 DEF Locked
  <2>3. CASE ~ ClaimSelect(v) /\ ~ ClaimSelect(w)
    BY <1>2, <1>3, <2>3 DEF ClaimIsExclusive
  <2> QED
    BY <2>1, <2>2, <2>3
<1>4. \A w \in Workers : pc'[w] = "claiming" => Claimable(job[w])'
  BY <1>1, <1>2
<1> QED
  BY <1>3, <1>4 DEF ClaimIsExclusive

(* A call that has not returned has inserted nothing. *)
Fresh == \A r \in Requests : callPc[r] \notin {"done", "error"} => status[r] = "none"

SInv == TypeOK /\ JobHeld /\ ClaimIsExclusive /\ Fresh

(* The only ways the status of a row changes. *)
StatusEffect(r) ==
    \/ status'[r] = status[r]
    \/ status[r] \in Active /\ status'[r] \in Active
    \/ /\ status[r] = "none" /\ status'[r] = "queued"
       /\ Insert(r) \/ InsertUnacknowledged(r)
    \/ /\ status[r] = "running" /\ status'[r] \in Terminal
       /\ \E w \in Workers : FinalWrite(w) /\ job[w] = r

(* The only status changes: insert, claim commit, final update. *)
LEMMA StatusStep ==
  ASSUME SInv, [Next]_vars, NEW r \in Requests
  PROVE  StatusEffect(r)
<1> USE DEF SInv, Active, Terminal
<1>1. TableEffect
  BY TableStep
<1>2. CASE UNCHANGED <<status, owner, lease, retries>>
  BY <1>2 DEF StatusEffect
<1>3. ASSUME NEW q \in Requests, Insert(q) \/ InsertUnacknowledged(q)
      PROVE  StatusEffect(r)
  BY <1>3 DEF StatusEffect, Insert, InsertUnacknowledged, InsertRow, Fresh, TypeOK
<1>4. ASSUME NEW q \in Requests, Expire(q)
      PROVE  StatusEffect(r)
  BY <1>4 DEF StatusEffect, Expire
<1>5. ASSUME NEW w \in Workers, ClaimCommit(w)
      PROVE  StatusEffect(r)
  <2>1. status[job[w]] \in Active
    BY <1>5 DEF ClaimCommit, TakeCandidate, ClaimIsExclusive, Claimable
  <2> QED
    BY <1>5, <2>1 DEF StatusEffect, ClaimCommit, TypeOK
<1>6. ASSUME NEW w \in Workers, ProgressWrite(w)
      PROVE  StatusEffect(r)
  BY <1>6 DEF StatusEffect, ProgressWrite
<1>7. ASSUME NEW w \in Workers, RetryRow(w)
      PROVE  StatusEffect(r)
  BY <1>7 DEF StatusEffect, RetryRow
<1>8. ASSUME NEW w \in Workers, FinalWrite(w)
      PROVE  StatusEffect(r)
  <2>1. status[job[w]] = "running" /\ job[w] \in Requests
    BY <1>8 DEF FinalWrite, Owns, JobHeld
  <2>2. CASE job[w] = r
    BY <1>8, <2>1, <2>2 DEF StatusEffect, FinalWrite, TypeOK
  <2>3. CASE job[w] # r
    BY <1>8, <2>1, <2>3 DEF StatusEffect, FinalWrite, TypeOK
  <2> QED
    BY <2>2, <2>3
<1> QED
  BY <1>1, <1>2, <1>3, <1>4, <1>5, <1>6, <1>7, <1>8 DEF TableEffect

(* A call that has not returned has inserted no row. *)
LEMMA FreshStep ==
  ASSUME SInv, [Next]_vars
  PROVE  Fresh'
<1> SUFFICES ASSUME NEW r \in Requests, callPc'[r] \notin {"done", "error"}
             PROVE  status'[r] = "none"
  BY DEF Fresh
<1>1. callPc[r] \notin {"done", "error"}
  BY CallEffects DEF CallEffect, SInv
<1>2. status[r] = "none"
  BY <1>1 DEF SInv, Fresh
<1>3. ~ (Insert(r) \/ InsertUnacknowledged(r))
  BY DEF Insert, InsertUnacknowledged, SInv, TypeOK
<1> QED
  BY <1>2, <1>3, StatusStep DEF StatusEffect, Active

(* SInv is inductive. *)
LEMMA SafetyStep == SInv /\ [Next]_vars => SInv'
  BY TypeStep, ExclusiveStep, FreshStep DEF SInv

(* SInv holds in every reachable state. *)
LEMMA SafetyInvariant == Spec => []SInv
<1>1. Init => SInv
  BY InitType DEF Init, SInv, ClaimIsExclusive, Fresh
<1> QED
  BY <1>1, SafetyStep, PTL DEF Spec

(* A claimed row stays claimable and locked by one claim until the claim   *)
(* commits or is abandoned.                                                *)
THEOREM ClaimsAreExclusive == Spec => []ClaimIsExclusive
<1>1. SInv => ClaimIsExclusive
  BY DEF SInv
<1> QED
  BY <1>1, SafetyInvariant, PTL

(* A finished job keeps its verdict, for any number of stale workers. *)
THEOREM FinishedStaysFinished == Spec => TerminalIsFinal
<1>1. SInv /\ [Next]_vars =>
        [\A r \in Requests : status[r] \in Terminal => status'[r] = status[r]]_vars
  BY StatusStep DEF StatusEffect, Active, Terminal
<1> QED
  BY <1>1, SafetyInvariant, PTL DEF Spec, TerminalIsFinal

(* A job is ended only by the worker its row names. *)
THEOREM FinishedByItsOwner == Spec => OnlyOwnerFinishes
<1>1. ASSUME SInv, [Next]_vars, NEW r \in Requests, status[r] \notin Terminal, status'[r] \in Terminal
      PROVE  \E w \in Workers : owner[r] = w /\ job[w] = r /\ pc[w] \in {"returned", "failing"}
  <2>1. PICK w \in Workers : FinalWrite(w) /\ job[w] = r
    BY <1>1, StatusStep DEF StatusEffect, Active, Terminal
  <2> QED
    BY <2>1 DEF FinalWrite, Owns
<1>2. SInv /\ [Next]_vars =>
        [\A r \in Requests :
           status[r] \notin Terminal /\ status'[r] \in Terminal
           => \E w \in Workers : /\ owner[r] = w /\ job[w] = r
                                /\ pc[w] \in {"returned", "failing"}]_vars
  BY <1>1
<1> QED
  BY <1>2, SafetyInvariant, PTL DEF Spec, OnlyOwnerFinishes

(* Two active rows never share a dedupe key. *)
THEOREM ActiveKeysAreUnique == Spec => []OneActivePerKey
<1>1. Init => OneActivePerKey
  BY DEF Init, OneActivePerKey, Active
<1>2. ASSUME SInv, OneActivePerKey, [Next]_vars
      PROVE  OneActivePerKey'
  <2> SUFFICES ASSUME NEW q \in Requests, NEW r \in Requests,
                      KeyOf[q] # NoKey, KeyOf[q] = KeyOf[r],
                      status'[q] \in Active, status'[r] \in Active
               PROVE  q = r
    BY DEF OneActivePerKey
  <2>1. /\ status[q] \in Active \/ Insert(q) \/ InsertUnacknowledged(q)
        /\ status[r] \in Active \/ Insert(r) \/ InsertUnacknowledged(r)
    BY <1>2, StatusStep DEF StatusEffect, Active, Terminal
  <2>2. CASE status[q] \in Active /\ status[r] \in Active
    BY <1>2, <2>2 DEF OneActivePerKey
  <2>3. ASSUME NEW x \in Requests, NEW y \in Requests, Insert(x) \/ InsertUnacknowledged(x),
               KeyOf[x] # NoKey, KeyOf[x] = KeyOf[y], status'[y] \in Active
        PROVE  x = y
    <3>1. status' = [status EXCEPT ![x] = "queued"] /\ ~ Conflict(x)
      BY <2>3 DEF Insert, InsertUnacknowledged, InsertRow
    <3> QED
      BY <1>2, <2>3, <3>1 DEF Conflict, ActiveWithKey, SInv, TypeOK
  <2> QED
    BY <2>1, <2>2, <2>3
<1>3. UNCHANGED vars /\ OneActivePerKey => OneActivePerKey'
  BY DEF vars, tableVars, OneActivePerKey
<1> QED
  BY <1>1, <1>2, <1>3, SafetyInvariant, PTL DEF Spec

(* Success is reported only for a row that exists, under the caller's key. *)
THEOREM AcceptedWorkIsDurable == Spec => []AcceptedIsDurable
<1>1. Init => AcceptedIsDurable
  BY DEF Init, AcceptedIsDurable
<1>2. ASSUME SInv, AcceptedIsDurable, [Next]_vars
      PROVE  AcceptedIsDurable'
  <2> SUFFICES ASSUME NEW r \in Requests, callPc'[r] = "done"
               PROVE  /\ result'[r] \in Requests
                      /\ status'[result'[r]] # "none"
                      /\ KeyOf[result'[r]] = KeyOf[r]
    BY DEF AcceptedIsDurable
  <2>1. CASE callPc[r] = "done" /\ result'[r] = result[r]
    <3>1. /\ result[r] \in Requests
          /\ status[result[r]] # "none"
          /\ KeyOf[result[r]] = KeyOf[r]
      BY <1>2, <2>1 DEF AcceptedIsDurable
    <3>2. status'[result[r]] # "none"
      BY <1>2, <3>1, StatusStep DEF StatusEffect, Active, Terminal
    <3> QED
      BY <2>1, <3>1, <3>2
  <2>2. CASE ReturnExisting(r)
    BY <1>2, <2>2 DEF ReturnExisting, ActiveWithKey, tableVars, Active, SInv, TypeOK
  <2>3. CASE Insert(r)
    BY <1>2, <2>3 DEF Insert, InsertRow, SInv, TypeOK
  <2> QED
    BY <1>2, <2>1, <2>2, <2>3, CallEffects DEF CallEffect, SInv
<1>3. UNCHANGED vars /\ AcceptedIsDurable => AcceptedIsDurable'
  BY DEF vars, tableVars, callVars, AcceptedIsDurable
<1> QED
  BY <1>1, <1>2, <1>3, SafetyInvariant, PTL DEF Spec

-----------------------------------------------------------------------------
(* The retry count *)

(* Every step keeps the owner's retry count equal to the row's. *)
LEMMA CountStep ==
  ASSUME SInv, OwnerHasCurrentCount, [Next]_vars
  PROVE  OwnerHasCurrentCount'
<1> SUFFICES ASSUME NEW w \in Workers, pc'[w] \in Busy, Owns(w)'
             PROVE  memRetries'[w] = retries'[job'[w]]
  BY DEF OwnerHasCurrentCount
<1>1. CASE TakeCandidate(w)
  BY <1>1 DEF TakeCandidate, SInv, TypeOK
<1>2. CASE pc[w] \in Busy /\ job'[w] = job[w] /\ memRetries'[w] = memRetries[w]
  <2>1. PICK j \in Requests : j = job[w]
    BY <1>2 DEF SInv, JobHeld, Busy
  <2>2. status'[j] = "running" /\ owner'[j] = w
    BY <1>2, <2>1 DEF Owns
  <2>3. ASSUME status[j] = "running", owner[j] = w, retries'[j] = retries[j]
        PROVE  memRetries'[w] = retries'[job'[w]]
    BY <1>2, <2>1, <2>3 DEF OwnerHasCurrentCount, Owns
  <2>4. TableEffect
    BY TableStep
  <2>5. CASE UNCHANGED <<status, owner, lease, retries>>
    BY <2>2, <2>3, <2>5
  <2>6. ASSUME NEW r \in Requests, Insert(r) \/ InsertUnacknowledged(r)
        PROVE  memRetries'[w] = retries'[job'[w]]
    BY <2>2, <2>3, <2>6 DEF Insert, InsertUnacknowledged, InsertRow, SInv, TypeOK
  <2>7. ASSUME NEW r \in Requests, Expire(r)
        PROVE  memRetries'[w] = retries'[job'[w]]
    BY <2>2, <2>3, <2>7 DEF Expire
  <2>8. ASSUME NEW u \in Workers, ClaimCommit(u)
        PROVE  memRetries'[w] = retries'[job'[w]]
    <3>1. u # w /\ job[u] \in Requests
      BY <1>2, <2>8 DEF ClaimCommit, TakeCandidate, Busy, SInv, JobHeld
    <3>2. job[u] # j
      BY <2>2, <2>8, <3>1 DEF ClaimCommit, SInv, TypeOK
    <3> QED
      BY <2>2, <2>3, <2>8, <3>2 DEF ClaimCommit, TakeCandidate, SInv, TypeOK
  <2>9. ASSUME NEW u \in Workers, ProgressWrite(u)
        PROVE  memRetries'[w] = retries'[job'[w]]
    <3>1. CASE job[u] = j
      <4>1. u = w /\ status[j] = "running" /\ owner[j] = w
        BY <2>2, <2>9, <3>1 DEF ProgressWrite, Owns
      <4>2. retries'[j] = retries[j] \/ retries'[j] = memRetries[w]
        BY <2>9, <3>1, <4>1 DEF ProgressWrite, SInv, TypeOK
      <4> QED
        BY <1>2, <2>1, <2>3, <4>1, <4>2
    <3>2. CASE job[u] # j
      BY <2>2, <2>3, <2>9, <3>2 DEF ProgressWrite, SInv, TypeOK
    <3> QED
      BY <3>1, <3>2
  <2>10. ASSUME NEW u \in Workers, RetryRow(u)
         PROVE  memRetries'[w] = retries'[job'[w]]
    <3>1. job[u] # j
      BY <2>2, <2>10, ConstantsAssumption DEF RetryRow, SInv, TypeOK
    <3> QED
      BY <2>2, <2>3, <2>10, <3>1 DEF RetryRow, SInv, TypeOK
  <2>11. ASSUME NEW u \in Workers, FinalWrite(u)
         PROVE  memRetries'[w] = retries'[job'[w]]
    <3>1. job[u] # j
      BY <2>2, <2>11, ConstantsAssumption DEF FinalWrite, SInv, TypeOK
    <3> QED
      BY <2>2, <2>3, <2>11, <3>1 DEF FinalWrite, SInv, TypeOK
  <2> QED
    BY <2>4, <2>5, <2>6, <2>7, <2>8, <2>9, <2>10, <2>11 DEF TableEffect
<1> QED
  BY <1>1, <1>2, WorkerEffects DEF WorkerEffect, SInv

(* The full inductive invariant. *)
IInv == SInv /\ OwnerHasCurrentCount

(* IInv is inductive. *)
LEMMA IInvStep == IInv /\ [Next]_vars => IInv'
  BY SafetyStep, CountStep DEF IInv

(* IInv holds in every reachable state. *)
LEMMA Invariant == Spec => []IInv
<1>1. Init => IInv
  BY InitType DEF Init, IInv, SInv, ClaimIsExclusive, Fresh, OwnerHasCurrentCount, Busy
<1> QED
  BY <1>1, IInvStep, PTL DEF Spec

(* The owner of a row works from the retry count the row has. *)
THEOREM OwnerCountIsCurrent == Spec => []OwnerHasCurrentCount
<1>1. IInv => OwnerHasCurrentCount
  BY DEF IInv
<1> QED
  BY <1>1, Invariant, PTL

(* All three parts of it, for any number of workers, jobs and faults. *)
THEOREM OwnershipHolds == Spec => []OwnershipIsSound
<1>1. IInv => OwnershipIsSound
  BY DEF IInv, SInv, OwnershipIsSound
<1> QED
  BY <1>1, Invariant, PTL

(* What a progress write stores is the count the row already has. *)
LEMMA ProgressKeepsCount ==
  ASSUME IInv, NEW w \in Workers, ProgressWrite(w)
  PROVE  retries' = retries
<1>1. memRetries[w] = retries[job[w]]
  BY DEF IInv, ProgressWrite, OwnerHasCurrentCount, Busy
<1> QED
  BY <1>1 DEF ProgressWrite, IInv, SInv, TypeOK

(* What a transient retry stores is that count plus one, within budget. *)
LEMMA RetryAddsOne ==
  ASSUME IInv, NEW w \in Workers, RetryRow(w)
  PROVE  /\ retries[job[w]] < MaxTransientRetries
         /\ retries' = [retries EXCEPT ![job[w]] = retries[job[w]] + 1]
<1>1. memRetries[w] = retries[job[w]]
  BY DEF IInv, RetryRow, Returned, OwnerHasCurrentCount, Busy
<1>2. job[w] \in Requests
  BY DEF IInv, SInv, JobHeld, RetryRow, Returned
<1> QED
  BY <1>1, <1>2, ConstantsAssumption DEF RetryRow, Retryable, IInv, SInv, TypeOK

(* Retry attempts are never handed back. *)
THEOREM RetriesOnlyGrow == Spec => RetriesNeverReset
<1>1. ASSUME IInv, [Next]_vars, NEW r \in Requests
      PROVE  retries'[r] >= retries[r]
  <2>1. retries[r] \in Nat
    BY <1>1, ConstantsAssumption DEF IInv, SInv, TypeOK
  <2>2. TableEffect
    BY <1>1, TableStep
  <2>3. ASSUME NEW w \in Workers, RetryRow(w)
        PROVE  retries'[r] >= retries[r]
    BY <1>1, <2>1, <2>3, RetryAddsOne DEF IInv, SInv, TypeOK
  <2>4. ASSUME NEW w \in Workers, ProgressWrite(w)
        PROVE  retries'[r] >= retries[r]
    BY <1>1, <2>1, <2>4, ProgressKeepsCount
  <2>5. CASE retries' = retries
    BY <2>1, <2>5
  <2> QED
    BY <2>2, <2>3, <2>4, <2>5 DEF TableEffect, Insert, InsertUnacknowledged, InsertRow, Expire,
       ClaimCommit, TakeCandidate, FinalWrite
<1>2. IInv /\ [Next]_vars => [\A r \in Requests : retries'[r] >= retries[r]]_vars
  BY <1>1
<1> QED
  BY <1>2, Invariant, PTL DEF Spec, RetriesNeverReset

-----------------------------------------------------------------------------
(* Refinement *)

(* Every step of the queue is a step of the contract or stutters there. *)
LEMMA ContractStep ==
  ASSUME IInv, [Next]_vars
  PROVE  [Contract!Next]_(Contract!cvars)
<1> USE DEF Contract!cvars
<1>1. TableEffect
  BY TableStep
<1>2. TypeOK
  BY DEF IInv, SInv
<1>3. CASE UNCHANGED <<status, owner, lease, retries>>
  BY <1>3
<1>4. ASSUME NEW r \in Requests, Insert(r) \/ InsertUnacknowledged(r)
      PROVE  Contract!Next
  <2>1. /\ status[r] = "none" /\ ~ Conflict(r)
        /\ status' = [status EXCEPT ![r] = "queued"]
        /\ UNCHANGED <<owner, lease, retries>>
    BY <1>4 DEF Insert, InsertUnacknowledged, InsertRow, IInv, SInv, Fresh
  <2>2. Contract!Accept(r)
    BY <2>1 DEF Contract!Accept, Conflict, ActiveWithKey, Active
  <2> QED
    BY <2>2 DEF Contract!Next
<1>5. ASSUME NEW r \in Requests, Expire(r)
      PROVE  Contract!Next
  <2>1. Contract!Expire(r)
    BY <1>2, <1>5 DEF Contract!Expire, Expire, TypeOK
  <2> QED
    BY <2>1 DEF Contract!Next
<1>6. ASSUME NEW w \in Workers, ClaimCommit(w)
      PROVE  Contract!Next
  <2>1. PICK j \in Requests : j = job[w]
    BY <1>6 DEF ClaimCommit, TakeCandidate, IInv, SInv, JobHeld
  <2>2. status[j] \in Active /\ lease[j] \in {"null", "past"}
    BY <1>6, <2>1 DEF ClaimCommit, TakeCandidate, IInv, SInv, ClaimIsExclusive, Claimable
  <2>3. Contract!Take(j, w)
    BY <1>2, <1>6, <2>1, <2>2 DEF Contract!Take, ClaimCommit, TakeCandidate, Active, TypeOK
  <2> QED
    BY <2>3 DEF Contract!Next
<1>7. ASSUME NEW w \in Workers, ProgressWrite(w)
      PROVE  Contract!Next
  <2>1. PICK j \in Requests : j = job[w]
    BY <1>7 DEF ProgressWrite, IInv, SInv, JobHeld
  <2>2. Contract!Renew(j)
    BY <1>2, <1>7, <2>1, ProgressKeepsCount
       DEF Contract!Renew, Contract!Held, ProgressWrite, Owns, TypeOK
  <2> QED
    BY <2>2 DEF Contract!Next
<1>8. ASSUME NEW w \in Workers, RetryRow(w)
      PROVE  Contract!Next
  <2>1. PICK j \in Requests : j = job[w]
    BY <1>8 DEF RetryRow, Returned, IInv, SInv, JobHeld
  <2>2. /\ retries[j] < MaxTransientRetries
        /\ retries' = [retries EXCEPT ![j] = retries[j] + 1]
    BY <1>8, <2>1, RetryAddsOne
  <2>3. Contract!Release(j)
    BY <1>2, <1>8, <2>1, <2>2 DEF Contract!Release, Contract!Held, RetryRow, Owns, TypeOK
  <2> QED
    BY <2>3 DEF Contract!Next
<1>9. ASSUME NEW w \in Workers, FinalWrite(w)
      PROVE  Contract!Next
  <2>1. PICK j \in Requests : j = job[w]
    BY <1>9 DEF FinalWrite, IInv, SInv, JobHeld
  <2>2. Contract!Held(j) /\ owner' = [owner EXCEPT ![j] = NoWorker] /\ UNCHANGED retries
    BY <1>9, <2>1 DEF FinalWrite, Owns, Contract!Held
  <2>3. CASE /\ \E st \in Terminal : status' = [status EXCEPT ![j] = st]
             /\ lease' = [lease EXCEPT ![j] = "null"]
    <3>1. Contract!Finish(j)
      BY <1>2, <2>2, <2>3 DEF Contract!Finish, TypeOK, Terminal
    <3> QED
      BY <3>1 DEF Contract!Next
  <2>4. CASE /\ status' = [status EXCEPT ![j] = "running"]
             /\ lease' = [lease EXCEPT ![j] = "future"]
    <3>1. status' = status
      BY <1>2, <2>2, <2>4 DEF Contract!Held, TypeOK
    <3>2. Contract!Release(j)
      BY <1>2, <2>2, <2>4, <3>1 DEF Contract!Release, TypeOK
    <3> QED
      BY <3>2 DEF Contract!Next
  <2> QED
    BY <1>9, <2>1, <2>3, <2>4 DEF FinalWrite
<1> QED
  BY <1>1, <1>3, <1>4, <1>5, <1>6, <1>7, <1>8, <1>9 DEF TableEffect

(* The queue keeps the contract of JobContract. *)
THEOREM QueueKeepsContract == Spec => ImplementsContract
<1>1. Init => Contract!Init
  BY DEF Init, Contract!Init
<1>2. IInv /\ [Next]_vars => [Contract!Next]_(Contract!cvars)
  BY ContractStep
<1> QED
  BY <1>1, <1>2, Invariant, PTL DEF Spec, ImplementsContract, Contract!Spec
=============================================================================
