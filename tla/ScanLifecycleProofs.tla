------------------------ MODULE ScanLifecycleProofs ------------------------
(***************************************************************************)
(* Proofs about ScanLifecycle for any number of scans, processes, workers, *)
(* queue entries, cancellations and faults.                                *)
(***************************************************************************)
EXTENDS ScanLifecycle, WellFoundedInduction, FiniteSetTheorems, TLAPS

(* A set of numbers has a least one. *)
LEMMA LeastNumber ==
  ASSUME NEW T \in SUBSET Nat, T # {}
  PROVE  \E x \in T : \A y \in T : x <= y
<1> DEFINE R == {ss \in Nat \X Nat : ss[1] < ss[2]}
<1>1. IsWellFoundedOn(R, Nat)
  BY NatLessThanWellFounded DEF OpToRel
<1>2. PICK x \in T : \A y \in T : <<y, x>> \notin R
  BY <1>1, WFMin
<1>3. ASSUME NEW y \in T PROVE x <= y
  <2>1. <<y, x>> \notin R /\ <<y, x>> \in Nat \X Nat
    BY <1>2
  <2>2. ~ (<<y, x>>[1] < <<y, x>>[2])
    BY <2>1
  <2> QED
    BY <2>2
<1> QED
  BY <1>3

(* ORDER BY created_at yields a row whenever there are any. *)
LEMMA OldestIsRow ==
  ASSUME created \in [Scans -> Nat], NEW rows \in SUBSET Scans, rows # {}
  PROVE  Oldest(rows) \in rows
<1> DEFINE T == {created[s] : s \in rows}
<1>1. T \in SUBSET Nat /\ T # {}
  OBVIOUS
<1>2. PICK x \in T : \A y \in T : x <= y
  BY <1>1, LeastNumber
<1>3. \E s \in rows : \A t \in rows : created[s] <= created[t]
  BY <1>2
<1> QED
  BY <1>3 DEF Oldest

-----------------------------------------------------------------------------
(* Types *)

(* A recovery pass that is queueing a row has that row in its batch. *)
PassHasRow ==
    \A p \in Replicas : enq[p] \in {"reserve", "step", "send"} => batch[p] # {}

WellTyped == TypeOK /\ PassHasRow

(* A process that is down has no workers. *)
StoppedWorkers ==
    \A w \in Workers : replica[Home[w]] = "off" => pc[w] = "off"

(* What is being queued is a scan. *)
LEMMA TargetIsScan ==
  ASSUME WellTyped, NEW e \in Enqueuers, enq[e] \in {"reserve", "step", "send"}
  PROVE  Target(e) \in Scans
<1>1. CASE e \in Scans
  BY <1>1 DEF Target
<1>2. CASE e \notin Scans
  <2>1. e \in Replicas /\ batch[e] # {} /\ batch[e] \in SUBSET Scans
    BY <1>2 DEF Enqueuers, WellTyped, TypeOK, PassHasRow
  <2> QED
    BY <1>2, <2>1, OldestIsRow DEF Target, WellTyped, TypeOK
<1> QED
  BY <1>1, <1>2

(* Ending a call leaves the batches sets of scans, and each pass that is   *)
(* queueing a row with that row.                                           *)
LEMMA EnqueuedEffect ==
  ASSUME WellTyped, NEW e \in Enqueuers, NEW ok \in BOOLEAN, Enqueued(e, ok)
  PROVE  /\ enq' \in [Enqueuers ->
                        {"idle", "next", "reserve", "step", "send", "marking"}]
         /\ batch' \in [Replicas -> SUBSET Scans]
         /\ home' = home
         /\ PassHasRow'
<1>1. \A p \in Replicas : p \notin Scans
  BY ScanConstants
<1>2. CASE e \in Scans
  <2>1. enq' = [enq EXCEPT ![e] = "idle"] /\ home' = home /\ batch' = batch
    BY <1>2 DEF Enqueued
  <2>2. \A p \in Replicas : enq'[p] = enq[p]
    BY <1>1, <1>2, <2>1 DEF WellTyped, TypeOK, Enqueuers
  <2> QED
    BY <2>1, <2>2 DEF WellTyped, TypeOK, PassHasRow
<1>3. CASE e \notin Scans
  <2>1. e \in Replicas
    BY <1>3 DEF Enqueuers
  <2>2. enq' = [enq EXCEPT ![e] = "next"] /\ home' = home
    BY <1>3 DEF Enqueued
  <2>3. /\ batch' \in [Replicas -> SUBSET Scans]
        /\ \A p \in Replicas \ {e} : batch'[p] = batch[p]
    <3>1. batch[e] \in SUBSET Scans /\ batch \in [Replicas -> SUBSET Scans]
      BY <2>1 DEF WellTyped, TypeOK
    <3>2. PICK rows \in SUBSET Scans : batch' = [batch EXCEPT ![e] = rows]
      <4> DEFINE left == IF ok \/ replica[e] = "starting" THEN batch[e] \ {Target(e)} ELSE {}
      <4>1. batch' = [batch EXCEPT ![e] = left]
        BY <1>3 DEF Enqueued
      <4>2. left \in SUBSET Scans
        BY <3>1
      <4> HIDE DEF left
      <4> QED
        BY <4>1, <4>2
    <3> QED
      BY <3>1, <3>2
  <2>4. PassHasRow'
    BY <2>2, <2>3 DEF WellTyped, TypeOK, PassHasRow, Enqueuers
  <2>5. enq' \in [Enqueuers -> {"idle", "next", "reserve", "step", "send", "marking"}]
    BY <2>2 DEF WellTyped, TypeOK
  <2> QED
    BY <2>2, <2>3, <2>4, <2>5
<1> QED
  BY <1>2, <1>3

(* There is nothing at first. *)
LEMMA InitTypes == Init => WellTyped
  BY ScanConstants DEF Init, WellTyped, TypeOK, PassHasRow, Active, Terminal, Enqueuers

(* A conditional update keeps the rows well typed. *)
LEMMA TransitionTypes ==
  ASSUME TypeOK, NEW s \in Scans, NEW from, NEW to \in Terminal, Transition(s, from, to)
  PROVE  /\ status' \in [Scans -> {"none"} \cup Active \cup Terminal]
         /\ step' \in [Scans -> {"queued", "working"} \cup Terminal]
         /\ fresh' \in [Scans -> BOOLEAN]
  BY DEF TypeOK, Transition

(* A worker that leaves is idle and has no scan. *)
LEMMA LeaveTypes ==
  ASSUME TypeOK, NEW w \in Workers, NEW cleanup, Leave(w, cleanup)
  PROVE  /\ pc' \in [Workers -> {"off", "idle", "loaded", "finishing"} \cup Running]
         /\ scan' \in [Workers -> Scans \cup {NoScan}]
         /\ \A v \in Workers : pc'[v] \in {"off", "idle"} <=> scan'[v] = NoScan
         /\ cancelled' \in [Workers -> BOOLEAN]
         /\ archives' \subseteq Uploaded
  BY DEF TypeOK, Leave

(* A busy worker has a scan. *)
LEMMA BusyHasScan ==
  ASSUME TypeOK, NEW w \in Workers, pc[w] \notin {"off", "idle"}
  PROVE  scan[w] \in Scans
  BY DEF TypeOK

(* Requests that queue their scan, and recovery, keep the types. *)
LEMMA EnqueueTypes ==
  ASSUME WellTyped, NEW e \in Enqueuers, EnqueueStep(e) \/ EnqueueError(e)
  PROVE  WellTyped'
<1> USE DEF rowVars, toldVars, queueVars, workerVars, cancelVars
<1>1. \A p \in Replicas : p \notin Scans
  BY ScanConstants
<1>2. ASSUME EnqueueFails(e), enq[e] \in {"step", "send"}, faults' \in 0 .. MaxFaults
      PROVE  WellTyped'
  <2>1. queued' \in [Replicas -> SUBSET Scans]
    BY <1>2 DEF EnqueueFails, Unreserve, WellTyped, TypeOK
  <2>2. /\ enq' \in [Enqueuers -> {"idle", "next", "reserve", "step", "send", "marking"}]
        /\ batch' \in [Replicas -> SUBSET Scans]
        /\ home' = home
        /\ PassHasRow'
    <3>1. CASE e \in Scans
      BY <1>1, <1>2, <3>1 DEF EnqueueFails, WellTyped, TypeOK, PassHasRow, Enqueuers
    <3>2. CASE e \notin Scans
      BY <1>2, <3>2, EnqueuedEffect DEF EnqueueFails
    <3> QED
      BY <3>1, <3>2
  <2> QED
    BY <1>2, <2>1, <2>2 DEF EnqueueFails, WellTyped, TypeOK
<1>3. CASE Reserve(e)
  <2>1. Target(e) \in Scans
    BY <1>3, TargetIsScan DEF Reserve
  <2>2. CASE Target(e) \in queued[At(e)]
    BY <1>3, <2>2, EnqueuedEffect DEF Reserve, WellTyped, TypeOK
  <2>3. CASE Target(e) \notin queued[At(e)]
    <3>1. queued' \in [Replicas -> SUBSET Scans]
      <4>1. queued \in [Replicas -> SUBSET Scans]
        BY DEF WellTyped, TypeOK
      <4>2. queued' = [queued EXCEPT ![At(e)] = @ \cup {Target(e)}]
        BY <1>3, <2>3 DEF Reserve
      <4> QED
        BY <2>1, <4>1, <4>2
    <3>2. /\ enq' \in [Enqueuers -> {"idle", "next", "reserve", "step", "send", "marking"}]
          /\ PassHasRow'
      <4>1. enq' = [enq EXCEPT ![e] = "step"] /\ enq[e] = "reserve" /\ batch' = batch
        BY <1>3, <2>3 DEF Reserve
      <4> QED
        BY <4>1 DEF WellTyped, TypeOK, PassHasRow, Enqueuers
    <3> QED
      BY <1>3, <2>3, <3>1, <3>2 DEF Reserve, WellTyped, TypeOK
  <2> QED
    BY <2>2, <2>3
<1>4. CASE SetQueued(e)
  <2>1. Target(e) \in Scans
    BY <1>4, TargetIsScan DEF SetQueued
  <2>2. /\ step' \in [Scans -> {"queued", "working"} \cup Terminal]
        /\ fresh' \in [Scans -> BOOLEAN] /\ status' = status
    BY <1>4, <2>1 DEF SetQueued, UpdateStep, WellTyped, TypeOK
  <2>3. /\ enq' \in [Enqueuers -> {"idle", "next", "reserve", "step", "send", "marking"}]
        /\ PassHasRow'
    BY <1>4 DEF SetQueued, WellTyped, TypeOK, PassHasRow
  <2> QED
    BY <1>4, <2>2, <2>3 DEF SetQueued, WellTyped, TypeOK
<1>5. CASE SetQueuedFinalized(e)
  BY <1>2, <1>5 DEF SetQueuedFinalized, WellTyped, TypeOK
<1>6. CASE Send(e)
  <2>1. Target(e) \in Scans
    BY <1>6, TargetIsScan DEF Send
  <2>2. CASE Len(queue[At(e)]) < Capacity
    <3>1. queue' \in [Replicas -> Seq(Scans)]
      <4>1. queue \in [Replicas -> Seq(Scans)]
        BY DEF WellTyped, TypeOK
      <4>2. queue' = [queue EXCEPT ![At(e)] = Append(@, Target(e))]
        BY <1>6, <2>2 DEF Send
      <4>3. CASE At(e) \in Replicas
        <5>1. Append(queue[At(e)], Target(e)) \in Seq(Scans)
          BY <2>1, <4>1, <4>3
        <5> QED
          BY <4>1, <4>2, <5>1
      <4>4. CASE At(e) \notin Replicas
        BY <4>1, <4>2, <4>4
      <4> QED
        BY <4>3, <4>4
    <3> QED
      BY <1>6, <2>2, <3>1, EnqueuedEffect DEF Send, WellTyped, TypeOK
  <2>3. CASE ~ (Len(queue[At(e)]) < Capacity)
    <3>1. queued' \in [Replicas -> SUBSET Scans]
      <4>1. queued \in [Replicas -> SUBSET Scans]
        BY DEF WellTyped, TypeOK
      <4>2. queued' = [queued EXCEPT ![At(e)] = @ \ {Target(e)}]
        BY <1>6, <2>3 DEF Send, Unreserve
      <4> QED
        BY <4>1, <4>2
    <3> QED
      BY <1>6, <2>3, <3>1, EnqueuedEffect DEF Send, WellTyped, TypeOK
  <2> QED
    BY <2>2, <2>3
<1>7. CASE EnqueueError(e)
  <2>1. faults' \in 0 .. MaxFaults
    BY <1>7, ScanConstants DEF EnqueueError, Fault, WellTyped, TypeOK
  <2> QED
    BY <1>2, <1>7, <2>1 DEF EnqueueError
<1> QED
  BY <1>3, <1>4, <1>5, <1>6, <1>7 DEF EnqueueStep

(* A request whose scan could not be queued marks it as failed. *)
LEMMA MarkingTypes ==
  ASSUME WellTyped, NEW s \in Scans, MarkScanFailed(s) \/ MarkScanFailedError(s)
  PROVE  WellTyped'
<1> USE DEF rowVars, toldVars, queueVars, workerVars, cancelVars
<1>1. \A p \in Replicas : p \notin Scans
  BY ScanConstants
<1>2. /\ enq' \in [Enqueuers -> {"idle", "next", "reserve", "step", "send", "marking"}]
      /\ batch' = batch
      /\ PassHasRow'
  BY <1>1 DEF MarkScanFailed, MarkScanFailedError, WellTyped, TypeOK, PassHasRow, Enqueuers
<1>3. CASE MarkScanFailed(s)
  <2>1. /\ status' \in [Scans -> {"none"} \cup Active \cup Terminal]
        /\ step' \in [Scans -> {"queued", "working"} \cup Terminal]
        /\ fresh' \in [Scans -> BOOLEAN]
        /\ callback' \in [Scans -> BOOLEAN]
    <3>1. CASE status[s] \in Active
      BY <1>3, <3>1, TransitionTypes DEF MarkScanFailed, WellTyped, TypeOK, Terminal
    <3>2. CASE status[s] \notin Active
      BY <1>3, <3>2 DEF MarkScanFailed, WellTyped, TypeOK
    <3> QED
      BY <3>1, <3>2
  <2> QED
    BY <1>2, <1>3, <2>1 DEF MarkScanFailed, WellTyped, TypeOK
<1>4. CASE MarkScanFailedError(s)
  <2>1. faults' \in 0 .. MaxFaults
    BY <1>4, ScanConstants DEF MarkScanFailedError, Fault, WellTyped, TypeOK
  <2> QED
    BY <1>2, <1>4, <2>1 DEF MarkScanFailedError, WellTyped, TypeOK
<1> QED
  BY <1>3, <1>4

(* Recovery keeps the types. *)
LEMMA RecoveryTypes ==
  ASSUME WellTyped, StoppedWorkers, NEW p \in Replicas,
         \/ Start(p) \/ RecoverySelect(p) \/ RecoveryNext(p) \/ RecoveryEnds(p) \/ StartupDone(p)
  PROVE  WellTyped'
<1> USE DEF rowVars, toldVars, queueVars, workerVars, cancelVars
<1>1. p \in Enqueuers /\ p \notin Scans
  BY ScanConstants DEF Enqueuers
<1>2. Pending \in SUBSET Scans
  BY DEF Pending
<1>3. CASE Start(p)
  <2>1. /\ step' \in [Scans -> {"queued", "working"} \cup Terminal]
        /\ fresh' \in [Scans -> BOOLEAN]
    BY <1>3 DEF Start, WellTyped, TypeOK
  <2>2. /\ pc' \in [Workers -> {"off", "idle", "loaded", "finishing"} \cup Running]
        /\ \A w \in Workers : pc'[w] \in {"off", "idle"} <=> scan[w] = NoScan
    BY <1>3 DEF Start, WellTyped, TypeOK, StoppedWorkers
  <2>3. /\ enq' \in [Enqueuers -> {"idle", "next", "reserve", "step", "send", "marking"}]
        /\ batch' \in [Replicas -> SUBSET Scans]
        /\ replica' \in [Replicas -> {"off", "starting", "up"}]
        /\ PassHasRow'
    BY <1>1, <1>2, <1>3 DEF Start, WellTyped, TypeOK, PassHasRow
  <2> QED
    BY <1>3, <2>1, <2>2, <2>3 DEF Start, WellTyped, TypeOK
<1>4. CASE RecoverySelect(p)
  <2>1. PICK rows \in SUBSET Scans : batch' = [batch EXCEPT ![p] = rows]
    BY <1>2, <1>4 DEF RecoverySelect
  <2>2. batch' \in [Replicas -> SUBSET Scans]
    BY <2>1 DEF WellTyped, TypeOK
  <2>3. /\ enq' \in [Enqueuers -> {"idle", "next", "reserve", "step", "send", "marking"}]
        /\ PassHasRow'
    BY <1>4 DEF RecoverySelect, WellTyped, TypeOK, PassHasRow, Enqueuers
  <2> QED
    BY <1>4, <2>2, <2>3 DEF RecoverySelect, WellTyped, TypeOK
<1>5. CASE RecoveryNext(p)
  <2>1. /\ enq' \in [Enqueuers -> {"idle", "next", "reserve", "step", "send", "marking"}]
        /\ batch' \in [Replicas -> SUBSET Scans]
        /\ PassHasRow'
    <3>1. CASE enq' = [enq EXCEPT ![p] = "reserve"] /\ batch' = batch
      BY <1>1, <1>5, <3>1 DEF RecoveryNext, WellTyped, TypeOK, PassHasRow, Enqueuers
    <3>2. CASE batch' = [batch EXCEPT ![p] = @ \ {Target(p)}] /\ enq' = enq
      <4>1. enq[p] = "next"
        BY <1>5 DEF RecoveryNext
      <4> QED
        BY <3>2, <4>1 DEF WellTyped, TypeOK, PassHasRow
    <3> QED
      BY <1>5, <3>1, <3>2 DEF RecoveryNext
  <2> QED
    BY <1>5, <2>1 DEF RecoveryNext, WellTyped, TypeOK
<1>6. CASE RecoveryEnds(p)
  BY <1>1, <1>6 DEF RecoveryEnds, WellTyped, TypeOK, PassHasRow
<1>7. CASE StartupDone(p)
  BY <1>1, <1>7 DEF StartupDone, WellTyped, TypeOK, PassHasRow
<1> QED
  BY <1>3, <1>4, <1>5, <1>6, <1>7

(* Workers keep the types.  A step writes some of the row, the worker's    *)
(* own state, the queue of its process and what was told.                  *)
LEMMA WorkerTypes ==
  ASSUME WellTyped, NEW w \in Workers,
         WorkerStep(w) \/ Heartbeat(w) \/ ClaimError(w) \/ ConfirmError(w) \/ SaveError(w)
  PROVE  WellTyped'
<1> USE ScanConstants
    DEF Unchanged, rowVars, toldVars, queueVars, enqVars, workerVars, cancelVars
<1> DEFINE Steps == {"off", "idle", "loaded", "finishing"} \cup Running
           RowTypes == /\ status' \in [Scans -> {"none"} \cup Active \cup Terminal]
                       /\ step' \in [Scans -> {"queued", "working"} \cup Terminal]
                       /\ fresh' \in [Scans -> BOOLEAN]
           OwnTypes == /\ pc' \in [Workers -> Steps]
                       /\ scan' \in [Workers -> Scans \cup {NoScan}]
                       /\ \A v \in Workers : pc'[v] \in {"off", "idle"} <=> scan'[v] = NoScan
                       /\ cancelled' \in [Workers -> BOOLEAN]
                       /\ archives' \subseteq Uploaded
           QueueTypes == /\ queue' \in [Replicas -> Seq(Scans)]
                         /\ queued' \in [Replicas -> SUBSET Scans]
           ToldTypes == /\ notified' \in [Scans -> Nat]
                        /\ callback' \in [Scans -> BOOLEAN]
           Others == UNCHANGED <<created, replica, enqVars, watchdog, cancelVars>>
           NewTypes == /\ RowTypes /\ OwnTypes /\ QueueTypes /\ ToldTypes /\ Others
                       /\ faults' \in 0 .. MaxFaults
<1>1. NewTypes => WellTyped'
  BY DEF WellTyped, TypeOK, PassHasRow
<1>2. /\ UNCHANGED <<status, step, fresh>> => RowTypes
      /\ UNCHANGED <<pc, scan, cancelled, archives>> => OwnTypes
      /\ UNCHANGED <<queue, queued>> => QueueTypes
      /\ UNCHANGED <<notified, callback>> => ToldTypes
  BY DEF WellTyped, TypeOK
<1>3. UNCHANGED faults \/ Fault => faults' \in 0 .. MaxFaults
  BY DEF WellTyped, TypeOK, Fault
<1>4. ASSUME NEW cleanup, Leave(w, cleanup) PROVE OwnTypes
  BY <1>4, LeaveTypes DEF WellTyped
<1>5. ASSUME NEW to \in Running \cup {"finishing"},
             pc[w] \notin {"off", "idle"}, pc' = [pc EXCEPT ![w] = to],
             UNCHANGED <<scan, cancelled, archives>>
      PROVE  OwnTypes
  BY <1>5 DEF WellTyped, TypeOK, Running
<1>6. ASSUME pc[w] \notin {"off", "idle"} PROVE scan[w] \in Scans
  BY <1>6, BusyHasScan DEF WellTyped
<1>7. ASSUME NEW from, NEW to \in Terminal, scan[w] \in Scans, Transition(scan[w], from, to)
      PROVE  RowTypes
  BY <1>7, TransitionTypes DEF WellTyped
<1> HIDE DEF RowTypes, OwnTypes, QueueTypes, ToldTypes
<1>8. CASE Take(w)
  <2>1. Home[w] \in Replicas /\ queue[Home[w]] \in Seq(Scans) /\ queue[Home[w]] # <<>>
    BY <1>8 DEF Take, WellTyped, TypeOK
  <2>2. Head(queue[Home[w]]) \in Scans /\ Tail(queue[Home[w]]) \in Seq(Scans)
    BY <2>1
  <2>3. QueueTypes
    BY <1>8, <2>1, <2>2 DEF Take, WellTyped, TypeOK, QueueTypes
  <2>4. OwnTypes
    BY <1>8, <2>2 DEF Take, WellTyped, TypeOK, OwnTypes
  <2> QED
    BY <1>1, <1>2, <1>3, <1>8, <2>3, <2>4 DEF Take
<1>9. CASE Claim(w)
  <2>1. RowTypes
    BY <1>6, <1>9 DEF Claim, WellTyped, TypeOK, Active, RowTypes
  <2>2. OwnTypes
    BY <1>5, <1>9 DEF Claim, Running
  <2> QED
    BY <1>1, <1>2, <1>3, <1>9, <2>1, <2>2 DEF Claim
<1>10. CASE Skip(w)
  BY <1>1, <1>2, <1>3, <1>4, <1>10 DEF Skip
<1>11. CASE ClaimError(w)
  BY <1>1, <1>2, <1>3, <1>4, <1>11 DEF ClaimError
<1>12. CASE Register(w)
  <2>1. OwnTypes
    BY <1>5, <1>12 DEF Register, Running
  <2> QED
    BY <1>1, <1>2, <1>3, <1>12, <2>1 DEF Register
<1>13. CASE Confirm(w)
  <2>1. OwnTypes
    BY <1>4, <1>5, <1>13 DEF Confirm, Running
  <2> QED
    BY <1>1, <1>2, <1>3, <1>13, <2>1 DEF Confirm
<1>14. CASE ConfirmError(w)
  BY <1>1, <1>2, <1>3, <1>4, <1>14 DEF ConfirmError
<1>15. ASSUME NEW from, NEW to, Advance(w, from, to), <<from, to>> \in Running \X Running
       PROVE  NewTypes
  <2>1. from \in Running /\ to \in Running /\ pc[w] \notin {"off", "idle"}
    BY <1>15 DEF Advance, Running
  <2>2. OwnTypes
    BY <1>5, <1>15, <2>1 DEF Advance
  <2>3. RowTypes
    BY <1>6, <1>15, <2>1 DEF Advance, UpdateStep, WellTyped, TypeOK, RowTypes
  <2> QED
    BY <1>2, <1>3, <1>15, <2>2, <2>3 DEF Advance
<1>16. CASE Prepare(w) \/ Finalize(w)
  BY <1>1, <1>15, <1>16 DEF Prepare, Finalize, Running
<1>17. CASE SetFailed(w)
  <2>1. scan[w] \in Scans /\ pc[w] \notin {"off", "idle"}
    BY <1>6, <1>17 DEF SetFailed
  <2>2. RowTypes
    BY <1>2, <1>7, <1>17, <2>1 DEF SetFailed, Terminal
  <2>3. OwnTypes
    BY <1>4, <1>5, <1>17, <2>1 DEF SetFailed
  <2> QED
    BY <1>1, <1>2, <1>3, <1>17, <2>2, <2>3 DEF SetFailed
<1>18. CASE Interrupted(w)
  BY <1>1, <1>2, <1>3, <1>4, <1>18 DEF Interrupted
<1>19. CASE Complete(w)
  <2>1. scan[w] \in Scans /\ pc[w] \notin {"off", "idle"}
    BY <1>6, <1>19 DEF Complete
  <2>2. RowTypes
    BY <1>2, <1>7, <1>19, <2>1 DEF Complete, Terminal
  <2>3. OwnTypes
    BY <1>4, <1>5, <1>19, <2>1 DEF Complete
  <2> QED
    BY <1>1, <1>2, <1>3, <1>19, <2>2, <2>3 DEF Complete
<1>20. CASE SaveError(w)
  BY <1>1, <1>2, <1>3, <1>4, <1>20 DEF SaveError
<1>21. CASE Finish(w)
  <2>1. ToldTypes
    BY <1>6, <1>21 DEF Finish, Announce, WellTyped, TypeOK, ToldTypes
  <2> QED
    BY <1>1, <1>2, <1>3, <1>4, <1>21, <2>1 DEF Finish
<1>22. CASE Heartbeat(w)
  <2>1. RowTypes
    BY <1>22 DEF Heartbeat, WellTyped, TypeOK, RowTypes
  <2> QED
    BY <1>1, <1>2, <1>3, <1>22, <2>1 DEF Heartbeat
<1> QED
  BY <1>8, <1>9, <1>10, <1>11, <1>12, <1>13, <1>14, <1>16, <1>17, <1>18, <1>19, <1>20, <1>21, <1>22
  DEF WorkerStep

(* Requests, and writers that fail a stale scan, keep the types. *)
LEMMA RequestTypes ==
  ASSUME WellTyped, NEW s \in Scans, NEW p \in Replicas,
         \/ Submit(s, p) \/ CancelRead(s, p) \/ RecoverStale(p, s) \/ WatchdogFails(p, s)
  PROVE  WellTyped'
<1> USE DEF Unchanged, rowVars, toldVars, queueVars, enqVars, workerVars, cancelVars
<1>1. \A q \in Replicas : q \notin Scans
  BY ScanConstants
<1>2. CASE Submit(s, p)
  <2>1. Cardinality({t \in Scans : status[t] # "none"}) + 1 \in Nat
    <3>1. IsFiniteSet({t \in Scans : status[t] # "none"})
      BY ScanConstants, FS_Subset
    <3> QED
      BY <3>1, FS_CardinalityType
  <2>2. PICK n \in Nat : created' = [created EXCEPT ![s] = n]
    BY <1>2, <2>1 DEF Submit
  <2>3. created' \in [Scans -> Nat]
    BY <2>2 DEF WellTyped, TypeOK
  <2>4. PassHasRow'
    BY <1>1, <1>2 DEF Submit, WellTyped, TypeOK, PassHasRow
  <2>5. /\ status' \in [Scans -> {"none"} \cup Active \cup Terminal]
        /\ fresh' \in [Scans -> BOOLEAN]
        /\ archives' \subseteq Uploaded
        /\ home' \in [Scans -> Replicas \cup {NoReplica}]
        /\ enq' \in [Enqueuers -> {"idle", "next", "reserve", "step", "send", "marking"}]
    BY <1>2 DEF Submit, WellTyped, TypeOK, Active
  <2> QED
    BY <1>2, <2>3, <2>4, <2>5 DEF Submit, WellTyped, TypeOK
<1>3. CASE RecoverStale(p, s)
  BY <1>3, TransitionTypes DEF RecoverStale, WellTyped, TypeOK, PassHasRow, Terminal
<1>4. CASE WatchdogFails(p, s)
  BY <1>4, TransitionTypes DEF WatchdogFails, WellTyped, TypeOK, PassHasRow, Terminal
<1>5. CASE CancelRead(s, p)
  BY <1>5 DEF CancelRead, WellTyped, TypeOK, PassHasRow
<1> QED
  BY <1>2, <1>3, <1>4, <1>5

(* Cancellations and the clock keep the types. *)
LEMMA CancelTypes ==
  ASSUME WellTyped, NEW s \in Scans, CancelSignal(s) \/ CancelPersist(s) \/ BecomeStale(s)
  PROVE  WellTyped'
<1> USE DEF Unchanged, rowVars, toldVars, queueVars, enqVars, workerVars, cancelVars
<1>1. CASE BecomeStale(s)
  <2>1. faults' \in 0 .. MaxFaults
    BY <1>1, ScanConstants DEF BecomeStale, Fault, WellTyped, TypeOK
  <2> QED
    BY <1>1, <2>1 DEF BecomeStale, WellTyped, TypeOK, PassHasRow
<1>2. CASE CancelSignal(s)
  BY <1>2 DEF CancelSignal, Signal, WellTyped, TypeOK, PassHasRow
<1>3. CASE CancelPersist(s)
  <2>1. /\ status' \in [Scans -> {"none"} \cup Active \cup Terminal]
        /\ step' \in [Scans -> {"queued", "working"} \cup Terminal]
        /\ fresh' \in [Scans -> BOOLEAN]
    BY <1>3, TransitionTypes DEF CancelPersist, WellTyped, TypeOK, Terminal
  <2>2. archives' \subseteq Uploaded
    BY <1>3 DEF CancelPersist, WellTyped, TypeOK
  <2>3. cancelPc' \in [Scans -> {"none", "read", "signalled", "done", "conflict"}]
    BY <1>3 DEF CancelPersist, WellTyped, TypeOK
  <2> QED
    BY <1>3, <2>1, <2>2, <2>3 DEF CancelPersist, WellTyped, TypeOK, PassHasRow
<1> QED
  BY <1>1, <1>2, <1>3

(* So does a watchdog that ends its work on a scan. *)
LEMMA WatchdogTypes ==
  ASSUME WellTyped, NEW p \in Replicas, WatchdogFinishes(p)
  PROVE  WellTyped'
  BY DEF WatchdogFinishes, Signal, Announce, WellTyped, TypeOK, PassHasRow, Unchanged, rowVars,
         toldVars, queueVars, enqVars, workerVars, cancelVars

(* A crash keeps the types. *)
LEMMA CrashTypes ==
  ASSUME WellTyped, NEW p \in Replicas, Crash(p)
  PROVE  WellTyped'
<1> USE DEF Unchanged, rowVars, toldVars, queueVars, enqVars, workerVars, cancelVars
<1>1. PassHasRow'
  <2>1. At(p) = p
    BY ScanConstants DEF At
  <2>2. \A q \in Replicas : enq'[q] # "idle" => q # p /\ enq'[q] = enq[q]
    BY <2>1 DEF Crash, Enqueuers
  <2>3. \A q \in Replicas \ {p} : batch'[q] = batch[q]
    BY DEF Crash, WellTyped, TypeOK
  <2> QED
    BY <2>2, <2>3 DEF WellTyped, PassHasRow
<1>2. faults' \in 0 .. MaxFaults
  BY ScanConstants DEF Crash, Fault, WellTyped, TypeOK
<1>3. /\ replica' \in [Replicas -> {"off", "starting", "up"}]
      /\ queue' \in [Replicas -> Seq(Scans)]
      /\ queued' \in [Replicas -> SUBSET Scans]
      /\ batch' \in [Replicas -> SUBSET Scans]
      /\ watchdog' \in [Replicas -> Scans \cup {NoScan}]
  BY DEF Crash, WellTyped, TypeOK
<1>4. /\ enq' \in [Enqueuers -> {"idle", "next", "reserve", "step", "send", "marking"}]
      /\ pc' \in [Workers -> {"off", "idle", "loaded", "finishing"} \cup Running]
      /\ scan' \in [Workers -> Scans \cup {NoScan}]
      /\ \A w \in Workers : pc'[w] \in {"off", "idle"} <=> scan'[w] = NoScan
      /\ cancelled' \in [Workers -> BOOLEAN]
      /\ cancelPc' \in [Scans -> {"none", "read", "signalled", "done", "conflict"}]
  BY DEF Crash, WellTyped, TypeOK
<1> QED
  BY <1>1, <1>2, <1>3, <1>4 DEF Crash, WellTyped, TypeOK

(* The steps by what they belong to. *)
LEMMA StepCases ==
  ASSUME [Next]_vars
  PROVE  \/ \E s \in Scans, p \in Replicas :
               Submit(s, p) \/ CancelRead(s, p) \/ RecoverStale(p, s) \/ WatchdogFails(p, s)
         \/ \E s \in Scans :
               \/ MarkScanFailed(s) \/ MarkScanFailedError(s)
               \/ CancelSignal(s) \/ CancelPersist(s) \/ BecomeStale(s)
         \/ \E e \in Enqueuers : EnqueueStep(e) \/ EnqueueError(e)
         \/ \E p \in Replicas :
               \/ Start(p) \/ RecoverySelect(p) \/ RecoveryNext(p) \/ RecoveryEnds(p)
               \/ StartupDone(p) \/ WatchdogFinishes(p) \/ Crash(p)
         \/ \E w \in Workers :
               WorkerStep(w) \/ Heartbeat(w) \/ ClaimError(w) \/ ConfirmError(w) \/ SaveError(w)
         \/ UNCHANGED vars
  BY DEF Next, RequestStep, CancelStep, RecoveryStep, Errors, Enqueuers

(* Only a crash stops a process, and its workers with it. *)
LEMMA StoppedStep ==
  ASSUME WellTyped, StoppedWorkers, [Next]_vars
  PROVE  StoppedWorkers'
<1> USE DEF vars, Unchanged, rowVars, toldVars, queueVars, enqVars, workerVars, cancelVars
<1>1. ASSUME NEW p \in Replicas, Start(p)
      PROVE  StoppedWorkers'
  BY <1>1, ScanConstants DEF Start, StoppedWorkers, WellTyped, TypeOK
<1>2. ASSUME NEW p \in Replicas, StartupDone(p)
      PROVE  StoppedWorkers'
  BY <1>2, ScanConstants DEF StartupDone, StoppedWorkers, WellTyped, TypeOK
<1>3. ASSUME NEW p \in Replicas, Crash(p)
      PROVE  StoppedWorkers'
  BY <1>3, ScanConstants DEF Crash, StoppedWorkers, WellTyped, TypeOK
<1>4. ASSUME NEW w \in Workers, WorkerStep(w) \/ ClaimError(w) \/ ConfirmError(w) \/ SaveError(w)
      PROVE  StoppedWorkers'
  <2>1. replica' = replica /\ pc[w] # "off"
    BY <1>4 DEF WorkerStep, Take, Claim, Skip, Register, Confirm, Prepare, Finalize, Advance,
                SetFailed, Interrupted, Complete, Finish, ClaimError, ConfirmError, SaveError,
                Running
  <2>2. \A v \in Workers \ {w} : pc'[v] = pc[v]
    BY <1>4 DEF WorkerStep, Take, Claim, Skip, Register, Confirm, Prepare, Finalize, Advance,
                SetFailed, Interrupted, Complete, Finish, ClaimError, ConfirmError, SaveError,
                Leave, WellTyped, TypeOK
  <2>3. replica[Home[w]] # "off"
    BY <2>1 DEF StoppedWorkers
  <2> QED
    BY <2>1, <2>2, <2>3 DEF StoppedWorkers
<1>5. CASE UNCHANGED <<replica, pc>>
  BY <1>5 DEF StoppedWorkers
<1>6. ASSUME NEW e \in Enqueuers, EnqueueStep(e) \/ EnqueueError(e)
      PROVE  UNCHANGED <<replica, pc>>
  BY <1>6 DEF EnqueueStep, Reserve, SetQueued, SetQueuedFinalized, EnqueueFails, Send, EnqueueError
<1>7. ASSUME NEW s \in Scans, NEW p \in Replicas,
             Submit(s, p) \/ CancelRead(s, p) \/ RecoverStale(p, s) \/ WatchdogFails(p, s)
      PROVE  UNCHANGED <<replica, pc>>
  BY <1>7 DEF Submit, CancelRead, RecoverStale, WatchdogFails
<1>8. ASSUME NEW s \in Scans,
             \/ MarkScanFailed(s) \/ MarkScanFailedError(s)
             \/ CancelSignal(s) \/ CancelPersist(s) \/ BecomeStale(s)
      PROVE  UNCHANGED <<replica, pc>>
  BY <1>8 DEF MarkScanFailed, MarkScanFailedError, CancelSignal, CancelPersist, BecomeStale
<1>9. ASSUME NEW p \in Replicas,
             RecoverySelect(p) \/ RecoveryNext(p) \/ RecoveryEnds(p) \/ WatchdogFinishes(p)
      PROVE  UNCHANGED <<replica, pc>>
  BY <1>9 DEF RecoverySelect, RecoveryNext, RecoveryEnds, WatchdogFinishes
<1>10. ASSUME NEW w \in Workers, Heartbeat(w)
       PROVE  UNCHANGED <<replica, pc>>
  BY <1>10 DEF Heartbeat
<1> HIDE DEF vars, Unchanged, rowVars, toldVars, queueVars, enqVars, workerVars, cancelVars
<1>11. UNCHANGED vars => UNCHANGED <<replica, pc>>
  BY DEF vars, workerVars
<1> QED
  BY StepCases, <1>1, <1>2, <1>3, <1>4, <1>5, <1>6, <1>7, <1>8, <1>9, <1>10, <1>11

(* Every step keeps the types. *)
LEMMA TypeStep ==
  ASSUME WellTyped, StoppedWorkers, [Next]_vars
  PROVE  WellTyped'
<1>1. CASE UNCHANGED vars
  BY <1>1 DEF vars, rowVars, toldVars, queueVars, enqVars, workerVars, cancelVars,
              WellTyped, TypeOK, PassHasRow
<1> QED
  BY StepCases, <1>1, RequestTypes, CancelTypes, MarkingTypes, EnqueueTypes, RecoveryTypes,
     WatchdogTypes, CrashTypes, WorkerTypes

(* The types, for every reachable state. *)
THEOREM TypesHold == Spec => [](WellTyped /\ StoppedWorkers)
<1>1. Init => StoppedWorkers
  BY DEF Init, StoppedWorkers
<1> QED
  BY <1>1, InitTypes, TypeStep, StoppedStep, PTL DEF Spec

-----------------------------------------------------------------------------
(* Rows *)

(* A row is inserted as pending, runs once, and ends once. *)
RowMoves(s) ==
    \/ status'[s] = status[s]
    \/ status[s] = "none" /\ status'[s] = "pending"
    \/ status[s] = "pending" /\ status'[s] = "running"
    \/ status[s] \in Active /\ status'[s] \in Terminal

(* A conditional update moves its row to its end and leaves the others. *)
LEMMA TransitionMoves ==
  ASSUME TypeOK, NEW s \in Scans, NEW from \in SUBSET Active, NEW to \in Terminal,
         Transition(s, from, to)
  PROVE  \A t \in Scans : RowMoves(t)
  BY DEF TypeOK, Transition, RowMoves

(* Every step moves every row along its life only. *)
LEMMA RowsMove ==
  ASSUME WellTyped, [Next]_vars
  PROVE  \A s \in Scans : RowMoves(s)
<1> USE DEF vars, Unchanged, rowVars
<1>1. CASE UNCHANGED status
  BY <1>1 DEF RowMoves
<1>2. \A S \in {{"running"}, Active} : S \in SUBSET Active
  BY DEF Active
<1>3. {"failed", "cancelled", "completed"} \subseteq Terminal
  BY DEF Terminal
<1>4. ASSUME NEW s \in Scans, NEW p \in Replicas,
             Submit(s, p) \/ CancelRead(s, p) \/ RecoverStale(p, s) \/ WatchdogFails(p, s)
      PROVE  \A t \in Scans : RowMoves(t)
  <2>1. CASE Submit(s, p)
    BY <2>1 DEF Submit, WellTyped, TypeOK, RowMoves
  <2>2. CASE RecoverStale(p, s) \/ WatchdogFails(p, s)
    BY <1>2, <1>3, <2>2, TransitionMoves DEF RecoverStale, WatchdogFails, WellTyped
  <2>3. CASE CancelRead(s, p)
    BY <1>1, <2>3 DEF CancelRead
  <2> QED
    BY <1>4, <2>1, <2>2, <2>3
<1>5. ASSUME NEW s \in Scans,
             \/ MarkScanFailed(s) \/ MarkScanFailedError(s)
             \/ CancelSignal(s) \/ CancelPersist(s) \/ BecomeStale(s)
      PROVE  \A t \in Scans : RowMoves(t)
  <2>1. CASE MarkScanFailed(s)
    BY <1>1, <1>2, <1>3, <2>1, TransitionMoves DEF MarkScanFailed, WellTyped
  <2>2. CASE CancelPersist(s)
    BY <1>1, <1>2, <1>3, <2>2, TransitionMoves DEF CancelPersist, WellTyped
  <2>3. CASE MarkScanFailedError(s) \/ CancelSignal(s) \/ BecomeStale(s)
    BY <1>1, <2>3 DEF MarkScanFailedError, CancelSignal, BecomeStale
  <2> QED
    BY <1>5, <2>1, <2>2, <2>3
<1>6. ASSUME NEW e \in Enqueuers, EnqueueStep(e) \/ EnqueueError(e)
      PROVE  \A t \in Scans : RowMoves(t)
  BY <1>1, <1>6 DEF EnqueueStep, Reserve, SetQueued, UpdateStep, SetQueuedFinalized, EnqueueFails,
                    Send, EnqueueError
<1>7. ASSUME NEW p \in Replicas,
             \/ Start(p) \/ RecoverySelect(p) \/ RecoveryNext(p) \/ RecoveryEnds(p)
             \/ StartupDone(p) \/ WatchdogFinishes(p) \/ Crash(p)
      PROVE  \A t \in Scans : RowMoves(t)
  BY <1>1, <1>7 DEF Start, RecoverySelect, RecoveryNext, RecoveryEnds, StartupDone,
                    WatchdogFinishes, Crash
<1>8. ASSUME NEW w \in Workers,
             WorkerStep(w) \/ Heartbeat(w) \/ ClaimError(w) \/ ConfirmError(w) \/ SaveError(w)
      PROVE  \A t \in Scans : RowMoves(t)
  <2>1. pc[w] \notin {"off", "idle"} => scan[w] \in Scans
    BY BusyHasScan DEF WellTyped
  <2>2. CASE Claim(w)
    BY <2>1, <2>2 DEF Claim, WellTyped, TypeOK, RowMoves
  <2>3. CASE SetFailed(w)
    BY <1>1, <1>2, <1>3, <2>1, <2>3, TransitionMoves DEF SetFailed, WellTyped
  <2>4. CASE Complete(w)
    BY <1>1, <1>2, <1>3, <2>1, <2>4, TransitionMoves DEF Complete, WellTyped
  <2>5. CASE \/ Take(w) \/ Skip(w) \/ Register(w) \/ Confirm(w) \/ Prepare(w) \/ Finalize(w)
             \/ Interrupted(w) \/ Finish(w) \/ Heartbeat(w) \/ ClaimError(w) \/ ConfirmError(w)
             \/ SaveError(w)
    BY <1>1, <2>5 DEF Take, Skip, Register, Confirm, Prepare, Finalize, Advance, UpdateStep,
                      Interrupted, Finish, Heartbeat, ClaimError, ConfirmError, SaveError
  <2> QED
    BY <1>8, <2>2, <2>3, <2>4, <2>5 DEF WorkerStep
<1> QED
  BY StepCases, <1>1, <1>4, <1>5, <1>6, <1>7, <1>8

(* Of cancel, completion, failure, watchdog, dispatcher and restart        *)
(* recovery the first writer wins, however many processes there are.       *)
THEOREM EndIsFinal == Spec => TerminalIsFinal
<1>1. WellTyped /\ [Next]_vars
        => [\A s \in Scans : status[s] \in Terminal => status'[s] = status[s]]_vars
  BY RowsMove DEF RowMoves, Active, Terminal
<1> QED
  BY <1>1, TypesHold, PTL DEF Spec, TerminalIsFinal

(* A conditional update writes the status and the step of an end together. *)
LEMMA TransitionMatches ==
  ASSUME TypeOK, StepMatchesStatus, NEW s \in Scans, NEW from, NEW to \in Terminal,
         Transition(s, from, to)
  PROVE  StepMatchesStatus'
  BY DEF TypeOK, StepMatchesStatus, Transition

(* A step of an active row that is not an end may be written. *)
LEMMA UpdateMatches ==
  ASSUME TypeOK, StepMatchesStatus, NEW s \in Scans, NEW to \in {"queued", "working"},
         UpdateStep(s, to)
  PROVE  StepMatchesStatus'
<1>1. MovableFrom[to] = Active
  BY DEF MovableFrom
<1> QED
  BY <1>1 DEF TypeOK, StepMatchesStatus, UpdateStep, Active, Terminal

(* Status and step stay together in every writer. *)
LEMMA MatchStep ==
  ASSUME WellTyped, StepMatchesStatus, [Next]_vars
  PROVE  StepMatchesStatus'
<1> USE DEF vars, Unchanged, rowVars, WellTyped
<1>1. CASE UNCHANGED <<status, step>>
  BY <1>1 DEF StepMatchesStatus
<1>2. {"failed", "cancelled", "completed"} \subseteq Terminal
  BY DEF Terminal
<1>3. ASSUME NEW s \in Scans, NEW p \in Replicas,
             Submit(s, p) \/ CancelRead(s, p) \/ RecoverStale(p, s) \/ WatchdogFails(p, s)
      PROVE  StepMatchesStatus'
  <2>1. CASE Submit(s, p)
    BY <2>1 DEF Submit, TypeOK, StepMatchesStatus, Terminal
  <2>2. CASE RecoverStale(p, s) \/ WatchdogFails(p, s)
    BY <1>2, <2>2, TransitionMatches DEF RecoverStale, WatchdogFails
  <2>3. CASE CancelRead(s, p)
    BY <1>1, <2>3 DEF CancelRead
  <2> QED
    BY <1>3, <2>1, <2>2, <2>3
<1>4. ASSUME NEW s \in Scans,
             \/ MarkScanFailed(s) \/ MarkScanFailedError(s)
             \/ CancelSignal(s) \/ CancelPersist(s) \/ BecomeStale(s)
      PROVE  StepMatchesStatus'
  <2>1. CASE MarkScanFailed(s)
    BY <1>1, <1>2, <2>1, TransitionMatches DEF MarkScanFailed
  <2>2. CASE CancelPersist(s)
    BY <1>1, <1>2, <2>2, TransitionMatches DEF CancelPersist
  <2>3. CASE MarkScanFailedError(s) \/ CancelSignal(s) \/ BecomeStale(s)
    BY <1>1, <2>3 DEF MarkScanFailedError, CancelSignal, BecomeStale
  <2> QED
    BY <1>4, <2>1, <2>2, <2>3
<1>5. ASSUME NEW e \in Enqueuers, EnqueueStep(e) \/ EnqueueError(e)
      PROVE  StepMatchesStatus'
  <2>1. CASE SetQueued(e)
    <3>1. Target(e) \in Scans
      BY <2>1, TargetIsScan DEF SetQueued
    <3> QED
      BY <2>1, <3>1, UpdateMatches DEF SetQueued
  <2>2. CASE Reserve(e) \/ SetQueuedFinalized(e) \/ Send(e) \/ EnqueueError(e)
    BY <1>1, <2>2 DEF Reserve, SetQueuedFinalized, EnqueueFails, Send, EnqueueError
  <2> QED
    BY <1>5, <2>1, <2>2 DEF EnqueueStep
<1>6. ASSUME NEW p \in Replicas,
             \/ Start(p) \/ RecoverySelect(p) \/ RecoveryNext(p) \/ RecoveryEnds(p)
             \/ StartupDone(p) \/ WatchdogFinishes(p) \/ Crash(p)
      PROVE  StepMatchesStatus'
  <2>1. CASE Start(p)
    BY <2>1 DEF Start, TypeOK, StepMatchesStatus, Terminal
  <2>2. CASE ~ Start(p)
    BY <1>1, <1>6, <2>2 DEF RecoverySelect, RecoveryNext, RecoveryEnds, StartupDone,
                            WatchdogFinishes, Crash
  <2> QED
    BY <2>1, <2>2
<1>7. ASSUME NEW w \in Workers,
             WorkerStep(w) \/ Heartbeat(w) \/ ClaimError(w) \/ ConfirmError(w) \/ SaveError(w)
      PROVE  StepMatchesStatus'
  <2>1. pc[w] \notin {"off", "idle"} => scan[w] \in Scans
    BY BusyHasScan
  <2>2. CASE Claim(w)
    BY <2>1, <2>2 DEF Claim, TypeOK, StepMatchesStatus, Terminal
  <2>3. CASE SetFailed(w)
    BY <1>1, <1>2, <2>1, <2>3, TransitionMatches DEF SetFailed
  <2>4. CASE Complete(w)
    BY <1>1, <1>2, <2>1, <2>4, TransitionMatches DEF Complete
  <2>5. CASE Prepare(w) \/ Finalize(w)
    BY <2>1, <2>5, UpdateMatches DEF Prepare, Finalize, Advance
  <2>6. CASE \/ Take(w) \/ Skip(w) \/ Register(w) \/ Confirm(w) \/ Interrupted(w) \/ Finish(w)
             \/ Heartbeat(w) \/ ClaimError(w) \/ ConfirmError(w) \/ SaveError(w)
    BY <1>1, <2>6 DEF Take, Skip, Register, Confirm, Interrupted, Finish, Heartbeat, ClaimError,
                      ConfirmError, SaveError
  <2> QED
    BY <1>7, <2>2, <2>3, <2>4, <2>5, <2>6 DEF WorkerStep
<1> QED
  BY StepCases, <1>1, <1>3, <1>4, <1>5, <1>6, <1>7

(* In every state that a crash could freeze the row is well-formed and its *)
(* step says what its status says.                                         *)
THEOREM RowsStayConsistent == Spec => []RowIsConsistent
<1>1. Init => StepMatchesStatus
  BY DEF Init, StepMatchesStatus, Terminal
<1>2. WellTyped /\ StepMatchesStatus => RowIsConsistent
  BY DEF WellTyped, RowIsConsistent
<1> QED
  BY <1>1, <1>2, TypesHold, MatchStep, PTL DEF Spec

-----------------------------------------------------------------------------
(* Runners and announcements *)

(* Nobody runs a scan that is still to be claimed: the claim of a pending  *)
(* row is therefore the claim of a scan without a runner.                  *)
RunnersClaimed ==
    \A w \in Workers : pc[w] \in Running => status[scan[w]] \notin {"none", "pending"}

(* A scan has ended and nobody was told.  Whoever ended it will say so.    *)
Untold(s) == status[s] \in Terminal /\ notified[s] = 0

TellersOwe ==
    /\ \A w \in Workers : pc[w] = "finishing" => Untold(scan[w])
    /\ \A p \in Replicas : watchdog[p] # NoScan => Untold(watchdog[p])

(* Only the writer of the end tells. *)
OneTeller ==
    /\ \A v, w \in Workers :
         pc[v] = "finishing" /\ pc[w] = "finishing" /\ scan[v] = scan[w] => v = w
    /\ \A p, q \in Replicas : watchdog[p] # NoScan /\ watchdog[p] = watchdog[q] => p = q
    /\ \A w \in Workers, p \in Replicas : pc[w] = "finishing" => scan[w] # watchdog[p]

LifeInv == RunnersClaimed /\ OneRunner /\ TellersOwe /\ OneTeller /\ AnnouncedOnceAtEnd

LEMMA InitLife == Init => LifeInv
  BY DEF Init, LifeInv, RunnersClaimed, OneRunner, TellersOwe, OneTeller, AnnouncedOnceAtEnd,
         AnnouncedOnce, AnnouncedIsTerminal, Running

(* A worker stays where it was, goes on with the scan it runs, or is       *)
(* neither a runner nor a teller any more.                                 *)
WorkerQuiet(w) ==
    \/ pc'[w] = pc[w] /\ scan'[w] = scan[w]
    \/ pc[w] \in Running /\ pc'[w] \in Running /\ scan'[w] = scan[w]
    \/ pc'[w] \notin Running \cup {"finishing"}

(* Steps that end no scan, claim none and tell nobody. *)
LEMMA QuietKeeps ==
  ASSUME WellTyped, LifeInv, UNCHANGED <<status, notified, callback>>,
         \A w \in Workers : WorkerQuiet(w),
         \A p \in Replicas : watchdog'[p] \in {watchdog[p], NoScan}
  PROVE  LifeInv'
<1> USE DEF WorkerQuiet
<1>1. RunnersClaimed' /\ OneRunner'
  BY DEF LifeInv, RunnersClaimed, OneRunner, Running
<1>2. TellersOwe'
  BY DEF LifeInv, TellersOwe, Untold, Running
<1>3. OneTeller'
  <2>1. \A w \in Workers : pc'[w] = "finishing" => pc[w] = "finishing" /\ scan'[w] = scan[w]
    BY DEF Running
  <2>2. \A w \in Workers : pc[w] = "finishing" => scan[w] # NoScan
    BY DEF WellTyped, TypeOK
  <2> QED
    BY <2>1, <2>2 DEF LifeInv, OneTeller
<1>4. AnnouncedOnceAtEnd'
  BY DEF LifeInv, AnnouncedOnceAtEnd, AnnouncedOnce, AnnouncedIsTerminal
<1> QED
  BY <1>1, <1>2, <1>3, <1>4 DEF LifeInv

(* A scan ends without an announcement: nobody was to tell of it before,   *)
(* since it was active.                                                    *)
LEMMA SilentEnd ==
  ASSUME WellTyped, LifeInv, NEW s \in Scans, status[s] \in Active,
         NEW to \in Terminal, status' = [status EXCEPT ![s] = to],
         \A t \in Scans \ {s} : callback'[t] = callback[t],
         UNCHANGED <<notified, pc, scan, watchdog>>
  PROVE  LifeInv'
<1>1. RunnersClaimed' /\ OneRunner'
  BY DEF LifeInv, RunnersClaimed, OneRunner, WellTyped, TypeOK, Terminal
<1>2. TellersOwe' /\ OneTeller'
  BY DEF LifeInv, TellersOwe, OneTeller, Untold, WellTyped, TypeOK, Terminal, Active
<1>3. AnnouncedOnceAtEnd'
  BY DEF LifeInv, AnnouncedOnceAtEnd, AnnouncedOnce, AnnouncedIsTerminal, WellTyped, TypeOK
<1> QED
  BY <1>1, <1>2, <1>3 DEF LifeInv

(* A scan ends and its worker is to tell. *)
LEMMA WorkerEnds ==
  ASSUME WellTyped, LifeInv, NEW w \in Workers, pc[w] \in Running, status[scan[w]] \in Active,
         NEW to \in Terminal, status' = [status EXCEPT ![scan[w]] = to],
         pc' = [pc EXCEPT ![w] = "finishing"],
         UNCHANGED <<notified, callback, scan, watchdog>>
  PROVE  LifeInv'
<1>1. scan[w] \in Scans
  BY BusyHasScan DEF WellTyped, Running
<1>2. /\ notified[scan[w]] = 0
      /\ \A v \in Workers : pc[v] = "finishing" => scan[v] # scan[w]
      /\ \A p \in Replicas : watchdog[p] # scan[w]
  <2>1. notified[scan[w]] = 0
    <3>1. status[scan[w]] \notin Terminal
      BY DEF Active, Terminal
    <3>2. notified[scan[w]] \in Nat
      BY <1>1 DEF WellTyped, TypeOK
    <3> QED
      BY <1>1, <3>1, <3>2 DEF LifeInv, AnnouncedOnceAtEnd, AnnouncedIsTerminal
  <2>2. \A v \in Workers : pc[v] = "finishing" => scan[v] # scan[w]
    BY DEF LifeInv, TellersOwe, Untold, Active, Terminal
  <2>3. \A p \in Replicas : watchdog[p] # scan[w]
    BY <1>1, ScanConstants DEF LifeInv, TellersOwe, Untold, Active, Terminal
  <2> QED
    BY <2>1, <2>2, <2>3
<1>3. RunnersClaimed' /\ OneRunner'
  BY <1>1 DEF LifeInv, RunnersClaimed, OneRunner, WellTyped, TypeOK, Terminal, Running
<1>4. TellersOwe'
  BY <1>1, <1>2 DEF LifeInv, TellersOwe, Untold, WellTyped, TypeOK
<1>5. OneTeller'
  BY <1>1, <1>2 DEF LifeInv, OneTeller, WellTyped, TypeOK
<1>6. AnnouncedOnceAtEnd'
  BY <1>1 DEF LifeInv, AnnouncedOnceAtEnd, AnnouncedOnce, AnnouncedIsTerminal, WellTyped, TypeOK
<1> QED
  BY <1>3, <1>4, <1>5, <1>6 DEF LifeInv

(* A watchdog ends a scan and is to tell. *)
LEMMA WatchdogEnds ==
  ASSUME WellTyped, LifeInv, NEW p \in Replicas, NEW s \in Scans, WatchdogFails(p, s)
  PROVE  LifeInv'
<1> USE DEF WatchdogFails, Transition, Unchanged, toldVars, workerVars
<1>1. /\ notified[s] = 0
      /\ \A v \in Workers : pc[v] = "finishing" => scan[v] # s
      /\ \A q \in Replicas : watchdog[q] # s
  <2>1. notified[s] = 0
    <3>1. status[s] \notin Terminal
      BY DEF Terminal
    <3>2. notified[s] \in Nat
      BY DEF WellTyped, TypeOK
    <3> QED
      BY <3>1, <3>2 DEF LifeInv, AnnouncedOnceAtEnd, AnnouncedIsTerminal
  <2>2. \A v \in Workers : pc[v] = "finishing" => scan[v] # s
    BY DEF LifeInv, TellersOwe, Untold, Terminal
  <2>3. \A q \in Replicas : watchdog[q] # s
    BY ScanConstants DEF LifeInv, TellersOwe, Untold, Terminal
  <2> QED
    BY <2>1, <2>2, <2>3
<1>2. RunnersClaimed' /\ OneRunner'
  BY DEF LifeInv, RunnersClaimed, OneRunner, WellTyped, TypeOK
<1>3. TellersOwe'
  BY <1>1 DEF LifeInv, TellersOwe, Untold, WellTyped, TypeOK, Terminal
<1>4. OneTeller'
  BY <1>1 DEF LifeInv, OneTeller, WellTyped, TypeOK
<1>5. AnnouncedOnceAtEnd'
  BY DEF LifeInv, AnnouncedOnceAtEnd, AnnouncedOnce, AnnouncedIsTerminal, WellTyped, TypeOK, Terminal
<1> QED
  BY <1>2, <1>3, <1>4, <1>5 DEF LifeInv

(* The worker that ended the scan tells, and is done. *)
LEMMA WorkerTells ==
  ASSUME WellTyped, LifeInv, NEW w \in Workers, Finish(w)
  PROVE  LifeInv'
<1>1. scan[w] \in Scans
  BY BusyHasScan DEF WellTyped, Finish
<1>2. /\ notified' = [notified EXCEPT ![scan[w]] = @ + 1]
      /\ \E asked \in BOOLEAN : callback' = [callback EXCEPT ![scan[w]] = @ \/ asked]
      /\ pc' = [pc EXCEPT ![w] = "idle"] /\ scan' = [scan EXCEPT ![w] = NoScan]
      /\ status' = status /\ watchdog' = watchdog
  BY DEF Finish, Announce, Leave, rowVars
<1>3. Untold(scan[w])
  BY DEF Finish, LifeInv, TellersOwe
<1>4. pc[w] = "finishing"
  BY DEF Finish
<1>5. RunnersClaimed' /\ OneRunner'
  BY <1>2 DEF LifeInv, RunnersClaimed, OneRunner, WellTyped, TypeOK, Running
<1>6. TellersOwe'
  BY <1>1, <1>2, <1>4 DEF LifeInv, TellersOwe, OneTeller, Untold, WellTyped, TypeOK
<1>7. OneTeller'
  BY <1>2 DEF LifeInv, OneTeller, WellTyped, TypeOK
<1>8. AnnouncedOnceAtEnd'
  BY <1>1, <1>2, <1>3
  DEF LifeInv, AnnouncedOnceAtEnd, AnnouncedOnce, AnnouncedIsTerminal, Untold, WellTyped, TypeOK
<1> QED
  BY <1>5, <1>6, <1>7, <1>8 DEF LifeInv

(* So does the watchdog. *)
LEMMA WatchdogTells ==
  ASSUME WellTyped, LifeInv, NEW p \in Replicas, WatchdogFinishes(p)
  PROVE  LifeInv'
<1>1. watchdog[p] \in Scans /\ watchdog[p] # NoScan
  BY DEF WatchdogFinishes, WellTyped, TypeOK
<1>2. /\ notified' = [notified EXCEPT ![watchdog[p]] = @ + 1]
      /\ \E asked \in BOOLEAN : callback' = [callback EXCEPT ![watchdog[p]] = @ \/ asked]
      /\ watchdog' = [watchdog EXCEPT ![p] = NoScan]
      /\ status' = status /\ pc' = pc /\ scan' = scan
  BY DEF WatchdogFinishes, Announce, rowVars
<1>3. Untold(watchdog[p])
  BY <1>1 DEF LifeInv, TellersOwe
<1>4. RunnersClaimed' /\ OneRunner'
  BY <1>2 DEF LifeInv, RunnersClaimed, OneRunner
<1>5. TellersOwe'
  BY <1>1, <1>2 DEF LifeInv, TellersOwe, OneTeller, Untold, WellTyped, TypeOK
<1>6. OneTeller'
  <2>1. \A w \in Workers : pc[w] = "finishing" => scan[w] # NoScan
    BY DEF WellTyped, TypeOK
  <2> QED
    BY <1>2, <2>1 DEF LifeInv, OneTeller, WellTyped, TypeOK
<1>7. AnnouncedOnceAtEnd'
  BY <1>1, <1>2, <1>3
  DEF LifeInv, AnnouncedOnceAtEnd, AnnouncedOnce, AnnouncedIsTerminal, Untold, WellTyped, TypeOK
<1> QED
  BY <1>4, <1>5, <1>6, <1>7 DEF LifeInv

(* A request inserts its row: nobody ran it or told of it before. *)
LEMMA SubmitKeeps ==
  ASSUME WellTyped, LifeInv, NEW s \in Scans, NEW p \in Replicas, Submit(s, p)
  PROVE  LifeInv'
<1> USE DEF Submit, Unchanged, toldVars, workerVars
<1>1. RunnersClaimed' /\ OneRunner'
  BY DEF LifeInv, RunnersClaimed, OneRunner, WellTyped, TypeOK
<1>2. TellersOwe' /\ OneTeller'
  BY DEF LifeInv, TellersOwe, OneTeller, Untold, WellTyped, TypeOK, Terminal
<1>3. AnnouncedOnceAtEnd'
  BY DEF LifeInv, AnnouncedOnceAtEnd, AnnouncedOnce, AnnouncedIsTerminal, WellTyped, TypeOK, Terminal
<1> QED
  BY <1>1, <1>2, <1>3 DEF LifeInv

(* A worker claims a pending row, which has no runner and no teller. *)
LEMMA ClaimKeeps ==
  ASSUME WellTyped, LifeInv, NEW w \in Workers, Claim(w)
  PROVE  LifeInv'
<1>1. scan[w] \in Scans
  BY BusyHasScan DEF WellTyped, Claim
<1> USE DEF Claim, Unchanged, toldVars
<1>2. \A v \in Workers : pc[v] \in Running => scan[v] # scan[w]
  BY DEF LifeInv, RunnersClaimed
<1>3. RunnersClaimed'
  BY <1>1 DEF LifeInv, RunnersClaimed, WellTyped, TypeOK, Running
<1>4. OneRunner'
  BY <1>2 DEF LifeInv, OneRunner, WellTyped, TypeOK, Running
<1>5. TellersOwe'
  BY <1>1 DEF LifeInv, TellersOwe, Untold, WellTyped, TypeOK, Terminal
<1>6. OneTeller'
  BY DEF LifeInv, OneTeller, WellTyped, TypeOK
<1>7. AnnouncedOnceAtEnd'
  BY <1>1 DEF LifeInv, AnnouncedOnceAtEnd, AnnouncedOnce, AnnouncedIsTerminal, WellTyped, TypeOK, Terminal
<1> QED
  BY <1>3, <1>4, <1>5, <1>6, <1>7 DEF LifeInv

(* Every step keeps the runners and the tellers single. *)
LEMMA LifeStep ==
  ASSUME WellTyped, StoppedWorkers, LifeInv, [Next]_vars
  PROVE  LifeInv'
<1> USE DEF Unchanged, rowVars, toldVars, workerVars
<1>1. /\ {"failed", "cancelled", "completed"} \subseteq Terminal
      /\ \A S \in {{"running"}, Active} : S \subseteq Active
  BY DEF Terminal, Active
<1>2. CASE UNCHANGED <<status, notified, callback, pc, scan, watchdog>>
  BY <1>2, QuietKeeps DEF WorkerQuiet
<1>3. ASSUME NEW s \in Scans, NEW from \in SUBSET Active, NEW to \in Terminal,
             Transition(s, from, to), UNCHANGED <<notified, pc, scan, watchdog>>,
             callback' = callback \/ callback' = [callback EXCEPT ![s] = TRUE]
      PROVE  LifeInv'
  <2>1. status[s] \in Active /\ status' = [status EXCEPT ![s] = to]
    BY <1>3 DEF Transition
  <2>2. \A t \in Scans \ {s} : callback'[t] = callback[t]
    BY <1>3 DEF WellTyped, TypeOK
  <2> QED
    BY <1>3, <2>1, <2>2, SilentEnd
<1>4. ASSUME NEW s \in Scans, NEW p \in Replicas,
             Submit(s, p) \/ CancelRead(s, p) \/ RecoverStale(p, s) \/ WatchdogFails(p, s)
      PROVE  LifeInv'
  <2>1. CASE RecoverStale(p, s)
    BY <1>1, <1>3, <2>1 DEF RecoverStale
  <2>2. CASE CancelRead(s, p)
    BY <1>2, <2>2 DEF CancelRead
  <2> QED
    BY <1>4, <2>1, <2>2, SubmitKeeps, WatchdogEnds
<1>5. ASSUME NEW s \in Scans,
             \/ MarkScanFailed(s) \/ MarkScanFailedError(s)
             \/ CancelSignal(s) \/ CancelPersist(s) \/ BecomeStale(s)
      PROVE  LifeInv'
  <2>1. CASE MarkScanFailed(s)
    BY <1>1, <1>2, <1>3, <2>1 DEF MarkScanFailed
  <2>2. CASE CancelPersist(s)
    BY <1>1, <1>2, <1>3, <2>2 DEF CancelPersist
  <2>3. CASE MarkScanFailedError(s) \/ CancelSignal(s) \/ BecomeStale(s)
    BY <1>2, <2>3 DEF MarkScanFailedError, CancelSignal, BecomeStale
  <2> QED
    BY <1>5, <2>1, <2>2, <2>3
<1>6. ASSUME NEW e \in Enqueuers, EnqueueStep(e) \/ EnqueueError(e)
      PROVE  LifeInv'
  BY <1>2, <1>6 DEF EnqueueStep, Reserve, SetQueued, UpdateStep, SetQueuedFinalized, EnqueueFails,
                    Send, EnqueueError
<1>7. ASSUME NEW p \in Replicas,
             \/ Start(p) \/ RecoverySelect(p) \/ RecoveryNext(p) \/ RecoveryEnds(p)
             \/ StartupDone(p) \/ WatchdogFinishes(p) \/ Crash(p)
      PROVE  LifeInv'
  <2>1. CASE Start(p)
    <3>1. \A w \in Workers : WorkerQuiet(w)
      BY <2>1 DEF Start, WorkerQuiet, WellTyped, TypeOK, Running
    <3> QED
      BY <2>1, <3>1, QuietKeeps DEF Start
  <2>2. CASE Crash(p)
    <3>1. \A w \in Workers : WorkerQuiet(w)
      BY <2>2 DEF Crash, WorkerQuiet, WellTyped, TypeOK, Running
    <3>2. \A q \in Replicas : watchdog'[q] \in {watchdog[q], NoScan}
      BY <2>2 DEF Crash, WellTyped, TypeOK
    <3> QED
      BY <2>2, <3>1, <3>2, QuietKeeps DEF Crash
  <2>3. CASE RecoverySelect(p) \/ RecoveryNext(p) \/ RecoveryEnds(p) \/ StartupDone(p)
    BY <1>2, <2>3 DEF RecoverySelect, RecoveryNext, RecoveryEnds, StartupDone
  <2> QED
    BY <1>7, <2>1, <2>2, <2>3, WatchdogTells
<1>8. ASSUME NEW w \in Workers,
             WorkerStep(w) \/ Heartbeat(w) \/ ClaimError(w) \/ ConfirmError(w) \/ SaveError(w)
      PROVE  LifeInv'
  <2>1. ASSUME NEW cleanup, Leave(w, cleanup), UNCHANGED <<status, notified, callback, watchdog>>
        PROVE  LifeInv'
    <3>1. \A v \in Workers : WorkerQuiet(v)
      BY <2>1 DEF Leave, WorkerQuiet, WellTyped, TypeOK, Running
    <3> QED
      BY <2>1, <3>1, QuietKeeps
  <2>2. ASSUME pc[w] \in Running, NEW to \in Running, pc' = [pc EXCEPT ![w] = to],
               UNCHANGED <<scan, status, notified, callback, watchdog>>
        PROVE  LifeInv'
    <3>1. \A v \in Workers : WorkerQuiet(v)
      BY <2>2 DEF WorkerQuiet, WellTyped, TypeOK
    <3> QED
      BY <2>2, <3>1, QuietKeeps
  <2>3. CASE Take(w)
    <3>1. \A v \in Workers : WorkerQuiet(v)
      BY <2>3 DEF Take, WorkerQuiet, WellTyped, TypeOK, Running
    <3> QED
      BY <2>3, <3>1, QuietKeeps DEF Take
  <2>4. CASE Skip(w) \/ ClaimError(w) \/ ConfirmError(w) \/ SaveError(w) \/ Interrupted(w)
    BY <2>1, <2>4 DEF Skip, ClaimError, ConfirmError, SaveError, Interrupted
  <2>5. CASE Register(w)
    BY <2>2, <2>5 DEF Register, Running
  <2>6. CASE Confirm(w)
    BY <2>1, <2>2, <2>6 DEF Confirm, Running
  <2>7. CASE Prepare(w) \/ Finalize(w)
    BY <2>2, <2>7 DEF Prepare, Finalize, Advance, UpdateStep, Running
  <2>8. CASE SetFailed(w)
    <3>1. pc[w] \in Running
      BY <2>8 DEF SetFailed, Running
    <3> QED
      BY <1>1, <2>1, <2>8, <3>1, WorkerEnds DEF SetFailed, Transition
  <2>9. CASE Complete(w)
    <3>1. pc[w] \in Running
      BY <2>9 DEF Complete, Running
    <3> QED
      BY <1>1, <2>1, <2>9, <3>1, WorkerEnds DEF Complete, Transition
  <2>10. CASE Heartbeat(w)
    BY <1>2, <2>10 DEF Heartbeat
  <2> QED
    BY <1>8, <2>3, <2>4, <2>5, <2>6, <2>7, <2>8, <2>9, <2>10, ClaimKeeps, WorkerTells DEF WorkerStep
<1>9. CASE UNCHANGED vars
  BY <1>2, <1>9 DEF vars
<1> QED
  BY StepCases, <1>4, <1>5, <1>6, <1>7, <1>8, <1>9

(* However many processes, workers and writers meet, a scan has one        *)
(* runner, and is announced once, at its end.                              *)
THEOREM OneRunHolds == Spec => []OneRunOneAnnouncement
<1>1. LifeInv => OneRunOneAnnouncement
  BY DEF LifeInv, OneRunOneAnnouncement
<1> QED
  BY <1>1, InitLife, LifeStep, TypesHold, PTL DEF Spec

-----------------------------------------------------------------------------
(* Archives *)

(* The archive of a scan that is still to be run is there. *)
PendingHasArchive == \A s \in Uploaded : status[s] = "pending" => s \in archives

ArchiveInv == PendingHasArchive /\ ArchiveKeptForRunner

(* Steps that leave the archives alone keep the invariant unless they      *)
(* insert or claim a scan.                                                 *)
LEMMA ArchivesUntouched ==
  ASSUME WellTyped, ArchiveInv, archives' = archives,
         \A s \in Scans : status'[s] \in Active => status'[s] = status[s],
         \A w \in Workers : pc'[w] \in Running => pc[w] \in Running /\ scan'[w] = scan[w]
  PROVE  ArchiveInv'
<1>1. Uploaded \subseteq Scans
  BY ScanConstants
<1>2. \A w \in Workers : pc'[w] \in Running => scan[w] \in Scans
  BY BusyHasScan DEF WellTyped, Running
<1>3. PendingHasArchive'
  BY <1>1 DEF ArchiveInv, PendingHasArchive, Active
<1>4. ArchiveKeptForRunner'
  BY <1>1, <1>2 DEF ArchiveInv, ArchiveKeptForRunner, Active
<1> QED
  BY <1>3, <1>4 DEF ArchiveInv

(* A worker that cleans up holds a scan that has ended, or was its only    *)
(* runner; a worker that found a stale entry leaves a running scan's       *)
(* archive where it is.                                                    *)
LEMMA LeaveKeepsArchives ==
  ASSUME WellTyped, LifeInv, ArchiveInv, NEW w \in Workers, NEW cleanup \in BOOLEAN,
         Leave(w, cleanup),
         \/ ~ cleanup
         \/ pc[w] \in Running
         \/ status[scan[w]] \notin {"pending", "running"},
         status' = status
  PROVE  ArchiveInv'
<1>1. Uploaded \subseteq Scans
  BY ScanConstants
<1>2. \A v \in Workers : pc'[v] \in Running => v # w /\ pc[v] \in Running /\ scan'[v] = scan[v]
  BY DEF Leave, WellTyped, TypeOK, Running
<1>3. archives' = archives \/ (cleanup /\ archives' = archives \ {scan[w]})
  <2>1. CASE cleanup /\ home[scan[w]] = Home[w]
    BY <2>1 DEF Leave
  <2>2. CASE ~ (cleanup /\ home[scan[w]] = Home[w])
    BY <2>2 DEF Leave
  <2> QED
    BY <2>1, <2>2
<1>4. PendingHasArchive'
  BY <1>1, <1>3 DEF ArchiveInv, PendingHasArchive, LifeInv, RunnersClaimed
<1>5. ArchiveKeptForRunner'
  BY <1>1, <1>2, <1>3 DEF ArchiveInv, ArchiveKeptForRunner, LifeInv, OneRunner
<1> QED
  BY <1>4, <1>5 DEF ArchiveInv

(* Every step keeps the archives that are needed. *)
LEMMA ArchiveStep ==
  ASSUME WellTyped, LifeInv, ArchiveInv, [Next]_vars
  PROVE  ArchiveInv'
<1> USE DEF Unchanged, rowVars, toldVars, workerVars
<1>1. Uploaded \subseteq Scans
  BY ScanConstants
<1>2. CASE UNCHANGED <<status, archives, pc, scan>>
  BY <1>2, ArchivesUntouched
<1>3. ASSUME NEW s \in Scans, NEW from, NEW to \in Terminal, Transition(s, from, to)
      PROVE  \A t \in Scans : status'[t] \in Active => status'[t] = status[t]
  BY <1>3 DEF Transition, WellTyped, TypeOK, Active, Terminal
<1>4. {"failed", "cancelled", "completed"} \subseteq Terminal
  BY DEF Terminal
<1>5. ASSUME NEW s \in Scans, NEW p \in Replicas,
             Submit(s, p) \/ CancelRead(s, p) \/ RecoverStale(p, s) \/ WatchdogFails(p, s)
      PROVE  ArchiveInv'
  <2>1. CASE Submit(s, p)
    <3>1. /\ archives' = IF s \in Uploaded THEN archives \cup {s} ELSE archives
          /\ status' = [status EXCEPT ![s] = "pending"]
          /\ UNCHANGED <<pc, scan>>
      BY <2>1 DEF Submit
    <3>2. PendingHasArchive'
      BY <1>1, <3>1 DEF ArchiveInv, PendingHasArchive, WellTyped, TypeOK
    <3>3. ArchiveKeptForRunner'
      BY <1>1, <3>1 DEF ArchiveInv, ArchiveKeptForRunner, WellTyped, TypeOK
    <3> QED
      BY <3>2, <3>3 DEF ArchiveInv
  <2>2. CASE RecoverStale(p, s)
    BY <1>3, <1>4, <2>2, ArchivesUntouched DEF RecoverStale
  <2>3. CASE WatchdogFails(p, s)
    BY <1>3, <1>4, <2>3, ArchivesUntouched DEF WatchdogFails
  <2>4. CASE CancelRead(s, p)
    BY <1>2, <2>4 DEF CancelRead
  <2> QED
    BY <1>5, <2>1, <2>2, <2>3, <2>4
<1>6. ASSUME NEW s \in Scans,
             \/ MarkScanFailed(s) \/ MarkScanFailedError(s)
             \/ CancelSignal(s) \/ CancelPersist(s) \/ BecomeStale(s)
      PROVE  ArchiveInv'
  <2>1. CASE MarkScanFailed(s)
    BY <1>2, <1>3, <1>4, <2>1, ArchivesUntouched DEF MarkScanFailed
  <2>2. CASE CancelPersist(s)
    <3>1. CASE status[s] \notin Active
      BY <1>2, <2>2, <3>1 DEF CancelPersist
    <3>2. CASE status[s] \in Active
      <4>1. /\ status' = [status EXCEPT ![s] = "cancelled"]
            /\ UNCHANGED <<pc, scan>>
        BY <2>2, <3>2 DEF CancelPersist, Transition
      <4>2. archives \ {s} \subseteq archives'
        BY <2>2, <3>2 DEF CancelPersist
      <4>3. PendingHasArchive'
        BY <1>1, <4>1, <4>2 DEF ArchiveInv, PendingHasArchive, WellTyped, TypeOK
      <4>4. ArchiveKeptForRunner'
        BY <1>1, <4>1, <4>2 DEF ArchiveInv, ArchiveKeptForRunner, WellTyped, TypeOK
      <4> QED
        BY <4>3, <4>4 DEF ArchiveInv
    <3> QED
      BY <3>1, <3>2
  <2>3. CASE MarkScanFailedError(s) \/ CancelSignal(s) \/ BecomeStale(s)
    BY <1>2, <2>3 DEF MarkScanFailedError, CancelSignal, BecomeStale
  <2> QED
    BY <1>6, <2>1, <2>2, <2>3
<1>7. ASSUME NEW e \in Enqueuers, EnqueueStep(e) \/ EnqueueError(e)
      PROVE  ArchiveInv'
  BY <1>2, <1>7 DEF EnqueueStep, Reserve, SetQueued, UpdateStep, SetQueuedFinalized, EnqueueFails,
                    Send, EnqueueError
<1>8. ASSUME NEW p \in Replicas,
             \/ Start(p) \/ RecoverySelect(p) \/ RecoveryNext(p) \/ RecoveryEnds(p)
             \/ StartupDone(p) \/ WatchdogFinishes(p) \/ Crash(p)
      PROVE  ArchiveInv'
  <2>1. CASE Start(p)
    BY <2>1, ArchivesUntouched DEF Start, Running
  <2>2. CASE Crash(p)
    BY <2>2, ArchivesUntouched DEF Crash, Running
  <2>3. CASE \/ RecoverySelect(p) \/ RecoveryNext(p) \/ RecoveryEnds(p) \/ StartupDone(p)
             \/ WatchdogFinishes(p)
    BY <1>2, <2>3 DEF RecoverySelect, RecoveryNext, RecoveryEnds, StartupDone, WatchdogFinishes
  <2> QED
    BY <1>8, <2>1, <2>2, <2>3
<1>9. ASSUME NEW w \in Workers,
             WorkerStep(w) \/ Heartbeat(w) \/ ClaimError(w) \/ ConfirmError(w) \/ SaveError(w)
      PROVE  ArchiveInv'
  <2>1. ASSUME pc[w] \in Running, archives' = archives, scan' = scan, NEW to,
               pc' = [pc EXCEPT ![w] = to],
               \A s \in Scans : status'[s] \in Active => status'[s] = status[s]
        PROVE  ArchiveInv'
    <3>1. \A v \in Workers : pc'[v] \in Running => pc[v] \in Running
      BY <2>1 DEF WellTyped, TypeOK
    <3> QED
      BY <2>1, <3>1, ArchivesUntouched
  <2>2. CASE Take(w)
    <3>1. \A v \in Workers : pc'[v] \in Running => pc[v] \in Running /\ scan'[v] = scan[v]
      BY <2>2 DEF Take, Running, WellTyped, TypeOK
    <3> QED
      BY <2>2, <3>1, ArchivesUntouched DEF Take
  <2>3. CASE Claim(w)
    <3>1. /\ status' = [status EXCEPT ![scan[w]] = "running"] /\ status[scan[w]] = "pending"
          /\ pc' = [pc EXCEPT ![w] = "claimed"]
          /\ UNCHANGED <<archives, scan>>
      BY <2>3 DEF Claim
    <3>2. scan[w] \in Scans
      BY <2>3, BusyHasScan DEF Claim, WellTyped
    <3>3. PendingHasArchive'
      BY <1>1, <3>1, <3>2 DEF ArchiveInv, PendingHasArchive, WellTyped, TypeOK
    <3>4. ASSUME NEW v \in Workers, pc'[v] \in Running, scan[v] \in Uploaded,
                 status'[scan[v]] = "running"
          PROVE  scan[v] \in archives
      <4>1. CASE scan[v] = scan[w]
        BY <3>1, <3>4, <4>1 DEF ArchiveInv, PendingHasArchive
      <4>2. CASE scan[v] # scan[w]
        BY <1>1, <3>1, <3>2, <3>4, <4>2 DEF ArchiveInv, ArchiveKeptForRunner, WellTyped, TypeOK
      <4> QED
        BY <4>1, <4>2
    <3> QED
      BY <3>1, <3>3, <3>4 DEF ArchiveInv, ArchiveKeptForRunner
  <2>4. CASE Skip(w)
    <3>1. (status[scan[w]] # "running") \in BOOLEAN
      OBVIOUS
    <3> QED
      BY <2>4, <3>1, LeaveKeepsArchives DEF Skip
  <2>5. CASE ClaimError(w)
    BY <2>5, LeaveKeepsArchives DEF ClaimError
  <2>6. CASE Register(w)
    BY <2>1, <2>6 DEF Register, Running
  <2>7. CASE Confirm(w)
    BY <2>1, <2>7, LeaveKeepsArchives DEF Confirm, Running
  <2>8. CASE ConfirmError(w) \/ Interrupted(w)
    BY <2>8, LeaveKeepsArchives DEF ConfirmError, Interrupted, Running
  <2>9. CASE Prepare(w) \/ Finalize(w)
    BY <2>1, <2>9 DEF Prepare, Finalize, Advance, UpdateStep, Running
  <2>10. CASE SetFailed(w)
    <3>1. pc[w] \in Running
      BY <2>10 DEF SetFailed, Running
    <3>2. scan[w] \in Scans
      BY <3>1, BusyHasScan DEF WellTyped, Running
    <3> QED
      BY <1>3, <1>4, <2>1, <2>10, <3>1, <3>2, LeaveKeepsArchives DEF SetFailed
  <2>11. CASE Complete(w)
    <3>1. pc[w] \in Running
      BY <2>11 DEF Complete, Running
    <3>2. scan[w] \in Scans
      BY <3>1, BusyHasScan DEF WellTyped, Running
    <3> QED
      BY <1>3, <1>4, <2>1, <2>11, <3>1, <3>2, LeaveKeepsArchives DEF Complete
  <2>12. CASE SaveError(w) \/ Finish(w)
    <3>1. pc[w] \in Running \/ status[scan[w]] \notin {"pending", "running"}
      BY <2>12 DEF SaveError, Finish, Running, LifeInv, TellersOwe, Untold, Terminal
    <3> QED
      BY <2>12, <3>1, LeaveKeepsArchives DEF SaveError, Finish
  <2>13. CASE Heartbeat(w)
    BY <1>2, <2>13 DEF Heartbeat
  <2> QED
    BY <1>9, <2>2, <2>3, <2>4, <2>5, <2>6, <2>7, <2>8, <2>9, <2>10, <2>11, <2>12, <2>13 DEF WorkerStep
<1>10. CASE UNCHANGED vars
  BY <1>2, <1>10 DEF vars
<1> QED
  BY StepCases, <1>5, <1>6, <1>7, <1>8, <1>9, <1>10

(* No clean-up, of a stale entry, of a cancellation or of a worker that    *)
(* lost its scan, takes the archive from under the scan's runner.          *)
THEOREM ArchivesAreKept == Spec => []ArchiveKeptForRunner
<1>1. Init => ArchiveInv
  BY ScanConstants DEF Init, ArchiveInv, PendingHasArchive, ArchiveKeptForRunner, Running
<1>2. ArchiveInv => ArchiveKeptForRunner
  BY DEF ArchiveInv
<1> QED
  BY <1>1, <1>2, InitLife, LifeStep, TypesHold, ArchiveStep, PTL DEF Spec

-----------------------------------------------------------------------------
(* Reservations *)

(* A new entry at the end. *)
LEMMA AppendEntry ==
  ASSUME NEW S, NEW q \in Seq(S), NEW s \in S, IsInjective(q), s \notin Range(q)
  PROVE  IsInjective(Append(q, s)) /\ Range(Append(q, s)) = Range(q) \cup {s}
<1>1. /\ DOMAIN q = 1 .. Len(q) /\ Len(q) \in Nat
      /\ DOMAIN Append(q, s) = 1 .. Len(q) + 1
      /\ \A i \in 1 .. Len(q) : Append(q, s)[i] = q[i]
      /\ Append(q, s)[Len(q) + 1] = s
  OBVIOUS
<1>2. IsInjective(Append(q, s))
  BY <1>1 DEF IsInjective, Range
<1>3. Range(Append(q, s)) \subseteq Range(q) \cup {s}
  BY <1>1 DEF Range
<1>4. Range(q) \subseteq Range(Append(q, s)) /\ s \in Range(Append(q, s))
  BY <1>1 DEF Range
<1> QED
  BY <1>2, <1>3, <1>4

(* The first entry is taken away. *)
LEMMA TakeEntry ==
  ASSUME NEW S, NEW q \in Seq(S), q # <<>>, IsInjective(q)
  PROVE  IsInjective(Tail(q)) /\ Range(Tail(q)) = Range(q) \ {Head(q)} /\ Head(q) \in Range(q)
<1>1. /\ DOMAIN q = 1 .. Len(q) /\ Len(q) \in Nat \ {0}
      /\ DOMAIN Tail(q) = 1 .. Len(q) - 1
      /\ \A i \in 1 .. Len(q) - 1 : Tail(q)[i] = q[i + 1]
      /\ Head(q) = q[1]
  OBVIOUS
<1>2. IsInjective(Tail(q))
  BY <1>1 DEF IsInjective
<1>3. Range(Tail(q)) \subseteq Range(q) \ {Head(q)}
  BY <1>1 DEF IsInjective, Range
<1>4. ASSUME NEW x \in Range(q) \ {Head(q)} PROVE x \in Range(Tail(q))
  <2>1. PICK i \in 1 .. Len(q) : q[i] = x
    BY <1>1 DEF Range
  <2>2. i # 1 /\ i - 1 \in 1 .. Len(q) - 1
    BY <1>1, <1>4, <2>1
  <2>3. Tail(q)[i - 1] = x
    BY <1>1, <2>1, <2>2
  <2> QED
    BY <1>1, <2>2, <2>3 DEF Range
<1>5. Head(q) \in Range(q)
  BY <1>1 DEF Range
<1> QED
  BY <1>2, <1>3, <1>4, <1>5

(* A call between its reservation and its end. *)
Holds(e) == enq[e] \in {"step", "send"}

(* A reservation is an entry of the queue or one call's, never both, and   *)
(* never two calls'.                                                       *)
ReservedInv ==
    /\ \A p \in Replicas : IsInjective(queue[p]) /\ Range(queue[p]) \subseteq queued[p]
    /\ \A e \in Enqueuers : Holds(e) =>
         /\ At(e) \in Replicas
         /\ Target(e) \in queued[At(e)] \ Range(queue[At(e)])
    /\ \A e, f \in Enqueuers :
         Holds(e) /\ Holds(f) /\ At(e) = At(f) /\ Target(e) = Target(f) => e = f

(* A call that has started runs in a process; batches hold inserted rows.  *)
CallsPlaced ==
    /\ \A s \in Scans : enq[s] # "idle" => home[s] \in Replicas
    /\ \A p \in Replicas : \A s \in batch[p] : status[s] # "none"

(* The call goes on for the same scan in the same process. *)
SameCall(e) == At(e)' = At(e) /\ Target(e)' = Target(e)

(* Steps that leave the queues alone, and every reservation to its call.   *)
LEMMA ReservedFrame ==
  ASSUME ReservedInv, UNCHANGED <<queue, queued>>,
         \A e \in Enqueuers : Holds(e)' => Holds(e) /\ SameCall(e)
  PROVE  ReservedInv'
  BY DEF ReservedInv, SameCall

(* A call is the same while its place and its batch are. *)
LEMMA CallSame ==
  ASSUME NEW e, e \in Scans => home'[e] = home[e], e \notin Scans => batch'[e] = batch[e],
         created' = created
  PROVE  SameCall(e)
<1>1. CASE e \in Scans
  BY <1>1 DEF SameCall, At, Target
<1>2. CASE e \notin Scans
  BY <1>2 DEF SameCall, At, Target, Oldest
<1> QED
  BY <1>1, <1>2

(* A call that goes on has its place, and a batch only loses rows while it *)
(* is worked off.                                                          *)
LEMMA CallsPlacedFrame ==
  ASSUME WellTyped, CallsPlaced, [Next]_vars, home' = home,
         \A s \in Scans : enq'[s] # "idle" => enq[s] # "idle",
         \A p \in Replicas : batch'[p] \subseteq batch[p] \cup Pending
  PROVE  CallsPlaced'
<1>1. \A s \in Scans : status[s] # "none" => status'[s] # "none"
  BY RowsMove DEF RowMoves, Active, Terminal
<1>2. \A p \in Replicas : batch[p] \subseteq Scans
  BY DEF WellTyped, TypeOK
<1> QED
  BY <1>1, <1>2 DEF CallsPlaced, Pending

LEMMA CallsPlacedStep ==
  ASSUME WellTyped, CallsPlaced, [Next]_vars
  PROVE  CallsPlaced'
<1> USE DEF Unchanged, enqVars
<1>1. \A p \in Replicas : p \in Enqueuers /\ p \notin Scans
  BY ScanConstants DEF Enqueuers
<1>2. \A s \in Scans : s \in Enqueuers
  BY DEF Enqueuers
<1>3. CASE UNCHANGED <<enq, home, batch>>
  BY <1>3, CallsPlacedFrame
<1>4. ASSUME NEW s \in Scans, NEW p \in Replicas,
             Submit(s, p) \/ CancelRead(s, p) \/ RecoverStale(p, s) \/ WatchdogFails(p, s)
      PROVE  CallsPlaced'
  <2>1. CASE Submit(s, p)
    BY <1>1, <1>2, <2>1 DEF Submit, CallsPlaced, WellTyped, TypeOK
  <2>2. CASE ~ Submit(s, p)
    BY <1>3, <1>4, <2>2 DEF CancelRead, RecoverStale, WatchdogFails
  <2> QED
    BY <2>1, <2>2
<1>5. ASSUME NEW s \in Scans,
             \/ MarkScanFailed(s) \/ MarkScanFailedError(s)
             \/ CancelSignal(s) \/ CancelPersist(s) \/ BecomeStale(s)
      PROVE  CallsPlaced'
  <2>1. CASE MarkScanFailed(s) \/ MarkScanFailedError(s)
    <3>1. /\ enq' = [enq EXCEPT ![s] = "idle"]
          /\ UNCHANGED <<home, batch>>
      BY <2>1 DEF MarkScanFailed, MarkScanFailedError
    <3>2. \A t \in Scans : enq'[t] # "idle" => enq[t] # "idle"
      BY <1>2, <3>1 DEF WellTyped, TypeOK
    <3> QED
      BY <3>1, <3>2, CallsPlacedFrame
  <2>2. CASE CancelSignal(s) \/ CancelPersist(s) \/ BecomeStale(s)
    BY <1>3, <2>2 DEF CancelSignal, CancelPersist, BecomeStale
  <2> QED
    BY <1>5, <2>1, <2>2
<1>6. ASSUME NEW e \in Enqueuers, EnqueueStep(e) \/ EnqueueError(e)
      PROVE  CallsPlaced'
  <2>1. enq[e] # "idle"
    BY <1>6 DEF EnqueueStep, Reserve, SetQueued, SetQueuedFinalized, Send, EnqueueError
  <2> DEFINE Ends == /\ home' = home
                     /\ \A f \in Enqueuers \ {e} : enq'[f] = enq[f]
                     /\ \A p \in Replicas : batch'[p] \subseteq batch[p]
  <2>2. ASSUME NEW ok \in BOOLEAN, Enqueued(e, ok) PROVE Ends
    <3>1. CASE e \in Scans
      BY <2>2, <3>1 DEF Enqueued, WellTyped, TypeOK
    <3>2. CASE e \notin Scans
      <4> DEFINE left == IF ok \/ replica[e] = "starting" THEN batch[e] \ {Target(e)} ELSE {}
      <4>1. batch' = [batch EXCEPT ![e] = left] /\ left \subseteq batch[e]
        BY <2>2, <3>2 DEF Enqueued
      <4>2. home' = home /\ enq' = [enq EXCEPT ![e] = "next"]
        BY <2>2, <3>2 DEF Enqueued
      <4> HIDE DEF left
      <4> QED
        BY <4>1, <4>2 DEF WellTyped, TypeOK
    <3> QED
      BY <3>1, <3>2
  <2>3. ASSUME NEW to, enq' = [enq EXCEPT ![e] = to], UNCHANGED <<home, batch>> PROVE Ends
    BY <2>3 DEF WellTyped, TypeOK
  <2>4. Ends
    BY <1>6, <2>2, <2>3 DEF EnqueueStep, Reserve, SetQueued, SetQueuedFinalized, Send, EnqueueError,
                            EnqueueFails
  <2> QED
    BY <1>2, <2>1, <2>4, CallsPlacedFrame
<1>7. ASSUME NEW p \in Replicas,
             \/ Start(p) \/ RecoverySelect(p) \/ RecoveryNext(p) \/ RecoveryEnds(p)
             \/ StartupDone(p) \/ WatchdogFinishes(p) \/ Crash(p)
      PROVE  CallsPlaced'
  <2>1. \A s \in Scans : s # p
    BY <1>1
  <2>2. ASSUME NEW to, enq' = [enq EXCEPT ![p] = to] \/ enq' = enq
        PROVE  \A s \in Scans : enq'[s] = enq[s]
    BY <1>2, <2>1, <2>2 DEF WellTyped, TypeOK
  <2>3. ASSUME NEW rows, batch' = [batch EXCEPT ![p] = rows] \/ batch' = batch,
               rows \subseteq batch[p] \cup Pending
        PROVE  \A q \in Replicas : batch'[q] \subseteq batch[q] \cup Pending
    BY <2>3 DEF WellTyped, TypeOK
  <2>4. CASE Start(p)
    BY <2>2, <2>3, <2>4, CallsPlacedFrame DEF Start
  <2>5. CASE RecoverySelect(p)
    BY <2>2, <2>3, <2>5, CallsPlacedFrame DEF RecoverySelect
  <2>6. CASE RecoveryNext(p)
    BY <2>2, <2>3, <2>6, CallsPlacedFrame DEF RecoveryNext
  <2>7. CASE RecoveryEnds(p) \/ StartupDone(p)
    BY <2>2, <2>7, CallsPlacedFrame DEF RecoveryEnds, StartupDone
  <2>8. CASE WatchdogFinishes(p)
    BY <1>3, <2>8 DEF WatchdogFinishes
  <2>9. CASE Crash(p)
    <3>1. \A s \in Scans : enq'[s] # "idle" => enq[s] # "idle"
      BY <1>2, <2>9 DEF Crash
    <3> QED
      BY <2>3, <2>9, <3>1, CallsPlacedFrame DEF Crash
  <2> QED
    BY <1>7, <2>4, <2>5, <2>6, <2>7, <2>8, <2>9
<1>8. ASSUME NEW w \in Workers,
             WorkerStep(w) \/ Heartbeat(w) \/ ClaimError(w) \/ ConfirmError(w) \/ SaveError(w)
      PROVE  CallsPlaced'
  BY <1>3, <1>8
  DEF WorkerStep, Take, Claim, Skip, Register, Confirm, Prepare, Finalize, Advance, SetFailed,
      Interrupted, Complete, Finish, Heartbeat, ClaimError, ConfirmError, SaveError
<1>9. CASE UNCHANGED vars
  BY <1>3, <1>9 DEF vars
<1> QED
  BY StepCases, <1>4, <1>5, <1>6, <1>7, <1>8, <1>9

(* A call ends and gives its reservation back. *)
LEMMA GivesBack ==
  ASSUME WellTyped, ReservedInv, NEW e \in Enqueuers, Holds(e), ~ Holds(e)',
         \A f \in Enqueuers \ {e} : Holds(f)' => Holds(f) /\ SameCall(f),
         queue' = queue, queued' = [queued EXCEPT ![At(e)] = @ \ {Target(e)}]
  PROVE  ReservedInv'
<1>1. At(e) \in Replicas /\ Target(e) \notin Range(queue[At(e)])
  BY DEF ReservedInv
<1>2. queued \in [Replicas -> SUBSET Scans]
  BY DEF WellTyped, TypeOK
<1>3. \A p \in Replicas : IsInjective(queue'[p]) /\ Range(queue'[p]) \subseteq queued'[p]
  BY <1>1, <1>2 DEF ReservedInv
<1>4. ASSUME NEW f \in Enqueuers, Holds(f)'
      PROVE  /\ At(f)' \in Replicas
             /\ Target(f)' \in queued'[At(f)'] \ Range(queue'[At(f)'])
  <2>1. f # e /\ Holds(f) /\ At(f)' = At(f) /\ Target(f)' = Target(f)
    BY <1>4 DEF SameCall
  <2>2. At(f) = At(e) => Target(f) # Target(e)
    BY <2>1 DEF ReservedInv
  <2> QED
    BY <1>2, <2>1, <2>2 DEF ReservedInv
<1>5. ASSUME NEW f \in Enqueuers, NEW g \in Enqueuers, Holds(f)', Holds(g)',
             At(f)' = At(g)', Target(f)' = Target(g)'
      PROVE  f = g
  BY <1>5 DEF ReservedInv, SameCall
<1> QED
  BY <1>3, <1>4, <1>5 DEF ReservedInv

(* A call ends and hands its reservation over to the entry of the queue. *)
LEMMA HandsOver ==
  ASSUME WellTyped, ReservedInv, NEW e \in Enqueuers, Holds(e), ~ Holds(e)',
         \A f \in Enqueuers \ {e} : Holds(f)' => Holds(f) /\ SameCall(f),
         queued' = queued, queue' = [queue EXCEPT ![At(e)] = Append(@, Target(e))]
  PROVE  ReservedInv'
<1>1. /\ At(e) \in Replicas
      /\ Target(e) \in queued[At(e)]
      /\ Target(e) \notin Range(queue[At(e)])
      /\ IsInjective(queue[At(e)])
      /\ Range(queue[At(e)]) \subseteq queued[At(e)]
  BY DEF ReservedInv
<1>2. queue[At(e)] \in Seq(Scans) /\ Target(e) \in Scans
  BY <1>1 DEF WellTyped, TypeOK
<1>3. /\ queue'[At(e)] = Append(queue[At(e)], Target(e))
      /\ \A p \in Replicas \ {At(e)} : queue'[p] = queue[p]
  BY <1>1 DEF WellTyped, TypeOK
<1>4. /\ IsInjective(queue'[At(e)])
      /\ Range(queue'[At(e)]) = Range(queue[At(e)]) \cup {Target(e)}
  BY <1>1, <1>2, <1>3, AppendEntry
<1>5. \A p \in Replicas : IsInjective(queue'[p]) /\ Range(queue'[p]) \subseteq queued'[p]
  BY <1>1, <1>3, <1>4 DEF ReservedInv
<1>6. ASSUME NEW f \in Enqueuers, Holds(f)'
      PROVE  /\ At(f)' \in Replicas
             /\ Target(f)' \in queued'[At(f)'] \ Range(queue'[At(f)'])
  <2>1. f # e /\ Holds(f) /\ At(f)' = At(f) /\ Target(f)' = Target(f)
    BY <1>6 DEF SameCall
  <2>2. At(f) = At(e) => Target(f) # Target(e)
    BY <2>1 DEF ReservedInv
  <2>3. At(f) \in Replicas /\ Target(f) \in queued[At(f)] \ Range(queue[At(f)])
    BY <2>1 DEF ReservedInv
  <2> QED
    BY <1>3, <1>4, <2>1, <2>2, <2>3
<1>7. ASSUME NEW f \in Enqueuers, NEW g \in Enqueuers, Holds(f)', Holds(g)',
             At(f)' = At(g)', Target(f)' = Target(g)'
      PROVE  f = g
  BY <1>7 DEF ReservedInv, SameCall
<1> QED
  BY <1>5, <1>6, <1>7 DEF ReservedInv

(* A call that finds no reservation takes it. *)
LEMMA Reserves ==
  ASSUME WellTyped, ReservedInv, NEW e \in Enqueuers, ~ Holds(e), Holds(e)', SameCall(e),
         At(e) \in Replicas, Target(e) \notin queued[At(e)],
         \A f \in Enqueuers \ {e} : Holds(f)' => Holds(f) /\ SameCall(f),
         queue' = queue, queued' = [queued EXCEPT ![At(e)] = @ \cup {Target(e)}]
  PROVE  ReservedInv'
<1>1. /\ queued'[At(e)] = queued[At(e)] \cup {Target(e)}
      /\ \A p \in Replicas \ {At(e)} : queued'[p] = queued[p]
  BY DEF WellTyped, TypeOK
<1>2. Range(queue[At(e)]) \subseteq queued[At(e)]
  BY DEF ReservedInv
<1>3. \A p \in Replicas : IsInjective(queue'[p]) /\ Range(queue'[p]) \subseteq queued'[p]
  BY <1>1 DEF ReservedInv
<1>4. ASSUME NEW f \in Enqueuers, Holds(f)'
      PROVE  /\ At(f)' \in Replicas
             /\ Target(f)' \in queued'[At(f)'] \ Range(queue'[At(f)'])
  <2>1. CASE f = e
    BY <1>1, <1>2, <2>1 DEF SameCall
  <2>2. CASE f # e
    BY <1>1, <1>4, <2>2 DEF ReservedInv, SameCall
  <2> QED
    BY <2>1, <2>2
<1>5. ASSUME NEW f \in Enqueuers, Holds(f)', f # e, At(f)' = At(e)'
      PROVE  Target(f)' # Target(e)'
  BY <1>5 DEF ReservedInv, SameCall
<1>6. ASSUME NEW f \in Enqueuers, NEW g \in Enqueuers, Holds(f)', Holds(g)',
             At(f)' = At(g)', Target(f)' = Target(g)'
      PROVE  f = g
  <2>1. CASE f = e \/ g = e
    BY <1>5, <1>6, <2>1
  <2>2. CASE f # e /\ g # e
    BY <1>6, <2>2 DEF ReservedInv, SameCall
  <2> QED
    BY <2>1, <2>2
<1> QED
  BY <1>3, <1>4, <1>6 DEF ReservedInv

(* A worker takes the first entry and its reservation; it is no call's. *)
LEMMA TakeKeepsReserved ==
  ASSUME WellTyped, ReservedInv, NEW w \in Workers, Take(w)
  PROVE  ReservedInv'
<1>1. Home[w] \in Replicas
  BY ScanConstants
<1>2. /\ queue[Home[w]] \in Seq(Scans) /\ queue[Home[w]] # <<>>
      /\ queue' = [queue EXCEPT ![Home[w]] = Tail(@)]
      /\ queued' = [queued EXCEPT ![Home[w]] = @ \ {Head(queue[Home[w]])}]
      /\ UNCHANGED <<enq, home, batch, created>>
  BY <1>1 DEF Take, Unchanged, enqVars, WellTyped, TypeOK
<1>3. /\ queue'[Home[w]] = Tail(queue[Home[w]])
      /\ queued'[Home[w]] = queued[Home[w]] \ {Head(queue[Home[w]])}
      /\ \A p \in Replicas \ {Home[w]} : queue'[p] = queue[p] /\ queued'[p] = queued[p]
  BY <1>1, <1>2 DEF WellTyped, TypeOK
<1>4. /\ IsInjective(queue'[Home[w]])
      /\ Range(queue'[Home[w]]) = Range(queue[Home[w]]) \ {Head(queue[Home[w]])}
      /\ Head(queue[Home[w]]) \in Range(queue[Home[w]])
  BY <1>1, <1>2, <1>3, TakeEntry DEF ReservedInv
<1>5. \A p \in Replicas : IsInjective(queue'[p]) /\ Range(queue'[p]) \subseteq queued'[p]
  BY <1>3, <1>4 DEF ReservedInv
<1>6. \A e \in Enqueuers : Holds(e)' = Holds(e) /\ SameCall(e)
  BY <1>2, CallSame DEF Holds
<1>7. ASSUME NEW e \in Enqueuers, Holds(e)
      PROVE  At(e) \in Replicas /\ Target(e) \in queued'[At(e)] \ Range(queue'[At(e)])
  BY <1>3, <1>4, <1>7 DEF ReservedInv
<1> QED
  BY <1>5, <1>6, <1>7 DEF ReservedInv, SameCall

(* The other calls go on as they are. *)
OthersSame(e) == \A f \in Enqueuers \ {e} : Holds(f)' => Holds(f) /\ SameCall(f)

(* A step of one call, or of the pass of one process, is no one else's. *)
LEMMA OneCallMoves ==
  ASSUME WellTyped, NEW e \in Enqueuers, NEW to, enq' = [enq EXCEPT ![e] = to],
         home' = home, created' = created, \A p \in Replicas \ {e} : batch'[p] = batch[p]
  PROVE  OthersSame(e) /\ enq'[e] = to
<1>1. \A f \in Enqueuers \ {e} : enq'[f] = enq[f]
  BY DEF WellTyped, TypeOK
<1>2. ASSUME NEW f \in Enqueuers \ {e} PROVE SameCall(f)
  <2>1. f \notin Scans => batch'[f] = batch[f]
    BY DEF Enqueuers
  <2> QED
    BY <2>1, CallSame
<1>3. enq'[e] = to
  BY DEF WellTyped, TypeOK
<1> QED
  BY <1>1, <1>2, <1>3 DEF OthersSame, Holds

(* The end of a call leaves the other calls as they are. *)
LEMMA EnqueuedOthers ==
  ASSUME WellTyped, NEW e \in Enqueuers, NEW ok \in BOOLEAN, Enqueued(e, ok), created' = created
  PROVE  OthersSame(e) /\ ~ Holds(e)'
<1>1. CASE e \in Scans
  BY <1>1, OneCallMoves DEF Enqueued, Holds
<1>2. CASE e \notin Scans
  <2> DEFINE left == IF ok \/ replica[e] = "starting" THEN batch[e] \ {Target(e)} ELSE {}
  <2>1. batch' = [batch EXCEPT ![e] = left] /\ home' = home /\ enq' = [enq EXCEPT ![e] = "next"]
    BY <1>2 DEF Enqueued
  <2> HIDE DEF left
  <2>2. \A p \in Replicas \ {e} : batch'[p] = batch[p]
    BY <2>1 DEF WellTyped, TypeOK
  <2>3. OthersSame(e) /\ enq'[e] = "next"
    BY <2>1, <2>2, OneCallMoves
  <2> QED
    BY <2>3 DEF Holds
<1> QED
  BY <1>1, <1>2

(* The rows of a pass keep their order while other rows are inserted. *)
LEMMA OldestSame ==
  ASSUME NEW rows, \A t \in rows : created'[t] = created[t]
  PROVE  (CHOOSE s \in rows : \A t \in rows : created'[s] <= created'[t]) = Oldest(rows)
<1>1. \A s : (s \in rows /\ \A t \in rows : created'[s] <= created'[t])
             <=> (s \in rows /\ \A t \in rows : created[s] <= created[t])
  OBVIOUS
<1>2. (CHOOSE s : s \in rows /\ \A t \in rows : created'[s] <= created'[t])
      = (CHOOSE s : s \in rows /\ \A t \in rows : created[s] <= created[t])
  BY <1>1
<1> QED
  BY <1>2 DEF Oldest

(* A request inserts a row that no pass has in its batch. *)
LEMMA SubmitKeepsReserved ==
  ASSUME WellTyped, ReservedInv, CallsPlaced, NEW s \in Scans, NEW p \in Replicas, Submit(s, p)
  PROVE  ReservedInv'
<1>1. /\ enq' = [enq EXCEPT ![s] = "reserve"]
      /\ home' = [home EXCEPT ![s] = p]
      /\ UNCHANGED <<queue, queued, batch>>
      /\ status[s] = "none"
  BY DEF Submit, queueVars
<1>2. \A t \in Scans \ {s} : created'[t] = created[t]
  BY DEF Submit, WellTyped, TypeOK
<1>3. s \in Enqueuers
  BY DEF Enqueuers
<1>4. ASSUME NEW e \in Enqueuers, Holds(e)'
      PROVE  Holds(e) /\ SameCall(e)
  <2>1. e # s /\ enq'[e] = enq[e]
    BY <1>1, <1>3, <1>4 DEF Holds, WellTyped, TypeOK
  <2>2. CASE e \in Scans
    BY <1>1, <1>4, <2>1, <2>2, CallSame DEF Holds, SameCall, At, Target, WellTyped, TypeOK
  <2>3. CASE e \notin Scans
    <3>1. e \in Replicas
      BY <2>3 DEF Enqueuers
    <3>2. \A t \in batch[e] : t \in Scans \ {s}
      BY <1>1, <3>1 DEF CallsPlaced, WellTyped, TypeOK
    <3>3. \A t \in batch[e] : created'[t] = created[t]
      BY <1>2, <3>2
    <3>4. (CHOOSE u \in batch[e] : \A t \in batch[e] : created'[u] <= created'[t]) = Oldest(batch[e])
      BY <3>3, OldestSame
    <3>5. Oldest(batch[e])' = Oldest(batch[e])
      BY <1>1, <3>4 DEF Oldest
    <3>6. SameCall(e)
      BY <2>3, <3>5 DEF SameCall, At, Target
    <3> QED
      BY <1>4, <2>1, <3>6 DEF Holds
  <2> QED
    BY <2>2, <2>3
<1> QED
  BY <1>1, <1>4, ReservedFrame

(* The steps of EnqueueScanContext. *)
LEMMA EnqueueKeepsReserved ==
  ASSUME WellTyped, ReservedInv, CallsPlaced, NEW e \in Enqueuers, EnqueueStep(e) \/ EnqueueError(e)
  PROVE  ReservedInv'
<1>1. created' = created
  BY DEF EnqueueStep, Reserve, SetQueued, SetQueuedFinalized, EnqueueFails, Send, EnqueueError
<1>2. CASE Reserve(e)
  <2>1. enq[e] = "reserve" /\ ~ Holds(e) /\ queue' = queue
    BY <1>2 DEF Reserve, Holds
  <2>2. At(e) \in Replicas
    BY <2>1 DEF At, CallsPlaced, Enqueuers
  <2>3. CASE Target(e) \in queued[At(e)]
    <3>1. Enqueued(e, TRUE) /\ queued' = queued
      BY <1>2, <2>3 DEF Reserve
    <3>2. OthersSame(e) /\ ~ Holds(e)'
      BY <1>1, <3>1, EnqueuedOthers
    <3> QED
      BY <2>1, <3>1, <3>2, ReservedFrame DEF OthersSame
  <2>4. CASE Target(e) \notin queued[At(e)]
    <3>1. /\ queued' = [queued EXCEPT ![At(e)] = @ \cup {Target(e)}]
          /\ enq' = [enq EXCEPT ![e] = "step"]
          /\ home' = home /\ batch' = batch
      BY <1>2, <2>4 DEF Reserve
    <3>2. OthersSame(e) /\ enq'[e] = "step"
      BY <1>1, <3>1, OneCallMoves
    <3>3. SameCall(e)
      BY <1>1, <3>1, CallSame
    <3>4. Holds(e)'
      BY <3>2 DEF Holds
    <3> QED
      BY <2>1, <2>2, <2>4, <3>1, <3>2, <3>3, <3>4, Reserves DEF OthersSame
  <2> QED
    BY <2>3, <2>4
<1>3. CASE SetQueued(e)
  <2>1. /\ enq[e] = "step" /\ enq' = [enq EXCEPT ![e] = "send"]
        /\ UNCHANGED <<queue, queued>> /\ home' = home /\ batch' = batch
    BY <1>3 DEF SetQueued, queueVars
  <2>2. OthersSame(e)
    BY <1>1, <2>1, OneCallMoves
  <2>3. Holds(e) /\ SameCall(e)
    BY <1>1, <2>1, CallSame DEF Holds
  <2> QED
    BY <2>1, <2>2, <2>3, ReservedFrame DEF OthersSame
<1>4. ASSUME Holds(e), EnqueueFails(e) PROVE ReservedInv'
  <2>1. queue' = queue /\ queued' = [queued EXCEPT ![At(e)] = @ \ {Target(e)}]
    BY <1>4 DEF EnqueueFails, Unreserve
  <2>2. OthersSame(e) /\ ~ Holds(e)'
    <3>1. CASE e \in Scans
      <4>1. enq' = [enq EXCEPT ![e] = "marking"] /\ home' = home /\ batch' = batch
        BY <1>4, <3>1 DEF EnqueueFails
      <4>2. OthersSame(e) /\ enq'[e] = "marking"
        BY <1>1, <4>1, OneCallMoves
      <4> QED
        BY <4>2 DEF Holds
    <3>2. CASE e \notin Scans
      BY <1>1, <1>4, <3>2, EnqueuedOthers DEF EnqueueFails
    <3> QED
      BY <3>1, <3>2
  <2> QED
    BY <1>4, <2>1, <2>2, GivesBack DEF OthersSame
<1>5. CASE SetQueuedFinalized(e) \/ EnqueueError(e)
  BY <1>4, <1>5 DEF SetQueuedFinalized, EnqueueError, Holds
<1>6. CASE Send(e)
  <2>1. Holds(e)
    BY <1>6 DEF Send, Holds
  <2>2. CASE Len(queue[At(e)]) < Capacity
    <3>1. /\ queue' = [queue EXCEPT ![At(e)] = Append(@, Target(e))]
          /\ queued' = queued /\ Enqueued(e, TRUE)
      BY <1>6, <2>2 DEF Send
    <3>2. OthersSame(e) /\ ~ Holds(e)'
      BY <1>1, <3>1, EnqueuedOthers
    <3> QED
      BY <2>1, <3>1, <3>2, HandsOver DEF OthersSame
  <2>3. CASE ~ (Len(queue[At(e)]) < Capacity)
    <3>1. /\ queue' = queue /\ Enqueued(e, FALSE)
          /\ queued' = [queued EXCEPT ![At(e)] = @ \ {Target(e)}]
      BY <1>6, <2>3 DEF Send, Unreserve
    <3>2. OthersSame(e) /\ ~ Holds(e)'
      BY <1>1, <3>1, EnqueuedOthers
    <3> QED
      BY <2>1, <3>1, <3>2, GivesBack DEF OthersSame
  <2> QED
    BY <2>2, <2>3
<1> QED
  BY <1>2, <1>3, <1>5, <1>6 DEF EnqueueStep

(* The steps of a process: a recovery pass turns to its next row, and a    *)
(* crash forgets queue, reservations and calls together.                   *)
LEMMA ProcessKeepsReserved ==
  ASSUME WellTyped, ReservedInv, NEW p \in Replicas,
         \/ Start(p) \/ RecoverySelect(p) \/ RecoveryNext(p) \/ RecoveryEnds(p)
         \/ StartupDone(p) \/ WatchdogFinishes(p) \/ Crash(p)
  PROVE  ReservedInv'
<1> USE DEF queueVars, enqVars
<1>1. p \in Enqueuers /\ created' = created /\ home' = home
  BY DEF Enqueuers, Start, RecoverySelect, RecoveryNext, RecoveryEnds, StartupDone,
         WatchdogFinishes, Crash
<1>2. ASSUME NEW to \in {"idle", "next", "reserve"}, enq' = [enq EXCEPT ![p] = to],
             \A q \in Replicas \ {p} : batch'[q] = batch[q], UNCHANGED <<queue, queued>>
      PROVE  ReservedInv'
  <2>1. OthersSame(p) /\ enq'[p] = to
    BY <1>1, <1>2, OneCallMoves
  <2>2. ~ Holds(p)'
    BY <2>1 DEF Holds
  <2> QED
    BY <1>2, <2>1, <2>2, ReservedFrame DEF OthersSame
<1>3. ASSUME NEW rows, batch' = [batch EXCEPT ![p] = rows] \/ batch' = batch
      PROVE  \A q \in Replicas \ {p} : batch'[q] = batch[q]
  BY <1>3 DEF WellTyped, TypeOK
<1>4. CASE Start(p)
  BY <1>2, <1>3, <1>4 DEF Start
<1>5. CASE RecoverySelect(p)
  BY <1>2, <1>3, <1>5 DEF RecoverySelect
<1>6. CASE RecoveryNext(p)
  <2>1. enq[p] = "next" /\ UNCHANGED <<queue, queued>>
    BY <1>6 DEF RecoveryNext
  <2>2. PICK to \in {"next", "reserve"} : enq' = [enq EXCEPT ![p] = to]
    <3>1. enq = [enq EXCEPT ![p] = "next"]
      BY <1>1, <2>1 DEF WellTyped, TypeOK
    <3> QED
      BY <1>6, <3>1 DEF RecoveryNext
  <2>3. \A q \in Replicas \ {p} : batch'[q] = batch[q]
    BY <1>3, <1>6 DEF RecoveryNext
  <2> QED
    BY <1>2, <2>1, <2>2, <2>3
<1>7. CASE RecoveryEnds(p) \/ StartupDone(p)
  BY <1>2, <1>7 DEF RecoveryEnds, StartupDone
<1>8. CASE WatchdogFinishes(p)
  <2>1. UNCHANGED <<queue, queued, enq, batch>>
    BY <1>8 DEF WatchdogFinishes
  <2> QED
    BY <1>1, <2>1, CallSame, ReservedFrame DEF Holds
<1>9. CASE Crash(p)
  <2>1. /\ queue' = [queue EXCEPT ![p] = <<>>]
        /\ queued' = [queued EXCEPT ![p] = {}]
        /\ enq' = [e \in Enqueuers |-> IF At(e) = p THEN "idle" ELSE enq[e]]
        /\ batch' = [batch EXCEPT ![p] = {}]
    BY <1>9 DEF Crash
  <2>2. /\ queue'[p] = <<>> /\ queued'[p] = {}
        /\ \A q \in Replicas \ {p} :
             queue'[q] = queue[q] /\ queued'[q] = queued[q] /\ batch'[q] = batch[q]
    BY <2>1 DEF WellTyped, TypeOK
  <2>3. IsInjective(<<>>) /\ Range(<<>>) = {}
    BY DEF IsInjective, Range
  <2>4. ASSUME NEW e \in Enqueuers, Holds(e)'
        PROVE  Holds(e) /\ SameCall(e) /\ At(e) # p
    <3>1. At(e) # p /\ Holds(e)
      BY <2>1, <2>4 DEF Holds
    <3>2. e \notin Scans => batch'[e] = batch[e]
      BY <2>2, <3>1 DEF At, Enqueuers
    <3> QED
      BY <1>1, <3>1, <3>2, CallSame
  <2>5. \A q \in Replicas : IsInjective(queue'[q]) /\ Range(queue'[q]) \subseteq queued'[q]
    BY <2>2, <2>3 DEF ReservedInv
  <2>6. \A e \in Enqueuers : Holds(e)' =>
          /\ At(e)' \in Replicas
          /\ Target(e)' \in queued'[At(e)'] \ Range(queue'[At(e)'])
    BY <2>2, <2>4 DEF ReservedInv, SameCall
  <2>7. \A e, f \in Enqueuers :
          Holds(e)' /\ Holds(f)' /\ At(e)' = At(f)' /\ Target(e)' = Target(f)' => e = f
    BY <2>4 DEF ReservedInv, SameCall
  <2> QED
    BY <2>5, <2>6, <2>7 DEF ReservedInv
<1> QED
  BY <1>4, <1>5, <1>6, <1>7, <1>8, <1>9

(* Every step keeps the reservations. *)
LEMMA ReservedStep ==
  ASSUME WellTyped, ReservedInv, CallsPlaced, [Next]_vars
  PROVE  ReservedInv'
<1> USE DEF Unchanged, enqVars, queueVars
<1>1. CASE UNCHANGED <<queue, queued, enq, home, batch, created>>
  BY <1>1, CallSame, ReservedFrame DEF Holds
<1>2. ASSUME NEW s \in Scans, NEW p \in Replicas,
             Submit(s, p) \/ CancelRead(s, p) \/ RecoverStale(p, s) \/ WatchdogFails(p, s)
      PROVE  ReservedInv'
  BY <1>1, <1>2, SubmitKeepsReserved DEF CancelRead, RecoverStale, WatchdogFails
<1>3. ASSUME NEW s \in Scans,
             \/ MarkScanFailed(s) \/ MarkScanFailedError(s)
             \/ CancelSignal(s) \/ CancelPersist(s) \/ BecomeStale(s)
      PROVE  ReservedInv'
  <2>1. CASE MarkScanFailed(s) \/ MarkScanFailedError(s)
    <3>1. /\ s \in Enqueuers
          /\ enq' = [enq EXCEPT ![s] = "idle"]
          /\ UNCHANGED <<queue, queued>>
          /\ home' = home /\ batch' = batch /\ created' = created
      BY <2>1 DEF MarkScanFailed, MarkScanFailedError, Enqueuers
    <3>2. OthersSame(s) /\ enq'[s] = "idle"
      BY <3>1, OneCallMoves
    <3>3. ~ Holds(s)'
      BY <3>2 DEF Holds
    <3> QED
      BY <3>1, <3>2, <3>3, ReservedFrame DEF OthersSame
  <2>2. CASE CancelSignal(s) \/ CancelPersist(s) \/ BecomeStale(s)
    BY <1>1, <2>2 DEF CancelSignal, CancelPersist, BecomeStale
  <2> QED
    BY <1>3, <2>1, <2>2
<1>4. ASSUME NEW w \in Workers,
             WorkerStep(w) \/ Heartbeat(w) \/ ClaimError(w) \/ ConfirmError(w) \/ SaveError(w)
      PROVE  ReservedInv'
  BY <1>1, <1>4, TakeKeepsReserved
  DEF WorkerStep, Claim, Skip, Register, Confirm, Prepare, Finalize, Advance, SetFailed,
      Interrupted, Complete, Finish, Heartbeat, ClaimError, ConfirmError, SaveError
<1>5. CASE UNCHANGED vars
  BY <1>1, <1>5 DEF vars
<1> QED
  BY StepCases, <1>2, <1>3, <1>4, <1>5, EnqueueKeepsReserved, ProcessKeepsReserved

(* No scan is twice in a queue and each entry has its reservation, however *)
(* requests, recovery passes, workers and crashes meet; and a queued scan  *)
(* keeps its archive until its runner has read it.                         *)
THEOREM QueueHolds == Spec => []QueueKeepsNeeded
<1>1. Init => ReservedInv /\ CallsPlaced
  <2>1. IsInjective(<<>>) /\ Range(<<>>) = {}
    BY DEF IsInjective, Range
  <2> QED
    BY <2>1 DEF Init, ReservedInv, CallsPlaced, Holds, Enqueuers
<1>2. WellTyped /\ ReservedInv /\ ArchiveKeptForRunner => QueueKeepsNeeded
  <2> SUFFICES ASSUME ReservedInv PROVE EntriesReserved
    BY DEF QueueKeepsNeeded
  <2> QED
    BY DEF ReservedInv, EntriesReserved, Range
<1> QED
  BY <1>1, <1>2, TypesHold, ArchivesAreKept, CallsPlacedStep, ReservedStep, PTL DEF Spec

-----------------------------------------------------------------------------
(* The contract *)

(* Nobody begins to run a scan. *)
NobodyBegins ==
    \A w \in Workers : pc'[w] \in Running => pc[w] \in Running /\ scan'[w] = scan[w]

LEMMA RunnersShrink ==
  ASSUME NobodyBegins
  PROVE  Contract!Shrink
  BY DEF NobodyBegins, Contract!Shrink, Runners

(* Steps that end no scan, claim none and tell nobody. *)
LEMMA QuietStops ==
  ASSUME UNCHANGED <<status, notified, callback>>, NobodyBegins
  PROVE  Contract!Next
  BY RunnersShrink DEF Contract!Next, Contract!Stop

(* Whoever ends a scan. *)
LEMMA TransitionEnds ==
  ASSUME NEW s \in Scans, NEW from \in SUBSET Active, NEW to \in Terminal,
         Transition(s, from, to), notified' = notified, NobodyBegins,
         callback' = callback \/ callback' = [callback EXCEPT ![s] = TRUE]
  PROVE  Contract!Next
<1>1. Contract!End(s)
  BY RunnersShrink DEF Contract!End, Contract!Ended, Transition, Active, Terminal
<1> QED
  BY <1>1 DEF Contract!Next

(* The writer of the end tells of it, and runs nothing. *)
LEMMA TellerTells ==
  ASSUME WellTyped, NEW s \in Scans, Untold(s), Announce(s), status' = status,
         \A t \in Scans : Runners(t)' = Runners(t)
  PROVE  Contract!Next
<1>1. notified' = [notified EXCEPT ![s] = 1]
  BY DEF Announce, Untold, WellTyped, TypeOK
<1>2. [t \in Scans |-> Runners(t)]' = [t \in Scans |-> Runners(t)]
  OBVIOUS
<1>3. Contract!Tell(s)
  BY <1>1, <1>2 DEF Contract!Tell, Contract!Ended, Untold, Announce, Terminal
<1> QED
  BY <1>3 DEF Contract!Next

(* A claim begins the only run. *)
LEMMA ClaimRuns ==
  ASSUME WellTyped, LifeInv, NEW w \in Workers, Claim(w)
  PROVE  Contract!Next
<1>1. scan[w] \in Scans /\ status[scan[w]] = "pending"
  BY BusyHasScan DEF WellTyped, Claim
<1>2. /\ status' = [status EXCEPT ![scan[w]] = "running"]
      /\ UNCHANGED <<notified, callback>> /\ scan' = scan
      /\ pc' = [pc EXCEPT ![w] = "claimed"]
  BY DEF Claim, Unchanged, toldVars
<1>3. Runners(scan[w]) = {}
  BY <1>1 DEF Runners, LifeInv, RunnersClaimed
<1>4. \A v \in Workers : v # w => pc'[v] = pc[v]
  BY <1>2 DEF WellTyped, TypeOK
<1>5. pc'[w] = "claimed" /\ pc[w] = "loaded"
  BY <1>2 DEF Claim, WellTyped, TypeOK
<1>6. Runners(scan[w])' = {w}
  BY <1>2, <1>3, <1>4, <1>5 DEF Runners, Running
<1>7. \A t \in Scans \ {scan[w]} : Runners(t)' = Runners(t)
  BY <1>2, <1>4, <1>5 DEF Runners, Running
<1>8. [t \in Scans |-> Runners(t)]' = [[t \in Scans |-> Runners(t)] EXCEPT ![scan[w]] = {w}]
  BY <1>1, <1>2, <1>6, <1>7
<1>9. Contract!Run(scan[w], w)
  BY <1>1, <1>2, <1>3, <1>8 DEF Contract!Run
<1> QED
  BY <1>1, <1>9 DEF Contract!Next

(* Every step of a worker is a step of the contract. *)
LEMMA WorkerKeepsContract ==
  ASSUME WellTyped, LifeInv, NEW w \in Workers,
         WorkerStep(w) \/ Heartbeat(w) \/ ClaimError(w) \/ ConfirmError(w) \/ SaveError(w)
  PROVE  Contract!Next
<1> USE DEF Unchanged, rowVars, toldVars, workerVars
<1>1. /\ {"failed", "cancelled", "completed"} \subseteq Terminal
      /\ \A S \in {{"running"}, Active} : S \in SUBSET Active
  BY DEF Terminal, Active
<1>2. ASSUME NEW cleanup, Leave(w, cleanup) PROVE NobodyBegins
  BY <1>2 DEF Leave, NobodyBegins, WellTyped, TypeOK, Running
<1>3. ASSUME pc[w] \in Running, NEW to, pc' = [pc EXCEPT ![w] = to], scan' = scan
      PROVE  NobodyBegins
  BY <1>3 DEF NobodyBegins, WellTyped, TypeOK
<1>4. pc[w] \notin {"off", "idle"} => scan[w] \in Scans
  BY BusyHasScan DEF WellTyped
<1>5. CASE Take(w)
  <2>1. NobodyBegins
    BY <1>5 DEF Take, NobodyBegins, WellTyped, TypeOK, Running
  <2> QED
    BY <1>5, <2>1, QuietStops DEF Take
<1>6. CASE Skip(w) \/ ClaimError(w) \/ ConfirmError(w) \/ SaveError(w) \/ Interrupted(w)
  BY <1>2, <1>6, QuietStops DEF Skip, ClaimError, ConfirmError, SaveError, Interrupted
<1>7. CASE Register(w)
  BY <1>3, <1>7, QuietStops DEF Register, Running
<1>8. CASE Confirm(w)
  BY <1>2, <1>3, <1>8, QuietStops DEF Confirm, Running
<1>9. CASE Prepare(w) \/ Finalize(w)
  BY <1>3, <1>9, QuietStops DEF Prepare, Finalize, Advance, UpdateStep, Running
<1>10. CASE SetFailed(w)
  <2>1. CASE status[scan[w]] \in Active
    <3>1. /\ Transition(scan[w], Active, "failed") /\ pc[w] \in Running /\ scan[w] \in Scans
          /\ pc' = [pc EXCEPT ![w] = "finishing"] /\ scan' = scan
          /\ UNCHANGED <<notified, callback>>
      BY <1>4, <1>10, <2>1 DEF SetFailed, Running
    <3> QED
      BY <1>1, <1>3, <3>1, TransitionEnds
  <2>2. CASE status[scan[w]] \notin Active
    BY <1>2, <1>10, <2>2, QuietStops DEF SetFailed
  <2> QED
    BY <2>1, <2>2
<1>11. CASE Complete(w)
  <2>1. CASE status[scan[w]] = "running"
    <3>1. /\ Transition(scan[w], {"running"}, "completed") /\ pc[w] \in Running /\ scan[w] \in Scans
          /\ pc' = [pc EXCEPT ![w] = "finishing"] /\ scan' = scan
          /\ UNCHANGED <<notified, callback>>
      BY <1>4, <1>11, <2>1 DEF Complete, Running
    <3> QED
      BY <1>1, <1>3, <3>1, TransitionEnds
  <2>2. CASE status[scan[w]] # "running"
    BY <1>2, <1>11, <2>2, QuietStops DEF Complete
  <2> QED
    BY <2>1, <2>2
<1>12. CASE Finish(w)
  <2>1. pc[w] = "finishing" /\ scan[w] \in Scans /\ Untold(scan[w])
    BY <1>4, <1>12 DEF Finish, LifeInv, TellersOwe
  <2>2. /\ pc' = [pc EXCEPT ![w] = "idle"] /\ scan' = [scan EXCEPT ![w] = NoScan]
        /\ Announce(scan[w]) /\ status' = status
    BY <1>12 DEF Finish, Leave
  <2>3. \A t \in Scans : Runners(t)' = Runners(t)
    BY <2>1, <2>2 DEF Runners, Running, WellTyped, TypeOK
  <2> QED
    BY <2>1, <2>2, <2>3, TellerTells
<1>13. CASE Heartbeat(w)
  BY <1>13, QuietStops DEF Heartbeat, NobodyBegins
<1> QED
  BY <1>5, <1>6, <1>7, <1>8, <1>9, <1>10, <1>11, <1>12, <1>13, ClaimRuns DEF WorkerStep

(* Every step is a step of the contract, or none. *)
LEMMA ScanContractStep ==
  ASSUME WellTyped, LifeInv, [Next]_vars
  PROVE  [Contract!Next]_(Contract!svars)
<1> USE DEF Unchanged, rowVars, toldVars, workerVars
<1>1. /\ {"failed", "cancelled", "completed"} \subseteq Terminal
      /\ \A S \in {{"running"}, Active} : S \in SUBSET Active
  BY DEF Terminal, Active
<1>2. ASSUME UNCHANGED <<status, notified, callback, pc, scan>>
      PROVE  Contract!Next
  BY <1>2, QuietStops DEF NobodyBegins
<1>3. pc' = pc /\ scan' = scan => NobodyBegins
  BY DEF NobodyBegins
<1>4. ASSUME NEW s \in Scans, NEW p \in Replicas,
             Submit(s, p) \/ CancelRead(s, p) \/ RecoverStale(p, s) \/ WatchdogFails(p, s)
      PROVE  Contract!Next
  <2>1. CASE Submit(s, p)
    <3>1. /\ status[s] = "none" /\ status' = [status EXCEPT ![s] = "pending"]
          /\ UNCHANGED <<notified, callback, pc, scan>>
      BY <2>1 DEF Submit
    <3>2. [t \in Scans |-> Runners(t)]' = [t \in Scans |-> Runners(t)]
      BY <3>1 DEF Runners
    <3>3. Contract!Accept(s)
      BY <3>1, <3>2 DEF Contract!Accept
    <3> QED
      BY <3>3 DEF Contract!Next
  <2>2. CASE RecoverStale(p, s) \/ WatchdogFails(p, s)
    BY <1>1, <1>3, <2>2, TransitionEnds DEF RecoverStale, WatchdogFails
  <2>3. CASE CancelRead(s, p)
    BY <1>2, <2>3 DEF CancelRead
  <2> QED
    BY <1>4, <2>1, <2>2, <2>3
<1>5. ASSUME NEW s \in Scans,
             \/ MarkScanFailed(s) \/ MarkScanFailedError(s)
             \/ CancelSignal(s) \/ CancelPersist(s) \/ BecomeStale(s)
      PROVE  Contract!Next
  <2>1. CASE MarkScanFailed(s)
    BY <1>1, <1>2, <1>3, <2>1, TransitionEnds DEF MarkScanFailed
  <2>2. CASE CancelPersist(s)
    BY <1>1, <1>2, <1>3, <2>2, TransitionEnds DEF CancelPersist
  <2>3. CASE MarkScanFailedError(s) \/ CancelSignal(s) \/ BecomeStale(s)
    BY <1>2, <2>3 DEF MarkScanFailedError, CancelSignal, BecomeStale
  <2> QED
    BY <1>5, <2>1, <2>2, <2>3
<1>6. ASSUME NEW e \in Enqueuers, EnqueueStep(e) \/ EnqueueError(e)
      PROVE  Contract!Next
  BY <1>2, <1>6 DEF EnqueueStep, Reserve, SetQueued, UpdateStep, SetQueuedFinalized, EnqueueFails,
                    Send, EnqueueError
<1>7. ASSUME NEW p \in Replicas,
             \/ Start(p) \/ RecoverySelect(p) \/ RecoveryNext(p) \/ RecoveryEnds(p)
             \/ StartupDone(p) \/ WatchdogFinishes(p) \/ Crash(p)
      PROVE  Contract!Next
  <2>1. CASE Start(p) \/ Crash(p)
    <3>1. NobodyBegins
      BY <2>1 DEF Start, Crash, NobodyBegins, WellTyped, TypeOK, Running
    <3> QED
      BY <2>1, <3>1, QuietStops DEF Start, Crash
  <2>2. CASE WatchdogFinishes(p)
    <3>1. watchdog[p] \in Scans /\ Untold(watchdog[p])
      BY <2>2 DEF WatchdogFinishes, WellTyped, TypeOK, LifeInv, TellersOwe
    <3>2. Announce(watchdog[p]) /\ UNCHANGED <<status, pc, scan>>
      BY <2>2 DEF WatchdogFinishes
    <3>3. \A t \in Scans : Runners(t)' = Runners(t)
      BY <3>2 DEF Runners
    <3> QED
      BY <3>1, <3>2, <3>3, TellerTells
  <2>3. CASE RecoverySelect(p) \/ RecoveryNext(p) \/ RecoveryEnds(p) \/ StartupDone(p)
    BY <1>2, <2>3 DEF RecoverySelect, RecoveryNext, RecoveryEnds, StartupDone
  <2> QED
    BY <1>7, <2>1, <2>2, <2>3
<1>8. UNCHANGED vars => Contract!Next
  BY <1>2 DEF vars
<1> QED
  BY StepCases, <1>4, <1>5, <1>6, <1>7, <1>8, WorkerKeepsContract

(* The scanner implements ScanContract: a scan is run once, ends once, and *)
(* is announced once, for any number of processes, workers and scans.      *)
THEOREM ScannerKeepsContract == Spec => ImplementsScanContract
<1>1. Init => Contract!Init
  <2>1. ASSUME Init, NEW t \in Scans PROVE Runners(t) = {}
    BY <2>1 DEF Init, Runners, Running
  <2> QED
    BY <2>1 DEF Init, Contract!Init
<1>2. WellTyped /\ LifeInv /\ [Next]_vars => [Contract!Next]_(Contract!svars)
  BY ScanContractStep
<1> QED
  BY <1>1, <1>2, InitLife, LifeStep, TypesHold, PTL DEF Spec, ImplementsScanContract, Contract!Spec
=============================================================================
