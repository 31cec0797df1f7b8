--------------------------- MODULE ScanLifecycle ---------------------------
(***************************************************************************)
(* The life of an image scan: services/backend/scanner/worker.go,          *)
(* dispatch.go, progress.go and handlers/scans/cancel.go.                  *)
(*                                                                         *)
(* A scan is a database row.  A request inserts it as pending and puts it  *)
(* on the bounded in-memory queue of its own process; recovery goroutines  *)
(* put pending rows back on a queue; workers claim, run and finish them;   *)
(* a user cancels; the watchdog fails what no longer shows progress.       *)
(* Several processes share the rows and nothing else.                      *)
(*                                                                         *)
(* Scan time stamps are only compared with the stale window, so a row is   *)
(* fresh or not.  The provider's own work (Trivy, Grype, Xray) is the      *)
(* choice between finishing and failing.                                   *)
(***************************************************************************)
EXTENDS Naturals, Sequences, FiniteSets, Functions

CONSTANTS
    Scans, NoScan,
    Uploaded,             \* scans of an archive on the disk of one process
    Unresolvable,         \* scans whose registry recovery cannot resolve
    Cancels,              \* scans a user may cancel
    Replicas, NoReplica,
    Workers, Home,
    Capacity,             \* cap(jobQueue)
    BatchLimit,           \* LIMIT of one recovery pass
    MaxFaults

ASSUME ScanConstants ==
    /\ NoScan \notin Scans /\ NoReplica \notin Replicas
    /\ Scans \cap Replicas = {}
    /\ Uploaded \subseteq Scans /\ Unresolvable \subseteq Scans /\ Cancels \subseteq Scans
    /\ Home \in [Workers -> Replicas]
    /\ IsFiniteSet(Scans)
    /\ Capacity \in Nat \ {0} /\ BatchLimit \in Nat \ {0}
    /\ MaxFaults \in Nat

VARIABLES
    status, step, fresh, created,     \* the scans table; created is created_at
    archives,                         \* uploads on disk, at home[s]
    notified, callback,               \* what the outside world was told
    replica, queue, queued,           \* per process: jobQueue, queuedScanIDs
    enq, home, batch,                 \* calls of EnqueueScanContext
    pc, scan, cancelled,              \* workers
    watchdog,                         \* the scan a watchdog has just failed
    cancelPc, cancelAt, sawPending,   \* CancelScan requests
    faults

rowVars    == <<status, step, fresh>>
toldVars   == <<notified, callback>>
queueVars  == <<queue, queued>>
enqVars    == <<enq, home, batch>>
workerVars == <<pc, scan, cancelled>>
cancelVars == <<cancelPc, cancelAt, sawPending>>
vars == <<rowVars, created, archives, toldVars, replica, queueVars, enqVars,
          workerVars, watchdog, cancelVars, faults>>

Active   == {"pending", "running"}
Terminal == {"completed", "failed", "cancelled"}
Running  == {"claimed", "registered", "confirmed", "scanning", "finalizing"}
Enqueuers == Scans \cup Replicas

TypeOK ==
    /\ status \in [Scans -> {"none"} \cup Active \cup Terminal]
    /\ step \in [Scans -> {"queued", "working"} \cup Terminal]
    /\ fresh \in [Scans -> BOOLEAN]
    /\ created \in [Scans -> Nat]
    /\ archives \subseteq Uploaded
    /\ notified \in [Scans -> Nat]
    /\ callback \in [Scans -> BOOLEAN]
    /\ replica \in [Replicas -> {"off", "starting", "up"}]
    /\ queue \in [Replicas -> Seq(Scans)]
    /\ queued \in [Replicas -> SUBSET Scans]
    /\ enq \in [Enqueuers -> {"idle", "next", "reserve", "step", "send", "marking"}]
    /\ home \in [Scans -> Replicas \cup {NoReplica}]
    /\ batch \in [Replicas -> SUBSET Scans]
    /\ pc \in [Workers -> {"off", "idle", "loaded", "finishing"} \cup Running]
    /\ scan \in [Workers -> Scans \cup {NoScan}]
    /\ \A w \in Workers : pc[w] \in {"off", "idle"} <=> scan[w] = NoScan
    /\ cancelled \in [Workers -> BOOLEAN]
    /\ watchdog \in [Replicas -> Scans \cup {NoScan}]
    /\ cancelPc \in [Scans -> {"none", "read", "signalled", "done", "conflict"}]
    /\ cancelAt \in [Scans -> Replicas \cup {NoReplica}]
    /\ sawPending \in [Scans -> BOOLEAN]
    /\ faults \in 0 .. MaxFaults

Init ==
    /\ status = [s \in Scans |-> "none"]
    /\ step = [s \in Scans |-> "queued"]
    /\ fresh = [s \in Scans |-> FALSE]
    /\ created = [s \in Scans |-> 0]
    /\ archives = {}
    /\ notified = [s \in Scans |-> 0]
    /\ callback = [s \in Scans |-> FALSE]
    /\ replica = [p \in Replicas |-> "off"]
    /\ queue = [p \in Replicas |-> <<>>]
    /\ queued = [p \in Replicas |-> {}]
    /\ enq = [e \in Enqueuers |-> "idle"]
    /\ home = [s \in Scans |-> NoReplica]
    /\ batch = [p \in Replicas |-> {}]
    /\ pc = [w \in Workers |-> "off"]
    /\ scan = [w \in Workers |-> NoScan]
    /\ cancelled = [w \in Workers |-> FALSE]
    /\ watchdog = [p \in Replicas |-> NoScan]
    /\ cancelPc = [s \in Scans |-> "none"]
    /\ cancelAt = [s \in Scans |-> NoReplica]
    /\ sawPending = [s \in Scans |-> FALSE]
    /\ faults = 0

-----------------------------------------------------------------------------
(* One adverse event: a crash, a failed statement, a pause of a worker. *)
Fault == /\ faults < MaxFaults
         /\ faults' = faults + 1

(* UPDATE ... WHERE id = ? AND status IN (from): status, current_step and  *)
(* last_progress_at change together.                                       *)
Transition(s, from, to) ==
    /\ status[s] \in from
    /\ status' = [status EXCEPT ![s] = to]
    /\ step' = [step EXCEPT ![s] = to]
    /\ fresh' = [fresh EXCEPT ![s] = TRUE]

(* Mutant of UpdateStep: WHERE id = ? alone. *)
UpdateStepAlways(s, to) ==
    /\ step' = [step EXCEPT ![s] = to]
    /\ fresh' = [fresh EXCEPT ![s] = TRUE]
    /\ UNCHANGED status

(* The statuses updateScanCurrentStep asks for: a terminal step of a row   *)
(* that has ended so, and failed of a running row as well.                 *)
MovableFrom ==
    [queued |-> Active, working |-> Active, completed |-> {"completed"},
     failed |-> {"running", "failed"}, cancelled |-> {"cancelled"}]

(* updateScanCurrentStep; its callers name no terminal step. *)
UpdateStep(s, to) ==
    /\ status[s] \in MovableFrom[to]
    /\ step' = [step EXCEPT ![s] = to]
    /\ fresh' = [fresh EXCEPT ![s] = TRUE]
    /\ UNCHANGED status

(* notifications.Dispatch, then QueueCallbackForScan, whose error is only  *)
(* logged: the second may be missing, after a crash between them as well.  *)
Announce(s) ==
    /\ notified' = [notified EXCEPT ![s] = @ + 1]
    /\ \E asked \in BOOLEAN : callback' = [callback EXCEPT ![s] = @ \/ asked]

Pending == {s \in Scans : status[s] = "pending"}

(* ORDER BY created_at *)
OlderThan(s, rows) == {t \in rows : created[t] < created[s]}
Oldest(rows) == CHOOSE s \in rows : \A t \in rows : created[s] <= created[t]

(* Only the process that holds an uploaded archive can see it. *)
Recoverable(p, s) ==
    /\ s \notin Unresolvable
    /\ s \in Uploaded => s \in archives /\ home[s] = p

-----------------------------------------------------------------------------
(* EnqueueScanContext, called by a request (e is the scan) or by the       *)
(* recovery goroutine of a process (e is the process).                     *)
At(e)     == IF e \in Scans THEN home[e] ELSE e
Target(e) == IF e \in Scans THEN e ELSE Oldest(batch[e])

(* The caller goes on: a request is done; recovery takes its next row; the *)
(* periodic pass ends at the first error, the startup pass does not.       *)
Enqueued(e, ok) ==
    IF e \in Scans
    THEN /\ enq' = [enq EXCEPT ![e] = "idle"]
         /\ UNCHANGED <<home, batch>>
    ELSE /\ enq' = [enq EXCEPT ![e] = "next"]
         /\ batch' = [batch EXCEPT ![e] =
                        IF ok \/ replica[e] = "starting" THEN @ \ {Target(e)} ELSE {}]
         /\ UNCHANGED home

(* A request inserts the row and calls DispatchScan. *)
Submit(s, p) ==
    /\ status[s] = "none" /\ replica[p] # "off"
    /\ status' = [status EXCEPT ![s] = "pending"]
    /\ fresh' = [fresh EXCEPT ![s] = TRUE]
    /\ created' = [created EXCEPT ![s] = Cardinality({t \in Scans : status[t] # "none"}) + 1]
    /\ archives' = IF s \in Uploaded THEN archives \cup {s} ELSE archives
    /\ home' = [home EXCEPT ![s] = p]
    /\ enq' = [enq EXCEPT ![s] = "reserve"]
    /\ UNCHANGED <<step, toldVars, replica, queueVars, batch, workerVars,
                   watchdog, cancelVars, faults>>

(* Mutant of Reserve: the reservation is stored without being looked up. *)
ReserveBlindly(e) ==
    /\ enq[e] = "reserve"
    /\ queued' = [queued EXCEPT ![At(e)] = @ \cup {Target(e)}]
    /\ enq' = [enq EXCEPT ![e] = "step"]
    /\ UNCHANGED <<rowVars, created, archives, toldVars, replica, queue, home, batch,
                   workerVars, watchdog, cancelVars, faults>>

(* queuedScanIDs.LoadOrStore *)
Reserve(e) ==
    /\ enq[e] = "reserve"
    /\ IF Target(e) \in queued[At(e)]
       THEN Enqueued(e, TRUE) /\ UNCHANGED queued
       ELSE /\ queued' = [queued EXCEPT ![At(e)] = @ \cup {Target(e)}]
            /\ enq' = [enq EXCEPT ![e] = "step"]
            /\ UNCHANGED <<home, batch>>
    /\ UNCHANGED <<rowVars, created, archives, toldVars, replica, queue, workerVars,
                   watchdog, cancelVars, faults>>

(* The deferred release of a reservation that was not handed over. *)
Unreserve(e) == queued' = [queued EXCEPT ![At(e)] = @ \ {Target(e)}]

(* setScanStepByID(queued) *)
SetQueued(e) ==
    /\ enq[e] = "step"
    /\ UpdateStep(Target(e), "queued")
    /\ enq' = [enq EXCEPT ![e] = "send"]
    /\ UNCHANGED <<created, archives, toldVars, replica, queueVars, home, batch,
                   workerVars, watchdog, cancelVars, faults>>

(* An error of the enqueue: a request goes on to MarkScanFailed. *)
EnqueueFails(e) ==
    /\ Unreserve(e)
    /\ IF e \in Scans
       THEN enq' = [enq EXCEPT ![e] = "marking"] /\ UNCHANGED <<home, batch>>
       ELSE Enqueued(e, FALSE)
    /\ UNCHANGED <<rowVars, created, archives, toldVars, replica, queue, workerVars,
                   watchdog, cancelVars>>

(* ErrScanStateFinalized *)
SetQueuedFinalized(e) ==
    /\ enq[e] = "step"
    /\ status[Target(e)] \notin Active
    /\ EnqueueFails(e)
    /\ UNCHANGED faults

(* The statement fails or the request's context is done. *)
EnqueueError(e) ==
    /\ Fault
    /\ enq[e] \in {"step", "send"}
    /\ EnqueueFails(e)

(* Mutant of Send: a full queue does not release the reservation. *)
SendKeepsReservation(e) ==
    /\ enq[e] = "send"
    /\ IF Len(queue[At(e)]) < Capacity
       THEN queue' = [queue EXCEPT ![At(e)] = Append(@, Target(e))] /\ Enqueued(e, TRUE)
       ELSE Enqueued(e, FALSE) /\ UNCHANGED queue
    /\ UNCHANGED <<rowVars, created, archives, toldVars, replica, queued, workerVars,
                   watchdog, cancelVars, faults>>

(* The non-blocking send; a full queue leaves the row to recovery. *)
Send(e) ==
    /\ enq[e] = "send"
    /\ IF Len(queue[At(e)]) < Capacity
       THEN /\ queue' = [queue EXCEPT ![At(e)] = Append(@, Target(e))]
            /\ Enqueued(e, TRUE)
            /\ UNCHANGED queued
       ELSE /\ Unreserve(e)
            /\ Enqueued(e, FALSE)
            /\ UNCHANGED queue
    /\ UNCHANGED <<rowVars, created, archives, toldVars, replica, workerVars,
                   watchdog, cancelVars, faults>>

(* MarkScanFailed: no notification, but the pipeline callback. *)
MarkScanFailed(s) ==
    /\ enq[s] = "marking"
    /\ IF status[s] \in Active
       THEN /\ Transition(s, Active, "failed")
            /\ callback' = [callback EXCEPT ![s] = TRUE]
       ELSE UNCHANGED <<rowVars, callback>>
    /\ enq' = [enq EXCEPT ![s] = "idle"]
    /\ UNCHANGED <<created, archives, notified, replica, queueVars, home, batch,
                   workerVars, watchdog, cancelVars, faults>>

(* Its statement fails too: the row stays as it is. *)
MarkScanFailedError(s) ==
    /\ Fault
    /\ enq[s] = "marking"
    /\ enq' = [enq EXCEPT ![s] = "idle"]
    /\ UNCHANGED <<rowVars, created, archives, toldVars, replica, queueVars, home, batch,
                   workerVars, watchdog, cancelVars>>

-----------------------------------------------------------------------------
(* Recovery *)

(* InitWorker: workers start, recoverScansAfterRestart normalises pending  *)
(* rows and loads all of them.                                             *)
Start(p) ==
    /\ replica[p] = "off"
    /\ replica' = [replica EXCEPT ![p] = "starting"]
    /\ pc' = [w \in Workers |-> IF Home[w] = p THEN "idle" ELSE pc[w]]
    /\ step' = [s \in Scans |-> IF status[s] = "pending" THEN "queued" ELSE step[s]]
    /\ fresh' = [s \in Scans |-> fresh[s] \/ status[s] = "pending"]
    /\ batch' = [batch EXCEPT ![p] = Pending]
    /\ enq' = [enq EXCEPT ![p] = "next"]
    /\ UNCHANGED <<status, created, archives, toldVars, queueVars, home, scan, cancelled,
                   watchdog, cancelVars, faults>>

(* recoverPendingProviderBatch: the oldest pending rows, up to the limit. *)
RecoverySelect(p) ==
    /\ replica[p] = "up" /\ enq[p] = "idle"
    /\ Pending # {}
    /\ batch' = [batch EXCEPT ![p] =
                    {s \in Pending : Cardinality(OlderThan(s, Pending)) < BatchLimit}]
    /\ enq' = [enq EXCEPT ![p] = "next"]
    /\ UNCHANGED <<rowVars, created, archives, toldVars, replica, queueVars, home,
                   workerVars, watchdog, cancelVars, faults>>

(* The next row of the pass: enqueue it, or leave it where it is. *)
RecoveryNext(p) ==
    /\ enq[p] = "next" /\ batch[p] # {}
    /\ IF /\ Recoverable(p, Target(p))
          /\ replica[p] = "starting" \/ Target(p) \notin queued[p]
       THEN enq' = [enq EXCEPT ![p] = "reserve"] /\ UNCHANGED batch
       ELSE batch' = [batch EXCEPT ![p] = @ \ {Target(p)}] /\ UNCHANGED enq
    /\ UNCHANGED <<rowVars, created, archives, toldVars, replica, queueVars, home,
                   workerVars, watchdog, cancelVars, faults>>

RecoveryEnds(p) ==
    /\ replica[p] = "up"
    /\ enq[p] = "next" /\ batch[p] = {}
    /\ enq' = [enq EXCEPT ![p] = "idle"]
    /\ UNCHANGED <<rowVars, created, archives, toldVars, replica, queueVars, home, batch,
                   workerVars, watchdog, cancelVars, faults>>

Stale(s) == status[s] = "running" /\ ~ fresh[s]

(* Startup fails the scans no heartbeat speaks for, and tells nobody. *)
RecoverStale(p, s) ==
    /\ replica[p] = "starting"
    /\ enq[p] = "next" /\ batch[p] = {}
    /\ Stale(s)
    /\ Transition(s, {"running"}, "failed")
    /\ UNCHANGED <<created, archives, toldVars, replica, queueVars, enqVars,
                   workerVars, watchdog, cancelVars, faults>>

StartupDone(p) ==
    /\ replica[p] = "starting"
    /\ enq[p] = "next" /\ batch[p] = {}
    /\ ~ \E s \in Scans : Stale(s)
    /\ replica' = [replica EXCEPT ![p] = "up"]
    /\ enq' = [enq EXCEPT ![p] = "idle"]
    /\ UNCHANGED <<rowVars, created, archives, toldVars, queueVars, home, batch,
                   workerVars, watchdog, cancelVars, faults>>

(* failStaleScans: persistFailedScan re-checks the row it selected. *)
WatchdogFails(p, s) ==
    /\ replica[p] = "up" /\ watchdog[p] = NoScan
    /\ Stale(s)
    /\ Transition(s, {"running"}, "failed")
    /\ watchdog' = [watchdog EXCEPT ![p] = s]
    /\ UNCHANGED <<created, archives, toldVars, replica, queueVars, enqVars,
                   workerVars, cancelVars, faults>>

(* scanner.CancelScan: the context of a worker of this process. *)
Signal(p, s) ==
    cancelled' = [w \in Workers |->
                    \/ cancelled[w]
                    \/ /\ Home[w] = p /\ scan[w] = s
                       /\ pc[w] \in Running \ {"claimed"}]

WatchdogFinishes(p) ==
    /\ watchdog[p] # NoScan
    /\ Signal(p, watchdog[p])
    /\ Announce(watchdog[p])
    /\ watchdog' = [watchdog EXCEPT ![p] = NoScan]
    /\ UNCHANGED <<rowVars, created, archives, replica, queueVars, enqVars, pc, scan,
                   cancelVars, faults>>

-----------------------------------------------------------------------------
(* processScan, run by one worker goroutine *)

Unchanged == <<created, toldVars, replica, enqVars, watchdog, cancelVars>>

(* The worker returns from processScan; its deferred clean-up runs. *)
Leave(w, cleanup) ==
    /\ pc' = [pc EXCEPT ![w] = "idle"]
    /\ scan' = [scan EXCEPT ![w] = NoScan]
    /\ cancelled' = [cancelled EXCEPT ![w] = FALSE]
    /\ archives' = IF cleanup /\ home[scan[w]] = Home[w]
                   THEN archives \ {scan[w]} ELSE archives

(* workerLoop takes an entry and forgets its reservation. *)
Take(w) ==
    /\ pc[w] = "idle" /\ queue[Home[w]] # <<>>
    /\ LET s == Head(queue[Home[w]]) IN
         /\ queue' = [queue EXCEPT ![Home[w]] = Tail(@)]
         /\ queued' = [queued EXCEPT ![Home[w]] = @ \ {s}]
         /\ scan' = [scan EXCEPT ![w] = s]
    /\ pc' = [pc EXCEPT ![w] = "loaded"]
    /\ UNCHANGED <<rowVars, archives, cancelled, Unchanged, faults>>

(* Mutant of Claim: the claim does not ask for a pending row. *)
ClaimAny(w) ==
    /\ pc[w] = "loaded"
    /\ status' = [status EXCEPT ![scan[w]] = "running"]
    /\ fresh' = [fresh EXCEPT ![scan[w]] = TRUE]
    /\ pc' = [pc EXCEPT ![w] = "claimed"]
    /\ UNCHANGED <<step, archives, scan, cancelled, queueVars, Unchanged, faults>>

(* claimScanForWorker, the only way from pending to running. *)
Claim(w) ==
    /\ pc[w] = "loaded"
    /\ status[scan[w]] = "pending"
    /\ status' = [status EXCEPT ![scan[w]] = "running"]
    /\ fresh' = [fresh EXCEPT ![scan[w]] = TRUE]
    /\ pc' = [pc EXCEPT ![w] = "claimed"]
    /\ UNCHANGED <<step, archives, scan, cancelled, queueVars, Unchanged, faults>>

(* Mutant of Skip: every stale entry cleans up. *)
SkipCleaning(w) ==
    /\ pc[w] = "loaded"
    /\ status[scan[w]] # "pending"
    /\ Leave(w, TRUE)
    /\ UNCHANGED <<rowVars, queueVars, Unchanged, faults>>

(* A stale entry: another worker's running scan keeps its archive. *)
Skip(w) ==
    /\ pc[w] = "loaded"
    /\ status[scan[w]] # "pending"
    /\ Leave(w, status[scan[w]] # "running")
    /\ UNCHANGED <<rowVars, queueVars, Unchanged, faults>>

ClaimError(w) ==
    /\ Fault
    /\ pc[w] = "loaded"
    /\ Leave(w, FALSE)
    /\ UNCHANGED <<rowVars, queueVars, Unchanged>>

(* The cancel function becomes visible to CancelScan. *)
Register(w) ==
    /\ pc[w] = "claimed"
    /\ pc' = [pc EXCEPT ![w] = "registered"]
    /\ UNCHANGED <<rowVars, archives, scan, cancelled, queueVars, Unchanged, faults>>

(* The state is read once more, now that a cancellation can be heard. *)
Confirm(w) ==
    /\ pc[w] = "registered"
    /\ IF cancelled[w] \/ status[scan[w]] # "running"
       THEN Leave(w, TRUE)
       ELSE /\ pc' = [pc EXCEPT ![w] = "confirmed"]
            /\ UNCHANGED <<archives, scan, cancelled>>
    /\ UNCHANGED <<rowVars, queueVars, Unchanged, faults>>

ConfirmError(w) ==
    /\ Fault
    /\ pc[w] = "registered"
    /\ Leave(w, TRUE)
    /\ UNCHANGED <<rowVars, queueVars, Unchanged>>

(* setScanStep with the scan's own context: preparing_image, which begins  *)
(* the provider's work, and finalizing_report, which ends it.              *)
Advance(w, from, to) ==
    /\ pc[w] = from
    /\ ~ cancelled[w]
    /\ UpdateStep(scan[w], "working")
    /\ pc' = [pc EXCEPT ![w] = to]
    /\ UNCHANGED <<archives, scan, cancelled, queueVars, Unchanged, faults>>

Prepare(w)  == Advance(w, "confirmed", "scanning")
Finalize(w) == Advance(w, "scanning", "finalizing")

(* Mutant of SetFailed: the number of updated rows is not looked at. *)
SetFailedAnyway(w) ==
    /\ pc[w] \in {"confirmed", "scanning"}
    /\ IF status[scan[w]] \in Active
       THEN Transition(scan[w], Active, "failed") ELSE UNCHANGED rowVars
    /\ pc' = [pc EXCEPT ![w] = "finishing"]
    /\ UNCHANGED <<archives, scan, cancelled, queueVars, Unchanged, faults>>

(* setFailed: persistFailedScan, and finishFailedScan if the row changed.  *)
(* It is called when the provider or a statement fails, when setScanStep   *)
(* finds the scan finalized, and when a statement of a cancelled context   *)
(* fails.                                                                  *)
SetFailed(w) ==
    /\ pc[w] \in {"confirmed", "scanning"}
    /\ IF status[scan[w]] \in Active
       THEN /\ Transition(scan[w], Active, "failed")
            /\ pc' = [pc EXCEPT ![w] = "finishing"]
            /\ UNCHANGED <<archives, scan, cancelled>>
       ELSE Leave(w, TRUE) /\ UNCHANGED rowVars
    /\ UNCHANGED <<queueVars, Unchanged, faults>>

(* RunScan returns because its context was cancelled, or the worker finds  *)
(* it cancelled before it saves the report.                                *)
Interrupted(w) ==
    /\ pc[w] \in {"scanning", "finalizing"} /\ cancelled[w]
    /\ Leave(w, TRUE)
    /\ UNCHANGED <<rowVars, queueVars, Unchanged, faults>>

(* Mutant of Complete: the report is saved whatever the row says. *)
CompleteAnyway(w) ==
    /\ pc[w] = "finalizing"
    /\ status' = [status EXCEPT ![scan[w]] = "completed"]
    /\ step' = [step EXCEPT ![scan[w]] = "completed"]
    /\ fresh' = [fresh EXCEPT ![scan[w]] = TRUE]
    /\ pc' = [pc EXCEPT ![w] = "finishing"]
    /\ UNCHANGED <<archives, scan, cancelled, queueVars, Unchanged, faults>>

(* The report is saved only while the scan is still running. *)
Complete(w) ==
    /\ pc[w] = "finalizing"
    /\ IF status[scan[w]] = "running"
       THEN /\ Transition(scan[w], {"running"}, "completed")
            /\ pc' = [pc EXCEPT ![w] = "finishing"]
            /\ UNCHANGED <<archives, scan, cancelled>>
       ELSE Leave(w, TRUE) /\ UNCHANGED rowVars
    /\ UNCHANGED <<queueVars, Unchanged, faults>>

(* The terminal update fails, or a statement right after it: the worker    *)
(* returns without telling anyone.                                         *)
SaveError(w) ==
    /\ Fault
    /\ pc[w] \in {"confirmed", "scanning", "finalizing", "finishing"}
    /\ Leave(w, TRUE)
    /\ UNCHANGED <<rowVars, queueVars, Unchanged>>

Finish(w) ==
    /\ pc[w] = "finishing"
    /\ Announce(scan[w])
    /\ Leave(w, TRUE)
    /\ UNCHANGED <<rowVars, created, replica, queueVars, enqVars, watchdog, cancelVars, faults>>

(* touchScanHeartbeat *)
Heartbeat(w) ==
    /\ pc[w] \in {"confirmed", "scanning", "finalizing"}
    /\ Stale(scan[w])
    /\ fresh' = [fresh EXCEPT ![scan[w]] = TRUE]
    /\ UNCHANGED <<status, step, archives, workerVars, queueVars, Unchanged, faults>>

(* The stale window passes without a sign of progress; for a scan that a   *)
(* live worker is running that is a fault (a pause, a database outage).    *)
BecomeStale(s) ==
    /\ status[s] = "running" /\ fresh[s]
    /\ IF \E w \in Workers : scan[w] = s /\ pc[w] \in Running
       THEN Fault ELSE UNCHANGED faults
    /\ fresh' = [fresh EXCEPT ![s] = FALSE]
    /\ UNCHANGED <<status, step, archives, workerVars, queueVars, Unchanged>>

-----------------------------------------------------------------------------
(* POST /scans/:id/cancel *)

CancelRead(s, p) ==
    /\ s \in Cancels /\ replica[p] # "off"
    /\ cancelPc[s] = "none" /\ status[s] \in Active
    /\ cancelPc' = [cancelPc EXCEPT ![s] = "read"]
    /\ cancelAt' = [cancelAt EXCEPT ![s] = p]
    /\ sawPending' = [sawPending EXCEPT ![s] = status[s] = "pending"]
    /\ UNCHANGED <<rowVars, created, archives, toldVars, replica, queueVars, enqVars,
                   workerVars, watchdog, faults>>

CancelSignal(s) ==
    /\ cancelPc[s] = "read"
    /\ Signal(cancelAt[s], s)
    /\ cancelPc' = [cancelPc EXCEPT ![s] = "signalled"]
    /\ UNCHANGED <<rowVars, created, archives, toldVars, replica, queueVars, enqVars,
                   pc, scan, watchdog, cancelAt, sawPending, faults>>

(* The row becomes cancelled, or the answer is 409; a scan that was        *)
(* pending when the request read it loses its archive here.                *)
CancelPersist(s) ==
    /\ cancelPc[s] = "signalled"
    /\ IF status[s] \in Active
       THEN /\ Transition(s, Active, "cancelled")
            /\ cancelPc' = [cancelPc EXCEPT ![s] = "done"]
            /\ archives' = IF sawPending[s] /\ cancelAt[s] = home[s]
                           THEN archives \ {s} ELSE archives
       ELSE /\ cancelPc' = [cancelPc EXCEPT ![s] = "conflict"]
            /\ UNCHANGED <<rowVars, archives>>
    /\ UNCHANGED <<created, toldVars, replica, queueVars, enqVars, workerVars, watchdog,
                   cancelAt, sawPending, faults>>

-----------------------------------------------------------------------------
(* The process dies with its queue, its reservations and its goroutines;   *)
(* the rows and the files stay.                                            *)
Crash(p) ==
    /\ Fault
    /\ replica[p] # "off"
    /\ replica' = [replica EXCEPT ![p] = "off"]
    /\ queue' = [queue EXCEPT ![p] = <<>>]
    /\ queued' = [queued EXCEPT ![p] = {}]
    /\ enq' = [e \in Enqueuers |-> IF At(e) = p THEN "idle" ELSE enq[e]]
    /\ batch' = [batch EXCEPT ![p] = {}]
    /\ pc' = [w \in Workers |-> IF Home[w] = p THEN "off" ELSE pc[w]]
    /\ scan' = [w \in Workers |-> IF Home[w] = p THEN NoScan ELSE scan[w]]
    /\ cancelled' = [w \in Workers |-> cancelled[w] /\ Home[w] # p]
    /\ watchdog' = [watchdog EXCEPT ![p] = NoScan]
    /\ cancelPc' = [s \in Scans |-> IF cancelAt[s] = p /\ cancelPc[s] \in {"read", "signalled"}
                                    THEN "none" ELSE cancelPc[s]]
    /\ UNCHANGED <<rowVars, created, archives, toldVars, home, cancelAt, sawPending>>

EnqueueStep(e) ==
    Reserve(e) \/ SetQueued(e) \/ SetQueuedFinalized(e) \/ Send(e)

RequestStep(s) == EnqueueStep(s) \/ MarkScanFailed(s)

RecoveryStep(p) == EnqueueStep(p) \/ RecoveryNext(p) \/ RecoveryEnds(p) \/ StartupDone(p)

WorkerStep(w) ==
    \/ Take(w) \/ Claim(w) \/ Skip(w) \/ Register(w) \/ Confirm(w) \/ Prepare(w)
    \/ Finalize(w) \/ SetFailed(w) \/ Interrupted(w) \/ Complete(w) \/ Finish(w)

CancelStep(s) == CancelSignal(s) \/ CancelPersist(s)

Errors ==
    \/ \E e \in Enqueuers : EnqueueError(e)
    \/ \E s \in Scans : MarkScanFailedError(s)
    \/ \E w \in Workers : ClaimError(w) \/ ConfirmError(w) \/ SaveError(w)
    \/ \E p \in Replicas : Crash(p)

Next ==
    \/ \E s \in Scans :
         \/ \E p \in Replicas : Submit(s, p) \/ CancelRead(s, p)
                                \/ RecoverStale(p, s) \/ WatchdogFails(p, s)
         \/ RequestStep(s) \/ CancelStep(s) \/ BecomeStale(s)
    \/ \E p \in Replicas :
         Start(p) \/ RecoverySelect(p) \/ RecoveryStep(p) \/ WatchdogFinishes(p)
    \/ \E w \in Workers : WorkerStep(w) \/ Heartbeat(w)
    \/ Errors

Spec == Init /\ [][Next]_vars

(* Goroutines run, tickers tick, a provider ends its work, processes are   *)
(* restarted, and time passes for a scan nobody runs.  Requests, users,    *)
(* heartbeats and faults owe nothing.                                      *)
Orphaned(s) == ~ \E w \in Workers : scan[w] = s /\ pc[w] \in Running

Fairness ==
    /\ \A s \in Scans : /\ WF_vars(RequestStep(s))
                        /\ WF_vars(CancelStep(s))
                        /\ WF_vars(Orphaned(s) /\ BecomeStale(s))
                        /\ \A p \in Replicas : /\ WF_vars(RecoverStale(p, s))
                                               /\ WF_vars(WatchdogFails(p, s))
    /\ \A p \in Replicas : /\ WF_vars(Start(p))
                           /\ WF_vars(RecoverySelect(p))
                           /\ WF_vars(RecoveryStep(p))
                           /\ WF_vars(WatchdogFinishes(p))
    /\ \A w \in Workers : WF_vars(WorkerStep(w))

FairSpec == Spec /\ Fairness

-----------------------------------------------------------------------------
(* Properties *)

(* A finished scan keeps its verdict: of cancel, completion, failure,      *)
(* watchdog, dispatcher and restart recovery, the first writer wins.       *)
TerminalIsFinal ==
    [][\A s \in Scans : status[s] \in Terminal => status'[s] = status[s]]_vars

(* However often a scan is queued, on however many processes, one worker   *)
(* at most does provider work for it.                                      *)
OneRunner ==
    \A v, w \in Workers :
      pc[v] \in Running /\ pc[w] \in Running /\ scan[v] = scan[w] => v = w

(* A row never shows a terminal status with an active step, or the other   *)
(* way round, in any state a crash could freeze.  updateScanCurrentStep    *)
(* would let a running row show a failed step, which a comment there       *)
(* expects of Xray policy blocks; no caller of it asks for that step.      *)
StepMatchesStatus ==
    \A s \in Scans : status[s] \in Terminal \/ step[s] \in Terminal => step[s] = status[s]

(* The rows are well-formed, and status and step change together in every  *)
(* writer (worker, cancellation, watchdog, dispatcher, recovery).          *)
RowIsConsistent == TypeOK /\ StepMatchesStatus

(* Every entry of a queue holds its reservation and no scan is queued      *)
(* twice in one process, so a saturated queue is not filled by duplicates. *)
EntriesReserved ==
    \A p \in Replicas :
      /\ IsInjective(queue[p])
      /\ \A i \in DOMAIN queue[p] : queue[p][i] \in queued[p]

(* A scan is announced at most once, however many writers tried to end it. *)
AnnouncedOnce == \A s \in Scans : notified[s] <= 1

(* What is announced is over: nobody is told of a scan that goes on.       *)
AnnouncedIsTerminal ==
    \A s \in Scans : notified[s] > 0 \/ callback[s] => status[s] \in Terminal

(* Each scan is announced at its end and only once (notifyScanResult and   *)
(* the callback, from whichever writer ended it).                          *)
AnnouncedOnceAtEnd == AnnouncedOnce /\ AnnouncedIsTerminal

(* However many processes and writers meet, a scan has one runner, and is  *)
(* announced once, at its end.                                             *)
OneRunOneAnnouncement == OneRunner /\ AnnouncedOnceAtEnd

(* The scanner keeps the promises of ScanContract: whatever processes,     *)
(* queues, cancellations, watchdogs and restarts do, a scan is run once,   *)
(* ends once, and its end is told once.                                    *)
Runners(s) == {w \in Workers : pc[w] \in Running /\ scan[w] = s}
Contract == INSTANCE ScanContract WITH runners <- [s \in Scans |-> Runners(s)]
ImplementsScanContract == Contract!Spec

(* No clean-up takes the archive from under the worker that reads it while *)
(* the scan is running.                                                    *)
ArchiveKeptForRunner ==
    \A w \in Workers :
      /\ pc[w] \in Running /\ scan[w] \in Uploaded
      /\ status[scan[w]] = "running"
      => scan[w] \in archives

(* A queued scan keeps what it needs: its one place in the queue, and its  *)
(* archive until its runner has read it.                                   *)
QueueKeepsNeeded == EntriesReserved /\ ArchiveKeptForRunner

(* An accepted scan ends, through full queues, crashes and restarts        *)
(* (scan-lifecycle.mdx: pending work is recovered and reconciled from the  *)
(* persisted scan state).                                                  *)
EveryScanEnds ==
    \A s \in Scans \ Unresolvable :
      status[s] = "pending" ~> status[s] \in Terminal

(* Does not hold, though a comment says it.                                *)
(* worker.go: an interrupted scan was set to cancelled by the cancel       *)
(* handler, so the worker just returns; a user's cancellation does not     *)
(* become an execution failure.                                            *)
CancelledNotFailed ==
    [][\A s \in Scans :
         (\E w \in Workers : scan[w] = s /\ cancelled[w] /\ pc[w] \in Running)
         /\ status[s] = "running" => status'[s] # "failed"]_vars
=============================================================================
