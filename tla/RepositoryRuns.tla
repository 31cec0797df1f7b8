---------------------------- MODULE RepositoryRuns ----------------------------
(***************************************************************************)
(* The runs of a Git repository (functions/gitrepositories/service.go): a  *)
(* run discovers the images of the repository, creates a scan for each,    *)
(* and ends when reconciliation finds all of them ended.  A dry run        *)
(* discovers only.                                                         *)
(*                                                                         *)
(* One process has a queue in memory, one worker and a reconciliation      *)
(* loop; requests are handled beside them.  Every database statement is a  *)
(* step of its own where another actor may come in between, and may fail:  *)
(* the code drops many of those errors.  A restart loses all that is not   *)
(* in the database.                                                        *)
(***************************************************************************)
EXTENDS Naturals

CONSTANTS
    Runs,           \* numbers given to runs as they are created
    DryRuns,        \* those of them that are dry runs
    Images,         \* images the repository has
    NoRun,
    MaxCreations,   \* requests that may have passed the check of CreateRun
    MaxRestarts,
    MaxDbFaults     \* statements that may fail

Unfinished == {"queued", "discovering", "scanning"}
RunEnd   == {"completed", "failed", "cancelled"}
ScanStates == {"pending", "completed", "failed", "cancelled", "deleted"}

(* processRun: the image it has come to (none before the first) and those  *)
(* it has left; and the loop between its read and its write of a run.      *)
Works == [run : Runs, image : SUBSET Images, left : SUBSET Images,
          step : {"discover", "images", "create", "dispatch", "refused", "scanning",
                  "reconcile"}]
Reconciliations == [run : Runs, found : {"completed", "failed"}]

ASSUME RepositoryConstants ==
    /\ Runs \subseteq Nat /\ DryRuns \subseteq Runs
    /\ NoRun \notin Runs \cup Works \cup Reconciliations
    /\ {MaxCreations, MaxRestarts, MaxDbFaults} \subseteq Nat

VARIABLES
    runStatus,      \* Runs -> status of the row, or "none"; partial is completed here
    children,       \* Runs -> the scans of the run: a function from an image and the life
                    \* of the process that created the scan to its status
    runQueue,       \* runs in the channel
    atWork,         \* the run the worker has taken and how far it is, or NoRun
    dryRun,         \* the dry run of a request under way, or NoRun
    creating,       \* requests and schedules that have found no active run
    cancellingRuns, \* runs marked as cancelled by a request that goes on
    cancelled,      \* runs a cancellation was answered for
    reconciling,    \* a run of the loop and the status found for it, or NoRun
    restarts,
    dbFaults,       \* statements that have failed
    overlooked      \* scans of cancelled runs whose check or cancellation was among them

runRequestVars    == <<dryRun, creating, cancellingRuns, cancelled>>
faultVars         == <<dbFaults, overlooked>>
repositoryRunVars ==
    <<runStatus, children, runQueue, atWork, runRequestVars, reconciling, restarts, faultVars>>

Working(run, step, image, left) ==
    [run |-> run, step |-> step, image |-> image, left |-> left]

RepositoryInit ==
    /\ runStatus = [n \in Runs |-> "none"]
    /\ children = [n \in Runs |-> <<>>]
    /\ runQueue = {}
    /\ atWork = NoRun /\ dryRun = NoRun /\ reconciling = NoRun
    /\ creating = 0
    /\ cancellingRuns = {} /\ cancelled = {}
    /\ restarts = 0 /\ dbFaults = 0 /\ overlooked = {}

StatementFails == dbFaults < MaxDbFaults /\ dbFaults' = dbFaults + 1

NextRun(n) == runStatus[n] = "none" /\ \A m \in Runs : m < n => runStatus[m] # "none"

SetRun(n, status) == runStatus' = [runStatus EXCEPT ![n] = status]

(* UPDATE ... WHERE status != cancelled; an error of it is dropped. *)
FailRun(n) ==
    \/ /\ SetRun(n, IF runStatus[n] = "cancelled" THEN "cancelled" ELSE "failed")
       /\ UNCHANGED dbFaults
    \/ StatementFails /\ UNCHANGED runStatus

-----------------------------------------------------------------------------
(* Requests and the schedule *)

(* CreateRun refuses while a run is active, unless it cannot tell; the row *)
(* is inserted later, or not at all when the insert fails.                 *)
CheckActive ==
    /\ creating < MaxCreations
    /\ \/ (\A n \in Runs : runStatus[n] \notin Unfinished) /\ UNCHANGED dbFaults
       \/ (\E n \in Runs : runStatus[n] \in Unfinished) /\ StatementFails
    /\ creating' = creating + 1
    /\ UNCHANGED <<runStatus, children, runQueue, atWork, dryRun, cancellingRuns, cancelled,
                   reconciling, restarts, overlooked>>

CreateRun(n) ==
    /\ creating > 0 /\ n \notin DryRuns /\ NextRun(n)
    /\ SetRun(n, "queued")
    /\ runQueue' = runQueue \cup {n}
    /\ creating' = creating - 1
    /\ UNCHANGED <<children, atWork, dryRun, cancellingRuns, cancelled, reconciling, restarts,
                   faultVars>>

(* CreateDiscovery inserts its run as discovering and works on it itself.  *)
(* It writes completed whatever the status has become.  When the browser   *)
(* gives the request up, or the last transaction fails, the row stays.     *)
CreateDiscovery(n) ==
    /\ dryRun = NoRun /\ n \in DryRuns /\ NextRun(n)
    /\ SetRun(n, "discovering")
    /\ dryRun' = n
    /\ UNCHANGED <<children, runQueue, atWork, creating, cancellingRuns, cancelled, reconciling,
                   restarts, faultVars>>

DiscoveryEnds ==
    /\ dryRun # NoRun
    /\ \/ SetRun(dryRun, "completed") /\ UNCHANGED dbFaults
       \/ FailRun(dryRun)
       \/ UNCHANGED <<runStatus, dbFaults>>
    /\ dryRun' = NoRun
    /\ UNCHANGED <<children, runQueue, atWork, creating, cancellingRuns, cancelled, reconciling,
                   restarts, overlooked>>

(* CancelRun: the row first, then the scans the run has by then. *)
MarkCancelled(n) ==
    /\ runStatus[n] \in Unfinished /\ n \notin cancellingRuns
    /\ SetRun(n, "cancelled")
    /\ cancellingRuns' = cancellingRuns \cup {n}
    /\ UNCHANGED <<children, runQueue, atWork, dryRun, creating, cancelled, reconciling, restarts,
                   faultVars>>

CancelPending(scans) ==
    [c \in DOMAIN scans |-> IF scans[c] = "pending" THEN "cancelled" ELSE scans[c]]

CancelScans(n) ==
    /\ n \in cancellingRuns
    /\ children' = [children EXCEPT ![n] = CancelPending(@)]
    /\ cancellingRuns' = cancellingRuns \ {n} /\ cancelled' = cancelled \cup {n}
    /\ UNCHANGED <<runStatus, runQueue, atWork, dryRun, creating, reconciling, restarts, faultVars>>

(* A later statement fails, or the browser gives the request up: it is     *)
(* answered as failed, and cannot be repeated.                             *)
CancelFails(n) ==
    /\ n \in cancellingRuns
    /\ children' \in {children, [children EXCEPT ![n] = CancelPending(@)]}
    /\ cancellingRuns' = cancellingRuns \ {n}
    /\ UNCHANGED <<runStatus, runQueue, atWork, dryRun, creating, cancelled, reconciling, restarts,
                   faultVars>>

-----------------------------------------------------------------------------
(* processRun *)

At(step) == atWork # NoRun /\ atWork.step = step

Goes(step) == atWork' = Working(atWork.run, step, atWork.image, atWork.left)
Stops      == atWork' = NoRun

SetChild(n, c, status) ==
    children' = [children EXCEPT ![n] =
                    [d \in DOMAIN @ \cup {c} |-> IF d = c THEN status ELSE @[d]]]

(* runCancelled: a run that cannot be read passes for one that goes on. *)
SeenCancelled == runStatus[atWork.run] = "cancelled" /\ UNCHANGED dbFaults
SeenActive    == IF runStatus[atWork.run] = "cancelled" THEN StatementFails ELSE UNCHANGED dbFaults

(* The statement about the new scan that has just failed was the one that  *)
(* would have stopped it.                                                  *)
Overlook(n, c) == overlooked' = overlooked \cup {<<n, c>>}

(* The conditional update keeps runs out that have been cancelled.  When   *)
(* the run cannot be read or updated it is dropped as it is; when its      *)
(* repository cannot be read it fails.                                     *)
TakeRun(n) ==
    /\ atWork = NoRun /\ n \in runQueue
    /\ runQueue' = runQueue \ {n}
    /\ \/ /\ runStatus[n] \in {"queued", "discovering"}
          /\ SetRun(n, "discovering") /\ atWork' = Working(n, "discover", {}, Images)
          /\ UNCHANGED dbFaults
       \/ /\ runStatus[n] \notin {"queued", "discovering"}
          /\ UNCHANGED <<runStatus, atWork, dbFaults>>
       \/ StatementFails /\ UNCHANGED <<runStatus, atWork>>
       \/ runStatus[n] # "cancelled" /\ SetRun(n, "failed") /\ StatementFails /\ UNCHANGED atWork
    /\ UNCHANGED <<children, runRequestVars, reconciling, restarts, overlooked>>

Discover ==
    /\ At("discover")
    /\ \/ SeenCancelled /\ Stops /\ UNCHANGED runStatus
       \/ SeenActive /\ Goes("images") /\ UNCHANGED runStatus
       \/ FailRun(atWork.run) /\ Stops
    /\ UNCHANGED <<children, runQueue, runRequestVars, reconciling, restarts, overlooked>>

(* The run is read before each image.  An image that is excluded, that has *)
(* not changed or that cannot be scanned gets no scan.                     *)
NextImage(i) ==
    /\ At("images") /\ i \in atWork.left
    /\ \/ SeenCancelled /\ Stops
       \/ /\ SeenActive
          /\ \E step \in {"images", "create"} :
                atWork' = Working(atWork.run, step, {i}, atWork.left \ {i})
    /\ UNCHANGED <<runStatus, children, runQueue, runRequestVars, reconciling, restarts, overlooked>>

(* One transaction.  After an error the worker goes on to the next image,  *)
(* although the commit may have succeeded and only its answer been lost.   *)
CreateChild ==
    /\ At("create")
    /\ \E i \in atWork.image : LET n == atWork.run c == <<i, restarts>> IN
          \/ SetChild(n, c, "pending") /\ Goes("dispatch") /\ UNCHANGED faultVars
          \/ SetChild(n, c, "pending") /\ Goes("images") /\ StatementFails /\ Overlook(n, c)
          \/ UNCHANGED <<children, overlooked>> /\ Goes("images") /\ StatementFails
    /\ UNCHANGED <<runStatus, runQueue, runRequestVars, reconciling, restarts>>

SetIfPending(n, c, status) ==
    IF children[n][c] = "pending" THEN SetChild(n, c, status) ELSE UNCHANGED children

(* Mutant: the scan inserted while the run was cancelled is left as it is. *)
CancelCreatedNot(n, c) == UNCHANGED <<children, faultVars>>

(* cancelRepositoryRunScan: an error of the update is dropped. *)
CancelCreated(n, c) ==
    \/ SetIfPending(n, c, "cancelled") /\ UNCHANGED faultVars
    \/ UNCHANGED children /\ StatementFails /\ Overlook(n, c)

(* The scan just inserted is cancelled with its run, or handed on. *)
Dispatch ==
    /\ At("dispatch")
    /\ \E i \in atWork.image : LET n == atWork.run c == <<i, restarts>> IN
          \/ runStatus[n] = "cancelled" /\ CancelCreated(n, c) /\ Stops
          \/ /\ SeenActive /\ (Goes("images") \/ Goes("refused"))
             /\ IF runStatus[n] = "cancelled" THEN Overlook(n, c) ELSE UNCHANGED overlooked
             /\ UNCHANGED children
    /\ UNCHANGED <<runStatus, runQueue, runRequestVars, reconciling, restarts>>

(* DispatchScan refused the scan: it is cancelled with its run or failed.  *)
Refused ==
    /\ At("refused")
    /\ \E i \in atWork.image : LET n == atWork.run c == <<i, restarts>> IN
          \/ runStatus[n] = "cancelled" /\ CancelCreated(n, c)
          \/ SeenActive /\ SetIfPending(n, c, "failed") /\ UNCHANGED overlooked
          \/ /\ StatementFails /\ UNCHANGED children
             /\ IF runStatus[n] = "cancelled" THEN Overlook(n, c) ELSE UNCHANGED overlooked
    /\ Goes("images")
    /\ UNCHANGED <<runStatus, runQueue, runRequestVars, reconciling, restarts>>

(* Mutant: the worker leaves the loop before it has come to every image. *)
CheckBeforeScanningEarly ==
    /\ At("images")
    /\ \/ SeenCancelled /\ Stops
       \/ SeenActive /\ Goes("scanning")
    /\ UNCHANGED <<runStatus, children, runQueue, runRequestVars, reconciling, restarts, overlooked>>

(* Every image is done: the run is read once more, and then set to         *)
(* scanning whatever its status is.                                        *)
CheckBeforeScanning ==
    /\ At("images") /\ atWork.left = {}
    /\ \/ SeenCancelled /\ Stops
       \/ SeenActive /\ Goes("scanning")
    /\ UNCHANGED <<runStatus, children, runQueue, runRequestVars, reconciling, restarts, overlooked>>

CreatedHere(n) == {c \in DOMAIN children[n] : c[2] = restarts}

(* An error of the update is dropped, and the run stays as it was.  A scan *)
(* whose insert was reported as failed is not counted as created.          *)
SetScanning ==
    /\ At("scanning")
    /\ \/ SetRun(atWork.run, "scanning") /\ UNCHANGED dbFaults
       \/ StatementFails /\ UNCHANGED runStatus
    /\ \/ CreatedHere(atWork.run) # {} /\ Stops
       \/ (\A c \in CreatedHere(atWork.run) : <<atWork.run, c>> \in overlooked) /\ Goes("reconcile")
    /\ UNCHANGED <<children, runQueue, runRequestVars, reconciling, restarts, overlooked>>

(* Reconciliation: only scans that completed or failed have ended for it;  *)
(* the image of one that was cancelled or deleted counts as active.        *)
(* Images without a scan may be failed or complete.                        *)
ChildStatuses(n) == {children[n][c] : c \in DOMAIN children[n]}

(* Mutant: a scan that waits does not count as active. *)
FoundIgnoringPending(n) ==
    IF ChildStatuses(n) \cap {"cancelled", "deleted"} # {} THEN {}
    ELSE {"completed"} \cup (IF "completed" \in ChildStatuses(n) THEN {} ELSE {"failed"})

Found(n) ==
    IF ChildStatuses(n) \cap {"pending", "cancelled", "deleted"} # {} THEN {}
    ELSE {"completed"} \cup (IF "completed" \in ChildStatuses(n) THEN {} ELSE {"failed"})

(* Errors of the two statements are dropped. *)
ReconcileOwn ==
    /\ At("reconcile")
    /\ \/ Found(atWork.run) = {} /\ UNCHANGED <<runStatus, dbFaults>>
       \/ (\E status \in Found(atWork.run) : SetRun(atWork.run, status)) /\ UNCHANGED dbFaults
       \/ StatementFails /\ UNCHANGED runStatus
    /\ Stops
    /\ UNCHANGED <<children, runQueue, runRequestVars, reconciling, restarts, overlooked>>

(* reconcileLoop, for a run it has selected as scanning; when its reads    *)
(* fail it comes again.                                                    *)
ReconcileRead(n) ==
    /\ reconciling = NoRun /\ runStatus[n] = "scanning"
    /\ \E status \in Found(n) : reconciling' = [run |-> n, found |-> status]
    /\ UNCHANGED <<runStatus, children, runQueue, atWork, runRequestVars, restarts, faultVars>>

ReconcileWrite ==
    /\ reconciling # NoRun
    /\ \/ SetRun(reconciling.run, reconciling.found) /\ UNCHANGED dbFaults
       \/ StatementFails /\ UNCHANGED runStatus
    /\ reconciling' = NoRun
    /\ UNCHANGED <<children, runQueue, atWork, runRequestVars, restarts, overlooked>>

-----------------------------------------------------------------------------
(* Environment *)

(* The scan worker, or a user who cancels a single scan. *)
ChildEnds(n, c, status) ==
    /\ c \in DOMAIN children[n] /\ children[n][c] = "pending"
    /\ status \notin {"pending", "deleted"}
    /\ SetChild(n, c, status)
    /\ UNCHANGED <<runStatus, runQueue, atWork, runRequestVars, reconciling, restarts, faultVars>>

(* A user deletes a scan that has ended; its image keeps its state, queued. *)
DeleteChild(n, c) ==
    /\ c \in DOMAIN children[n] /\ children[n][c] \notin {"pending", "deleted"}
    /\ SetChild(n, c, "deleted")
    /\ UNCHANGED <<runStatus, runQueue, atWork, runRequestVars, reconciling, restarts, faultVars>>

(* Mutant: only queued runs are taken up again. *)
RecoveredQueued == {n \in Runs : runStatus[n] = "queued"}

(* Start puts the unfinished runs into the new queue, dry runs with them,  *)
(* if it can read them and the schedules before them.                      *)
Recovered == {n \in Runs : runStatus[n] \in {"queued", "discovering"}}

Restart ==
    /\ restarts < MaxRestarts
    /\ restarts' = restarts + 1
    /\ \/ runQueue' = Recovered /\ UNCHANGED dbFaults
       \/ runQueue' = {} /\ StatementFails
    /\ atWork' = NoRun /\ dryRun' = NoRun /\ reconciling' = NoRun
    /\ creating' = 0 /\ cancellingRuns' = {}
    /\ UNCHANGED <<runStatus, children, cancelled, overlooked>>

Requests ==
    \/ CheckActive \/ DiscoveryEnds
    \/ \E n \in Runs : CreateRun(n) \/ CreateDiscovery(n)
                       \/ MarkCancelled(n) \/ CancelScans(n) \/ CancelFails(n)

Worker ==
    \/ Discover \/ CreateChild \/ Dispatch \/ Refused \/ CheckBeforeScanning
    \/ SetScanning \/ ReconcileOwn
    \/ \E n \in Runs : TakeRun(n)
    \/ \E i \in Images : NextImage(i)

Reconcile == ReconcileWrite \/ \E n \in Runs : ReconcileRead(n)

ScansEnd ==
    \E n \in Runs : \E c \in DOMAIN children[n] : \E status \in ScanStates : ChildEnds(n, c, status)

ScansDeleted == \E n \in Runs : \E c \in DOMAIN children[n] : DeleteChild(n, c)

RepositoryNext == Requests \/ Worker \/ Reconcile \/ ScansEnd \/ ScansDeleted \/ Restart

(* The worker and the loop go on for as long as the process lives, every   *)
(* scan ends (ScanLifecycle), and a request runs to its end.               *)
RepositoryFairness ==
    /\ WF_repositoryRunVars(Worker \/ Reconcile)
    /\ WF_repositoryRunVars(ScansEnd)
    /\ WF_repositoryRunVars(DiscoveryEnds)

RepositorySpec == RepositoryInit /\ [][RepositoryNext]_repositoryRunVars

RepositoryFairSpec == RepositorySpec /\ RepositoryFairness

-----------------------------------------------------------------------------
(* Properties *)

(* Type invariant; the worker's step and its images agree with the run it  *)
(* has, and only runs that were taken have scans.                          *)
RepositoryTypeOK ==
    /\ runStatus \in [Runs -> Unfinished \cup RunEnd \cup {"none"}]
    /\ \A n \in Runs :
          /\ DOMAIN children[n] \subseteq Images \X (0..restarts)
          /\ \A c \in DOMAIN children[n] : children[n][c] \in ScanStates
          /\ runStatus[n] \in {"none", "queued"} => DOMAIN children[n] = {}
    /\ runQueue \cup cancellingRuns \cup cancelled \subseteq Runs
    /\ atWork \in Works \cup {NoRun}
    /\ At("create") \/ At("dispatch") \/ At("refused") => atWork.image # {}
    /\ At("scanning") \/ At("reconcile") => atWork.left = {}
    /\ dryRun \in DryRuns \cup {NoRun}
    /\ reconciling \in Reconciliations \cup {NoRun}
    /\ dbFaults \in 0..MaxDbFaults
    /\ overlooked \subseteq Runs \X (Images \X (0..restarts))

(* A run that is completed has no scan still to come: not one of an        *)
(* interrupted attempt, not one another actor has just created.            *)
CompletedIsDone ==
    \A n \in Runs : runStatus[n] = "completed" =>
        \A c \in DOMAIN children[n] : children[n][c] # "pending"

(* Once a cancellation is answered and the worker has left the run, a scan *)
(* this process created for it waits only if the very statement that was   *)
(* to look at that scan again has failed: the worker looks again after     *)
(* every insert, and what it had created before is cancelled by the        *)
(* request.                                                                *)
CancelReachesScans ==
    \A n \in cancelled :
        (atWork = NoRun \/ atWork.run # n) =>
            \A c \in CreatedHere(n) : children[n][c] = "pending" => <<n, c>> \in overlooked

(* Neither end of a run leaves a scan behind that is still to come, and    *)
(* the worker's progress fits the run it works on.                         *)
RunsAreHonest == RepositoryTypeOK /\ CompletedIsDone /\ CancelReachesScans

(* A run that was queued ends, through a restart too, but for two cases:   *)
(* one of its scans is cancelled or deleted, which counts as active for    *)
(* good; or a statement failed and the process dropped the run (TakeRun,   *)
(* failRun, SetScanning, Start).  Failures of the reconciliation only      *)
(* delay the end.                                                          *)
RunEnded(n) == runStatus[n] \in RunEnd

Stuck(n) == \E c \in DOMAIN children[n] : children[n][c] \in {"cancelled", "deleted"}

Dropped(n) ==
    /\ dbFaults > 0 /\ runStatus[n] \in {"queued", "discovering"}
    /\ n \notin runQueue /\ (atWork = NoRun \/ atWork.run # n)

RunEnds ==
    \A n \in Runs : runStatus[n] = "queued" ~> (RunEnded(n) \/ Stuck(n) \/ Dropped(n))

(* "A dry run ... discovers images only; it never queues scans"            *)
(* (docs gitops.mdx).  A restart hands an interrupted dry run to the       *)
(* worker, which does not look at the trigger of a run.                    *)
DryRunQueuesNothing == \A n \in DryRuns : children[n] = <<>>
=============================================================================
