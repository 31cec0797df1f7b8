----------------------------- MODULE ScanMirror -----------------------------
(***************************************************************************)
(* The Process Center entry of a scan: scanner/background_jobs.go, the     *)
(* dispatch that creates it and the deletion that removes it.              *)
(*                                                                         *)
(* An entry is a background job no worker claims.  One reconciler per      *)
(* process copies the scan's status to it, the least recently updated      *)
(* entries first, and ends its pass at the first error.                    *)
(***************************************************************************)
EXTENDS Naturals, Sequences

CONSTANTS
    Scans,
    Anonymous,      \* scans without a user: no entry
    Deletable,      \* scans a user may delete
    Endings,        \* how scans may end
    Reconcilers,
    Limit,          \* entries of one pass
    MaxMirrorFaults

ASSUME MirrorConstants ==
    /\ Anonymous \subseteq Scans
    /\ Deletable \subseteq Scans
    /\ Endings \subseteq {"completed", "failed", "cancelled"}
    /\ Limit \in Nat \ {0}
    /\ MaxMirrorFaults \in Nat

VARIABLES
    scan,               \* scans.status
    mirror,             \* background_jobs.status
    order,              \* active entries by updated_at
    dispatch,           \* the request that created the scan
    early,              \* scans deleted before their request was done
    pc, batch, read,    \* reconcilers
    mirrorFaults

mirrorVars == <<mirror, order>>
reconVars  == <<pc, batch, read>>
scanMirrorVars == <<scan, mirrorVars, dispatch, early, reconVars, mirrorFaults>>

Active   == {"queued", "running"}
Terminal == {"completed", "failed", "cancelled"}
Ended    == {"succeeded", "failed", "cancelled"}

MirrorTypeOK ==
    /\ scan \in [Scans -> {"none", "pending", "running", "deleted"} \cup Terminal]
    /\ mirror \in [Scans -> {"none", "deleted"} \cup Active \cup Ended]
    /\ order \in Seq(Scans)
    /\ \A s \in Scans : mirror[s] \in Active <=> \E i \in DOMAIN order : order[i] = s
    /\ \A i, j \in DOMAIN order : order[i] = order[j] => i = j
    /\ dispatch \in [Scans -> {"none", "mirror", "failing", "done"}]
    /\ early \subseteq Deletable
    /\ pc \in [Reconcilers -> {"idle", "next", "write"}]
    /\ batch \in [Reconcilers -> Seq(Scans)]
    /\ \A r \in Reconcilers : pc[r] = "idle" <=> batch[r] = <<>>
    /\ read \in [Reconcilers -> {"pending", "running"} \cup Terminal]
    /\ mirrorFaults \in 0 .. MaxMirrorFaults

MirrorInit ==
    /\ scan = [s \in Scans |-> "none"]
    /\ mirror = [s \in Scans |-> "none"]
    /\ order = <<>>
    /\ dispatch = [s \in Scans |-> "none"]
    /\ early = {}
    /\ pc = [r \in Reconcilers |-> "idle"]
    /\ batch = [r \in Reconcilers |-> <<>>]
    /\ read = [r \in Reconcilers |-> "pending"]
    /\ mirrorFaults = 0

MirrorFault == /\ mirrorFaults < MaxMirrorFaults
               /\ mirrorFaults' = mirrorFaults + 1

(* A sequence in which s is at most once, without s. *)
WithoutScan(seq, s) ==
    IF \E i \in DOMAIN seq : seq[i] = s
    THEN LET i == CHOOSE i \in DOMAIN seq : seq[i] = s
         IN  SubSeq(seq, 1, i - 1) \o SubSeq(seq, i + 1, Len(seq))
    ELSE seq

-----------------------------------------------------------------------------
(* The scan and its request *)

Submit(s) ==
    /\ scan[s] = "none"
    /\ scan' = [scan EXCEPT ![s] = "pending"]
    /\ dispatch' = [dispatch EXCEPT ![s] = "mirror"]
    /\ UNCHANGED <<mirrorVars, early, reconVars, mirrorFaults>>

(* enqueueScanBackgroundJob; it does not look at the scan row. *)
CreateMirror(s) ==
    /\ dispatch[s] = "mirror"
    /\ IF s \in Anonymous
       THEN UNCHANGED mirrorVars
       ELSE /\ mirror' = [mirror EXCEPT ![s] = "queued"]
            /\ order' = Append(order, s)
    /\ dispatch' = [dispatch EXCEPT ![s] = "done"]
    /\ UNCHANGED <<scan, early, reconVars, mirrorFaults>>

(* DispatchScan returns the error and the caller runs MarkScanFailed. *)
CreateMirrorError(s) ==
    /\ MirrorFault
    /\ dispatch[s] = "mirror"
    /\ dispatch' = [dispatch EXCEPT ![s] = "failing"]
    /\ UNCHANGED <<scan, mirrorVars, early, reconVars>>

MarkScanFailed(s) ==
    /\ dispatch[s] = "failing"
    /\ scan' = IF scan[s] \in {"pending", "running"}
               THEN [scan EXCEPT ![s] = "failed"] ELSE scan
    /\ dispatch' = [dispatch EXCEPT ![s] = "done"]
    /\ UNCHANGED <<mirrorVars, early, reconVars, mirrorFaults>>

(* Workers, users, the watchdog and recovery: ScanLifecycle. *)
Run(s) ==
    /\ scan[s] = "pending"
    /\ scan' = [scan EXCEPT ![s] = "running"]
    /\ UNCHANGED <<mirrorVars, dispatch, early, reconVars, mirrorFaults>>

Finish(s, t) ==
    /\ scan[s] \in IF t = "completed" THEN {"running"} ELSE {"pending", "running"}
    /\ scan' = [scan EXCEPT ![s] = t]
    /\ UNCHANGED <<mirrorVars, dispatch, early, reconVars, mirrorFaults>>

(* deleteScanRecords: the scan and its entry in one transaction.  A request *)
(* may not have created the entry yet.                                     *)
DeleteScan(s) ==
    /\ s \in Deletable
    /\ scan[s] \notin {"none", "deleted"}
    /\ scan' = [scan EXCEPT ![s] = "deleted"]
    /\ mirror' = [mirror EXCEPT ![s] = IF @ = "none" THEN "none" ELSE "deleted"]
    /\ order' = WithoutScan(order, s)
    /\ early' = IF dispatch[s] = "done" THEN early ELSE early \cup {s}
    /\ UNCHANGED <<dispatch, reconVars, mirrorFaults>>

-----------------------------------------------------------------------------
(* reconcileScanBackgroundJobs, in one process *)

Abort(r) ==
    /\ pc' = [pc EXCEPT ![r] = "idle"]
    /\ batch' = [batch EXCEPT ![r] = <<>>]

Select(r) ==
    /\ pc[r] = "idle" /\ order # <<>>
    /\ batch' = [batch EXCEPT ![r] =
                   SubSeq(order, 1, IF Len(order) < Limit THEN Len(order) ELSE Limit)]
    /\ pc' = [pc EXCEPT ![r] = "next"]
    /\ UNCHANGED <<scan, mirrorVars, dispatch, early, read, mirrorFaults>>

(* loadScanBackgroundState: an entry without a scan ends the pass. *)
Load(r) ==
    /\ pc[r] = "next"
    /\ IF scan[Head(batch[r])] = "deleted"
       THEN Abort(r) /\ UNCHANGED read
       ELSE /\ read' = [read EXCEPT ![r] = scan[Head(batch[r])]]
            /\ pc' = [pc EXCEPT ![r] = "write"]
            /\ UNCHANGED batch
    /\ UNCHANGED <<scan, mirrorVars, dispatch, early, mirrorFaults>>

(* A statement fails, or the process restarts. *)
PassError(r) ==
    /\ MirrorFault
    /\ pc[r] # "idle"
    /\ Abort(r)
    /\ UNCHANGED <<scan, mirrorVars, dispatch, early, read>>

(* Mutant: cancelled is not told from completed. *)
StatusForFailedOnly(s) ==
    CASE s = "pending" -> "queued"
      [] s = "running" -> "running"
      [] s = "failed"  -> "failed"
      [] OTHER         -> "succeeded"

(* updateActiveScanBackgroundJob and finishScanBackgroundJob *)
StatusFor(s) ==
    CASE s = "pending"   -> "queued"
      [] s = "running"   -> "running"
      [] s = "completed" -> "succeeded"
      [] OTHER           -> s

(* WHERE status IN (queued, running) *)
Writable(s) == mirror[s] \in Active

(* Mutant: updated_at is not set. *)
TouchedInPlace(s, status) == IF status \in Active THEN order ELSE WithoutScan(order, s)

(* The order after a write: updated_at is now. *)
Touched(s, status) ==
    IF status \in Active THEN Append(WithoutScan(order, s), s) ELSE WithoutScan(order, s)

Write(r) ==
    /\ pc[r] = "write"
    /\ LET s == Head(batch[r]) IN
         IF Writable(s)
         THEN /\ mirror' = [mirror EXCEPT ![s] = StatusFor(read[r])]
              /\ order' = Touched(s, StatusFor(read[r]))
         ELSE UNCHANGED mirrorVars
    /\ batch' = [batch EXCEPT ![r] = Tail(@)]
    /\ pc' = [pc EXCEPT ![r] = IF Len(batch[r]) = 1 THEN "idle" ELSE "next"]
    /\ UNCHANGED <<scan, dispatch, early, read, mirrorFaults>>

DispatchStep(s) == CreateMirror(s) \/ MarkScanFailed(s)

ReconcilerStep(r) == Select(r) \/ Load(r) \/ Write(r)

MirrorNext ==
    \/ \E s \in Scans :
         \/ Submit(s) \/ DispatchStep(s) \/ CreateMirrorError(s) \/ Run(s) \/ DeleteScan(s)
         \/ \E t \in Endings : Finish(s, t)
    \/ \E r \in Reconcilers : ReconcilerStep(r) \/ PassError(r)

MirrorSpec == MirrorInit /\ [][MirrorNext]_scanMirrorVars

(* Requests end and the reconcilers tick; scans may run for ever. *)
MirrorFairness ==
    /\ \A s \in Scans : WF_scanMirrorVars(DispatchStep(s))
    /\ \A r \in Reconcilers : WF_scanMirrorVars(ReconcilerStep(r))

-----------------------------------------------------------------------------
(* Properties *)

(* An entry that has ended says how its scan ended, though reconcilers     *)
(* write what they read earlier.                                           *)
EndMatchesScan ==
    \A s \in Scans :
      mirror[s] \in Ended =>
        <<scan[s], mirror[s]>> \in {<<"completed", "succeeded">>, <<"failed", "failed">>,
                                   <<"cancelled", "cancelled">>}

(* An entry goes with its scan.  Only one that was created after its scan  *)
(* was deleted stays, and shows a queued scan whatever reconcilers do.     *)
DeletedTogether ==
    \A s \in Scans :
      scan[s] = "deleted" /\ mirror[s] \in Active \cup Ended =>
        s \in early /\ mirror[s] = "queued"

(* Entries agree with their scans, though a reconciler writes what it read *)
(* before the scan ended, was deleted or was reconciled by another one,    *)
(* and a deletion may overtake the request that creates the entry.         *)
EntriesMatchScans == MirrorTypeOK /\ EndMatchesScan /\ DeletedTogether

(* The entry of a scan that ended ends, however many other scans go on     *)
(* (background_jobs.go: a large backlog cannot starve newer mirrors); only *)
(* an entry left without a scan, at which every pass ends, keeps it back.  *)
LeftBehind == {s \in Scans : scan[s] = "deleted" /\ mirror[s] \in Active}

MirrorEnds ==
    \A s \in Scans :
      (scan[s] \in Terminal /\ mirror[s] \in Active)
         ~> (mirror[s] \notin Active \/ LeftBehind # {})

(* Does not hold, though the documentation says it.                        *)
(* troubleshooting.mdx: if the scan was deleted, its linked Process Center *)
(* entry is deleted with it.                                               *)
DeletedWithScan == LeftBehind = {}
=============================================================================
