--------------------------- MODULE ScanGroupDeletion ---------------------------
(***************************************************************************)
(* The deletion of all scans of an image (handlers/scans/groups.go), as a  *)
(* job of the background queue.  A request lists the scans it finds; the   *)
(* job deletes them batch by batch, and writes the rest of its list to the *)
(* row after each batch, so that whoever takes the job over goes on there. *)
(*                                                                         *)
(* The queue is the one of JobQueue, reduced to what the deletion sees:    *)
(* one active job per image, claims, expired leases, retries and updates   *)
(* that only the owner's row accepts.                                      *)
(***************************************************************************)
EXTENDS Naturals, FiniteSets

CONSTANTS
    ScanNumbers,        \* scans of the image, numbered as they are created
    FirstScans,         \* those there are at the beginning
    DeletionRequests, DeletionJobs,
    DeletionWorkers, NoWorker, NoJob,
    BatchSize,          \* 8 in the code
    MaxDeletionRetries, \* maxTransientRetries
    MaxDeletionFaults

ASSUME DeletionConstants ==
    /\ ScanNumbers \subseteq Nat /\ FirstScans \subseteq ScanNumbers
    /\ IsFiniteSet(FirstScans) /\ NoWorker \notin DeletionWorkers
    /\ DeletionRequests \subseteq Nat /\ DeletionJobs \subseteq Nat
    /\ BatchSize \in Nat \ {0}
    /\ {MaxDeletionRetries, MaxDeletionFaults} \subseteq Nat

VARIABLES
    present,            \* scans of the image in the database
    created,            \* all there have been
    deletedSingly,      \* those a user deleted one by one
    asked,              \* request -> the scans it found, or {}
    answeredWith,       \* request -> the job of its answer, or NoJob
    deletionJob,        \* job -> its row
    deleter,            \* worker -> what it does, or NoJob
    deletionFaults

groupVars    == <<present, created, deletedSingly>>
requestVars  == <<asked, answeredWith>>
deletionVars == <<groupVars, requestVars, deletionJob, deleter, deletionFaults>>

NoRow == [status |-> "none", owner |-> NoWorker, leased |-> FALSE,
          accepted |-> {}, remaining |-> {}, current |-> 0, retries |-> 0]

DeletionInit ==
    /\ present = FirstScans /\ created = FirstScans /\ deletedSingly = {}
    /\ asked = [r \in DeletionRequests |-> {}]
    /\ answeredWith = [r \in DeletionRequests |-> NoJob]
    /\ deletionJob = [j \in DeletionJobs |-> NoRow]
    /\ deleter = [w \in DeletionWorkers |-> NoJob]
    /\ deletionFaults = 0

DeletionFault == deletionFaults < MaxDeletionFaults /\ deletionFaults' = deletionFaults + 1

ActiveDeletion(j) == deletionJob[j].status \in {"queued", "running"}

-----------------------------------------------------------------------------
(* Scans and requests *)

CreateScan(s) ==
    /\ s \notin created /\ \A t \in ScanNumbers : t < s => t \in created
    /\ present' = present \cup {s} /\ created' = created \cup {s}
    /\ UNCHANGED <<deletedSingly, requestVars, deletionJob, deleter, deletionFaults>>

DeleteOne(s) ==
    /\ s \in present
    /\ present' = present \ {s} /\ deletedSingly' = deletedSingly \cup {s}
    /\ UNCHANGED <<created, requestVars, deletionJob, deleter, deletionFaults>>

(* deleteScanGroup: the list, and then Enqueue *)
ListGroup(r) ==
    /\ asked[r] = {} /\ present # {}
    /\ asked' = [asked EXCEPT ![r] = present]
    /\ UNCHANGED <<groupVars, answeredWith, deletionJob, deleter, deletionFaults>>

(* An active job with the key is returned as it is. *)
EnqueueDeletion(r, j) ==
    /\ asked[r] # {} /\ answeredWith[r] = NoJob
    /\ answeredWith' = [answeredWith EXCEPT ![r] = j]
    /\ IF \E i \in DeletionJobs : ActiveDeletion(i)
       THEN ActiveDeletion(j) /\ UNCHANGED deletionJob
       ELSE /\ deletionJob[j] = NoRow /\ \A i \in DeletionJobs : i < j => deletionJob[i] # NoRow
            /\ deletionJob' = [deletionJob EXCEPT ![j] =
                                  [@ EXCEPT !.status = "queued", !.accepted = asked[r],
                                            !.remaining = asked[r]]]
    /\ UNCHANGED <<groupVars, asked, deleter, deletionFaults>>

-----------------------------------------------------------------------------
(* ProcessScanGroupDeletion, and the queue around it *)

(* remaining[:scanDeletionBatchSize]: the oldest first *)
Batch(rest) == {s \in rest : Cardinality({t \in rest : t < s}) < BatchSize}

OwnsDeletion(w) == deletionJob[deleter[w].job].owner = w

SetDeletion(j, row) == deletionJob' = [deletionJob EXCEPT ![j] = row]
DeleterGoes(w, step) == deleter' = [deleter EXCEPT ![w].step = step]
DeleterStops(w) == deleter' = [deleter EXCEPT ![w] = NoJob]
DeleterAt(w, step) == deleter[w] # NoJob /\ deleter[w].step = step

(* claim: the rest of the list and the progress come from the row. *)
ClaimDeletion(w, j) ==
    /\ deleter[w] = NoJob
    /\ ActiveDeletion(j) /\ ~ deletionJob[j].leased
    /\ SetDeletion(j, [deletionJob[j] EXCEPT !.status = "running", !.owner = w, !.leased = TRUE])
    /\ deleter' = [deleter EXCEPT ![w] =
                      [job |-> j, step |-> "begin", remaining |-> deletionJob[j].remaining,
                       current |-> deletionJob[j].current, retries |-> deletionJob[j].retries]]
    /\ UNCHANGED <<groupVars, requestVars, deletionFaults>>

(* A lease runs out when its owner is gone, the delay of a retry is over,  *)
(* or, abnormally, while its owner works.                                  *)
DeletionLeaseExpires(j) ==
    /\ deletionJob[j].status = "running" /\ deletionJob[j].leased
    /\ LET w == deletionJob[j].owner
       IN  IF w # NoWorker /\ deleter[w] # NoJob /\ deleter[w].job = j
           THEN DeletionFault ELSE UNCHANGED deletionFaults
    /\ SetDeletion(j, [deletionJob[j] EXCEPT !.leased = FALSE])
    /\ UNCHANGED <<groupVars, requestVars, deleter>>

(* Mutant: the rest of the list is written before the batch is deleted. *)
BeginBatchSaving(w) ==
    /\ DeleterAt(w, "begin") /\ deleter[w].remaining # {}
    /\ IF OwnsDeletion(w)
       THEN /\ SetDeletion(deleter[w].job,
                  [deletionJob[deleter[w].job] EXCEPT !.leased = TRUE,
                     !.remaining = deleter[w].remaining \ Batch(deleter[w].remaining)])
            /\ DeleterGoes(w, "delete")
       ELSE DeleterStops(w) /\ UNCHANGED deletionJob
    /\ UNCHANGED <<groupVars, requestVars, deletionFaults>>

(* UpdateProgress renews the lease, or finds the row with another owner:   *)
(* the job ends, and markFailed finds the same.                            *)
BeginBatch(w) ==
    /\ DeleterAt(w, "begin") /\ deleter[w].remaining # {}
    /\ IF OwnsDeletion(w)
       THEN /\ SetDeletion(deleter[w].job,
                           [deletionJob[deleter[w].job] EXCEPT !.leased = TRUE])
            /\ DeleterGoes(w, "delete")
       ELSE DeleterStops(w) /\ UNCHANGED deletionJob
    /\ UNCHANGED <<groupVars, requestVars, deletionFaults>>

(* deleteScanRecords, one transaction; rows that are gone are no error. *)
DeleteBatch(w) ==
    /\ DeleterAt(w, "delete")
    /\ present' = present \ Batch(deleter[w].remaining)
    /\ DeleterGoes(w, "save")
    /\ UNCHANGED <<created, deletedSingly, requestVars, deletionJob, deletionFaults>>

(* requeueTransient writes the list the worker has in memory.  markFailed  *)
(* when the retries are used up, and for an error that is not transient.   *)
RetryOrFail(w, remaining) ==
    /\ DeleterStops(w)
    /\ LET j == deleter[w].job
       IN  IF ~ OwnsDeletion(w) THEN UNCHANGED deletionJob
           ELSE \/ /\ deleter[w].retries < MaxDeletionRetries
                   /\ SetDeletion(j, [deletionJob[j] EXCEPT !.owner = NoWorker, !.leased = TRUE,
                                        !.remaining = remaining, !.retries = deleter[w].retries + 1])
                \/ SetDeletion(j, [deletionJob[j] EXCEPT !.status = "failed", !.owner = NoWorker,
                                     !.leased = FALSE])

(* UpdateProgress fails, or the read of the batch's scans after it. *)
BeginBatchFails(w) ==
    /\ DeletionFault
    /\ DeleterAt(w, "begin") /\ deleter[w].remaining # {}
    /\ RetryOrFail(w, deleter[w].remaining)
    /\ UNCHANGED <<groupVars, requestVars>>

(* The transaction times out; it may have been committed. *)
DeleteBatchFails(w) ==
    /\ DeletionFault
    /\ DeleterAt(w, "delete")
    /\ present' \in {present, present \ Batch(deleter[w].remaining)}
    /\ RetryOrFail(w, deleter[w].remaining)
    /\ UNCHANGED <<created, deletedSingly, requestVars>>

Rest(w) == deleter[w].remaining \ Batch(deleter[w].remaining)
Done(w) == deleter[w].current + Cardinality(Batch(deleter[w].remaining))

SaveProgress(w) ==
    /\ DeleterAt(w, "save")
    /\ IF OwnsDeletion(w)
       THEN /\ SetDeletion(deleter[w].job,
                  [deletionJob[deleter[w].job] EXCEPT !.leased = TRUE, !.remaining = Rest(w),
                     !.current = Done(w), !.retries = deleter[w].retries])
            /\ deleter' = [deleter EXCEPT ![w] =
                  [@ EXCEPT !.step = "begin", !.remaining = Rest(w), !.current = Done(w)]]
       ELSE DeleterStops(w) /\ UNCHANGED deletionJob
    /\ UNCHANGED <<groupVars, requestVars, deletionFaults>>

(* job.Payload has the shorter list by then, and the row keeps its count. *)
SaveProgressFails(w) ==
    /\ DeletionFault
    /\ DeleterAt(w, "save")
    /\ RetryOrFail(w, Rest(w))
    /\ UNCHANGED <<groupVars, requestVars>>

FinishDeletion(w) ==
    /\ DeleterAt(w, "begin") /\ deleter[w].remaining = {}
    /\ IF OwnsDeletion(w)
       THEN SetDeletion(deleter[w].job,
               [deletionJob[deleter[w].job] EXCEPT !.status = "succeeded", !.owner = NoWorker,
                  !.leased = FALSE])
       ELSE UNCHANGED deletionJob
    /\ DeleterStops(w)
    /\ UNCHANGED <<groupVars, requestVars, deletionFaults>>

DeleterDies(w) ==
    /\ DeletionFault
    /\ deleter[w] # NoJob
    /\ DeleterStops(w)
    /\ UNCHANGED <<groupVars, requestVars, deletionJob>>

-----------------------------------------------------------------------------
DeletionNext ==
    \/ \E s \in ScanNumbers : CreateScan(s) \/ DeleteOne(s)
    \/ \E r \in DeletionRequests : ListGroup(r) \/ \E j \in DeletionJobs : EnqueueDeletion(r, j)
    \/ \E j \in DeletionJobs : DeletionLeaseExpires(j)
    \/ \E w \in DeletionWorkers :
          \/ \E j \in DeletionJobs : ClaimDeletion(w, j)
          \/ BeginBatch(w) \/ BeginBatchFails(w) \/ DeleteBatch(w) \/ DeleteBatchFails(w)
          \/ SaveProgress(w) \/ SaveProgressFails(w) \/ FinishDeletion(w) \/ DeleterDies(w)

DeletionSpec == DeletionInit /\ [][DeletionNext]_deletionVars

-----------------------------------------------------------------------------
(* Properties *)

DeletionTypeOK ==
    /\ present \subseteq created /\ deletedSingly \subseteq created \ present
    /\ \A r \in DeletionRequests : asked[r] \subseteq created
    /\ \A j \in DeletionJobs :
          LET row == deletionJob[j] IN
          /\ row.status \in {"none", "queued", "running", "succeeded", "failed"}
          /\ row.owner \in DeletionWorkers \cup {NoWorker}
          /\ row.remaining \subseteq row.accepted
          /\ row.retries <= MaxDeletionRetries
    /\ \A i, j \in DeletionJobs : ActiveDeletion(i) /\ ActiveDeletion(j) => i = j

(* A scan that is still there is still on the list of its job, so that a   *)
(* retry or another worker does not skip it, and a job that succeeded has  *)
(* left none (jobs.go: a retry cannot skip a partially completed batch).   *)
NoneSkipped ==
    \A j \in DeletionJobs :
      LET row == deletionJob[j] IN
      row.status # "failed" => present \cap row.accepted \subseteq
                               (IF row.status = "succeeded" THEN {} ELSE row.remaining)

(* Only scans that a request listed are deleted, and progress is not       *)
(* reported before it is made.                                             *)
OnlyListed ==
    created \ (present \cup deletedSingly)
      \subseteq UNION {deletionJob[j].accepted : j \in DeletionJobs}

ProgressIsMade ==
    \A j \in DeletionJobs :
      deletionJob[j].current <= Cardinality(deletionJob[j].accepted \ present)

(* A deletion deletes what it accepted, all of it and nothing else. *)
DeletionIsExact == DeletionTypeOK /\ NoneSkipped /\ OnlyListed /\ ProgressIsMade

(* Does not hold: "DeleteScanImageGroup deletes every writable scan for an *)
(* image".  A request that arrives while a job is active is answered with  *)
(* that job, whose list may be older than a scan the request found.        *)
AnswerCoversRequest ==
    \A r \in DeletionRequests :
      answeredWith[r] # NoJob /\ deletionJob[answeredWith[r]].status = "succeeded"
        => asked[r] \cap present = {}
=============================================================================
