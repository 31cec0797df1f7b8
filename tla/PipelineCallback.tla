-------------------------- MODULE PipelineCallback --------------------------
(***************************************************************************)
(* The callback of a pipeline scan: pipelines/pipeline_scans.go.           *)
(*                                                                         *)
(* Whoever ends a scan queues its callback (QueueCallbackForScan); one     *)
(* poller per process leases due requests with their own time stamps,      *)
(* reads the verdict of PolicyVerdict in several queries, posts it and     *)
(* stores the outcome if the lease is still its own.                       *)
(*                                                                         *)
(* last_attempt_at serves as the token of the claim; it is modelled by the *)
(* process whose claim it still is.  next_attempt_at is in the past (due)  *)
(* or in the future.                                                       *)
(***************************************************************************)
EXTENDS PolicyVerdict

CONSTANTS
    Replicas, NoReplica,
    MaxAttempts,        \* maxCallbackAttempts
    MaxPauses           \* deliveries that outlive callbackClaimLease

ASSUME CallbackConstants ==
    /\ NoReplica \notin Replicas
    /\ MaxAttempts \in Nat \ {0}
    /\ MaxPauses \in Nat

VARIABLES
    delivery, attempts, due, tried,   \* the pipeline_scan_requests row;
    holder,                           \* tried: last_attempt_at IS NOT NULL
    pc, snapshot, count, verdict,     \* pollers
    posted, accepted,                 \* what the receiver has seen and taken
    pauses

rowVars    == <<delivery, attempts, due, tried, holder>>
pollerVars == <<pc, snapshot, count, verdict>>
callbackVars == <<rowVars, pollerVars, posted, accepted, pauses>>
vars == <<verdictVars, callbackVars>>

Delivering == {"claimed", "counted", "posting", "accepted", "refused"}

CallbackTypeOK ==
    /\ TypeOK
    /\ delivery \in {"awaiting", "pending", "delivered", "failed"}
    /\ attempts \in 0 .. MaxAttempts
    /\ due \in BOOLEAN /\ tried \in BOOLEAN
    /\ holder \in Replicas \cup {NoReplica}
    /\ pc \in [Replicas -> {"idle", "selected"} \cup Delivering]
    /\ snapshot \in [Replicas -> 0 .. MaxAttempts - 1]
    /\ count \in [Replicas -> 0 .. Cardinality(Policies)]
    /\ verdict \in [Replicas -> {"pending", "pass", "fail", "error"}]
    /\ posted \subseteq {"pass", "fail", "error"}
    /\ accepted \in BOOLEAN
    /\ pauses \in 0 .. MaxPauses

Init ==
    /\ VerdictInit
    /\ delivery = "awaiting" /\ attempts = 0
    /\ due = FALSE /\ tried = FALSE /\ holder = NoReplica
    /\ pc = [r \in Replicas |-> "idle"]
    /\ snapshot = [r \in Replicas |-> 0]
    /\ count = [r \in Replicas |-> 0]
    /\ verdict = [r \in Replicas |-> "pending"]
    /\ posted = {} /\ accepted = FALSE
    /\ pauses = 0

-----------------------------------------------------------------------------
(* QueueCallbackForScan: only a callback that nobody has tried yet. *)
Unqueued ==
    \/ delivery = "awaiting"
    \/ delivery = "pending" /\ ~ tried

(* The call of the goroutine that ended the scan; a failed dispatch has a  *)
(* second call to come, of the handler.                                    *)
QueueCallback ==
    /\ ending \in {"announce", "dispatch"}
    /\ IF Unqueued
       THEN delivery' = "pending" /\ due' = TRUE
       ELSE UNCHANGED <<delivery, due>>
    /\ ending' = IF ending = "dispatch" THEN "announce" ELSE "done"
    /\ UNCHANGED <<status, evidence, policyVars, results, evalVars, faults,
                   attempts, tried, holder, pollerVars, posted, accepted, pauses>>

-----------------------------------------------------------------------------
(* processPendingCallbacks, in one process *)

Goto(r, label) == pc' = [pc EXCEPT ![r] = label]

Poll(r) ==
    /\ pc[r] = "idle"
    /\ delivery = "pending" /\ due
    /\ snapshot' = [snapshot EXCEPT ![r] = attempts]
    /\ Goto(r, "selected")
    /\ UNCHANGED <<verdictVars, rowVars, count, verdict, posted, accepted, pauses>>

Lease(r) ==
    /\ holder' = r /\ tried' = TRUE /\ due' = FALSE
    /\ UNCHANGED <<delivery, attempts>>

(* Mutants: the claim does not look at the lease; it takes only a request  *)
(* that nobody has tried.                                                  *)
ClaimableLeased == delivery = "pending"
ClaimableOnce   == delivery = "pending" /\ due /\ ~ tried

(* claimPendingCallback *)
Claimable == delivery = "pending" /\ due

Claim(r) ==
    /\ pc[r] = "selected"
    /\ IF Claimable
       THEN Lease(r) /\ Goto(r, "claimed")
       ELSE Goto(r, "idle") /\ UNCHANGED rowVars
    /\ UNCHANGED <<verdictVars, snapshot, count, verdict, posted, accepted, pauses>>

(* The statement fails, before or after it was applied. *)
ClaimError(r) ==
    /\ Fault
    /\ pc[r] = "selected"
    /\ Goto(r, "idle")
    /\ \/ Claimable /\ Lease(r)
       \/ UNCHANGED rowVars
    /\ UNCHANGED <<scanVars, policyVars, results, evalVars, snapshot, count, verdict,
                   posted, accepted, pauses>>

(* releaseCallbackClaim: next_attempt_at two seconds ahead. *)
Release(r) == Goto(r, "idle") /\ UNCHANGED rowVars

(* deliverCallback loads the scan and counts the policies ...              *)
ReadPolicies(r) ==
    /\ pc[r] = "claimed"
    /\ count' = [count EXCEPT ![r] = Cardinality(policies)]
    /\ IF status \in Terminal
       THEN Goto(r, "counted") /\ UNCHANGED rowVars
       ELSE Release(r)
    /\ UNCHANGED <<verdictVars, snapshot, verdict, posted, accepted, pauses>>

(* ... then loads the results and computes the verdict. *)
ReadResults(r) ==
    /\ pc[r] = "counted"
    /\ LET v == ComputeVerdict(status, count[r], PolicyResults) IN
         /\ verdict' = [verdict EXCEPT ![r] = v]
         /\ IF v = "pending" THEN Release(r) ELSE Goto(r, "posting") /\ UNCHANGED rowVars
    /\ UNCHANGED <<verdictVars, snapshot, count, posted, accepted, pauses>>

(* The receiver takes the request, or refuses it having seen it. *)
Post(r) ==
    /\ pc[r] = "posting"
    /\ posted' = posted \cup {verdict[r]}
    /\ \/ Goto(r, "accepted") /\ accepted' = TRUE
       \/ Goto(r, "refused") /\ UNCHANGED accepted
    /\ UNCHANGED <<verdictVars, rowVars, snapshot, count, verdict, pauses>>

(* No answer: the receiver may have seen it, and taken it. *)
PostLost(r) ==
    /\ pc[r] = "posting"
    /\ \/ posted' = posted \cup {verdict[r]} /\ accepted' = TRUE
       \/ UNCHANGED <<posted, accepted>>
    /\ Goto(r, "refused")
    /\ UNCHANGED <<verdictVars, rowVars, snapshot, count, verdict, pauses>>

(* Mutant: WHERE id = ? alone. *)
Anyones(r) == TRUE

(* UPDATE ... WHERE delivery_status = pending AND last_attempt_at = mine *)
Mine(r) == delivery = "pending" /\ holder = r

MarkDelivered(r) ==
    /\ pc[r] = "accepted"
    /\ IF Mine(r)
       THEN /\ delivery' = "delivered"
            /\ attempts' = snapshot[r] + 1
            /\ holder' = NoReplica
            /\ UNCHANGED <<due, tried>>
       ELSE UNCHANGED rowVars
    /\ Goto(r, "idle")
    /\ UNCHANGED <<verdictVars, snapshot, count, verdict, posted, accepted, pauses>>

(* markCallbackFailure *)
Failed(r, final) ==
    IF Mine(r)
    THEN /\ attempts' = snapshot[r] + 1
         /\ delivery' = IF final \/ snapshot[r] + 1 >= MaxAttempts THEN "failed" ELSE "pending"
         /\ holder' = NoReplica
         /\ UNCHANGED <<due, tried>>
    ELSE UNCHANGED rowVars

MarkRefused(r) ==
    /\ pc[r] = "refused"
    /\ Failed(r, FALSE)
    /\ Goto(r, "idle")
    /\ UNCHANGED <<verdictVars, snapshot, count, verdict, posted, accepted, pauses>>

(* A query or the preparation of the request fails: no further attempt. *)
DeliveryError(r) ==
    /\ Fault
    /\ pc[r] \in {"claimed", "counted"}
    /\ Failed(r, TRUE)
    /\ Goto(r, "idle")
    /\ UNCHANGED <<scanVars, policyVars, results, evalVars, snapshot, count, verdict,
                   posted, accepted, pauses>>

(* The process dies, or the final update fails: the lease runs out. *)
DeliveryDies(r) ==
    /\ Fault
    /\ pc[r] # "idle"
    /\ Goto(r, "idle")
    /\ UNCHANGED <<scanVars, policyVars, results, evalVars, rowVars, snapshot, count,
                   verdict, posted, accepted, pauses>>

(* next_attempt_at passes.  A lease is twice the HTTP timeout: it passes   *)
(* during a delivery only when its process is paused.                      *)
BecomeDue ==
    /\ delivery = "pending" /\ ~ due
    /\ IF holder # NoReplica /\ pc[holder] \in Delivering
       THEN pauses < MaxPauses /\ pauses' = pauses + 1
       ELSE UNCHANGED pauses
    /\ due' = TRUE
    /\ UNCHANGED <<verdictVars, delivery, attempts, tried, holder, pollerVars, posted, accepted>>

PollerStep(r) ==
    \/ Poll(r) \/ Claim(r) \/ ReadPolicies(r) \/ ReadResults(r)
    \/ Post(r) \/ MarkDelivered(r) \/ MarkRefused(r)

Next ==
    \/ VerdictNext /\ UNCHANGED callbackVars
    \/ QueueCallback
    \/ \E r \in Replicas :
         PollerStep(r) \/ ClaimError(r) \/ PostLost(r) \/ DeliveryError(r) \/ DeliveryDies(r)
    \/ BecomeDue

Spec == Init /\ [][Next]_vars

(* Pollers poll, timers pass, goroutines that ended a scan go on. *)
Fairness ==
    /\ WF_vars(QueueCallback) /\ WF_vars(BecomeDue)
    /\ WF_vars(StartEvaluation /\ UNCHANGED callbackVars)
    /\ \A e \in Evaluators : WF_vars(EvaluationStep(e) /\ UNCHANGED callbackVars)
    /\ \A r \in Replicas : WF_vars(PollerStep(r))

FairSpec == Spec /\ Fairness

-----------------------------------------------------------------------------
(* Properties *)

Settled == delivery \in {"delivered", "failed"}

(* claimPendingCallback: several backend instances do not concurrently     *)
(* post one request, unless a delivery outlives its lease.                 *)
NoConcurrentDelivery ==
    pauses = 0 => \A q, r \in Replicas :
                    pc[q] \in Delivering /\ pc[r] \in Delivering => q = r

(* A settled callback stays settled, whoever queues it again and whichever *)
(* delivery comes back late.                                               *)
SettledIsFinal == [][Settled => delivery' = delivery]_vars

(* A callback that counts as delivered was taken by its receiver. *)
DeliveredWasAccepted == delivery = "delivered" => accepted

(* A delivery has one process at a time and reports what the receiver did  *)
(* (claimPendingCallback, deliverCallback).                                *)
DeliveryIsSound == CallbackTypeOK /\ NoConcurrentDelivery /\ DeliveredWasAccepted

(* Every evaluation that has come to its policies had seen the evidence,   *)
(* and no two of them came to one policy at once.                          *)
EvaluationsAreSound ==
    /\ contested = {}
    /\ \A e \in Evaluators : evalPc[e] \in {"policies", "ended"} => seen[e]

(* A pass that was posted is deserved, although count and results are read *)
(* at different times and policies are deleted in between; a policy that   *)
(* is created in between may be counted in the results alone.              *)
PostedPassIsDeserved ==
    /\ status = "completed" /\ "pass" \in posted
    /\ policies \cup removed \subseteq Initial
    /\ EvaluationsAreSound
    => policies \cap Failing = {}

(* No pass is undeserved, neither where the status endpoint computes it    *)
(* nor where a delivery posts it.                                          *)
PassesAreDeserved == PassIsDeserved /\ PostedPassIsDeserved

(* A callback whose verdict is known does not stay pending, through        *)
(* refusals, lost answers, crashes and expired leases.                     *)
CallbackSettles == []<>(delivery # "pending" \/ Verdict = "pending")

(* callbacks-and-n8n.mdx: submit a scan, receive the terminal result       *)
(* callback.                                                               *)
EveryEndIsAnnounced == status \in Terminal ~> Settled
=============================================================================
