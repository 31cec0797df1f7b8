---------------------------- MODULE PolicyVerdict ----------------------------
(***************************************************************************)
(* The verdict a pipeline reads for its scan: compliance/evaluate.go       *)
(* (RunForScan), pipelines/pipeline_scans.go (ComputeVerdict) and the      *)
(* places that start an evaluation.                                        *)
(*                                                                         *)
(* One scan of one organization.  The worker that completes the scan       *)
(* starts an evaluation; users start others (AssignScan, ReEvaluate,       *)
(* sharing) whenever they like.  An evaluation deletes and inserts one     *)
(* result per policy, each in a statement of its own, and nothing orders   *)
(* it against other evaluations: compliance_results has no unique index.   *)
(* The verdict counts policies and results.                                *)
(***************************************************************************)
EXTENDS Naturals, FiniteSets

CONSTANTS
    Policies, NoPolicy,
    Initial,        \* policies the organization has when the scan starts
    Failing,        \* policies the completed evidence violates
    Evaluators,     \* evaluations that may run
    WorkerEval,     \* the one the worker starts
    AskedWhile,     \* scan statuses in which users ask for an evaluation
    Outcomes,       \* how the scan may end
    MaxFaults

ASSUME VerdictConstants ==
    /\ IsFiniteSet(Policies) /\ NoPolicy \notin Policies
    /\ Initial \subseteq Policies /\ Failing \subseteq Policies
    /\ WorkerEval \in Evaluators
    /\ AskedWhile \subseteq {"running", "completed", "failed", "cancelled"}
    /\ Outcomes \subseteq {"completed", "failed", "undispatched", "abandoned", "cancelled"}
    /\ MaxFaults \in Nat

VARIABLES
    status,         \* the scan row
    evidence,       \* its vulnerability rows are stored
    ending,         \* what the goroutine that ended the scan still has to do
    policies,       \* org_policies of the organization
    removed,        \* policies it has deleted
    results,        \* compliance_results: who wrote them, policy, verdict
    evalPc, seen, todo, current,    \* evaluations
    contested,      \* policies whose old rows an evaluation did not delete, or deleted
                    \* while another was about to insert its own
    faults

scanVars   == <<status, evidence, ending>>
policyVars == <<policies, removed>>
evalVars   == <<evalPc, seen, todo, current, contested>>
verdictVars == <<scanVars, policyVars, results, evalVars, faults>>

Terminal == {"completed", "failed", "cancelled"}
Result   == [by : Evaluators, policy : Policies, failed : BOOLEAN]

TypeOK ==
    /\ status \in {"running"} \cup Terminal
    /\ evidence \in BOOLEAN
    /\ ending \in {"none", "evaluate", "dispatch", "announce", "done"}
    /\ policies \subseteq Policies /\ removed \subseteq Policies
    /\ policies \cap removed = {}
    /\ results \subseteq Result
    /\ evalPc \in [Evaluators -> {"idle", "started", "loaded", "policies", "ended"}]
    /\ seen \in [Evaluators -> BOOLEAN]
    /\ todo \in [Evaluators -> SUBSET Policies]
    /\ current \in [Evaluators -> Policies \cup {NoPolicy}]
    /\ \A e \in Evaluators : current[e] # NoPolicy => current[e] \in todo[e]
    /\ contested \subseteq Policies
    /\ faults \in 0 .. MaxFaults

VerdictInit ==
    /\ status = "running" /\ evidence = FALSE /\ ending = "none"
    /\ policies = Initial /\ removed = {}
    /\ results = {}
    /\ evalPc = [e \in Evaluators |-> "idle"]
    /\ seen = [e \in Evaluators |-> FALSE]
    /\ todo = [e \in Evaluators |-> {}]
    /\ current = [e \in Evaluators |-> NoPolicy]
    /\ contested = {}
    /\ faults = 0

(* One adverse event: a crash or a failed statement. *)
Fault == /\ faults < MaxFaults
         /\ faults' = faults + 1

-----------------------------------------------------------------------------
(* Mutant of ComputeVerdict: the verdict does not wait for every policy. *)
VerdictAtOnce(scanStatus, policyCount, rows) ==
    IF scanStatus \notin Terminal THEN "pending"
    ELSE IF \E r \in rows : r.failed THEN "fail"
    ELSE IF scanStatus = "failed" THEN "error" ELSE "pass"

(* ComputeVerdict of a status, a number of policies and the results.       *)
ComputeVerdict(scanStatus, policyCount, rows) ==
    IF scanStatus \notin Terminal \/ Cardinality(rows) < policyCount THEN "pending"
    ELSE IF \E r \in rows : r.failed THEN "fail"
    ELSE IF scanStatus = "failed" THEN "error" ELSE "pass"

(* Mutant of PolicyResults: without the join. *)
EveryResult == results

(* loadPolicyResults joins the results with the policies that exist. *)
PolicyResults == {r \in results : r.policy \in policies}

(* What GET /pipelines/:id answers. *)
Verdict == ComputeVerdict(status, Cardinality(policies), PolicyResults)

-----------------------------------------------------------------------------
(* The scan *)

(* The vulnerability rows are inserted while the scan is still running. *)
StoreEvidence ==
    /\ status = "running" /\ ~ evidence
    /\ evidence' = TRUE
    /\ UNCHANGED <<status, ending, policyVars, results, evalVars, faults>>

(* The terminal update, and what its writer goes on to do: the worker      *)
(* evaluates and queues the callback; setFailed and the watchdog queue it; *)
(* a failed dispatch queues it twice; restart recovery and cancellation    *)
(* do neither.                                                             *)
End(outcome, to, follow) ==
    /\ status = "running" /\ outcome \in Outcomes
    /\ status' = to
    /\ ending' = follow
    /\ UNCHANGED <<evidence, policyVars, results, evalVars, faults>>

Complete         == evidence /\ End("completed", "completed", "evaluate")
FailScan         == End("failed", "failed", "announce")
FailUndispatched == ~ evidence /\ End("undispatched", "failed", "dispatch")
FailAtRestart    == End("abandoned", "failed", "done")
Cancel           == End("cancelled", "cancelled", "done")

(* go compliance.RunForScan *)
Begin(e) == evalPc' = [evalPc EXCEPT ![e] = "started"]

StartEvaluation ==
    /\ ending = "evaluate"
    /\ Begin(WorkerEval)
    /\ ending' = "announce"
    /\ UNCHANGED <<status, evidence, policyVars, results, seen, todo, current, contested, faults>>

(* AssignScan, ReEvaluate, BulkShare...: whatever the scan's status is. *)
Ask(e) ==
    /\ e # WorkerEval /\ evalPc[e] = "idle"
    /\ status \in AskedWhile
    /\ Begin(e)
    /\ UNCHANGED <<scanVars, policyVars, results, seen, todo, current, contested, faults>>

-----------------------------------------------------------------------------
(* RunForScan *)

LoadEvidence(e) ==
    /\ evalPc[e] = "started"
    /\ evalPc' = [evalPc EXCEPT ![e] = "loaded"]
    /\ seen' = [seen EXCEPT ![e] = evidence]
    /\ UNCHANGED <<scanVars, policyVars, results, todo, current, contested, faults>>

(* The loop ends with its last policy. *)
Left(e, rest) ==
    /\ todo' = [todo EXCEPT ![e] = rest]
    /\ evalPc' = [evalPc EXCEPT ![e] = IF rest = {} THEN "ended" ELSE "policies"]

LoadPolicies(e) ==
    /\ evalPc[e] = "loaded"
    /\ Left(e, policies)
    /\ UNCHANGED <<scanVars, policyVars, results, seen, current, contested, faults>>

(* Mutant of DeleteResult: the old result stays. *)
KeepResult(e, p) ==
    /\ evalPc[e] = "policies" /\ current[e] = NoPolicy /\ p \in todo[e]
    /\ current' = [current EXCEPT ![e] = p]
    /\ contested' = contested \cup ({p} \cap {current[d] : d \in Evaluators})
    /\ UNCHANGED <<scanVars, policyVars, results, evalPc, seen, todo, faults>>

(* "Upsert": the first of two statements. *)
DeleteResult(e, p) ==
    /\ evalPc[e] = "policies" /\ current[e] = NoPolicy /\ p \in todo[e]
    /\ results' = {r \in results : r.policy # p}
    /\ current' = [current EXCEPT ![e] = p]
    /\ contested' = contested \cup ({p} \cap {current[d] : d \in Evaluators})
    /\ UNCHANGED <<scanVars, policyVars, evalPc, seen, todo, faults>>

(* Its error is ignored. *)
DeleteResultError(e, p) ==
    /\ Fault
    /\ evalPc[e] = "policies" /\ current[e] = NoPolicy /\ p \in todo[e]
    /\ current' = [current EXCEPT ![e] = p]
    /\ contested' = contested \cup {p}
    /\ UNCHANGED <<scanVars, policyVars, results, evalPc, seen, todo>>

Proceed(e, rest) ==
    /\ Left(e, rest)
    /\ current' = [current EXCEPT ![e] = NoPolicy]

(* Without evidence no rule is violated. *)
ResultOf(e) == [by |-> e, policy |-> current[e], failed |-> seen[e] /\ current[e] \in Failing]

(* Mutant of InsertResult: the loop stops at the first failed policy. *)
InsertUntilFailure(e) ==
    /\ current[e] # NoPolicy
    /\ results' = results \cup {ResultOf(e)}
    /\ Proceed(e, IF ResultOf(e).failed THEN {} ELSE todo[e] \ {current[e]})
    /\ UNCHANGED <<scanVars, policyVars, seen, contested, faults>>

InsertResult(e) ==
    /\ current[e] # NoPolicy
    /\ results' = results \cup {ResultOf(e)}
    /\ Proceed(e, todo[e] \ {current[e]})
    /\ UNCHANGED <<scanVars, policyVars, seen, contested, faults>>

(* Its error is logged. *)
InsertResultError(e) ==
    /\ Fault
    /\ current[e] # NoPolicy
    /\ Proceed(e, todo[e] \ {current[e]})
    /\ UNCHANGED <<scanVars, policyVars, results, seen, contested>>

(* A query fails, or the process of the evaluation dies. *)
EvaluationDies(e) ==
    /\ Fault
    /\ evalPc[e] \in {"started", "loaded", "policies"}
    /\ evalPc' = [evalPc EXCEPT ![e] = "ended"]
    /\ todo' = [todo EXCEPT ![e] = {}]
    /\ current' = [current EXCEPT ![e] = NoPolicy]
    /\ UNCHANGED <<scanVars, policyVars, results, seen, contested>>

(* The process dies between the terminal update and what follows it. *)
EndingDies ==
    /\ Fault
    /\ ending \in {"evaluate", "dispatch", "announce"}
    /\ ending' = "done"
    /\ UNCHANGED <<status, evidence, policyVars, results, evalVars>>

-----------------------------------------------------------------------------
(* Administrators *)

CreatePolicy(p) ==
    /\ p \notin policies \cup removed
    /\ policies' = policies \cup {p}
    /\ UNCHANGED <<scanVars, removed, results, evalVars, faults>>

DeletePolicy(p) ==
    /\ p \in policies
    /\ policies' = policies \ {p}
    /\ removed' = removed \cup {p}
    /\ UNCHANGED <<scanVars, results, evalVars, faults>>

EvaluationStep(e) ==
    \/ LoadEvidence(e) \/ LoadPolicies(e) \/ InsertResult(e)
    \/ \E p \in Policies : DeleteResult(e, p)

VerdictNext ==
    \/ StoreEvidence \/ Complete \/ FailScan \/ FailUndispatched \/ FailAtRestart \/ Cancel
    \/ StartEvaluation \/ EndingDies
    \/ \E e \in Evaluators :
         \/ Ask(e) \/ EvaluationStep(e) \/ InsertResultError(e) \/ EvaluationDies(e)
         \/ \E p \in Policies : DeleteResultError(e, p)
    \/ \E p \in Policies : CreatePolicy(p) \/ DeletePolicy(p)

VerdictSpec == VerdictInit /\ [][VerdictNext]_verdictVars

(* Goroutines that were started run; nobody has to ask or administer. *)
VerdictFairness ==
    /\ WF_verdictVars(StartEvaluation)
    /\ \A e \in Evaluators : WF_verdictVars(EvaluationStep(e))

FairVerdictSpec == VerdictSpec /\ VerdictFairness

-----------------------------------------------------------------------------
(* Properties *)

(* A completed scan passes only when the organization has no policy that   *)
(* its completed evidence violates (ComputeVerdict is the CI gate): users  *)
(* may evaluate it beside the worker, and policies come and go.  Only two  *)
(* things can deceive the count: a row that was written without the        *)
(* evidence, and two rows of one policy, which are left when two           *)
(* evaluations come to it at once or a delete fails.                       *)
PassIsDeserved ==
    /\ status = "completed" /\ Verdict = "pass"
    /\ \A r \in PolicyResults : seen[r.by]
    /\ policies \cap contested = {}
    => policies \cap Failing = {}

(* It fails only because of a policy that still exists. *)
FailIsDeserved == Verdict = "fail" => policies \cap Failing # {}

(* A completed scan gets its verdict, unless a statement fails, a process  *)
(* dies or a policy arrives that no evaluation has seen.                   *)
VerdictReached ==
    status = "completed" /\ faults = 0
      ~> Verdict # "pending" \/ faults > 0 \/ policies \ Initial # {}
=============================================================================
