----------------------- MODULE PipelineCallbackProofs -----------------------
(***************************************************************************)
(* Proofs about PolicyVerdict for any set of policies and any number of    *)
(* evaluations, and about PipelineCallback, which delivers the verdict,    *)
(* for any number of processes, policies and attempts.                     *)
(***************************************************************************)
EXTENDS PipelineCallback, FiniteSetTheorems, TLAPS

(* The verdict *)

(* A row fails only policies that the completed evidence violates, and all *)
(* of those if its evaluation had seen the evidence; that evaluation has   *)
(* come to its policies.                                                   *)
RowsAreTrue ==
    \A r \in results : /\ r.failed => r.policy \in Failing
                       /\ seen[r.by] /\ r.policy \in Failing => r.failed
                       /\ evalPc[r.by] \in {"policies", "ended"}

(* The worker evaluates once, after the scan has ended.                    *)
WorkerEvaluatesOnce ==
    /\ status = "running" => ending = "none"
    /\ status = "running" \/ ending = "evaluate" => evalPc[WorkerEval] = "idle"

(* A policy that is not contested has one row at most, and none while an   *)
(* evaluation, the only one, is between its two statements.                *)
OneRow ==
    \A p \in Policies \ contested :
      /\ \A q, r \in results : q.policy = p /\ r.policy = p => q = r
      /\ \A e \in Evaluators : current[e] = p =>
            /\ \A r \in results : r.policy # p
            /\ \A d \in Evaluators : current[d] = p => d = e

(* Only in its loop an evaluation is between the two statements.           *)
CurrentInLoop ==
    \A e \in Evaluators : current[e] # NoPolicy => evalPc[e] = "policies"

InitialKept == Initial \subseteq policies \cup removed

VerdictInv ==
    TypeOK /\ RowsAreTrue /\ WorkerEvaluatesOnce /\ OneRow /\ CurrentInLoop /\ InitialKept

LEMMA VerdictStarts == VerdictInit => VerdictInv
<1> SUFFICES ASSUME VerdictInit PROVE VerdictInv
  OBVIOUS
<1>1. TypeOK
  <2>1. evalPc \in [Evaluators -> {"idle", "started", "loaded", "policies", "ended"}]
    BY DEF VerdictInit
  <2>2. seen \in [Evaluators -> BOOLEAN] /\ todo \in [Evaluators -> SUBSET Policies]
    BY DEF VerdictInit
  <2>3. /\ current \in [Evaluators -> Policies \cup {NoPolicy}]
        /\ \A e \in Evaluators : current[e] # NoPolicy => current[e] \in todo[e]
    BY DEF VerdictInit
  <2>4. /\ policies \subseteq Policies /\ removed \subseteq Policies
        /\ policies \cap removed = {} /\ results \subseteq Result
        /\ faults \in 0 .. MaxFaults /\ contested \subseteq Policies
    BY VerdictConstants DEF VerdictInit
  <2> QED
    BY <2>1, <2>2, <2>3, <2>4 DEF VerdictInit, TypeOK
<1> QED
  BY <1>1, VerdictConstants
     DEF VerdictInit, VerdictInv, RowsAreTrue, WorkerEvaluatesOnce, OneRow, CurrentInLoop,
         InitialKept

(* The invariant does not depend on the status of the scan, but for its    *)
(* type, nor on the number of faults.                                      *)
LEMMA EndingKeeps ==
  ASSUME VerdictInv,
         status' \in {"running"} \cup Terminal,
         faults' \in 0 .. MaxFaults,
         evidence' \in BOOLEAN,
         ending' \in {"none", "evaluate", "dispatch", "announce", "done"},
         ending' = "evaluate" => status = "running" \/ ending = "evaluate",
         status' = "running" => status = "running" /\ ending' = ending,
         UNCHANGED <<policyVars, results, evalVars>>
  PROVE  VerdictInv'
<1>1. TypeOK /\ RowsAreTrue /\ WorkerEvaluatesOnce /\ OneRow /\ CurrentInLoop /\ InitialKept
  BY DEF VerdictInv
<1>2. TypeOK'
  BY <1>1 DEF TypeOK, policyVars, evalVars
<1>3. RowsAreTrue' /\ OneRow' /\ CurrentInLoop' /\ InitialKept'
  BY <1>1 DEF RowsAreTrue, OneRow, CurrentInLoop, InitialKept, policyVars, evalVars
<1>4. WorkerEvaluatesOnce'
  BY <1>1 DEF WorkerEvaluatesOnce, evalVars
<1> QED
  BY <1>2, <1>3, <1>4 DEF VerdictInv

LEMMA VerdictTypes ==
  ASSUME TypeOK
  PROVE  /\ results \subseteq Result
         /\ evalPc \in [Evaluators -> {"idle", "started", "loaded", "policies", "ended"}]
         /\ seen \in [Evaluators -> BOOLEAN]
         /\ todo \in [Evaluators -> SUBSET Policies]
         /\ current \in [Evaluators -> Policies \cup {NoPolicy}]
         /\ \A e \in Evaluators : current[e] # NoPolicy => current[e] \in todo[e]
         /\ contested \subseteq Policies
         /\ WorkerEval \in Evaluators
  BY VerdictConstants DEF TypeOK

(* A step of an evaluation that writes no row.                             *)
LEMMA WalkKeeps ==
  ASSUME VerdictInv, NEW e \in Evaluators,
         UNCHANGED <<status, evidence, policyVars>>,
         ending' = ending,
         results' \subseteq results,
         faults' \in 0 .. MaxFaults,
         evalPc' \in [Evaluators -> {"idle", "started", "loaded", "policies", "ended"}],
         seen' \in [Evaluators -> BOOLEAN],
         todo' \in [Evaluators -> SUBSET Policies],
         current' \in [Evaluators -> Policies \cup {NoPolicy}],
         contested \subseteq contested', contested' \subseteq Policies,
         \A d \in Evaluators \ {e} : /\ evalPc'[d] = evalPc[d] /\ seen'[d] = seen[d]
                                     /\ todo'[d] = todo[d] /\ current'[d] = current[d],
         current'[e] # NoPolicy => current'[e] \in todo'[e] /\ evalPc'[e] = "policies",
         e = WorkerEval => evalPc[e] # "idle",
         seen'[e] = seen[e] \/ evalPc[e] = "started",
         evalPc[e] \in {"policies", "ended"} => evalPc'[e] \in {"policies", "ended"},
         \/ current'[e] \in {current[e], NoPolicy} \cup contested'
         \/ /\ \A d \in Evaluators : current[d] # current'[e]
            /\ \A r \in results' : r.policy # current'[e]
  PROVE  VerdictInv'
<1>1. TypeOK /\ RowsAreTrue /\ WorkerEvaluatesOnce /\ OneRow /\ CurrentInLoop /\ InitialKept
  BY DEF VerdictInv
<1>2. TypeOK'
  <2>1. results' \subseteq Result
    BY <1>1, VerdictTypes
  <2>2. \A d \in Evaluators : current'[d] # NoPolicy => current'[d] \in todo'[d]
    BY <1>1, VerdictTypes
  <2> QED
    BY <1>1, <2>1, <2>2 DEF TypeOK, policyVars
<1>3. RowsAreTrue'
  <2> SUFFICES ASSUME NEW r \in results'
               PROVE  /\ r.failed => r.policy \in Failing
                      /\ seen'[r.by] /\ r.policy \in Failing => r.failed
                      /\ evalPc'[r.by] \in {"policies", "ended"}
    BY DEF RowsAreTrue
  <2>1. r \in results /\ r.by \in Evaluators
    BY <1>1, VerdictTypes DEF Result
  <2>2. /\ r.failed => r.policy \in Failing
        /\ seen[r.by] /\ r.policy \in Failing => r.failed
        /\ evalPc[r.by] \in {"policies", "ended"}
    BY <1>1, <2>1 DEF RowsAreTrue
  <2> QED
    BY <2>1, <2>2
<1>4. CurrentInLoop' /\ InitialKept'
  BY <1>1 DEF CurrentInLoop, InitialKept, policyVars
<1>5. WorkerEvaluatesOnce'
  BY <1>1, VerdictConstants DEF WorkerEvaluatesOnce
<1>6. OneRow'
  <2> SUFFICES ASSUME NEW p \in Policies \ contested'
               PROVE  /\ \A q, r \in results' : q.policy = p /\ r.policy = p => q = r
                      /\ \A d \in Evaluators : current'[d] = p =>
                            /\ \A r \in results' : r.policy # p
                            /\ \A c \in Evaluators : current'[c] = p => c = d
    BY DEF OneRow
  <2>1. p \in Policies \ contested /\ p # NoPolicy
    BY VerdictConstants
  <2>2. /\ \A q, r \in results : q.policy = p /\ r.policy = p => q = r
        /\ \A d \in Evaluators : current[d] = p =>
              /\ \A r \in results : r.policy # p
              /\ \A c \in Evaluators : current[c] = p => c = d
    BY <1>1, <2>1 DEF OneRow
  <2>3. CASE current'[e] = p /\ current[e] # p
    <3>1. /\ \A d \in Evaluators : current[d] # p
          /\ \A r \in results' : r.policy # p
      BY <2>1, <2>3
    <3> QED
      BY <2>2, <2>3, <3>1
  <2>4. CASE ~ (current'[e] = p /\ current[e] # p)
    <3>1. \A d \in Evaluators : current'[d] = p => current[d] = p
      BY <2>4
    <3> QED
      BY <2>2, <3>1
  <2> QED
    BY <2>3, <2>4
<1> QED
  BY <1>2, <1>3, <1>4, <1>5, <1>6 DEF VerdictInv

LEMMA InsertKeeps ==
  ASSUME VerdictInv, NEW e \in Evaluators, InsertResult(e)
  PROVE  VerdictInv'
<1>1. TypeOK /\ RowsAreTrue /\ WorkerEvaluatesOnce /\ OneRow /\ CurrentInLoop /\ InitialKept
  BY DEF VerdictInv
<1> DEFINE p == current[e]
           rest == todo[e] \ {p}
           row == ResultOf(e)
<1>2. /\ p \in Policies /\ p \in todo[e] /\ evalPc[e] = "policies" /\ seen[e] \in BOOLEAN
      /\ NoPolicy \notin Policies
  BY <1>1, VerdictTypes, VerdictConstants DEF InsertResult, CurrentInLoop
<1>3. /\ results' = results \cup {row}
      /\ todo' = [todo EXCEPT ![e] = rest]
      /\ evalPc' = [evalPc EXCEPT ![e] = IF rest = {} THEN "ended" ELSE "policies"]
      /\ current' = [current EXCEPT ![e] = NoPolicy]
      /\ UNCHANGED <<scanVars, policyVars, seen, contested, faults>>
  BY DEF InsertResult, Proceed, Left
<1>4. row = [by |-> e, policy |-> p, failed |-> seen[e] /\ p \in Failing]
  BY DEF ResultOf
<1>5. row \in Result
  BY <1>2, <1>4 DEF Result
<1>6. /\ evalPc'[e] \in {"policies", "ended"} /\ current'[e] = NoPolicy
      /\ \A d \in Evaluators \ {e} : evalPc'[d] = evalPc[d] /\ current'[d] = current[d]
  BY <1>1, <1>3, VerdictTypes
<1>7. RowsAreTrue'
  <2>1. ASSUME NEW r \in results'
        PROVE  /\ r.failed => r.policy \in Failing
               /\ seen'[r.by] /\ r.policy \in Failing => r.failed
               /\ evalPc'[r.by] \in {"policies", "ended"}
    <3>1. CASE r \in results
      <4>1. r.by \in Evaluators
        BY <1>1, <3>1, VerdictTypes DEF Result
      <4> QED
        BY <1>1, <1>3, <1>6, <3>1, <4>1 DEF RowsAreTrue
    <3>2. CASE r = row
      <4>1. r.policy = p /\ r.by = e /\ r.failed = (seen[e] /\ p \in Failing)
        BY <1>4, <3>2
      <4> QED
        BY <1>3, <1>6, <4>1
    <3> QED
      BY <1>3, <2>1, <3>1, <3>2
  <2> QED
    BY <2>1 DEF RowsAreTrue
<1>12. OneRow'
  <2> SUFFICES ASSUME NEW s \in Policies \ contested
               PROVE  /\ \A q, r \in results' : q.policy = s /\ r.policy = s => q = r
                      /\ \A d \in Evaluators : current'[d] = s =>
                            /\ \A r \in results' : r.policy # s
                            /\ \A c \in Evaluators : current'[c] = s => c = d
    BY <1>3 DEF OneRow
  <2>1. /\ \A q, r \in results : q.policy = s /\ r.policy = s => q = r
        /\ \A d \in Evaluators : current[d] = s =>
              /\ \A r \in results : r.policy # s
              /\ \A c \in Evaluators : current[c] = s => c = d
    BY <1>1 DEF OneRow
  <2>2. row.policy = p /\ s # NoPolicy
    BY <1>2, <1>4
  <2>3. \A d \in Evaluators : current'[d] = s => d # e /\ current[d] = s
    BY <1>6, <2>2
  <2>4. CASE s = p
    BY <1>3, <2>1, <2>2, <2>3, <2>4
  <2>5. CASE s # p
    BY <1>3, <2>1, <2>2, <2>3, <2>5
  <2> QED
    BY <2>4, <2>5
<1> HIDE DEF row
<1>8. TypeOK'
  <2>1. results' \subseteq Result
    BY <1>1, <1>3, <1>5, VerdictTypes
  <2>2. /\ todo' \in [Evaluators -> SUBSET Policies]
        /\ evalPc' \in [Evaluators -> {"idle", "started", "loaded", "policies", "ended"}]
        /\ current' \in [Evaluators -> Policies \cup {NoPolicy}]
        /\ \A d \in Evaluators : current'[d] # NoPolicy => current'[d] \in todo'[d]
    BY <1>1, <1>3, VerdictTypes
  <2> QED
    BY <1>1, <1>3, <2>1, <2>2 DEF TypeOK, scanVars, policyVars
<1>9. CurrentInLoop'
  BY <1>1, <1>3, VerdictTypes DEF CurrentInLoop
<1>10. WorkerEvaluatesOnce'
  BY <1>1, <1>2, <1>3, <1>6, VerdictTypes DEF WorkerEvaluatesOnce, scanVars
<1>11. InitialKept'
  BY <1>1, <1>3 DEF InitialKept, policyVars
<1> QED
  BY <1>7, <1>8, <1>9, <1>10, <1>11, <1>12 DEF VerdictInv

LEMMA EvaluationKeeps ==
  ASSUME VerdictInv, NEW e \in Evaluators,
         \/ Ask(e) \/ EvaluationStep(e) \/ InsertResultError(e) \/ EvaluationDies(e)
         \/ \E p \in Policies : DeleteResultError(e, p)
  PROVE  VerdictInv'
<1>1. TypeOK /\ RowsAreTrue /\ WorkerEvaluatesOnce /\ OneRow /\ CurrentInLoop /\ InitialKept
  BY DEF VerdictInv
<1>2. /\ policies \subseteq Policies
      /\ faults \in 0 .. MaxFaults /\ MaxFaults \in Nat
      /\ NoPolicy \notin Policies
  BY <1>1, VerdictConstants DEF TypeOK
<1>3. CASE Ask(e)
  <2>1. /\ evalPc' = [evalPc EXCEPT ![e] = "started"] /\ e # WorkerEval /\ evalPc[e] = "idle"
        /\ UNCHANGED <<scanVars, policyVars, results, seen, todo, current, contested, faults>>
    BY <1>3 DEF Ask, Begin
  <2>2. current[e] = NoPolicy
    BY <1>1, <2>1 DEF CurrentInLoop
  <2> QED
    BY <1>1, <1>2, <2>1, <2>2, VerdictTypes, WalkKeeps DEF scanVars
<1>4. CASE LoadEvidence(e)
  <2>1. /\ evalPc' = [evalPc EXCEPT ![e] = "loaded"] /\ evalPc[e] = "started"
        /\ seen' = [seen EXCEPT ![e] = evidence]
        /\ UNCHANGED <<scanVars, policyVars, results, todo, current, contested, faults>>
    BY <1>4 DEF LoadEvidence
  <2>2. current[e] = NoPolicy /\ evidence \in BOOLEAN
    BY <1>1, <2>1 DEF CurrentInLoop, TypeOK
  <2> QED
    BY <1>1, <1>2, <2>1, <2>2, VerdictTypes, WalkKeeps DEF scanVars
<1>5. CASE LoadPolicies(e)
  <2>1. /\ evalPc[e] = "loaded" /\ todo' = [todo EXCEPT ![e] = policies]
        /\ evalPc' = [evalPc EXCEPT ![e] = IF policies = {} THEN "ended" ELSE "policies"]
        /\ UNCHANGED <<scanVars, policyVars, results, seen, current, contested, faults>>
    BY <1>5 DEF LoadPolicies, Left
  <2>2. current[e] = NoPolicy
    BY <1>1, <2>1 DEF CurrentInLoop
  <2> QED
    BY <1>1, <1>2, <2>1, <2>2, VerdictTypes, WalkKeeps DEF scanVars
<1>6. CASE \E p \in Policies : DeleteResult(e, p) \/ DeleteResultError(e, p)
  <2>1. PICK p \in Policies : DeleteResult(e, p) \/ DeleteResultError(e, p)
    BY <1>6
  <2>2. /\ evalPc[e] = "policies" /\ p \in todo[e] /\ current' = [current EXCEPT ![e] = p]
        /\ results' \subseteq results /\ faults' \in 0 .. MaxFaults
        /\ contested \subseteq contested' /\ contested' \subseteq contested \cup {p}
        /\ UNCHANGED <<scanVars, policyVars, evalPc, seen, todo>>
    BY <1>2, <2>1 DEF DeleteResult, DeleteResultError, Fault
  <2>3. p \in contested' \/ /\ \A d \in Evaluators : current[d] # p
                            /\ \A r \in results' : r.policy # p
    BY <2>1 DEF DeleteResult, DeleteResultError
  <2>4. /\ current' \in [Evaluators -> Policies \cup {NoPolicy}] /\ current'[e] = p
        /\ \A d \in Evaluators \ {e} : current'[d] = current[d]
        /\ contested' \subseteq Policies
    BY <1>1, <2>2, VerdictTypes
  <2> QED
    BY <1>1, <2>2, <2>3, <2>4, VerdictTypes, WalkKeeps DEF scanVars
<1>7. CASE InsertResultError(e)
  <2> DEFINE rest == todo[e] \ {current[e]}
  <2>1. /\ todo' = [todo EXCEPT ![e] = rest]
        /\ evalPc' = [evalPc EXCEPT ![e] = IF rest = {} THEN "ended" ELSE "policies"]
        /\ current' = [current EXCEPT ![e] = NoPolicy] /\ current[e] # NoPolicy
        /\ faults' \in 0 .. MaxFaults
        /\ UNCHANGED <<scanVars, policyVars, results, seen, contested>>
    BY <1>2, <1>7 DEF InsertResultError, Proceed, Left, Fault
  <2>2. evalPc[e] = "policies"
    BY <1>1, <2>1 DEF CurrentInLoop
  <2>3. /\ todo' \in [Evaluators -> SUBSET Policies]
        /\ evalPc' \in [Evaluators -> {"idle", "started", "loaded", "policies", "ended"}]
        /\ current' \in [Evaluators -> Policies \cup {NoPolicy}]
        /\ current'[e] = NoPolicy
    BY <1>1, <2>1, VerdictTypes
  <2> QED
    BY <1>1, <1>2, <2>1, <2>2, <2>3, VerdictTypes, WalkKeeps DEF scanVars
<1>8. CASE EvaluationDies(e)
  <2>1. /\ evalPc[e] # "idle" /\ evalPc' = [evalPc EXCEPT ![e] = "ended"]
        /\ todo' = [todo EXCEPT ![e] = {}] /\ current' = [current EXCEPT ![e] = NoPolicy]
        /\ faults' \in 0 .. MaxFaults
        /\ UNCHANGED <<scanVars, policyVars, results, seen, contested>>
    BY <1>2, <1>8 DEF EvaluationDies, Fault
  <2> QED
    BY <1>1, <1>2, <2>1, VerdictTypes, WalkKeeps DEF scanVars
<1> QED
  BY <1>3, <1>4, <1>5, <1>6, <1>7, <1>8, InsertKeeps DEF EvaluationStep

LEMMA VerdictKept == VerdictInv /\ [VerdictNext]_verdictVars => VerdictInv'
<1> SUFFICES ASSUME VerdictInv, [VerdictNext]_verdictVars PROVE VerdictInv'
  OBVIOUS
<1>1. TypeOK /\ RowsAreTrue /\ WorkerEvaluatesOnce /\ OneRow /\ CurrentInLoop /\ InitialKept
  BY DEF VerdictInv
<1>2. /\ status \in {"running"} \cup Terminal /\ evidence \in BOOLEAN
      /\ ending \in {"none", "evaluate", "dispatch", "announce", "done"}
      /\ faults \in 0 .. MaxFaults /\ MaxFaults \in Nat
      /\ status = "running" => ending = "none"
  BY <1>1, VerdictConstants DEF TypeOK, WorkerEvaluatesOnce
<1>3. CASE UNCHANGED verdictVars
  BY <1>2, <1>3, EndingKeeps DEF verdictVars, scanVars
<1>4. CASE StoreEvidence
  BY <1>2, <1>4, EndingKeeps DEF StoreEvidence
<1>5. CASE Complete \/ FailScan \/ FailUndispatched \/ FailAtRestart \/ Cancel \/ EndingDies
  BY <1>2, <1>5, EndingKeeps
     DEF Complete, FailScan, FailUndispatched, FailAtRestart, Cancel, End, EndingDies, Fault,
         Terminal
<1>6. CASE StartEvaluation
  <2>1. /\ evalPc' = [evalPc EXCEPT ![WorkerEval] = "started"] /\ status # "running"
        /\ ending = "evaluate" /\ ending' = "announce"
        /\ UNCHANGED <<status, evidence, policyVars, results, seen, todo, current, contested, faults>>
    BY <1>1, <1>2, <1>6 DEF StartEvaluation, Begin
  <2>2. /\ evalPc' \in [Evaluators -> {"idle", "started", "loaded", "policies", "ended"}]
        /\ evalPc'[WorkerEval] = "started" /\ evalPc[WorkerEval] = "idle"
        /\ \A e \in Evaluators \ {WorkerEval} : evalPc'[e] = evalPc[e]
    BY <1>1, <2>1, VerdictTypes DEF WorkerEvaluatesOnce
  <2>3. TypeOK'
    BY <1>1, <2>1, <2>2 DEF TypeOK, policyVars
  <2>4. RowsAreTrue'
    <3>1. \A r \in results : r.by \in Evaluators
      BY <1>1, VerdictTypes DEF Result
    <3> QED
      BY <1>1, <2>1, <2>2, <3>1 DEF RowsAreTrue
  <2>5. WorkerEvaluatesOnce'
    BY <2>1, <2>2 DEF WorkerEvaluatesOnce
  <2>6. CurrentInLoop'
    BY <1>1, <2>1, <2>2 DEF CurrentInLoop
  <2>7. OneRow' /\ InitialKept'
    BY <1>1, <2>1 DEF OneRow, InitialKept, policyVars
  <2> QED
    BY <2>3, <2>4, <2>5, <2>6, <2>7 DEF VerdictInv
<1>7. ASSUME NEW e \in Evaluators,
             \/ Ask(e) \/ EvaluationStep(e) \/ InsertResultError(e) \/ EvaluationDies(e)
             \/ \E p \in Policies : DeleteResultError(e, p)
      PROVE  VerdictInv'
  BY <1>7, EvaluationKeeps
<1>8. ASSUME NEW p \in Policies, CreatePolicy(p) \/ DeletePolicy(p)
      PROVE  VerdictInv'
  <2>1. UNCHANGED <<scanVars, results, evalVars, faults>>
    BY <1>8 DEF CreatePolicy, DeletePolicy
  <2>2. /\ policies' \subseteq Policies /\ removed' \subseteq Policies
        /\ policies' \cap removed' = {} /\ Initial \subseteq policies' \cup removed'
    BY <1>1, <1>8 DEF CreatePolicy, DeletePolicy, TypeOK, InitialKept
  <2>3. TypeOK' /\ InitialKept'
    BY <1>1, <2>1, <2>2 DEF TypeOK, InitialKept, scanVars, evalVars
  <2>4. RowsAreTrue' /\ WorkerEvaluatesOnce' /\ OneRow' /\ CurrentInLoop'
    BY <1>1, <2>1 DEF RowsAreTrue, WorkerEvaluatesOnce, OneRow, CurrentInLoop, scanVars, evalVars
  <2> QED
    BY <2>3, <2>4 DEF VerdictInv
<1> QED
  BY <1>3, <1>4, <1>5, <1>6, <1>7, <1>8 DEF VerdictNext

-----------------------------------------------------------------------------
(* Where no policy is contested there is one row of each at most, and as   *)
(* many rows as policies leave no policy without one.                      *)
LEMMA EnoughRows ==
  ASSUME VerdictInv, policies \cap contested = {},
         \A r \in PolicyResults : seen[r.by],
         NEW n \in Nat, Cardinality(policies) <= n,
         ~ (Cardinality(PolicyResults) < n),
         \A r \in PolicyResults : ~ r.failed
  PROVE  policies \cap Failing = {}
<1> SUFFICES ASSUME NEW p \in policies, p \in Failing PROVE FALSE
  OBVIOUS
<1>1. TypeOK /\ RowsAreTrue /\ OneRow
  BY DEF VerdictInv
<1> DEFINE others == policies \ {p}
           f == [r \in PolicyResults |-> r.policy]
<1>2. /\ IsFiniteSet(policies) /\ IsFiniteSet(others)
      /\ Cardinality(policies) \in Nat /\ Cardinality(others) = Cardinality(policies) - 1
  <2>1. IsFiniteSet(policies)
    BY <1>1, VerdictConstants, FS_Subset DEF TypeOK
  <2> QED
    BY <2>1, FS_RemoveElement, FS_CardinalityType
<1>3. ASSUME NEW r \in PolicyResults
      PROVE  r \in results /\ r.policy \in others
  <2>1. r \in results /\ r.policy \in policies /\ ~ r.failed /\ seen[r.by]
    BY DEF PolicyResults
  <2> QED
    BY <1>1, <2>1 DEF RowsAreTrue
<1>4. f \in Injection(PolicyResults, others)
  <2>1. f \in [PolicyResults -> others]
    BY <1>3
  <2>2. ASSUME NEW q \in PolicyResults, NEW r \in PolicyResults, f[q] = f[r] PROVE q = r
    <3>1. q \in results /\ r \in results /\ q.policy = r.policy
      BY <1>3, <2>2
    <3>2. r.policy \in Policies \ contested
      BY <1>1, <1>3 DEF TypeOK
    <3> QED
      BY <1>1, <3>1, <3>2 DEF OneRow
  <2> QED
    BY <2>1, <2>2 DEF Injection, IsInjective
<1>5. /\ IsFiniteSet(PolicyResults)
      /\ Cardinality(PolicyResults) <= Cardinality(others)
  BY <1>2, <1>4, FS_Injection
<1>6. Cardinality(PolicyResults) \in Nat
  BY <1>5, FS_CardinalityType
<1> QED
  BY <1>2, <1>5, <1>6

LEMMA VerdictInvHolds == VerdictSpec => []VerdictInv
BY VerdictStarts, VerdictKept, PTL DEF VerdictSpec

(* A verdict of ComputeVerdict is "fail" only because of a policy that     *)
(* still exists and that the evidence violates, whichever evaluations      *)
(* overlap, whatever they had seen and whatever fails.                     *)
THEOREM FailsAreDeserved == VerdictSpec => []FailIsDeserved
<1>1. VerdictInv => FailIsDeserved
  BY DEF VerdictInv, RowsAreTrue, FailIsDeserved, Verdict, ComputeVerdict, PolicyResults
<1> QED
  BY <1>1, VerdictInvHolds, PTL

(* The number of rows that ComputeVerdict compares stands for a row of     *)
(* every policy, although policies come and go and rows of deleted ones    *)
(* stay.                                                                   *)
LEMMA PassFollows ==
  ASSUME VerdictInv
  PROVE  PassIsDeserved
<1> SUFFICES ASSUME Verdict = "pass", \A r \in PolicyResults : seen[r.by],
                    policies \cap contested = {}
             PROVE  policies \cap Failing = {}
  BY DEF PassIsDeserved
<1>1. /\ ~ (Cardinality(PolicyResults) < Cardinality(policies))
      /\ \A r \in PolicyResults : ~ r.failed
  BY DEF Verdict, ComputeVerdict
<1>2. Cardinality(policies) \in Nat
  BY VerdictConstants, FS_Subset, FS_CardinalityType DEF VerdictInv, TypeOK
<1> QED
  BY <1>1, <1>2, EnoughRows

(* The status endpoint answers "pass" for a completed scan only when no    *)
(* policy of the organization is violated (BuildScanResult,                *)
(* ComputeVerdict), however many evaluations users have asked for beside   *)
(* the worker's, unless one has left a row without the evidence or two of  *)
(* them have left two rows of one policy.                                  *)
THEOREM PassesDeserved == VerdictSpec => []PassIsDeserved
<1>1. VerdictInv => PassIsDeserved
  BY PassFollows
<1> QED
  BY <1>1, VerdictInvHolds, PTL

-----------------------------------------------------------------------------
(* The delivery of the verdict *)

(* Nobody but the delivery that holds the request settles it, and only     *)
(* while it is pending: what is settled stays (claimPendingCallback,       *)
(* markCallbackFailure, QueueCallbackForScan).                             *)
LEMMA SettledStays ==
  ASSUME [Next]_vars, Settled
  PROVE  delivery' = delivery
<1>1. CASE UNCHANGED vars
  BY <1>1 DEF vars, callbackVars, rowVars
<1>2. CASE VerdictNext /\ UNCHANGED callbackVars
  BY <1>2 DEF callbackVars, rowVars
<1>3. CASE QueueCallback
  BY <1>3 DEF QueueCallback, Unqueued, Settled
<1>4. CASE BecomeDue
  BY <1>4 DEF BecomeDue
<1>5. ASSUME NEW r \in Replicas,
             PollerStep(r) \/ ClaimError(r) \/ PostLost(r) \/ DeliveryError(r) \/ DeliveryDies(r)
      PROVE  delivery' = delivery
  BY <1>5 DEF PollerStep, Poll, Claim, ReadPolicies, ReadResults, Post, MarkDelivered,
              MarkRefused, ClaimError, PostLost, DeliveryError, DeliveryDies, Failed, Mine,
              Lease, Release, Settled, rowVars
<1> QED
  BY <1>1, <1>2, <1>3, <1>4, <1>5 DEF Next

(* A settled callback stays settled, whoever queues it again and whichever *)
(* delivery comes back late.                                               *)
THEOREM CallbackIsFinal == Spec => SettledIsFinal
<1>1. [Next]_vars => [Settled => delivery' = delivery]_vars
  BY SettledStays
<1> QED
  BY <1>1, PTL DEF Spec, SettledIsFinal

-----------------------------------------------------------------------------
(* The inductive invariant *)

(* No attempt is left over once the limit is reached.                      *)
AttemptsLeft ==
    /\ delivery = "awaiting" => attempts = 0 /\ ~ tried
    /\ delivery = "pending" => attempts < MaxAttempts

(* Until a delivery outlives its lease, a process that delivers holds the  *)
(* request, and the request is not due.                                    *)
LeaseHolds ==
    pauses = 0 =>
      \A r \in Replicas : pc[r] \in Delivering => holder = r /\ ~ due /\ tried

(* A process that goes on to count a delivery as accepted was answered.    *)
AcceptedIsTrue ==
    /\ \A r \in Replicas : pc[r] = "accepted" => accepted
    /\ delivery = "delivered" => accepted

(* What is posted is a verdict.                                            *)
PostsVerdict == \A r \in Replicas : pc[r] = "posting" => verdict[r] # "pending"

(* No policy has arrived since the scan started.                           *)
NoArrival == policies \cup removed \subseteq Initial

PassDeserved ==
    status = "completed" /\ NoArrival /\ EvaluationsAreSound => policies \cap Failing = {}

(* A delivery has counted at least the policies that remain: policies go   *)
(* while it runs, and none arrives.                                        *)
CountsEnough ==
    \A r \in Replicas :
      /\ pc[r] = "counted" => status \in Terminal
      /\ pc[r] = "counted" /\ NoArrival => Cardinality(policies) <= count[r]

(* What has been computed or posted as a pass is deserved.                 *)
PassesAre ==
    /\ \A r \in Replicas : verdict[r] = "pass" => status \in Terminal /\ PassDeserved
    /\ "pass" \in posted => status \in Terminal /\ PassDeserved

RowTypes ==
    /\ delivery \in {"awaiting", "pending", "delivered", "failed"}
    /\ attempts \in 0 .. MaxAttempts
    /\ due \in BOOLEAN /\ tried \in BOOLEAN
    /\ holder \in Replicas \cup {NoReplica}

PollerTypes ==
    /\ pc \in [Replicas -> {"idle", "selected"} \cup Delivering]
    /\ snapshot \in [Replicas -> 0 .. MaxAttempts - 1]
    /\ count \in [Replicas -> 0 .. Cardinality(Policies)]
    /\ verdict \in [Replicas -> {"pending", "pass", "fail", "error"}]
    /\ posted \subseteq {"pass", "fail", "error"}
    /\ accepted \in BOOLEAN
    /\ pauses \in 0 .. MaxPauses

DeliveryRest ==
    RowTypes /\ PollerTypes /\ AttemptsLeft /\ LeaseHolds /\ AcceptedIsTrue /\ PostsVerdict

DeliveryInv == VerdictInv /\ DeliveryRest

LEMMA CallbackTypeParts == CallbackTypeOK <=> TypeOK /\ RowTypes /\ PollerTypes
BY DEF CallbackTypeOK, RowTypes, PollerTypes

LEMMA DeliveryStarts == Init => DeliveryInv
<1> SUFFICES ASSUME Init PROVE DeliveryInv
  OBVIOUS
<1>1. VerdictInv
  BY VerdictStarts DEF Init
<1>2. RowTypes
  <2>1. due \in BOOLEAN /\ tried \in BOOLEAN
    BY DEF Init
  <2>2. attempts \in 0 .. MaxAttempts
    BY CallbackConstants DEF Init
  <2> QED
    BY <2>1, <2>2 DEF Init, RowTypes
<1>3. Cardinality(Policies) \in Nat
  BY VerdictConstants, FS_CardinalityType
<1>4. PollerTypes
  <2>1. /\ pc \in [Replicas -> {"idle", "selected"} \cup Delivering]
        /\ verdict \in [Replicas -> {"pending", "pass", "fail", "error"}]
    BY DEF Init
  <2>2. /\ 0 \in 0 .. MaxAttempts - 1 /\ 0 \in 0 .. Cardinality(Policies)
        /\ 0 \in 0 .. MaxPauses
    BY <1>3, CallbackConstants
  <2>3. /\ snapshot \in [Replicas -> 0 .. MaxAttempts - 1]
        /\ count \in [Replicas -> 0 .. Cardinality(Policies)]
    BY <2>2 DEF Init
  <2>4. accepted \in BOOLEAN /\ posted = {} /\ pauses = 0
    BY DEF Init
  <2> QED
    BY <2>1, <2>2, <2>3, <2>4 DEF PollerTypes
<1>5. AttemptsLeft /\ LeaseHolds /\ AcceptedIsTrue /\ PostsVerdict
  BY CallbackConstants
     DEF Init, AttemptsLeft, LeaseHolds, AcceptedIsTrue, PostsVerdict, Delivering
<1> QED
  BY <1>1, <1>2, <1>4, <1>5 DEF DeliveryInv, DeliveryRest

(* Deliveries leave the verdict's state alone but for the number of faults,*)
(* and a queued callback changes only what its goroutine has still to do.  *)
LEMMA VerdictPartKept ==
  ASSUME VerdictInv, [Next]_vars
  PROVE  VerdictInv'
<1>1. /\ TypeOK /\ faults \in 0 .. MaxFaults /\ MaxFaults \in Nat
      /\ status \in {"running"} \cup Terminal /\ evidence \in BOOLEAN
      /\ ending \in {"none", "evaluate", "dispatch", "announce", "done"}
      /\ status = "running" => ending = "none"
  BY VerdictConstants DEF VerdictInv, TypeOK, WorkerEvaluatesOnce
<1>2. CASE UNCHANGED verdictVars
  BY <1>2, VerdictKept
<1>3. CASE VerdictNext
  BY <1>3, VerdictKept
<1>4. CASE QueueCallback
  BY <1>1, <1>4, EndingKeeps DEF QueueCallback
<1>5. CASE Fault /\ UNCHANGED <<scanVars, policyVars, results, evalVars>>
  BY <1>1, <1>5, EndingKeeps DEF Fault, scanVars
<1> QED
  BY <1>2, <1>3, <1>4, <1>5
     DEF Next, vars, PollerStep, Poll, Claim, ReadPolicies, ReadResults, Post, MarkDelivered,
         MarkRefused, ClaimError, PostLost, DeliveryError, DeliveryDies, BecomeDue

(* A poller goes on without touching the row.                              *)
LEMMA PollerKeeps ==
  ASSUME DeliveryRest, NEW r \in Replicas,
         UNCHANGED <<delivery, attempts, due, tried, holder, pauses>>,
         pc' \in [Replicas -> {"idle", "selected"} \cup Delivering],
         \A q \in Replicas \ {r} : pc'[q] = pc[q] /\ verdict'[q] = verdict[q],
         pc'[r] \in Delivering => pc[r] \in Delivering,
         snapshot' \in [Replicas -> 0 .. MaxAttempts - 1],
         count' \in [Replicas -> 0 .. Cardinality(Policies)],
         verdict' \in [Replicas -> {"pending", "pass", "fail", "error"}],
         posted' \subseteq {"pass", "fail", "error"},
         accepted' \in BOOLEAN, accepted => accepted',
         pc'[r] = "accepted" => accepted',
         pc'[r] = "posting" => verdict'[r] # "pending"
  PROVE  DeliveryRest'
<1>1. RowTypes' /\ PollerTypes' /\ AttemptsLeft'
  BY DEF DeliveryRest, RowTypes, PollerTypes, AttemptsLeft
<1>2. LeaseHolds'
  BY DEF DeliveryRest, LeaseHolds
<1>3. AcceptedIsTrue' /\ PostsVerdict'
  BY DEF DeliveryRest, AcceptedIsTrue, PostsVerdict
<1> QED
  BY <1>1, <1>2, <1>3 DEF DeliveryRest

(* A poller ends its delivery, and the row is as it was or the poller has  *)
(* written it as the one that holds it.                                    *)
LEMMA EndOfDelivery ==
  ASSUME DeliveryRest, NEW r \in Replicas,
         pc' = [pc EXCEPT ![r] = "idle"],
         UNCHANGED <<snapshot, count, verdict, posted, accepted, pauses>>,
         \/ UNCHANGED rowVars
         \/ /\ Mine(r) /\ attempts' = snapshot[r] + 1 /\ holder' = NoReplica
            /\ UNCHANGED <<due, tried>>
            /\ \/ delivery' = "delivered" /\ accepted
               \/ delivery' = "failed"
               \/ delivery' = "pending" /\ snapshot[r] + 1 < MaxAttempts
  PROVE  DeliveryRest'
<1>1. /\ RowTypes /\ PollerTypes /\ AttemptsLeft /\ LeaseHolds /\ AcceptedIsTrue
      /\ PostsVerdict
  BY DEF DeliveryRest
<1>2. /\ pc' \in [Replicas -> {"idle", "selected"} \cup Delivering]
      /\ pc'[r] = "idle" /\ \A q \in Replicas \ {r} : pc'[q] = pc[q]
      /\ "idle" \notin Delivering
  BY <1>1 DEF PollerTypes, Delivering
<1>3. CASE UNCHANGED rowVars
  BY <1>1, <1>2, <1>3, PollerKeeps DEF PollerTypes, rowVars
<1>4. CASE /\ Mine(r) /\ attempts' = snapshot[r] + 1 /\ holder' = NoReplica
           /\ UNCHANGED <<due, tried>>
           /\ \/ delivery' = "delivered" /\ accepted
              \/ delivery' = "failed"
              \/ delivery' = "pending" /\ snapshot[r] + 1 < MaxAttempts
  <2>1. snapshot[r] \in 0 .. MaxAttempts - 1 /\ MaxAttempts \in Nat
    BY <1>1, CallbackConstants DEF PollerTypes
  <2>2. attempts' \in 0 .. MaxAttempts
    BY <1>4, <2>1
  <2>3. RowTypes' /\ PollerTypes'
    BY <1>1, <1>2, <1>4, <2>2 DEF RowTypes, PollerTypes
  <2>4. AttemptsLeft'
    BY <1>4 DEF AttemptsLeft
  <2>5. LeaseHolds'
    BY <1>1, <1>2, <1>4 DEF LeaseHolds, Mine
  <2>6. AcceptedIsTrue' /\ PostsVerdict'
    BY <1>1, <1>2, <1>4 DEF AcceptedIsTrue, PostsVerdict
  <2> QED
    BY <2>3, <2>4, <2>5, <2>6 DEF DeliveryRest
<1> QED
  BY <1>3, <1>4

(* The claim of a request that is due: no delivery of it is under way but  *)
(* one that has outlived its lease.                                        *)
LEMMA LeaseKeeps ==
  ASSUME DeliveryRest, NEW r \in Replicas, Claimable, Lease(r),
         \E label \in {"idle", "claimed"} : pc' = [pc EXCEPT ![r] = label],
         UNCHANGED <<snapshot, count, verdict, posted, accepted, pauses>>
  PROVE  DeliveryRest'
<1>1. /\ RowTypes /\ PollerTypes /\ AttemptsLeft /\ LeaseHolds /\ AcceptedIsTrue
      /\ PostsVerdict
  BY DEF DeliveryRest
<1>2. /\ delivery = "pending" /\ due
      /\ holder' = r /\ tried' /\ ~ due'
      /\ tried' \in BOOLEAN /\ due' \in BOOLEAN
      /\ UNCHANGED <<delivery, attempts>>
  BY DEF Claimable, Lease
<1>3. /\ pc' \in [Replicas -> {"idle", "selected"} \cup Delivering]
      /\ pc'[r] \in {"idle", "claimed"} /\ \A q \in Replicas \ {r} : pc'[q] = pc[q]
  BY <1>1 DEF PollerTypes, Delivering
<1>4. RowTypes' /\ PollerTypes'
  BY <1>1, <1>2, <1>3 DEF RowTypes, PollerTypes
<1>5. AttemptsLeft'
  BY <1>1, <1>2 DEF AttemptsLeft
<1>6. LeaseHolds'
  BY <1>1, <1>2, <1>3 DEF LeaseHolds
<1>7. AcceptedIsTrue' /\ PostsVerdict'
  BY <1>1, <1>2, <1>3 DEF AcceptedIsTrue, PostsVerdict
<1> QED
  BY <1>4, <1>5, <1>6, <1>7 DEF DeliveryRest

LEMMA ReplicaKeeps ==
  ASSUME DeliveryRest, TypeOK, NEW r \in Replicas,
         PollerStep(r) \/ ClaimError(r) \/ PostLost(r) \/ DeliveryError(r) \/ DeliveryDies(r)
  PROVE  DeliveryRest'
<1>1. /\ RowTypes /\ PollerTypes /\ AttemptsLeft /\ LeaseHolds /\ AcceptedIsTrue
      /\ PostsVerdict
  BY DEF DeliveryRest
<1>2. /\ pc \in [Replicas -> {"idle", "selected"} \cup Delivering]
      /\ snapshot \in [Replicas -> 0 .. MaxAttempts - 1]
      /\ count \in [Replicas -> 0 .. Cardinality(Policies)]
      /\ verdict \in [Replicas -> {"pending", "pass", "fail", "error"}]
      /\ posted \subseteq {"pass", "fail", "error"} /\ accepted \in BOOLEAN
  BY <1>1 DEF PollerTypes
<1>3. Delivering = {"claimed", "counted", "posting", "accepted", "refused"}
  BY DEF Delivering
<1>4. CASE Poll(r)
  <2>1. /\ delivery = "pending" /\ pc' = [pc EXCEPT ![r] = "selected"]
        /\ snapshot' = [snapshot EXCEPT ![r] = attempts]
        /\ UNCHANGED <<rowVars, count, verdict, posted, accepted, pauses>>
    BY <1>4 DEF Poll, Goto
  <2>2. attempts \in 0 .. MaxAttempts - 1
    BY <1>1, <2>1, CallbackConstants DEF RowTypes, AttemptsLeft
  <2> QED
    BY <1>2, <1>3, <2>1, <2>2, PollerKeeps DEF rowVars
<1>5. CASE Claim(r) \/ ClaimError(r)
  <2>1. /\ \/ Claimable /\ Lease(r) /\ \E label \in {"idle", "claimed"} :
                                          pc' = [pc EXCEPT ![r] = label]
           \/ pc' = [pc EXCEPT ![r] = "idle"] /\ UNCHANGED rowVars
        /\ UNCHANGED <<snapshot, count, verdict, posted, accepted, pauses>>
    BY <1>5 DEF Claim, ClaimError, Goto
  <2> QED
    BY <2>1, LeaseKeeps, EndOfDelivery
<1>6. CASE ReadPolicies(r)
  <2>1. /\ pc[r] = "claimed" /\ count' = [count EXCEPT ![r] = Cardinality(policies)]
        /\ \E label \in {"counted", "idle"} : pc' = [pc EXCEPT ![r] = label]
        /\ UNCHANGED <<rowVars, snapshot, verdict, posted, accepted, pauses>>
    BY <1>6 DEF ReadPolicies, Release, Goto
  <2>2. Cardinality(policies) \in 0 .. Cardinality(Policies)
    <3>1. policies \in SUBSET Policies /\ IsFiniteSet(Policies)
      BY VerdictConstants DEF TypeOK
    <3>2. /\ IsFiniteSet(policies) /\ Cardinality(policies) <= Cardinality(Policies)
      BY <3>1, FS_Subset
    <3>3. Cardinality(policies) \in Nat /\ Cardinality(Policies) \in Nat
      BY <3>1, <3>2, FS_CardinalityType
    <3> QED
      BY <3>2, <3>3
  <2> QED
    BY <1>2, <1>3, <2>1, <2>2, PollerKeeps DEF rowVars
<1>7. CASE ReadResults(r)
  <2> DEFINE v == ComputeVerdict(status, count[r], PolicyResults)
  <2>1. v \in {"pending", "pass", "fail", "error"}
    BY DEF ComputeVerdict
  <2>2. /\ pc[r] = "counted" /\ verdict' = [verdict EXCEPT ![r] = v]
        /\ pc' = [pc EXCEPT ![r] = IF v = "pending" THEN "idle" ELSE "posting"]
        /\ UNCHANGED <<rowVars, snapshot, count, posted, accepted, pauses>>
    BY <1>7 DEF ReadResults, Release, Goto
  <2> HIDE DEF v
  <2>3. /\ pc' \in [Replicas -> {"idle", "selected"} \cup Delivering]
        /\ pc'[r] = IF v = "pending" THEN "idle" ELSE "posting"
        /\ verdict' \in [Replicas -> {"pending", "pass", "fail", "error"}]
        /\ verdict'[r] = v
        /\ \A q \in Replicas \ {r} : pc'[q] = pc[q] /\ verdict'[q] = verdict[q]
    BY <1>2, <1>3, <2>1, <2>2
  <2> QED
    BY <1>2, <1>3, <2>2, <2>3, PollerKeeps DEF rowVars
<1>8. CASE Post(r) \/ PostLost(r)
  <2>1. \E label \in {"accepted", "refused"} :
           /\ pc' = [pc EXCEPT ![r] = label]
           /\ label = "accepted" => accepted'
    BY <1>8 DEF Post, PostLost, Goto
  <2>2. /\ pc[r] = "posting" /\ posted' \subseteq posted \cup {verdict[r]}
        /\ accepted' = TRUE \/ accepted' = accepted
        /\ UNCHANGED <<rowVars, snapshot, count, verdict, pauses>>
    BY <1>8 DEF Post, PostLost
  <2>3. verdict[r] # "pending"
    BY <1>1, <2>2 DEF PostsVerdict
  <2>4. posted' \subseteq {"pass", "fail", "error"}
    <3>1. verdict[r] \in {"pass", "fail", "error"}
      BY <1>2, <2>3
    <3> QED
      BY <1>2, <2>2, <3>1
  <2>5. accepted' \in BOOLEAN /\ (accepted => accepted')
    <3>1. CASE accepted' = TRUE
      BY <3>1
    <3>2. CASE accepted' = accepted
      BY <1>2, <3>2
    <3> QED
      BY <2>2, <3>1, <3>2
  <2> QED
    BY <1>2, <1>3, <2>1, <2>2, <2>4, <2>5, PollerKeeps DEF rowVars
<1>9. CASE MarkDelivered(r)
  <2>1. accepted
    BY <1>1, <1>9 DEF MarkDelivered, AcceptedIsTrue
  <2> QED
    BY <1>9, <2>1, EndOfDelivery DEF MarkDelivered, Goto
<1>10. CASE MarkRefused(r) \/ DeliveryError(r)
  <2>1. \E final \in BOOLEAN : Failed(r, final)
    BY <1>10 DEF MarkRefused, DeliveryError
  <2>2. /\ pc' = [pc EXCEPT ![r] = "idle"]
        /\ UNCHANGED <<snapshot, count, verdict, posted, accepted, pauses>>
    BY <1>10 DEF MarkRefused, DeliveryError, Goto
  <2>3. snapshot[r] \in 0 .. MaxAttempts - 1 /\ MaxAttempts \in Nat
    BY <1>2, CallbackConstants
  <2>4. \/ UNCHANGED rowVars
        \/ /\ Mine(r) /\ attempts' = snapshot[r] + 1 /\ holder' = NoReplica
           /\ UNCHANGED <<due, tried>>
           /\ \/ delivery' = "failed"
              \/ delivery' = "pending" /\ snapshot[r] + 1 < MaxAttempts
    <3>1. CASE Mine(r)
      BY <2>1, <2>3, <3>1 DEF Failed
    <3>2. CASE ~ Mine(r)
      BY <2>1, <3>2 DEF Failed
    <3> QED
      BY <3>1, <3>2
  <2> QED
    BY <2>2, <2>4, EndOfDelivery
<1>11. CASE DeliveryDies(r)
  BY <1>11, EndOfDelivery DEF DeliveryDies, Goto
<1> QED
  BY <1>4, <1>5, <1>6, <1>7, <1>8, <1>9, <1>10, <1>11 DEF PollerStep

LEMMA OthersKeep ==
  ASSUME DeliveryRest,
         QueueCallback \/ BecomeDue \/ UNCHANGED callbackVars
  PROVE  DeliveryRest'
<1>1. /\ RowTypes /\ PollerTypes /\ AttemptsLeft /\ LeaseHolds /\ AcceptedIsTrue
      /\ PostsVerdict
  BY DEF DeliveryRest
<1>2. CASE UNCHANGED callbackVars
  BY <1>1, <1>2 DEF DeliveryRest, RowTypes, PollerTypes, AttemptsLeft, LeaseHolds,
                    AcceptedIsTrue, PostsVerdict, callbackVars, rowVars, pollerVars
<1>3. CASE QueueCallback
  <2>1. /\ \/ /\ delivery = "awaiting" \/ (delivery = "pending" /\ ~ tried)
              /\ delivery' = "pending" /\ due' = TRUE
           \/ UNCHANGED <<delivery, due>>
        /\ UNCHANGED <<attempts, tried, holder, pc, snapshot, count, verdict, posted, accepted,
                       pauses>>
    <3>1. CASE Unqueued
      BY <1>3, <3>1 DEF QueueCallback, Unqueued, pollerVars
    <3>2. CASE ~ Unqueued
      BY <1>3, <3>2 DEF QueueCallback, pollerVars
    <3> QED
      BY <3>1, <3>2
  <2>2. RowTypes' /\ PollerTypes'
    BY <1>1, <2>1 DEF RowTypes, PollerTypes
  <2>3. AttemptsLeft'
    BY <1>1, <2>1, CallbackConstants DEF AttemptsLeft
  <2>4. LeaseHolds'
    BY <1>1, <2>1 DEF LeaseHolds, AttemptsLeft
  <2>5. AcceptedIsTrue' /\ PostsVerdict'
    BY <1>1, <2>1 DEF AcceptedIsTrue, PostsVerdict
  <2> QED
    BY <2>2, <2>3, <2>4, <2>5 DEF DeliveryRest
<1>4. CASE BecomeDue
  <2>1. /\ IF holder # NoReplica /\ pc[holder] \in Delivering
           THEN pauses < MaxPauses /\ pauses' = pauses + 1 ELSE pauses' = pauses
        /\ due' = TRUE
        /\ UNCHANGED <<delivery, attempts, tried, holder, pc, snapshot, count, verdict, posted,
                       accepted>>
    BY <1>4 DEF BecomeDue, pollerVars
  <2>2. pauses \in 0 .. MaxPauses /\ MaxPauses \in Nat
    BY <1>1, CallbackConstants DEF PollerTypes
  <2>3. pauses' \in 0 .. MaxPauses /\ pauses' >= pauses
    BY <2>1, <2>2
  <2>4. RowTypes' /\ PollerTypes'
    BY <1>1, <2>1, <2>3 DEF RowTypes, PollerTypes
  <2>5. LeaseHolds'
    <3> SUFFICES ASSUME pauses' = 0, NEW r \in Replicas, pc[r] \in Delivering
                 PROVE  FALSE
      BY <2>1 DEF LeaseHolds
    <3>1. pauses = 0
      BY <2>2, <2>3
    <3>2. holder = r
      BY <1>1, <3>1 DEF LeaseHolds
    <3>3. pauses' = pauses + 1
      BY <2>1, <3>2, CallbackConstants
    <3> QED
      BY <3>1, <3>3
  <2>6. AttemptsLeft' /\ AcceptedIsTrue' /\ PostsVerdict'
    BY <1>1, <2>1 DEF AttemptsLeft, AcceptedIsTrue, PostsVerdict
  <2> QED
    BY <2>4, <2>5, <2>6 DEF DeliveryRest
<1> QED
  BY <1>2, <1>3, <1>4

LEMMA DeliveryKept == DeliveryInv /\ [Next]_vars => DeliveryInv'
<1> SUFFICES ASSUME DeliveryInv, [Next]_vars PROVE DeliveryInv'
  OBVIOUS
<1>1. VerdictInv /\ DeliveryRest /\ TypeOK
  BY DEF DeliveryInv, VerdictInv
<1>2. VerdictInv'
  BY <1>1, VerdictPartKept
<1>3. DeliveryRest'
  BY <1>1, ReplicaKeeps, OthersKeep DEF Next, vars
<1> QED
  BY <1>2, <1>3 DEF DeliveryInv

LEMMA DeliveryInvHolds == Spec => []DeliveryInv
BY DeliveryStarts, DeliveryKept, PTL DEF Spec

-----------------------------------------------------------------------------
(* However many processes poll, one of them at a time has a request in its *)
(* hands unless a delivery outlives its lease, and a callback counts as    *)
(* delivered only if its receiver took it (claimPendingCallback,           *)
(* deliverCallback, markCallbackFailure).                                  *)
THEOREM DeliveriesAreSound == Spec => []DeliveryIsSound
<1>1. DeliveryInv => DeliveryIsSound
  <2> SUFFICES ASSUME DeliveryInv PROVE DeliveryIsSound
    OBVIOUS
  <2>1. CallbackTypeOK
    BY CallbackTypeParts DEF DeliveryInv, DeliveryRest, VerdictInv
  <2>2. NoConcurrentDelivery
    BY DEF DeliveryInv, DeliveryRest, LeaseHolds, NoConcurrentDelivery
  <2>3. DeliveredWasAccepted
    BY DEF DeliveryInv, DeliveryRest, AcceptedIsTrue, DeliveredWasAccepted
  <2> QED
    BY <2>1, <2>2, <2>3 DEF DeliveryIsSound
<1> QED
  BY <1>1, DeliveryInvHolds, PTL

-----------------------------------------------------------------------------
(* Passes that are posted                                                  *)

(* A verdict does not wait for policies that go, and a scan that has ended *)
(* has ended.                                                              *)
LEMMA PoliciesOnlyGo ==
  ASSUME VerdictInv, [Next]_vars
  PROVE  /\ status \in Terminal => status' = status
         /\ NoArrival' => NoArrival /\ policies' \subseteq policies
<1>1. InitialKept
  BY DEF VerdictInv
<1>2. CASE UNCHANGED <<status, policyVars>>
  BY <1>2 DEF NoArrival, policyVars
<1>3. CASE Complete \/ FailScan \/ FailUndispatched \/ FailAtRestart \/ Cancel
  <2>1. status = "running" /\ UNCHANGED policyVars
    BY <1>3 DEF Complete, FailScan, FailUndispatched, FailAtRestart, Cancel, End
  <2> QED
    BY <2>1 DEF NoArrival, policyVars, Terminal
<1>4. ASSUME NEW p \in Policies, CreatePolicy(p)
      PROVE  UNCHANGED status /\ ~ NoArrival'
  BY <1>1, <1>4 DEF CreatePolicy, NoArrival, InitialKept, scanVars
<1>5. ASSUME NEW p \in Policies, DeletePolicy(p)
      PROVE  UNCHANGED status /\ (NoArrival' => NoArrival) /\ policies' \subseteq policies
  BY <1>5 DEF DeletePolicy, NoArrival, scanVars
<1>6. CASE VerdictNext
  <2>1. ASSUME NEW e \in Evaluators,
               \/ Ask(e) \/ EvaluationStep(e) \/ InsertResultError(e) \/ EvaluationDies(e)
               \/ \E p \in Policies : DeleteResultError(e, p)
        PROVE  UNCHANGED <<status, policyVars>>
    BY <2>1 DEF Ask, EvaluationStep, LoadEvidence, LoadPolicies, InsertResult, DeleteResult,
                InsertResultError, EvaluationDies, DeleteResultError, scanVars
  <2>2. CASE StoreEvidence \/ StartEvaluation \/ EndingDies
    BY <1>2, <2>2 DEF StoreEvidence, StartEvaluation, EndingDies
  <2> QED
    BY <1>2, <1>3, <1>4, <1>5, <1>6, <2>1, <2>2 DEF VerdictNext
<1>7. CASE ~ VerdictNext
  <2>1. UNCHANGED <<status, policyVars>>
    BY <1>7 DEF Next, vars, QueueCallback, PollerStep, Poll, Claim, ReadPolicies, ReadResults,
                Post, MarkDelivered, MarkRefused, ClaimError, PostLost, DeliveryError,
                DeliveryDies, BecomeDue, verdictVars, scanVars
  <2> QED
    BY <1>2, <2>1
<1> QED
  BY <1>6, <1>7

(* An evaluation that has come to its policies has seen what it has seen,  *)
(* and a policy that was contested stays so.                               *)
LEMMA UnsoundStays ==
  ASSUME VerdictInv, [Next]_vars, EvaluationsAreSound'
  PROVE  EvaluationsAreSound
<1>1. /\ evalPc \in [Evaluators -> {"idle", "started", "loaded", "policies", "ended"}]
      /\ seen \in [Evaluators -> BOOLEAN] /\ WorkerEval \in Evaluators
      /\ ending = "evaluate" => evalPc[WorkerEval] = "idle"
  BY VerdictTypes DEF VerdictInv, WorkerEvaluatesOnce
<1> DEFINE Kept(d) == evalPc[d] \in {"policies", "ended"} =>
                        evalPc'[d] \in {"policies", "ended"} /\ seen'[d] = seen[d]
<1>2. contested \subseteq contested' /\ \A d \in Evaluators : Kept(d)
  <2>1. CASE UNCHANGED evalVars
    BY <2>1 DEF evalVars
  <2>2. CASE StartEvaluation
    BY <1>1, <2>2 DEF StartEvaluation, Begin
  <2>3. ASSUME NEW e \in Evaluators,
               \/ Ask(e) \/ LoadEvidence(e) \/ LoadPolicies(e) \/ EvaluationDies(e)
        PROVE  contested \subseteq contested' /\ \A d \in Evaluators : Kept(d)
    BY <1>1, <2>3 DEF Ask, Begin, LoadEvidence, LoadPolicies, Left, EvaluationDies
  <2>4. ASSUME NEW e \in Evaluators,
               \/ InsertResult(e) \/ InsertResultError(e)
               \/ \E p \in Policies : DeleteResult(e, p) \/ DeleteResultError(e, p)
        PROVE  contested \subseteq contested' /\ \A d \in Evaluators : Kept(d)
    BY <1>1, <2>4 DEF InsertResult, InsertResultError, Proceed, Left, DeleteResult,
                      DeleteResultError
  <2>5. CASE VerdictNext
    BY <2>1, <2>2, <2>3, <2>4, <2>5
       DEF VerdictNext, EvaluationStep, StoreEvidence, Complete, FailScan, FailUndispatched,
           FailAtRestart, Cancel, End, EndingDies, CreatePolicy, DeletePolicy
  <2>6. CASE ~ VerdictNext
    BY <2>1, <2>6 DEF Next, vars, verdictVars, QueueCallback, PollerStep, Poll, Claim,
                      ReadPolicies, ReadResults, Post, MarkDelivered, MarkRefused, ClaimError,
                      PostLost, DeliveryError, DeliveryDies, BecomeDue
  <2> QED
    BY <2>5, <2>6
<1> QED
  BY <1>2 DEF EvaluationsAreSound

PassInv == DeliveryInv /\ CountsEnough /\ PassesAre

LEMMA DeservedStays ==
  ASSUME VerdictInv, [Next]_vars, status \in Terminal, PassDeserved
  PROVE  status' \in Terminal /\ PassDeserved'
BY PoliciesOnlyGo, UnsoundStays DEF PassDeserved

LEMMA FewerPolicies ==
  ASSUME TypeOK, NEW S \in SUBSET policies
  PROVE  /\ Cardinality(S) <= Cardinality(policies)
         /\ Cardinality(S) \in Nat /\ Cardinality(policies) \in Nat
<1>1. IsFiniteSet(policies)
  BY VerdictConstants, FS_Subset DEF TypeOK
<1> QED
  BY <1>1, FS_Subset, FS_CardinalityType

LEMMA CountsKept ==
  ASSUME PassInv, [Next]_vars
  PROVE  CountsEnough'
<1> SUFFICES ASSUME NEW r \in Replicas, pc'[r] = "counted"
             PROVE  /\ status' \in Terminal
                    /\ NoArrival' => Cardinality(policies') <= count'[r]
  BY DEF CountsEnough
<1>1. /\ VerdictInv /\ TypeOK /\ CountsEnough
      /\ pc \in [Replicas -> {"idle", "selected"} \cup Delivering]
      /\ count \in [Replicas -> 0 .. Cardinality(Policies)]
  BY DEF PassInv, DeliveryInv, VerdictInv, DeliveryRest, PollerTypes
<1>2. CASE ReadPolicies(r)
  <2>1. status \in Terminal /\ UNCHANGED <<status, policies>> /\ count'[r] = Cardinality(policies)
    BY <1>1, <1>2 DEF ReadPolicies, Release, Goto, verdictVars, scanVars, policyVars
  <2>2. Cardinality(policies) \in Nat
    BY <1>1, FewerPolicies
  <2> QED
    BY <2>1, <2>2
<1>3. CASE pc[r] = "counted" /\ count'[r] = count[r]
  <2>1. status' \in Terminal
    BY <1>1, <1>3, PoliciesOnlyGo DEF CountsEnough
  <2>2. ASSUME NoArrival' PROVE Cardinality(policies') <= count'[r]
    <3>1. NoArrival /\ policies' \subseteq policies
      BY <1>1, <2>2, PoliciesOnlyGo
    <3>2. Cardinality(policies) <= count[r]
      BY <1>1, <1>3, <3>1 DEF CountsEnough
    <3>3. /\ Cardinality(policies') <= Cardinality(policies)
          /\ Cardinality(policies') \in Nat /\ Cardinality(policies) \in Nat
      BY <1>1, <3>1, FewerPolicies
    <3>4. count[r] \in 0 .. Cardinality(Policies) /\ Cardinality(Policies) \in Nat
      BY <1>1, VerdictConstants, FS_CardinalityType
    <3> QED
      BY <1>3, <3>2, <3>3, <3>4
  <2> QED
    BY <2>1, <2>2
<1>4. ReadPolicies(r) \/ (pc[r] = "counted" /\ count'[r] = count[r])
  <2>1. CASE UNCHANGED <<pc, count>>
    BY <2>1
  <2>2. ASSUME NEW q \in Replicas,
               PollerStep(q) \/ ClaimError(q) \/ PostLost(q) \/ DeliveryError(q) \/ DeliveryDies(q)
        PROVE  ReadPolicies(r) \/ (pc[r] = "counted" /\ count'[r] = count[r])
    <3>1. CASE ReadPolicies(q)
      BY <1>1, <3>1 DEF ReadPolicies, Release, Goto
    <3>2. CASE ~ ReadPolicies(q)
      <4>1. /\ UNCHANGED count
            /\ \E label : label # "counted" /\ pc' = [pc EXCEPT ![q] = label]
        BY <2>2, <3>2
           DEF PollerStep, Poll, Claim, ReadResults, Post, MarkDelivered, MarkRefused, ClaimError,
               PostLost, DeliveryError, DeliveryDies, Goto, Release
      <4> QED
        BY <1>1, <4>1
    <3> QED
      BY <3>1, <3>2
  <2> QED
    BY <2>1, <2>2 DEF Next, vars, callbackVars, pollerVars, QueueCallback, BecomeDue
<1> QED
  BY <1>2, <1>3, <1>4

(* The verdict a delivery computes from the count it has read before.      *)
LEMMA ComputedPass ==
  ASSUME PassInv, NEW r \in Replicas, ReadResults(r),
         verdict'[r] = "pass"
  PROVE  status \in Terminal /\ PassDeserved
<1>1. /\ VerdictInv /\ CountsEnough
      /\ count \in [Replicas -> 0 .. Cardinality(Policies)]
      /\ verdict \in [Replicas -> {"pending", "pass", "fail", "error"}]
  BY DEF PassInv, DeliveryInv, DeliveryRest, PollerTypes
<1>2. pc[r] = "counted" /\ ComputeVerdict(status, count[r], PolicyResults) = "pass"
  BY <1>1 DEF ReadResults
<1>3. /\ ~ (Cardinality(PolicyResults) < count[r])
      /\ \A row \in PolicyResults : ~ row.failed
  BY <1>2 DEF ComputeVerdict
<1>4. status \in Terminal /\ (NoArrival => Cardinality(policies) <= count[r])
  BY <1>1, <1>2 DEF CountsEnough
<1>5. count[r] \in Nat
  BY <1>1, VerdictConstants, FS_CardinalityType
<1>6. ASSUME NoArrival, EvaluationsAreSound PROVE policies \cap Failing = {}
  <2>1. \A row \in PolicyResults : seen[row.by]
    <3>1. \A row \in results : row.by \in Evaluators /\ evalPc[row.by] \in {"policies", "ended"}
      BY <1>1 DEF VerdictInv, TypeOK, Result, RowsAreTrue
    <3> QED
      BY <1>6, <3>1 DEF EvaluationsAreSound, PolicyResults
  <2>2. policies \cap contested = {}
    BY <1>6 DEF EvaluationsAreSound
  <2> QED
    BY <1>1, <1>3, <1>4, <1>5, <1>6, <2>1, <2>2, EnoughRows
<1> QED
  BY <1>4, <1>6 DEF PassDeserved

LEMMA PassesKept ==
  ASSUME PassInv, [Next]_vars
  PROVE  PassesAre'
<1> DEFINE Deserved == status \in Terminal /\ PassDeserved
<1>1. /\ VerdictInv /\ PassesAre
      /\ verdict \in [Replicas -> {"pending", "pass", "fail", "error"}]
  BY DEF PassInv, DeliveryInv, DeliveryRest, PollerTypes
<1>2. Deserved => Deserved'
  BY <1>1, DeservedStays
<1>3. \/ UNCHANGED <<verdict, posted>>
      \/ \E q \in Replicas :
            \/ ReadResults(q)
            \/ posted' \subseteq posted \cup {verdict[q]} /\ UNCHANGED verdict
  BY DEF Next, vars, callbackVars, pollerVars, QueueCallback, BecomeDue, PollerStep, Poll, Claim,
         ReadPolicies, Post, PostLost, MarkDelivered, MarkRefused, ClaimError, DeliveryError,
         DeliveryDies
<1>4. CASE UNCHANGED <<verdict, posted>>
  BY <1>1, <1>2, <1>4 DEF PassesAre
<1>5. ASSUME NEW q \in Replicas, ReadResults(q)
      PROVE  PassesAre'
  <2>1. UNCHANGED posted /\ \A r \in Replicas \ {q} : verdict'[r] = verdict[r]
    BY <1>1, <1>5 DEF ReadResults
  <2>2. verdict'[q] = "pass" => Deserved
    BY <1>5, ComputedPass
  <2> QED
    BY <1>1, <1>2, <2>1, <2>2 DEF PassesAre
<1>6. ASSUME NEW q \in Replicas, posted' \subseteq posted \cup {verdict[q]}, UNCHANGED verdict
      PROVE  PassesAre'
  BY <1>1, <1>2, <1>6 DEF PassesAre
<1> QED
  BY <1>3, <1>4, <1>5, <1>6

(* No pass is undeserved, neither where the status endpoint computes it,   *)
(* nor where a delivery posts it that had counted the policies before      *)
(* others were deleted and read the results after (deliverCallback,        *)
(* ComputeVerdict, loadPolicyResults), unless an evaluation had not seen   *)
(* the evidence or two of them came to one policy at once.                 *)
THEOREM PostedPassesAreDeserved == Spec => []PassesAreDeserved
<1>1. Init => PassInv
  <2> SUFFICES ASSUME Init PROVE PassInv
    OBVIOUS
  <2>1. DeliveryInv
    BY DeliveryStarts
  <2>2. CountsEnough /\ PassesAre
    BY DEF Init, CountsEnough, PassesAre
  <2> QED
    BY <2>1, <2>2 DEF PassInv
<1>2. PassInv /\ [Next]_vars => PassInv'
  <2> SUFFICES ASSUME PassInv, [Next]_vars PROVE PassInv'
    OBVIOUS
  <2>1. DeliveryInv'
    BY DeliveryKept DEF PassInv
  <2> QED
    BY <2>1, CountsKept, PassesKept DEF PassInv
<1>3. PassInv => PassesAreDeserved
  <2> SUFFICES ASSUME PassInv PROVE PassesAreDeserved
    OBVIOUS
  <2>1. PassIsDeserved
    BY PassFollows DEF PassInv, DeliveryInv
  <2>2. PostedPassIsDeserved
    BY DEF PassInv, PassesAre, PassDeserved, NoArrival, PostedPassIsDeserved
  <2> QED
    BY <2>1, <2>2 DEF PassesAreDeserved
<1> QED
  BY <1>1, <1>2, <1>3, PTL DEF Spec
=============================================================================
