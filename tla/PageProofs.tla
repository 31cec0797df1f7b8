----------------------------- MODULE PageProofs -----------------------------
(***************************************************************************)
(* Proofs about the pages of the web frontend, for any number of           *)
(* conversations, findings, registries, jobs, scans, deliveries and        *)
(* requests: page by page, and of the tab that composes them               *)
(* (FrontendPages).                                                        *)
(***************************************************************************)
EXTENDS FrontendPages, FiniteSetTheorems, WellFoundedInduction, TLAPS

(* The status and the policies of a scan *)

(* As long as nothing was edited, the server's results only grow, and what *)
(* the page shows, an answer of the current request or the server has is   *)
(* each contained in the next.                                             *)
ResultsGrow ==
    edited = 0 =>
        /\ edits = {} /\ compliance \subseteq results
        /\ complianceRequest # NoRequest /\ complianceRequest.phase = "answered" =>
             /\ compliance \subseteq complianceRequest.orgs
             /\ complianceRequest.orgs \subseteq results

ResultsInv == edited \in Nat /\ ResultsGrow

LEMMA ResultsInitInv == ScanPageInit => ResultsInv
BY DEF ScanPageInit, ResultsInv, ResultsGrow

(* A step that leaves the compliance results alone, or sends a request.    *)
LEMMA ResultsStay ==
  ASSUME ResultsInv, UNCHANGED <<edited, edits, compliance>>, results \subseteq results',
         \/ UNCHANGED complianceRequest \/ complianceRequest' = NoRequest
         \/ complianceRequest'.phase = "sent"
  PROVE  ResultsInv'
BY DEF ResultsInv, ResultsGrow

LEMMA ScanPageNextInv ==
  ASSUME ResultsInv, [ScanPageNext]_scanPageVars
  PROVE  ResultsInv' /\ (edited' = 0 => compliance \subseteq compliance')
<1>1. ASSUME UNCHANGED <<edited, edits, compliance>>, results \subseteq results',
             \/ UNCHANGED complianceRequest \/ complianceRequest' = NoRequest
             \/ complianceRequest'.phase = "sent"
      PROVE  ResultsInv' /\ (edited' = 0 => compliance \subseteq compliance')
  BY <1>1, ResultsStay
<1>2. CASE \/ UNCHANGED scanPageVars \/ RefreshActiveScan \/ ScanAnswered \/ ScanLoadFails
           \/ HandleCancel \/ CancelAnswered \/ CancelShown
           \/ \E status \in {"completed", "failed"} : ScanEnds(status)
  <2>1. UNCHANGED <<results, edited, edits, compliance, complianceRequest>>
    BY <1>2 DEF scanPageVars, RefreshActiveScan, ScanAnswered, ScanLoadFails, HandleCancel,
                CancelAnswered, CancelShown, ScanEnds, serverSide, shownCompliance
  <2> QED
    BY <1>1, <2>1
<1>3. ASSUME NEW org \in Orgs, PolicyEvaluated(org)
      PROVE  ResultsInv' /\ (edited' = 0 => compliance \subseteq compliance')
  BY <1>1, <1>3 DEF PolicyEvaluated, shownCompliance
<1>4. CASE ScanLoaded
  <2>1. /\ UNCHANGED <<results, edited, edits, compliance>>
        /\ \/ UNCHANGED complianceRequest
           \/ complianceRequest' = [phase |-> "sent", tick |-> FALSE]
    BY <1>4 DEF ScanLoaded, serverSide, LoadCompliance
  <2> QED
    BY <1>1, <2>1
<1>5. CASE SettleTick
  <2>1. /\ UNCHANGED <<results, edited, edits, compliance>>
        /\ complianceRequest' = [phase |-> "sent", tick |-> TRUE]
    BY <1>5 DEF SettleTick, serverSide, LoadCompliance
  <2> QED
    BY <1>1, <2>1
<1>6. CASE ComplianceAnswered
  <2>1. /\ UNCHANGED <<results, edited, edits, compliance>>
        /\ complianceRequest' = [phase |-> "answered", tick |-> complianceRequest.tick,
                                 orgs |-> results]
    BY <1>6 DEF ComplianceAnswered, serverSide
  <2>2. complianceRequest'.orgs = results
    BY <2>1
  <2> QED
    BY <2>1, <2>2 DEF ResultsInv, ResultsGrow
<1>7. CASE ComplianceLoaded
  <2>1. /\ UNCHANGED <<results, edited, edits>> /\ complianceRequest # NoRequest
        /\ complianceRequest.phase = "answered" /\ compliance' = complianceRequest.orgs
        /\ complianceRequest' = NoRequest
    BY <1>7 DEF ComplianceLoaded, serverSide
  <2> QED
    BY <2>1 DEF ResultsInv, ResultsGrow
<1>8. CASE ComplianceLoadFails
  BY <1>1, <1>8 DEF ComplianceLoadFails, serverSide
<1>9. ASSUME NEW r \in superseded, SupersededDiscarded(r)
      PROVE  ResultsInv' /\ (edited' = 0 => compliance \subseteq compliance')
  BY <1>1, <1>9 DEF SupersededDiscarded, serverSide
<1>10. ASSUME NEW kind, NEW org, EditCompliance(kind, org)
       PROVE  ResultsInv' /\ (edited' = 0 => compliance \subseteq compliance')
  <2>1. edited' = edited + 1
    BY <1>10 DEF EditCompliance
  <2>2. edited' \in Nat /\ edited' # 0
    BY <2>1 DEF ResultsInv
  <2> QED
    BY <2>2 DEF ResultsInv, ResultsGrow
<1>11. ASSUME NEW e \in edits, EditAnswered(e) \/ EditFails(e) \/ EditShown(e)
       PROVE  ResultsInv' /\ (edited' = 0 => compliance \subseteq compliance')
  <2>1. edited' = edited
    BY <1>11 DEF EditAnswered, EditFails, EditShown
  <2>2. edited # 0
    BY <1>11 DEF ResultsInv, ResultsGrow
  <2> QED
    BY <2>1, <2>2 DEF ResultsInv, ResultsGrow
<1>12. CASE \E e \in edits : EditAnswered(e) \/ EditFails(e) \/ EditShown(e)
  BY <1>11, <1>12
<1>13. CASE \E kind \in {"assign", "remove", "evaluate"}, org \in Orgs : EditCompliance(kind, org)
  BY <1>10, <1>13
<1> QED
  BY <1>2, <1>3, <1>4, <1>5, <1>6, <1>7, <1>8, <1>9, <1>12, <1>13
     DEF ScanPageNext, StatusPolling, ComplianceLoading

(* As long as the user edits no assignment, results that were shown stay,  *)
(* for any organizations and however many requests supersede each other    *)
(* (complianceRequestRef, scans/[id]/page.tsx).                            *)
THEOREM ResultsNeverGoBack == ScanPageSpec => ResultsDoNotGoBack
<1>1. ScanPageInit => ResultsInv
  BY ResultsInitInv
<1>2. ResultsInv /\ [ScanPageNext]_scanPageVars => ResultsInv'
  BY ScanPageNextInv
<1>3. ResultsInv /\ [ScanPageNext]_scanPageVars
        => [edited' = 0 => compliance \subseteq compliance']_scanPageVars
  BY ScanPageNextInv
<1> QED
  BY <1>1, <1>2, <1>3, PTL DEF ScanPageSpec, ResultsDoNotGoBack

-----------------------------------------------------------------------------
(* The requests of the scan page and its wait for the policies *)

EditKinds == {"assign", "remove", "evaluate"}
EditRequest ==
    [kind : EditKinds, org : Orgs, phase : {"sent"}]
      \cup [kind : EditKinds, org : Orgs, phase : {"answered"}, orgs : SUBSET Orgs]

EditsInv == edits \subseteq EditRequest /\ \A e \in edits : e.kind = "remove" => e.org # FirstOrg

ServerInv ==
    /\ scanStatus \in ScanStatus
    /\ FirstOrg \in assigned /\ assigned \subseteq Orgs /\ results \subseteq assigned

(* A tick whose load has not ended. *)
TickUnderWay ==
    \/ complianceRequest # NoRequest /\ complianceRequest.tick
    \/ \E r \in superseded : r.tick

SupersededAnswer == [phase : {"answered"}, tick : BOOLEAN, orgs : SUBSET Orgs]

LoadsInv ==
    /\ compliance \subseteq Orgs
    /\ complianceRequest \in ComplianceRequest \cup {NoRequest}
    /\ superseded \subseteq SupersededAnswer

(* While the page waits for the policies its scan has completed, no poll   *)
(* of a running scan is left, and the load of the last tick is under way:  *)
(* when it ends, the wait ends.                                            *)
WaitIsBounded ==
    interval =>
        /\ policySettling /\ scan = "completed"
        /\ scanRequest # NoRequest => ~scanRequest.polled
        /\ ticks <= MaxTicks
        /\ ticks = MaxTicks => TickUnderWay

SettleInv ==
    /\ scan \in {"none"} \cup ScanStatus
    /\ scanRequest \in ScanRequest \cup {NoRequest}
    /\ ticks \in 0 .. MaxTicks + 1
    /\ interval \in BOOLEAN /\ policySettling \in BOOLEAN
    /\ WaitIsBounded

ScanBudgets ==
    /\ cancellingScan \in {"no", "sent", "accepted"}
    /\ edited \in 0 .. MaxEdits /\ lostAnswers \in 0 .. MaxLosses

ScanTypeInv == ServerInv /\ EditsInv /\ LoadsInv /\ SettleInv /\ ScanBudgets

LEMMA ScanTypesHold == ScanTypeInv => ScanPageTypeOK
BY DEF ScanTypeInv, ServerInv, LoadsInv, SettleInv, WaitIsBounded, ScanBudgets, ScanPageTypeOK

LEMMA ScanTypeInitInv == ScanPageInit => ScanTypeInv
<1> SUFFICES ASSUME ScanPageInit PROVE ScanTypeInv
  OBVIOUS
<1> USE ScanPageConstants DEF ScanPageInit
<1>1. MaxTicks \in Nat /\ MaxEdits \in Nat /\ MaxLosses \in Nat /\ FirstOrg \in Orgs
  OBVIOUS
<1>2. ServerInv /\ EditsInv /\ ScanBudgets
  BY <1>1 DEF ServerInv, EditsInv, ScanBudgets, ScanStatus
<1>3. LoadsInv
  BY DEF LoadsInv, ComplianceRequest
<1>4. SettleInv
  <2>1. scanRequest \in ScanRequest
    BY DEF ScanRequest
  <2>2. ticks \in 0 .. MaxTicks + 1
    BY <1>1
  <2> QED
    BY <2>1, <2>2 DEF SettleInv, WaitIsBounded
<1> QED
  BY <1>2, <1>3, <1>4 DEF ScanTypeInv

-----------------------------------------------------------------------------
(* The server's steps leave what the page has loaded alone. *)
LEMMA ScanServerSteps ==
  ASSUME ServerInv,
         \/ \E status \in {"completed", "failed"} : ScanEnds(status)
         \/ \E org \in Orgs : PolicyEvaluated(org)
         \/ CancelAnswered
  PROVE  ServerInv'
BY DEF ServerInv, ScanStatus, ScanEnd, ScanEnds, PolicyEvaluated, CancelAnswered

LEMMA SettleAlone ==
  ASSUME SettleInv, UNCHANGED <<scan, scanRequest, shownCompliance, settleVars>>
  PROVE  SettleInv'
BY DEF SettleInv, WaitIsBounded, TickUnderWay, shownCompliance, settleVars

LEMMA LoadsAlone ==
  ASSUME LoadsInv, UNCHANGED shownCompliance
  PROVE  LoadsInv' /\ TickUnderWay' = TickUnderWay
BY DEF LoadsInv, TickUnderWay, shownCompliance

LEMMA AnsweredLoad ==
  ASSUME LoadsInv, complianceRequest # NoRequest
  PROVE  /\ complianceRequest \in ComplianceRequest /\ complianceRequest.tick \in BOOLEAN
         /\ complianceRequest.phase = "answered" => complianceRequest \in SupersededAnswer
BY DEF LoadsInv, ComplianceRequest, SupersededAnswer

(* The wait goes on only if a tick that ended was not the last one. *)
LEMMA TickOver ==
  ASSUME SettleInv, NEW tick \in BOOLEAN, NEW found, NEW count \in Nat, TickEnds(tick, found, count)
  PROVE  /\ interval' \in BOOLEAN /\ policySettling' \in BOOLEAN
         /\ interval' => interval /\ policySettling' /\ ~(tick /\ count >= MaxTicks)
<1>1. CASE tick /\ ((found /\ count >= MinTicks) \/ count >= MaxTicks)
  BY <1>1 DEF TickEnds, FinishSettling
<1>2. CASE ~(tick /\ ((found /\ count >= MinTicks) \/ count >= MaxTicks))
  BY <1>2 DEF TickEnds, SettleInv, WaitIsBounded
<1> QED
  BY <1>1, <1>2

LEMMA TickCount == SettleInv => ticks \in Nat
BY ScanPageConstants DEF SettleInv

(* A load that ends leaves another tick under way, or it ends the wait. *)
LEMMA LoadEnds ==
  ASSUME SettleInv, NEW tick \in BOOLEAN, NEW found, TickEnds(tick, found, ticks),
         UNCHANGED <<scan, scanRequest, ticks>>,
         TickUnderWay /\ ~tick => TickUnderWay'
  PROVE  SettleInv'
<1>1. /\ interval' \in BOOLEAN /\ policySettling' \in BOOLEAN
      /\ interval' => interval /\ policySettling' /\ ~(tick /\ ticks >= MaxTicks)
  BY TickOver, TickCount
<1>2. MaxTicks \in Nat
  BY ScanPageConstants
<1>3. WaitIsBounded'
  BY <1>1, <1>2 DEF SettleInv, WaitIsBounded
<1> QED
  BY <1>1, <1>3 DEF SettleInv

(* Sending a load supersedes the answer of the one before. *)
LEMMA LoadComplianceKeeps ==
  ASSUME LoadsInv, NEW tick \in BOOLEAN, LoadCompliance(tick)
  PROVE  /\ complianceRequest' \in ComplianceRequest
         /\ superseded \subseteq superseded' /\ superseded' \subseteq SupersededAnswer
         /\ TickUnderWay /\ ~AbortedTick => TickUnderWay'
<1>1. complianceRequest' \in ComplianceRequest
  BY DEF LoadCompliance, ComplianceRequest
<1>2. superseded \subseteq superseded'
  BY DEF LoadCompliance
<1>3. superseded' \subseteq SupersededAnswer
  BY AnsweredLoad DEF LoadCompliance, LoadsInv
<1>4. TickUnderWay /\ ~AbortedTick => TickUnderWay'
  BY <1>2 DEF TickUnderWay, AbortedTick
<1> QED
  BY <1>1, <1>2, <1>3, <1>4

LEMMA LoadScanKeeps ==
  ASSUME SettleInv, NEW polled \in BOOLEAN, LoadScan(polled)
  PROVE  /\ scanRequest' \in ScanRequest
         /\ ~polled /\ (scanRequest # NoRequest => ~scanRequest.polled) => ~scanRequest'.polled
<1>1. CASE scanRequest = NoRequest
  BY <1>1 DEF LoadScan, ScanRequest
<1>2. CASE scanRequest # NoRequest
  <2>1. scanRequest' = [scanRequest EXCEPT !.polled = scanRequest.polled \/ polled]
    BY <1>2 DEF LoadScan
  <2>2. scanRequest \in ScanRequest
    BY <1>2 DEF SettleInv
  <2>3. CASE scanRequest \in [phase : {"sent"}, polled : BOOLEAN]
    BY <1>2, <2>1, <2>3 DEF ScanRequest
  <2>4. CASE scanRequest \in [phase : {"answered"}, polled : BOOLEAN, status : ScanStatus]
    BY <1>2, <2>1, <2>4 DEF ScanRequest
  <2> QED
    BY <2>2, <2>3, <2>4 DEF ScanRequest
<1> QED
  BY <1>1, <1>2
-----------------------------------------------------------------------------
(* A new scan object starts the wait anew, ends it or leaves it alone. *)
LEMMA SetScanKeeps ==
  ASSUME SettleInv, NEW status \in ScanStatus, SetScan(status),
         scanRequest' \in ScanRequest \cup {NoRequest},
         status = "completed" => scanRequest' = NoRequest,
         interval /\ status = "completed" /\ TickUnderWay => TickUnderWay'
  PROVE  SettleInv'
<1>1. MaxTicks \in Nat /\ MaxTicks # 0
  BY ScanPageConstants
<1>2. CASE scan = status
  <2>1. scan' = status /\ UNCHANGED <<interval, ticks, policySettling>>
    BY <1>2 DEF SetScan, settleVars
  <2> QED
    BY <1>2, <2>1 DEF SettleInv, WaitIsBounded
<1>3. CASE scan # status /\ scan = "active" /\ status = "completed"
  <2>1. scan' = "completed" /\ interval' = TRUE /\ policySettling' = TRUE /\ ticks' = 0
    BY <1>3 DEF SetScan
  <2>2. scanRequest' = NoRequest
    BY <1>3
  <2> QED
    BY <1>1, <2>1, <2>2 DEF SettleInv, WaitIsBounded, ScanStatus, ScanEnd
<1>4. CASE scan # status /\ ~(scan = "active" /\ status = "completed")
  <2>1. scan' = status /\ interval' = FALSE /\ UNCHANGED <<ticks, policySettling>>
    BY <1>4 DEF SetScan
  <2> QED
    BY <2>1 DEF SettleInv, WaitIsBounded
<1> QED
  BY <1>2, <1>3, <1>4
LEMMA ScanLoadedKeeps ==
  ASSUME SettleInv, LoadsInv, ScanLoaded
  PROVE  SettleInv' /\ LoadsInv'
<1>1. /\ scanRequest # NoRequest /\ scanRequest.phase = "answered" /\ SetScan(scanRequest.status)
      /\ scanRequest' = NoRequest /\ UNCHANGED compliance
  BY DEF ScanLoaded
<1>2. scanRequest.status \in ScanStatus
  BY <1>1 DEF SettleInv, ScanRequest
<1>3. CASE scanRequest.polled /\ scanRequest.status \in {"completed", "failed"}
  <2>1. LoadCompliance(FALSE)
    BY <1>3 DEF ScanLoaded
  <2>2. LoadsInv'
    BY <1>1, <2>1, LoadComplianceKeeps DEF LoadsInv
  <2>3. interval = FALSE
    BY <1>1, <1>3 DEF SettleInv, WaitIsBounded
  <2>4. SettleInv'
    BY <1>1, <1>2, <2>3, SetScanKeeps
  <2> QED
    BY <2>2, <2>4
<1>4. CASE ~(scanRequest.polled /\ scanRequest.status \in {"completed", "failed"})
  <2>1. UNCHANGED <<complianceRequest, superseded>>
    BY <1>4 DEF ScanLoaded
  <2>2. LoadsInv' /\ TickUnderWay' = TickUnderWay
    BY <1>1, <2>1, LoadsAlone DEF shownCompliance
  <2> QED
    BY <1>1, <1>2, <2>2, SetScanKeeps
<1> QED
  BY <1>3, <1>4

(* Polls, their answers and the user's cancellation. *)
LEMMA PollsKeep ==
  ASSUME SettleInv, ServerInv, ScanBudgets, LoadsInv,
         RefreshActiveScan \/ ScanAnswered \/ ScanLoadFails \/ CancelShown
  PROVE  SettleInv' /\ ScanBudgets'
<1>1. CASE RefreshActiveScan
  <2>1. /\ scan = "active" /\ LoadScan(TRUE)
        /\ UNCHANGED <<scan, settleVars, cancellingScan, edited, lostAnswers>>
    BY <1>1 DEF RefreshActiveScan
  <2>2. interval = FALSE /\ scanRequest' \in ScanRequest
    BY <2>1, LoadScanKeeps DEF SettleInv, WaitIsBounded
  <2> QED
    BY <2>1, <2>2 DEF SettleInv, WaitIsBounded, settleVars, ScanBudgets
<1>2. CASE ScanAnswered
  <2>1. /\ scanRequest # NoRequest
        /\ scanRequest' = [phase |-> "answered", polled |-> scanRequest.polled, status |-> scanStatus]
        /\ UNCHANGED <<scan, shownCompliance, settleVars, cancellingScan, edited, lostAnswers>>
    BY <1>2 DEF ScanAnswered
  <2>2. scanRequest.polled \in BOOLEAN /\ scanRequest'.polled = scanRequest.polled
    BY <2>1 DEF SettleInv, ScanRequest
  <2>3. scanRequest' \in ScanRequest
    BY <2>1, <2>2 DEF ScanRequest, ServerInv
  <2>4. TickUnderWay' = TickUnderWay
    BY <2>1, LoadsAlone
  <2> QED
    BY <2>1, <2>2, <2>3, <2>4 DEF SettleInv, WaitIsBounded, settleVars, ScanBudgets
<1>3. CASE ScanLoadFails
  <2>1. /\ scanRequest' = NoRequest /\ lostAnswers < MaxLosses /\ lostAnswers' = lostAnswers + 1
        /\ UNCHANGED <<scan, shownCompliance, settleVars, cancellingScan, edited>>
    BY <1>3 DEF ScanLoadFails
  <2>2. TickUnderWay' = TickUnderWay
    BY <2>1, LoadsAlone
  <2>3. MaxLosses \in Nat
    BY ScanPageConstants
  <2>4. ScanBudgets'
    BY <2>1, <2>3 DEF ScanBudgets
  <2> QED
    BY <2>1, <2>2, <2>4 DEF SettleInv, WaitIsBounded, settleVars
<1>4. CASE CancelShown
  <2>1. /\ SetScan("cancelled") /\ LoadScan(FALSE) /\ cancellingScan' = "no"
        /\ UNCHANGED <<edited, lostAnswers>>
    BY <1>4 DEF CancelShown
  <2>2. SettleInv'
    BY <2>1, LoadScanKeeps, SetScanKeeps DEF ScanStatus, ScanEnd
  <2> QED
    BY <2>1, <2>2 DEF ScanBudgets
<1> QED
  BY <1>1, <1>2, <1>3, <1>4

(* The load ends: it is answered, shown or fails. *)
LEMMA AnswersKeep ==
  ASSUME SettleInv, LoadsInv, ServerInv, ScanBudgets,
         ComplianceAnswered \/ ComplianceLoaded \/ ComplianceLoadFails
  PROVE  SettleInv' /\ LoadsInv' /\ ScanBudgets'
<1>1. /\ complianceRequest # NoRequest
      /\ complianceRequest \in ComplianceRequest /\ complianceRequest.tick \in BOOLEAN
  BY AnsweredLoad DEF ComplianceAnswered, ComplianceLoaded, ComplianceLoadFails
<1>2. CASE ComplianceAnswered
  <2>1. /\ complianceRequest' = [phase |-> "answered", tick |-> complianceRequest.tick,
                                 orgs |-> results]
        /\ UNCHANGED <<scan, scanRequest, compliance, superseded, settleVars, cancellingScan,
                       edited, lostAnswers>>
    BY <1>2 DEF ComplianceAnswered
  <2>2. /\ complianceRequest' \in ComplianceRequest
        /\ complianceRequest'.tick = complianceRequest.tick
    BY <1>1, <2>1 DEF ComplianceRequest, ServerInv
  <2>3. complianceRequest' # NoRequest
    BY <2>2, ScanPageConstants
  <2>4. TickUnderWay => TickUnderWay'
    BY <2>1, <2>2, <2>3 DEF TickUnderWay
  <2>5. SettleInv'
    BY <2>1, <2>4 DEF SettleInv, WaitIsBounded, settleVars
  <2> QED
    BY <2>1, <2>2, <2>5 DEF LoadsInv, ScanBudgets
<1>3. CASE ComplianceLoaded
  <2>1. /\ complianceRequest.phase = "answered" /\ compliance' = complianceRequest.orgs
        /\ TickEnds(complianceRequest.tick, complianceRequest.orgs # {}, ticks)
        /\ complianceRequest' = NoRequest
        /\ UNCHANGED <<scan, scanRequest, superseded, ticks, cancellingScan, edited, lostAnswers>>
    BY <1>3 DEF ComplianceLoaded
  <2>2. complianceRequest.orgs \subseteq Orgs
    BY <1>1, <2>1 DEF ComplianceRequest
  <2>3. TickUnderWay /\ ~complianceRequest.tick => TickUnderWay'
    BY <2>1 DEF TickUnderWay
  <2>4. SettleInv'
    BY <1>1, <2>1, <2>3, LoadEnds
  <2> QED
    BY <2>1, <2>2, <2>4 DEF LoadsInv, ScanBudgets
<1>4. CASE ComplianceLoadFails
  <2>1. /\ lostAnswers < MaxLosses /\ lostAnswers' = lostAnswers + 1
        /\ TickEnds(complianceRequest.tick, FALSE, ticks) /\ complianceRequest' = NoRequest
        /\ UNCHANGED <<scan, scanRequest, compliance, superseded, ticks, cancellingScan, edited>>
    BY <1>4 DEF ComplianceLoadFails
  <2>2. TickUnderWay /\ ~complianceRequest.tick => TickUnderWay'
    BY <2>1 DEF TickUnderWay
  <2>3. SettleInv'
    BY <1>1, <2>1, <2>2, LoadEnds
  <2>4. MaxLosses \in Nat
    BY ScanPageConstants
  <2>5. ScanBudgets'
    BY <2>1, <2>4 DEF ScanBudgets
  <2> QED
    BY <2>1, <2>3, <2>5 DEF LoadsInv
<1> QED
  BY <1>2, <1>3, <1>4

LEMMA DiscardKeeps ==
  ASSUME SettleInv, LoadsInv, ScanBudgets, NEW r \in superseded, SupersededDiscarded(r)
  PROVE  SettleInv' /\ LoadsInv' /\ ScanBudgets'
<1>1. /\ superseded' = superseded \ {r} /\ TickEnds(r.tick, r.orgs # {}, ticks)
      /\ UNCHANGED <<scan, scanRequest, compliance, complianceRequest, ticks, cancellingScan,
                     edited, lostAnswers>>
  BY DEF SupersededDiscarded
<1>2. r.tick \in BOOLEAN
  BY DEF LoadsInv, SupersededAnswer
<1>3. TickUnderWay /\ ~r.tick => TickUnderWay'
  BY <1>1 DEF TickUnderWay
<1>4. SettleInv'
  BY <1>1, <1>2, <1>3, LoadEnds
<1> QED
  BY <1>1, <1>4 DEF LoadsInv, ScanBudgets

(* A tick aborts the load of the one before; that of the last tick ends    *)
(* the wait this way at the latest.                                        *)
LEMMA SettleTickKeeps ==
  ASSUME SettleInv, LoadsInv, SettleTick
  PROVE  SettleInv' /\ LoadsInv'
<1>1. /\ interval /\ superseded = {} /\ ticks' = ticks + 1
      /\ LoadScan(FALSE) /\ LoadCompliance(TRUE) /\ TickEnds(AbortedTick, FALSE, ticks')
      /\ UNCHANGED <<scan, compliance>>
  BY DEF SettleTick
<1>2. MaxTicks \in Nat /\ ticks \in Nat
  BY ScanPageConstants, TickCount
<1>3. /\ policySettling /\ scan = "completed" /\ ticks <= MaxTicks
      /\ scanRequest # NoRequest => ~scanRequest.polled
      /\ ticks = MaxTicks => TickUnderWay
  BY <1>1 DEF SettleInv, WaitIsBounded
<1>4. /\ complianceRequest' = [phase |-> "sent", tick |-> TRUE] /\ superseded' = {}
      /\ complianceRequest' \in ComplianceRequest
  BY <1>1 DEF LoadCompliance, ComplianceRequest
<1>5. TickUnderWay'
  <2>1. complianceRequest' # NoRequest
    BY <1>4, ScanPageConstants
  <2> QED
    BY <1>4, <2>1 DEF TickUnderWay
<1>6. AbortedTick \in BOOLEAN
  BY Zenon DEF AbortedTick
<1>7. PICK over \in BOOLEAN : over = AbortedTick
  BY <1>6
<1>8. /\ interval' \in BOOLEAN /\ policySettling' \in BOOLEAN
      /\ interval' => interval /\ policySettling' /\ ~(over /\ ticks + 1 >= MaxTicks)
  <2>1. TickEnds(over, FALSE, ticks')
    BY <1>1, <1>7 DEF TickEnds
  <2>2. ticks' \in Nat
    BY <1>1, <1>2
  <2> QED
    BY <1>1, <2>1, <2>2, TickOver
<1>9. ticks = MaxTicks => over
  BY <1>1, <1>3, <1>4, <1>7 DEF TickUnderWay, AbortedTick
<1>10. /\ scanRequest' \in ScanRequest
       /\ scanRequest' # NoRequest => ~scanRequest'.polled
  BY <1>1, <1>3, LoadScanKeeps
<1>11. interval' => ticks' <= MaxTicks
  BY <1>1, <1>2, <1>3, <1>8, <1>9
<1>12. ticks' \in 0 .. MaxTicks + 1
  BY <1>1, <1>2, <1>3
<1>13. SettleInv'
  BY <1>1, <1>3, <1>5, <1>8, <1>10, <1>11, <1>12 DEF SettleInv, WaitIsBounded
<1> QED
  BY <1>1, <1>4, <1>13 DEF LoadsInv
-----------------------------------------------------------------------------
(* The user *)

LEMMA EditSteps ==
  ASSUME EditsInv, ServerInv, ScanBudgets,
         \/ \E kind \in EditKinds, org \in Orgs : EditCompliance(kind, org)
         \/ \E e \in edits : EditAnswered(e) \/ EditFails(e)
  PROVE  EditsInv' /\ ServerInv' /\ ScanBudgets'
<1>1. MaxEdits \in Nat /\ MaxLosses \in Nat
  BY ScanPageConstants
<1>2. ASSUME NEW kind \in EditKinds, NEW org \in Orgs, EditCompliance(kind, org)
      PROVE  EditsInv' /\ ServerInv' /\ ScanBudgets'
  <2> DEFINE e == [kind |-> kind, org |-> org, phase |-> "sent"]
  <2>1. /\ edits' = edits \cup {e} /\ edited < MaxEdits /\ edited' = edited + 1
        /\ UNCHANGED <<serverSide, cancellingScan, lostAnswers>>
        /\ kind = "remove" => org # FirstOrg
    BY <1>2 DEF EditCompliance
  <2>2. e \in EditRequest /\ e.kind = kind /\ e.org = org
    BY DEF EditRequest
  <2>3. EditsInv'
    BY <2>1, <2>2 DEF EditsInv
  <2> QED
    BY <1>1, <2>1, <2>3 DEF ServerInv, serverSide, ScanBudgets
<1>3. ASSUME NEW e \in edits, EditAnswered(e) \/ EditFails(e)
      PROVE  EditsInv' /\ ServerInv' /\ ScanBudgets'
  <2>1. e \in EditRequest /\ (e.kind = "remove" => e.org # FirstOrg)
    BY DEF EditsInv
  <2>2. e.kind \in EditKinds /\ e.org \in Orgs
    BY <2>1 DEF EditRequest
  <2>3. ASSUME NEW known \in SUBSET Orgs,
               edits' = (edits \ {e}) \cup
                 {[kind |-> e.kind, org |-> e.org, phase |-> "answered", orgs |-> known]}
        PROVE  EditsInv'
    <3> DEFINE a == [kind |-> e.kind, org |-> e.org, phase |-> "answered", orgs |-> known]
    <3>1. a \in EditRequest /\ a.kind = e.kind /\ a.org = e.org
      BY <2>2 DEF EditRequest
    <3> QED
      BY <2>1, <2>3, <3>1 DEF EditsInv
  <2>4. CASE EditAnswered(e)
    <3>1. ServerInv'
      BY <2>1, <2>2, <2>4 DEF EditAnswered, ServerInv
    <3>2. results' \in SUBSET Orgs
      BY <3>1 DEF ServerInv
    <3>3. EditsInv'
      BY <2>3, <2>4, <3>2 DEF EditAnswered
    <3> QED
      BY <2>4, <3>1, <3>3 DEF EditAnswered, ScanBudgets
  <2>5. CASE EditFails(e)
    <3>1. {} \in SUBSET Orgs
      OBVIOUS
    <3>2. EditsInv'
      BY <2>3, <2>5, <3>1 DEF EditFails
    <3>3. /\ lostAnswers < MaxLosses /\ lostAnswers' = lostAnswers + 1
          /\ UNCHANGED <<serverSide, cancellingScan, edited>>
      BY <2>5 DEF EditFails
    <3> QED
      BY <1>1, <3>2, <3>3 DEF ServerInv, serverSide, ScanBudgets
  <2> QED
    BY <1>3, <2>4, <2>5
<1> QED
  BY <1>2, <1>3

LEMMA EditShownKeeps ==
  ASSUME SettleInv, LoadsInv, EditsInv, NEW e \in edits, EditShown(e)
  PROVE  SettleInv' /\ LoadsInv' /\ EditsInv'
<1>1. e.phase = "answered" /\ edits' = edits \ {e} /\ UNCHANGED <<scan, scanRequest, ticks>>
  BY DEF EditShown
<1>2. EditsInv'
  BY <1>1 DEF EditsInv
<1>3. CASE e.kind = "assign"
  <2>1. LoadCompliance(FALSE) /\ TickEnds(AbortedTick, FALSE, ticks) /\ UNCHANGED compliance
    BY <1>3 DEF EditShown
  <2>2. PICK over \in BOOLEAN : over = AbortedTick
    <3>1. AbortedTick \in BOOLEAN
      BY Zenon DEF AbortedTick
    <3> QED
      BY <3>1
  <2>3. TickEnds(over, FALSE, ticks)
    BY <2>1, <2>2 DEF TickEnds
  <2>4. TickUnderWay /\ ~over => TickUnderWay'
    BY <2>1, <2>2, LoadComplianceKeeps
  <2>5. SettleInv'
    BY <1>1, <2>3, <2>4, LoadEnds
  <2>6. LoadsInv'
    BY <2>1, LoadComplianceKeeps DEF LoadsInv
  <2> QED
    BY <1>2, <2>5, <2>6
<1>4. CASE e.kind # "assign"
  <2>1. /\ compliance' = IF e.kind = "remove" THEN compliance \ {e.org} ELSE e.orgs
        /\ UNCHANGED <<complianceRequest, superseded, interval, policySettling>>
    BY <1>4 DEF EditShown
  <2>2. e.orgs \subseteq Orgs
    BY <1>1 DEF EditsInv, EditRequest
  <2>3. LoadsInv'
    BY <2>1, <2>2 DEF LoadsInv
  <2>4. TickUnderWay' = TickUnderWay
    BY <2>1 DEF TickUnderWay
  <2>5. SettleInv'
    BY <1>1, <2>1, <2>4 DEF SettleInv, WaitIsBounded
  <2> QED
    BY <1>2, <2>3, <2>5
<1> QED
  BY <1>3, <1>4

-----------------------------------------------------------------------------
LEMMA ScanTypeStays == ASSUME ScanTypeInv, UNCHANGED scanPageVars PROVE ScanTypeInv'
<1>1. LoadsInv' /\ SettleInv'
  BY LoadsAlone, SettleAlone DEF ScanTypeInv, scanPageVars
<1> QED
  BY <1>1 DEF ScanTypeInv, ServerInv, EditsInv, ScanBudgets, scanPageVars, serverSide

LEMMA ScanTypeNextInv ==
  ASSUME ScanTypeInv, [ScanPageNext]_scanPageVars
  PROVE  ScanTypeInv'
<1> USE DEF ScanTypeInv
<1>1. CASE UNCHANGED scanPageVars
  BY <1>1, ScanTypeStays
<1>2. CASE \/ \E status \in {"completed", "failed"} : ScanEnds(status)
           \/ \E org \in Orgs : PolicyEvaluated(org)
           \/ CancelAnswered
  <2>1. /\ UNCHANGED <<scan, scanRequest, shownCompliance, settleVars, edits, edited, lostAnswers>>
        /\ cancellingScan' \in {cancellingScan, "no", "accepted"}
    BY <1>2 DEF ScanEnds, PolicyEvaluated, CancelAnswered
  <2>2. ServerInv'
    BY <1>2, ScanServerSteps
  <2> QED
    BY <2>1, <2>2, SettleAlone, LoadsAlone DEF EditsInv, ScanBudgets
<1>3. CASE HandleCancel
  <2>1. /\ UNCHANGED <<serverSide, scan, scanRequest, shownCompliance, settleVars, edits,
                       edited, lostAnswers>>
        /\ cancellingScan' = "sent"
    BY <1>3 DEF HandleCancel
  <2> QED
    BY <2>1, SettleAlone, LoadsAlone DEF EditsInv, ServerInv, serverSide, ScanBudgets
<1>4. CASE RefreshActiveScan \/ ScanAnswered \/ ScanLoadFails \/ CancelShown
  <2>1. UNCHANGED <<serverSide, shownCompliance, edits>>
    BY <1>4 DEF RefreshActiveScan, ScanAnswered, ScanLoadFails, CancelShown
  <2>2. SettleInv' /\ ScanBudgets'
    BY <1>4, PollsKeep
  <2> QED
    BY <2>1, <2>2, LoadsAlone DEF EditsInv, ServerInv, serverSide
<1>5. CASE ScanLoaded \/ SettleTick
  <2>1. UNCHANGED <<serverSide, edits, cancellingScan, edited, lostAnswers>>
    BY <1>5 DEF ScanLoaded, SettleTick
  <2>2. SettleInv' /\ LoadsInv'
    BY <1>5, ScanLoadedKeeps, SettleTickKeeps
  <2> QED
    BY <2>1, <2>2 DEF EditsInv, ServerInv, serverSide, ScanBudgets
<1>6. CASE ComplianceAnswered \/ ComplianceLoaded \/ ComplianceLoadFails
           \/ \E r \in superseded : SupersededDiscarded(r)
  <2>1. UNCHANGED <<serverSide, edits>>
    BY <1>6 DEF ComplianceAnswered, ComplianceLoaded, ComplianceLoadFails, SupersededDiscarded
  <2>2. SettleInv' /\ LoadsInv' /\ ScanBudgets'
    BY <1>6, AnswersKeep, DiscardKeeps
  <2> QED
    BY <2>1, <2>2 DEF EditsInv, ServerInv, serverSide
<1>7. CASE \/ \E kind \in EditKinds, org \in Orgs : EditCompliance(kind, org)
           \/ \E e \in edits : EditAnswered(e) \/ EditFails(e)
  <2>1. UNCHANGED <<scan, scanRequest, shownCompliance, settleVars>>
    BY <1>7 DEF EditCompliance, EditAnswered, EditFails
  <2>2. EditsInv' /\ ServerInv' /\ ScanBudgets'
    BY <1>7, EditSteps
  <2> QED
    BY <2>1, <2>2, SettleAlone, LoadsAlone
<1>8. CASE \E e \in edits : EditShown(e)
  <2>1. UNCHANGED <<serverSide, cancellingScan, edited, lostAnswers>>
    BY <1>8 DEF EditShown
  <2>2. SettleInv' /\ LoadsInv' /\ EditsInv'
    BY <1>8, EditShownKeeps
  <2> QED
    BY <2>1, <2>2 DEF ServerInv, serverSide, ScanBudgets
<1> QED
  BY <1>1, <1>2, <1>3, <1>4, <1>5, <1>6, <1>7, <1>8
     DEF ScanPageNext, StatusPolling, ComplianceLoading, EditKinds

(* The wait for the policies (the interval of the settling effect,         *)
(* scans/[id]/page.tsx) runs only while a completed scan is shown, and no  *)
(* tick fires after the last one, whichever loads are aborted or fail.     *)
THEOREM ScanTypes == ScanPageSpec => []ScanPageTypeOK
<1>1. ScanPageInit => ScanTypeInv
  BY ScanTypeInitInv
<1>2. ScanTypeInv /\ [ScanPageNext]_scanPageVars => ScanTypeInv'
  BY ScanTypeNextInv
<1>3. ScanTypeInv => ScanPageTypeOK
  BY ScanTypesHold
<1> QED
  BY <1>1, <1>2, <1>3, PTL DEF ScanPageSpec

-----------------------------------------------------------------------------
(* The details behind the compliance tab *)

LEMMA ComplianceInitInv == ComplianceInit => ComplianceTypeOK
<1>1. 0 \in 0..MaxTabSwitches /\ 0 \in 0..MaxScanSets
  BY ComplianceConstants
<1> QED
  BY <1>1, Zenon DEF ComplianceInit, ComplianceTypeOK

(* A loader that counts is started with the flag up and stopped by the     *)
(* effect that every change makes due.                                     *)
LEMMA ComplianceNextInv ==
  ComplianceTypeOK /\ [ComplianceNext]_complianceVars => ComplianceTypeOK'
<1> SUFFICES ASSUME ComplianceTypeOK, [ComplianceNext]_complianceVars PROVE ComplianceTypeOK'
  OBVIOUS
<1>1. tabSwitches < MaxTabSwitches => tabSwitches + 1 \in 0..MaxTabSwitches
  BY ComplianceConstants DEF ComplianceTypeOK
<1>2. scanSets < MaxScanSets => scanSets + 1 \in 0..MaxScanSets
  BY ComplianceConstants DEF ComplianceTypeOK
<1> USE DEF ComplianceTypeOK
<1>3. CASE SelectTab
  BY <1>1, <1>3, Zenon DEF SelectTab, detailsVars
<1>4. CASE ReplaceScan
  <2>1. scanEnded \in BOOLEAN /\ detailsDue' = TRUE /\ (scanEnded' = scanEnded \/ scanEnded' = TRUE)
    BY <1>4 DEF ReplaceScan
  <2>2. scanEnded' \in BOOLEAN /\ (scanEnded => scanEnded')
    BY <2>1, Zenon
  <2>3. /\ UNCHANGED <<onCompliance, detailsLoading, detailsLoaded, detailsError, loaderLive,
                       tabSwitches>>
        /\ scanSets' \in 0..MaxScanSets
    BY <1>2, <1>4 DEF ReplaceScan, detailsVars
  <2> QED
    BY <2>1, <2>2, <2>3, Zenon
<1>5. CASE RunDetailsEffect
  BY <1>5 DEF RunDetailsEffect, Loads
<1>6. CASE DetailsArrive \/ DetailsFail
  BY <1>6 DEF DetailsArrive, DetailsFail
<1>7. CASE RetryDetails
  BY <1>1, <1>7, Zenon DEF RetryDetails
<1>8. CASE XrayPolicyRefreshed
  BY <1>2, <1>8, Zenon DEF XrayPolicyRefreshed
<1>9. CASE UNCHANGED complianceVars
  BY <1>9 DEF complianceVars, detailsVars
<1> QED
  BY <1>3, <1>4, <1>5, <1>6, <1>7, <1>8, <1>9 DEF ComplianceNext

(* A loader whose answer counts loads an ended scan and has the flag up,   *)
(* or a change is about to stop it (scans/[id]/page.tsx).                  *)
THEOREM ComplianceTypes == ComplianceSpec => []ComplianceTypeOK
BY ComplianceInitInv, ComplianceNextInv, PTL DEF ComplianceSpec

-----------------------------------------------------------------------------
(* The findings list *)

(* What is loaded, shown and changed; only a scan that has ended is asked  *)
(* about its saved settings.                                               *)
FindingsData ==
    /\ View \in ViewType
    /\ edition \in Nat
    /\ request \in TableLoads \cup {NoRequest}
    /\ request # NoRequest => request.edition <= edition
    /\ rows.view \in ViewType /\ rows.edition \in Nat /\ rows.edition <= edition
    /\ changes \subseteq FindingChanges
    /\ preference = "sent" => endedShown

AllSent == \A c \in changes : c.phase = "sent"

(* A load of the effect is for what is chosen now, and a load that goes on *)
(* when every stored change is known to the page has read all of them.     *)
LoadIsCurrent ==
    request # NoRequest =>
        /\ request.by = "effect" => request.view = View
        /\ AllSent => request.edition = edition

FindingsInv == FindingsTypeOK /\ FindingsData /\ LoadIsCurrent /\ TableIsRight

(* A load of the table: the new one is for the view it is given and knows  *)
(* what is stored; without one the table is not at rest.                   *)
LEMMA LoadVulnsLoads ==
  ASSUME FindingsTypeOK, FindingsData, NEW view \in ViewType, NEW by \in {"effect", "handler"},
         LoadVulns(view, by), UNCHANGED <<endedShown, ready>>
  PROVE  /\ request' \in TableLoads \cup {NoRequest}
         /\ request' # NoRequest =>
              /\ endedShown /\ ready
              /\ request'.view = view /\ request'.by = by /\ request'.edition = edition
              /\ request'.pages = 0
         /\ request' = NoRequest => ~ (endedShown /\ ready)
<1>1. CASE endedShown /\ ready
  <2> DEFINE new == [view |-> view, by |-> by, pages |-> 0, edition |-> edition]
  <2>1. request' = new
    BY <1>1 DEF LoadVulns
  <2>2. new \in TableLoads
    BY DEF TableLoads, FindingsData
  <2>3. request' # NoRequest /\ request' \in TableLoads
    BY <2>1, <2>2, FindingsConstants
  <2>4. /\ request'.view = view /\ request'.by = by /\ request'.edition = edition
        /\ request'.pages = 0
    BY <2>1
  <2> QED
    BY <1>1, <2>3, <2>4
<1>2. CASE ~ (endedShown /\ ready)
  BY <1>2 DEF LoadVulns
<1> QED
  BY <1>1, <1>2

(* Dropping the load under way and scheduling a new one leaves the table   *)
(* with nothing to promise.                                                *)
LEMMA ReloadPromisesNothing ==
  ASSUME Reload
  PROVE  LoadIsCurrent' /\ TableIsRight'
BY DEF Reload, LoadIsCurrent, TableIsRight, TableMatchesChoice, OwnChangesAreShown, Idle

(* What leaves the table, its view and its load alone keeps its promises.  *)
LEMMA TableLeftAlone ==
  ASSUME LoadIsCurrent, TableIsRight,
         UNCHANGED <<endedShown, ready, View, request, vulnsEffectDue, rows, failed, edition>>,
         AllSent' <=> AllSent
  PROVE  LoadIsCurrent' /\ TableIsRight'
<1>1. LoadIsCurrent'
  BY DEF LoadIsCurrent
<1>2. TableMatchesChoice'
  BY DEF TableIsRight, TableMatchesChoice, Idle
<1>3. OwnChangesAreShown'
  BY DEF TableIsRight, OwnChangesAreShown, Idle, Filled, AllSent
<1> QED
  BY <1>1, <1>2, <1>3 DEF TableIsRight

(* The same for the data: nothing but the load is new.                     *)
LEMMA FindingsInitInv == FindingsInit => FindingsInv
<1> SUFFICES ASSUME FindingsInit PROVE FindingsInv
  OBVIOUS
<1>1. View \in ViewType
  BY FindingsConstants DEF FindingsInit, View, ViewType
<1>2. /\ rows.view = View /\ rows.by = "none" /\ rows.edition = 0 /\ ~ Filled
  BY DEF FindingsInit, EmptyTable, Filled
<1>3. FindingsTypeOK
  BY <1>2, FindingsConstants DEF FindingsInit, FindingsTypeOK
<1>4. FindingsData
  BY <1>1, <1>2 DEF FindingsInit, FindingsData
<1>5. LoadIsCurrent /\ TableIsRight
  BY <1>2 DEF FindingsInit, LoadIsCurrent, TableIsRight, TableMatchesChoice, OwnChangesAreShown, Idle
<1> QED
  BY <1>3, <1>4, <1>5 DEF FindingsInv

(* Whoever drops the load need only keep the choice and the requests for   *)
(* settings well-formed.                                                   *)
LEMMA FindingsReloads ==
  ASSUME FindingsInv, Reload, UNCHANGED <<rows, edition, changes>>,
         input' \in Inputs, filter' \in Inputs, ~ typing' => filter' = input',
         settings' \in Settings, page' \in Pages,
         saved' \in Settings, saving' \in Settings \cup {NoRequest},
         preference' \in {"none", "sent"},
         preference' = "sent" => endedShown', initialized' => endedShown'
  PROVE  FindingsInv'
<1>1. View' \in ViewType
  BY DEF View, ViewType
<1>2. FindingsTypeOK'
  BY DEF Reload, FindingsInv, FindingsTypeOK, Filled
<1>3. FindingsData'
  BY <1>1 DEF Reload, FindingsInv, FindingsData
<1> QED
  BY <1>2, <1>3, ReloadPromisesNothing DEF FindingsInv

LEMMA FindingsLoads ==
  ASSUME FindingsInv, RunVulnsEffect \/ \E c \in changes : ChangeReturns(c)
  PROVE  FindingsInv'
<1> USE DEF choiceVars, viewVars, listBudget
<1>1. PICK view \in ViewType, by \in {"effect", "handler"} :
        LoadVulns(view, by) /\ (by = "effect" => view = View)
  <2>1. CASE RunVulnsEffect
    BY <2>1 DEF RunVulnsEffect, FindingsInv, FindingsData
  <2>2. ASSUME NEW c \in changes, ChangeReturns(c) PROVE LoadVulns(c.view, "handler") /\ c.view \in ViewType
    BY <2>2 DEF ChangeReturns, FindingsInv, FindingsData, FindingChanges
  <2> QED
    BY <2>1, <2>2
<1>2. /\ UNCHANGED <<endedShown, input, filter, typing, settings, page, ready, initialized,
                     preference, saved, saving, edition, rows>>
      /\ changes' \subseteq changes
  BY DEF RunVulnsEffect, ChangeReturns
<1>3. View' = View
  BY <1>2 DEF View
<1>4. /\ request' \in TableLoads \cup {NoRequest}
      /\ request' # NoRequest =>
              /\ endedShown /\ ready
              /\ request'.view = view /\ request'.by = by /\ request'.edition = edition
              /\ request'.pages = 0
      /\ request' = NoRequest => ~ (endedShown /\ ready)
  BY <1>1, <1>2, LoadVulnsLoads DEF FindingsInv
<1>5. PagesToLoad(view) \in Nat
  BY FindingsConstants DEF PagesToLoad
<1>6. FindingsTypeOK'
  BY <1>2, <1>4, <1>5 DEF FindingsInv, FindingsTypeOK, Filled, PagesToLoad
<1>7. FindingsData'
  BY <1>2, <1>3, <1>4 DEF FindingsInv, FindingsData
<1>8. LoadIsCurrent'
  BY <1>1, <1>2, <1>3, <1>4 DEF LoadIsCurrent
<1>9. TableIsRight'
  BY <1>2, <1>4 DEF TableIsRight, TableMatchesChoice, OwnChangesAreShown, Idle
<1> QED
  BY <1>6, <1>7, <1>8, <1>9 DEF FindingsInv

LEMMA FindingsPages ==
  ASSUME FindingsInv, PageArrives
  PROVE  FindingsInv'
<1> USE DEF choiceVars, viewVars, listBudget
<1>1. request \in TableLoads /\ request # NoRequest
  BY DEF PageArrives, FindingsInv, FindingsData
<1>2. UNCHANGED <<endedShown, input, filter, typing, settings, page, ready, initialized,
                  preference, saved, saving, edition, vulnsEffectDue, rows, failed, changes>>
  BY DEF PageArrives
<1>3. View' = View
  BY <1>2 DEF View
<1>4. /\ request' \in TableLoads
      /\ request'.view = request.view /\ request'.by = request.by
      /\ request'.pages = request.pages + 1
      /\ request'.edition = edition \/ request'.edition = request.edition
  <2>1. request' = [request EXCEPT !.pages = request.pages + 1,
                      !.edition = IF request.pages = 0 THEN edition ELSE request.edition]
    BY DEF PageArrives
  <2>2. edition \in Nat /\ request.pages \in Nat /\ request.edition \in Nat
    BY <1>1 DEF FindingsInv, FindingsData, TableLoads
  <2>3. (IF request.pages = 0 THEN edition ELSE request.edition) \in Nat
    BY <2>2
  <2>4. PICK v, b, p, e : request = [view |-> v, by |-> b, pages |-> p, edition |-> e]
    BY <1>1 DEF TableLoads
  <2>5. request' = [view |-> request.view, by |-> request.by, pages |-> request.pages + 1,
                    edition |-> IF request.pages = 0 THEN edition ELSE request.edition]
    BY <2>1, <2>4
  <2>6. /\ request'.view = request.view /\ request'.by = request.by
        /\ request'.pages = request.pages + 1
        /\ request'.edition = IF request.pages = 0 THEN edition ELSE request.edition
    BY <2>5
  <2>7. request.view \in ViewType /\ request.by \in {"effect", "handler"}
    BY <1>1 DEF TableLoads
  <2>8. request' \in TableLoads
    BY <2>2, <2>3, <2>5, <2>7 DEF TableLoads
  <2> QED
    BY <2>6, <2>8
<1>5. request' # NoRequest
  BY <1>4, FindingsConstants
<1>6. PagesToLoad(request.view) \in Nat /\ request.pages \in Nat /\ request.edition \in Nat
      /\ request.pages < PagesToLoad(request.view)
  BY <1>1, FindingsConstants DEF PagesToLoad, TableLoads, PageArrives
<1>7. request'.pages \in 0 .. PagesToLoad(request.view) /\ PagesToLoad(request'.view) = PagesToLoad(request.view)
  BY <1>4, <1>6
<1>8. FindingsTypeOK'
  <2>1. request'.view \in ViewType /\ endedShown' /\ ready'
    BY <1>1, <1>2, <1>4 DEF FindingsInv, FindingsTypeOK
  <2> QED
    BY <1>2, <1>4, <1>7, <2>1 DEF FindingsInv, FindingsTypeOK, Filled
<1>9. FindingsData'
  BY <1>1, <1>2, <1>3, <1>4, <1>6 DEF FindingsInv, FindingsData
<1>10. LoadIsCurrent'
  BY <1>1, <1>2, <1>3, <1>4 DEF FindingsInv, LoadIsCurrent, AllSent
<1>11. TableIsRight'
  BY <1>5 DEF TableIsRight, TableMatchesChoice, OwnChangesAreShown, Idle
<1> QED
  BY <1>8, <1>9, <1>10, <1>11 DEF FindingsInv

LEMMA FindingsShows ==
  ASSUME FindingsInv, ShowRows \/ VulnsFail
  PROVE  FindingsInv'
<1> USE DEF choiceVars, viewVars, listBudget
<1>1. request \in TableLoads /\ request # NoRequest
  BY DEF ShowRows, VulnsFail, FindingsInv, FindingsData
<1>2. /\ request' = NoRequest
      /\ UNCHANGED <<endedShown, input, filter, typing, settings, page, ready, initialized,
                     preference, saved, saving, edition, changes>>
  BY DEF ShowRows, VulnsFail
<1>3. View' = View
  BY <1>2 DEF View
<1>4. \/ rows'.view = request.view /\ rows'.by = request.by /\ rows'.edition = request.edition
      \/ rows' = rows /\ failed'
  BY DEF ShowRows, VulnsFail
<1>5. request.view \in ViewType /\ request.edition \in Nat /\ request.edition <= edition
  BY <1>1 DEF FindingsInv, FindingsData, TableLoads
<1>6. FindingsTypeOK'
  BY <1>2, <1>4, <1>5 DEF FindingsInv, FindingsTypeOK, Filled
<1>7. FindingsData'
  BY <1>2, <1>3, <1>4, <1>5 DEF FindingsInv, FindingsData
<1>8. LoadIsCurrent'
  BY <1>2 DEF LoadIsCurrent
<1>9. TableIsRight'
  BY <1>1, <1>2, <1>3, <1>4
  DEF FindingsInv, LoadIsCurrent, AllSent, TableIsRight, TableMatchesChoice, OwnChangesAreShown, Idle
<1> QED
  BY <1>6, <1>7, <1>8, <1>9 DEF FindingsInv

LEMMA FindingsRefreshes ==
  ASSUME FindingsInv, NEW over \in BOOLEAN, ScanRefreshed(over)
  PROVE  FindingsInv'
<1>1. /\ Reload /\ UNCHANGED <<rows, edition, changes>>
      /\ input' \in Inputs /\ filter' \in Inputs /\ (~ typing' => filter' = input')
      /\ settings' \in Settings /\ page' \in Pages
      /\ saved' \in Settings /\ saving' \in Settings \cup {NoRequest}
      /\ preference' \in {"none", "sent"}
  BY FindingsConstants
  DEF ScanRefreshed, InitializeView, choiceVars, FindingsInv, FindingsTypeOK, FindingsData
<1>2. (preference' = "sent" => endedShown') /\ (initialized' => endedShown')
  BY DEF ScanRefreshed, InitializeView, choiceVars, FindingsInv, FindingsTypeOK, FindingsData
<1> QED
  BY <1>1, <1>2, FindingsReloads

LEMMA FindingsPreference ==
  ASSUME FindingsInv, PreferenceArrives
  PROVE  FindingsInv'
<1>1. /\ Reload /\ UNCHANGED <<rows, edition, changes>>
      /\ input' \in Inputs /\ filter' \in Inputs /\ (~ typing' => filter' = input')
      /\ settings' \in Settings /\ page' \in Pages
      /\ saved' \in Settings /\ saving' \in Settings \cup {NoRequest}
      /\ preference' \in {"none", "sent"}
  BY FindingsConstants
  DEF PreferenceArrives, ApplyPreference, FindingsInv, FindingsTypeOK, FindingsData
<1>2. (preference' = "sent" => endedShown') /\ (initialized' => endedShown')
  BY DEF PreferenceArrives, ApplyPreference, FindingsInv, FindingsTypeOK, FindingsData
<1> QED
  BY <1>1, <1>2, FindingsReloads

LEMMA FindingsViewSaved ==
  ASSUME FindingsInv, ViewSaved
  PROVE  FindingsInv'
<1>1. /\ Reload /\ UNCHANGED <<rows, edition, changes>>
      /\ input' \in Inputs /\ filter' \in Inputs /\ (~ typing' => filter' = input')
      /\ settings' \in Settings /\ page' \in Pages
      /\ saved' \in Settings /\ saving' \in Settings \cup {NoRequest}
      /\ preference' \in {"none", "sent"}
  BY FindingsConstants
  DEF ViewSaved, ApplyPreference, FindingsInv, FindingsTypeOK, FindingsData
<1>2. (preference' = "sent" => endedShown') /\ (initialized' => endedShown')
  BY DEF ViewSaved, ApplyPreference, FindingsInv, FindingsTypeOK, FindingsData
<1> QED
  BY <1>1, <1>2, FindingsReloads

LEMMA FindingsChooses ==
  ASSUME FindingsInv,
         \/ \E view \in Settings : ChooseSettings(view)
         \/ \E n \in Pages : ChoosePage(n)
  PROVE  FindingsInv'
<1>1. /\ Reload /\ UNCHANGED <<rows, edition, changes>>
      /\ input' \in Inputs /\ filter' \in Inputs /\ (~ typing' => filter' = input')
      /\ settings' \in Settings /\ page' \in Pages
      /\ saved' \in Settings /\ saving' \in Settings \cup {NoRequest}
      /\ preference' \in {"none", "sent"}
  BY FindingsConstants
  DEF ChooseSettings, ChoosePage, Choice, viewVars, FindingsInv, FindingsTypeOK, FindingsData
<1>2. (preference' = "sent" => endedShown') /\ (initialized' => endedShown')
  BY DEF ChooseSettings, ChoosePage, Choice, viewVars, FindingsInv, FindingsTypeOK, FindingsData
<1> QED
  BY <1>1, <1>2, FindingsReloads

(* The same with the load left alone: the view is, too.                    *)
LEMMA FindingsStays ==
  ASSUME FindingsInv,
         UNCHANGED <<endedShown, ready, initialized, preference, saved, filter, settings, page,
                     request, vulnsEffectDue, rows, failed, edition, changes>>,
         input' \in Inputs, ~ typing' => filter' = input',
         saving' \in Settings \cup {NoRequest}
  PROVE  FindingsInv'
<1>1. View' = View
  BY DEF View
<1>2. FindingsTypeOK'
  BY DEF FindingsInv, FindingsTypeOK, Filled, PagesToLoad
<1>3. FindingsData'
  BY <1>1 DEF FindingsInv, FindingsData
<1>4. AllSent' <=> AllSent
  BY DEF AllSent
<1> QED
  BY <1>1, <1>2, <1>3, <1>4, TableLeftAlone DEF FindingsInv

LEMMA FindingsTypes ==
  ASSUME FindingsInv, NEW text \in Inputs,
         Type(text) \/ Debounced \/ ClearFilters \/ SaveView
  PROVE  FindingsInv'
<1> USE DEF viewVars, choiceVars, listVars, listBudget
<1>1. CASE Type(text)
  BY <1>1, FindingsStays DEF Type, Choice, FindingsInv, FindingsTypeOK
<1>2. CASE SaveView
  <2>1. /\ UNCHANGED <<endedShown, ready, initialized, preference, saved, filter, settings, page,
                       request, vulnsEffectDue, rows, failed, edition, changes, input, typing>>
        /\ saving' = settings
    BY <1>2 DEF SaveView
  <2> QED
    BY <2>1, FindingsStays DEF FindingsInv, FindingsTypeOK
<1>3. CASE Debounced
  <2>1. /\ filter' = input /\ page' = 1 /\ typing' = FALSE
        /\ UNCHANGED <<endedShown, input, settings, ready, initialized, preference, saved, saving,
                       edition, rows, failed, changes>>
    BY <1>3 DEF Debounced
  <2>a. /\ input' \in Inputs /\ filter' \in Inputs /\ (~ typing' => filter' = input')
        /\ settings' \in Settings /\ page' \in Pages
        /\ saved' \in Settings /\ saving' \in Settings \cup {NoRequest}
        /\ preference' \in {"none", "sent"}
    BY <2>1, FindingsConstants DEF FindingsInv, FindingsTypeOK
  <2>b. (preference' = "sent" => endedShown') /\ (initialized' => endedShown')
    BY <2>1 DEF FindingsInv, FindingsTypeOK, FindingsData
  <2>2. CASE Reload
    BY <2>1, <2>2, <2>a, <2>b, FindingsReloads
  <2>3. CASE filter' = filter /\ page' = page /\ UNCHANGED <<request, vulnsEffectDue>>
    BY <2>1, <2>3, <2>a, FindingsStays
  <2> QED
    BY <1>3, <2>2, <2>3 DEF Debounced
<1>4. CASE ClearFilters
  <2>1. /\ input' = NoInput /\ filter' = NoInput /\ settings' = DefaultSettings /\ page' = 1
        /\ typing' = (input # NoInput \/ typing)
        /\ UNCHANGED <<endedShown, ready, initialized, preference, saved, saving,
                       edition, rows, failed, changes>>
    BY <1>4 DEF ClearFilters, Choice
  <2>2. CASE Reload
    BY <2>1, <2>2, FindingsReloads, FindingsConstants DEF FindingsInv, FindingsTypeOK, FindingsData
  <2>3. CASE filter' = filter /\ settings' = settings /\ page' = page
             /\ UNCHANGED <<request, vulnsEffectDue>>
    BY <2>1, <2>3, FindingsStays, FindingsConstants DEF FindingsInv, FindingsTypeOK
  <2> QED
    BY <1>4, <2>1, <2>2, <2>3 DEF ClearFilters
<1> QED
  BY <1>1, <1>2, <1>3, <1>4

LEMMA FindingsChanges ==
  ASSUME FindingsInv, ChangeFinding \/ \E c \in changes : ChangeStored(c)
  PROVE  FindingsInv'
<1> USE DEF viewVars, choiceVars, listVars, listBudget
<1>1. /\ UNCHANGED <<endedShown, input, filter, typing, settings, page, ready, initialized,
                     preference, saved, saving, request, vulnsEffectDue, rows, failed>>
      /\ View' = View
  BY DEF ChangeFinding, ChangeStored, View
<1>2. CASE ChangeFinding
  <2> DEFINE new == [view |-> View, phase |-> "sent", edition |-> 0]
  <2>1. changes' = changes \cup {new} /\ edition' = edition
    BY <1>2 DEF ChangeFinding
  <2>2. new \in FindingChanges /\ new.phase = "sent"
    BY DEF FindingsInv, FindingsData, FindingChanges
  <2> HIDE DEF new
  <2>3. FindingsTypeOK'
    BY <1>1, <2>1 DEF FindingsInv, FindingsTypeOK, Filled, PagesToLoad
  <2>4. FindingsData'
    BY <1>1, <2>1, <2>2 DEF FindingsInv, FindingsData
  <2>5. AllSent' <=> AllSent
    BY <2>1, <2>2 DEF AllSent
  <2> QED
    BY <1>1, <2>1, <2>3, <2>4, <2>5, TableLeftAlone DEF FindingsInv
<1>3. ASSUME NEW c \in changes, ChangeStored(c) PROVE FindingsInv'
  <2> DEFINE new == [c EXCEPT !.phase = "stored", !.edition = edition + 1]
  <2>1. changes' = (changes \ {c}) \cup {new} /\ edition' = edition + 1
    BY <1>3 DEF ChangeStored
  <2>c. c \in FindingChanges /\ edition + 1 \in Nat
    BY <1>3 DEF FindingsInv, FindingsData
  <2>2. new \in FindingChanges /\ new.phase = "stored"
    BY <2>c DEF FindingChanges
  <2> HIDE DEF new
  <2>3. FindingsTypeOK'
    BY <1>1, <2>1 DEF FindingsInv, FindingsTypeOK, FindingsData, Filled, PagesToLoad
  <2>4. FindingsData'
    BY <1>1, <2>1, <2>2 DEF FindingsInv, FindingsData, TableLoads
  <2>5. ~ AllSent'
    BY <2>1, <2>2 DEF AllSent
  <2>6. LoadIsCurrent'
    BY <1>1, <2>5 DEF FindingsInv, LoadIsCurrent
  <2>7. TableIsRight'
    BY <1>1, <2>5 DEF FindingsInv, TableIsRight, TableMatchesChoice, OwnChangesAreShown, Idle, AllSent
  <2> QED
    BY <2>3, <2>4, <2>6, <2>7 DEF FindingsInv
<1> QED
  BY <1>2, <1>3

LEMMA FindingsNextInv == FindingsInv /\ [FindingsNext]_findingsVars => FindingsInv'
<1> SUFFICES ASSUME FindingsInv, [FindingsNext]_findingsVars PROVE FindingsInv'
  OBVIOUS
<1>1. CASE RunVulnsEffect \/ \E c \in changes : ChangeReturns(c)
  BY <1>1, FindingsLoads
<1>2. CASE PageArrives
  BY <1>2, FindingsPages
<1>3. CASE ShowRows \/ VulnsFail
  BY <1>3, FindingsShows
<1>4. ASSUME NEW over \in BOOLEAN, ScanRefreshed(over) PROVE FindingsInv'
  BY <1>4, FindingsRefreshes
<1>5. CASE PreferenceArrives
  BY <1>5, FindingsPreference
<1>6. CASE ViewSaved
  BY <1>6, FindingsViewSaved
<1>7. CASE (\E view \in Settings : ChooseSettings(view)) \/ \E n \in Pages : ChoosePage(n)
  BY <1>7, FindingsChooses
<1>8. ASSUME NEW text \in Inputs, Type(text) PROVE FindingsInv'
  BY <1>8, FindingsTypes
<1>9. CASE Debounced \/ ClearFilters \/ SaveView
  BY <1>9, FindingsTypes, FindingsConstants
<1>10. CASE ChangeFinding \/ \E c \in changes : ChangeStored(c)
  BY <1>10, FindingsChanges
<1>11. CASE UNCHANGED findingsVars
  <2>1. UNCHANGED <<endedShown, ready, initialized, preference, saved, filter, settings, page,
                    request, vulnsEffectDue, rows, failed, edition, changes, input, typing, saving>>
    BY <1>11 DEF findingsVars, viewVars, choiceVars, listVars
  <2> QED
    BY <2>1, FindingsStays DEF FindingsInv, FindingsTypeOK
<1> QED
  BY <1>1, <1>2, <1>3, <1>4, <1>5, <1>6, <1>7, <1>8, <1>9, <1>10, <1>11 DEF FindingsNext, Loading

(* The inductive invariant of the findings list: a load under way is for   *)
(* what is chosen now, and has read every change that is known to be       *)
(* stored (scans/[id]/page.tsx).                                           *)
THEOREM FindingsInvariant == FindingsSpec => []FindingsInv
<1> QED
  BY FindingsInitInv, FindingsNextInv, PTL DEF FindingsSpec

(* The table shows what the controls say and what the user has changed.    *)
THEOREM TableShowsTheChoice == FindingsSpec => []TableIsRight
<1>1. FindingsInv => TableIsRight
  BY DEF FindingsInv
<1> QED
  BY <1>1, FindingsInvariant, PTL

-----------------------------------------------------------------------------
(* The assistant *)

ChatData ==
    /\ typed \in 0 .. MaxMessages
    /\ chatScope \in ChatScopes
    /\ stored \in [DOMAIN stored -> [scope : ChatScopes, messages : SUBSET Message]]
    /\ homes \in [Message -> SUBSET Conversations]
    /\ sending \in Sendings \cup {NoRequest}

(* While a message is on its way its conversation is one it may be stored  *)
(* in, and from its storage on it is there for as long as that exists.     *)
SendingIsAtHome ==
    sending # NoRequest =>
        /\ sending.step # "create" => sending.target \in homes[sending.message]
        /\ sending.step = "show answer" /\ Exists(sending.target) =>
              sending.message \in stored[sending.target].messages

ChatInv == ChatTypeOK /\ ChatData /\ SendingIsAtHome /\ MessagesAreKept

(* The writes of a message and the answers that show a conversation; what  *)
(* they do to the sending.                                                 *)
LEMMA ChatInitInv == ChatInit => ChatInv
<1> SUFFICES ASSUME ChatInit PROVE ChatInv
  OBVIOUS
<1>1. stored \in [DOMAIN stored -> [scope : ChatScopes, messages : SUBSET Message]]
      /\ DOMAIN stored = {}
  BY DEF ChatInit
<1>2. Stored = {}
  BY <1>1 DEF Stored
<1> QED
  BY <1>1, <1>2, ChatConstants
  DEF ChatInit, ChatInv, ChatTypeOK, ChatData, SendingIsAtHome, MessagesAreKept, SentIsKept,
      StoredWhereShown, Message, NoMessage, Exists

LEMMA ChatComposes ==
  ASSUME ChatInv, Compose
  PROVE  ChatInv'
<1> USE DEF Compose, Exists, shownVars, otherVars
<1>1. ChatTypeOK'
  BY ChatConstants DEF ChatInv, ChatTypeOK, ChatData, Message, NoMessage
<1>2. ChatData'
  BY ChatConstants DEF ChatInv, ChatData, Message
<1>3. SendingIsAtHome'
  BY DEF ChatInv, SendingIsAtHome
<1>4. SentIsKept'
  BY DEF ChatInv, MessagesAreKept, SentIsKept, Stored
<1>5. StoredWhereShown'
  BY DEF ChatInv, MessagesAreKept, StoredWhereShown
<1> QED
  BY <1>1, <1>2, <1>3, <1>4, <1>5 DEF ChatInv, MessagesAreKept

LEMMA ChatSends ==
  ASSUME ChatInv, HandleSend
  PROVE  ChatInv'
<1> DEFINE new == [message |-> composer, target |-> conversation, scope |-> chatScope,
                   step |-> IF conversation = NoConversation THEN "create" ELSE "send"]
<1>1. /\ sending = NoRequest /\ sending' = new
      /\ composer \in 1 .. typed /\ composer \in Message /\ composer' = 0
      /\ conversation \in Conversations \cup {NoConversation} /\ chatScope \in ChatScopes
      /\ UNCHANGED <<stored, deleted, conversation, chatScope, typed, opening, loading>>
  BY ChatConstants
  DEF HandleSend, ChatInv, ChatTypeOK, ChatData, Message, NoMessage, shownVars, otherVars
<1>2. new \in Sendings
  BY <1>1 DEF Sendings
<1>3. sending' \in Sendings /\ sending' # NoRequest
  BY <1>1, <1>2, ChatConstants
<1>4. /\ homes' \in [Message -> SUBSET Conversations]
      /\ \A m \in Message : homes[m] \subseteq homes'[m]
      /\ conversation # NoConversation => conversation \in homes'[composer]
  BY <1>1 DEF HandleSend, ChatInv, ChatData
<1>5. /\ sending'.message = composer /\ sending'.target = conversation
      /\ sending'.step = IF conversation = NoConversation THEN "create" ELSE "send"
  BY <1>1
<1> HIDE DEF new
<1>6. ChatTypeOK'
  BY <1>1, <1>3, <1>5 DEF ChatInv, ChatTypeOK, ChatData
<1>7. ChatData'
  BY <1>1, <1>3, <1>4 DEF ChatInv, ChatData
<1>8. SendingIsAtHome'
  BY <1>3, <1>4, <1>5 DEF SendingIsAtHome
<1>9. SentIsKept'
  BY <1>1, <1>3, <1>5 DEF HandleSend, ChatInv, MessagesAreKept, SentIsKept, Stored
<1>10. StoredWhereShown'
  BY <1>1, <1>4 DEF ChatInv, ChatData, MessagesAreKept, StoredWhereShown
<1> QED
  BY <1>6, <1>7, <1>8, <1>9, <1>10 DEF ChatInv, MessagesAreKept

LEMMA ChatStartsAnew ==
  ASSUME ChatInv, StartNewConversation
  PROVE  ChatInv'
<1> USE DEF StartNewConversation, Exists, otherVars
<1>1. ChatTypeOK'
  BY ChatConstants DEF ChatInv, ChatTypeOK, ChatData, Message, NoMessage
<1>2. ChatData'
  BY DEF ChatInv, ChatData
<1>3. SendingIsAtHome'
  BY DEF ChatInv, SendingIsAtHome
<1>4. SentIsKept'
  BY DEF ChatInv, MessagesAreKept, SentIsKept, Stored
<1>5. StoredWhereShown'
  BY DEF ChatInv, MessagesAreKept, StoredWhereShown
<1> QED
  BY <1>1, <1>2, <1>3, <1>4, <1>5 DEF ChatInv, MessagesAreKept

LEMMA ChatCreates ==
  ASSUME ChatInv, NEW c \in Conversations, CreateConversation(c)
  PROVE  ChatInv'
<1> DEFINE new == [scope |-> sending.scope, messages |-> {}]
<1>1. /\ sending \in Sendings /\ c \notin DOMAIN stored
      /\ sending.step = "create"
      /\ stored \in [DOMAIN stored -> [scope : ChatScopes, messages : SUBSET Message]]
  BY DEF CreateConversation, ChatInv, ChatTypeOK, ChatData, Exists
<1>2. /\ DOMAIN stored' = DOMAIN stored \cup {c}
      /\ stored'[c] = new
      /\ \A d \in DOMAIN stored : stored'[d] = stored[d]
      /\ stored' \in [DOMAIN stored' -> [scope : ChatScopes, messages : SUBSET Message]]
  BY <1>1 DEF CreateConversation, ChatInv, ChatData, Sendings
<1>3. sending' = [message |-> sending.message, target |-> c, scope |-> sending.scope,
                  step |-> "show created"]
  BY <1>1 DEF CreateConversation, Sendings
<1>a. sending' \in Sendings
  BY <1>1, <1>3 DEF Sendings
<1>4. sending' \in Sendings /\ sending' # NoRequest
  BY <1>a, ChatConstants
<1>b. /\ sending'.message = sending.message /\ sending'.target = c
      /\ sending'.step = "show created"
      /\ new.scope \in ChatScopes /\ new.messages = {} /\ sending.message \in Message
  BY <1>1, <1>3 DEF Sendings
<1> HIDE DEF new
<1>5. Stored' = Stored
  <2>1. \A m : m \in Stored <=> \E d \in DOMAIN stored : m \in stored[d].messages
    BY DEF Stored
  <2>2. \A m : m \in Stored' <=> \E d \in DOMAIN stored' : m \in stored'[d].messages
    BY DEF Stored
  <2>3. \A m : m \in Stored' <=> m \in Stored
    BY <1>1, <1>2, <1>b, <2>1, <2>2
  <2> QED
    BY <2>3
<1>6. /\ homes' \in [Message -> SUBSET Conversations]
      /\ \A m \in Message : homes[m] \subseteq homes'[m]
      /\ c \in homes'[sending.message]
  BY <1>1 DEF CreateConversation, ChatInv, ChatData, Sendings
<1>7. UNCHANGED <<deleted, chatScope, conversation, composer, typed, given, opening, loading>>
  BY DEF CreateConversation, shownVars, otherVars
<1>8. ChatTypeOK'
  <2>1. /\ DOMAIN stored' \subseteq Conversations \ deleted' /\ deleted' \subseteq Conversations
        /\ conversation' \in Conversations \cup {NoConversation} /\ composer' \in 0 .. typed'
        /\ loading' \subseteq ChatScopes /\ opening' \subseteq Conversations
    BY <1>2, <1>7 DEF CreateConversation, ChatInv, ChatTypeOK
  <2>2. \A d \in DOMAIN stored' : stored'[d].scope \in ChatScopes /\ stored'[d].messages \subseteq 1 .. typed'
    BY <1>2, <1>b, <1>7 DEF ChatInv, ChatTypeOK
  <2>3. /\ sending'.message \in 1 .. typed' /\ sending'.message # composer'
        /\ sending'.target # NoConversation /\ sending'.step # "create"
    BY <1>1, <1>b, <1>7, ChatConstants DEF CreateConversation, ChatInv, ChatTypeOK
  <2> QED
    BY <1>4, <2>1, <2>2, <2>3 DEF ChatTypeOK
<1>9. ChatData'
  BY <1>2, <1>4, <1>6, <1>7 DEF ChatInv, ChatData
<1>10. SendingIsAtHome'
  BY <1>b, <1>6 DEF SendingIsAtHome
<1>11. MessagesAreKept'
  <2>1. SentIsKept'
    BY <1>1, <1>4, <1>5, <1>7, <1>b DEF CreateConversation, ChatInv, MessagesAreKept, SentIsKept
  <2>2. ASSUME NEW d \in DOMAIN stored', NEW m \in stored'[d].messages
        PROVE  d \in homes'[m]
    <3>1. d \in DOMAIN stored /\ m \in stored[d].messages /\ m \in Message
      BY <1>1, <1>2, <1>b, <2>2
    <3> QED
      BY <1>6, <3>1 DEF ChatInv, MessagesAreKept, StoredWhereShown
  <2> QED
    BY <2>1, <2>2 DEF MessagesAreKept, StoredWhereShown
<1> QED
  BY <1>8, <1>9, <1>10, <1>11 DEF ChatInv

LEMMA ChatShows ==
  ASSUME ChatInv, ShowTarget
  PROVE  ChatInv'
<1>1. /\ sending \in Sendings /\ Exists(sending.target)
      /\ conversation' = sending.target
      /\ UNCHANGED <<stored, deleted, chatScope, composer, typed, given, homes, opening, loading>>
  BY DEF ShowTarget, ChatInv, ChatTypeOK, otherVars
<1>2. CASE sending.step = "show created"
  <2>1. sending' = [message |-> sending.message, target |-> sending.target,
                    scope |-> sending.scope, step |-> "send"]
    BY <1>1, <1>2 DEF ShowTarget, Sendings
  <2>a. sending' \in Sendings
    BY <1>1, <2>1 DEF Sendings
  <2>2. sending' \in Sendings /\ sending' # NoRequest
    BY <2>a, ChatConstants
  <2>3. /\ sending'.message = sending.message /\ sending'.target = sending.target
        /\ sending'.step = "send"
    BY <2>1
  <2>4. ChatTypeOK'
    <3>1. /\ sending.target \in DOMAIN stored /\ DOMAIN stored \subseteq Conversations
          /\ sending.message \in 1 .. typed /\ sending.message # composer
      BY <1>1, ChatConstants DEF ShowTarget, ChatInv, ChatTypeOK, Exists
    <3>2. sending'.target # NoConversation /\ sending'.step # "create"
      BY <2>3, <3>1, ChatConstants
    <3> QED
      BY <1>1, <2>2, <2>3, <3>1, <3>2 DEF ChatInv, ChatTypeOK
  <2>5. ChatData'
    BY <1>1, <2>2 DEF ChatInv, ChatData
  <2>6. SendingIsAtHome'
    BY <1>1, <1>2, <2>2, <2>3, ChatConstants DEF ChatInv, SendingIsAtHome
  <2>7. MessagesAreKept'
    BY <1>1, <2>2, <2>3 DEF ChatInv, MessagesAreKept, SentIsKept, StoredWhereShown, Stored
  <2> QED
    BY <2>4, <2>5, <2>6, <2>7 DEF ChatInv
<1>3. CASE sending.step = "show answer"
  <2>1. sending' = NoRequest /\ sending.message \in Stored
    BY <1>1, <1>3, ChatConstants DEF ShowTarget, ChatInv, SendingIsAtHome, Stored, Exists
  <2>2. ChatTypeOK'
    BY <1>1, <2>1 DEF ChatInv, ChatTypeOK, Exists
  <2>3. ChatData'
    BY <1>1, <2>1 DEF ChatInv, ChatData
  <2>4. SendingIsAtHome'
    BY <2>1 DEF SendingIsAtHome
  <2>5. MessagesAreKept'
    BY <1>1, <2>1 DEF ChatInv, MessagesAreKept, SentIsKept, StoredWhereShown, Stored
  <2> QED
    BY <2>2, <2>3, <2>4, <2>5 DEF ChatInv
<1> QED
  BY <1>2, <1>3 DEF ShowTarget

LEMMA ChatStores ==
  ASSUME ChatInv, SendMessage
  PROVE  ChatInv'
<1> DEFINE t == sending.target
<1>1. /\ sending \in Sendings /\ sending.step = "send" /\ t \in DOMAIN stored
      /\ stored \in [DOMAIN stored -> [scope : ChatScopes, messages : SUBSET Message]]
      /\ UNCHANGED <<deleted, chatScope, conversation, composer, typed, given, homes, opening, loading>>
  BY DEF SendMessage, StoreIn, ChatInv, ChatTypeOK, ChatData, Exists, shownVars, otherVars
<1>2. /\ DOMAIN stored' = DOMAIN stored
      /\ stored'[t] = [scope |-> stored[t].scope,
                       messages |-> stored[t].messages \cup {sending.message}]
      /\ \A d \in DOMAIN stored \ {t} : stored'[d] = stored[d]
      /\ stored' \in [DOMAIN stored' -> [scope : ChatScopes, messages : SUBSET Message]]
  BY <1>1 DEF SendMessage, StoreIn, Sendings
<1>3. sending' = [message |-> sending.message, target |-> sending.target,
                  scope |-> sending.scope, step |-> "show answer"]
  BY <1>1 DEF SendMessage, Sendings
<1>a. sending' \in Sendings
  BY <1>1, <1>3 DEF Sendings
<1>4. sending' \in Sendings /\ sending' # NoRequest
  BY <1>a, ChatConstants
<1>b. /\ sending'.message = sending.message /\ sending'.target = t
      /\ sending'.step = "show answer" /\ sending.message \in Message
      /\ stored'[t].scope = stored[t].scope
      /\ stored'[t].messages = stored[t].messages \cup {sending.message}
      /\ sending.message \in 1 .. typed /\ sending.message # composer
      /\ t \in homes[sending.message] /\ t # NoConversation
  <2>1. sending # NoRequest
    BY DEF SendMessage
  <2>2. sending.message \in 1 .. typed /\ sending.message # composer /\ t # NoConversation
    BY <1>1, <2>1 DEF ChatInv, ChatTypeOK
  <2>3. t \in homes[sending.message]
    BY <1>1, <2>1 DEF ChatInv, SendingIsAtHome
  <2>4. sending.message \in Message
    BY <1>1 DEF Sendings
  <2>5. stored'[t].scope = stored[t].scope
        /\ stored'[t].messages = stored[t].messages \cup {sending.message}
    BY <1>2
  <2>6. sending'.message = sending.message /\ sending'.target = t /\ sending'.step = "show answer"
    BY <1>3
  <2> QED
    BY <2>2, <2>3, <2>4, <2>5, <2>6
<1>5. Stored \subseteq Stored'
  BY <1>1, <1>2 DEF Stored
<1>6. ChatTypeOK'
  <2>1. \A d \in DOMAIN stored' : stored'[d].scope \in ChatScopes /\ stored'[d].messages \subseteq 1 .. typed'
    BY <1>1, <1>2, <1>b DEF ChatInv, ChatTypeOK
  <2>2. /\ DOMAIN stored' \subseteq Conversations \ deleted' /\ deleted' \subseteq Conversations
        /\ conversation' \in Conversations \cup {NoConversation} /\ composer' \in 0 .. typed'
        /\ loading' \subseteq ChatScopes /\ opening' \subseteq Conversations
    BY <1>1, <1>2 DEF ChatInv, ChatTypeOK
  <2>3. /\ sending'.message \in 1 .. typed' /\ sending'.message # composer'
        /\ sending'.target # NoConversation /\ sending'.step # "create"
    BY <1>1, <1>b
  <2> QED
    BY <1>4, <2>1, <2>2, <2>3 DEF ChatTypeOK
<1>7. ChatData'
  BY <1>1, <1>2, <1>4 DEF ChatInv, ChatData
<1>8. SendingIsAtHome'
  BY <1>1, <1>b DEF SendingIsAtHome
<1>9. MessagesAreKept'
  <2>1. SentIsKept'
    BY <1>1, <1>4, <1>5, <1>b DEF SendMessage, ChatInv, MessagesAreKept, SentIsKept
  <2>2. StoredWhereShown'
    BY <1>1, <1>2, <1>b DEF ChatInv, MessagesAreKept, StoredWhereShown
  <2> QED
    BY <2>1, <2>2 DEF MessagesAreKept
<1> QED
  BY <1>6, <1>7, <1>8, <1>9 DEF ChatInv

LEMMA ChatSendFails ==
  ASSUME ChatInv, SendFails
  PROVE  ChatInv'
<1>1. /\ sending \in Sendings /\ sending.message \in 1 .. typed
      /\ sending' = NoRequest /\ composer' = sending.message /\ given' = given \ {composer}
      /\ UNCHANGED <<stored, deleted, conversation, chatScope, typed, homes, opening, loading>>
  BY DEF SendFails, ChatInv, ChatTypeOK, shownVars, otherVars
<1>2. ChatTypeOK'
  BY <1>1 DEF ChatInv, ChatTypeOK, ChatData
<1>3. ChatData'
  BY <1>1 DEF ChatInv, ChatData
<1>4. SendingIsAtHome'
  BY <1>1 DEF SendingIsAtHome
<1>5. MessagesAreKept'
  BY <1>1 DEF ChatInv, MessagesAreKept, SentIsKept, StoredWhereShown, Stored
<1> QED
  BY <1>2, <1>3, <1>4, <1>5 DEF ChatInv

LEMMA ChatDeletes ==
  ASSUME ChatInv, NEW c \in Conversations, HandleDeleteConversation(c)
  PROVE  ChatInv'
<1>1. /\ c \in DOMAIN stored
      /\ stored \in [DOMAIN stored -> [scope : ChatScopes, messages : SUBSET Message]]
      /\ UNCHANGED <<chatScope, conversation, composer, typed, sending, homes, opening, loading>>
  BY DEF HandleDeleteConversation, ChatInv, ChatData, Exists, shownVars
<1>2. /\ DOMAIN stored' = DOMAIN stored \ {c}
      /\ \A d \in DOMAIN stored \ {c} : stored'[d] = stored[d]
      /\ stored' \in [DOMAIN stored' -> [scope : ChatScopes, messages : SUBSET Message]]
      /\ given' = given \ stored[c].messages
      /\ deleted' = deleted \cup {c}
  BY <1>1 DEF HandleDeleteConversation
<1>3. \A m \in given' : m \in Stored => m \in Stored'
  BY <1>1, <1>2 DEF Stored
<1>4. ChatTypeOK'
  BY <1>1, <1>2 DEF ChatInv, ChatTypeOK
<1>5. ChatData'
  BY <1>1, <1>2 DEF ChatInv, ChatData
<1>6. SendingIsAtHome'
  BY <1>1, <1>2 DEF ChatInv, SendingIsAtHome, Exists
<1>7. MessagesAreKept'
  BY <1>1, <1>2, <1>3 DEF ChatInv, MessagesAreKept, SentIsKept, StoredWhereShown
<1> QED
  BY <1>4, <1>5, <1>6, <1>7 DEF ChatInv

(* The handlers that only choose what is shown: they touch neither what is *)
(* stored nor what is on its way.                                          *)
LEMMA ChatBrowses ==
  ASSUME ChatInv,
         UNCHANGED <<stored, deleted, composer, typed, sending, given, homes>>,
         conversation' \in Conversations \cup {NoConversation},
         chatScope' \in ChatScopes, loading' \subseteq ChatScopes,
         opening' \subseteq Conversations
  PROVE  ChatInv'
<1>1. ChatTypeOK'
  BY DEF ChatInv, ChatTypeOK
<1>2. ChatData'
  BY DEF ChatInv, ChatData
<1>3. SendingIsAtHome'
  BY DEF ChatInv, SendingIsAtHome, Exists
<1>4. MessagesAreKept'
  BY DEF ChatInv, MessagesAreKept, SentIsKept, StoredWhereShown, Stored
<1> QED
  BY <1>1, <1>2, <1>3, <1>4 DEF ChatInv

LEMMA ChatNextInv == ChatInv /\ [ChatNext]_chatVars => ChatInv'
<1> SUFFICES ASSUME ChatInv, [ChatNext]_chatVars PROVE ChatInv'
  OBVIOUS
<1>0. /\ DOMAIN stored \subseteq Conversations /\ opening \subseteq Conversations
      /\ conversation \in Conversations \cup {NoConversation}
      /\ chatScope \in ChatScopes /\ loading \subseteq ChatScopes
      /\ \A scope : FirstOf(InScope(scope)) \subseteq Conversations \cup {NoConversation}
  BY DEF ChatInv, ChatTypeOK, ChatData, FirstOf, InScope
<1>1. CASE Compose \/ HandleSend \/ StartNewConversation
  BY <1>1, ChatComposes, ChatSends, ChatStartsAnew
<1>2. ASSUME NEW c \in Conversations, CreateConversation(c) PROVE ChatInv'
  BY <1>2, ChatCreates
<1>3. CASE ShowTarget
  BY <1>3, ChatShows
<1>4. CASE SendMessage
  BY <1>4, ChatStores
<1>5. CASE SendFails
  BY <1>5, ChatSendFails
<1>6. ASSUME NEW c \in Conversations, HandleDeleteConversation(c) PROVE ChatInv'
  BY <1>6, ChatDeletes
<1>7. ASSUME NEW c \in Conversations, HandleOpenConversation(c) PROVE ChatInv'
  BY <1>0, <1>7, ChatBrowses DEF HandleOpenConversation, shownVars, writeVars
<1>8. ASSUME NEW c \in opening, ConversationOpened(c) PROVE ChatInv'
  BY <1>0, <1>8, ChatBrowses DEF ConversationOpened, writeVars, Exists
<1>9. ASSUME NEW r \in removing, DeletionShown(r) PROVE ChatInv'
  BY <1>0, <1>9, ChatBrowses DEF DeletionShown, writeVars, Exists
<1>10. ASSUME NEW scope \in ChatScopes, ChangeChatScope(scope) PROVE ChatInv'
  BY <1>0, <1>10, ChatBrowses DEF ChangeChatScope, writeVars
<1>11. ASSUME NEW scope \in loading, AssistantLoaded(scope) PROVE ChatInv'
  BY <1>0, <1>11, ChatBrowses DEF AssistantLoaded, writeVars
<1>12. CASE UNCHANGED chatVars
  BY <1>0, <1>12, ChatBrowses DEF chatVars, shownVars, writeVars, otherVars
<1> QED
  BY <1>1, <1>2, <1>3, <1>4, <1>5, <1>6, <1>7, <1>8, <1>9, <1>10, <1>11, <1>12 DEF ChatNext

(* The inductive invariant of the assistant: a message on its way goes to  *)
(* a conversation it may be stored in, and is there from its storage on    *)
(* (assistant-experience.tsx).                                             *)
THEOREM ChatInvariant == ChatSpec => []ChatInv
<1> QED
  BY ChatInitInv, ChatNextInv, PTL DEF ChatSpec

(* A message the user has sent is stored, on its way or back in the        *)
(* composer, and is stored only where it was meant to be.                  *)
THEOREM SentMessagesAreKept == ChatSpec => []MessagesAreKept
<1>1. ChatInv => MessagesAreKept
  BY DEF ChatInv
<1> QED
  BY <1>1, ChatInvariant, PTL

-----------------------------------------------------------------------------
(* The form for a new scan *)

FormData ==
    /\ formScope \in Workspaces
    /\ scanSource \in Sources \cup {Nothing} /\ chosenSource \in Sources \cup {Nothing}
    /\ registries \subseteq Registries /\ registryId \in Registries \cup {Nothing}
    /\ xrayRepository \in Repositories \cup {Nothing}
    /\ repositoryLists \in [XrayRegistries -> {"none", "list", "error"}]
    /\ repositoriesLoading \in repositoriesAsked \cup {Nothing}
    /\ listEffectDue \in BOOLEAN
    /\ scanSource = Nothing => submitted = NoRequest

(* The registry is one of the kind the source asks for, even when the      *)
(* workspace of the registries the form knows is another one by now.       *)
SourceHasRegistry ==
    /\ scanSource = "private_registry" => registryId \in Registries \ XrayRegistries
    /\ scanSource = "artifactory_xray" => registryId \in XrayRegistries

(* Once the effect has run, the repository is one of the registry.         *)
EffectHasRun ==
    ~ listEffectDue /\ SelectedXray # Nothing =>
        xrayRepository # Nothing /\ xrayRepository.of = SelectedXray

FormInv ==
    /\ FormData /\ SourceHasRegistry /\ EffectHasRun
    /\ ChoicesFit

LEMMA FormInitInv == FormInit => FormInv
<1> SUFFICES ASSUME FormInit PROVE FormInv
  OBVIOUS
<1> USE DEF FormInit
<1>1. FormData
  BY DEF FormData
<1>2. SourceHasRegistry
  BY FormConstants DEF SourceHasRegistry, Sources
<1>3. EffectHasRun
  BY FormConstants DEF EffectHasRun, SelectedXray, Xray, Sources
<1>4. ChoicesFit
  BY DEF ChoicesFit, RegistryFitsSource, RepositoryFitsRegistry, ManualChoiceKept
<1> QED
  BY <1>1, <1>2, <1>3, <1>4 DEF FormInv

(* The request that was made stays as it was.                              *)
LEMMA SubmittedStays ==
  ASSUME ChoicesFit, UNCHANGED submitted, chosenSource' # Nothing => scanSource' = chosenSource'
  PROVE  ChoicesFit'
<1>1. RegistryFitsSource' /\ RepositoryFitsRegistry'
  BY DEF ChoicesFit, RegistryFitsSource, RepositoryFitsRegistry
<1>2. ManualChoiceKept'
  BY DEF ManualChoiceKept
<1> QED
  BY <1>1, <1>2 DEF ChoicesFit

(* When the effect is not due after a step, it was not due before and the  *)
(* selected registry is the same.                                          *)
LEMMA NotedEffect ==
  ASSUME NoteEffect, ~ listEffectDue'
  PROVE  ~ listEffectDue /\ SelectedXray' = SelectedXray
<1>1. ~ listEffectDue /\ EffectInput' = EffectInput
  BY DEF NoteEffect
<1> QED
  BY <1>1 DEF EffectInput

LEMMA EffectNoted ==
  ASSUME listEffectDue \in BOOLEAN, NoteEffect
  PROVE  listEffectDue' \in BOOLEAN
BY DEF NoteEffect

-----------------------------------------------------------------------------
(* The source *)

(* A source is selected with a registry of its kind, or without one when   *)
(* it is a source that needs none.                                         *)
LEMMA SelectKeeps ==
  ASSUME FormInv, NEW source \in Sources, SelectScanSource(source), NoteEffect,
         source \in {"private_registry", "artifactory_xray"} => Available(source),
         UNCHANGED <<loadVars, submitted>>,
         chosenSource' \in Sources \cup {Nothing},
         chosenSource' # Nothing => chosenSource' = source
  PROVE  FormInv'
<1>1. /\ scanSource' = source /\ registryId' \in ProposedRegistries(source)
      /\ xrayRepository' = IF source = "artifactory_xray" /\ registryId' # Nothing
                           THEN [of |-> registryId', how |-> "default"] ELSE Nothing
      /\ UNCHANGED <<repositoryLists, repositoriesAsked, repositoriesLoading>>
  BY DEF SelectScanSource
<1>2. UNCHANGED <<formScope, registries, enableTrivy>>
  BY DEF loadVars
<1>3. /\ Private \subseteq Registries \ XrayRegistries
      /\ Xray \subseteq XrayRegistries /\ Xray \subseteq Registries
  BY FormConstants DEF FormInv, FormData, Private, Xray
<1>4. ASSUME NEW set, set # {}
      PROVE  OfKind(set) # {} /\ OfKind(set) \subseteq set
  BY <1>4 DEF OfKind
<1>5. /\ source = "private_registry" => registryId' \in Private
      /\ source = "artifactory_xray" => registryId' \in Xray
      /\ source \in {"public", "local_archive"} => registryId' = Nothing
  <2>1. CASE source = "private_registry"
    <3>1. Private # {}
      BY <2>1 DEF Available
    <3>2. OfKind(Private) # {} /\ OfKind(Private) \subseteq Private
      BY <3>1, <1>4
    <3>3. ProposedRegistries(source) = OfKind(Private)
      BY <2>1, <3>2 DEF ProposedRegistries
    <3> QED
      BY <1>1, <2>1, <3>2, <3>3
  <2>2. CASE source = "artifactory_xray"
    <3>1. Xray # {}
      BY <2>2 DEF Available
    <3>2. OfKind(Xray) # {} /\ OfKind(Xray) \subseteq Xray
      BY <3>1, <1>4
    <3>3. ProposedRegistries(source) = OfKind(Xray)
      BY <2>2, <3>2 DEF ProposedRegistries
    <3> QED
      BY <1>1, <2>2, <3>2, <3>3
  <2>3. CASE source \in {"public", "local_archive"}
    <3>1. ProposedRegistries(source) = {Nothing}
      BY <2>3 DEF ProposedRegistries
    <3> QED
      BY <1>1, <2>3, <3>1
  <2> QED
    BY <2>1, <2>2, <2>3 DEF Sources
<1>6. SourceHasRegistry'
  BY <1>1, <1>3, <1>5 DEF SourceHasRegistry
<1>7. xrayRepository' \in Repositories \cup {Nothing}
  BY <1>1, <1>3, <1>5 DEF Repositories
<1>8. FormData'
  <2>1. registryId' \in Registries \cup {Nothing}
    BY <1>3, <1>5 DEF Sources
  <2>2. listEffectDue' \in BOOLEAN
    BY EffectNoted DEF FormInv, FormData
  <2>3. scanSource' \in Sources /\ scanSource' # Nothing
    BY <1>1, FormConstants
  <2> QED
    BY <1>1, <1>2, <1>7, <2>1, <2>2, <2>3 DEF FormInv, FormData
<1>9. EffectHasRun'
  <2> SUFFICES ASSUME SelectedXray' # Nothing
               PROVE  (xrayRepository # Nothing /\ xrayRepository.of = SelectedXray)'
    BY DEF EffectHasRun
  <2>1. scanSource' = "artifactory_xray" /\ SelectedXray' = registryId'
    BY DEF SelectedXray
  <2>2. xrayRepository' = [of |-> registryId', how |-> "default"]
    BY <1>1, <2>1
  <2>3. xrayRepository' \in Repositories
    BY <1>1, <1>3, <1>5, <2>1, <2>2 DEF Repositories
  <2> QED
    BY <2>1, <2>2, <2>3, FormConstants
<1>10. ChoicesFit'
  BY <1>1, SubmittedStays DEF FormInv
<1> QED
  BY <1>6, <1>8, <1>9, <1>10 DEF FormInv

LEMMA AutoSelectKeeps ==
  ASSUME FormInv, AutoSelect
  PROVE  FormInv'
<1>1. chosenSource = Nothing /\ UNCHANGED <<loadVars, chosenSource, submitted>> /\ NoteEffect
  BY DEF AutoSelect
<1>2. /\ FirstAvailable \in Sources /\ SelectScanSource(FirstAvailable)
      /\ FirstAvailable \in {"private_registry", "artifactory_xray"} => Available(FirstAvailable)
  BY DEF AutoSelect, FirstAvailable, Sources
<1> QED
  BY <1>1, <1>2, SelectKeeps

LEMMA ChooseKeeps ==
  ASSUME FormInv, NEW source \in Sources, ChooseScanSource(source)
  PROVE  FormInv'
<1>1. /\ chosenSource' = source /\ Available(source) /\ SelectScanSource(source)
      /\ UNCHANGED <<loadVars, submitted>> /\ NoteEffect
  BY DEF ChooseScanSource
<1> QED
  BY <1>1, SelectKeeps

LEMMA HandleImageInputKeeps ==
  ASSUME FormInv, NEW match \in Private \cup {Nothing}, HandleImageInput(match)
  PROVE  FormInv'
<1>1. /\ chosenSource = Nothing /\ UNCHANGED <<loadVars, chosenSource, submitted>> /\ NoteEffect
  BY DEF HandleImageInput
<1>2. CASE match = Nothing
  <2>1. SelectScanSource("public")
    BY <1>2 DEF HandleImageInput, FollowImage
  <2>2. "public" \in Sources
    BY DEF Sources
  <2> QED
    BY <1>1, <2>1, <2>2, SelectKeeps
<1>3. CASE match # Nothing
  <2>1. scanSource' = "private_registry" /\ registryId' = match /\ UNCHANGED xrayVars
    BY <1>3 DEF HandleImageInput, FollowImage
  <2>2. match \in Registries \ XrayRegistries
    BY <1>3 DEF Private, FormInv, FormData
  <2>3. listEffectDue' \in BOOLEAN
    BY <1>1, EffectNoted DEF FormInv, FormData
  <2>4. FormData'
    BY <1>1, <2>1, <2>2, <2>3, FormConstants DEF FormInv, FormData, loadVars, xrayVars, Sources
  <2>5. SourceHasRegistry'
    BY <2>1, <2>2 DEF SourceHasRegistry
  <2>6. EffectHasRun'
    BY <2>1 DEF EffectHasRun, SelectedXray
  <2>7. ChoicesFit'
    BY <1>1, SubmittedStays DEF FormInv
  <2> QED
    BY <2>4, <2>5, <2>6, <2>7 DEF FormInv
<1> QED
  BY <1>2, <1>3

LEMMA SelectRegistryKeeps ==
  ASSUME FormInv, NEW r \in registries, SelectRegistry(r)
  PROVE  FormInv'
<1>1. /\ registryId' = r /\ UNCHANGED <<loadVars, sourceVars, xrayVars, submitted>> /\ NoteEffect
      /\ \/ scanSource = "private_registry" /\ r \in Private
         \/ scanSource = "artifactory_xray" /\ r \in Xray
  BY DEF SelectRegistry
<1>2. listEffectDue' \in BOOLEAN
  BY <1>1, EffectNoted DEF FormInv, FormData
<1>3. FormData'
  BY <1>1, <1>2 DEF FormInv, FormData, loadVars, sourceVars, xrayVars
<1>4. SourceHasRegistry'
  BY <1>1 DEF SourceHasRegistry, sourceVars, Private, Xray, FormInv, FormData
<1>5. EffectHasRun'
  BY <1>1, NotedEffect DEF FormInv, EffectHasRun, xrayVars
<1>6. ChoicesFit'
  BY <1>1, SubmittedStays DEF FormInv, ChoicesFit, ManualChoiceKept, sourceVars
<1> QED
  BY <1>3, <1>4, <1>5, <1>6 DEF FormInv

-----------------------------------------------------------------------------
(* The loads *)

LEMMA RegistriesArriveKeeps ==
  ASSUME FormInv, RegistriesArrive
  PROVE  FormInv'
<1>1. /\ registries' = RegistriesOf[formScope] /\ listEffectDue' = TRUE
      /\ UNCHANGED <<formScope, sourceVars, xrayVars, submitted>>
      /\ registryId' = registryId \/ (registryId = Nothing /\ registryId' \in DefaultRegistries)
  BY DEF RegistriesArrive
<1>2. registries' \subseteq Registries
  BY <1>1, FormConstants DEF FormInv, FormData
<1>3. registryId' \in Registries \cup {Nothing}
  BY <1>1, FormConstants DEF FormInv, FormData
<1>4. FormData'
  BY <1>1, <1>2, <1>3 DEF FormInv, FormData, sourceVars, xrayVars
<1>5. SourceHasRegistry'
  BY <1>1, FormConstants DEF FormInv, SourceHasRegistry, sourceVars
<1>6. EffectHasRun'
  BY <1>1 DEF EffectHasRun
<1>7. ChoicesFit'
  BY <1>1, SubmittedStays DEF FormInv, ChoicesFit, ManualChoiceKept, sourceVars
<1> QED
  BY <1>4, <1>5, <1>6, <1>7 DEF FormInv

(* What is loaded besides does not touch the choices.                      *)
LEMMA LoadStays ==
  ASSUME FormInv, formScope' \in Workspaces,
         UNCHANGED <<registries, enableTrivy, sourceVars, registryId, xrayVars, listEffectDue,
                     submitted>>
  PROVE  FormInv'
<1>1. FormData'
  BY DEF FormInv, FormData, sourceVars, xrayVars
<1>2. SourceHasRegistry' /\ EffectHasRun'
  BY DEF FormInv, SourceHasRegistry, EffectHasRun, SelectedXray, Xray, sourceVars, xrayVars
<1>3. ChoicesFit'
  BY SubmittedStays DEF FormInv, ChoicesFit, ManualChoiceKept, sourceVars
<1> QED
  BY <1>1, <1>2, <1>3 DEF FormInv

LEMMA RepositoriesEffectKeeps ==
  ASSUME FormInv, RepositoriesEffect
  PROVE  FormInv'
<1>1. /\ UNCHANGED <<formScope, registries, sourceVars, registryId, repositoryLists, submitted>>
      /\ xrayRepository' = IF SelectedXray = Nothing THEN Nothing
                           ELSE [of |-> SelectedXray, how |-> "default"]
      /\ listEffectDue' = FALSE
  BY DEF RepositoriesEffect, loadVars
<1>2. repositoriesLoading' \in repositoriesAsked' \cup {Nothing}
  BY DEF RepositoriesEffect, FormInv, FormData
<1>3. SelectedXray # Nothing => SelectedXray \in XrayRegistries
  BY DEF SelectedXray, Xray
<1>4. xrayRepository' \in Repositories \cup {Nothing}
  BY <1>1, <1>3 DEF Repositories
<1>5. FormData'
  BY <1>1, <1>2, <1>4 DEF FormInv, FormData, sourceVars
<1>6. SourceHasRegistry'
  BY <1>1 DEF FormInv, SourceHasRegistry, sourceVars
<1>7. SelectedXray' = SelectedXray
  BY <1>1 DEF SelectedXray, Xray, sourceVars
<1>8. EffectHasRun'
  <2> SUFFICES ASSUME SelectedXray # Nothing
               PROVE  (xrayRepository # Nothing)' /\ xrayRepository'.of = SelectedXray
    BY <1>7 DEF EffectHasRun
  <2>1. xrayRepository' = [of |-> SelectedXray, how |-> "default"]
    BY <1>1
  <2>2. xrayRepository' \in Repositories
    BY <1>3, <2>1 DEF Repositories
  <2> QED
    BY <2>1, <2>2, FormConstants
<1>9. ChoicesFit'
  BY <1>1, SubmittedStays DEF FormInv, ChoicesFit, ManualChoiceKept, sourceVars
<1> QED
  BY <1>5, <1>6, <1>8, <1>9 DEF FormInv

(* An answer, or a retry: the lists change, and the effect notes it.       *)
LEMMA ListsChange ==
  ASSUME FormInv, NoteEffect,
         UNCHANGED <<formScope, registries, sourceVars, registryId, xrayRepository, submitted>>,
         repositoryLists' \in [XrayRegistries -> {"none", "list", "error"}],
         repositoriesLoading' \in repositoriesAsked' \cup {Nothing}
  PROVE  FormInv'
<1>1. listEffectDue' \in BOOLEAN
  BY EffectNoted DEF FormInv, FormData
<1>2. FormData'
  BY <1>1 DEF FormInv, FormData, sourceVars
<1>3. SourceHasRegistry'
  BY DEF FormInv, SourceHasRegistry, sourceVars
<1>4. EffectHasRun'
  BY NotedEffect DEF FormInv, EffectHasRun
<1>5. ChoicesFit'
  BY SubmittedStays DEF FormInv, ChoicesFit, ManualChoiceKept, sourceVars
<1> QED
  BY <1>2, <1>3, <1>4, <1>5 DEF FormInv

LEMMA RepositoriesArriveKeeps ==
  ASSUME FormInv, NEW r \in XrayRegistries, NEW answer \in {"list", "error"},
         RepositoriesArrive(r, answer)
  PROVE  FormInv'
<1>1. /\ repositoriesAsked' = repositoriesAsked \ {r}
      /\ repositoryLists' = [repositoryLists EXCEPT ![r] = answer]
      /\ repositoriesLoading' = IF repositoriesLoading = r THEN Nothing ELSE repositoriesLoading
      /\ UNCHANGED <<loadVars, sourceVars, registryId, xrayRepository, submitted>> /\ NoteEffect
  BY DEF RepositoriesArrive
<1>2. repositoriesLoading' \in repositoriesAsked' \cup {Nothing}
  BY <1>1 DEF FormInv, FormData
<1>3. repositoryLists' \in [XrayRegistries -> {"none", "list", "error"}]
  BY <1>1 DEF FormInv, FormData
<1> QED
  BY <1>1, <1>2, <1>3, ListsChange DEF loadVars

LEMMA RetryRepositoriesKeeps ==
  ASSUME FormInv, RetryRepositories
  PROVE  FormInv'
<1>1. /\ repositoryLists' = [repositoryLists EXCEPT ![SelectedXray] = "none"]
      /\ UNCHANGED <<loadVars, sourceVars, registryId, xrayRepository, repositoriesAsked,
                     repositoriesLoading, submitted>>
      /\ NoteEffect
  BY DEF RetryRepositories
<1>2. repositoryLists' \in [XrayRegistries -> {"none", "list", "error"}]
  BY <1>1 DEF FormInv, FormData
<1>3. repositoriesLoading' \in repositoriesAsked' \cup {Nothing}
  BY <1>1 DEF FormInv, FormData
<1> QED
  BY <1>1, <1>2, <1>3, ListsChange DEF loadVars

LEMMA EnterRepositoryKeeps ==
  ASSUME FormInv, EnterRepository
  PROVE  FormInv'
<1>1. /\ SelectedXray # Nothing /\ xrayRepository' = [of |-> SelectedXray, how |-> "entered"]
      /\ UNCHANGED <<loadVars, sourceVars, registryId, repositoryLists, repositoriesAsked,
                     repositoriesLoading, listEffectDue, submitted>>
  BY DEF EnterRepository
<1>2. SelectedXray \in XrayRegistries /\ SelectedXray' = SelectedXray
  BY <1>1 DEF SelectedXray, Xray, sourceVars, loadVars
<1>3. xrayRepository' \in Repositories
  BY <1>1, <1>2 DEF Repositories
<1>4. FormData'
  BY <1>1, <1>3 DEF FormInv, FormData, sourceVars, loadVars
<1>5. SourceHasRegistry'
  BY <1>1 DEF FormInv, SourceHasRegistry, sourceVars
<1>6. xrayRepository'.of = SelectedXray' /\ (xrayRepository # Nothing)'
  BY <1>1, <1>2, <1>3, FormConstants
<1>7. EffectHasRun'
  BY <1>6 DEF EffectHasRun
<1>8. ChoicesFit'
  BY <1>1, SubmittedStays DEF FormInv, ChoicesFit, ManualChoiceKept, sourceVars
<1> QED
  BY <1>4, <1>5, <1>7, <1>8 DEF FormInv

LEMMA HandleCreateKeeps ==
  ASSUME FormInv, HandleCreate
  PROVE  FormInv'
<1> DEFINE registry == IF scanSource \in {"public", "local_archive"} THEN Nothing ELSE registryId
           repository == IF SelectedXray = Nothing THEN Nothing ELSE xrayRepository
<1>1. /\ scanSource # Nothing /\ ~ listEffectDue
      /\ submitted'.source = scanSource /\ submitted'.registry = registry
      /\ submitted'.repository = repository
      /\ UNCHANGED <<loadVars, sourceVars, registryId, xrayVars, listEffectDue>>
  BY DEF HandleCreate, MayCreate
<1>2. FormData'
  BY <1>1 DEF FormInv, FormData, sourceVars, loadVars, xrayVars
<1>3. SourceHasRegistry' /\ EffectHasRun'
  BY <1>1 DEF FormInv, SourceHasRegistry, EffectHasRun, SelectedXray, Xray, sourceVars, xrayVars,
              loadVars
<1>4. RegistryFitsSource'
  BY <1>1 DEF RegistryFitsSource, FormInv, SourceHasRegistry
<1>5. RepositoryFitsRegistry'
  <2> SUFFICES ASSUME SelectedXray # Nothing PROVE xrayRepository.of = registry
    BY <1>1 DEF RepositoryFitsRegistry
  <2>1. scanSource = "artifactory_xray" /\ SelectedXray = registryId
    BY DEF SelectedXray
  <2> QED
    BY <1>1, <2>1 DEF FormInv, EffectHasRun
<1>6. ManualChoiceKept'
  BY <1>1 DEF FormInv, ChoicesFit, ManualChoiceKept, sourceVars
<1> QED
  BY <1>2, <1>3, <1>4, <1>5, <1>6 DEF FormInv, ChoicesFit

LEMMA FormNextInv ==
  ASSUME FormInv, [FormNext]_formVars
  PROVE  FormInv'
<1>1. CASE RegistriesFail \/ RetryRegistries
  BY <1>1, LoadStays DEF RegistriesFail, RetryRegistries, FormInv, FormData
<1>2. CASE \E scope \in Workspaces : ChangeFormScope(scope)
  BY <1>2, LoadStays DEF ChangeFormScope
<1>3. CASE UNCHANGED formVars
  BY <1>3, LoadStays DEF formVars, loadVars, FormInv, FormData
<1>4. CASE \E source \in Sources : ChooseScanSource(source)
  BY <1>4, ChooseKeeps
<1>5. CASE \E match \in Private \cup {Nothing} : HandleImageInput(match)
  BY <1>5, HandleImageInputKeeps
<1>6. CASE \E r \in registries : SelectRegistry(r)
  BY <1>6, SelectRegistryKeeps
<1>7. CASE \E r \in XrayRegistries : \E answer \in {"list", "error"} : RepositoriesArrive(r, answer)
  BY <1>7, RepositoriesArriveKeeps
<1> QED
  BY <1>1, <1>2, <1>3, <1>4, <1>5, <1>6, <1>7, RegistriesArriveKeeps, AutoSelectKeeps,
     RepositoriesEffectKeeps, RetryRepositoriesKeeps, EnterRepositoryKeeps, HandleCreateKeeps
     DEF FormNext

(* The inductive invariant: the registry is of the kind the source asks    *)
(* for, and once the effect has run the repository is one of the registry  *)
(* (app/(app)/scans/new/page.tsx).                                         *)
THEOREM FormInvariant == FormSpec => []FormInv
BY FormInitInv, FormNextInv, PTL DEF FormSpec

(* The choices of the form fit together whenever it is submitted, and what *)
(* the user has chosen stays, for any workspaces and registries and in     *)
(* whatever order the answers arrive.                                      *)
THEOREM ChoicesAlwaysFit == FormSpec => []ChoicesFit
<1>1. FormInv => ChoicesFit
  BY DEF FormInv
<1> QED
  BY <1>1, FormInvariant, PTL

-----------------------------------------------------------------------------
(* The Process Center *)

(* What a poll has read of an ended job is so: an end is never taken back. *)
AnswerIsTrue ==
    live # NoRequest /\ live.phase = "answered" =>
        \A j \in Jobs : live.jobs[j] \in JobEnd => server[j] \in JobEnd

(* A deletion is stored before the page waits for it.                      *)
CenterInv ==
    /\ server \in [Jobs -> {"none"} \cup Status]
    /\ post \in [Deletions -> {"idle", "sent", "answered", "done"}]
    /\ AnswerIsTrue /\ OneLiveRequest /\ ClearedWhenEnded

LEMMA CenterInitInv == CenterInit => CenterInv
<1> SUFFICES ASSUME CenterInit PROVE CenterInv
  OBVIOUS
<1>1. AnswerIsTrue
  BY DEF CenterInit, AnswerIsTrue
<1>2. OneLiveRequest
  BY CenterConstants DEF CenterInit, OneLiveRequest, PollRequest
<1>3. ClearedWhenEnded
  BY DEF CenterInit, ClearedWhenEnded
<1> QED
  BY <1>1, <1>2, <1>3 DEF CenterInv, CenterInit

(* The job list alone changes: a job that had ended still has.             *)
LEMMA ServerGoesOn ==
  ASSUME CenterInv, server' \in [Jobs -> {"none"} \cup Status],
         \A j \in Jobs : server[j] \in JobEnd => server'[j] \in JobEnd,
         UNCHANGED <<inFlight, live, waiting>>,
         post' \in [Deletions -> {"idle", "sent", "answered", "done"}],
         \A j \in Deletions : post'[j] = "done" => post[j] = "done"
  PROVE  CenterInv'
<1>1. AnswerIsTrue'
  BY DEF CenterInv, AnswerIsTrue
<1>2. OneLiveRequest'
  BY DEF CenterInv, OneLiveRequest
<1>3. ClearedWhenEnded'
  BY CenterConstants DEF CenterInv, ClearedWhenEnded
<1> QED
  BY <1>1, <1>2, <1>3 DEF CenterInv

(* A new job replaces none that has ended.                                 *)
LEMMA StartGoesOn ==
  ASSUME CenterInv, NEW j \in Jobs, StartJob(j)
  PROVE  /\ server' \in [Jobs -> {"none"} \cup Status]
         /\ \A i \in Jobs : server[i] \in JobEnd => server'[i] \in JobEnd
BY DEF CenterInv, StartJob, Status, JobEnd

LEMMA EndJobKeeps ==
  ASSUME CenterInv, NEW j \in Jobs, NEW end \in JobEnd, EndJob(j, end)
  PROVE  CenterInv'
<1>1. /\ server' = [server EXCEPT ![j] = end] /\ server[j] = "active"
      /\ UNCHANGED <<inFlight, live, waiting, post>>
  BY DEF EndJob, pollVars, pageVars
<1>2. /\ server' \in [Jobs -> {"none"} \cup Status]
      /\ \A i \in Jobs : server[i] \in JobEnd => server'[i] \in JobEnd
  BY <1>1 DEF CenterInv, Status
<1>3. post' \in [Deletions -> {"idle", "sent", "answered", "done"}]
  BY <1>1 DEF CenterInv
<1> QED
  BY <1>1, <1>2, <1>3, ServerGoesOn

LEMMA OthersStartKeeps ==
  ASSUME CenterInv, NEW j \in Jobs, OthersStart(j)
  PROVE  CenterInv'
<1>1. StartJob(j) /\ UNCHANGED <<inFlight, live, waiting, post>>
  BY DEF OthersStart, pollVars, pageVars
<1>2. post' \in [Deletions -> {"idle", "sent", "answered", "done"}]
  BY <1>1 DEF CenterInv
<1> QED
  BY <1>1, <1>2, StartGoesOn, ServerGoesOn

LEMMA DeletionKeeps ==
  ASSUME CenterInv, NEW j \in Deletions, ConfirmDelete(j) \/ DeleteAccepted(j)
  PROVE  CenterInv'
<1>1. j \in Jobs
  BY CenterConstants
<1>2. /\ UNCHANGED <<inFlight, live, waiting>>
      /\ \/ post' = [post EXCEPT ![j] = "sent"] \/ post' = [post EXCEPT ![j] = "answered"]
      /\ StartJob(j) \/ UNCHANGED server
  BY DEF ConfirmDelete, DeleteAccepted, pollVars, pageVars, serverVars
<1>3. /\ post' \in [Deletions -> {"idle", "sent", "answered", "done"}]
      /\ \A i \in Deletions : post'[i] = "done" => post[i] = "done"
  BY <1>2 DEF CenterInv
<1>4. /\ server' \in [Jobs -> {"none"} \cup Status]
      /\ \A i \in Jobs : server[i] \in JobEnd => server'[i] \in JobEnd
  BY <1>1, <1>2, StartGoesOn DEF CenterInv
<1> QED
  BY <1>2, <1>3, <1>4, ServerGoesOn

(* The request alone changes.                                              *)
LEMMA RequestGoesOn ==
  ASSUME CenterInv, UNCHANGED <<server, post, waiting>>, AnswerIsTrue', OneLiveRequest'
  PROVE  CenterInv'
BY DEF CenterInv, ClearedWhenEnded

LEMMA ListAnsweredKeeps ==
  ASSUME CenterInv, ListAnswered
  PROVE  CenterInv'
<1>1. /\ live # NoRequest /\ live' = [phase |-> "answered", jobs |-> ListAuthorized]
      /\ UNCHANGED <<server, post, waiting, inFlight>>
  BY DEF ListAnswered, serverVars, pageVars
<1>2. ASSUME NEW j \in Jobs, ListAuthorized[j] \in JobEnd
      PROVE  server[j] \in JobEnd
  BY <1>2 DEF ListAuthorized, JobEnd
<1>3. AnswerIsTrue'
  BY <1>1, <1>2 DEF AnswerIsTrue
<1>4. live' # NoRequest
  <2>1. ListAuthorized \in Answer
    BY DEF CenterInv, ListAuthorized, Answer, Row
  <2>2. live' \in PollRequest
    BY <1>1, <2>1 DEF PollRequest
  <2> QED
    BY <2>2, CenterConstants
<1>5. OneLiveRequest'
  BY <1>1, <1>4 DEF CenterInv, OneLiveRequest
<1> QED
  BY <1>1, <1>3, <1>5, RequestGoesOn

LEMMA ListFailsKeeps ==
  ASSUME CenterInv, ListFails
  PROVE  CenterInv'
<1>1. live' = NoRequest /\ inFlight' = FALSE /\ UNCHANGED <<server, post, waiting>>
  BY DEF ListFails, serverVars, pageVars
<1>2. AnswerIsTrue' /\ OneLiveRequest'
  BY <1>1 DEF AnswerIsTrue, OneLiveRequest
<1> QED
  BY <1>1, <1>2, RequestGoesOn

(* A request is sent, or one is under way.                                 *)
LEMMA SentIsLive ==
  ASSUME CenterInv,
         \/ inFlight' = TRUE /\ live' = [phase |-> "sent"]
         \/ UNCHANGED <<server, inFlight, live>>
  PROVE  AnswerIsTrue' /\ OneLiveRequest'
<1>1. [phase |-> "sent"] # NoRequest
  BY CenterConstants DEF PollRequest
<1> QED
  BY <1>1 DEF CenterInv, AnswerIsTrue, OneLiveRequest

LEMMA SwitchScopeKeeps ==
  ASSUME CenterInv, NEW s \in Scopes, SwitchScope(s)
  PROVE  CenterInv'
<1>1. inFlight' = TRUE /\ live' = [phase |-> "sent"] /\ UNCHANGED <<server, post, waiting>>
  BY DEF SwitchScope, serverVars, pageVars
<1> QED
  BY <1>1, SentIsLive, RequestGoesOn

LEMMA PollKeeps ==
  ASSUME CenterInv, Poll
  PROVE  CenterInv'
<1>1. LoadJobs /\ UNCHANGED <<server, post, waiting>>
  BY DEF Poll, serverVars, pageVars
<1> QED
  BY <1>1, SentIsLive, RequestGoesOn DEF LoadJobs

(* What the poll takes for ended has ended.                                *)
LEMMA ListArrivesKeeps ==
  ASSUME CenterInv, ListArrives
  PROVE  CenterInv'
<1> DEFINE over == NewlyFinished(live.jobs)
<1>1. /\ live # NoRequest /\ live.phase = "answered" /\ waiting' = waiting \ over
      /\ live' = NoRequest /\ inFlight' = FALSE /\ UNCHANGED <<server, post>>
  BY DEF ListArrives, serverVars
<1>2. \A j \in over : j \in Jobs /\ server[j] \in JobEnd
  BY <1>1 DEF CenterInv, AnswerIsTrue, NewlyFinished
<1> HIDE DEF over
<1>3. AnswerIsTrue' /\ OneLiveRequest'
  BY <1>1 DEF AnswerIsTrue, OneLiveRequest
<1>4. ClearedWhenEnded'
  BY <1>1, <1>2 DEF CenterInv, ClearedWhenEnded
<1> QED
  BY <1>1, <1>3, <1>4 DEF CenterInv

LEMMA OnEnqueuedKeeps ==
  ASSUME CenterInv, NEW j \in Deletions, OnEnqueued(j)
  PROVE  CenterInv'
<1>1. /\ LoadJobs /\ waiting' = waiting \cup {j} /\ post' = [post EXCEPT ![j] = "done"]
      /\ UNCHANGED server
  BY DEF OnEnqueued, serverVars
<1>2. AnswerIsTrue' /\ OneLiveRequest'
  BY <1>1, SentIsLive DEF LoadJobs
<1>3. ClearedWhenEnded'
  BY <1>1 DEF CenterInv, ClearedWhenEnded
<1>4. post' \in [Deletions -> {"idle", "sent", "answered", "done"}]
  BY <1>1 DEF CenterInv
<1> QED
  BY <1>1, <1>2, <1>3, <1>4 DEF CenterInv

LEMMA OtherKeeps ==
  ASSUME CenterInv, UNCHANGED <<server, inFlight, live, post, waiting>>
  PROVE  CenterInv'
BY DEF CenterInv, AnswerIsTrue, OneLiveRequest, ClearedWhenEnded

LEMMA CenterNextInv ==
  ASSUME CenterInv, [CenterNext]_centerVars
  PROVE  CenterInv'
<1>1. CASE AbortedSettles \/ ChangeVisibility \/ DismissJobs \/ UNCHANGED centerVars
  BY <1>1, OtherKeeps DEF AbortedSettles, ChangeVisibility, DismissJobs, centerVars, serverVars,
                          pollVars, pageVars
<1>2. ASSUME NEW d \in dismissals, DismissFails(d) \/ DismissAnswered(d)
      PROVE  CenterInv'
  BY <1>2, OtherKeeps DEF DismissFails, DismissAnswered, serverVars, pollVars, pageVars
<1>3. ASSUME NEW d \in dismissals, NEW j \in Jobs, DismissOne(d, j)
      PROVE  CenterInv'
  BY <1>3, OtherKeeps DEF DismissOne, pollVars, pageVars
<1>4. CASE DismissStep
  BY <1>2, <1>3, <1>4 DEF DismissStep
<1>5. CASE \E j \in Jobs : OthersStart(j) \/ \E end \in JobEnd : EndJob(j, end)
  BY <1>5, OthersStartKeeps, EndJobKeeps
<1>6. CASE \E j \in Deletions : ConfirmDelete(j) \/ DeleteAccepted(j) \/ OnEnqueued(j)
  BY <1>6, DeletionKeeps, OnEnqueuedKeeps
<1>7. CASE \E s \in Scopes : SwitchScope(s)
  BY <1>7, SwitchScopeKeeps
<1> QED
  BY <1>1, <1>2, <1>4, <1>5, <1>6, <1>7, ListAnsweredKeeps, ListArrivesKeeps, ListFailsKeeps,
     PollKeeps DEF CenterNext

(* The inductive invariant: an end that a poll has read is never taken     *)
(* back, and the flag is up exactly while there is a request to take it    *)
(* down (background-process-center.tsx).                                   *)
THEOREM CenterInvariant == CenterSpec => []CenterInv
BY CenterInitInv, CenterNextInv, PTL DEF CenterSpec

(* A deletion leaves the page's list only when its job has ended, whatever *)
(* polls were aborted or answered late (handleFinished, scans/page.tsx).   *)
THEOREM DeletionsClearWhenEnded == CenterSpec => []ClearedWhenEnded
<1>1. CenterInv => ClearedWhenEnded
  BY DEF CenterInv
<1> QED
  BY <1>1, CenterInvariant, PTL

(* No poll that is aborted lets a second request start or leaves polling   *)
(* stopped (abortRef, inFlightRef).                                        *)
THEOREM OneRequestAtATime == CenterSpec => []OneLiveRequest
<1>1. CenterInv => OneLiveRequest
  BY DEF CenterInv
<1> QED
  BY <1>1, CenterInvariant, PTL

-----------------------------------------------------------------------------
(* The rows and the requests of the Process Center *)

RowsOf(list) == {j \in Jobs : list[j] # "absent"}

CreatedInv ==
    /\ server \in [Jobs -> {"none"} \cup Status]
    /\ created \in Seq(Jobs)
    /\ \A j \in Jobs : server[j] # "none" <=> \E i \in DOMAIN created : created[i] = j
    /\ \A a, b \in DOMAIN created : created[a] = created[b] => a = b

DrawerInv ==
    /\ centerScope \in Scopes /\ shownScope \in Scopes
    /\ shown \in Answer /\ previous \in Answer
    /\ Cardinality(RowsOf(shown)) <= JobLimit

(* Every aborted request was aborted by a switch of the workspace. *)
RequestsInv ==
    /\ inFlight \in BOOLEAN /\ visible \in BOOLEAN
    /\ live \in PollRequest \cup {NoRequest}
    /\ switches \in 0 .. MaxSwitches /\ faults \in 0 .. MaxFaults
    /\ aborted \in 0 .. switches

UserInv ==
    /\ hidden \subseteq Jobs
    /\ post \in [Deletions -> {"idle", "sent", "answered", "done"}]
    /\ waiting \subseteq Deletions
    /\ dismissals \subseteq Dismissal

CenterTypeInv == CreatedInv /\ DrawerInv /\ RequestsInv /\ UserInv

LEMMA CenterTypesHold == CenterTypeInv => CenterTypeOK
<1>1. {MaxSwitches, MaxFaults} \subseteq Nat
  BY CenterConstants
<1>2. RequestsInv => aborted \in 0 .. MaxSwitches
  BY <1>1 DEF RequestsInv
<1> QED
  BY <1>1, <1>2 DEF CenterTypeInv, CreatedInv, DrawerInv, RequestsInv, UserInv, CenterTypeOK, RowsOf

LEMMA CenterTypeInitInv == CenterInit => CenterTypeInv
<1> SUFFICES ASSUME CenterInit PROVE CenterTypeInv
  OBVIOUS
<1> USE DEF CenterInit
<1>1. FirstScope \in Scopes /\ {MaxSwitches, MaxFaults} \subseteq Nat /\ JobLimit \in Nat
  BY CenterConstants
<1>2. CreatedInv
  BY DEF CreatedInv, Status
<1>3. DrawerInv
  <2>1. NoJobs \in Answer
    BY DEF NoJobs, Answer, Row
  <2>2. RowsOf(NoJobs) = {}
    BY DEF RowsOf, NoJobs
  <2> QED
    BY <1>1, <2>1, <2>2, FS_EmptySet DEF DrawerInv
<1>4. RequestsInv
  BY <1>1 DEF RequestsInv, PollRequest
<1>5. UserInv
  BY DEF UserInv
<1> QED
  BY <1>2, <1>3, <1>4, <1>5 DEF CenterTypeInv

(* Whatever list is cut, as many rows remain as the drawer shows. *)
LEMMA LimitedRows ==
  ASSUME NEW list \in Answer, NEW cut \in Limited(list)
  PROVE  cut \in Answer /\ Cardinality(RowsOf(cut)) <= JobLimit
<1>1. PICK kept \in SUBSET RowsOf(list) :
        /\ Cardinality(kept) = IF Cardinality(RowsOf(list)) < JobLimit
                               THEN Cardinality(RowsOf(list)) ELSE JobLimit
        /\ cut = [j \in Jobs |-> IF j \in kept THEN list[j] ELSE "absent"]
  BY DEF Limited, RowsOf
<1>2. RowsOf(cut) = kept
  BY <1>1 DEF RowsOf
<1>3. Cardinality(RowsOf(list)) \in Nat /\ JobLimit \in Nat
  <2>1. IsFiniteSet(RowsOf(list))
    BY CenterConstants, FS_Subset DEF RowsOf
  <2> QED
    BY <2>1, FS_CardinalityType, CenterConstants
<1>4. cut \in Answer
  BY <1>1 DEF Answer, Row
<1> QED
  BY <1>1, <1>2, <1>3, <1>4

(* Steps of the server alone. *)
LEMMA StartedOnce ==
  ASSUME CreatedInv, NEW j \in Jobs, StartJob(j)
  PROVE  CreatedInv'
<1>1. /\ server[j] = "none" /\ server' = [server EXCEPT ![j] = "active"]
      /\ created' = Append(created, j)
  BY DEF StartJob
<1>2. /\ created' \in Seq(Jobs)
      /\ DOMAIN created = 1..Len(created) /\ DOMAIN created' = 1..Len(created) + 1
      /\ Len(created) \in Nat /\ created'[Len(created) + 1] = j
      /\ \A i \in DOMAIN created : i \in DOMAIN created' /\ created'[i] = created[i]
  BY <1>1 DEF CreatedInv
<1>3. \A i \in DOMAIN created' : i \in DOMAIN created \/ i = Len(created) + 1
  BY <1>2
<1>4. server' \in [Jobs -> {"none"} \cup Status]
  BY <1>1 DEF CreatedInv, Status
<1>5. \A i \in DOMAIN created : created[i] # j
  BY <1>1 DEF CreatedInv
<1>6. \A a, b \in DOMAIN created' : created'[a] = created'[b] => a = b
  BY <1>2, <1>3, <1>5 DEF CreatedInv
<1>7. Len(created) + 1 \in DOMAIN created'
  BY <1>2
<1>8. ASSUME NEW i \in Jobs
      PROVE  server'[i] # "none" <=> \E k \in DOMAIN created' : created'[k] = i
  <2>1. CASE i = j
    BY <1>1, <1>2, <1>7, <2>1 DEF CreatedInv
  <2>2. CASE i # j
    <3>1. server'[i] = server[i]
      BY <1>1, <2>2 DEF CreatedInv
    <3>2. (\E k \in DOMAIN created' : created'[k] = i) <=> \E k \in DOMAIN created : created[k] = i
      BY <1>2, <1>3, <2>2
    <3> QED
      BY <3>1, <3>2 DEF CreatedInv
  <2> QED
    BY <2>1, <2>2
<1> QED
  BY <1>2, <1>4, <1>6, <1>8 DEF CreatedInv

LEMMA ServerTypes ==
  ASSUME CenterTypeInv, NEW j \in Jobs, OthersStart(j) \/ \E end \in JobEnd : EndJob(j, end)
  PROVE  CenterTypeInv'
<1>1. UNCHANGED <<hidden, drawerVars, pollVars, visible, pageVars, dismissals, centerBudget>>
  BY DEF OthersStart, EndJob
<1>2. DrawerInv' /\ RequestsInv' /\ UserInv'
  BY <1>1 DEF CenterTypeInv, DrawerInv, RequestsInv, UserInv, RowsOf, drawerVars, pollVars,
              pageVars, centerBudget
<1>3. ASSUME NEW end \in JobEnd, EndJob(j, end) PROVE CreatedInv'
  BY <1>3 DEF CenterTypeInv, CreatedInv, EndJob, JobEnd, Status
<1>4. CASE OthersStart(j)
  BY <1>2, <1>4, StartedOnce DEF OthersStart, CenterTypeInv
<1> QED
  BY <1>2, <1>3, <1>4 DEF CenterTypeInv

(* Requests of the drawer: sent, answered, arrived, failed or aborted. *)
LEMMA RequestTypes ==
  ASSUME CenterTypeInv,
         \/ ListAnswered \/ ListFails \/ AbortedSettles \/ Poll \/ ChangeVisibility
         \/ \E s \in Scopes : SwitchScope(s)
  PROVE  CenterTypeInv'
<1> USE DEF serverVars, drawerVars, pollVars, pageVars, centerBudget
<1>1. CreatedInv /\ DrawerInv /\ RequestsInv /\ UserInv /\ {MaxSwitches, MaxFaults} \subseteq Nat
  BY CenterConstants DEF CenterTypeInv
<1>2. UNCHANGED <<server, created, hidden, post, waiting, dismissals, shown, shownScope>>
  BY DEF ListAnswered, ListFails, AbortedSettles, Poll, ChangeVisibility, SwitchScope
<1>3. CreatedInv' /\ UserInv'
  BY <1>1, <1>2 DEF CreatedInv, UserInv
<1>4. ListAuthorized \in Answer
  BY <1>1 DEF CreatedInv, ListAuthorized, Answer, Row
<1>5. /\ [phase |-> "answered", jobs |-> ListAuthorized] \in PollRequest
      /\ [phase |-> "sent"] \in PollRequest
  BY <1>4 DEF PollRequest
<1>6. NoJobs \in Answer
  BY DEF NoJobs, Answer, Row
<1>7. DrawerInv'
  <2>1. centerScope' \in Scopes /\ previous' \in Answer
    BY <1>1, <1>6 DEF DrawerInv, ListAnswered, ListFails, AbortedSettles, Poll, ChangeVisibility,
                      SwitchScope
  <2> QED
    BY <1>1, <1>2, <2>1 DEF DrawerInv, RowsOf
<1>8. live' \in PollRequest \cup {NoRequest}
  BY <1>1, <1>5 DEF RequestsInv, ListAnswered, ListFails, AbortedSettles, Poll, LoadJobs,
                    ChangeVisibility, SwitchScope
<1>9. inFlight' \in BOOLEAN /\ visible' \in BOOLEAN
  BY <1>1 DEF RequestsInv, ListAnswered, ListFails, AbortedSettles, Poll, LoadJobs,
              ChangeVisibility, SwitchScope
<1>10. switches' \in 0..MaxSwitches /\ faults' \in 0..MaxFaults /\ aborted' \in 0..switches'
  BY <1>1 DEF RequestsInv, ListAnswered, ListFails, Fault, AbortedSettles, Poll,
              ChangeVisibility, SwitchScope
<1> QED
  BY <1>3, <1>7, <1>8, <1>9, <1>10 DEF CenterTypeInv, RequestsInv

LEMMA ListArrivesTypes ==
  ASSUME CenterTypeInv, ListArrives
  PROVE  CenterTypeInv'
<1> USE DEF serverVars, drawerVars, pollVars, pageVars, centerBudget
<1> PICK current \in {shown, IF shownScope = centerScope THEN shown ELSE NoJobs} :
           shown' \in MergeJobs(current, live.jobs)
  BY DEF ListArrives
<1> DEFINE merged  == [j \in Jobs |-> IF live.jobs[j] = "absent" /\ current[j] \in JobEnd
                                      THEN current[j] ELSE live.jobs[j]]
<1>1. CreatedInv /\ DrawerInv /\ RequestsInv /\ UserInv
  BY DEF CenterTypeInv
<1>2. /\ live # NoRequest /\ live.phase = "answered"
      /\ waiting' \subseteq waiting /\ shown' \in MergeJobs(current, live.jobs)
      /\ previous' = live.jobs /\ shownScope' = centerScope
      /\ live' = NoRequest /\ inFlight' = FALSE
      /\ UNCHANGED <<server, created, hidden, centerScope, aborted, visible, post, dismissals,
                     switches, faults>>
  BY DEF ListArrives, NextStatuses
<1>3. live.jobs \in Answer /\ current \in Answer
  <2>1. live.jobs \in Answer
    BY <1>1, <1>2 DEF RequestsInv, PollRequest
  <2>2. NoJobs \in Answer
    BY DEF NoJobs, Answer, Row
  <2> QED
    BY <1>1, <2>1, <2>2 DEF DrawerInv
<1>4. merged \in Answer
  BY <1>3 DEF Answer
<1>5. shown' \in Limited(merged)
  BY <1>2 DEF MergeJobs
<1> HIDE DEF merged
<1>6. shown' \in Answer /\ Cardinality(RowsOf(shown')) <= JobLimit
  BY <1>4, <1>5, LimitedRows
<1>7. DrawerInv'
  BY <1>1, <1>2, <1>3, <1>6 DEF DrawerInv, RowsOf
<1>8. CreatedInv' /\ RequestsInv' /\ UserInv'
  BY <1>1, <1>2 DEF CreatedInv, RequestsInv, UserInv
<1> QED
  BY <1>7, <1>8 DEF CenterTypeInv

(* The scan list queues a deletion. *)
LEMMA DeletionTypes ==
  ASSUME CenterTypeInv, NEW j \in Deletions, ConfirmDelete(j) \/ DeleteAccepted(j) \/ OnEnqueued(j)
  PROVE  CenterTypeInv'
<1> USE DEF serverVars, drawerVars, pollVars, pageVars, centerBudget
<1>1. CreatedInv /\ DrawerInv /\ RequestsInv /\ UserInv /\ j \in Jobs
  BY CenterConstants DEF CenterTypeInv
<1>2. CASE ConfirmDelete(j) \/ DeleteAccepted(j)
  <2>1. /\ UNCHANGED <<hidden, drawerVars, pollVars, visible, waiting, dismissals, centerBudget>>
        /\ post' = [post EXCEPT ![j] = "sent"] \/ post' = [post EXCEPT ![j] = "answered"]
        /\ StartJob(j) \/ UNCHANGED <<server, created>>
    BY <1>2 DEF ConfirmDelete, DeleteAccepted
  <2>2. DrawerInv' /\ RequestsInv' /\ UserInv'
    BY <1>1, <2>1 DEF DrawerInv, RequestsInv, UserInv, RowsOf
  <2>3. CreatedInv'
    BY <1>1, <2>1, StartedOnce DEF CreatedInv
  <2> QED
    BY <2>2, <2>3 DEF CenterTypeInv
<1>3. CASE OnEnqueued(j)
  <2>1. /\ previous' = [previous EXCEPT ![j] = "active"] /\ shownScope' = centerScope
        /\ shown' \in Limited([shown EXCEPT ![j] = "active"])
        /\ LoadJobs /\ waiting' = waiting \cup {j} /\ post' = [post EXCEPT ![j] = "done"]
        /\ UNCHANGED <<server, created, hidden, centerScope, aborted, visible, dismissals,
                       switches, faults>>
    BY <1>3 DEF OnEnqueued
  <2>2. previous' \in Answer /\ [shown EXCEPT ![j] = "active"] \in Answer
    BY <1>1, <2>1 DEF DrawerInv, Answer, Row, Status
  <2>3. shown' \in Answer /\ Cardinality(RowsOf(shown')) <= JobLimit
    BY <2>1, <2>2, LimitedRows
  <2>4. DrawerInv'
    BY <1>1, <2>1, <2>2, <2>3 DEF DrawerInv, RowsOf
  <2>5. RequestsInv'
    <3>1. inFlight' \in BOOLEAN /\ live' \in PollRequest \cup {NoRequest}
      <4>1. CASE inFlight
        BY <1>1, <2>1, <4>1 DEF RequestsInv, LoadJobs
      <4>2. CASE ~ inFlight
        <5>1. inFlight' = TRUE /\ live' = [phase |-> "sent"]
          BY <2>1, <4>2 DEF LoadJobs
        <5> QED
          BY <5>1 DEF PollRequest
      <4> QED
        BY <4>1, <4>2
    <3> QED
      BY <1>1, <2>1, <3>1 DEF RequestsInv
  <2>6. CreatedInv' /\ UserInv'
    BY <1>1, <2>1 DEF CreatedInv, UserInv
  <2> QED
    BY <2>4, <2>5, <2>6 DEF CenterTypeInv
<1> QED
  BY <1>2, <1>3

(* Dismissals; rows only go. *)
LEMMA DismissalTypes ==
  ASSUME CenterTypeInv, DismissJobs \/ DismissStep \/ \E d \in dismissals : DismissFails(d)
  PROVE  CenterTypeInv'
<1> USE DEF serverVars, drawerVars, pollVars, pageVars, centerBudget
<1>1. /\ CreatedInv /\ DrawerInv /\ RequestsInv /\ UserInv
      /\ {MaxSwitches, MaxFaults} \subseteq Nat
  BY CenterConstants DEF CenterTypeInv
<1>2. UNCHANGED <<server, created, centerScope, shownScope, inFlight, live, aborted, visible, post,
                  waiting, switches>>
  BY DEF DismissJobs, DismissStep, DismissOne, DismissAnswered, DismissFails, Fault
<1>3. CreatedInv'
  BY <1>1, <1>2 DEF CreatedInv
<1>4. CASE DismissJobs
  <2>1. PICK ids : /\ ids \in {{j} : j \in EndedRows \ Dismissing}
                        \cup (IF Dismissing = {} /\ EndedRows # {} THEN {EndedRows} ELSE {})
                   /\ dismissals' = dismissals \cup {[ids |-> ids, done |-> {}, phase |-> "sent"]}
    BY <1>4 DEF DismissJobs
  <2>2. ids \in SUBSET Jobs
    BY <2>1 DEF EndedRows
  <2>3. [ids |-> ids, done |-> {}, phase |-> "sent"] \in Dismissal
    BY <2>2 DEF Dismissal
  <2>4. UNCHANGED <<hidden, drawerVars, faults>>
    BY <1>4 DEF DismissJobs
  <2> QED
    BY <1>1, <1>2, <1>3, <2>1, <2>3, <2>4
    DEF CenterTypeInv, DrawerInv, RequestsInv, UserInv, RowsOf
<1>5. ASSUME NEW d \in dismissals, NEW j \in Jobs, DismissOne(d, j)
      PROVE  CenterTypeInv'
  <2>1. d \in Dismissal
    BY <1>1 DEF UserInv
  <2>2. [d EXCEPT !.done = @ \cup {j},
                  !.phase = IF d.done \cup {j} = d.ids THEN "ok" ELSE "sent"] \in Dismissal
    BY <2>1 DEF Dismissal
  <2>3. hidden' \subseteq Jobs /\ dismissals' \subseteq Dismissal
    BY <1>1, <1>5, <2>2 DEF UserInv, DismissOne
  <2>4. UNCHANGED <<drawerVars, faults>>
    BY <1>5 DEF DismissOne
  <2> QED
    BY <1>1, <1>2, <1>3, <2>3, <2>4
    DEF CenterTypeInv, DrawerInv, RequestsInv, UserInv, RowsOf
<1>6. ASSUME NEW d \in dismissals, DismissFails(d)
      PROVE  CenterTypeInv'
  <2>1. [d EXCEPT !.phase = "failed"] \in Dismissal
    BY <1>1 DEF UserInv, Dismissal
  <2>2. /\ dismissals' \subseteq Dismissal /\ faults' \in 0..MaxFaults
        /\ UNCHANGED <<hidden, shown, previous>>
    BY <1>1, <1>6, <2>1 DEF UserInv, RequestsInv, DismissFails, Fault
  <2> QED
    BY <1>1, <1>2, <1>3, <2>2
    DEF CenterTypeInv, DrawerInv, RequestsInv, UserInv, RowsOf
<1>7. ASSUME NEW d \in dismissals, DismissAnswered(d)
      PROVE  CenterTypeInv'
  <2>1. PICK removed : /\ shown' = [j \in Jobs |-> IF j \in removed THEN "absent" ELSE shown[j]]
                       /\ previous' = [j \in Jobs |-> IF j \in removed THEN "absent" ELSE previous[j]]
    BY <1>7 DEF DismissAnswered
  <2>2. dismissals' \subseteq dismissals /\ UNCHANGED <<hidden, faults>>
    BY <1>7 DEF DismissAnswered
  <2>3. shown' \in Answer /\ previous' \in Answer
    BY <1>1, <2>1 DEF DrawerInv, Answer, Row
  <2>4. IsFiniteSet(RowsOf(shown)) /\ RowsOf(shown') \subseteq RowsOf(shown)
    <3>1. RowsOf(shown') \subseteq RowsOf(shown)
      BY <2>1 DEF RowsOf
    <3>2. RowsOf(shown) \subseteq Jobs
      BY DEF RowsOf
    <3> QED
      BY <3>1, <3>2, CenterConstants, FS_Subset
  <2>5. Cardinality(RowsOf(shown')) <= JobLimit
    <3>1. /\ Cardinality(RowsOf(shown')) <= Cardinality(RowsOf(shown))
          /\ IsFiniteSet(RowsOf(shown'))
      BY <2>4, FS_Subset
    <3>2. Cardinality(RowsOf(shown)) \in Nat /\ Cardinality(RowsOf(shown')) \in Nat
          /\ JobLimit \in Nat
      BY <2>4, <3>1, FS_CardinalityType, CenterConstants
    <3> QED
      BY <1>1, <3>1, <3>2 DEF DrawerInv
  <2>6. DrawerInv'
    BY <1>1, <1>2, <2>3, <2>5 DEF DrawerInv, RowsOf
  <2> QED
    BY <1>1, <1>2, <1>3, <2>2, <2>6 DEF CenterTypeInv, RequestsInv, UserInv
<1> QED
  BY <1>4, <1>5, <1>6, <1>7 DEF DismissStep

LEMMA CenterTypeNextInv ==
  ASSUME CenterTypeInv, [CenterNext]_centerVars
  PROVE  CenterTypeInv'
<1>1. CASE UNCHANGED centerVars
  BY <1>1 DEF CenterTypeInv, CreatedInv, DrawerInv, RequestsInv, UserInv, RowsOf, centerVars,
              serverVars, drawerVars, pollVars, pageVars, centerBudget
<1> QED
  BY <1>1, ServerTypes, RequestTypes, ListArrivesTypes, DeletionTypes, DismissalTypes DEF CenterNext

(* The drawer holds rows of the workspace's jobs, never more than it shows *)
(* (JobLimit), and every job is created once.                              *)
THEOREM CenterTypes == CenterSpec => []CenterTypeOK
BY CenterTypeInitInv, CenterTypeNextInv, CenterTypesHold, PTL DEF CenterSpec

-----------------------------------------------------------------------------
(* The public scans *)

HistoryRecords == [id : PublicIds, status : PublicStatus, at : Nat]

Answered == UNION {[S -> PublicStatus \cup {"none", "asked", "done"}] : S \in SUBSET PublicIds}

RoundRecords ==
    [first : BOOLEAN, mounted : BOOLEAN, dirty : BOOLEAN, was : Answered, answer : Answered]

(* A record of a scan that was started, that was not cleared, and whose    *)
(* end, if it has one, is real or a guess about a record that is stale.    *)
Honest(r) ==
    /\ r \in HistoryRecords
    /\ r.id \notin cleared /\ publicScan[r.id] # "none"
    /\ r.status \in Ends =>
         publicScan[r.id] = r.status \/ (r.status = "failed" /\ clock - r.at >= StaleAfter)

(* An end that a request has read is so: the server takes none back.       *)
AnswersAreTrue ==
    \A n \in Rounds : round[n] # NoRequest =>
      \A i \in DOMAIN round[n].answer :
        round[n].answer[i] \in Ends => publicScan[i] = round[n].answer[i]

PublicData ==
    /\ publicScan \in [PublicIds -> PublicStatus \cup {"none"}]
    /\ clock \in Nat
    /\ round \in [Rounds -> RoundRecords \cup {NoRequest}]
    /\ cleared \subseteq {i \in PublicIds : publicScan[i] # "none"}
    /\ resultOf \in PublicIds \cup {NoRequest}
    /\ resultOf = NoRequest => resultDoes = "over"

PublicInv ==
    /\ PublicData /\ AnswersAreTrue
    /\ \A r \in storage \cup listed : Honest(r)

-----------------------------------------------------------------------------
(* The operations on the history *)

LEMMA SanitizeIsPart == \A records : Sanitize(records) \subseteq records
BY DEF Sanitize

LEMMA UpdatedIsHonest ==
  ASSUME \A r \in storage : Honest(r), NEW i, NEW status \in PublicStatus,
         status \in Ends => publicScan[i] = status
  PROVE  \A r \in Updated(i, status) : Honest(r)
<1> SUFFICES ASSUME NEW r \in Updated(i, status) PROVE Honest(r)
  OBVIOUS
<1>1. r \in {IF q.id = i THEN [q EXCEPT !.status = status] ELSE q : q \in History}
  BY SanitizeIsPart DEF Updated
<1>2. PICK q \in History : r = IF q.id = i THEN [q EXCEPT !.status = status] ELSE q
  BY <1>1
<1>3. Honest(q)
  BY <1>2, SanitizeIsPart DEF History
<1>4. CASE q.id = i
  <2>1. r = [q EXCEPT !.status = status] /\ q \in HistoryRecords
    BY <1>2, <1>3, <1>4 DEF Honest
  <2>2. r \in HistoryRecords /\ r.id = q.id /\ r.status = status
    BY <2>1 DEF HistoryRecords
  <2> QED
    BY <1>3, <1>4, <2>2 DEF Honest
<1> QED
  BY <1>2, <1>3, <1>4

LEMMA StaleFailedIsHonest ==
  ASSUME NEW records, \A r \in records : Honest(r)
  PROVE  \A r \in StaleFailed(records) : Honest(r)
<1> SUFFICES ASSUME NEW r \in StaleFailed(records) PROVE Honest(r)
  OBVIOUS
<1>1. PICK q \in Sanitize(records) :
        r = IF q.status \in Active /\ clock - q.at >= StaleAfter
            THEN [q EXCEPT !.status = "failed"] ELSE q
  BY DEF StaleFailed
<1>2. Honest(q)
  BY <1>1, SanitizeIsPart
<1>3. CASE q.status \in Active /\ clock - q.at >= StaleAfter
  <2>1. r = [q EXCEPT !.status = "failed"] /\ q \in HistoryRecords
    BY <1>1, <1>2, <1>3 DEF Honest
  <2>2. r \in HistoryRecords /\ r.id = q.id /\ r.status = "failed" /\ r.at = q.at
    BY <2>1 DEF HistoryRecords, PublicStatus, Ends
  <2> QED
    BY <1>2, <1>3, <2>2 DEF Honest
<1> QED
  BY <1>1, <1>2, <1>3

(* The server goes on and time passes: what was honest is so still.        *)
LEMMA HonestStays ==
  ASSUME PublicData, clock' \in Nat, clock' >= clock, UNCHANGED cleared,
         \A i \in PublicIds : publicScan[i] # "none" => publicScan'[i] # "none",
         \A i \in PublicIds : publicScan[i] \in Ends => publicScan'[i] = publicScan[i],
         NEW r, Honest(r)
  PROVE  Honest(r)'
<1>1. /\ r \in HistoryRecords /\ r.id \in PublicIds /\ r.at \in Nat /\ r.status \in PublicStatus
      /\ r.id \notin cleared /\ publicScan[r.id] # "none"
      /\ r.status \in Ends =>
           publicScan[r.id] = r.status \/ (r.status = "failed" /\ clock - r.at >= StaleAfter)
  BY DEF Honest, HistoryRecords
<1>2. clock - r.at >= StaleAfter => clock' - r.at >= StaleAfter
  BY <1>1, PublicConstants DEF PublicData
<1>3. publicScan[r.id] = r.status /\ r.status \in Ends => publicScan'[r.id] = r.status
  BY <1>1
<1>4. publicScan'[r.id] # "none" /\ r.id \notin cleared'
  BY <1>1
<1> QED
  BY <1>1, <1>2, <1>3, <1>4 DEF Honest

LEMMA HonestSame ==
  ASSUME UNCHANGED <<publicScan, clock, cleared>>, NEW r
  PROVE  Honest(r) <=> Honest(r)'
BY DEF Honest

-----------------------------------------------------------------------------
(* The server and time *)

(* Rounds are as they were, or over, and ends stay.                        *)
LEMMA AnswersStay ==
  ASSUME PublicData, AnswersAreTrue, UNCHANGED round,
         \A i \in PublicIds : publicScan[i] \in Ends => publicScan'[i] = publicScan[i]
  PROVE  AnswersAreTrue'
<1> SUFFICES ASSUME NEW n \in Rounds, round[n] # NoRequest, NEW i \in DOMAIN round[n].answer,
                    round[n].answer[i] \in Ends
             PROVE  publicScan'[i] = round[n].answer[i]
  BY DEF AnswersAreTrue
<1>1. publicScan[i] = round[n].answer[i]
  BY DEF AnswersAreTrue
<1>2. round[n] \in RoundRecords
  BY DEF PublicData
<1>3. i \in PublicIds
  BY <1>2 DEF RoundRecords, Answered
<1> QED
  BY <1>1, <1>3

(* A scan goes on or is started, and the history stays.                    *)
LEMMA ServerKeeps ==
  ASSUME PublicInv, NEW i \in PublicIds, NEW status \in PublicStatus,
         publicScan[i] \notin Ends, publicScan' = [publicScan EXCEPT ![i] = status],
         clock' \in Nat, clock' >= clock, UNCHANGED <<storage, listed, round, cleared>>,
         resultOf' \in PublicIds \cup {NoRequest}, resultOf' = NoRequest => resultDoes' = "over"
  PROVE  PublicInv'
<1>1. /\ \A j \in PublicIds : publicScan[j] # "none" => publicScan'[j] # "none"
      /\ \A j \in PublicIds : publicScan[j] \in Ends => publicScan'[j] = publicScan[j]
      /\ publicScan' \in [PublicIds -> PublicStatus \cup {"none"}]
  BY DEF PublicInv, PublicData, PublicStatus, Active, Ends
<1>2. PublicData'
  BY <1>1 DEF PublicInv, PublicData
<1>3. AnswersAreTrue'
  BY <1>1, AnswersStay DEF PublicInv
<1>4. ASSUME NEW r \in storage' \cup listed' PROVE Honest(r)'
  BY <1>1, HonestStays DEF PublicInv
<1> QED
  BY <1>2, <1>3, <1>4 DEF PublicInv

LEMMA AdvanceKeeps ==
  ASSUME PublicInv, NEW i \in PublicIds, NEW status \in PublicStatus, Advance(i, status)
  PROVE  PublicInv'
<1>1. /\ publicScan[i] \notin Ends /\ publicScan' = [publicScan EXCEPT ![i] = status]
      /\ UNCHANGED <<clock, storage, listed, round, cleared, resultOf, resultDoes>>
  BY DEF Advance, Active, Ends, publicListVars, resultVars
<1>2. clock' \in Nat /\ clock' >= clock
  BY <1>1 DEF PublicInv, PublicData
<1>3. resultOf' \in PublicIds \cup {NoRequest} /\ (resultOf' = NoRequest => resultDoes' = "over")
  BY <1>1 DEF PublicInv, PublicData
<1> QED
  BY <1>1, <1>2, <1>3, ServerKeeps

LEMMA TimePassesKeeps ==
  ASSUME PublicInv, TimePasses
  PROVE  PublicInv'
<1>1. /\ clock' \in Nat /\ clock' >= clock
      /\ UNCHANGED <<publicScan, storage, listed, round, cleared, resultOf, resultDoes>>
  BY DEF TimePasses, PublicInv, PublicData, publicListVars, resultVars
<1>2. PublicData'
  BY <1>1 DEF PublicInv, PublicData
<1>3. AnswersAreTrue'
  BY <1>1, AnswersStay DEF PublicInv
<1>4. ASSUME NEW r \in storage' \cup listed' PROVE Honest(r)'
  BY <1>1, HonestStays DEF PublicInv
<1> QED
  BY <1>2, <1>3, <1>4 DEF PublicInv

-----------------------------------------------------------------------------
(* The pages *)

(* A step of a page: the server, time and what was cleared stay.           *)
LEMMA PageKeeps ==
  ASSUME PublicInv, UNCHANGED <<publicScan, clock, cleared>>,
         \A r \in storage' \cup listed' : Honest(r),
         round' \in [Rounds -> RoundRecords \cup {NoRequest}], AnswersAreTrue',
         resultOf' \in PublicIds \cup {NoRequest}, resultOf' = NoRequest => resultDoes' = "over"
  PROVE  PublicInv'
<1>1. PublicData'
  BY DEF PublicInv, PublicData
<1>2. ASSUME NEW r \in storage' \cup listed' PROVE Honest(r)'
  BY HonestSame
<1> QED
  BY <1>1, <1>2 DEF PublicInv

LEMMA RoundStarts ==
  ASSUME PublicInv, NEW n \in Rounds, NEW first \in BOOLEAN, NEW records,
         \A r \in records : Honest(r), StartRound(n, first, records), UNCHANGED publicScan
  PROVE  round' \in [Rounds -> RoundRecords \cup {NoRequest}] /\ AnswersAreTrue'
<1> DEFINE ids == ActiveIds(records)
           was == [i \in ids |-> (CHOOSE r \in records : r.id = i).status]
           answer == [i \in ids |-> "asked"]
           new == [first |-> first, mounted |-> TRUE, dirty |-> FALSE, was |-> was,
                   answer |-> answer]
<1>1. ids \subseteq PublicIds
  BY DEF ActiveIds, Honest, HistoryRecords
<1>2. ASSUME NEW i \in ids
      PROVE  was[i] \in PublicStatus
  <2>1. \E r \in records : r.id = i
    BY DEF ActiveIds
  <2>2. (CHOOSE r \in records : r.id = i) \in records
    BY <2>1
  <2>3. (CHOOSE r \in records : r.id = i) \in HistoryRecords
    BY <2>2 DEF Honest
  <2> QED
    BY <2>3 DEF HistoryRecords
<1>3. was \in [ids -> PublicStatus \cup {"none", "asked", "done"}]
  BY <1>2
<1>4. was \in Answered
  BY <1>1, <1>3 DEF Answered
<1>5. answer \in [ids -> PublicStatus \cup {"none", "asked", "done"}]
  OBVIOUS
<1>6. answer \in Answered /\ \A i \in DOMAIN answer : answer[i] \notin Ends
  BY <1>1, <1>5 DEF Answered, Ends
<1> HIDE DEF was, answer
<1>7. new \in RoundRecords /\ new.answer = answer
  BY <1>4, <1>6 DEF RoundRecords
<1>8. round' = [round EXCEPT ![n] = new]
  BY DEF StartRound, was, answer
<1> HIDE DEF new
<1>9. round' \in [Rounds -> RoundRecords \cup {NoRequest}]
  BY <1>7, <1>8 DEF PublicInv, PublicData
<1>10. AnswersAreTrue'
  BY <1>6, <1>7, <1>8 DEF PublicInv, PublicData, AnswersAreTrue
<1> QED
  BY <1>9, <1>10

LEMMA OpenListKeeps ==
  ASSUME PublicInv, NEW n \in Rounds, OpenList(n)
  PROVE  PublicInv'
<1>1. /\ storage' = StaleFailed(storage) /\ listed' = storage'
      /\ UNCHANGED round \/ StartRound(n, TRUE, storage')
      /\ UNCHANGED <<publicScan, clock, cleared, resultOf, resultDoes>>
  BY DEF OpenList, resultVars
<1>2. \A r \in storage' : Honest(r)
  BY <1>1, StaleFailedIsHonest DEF PublicInv
<1>3. round' \in [Rounds -> RoundRecords \cup {NoRequest}] /\ AnswersAreTrue'
  <2>1. CASE UNCHANGED round
    BY <1>1, <2>1, AnswersStay DEF PublicInv, PublicData
  <2>2. CASE StartRound(n, TRUE, storage')
    <3> DEFINE records == storage'
    <3> HIDE DEF records
    <3>1. StartRound(n, TRUE, records) /\ \A r \in records : Honest(r)
      BY <1>2, <2>2 DEF records
    <3> QED
      BY <1>1, <3>1, RoundStarts
  <2> QED
    BY <1>1, <2>1, <2>2
<1> QED
  BY <1>1, <1>2, <1>3, PageKeeps DEF PublicInv, PublicData

(* Leaving the list: the rounds under way are of a page that is gone.      *)
LEMMA UnmountedRounds ==
  ASSUME PublicInv, round' = Unmounted,
         \A i \in PublicIds : publicScan[i] \in Ends => publicScan'[i] = publicScan[i]
  PROVE  round' \in [Rounds -> RoundRecords \cup {NoRequest}] /\ AnswersAreTrue'
<1>1. ASSUME NEW n \in Rounds, round[n] # NoRequest
      PROVE  /\ round'[n] \in RoundRecords /\ round'[n].answer = round[n].answer
             /\ DOMAIN round[n].answer \subseteq PublicIds
  <2>1. round[n] \in RoundRecords /\ round'[n] = [round[n] EXCEPT !.mounted = FALSE]
    BY <1>1 DEF PublicInv, PublicData, Unmounted
  <2> QED
    BY <2>1 DEF RoundRecords, Answered
<1>2. ASSUME NEW n \in Rounds, round[n] = NoRequest
      PROVE  round'[n] = NoRequest
  BY <1>2 DEF Unmounted
<1>3. round' \in [Rounds -> RoundRecords \cup {NoRequest}]
  <2>1. round' = [n \in Rounds |-> round'[n]]
    BY DEF Unmounted
  <2>2. \A n \in Rounds : round'[n] \in RoundRecords \cup {NoRequest}
    BY <1>1, <1>2
  <2> QED
    BY <2>1, <2>2
<1>4. AnswersAreTrue'
  <2> SUFFICES ASSUME NEW n \in Rounds, round'[n] # NoRequest, NEW i \in DOMAIN round'[n].answer,
                      round'[n].answer[i] \in Ends
               PROVE  publicScan'[i] = round'[n].answer[i]
    BY DEF AnswersAreTrue
  <2>1. round[n] # NoRequest
    BY <1>2
  <2>2. round'[n].answer = round[n].answer /\ i \in PublicIds
    BY <1>1, <2>1
  <2> QED
    BY <2>1, <2>2 DEF PublicInv, AnswersAreTrue
<1> QED
  BY <1>3, <1>4

LEMMA LeaveListKeeps ==
  ASSUME PublicInv, LeaveList
  PROVE  PublicInv'
<1>1. /\ listed' = {} /\ round' = Unmounted
      /\ UNCHANGED <<publicScan, clock, cleared, storage, resultOf, resultDoes>>
  BY DEF LeaveList, resultVars
<1>2. round' \in [Rounds -> RoundRecords \cup {NoRequest}] /\ AnswersAreTrue'
  BY <1>1, UnmountedRounds
<1> QED
  BY <1>1, <1>2, PageKeeps DEF PublicInv, PublicData

LEMMA RoundTickKeeps ==
  ASSUME PublicInv, NEW n \in Rounds, RoundTick(n)
  PROVE  PublicInv'
<1>1. /\ StartRound(n, FALSE, listed)
      /\ UNCHANGED <<publicScan, clock, cleared, storage, listed, resultOf, resultDoes>>
  BY DEF RoundTick, publicListVars, resultVars
<1>2. round' \in [Rounds -> RoundRecords \cup {NoRequest}] /\ AnswersAreTrue'
  BY <1>1, RoundStarts DEF PublicInv
<1> QED
  BY <1>1, <1>2, PageKeeps DEF PublicInv, PublicData

(* One answer of a round changes.                                          *)
LEMMA RoundGoes ==
  ASSUME PublicInv, NEW n \in Rounds, round[n] # NoRequest, NEW i \in DOMAIN round[n].answer,
         NEW status \in PublicStatus \cup {"none", "asked", "done"}, NEW dirty \in BOOLEAN,
         status \in Ends => publicScan[i] = status, UNCHANGED publicScan,
         \/ round' = [round EXCEPT ![n].answer[i] = status]
         \/ round' = [round EXCEPT ![n] = [@ EXCEPT !.answer[i] = status, !.dirty = dirty]]
         \/ round' = [round EXCEPT ![n] = NoRequest]
  PROVE  round' \in [Rounds -> RoundRecords \cup {NoRequest}] /\ AnswersAreTrue'
<1>1. round[n] \in RoundRecords /\ round \in [Rounds -> RoundRecords \cup {NoRequest}]
  BY DEF PublicInv, PublicData
<1>2. round[n].answer \in Answered
  BY <1>1 DEF RoundRecords
<1> DEFINE answer == [round[n].answer EXCEPT ![i] = status]
<1>3. answer \in Answered
  <2>1. PICK S \in SUBSET PublicIds :
          round[n].answer \in [S -> PublicStatus \cup {"none", "asked", "done"}]
    BY <1>2 DEF Answered
  <2>2. answer \in [S -> PublicStatus \cup {"none", "asked", "done"}]
    BY <2>1
  <2> QED
    BY <2>2 DEF Answered
<1>4. \A j \in DOMAIN answer : answer[j] \in Ends => publicScan[j] = answer[j]
  <2>1. DOMAIN answer = DOMAIN round[n].answer
    OBVIOUS
  <2>2. \A j \in DOMAIN answer : answer[j] = IF j = i THEN status ELSE round[n].answer[j]
    OBVIOUS
  <2> QED
    BY <2>1, <2>2 DEF PublicInv, AnswersAreTrue
<1>5. /\ \A m \in Rounds \ {n} : round'[m] = round[m]
      /\ round'[n] = NoRequest \/ (round'[n] \in RoundRecords /\ round'[n].answer = answer)
      /\ round' = [m \in Rounds |-> round'[m]]
  <2>1. CASE round' = [round EXCEPT ![n].answer[i] = status]
    <3>1. round'[n] = [round[n] EXCEPT !.answer = answer]
      BY <1>1, <2>1
    <3> HIDE DEF answer
    <3>2. round'[n] \in RoundRecords /\ round'[n].answer = answer
      BY <1>1, <1>3, <3>1 DEF RoundRecords
    <3> QED
      BY <1>1, <2>1, <3>2
  <2>2. CASE round' = [round EXCEPT ![n] = [@ EXCEPT !.answer[i] = status, !.dirty = dirty]]
    <3>1. round'[n] = [round[n] EXCEPT !.answer = answer, !.dirty = dirty]
      BY <1>1, <2>2 DEF RoundRecords
    <3> HIDE DEF answer
    <3>2. round'[n] \in RoundRecords /\ round'[n].answer = answer
      BY <1>1, <1>3, <3>1 DEF RoundRecords
    <3> QED
      BY <1>1, <2>2, <3>2
  <2>3. CASE round' = [round EXCEPT ![n] = NoRequest]
    BY <1>1, <2>3
  <2> QED
    BY <2>1, <2>2, <2>3
<1> HIDE DEF answer
<1>6. round' \in [Rounds -> RoundRecords \cup {NoRequest}]
  <2>1. \A m \in Rounds : round'[m] \in RoundRecords \cup {NoRequest}
    BY <1>1, <1>5
  <2> QED
    BY <1>5, <2>1
<1>7. AnswersAreTrue'
  <2> SUFFICES ASSUME NEW m \in Rounds, round'[m] # NoRequest, NEW j \in DOMAIN round'[m].answer,
                      round'[m].answer[j] \in Ends
               PROVE  publicScan[j] = round'[m].answer[j]
    BY DEF AnswersAreTrue
  <2>1. CASE m = n
    BY <1>4, <1>5, <2>1
  <2>2. CASE m # n
    BY <1>5, <2>2 DEF PublicInv, AnswersAreTrue
  <2> QED
    BY <2>1, <2>2
<1> QED
  BY <1>6, <1>7

LEMMA RoundAnsweredKeeps ==
  ASSUME PublicInv, NEW n \in Rounds, NEW i \in PublicIds, RoundAnswered(n, i)
  PROVE  PublicInv'
<1>1. /\ round[n] # NoRequest /\ i \in DOMAIN round[n].answer
      /\ round' = [round EXCEPT ![n].answer[i] = publicScan[i]]
      /\ UNCHANGED <<publicScan, clock, cleared, storage, listed, resultOf, resultDoes>>
  BY DEF RoundAnswered, publicListVars, resultVars
<1>2. publicScan[i] \in PublicStatus \cup {"none", "asked", "done"}
  BY DEF PublicInv, PublicData
<1>3. round' \in [Rounds -> RoundRecords \cup {NoRequest}] /\ AnswersAreTrue'
  BY <1>1, <1>2, RoundGoes
<1> QED
  BY <1>1, <1>3, PageKeeps DEF PublicInv, PublicData

LEMMA HandledKeeps ==
  ASSUME PublicInv, NEW n \in Rounds, round[n] # NoRequest, NEW i \in DOMAIN round[n].answer,
         NEW history, \A r \in history : Honest(r), NEW dirty \in BOOLEAN,
         Handled(n, i, history, dirty)
  PROVE  PublicInv'
<1>1. /\ storage' = history \/ storage' = StaleFailed(history)
      /\ listed' = listed \/ listed' = Sanitize(storage')
      /\ RoundGoesOn(n, i, dirty)
      /\ UNCHANGED <<publicScan, clock, cleared, resultOf, resultDoes>>
  BY DEF Handled, resultVars
<1>2. \A r \in storage' : Honest(r)
  BY <1>1, StaleFailedIsHonest
<1>3. \A r \in listed' : Honest(r)
  <2>1. CASE listed' = listed
    BY <2>1 DEF PublicInv
  <2>2. CASE listed' = Sanitize(storage')
    BY <1>2, <2>2, SanitizeIsPart
  <2> QED
    BY <1>1, <2>1, <2>2
<1>4. \/ round' = [round EXCEPT ![n] = [@ EXCEPT !.answer[i] = "done", !.dirty = dirty]]
      \/ round' = [round EXCEPT ![n] = NoRequest]
  BY <1>1 DEF RoundGoesOn
<1>5. "done" \notin Ends
  BY DEF Ends
<1>6. round' \in [Rounds -> RoundRecords \cup {NoRequest}] /\ AnswersAreTrue'
  BY <1>1, <1>4, <1>5, RoundGoes
<1> QED
  BY <1>1, <1>2, <1>3, <1>6, PageKeeps DEF PublicInv, PublicData

LEMMA RoundArrivesKeeps ==
  ASSUME PublicInv, NEW n \in Rounds, NEW i \in PublicIds, RoundArrives(n, i)
  PROVE  PublicInv'
<1> DEFINE status == round[n].answer[i]
           applies == round[n].first \/ status # round[n].was[i]
           history == IF applies THEN Updated(i, status) ELSE storage
           dirty == round[n].dirty \/ applies
<1>1. /\ round[n] # NoRequest /\ i \in DOMAIN round[n].answer /\ status \in PublicStatus
      /\ Handled(n, i, history, dirty)
  BY DEF RoundArrives
<1>2. status \in Ends => publicScan[i] = status
  BY <1>1 DEF PublicInv, AnswersAreTrue
<1>3. \A r \in Updated(i, status) : Honest(r)
  <2> HIDE DEF status
  <2> QED
    BY <1>1, <1>2, UpdatedIsHonest DEF PublicInv
<1>4. \A r \in history : Honest(r)
  BY <1>3 DEF PublicInv
<1>5. dirty \in BOOLEAN
  OBVIOUS
<1> HIDE DEF history, dirty
<1> QED
  BY <1>1, <1>4, <1>5, HandledKeeps

LEMMA RoundLostKeeps ==
  ASSUME PublicInv, NEW n \in Rounds, NEW i \in PublicIds, RoundLost(n, i)
  PROVE  PublicInv'
<1>1. /\ round[n] # NoRequest /\ i \in DOMAIN round[n].answer
      /\ Handled(n, i, storage, round[n].dirty)
  BY DEF RoundLost
<1>2. round[n].dirty \in BOOLEAN
  BY <1>1 DEF PublicInv, PublicData, RoundRecords
<1>3. \A r \in storage : Honest(r)
  BY DEF PublicInv
<1> QED
  BY <1>1, <1>2, <1>3, HandledKeeps

(* The new record is honest: the scan was not started before, and what     *)
(* was cleared had been.                                                   *)
LEMMA HandleScanKeeps ==
  ASSUME PublicInv, NEW i \in PublicIds, HandleScan(i)
  PROVE  PublicInv'
<1> DEFINE new == [id |-> i, status |-> "pending", at |-> clock']
<1>1. /\ publicScan[i] = "none" /\ publicScan' = [publicScan EXCEPT ![i] = "pending"]
      /\ clock' = clock + 1 /\ storage' = Added(new) /\ listed' = {}
      /\ round' = Unmounted /\ resultOf' = i /\ UNCHANGED cleared
  BY DEF HandleScan, Unstarted
<1>2. /\ \A j \in PublicIds : publicScan[j] # "none" => publicScan'[j] # "none"
      /\ \A j \in PublicIds : publicScan[j] \in Ends => publicScan'[j] = publicScan[j]
      /\ publicScan' \in [PublicIds -> PublicStatus \cup {"none"}]
      /\ publicScan'[i] = "pending"
  BY <1>1 DEF PublicInv, PublicData, PublicStatus, Active, Ends
<1>3. clock' \in Nat /\ clock' >= clock
  BY <1>1 DEF PublicInv, PublicData
<1>4. ASSUME NEW r, r = new PROVE Honest(r)'
  <2>1. r \in HistoryRecords /\ r.id = i /\ r.status \notin Ends
    BY <1>3, <1>4 DEF HistoryRecords, PublicStatus, Active, Ends
  <2>2. i \notin cleared
    BY <1>1 DEF PublicInv, PublicData
  <2> HIDE DEF new
  <2> QED
    BY <1>1, <1>2, <2>1, <2>2 DEF Honest
<1> HIDE DEF new
<1>5. ASSUME NEW r \in storage' \cup listed' PROVE Honest(r)'
  <2>1. r = new \/ r \in storage
    BY <1>1, SanitizeIsPart DEF Added, History
  <2>2. CASE r \in storage
    BY <1>1, <1>2, <1>3, <2>2, HonestStays DEF PublicInv
  <2> QED
    BY <1>4, <2>1, <2>2
<1>6. round' \in [Rounds -> RoundRecords \cup {NoRequest}] /\ AnswersAreTrue'
  BY <1>1, <1>2, UnmountedRounds
<1>7. PublicData'
  BY <1>1, <1>2, <1>3, <1>6, PublicConstants DEF PublicInv, PublicData
<1> QED
  BY <1>5, <1>6, <1>7 DEF PublicInv

(* What is cleared is every record there is, of scans that were started.   *)
LEMMA HandleClearHistoryKeeps ==
  ASSUME PublicInv, HandleClearHistory
  PROVE  PublicInv'
<1>1. /\ storage' = {} /\ listed' = {} /\ cleared' = cleared \cup {r.id : r \in storage \cup listed}
      /\ UNCHANGED <<publicScan, clock, round, resultOf, resultDoes>>
  BY DEF HandleClearHistory, resultVars
<1>2. {r.id : r \in storage \cup listed} \subseteq {i \in PublicIds : publicScan[i] # "none"}
  BY DEF PublicInv, Honest, HistoryRecords
<1>3. PublicData'
  BY <1>1, <1>2 DEF PublicInv, PublicData
<1>4. AnswersAreTrue'
  BY <1>1, AnswersStay DEF PublicInv
<1> QED
  BY <1>1, <1>3, <1>4 DEF PublicInv

-----------------------------------------------------------------------------
(* The page of a scan *)

(* Its steps leave the rounds alone.                                       *)
LEMMA ResultKeeps ==
  ASSUME PublicInv, UNCHANGED <<publicScan, clock, cleared, listed, round>>,
         \A r \in storage' : Honest(r),
         resultOf' \in PublicIds \cup {NoRequest}, resultOf' = NoRequest => resultDoes' = "over"
  PROVE  PublicInv'
<1>1. AnswersAreTrue'
  BY AnswersStay DEF PublicInv
<1>2. round' \in [Rounds -> RoundRecords \cup {NoRequest}]
  BY DEF PublicInv, PublicData
<1> QED
  BY <1>1, <1>2, PageKeeps DEF PublicInv

LEMMA ResultIsKeeps ==
  ASSUME PublicInv, NEW i \in PublicIds \cup {NoRequest}, NEW does,
         ResultIs(i, does), UNCHANGED storage, i = NoRequest => does = "over"
  PROVE  PublicInv'
<1>1. /\ resultOf' = i /\ resultDoes' = does
      /\ UNCHANGED <<publicScan, clock, cleared, listed, round>>
  BY DEF ResultIs, publicListVars
<1> QED
  BY <1>1, ResultKeeps DEF PublicInv

LEMMA ResultStepKeeps ==
  ASSUME PublicInv, LeaveResult \/ ResultPoll \/ ResultFails
  PROVE  PublicInv'
<1>1. /\ UNCHANGED storage
      /\ \/ ResultIs(NoRequest, "over")
         \/ resultDoes = "idle" /\ ResultIs(resultOf, "asked")
         \/ ResultIs(resultOf, "over")
  BY DEF LeaveResult, ResultPoll, ResultFails
<1>2. /\ resultOf \in PublicIds \cup {NoRequest}
      /\ resultOf = NoRequest => resultDoes = "over"
  BY DEF PublicInv, PublicData
<1> DEFINE i == resultOf
<1> HIDE DEF i
<1>3. /\ \/ ResultIs(NoRequest, "over")
         \/ (resultDoes = "idle" /\ ResultIs(i, "asked"))
         \/ ResultIs(i, "over")
      /\ i \in PublicIds \cup {NoRequest} /\ (i = NoRequest => resultDoes = "over")
  BY <1>1, <1>2 DEF i
<1> QED
  BY <1>1, <1>3, ResultIsKeeps

LEMMA ResultArrivesKeeps ==
  ASSUME PublicInv, ResultArrives
  PROVE  PublicInv'
<1> DEFINE status == publicScan[resultOf]
<1>1. resultDoes = "asked" /\ resultOf \in PublicIds
  BY DEF ResultArrives, PublicInv, PublicData
<1>2. /\ UNCHANGED <<publicScan, clock, cleared, listed, round, resultOf>>
      /\ UNCHANGED storage \/ (status \in {"completed", "failed"} /\ storage' = Updated(resultOf, status))
  BY DEF ResultArrives, ResultIs, publicListVars
<1>3. CASE status \in {"completed", "failed"}
  <2>1. \A r \in Updated(resultOf, status) : Honest(r)
    BY <1>3, UpdatedIsHonest DEF PublicInv, PublicStatus, Ends
  <2>2. \A r \in storage' : Honest(r)
    BY <1>2, <2>1 DEF PublicInv
  <2>3. resultOf' \in PublicIds /\ resultOf' # NoRequest
    BY <1>1, <1>2, PublicConstants
  <2> QED
    BY <1>2, <2>2, <2>3, ResultKeeps
<1>4. CASE status \notin {"completed", "failed"}
  <2>1. resultOf' \in PublicIds /\ resultOf' # NoRequest
    BY <1>1, <1>2, PublicConstants
  <2>2. \A r \in storage' : Honest(r)
    BY <1>2, <1>4 DEF PublicInv
  <2> QED
    BY <1>2, <2>1, <2>2, ResultKeeps
<1> QED
  BY <1>3, <1>4

LEMMA HandleRescanKeeps ==
  ASSUME PublicInv, NEW i \in PublicIds, HandleRescan(i)
  PROVE  PublicInv'
<1>1. /\ publicScan[i] \notin Ends /\ publicScan' = [publicScan EXCEPT ![i] = "pending"]
      /\ resultOf' = i /\ UNCHANGED <<clock, storage, listed, round, cleared>>
  BY DEF HandleRescan, Unstarted, Ends, publicListVars
<1>2. "pending" \in PublicStatus /\ clock' \in Nat /\ clock' >= clock
  BY <1>1 DEF PublicStatus, Active, PublicInv, PublicData
<1>3. resultOf' \in PublicIds /\ resultOf' # NoRequest
  BY <1>1, PublicConstants
<1> QED
  BY <1>1, <1>2, <1>3, ServerKeeps

LEMMA PublicInitInv == PublicInit => PublicInv
<1> SUFFICES ASSUME PublicInit PROVE PublicInv
  OBVIOUS
<1>1. PublicData
  BY DEF PublicInit, PublicData
<1>2. AnswersAreTrue
  BY DEF PublicInit, AnswersAreTrue
<1> QED
  BY <1>1, <1>2 DEF PublicInit, PublicInv

LEMMA PublicNextInv ==
  ASSUME PublicInv, [PublicNext]_publicVars
  PROVE  PublicInv'
<1>1. CASE \E i \in PublicIds : \E status \in {"running"} \cup Outcomes : Advance(i, status)
  BY <1>1, AdvanceKeeps, PublicConstants DEF PublicStatus, Active
<1>2. CASE \E n \in Rounds : OpenList(n) \/ \E i \in PublicIds : RoundLost(n, i)
  BY <1>2, OpenListKeeps, RoundLostKeeps
<1>3. CASE RoundStep
  BY <1>3, RoundTickKeeps, RoundAnsweredKeeps, RoundArrivesKeeps DEF RoundStep
<1>4. ASSUME NEW i \in PublicIds, OpenResult(i)
      PROVE  PublicInv'
  <2>1. ResultIs(i, "idle") /\ UNCHANGED storage /\ i # NoRequest
    BY <1>4, PublicConstants DEF OpenResult
  <2> QED
    BY <2>1, ResultIsKeeps
<1>5. CASE \E i \in PublicIds : HandleScan(i) \/ OpenResult(i) \/ HandleRescan(i)
  BY <1>4, <1>5, HandleScanKeeps, HandleRescanKeeps
<1>6. CASE UNCHANGED publicVars
  <2>1. UNCHANGED <<publicScan, clock, cleared, storage, listed, round, resultOf, resultDoes>>
    BY <1>6 DEF publicVars, publicListVars, resultVars
  <2> QED
    BY <2>1, ResultKeeps DEF PublicInv, PublicData
<1>7. CASE ResultStep
  BY <1>7, ResultStepKeeps, ResultArrivesKeeps DEF ResultStep
<1> QED
  BY <1>1, <1>2, <1>3, <1>5, <1>6, <1>7, TimePassesKeeps, LeaveListKeeps, HandleClearHistoryKeeps,
     ResultStepKeeps DEF PublicNext

(* The inductive invariant: an end that some request has read is so, and   *)
(* every record is of a scan that was started and not cleared.             *)
THEOREM PublicInvariant == PublicSpec => []PublicInv
<1>1. PublicInit => PublicInv
  BY PublicInitInv
<1>2. PublicInv /\ [PublicNext]_publicVars => PublicInv'
  BY PublicNextInv
<1> QED
  BY <1>1, <1>2, PTL DEF PublicSpec

LEMMA HonestFollows == PublicInv => HistoryIsHonest
BY DEF PublicInv, Honest, HistoryIsHonest, ClearedIsGone, EndIsReal

(* The history holds no record that was cleared and no end that is none,   *)
(* for any number of rounds, pages and tabs under way                      *)
(* (lib/publicScanHistory.ts).                                             *)
THEOREM HistoryStaysHonest == PublicSpec => []HistoryIsHonest
BY HonestFollows, PublicInvariant, PTL

-----------------------------------------------------------------------------
(* The size of the public history *)

(* Records up to some time, each of a scan and a time of its own. *)
Distinct(records, time) ==
    /\ IsFiniteSet(records)
    /\ \A r \in records : r.at \in 0 .. time
    /\ \A r, q \in records : r.id = q.id \/ r.at = q.at => r = q

Short(records, time) == Distinct(records, time) /\ Cardinality(records) <= MaxEntries

PublicTypeInv ==
    /\ Short(storage, clock) /\ Short(listed, clock)
    /\ resultDoes \in {"idle", "asked", "over"}

LEMMA OneMore ==
  ASSUME NEW S, NEW x, IsFiniteSet(S)
  PROVE  /\ IsFiniteSet(S \cup {x}) /\ Cardinality(S) \in Nat /\ Cardinality(S \cup {x}) \in Nat
         /\ Cardinality(S \cup {x}) <= Cardinality(S) + 1
<1>1. Cardinality(S) \in Nat
  BY FS_CardinalityType
<1>2. /\ IsFiniteSet(S \cup {x})
      /\ Cardinality(S \cup {x}) = IF x \in S THEN Cardinality(S) ELSE Cardinality(S) + 1
  BY FS_AddElement
<1> QED
  BY <1>1, <1>2

LEMMA LeastNumber ==
  ASSUME NEW T \in SUBSET Nat, T # {}
  PROVE  \E x \in T : \A y \in T : x <= y
<1>1. PICK x \in T : \A y \in T : ~ (<<y, x>> \in OpToRel(<, Nat))
  BY NatLessThanWellFounded, WFMin
<1>2. \A y \in T : ~ (y < x)
  BY <1>1 DEF OpToRel
<1> QED
  BY <1>2

LEMMA DistinctPart ==
  ASSUME NEW time \in Nat, NEW records, Distinct(records, time), NEW part \in SUBSET records
  PROVE  Distinct(part, time)
<1>1. IsFiniteSet(part)
  BY FS_Subset DEF Distinct
<1> QED
  BY <1>1 DEF Distinct

LEMMA NoneIsShort == \A time : Short({}, time)
<1>1. IsFiniteSet({}) /\ Cardinality({}) = 0 /\ 0 <= MaxEntries
  BY FS_EmptySet, PublicConstants
<1> QED
  BY <1>1 DEF Short, Distinct

(* The oldest record that is kept has fewer than MaxEntries newer ones,    *)
(* and every other record that is kept is newer.                           *)
LEMMA SanitizedIsShort ==
  ASSUME NEW time \in Nat, NEW records, Distinct(records, time)
  PROVE  Short(Sanitize(records), time)
<1> DEFINE young    == {r \in records : clock - r.at <= Retention}
           newer(r) == {q \in young : q.at > r.at}
           kept     == {r \in young : Cardinality(newer(r)) < MaxEntries}
<1>1. Sanitize(records) = kept
  BY DEF Sanitize
<1>2. young \subseteq records /\ kept \subseteq young /\ kept \subseteq records
  OBVIOUS
<1>3. IsFiniteSet(young) /\ Distinct(young, time) /\ Distinct(kept, time)
  BY <1>2, DistinctPart DEF Distinct
<1>4. CASE kept = {}
  BY <1>1, <1>4, NoneIsShort
<1>5. CASE kept # {}
  <2> DEFINE times == {r.at : r \in kept}
  <2>1. times \in SUBSET Nat /\ times # {}
    <3>1. \A r \in kept : r.at \in Nat
      BY <1>3 DEF Distinct
    <3> HIDE DEF kept
    <3> QED
      BY <1>5, <3>1
  <2>2. PICK first \in times : \A t \in times : first <= t
    BY <2>1, LeastNumber
  <2>3. PICK oldest \in kept : oldest.at = first
    BY <2>2
  <2>4. \A r \in kept : oldest.at <= r.at
    BY <2>2, <2>3
  <2>5. \A r \in kept : r = oldest \/ r.at > oldest.at
    <3>1. \A r \in kept : r.at \in Nat /\ (r.at = oldest.at => r = oldest)
      BY <1>3, <2>3 DEF Distinct
    <3> QED
      BY <2>3, <2>4, <3>1
  <2>6. Cardinality(newer(oldest)) < MaxEntries
    BY <2>3
  <2>7. kept \subseteq newer(oldest) \cup {oldest}
    BY <1>2, <2>5
  <2>8. IsFiniteSet(newer(oldest)) /\ newer(oldest) \subseteq young
    <3>1. newer(oldest) \subseteq young
      OBVIOUS
    <3> QED
      BY <1>3, <3>1, FS_Subset
  <2> HIDE DEF kept, newer
  <2>9. /\ IsFiniteSet(newer(oldest) \cup {oldest})
        /\ Cardinality(newer(oldest) \cup {oldest}) <= Cardinality(newer(oldest)) + 1
    <3>1. PICK above : above = newer(oldest)
      OBVIOUS
    <3> QED
      BY <2>8, <3>1, OneMore
  <2>10. Cardinality(kept) <= Cardinality(newer(oldest) \cup {oldest}) /\ IsFiniteSet(kept)
    BY <2>7, <2>9, FS_Subset
  <2>11. /\ Cardinality(newer(oldest)) \in Nat /\ Cardinality(kept) \in Nat /\ MaxEntries \in Nat
         /\ Cardinality(newer(oldest) \cup {oldest}) \in Nat
    BY <2>8, <2>9, <2>10, FS_CardinalityType, PublicConstants
  <2>12. Cardinality(kept) <= MaxEntries
    BY <2>6, <2>9, <2>10, <2>11
  <2> QED
    BY <1>1, <1>3, <2>12 DEF Short
<1> QED
  BY <1>4, <1>5

(* Records whose status alone is set are as many.                          *)
LEMMA RestatedIsDistinct ==
  ASSUME NEW time \in Nat, NEW records, Distinct(records, time),
         NEW T, NEW restated \in [records -> T], T = {restated[r] : r \in records},
         \A r \in records : restated[r].id = r.id /\ restated[r].at = r.at
  PROVE  Distinct(T, time) /\ Cardinality(T) <= Cardinality(records)
<1>1. restated \in Surjection(records, T)
  BY DEF Surjection
<1>2. IsFiniteSet(T) /\ Cardinality(T) <= Cardinality(records)
  BY <1>1, FS_Surjection DEF Distinct
<1>3. \A r, q \in T : r.id = q.id \/ r.at = q.at => r = q
  BY DEF Distinct
<1>4. \A r \in T : r.at \in 0..time
  BY DEF Distinct
<1> QED
  BY <1>2, <1>3, <1>4 DEF Distinct

LEMMA UpdatedIsShort ==
  ASSUME NEW time \in Nat, Distinct(storage, time), \A r \in storage : r \in HistoryRecords,
         NEW i, NEW status
  PROVE  Short(Updated(i, status), time)
<1> DEFINE set(r)   == IF r.id = i THEN [r EXCEPT !.status = status] ELSE r
           restated == [r \in History |-> set(r)]
           T        == {set(r) : r \in History}
<1>1. Distinct(History, time) /\ \A r \in History : r \in HistoryRecords
  BY SanitizedIsShort, SanitizeIsPart DEF History, Short
<1>2. \A r \in History : restated[r].id = r.id /\ restated[r].at = r.at
  BY <1>1 DEF HistoryRecords
<1>3. restated \in [History -> T] /\ T = {restated[r] : r \in History}
  OBVIOUS
<1> HIDE DEF restated
<1>4. Distinct(T, time)
  BY <1>1, <1>2, <1>3, RestatedIsDistinct
<1> QED
  BY <1>4, SanitizedIsShort DEF Updated

LEMMA StaleFailedIsShort ==
  ASSUME NEW time \in Nat, NEW records, Distinct(records, time),
         \A r \in records : r \in HistoryRecords
  PROVE  Short(StaleFailed(records), time)
<1> DEFINE set(r)   == IF r.status \in Active /\ clock - r.at >= StaleAfter
                       THEN [r EXCEPT !.status = "failed"] ELSE r
           restated == [r \in Sanitize(records) |-> set(r)]
           T        == {set(r) : r \in Sanitize(records)}
<1>1. Short(Sanitize(records), time) /\ \A r \in Sanitize(records) : r \in HistoryRecords
  BY SanitizedIsShort, SanitizeIsPart
<1>2. \A r \in Sanitize(records) : restated[r].id = r.id /\ restated[r].at = r.at
  BY <1>1 DEF HistoryRecords
<1>3. restated \in [Sanitize(records) -> T] /\ T = {restated[r] : r \in Sanitize(records)}
  OBVIOUS
<1> HIDE DEF restated
<1>4. Distinct(T, time) /\ Cardinality(T) <= Cardinality(Sanitize(records))
  BY <1>1, <1>2, <1>3, RestatedIsDistinct DEF Short
<1>5. IsFiniteSet(T) /\ IsFiniteSet(Sanitize(records))
  BY <1>1, <1>4 DEF Short, Distinct
<1>6. Cardinality(T) \in Nat /\ Cardinality(Sanitize(records)) \in Nat /\ MaxEntries \in Nat
  BY <1>5, FS_CardinalityType, PublicConstants
<1>7. Short(T, time)
  BY <1>1, <1>4, <1>6 DEF Short
<1> QED
  BY <1>7 DEF StaleFailed

(* A new record is of a new scan and of a later time than any other. *)
LEMMA AddedIsShort ==
  ASSUME NEW time \in Nat, Distinct(storage, time), NEW record, record.at = time + 1
  PROVE  Short(Added(record), time + 1)
<1> DEFINE others == {r \in History : r.id # record.id}
<1>1. Distinct(others, time)
  <2>1. others \subseteq storage
    BY SanitizeIsPart DEF History
  <2> QED
    BY <2>1, DistinctPart
<1>2. Distinct(others \cup {record}, time + 1)
  <2>1. IsFiniteSet(others \cup {record})
    BY <1>1, FS_AddElement DEF Distinct
  <2>2. \A r \in others : r.id # record.id /\ r.at \in 0..time
    BY <1>1 DEF Distinct
  <2>3. \A r \in others \cup {record} : r.at \in 0..time + 1
    BY <2>2
  <2>4. \A r \in others : r.at # record.at
    BY <2>2
  <2>5. \A r, q \in others : r.id = q.id \/ r.at = q.at => r = q
    BY <1>1 DEF Distinct
  <2> HIDE DEF others
  <2> QED
    BY <2>1, <2>2, <2>3, <2>4, <2>5 DEF Distinct
<1> QED
  BY <1>2, SanitizedIsShort DEF Added

-----------------------------------------------------------------------------
LEMMA PublicTypesHold == PublicInv /\ PublicTypeInv => PublicTypeOK
<1> SUFFICES ASSUME PublicInv, PublicTypeInv PROVE PublicTypeOK
  OBVIOUS
<1>1. ASSUME NEW records \in {storage, listed}
      PROVE  /\ records \subseteq [id : {i \in PublicIds : publicScan[i] # "none"},
                                   status : PublicStatus, at : 0 .. clock]
             /\ Cardinality({r.id : r \in records}) = Cardinality(records)
             /\ Cardinality(records) <= MaxEntries
  <2>1. Short(records, clock) /\ \A r \in records : Honest(r)
    BY DEF PublicTypeInv, PublicInv
  <2>2. \A r \in records : r \in HistoryRecords /\ publicScan[r.id] # "none" /\ r.at \in 0..clock
    BY <2>1 DEF Short, Distinct, Honest
  <2>3. records \subseteq [id : {i \in PublicIds : publicScan[i] # "none"},
                           status : PublicStatus, at : 0 .. clock]
    BY <2>2 DEF HistoryRecords
  <2> DEFINE ids  == {r.id : r \in records}
             idOf == [r \in records |-> r.id]
  <2>4. idOf \in Surjection(records, ids)
    BY DEF Surjection
  <2>5. idOf \in Injection(records, ids)
    <3>1. \A r, q \in records : r.id = q.id => r = q
      BY <2>1 DEF Short, Distinct
    <3>2. idOf \in [records -> ids] /\ \A r \in records : idOf[r] = r.id
      OBVIOUS
    <3> HIDE DEF ids, idOf
    <3> QED
      BY <3>1, <3>2 DEF Injection, IsInjective
  <2>6. Cardinality(ids) = Cardinality(records)
    <3>1. IsFiniteSet(records)
      BY <2>1 DEF Short, Distinct
    <3> HIDE DEF ids, idOf
    <3> QED
      BY <2>4, <2>5, <3>1, FS_Surjection
  <2> QED
    BY <2>1, <2>3, <2>6 DEF Short
<1> QED
  BY <1>1 DEF PublicInv, PublicData, PublicTypeInv, PublicTypeOK

LEMMA PublicTypeInitInv == PublicInit => PublicTypeInv
BY NoneIsShort DEF PublicInit, PublicTypeInv

(* Time passes, and nothing is recorded. *)
LEMMA ShortStays ==
  ASSUME PublicTypeInv, clock \in Nat, clock' \in Nat, clock' >= clock, UNCHANGED <<storage, listed>>,
         resultDoes' \in {"idle", "asked", "over"}
  PROVE  PublicTypeInv'
BY DEF PublicTypeInv, Short, Distinct

LEMMA PublicTypeNextInv ==
  ASSUME PublicInv, PublicTypeInv, [PublicNext]_publicVars
  PROVE  PublicTypeInv'
<1> USE DEF publicListVars, resultVars, publicBudget
<1>1. /\ clock \in Nat /\ resultDoes \in {"idle", "asked", "over"}
      /\ Distinct(storage, clock) /\ Short(storage, clock) /\ Short(listed, clock)
      /\ \A r \in storage : r \in HistoryRecords
  BY DEF PublicInv, PublicData, PublicTypeInv, Short, Honest
<1>2. ASSUME UNCHANGED clock, Short(storage', clock), Short(listed', clock),
             resultDoes' \in {"idle", "asked", "over"}
      PROVE  PublicTypeInv'
  BY <1>2 DEF PublicTypeInv
<1>3. CASE UNCHANGED publicVars
  BY <1>1, <1>3, ShortStays DEF publicVars
<1>4. ASSUME NEW i, NEW status, Advance(i, status)
      PROVE  PublicTypeInv'
  BY <1>1, <1>4, ShortStays DEF Advance
<1>5. CASE TimePasses
  BY <1>1, <1>5, ShortStays DEF TimePasses
<1>6. ASSUME NEW n \in Rounds, OpenList(n)
      PROVE  PublicTypeInv'
  <2>1. /\ storage' = StaleFailed(storage) /\ listed' = storage' /\ UNCHANGED <<clock, resultDoes>>
    BY <1>6 DEF OpenList
  <2>2. Short(StaleFailed(storage), clock)
    BY <1>1, StaleFailedIsShort
  <2> QED
    BY <1>1, <1>2, <2>1, <2>2
<1>7. CASE LeaveList \/ HandleClearHistory
  <2>1. /\ listed' = {} /\ storage' \in {storage, {}} /\ UNCHANGED <<clock, resultDoes>>
    BY <1>7 DEF LeaveList, HandleClearHistory
  <2> QED
    BY <1>1, <1>2, <2>1, NoneIsShort
<1>8. ASSUME NEW n \in Rounds, NEW i, RoundTick(n) \/ RoundAnswered(n, i)
      PROVE  PublicTypeInv'
  <2>1. UNCHANGED <<clock, storage, listed, resultDoes>>
    BY <1>8 DEF RoundTick, RoundAnswered
  <2> QED
    BY <1>1, <2>1, ShortStays
<1>9. ASSUME NEW n \in Rounds, NEW i, NEW history, NEW dirty, Handled(n, i, history, dirty),
             Short(history, clock), \A r \in history : r \in HistoryRecords
      PROVE  PublicTypeInv'
  <2>1. /\ storage' = history \/ storage' = StaleFailed(history)
        /\ listed' = listed \/ listed' = Sanitize(storage')
        /\ UNCHANGED <<clock, resultDoes>>
    BY <1>9 DEF Handled
  <2>2. Short(storage', clock)
    BY <1>1, <1>9, <2>1, StaleFailedIsShort DEF Short
  <2>3. Short(listed', clock)
    BY <1>1, <2>1, <2>2, SanitizedIsShort DEF Short
  <2> QED
    BY <1>1, <1>2, <2>1, <2>2, <2>3
<1>10. ASSUME NEW i, NEW status \in PublicStatus
       PROVE  /\ Short(Updated(i, status), clock)
              /\ \A r \in Updated(i, status) : r \in HistoryRecords
  <2>1. \A r \in Updated(i, status) :
           \E q \in storage : r = q \/ r = [q EXCEPT !.status = status]
    BY SanitizeIsPart DEF Updated, History
  <2> QED
    BY <1>1, <2>1, UpdatedIsShort DEF HistoryRecords
<1>11. ASSUME NEW n \in Rounds, NEW i \in PublicIds, RoundArrives(n, i)
       PROVE  PublicTypeInv'
  <2>1. PICK history, dirty :
           /\ Handled(n, i, history, dirty) /\ round[n].answer[i] \in PublicStatus
           /\ history = storage \/ history = Updated(i, round[n].answer[i])
    BY <1>11 DEF RoundArrives
  <2> QED
    BY <1>1, <1>9, <1>10, <2>1
<1>12. ASSUME NEW n \in Rounds, NEW i \in PublicIds, RoundLost(n, i)
       PROVE  PublicTypeInv'
  BY <1>1, <1>9, <1>12 DEF RoundLost
<1>13. ASSUME NEW i \in PublicIds, HandleScan(i)
       PROVE  PublicTypeInv'
  <2> DEFINE record == [id |-> i, status |-> "pending", at |-> clock']
  <2>1. /\ clock' = clock + 1 /\ storage' = Added(record) /\ listed' = {} /\ resultDoes' = "idle"
    BY <1>13 DEF HandleScan
  <2>2. record.at = clock + 1
    BY <2>1
  <2> HIDE DEF record
  <2>3. Short(storage', clock')
    BY <1>1, <2>1, <2>2, AddedIsShort
  <2> QED
    BY <2>1, <2>3, NoneIsShort DEF PublicTypeInv
<1>14. ASSUME NEW i, OpenResult(i) \/ HandleRescan(i)
       PROVE  PublicTypeInv'
  BY <1>1, <1>14, ShortStays DEF OpenResult, HandleRescan, ResultIs
<1>15. CASE LeaveResult \/ ResultPoll \/ ResultFails
  BY <1>1, <1>15, ShortStays DEF LeaveResult, ResultPoll, ResultFails, ResultIs
<1>16. CASE ResultArrives
  <2>1. /\ UNCHANGED <<clock, listed>> /\ resultDoes' \in {"idle", "over"}
        /\ \/ UNCHANGED storage
           \/ /\ publicScan[resultOf] \in {"completed", "failed"}
              /\ storage' = Updated(resultOf, publicScan[resultOf])
    BY <1>16 DEF ResultArrives, ResultIs
  <2>2. {"completed", "failed"} \subseteq PublicStatus
    BY DEF PublicStatus, Ends
  <2>3. Short(storage', clock)
    BY <1>1, <1>10, <2>1, <2>2
  <2> QED
    BY <1>1, <1>2, <2>1, <2>3
<1>17. CASE RoundStep \/ ResultStep
  BY <1>8, <1>11, <1>15, <1>16, <1>17, Zenon DEF RoundStep, ResultStep
<1> QED
  BY <1>3, <1>4, <1>5, <1>6, <1>7, <1>12, <1>13, <1>14, <1>15, <1>17, Zenon DEF PublicNext

(* The history never holds more than MAX_ENTRIES records, each of a scan   *)
(* of its own (sanitizePublicHistory).                                     *)
THEOREM PublicTypes == PublicSpec => []PublicTypeOK
<1>1. PublicInv /\ PublicTypeInv /\ [PublicNext]_publicVars => PublicTypeInv'
  BY PublicTypeNextInv
<1> QED
  BY <1>1, PublicInvariant, PublicTypeInitInv, PublicTypesHold, PTL DEF PublicSpec

-----------------------------------------------------------------------------
(* The runs on the page of a repository *)

RunEntries == [id : Nat, status : {"active", "ended"}]

(* A list of runs that exist. *)
RunList(list) ==
    /\ list \in Seq(RunEntries)
    /\ \A i \in 1..Len(list) : list[i].id \in 1..Len(repositoryRuns)

OnceEach(list) == \A i, j \in 1..Len(list) : list[i].id = list[j].id => i = j

RowsInv == repositoryRuns \in Seq({"active", "ended"}) /\ Len(repositoryRuns) <= MaxRuns

PolledInv ==
    /\ RunList(shownRuns)
    /\ \A list \in runPolls : RunList(list) /\ OnceEach(list)
    /\ IsFiniteSet(runPolls) /\ Cardinality(runPolls) <= MaxPolls
    /\ lostPolls \in 0..MaxLostPolls

(* A start and a dry run under way got runs of their own. *)
StartsInv ==
    /\ starting \in [id : 0..Len(repositoryRuns)] \cup {NoRequest}
    /\ discovering \in [id : 0..Len(repositoryRuns)] \cup {NoRequest}
    /\ starting # NoRequest /\ discovering # NoRequest /\ starting.id = discovering.id
         => starting.id = 0
    /\ cancellingRun \in [id : 1..Len(repositoryRuns), done : BOOLEAN] \cup {NoRequest}

(* A run is shown twice only when its start has been put in front of a     *)
(* list that has it already, and so once at most before that.              *)
Requested(n) ==
    (starting # NoRequest /\ starting.id = n) \/ (discovering # NoRequest /\ discovering.id = n)

ShownInv ==
    \A n \in 1..Len(repositoryRuns) :
      /\ \E a, b \in Nat : Occurrences(n) \subseteq {a, b}
      /\ Requested(n) => \E a \in Nat : Occurrences(n) \subseteq {a}

RunPageInv == RowsInv /\ PolledInv /\ StartsInv /\ ShownInv

LEMMA RunPageTypesHold == RunPageInv => RepositoryPageTypeOK
<1> SUFFICES ASSUME RunPageInv PROVE RepositoryPageTypeOK
  OBVIOUS
<1>1. ASSUME NEW n \in 1..Len(repositoryRuns) PROVE Cardinality(Occurrences(n)) <= 2
  <2>1. PICK a \in Nat, b \in Nat : Occurrences(n) \subseteq {a, b}
    BY DEF RunPageInv, ShownInv
  <2>2. IsFiniteSet({a}) /\ Cardinality({a}) = 1
    BY FS_Singleton
  <2>3. IsFiniteSet({a} \cup {b}) /\ Cardinality({a} \cup {b}) <= 2
    <3>1. PICK single : single = {a}
      OBVIOUS
    <3>2. /\ IsFiniteSet(single \cup {b}) /\ Cardinality(single \cup {b}) \in Nat
          /\ Cardinality(single \cup {b}) <= Cardinality(single) + 1
      BY <2>2, <3>1, OneMore
    <3>3. Cardinality(single) = 1 /\ single \cup {b} = {a} \cup {b}
      BY <2>2, <3>1
    <3>4. PICK k \in Nat : k = Cardinality(single \cup {b})
      BY <3>2
    <3>5. k <= 2
      BY <3>2, <3>3, <3>4
    <3> QED
      BY <3>2, <3>3, <3>4, <3>5
  <2>4. {a} \cup {b} = {a, b}
    OBVIOUS
  <2>5. /\ IsFiniteSet(Occurrences(n))
        /\ Cardinality(Occurrences(n)) <= Cardinality({a} \cup {b})
    BY <2>1, <2>3, <2>4, FS_Subset
  <2>6. Cardinality(Occurrences(n)) \in Nat /\ Cardinality({a} \cup {b}) \in Nat
    BY <2>3, <2>5, FS_CardinalityType
  <2>7. PICK x \in Nat, y \in Nat : x = Cardinality(Occurrences(n)) /\ y = Cardinality({a} \cup {b})
    BY <2>6
  <2>8. x <= y /\ y <= 2
    BY <2>3, <2>5, <2>7
  <2> QED
    BY <2>7, <2>8
<1> QED
  BY <1>1 DEF RunPageInv, RowsInv, PolledInv, RunList, RepositoryPageTypeOK

(* What the service reads is newest first, each run once. *)
LEMMA NewestFirstIsRead ==
  ASSUME NEW statuses \in Seq({"active", "ended"}), Len(statuses) = Len(repositoryRuns)
  PROVE  RunList(NewestFirst(statuses)) /\ OnceEach(NewestFirst(statuses))
<1> DEFINE list == NewestFirst(statuses)
           older(i) == Len(statuses) + 1 - i
<1>1. Len(statuses) \in Nat
  OBVIOUS
<1>2. \A i \in 1..Len(statuses) : older(i) \in 1..Len(statuses)
  BY <1>1
<1>3. \A i \in 1..Len(statuses) : Entry(older(i), statuses[older(i)]) \in RunEntries
  <2>1. \A n \in 1..Len(statuses) : statuses[n] \in {"active", "ended"} /\ n \in Nat
    OBVIOUS
  <2> QED
    BY <1>2, <2>1 DEF Entry, RunEntries
<1>4. list = [i \in 1..Len(statuses) |-> Entry(older(i), statuses[older(i)])]
  BY DEF NewestFirst
<1>5. list \in Seq(RunEntries) /\ Len(list) = Len(statuses)
  BY <1>1, <1>3, <1>4
<1>6. \A i \in 1..Len(list) : list[i].id = older(i)
  BY <1>4, <1>5 DEF Entry
<1> HIDE DEF list
<1>7. RunList(list) /\ OnceEach(list)
  BY <1>1, <1>2, <1>5, <1>6 DEF RunList, OnceEach
<1> QED
  BY <1>7 DEF list

LEMMA RunPageInitInv == RepositoryPageInit => RunPageInv
<1> SUFFICES ASSUME RepositoryPageInit PROVE RunPageInv
  OBVIOUS
<1>1. /\ repositoryRuns \in {<<>>, <<"active">>} /\ shownRuns = <<>>
      /\ runPolls = {NewestFirst(repositoryRuns)}
      /\ starting = NoRequest /\ discovering = NoRequest /\ cancellingRun = NoRequest
      /\ lostPolls = 0
  BY DEF RepositoryPageInit
<1>2. /\ MaxRuns \in Nat /\ MaxRuns >= 1 /\ MaxPolls \in Nat /\ MaxPolls >= 1
      /\ MaxLostPolls \in Nat
  BY RepositoryPageConstants
<1>3. RowsInv
  <2>1. <<>> \in Seq({"active", "ended"}) /\ Len(<<>>) = 0
    OBVIOUS
  <2>2. <<"active">> \in Seq({"active", "ended"}) /\ Len(<<"active">>) = 1
    OBVIOUS
  <2>3. CASE repositoryRuns = <<>>
    BY <1>2, <2>1, <2>3 DEF RowsInv
  <2>4. CASE repositoryRuns = <<"active">>
    BY <1>2, <2>2, <2>4 DEF RowsInv
  <2> QED
    BY <1>1, <2>3, <2>4
<1>4. PolledInv
  <2>1. RunList(NewestFirst(repositoryRuns)) /\ OnceEach(NewestFirst(repositoryRuns))
    BY <1>3, NewestFirstIsRead DEF RowsInv
  <2>2. IsFiniteSet(runPolls) /\ Cardinality(runPolls) = 1
    BY <1>1, FS_Singleton
  <2>3. RunList(shownRuns)
    BY <1>1 DEF RunList
  <2> QED
    BY <1>1, <1>2, <2>1, <2>2, <2>3 DEF PolledInv
<1>5. StartsInv
  BY <1>1 DEF StartsInv
<1>6. ShownInv
  BY <1>1 DEF ShownInv, Requested, Occurrences
<1> QED
  BY <1>3, <1>4, <1>5, <1>6 DEF RunPageInv

(* Runs end or are added; the page's lists stay lists of runs that exist. *)
LEMMA ListsStay ==
  ASSUME RowsInv, repositoryRuns' \in Seq({"active", "ended"}),
         Len(repositoryRuns') >= Len(repositoryRuns), NEW list, RunList(list)
  PROVE  RunList(list)'
<1>1. Len(repositoryRuns) \in Nat /\ Len(repositoryRuns') \in Nat
  BY DEF RowsInv
<1> QED
  BY <1>1 DEF RunList

LEMMA PolledStay ==
  ASSUME RowsInv, PolledInv, repositoryRuns' \in Seq({"active", "ended"}),
         Len(repositoryRuns') >= Len(repositoryRuns), UNCHANGED <<shownRuns, runPolls, lostPolls>>
  PROVE  PolledInv'
<1>1. RunList(shownRuns)' /\ \A list \in runPolls' : RunList(list)'
  BY ListsStay DEF PolledInv, RunList
<1> QED
  BY <1>1 DEF PolledInv, OnceEach

(* The steps that leave the rows as many as they were, and what is shown   *)
(* and requested as it was.                                                *)
LEMMA RowsChange ==
  ASSUME RunPageInv, repositoryRuns' \in Seq({"active", "ended"}),
         Len(repositoryRuns') = Len(repositoryRuns),
         UNCHANGED <<shownRuns, runPolls, lostPolls>>,
         \/ UNCHANGED starting \/ starting' = NoRequest
         \/ starting = NoRequest /\ starting' = [id |-> 0],
         \/ UNCHANGED discovering \/ discovering' = NoRequest
         \/ discovering = NoRequest /\ discovering' = [id |-> 0],
         cancellingRun' \in [id : 1..Len(repositoryRuns), done : BOOLEAN] \cup {NoRequest}
  PROVE  RunPageInv'
<1>1. RowsInv /\ PolledInv /\ StartsInv /\ ShownInv /\ Len(repositoryRuns) \in Nat
  BY DEF RunPageInv, RowsInv
<1>2. RowsInv' /\ PolledInv'
  BY <1>1, PolledStay DEF RowsInv
<1>3. [id |-> 0] \in [id : 0..Len(repositoryRuns)] /\ [id |-> 0] # NoRequest
  BY <1>1, RepositoryPageConstants
<1>4. StartsInv'
  BY <1>1, <1>3 DEF StartsInv
<1>5. \A n \in 1..Len(repositoryRuns) : Requested(n)' => Requested(n)
  BY <1>1, <1>3 DEF Requested
<1>6. ShownInv'
  BY <1>1, <1>5 DEF ShownInv, Occurrences
<1> QED
  BY <1>2, <1>4, <1>6 DEF RunPageInv

(* The first active run of the list exists. *)
LEMMA ActiveRunExists ==
  ASSUME RunList(shownRuns), HasActiveRun
  PROVE  ActiveRun \in 1..Len(repositoryRuns)
<1> DEFINE active == {i \in 1..Len(shownRuns) : IsActive(shownRuns[i])}
<1>1. active \in SUBSET Nat /\ active # {} /\ Len(shownRuns) \in Nat
  BY DEF HasActiveRun, RunList
<1>2. PICK i \in active : \A j \in active : i <= j
  BY <1>1, LeastNumber
<1>3. /\ i \in 1..Len(shownRuns) /\ IsActive(shownRuns[i])
      /\ \A j \in 1..(i - 1) : ~ IsActive(shownRuns[j])
  BY <1>1, <1>2
<1> QED
  BY <1>3 DEF ActiveRun, RunList

LEMMA RowSteps ==
  ASSUME RunPageInv,
         \/ StartScan \/ StartDiscovery \/ DiscoveryFails \/ CancelActiveRun \/ CancelHandled
         \/ RunsProceed \/ UNCHANGED repositoryPageVars
  PROVE  RunPageInv'
<1>1. RowsInv /\ PolledInv /\ StartsInv /\ Len(repositoryRuns) \in Nat
  BY DEF RunPageInv, RowsInv
<1>2. UNCHANGED <<shownRuns, runPolls, lostPolls>>
  BY DEF StartScan, StartDiscovery, DiscoveryFails, CancelActiveRun, CancelHandled, RunsProceed,
         RepositoryRunEnds, repositoryPageVars
<1>3. /\ \/ UNCHANGED starting
         \/ starting = NoRequest /\ starting' = [id |-> 0]
      /\ \/ UNCHANGED discovering
         \/ discovering = NoRequest /\ discovering' = [id |-> 0]
         \/ discovering' = NoRequest
  BY DEF StartScan, StartDiscovery, DiscoveryFails, CancelActiveRun, CancelHandled, RunsProceed,
         RepositoryRunEnds, repositoryPageVars
<1>4. repositoryRuns' \in Seq({"active", "ended"}) /\ Len(repositoryRuns') = Len(repositoryRuns)
  <2>1. \/ UNCHANGED repositoryRuns
        \/ \E n \in 1..Len(repositoryRuns) : repositoryRuns' = [repositoryRuns EXCEPT ![n] = "ended"]
    BY <1>1 DEF StartScan, StartDiscovery, DiscoveryFails, CancelActiveRun, CancelHandled,
                RunsProceed, RepositoryRunEnds, repositoryPageVars, StartsInv
  <2>2. ASSUME NEW n \in 1..Len(repositoryRuns), repositoryRuns' = [repositoryRuns EXCEPT ![n] = "ended"]
        PROVE  repositoryRuns' \in Seq({"active", "ended"}) /\ Len(repositoryRuns') = Len(repositoryRuns)
    BY <1>1, <2>2 DEF RowsInv
  <2> QED
    BY <1>1, <2>1, <2>2 DEF RowsInv
<1>5. cancellingRun' \in [id : 1..Len(repositoryRuns), done : BOOLEAN] \cup {NoRequest}
  <2>1. CASE CancelActiveRun
    <3>1. ActiveRun \in 1..Len(repositoryRuns)
      BY <1>1, <2>1, ActiveRunExists DEF CancelActiveRun, PolledInv
    <3> QED
      BY <2>1, <3>1 DEF CancelActiveRun
  <2>2. CASE CancelHandled
    BY <1>1, <2>2 DEF CancelHandled, StartsInv
  <2>3. CASE ~ (CancelActiveRun \/ CancelHandled)
    BY <1>1, <2>3 DEF StartsInv, StartScan, StartDiscovery, DiscoveryFails, RunsProceed, RepositoryRunEnds,
                      repositoryPageVars
  <2> QED
    BY <2>1, <2>2, <2>3
<1> QED
  BY <1>2, <1>3, <1>4, <1>5, RowsChange

(* A run is created for a start or a dry run: it is not in any list yet. *)
LEMMA RunsCreated ==
  ASSUME RunPageInv, StartHandled \/ DiscoveryHandled
  PROVE  RunPageInv'
<1> DEFINE new == Len(repositoryRuns) + 1
<1>1. /\ RowsInv /\ PolledInv /\ StartsInv /\ ShownInv /\ Len(repositoryRuns) \in Nat
      /\ Len(repositoryRuns) < MaxRuns /\ MaxRuns \in Nat
  BY RepositoryPageConstants DEF RunPageInv, RowsInv, StartHandled, DiscoveryHandled
<1>2. UNCHANGED <<shownRuns, runPolls, lostPolls, cancellingRun>>
  BY DEF StartHandled, DiscoveryHandled
<1>3. CASE StartHandled /\ ~ NoneActive
  <2>1. UNCHANGED <<repositoryRuns, discovering>> /\ starting' = NoRequest
    BY <1>3 DEF StartHandled
  <2> QED
    BY <1>1, <1>2, <2>1, RowsChange DEF RowsInv, StartsInv
<1>4. CASE ~ (StartHandled /\ ~ NoneActive)
  <2>1. /\ repositoryRuns' = Append(repositoryRuns, "active")
        /\ \/ starting' = [id |-> Len(repositoryRuns')] /\ UNCHANGED discovering
           \/ discovering' = [id |-> Len(repositoryRuns')] /\ UNCHANGED starting
    BY <1>4 DEF StartHandled, DiscoveryHandled
  <2>2. repositoryRuns' \in Seq({"active", "ended"}) /\ Len(repositoryRuns') = new
    BY <1>1, <2>1 DEF RowsInv
  <2>3. RowsInv' /\ PolledInv'
    BY <1>1, <1>2, <2>2, PolledStay DEF RowsInv
  <2>4. StartsInv'
    BY <1>1, <1>2, <2>1, <2>2 DEF StartsInv
  <2>5. Occurrences(new) = {}
    BY <1>1 DEF Occurrences, PolledInv, RunList
  <2>6. \A n \in 1..Len(repositoryRuns) : Requested(n)' => Requested(n)
    BY <1>1, <2>1, <2>2 DEF Requested
  <2>7. \A n \in 1..Len(repositoryRuns)' : n = new \/ n \in 1..Len(repositoryRuns)
    BY <1>1, <2>2
  <2>8. \A n : Occurrences(n)' = Occurrences(n)
    BY <1>2 DEF Occurrences
  <2>9. ASSUME NEW n \in 1..Len(repositoryRuns)'
        PROVE  /\ \E a, b \in Nat : Occurrences(n)' \subseteq {a, b}
               /\ Requested(n)' => \E a \in Nat : Occurrences(n)' \subseteq {a}
    <3>1. CASE n = new
      <4>1. Occurrences(n)' \subseteq {0} /\ Occurrences(n)' \subseteq {0, 0} /\ 0 \in Nat
        BY <2>5, <2>8, <3>1
      <4> QED
        BY <4>1
    <3>2. CASE n \in 1..Len(repositoryRuns)
      BY <1>1, <2>6, <2>8, <3>2 DEF ShownInv
    <3> QED
      BY <2>7, <3>1, <3>2
  <2>10. ShownInv'
    BY <2>9 DEF ShownInv
  <2> QED
    BY <2>3, <2>4, <2>10 DEF RunPageInv
<1> QED
  BY <1>3, <1>4

(* A run is put in front of the list. *)
LEMMA PutInFront ==
  ASSUME RunPageInv, NEW n \in 1..Len(repositoryRuns), NEW status \in {"active", "ended"},
         Requested(n), shownRuns' = <<Entry(n, status)>> \o shownRuns,
         UNCHANGED <<repositoryRuns, runPolls, cancellingRun, lostPolls>>,
         \/ starting # NoRequest /\ starting.id = n /\ starting' = NoRequest /\ UNCHANGED discovering
         \/ discovering # NoRequest /\ discovering.id = n /\ discovering' = NoRequest
              /\ UNCHANGED starting
  PROVE  RunPageInv'
<1>1. RowsInv /\ PolledInv /\ StartsInv /\ ShownInv /\ Len(repositoryRuns) \in Nat
  BY DEF RunPageInv, RowsInv
<1>2. Entry(n, status) \in RunEntries /\ Entry(n, status).id = n
  BY <1>1 DEF Entry, RunEntries
<1>3. shownRuns \in Seq(RunEntries) /\ Len(shownRuns) \in Nat
  BY <1>1 DEF PolledInv, RunList
<1>4. /\ shownRuns' \in Seq(RunEntries) /\ Len(shownRuns') = Len(shownRuns) + 1
      /\ shownRuns'[1] = Entry(n, status)
      /\ \A i \in 2..Len(shownRuns) + 1 : shownRuns'[i] = shownRuns[i - 1]
  BY <1>2, <1>3
<1>5. \A i \in 1..Len(shownRuns') : i = 1 \/ (i \in 2..Len(shownRuns) + 1 /\ i - 1 \in 1..Len(shownRuns))
  BY <1>3, <1>4
<1>6. RunList(shownRuns)'
  BY <1>1, <1>2, <1>4, <1>5 DEF RunList, PolledInv
<1>7. PolledInv'
  BY <1>1, <1>6 DEF PolledInv, RunList, OnceEach
<1>8. RowsInv' /\ StartsInv'
  BY <1>1 DEF RowsInv, StartsInv
<1>9. ASSUME NEW m \in Nat, NEW i \in Occurrences(m)'
      PROVE  (i = 1 /\ m = n) \/ i - 1 \in Occurrences(m)
  BY <1>2, <1>4, <1>5, <1>9 DEF Occurrences
<1>10. \A i \in 1..Len(shownRuns') : i \in Nat
  BY <1>3, <1>4
<1>11. ~ Requested(n)'
  BY <1>1 DEF Requested, StartsInv
<1>12. ASSUME NEW m \in 1..Len(repositoryRuns)
       PROVE  /\ \E a, b \in Nat : Occurrences(m)' \subseteq {a, b}
              /\ Requested(m)' => \E a \in Nat : Occurrences(m)' \subseteq {a}
  <2>1. m \in Nat /\ \A i \in Occurrences(m)' : i \in Nat
    BY <1>1, <1>10 DEF Occurrences
  <2>2. CASE m = n
    <3>1. PICK a \in Nat : Occurrences(n) \subseteq {a}
      BY <1>1 DEF ShownInv
    <3>2. \A i \in Occurrences(m)' : i = 1 \/ i - 1 = a
      BY <1>9, <2>1, <2>2, <3>1
    <3>3. Occurrences(m)' \subseteq {1, a + 1}
      <4>1. ASSUME NEW i \in Occurrences(m)' PROVE i = 1 \/ i = a + 1
        <5>1. i \in Nat /\ (i = 1 \/ i - 1 = a)
          BY <2>1, <3>2
        <5> QED
          BY <5>1
      <4> QED
        BY <4>1
    <3> QED
      BY <1>11, <2>2, <3>1, <3>3
  <2>3. CASE m # n
    <3>1. \A i \in Occurrences(m)' : i - 1 \in Occurrences(m)
      BY <1>9, <2>1, <2>3
    <3>2. ASSUME NEW a \in Nat, NEW b \in Nat, Occurrences(m) \subseteq {a, b}
          PROVE  Occurrences(m)' \subseteq {a + 1, b + 1} /\ a + 1 \in Nat /\ b + 1 \in Nat
      <4>1. ASSUME NEW i \in Occurrences(m)' PROVE i = a + 1 \/ i = b + 1
        <5>1. i \in Nat /\ (i - 1 = a \/ i - 1 = b)
          BY <2>1, <3>1, <3>2
        <5> QED
          BY <5>1
      <4> QED
        BY <4>1
    <3>3. \E a, b \in Nat : Occurrences(m)' \subseteq {a, b}
      <4>1. PICK a \in Nat, b \in Nat : Occurrences(m) \subseteq {a, b}
        BY <1>1 DEF ShownInv
      <4>2. a + 1 \in Nat /\ b + 1 \in Nat /\ Occurrences(m)' \subseteq {a + 1, b + 1}
        BY <3>2, <4>1
      <4> QED
        BY <4>2
    <3>4. ASSUME Requested(m)' PROVE \E a \in Nat : Occurrences(m)' \subseteq {a}
      <4>1. Requested(m)
        BY <3>4 DEF Requested
      <4>2. PICK a \in Nat : Occurrences(m) \subseteq {a}
        BY <1>1, <4>1 DEF ShownInv
      <4>3. Occurrences(m) \subseteq {a, a}
        BY <4>2
      <4>4. a + 1 \in Nat /\ Occurrences(m)' \subseteq {a + 1, a + 1}
        BY <3>2, <4>3
      <4> QED
        BY <4>4
    <3> QED
      BY <3>3, <3>4
  <2> QED
    BY <2>2, <2>3
<1>13. ShownInv'
  BY <1>12 DEF ShownInv
<1> QED
  BY <1>7, <1>8, <1>13 DEF RunPageInv

LEMMA StartsArrive ==
  ASSUME RunPageInv, StartArrives \/ DiscoveryArrives
  PROVE  RunPageInv'
<1>1. CASE StartArrives
  <2>1. PICK n : n = starting.id
    OBVIOUS
  <2>2. n \in 1..Len(repositoryRuns)
    BY <1>1, <2>1 DEF RunPageInv, RowsInv, StartsInv, StartArrives
  <2> QED
    BY <1>1, <2>1, <2>2, PutInFront DEF StartArrives, Requested
<1>2. CASE DiscoveryArrives
  <2>1. PICK n : n = discovering.id
    OBVIOUS
  <2>2. n \in 1..Len(repositoryRuns)
    BY <1>2, <2>1 DEF RunPageInv, RowsInv, StartsInv, DiscoveryArrives
  <2> QED
    BY <1>2, <2>1, <2>2, PutInFront DEF DiscoveryArrives, Requested
<1> QED
  BY <1>1, <1>2

LEMMA PollSteps ==
  ASSUME RunPageInv, Refresh \/ \E list \in runPolls : PollArrives(list) \/ PollFails(list)
  PROVE  RunPageInv'
<1>1. /\ RowsInv /\ PolledInv /\ StartsInv /\ ShownInv /\ Len(repositoryRuns) \in Nat
      /\ MaxPolls \in Nat /\ MaxLostPolls \in Nat
  BY RepositoryPageConstants DEF RunPageInv, RowsInv
<1>2. UNCHANGED <<repositoryRuns, starting, discovering, cancellingRun>>
  BY DEF Refresh, PollArrives, PollFails
<1>3. RowsInv' /\ StartsInv' /\ \A n : Requested(n)' <=> Requested(n)
  BY <1>1, <1>2 DEF RowsInv, StartsInv, Requested
<1>4. CASE Refresh
  <2>1. /\ Cardinality(runPolls) < MaxPolls
        /\ runPolls' = runPolls \cup {NewestFirst(repositoryRuns)}
        /\ UNCHANGED <<shownRuns, lostPolls>>
    BY <1>4 DEF Refresh
  <2>2. RunList(NewestFirst(repositoryRuns)) /\ OnceEach(NewestFirst(repositoryRuns))
    BY <1>1, NewestFirstIsRead DEF RowsInv
  <2>3. IsFiniteSet(runPolls') /\ Cardinality(runPolls') <= MaxPolls
    <3>1. Cardinality(runPolls) \in Nat
      BY <1>1, FS_CardinalityType DEF PolledInv
    <3>2. PICK list : runPolls' = runPolls \cup {list}
      BY <2>1
    <3>3. IsFiniteSet(runPolls)
      BY <1>1 DEF PolledInv
    <3>4. /\ IsFiniteSet(runPolls \cup {list})
          /\ Cardinality(runPolls \cup {list}) = IF list \in runPolls THEN Cardinality(runPolls)
                                                 ELSE Cardinality(runPolls) + 1
      BY <3>3, FS_AddElement
    <3>5. Cardinality(runPolls \cup {list}) <= MaxPolls
      BY <1>1, <2>1, <3>1, <3>4
    <3> QED
      BY <3>2, <3>4, <3>5
  <2>4. PolledInv'
    BY <1>1, <1>2, <2>1, <2>2, <2>3 DEF PolledInv, RunList, OnceEach
  <2>5. ShownInv'
    BY <1>1, <1>2, <1>3, <2>1 DEF ShownInv, Occurrences
  <2> QED
    BY <1>3, <2>4, <2>5 DEF RunPageInv
<1>5. ASSUME NEW list \in runPolls, runPolls' = runPolls \ {list},
             shownRuns' = list \/ shownRuns' = shownRuns, lostPolls' \in 0..MaxLostPolls
      PROVE  RunPageInv'
  <2>1. IsFiniteSet(runPolls') /\ Cardinality(runPolls') <= MaxPolls
    <3>1. Cardinality(runPolls) \in Nat
      BY <1>1, FS_CardinalityType DEF PolledInv
    <3> QED
      BY <1>1, <1>5, <3>1, FS_RemoveElement DEF PolledInv
  <2>2. PolledInv'
    BY <1>1, <1>2, <1>5, <2>1 DEF PolledInv, RunList, OnceEach
  <2>3. CASE shownRuns' = shownRuns
    BY <1>1, <1>2, <1>3, <2>2, <2>3 DEF ShownInv, Occurrences, RunPageInv
  <2>4. CASE shownRuns' = list
    <3>1. ASSUME NEW n PROVE \E a \in Nat : Occurrences(n)' \subseteq {a}
      <4>1. \A i, j \in Occurrences(n)' : i = j /\ i \in Nat
        BY <1>1, <2>4 DEF Occurrences, PolledInv, RunList, OnceEach
      <4>2. CASE Occurrences(n)' = {}
        BY <4>2
      <4>3. CASE Occurrences(n)' # {}
        <5>1. PICK a \in Occurrences(n)' : TRUE
          BY <4>3
        <5> QED
          BY <4>1, <5>1
      <4> QED
        BY <4>2, <4>3
    <3>2. ASSUME NEW n PROVE \E a, b \in Nat : Occurrences(n)' \subseteq {a, b}
      <4>1. PICK a \in Nat : Occurrences(n)' \subseteq {a}
        BY <3>1
      <4> QED
        BY <4>1
    <3>3. ShownInv'
      BY <3>1, <3>2 DEF ShownInv
    <3> QED
      BY <1>3, <2>2, <3>3 DEF RunPageInv
  <2> QED
    BY <1>5, <2>3, <2>4
<1>6. ASSUME NEW list \in runPolls, PollArrives(list) \/ PollFails(list)
      PROVE  RunPageInv'
  <2>1. lostPolls' \in 0..MaxLostPolls
    BY <1>1, <1>6 DEF PolledInv, PollArrives, PollFails
  <2> QED
    BY <1>5, <1>6, <2>1 DEF PollArrives, PollFails
<1> QED
  BY <1>4, <1>6

LEMMA CancelArrivesKeeps ==
  ASSUME RunPageInv, CancelArrives
  PROVE  RunPageInv'
<1>1. RowsInv /\ PolledInv /\ StartsInv /\ ShownInv /\ RunList(shownRuns)
  BY DEF RunPageInv, PolledInv
<1>2. PICK n \in 1..Len(repositoryRuns) : n = cancellingRun.id
  BY <1>1 DEF CancelArrives, StartsInv
<1>3. /\ shownRuns' = WithCancelled(n, shownRuns) /\ cancellingRun' = NoRequest
      /\ UNCHANGED <<repositoryRuns, runPolls, starting, discovering, lostPolls>>
  BY <1>2 DEF CancelArrives
<1>4. n \in Nat
  BY <1>1 DEF RowsInv
<1>5. /\ Len(shownRuns') = Len(shownRuns) /\ shownRuns' \in Seq(RunEntries)
      /\ \A i \in 1..Len(shownRuns) : shownRuns'[i].id = shownRuns[i].id
  <2>1. /\ \A i \in 1..Len(shownRuns) : shownRuns[i] \in RunEntries
        /\ shownRuns \in Seq(RunEntries) /\ Len(shownRuns) \in Nat
    BY <1>1 DEF RunList
  <2>2. Entry(n, "ended") \in RunEntries /\ Entry(n, "ended").id = n
    BY <1>4 DEF Entry, RunEntries
  <2>3. shownRuns' = [i \in 1..Len(shownRuns) |->
                        IF shownRuns[i].id = n THEN Entry(n, "ended") ELSE shownRuns[i]]
    BY <1>3 DEF WithCancelled
  <2> QED
    BY <2>1, <2>2, <2>3
<1>6. PolledInv'
  BY <1>1, <1>3, <1>5 DEF PolledInv, RunList, OnceEach
<1>7. RowsInv' /\ StartsInv'
  BY <1>1, <1>3 DEF RowsInv, StartsInv
<1>8. \A m : Occurrences(m)' = Occurrences(m)
  BY <1>5 DEF Occurrences
<1>9. ShownInv'
  BY <1>1, <1>3, <1>8 DEF ShownInv, Requested
<1> QED
  BY <1>6, <1>7, <1>9 DEF RunPageInv

LEMMA RunPageNextInv ==
  ASSUME RunPageInv, [RepositoryPageNext]_repositoryPageVars
  PROVE  RunPageInv'
BY RowSteps, RunsCreated, StartsArrive, PollSteps, CancelArrivesKeeps
DEF RepositoryPageNext, RunPolling

(* The page shows runs that exist, and a run never more than twice, however *)
(* late a list arrives.                                                     *)
THEOREM RunPageTypes == RepositoryPageSpec => []RepositoryPageTypeOK
<1>1. RunPageInv /\ [RepositoryPageNext]_repositoryPageVars => RunPageInv'
  BY RunPageNextInv
<1> QED
  BY <1>1, RunPageInitInv, RunPageTypesHold, PTL DEF RepositoryPageSpec

-----------------------------------------------------------------------------
(* The delivery history *)

(* An entry of the history that can be loaded now: deliveries of a page,   *)
(* read when there were "count" of them.                                   *)
ReadAt(answer, offset) == \E count \in 0..deliveryCount : answer = Page(count, offset)

(* What is under way: a list read from its start, or a page from an offset *)
(* that was one.                                                           *)
PagesAreRead ==
    /\ \A answer \in loadAnswers : ReadAt(answer, 0)
    /\ morePage # NoRequest =>
         \E offset \in 0..deliveryCount :
            \/ morePage = [offset |-> offset, read |-> FALSE]
            \/ morePage.read /\ \E answer \in {morePage.answer} :
                  /\ morePage = [read |-> TRUE, answer |-> answer]
                  /\ ReadAt(answer, offset)

(* The first delivery of the list and, of the older ones, the next one.    *)
Newest == deliveries[1]
NextOlder  == Newest - Len(deliveries)

(* While no loads overlap and no more than a page of deliveries is newer   *)
(* than the list: the list goes on where it ends, and the page asked for   *)
(* is the one that does.                                                   *)
PageContinues ==
    morePage # NoRequest =>
       /\ hasMore
       /\ ~ morePage.read => morePage.offset = deliveryOffset
       /\ morePage.read => \E count \in (deliveryOffset + NextOlder)..deliveryCount :
                              morePage.answer = Page(count, deliveryOffset)

ListContinues ==
    /\ \A i \in 1..Len(deliveries) : deliveries[i] = Newest + 1 - i
    /\ Len(deliveries) <= deliveryOffset
    /\ deliveryOffset + NextOlder <= deliveryCount
    /\ IF hasMore THEN deliveryOffset >= DeliveryPageSize ELSE NextOlder = 0
    /\ PageContinues

Whole == deliveryCount - Newest <= DeliveryPageSize

HistoryInv ==
    /\ PagesAreRead
    /\ deliveryCount \in Nat
    /\ deliveries \in Seq(1..deliveryCount) /\ hasMore \in BOOLEAN /\ overlapped \in BOOLEAN
    /\ deliveryOffset \in 0..deliveryCount
    /\ ~ overlapped /\ deliveries = <<>> => ~ hasMore /\ morePage = NoRequest
    /\ ~ overlapped /\ deliveries # <<>> /\ Whole => ListContinues

-----------------------------------------------------------------------------
(* Filtering *)

(* The entries kept are ranked one after the other. *)
LEMMA RanksAreOneToOne ==
    ASSUME NEW n \in Nat, NEW kept \in SUBSET (1..n)
    PROVE  /\ Cardinality(kept) \in Nat
           /\ \A i \in kept : Rank(kept, i) \in 1..Cardinality(kept)
           /\ \A i, k \in kept : Rank(kept, i) = Rank(kept, k) => i = k
           /\ \A j \in 1..Cardinality(kept) : \E i \in kept : Rank(kept, i) = j
  <1> DEFINE upTo(i) == {k \in kept : k <= i}
             rank == [i \in kept |-> Rank(kept, i)]
  <1>1. IsFiniteSet(kept) /\ Cardinality(kept) \in Nat
    <2>1. IsFiniteSet(1..n)
      BY FS_Interval
    <2> QED BY <2>1, FS_Subset, FS_CardinalityType
  <1>2. \A i \in kept : /\ IsFiniteSet(upTo(i)) /\ Cardinality(upTo(i)) \in 1..Cardinality(kept)
    <2> TAKE i \in kept
    <2>1. IsFiniteSet(upTo(i)) /\ Cardinality(upTo(i)) <= Cardinality(kept)
      <3> upTo(i) \in SUBSET kept
        OBVIOUS
      <3> HIDE DEF upTo
      <3> QED BY <1>1, FS_Subset
    <2>2. upTo(i) # {}
      OBVIOUS
    <2> HIDE DEF upTo
    <2>3. Cardinality(upTo(i)) \in Nat /\ Cardinality(upTo(i)) # 0
      BY <2>1, <2>2, FS_CardinalityType, FS_EmptySet
    <2> QED BY <1>1, <2>1, <2>3
  <1>3. \A i, k \in kept : i < k => Cardinality(upTo(i)) # Cardinality(upTo(k))
    <2> SUFFICES ASSUME NEW i \in kept, NEW k \in kept, i < k,
                        Cardinality(upTo(i)) = Cardinality(upTo(k))
                 PROVE  FALSE
      OBVIOUS
    <2>1. upTo(i) \in SUBSET upTo(k) /\ k \in upTo(k) /\ k \notin upTo(i)
      <3>1. kept \subseteq Int /\ i \in Int /\ k \in Int
        OBVIOUS
      <3>2. k \in upTo(k) /\ k \notin upTo(i)
        BY <3>1
      <3>3. \A l \in kept : l <= i => l <= k
        BY <3>1
      <3>4. upTo(i) \subseteq upTo(k)
        BY <3>3
      <3> QED BY <3>2, <3>4
    <2>2. IsFiniteSet(upTo(k))
      BY <1>2
    <2> HIDE DEF upTo
    <2>3. upTo(k) = upTo(i)
      BY <2>1, <2>2, FS_Subset
    <2> QED BY <2>1, <2>3
  <1>4. \A i, k \in kept : Rank(kept, i) = Rank(kept, k) => i = k
    <2> SUFFICES ASSUME NEW i \in kept, NEW k \in kept, Rank(kept, i) = Rank(kept, k), i # k
                 PROVE  FALSE
      OBVIOUS
    <2>1. i < k \/ k < i
      OBVIOUS
    <2> QED BY <1>3, <2>1 DEF Rank
  <1>5. rank \in Injection(kept, 1..Cardinality(kept))
    BY <1>2, <1>4 DEF Injection, IsInjective, Rank
  <1>6. rank \in Surjection(kept, 1..Cardinality(kept))
    <2>1. IsFiniteSet(1..Cardinality(kept)) /\ Cardinality(1..Cardinality(kept)) = Cardinality(kept)
      BY <1>1, FS_Interval
    <2> HIDE DEF rank
    <2> QED BY <1>5, <2>1, FS_Injection
  <1>7. ASSUME NEW j \in 1..Cardinality(kept) PROVE \E i \in kept : Rank(kept, i) = j
    <2>1. PICK i \in kept : rank[i] = j
      BY <1>6 DEF Surjection
    <2> QED BY <2>1
  <1> QED BY <1>1, <1>2, <1>4, <1>7 DEF Rank

(* What is left of a page has entries of that page. *)
LEMMA WithoutIsPart ==
    ASSUME NEW T, NEW part \in Seq(T)
    PROVE  Without(part) \in Seq(T)
  <1> DEFINE kept == {i \in 1..Len(part) : ~ OnList(part[i])}
             at(j) == CHOOSE i \in kept : Rank(kept, i) = j
  <1>1. kept \in SUBSET (1..Len(part)) /\ Len(part) \in Nat
    OBVIOUS
  <1>2. Without(part) = [j \in 1..Cardinality(kept) |-> part[at(j)]]
    BY DEF Without
  <1> HIDE DEF kept
  <1>3. Cardinality(kept) \in Nat /\ \A j \in 1..Cardinality(kept) : at(j) \in kept
    BY <1>1, RanksAreOneToOne
  <1> HIDE DEF at
  <1>4. \A j \in 1..Cardinality(kept) : part[at(j)] \in T
    <2>1. \A i \in 1..Len(part) : part[i] \in T
      OBVIOUS
    <2> QED BY <1>1, <1>3, <2>1
  <1> QED BY <1>2, <1>3, <1>4

(* When the list has the first m entries of a page and no other, the rest  *)
(* is left.                                                                *)
LEMMA WithoutIsTail ==
    ASSUME NEW T, NEW part \in Seq(T), NEW m \in Nat,
           \A i \in 1..Len(part) : OnList(part[i]) <=> i <= m
    PROVE  /\ Without(part) \in Seq(T)
           /\ Len(Without(part)) = IF m <= Len(part) THEN Len(part) - m ELSE 0
           /\ \A j \in 1..Len(Without(part)) : Without(part)[j] = part[m + j]
  <1> DEFINE kept == {i \in 1..Len(part) : ~ OnList(part[i])}
             at(j) == CHOOSE i \in kept : Rank(kept, i) = j
  <1>1. Len(part) \in Nat
    OBVIOUS
  <1>2. kept = (m + 1)..Len(part)
    OBVIOUS
  <1>3. Without(part) = [j \in 1..Cardinality(kept) |-> part[at(j)]]
    BY DEF Without
  <1> HIDE DEF kept
  <1>4. Cardinality(kept) = IF m <= Len(part) THEN Len(part) - m ELSE 0
    <2>1. m + 1 \in Int /\ Len(part) \in Int
      BY <1>1
    <2>2. Cardinality(kept) = IF m + 1 > Len(part) THEN 0 ELSE Len(part) - (m + 1) + 1
      BY <1>2, <2>1, FS_Interval
    <2> QED BY <1>1, <2>2
  <1>5. \A i \in kept : Rank(kept, i) = i - m
    <2> TAKE i \in kept
    <2>1. {k \in kept : k <= i} = (m + 1)..i
      BY <1>1, <1>2
    <2>2. i \in Int /\ m + 1 \in Int /\ m + 1 <= i
      BY <1>1, <1>2
    <2>3. Cardinality((m + 1)..i) = IF m + 1 > i THEN 0 ELSE i - (m + 1) + 1
      BY <2>2, FS_Interval
    <2>4. Rank(kept, i) = Cardinality((m + 1)..i)
      BY <2>1 DEF Rank
    <2> QED BY <2>2, <2>3, <2>4
  <1>6. ASSUME NEW j \in 1..Cardinality(kept) PROVE at(j) = m + j
    <2>1. m + j \in kept /\ Rank(kept, m + j) = j
      BY <1>1, <1>2, <1>4, <1>5
    <2>2. at(j) \in kept /\ Rank(kept, at(j)) = j
      BY <2>1
    <2> QED BY <1>1, <1>2, <1>5, <2>2
  <1> HIDE DEF at
  <1>7. Len(Without(part)) = Cardinality(kept)
    BY <1>1, <1>3, <1>4
  <1>8. Without(part) \in Seq(T)
    BY WithoutIsPart
  <1> QED BY <1>3, <1>4, <1>6, <1>7, <1>8

(* A page has the deliveries after its offset, newest first. *)
PageLength(count, offset) ==
    IF offset >= count THEN 0
    ELSE IF DeliveryPageSize < count - offset THEN DeliveryPageSize ELSE count - offset

HasPage(part, count, offset) ==
    /\ part.data \in Seq(1..count)
    /\ Len(part.data) = PageLength(count, offset) /\ Len(part.data) \in Nat
    /\ \A i \in 1..Len(part.data) : part.data[i] = count + 1 - offset - i
    /\ part.hasMore \in BOOLEAN /\ (part.hasMore <=> count > offset + DeliveryPageSize)
    /\ part.next = offset + Len(part.data)

LEMMA PageHolds ==
    ASSUME NEW count \in Nat, NEW offset \in Nat
    PROVE  Page(count, offset) \in PageAnswer /\ HasPage(Page(count, offset), count, offset)
  <1> DEFINE length == IF offset >= count THEN 0 ELSE SmallerOf(DeliveryPageSize, count - offset)
             data == [i \in 1..length |-> count + 1 - offset - i]
  <1>1. length \in Nat /\ length <= count
    BY DeliveryConstants DEF SmallerOf
  <1>2. \A i \in 1..length : count + 1 - offset - i \in 1..count
    BY DeliveryConstants DEF SmallerOf
  <1>3. Page(count, offset) = [data |-> data, hasMore |-> count > offset + DeliveryPageSize,
                               next |-> offset + length]
    BY DEF Page
  <1> HIDE DEF length
  <1>4. data \in Seq(1..count) /\ data \in Seq(Nat) /\ Len(data) = length
        /\ \A i \in 1..Len(data) : data[i] = count + 1 - offset - i
    BY <1>1, <1>2
  <1> HIDE DEF data
  <1>5. offset + length \in Nat /\ (count > offset + DeliveryPageSize) \in BOOLEAN
    BY <1>1
  <1>6. length = PageLength(count, offset)
    BY <1>1, DeliveryConstants DEF length, SmallerOf, PageLength
  <1>7. PICK more \in BOOLEAN : more = (count > offset + DeliveryPageSize)
    BY <1>5
  <1>8. PICK part : part = [data |-> data, hasMore |-> more, next |-> offset + length]
    OBVIOUS
  <1>9. Page(count, offset) = part
    BY <1>3, <1>7, <1>8
  <1>10. part \in PageAnswer
    BY <1>4, <1>5, <1>8 DEF PageAnswer
  <1>11. HasPage(part, count, offset)
    BY <1>1, <1>4, <1>6, <1>7, <1>8 DEF HasPage
  <1> QED BY <1>9, <1>10, <1>11

-----------------------------------------------------------------------------
(* The steps *)

LEMMA HistoryInitInv == DeliveryInit => HistoryInv
  <1> SUFFICES ASSUME DeliveryInit PROVE HistoryInv
    OBVIOUS
  <1> USE DEF DeliveryInit
  <1>1. deliveryCount \in Nat
    BY DeliveryConstants
  <1>2. PagesAreRead
    BY DEF PagesAreRead
  <1>3. deliveries \in Seq(1..deliveryCount) /\ deliveryOffset \in 0..deliveryCount
    BY <1>1
  <1> QED BY <1>1, <1>2, <1>3 DEF HistoryInv

(* A delivery comes in front; nothing on the page changes. *)
LEMMA DeliverKeeps == HistoryInv /\ Deliver => HistoryInv'
  <1> SUFFICES ASSUME HistoryInv, Deliver PROVE HistoryInv'
    OBVIOUS
  <1> USE DEF Deliver
  <1>1. deliveryCount \in Nat /\ deliveryCount' \in Nat /\ 0..deliveryCount \subseteq 0..deliveryCount'
    BY DEF HistoryInv
  <1>2. ASSUME NEW answer, NEW offset, ReadAt(answer, offset) PROVE ReadAt(answer, offset)'
    BY <1>1, <1>2 DEF ReadAt, Page
  <1>3. PagesAreRead'
    <2>1. PagesAreRead
      BY DEF HistoryInv
    <2>2. ASSUME NEW answer \in loadAnswers' PROVE ReadAt(answer, 0)'
      BY <1>2, <2>1 DEF PagesAreRead
    <2>3. CASE morePage # NoRequest
      <3>1. PICK offset \in 0..deliveryCount :
               \/ morePage = [offset |-> offset, read |-> FALSE]
               \/ morePage.read /\ \E answer \in {morePage.answer} :
                     /\ morePage = [read |-> TRUE, answer |-> answer]
                     /\ ReadAt(answer, offset)
        BY <2>1, <2>3 DEF PagesAreRead
      <3>2. morePage.read /\ ReadAt(morePage.answer, offset) => ReadAt(morePage.answer, offset)'
        BY <1>2
      <3>3. offset \in 0..deliveryCount'
        BY <1>1
      <3> QED BY <2>2, <3>1, <3>2, <3>3 DEF PagesAreRead
    <2> QED BY <2>2, <2>3 DEF PagesAreRead
  <1>4. deliveries' \in Seq(1..deliveryCount')
    BY <1>1 DEF HistoryInv
  <1>5. ASSUME ~ overlapped', deliveries' # <<>>, Whole' PROVE ListContinues'
    <2>1. Len(deliveries) \in Nat /\ Newest \in Nat /\ deliveryOffset \in Nat
      BY <1>5 DEF HistoryInv, Newest
    <2>2. Whole
      BY <1>1, <1>5, <2>1, DeliveryConstants DEF Whole, Newest
    <2>3. ListContinues
      BY <1>5, <2>2 DEF HistoryInv
    <2>4. PageContinues'
      BY <1>1, <2>1, <2>3 DEF ListContinues, PageContinues, NextOlder, Newest, Page
    <2> QED BY <1>1, <2>1, <2>3, <2>4 DEF ListContinues, NextOlder, Newest
  <1> QED BY <1>1, <1>3, <1>4, <1>5 DEF HistoryInv

(* Loads come and go: the list and the page asked for stay. *)
LEMMA LoadsKeep ==
    ASSUME HistoryInv,
           UNCHANGED <<deliveryCount, deliveries, hasMore, deliveryOffset, morePage, overlapped>>,
           \A answer \in loadAnswers' : answer \in loadAnswers \/ ReadAt(answer, 0)
    PROVE  HistoryInv'
  <1>1. \A answer, offset : ReadAt(answer, offset) => ReadAt(answer, offset)'
    BY DEF ReadAt, Page
  <1>2. PagesAreRead'
    <2>1. PagesAreRead
      BY DEF HistoryInv
    <2>2. \A answer \in loadAnswers' : ReadAt(answer, 0)'
      BY <1>1, <2>1 DEF PagesAreRead
    <2> QED BY <1>1, <2>1, <2>2 DEF PagesAreRead
  <1>3. (ListContinues <=> ListContinues') /\ (Whole <=> Whole')
    BY DEF ListContinues, PageContinues, NextOlder, Newest, Page, Whole
  <1> QED BY <1>2, <1>3 DEF HistoryInv

(* The page asked for changes: the list stays. *)
LEMMA PageAskedKeeps ==
    ASSUME HistoryInv,
           UNCHANGED <<deliveryCount, deliveries, hasMore, deliveryOffset, overlapped, loadAnswers>>,
           morePage' # NoRequest => hasMore \/ morePage # NoRequest,
           PagesAreRead', ListContinues => PageContinues'
    PROVE  HistoryInv'
  <1>1. Whole <=> Whole'
    BY DEF Newest, Whole
  <1>2. ListContinues => ListContinues'
    BY DEF ListContinues, NextOlder, Newest
  <1> QED BY <1>1, <1>2 DEF HistoryInv

LEMMA LoadMoreKeeps == HistoryInv /\ LoadMore => HistoryInv'
  <1> SUFFICES ASSUME HistoryInv, LoadMore PROVE HistoryInv'
    OBVIOUS
  <1> USE DEF LoadMore
  <1>1. morePage' = [offset |-> deliveryOffset, read |-> FALSE] /\ morePage' # NoRequest
    <2>1. deliveryOffset \in Nat
      BY DEF HistoryInv
    <2>2. [offset |-> deliveryOffset, read |-> FALSE] \in PageRequest
      BY <2>1 DEF PageRequest
    <2> QED BY <2>2, DeliveryConstants
  <1>2. PagesAreRead'
    <2>1. \A answer, offset : ReadAt(answer, offset) => ReadAt(answer, offset)'
      BY DEF ReadAt, Page
    <2> QED BY <1>1, <2>1 DEF HistoryInv, PagesAreRead
  <1>3. PageContinues'
    BY <1>1 DEF PageContinues
  <1> QED BY <1>2, <1>3, PageAskedKeeps

LEMMA MoreFailsKeeps == HistoryInv /\ MoreFails => HistoryInv'
  <1> SUFFICES ASSUME HistoryInv, MoreFails PROVE HistoryInv'
    OBVIOUS
  <1> USE DEF MoreFails
  <1>1. PagesAreRead'
    <2>1. \A answer, offset : ReadAt(answer, offset) => ReadAt(answer, offset)'
      BY DEF ReadAt, Page
    <2> QED BY <2>1 DEF HistoryInv, PagesAreRead
  <1>2. PageContinues'
    BY DEF PageContinues
  <1> QED BY <1>1, <1>2, PageAskedKeeps

LEMMA MoreReadKeeps == HistoryInv /\ MoreRead => HistoryInv'
  <1> SUFFICES ASSUME HistoryInv, MoreRead PROVE HistoryInv'
    OBVIOUS
  <1> USE DEF MoreRead
  <1>1. PICK offset \in 0..deliveryCount : morePage = [offset |-> offset, read |-> FALSE]
    BY DEF HistoryInv, PagesAreRead
  <1>2. deliveryCount \in Nat /\ offset \in Nat
    BY DEF HistoryInv
  <1>3. PICK answer : answer = Page(deliveryCount, offset)
    OBVIOUS
  <1>4. morePage' = [read |-> TRUE, answer |-> answer]
    BY <1>1, <1>3
  <1>5. answer \in PageAnswer
    BY <1>2, <1>3, PageHolds
  <1>6. morePage'.read /\ morePage'.answer = answer /\ morePage' # NoRequest
    <2>1. [read |-> TRUE, answer |-> answer] \in PageRequest
      BY <1>5 DEF PageRequest
    <2>2. morePage' # NoRequest
      BY <1>4, <2>1, DeliveryConstants
    <2>3. morePage'.read /\ morePage'.answer = answer
      BY <1>4
    <2> QED BY <2>2, <2>3
  <1>7. \A a, o : ReadAt(a, o) => ReadAt(a, o)'
    BY DEF ReadAt, Page
  <1>8. ReadAt(answer, offset)
    BY <1>2, <1>3 DEF ReadAt
  <1>9. PagesAreRead'
    <2>1. \A a \in loadAnswers' : ReadAt(a, 0)'
      BY <1>7 DEF HistoryInv, PagesAreRead
    <2>2. offset \in (0..deliveryCount)' /\ ReadAt(answer, offset)'
      BY <1>2, <1>7, <1>8
    <2> QED BY <1>4, <1>6, <2>1, <2>2 DEF PagesAreRead
  <1>10. ASSUME ListContinues PROVE PageContinues'
    <2>1. offset = deliveryOffset
      BY <1>1, <1>10 DEF ListContinues, PageContinues
    <2>2. deliveryCount \in (deliveryOffset + NextOlder)..deliveryCount
      <3>1. deliveries \in Seq(1..deliveryCount) /\ deliveryOffset + NextOlder <= deliveryCount
        BY <1>10 DEF HistoryInv, ListContinues
      <3>2. Len(deliveries) <= deliveryOffset /\ Len(deliveries) \in Nat /\ deliveryOffset \in Nat
        BY <1>10 DEF HistoryInv, ListContinues
      <3> QED BY <1>2, <3>1, <3>2 DEF NextOlder, Newest
    <2>3. answer = Page(deliveryCount, deliveryOffset)'
      BY <1>3, <2>1 DEF Page
    <2>4. NextOlder' = NextOlder
      BY DEF NextOlder, Newest
    <2>5. hasMore'
      BY <1>10 DEF ListContinues, PageContinues
    <2> QED BY <1>6, <2>2, <2>3, <2>4, <2>5 DEF PageContinues
  <1>11. morePage # NoRequest
    OBVIOUS
  <1> QED BY <1>9, <1>10, <1>11, PageAskedKeeps

(* The list is taken anew from its start. *)
LEMMA LoadArrivesKeeps ==
    ASSUME HistoryInv, NEW answer, LoadArrives(answer)
    PROVE  HistoryInv'
  <1> USE DEF LoadArrives
  <1>1. PICK count \in 0..deliveryCount : answer = Page(count, 0)
    BY DEF HistoryInv, PagesAreRead, ReadAt
  <1>2. deliveryCount \in Nat /\ count \in Nat /\ count <= deliveryCount
        /\ deliveryCount' = deliveryCount
    BY DEF HistoryInv
  <1>3. HasPage(answer, count, 0)
    BY <1>1, <1>2, PageHolds
  <1>4. /\ answer.data \in Seq(1..count) /\ Len(answer.data) \in Nat
        /\ Len(answer.data) = IF count <= DeliveryPageSize THEN count ELSE DeliveryPageSize
        /\ \A i \in 1..Len(answer.data) : answer.data[i] = count + 1 - i
        /\ answer.hasMore \in BOOLEAN /\ (answer.hasMore <=> count > DeliveryPageSize)
        /\ answer.next = Len(answer.data)
    <2>1. PageLength(count, 0) = IF count <= DeliveryPageSize THEN count ELSE DeliveryPageSize
      BY <1>2, DeliveryConstants DEF PageLength
    <2>2. 0 + DeliveryPageSize = DeliveryPageSize
          /\ \A i \in Nat : count + 1 - 0 - i = count + 1 - i /\ 0 + i = i
      BY <1>2, DeliveryConstants
    <2> QED BY <1>3, <2>1, <2>2 DEF HasPage
  <1>5. deliveries' = answer.data /\ hasMore' = answer.hasMore /\ deliveryOffset' = answer.next
    OBVIOUS
  <1>6. /\ deliveries' \in Seq(1..deliveryCount') /\ hasMore' \in BOOLEAN
        /\ deliveryOffset' \in 0..deliveryCount' /\ overlapped' \in BOOLEAN
    <2>1. answer.data \in Seq(1..deliveryCount)
      BY <1>2, <1>4
    <2>2. Len(answer.data) \in 0..deliveryCount
      BY <1>2, <1>4, DeliveryConstants
    <2> QED BY <1>2, <1>4, <1>5, <2>1, <2>2
  <1>7. PagesAreRead'
    <2>1. \A a, o : ReadAt(a, o) => ReadAt(a, o)'
      BY DEF ReadAt, Page
    <2> QED BY <2>1 DEF HistoryInv, PagesAreRead
  <1>8. ~ overlapped' => morePage' = NoRequest
    OBVIOUS
  <1>9. deliveries' = <<>> => ~ hasMore'
    BY <1>2, <1>4, <1>5, DeliveryConstants
  <1>10. ASSUME ~ overlapped', deliveries' # <<>> PROVE ListContinues'
    <2>1. count > 0 /\ Len(answer.data) > 0
      BY <1>2, <1>4, <1>5, <1>10
    <2>2. Newest' = count
      BY <1>2, <1>4, <1>5, <2>1 DEF Newest
    <2>3. NextOlder' = count - Len(answer.data)
      BY <1>5, <2>2 DEF NextOlder
    <2>4. \A i \in 1..Len(deliveries') : deliveries'[i] = Newest' + 1 - i
      BY <1>4, <1>5, <2>2
    <2>5. deliveryOffset' + NextOlder' = count
      BY <1>2, <1>4, <1>5, <2>3
    <2>6. IF hasMore' THEN deliveryOffset' >= DeliveryPageSize ELSE NextOlder' = 0
      BY <1>2, <1>4, <1>5, <2>3, DeliveryConstants
    <2>7. PageContinues'
      BY <1>8, <1>10 DEF PageContinues
    <2> QED BY <1>2, <1>4, <1>5, <2>4, <2>5, <2>6, <2>7 DEF ListContinues
  <1> QED BY <1>2, <1>6, <1>7, <1>8, <1>9, <1>10 DEF HistoryInv

(* A page that goes on where the list ends: the list has its first entries *)
(* and gets the others.                                                    *)
LEMMA ContinuedList ==
    ASSUME HistoryInv, MoreArrives, ~ overlapped, deliveries # <<>>, Whole, ListContinues
    PROVE  ListContinues'
  <1> USE DEF MoreArrives
  <1>1. PICK count \in (deliveryOffset + NextOlder)..deliveryCount :
           morePage.answer = Page(count, deliveryOffset)
    BY DEF ListContinues, PageContinues
  <1> DEFINE part == morePage.answer
             length == Len(part.data)
             m == count - deliveryOffset - NextOlder
  <1>2. /\ deliveryCount \in Nat /\ deliveryOffset \in Nat /\ DeliveryPageSize \in Nat \ {0}
        /\ deliveries \in Seq(1..deliveryCount)
        /\ Len(deliveries) \in Nat /\ Len(deliveries) > 0
        /\ Newest \in 1..deliveryCount /\ deliveryCount - Newest <= DeliveryPageSize
        /\ NextOlder = Newest - Len(deliveries)
        /\ Len(deliveries) <= deliveryOffset /\ deliveryOffset + NextOlder <= deliveryCount
        /\ \A i \in 1..Len(deliveries) : deliveries[i] = Newest + 1 - i
    BY DeliveryConstants DEF HistoryInv, ListContinues, Newest, NextOlder, Whole
  <1>3. NextOlder \in Nat
    <2>1. deliveries[Len(deliveries)] \in 1..deliveryCount
      BY <1>2
    <2>2. deliveries[Len(deliveries)] = Newest + 1 - Len(deliveries)
      BY <1>2
    <2> QED BY <1>2, <2>1, <2>2
  <1>4. count \in Nat /\ count <= deliveryCount /\ deliveryOffset + NextOlder <= count /\ m \in Nat
    BY <1>1, <1>2, <1>3
  <1>5. /\ part.data \in Seq(1..count) /\ length \in Nat /\ length = PageLength(count, deliveryOffset)
        /\ \A i \in 1..length : part.data[i] = count + 1 - deliveryOffset - i
        /\ (part.hasMore <=> count > deliveryOffset + DeliveryPageSize)
        /\ part.next = deliveryOffset + length
    <2>1. HasPage(Page(count, deliveryOffset), count, deliveryOffset)
      BY <1>2, <1>4, PageHolds
    <2>2. HasPage(part, count, deliveryOffset)
      BY <1>1, <2>1
    <2> HIDE DEF part
    <2> QED BY <2>2 DEF HasPage
  <1>6. length = IF deliveryOffset >= count THEN 0
                 ELSE IF DeliveryPageSize < count - deliveryOffset THEN DeliveryPageSize
                 ELSE count - deliveryOffset
    BY <1>5 DEF PageLength
  <1>7. hasMore /\ deliveryOffset >= DeliveryPageSize
    BY DEF ListContinues, PageContinues
  <1>8. m = count - deliveryOffset - NextOlder
    OBVIOUS
  <1>9. /\ deliveries' = deliveries \o Without(part.data)
        /\ hasMore' = part.hasMore /\ deliveryOffset' = part.next
        /\ morePage' = NoRequest /\ deliveryCount' = deliveryCount
    BY DEF Appended
  <1> HIDE DEF part, length, m
  <1>10. \A i \in 1..Len(part.data) : OnList(part.data[i]) <=> i <= m
    <2> TAKE i \in 1..Len(part.data)
    <2>1. i \in 1..length /\ i \in Nat
      BY <1>5 DEF length
    <2>2. part.data[i] = count + 1 - deliveryOffset - i
      BY <1>5, <2>1
    <2>3. CASE i <= m
      <3> DEFINE k == Newest + 1 - part.data[i]
      <3>1. k \in 1..Len(deliveries)
        BY <1>2, <1>3, <1>4, <1>7, <1>8, <2>1, <2>2, <2>3
      <3>2. deliveries[k] = part.data[i]
        BY <1>2, <1>4, <2>1, <2>2, <3>1
      <3> QED BY <2>3, <3>1, <3>2 DEF OnList
    <2>4. CASE ~ i <= m
      <3>1. part.data[i] <= NextOlder
        <4>1. i \in Nat /\ m \in Nat /\ count \in Nat /\ deliveryOffset \in Nat /\ NextOlder \in Nat
          BY <1>2, <1>3, <1>4, <2>1
        <4>2. i > m
          BY <2>4, <4>1
        <4> QED
          BY <1>8, <2>2, <4>1, <4>2
      <3>2. \A k \in 1..Len(deliveries) : deliveries[k] > NextOlder
        BY <1>2
      <3>3. part.data[i] \in Int /\ NextOlder \in Int
        BY <1>2, <1>3, <1>4, <2>1, <2>2
      <3> QED BY <2>4, <3>1, <3>2, <3>3 DEF OnList
    <2> QED BY <2>3, <2>4
  <1>11. /\ Without(part.data) \in Seq(1..count)
         /\ Len(Without(part.data)) = IF m <= length THEN length - m ELSE 0
         /\ \A j \in 1..Len(Without(part.data)) : Without(part.data)[j] = part.data[m + j]
         /\ Len(Without(part.data)) \in Nat
    <2>1. Len(part.data) = length
      BY DEF length
    <2>2. part.data \in Seq(1..count) /\ m \in Nat
      BY <1>4, <1>5
    <2>3. /\ Without(part.data) \in Seq(1..count)
          /\ Len(Without(part.data)) = IF m <= Len(part.data) THEN Len(part.data) - m ELSE 0
          /\ \A j \in 1..Len(Without(part.data)) : Without(part.data)[j] = part.data[m + j]
      BY <1>10, <2>2, WithoutIsTail
    <2> QED BY <1>5, <2>1, <2>2, <2>3
  <1>12. /\ Len(deliveries') = Len(deliveries) + Len(Without(part.data))
         /\ \A i \in 1..Len(deliveries) : deliveries'[i] = deliveries[i]
         /\ \A j \in 1..Len(Without(part.data)) :
              deliveries'[Len(deliveries) + j] = Without(part.data)[j]
    <2>1. deliveries \in Seq(Nat) /\ Without(part.data) \in Seq(Nat)
      BY <1>2, <1>4, <1>11
    <2> HIDE DEF Newest
    <2> QED BY <1>9, <2>1
  <1>13. Newest' = Newest
    <2>1. 1 \in 1..Len(deliveries)
      BY <1>2
    <2> QED BY <1>12, <2>1 DEF Newest
  <1>14. \A i \in 1..Len(deliveries') : deliveries'[i] = Newest' + 1 - i
    <2> TAKE i \in 1..Len(deliveries')
    <2>1. CASE i \in 1..Len(deliveries)
      BY <1>2, <1>12, <1>13, <2>1
    <2>2. CASE i \notin 1..Len(deliveries)
      <3> DEFINE j == i - Len(deliveries)
      <3>1. j \in 1..Len(Without(part.data)) /\ i = Len(deliveries) + j
        BY <1>2, <1>11, <1>12, <2>2
      <3>2. deliveries'[i] = part.data[m + j]
        BY <1>11, <1>12, <3>1
      <3>3. m + j \in 1..length
        BY <1>4, <1>5, <1>11, <3>1
      <3>4. part.data[m + j] = count + 1 - deliveryOffset - (m + j)
        BY <1>5, <3>3
      <3> QED BY <1>2, <1>4, <1>8, <1>13, <3>1, <3>2, <3>4
    <2> QED BY <2>1, <2>2
  <1>15. NextOlder' = NextOlder - Len(Without(part.data))
    BY <1>2, <1>11, <1>12, <1>13 DEF NextOlder
  <1>16. Len(deliveries') <= deliveryOffset'
    <2>1. PICK k \in Nat : k = Len(Without(part.data))
      BY <1>11
    <2>2. PICK l \in Nat : l = Len(deliveries)
      BY <1>2
    <2>3. k <= length /\ Len(deliveries') = l + k /\ l <= deliveryOffset
      BY <1>2, <1>4, <1>5, <1>11, <1>12, <2>1, <2>2
    <2>4. deliveryOffset' = deliveryOffset + length
      BY <1>5, <1>9
    <2> QED BY <1>2, <1>5, <2>3, <2>4
  <1>17. deliveryOffset' + NextOlder' <= deliveryCount'
    <2>1. PICK k \in Nat : k = Len(Without(part.data)) /\ NextOlder' = NextOlder - k
      BY <1>11, <1>15
    <2>2. k = IF m <= length THEN length - m ELSE 0
      BY <1>11, <2>1
    <2>3. deliveryOffset' = deliveryOffset + length
      BY <1>5, <1>9
    <2>4. deliveryOffset \in Nat /\ NextOlder \in Nat /\ length \in Nat /\ m \in Nat /\ count \in Nat
          /\ count <= deliveryCount /\ deliveryCount \in Nat /\ deliveryCount' = deliveryCount
          /\ m = count - deliveryOffset - NextOlder
      BY <1>2, <1>3, <1>4, <1>5, <1>8, <1>9
    <2>5. (deliveryOffset + length) + (NextOlder - k) <= count
      BY <2>1, <2>2, <2>4
    <2>6. deliveryOffset' + NextOlder' <= count
      BY <2>1, <2>3, <2>5
    <2>7. deliveryOffset' + NextOlder' \in Int
      BY <2>1, <2>3, <2>4
    <2> QED BY <2>4, <2>6, <2>7
  <1>18. IF hasMore' THEN deliveryOffset' >= DeliveryPageSize ELSE NextOlder' = 0
    BY <1>2, <1>3, <1>4, <1>5, <1>6, <1>7, <1>8, <1>9, <1>11, <1>15
  <1>19. PageContinues'
    BY <1>9 DEF PageContinues
  <1> QED BY <1>14, <1>16, <1>17, <1>18, <1>19 DEF ListContinues

LEMMA MoreArrivesKeeps == HistoryInv /\ MoreArrives => HistoryInv'
  <1> SUFFICES ASSUME HistoryInv, MoreArrives PROVE HistoryInv'
    OBVIOUS
  <1> USE DEF MoreArrives
  <1>1. PICK offset \in 0..deliveryCount, count \in 0..deliveryCount :
           morePage.answer = Page(count, offset)
    BY DEF HistoryInv, PagesAreRead, ReadAt
  <1>2. deliveryCount \in Nat /\ offset \in Nat /\ count \in Nat /\ count <= deliveryCount
        /\ offset <= deliveryCount /\ deliveries \in Seq(1..deliveryCount)
        /\ deliveryCount' = deliveryCount
    BY DEF HistoryInv
  <1> DEFINE part == morePage.answer
  <1>3. HasPage(part, count, offset)
    <2>1. HasPage(Page(count, offset), count, offset)
      BY <1>2, PageHolds
    <2> QED BY <1>1, <2>1
  <1>4. /\ deliveries' = deliveries \o Without(part.data)
        /\ hasMore' = part.hasMore /\ deliveryOffset' = part.next
        /\ UNCHANGED overlapped
    BY DEF Appended
  <1> HIDE DEF part
  <1>5. /\ part.data \in Seq(1..deliveryCount) /\ part.hasMore \in BOOLEAN
        /\ part.next \in 0..deliveryCount
    <2>1. part.data \in Seq(1..count) /\ part.hasMore \in BOOLEAN
          /\ part.next = offset + PageLength(count, offset)
      BY <1>3 DEF HasPage
    <2>2. part.data \in Seq(1..deliveryCount)
      BY <1>2, <2>1
    <2>3. offset + PageLength(count, offset) \in 0..deliveryCount
      BY <1>2, DeliveryConstants DEF PageLength
    <2> QED BY <2>1, <2>2, <2>3
  <1>6. Without(part.data) \in Seq(1..deliveryCount)
    BY <1>5, WithoutIsPart
  <1>7. deliveries' \in Seq(1..deliveryCount')
    BY <1>2, <1>4, <1>6
  <1>8. PagesAreRead'
    <2>1. \A a, o : ReadAt(a, o) => ReadAt(a, o)'
      BY DEF ReadAt, Page
    <2> QED BY <2>1 DEF HistoryInv, PagesAreRead
  <1>9. deliveries # <<>> => Newest' = Newest /\ deliveries' # <<>>
    BY <1>2, <1>4, <1>6 DEF Newest
  <1>10. ~ overlapped => deliveries # <<>>
    BY DEF HistoryInv
  <1>11. ~ overlapped' /\ deliveries' # <<>> /\ Whole' => ListContinues'
    <2> SUFFICES ASSUME ~ overlapped', Whole' PROVE ListContinues'
      OBVIOUS
    <2>1. ~ overlapped /\ deliveries # <<>> /\ Whole
      BY <1>2, <1>4, <1>9, <1>10 DEF Whole
    <2>2. ListContinues
      BY <2>1 DEF HistoryInv
    <2> QED BY <2>1, <2>2, ContinuedList
  <1>12. overlapped' \in BOOLEAN /\ deliveryCount' \in Nat /\ hasMore' \in BOOLEAN
         /\ deliveryOffset' \in 0..deliveryCount'
    BY <1>2, <1>4, <1>5 DEF HistoryInv
  <1>13. ~ overlapped' => deliveries' # <<>>
    BY <1>4, <1>9, <1>10
  <1> QED BY <1>7, <1>8, <1>11, <1>12, <1>13 DEF HistoryInv

LEMMA HistoryNextInv == HistoryInv /\ [DeliveryNext]_deliveryVars => HistoryInv'
  <1> SUFFICES ASSUME HistoryInv, [DeliveryNext]_deliveryVars PROVE HistoryInv'
    OBVIOUS
  <1>1. CASE Deliver \/ LoadMore \/ MoreRead \/ MoreArrives \/ MoreFails
    BY <1>1, DeliverKeeps, LoadMoreKeeps, MoreReadKeeps, MoreArrivesKeeps, MoreFailsKeeps
  <1>2. ASSUME NEW answer \in loadAnswers, LoadArrives(answer) PROVE HistoryInv'
    BY <1>2, LoadArrivesKeeps
  <1>3. CASE Load
    BY <1>3, LoadsKeep DEF Load
  <1>4. CASE LoadRead
    <2>1. ReadAt(Page(deliveryCount, 0), 0)
      BY DEF HistoryInv, ReadAt
    <2> QED BY <1>4, <2>1, LoadsKeep DEF LoadRead
  <1>5. ASSUME NEW answer \in loadAnswers, DeliveriesFail(answer) PROVE HistoryInv'
    BY <1>5, LoadsKeep DEF DeliveriesFail
  <1>6. CASE UNCHANGED historyVars
    BY <1>6, LoadsKeep DEF historyVars
  <1>7. CASE Lookup \/ \E n \in lookups : LookupArrives(n) \/ LookupFails(n)
    BY <1>6, <1>7 DEF Lookup, LookupArrives, LookupFails
  <1>8. CASE UNCHANGED deliveryVars
    BY <1>6, <1>8 DEF deliveryVars
  <1> QED BY <1>1, <1>2, <1>3, <1>4, <1>5, <1>7, <1>8 DEF DeliveryNext

LEMMA WholeFollows == HistoryInv => HistoryIsWhole
  <1> SUFFICES ASSUME HistoryInv, ~ overlapped, deliveries # <<>>,
                      deliveryCount - deliveries[1] <= DeliveryPageSize
               PROVE  /\ \A i \in 1..Len(deliveries) : deliveries[i] = deliveries[1] + 1 - i
                      /\ hasMore \/ deliveries[Len(deliveries)] = 1
    BY DEF HistoryIsWhole
  <1>1. ListContinues
    BY DEF HistoryInv, Whole, Newest
  <1>2. Len(deliveries) \in 1..Len(deliveries) /\ deliveries[1] \in Nat /\ Len(deliveries) \in Nat
    BY DEF HistoryInv
  <1>3. \A i \in 1..Len(deliveries) : deliveries[i] = deliveries[1] + 1 - i
    BY <1>1 DEF ListContinues, Newest
  <1>4. ~ hasMore => deliveries[1] - Len(deliveries) = 0
    BY <1>1 DEF ListContinues, NextOlder, Newest
  <1>5. deliveries[Len(deliveries)] = deliveries[1] + 1 - Len(deliveries)
    BY <1>2, <1>3
  <1>6. ~ hasMore => deliveries[Len(deliveries)] = 1
    BY <1>2, <1>4, <1>5
  <1> QED BY <1>3, <1>6

(* The inductive invariant: the list goes on where it ends, and the page   *)
(* asked for is the one that does, as long as no loads overlap and no      *)
(* more than a page is newer than the list (notification-manager.tsx).     *)
THEOREM HistoryInvariant == DeliverySpec => []HistoryInv
  <1> QED BY HistoryInitInv, HistoryNextInv, PTL DEF DeliverySpec

(* While no more than a page of deliveries arrived since the list was      *)
(* read, and no two loads overlapped, the pages put together have no gap   *)
(* and no repetition, whatever the size of a page.                         *)
THEOREM HistoryStaysWhole == DeliverySpec => []HistoryIsWhole
  <1> QED BY WholeFollows, HistoryInvariant, PTL

-----------------------------------------------------------------------------
(* The suggestions *)

(* A lookup is under way exactly while the suggestions are loading.        *)
LookupInv ==
    /\ lookupNumber \in Nat /\ lookups \subseteq 1..lookupNumber
    /\ suggestions \in [of : 0..lookupNumber, loading : BOOLEAN]
    /\ suggestions.loading <=> lookupNumber \in lookups

LEMMA LookupNextInv == LookupInv /\ [DeliveryNext]_deliveryVars => LookupInv'
  <1> SUFFICES ASSUME LookupInv, [DeliveryNext]_deliveryVars PROVE LookupInv'
    OBVIOUS
  <1> USE DEF LookupInv
  <1>1. CASE UNCHANGED lookupVars
    BY <1>1 DEF lookupVars
  <1>2. CASE Lookup
    <2>1. lookupNumber' = lookupNumber + 1 /\ lookupNumber' \in Nat
      BY <1>2 DEF Lookup
    <2>2. suggestions' = [of |-> suggestions.of, loading |-> TRUE]
      BY <1>2 DEF Lookup
    <2>3. lookups' = lookups \cup {lookupNumber'}
      BY <1>2 DEF Lookup
    <2> QED BY <2>1, <2>2, <2>3
  <1>3. ASSUME NEW n \in lookups, LookupArrives(n) PROVE LookupInv'
    BY <1>3 DEF LookupArrives, Latest
  <1>4. ASSUME NEW n \in lookups, LookupFails(n) PROVE LookupInv'
    BY <1>4 DEF LookupFails, Latest
  <1>5. CASE Deliver \/ Load \/ LoadRead \/ LoadMore \/ MoreRead \/ MoreArrives \/ MoreFails
    BY <1>1, <1>5 DEF Deliver, Load, LoadRead, LoadMore, MoreRead, MoreArrives, MoreFails
  <1>6. ASSUME NEW answer \in loadAnswers, LoadArrives(answer) \/ DeliveriesFail(answer)
        PROVE  LookupInv'
    BY <1>1, <1>6 DEF LoadArrives, DeliveriesFail
  <1>7. CASE UNCHANGED deliveryVars
    BY <1>1, <1>7 DEF deliveryVars
  <1> QED BY <1>2, <1>3, <1>4, <1>5, <1>6, <1>7 DEF DeliveryNext

LEMMA DeliveryInitTypes == DeliveryInit => HistoryInv /\ LookupInv
  <1>1. DeliveryInit => LookupInv
    BY DEF DeliveryInit, LookupInv
  <1> QED BY <1>1, HistoryInitInv

LEMMA DeliveryTypesHold == HistoryInv /\ LookupInv => DeliveryTypeOK
  BY DEF HistoryInv, LookupInv, DeliveryTypeOK

-----------------------------------------------------------------------------
(* The printed report *)

(* Where the loop is: all that has to be taken is of the report. *)
InSource ==
    /\ reportSource \subseteq Vulnerabilities
    /\ remaining \subseteq reportSource

TableInv == InSource /\ EveryKeyIsListed /\ WorstRepresents /\ NothingIsLost

-----------------------------------------------------------------------------
(* WorseThan is a strict order, and total on different vulnerabilities,    *)
(* so the worst of a set is one vulnerability.                             *)
LEMMA WorseIsStrict ==
    ASSUME NEW v \in Vulnerabilities
    PROVE  ~ WorseThan(v, v)
  BY ReportAssumption DEF ReportAssumption, WorseThan

LEMMA WorseIsTransitive ==
    ASSUME NEW u \in Vulnerabilities, NEW v \in Vulnerabilities, NEW w \in Vulnerabilities,
           WorseThan(u, v), WorseThan(v, w)
    PROVE  WorseThan(u, w)
  BY ReportAssumption DEF ReportAssumption, WorseThan

LEMMA WorseIsTotal ==
    ASSUME NEW v \in Vulnerabilities, NEW w \in Vulnerabilities, v # w
    PROVE  WorseThan(v, w) \/ WorseThan(w, v)
  BY ReportAssumption DEF ReportAssumption, WorseThan

(* The representative of two is one of them and no worse one is left. *)
LEMMA RepresentativeIsWorst ==
    ASSUME NEW v \in Vulnerabilities, NEW w \in Vulnerabilities
    PROVE  /\ Representative(v, w) \in {v, w}
           /\ ~ WorseThan(v, Representative(v, w))
           /\ ~ WorseThan(w, Representative(v, w))
           /\ \A u \in Vulnerabilities :
                 ~ WorseThan(u, v) => ~ WorseThan(u, Representative(v, w))
  <1>1. CASE WorseThan(w, v)
    <2>1. Representative(v, w) = w
      BY <1>1 DEF Representative
    <2>2. ~ WorseThan(v, w) /\ ~ WorseThan(w, w)
      BY <1>1, WorseIsStrict, WorseIsTransitive
    <2>3. \A u \in Vulnerabilities : WorseThan(u, w) => WorseThan(u, v)
      BY <1>1, WorseIsTransitive
    <2> QED
      BY <2>1, <2>2, <2>3
  <1>2. CASE ~ WorseThan(w, v)
    BY <1>2, WorseIsStrict DEF Representative
  <1> QED
    BY <1>1, <1>2

-----------------------------------------------------------------------------
(* The filters and the keys do not change while the table is built. *)
LEMMA FiltersStay ==
    ASSUME UNCHANGED reportFilters, NEW v
    PROVE  (Passes(v)' <=> Passes(v)) /\ FindingKey(v)' = FindingKey(v)
  BY DEF Passes, FindingKey

(* What one step adds to the vulnerabilities taken for a key. *)
LEMMA TakenGrows ==
    ASSUME InSource, NEW v \in Vulnerabilities, TakeVulnerability(v), NEW key
    PROVE  Taken(key)' = IF Passes(v) /\ FindingKey(v) = key
                         THEN Taken(key) \cup {v} ELSE Taken(key)
  <1>1. v \in reportSource /\ reportSource' = reportSource
    BY DEF InSource, TakeVulnerability
  <1>2. reportSource' \ remaining' = (reportSource \ remaining) \cup {v}
    BY <1>1 DEF TakeVulnerability
  <1>3. UNCHANGED reportFilters
    BY DEF TakeVulnerability
  <1>4. \A w : (Passes(w)' <=> Passes(w)) /\ FindingKey(w)' = FindingKey(w)
    BY <1>3, FiltersStay
  <1>5. Taken(key)' = {w \in (reportSource \ remaining) \cup {v} : Passes(w) /\ FindingKey(w) = key}
    BY <1>2, <1>4 DEF Taken
  <1>6. CASE Passes(v) /\ FindingKey(v) = key
    BY <1>5, <1>6 DEF Taken
  <1>7. CASE ~ (Passes(v) /\ FindingKey(v) = key)
    BY <1>5, <1>7 DEF Taken
  <1> QED
    BY <1>6, <1>7

-----------------------------------------------------------------------------
LEMMA InitTable == ReportInit => TableInv
  <1> SUFFICES ASSUME ReportInit PROVE TableInv
    OBVIOUS
  <1>1. reportSource \subseteq Vulnerabilities /\ remaining = reportSource
    BY DEF ReportInit
  <1>2. DOMAIN grouped = {}
    BY DEF ReportInit
  <1>3. EveryKeyIsListed
    BY <1>1, <1>2 DEF EveryKeyIsListed
  <1> QED
    BY <1>1, <1>2, <1>3 DEF TableInv, InSource, WorstRepresents, NothingIsLost

(* One turn of the loop *)
LEMMA StepTable ==
    ASSUME TableInv, NEW v \in Vulnerabilities, TakeVulnerability(v)
    PROVE  TableInv'
  <1> PICK new : FindingKey(v) = new
    OBVIOUS
  <1> USE DEF TableInv
  <1>1. InSource'
    BY DEF InSource, TakeVulnerability
  <1>2. \A key : Taken(key)' = IF Passes(v) /\ new = key THEN Taken(key) \cup {v} ELSE Taken(key)
    BY TakenGrows
  <1>3. \A w : (Passes(w)' <=> Passes(w)) /\ FindingKey(w)' = FindingKey(w)
    BY FiltersStay DEF TakeVulnerability
  <1>4. reportSource' \ remaining' = (reportSource \ remaining) \cup {v}
    BY DEF InSource, TakeVulnerability
  <1>5. CASE ~ Passes(v)
    <2>1. grouped' = grouped /\ \A key : Taken(key)' = Taken(key)
      BY <1>2, <1>5 DEF TakeVulnerability
    <2>2. EveryKeyIsListed'
      BY <1>3, <1>4, <1>5, <2>1 DEF EveryKeyIsListed
    <2>3. WorstRepresents'
      BY <2>1 DEF WorstRepresents, WorseThan
    <2>4. NothingIsLost'
      BY <2>1 DEF NothingIsLost
    <2> QED
      BY <1>1, <2>2, <2>3, <2>4
  <1>6. CASE Passes(v)
    <2>1. grouped' = WithFinding(v)
      BY <1>6 DEF TakeVulnerability
    <2>2. /\ DOMAIN grouped' = DOMAIN grouped \cup {new}
          /\ \A key \in DOMAIN grouped : key # new => grouped'[key] = grouped[key]
          /\ new \in DOMAIN grouped => grouped'[new] = Merged(grouped[new], v)
          /\ new \notin DOMAIN grouped => grouped'[new] = NewFinding(v)
      BY <2>1 DEF WithFinding
    <2>3. Taken(new)' = Taken(new) \cup {v} /\ \A key : key # new => Taken(key)' = Taken(key)
      BY <1>2, <1>6
    <2>4. new \notin DOMAIN grouped => Taken(new) = {}
      BY DEF EveryKeyIsListed, Taken
    <2>5. EveryKeyIsListed'
      BY <1>3, <1>4, <1>6, <2>2 DEF EveryKeyIsListed
    <2>6. WorstRepresents'
      <3> SUFFICES ASSUME NEW key \in DOMAIN grouped'
                   PROVE  /\ grouped'[key].vulnerability \in Taken(key)'
                          /\ \A w \in Taken(key)' : ~ WorseThan(w, grouped'[key].vulnerability)
        BY DEF WorstRepresents, WorseThan
      <3>1. CASE key # new
        BY <2>2, <2>3, <3>1 DEF WorstRepresents
      <3>2. CASE key = new /\ new \notin DOMAIN grouped
        <4>1. grouped'[key].vulnerability = v
          BY <2>2, <3>2 DEF NewFinding
        <4> QED
          BY <2>3, <2>4, <3>2, <4>1, WorseIsStrict
      <3>3. CASE key = new /\ new \in DOMAIN grouped
        <4> DEFINE old == grouped[new].vulnerability
        <4>1. grouped'[key].vulnerability = Representative(old, v)
          BY <2>2, <3>3 DEF Merged
        <4>2. old \in Taken(new) /\ \A w \in Taken(new) : ~ WorseThan(w, old)
          BY <3>3 DEF WorstRepresents
        <4>3. Taken(new) \subseteq Vulnerabilities
          BY DEF Taken, InSource
        <4>4. old \in Vulnerabilities
          BY <4>2, <4>3
        <4>5. /\ Representative(old, v) \in {old, v}
              /\ ~ WorseThan(v, Representative(old, v))
              /\ \A w \in Vulnerabilities :
                    ~ WorseThan(w, old) => ~ WorseThan(w, Representative(old, v))
          BY <4>4, RepresentativeIsWorst
        <4> QED
          BY <2>3, <3>3, <4>1, <4>2, <4>3, <4>5
      <3> QED
        BY <2>2, <3>1, <3>2, <3>3
    <2>7. NothingIsLost'
      <3> SUFFICES ASSUME NEW key \in DOMAIN grouped'
                   PROVE  /\ grouped'[key].images = {w.image : w \in Taken(key)'}
                          /\ grouped'[key].packages = {w.package : w \in Taken(key)'}
                          /\ grouped'[key].watches = UNION {w.watches : w \in Taken(key)'}
                          /\ grouped'[key].policies = UNION {PolicyFailures[w] : w \in Taken(key)'}
                          /\ grouped'[key].comments = UNION {w.comments : w \in Taken(key)'}
        BY DEF NothingIsLost
      <3>1. CASE key # new
        BY <2>2, <2>3, <3>1 DEF NothingIsLost
      <3>2. CASE key = new /\ new \notin DOMAIN grouped
        <4>1. grouped'[key] = NewFinding(v) /\ Taken(key)' = {v}
          BY <2>2, <2>3, <2>4, <3>2
        <4> QED
          BY <4>1 DEF NewFinding
      <3>3. CASE key = new /\ new \in DOMAIN grouped
        <4>1. grouped'[key] = Merged(grouped[new], v) /\ Taken(key)' = Taken(new) \cup {v}
          BY <2>2, <2>3, <3>3
        <4>2. /\ grouped[new].images = {w.image : w \in Taken(new)}
              /\ grouped[new].packages = {w.package : w \in Taken(new)}
              /\ grouped[new].watches = UNION {w.watches : w \in Taken(new)}
              /\ grouped[new].policies = UNION {PolicyFailures[w] : w \in Taken(new)}
              /\ grouped[new].comments = UNION {w.comments : w \in Taken(new)}
          BY <3>3 DEF NothingIsLost
        <4> QED
          BY <4>1, <4>2 DEF Merged
      <3> QED
        BY <2>2, <3>1, <3>2, <3>3
    <2> QED
      BY <1>1, <2>5, <2>6, <2>7
  <1> QED
    BY <1>5, <1>6

LEMMA StutterTable ==
    ASSUME TableInv, UNCHANGED reportVars
    PROVE  TableInv'
  <1>1. /\ reportSource' = reportSource /\ remaining' = remaining /\ grouped' = grouped
        /\ \A w : (Passes(w)' <=> Passes(w)) /\ FindingKey(w)' = FindingKey(w)
    BY FiltersStay DEF reportVars
  <1>2. \A key : Taken(key)' = Taken(key)
    BY <1>1 DEF Taken
  <1>3. InSource' /\ EveryKeyIsListed'
    BY <1>1 DEF TableInv, InSource, EveryKeyIsListed
  <1>4. WorstRepresents'
    BY <1>1, <1>2 DEF TableInv, WorstRepresents, WorseThan
  <1>5. NothingIsLost'
    BY <1>1, <1>2 DEF TableInv, NothingIsLost
  <1> QED
    BY <1>3, <1>4, <1>5 DEF TableInv

LEMMA ReportNextInv == TableInv /\ [ReportNext]_reportVars => TableInv'
  BY StepTable, StutterTable DEF ReportNext

LEMMA ReportInvariant == ReportSpec => []TableInv
  BY InitTable, ReportNextInv, PTL DEF ReportSpec

(* The table has a finding for every key of the vulnerabilities that pass  *)
(* the filters, and no other.                                              *)
THEOREM ReportIsComplete == ReportSpec => []EveryKeyIsListed
  <1>1. TableInv => EveryKeyIsListed
    BY DEF TableInv
  <1> QED
    BY <1>1, ReportInvariant, PTL

(* Whatever the order, a finding is represented by the worst occurrence of *)
(* its CVE.                                                                *)
THEOREM ReportShowsWorst == ReportSpec => []WorstRepresents
  <1>1. TableInv => WorstRepresents
    BY DEF TableInv
  <1> QED
    BY <1>1, ReportInvariant, PTL

(* A finding has the images, packages, watches, policies and comments of   *)
(* all occurrences.                                                        *)
THEOREM ReportLosesNothing == ReportSpec => []NothingIsLost
  <1>1. TableInv => NothingIsLost
    BY DEF TableInv
  <1> QED
    BY <1>1, ReportInvariant, PTL

(* The three together: the table of the report is right, for any set of    *)
(* vulnerabilities, any filters and any order.                             *)
THEOREM ReportIsAlwaysRight == ReportSpec => []ReportIsRight
  <1>1. TableInv => ReportIsRight
    BY DEF TableInv, ReportIsRight
  <1> QED
    BY <1>1, ReportInvariant, PTL

(* An occurrence with no worse one is the one shown, so the table does not *)
(* depend on the order in which the scans of the report come.              *)
OnlyWorstRepresents ==
    \A key \in DOMAIN grouped : \A v \in Taken(key) :
        (\A w \in Taken(key) : ~ WorseThan(w, v)) => v = grouped[key].vulnerability

THEOREM OrderDoesNotMatter == ReportSpec => []OnlyWorstRepresents
  <1>1. TableInv => OnlyWorstRepresents
    <2> SUFFICES ASSUME TableInv, NEW key \in DOMAIN grouped, NEW v \in Taken(key),
                        \A w \in Taken(key) : ~ WorseThan(w, v)
                 PROVE  v = grouped[key].vulnerability
      BY DEF OnlyWorstRepresents
    <2> DEFINE worst == grouped[key].vulnerability
    <2>1. Taken(key) \subseteq Vulnerabilities
      BY DEF TableInv, InSource, Taken
    <2>2. worst \in Taken(key) /\ ~ WorseThan(v, worst) /\ ~ WorseThan(worst, v)
      BY DEF TableInv, WorstRepresents
    <2> QED
      BY <2>1, <2>2, WorseIsTotal
  <1> QED
    BY <1>1, ReportInvariant, PTL

-----------------------------------------------------------------------------
(* The tab *)

(* Every page, open or not, satisfies its invariants. *)
ScanPagesInv  == ScanTypeInv /\ ResultsInv /\ FindingsInv /\ ComplianceTypeOK
ListPagesInv  == /\ CenterTypeInv /\ CenterInv
                 /\ PublicInv /\ PublicTypeInv
                 /\ RunPageInv
OtherPagesInv == ChatInv /\ FormInv /\ HistoryInv /\ LookupInv /\ TableInv

PagesInv == route \in Routes /\ ScanPagesInv /\ ListPagesInv /\ OtherPagesInv

LEMMA PagesInitInv == PagesInit => PagesInv
<1> SUFFICES ASSUME PagesInit PROVE PagesInv
  OBVIOUS
<1>1. route \in Routes /\ ScanPagesInv
  BY ScanTypeInitInv, ResultsInitInv, FindingsInitInv, ComplianceInitInv DEF PagesInit, ScanPagesInv
<1>2. ListPagesInv
  BY CenterTypeInitInv, CenterInitInv, PublicInitInv, PublicTypeInitInv, RunPageInitInv
  DEF PagesInit, ListPagesInv
<1>3. OtherPagesInv
  BY ChatInitInv, FormInitInv, DeliveryInitTypes, InitTable DEF PagesInit, OtherPagesInv
<1> QED
  BY <1>1, <1>2, <1>3 DEF PagesInv

(* A step of the tab is, for each page, a step of the page or none. *)
LEMMA PageSteps ==
  ASSUME [PagesNext]_pagesVars
  PROVE  /\ [ScanPageNext]_scanPageVars /\ [FindingsNext]_findingsVars
         /\ [ComplianceNext]_complianceVars /\ [ChatNext]_chatVars /\ [CenterNext]_centerVars
         /\ [PublicNext]_publicVars /\ [RepositoryPageNext]_repositoryPageVars
         /\ [FormNext]_formVars /\ [DeliveryNext]_deliveryVars /\ [ReportNext]_reportVars
<1>1. CASE UNCHANGED pagesVars
  BY <1>1, Zenon DEF pagesVars
<1>2. CASE PagesNext
  BY <1>2, Zenon DEF PagesNext
<1> QED
  BY <1>1, <1>2

LEMMA PagesNextInv ==
  ASSUME PagesInv, [PagesNext]_pagesVars
  PROVE  PagesInv'
<1>1. route' = route
  BY DEF PagesNext, pagesVars, scanPageVars
<1>2. ScanPagesInv'
  BY PageSteps, ScanTypeNextInv, ScanPageNextInv, FindingsNextInv, ComplianceNextInv
  DEF PagesInv, ScanPagesInv
<1>3. ListPagesInv'
  BY PageSteps, CenterTypeNextInv, CenterNextInv, PublicNextInv, PublicTypeNextInv,
     RunPageNextInv DEF PagesInv, ListPagesInv
<1>4. OtherPagesInv'
  BY PageSteps, ChatNextInv, FormNextInv, HistoryNextInv, LookupNextInv, ReportNextInv
  DEF PagesInv, OtherPagesInv
<1> QED
  BY <1>1, <1>2, <1>3, <1>4 DEF PagesInv

(* The inductive invariant of the frontend: that of every page, since a    *)
(* step of the tab is a step of the page on its route alone.               *)
THEOREM PagesInvariant == PagesSpec => []PagesInv
BY PagesInitInv, PagesNextInv, PTL DEF PagesSpec

(* The requests, flags and lists of every page agree with each other, for  *)
(* any number of jobs, runs, scans, messages and requests.                 *)
THEOREM PagesAreWellFormed == PagesSpec => []PagesTypeOK
<1>1. ASSUME PagesInv PROVE PagesTypeOK
  <2>1. ScanPageTypeOK /\ FindingsTypeOK /\ ComplianceTypeOK
    BY <1>1, ScanTypesHold DEF PagesInv, ScanPagesInv, FindingsInv
  <2>2. CenterTypeOK /\ OneLiveRequest /\ PublicTypeOK /\ RepositoryPageTypeOK
    BY <1>1, CenterTypesHold, PublicTypesHold, RunPageTypesHold
    DEF PagesInv, ListPagesInv, CenterInv
  <2>3. ChatTypeOK /\ FormTypeOK /\ DeliveryTypeOK
    BY <1>1, DeliveryTypesHold
    DEF PagesInv, OtherPagesInv, ChatInv, FormInv, FormData, FormTypeOK
  <2> QED
    BY <1>1, <2>1, <2>2, <2>3 DEF PagesInv, PagesTypeOK
<1> QED
  BY <1>1, PagesInvariant, PTL

(* What the pages promise, whichever of them is open. *)
PagesAreRight ==
    /\ TableIsRight /\ MessagesAreKept /\ ClearedWhenEnded /\ HistoryIsHonest
    /\ ChoicesFit /\ HistoryIsWhole /\ ReportIsRight

(* Each page's own theorem, in the tab that composes the pages: the table  *)
(* shows what was chosen, no message, end or delivery is lost or made up.  *)
THEOREM PagesStayRight == PagesSpec => []PagesAreRight
<1>1. ASSUME PagesInv PROVE PagesAreRight
  <2>1. TableIsRight
    BY <1>1 DEF PagesInv, ScanPagesInv, FindingsInv
  <2>2. ClearedWhenEnded /\ HistoryIsHonest
    BY <1>1, HonestFollows DEF PagesInv, ListPagesInv, CenterInv
  <2>3. MessagesAreKept /\ ChoicesFit /\ HistoryIsWhole /\ ReportIsRight
    BY <1>1, WholeFollows DEF PagesInv, OtherPagesInv, ChatInv, FormInv, TableInv, ReportIsRight
  <2> QED
    BY <2>1, <2>2, <2>3 DEF PagesAreRight
<1> QED
  BY <1>1, PagesInvariant, PTL

(* ResultsNeverGoBack in the tab that composes the pages: compliance       *)
(* results that were shown stay while nobody edits the assignments         *)
(* (complianceRequestRef, scans/[id]/page.tsx).                            *)
THEOREM ShownResultsStay == PagesSpec => ResultsDoNotGoBack
<1>1. PagesInv /\ [PagesNext]_pagesVars
        => [edited' = 0 => compliance \subseteq compliance']_scanPageVars
  BY PageSteps, ScanPageNextInv DEF PagesInv, ScanPagesInv
<1> QED
  BY <1>1, PagesInvariant, PTL DEF PagesSpec, ResultsDoNotGoBack
=============================================================================
