------------------------------- MODULE ScanPage -------------------------------
(***************************************************************************)
(* The details of one scan (scans/[id]/page.tsx): the status it polls, the *)
(* time it gives the policies to settle after the scan has ended, and the  *)
(* compliance results it loads and edits.                                  *)
(*                                                                         *)
(* A request is "sent", then "answered" with what the server knew at that  *)
(* moment, then applied by the continuation of its promise.  Several       *)
(* callers share one request for the scan; of several requests for the     *)
(* compliance results the newest counts.                                   *)
(***************************************************************************)
EXTENDS BrowserTab, Naturals, FiniteSets

CONSTANTS
    Orgs, FirstOrg,        \* FirstOrg owns the scan
    MinTicks, MaxTicks,    \* 2 and 10 in the code
    MaxEdits, MaxLosses

ScanEnd    == {"completed", "failed", "cancelled"}
ScanStatus == {"active"} \cup ScanEnd

ScanRequest ==
    [phase : {"sent"}, polled : BOOLEAN]
      \cup [phase : {"answered"}, polled : BOOLEAN, status : ScanStatus]
ComplianceRequest ==
    [phase : {"sent"}, tick : BOOLEAN] \cup [phase : {"answered"}, tick : BOOLEAN, orgs : SUBSET Orgs]

ASSUME ScanPageConstants ==
    /\ FirstOrg \in Orgs
    /\ {MinTicks, MaxEdits, MaxLosses} \subseteq Nat /\ MaxTicks \in Nat \ {0}
    /\ NoRequest \notin ScanRequest \cup ComplianceRequest

VARIABLES
    scanStatus, assigned, results,  \* server: scans.status, org_scans, compliance_results
    scan,                           \* status of the scan state, "none" before it is loaded
    scanRequest,                    \* loadScanInFlightRef
    compliance,                     \* organizations whose results are shown
    complianceRequest,              \* complianceRequestRef
    superseded,                     \* answers of older requests not yet discarded
    interval, ticks, policySettling,
    cancellingScan,
    edits,                          \* handlers waiting for their response
    edited, lostAnswers

serverSide == <<scanStatus, assigned, results>>
settleVars == <<interval, ticks, policySettling>>
shownCompliance == <<compliance, complianceRequest, superseded>>
scanPageVars == <<route, serverSide, scan, scanRequest, shownCompliance, settleVars,
                  cancellingScan, edits, edited, lostAnswers>>

ScanPageInit ==
    /\ scanStatus = "active" /\ assigned = {FirstOrg} /\ results = {}
    /\ scan = "none"
    /\ scanRequest = [phase |-> "sent", polled |-> FALSE]
    /\ compliance = {}
    /\ complianceRequest = [phase |-> "sent", tick |-> FALSE] /\ superseded = {}
    /\ interval = FALSE /\ ticks = 0 /\ policySettling = FALSE
    /\ cancellingScan = "no" /\ edits = {}
    /\ edited = 0 /\ lostAnswers = 0

-----------------------------------------------------------------------------
(* The server *)

(* ScanLifecycle. *)
ScanEnds(status) ==
    /\ scanStatus = "active"
    /\ scanStatus' = status
    /\ UNCHANGED <<assigned, results, scan, scanRequest, shownCompliance, settleVars,
                   cancellingScan, edits, edited, lostAnswers>>

(* PolicyVerdict: the evaluation starts after the scan has ended. *)
PolicyEvaluated(org) ==
    /\ scanStatus = "completed" /\ org \in assigned \ results
    /\ results' = results \cup {org}
    /\ UNCHANGED <<scanStatus, assigned, scan, scanRequest, shownCompliance, settleVars,
                   cancellingScan, edits, edited, lostAnswers>>

-----------------------------------------------------------------------------
(* Loading *)

(* loadScan: a caller gets the promise of the request under way. *)
LoadScan(polled) ==
    scanRequest' = IF scanRequest = NoRequest THEN [phase |-> "sent", polled |-> polled]
                   ELSE [scanRequest EXCEPT !.polled = @ \/ polled]

(* finish() of the settling effect. *)
FinishSettling == interval' = FALSE /\ policySettling' = FALSE

(* Mutant: the wait ends at the second tick, results or not. *)
TickEndsEarly(tick, found, count) ==
    IF tick /\ count >= MinTicks
    THEN FinishSettling ELSE UNCHANGED <<interval, policySettling>>

(* What a tick's request does when it ends; "found" is whether it brought  *)
(* results, and an aborted or failed one brings none.                      *)
TickEnds(tick, found, count) ==
    IF tick /\ ((found /\ count >= MinTicks) \/ count >= MaxTicks)
    THEN FinishSettling
    ELSE UNCHANGED <<interval, policySettling>>

(* loadComplianceForScan: the request under way is aborted.  When its      *)
(* response has already been read, its continuation follows that of the    *)
(* caller and is discarded; the continuations run before the next timer.   *)
LoadCompliance(tick) ==
    /\ complianceRequest' = [phase |-> "sent", tick |-> tick]
    /\ superseded' = IF ~tick /\ complianceRequest # NoRequest
                        /\ complianceRequest.phase = "answered"
                     THEN superseded \cup {complianceRequest} ELSE superseded

AbortedTick == complianceRequest # NoRequest /\ complianceRequest.tick
               /\ complianceRequest \notin superseded'

(* A new scan object: the interval is torn down when the status changes,   *)
(* and set up when the page has watched the scan complete.                 *)
SetScan(status) ==
    /\ scan' = status
    /\ IF scan = status THEN UNCHANGED settleVars
       ELSE IF scan = "active" /\ status = "completed"
       THEN interval' = TRUE /\ policySettling' = TRUE /\ ticks' = 0
       ELSE interval' = FALSE /\ UNCHANGED <<ticks, policySettling>>

ScanAnswered ==
    /\ scanRequest # NoRequest /\ scanRequest.phase = "sent"
    /\ scanRequest' = [phase |-> "answered", polled |-> scanRequest.polled,
                       status |-> scanStatus]
    /\ UNCHANGED <<serverSide, scan, shownCompliance, settleVars, cancellingScan, edits,
                   edited, lostAnswers>>

(* The continuation of refreshActiveScan loads the results of an end.      *)
ScanLoaded ==
    /\ scanRequest # NoRequest /\ scanRequest.phase = "answered"
    /\ SetScan(scanRequest.status)
    /\ IF scanRequest.polled /\ scanRequest.status \in {"completed", "failed"}
       THEN LoadCompliance(FALSE) ELSE UNCHANGED <<complianceRequest, superseded>>
    /\ scanRequest' = NoRequest
    /\ UNCHANGED <<serverSide, compliance, cancellingScan, edits, edited, lostAnswers>>

(* A later load may fail; if the first one does the page shows an error.   *)
ScanLoadFails ==
    /\ scan # "none"
    /\ scanRequest # NoRequest /\ lostAnswers < MaxLosses
    /\ lostAnswers' = lostAnswers + 1
    /\ scanRequest' = NoRequest
    /\ UNCHANGED <<serverSide, scan, shownCompliance, settleVars, cancellingScan, edits,
                   edited>>

ComplianceAnswered ==
    /\ complianceRequest # NoRequest /\ complianceRequest.phase = "sent"
    /\ complianceRequest' = [phase |-> "answered", tick |-> complianceRequest.tick,
                             orgs |-> results]
    /\ UNCHANGED <<serverSide, scan, scanRequest, compliance, superseded, settleVars,
                   cancellingScan, edits, edited, lostAnswers>>

ComplianceLoaded ==
    /\ complianceRequest # NoRequest /\ complianceRequest.phase = "answered"
    /\ compliance' = complianceRequest.orgs
    /\ TickEnds(complianceRequest.tick, complianceRequest.orgs # {}, ticks)
    /\ complianceRequest' = NoRequest
    /\ UNCHANGED <<serverSide, scan, scanRequest, superseded, ticks, cancellingScan, edits,
                   edited, lostAnswers>>

ComplianceLoadFails ==
    /\ complianceRequest # NoRequest /\ lostAnswers < MaxLosses
    /\ lostAnswers' = lostAnswers + 1
    /\ TickEnds(complianceRequest.tick, FALSE, ticks)
    /\ complianceRequest' = NoRequest
    /\ UNCHANGED <<serverSide, scan, scanRequest, compliance, superseded, ticks,
                   cancellingScan, edits, edited>>

(* Mutant: an older answer is shown although a newer request was sent. *)
SupersededShown(r) ==
    /\ superseded' = superseded \ {r}
    /\ compliance' = r.orgs
    /\ TickEnds(r.tick, r.orgs # {}, ticks)
    /\ UNCHANGED <<serverSide, scan, scanRequest, complianceRequest, ticks, cancellingScan,
                   edits, edited, lostAnswers>>

(* The version is not the current one; the caller gets the results still.  *)
SupersededDiscarded(r) ==
    /\ superseded' = superseded \ {r}
    /\ TickEnds(r.tick, r.orgs # {}, ticks)
    /\ UNCHANGED <<serverSide, scan, scanRequest, compliance, complianceRequest, ticks,
                   cancellingScan, edits, edited, lostAnswers>>

-----------------------------------------------------------------------------
(* Timers *)

(* Mutant: a failed load stops the polling. *)
RefreshUntilFailure ==
    /\ scan = "active" /\ superseded = {} /\ lostAnswers = 0
    /\ LoadScan(TRUE)
    /\ UNCHANGED <<serverSide, scan, shownCompliance, settleVars, cancellingScan, edits,
                   edited, lostAnswers>>

(* useConditionalInterval(refreshActiveScan). *)
RefreshActiveScan ==
    /\ scan = "active" /\ superseded = {}
    /\ LoadScan(TRUE)
    /\ UNCHANGED <<serverSide, scan, shownCompliance, settleVars, cancellingScan, edits,
                   edited, lostAnswers>>

SettleTick ==
    /\ interval /\ superseded = {}
    /\ ticks' = ticks + 1
    /\ LoadScan(FALSE) /\ LoadCompliance(TRUE)
    /\ TickEnds(AbortedTick, FALSE, ticks')
    /\ UNCHANGED <<serverSide, scan, compliance, cancellingScan, edits, edited, lostAnswers>>

-----------------------------------------------------------------------------
(* The user *)

(* handleCancel: the answer is shown at once, then the scan is loaded, or  *)
(* the load that was under way before is awaited.                          *)
HandleCancel ==
    /\ scan = "active" /\ cancellingScan = "no"
    /\ cancellingScan' = "sent"
    /\ UNCHANGED <<serverSide, scan, scanRequest, shownCompliance, settleVars, edits,
                   edited, lostAnswers>>

CancelAnswered ==
    /\ cancellingScan = "sent"
    /\ IF scanStatus = "active"
       THEN scanStatus' = "cancelled" /\ cancellingScan' = "accepted"
       ELSE cancellingScan' = "no" /\ UNCHANGED scanStatus
    /\ UNCHANGED <<assigned, results, scan, scanRequest, shownCompliance, settleVars,
                   edits, edited, lostAnswers>>

CancelShown ==
    /\ cancellingScan = "accepted"
    /\ cancellingScan' = "no"
    /\ SetScan("cancelled")
    /\ LoadScan(FALSE)
    /\ UNCHANGED <<serverSide, shownCompliance, edits, edited, lostAnswers>>

(* The compliance panel: assign an organization, remove one, re-evaluate.  *)
EditCompliance(kind, org) ==
    /\ scan # "none" /\ edited < MaxEdits
    /\ CASE kind = "assign" -> org \notin compliance
         [] kind = "remove" -> org \in compliance /\ org # FirstOrg
         [] kind = "evaluate" -> org = FirstOrg /\ \A e \in edits : e.kind # kind
    /\ edits' = edits \cup {[kind |-> kind, org |-> org, phase |-> "sent"]}
    /\ edited' = edited + 1
    /\ UNCHANGED <<serverSide, scan, scanRequest, shownCompliance, settleVars, cancellingScan,
                   lostAnswers>>

(* AssignScan evaluates in the background, ReEvaluate before it answers. *)
EditAnswered(e) ==
    /\ e.phase = "sent"
    /\ assigned' = CASE e.kind = "assign" -> assigned \cup {e.org}
                     [] e.kind = "remove" -> assigned \ {e.org}
                     [] OTHER -> assigned
    /\ results' = CASE e.kind = "remove" -> results \ {e.org}
                    [] e.kind = "evaluate" /\ scanStatus = "completed" -> assigned
                    [] OTHER -> results
    /\ edits' = (edits \ {e}) \cup
         {[kind |-> e.kind, org |-> e.org, phase |-> "answered", orgs |-> results']}
    /\ UNCHANGED <<scanStatus, scan, scanRequest, shownCompliance, settleVars, cancellingScan,
                   edited, lostAnswers>>

(* A failed re-evaluation shows no results; the other two ignore failures. *)
EditFails(e) ==
    /\ e.phase = "sent" /\ lostAnswers < MaxLosses
    /\ lostAnswers' = lostAnswers + 1
    /\ edits' = (edits \ {e}) \cup
         {[kind |-> e.kind, org |-> e.org, phase |-> "answered", orgs |-> {}]}
    /\ UNCHANGED <<serverSide, scan, scanRequest, shownCompliance, settleVars, cancellingScan,
                   edited>>

(* handleAssignOrg, handleRemoveOrg and handleReEvaluate after their await. *)
EditShown(e) ==
    /\ e.phase = "answered"
    /\ edits' = edits \ {e}
    /\ IF e.kind = "assign"
       THEN /\ LoadCompliance(FALSE)
            /\ TickEnds(AbortedTick, FALSE, ticks)
            /\ UNCHANGED compliance
       ELSE /\ compliance' = IF e.kind = "remove" THEN compliance \ {e.org} ELSE e.orgs
            /\ UNCHANGED <<complianceRequest, superseded, interval, policySettling>>
    /\ UNCHANGED <<serverSide, scan, scanRequest, ticks, cancellingScan, edited, lostAnswers>>

-----------------------------------------------------------------------------
StatusPolling == RefreshActiveScan \/ ScanAnswered \/ ScanLoaded
ComplianceLoading == \/ ComplianceAnswered \/ ComplianceLoaded
                     \/ \E r \in superseded : SupersededDiscarded(r)

ScanPageNext ==
    /\ On("scan")
    /\ \/ \E status \in {"completed", "failed"} : ScanEnds(status)
       \/ \E org \in Orgs : PolicyEvaluated(org)
       \/ StatusPolling \/ ScanLoadFails
       \/ ComplianceLoading \/ ComplianceLoadFails
       \/ SettleTick
       \/ HandleCancel \/ CancelAnswered \/ CancelShown
       \/ \E kind \in {"assign", "remove", "evaluate"}, org \in Orgs : EditCompliance(kind, org)
       \/ \E e \in edits : EditAnswered(e) \/ EditFails(e) \/ EditShown(e)

ScanPageSpec == route = "scan" /\ ScanPageInit /\ [][ScanPageNext]_scanPageVars

(* Timers fire and requests are answered. *)
ScanPageFairness ==
    /\ WF_scanPageVars(On("scan") /\ StatusPolling)
    /\ WF_scanPageVars(On("scan") /\ SettleTick)
    /\ WF_scanPageVars(On("scan") /\ ComplianceLoading)

-----------------------------------------------------------------------------
(* Properties *)

ScanPageTypeOK ==
    /\ scanStatus \in ScanStatus /\ scan \in {"none"} \cup ScanStatus
    /\ FirstOrg \in assigned /\ assigned \subseteq Orgs
    /\ results \subseteq assigned /\ compliance \subseteq Orgs
    /\ scanRequest \in ScanRequest \cup {NoRequest}
    /\ ticks \in 0 .. MaxTicks + 1
    /\ interval => policySettling /\ scan = "completed"
    /\ cancellingScan \in {"no", "sent", "accepted"}
    /\ edited \in 0 .. MaxEdits /\ lostAnswers \in 0 .. MaxLosses

(* The page comes to show what has become of its scan and keeps showing    *)
(* it, whatever is lost on the way and although the answer to an older     *)
(* poll may show a cancelled scan as running again for a while.            *)
EndIsShown == <>[](scanStatus \in ScanEnd => scan = scanStatus)

(* Results that the evaluation has stored while the page still waits for   *)
(* them are shown, although every tick aborts the load of the tick before. *)
(* (The first of them end the wait: those of a second organization may be  *)
(* missing until the page is loaded again.)                                *)
EvaluatedIsShown ==
    /\ interval /\ ticks < MaxTicks /\ FirstOrg \in results /\ lostAnswers = MaxLosses
    ~> compliance # {} \/ edited > 0

(* An open page comes to show the end of its scan and its policies.        *)
PageCatchesUp == EndIsShown /\ EvaluatedIsShown

(* As long as the user does not edit the assignments, results that were    *)
(* shown stay: an answer that a newer request has superseded is discarded. *)
ResultsDoNotGoBack ==
    [][edited' = 0 => compliance \subseteq compliance']_scanPageVars
=============================================================================
