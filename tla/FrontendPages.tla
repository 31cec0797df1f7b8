----------------------------- MODULE FrontendPages -----------------------------
(***************************************************************************)
(* The pages of the web frontend in one browser tab.  The tab is on one    *)
(* route, and only what belongs to that route takes steps: a page that is  *)
(* not mounted has no timers and no requests.                              *)
(***************************************************************************)
EXTENDS ScanPage, FindingsList, ComplianceTab, AssistantChat, ProcessCenter, PublicScans,
        RepositoryPage, NewScanForm, DeliveryHistory, ReportFindings

PagesInit ==
    /\ route \in Routes
    /\ ScanPageInit /\ FindingsInit /\ ComplianceInit /\ ChatInit /\ CenterInit /\ PublicInit
    /\ RepositoryPageInit /\ FormInit /\ DeliveryInit /\ ReportInit

PagesNext ==
    /\ UNCHANGED route
    /\ IF route = "scan"             THEN ScanPageNext       ELSE UNCHANGED scanPageVars
    /\ IF route = "findings"         THEN FindingsNext       ELSE UNCHANGED findingsVars
    /\ IF route = "compliance"       THEN ComplianceNext     ELSE UNCHANGED complianceVars
    /\ IF route = "assistant"        THEN ChatNext           ELSE UNCHANGED chatVars
    /\ IF route = "process center"   THEN CenterNext         ELSE UNCHANGED centerVars
    /\ IF route = "public"           THEN PublicNext         ELSE UNCHANGED publicVars
    /\ IF route = "repository"       THEN RepositoryPageNext ELSE UNCHANGED repositoryPageVars
    /\ IF route = "new scan"         THEN FormNext           ELSE UNCHANGED formVars
    /\ IF route = "notifications"    THEN DeliveryNext       ELSE UNCHANGED deliveryVars
    /\ IF route = "report"           THEN ReportNext         ELSE UNCHANGED reportVars

pagesVars == <<scanPageVars, findingsVars, complianceVars, chatVars, centerVars, publicVars,
              repositoryPageVars, formVars, deliveryVars, reportVars>>

PagesSpec == PagesInit /\ [][PagesNext]_pagesVars

-----------------------------------------------------------------------------
(* Properties *)

(* The state of every page is well-formed: its requests, flags and lists   *)
(* agree with each other (each page's type invariant says how).            *)
PagesTypeOK ==
    /\ route \in Routes
    /\ ScanPageTypeOK /\ FindingsTypeOK /\ ComplianceTypeOK /\ ChatTypeOK
    /\ CenterTypeOK /\ OneLiveRequest /\ PublicTypeOK /\ RepositoryPageTypeOK
    /\ FormTypeOK /\ DeliveryTypeOK
=============================================================================
