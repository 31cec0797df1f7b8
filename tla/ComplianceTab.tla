----------------------------- MODULE ComplianceTab -----------------------------
(***************************************************************************)
(* The vulnerability details behind the compliance tab of a scan           *)
(* (app/(app)/scans/[id]/page.tsx): an effect that loads every page of the *)
(* scan's vulnerabilities, so that a violation can be shown with its       *)
(* affected package.                                                       *)
(*                                                                         *)
(* React runs the clean-up of an effect, and the effect again, after a     *)
(* render in which one of its dependencies differs.  Here a dependency     *)
(* that differs leaves "changed" set, and RunEffect is that clean-up and   *)
(* that run.  The clean-up makes a loader under way forget its answer.     *)
(***************************************************************************)
EXTENDS BrowserTab, Naturals

CONSTANTS MaxTabSwitches, MaxScanSets

ASSUME ComplianceConstants == {MaxTabSwitches, MaxScanSets} \subseteq Nat

VARIABLES
    onCompliance,       \* activeTab is 'compliance'
    scanEnded,          \* the scan is loaded and neither pending nor running
    detailsLoading,     \* complianceVulnLoading
    detailsLoaded,      \* complianceVulnLoaded
    detailsError,       \* complianceVulnError
    loaderLive,         \* a loader is under way whose effect is still in force
    detailsDue,         \* a dependency of the effect has changed since it ran
    tabSwitches, scanSets

detailsVars    == <<detailsLoading, detailsLoaded, detailsError, loaderLive>>
complianceVars == <<route, onCompliance, scanEnded, detailsVars, detailsDue, tabSwitches, scanSets>>

ComplianceInit ==
    /\ onCompliance = FALSE /\ scanEnded = FALSE
    /\ detailsLoading = FALSE /\ detailsLoaded = FALSE /\ detailsError = FALSE
    /\ loaderLive = FALSE
    /\ detailsDue = TRUE
    /\ tabSwitches = 0 /\ scanSets = 0

SelectTab ==
    /\ tabSwitches < MaxTabSwitches
    /\ onCompliance' = ~ onCompliance
    /\ detailsDue' = TRUE
    /\ tabSwitches' = tabSwitches + 1
    /\ UNCHANGED <<scanEnded, detailsVars, scanSets>>

(* A poll, a tag or an evaluation sets a new scan object.  An ended scan   *)
(* runs again only when it is scanned again, under another id.             *)
ReplaceScan ==
    /\ scanSets < MaxScanSets
    /\ scanEnded' \in {scanEnded, TRUE}
    /\ detailsDue' = TRUE
    /\ scanSets' = scanSets + 1
    /\ UNCHANGED <<onCompliance, detailsVars, tabSwitches>>

Loads == onCompliance /\ scanEnded /\ ~ detailsLoaded /\ ~ detailsLoading

(* The clean-up of the last run, and the effect.  "loading" is one of its  *)
(* dependencies and it sets it.                                            *)
RunDetailsEffect ==
    /\ detailsDue
    /\ loaderLive' = Loads
    /\ detailsDue' = Loads
    /\ detailsLoading' = (detailsLoading \/ Loads)
    /\ detailsError' = (detailsError /\ ~ Loads)
    /\ UNCHANGED <<onCompliance, scanEnded, detailsLoaded, tabSwitches, scanSets>>

(* The last page arrives, or one of them fails. *)
DetailsArrive ==
    /\ loaderLive
    /\ loaderLive' = FALSE
    /\ detailsLoaded' = TRUE /\ detailsLoading' = FALSE
    /\ detailsDue' = TRUE
    /\ UNCHANGED <<onCompliance, scanEnded, detailsError, tabSwitches, scanSets>>

DetailsFail ==
    /\ loaderLive
    /\ loaderLive' = FALSE
    /\ detailsLoaded' = TRUE /\ detailsError' = TRUE /\ detailsLoading' = FALSE
    /\ detailsDue' = TRUE
    /\ UNCHANGED <<onCompliance, scanEnded, tabSwitches, scanSets>>

(* The button beside the error. *)
RetryDetails ==
    /\ onCompliance /\ detailsError
    /\ tabSwitches < MaxTabSwitches /\ tabSwitches' = tabSwitches + 1
    /\ detailsError' = FALSE /\ detailsLoaded' = FALSE
    /\ detailsDue' = TRUE
    /\ UNCHANGED <<onCompliance, scanEnded, detailsLoading, loaderLive, scanSets>>

(* The answer of handleRefreshXrayPolicy. *)
XrayPolicyRefreshed ==
    /\ scanEnded /\ scanSets < MaxScanSets
    /\ scanSets' = scanSets + 1
    /\ detailsLoaded' = FALSE /\ detailsLoading' = FALSE
    /\ detailsDue' = TRUE
    /\ UNCHANGED <<onCompliance, scanEnded, detailsError, loaderLive, tabSwitches>>

ComplianceNext ==
    /\ On("compliance")
    /\ \/ SelectTab \/ ReplaceScan
       \/ RunDetailsEffect \/ DetailsArrive \/ DetailsFail
       \/ RetryDetails \/ XrayPolicyRefreshed

ComplianceSpec == route = "compliance" /\ ComplianceInit /\ [][ComplianceNext]_complianceVars

(* React renders, and the server answers. *)
ComplianceFairness ==
    WF_complianceVars(On("compliance") /\ (RunDetailsEffect \/ DetailsArrive \/ DetailsFail))

-----------------------------------------------------------------------------
(* Properties *)

(* A loader whose answer counts loads an ended scan, and the page says so  *)
(* unless a change is about to stop it.                                    *)
ComplianceTypeOK ==
    /\ {onCompliance, scanEnded, detailsLoading, detailsLoaded, detailsError, loaderLive, detailsDue}
         \subseteq BOOLEAN
    /\ loaderLive => scanEnded /\ (detailsLoading \/ detailsDue)
    /\ tabSwitches \in 0 .. MaxTabSwitches /\ scanSets \in 0 .. MaxScanSets

(* Does not hold: the compliance tab of an ended scan gets the details of  *)
(* its violations, or an error, unless the user leaves it.  A scan object  *)
(* that is replaced while they load cancels the loader for good.           *)
DetailsLoad == onCompliance /\ scanEnded ~> detailsLoaded \/ ~ onCompliance
=============================================================================
