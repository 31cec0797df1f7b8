-------------------------------- MODULE MCPages --------------------------------
(***************************************************************************)
(* FrontendPages for TLC, and beside it RepositoryRuns, the service behind *)
(* one of the pages, as a route of its own.  The pages that start in       *)
(* several states do so on their own route only.                           *)
(***************************************************************************)
EXTENDS FrontendPages, RepositoryRuns

CONSTANTS
    deletion, automatic, personal, org,
    MaxRunTroubles      \* restarts and failed statements of the repository service together

(* Process Center *)
OneScope == [j \in Jobs |-> personal]

(* New scan form: every kind of registry in every workspace *)
FormRegistries == [w \in {"personal", "org"} |->
                     IF w = "personal" THEN {"t", "x"} ELSE {"u", "x", "y"}]

(* Report: two scans of different images that share a CVE, an entry with   *)
(* no CVE, scores and severities that disagree, and ties.                  *)
Vulnerability(i, cve, rank, cvss, suppressed, package, image, watches) ==
    [id |-> i, cve |-> cve, rank |-> rank, cvss |-> cvss, suppressed |-> suppressed,
     package |-> package, image |-> image, watches |-> watches, comments |-> {}]

ReportVulnerabilities ==
    {Vulnerability(1, "CVE-1", 1, 9, FALSE, "p", "a", {}),
     Vulnerability(2, "CVE-1", 1, 9, FALSE, "q", "b", {"w"}),
     Vulnerability(3, "CVE-1", 0, 7, FALSE, "p", "b", {}),
     Vulnerability(4, "CVE-2", 2, 5, TRUE,  "p", "a", {}),
     Vulnerability(5, NoCve,   0, 8, FALSE, "p", "a", {"w"}),
     Vulnerability(6, "CVE-2", 2, 4, FALSE, "q", "a", {})}

ReportPolicyFailures ==
    [v \in ReportVulnerabilities |-> IF v.id \in {2, 4, 6} THEN {"policy"} ELSE {}]

Filters(ranks, minCvss, policyOnly, deduplicate) ==
    [ranks |-> ranks, minCvss |-> minCvss, policyOnly |-> policyOnly, deduplicate |-> deduplicate]

ReportFilterChoices ==
    {Filters({}, 0, FALSE, TRUE), Filters({0, 1}, 8, FALSE, TRUE),
     Filters({}, 0, TRUE, TRUE), Filters({}, 0, FALSE, FALSE)}

-----------------------------------------------------------------------------
(* On every other route the page is in one of its initial states. *)
Parked ==
    /\ route = "findings"      \/ saved = DefaultSettings
    /\ route = "new scan"      \/ (formScope = "personal" /\ trivyEnabled = TRUE)
    /\ route = "repository"    \/ repositoryRuns = <<>>
    /\ route = "notifications" \/ deliveryCount = 0
    /\ route = "report"        \/ /\ reportSource = {}
                                  /\ reportFilters = Filters({}, 0, FALSE, TRUE)

Init == PagesInit /\ RepositoryInit /\ Parked

Next ==
    /\ PagesNext
    /\ IF route = "repository runs"
       THEN RepositoryNext /\ restarts' + dbFaults' <= MaxRunTroubles
       ELSE UNCHANGED repositoryRunVars

vars == <<pagesVars, repositoryRunVars>>

Spec == Init /\ [][Next]_vars

FairSpec ==
    /\ Spec
    /\ ScanPageFairness /\ FindingsFairness /\ CenterFairness /\ PublicFairness
    /\ RepositoryPageFairness /\ RepositoryFairness /\ FormFairness

-----------------------------------------------------------------------------
(* Properties *)

(* A queued run ends, but for the cases RunEnds names, in which the code   *)
(* leaves it; and the page of the repository comes to show as active only  *)
(* runs that are, and polls only for those.                                *)
RunsSettle == RunEnds /\ PageSettles
=============================================================================
