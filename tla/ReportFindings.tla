---------------------------- MODULE ReportFindings ----------------------------
(***************************************************************************)
(* The findings table of the printed report (app/reports/print/page.tsx).  *)
(* buildReportFindings goes through the vulnerabilities of all scans of    *)
(* the report, leaves out what the filters reject, and puts those with the *)
(* same CVE into one finding: the worst of them represents it, and its     *)
(* packages, images, policies and comments are those of all of them.       *)
(*                                                                         *)
(* One step takes one vulnerability.  The scans come in the order of the   *)
(* link or of the server and their vulnerabilities in that of the pages;   *)
(* the steps take them in any order, for the table must not depend on it.  *)
(***************************************************************************)
EXTENDS Integers

CONSTANTS
    Vulnerabilities,    \* those the scans of a report may have
    FilterChoices,      \* settings of the filters
    PolicyFailures,     \* Vulnerabilities -> names of the policies it fails
    NoCve

(* A vulnerability is a record of its id (numbered in the order of         *)
(* localeCompare), its CVE or NoCve, the rank of its severity (0 is the    *)
(* worst), its score, whether it is suppressed, and its package, image,    *)
(* watches and comments.  Each has an id of its own.                       *)
ASSUME ReportAssumption ==
    /\ \A v \in Vulnerabilities : v.id \in Int /\ v.rank \in Int /\ v.cvss \in Int
    /\ \A v, w \in Vulnerabilities : v.id = w.id => v = w

VARIABLES
    reportSource,   \* the vulnerabilities of the scans of the report
    reportFilters,
    remaining,      \* those buildReportFindings has not taken
    grouped         \* the findings: a function from the key

reportVars == <<reportSource, reportFilters, remaining, grouped>>

(* filterVulns and the filter after it: a suppressed vulnerability is      *)
(* never in the table, whatever showSuppressed says.  The filters on the   *)
(* fix, the watches and the search text are left out: each looks at one    *)
(* vulnerability, as these do.                                             *)
Passes(v) ==
    /\ ~ v.suppressed
    /\ reportFilters.ranks # {} => v.rank \in reportFilters.ranks
    /\ reportFilters.minCvss > 0 => v.cvss >= reportFilters.minCvss
    /\ reportFilters.policyOnly => PolicyFailures[v] # {}

FindingKey(v) ==
    IF reportFilters.deduplicate /\ v.cve # NoCve THEN <<"cve", v.cve>> ELSE <<"finding", v.id>>

(* selectRepresentativeFinding: severity, then score, then id *)
WorseThan(v, w) ==
    \/ v.rank < w.rank
    \/ v.rank = w.rank /\ v.cvss > w.cvss
    \/ v.rank = w.rank /\ v.cvss = w.cvss /\ v.id < w.id

(* Mutant: the score decides before the severity. *)
ScoreFirst(current, candidate) ==
    IF candidate.cvss > current.cvss
       \/ (candidate.cvss = current.cvss /\ WorseThan(candidate, current))
    THEN candidate ELSE current

Representative(current, candidate) ==
    IF WorseThan(candidate, current) THEN candidate ELSE current

NewFinding(v) ==
    [vulnerability |-> v, packages |-> {v.package}, images |-> {v.image},
     watches |-> v.watches, policies |-> PolicyFailures[v], comments |-> v.comments]

Merged(finding, v) ==
    [vulnerability |-> Representative(finding.vulnerability, v),
     packages |-> finding.packages \cup {v.package},
     images |-> finding.images \cup {v.image},
     watches |-> finding.watches \cup v.watches,
     policies |-> finding.policies \cup PolicyFailures[v],
     comments |-> finding.comments \cup v.comments]

WithFinding(v) ==
    LET key == FindingKey(v)
    IN  [k \in DOMAIN grouped \cup {key} |->
            IF k # key THEN grouped[k]
            ELSE IF key \in DOMAIN grouped THEN Merged(grouped[key], v) ELSE NewFinding(v)]

ReportInit ==
    /\ reportSource \in SUBSET Vulnerabilities
    /\ reportFilters \in FilterChoices
    /\ remaining = reportSource
    /\ grouped = [k \in {} |-> NoCve]

TakeVulnerability(v) ==
    /\ v \in remaining
    /\ remaining' = remaining \ {v}
    /\ grouped' = IF Passes(v) THEN WithFinding(v) ELSE grouped
    /\ UNCHANGED <<reportSource, reportFilters>>

ReportNext == \E v \in Vulnerabilities : TakeVulnerability(v)

ReportSpec == ReportInit /\ [][ReportNext]_reportVars

-----------------------------------------------------------------------------
(* Properties *)

(* The vulnerabilities that belong to a key and have been taken *)
Taken(key) ==
    {v \in reportSource \ remaining : Passes(v) /\ FindingKey(v) = key}

(* Every vulnerability that passes the filters is in the table, and the    *)
(* table has no other: a finding is there for each key of those taken.     *)
EveryKeyIsListed ==
    DOMAIN grouped = {FindingKey(v) : v \in {w \in reportSource \ remaining : Passes(w)}}

(* The finding of a CVE is represented by the worst of its occurrences:    *)
(* severity before score before id, whatever the order of the scans.       *)
WorstRepresents ==
    \A key \in DOMAIN grouped :
        LET represented == grouped[key].vulnerability
        IN  /\ represented \in Taken(key)
            /\ \A v \in Taken(key) : ~ WorseThan(v, represented)

(* A finding names exactly the images, packages, watches, policies and     *)
(* comments of its occurrences, also of those that do not represent it.    *)
NothingIsLost ==
    \A key \in DOMAIN grouped :
        /\ grouped[key].images = {v.image : v \in Taken(key)}
        /\ grouped[key].packages = {v.package : v \in Taken(key)}
        /\ grouped[key].watches = UNION {v.watches : v \in Taken(key)}
        /\ grouped[key].policies = UNION {PolicyFailures[v] : v \in Taken(key)}
        /\ grouped[key].comments = UNION {v.comments : v \in Taken(key)}

(* The table is complete, shows the worst occurrence of each CVE, and      *)
(* loses nothing of the others, at every point of buildReportFindings.     *)
ReportIsRight == EveryKeyIsListed /\ WorstRepresents /\ NothingIsLost
=============================================================================
