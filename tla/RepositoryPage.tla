---------------------------- MODULE RepositoryPage ----------------------------
(***************************************************************************)
(* The runs on the page of a Git repository                                *)
(* (app/(app)/git-repositories/[id]/page.tsx).  The page polls the list of *)
(* runs while it shows one that is active, puts the runs it starts itself  *)
(* in front of the list, and takes every answer as it comes: polls are not *)
(* cancelled, and an older one may arrive after a newer one.               *)
(*                                                                         *)
(* The service is reduced to what this page tells apart: a run is active   *)
(* or has ended, and a scan is not started beside an active run            *)
(* (RepositoryRuns has the rest).                                          *)
(***************************************************************************)
EXTENDS BrowserTab, Naturals, Sequences, FiniteSets

CONSTANTS
    MaxRuns,
    MaxPolls,       \* polls under way at a time
    MaxLostPolls

ASSUME RepositoryPageConstants ==
    /\ {MaxRuns, MaxPolls} \subseteq Nat \ {0} /\ MaxLostPolls \in Nat
    /\ NoRequest \notin [id : Nat] \cup [id : Nat, done : BOOLEAN]

VARIABLES
    repositoryRuns, \* the rows, in the order they were created: their statuses
    shownRuns,      \* the list of the page, newest first
    runPolls,       \* lists that were read and have not arrived
    starting,       \* startScan: the run it got, 0 before that, or NoRequest
    discovering,    \* discover: likewise
    cancellingRun,  \* cancelActiveRun: the run, and whether it was cancelled, or NoRequest
    lostPolls

repositoryPageVars ==
    <<route, repositoryRuns, shownRuns, runPolls, starting, discovering, cancellingRun, lostPolls>>

Entry(n, status) == [id |-> n, status |-> status]

(* ListRuns: newest first *)
NewestFirst(statuses) ==
    [i \in 1..Len(statuses) |-> LET n == Len(statuses) + 1 - i IN Entry(n, statuses[n])]

IsActive(entry) == entry.status = "active"
HasActiveRun == \E i \in 1..Len(shownRuns) : IsActive(shownRuns[i])

(* runs.find: the first of the list *)
ActiveRun ==
    shownRuns[CHOOSE i \in 1..Len(shownRuns) :
                 IsActive(shownRuns[i]) /\ \A j \in 1..(i - 1) : ~ IsActive(shownRuns[j])].id

(* The page opens with its load under way. *)
RepositoryPageInit ==
    /\ repositoryRuns \in {<<>>, <<"active">>}
    /\ shownRuns = <<>>
    /\ runPolls = {NewestFirst(repositoryRuns)}
    /\ starting = NoRequest /\ discovering = NoRequest /\ cancellingRun = NoRequest
    /\ lostPolls = 0

-----------------------------------------------------------------------------
(* Polling: at once when a run becomes active and every three seconds *)

(* Mutant: the list is read once only, when a run has just been started. *)
RefreshAtOnce ==
    /\ HasActiveRun /\ starting # NoRequest
    /\ Cardinality(runPolls) < MaxPolls
    /\ runPolls' = runPolls \cup {NewestFirst(repositoryRuns)}
    /\ UNCHANGED <<repositoryRuns, shownRuns, starting, discovering, cancellingRun, lostPolls>>

Refresh ==
    /\ HasActiveRun
    /\ Cardinality(runPolls) < MaxPolls
    /\ runPolls' = runPolls \cup {NewestFirst(repositoryRuns)}
    /\ UNCHANGED <<repositoryRuns, shownRuns, starting, discovering, cancellingRun, lostPolls>>

PollArrives(list) ==
    /\ list \in runPolls
    /\ shownRuns' = list
    /\ runPolls' = runPolls \ {list}
    /\ UNCHANGED <<repositoryRuns, starting, discovering, cancellingRun, lostPolls>>

PollFails(list) ==
    /\ list \in runPolls /\ lostPolls < MaxLostPolls
    /\ runPolls' = runPolls \ {list}
    /\ lostPolls' = lostPolls + 1
    /\ UNCHANGED <<repositoryRuns, shownRuns, starting, discovering, cancellingRun>>

-----------------------------------------------------------------------------
(* startScan; "Scan selected" can be pressed beside an active run *)

StartScan ==
    /\ starting = NoRequest
    /\ starting' = [id |-> 0]
    /\ UNCHANGED <<repositoryRuns, shownRuns, runPolls, discovering, cancellingRun, lostPolls>>

NoneActive == \A n \in 1..Len(repositoryRuns) : repositoryRuns[n] # "active"

StartHandled ==
    /\ starting = [id |-> 0] /\ Len(repositoryRuns) < MaxRuns
    /\ IF NoneActive
       THEN /\ repositoryRuns' = Append(repositoryRuns, "active")
            /\ starting' = [id |-> Len(repositoryRuns')]
       ELSE starting' = NoRequest /\ UNCHANGED repositoryRuns
    /\ UNCHANGED <<shownRuns, runPolls, discovering, cancellingRun, lostPolls>>

(* The answer has the run as it was inserted. *)
StartArrives ==
    /\ starting # NoRequest /\ starting.id > 0
    /\ shownRuns' = <<Entry(starting.id, "active")>> \o shownRuns
    /\ starting' = NoRequest
    /\ UNCHANGED <<repositoryRuns, runPolls, discovering, cancellingRun, lostPolls>>

(* discover: the request lasts until the dry run has ended. *)
StartDiscovery ==
    /\ ~ HasActiveRun /\ discovering = NoRequest
    /\ discovering' = [id |-> 0]
    /\ UNCHANGED <<repositoryRuns, shownRuns, runPolls, starting, cancellingRun, lostPolls>>

DiscoveryHandled ==
    /\ discovering = [id |-> 0] /\ Len(repositoryRuns) < MaxRuns
    /\ repositoryRuns' = Append(repositoryRuns, "active")
    /\ discovering' = [id |-> Len(repositoryRuns')]
    /\ UNCHANGED <<shownRuns, runPolls, starting, cancellingRun, lostPolls>>

DiscoveryArrives ==
    /\ discovering # NoRequest /\ discovering.id > 0
    /\ repositoryRuns[discovering.id] = "ended"
    /\ shownRuns' = <<Entry(discovering.id, "ended")>> \o shownRuns
    /\ discovering' = NoRequest
    /\ UNCHANGED <<repositoryRuns, runPolls, starting, cancellingRun, lostPolls>>

(* The request ends with an error; its run stays as the service left it.   *)
DiscoveryFails ==
    /\ discovering # NoRequest
    /\ discovering' = NoRequest
    /\ UNCHANGED <<repositoryRuns, shownRuns, runPolls, starting, cancellingRun, lostPolls>>

-----------------------------------------------------------------------------
(* cancelActiveRun, for the run that was active when the button was pressed *)

CancelActiveRun ==
    /\ HasActiveRun /\ cancellingRun = NoRequest
    /\ cancellingRun' = [id |-> ActiveRun, done |-> FALSE]
    /\ UNCHANGED <<repositoryRuns, shownRuns, runPolls, starting, discovering, lostPolls>>

CancelHandled ==
    /\ cancellingRun # NoRequest /\ ~ cancellingRun.done
    /\ IF repositoryRuns[cancellingRun.id] = "active"
       THEN /\ repositoryRuns' = [repositoryRuns EXCEPT ![cancellingRun.id] = "ended"]
            /\ cancellingRun' = [cancellingRun EXCEPT !.done = TRUE]
       ELSE cancellingRun' = NoRequest /\ UNCHANGED repositoryRuns
    /\ UNCHANGED <<shownRuns, runPolls, starting, discovering, lostPolls>>

WithCancelled(n, list) ==
    [i \in 1..Len(list) |-> IF list[i].id = n THEN Entry(n, "ended") ELSE list[i]]

CancelArrives ==
    /\ cancellingRun # NoRequest /\ cancellingRun.done
    /\ shownRuns' = WithCancelled(cancellingRun.id, shownRuns)
    /\ cancellingRun' = NoRequest
    /\ UNCHANGED <<repositoryRuns, runPolls, starting, discovering, lostPolls>>

RepositoryRunEnds(n) ==
    /\ repositoryRuns[n] = "active"
    /\ repositoryRuns' = [repositoryRuns EXCEPT ![n] = "ended"]
    /\ UNCHANGED <<shownRuns, runPolls, starting, discovering, cancellingRun, lostPolls>>

-----------------------------------------------------------------------------
RunPolling == Refresh \/ \E list \in runPolls : PollArrives(list)

RunsProceed == \E n \in 1..Len(repositoryRuns) : RepositoryRunEnds(n)

RepositoryPageNext ==
    /\ On("repository")
    /\ \/ RunPolling \/ RunsProceed
       \/ \E list \in runPolls : PollFails(list)
       \/ StartScan \/ StartHandled \/ StartArrives
       \/ StartDiscovery \/ DiscoveryHandled \/ DiscoveryArrives \/ DiscoveryFails
       \/ CancelActiveRun \/ CancelHandled \/ CancelArrives

(* The interval goes on while it is set, and answers arrive.  Runs need    *)
(* not end: one with a cancelled scan and a dry run that was given up stay *)
(* active (RepositoryRuns).                                                *)
RepositoryPageFairness == WF_repositoryPageVars(On("repository") /\ RunPolling)

RepositoryPageSpec ==
    route = "repository" /\ RepositoryPageInit /\ [][RepositoryPageNext]_repositoryPageVars

-----------------------------------------------------------------------------
(* Properties *)

(* Type invariant.  The list shows runs that exist, each at most once more *)
(* than a start and a dry run under way have yet to put in front of it.    *)
Occurrences(n) == {i \in 1..Len(shownRuns) : shownRuns[i].id = n}

RepositoryPageTypeOK ==
    /\ repositoryRuns \in Seq({"active", "ended"}) /\ Len(repositoryRuns) <= MaxRuns
    /\ \A i \in 1..Len(shownRuns) : shownRuns[i].id \in 1..Len(repositoryRuns)
    /\ \A n \in 1..Len(repositoryRuns) : Cardinality(Occurrences(n)) <= 2
    /\ Cardinality(runPolls) <= MaxPolls
    /\ lostPolls \in 0..MaxLostPolls

(* In the end the page shows no run as active that has ended, and polls    *)
(* only for runs that are active on the server: the last list it takes was *)
(* read after the last of them ended, although an older list or a start    *)
(* that arrives late may show them as active again.                        *)
PageSettles ==
    <>[](\A i \in 1..Len(shownRuns) : IsActive(shownRuns[i]) =>
            repositoryRuns[shownRuns[i].id] = "active")
=============================================================================
