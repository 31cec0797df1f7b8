---------------------------- MODULE ProcessCenter ----------------------------
(***************************************************************************)
(* The Process Center of one browser tab (background-process-center.tsx),  *)
(* the job list it polls, and the page that waits for a deletion job       *)
(* (scans/page.tsx).                                                       *)
(*                                                                         *)
(* A poll is a request that the server answers at one moment and the tab   *)
(* applies at a later one.  Between the two the user may switch the        *)
(* workspace, queue a deletion, or dismiss an ended job.  "queued",        *)
(* "pending" and "running" are one status, "active", as in                 *)
(* isBackgroundJobActive.                                                  *)
(***************************************************************************)
EXTENDS BrowserTab, Naturals, Sequences, FiniteSets

CONSTANTS
    Jobs,
    Automated,      \* started by a schedule or a repository, not by a person
    Deletions,      \* queued from this tab's scan list
    Scopes,         \* workspaces
    FirstScope,
    ScopeOf,        \* the workspace of a job
    JobLimit,       \* rows of one response, and of the drawer
    MaxSwitches, MaxFaults

JobEnd == {"succeeded", "failed"}
Status == {"active"} \cup JobEnd
Row    == Status \cup {"absent"}
Answer == [Jobs -> Row]

PollRequest == [phase : {"sent"}] \cup [phase : {"answered"}, jobs : Answer]

ASSUME CenterConstants ==
    /\ IsFiniteSet(Jobs)
    /\ Automated \subseteq Jobs /\ Deletions \subseteq Jobs \ Automated
    /\ FirstScope \in Scopes /\ ScopeOf \in [Jobs -> Scopes]
    /\ JobLimit \in Nat \ {0}
    /\ {MaxSwitches, MaxFaults} \subseteq Nat
    /\ NoRequest \notin PollRequest

VARIABLES
    server,             \* background_jobs.status
    created,            \* the jobs in the order of created_at
    hidden,             \* background_job_dismissals of this user
    centerScope,        \* scopeKey
    shown, shownScope,  \* jobs, jobsScopeKey
    previous,           \* previousStatusesRef
    inFlight,           \* inFlightRef
    live,               \* the request whose controller is abortRef
    aborted,            \* aborted requests whose finally block has not run
    visible,            \* document.visibilityState
    post,               \* the request that queues a deletion
    waiting,            \* queuedImageDeletes: deletions the page waits for
    dismissals,         \* dismissJobs calls under way
    switches, faults

serverVars  == <<server, created, hidden>>
drawerVars  == <<centerScope, shown, shownScope, previous>>
pollVars    == <<inFlight, live, aborted>>
pageVars    == <<post, waiting>>
centerBudget == <<switches, faults>>
centerVars ==
    <<route, serverVars, drawerVars, pollVars, visible, pageVars, dismissals, centerBudget>>

NoJobs == [j \in Jobs |-> "absent"]

Dismissal == [ids : SUBSET Jobs, done : SUBSET Jobs, phase : {"sent", "ok", "failed"}]

(* Type invariant; every job is in the list of created jobs once.          *)
CenterTypeOK ==
    /\ server \in [Jobs -> {"none"} \cup Status]
    /\ created \in Seq(Jobs)
    /\ \A j \in Jobs : server[j] # "none" <=> \E i \in DOMAIN created : created[i] = j
    /\ \A a, b \in DOMAIN created : created[a] = created[b] => a = b
    /\ hidden \subseteq Jobs
    /\ centerScope \in Scopes /\ shownScope \in Scopes
    /\ shown \in Answer /\ previous \in Answer
    /\ Cardinality({j \in Jobs : shown[j] # "absent"}) <= JobLimit
    /\ inFlight \in BOOLEAN /\ visible \in BOOLEAN
    /\ live \in PollRequest \cup {NoRequest}
    /\ aborted \in 0 .. MaxSwitches
    /\ post \in [Deletions -> {"idle", "sent", "answered", "done"}]
    /\ waiting \subseteq Deletions
    /\ dismissals \subseteq Dismissal
    /\ switches \in 0 .. MaxSwitches /\ faults \in 0 .. MaxFaults

(* Mounted: the first effect has sent the first request. *)
CenterInit ==
    /\ server = [j \in Jobs |-> "none"] /\ created = <<>> /\ hidden = {}
    /\ centerScope = FirstScope /\ shownScope = FirstScope
    /\ shown = NoJobs /\ previous = NoJobs
    /\ inFlight = TRUE /\ live = [phase |-> "sent"] /\ aborted = 0
    /\ visible = TRUE
    /\ post = [j \in Deletions |-> "idle"] /\ waiting = {}
    /\ dismissals = {}
    /\ switches = 0 /\ faults = 0

Fault == /\ faults < MaxFaults
         /\ faults' = faults + 1
         /\ UNCHANGED switches

-----------------------------------------------------------------------------
(* What the drawer does with a list of jobs *)

(* An automated run is listed while it runs or after it failed. *)
Listable(j, status) == j \notin Automated \/ status # "succeeded"

IsVisibleJob(j) == shown[j] # "absent" /\ Listable(j, shown[j])

Displayed(j) == shownScope = centerScope /\ IsVisibleJob(j)

JobDisplayPriority(status) ==
    CASE status = "active" -> 0 [] status = "failed" -> 1 [] OTHER -> 2

(* The first JobLimit rows by priority; rows of one priority are ordered   *)
(* by times the model leaves open.                                         *)
Limited(list) ==
    LET present == {j \in Jobs : list[j] # "absent"} IN
    {[j \in Jobs |-> IF j \in kept THEN list[j] ELSE "absent"] : kept \in
        {k \in SUBSET present :
            /\ Cardinality(k) = IF Cardinality(present) < JobLimit
                                THEN Cardinality(present) ELSE JobLimit
            /\ \A in \in k, out \in present \ k :
                 JobDisplayPriority(list[in]) <= JobDisplayPriority(list[out])}}

(* Mutant: active rows survive their absence as well. *)
MergeKeepingActive(current, incoming) ==
    Limited([j \in Jobs |-> IF incoming[j] # "absent" THEN incoming[j] ELSE current[j]])

MergeJobs(current, incoming) ==
    Limited([j \in Jobs |->
        IF incoming[j] = "absent" /\ current[j] \in JobEnd
        THEN current[j] ELSE incoming[j]])

(* loadJobs, up to its request.  One request at a time. *)
LoadJobs ==
    IF inFlight THEN UNCHANGED <<inFlight, live>>
    ELSE inFlight' = TRUE /\ live' = [phase |-> "sent"]

-----------------------------------------------------------------------------
(* The server *)

StartJob(j) ==
    /\ server[j] = "none"
    /\ server' = [server EXCEPT ![j] = "active"]
    /\ created' = Append(created, j)

(* A schedule, another tab or another member of the workspace. *)
OthersStart(j) ==
    /\ StartJob(j)
    /\ UNCHANGED <<hidden, drawerVars, pollVars, visible, pageVars, dismissals, centerBudget>>

(* The job queue: JobQueue. *)
EndJob(j, end) ==
    /\ server[j] = "active"
    /\ server' = [server EXCEPT ![j] = end]
    /\ UNCHANGED <<created, hidden, drawerVars, pollVars, visible, pageVars,
                   dismissals, centerBudget>>

(* ListAuthorized: the newest jobs of the workspace that this user has not *)
(* dismissed, without the automated runs that succeeded.                   *)
ListAuthorized ==
    LET list == {j \in Jobs : /\ server[j] # "none" /\ ScopeOf[j] = centerScope
                              /\ j \notin hidden /\ Listable(j, server[j])}
        newer(j) == {k \in list : \E a, b \in DOMAIN created :
                        a < b /\ created[a] = j /\ created[b] = k}
    IN [j \in Jobs |-> IF j \in list /\ Cardinality(newer(j)) < JobLimit
                       THEN server[j] ELSE "absent"]

(* The request was sent in the scope that is still the current one: a      *)
(* switch aborts it.                                                       *)
ListAnswered ==
    /\ live # NoRequest /\ live.phase = "sent"
    /\ live' = [phase |-> "answered", jobs |-> ListAuthorized]
    /\ UNCHANGED <<serverVars, drawerVars, inFlight, aborted, visible, pageVars,
                   dismissals, centerBudget>>

-----------------------------------------------------------------------------
(* loadJobs after its await *)

NextStatuses(incoming) == incoming

(* Mutant: a job that is not in the answer any more has ended. *)
NewlyGoneOrFinished(incoming) ==
    {j \in Jobs : previous[j] = "active" /\ incoming[j] # "active"}

NewlyFinished(incoming) ==
    {j \in Jobs : /\ incoming[j] \in JobEnd
                  /\ previous[j] # "absent" /\ previous[j] # incoming[j]}

(* Every end found is announced, which makes the scan list drop its        *)
(* deletion and reload (handleFinished).  The updater of setJobs may run   *)
(* after the line below it has set the scope: then it finds the scope      *)
(* unchanged, and merges with the rows of the scope before.                *)
ListArrives ==
    /\ live # NoRequest /\ live.phase = "answered"
    /\ waiting' = waiting \ NewlyFinished(live.jobs)
    /\ \E current \in {shown, IF shownScope = centerScope THEN shown ELSE NoJobs} :
          shown' \in MergeJobs(current, live.jobs)
    /\ previous' = NextStatuses(live.jobs)
    /\ shownScope' = centerScope
    /\ live' = NoRequest /\ inFlight' = FALSE
    /\ UNCHANGED <<serverVars, centerScope, aborted, visible, post, dismissals, centerBudget>>

(* The request fails; the rows stay and the error is displayed. *)
ListFails ==
    /\ Fault
    /\ live # NoRequest
    /\ live' = NoRequest /\ inFlight' = FALSE
    /\ UNCHANGED <<serverVars, drawerVars, aborted, visible, pageVars, dismissals>>

(* Mutant: the finally block of an aborted request resets the flag too. *)
AbortedSettlesResetting ==
    /\ aborted > 0
    /\ aborted' = aborted - 1
    /\ inFlight' = FALSE
    /\ UNCHANGED <<serverVars, drawerVars, live, visible, pageVars, dismissals, centerBudget>>

(* Its controller is not abortRef any more: nothing is changed. *)
AbortedSettles ==
    /\ aborted > 0
    /\ aborted' = aborted - 1
    /\ UNCHANGED <<serverVars, drawerVars, inFlight, live, visible, pageVars, dismissals,
                   centerBudget>>

-----------------------------------------------------------------------------
(* The tab: timer, visibility and workspace *)

(* The interval, the drawer's button or the open event. *)
Poll ==
    /\ visible
    /\ LoadJobs
    /\ UNCHANGED <<serverVars, drawerVars, aborted, visible, pageVars, dismissals,
                   centerBudget>>

ChangeVisibility ==
    /\ visible' = ~visible
    /\ UNCHANGED <<serverVars, drawerVars, pollVars, pageVars, dismissals,
                   centerBudget>>

(* The effect of the new scope: the old request is aborted, what was seen  *)
(* of the jobs is forgotten, and the first request of the scope is sent.   *)
(* The rows of the old scope stay in the state, not on the screen.         *)
SwitchScope(s) ==
    /\ s # centerScope /\ switches < MaxSwitches
    /\ centerScope' = s
    /\ previous' = NoJobs
    /\ aborted' = IF live # NoRequest THEN aborted + 1 ELSE aborted
    /\ inFlight' = TRUE /\ live' = [phase |-> "sent"]
    /\ switches' = switches + 1
    /\ UNCHANGED <<serverVars, shown, shownScope, visible, pageVars, dismissals,
                   faults>>

-----------------------------------------------------------------------------
(* The scan list: queue a deletion and wait for its end *)

ConfirmDelete(j) ==
    /\ post[j] = "idle"
    /\ ScopeOf[j] = centerScope
    /\ post' = [post EXCEPT ![j] = "sent"]
    /\ UNCHANGED <<serverVars, drawerVars, pollVars, visible, waiting, dismissals,
                   centerBudget>>

(* deleteScanGroup: the job is inserted, or the active one is returned. *)
DeleteAccepted(j) ==
    /\ post[j] = "sent"
    /\ \/ StartJob(j)
       \/ server[j] = "active" /\ UNCHANGED <<server, created>>
    /\ post' = [post EXCEPT ![j] = "answered"]
    /\ UNCHANGED <<hidden, drawerVars, pollVars, visible, waiting, dismissals, centerBudget>>

(* announceBackgroundJobEnqueued, onEnqueued, and the page's own map. *)
OnEnqueued(j) ==
    /\ post[j] = "answered"
    /\ previous' = [previous EXCEPT ![j] = "active"]
    /\ shown' \in Limited([shown EXCEPT ![j] = "active"])
    /\ shownScope' = centerScope
    /\ LoadJobs
    /\ waiting' = waiting \cup {j}
    /\ post' = [post EXCEPT ![j] = "done"]
    /\ UNCHANGED <<serverVars, centerScope, aborted, visible, dismissals, centerBudget>>

-----------------------------------------------------------------------------
(* Dismissal of ended jobs *)

Dismissing == UNION {d.ids : d \in dismissals}
EndedRows  == {j \in Jobs : Displayed(j) /\ shown[j] \in JobEnd}

(* One row, or every ended row when no other dismissal is under way. *)
DismissJobs ==
    \E ids \in {{j} : j \in EndedRows \ Dismissing}
               \cup (IF Dismissing = {} /\ EndedRows # {} THEN {EndedRows} ELSE {}) :
       /\ dismissals' = dismissals \cup {[ids |-> ids, done |-> {}, phase |-> "sent"]}
       /\ UNCHANGED <<serverVars, drawerVars, pollVars, visible, pageVars, centerBudget>>

(* DismissManyAuthorized: job by job, each in a statement of its own. *)
DismissOne(d, j) ==
    /\ d.phase = "sent" /\ j \in d.ids \ d.done
    /\ server[j] \in JobEnd
    /\ hidden' = hidden \cup {j}
    /\ dismissals' = (dismissals \ {d}) \cup
         {[d EXCEPT !.done = @ \cup {j},
                    !.phase = IF d.done \cup {j} = d.ids THEN "ok" ELSE "sent"]}
    /\ UNCHANGED <<server, created, drawerVars, pollVars, visible, pageVars, centerBudget>>

DismissFails(d) ==
    /\ Fault
    /\ d.phase = "sent"
    /\ dismissals' = (dismissals \ {d}) \cup {[d EXCEPT !.phase = "failed"]}
    /\ UNCHANGED <<serverVars, drawerVars, pollVars, visible, pageVars>>

DismissAnswered(d) ==
    /\ d.phase # "sent"
    /\ LET removed == IF d.phase = "ok" THEN d.ids ELSE {} IN
       /\ shown' = [j \in Jobs |-> IF j \in removed THEN "absent" ELSE shown[j]]
       /\ previous' = [j \in Jobs |-> IF j \in removed THEN "absent" ELSE previous[j]]
    /\ dismissals' = dismissals \ {d}
    /\ UNCHANGED <<serverVars, centerScope, shownScope, pollVars, visible, pageVars,
                   centerBudget>>

DismissStep == \E d \in dismissals : DismissAnswered(d) \/ \E j \in Jobs : DismissOne(d, j)

-----------------------------------------------------------------------------
CenterNext ==
    /\ On("process center")
    /\ \/ \E j \in Jobs : OthersStart(j) \/ \E end \in JobEnd : EndJob(j, end)
       \/ ListAnswered \/ ListArrives \/ ListFails \/ AbortedSettles
       \/ Poll \/ ChangeVisibility
       \/ \E s \in Scopes : SwitchScope(s)
       \/ \E j \in Deletions : ConfirmDelete(j) \/ DeleteAccepted(j) \/ OnEnqueued(j)
       \/ DismissJobs \/ DismissStep
       \/ \E d \in dismissals : DismissFails(d)

CenterSpec == route = "process center" /\ CenterInit /\ [][CenterNext]_centerVars

(* Polling is one sequence of steps: the interval fires while the page is   *)
(* visible and its request is answered.  The job queue ends its jobs        *)
(* (JobQueue's EveryJobEnds).  The user need not do anything.               *)
PollingStep == Poll \/ ListAnswered \/ ListArrives

CenterFairness ==
    /\ WF_centerVars(On("process center") /\ PollingStep)
    /\ \A j \in Jobs : WF_centerVars(On("process center") /\ \E end \in JobEnd : EndJob(j, end))

-----------------------------------------------------------------------------
(* Properties *)

(* The in-flight flag is up exactly while there is a request to take it    *)
(* down: an aborted request that settles late neither lets a second poll   *)
(* start nor leaves polling stopped for ever.                              *)
OneLiveRequest == inFlight <=> live # NoRequest

(* The page's deletion is taken off its list only when its job has ended,  *)
(* and while the job may still be running the list says so.                *)
ClearedWhenEnded ==
    \A j \in Deletions : post[j] = "done" /\ j \notin waiting => server[j] \in JobEnd

(* A row does not spin for ever: an active row ends or goes while the user *)
(* looks at its workspace.                                                 *)
ActiveRowEnds ==
    \A j \in Jobs : shown[j] = "active" /\ shownScope = centerScope
                       ~> shown[j] # "active" \/ shownScope # centerScope \/ ~visible

(* Does not hold: a page that queued a deletion reloads when the job has   *)
(* ended.  A poll that does not list the job yet forgets its status.       *)
DeletionIsNoticed == \A j \in Deletions : j \in waiting ~> j \notin waiting
=============================================================================
