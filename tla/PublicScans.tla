------------------------------ MODULE PublicScans ------------------------------
(***************************************************************************)
(* The scans an anonymous visitor has started, as the browser remembers    *)
(* them (lib/publicScanHistory.ts), the page that lists and refreshes them *)
(* (app/public/scan/image/page.tsx) and the page of one scan               *)
(* (app/public/scan/[id]/page.tsx).                                        *)
(*                                                                         *)
(* The history is localStorage: one for all tabs, read and written in one  *)
(* synchronous step by whichever handler runs.  The list page keeps a copy *)
(* in its state.  Requests that are under way outlive the page that sent   *)
(* them.  A record's time is unique, and the order of the list is that of  *)
(* the times, so a history is a set.                                       *)
(***************************************************************************)
EXTENDS BrowserTab, Naturals, FiniteSets

CONSTANTS
    PublicIds,      \* scans that may be started, numbered as they are started
    MaxEntries,     \* MAX_ENTRIES
    Retention,      \* HISTORY_RETENTION_MS, in ticks of the clock
    StaleAfter,     \* ACTIVE_SCAN_STALE_MS
    Outcomes,       \* ends the server gives its scans
    Rounds,         \* rounds of requests of the list page that may be under way
    MaxClock, MaxLost, MaxVisits

Active == {"pending", "running"}
Ends   == {"completed", "failed", "cancelled"}
PublicStatus == Active \cup Ends

ASSUME PublicConstants ==
    /\ PublicIds \subseteq Nat /\ NoRequest \notin PublicIds
    /\ {StaleAfter, MaxEntries} \subseteq Nat /\ Outcomes \subseteq Ends

VARIABLES
    publicScan,     \* server: identifier -> status, or "none"
    storage,        \* the history in localStorage
    clock,
    listOpen,       \* the list page is mounted
    listed,         \* its copy of the history
    round,          \* Rounds -> a round of requests, or NoRequest
    resultOf,       \* the scan whose page is open, in another tab or in the place of the
                    \* list, or NoRequest
    resultDoes,     \* "idle" between polls, "asked" during one, or "over"
    cleared,        \* identifiers recorded before the history was last cleared
    lostRounds, visits

publicListVars == <<listOpen, listed>>
resultVars     == <<resultOf, resultDoes>>
publicBudget   == <<lostRounds, visits>>
publicVars     == <<route, publicScan, storage, clock, publicListVars, round, resultVars, cleared,
                    publicBudget>>

PublicInit ==
    /\ publicScan = [i \in PublicIds |-> "none"]
    /\ storage = {} /\ clock = 0
    /\ listOpen = TRUE /\ listed = {}
    /\ round = [n \in Rounds |-> NoRequest]
    /\ resultOf = NoRequest /\ resultDoes = "over"
    /\ cleared = {}
    /\ lostRounds = 0 /\ visits = 0

-----------------------------------------------------------------------------
(* lib/publicScanHistory.ts *)

(* sanitizePublicHistory: the newest that are young enough. *)
Sanitize(records) ==
    LET young == {r \in records : clock - r.at <= Retention}
    IN  {r \in young : Cardinality({q \in young : q.at > r.at}) < MaxEntries}

(* Reading writes the sanitized history back, so it is read sanitized. *)
History == Sanitize(storage)

(* Mutant: a record that is not there is put back. *)
UpdatedPuttingBack(i, status) ==
    Sanitize({r \in History : r.id # i} \cup {[id |-> i, status |-> status, at |-> 0]})

(* updatePublicHistoryEntry *)
Updated(i, status) ==
    Sanitize({IF r.id = i THEN [r EXCEPT !.status = status] ELSE r : r \in History})

(* addToPublicHistory *)
Added(record) == Sanitize({r \in History : r.id # record.id} \cup {record})

(* markStalePublicHistoryEntries *)
StaleFailed(records) ==
    {IF r.status \in Active /\ clock - r.at >= StaleAfter THEN [r EXCEPT !.status = "failed"] ELSE r :
       r \in Sanitize(records)}

ActiveIds(records) == {r.id : r \in {q \in records : q.status \in Active}}

-----------------------------------------------------------------------------
(* The server and time *)

Advance(i, status) ==
    /\ publicScan[i] \in Active /\ publicScan[i] # status
    /\ publicScan' = [publicScan EXCEPT ![i] = status]
    /\ UNCHANGED <<storage, clock, publicListVars, round, resultVars, cleared, publicBudget>>

TimePasses ==
    /\ clock < MaxClock
    /\ clock' = clock + 1
    /\ UNCHANGED <<publicScan, storage, publicListVars, round, resultVars, cleared,
                   publicBudget>>

-----------------------------------------------------------------------------
(* The list page *)

(* The records a round asks for are those of its snapshot; "first" is the  *)
(* refresh after mounting, the others are those of the interval.           *)
StartRound(n, first, records) ==
    round' = [round EXCEPT ![n] =
                [first |-> first, mounted |-> TRUE, dirty |-> FALSE,
                 was |-> [i \in ActiveIds(records) |-> (CHOOSE r \in records : r.id = i).status],
                 answer |-> [i \in ActiveIds(records) |-> "asked"]]]

(* Mounting marks the stale records, then refreshes those still active. *)
OpenList(n) ==
    /\ ~ listOpen /\ visits < MaxVisits /\ round[n] = NoRequest
    /\ listOpen' = TRUE /\ visits' = visits + 1
    /\ storage' = StaleFailed(storage) /\ listed' = storage'
    /\ IF ActiveIds(storage') = {} THEN UNCHANGED round ELSE StartRound(n, TRUE, storage')
    /\ UNCHANGED <<publicScan, clock, resultVars, cleared, lostRounds>>

Unmounted ==
    [n \in Rounds |-> IF round[n] = NoRequest THEN NoRequest ELSE [round[n] EXCEPT !.mounted = FALSE]]

LeaveList ==
    /\ listOpen
    /\ listOpen' = FALSE /\ listed' = {}
    /\ round' = Unmounted
    /\ UNCHANGED <<publicScan, storage, clock, resultVars, cleared, publicBudget>>

(* setInterval, restarted with every copy of the history. *)
RoundTick(n) ==
    /\ listOpen /\ ActiveIds(listed) # {} /\ round[n] = NoRequest
    /\ StartRound(n, FALSE, listed)
    /\ UNCHANGED <<publicScan, storage, clock, publicListVars, resultVars, cleared,
                   publicBudget>>

(* The server reads the scan; the answer may take its time. *)
RoundAnswered(n, i) ==
    /\ round[n] # NoRequest /\ i \in DOMAIN round[n].answer /\ round[n].answer[i] = "asked"
    /\ round' = [round EXCEPT ![n].answer[i] = publicScan[i]]
    /\ UNCHANGED <<publicScan, storage, clock, publicListVars, resultVars, cleared,
                   publicBudget>>

(* Promise.all is over with its last answer. *)
LastOf(n, i) == \A j \in DOMAIN round[n].answer \ {i} : round[n].answer[j] = "done"

RoundGoesOn(n, i, dirty) ==
    round' = [round EXCEPT ![n] = IF LastOf(n, i) THEN NoRequest
                                  ELSE [@ EXCEPT !.answer[i] = "done", !.dirty = dirty]]

(* Mutant: the interval updates the history and not the copy. *)
HandledUnseen(n, i, history, dirty) ==
    LET shows == LastOf(n, i) /\ round[n].mounted
    IN  /\ storage' = IF shows /\ round[n].first THEN StaleFailed(history) ELSE history
        /\ listed' = IF shows /\ round[n].first THEN Sanitize(storage') ELSE listed
        /\ RoundGoesOn(n, i, dirty)
        /\ UNCHANGED <<publicScan, clock, listOpen, resultVars, cleared, visits>>

(* An answer has been handled.  After the round its page, if it is still   *)
(* mounted, copies the history: the first refresh marks stale records      *)
(* again, the others look when one of their answers differed.              *)
Handled(n, i, history, dirty) ==
    LET shows == LastOf(n, i) /\ round[n].mounted
    IN  /\ storage' = IF shows /\ round[n].first THEN StaleFailed(history) ELSE history
        /\ listed' = IF shows /\ (round[n].first \/ dirty) THEN Sanitize(storage') ELSE listed
        /\ RoundGoesOn(n, i, dirty)
        /\ UNCHANGED <<publicScan, clock, listOpen, resultVars, cleared, visits>>

RoundArrives(n, i) ==
    /\ round[n] # NoRequest /\ i \in DOMAIN round[n].answer
    /\ LET status == round[n].answer[i]
           applies == round[n].first \/ status # round[n].was[i]
       IN  /\ status \in PublicStatus
           /\ Handled(n, i, IF applies THEN Updated(i, status) ELSE storage,
                      round[n].dirty \/ applies)
    /\ UNCHANGED lostRounds

(* An error is ignored. *)
RoundLost(n, i) ==
    /\ lostRounds < MaxLost /\ lostRounds' = lostRounds + 1
    /\ round[n] # NoRequest /\ i \in DOMAIN round[n].answer /\ round[n].answer[i] # "done"
    /\ Handled(n, i, storage, round[n].dirty)

Unstarted(i) ==
    publicScan[i] = "none" /\ \A j \in PublicIds : j < i => publicScan[j] # "none"

(* handleScan: the scan is created, recorded, and its page opened. *)
HandleScan(i) ==
    /\ listOpen /\ Unstarted(i) /\ clock < MaxClock
    /\ publicScan' = [publicScan EXCEPT ![i] = "pending"]
    /\ clock' = clock + 1
    /\ storage' = Added([id |-> i, status |-> "pending", at |-> clock'])
    /\ listOpen' = FALSE /\ listed' = {}
    /\ round' = Unmounted
    /\ resultOf' = i /\ resultDoes' = "idle"
    /\ UNCHANGED <<cleared, publicBudget>>

HandleClearHistory ==
    /\ listOpen /\ listed # {}
    /\ storage' = {} /\ listed' = {}
    /\ cleared' = cleared \cup {r.id : r \in storage \cup listed}
    /\ UNCHANGED <<publicScan, clock, listOpen, round, resultVars, publicBudget>>

-----------------------------------------------------------------------------
(* The page of a scan *)

ResultIs(i, does) ==
    /\ resultOf' = i /\ resultDoes' = does
    /\ UNCHANGED <<publicScan, clock, publicListVars, round, cleared>>

OpenResult(i) ==
    /\ publicScan[i] # "none" /\ resultOf # i
    /\ visits < MaxVisits /\ visits' = visits + 1
    /\ ResultIs(i, "idle")
    /\ UNCHANGED <<storage, lostRounds>>

(* Leaving aborts the request. *)
LeaveResult ==
    /\ resultOf # NoRequest
    /\ ResultIs(NoRequest, "over")
    /\ UNCHANGED <<storage, publicBudget>>

(* poll: one request at a time. *)
ResultPoll ==
    /\ resultDoes = "idle"
    /\ ResultIs(resultOf, "asked")
    /\ UNCHANGED <<storage, publicBudget>>

(* An older answer than this one only means another poll: the ends of a    *)
(* scan are final.  A scan that was cancelled is asked for again.          *)
ResultArrives ==
    /\ resultDoes = "asked"
    /\ IF publicScan[resultOf] \in {"completed", "failed"}
       THEN storage' = Updated(resultOf, publicScan[resultOf]) /\ ResultIs(resultOf, "over")
       ELSE UNCHANGED storage /\ ResultIs(resultOf, "idle")
    /\ UNCHANGED publicBudget

(* The first error ends the polling. *)
ResultFails ==
    /\ resultDoes = "asked"
    /\ lostRounds < MaxLost /\ lostRounds' = lostRounds + 1
    /\ ResultIs(resultOf, "over")
    /\ UNCHANGED <<storage, visits>>

(* handleRescan: a new scan that no history records. *)
HandleRescan(i) ==
    /\ resultOf # NoRequest /\ publicScan[resultOf] \in Ends
    /\ Unstarted(i)
    /\ publicScan' = [publicScan EXCEPT ![i] = "pending"]
    /\ resultOf' = i /\ resultDoes' = "idle"
    /\ UNCHANGED <<storage, clock, publicListVars, round, cleared, publicBudget>>

-----------------------------------------------------------------------------
RoundStep ==
    \E n \in Rounds : RoundTick(n) \/ \E i \in PublicIds : RoundAnswered(n, i) \/ RoundArrives(n, i)

ResultStep == ResultPoll \/ ResultArrives

PublicNext ==
    /\ On("public")
    /\ \/ \E i \in PublicIds : \E status \in {"running"} \cup Outcomes : Advance(i, status)
       \/ TimePasses
       \/ \E n \in Rounds : OpenList(n) \/ \E i \in PublicIds : RoundLost(n, i)
       \/ LeaveList \/ RoundStep \/ HandleClearHistory
       \/ ResultStep
       \/ \E i \in PublicIds : HandleScan(i) \/ OpenResult(i) \/ HandleRescan(i)
       \/ LeaveResult \/ ResultFails

PublicSpec == route = "public" /\ PublicInit /\ [][PublicNext]_publicVars

(* The interval ticks, and the server answers: some round goes on. *)
PublicFairness == WF_publicVars(On("public") /\ RoundStep)

-----------------------------------------------------------------------------
(* Properties *)

(* Every record has a scan of its own, there are no more than the limit,   *)
(* and a scan is recorded at the time it was started.                      *)
PublicTypeOK ==
    /\ publicScan \in [PublicIds -> PublicStatus \cup {"none"}]
    /\ \A records \in {storage, listed} :
         /\ records \subseteq [id : {i \in PublicIds : publicScan[i] # "none"},
                               status : PublicStatus, at : 0 .. clock]
         /\ Cardinality({r.id : r \in records}) = Cardinality(records)
         /\ Cardinality(records) <= MaxEntries
    /\ resultOf \in PublicIds \cup {NoRequest}
    /\ resultDoes \in {"idle", "asked", "over"}
    /\ resultOf = NoRequest => resultDoes = "over"

(* A cleared history stays cleared: no answer to a request that was under  *)
(* way, of this page, an earlier one or another tab, brings a record back. *)
ClearedIsGone == \A r \in storage \cup listed : r.id \notin cleared

(* A record never reports an end the scan does not have, but for an active *)
(* record that has become stale.                                           *)
EndIsReal ==
    \A r \in storage \cup listed :
      r.status \in Ends => publicScan[r.id] = r.status \/ (r.status = "failed" /\ clock - r.at >= StaleAfter)

(* The history says what is so: nothing that was cleared and no end that   *)
(* is none, whatever requests, pages and tabs are still under way.         *)
HistoryIsHonest == ClearedIsGone /\ EndIsReal

(* The list page stops showing an ended scan as active, although an older  *)
(* answer may be written over a newer one, as long as it stays open.       *)
EndIsListed ==
    \A i \in PublicIds :
      listOpen /\ publicScan[i] \in Ends ~> (i \notin ActiveIds(listed))
=============================================================================
