-------------------------- MODULE WatchlistScheduler --------------------------
(***************************************************************************)
(* The scheduled scans of one watchlist item (scheduler/scheduler.go and   *)
(* the requests that change the item).                                     *)
(*                                                                         *)
(* Every process has a cron runner of its own, filled once at its start.   *)
(* A request changes the row first and then the cron entry of the process  *)
(* that serves it, in three steps of which only the first and the last     *)
(* hold the mutex; nobody tells the other processes.  What makes that safe *)
(* is the firing: under an advisory lock it reads the row again.           *)
(***************************************************************************)
EXTENDS Naturals, FiniteSets

CONSTANTS
    Schedules,
    CronProcesses, WatchRequests, Firings,
    NoEntry, NoFiring,
    MaxCronRestarts

ItemChanges == {"create", "delete", "enable", "disable", "transfer"}

ASSUME WatchConstants ==
    /\ CronProcesses \cap WatchRequests = {} /\ Schedules \cap ItemChanges = {}
    /\ NoFiring \notin Firings /\ NoEntry \notin Nat /\ MaxCronRestarts \in Nat

(* The loader of a process schedules items as requests do. *)
ScheduleTasks == CronProcesses \cup WatchRequests

Changes == ItemChanges \cup Schedules

VARIABLES
    watchRow,       \* "none", "present" or "deleted"
    watchItem,      \* enabled and schedule of the row
    recent,         \* last_scanned_at is less than 45 seconds ago
    entryOf,        \* scheduledEntries[item] of a process
    cronEntries,    \* entries of its cron runner: id and copy of the item
    lastEntryId,
    task,           \* step, process, copy of the item, entry it has added
    firing,         \* step, process, and whether the item was off all the time
    watchLock,      \* the firing that holds pg_advisory_lock
    watchScans,     \* scans created since the window began
    unwantedScans,  \* by firings that began after the item was off, and saw it off to the end
    overlapping,    \* processes where two tasks met since they started
    cronRestarts

cronVars  == <<entryOf, cronEntries, lastEntryId>>
rowVars   == <<watchRow, watchItem, recent>>
watchSeen == <<watchScans, unwantedScans, cronRestarts>>
watchVars == <<rowVars, cronVars, task, overlapping, firing, watchLock, watchSeen>>

NoTask == [step |-> "idle"]
NotFiring == [step |-> "idle"]

WatchInit ==
    /\ watchRow \in {"none", "present"}
    /\ watchItem \in [enabled : BOOLEAN, schedule : Schedules] /\ recent = FALSE
    /\ entryOf = [p \in CronProcesses |-> NoEntry]
    /\ cronEntries = [p \in CronProcesses |-> {}]
    /\ lastEntryId = [p \in CronProcesses |-> 0]
    /\ task = [t \in ScheduleTasks |->
                 IF t \in CronProcesses THEN [step |-> "load", process |-> t] ELSE NoTask]
    /\ overlapping = {}
    /\ firing = [f \in Firings |-> NotFiring] /\ watchLock = NoFiring
    /\ watchScans = 0 /\ unwantedScans = 0 /\ cronRestarts = 0

ItemIsOn == watchRow = "present" /\ watchItem.enabled

TasksOf(p) == {t \in ScheduleTasks : task[t].step \notin {"idle", "done"} /\ task[t].process = p}

-----------------------------------------------------------------------------
(* Loading, and the requests up to their call of the scheduler *)

(* loadAndSchedule *)
LoadItems(p) ==
    /\ task[p].step = "load"
    /\ task' = [task EXCEPT ![p] = IF ItemIsOn
                                   THEN [step |-> "remove", process |-> p, copy |-> watchItem]
                                   ELSE [step |-> "done"]]
    /\ UNCHANGED <<rowVars, cronVars, overlapping, firing, watchLock, watchSeen>>

Changed(item, change) ==
    CASE change = "enable"     -> [item EXCEPT !.enabled = TRUE]
      [] change = "disable"    -> [item EXCEPT !.enabled = FALSE]
      [] change \in Schedules  -> [item EXCEPT !.schedule = change]
      [] OTHER                 -> item

(* Every handler reads the row; it answers 404 when there is none. *)
ReadWatchlistItem(r, p, change, bulk) ==
    /\ task[r].step = "idle"
    /\ watchRow = IF change = "create" THEN "none" ELSE "present"
    /\ task' = [task EXCEPT ![r] = [step |-> "write", process |-> p, change |-> change,
                                    bulk |-> bulk, copy |-> Changed(watchItem, change)]]
    /\ overlapping' = IF TasksOf(p) # {} THEN overlapping \cup {p} ELSE overlapping
    /\ UNCHANGED <<rowVars, cronVars, firing, watchLock, watchSeen>>

(* UpdateWatchlistItem writes every column it has read, a bulk action only *)
(* the one it is about, and a transfer none of them.  No rows is no error. *)
WriteWatchlistItem(r) ==
    /\ task[r].step = "write"
    /\ LET t == task[r]
           now == IF watchRow # "present" \/ t.change = "transfer" THEN watchItem
                  ELSE IF t.bulk THEN Changed(watchItem, t.change) ELSE t.copy
       IN  /\ watchRow' = CASE t.change = "create" -> "present"
                            [] t.change = "delete" -> "deleted"
                            [] OTHER               -> watchRow
           /\ watchItem' = now
           /\ firing' = [f \in Firings |->
                           IF watchRow' = "present" /\ now.enabled /\ firing[f].step # "idle"
                           THEN [firing[f] EXCEPT !.off = FALSE] ELSE firing[f]]
           /\ task' = [task EXCEPT ![r] =
                         [step |-> IF t.change = "delete" \/ ~ t.copy.enabled
                                   THEN "unschedule" ELSE "remove",
                          process |-> t.process, copy |-> t.copy]]
    /\ UNCHANGED <<recent, cronVars, overlapping, watchLock, watchSeen>>

-----------------------------------------------------------------------------
(* scheduleItem and UnscheduleWatchlistItem in a process *)

Entry(p, id) == {e \in cronEntries[p] : e.id = id}

UnscheduleWatchlistItem(t) ==
    /\ task[t].step = "unschedule"
    /\ LET p == task[t].process
       IN  /\ cronEntries' = [cronEntries EXCEPT ![p] = @ \ Entry(p, entryOf[p])]
           /\ entryOf' = [entryOf EXCEPT ![p] = NoEntry]
    /\ task' = [task EXCEPT ![t] = [step |-> "done"]]
    /\ UNCHANGED <<rowVars, lastEntryId, overlapping, firing, watchLock, watchSeen>>

(* Mutant: nothing is removed. *)
KeepEntry(t) ==
    /\ task[t].step = "remove"
    /\ task' = [task EXCEPT ![t].step = "add"]
    /\ UNCHANGED <<rowVars, cronVars, overlapping, firing, watchLock, watchSeen>>

(* The old entry leaves the cron runner, and stays in the map. *)
RemoveEntry(t) ==
    /\ task[t].step = "remove"
    /\ LET p == task[t].process
       IN  cronEntries' = [cronEntries EXCEPT ![p] = @ \ Entry(p, entryOf[p])]
    /\ task' = [task EXCEPT ![t].step = "add"]
    /\ UNCHANGED <<rowVars, entryOf, lastEntryId, overlapping, firing, watchLock, watchSeen>>

AddEntry(t) ==
    /\ task[t].step = "add"
    /\ LET p == task[t].process
           id == lastEntryId[p] + 1
       IN  /\ cronEntries' = [cronEntries EXCEPT ![p] = @ \cup {[id |-> id, copy |-> task[t].copy]}]
           /\ lastEntryId' = [lastEntryId EXCEPT ![p] = id]
           /\ task' = [task EXCEPT ![t] = [step |-> "store", process |-> p, id |-> id]]
    /\ UNCHANGED <<rowVars, entryOf, overlapping, firing, watchLock, watchSeen>>

StoreEntry(t) ==
    /\ task[t].step = "store"
    /\ entryOf' = [entryOf EXCEPT ![task[t].process] = task[t].id]
    /\ task' = [task EXCEPT ![t] = [step |-> "done"]]
    /\ UNCHANGED <<rowVars, cronEntries, lastEntryId, overlapping, firing, watchLock, watchSeen>>

-----------------------------------------------------------------------------
(* The function a cron entry calls *)

Fire(f, p) ==
    /\ firing[f].step = "idle" /\ cronEntries[p] # {}
    /\ firing' = [firing EXCEPT ![f] = [step |-> "lock", process |-> p, off |-> ~ ItemIsOn]]
    /\ UNCHANGED <<rowVars, cronVars, task, overlapping, watchLock, watchSeen>>

(* pg_try_advisory_lock: a firing that does not get it is skipped. *)
TryLock(f) ==
    /\ firing[f].step = "lock"
    /\ IF watchLock = NoFiring
       THEN watchLock' = f /\ firing' = [firing EXCEPT ![f].step = "check"]
       ELSE firing' = [firing EXCEPT ![f] = NotFiring] /\ UNCHANGED watchLock
    /\ UNCHANGED <<rowVars, cronVars, task, overlapping, watchSeen>>

(* The row as it is now, not the copy of the entry. *)
CheckItem(f) ==
    /\ firing[f].step = "check"
    /\ IF ItemIsOn /\ ~ recent
       THEN firing' = [firing EXCEPT ![f].step = "insert"] /\ UNCHANGED watchLock
       ELSE firing' = [firing EXCEPT ![f] = NotFiring] /\ watchLock' = NoFiring
    /\ UNCHANGED <<rowVars, cronVars, task, overlapping, watchSeen>>

(* One transaction: the scan, and last_scanned_at.  The item may have been *)
(* disabled or deleted since it was read.                                  *)
CreateScheduledScan(f) ==
    /\ firing[f].step = "insert"
    /\ recent' = TRUE
    /\ watchScans' = watchScans + 1
    /\ unwantedScans' = unwantedScans + IF firing[f].off THEN 1 ELSE 0
    /\ firing' = [firing EXCEPT ![f].step = "unlock"]
    /\ UNCHANGED <<watchRow, watchItem, cronVars, task, overlapping, watchLock, cronRestarts>>

(* Then DispatchScan: ScanLifecycle. *)
ReleaseLock(f) ==
    /\ firing[f].step = "unlock"
    /\ watchLock' = NoFiring /\ firing' = [firing EXCEPT ![f] = NotFiring]
    /\ UNCHANGED <<rowVars, cronVars, task, overlapping, watchSeen>>

(* An error rolls the transaction back and gives the lock up. *)
FiringFails(f) ==
    /\ firing[f].step \in {"check", "insert"}
    /\ watchLock' = NoFiring /\ firing' = [firing EXCEPT ![f] = NotFiring]
    /\ UNCHANGED <<rowVars, cronVars, task, overlapping, watchSeen>>

(* TriggerScan: a user's scan takes no lock, and moves last_scanned_at.    *)
TriggerScan ==
    /\ watchRow = "present" /\ ~ recent
    /\ recent' = TRUE
    /\ UNCHANGED <<watchRow, watchItem, cronVars, task, overlapping, firing, watchLock, watchSeen>>

WindowPasses ==
    /\ recent
    /\ recent' = FALSE /\ watchScans' = 0
    /\ UNCHANGED <<watchRow, watchItem, cronVars, task, overlapping, firing, watchLock,
                   unwantedScans, cronRestarts>>

(* The connection that held the lock is closed with the process. *)
CronProcessRestarts(p) ==
    /\ cronRestarts < MaxCronRestarts
    /\ cronRestarts' = cronRestarts + 1
    /\ entryOf' = [entryOf EXCEPT ![p] = NoEntry]
    /\ cronEntries' = [cronEntries EXCEPT ![p] = {}]
    /\ lastEntryId' = [lastEntryId EXCEPT ![p] = 0]
    /\ task' = [t \in ScheduleTasks |-> IF t = p THEN [step |-> "load", process |-> p]
                                        ELSE IF t \in TasksOf(p) THEN [step |-> "done"]
                                        ELSE task[t]]
    /\ overlapping' = overlapping \ {p}
    /\ LET gone == {f \in Firings : firing[f].step # "idle" /\ firing[f].process = p}
       IN  /\ firing' = [f \in Firings |-> IF f \in gone THEN NotFiring ELSE firing[f]]
           /\ watchLock' = IF watchLock \in gone THEN NoFiring ELSE watchLock
    /\ UNCHANGED <<rowVars, watchScans, unwantedScans>>

-----------------------------------------------------------------------------
WatchNext ==
    \/ \E p \in CronProcesses :
          \/ LoadItems(p) \/ CronProcessRestarts(p)
          \/ \E f \in Firings : Fire(f, p)
          \/ \E r \in WatchRequests, change \in Changes, bulk \in BOOLEAN :
                ReadWatchlistItem(r, p, change, bulk)
    \/ \E r \in WatchRequests : WriteWatchlistItem(r)
    \/ \E t \in ScheduleTasks :
          UnscheduleWatchlistItem(t) \/ RemoveEntry(t) \/ AddEntry(t) \/ StoreEntry(t)
    \/ \E f \in Firings :
          TryLock(f) \/ CheckItem(f) \/ CreateScheduledScan(f) \/ ReleaseLock(f) \/ FiringFails(f)
    \/ TriggerScan \/ WindowPasses

WatchSpec == WatchInit /\ [][WatchNext]_watchVars

-----------------------------------------------------------------------------
(* Properties *)

BusySteps == {"remove", "add", "store", "unschedule", "write", "load"}

WatchTypeOK ==
    /\ watchRow \in {"none", "present", "deleted"}
    /\ watchItem \in [enabled : BOOLEAN, schedule : Schedules] /\ recent \in BOOLEAN
    /\ \A t \in ScheduleTasks : task[t].step \in BusySteps \cup {"idle", "done"}
    /\ \A p \in CronProcesses :
          /\ entryOf[p] # NoEntry => entryOf[p] <= lastEntryId[p]
          /\ \A d, e \in cronEntries[p] : d.id = e.id => d = e
    /\ watchLock # NoFiring <=> \E f \in Firings : firing[f].step \in {"check", "insert", "unlock"}

(* However many processes and leftover entries fire at once, an item is    *)
(* scanned once in the window, and a firing that begins after a disable or *)
(* a delete was written scans nothing.                                     *)
WatchedOnce ==
    /\ WatchTypeOK
    /\ watchScans <= 1
    /\ unwantedScans = 0

(* A process in which no two schedulings met has one entry, the one it     *)
(* would remove.                                                           *)
OneEntry ==
    \A p \in CronProcesses \ overlapping :
      TasksOf(p) = {} => /\ Cardinality(cronEntries[p]) <= 1
                         /\ \A e \in cronEntries[p] : e.id = entryOf[p]

(* The scheduled scans of an item are those its row asks for.              *)
WatchIsSound == WatchedOnce /\ OneEntry

(* Does not hold: when two schedulings meet in a process, an entry may be  *)
(* left that no request removes; and the entries of the other processes    *)
(* keep the schedule they had.                                             *)
EntriesFollowItem ==
    (\A p \in CronProcesses : TasksOf(p) = {}) =>
      \A p \in CronProcesses : \A e \in cronEntries[p] :
        ItemIsOn /\ e.id = entryOf[p] /\ e.copy.schedule = watchItem.schedule
=============================================================================
