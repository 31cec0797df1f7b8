------------------------ MODULE RepositoryRunsProofs ------------------------
(***************************************************************************)
(* Proofs about RepositoryRuns for any number of runs, images, creations   *)
(* and restarts.                                                           *)
(***************************************************************************)
EXTENDS RepositoryRuns, TLAPS

Early == {"discover", "images", "create", "dispatch", "refused", "scanning"}

WorksOn(n) == atWork # NoRun /\ atWork.run = n

Settled == {"scanning", "completed", "failed", "cancelled"}

(* A run that is not there yet, or that a request discovers, is nobody     *)
(* else's, and has no scans.                                               *)
FreshIsAlone ==
    \A n \in Runs : runStatus[n] = "none" \/ dryRun = n =>
        /\ n \notin runQueue /\ ~ WorksOn(n)
        /\ reconciling = NoRun \/ reconciling.run # n
        /\ DOMAIN children[n] = {}
        /\ runStatus[n] \in {"none", "discovering", "cancelled"}

(* The worker creates scans for a run that is being discovered or was      *)
(* cancelled meanwhile, one image at a time.                               *)
WorkFitsRun ==
    /\ \A n \in Runs : WorksOn(n) =>
         /\ atWork.step \in Early => runStatus[n] \in {"discovering", "cancelled"}
         /\ runStatus[n] \notin {"none", "queued"}
    /\ At("create") \/ At("dispatch") \/ At("refused") => \E i \in Images : atWork.image = {i}

(* A run for which the loop has found an end gets no scan any more.        *)
FoundIsFinal ==
    reconciling # NoRun =>
        /\ runStatus[reconciling.run] \in Settled
        /\ WorksOn(reconciling.run) => atWork.step = "reconcile"
        /\ \A c \in DOMAIN children[reconciling.run] :
              children[reconciling.run][c] # "pending"

CancelledIsSettled == \A n \in cancelled \cup cancellingRuns : runStatus[n] \in Settled

(* What waits in a cancelled run is the scan the worker has just inserted, *)
(* and is about to look at again, or one it failed to look at.             *)
OnlyInsertedWaits ==
    \A n \in cancelled : \A c \in CreatedHere(n) : children[n][c] = "pending" =>
        \/ WorksOn(n) /\ atWork.step = "dispatch" /\ c[1] \in atWork.image
        \/ <<n, c>> \in overlooked

RepositoryData ==
    /\ DOMAIN children = Runs
    /\ restarts \in Nat

RepositoryInv ==
    /\ RepositoryTypeOK /\ RepositoryData
    /\ FreshIsAlone /\ WorkFitsRun /\ FoundIsFinal /\ CancelledIsSettled
    /\ CompletedIsDone /\ OnlyInsertedWaits

(* Setting the scan c of a run changes nothing else.                       *)
LEMMA SetChildSets ==
  ASSUME RepositoryData, NEW n \in Runs, NEW c, NEW status, SetChild(n, c, status)
  PROVE  /\ DOMAIN children' = Runs
         /\ \A m \in Runs \ {n} : children'[m] = children[m]
         /\ DOMAIN children'[n] = DOMAIN children[n] \cup {c}
         /\ children'[n][c] = status
         /\ \A d \in DOMAIN children[n] \ {c} : children'[n][d] = children[n][d]
<1> DEFINE new == [d \in DOMAIN children[n] \cup {c} |-> IF d = c THEN status ELSE children[n][d]]
<1>1. children' = [children EXCEPT ![n] = new]
  BY DEF SetChild
<1>2. /\ DOMAIN new = DOMAIN children[n] \cup {c} /\ new[c] = status
      /\ \A d \in DOMAIN children[n] \ {c} : new[d] = children[n][d]
  OBVIOUS
<1> HIDE DEF new
<1>3. /\ DOMAIN children' = Runs /\ children'[n] = new
      /\ \A m \in Runs \ {n} : children'[m] = children[m]
  BY <1>1 DEF RepositoryData
<1> QED
  BY <1>2, <1>3

LEMMA SetRunSets ==
  ASSUME RepositoryTypeOK, NEW n \in Runs, NEW status \in Unfinished \cup RunEnd \cup {"none"},
         SetRun(n, status)
  PROVE  /\ runStatus' \in [Runs -> Unfinished \cup RunEnd \cup {"none"}]
         /\ runStatus'[n] = status
         /\ \A m \in Runs \ {n} : runStatus'[m] = runStatus[m]
BY DEF SetRun, RepositoryTypeOK

(* The worker's record after a step.                                       *)
LEMMA GoesOn ==
  ASSUME RepositoryTypeOK, atWork # NoRun,
         NEW step \in {"discover", "images", "create", "dispatch", "refused", "scanning", "reconcile"},
         NEW image \in SUBSET Images, NEW left \in SUBSET Images,
         atWork' = Working(atWork.run, step, image, left)
  PROVE  /\ atWork' \in Works /\ atWork' # NoRun
         /\ atWork'.run = atWork.run /\ atWork'.step = step
         /\ atWork'.image = image /\ atWork'.left = left
<1>1. atWork.run \in Runs
  BY DEF RepositoryTypeOK, Works
<1>2. Working(atWork.run, step, image, left) \in Works
  BY <1>1 DEF Working, Works
<1>3. atWork' \in Works /\ atWork' # NoRun
  BY <1>2, RepositoryConstants
<1> QED
  BY <1>3 DEF Working

(* Statements that fail are counted, and what they overlook is a scan of   *)
(* this process.                                                           *)
LEMMA FaultsCounted ==
  ASSUME RepositoryTypeOK, RepositoryData, UNCHANGED restarts,
         StatementFails \/ UNCHANGED dbFaults,
         \/ UNCHANGED overlooked
         \/ \E n \in Runs : \E i \in Images : Overlook(n, <<i, restarts>>)
  PROVE  /\ dbFaults' \in 0..MaxDbFaults
         /\ overlooked' \subseteq Runs \X (Images \X (0..restarts'))
         /\ overlooked \subseteq overlooked'
BY RepositoryConstants DEF RepositoryTypeOK, RepositoryData, StatementFails, Overlook

LEMMA RepositoryInitInv == RepositoryInit => RepositoryInv
<1> SUFFICES ASSUME RepositoryInit PROVE RepositoryInv
  OBVIOUS
<1> USE DEF RepositoryInit
<1>0. DOMAIN <<>> = {}
  OBVIOUS
<1>1. \A n \in Runs : DOMAIN children[n] = {} /\ runStatus[n] = "none"
  BY <1>0
<1>2. RepositoryTypeOK
  BY <1>1, RepositoryConstants DEF RepositoryTypeOK, Unfinished, RunEnd, At
<1>3. RepositoryData
  BY DEF RepositoryData
<1>4. FreshIsAlone
  BY <1>1 DEF FreshIsAlone, WorksOn
<1>5. WorkFitsRun /\ FoundIsFinal /\ CancelledIsSettled /\ OnlyInsertedWaits
  BY DEF WorkFitsRun, FoundIsFinal, CancelledIsSettled, OnlyInsertedWaits, WorksOn, At
<1>6. CompletedIsDone
  BY <1>1 DEF CompletedIsDone
<1> QED
  BY <1>2, <1>3, <1>4, <1>5, <1>6 DEF RepositoryInv

-----------------------------------------------------------------------------
(* Requests *)

LEMMA CheckActiveKeeps ==
  ASSUME RepositoryInv, CheckActive \/ UNCHANGED repositoryRunVars
  PROVE  RepositoryInv'
<1>1. UNCHANGED <<runStatus, children, runQueue, atWork, dryRun, cancellingRuns, cancelled,
                  reconciling, restarts, overlooked>>
  BY DEF CheckActive, repositoryRunVars, runRequestVars, faultVars
<1>f. /\ dbFaults' \in 0..MaxDbFaults
      /\ overlooked' \subseteq Runs \X (Images \X (0..restarts'))
      /\ overlooked \subseteq overlooked'
  BY FaultsCounted DEF RepositoryInv, CheckActive, repositoryRunVars, runRequestVars, faultVars
<1>2. RepositoryTypeOK' /\ RepositoryData'
  BY <1>1, <1>f DEF RepositoryInv, RepositoryTypeOK, RepositoryData, At
<1>3. FreshIsAlone' /\ WorkFitsRun' /\ FoundIsFinal' /\ CancelledIsSettled'
  BY <1>1 DEF RepositoryInv, FreshIsAlone, WorkFitsRun, FoundIsFinal, CancelledIsSettled, WorksOn, At
<1>4. CompletedIsDone' /\ OnlyInsertedWaits'
  BY <1>1 DEF RepositoryInv, CompletedIsDone, OnlyInsertedWaits, WorksOn, CreatedHere
<1> QED
  BY <1>2, <1>3, <1>4 DEF RepositoryInv

LEMMA CreateRunKeeps ==
  ASSUME RepositoryInv, NEW n \in Runs, CreateRun(n) \/ CreateDiscovery(n)
  PROVE  RepositoryInv'
<1> PICK status \in {"queued", "discovering"} :
       SetRun(n, status) /\ (status = "discovering" \/ CreateRun(n))
  BY DEF CreateRun, CreateDiscovery
<1>1. /\ runStatus' \in [Runs -> Unfinished \cup RunEnd \cup {"none"}]
      /\ runStatus'[n] = status /\ runStatus[n] = "none"
      /\ \A m \in Runs \ {n} : runStatus'[m] = runStatus[m]
  BY SetRunSets DEF RepositoryInv, CreateRun, CreateDiscovery, NextRun, Unfinished
<1>2. /\ UNCHANGED <<children, atWork, cancellingRuns, cancelled, reconciling, restarts,
                     faultVars>>
      /\ \/ runQueue' = runQueue \cup {n} /\ dryRun' = dryRun
         \/ runQueue' = runQueue /\ dryRun' = n /\ n \in DryRuns /\ status = "discovering"
  BY RepositoryConstants DEF CreateRun, CreateDiscovery
<1>f. /\ dbFaults' \in 0..MaxDbFaults
      /\ overlooked' \subseteq Runs \X (Images \X (0..restarts'))
      /\ overlooked \subseteq overlooked'
  BY FaultsCounted DEF RepositoryInv, CreateRun, CreateDiscovery, faultVars
<1>3. /\ n \notin runQueue /\ ~ WorksOn(n) /\ dryRun # n
      /\ reconciling = NoRun \/ reconciling.run # n
      /\ DOMAIN children[n] = {} /\ n \notin cancelled \cup cancellingRuns
  <2>1. dryRun # n
    BY <1>1, RepositoryConstants DEF CreateRun, CreateDiscovery, RepositoryInv, RepositoryTypeOK
  <2> QED
    BY <1>1, <2>1 DEF RepositoryInv, FreshIsAlone, CancelledIsSettled, Settled
<1>4. RepositoryTypeOK'
  BY <1>1, <1>2, <1>3, <1>f DEF RepositoryInv, RepositoryTypeOK, At
<1>5. RepositoryData'
  BY <1>2 DEF RepositoryInv, RepositoryData
<1>6. FreshIsAlone'
  BY <1>1, <1>2, <1>3 DEF RepositoryInv, FreshIsAlone, WorksOn
<1>7. WorkFitsRun' /\ FoundIsFinal' /\ CancelledIsSettled'
  BY <1>1, <1>2, <1>3 DEF RepositoryInv, WorkFitsRun, FoundIsFinal, CancelledIsSettled, WorksOn, At,
                              RepositoryTypeOK, Reconciliations
<1>8. CompletedIsDone' /\ OnlyInsertedWaits'
  BY <1>1, <1>2, <1>f DEF RepositoryInv, CompletedIsDone, OnlyInsertedWaits, WorksOn, CreatedHere
<1> QED
  BY <1>4, <1>5, <1>6, <1>7, <1>8 DEF RepositoryInv

(* A dry run ends; it has no scans.                                        *)
LEMMA DiscoveryEndsKeeps ==
  ASSUME RepositoryInv, DiscoveryEnds
  PROVE  RepositoryInv'
<1>u. CASE UNCHANGED runStatus
  <2>1. /\ dryRun' = NoRun /\ UNCHANGED <<runStatus, children, runQueue, atWork, cancellingRuns,
                                          cancelled, reconciling, restarts, overlooked>>
    BY <1>u DEF DiscoveryEnds
  <2>2. NoRun \notin Runs
    BY RepositoryConstants
  <2>3. dbFaults' \in 0..MaxDbFaults
    BY FaultsCounted DEF RepositoryInv, DiscoveryEnds, FailRun
  <2>4. RepositoryTypeOK' /\ RepositoryData'
    BY <2>1, <2>3 DEF RepositoryInv, RepositoryTypeOK, RepositoryData, At
  <2>5. FreshIsAlone' /\ WorkFitsRun' /\ FoundIsFinal' /\ CancelledIsSettled'
    BY <2>1, <2>2
    DEF RepositoryInv, FreshIsAlone, WorkFitsRun, FoundIsFinal, CancelledIsSettled, WorksOn, At
  <2>6. CompletedIsDone' /\ OnlyInsertedWaits'
    BY <2>1 DEF RepositoryInv, CompletedIsDone, OnlyInsertedWaits, WorksOn, CreatedHere
  <2> QED
    BY <2>4, <2>5, <2>6 DEF RepositoryInv
<1>w. SUFFICES ASSUME ~ UNCHANGED runStatus PROVE RepositoryInv'
  BY <1>u
<1> DEFINE n == dryRun
<1>1. /\ n \in Runs /\ n # NoRun /\ dryRun' = NoRun
      /\ UNCHANGED <<children, runQueue, atWork, cancellingRuns, cancelled, reconciling, restarts,
                     overlooked>>
  BY RepositoryConstants DEF DiscoveryEnds, RepositoryInv, RepositoryTypeOK
<1> PICK status \in {"completed", "cancelled", "failed"} : SetRun(n, status)
  BY <1>w DEF DiscoveryEnds, FailRun
<1>2. /\ runStatus' \in [Runs -> Unfinished \cup RunEnd \cup {"none"}]
      /\ runStatus'[n] \in {"completed", "cancelled", "failed"}
      /\ \A m \in Runs \ {n} : runStatus'[m] = runStatus[m]
  BY <1>1, SetRunSets DEF RepositoryInv, RunEnd
<1>3. /\ n \notin runQueue /\ ~ WorksOn(n)
      /\ reconciling = NoRun \/ reconciling.run # n
      /\ DOMAIN children[n] = {}
  BY <1>1 DEF RepositoryInv, FreshIsAlone
<1>f. /\ dbFaults' \in 0..MaxDbFaults
      /\ overlooked' \subseteq Runs \X (Images \X (0..restarts'))
      /\ overlooked \subseteq overlooked'
  BY FaultsCounted DEF RepositoryInv, DiscoveryEnds, FailRun
<1> HIDE DEF n
<1>4. RepositoryTypeOK'
  BY <1>1, <1>2, <1>3, <1>f DEF RepositoryInv, RepositoryTypeOK, At
<1>5. RepositoryData'
  BY <1>1 DEF RepositoryInv, RepositoryData
<1>6. FreshIsAlone'
  BY <1>1, <1>2, <1>3, RepositoryConstants DEF RepositoryInv, FreshIsAlone, WorksOn
<1>7. WorkFitsRun' /\ FoundIsFinal' /\ CancelledIsSettled'
  BY <1>1, <1>2, <1>3
  DEF RepositoryInv, WorkFitsRun, FoundIsFinal, CancelledIsSettled, WorksOn, At, RepositoryTypeOK,
      Reconciliations, Settled
<1>8. CompletedIsDone' /\ OnlyInsertedWaits'
  BY <1>1, <1>2, <1>3 DEF RepositoryInv, CompletedIsDone, OnlyInsertedWaits, WorksOn, CreatedHere
<1> QED
  BY <1>4, <1>5, <1>6, <1>7, <1>8 DEF RepositoryInv

LEMMA MarkCancelledKeeps ==
  ASSUME RepositoryInv, NEW n \in Runs, MarkCancelled(n)
  PROVE  RepositoryInv'
<1>1. /\ runStatus[n] \in Unfinished /\ cancellingRuns' = cancellingRuns \cup {n}
      /\ UNCHANGED <<children, runQueue, atWork, dryRun, cancelled, reconciling, restarts,
                     dbFaults, overlooked>>
  BY DEF MarkCancelled, faultVars
<1>2. /\ runStatus' \in [Runs -> Unfinished \cup RunEnd \cup {"none"}]
      /\ runStatus'[n] = "cancelled"
      /\ \A m \in Runs \ {n} : runStatus'[m] = runStatus[m]
  BY SetRunSets DEF MarkCancelled, RepositoryInv, RunEnd
<1>4. RepositoryTypeOK'
  BY <1>1, <1>2 DEF RepositoryInv, RepositoryTypeOK, At
<1>5. RepositoryData'
  BY <1>1 DEF RepositoryInv, RepositoryData
<1>6. FreshIsAlone'
  BY <1>1, <1>2 DEF RepositoryInv, FreshIsAlone, WorksOn
<1>7. WorkFitsRun' /\ FoundIsFinal' /\ CancelledIsSettled'
  BY <1>1, <1>2
  DEF RepositoryInv, WorkFitsRun, FoundIsFinal, CancelledIsSettled, WorksOn, At, RepositoryTypeOK,
      Reconciliations, Settled
<1>8. CompletedIsDone' /\ OnlyInsertedWaits'
  BY <1>1, <1>2 DEF RepositoryInv, CompletedIsDone, OnlyInsertedWaits, WorksOn, CreatedHere
<1> QED
  BY <1>4, <1>5, <1>6, <1>7, <1>8 DEF RepositoryInv

(* The scans there are by now: none of them waits any more.                *)
LEMMA CancelScansKeeps ==
  ASSUME RepositoryInv, NEW n \in Runs, CancelScans(n) \/ CancelFails(n)
  PROVE  RepositoryInv'
<1> DEFINE new == CancelPending(children[n])
<1>1. /\ n \in cancellingRuns /\ cancellingRuns' = cancellingRuns \ {n}
      /\ cancelled' = cancelled \cup {n} \/ cancelled' = cancelled
      /\ UNCHANGED <<runStatus, runQueue, atWork, dryRun, reconciling, restarts, dbFaults,
                     overlooked>>
      /\ DOMAIN children = Runs
  BY DEF CancelScans, CancelFails, faultVars, RepositoryInv, RepositoryData
<1>2. /\ DOMAIN new = DOMAIN children[n]
      /\ \A c \in DOMAIN new : new[c] = IF children[n][c] = "pending" THEN "cancelled"
                                         ELSE children[n][c]
  BY DEF CancelPending
<1>a. \/ children' = [children EXCEPT ![n] = new]
      \/ UNCHANGED <<children, cancelled>>
  BY DEF CancelScans, CancelFails
<1> HIDE DEF new
<1>3. /\ DOMAIN children' = Runs
      /\ children'[n] = new \/ (children'[n] = children[n] /\ cancelled' = cancelled)
      /\ \A m \in Runs \ {n} : children'[m] = children[m]
  BY <1>1, <1>a
<1>4. \A m \in Runs : /\ DOMAIN children'[m] = DOMAIN children[m]
                       /\ \A c \in DOMAIN children'[m] :
                            \/ children'[m][c] = children[m][c] /\ (m # n \/ cancelled' = cancelled)
                            \/ children'[m][c] = children[m][c] /\ children[m][c] # "pending"
                            \/ children'[m][c] = "cancelled"
  BY <1>2, <1>3
<1>5. RepositoryTypeOK'
  BY <1>1, <1>4 DEF RepositoryInv, RepositoryTypeOK, At, ScanStates
<1>6. RepositoryData'
  BY <1>1, <1>3 DEF RepositoryInv, RepositoryData
<1>7. FreshIsAlone'
  BY <1>1, <1>4 DEF RepositoryInv, FreshIsAlone, WorksOn
<1>8. WorkFitsRun' /\ FoundIsFinal' /\ CancelledIsSettled'
  BY <1>1, <1>4
  DEF RepositoryInv, WorkFitsRun, FoundIsFinal, CancelledIsSettled, WorksOn, At, RepositoryTypeOK,
      Reconciliations, Settled
<1>9. CompletedIsDone'
  BY <1>1, <1>4 DEF RepositoryInv, CompletedIsDone
<1>10. OnlyInsertedWaits'
  BY <1>1, <1>4 DEF RepositoryInv, RepositoryTypeOK, OnlyInsertedWaits, WorksOn, CreatedHere
<1> QED
  BY <1>5, <1>6, <1>7, <1>8, <1>9, <1>10 DEF RepositoryInv

-----------------------------------------------------------------------------
(* The worker *)

(* A step that leaves the scans alone and takes the worker to a later step *)
(* of its run, or away from it.                                            *)
LEMMA WorkerMoves ==
  ASSUME RepositoryInv, atWork # NoRun,
         UNCHANGED <<children, runQueue, dryRun, cancellingRuns, cancelled, reconciling, restarts>>,
         \/ atWork' = NoRun
         \/ /\ atWork' \in Works /\ atWork' # NoRun /\ atWork'.run = atWork.run
            /\ atWork.step \in Early
            /\ atWork'.step \in {"create", "dispatch", "refused"} => \E i \in Images : atWork'.image = {i}
            /\ atWork'.step \in {"scanning", "reconcile"} => atWork'.left = {}
            /\ atWork'.step = "reconcile" \/ UNCHANGED runStatus,
         At("dispatch") => \/ runStatus[atWork.run] # "cancelled"
                           \/ \A c \in CreatedHere(atWork.run) :
                                 c[1] \in atWork.image => <<atWork.run, c>> \in overlooked',
         dbFaults' \in 0..MaxDbFaults, overlooked \subseteq overlooked',
         overlooked' \subseteq Runs \X (Images \X (0..restarts')),
         runStatus' \in [Runs -> Unfinished \cup RunEnd \cup {"none"}],
         \A m \in Runs \ {atWork.run} : runStatus'[m] = runStatus[m],
         runStatus'[atWork.run] = runStatus[atWork.run] \/ runStatus'[atWork.run] \in Settled,
         runStatus'[atWork.run] = "completed" =>
            \A c \in DOMAIN children[atWork.run] : children[atWork.run][c] # "pending"
  PROVE  RepositoryInv'
<1> DEFINE n == atWork.run
<1>1. n \in Runs /\ WorksOn(n) /\ runStatus[n] \notin {"none", "queued"} /\ n # dryRun
      /\ runStatus'[n] \notin {"none", "queued"}
  BY DEF RepositoryInv, RepositoryTypeOK, Works, WorksOn, WorkFitsRun, FreshIsAlone, Settled
<1>2. RepositoryTypeOK'
  BY <1>1 DEF RepositoryInv, RepositoryTypeOK, At
<1>3. RepositoryData'
  BY DEF RepositoryInv, RepositoryData
<1>4. FreshIsAlone'
  BY <1>1 DEF RepositoryInv, FreshIsAlone, WorksOn
<1>5. WorkFitsRun'
  BY <1>1 DEF RepositoryInv, WorkFitsRun, WorksOn, At, Early
<1>6. FoundIsFinal'
  BY <1>1 DEF RepositoryInv, FoundIsFinal, WorksOn, RepositoryTypeOK, Reconciliations, Early, Settled
<1>7. CancelledIsSettled'
  BY <1>1 DEF RepositoryInv, CancelledIsSettled, RepositoryTypeOK
<1>8. CompletedIsDone'
  BY <1>1 DEF RepositoryInv, CompletedIsDone
<1>9. OnlyInsertedWaits'
  <2> SUFFICES ASSUME NEW m \in cancelled, NEW c \in CreatedHere(m), children[m][c] = "pending",
                      <<m, c>> \notin overlooked'
               PROVE  WorksOn(m)' /\ atWork'.step = "dispatch" /\ c[1] \in atWork'.image
    BY DEF OnlyInsertedWaits, CreatedHere
  <2>1. m = n /\ At("dispatch") /\ c[1] \in atWork.image
    BY DEF RepositoryInv, OnlyInsertedWaits, WorksOn, At
  <2>2. runStatus[n] = "cancelled"
    BY <1>1, <2>1 DEF RepositoryInv, CancelledIsSettled, WorkFitsRun, Settled, Early, At
  <2> QED
    BY <2>1, <2>2
<1> QED
  BY <1>2, <1>3, <1>4, <1>5, <1>6, <1>7, <1>8, <1>9 DEF RepositoryInv

LEMMA TakeRunKeeps ==
  ASSUME RepositoryInv, NEW n \in Runs, TakeRun(n)
  PROVE  RepositoryInv'
<1>1. /\ atWork = NoRun /\ n \in runQueue /\ runQueue' = runQueue \ {n}
      /\ UNCHANGED <<children, dryRun, cancellingRuns, cancelled, reconciling, restarts,
                     overlooked>>
  BY DEF TakeRun, runRequestVars
<1>f. /\ dbFaults' \in 0..MaxDbFaults
      /\ overlooked' \subseteq Runs \X (Images \X (0..restarts'))
      /\ overlooked \subseteq overlooked'
  BY FaultsCounted DEF RepositoryInv, TakeRun
<1>2. CASE /\ runStatus[n] \in {"queued", "discovering"}
           /\ SetRun(n, "discovering") /\ atWork' = Working(n, "discover", {}, Images)
  <2>1. SetRun(n, "discovering") /\ atWork' = Working(n, "discover", {}, Images)
    BY <1>2
  <2>2. /\ runStatus' \in [Runs -> Unfinished \cup RunEnd \cup {"none"}]
        /\ runStatus'[n] = "discovering"
        /\ \A m \in Runs \ {n} : runStatus'[m] = runStatus[m]
    BY <2>1, SetRunSets DEF RepositoryInv, Unfinished
  <2>3. Working(n, "discover", {}, Images) \in Works
    BY DEF Working, Works
  <2>4. /\ atWork' \in Works /\ atWork' # NoRun
        /\ atWork'.run = n /\ atWork'.step = "discover"
    BY <2>1, <2>3, RepositoryConstants DEF Working
  <2>5. /\ n \notin cancelled \cup cancellingRuns /\ n # dryRun
        /\ reconciling = NoRun \/ reconciling.run # n
    BY <1>1, <1>2 DEF RepositoryInv, CancelledIsSettled, FreshIsAlone, FoundIsFinal, Settled
  <2>6. RepositoryTypeOK'
    BY <1>1, <1>2, <1>f, <2>2, <2>4 DEF RepositoryInv, RepositoryTypeOK, At
  <2>7. RepositoryData'
    BY <1>1 DEF RepositoryInv, RepositoryData
  <2>8. FreshIsAlone'
    BY <1>1, <2>2, <2>4, <2>5 DEF RepositoryInv, FreshIsAlone, WorksOn
  <2>9. WorkFitsRun'
    BY <2>2, <2>4 DEF WorkFitsRun, WorksOn, At
  <2>10. FoundIsFinal'
    BY <1>1, <2>2, <2>4, <2>5
    DEF RepositoryInv, FoundIsFinal, WorksOn, RepositoryTypeOK, Reconciliations
  <2>11. CancelledIsSettled' /\ CompletedIsDone'
    BY <1>1, <2>2, <2>5 DEF RepositoryInv, RepositoryTypeOK, CancelledIsSettled, CompletedIsDone
  <2>12. OnlyInsertedWaits'
    BY <1>1, <1>f DEF RepositoryInv, OnlyInsertedWaits, WorksOn, CreatedHere
  <2> QED
    BY <2>6, <2>7, <2>8, <2>9, <2>10, <2>11, <2>12 DEF RepositoryInv
<1>3. CASE UNCHANGED <<runStatus, atWork>>
  <2>1. UNCHANGED <<runStatus, atWork>>
    BY <1>3
  <2>2. RepositoryTypeOK' /\ RepositoryData'
    BY <1>1, <1>f, <2>1 DEF RepositoryInv, RepositoryTypeOK, RepositoryData, At
  <2>3. FreshIsAlone' /\ WorkFitsRun' /\ FoundIsFinal' /\ CancelledIsSettled'
    BY <1>1, <2>1
    DEF RepositoryInv, FreshIsAlone, WorkFitsRun, FoundIsFinal, CancelledIsSettled, WorksOn, At
  <2>4. CompletedIsDone' /\ OnlyInsertedWaits'
    BY <1>1, <2>1 DEF RepositoryInv, CompletedIsDone, OnlyInsertedWaits, WorksOn, CreatedHere
  <2> QED
    BY <2>2, <2>3, <2>4 DEF RepositoryInv
<1>4. CASE SetRun(n, "failed") /\ UNCHANGED atWork
  <2>1. /\ runStatus' \in [Runs -> Unfinished \cup RunEnd \cup {"none"}]
        /\ runStatus'[n] = "failed"
        /\ \A m \in Runs \ {n} : runStatus'[m] = runStatus[m]
    BY <1>4, SetRunSets DEF RepositoryInv, RunEnd
  <2>2. runStatus[n] # "none" /\ dryRun # n
    BY <1>1 DEF RepositoryInv, FreshIsAlone
  <2>3. RepositoryTypeOK' /\ RepositoryData'
    BY <1>1, <1>4, <1>f, <2>1 DEF RepositoryInv, RepositoryTypeOK, RepositoryData, At
  <2>4. FreshIsAlone' /\ WorkFitsRun' /\ CancelledIsSettled'
    BY <1>1, <1>4, <2>1, <2>2
    DEF RepositoryInv, FreshIsAlone, WorkFitsRun, CancelledIsSettled, WorksOn, At, Settled,
        RepositoryTypeOK
  <2>5. FoundIsFinal' /\ CompletedIsDone' /\ OnlyInsertedWaits'
    BY <1>1, <1>4, <2>1
    DEF RepositoryInv, FoundIsFinal, CompletedIsDone, OnlyInsertedWaits, WorksOn, CreatedHere,
        Settled, RepositoryTypeOK, Reconciliations
  <2> QED
    BY <2>3, <2>4, <2>5 DEF RepositoryInv
<1> QED
  BY <1>2, <1>3, <1>4 DEF TakeRun

LEMMA WorkerKeeps ==
  ASSUME RepositoryInv,
         Discover \/ CheckBeforeScanning \/ \E i \in Images : NextImage(i)
  PROVE  RepositoryInv'
<1>1. /\ atWork # NoRun /\ atWork \in Works /\ atWork.run \in Runs
      /\ UNCHANGED <<children, runQueue, dryRun, cancellingRuns, cancelled, reconciling, restarts,
                     overlooked>>
      /\ ~ At("dispatch")
  BY DEF Discover, CheckBeforeScanning, NextImage, At, runRequestVars, RepositoryInv,
         RepositoryTypeOK, Works
<1>f. /\ dbFaults' \in 0..MaxDbFaults
      /\ overlooked' \subseteq Runs \X (Images \X (0..restarts'))
      /\ overlooked \subseteq overlooked'
  BY FaultsCounted DEF RepositoryInv, Discover, CheckBeforeScanning, NextImage, FailRun,
                       SeenCancelled, SeenActive
<1>2. runStatus \in [Runs -> Unfinished \cup RunEnd \cup {"none"}]
  BY DEF RepositoryInv, RepositoryTypeOK
<1>3. CompletedIsDone
  BY DEF RepositoryInv
<1>4. ASSUME atWork' = NoRun, UNCHANGED runStatus PROVE RepositoryInv'
  BY <1>1, <1>f, <1>2, <1>3, <1>4, WorkerMoves DEF CompletedIsDone
<1>5. ASSUME NEW step \in {"images", "create", "scanning"},
             NEW image \in SUBSET Images, NEW left \in SUBSET Images,
             atWork' = Working(atWork.run, step, image, left),
             step = "create" => \E i \in Images : image = {i},
             step = "scanning" => left = {},
             atWork.step \in Early, UNCHANGED runStatus
      PROVE  RepositoryInv'
  <2>1. /\ atWork' \in Works /\ atWork' # NoRun
        /\ atWork'.run = atWork.run /\ atWork'.step = step
        /\ atWork'.image = image /\ atWork'.left = left
    BY <1>1, <1>5, GoesOn DEF RepositoryInv
  <2> QED
    BY <1>1, <1>f, <1>2, <1>3, <1>5, <2>1, WorkerMoves DEF CompletedIsDone, At
<1>6. CASE Discover
  <2>1. CASE FailRun(atWork.run) /\ Stops /\ ~ UNCHANGED runStatus
    <3>1. PICK status \in {"cancelled", "failed"} : SetRun(atWork.run, status)
      BY <2>1 DEF FailRun
    <3>2. /\ runStatus' \in [Runs -> Unfinished \cup RunEnd \cup {"none"}]
          /\ runStatus'[atWork.run] \in {"cancelled", "failed"}
          /\ \A m \in Runs \ {atWork.run} : runStatus'[m] = runStatus[m]
      BY <1>1, <3>1, SetRunSets DEF RepositoryInv, RunEnd
    <3> QED
      BY <1>1, <1>f, <2>1, <3>2, WorkerMoves DEF Stops, Settled
  <2>2. CASE Stops /\ UNCHANGED runStatus
    BY <1>4, <2>2 DEF Stops
  <2>3. CASE Goes("images") /\ UNCHANGED runStatus
    <3>1. atWork.image \in SUBSET Images /\ atWork.left \in SUBSET Images /\ atWork.step = "discover"
      BY <1>1, <1>6 DEF Works, Discover, At
    <3> QED
      BY <1>5, <2>3, <3>1 DEF Goes, Early
  <2> QED
    BY <1>6, <2>1, <2>2, <2>3 DEF Discover
<1>7. CASE CheckBeforeScanning
  <2>1. UNCHANGED runStatus /\ (Stops \/ Goes("scanning"))
    BY <1>7 DEF CheckBeforeScanning
  <2>2. CASE Stops
    BY <1>4, <2>1, <2>2 DEF Stops
  <2>3. CASE Goes("scanning")
    <3>1. /\ atWork.image \in SUBSET Images /\ atWork.left \in SUBSET Images
          /\ atWork.step = "images" /\ atWork.left = {}
      BY <1>1, <1>7 DEF Works, CheckBeforeScanning, At
    <3> QED
      BY <1>5, <2>1, <2>3, <3>1 DEF Goes, Early
  <2> QED
    BY <2>1, <2>2, <2>3
<1>8. ASSUME NEW i \in Images, NextImage(i) PROVE RepositoryInv'
  <2>1. UNCHANGED runStatus /\ atWork.step = "images"
    BY <1>8 DEF NextImage, At
  <2>2. CASE Stops
    BY <1>4, <2>1, <2>2 DEF Stops
  <2>3. ASSUME NEW step \in {"images", "create"},
               atWork' = Working(atWork.run, step, {i}, atWork.left \ {i})
        PROVE  RepositoryInv'
    <3>1. atWork.left \ {i} \in SUBSET Images /\ {i} \in SUBSET Images
      BY <1>1 DEF Works
    <3>2. \E j \in Images : {i} = {j}
      OBVIOUS
    <3> QED
      BY <1>5, <2>1, <2>3, <3>1, <3>2 DEF Early
  <2> QED
    BY <1>8, <2>2, <2>3 DEF NextImage
<1> QED
  BY <1>6, <1>7, <1>8

(* The new scan waits; if the run was cancelled meanwhile the next step is *)
(* to look at it again.                                                    *)
LEMMA CreateChildKeeps ==
  ASSUME RepositoryInv, CreateChild
  PROVE  RepositoryInv'
<1> DEFINE n == atWork.run
<1>1. /\ atWork # NoRun /\ atWork \in Works /\ n \in Runs /\ atWork.step = "create"
      /\ UNCHANGED <<runStatus, runQueue, dryRun, cancellingRuns, cancelled, reconciling, restarts>>
      /\ ~ At("dispatch")
  BY DEF CreateChild, At, runRequestVars, RepositoryInv, RepositoryTypeOK, Works
<1>2. PICK i \in Images : atWork.image = {i}
  BY <1>1 DEF RepositoryInv, WorkFitsRun, At
<1>f. /\ dbFaults' \in 0..MaxDbFaults
      /\ overlooked' \subseteq Runs \X (Images \X (0..restarts'))
      /\ overlooked \subseteq overlooked'
  BY <1>1, <1>2, FaultsCounted DEF RepositoryInv, CreateChild, faultVars
<1>s. PICK step \in {"dispatch", "images"} :
         /\ Goes(step)
         /\ \/ UNCHANGED children /\ step = "images"
            \/ SetChild(n, <<i, restarts>>, "pending") /\ step = "dispatch"
            \/ SetChild(n, <<i, restarts>>, "pending") /\ Overlook(n, <<i, restarts>>)
  BY <1>2 DEF CreateChild
<1>4. /\ atWork' \in Works /\ atWork' # NoRun
      /\ atWork'.run = n /\ atWork'.step = step
      /\ atWork'.image = {i} /\ atWork'.left = atWork.left
  <2>1. atWork.image \in SUBSET Images /\ atWork.left \in SUBSET Images
    BY <1>1 DEF Works
  <2>2. atWork' = Working(atWork.run, step, atWork.image, atWork.left)
    BY <1>s DEF Goes
  <2> QED
    BY <1>1, <1>2, <2>1, <2>2, GoesOn DEF RepositoryInv
<1>u. CASE UNCHANGED children /\ step = "images"
  <2>1. CompletedIsDone /\ runStatus \in [Runs -> Unfinished \cup RunEnd \cup {"none"}]
    BY DEF RepositoryInv, RepositoryTypeOK
  <2> QED
    BY <1>1, <1>4, <1>f, <1>u, <2>1, WorkerMoves DEF CompletedIsDone, Early
<1>w. SUFFICES ASSUME ~ (UNCHANGED children /\ step = "images") PROVE RepositoryInv'
  BY <1>u
<1>3. /\ SetChild(n, <<i, restarts>>, "pending")
      /\ step = "dispatch" \/ <<n, <<i, restarts>>>> \in overlooked'
  BY <1>s, <1>w DEF Overlook
<1>5. /\ DOMAIN children' = Runs
      /\ \A m \in Runs \ {n} : children'[m] = children[m]
      /\ DOMAIN children'[n] = DOMAIN children[n] \cup {<<i, restarts>>}
      /\ children'[n][<<i, restarts>>] = "pending"
      /\ \A d \in DOMAIN children[n] \ {<<i, restarts>>} : children'[n][d] = children[n][d]
  BY <1>1, <1>3, SetChildSets DEF RepositoryInv
<1>6. /\ runStatus[n] \in {"discovering", "cancelled"} /\ n # dryRun
      /\ reconciling = NoRun \/ reconciling.run # n
  BY <1>1 DEF RepositoryInv, WorkFitsRun, FreshIsAlone, FoundIsFinal, WorksOn, Early
<1>7. <<i, restarts>> \in Images \X (0 .. restarts) /\ <<i, restarts>>[1] = i
  BY DEF RepositoryInv, RepositoryData
<1> HIDE DEF n
<1>8. RepositoryTypeOK'
  <2>1. \A m \in Runs : DOMAIN children'[m] \subseteq Images \X (0 .. restarts')
                         /\ \A c \in DOMAIN children'[m] : children'[m][c] \in ScanStates
    BY <1>1, <1>5, <1>7 DEF RepositoryInv, RepositoryTypeOK, ScanStates
  <2>2. \A m \in Runs : runStatus'[m] \in {"none", "queued"} => DOMAIN children'[m] = {}
    BY <1>1, <1>5, <1>6 DEF RepositoryInv, RepositoryTypeOK
  <2> QED
    BY <1>1, <1>4, <1>f, <2>1, <2>2 DEF RepositoryInv, RepositoryTypeOK, At
<1>9. RepositoryData'
  BY <1>1, <1>5 DEF RepositoryInv, RepositoryData
<1>10. FreshIsAlone'
  BY <1>1, <1>4, <1>5, <1>6 DEF RepositoryInv, FreshIsAlone, WorksOn, n
<1>11. WorkFitsRun' /\ CancelledIsSettled'
  BY <1>1, <1>2, <1>4, <1>6 DEF RepositoryInv, WorkFitsRun, CancelledIsSettled, WorksOn, At
<1>12. FoundIsFinal'
  <2>1. reconciling # NoRun => reconciling.run \in Runs
    BY DEF RepositoryInv, RepositoryTypeOK, Reconciliations
  <2> QED
    BY <1>1, <1>4, <1>5, <1>6, <2>1 DEF RepositoryInv, FoundIsFinal, WorksOn
<1>13. CompletedIsDone'
  BY <1>1, <1>5, <1>6 DEF RepositoryInv, CompletedIsDone
<1>14. OnlyInsertedWaits'
  <2> SUFFICES ASSUME NEW m \in cancelled', NEW c \in CreatedHere(m)', children'[m][c] = "pending",
                      <<m, c>> \notin overlooked'
               PROVE  WorksOn(m)' /\ atWork'.step = "dispatch" /\ c[1] \in atWork'.image
    BY DEF OnlyInsertedWaits
  <2>1. m \in cancelled /\ m \in Runs /\ c \in DOMAIN children'[m] /\ c[2] = restarts
        /\ <<m, c>> \notin overlooked
    BY <1>1, <1>f DEF CreatedHere, RepositoryInv, RepositoryTypeOK
  <2>2. m = n /\ c = <<i, restarts>>
    BY <1>1, <1>5, <2>1 DEF RepositoryInv, OnlyInsertedWaits, CreatedHere, n
  <2> QED
    BY <1>3, <1>4, <1>7, <2>2 DEF WorksOn, n
<1> QED
  BY <1>8, <1>9, <1>10, <1>11, <1>12, <1>13, <1>14 DEF RepositoryInv

(* The scan just inserted does not wait any more.                          *)
LEMMA WorkerSettles ==
  ASSUME RepositoryInv, atWork # NoRun, atWork.step \in {"dispatch", "refused"},
         NEW i \in Images, atWork.image = {i},
         NEW status \in {"cancelled", "failed"},
         SetIfPending(atWork.run, <<i, restarts>>, status),
         UNCHANGED <<runStatus, runQueue, dryRun, cancellingRuns, cancelled, reconciling, restarts>>,
         dbFaults' \in 0..MaxDbFaults, overlooked \subseteq overlooked',
         overlooked' \subseteq Runs \X (Images \X (0..restarts')),
         \/ atWork' = NoRun
         \/ atWork' \in Works /\ atWork' # NoRun /\ atWork'.run = atWork.run /\ atWork'.step = "images"
  PROVE  RepositoryInv'
<1> DEFINE n == atWork.run
           c == <<i, restarts>>
<1>1. atWork \in Works /\ n \in Runs
  BY DEF RepositoryInv, RepositoryTypeOK, Works
<1>2. /\ DOMAIN children' = Runs
      /\ \A m \in Runs \ {n} : children'[m] = children[m]
      /\ DOMAIN children'[n] \subseteq DOMAIN children[n] \cup {c}
      /\ \A d \in DOMAIN children'[n] :
            \/ children'[n][d] = status
            \/ d \in DOMAIN children[n] /\ children'[n][d] = children[n][d]
      /\ children'[n][c] # "pending"
  <2>1. CASE children[n][c] = "pending"
    <3>1. SetChild(n, c, status)
      BY <2>1 DEF SetIfPending
    <3>2. /\ DOMAIN children' = Runs
          /\ \A m \in Runs \ {n} : children'[m] = children[m]
          /\ DOMAIN children'[n] = DOMAIN children[n] \cup {c}
          /\ children'[n][c] = status
          /\ \A d \in DOMAIN children[n] \ {c} : children'[n][d] = children[n][d]
      BY <1>1, <3>1, SetChildSets DEF RepositoryInv
    <3> QED
      BY <3>2
  <2>2. CASE children[n][c] # "pending"
    BY <1>1, <2>2 DEF SetIfPending, RepositoryInv, RepositoryData
  <2> QED
    BY <2>1, <2>2
<1>3. /\ runStatus[n] \in {"discovering", "cancelled"} /\ n # dryRun
      /\ reconciling = NoRun \/ reconciling.run # n
  BY <1>1 DEF RepositoryInv, WorkFitsRun, FreshIsAlone, FoundIsFinal, WorksOn, Early
<1>4. c \in Images \X (0 .. restarts)
  BY DEF RepositoryInv, RepositoryData
<1>5. \A d \in Images \X (0 .. restarts) : d[1] \in atWork.image /\ d[2] = restarts => d = c
  OBVIOUS
<1> HIDE DEF c, n
<1>6. RepositoryTypeOK'
  <2>1. \A m \in Runs : DOMAIN children'[m] \subseteq Images \X (0 .. restarts')
                         /\ \A d \in DOMAIN children'[m] : children'[m][d] \in ScanStates
    BY <1>1, <1>2, <1>4 DEF RepositoryInv, RepositoryTypeOK, ScanStates
  <2>2. \A m \in Runs : runStatus'[m] \in {"none", "queued"} => DOMAIN children'[m] = {}
    BY <1>1, <1>2, <1>3 DEF RepositoryInv, RepositoryTypeOK
  <2> QED
    BY <1>1, <2>1, <2>2 DEF RepositoryInv, RepositoryTypeOK, At
<1>7. RepositoryData'
  BY <1>2 DEF RepositoryInv, RepositoryData
<1>8. FreshIsAlone'
  BY <1>1, <1>2, <1>3 DEF RepositoryInv, FreshIsAlone, WorksOn, n
<1>9. WorkFitsRun' /\ CancelledIsSettled'
  BY <1>1, <1>3 DEF RepositoryInv, WorkFitsRun, CancelledIsSettled, WorksOn, At, n
<1>10. FoundIsFinal'
  <2>1. reconciling # NoRun => reconciling.run \in Runs
    BY DEF RepositoryInv, RepositoryTypeOK, Reconciliations
  <2> QED
    BY <1>1, <1>2, <1>3, <2>1 DEF RepositoryInv, FoundIsFinal, WorksOn, n
<1>11. CompletedIsDone'
  BY <1>1, <1>2, <1>3 DEF RepositoryInv, CompletedIsDone
<1>12. OnlyInsertedWaits'
  <2> SUFFICES ASSUME NEW m \in cancelled', NEW d \in CreatedHere(m)', children'[m][d] = "pending",
                      <<m, d>> \notin overlooked'
               PROVE  FALSE
    BY DEF OnlyInsertedWaits
  <2>1. m \in cancelled /\ m \in Runs /\ d \in DOMAIN children'[m] /\ d[2] = restarts
    BY DEF CreatedHere, RepositoryInv, RepositoryTypeOK
  <2>2. d \in DOMAIN children[m] /\ children[m][d] = "pending" /\ (m = n => d # c)
    BY <1>2, <2>1
  <2>3. d \in Images \X (0 .. restarts)
    BY <2>1, <2>2 DEF RepositoryInv, RepositoryTypeOK
  <2>4. WorksOn(m) /\ d[1] \in atWork.image
    BY <2>1, <2>2 DEF RepositoryInv, OnlyInsertedWaits, CreatedHere
  <2> QED
    BY <1>5, <2>1, <2>2, <2>3, <2>4 DEF WorksOn, n
<1> QED
  BY <1>6, <1>7, <1>8, <1>9, <1>10, <1>11, <1>12 DEF RepositoryInv

(* A cancellation that is seen reaches the scan just inserted; one that is *)
(* not seen, or that fails, is noted.                                      *)
LEMMA DispatchKeeps ==
  ASSUME RepositoryInv, Dispatch \/ Refused
  PROVE  RepositoryInv'
<1> DEFINE n == atWork.run
<1>1. /\ atWork # NoRun /\ atWork \in Works /\ n \in Runs
      /\ atWork.step \in {"dispatch", "refused"} /\ (Dispatch <=> At("dispatch"))
      /\ UNCHANGED <<runStatus, runQueue, dryRun, cancellingRuns, cancelled, reconciling, restarts>>
  BY DEF Dispatch, Refused, At, runRequestVars, RepositoryInv, RepositoryTypeOK, Works
<1>2. PICK i \in Images : atWork.image = {i}
  BY <1>1 DEF RepositoryInv, WorkFitsRun, At
<1> DEFINE c == <<i, restarts>>
<1>3. /\ dbFaults' \in 0..MaxDbFaults
      /\ overlooked' \subseteq Runs \X (Images \X (0..restarts'))
      /\ overlooked \subseteq overlooked'
  BY <1>1, <1>2, FaultsCounted DEF RepositoryInv, Dispatch, Refused, CancelCreated, SeenActive, faultVars
<1>4. \/ atWork' = NoRun
      \/ /\ atWork' \in Works /\ atWork' # NoRun /\ atWork'.run = n
         /\ atWork'.step = "images" \/ (atWork'.step = "refused" /\ atWork'.image = {i})
  <2>1. atWork.image \in SUBSET Images /\ atWork.left \in SUBSET Images
    BY <1>1 DEF Works
  <2>2. Stops \/ Goes("images") \/ Goes("refused")
    BY DEF Dispatch, Refused
  <2> QED
    BY <1>1, <1>2, <2>1, <2>2, GoesOn DEF RepositoryInv, Goes, Stops
<1>5. \/ /\ UNCHANGED children
         /\ At("dispatch") /\ runStatus[n] = "cancelled" => Overlook(n, c)
      \/ /\ \E status \in {"cancelled", "failed"} : SetIfPending(n, c, status)
         /\ ~ Goes("refused")
  <2>1. CASE Dispatch
    <3>1. \/ CancelCreated(n, c) /\ Stops
          \/ (runStatus[n] = "cancelled" => Overlook(n, c)) /\ UNCHANGED children
      BY <1>2, <2>1 DEF Dispatch
    <3>2. Stops => ~ Goes("refused")
      BY <1>1, RepositoryConstants DEF Stops, Goes, Working, Works
    <3> QED
      BY <3>1, <3>2 DEF CancelCreated
  <2>2. CASE Refused
    <3>1. ~ At("dispatch") /\ Goes("images")
      BY <2>2 DEF Refused, At
    <3>2. CancelCreated(n, c) \/ SetIfPending(n, c, "failed") \/ UNCHANGED children
      BY <1>2, <2>2 DEF Refused
    <3>3. ~ Goes("refused")
      BY <3>1 DEF Goes, Working
    <3> QED
      BY <3>1, <3>2, <3>3 DEF CancelCreated
  <2> QED
    BY <2>1, <2>2
<1>6. CASE /\ UNCHANGED children
           /\ At("dispatch") /\ runStatus[n] = "cancelled" => Overlook(n, c)
  <2>1. CompletedIsDone /\ runStatus \in [Runs -> Unfinished \cup RunEnd \cup {"none"}]
    BY DEF RepositoryInv, RepositoryTypeOK
  <2>2. Overlook(n, c) => \A d \in CreatedHere(n) : d[1] \in atWork.image => <<n, d>> \in overlooked'
    <3> SUFFICES ASSUME Overlook(n, c), NEW d \in CreatedHere(n), d[1] \in atWork.image
                 PROVE  d = c
      BY DEF Overlook
    <3>1. d \in Images \X (0 .. restarts) /\ d[2] = restarts
      BY <1>1 DEF CreatedHere, RepositoryInv, RepositoryTypeOK
    <3> QED
      BY <1>2, <3>1
  <2> QED
    BY <1>1, <1>2, <1>3, <1>4, <1>6, <2>1, <2>2, WorkerMoves DEF CompletedIsDone, Early
<1>7. ASSUME NEW status \in {"cancelled", "failed"}, SetIfPending(n, c, status), ~ Goes("refused")
      PROVE  RepositoryInv'
  <2>1. \/ atWork' = NoRun
        \/ atWork' \in Works /\ atWork' # NoRun /\ atWork'.run = n /\ atWork'.step = "images"
    <3>1. atWork.image \in SUBSET Images /\ atWork.left \in SUBSET Images
      BY <1>1 DEF Works
    <3>2. Stops \/ Goes("images")
      BY <1>7 DEF Dispatch, Refused
    <3> QED
      BY <1>1, <3>1, <3>2, GoesOn DEF RepositoryInv, Goes, Stops
  <2> QED
    BY <1>1, <1>2, <1>3, <1>7, <2>1, WorkerSettles
<1> QED
  BY <1>5, <1>6, <1>7

(* The run is set to scanning, whatever it was; a run that was cancelled   *)
(* meanwhile has its scans cancelled all the same.                         *)
LEMMA SetScanningKeeps ==
  ASSUME RepositoryInv, SetScanning
  PROVE  RepositoryInv'
<1> DEFINE n == atWork.run
<1>1. /\ atWork # NoRun /\ atWork \in Works /\ n \in Runs /\ atWork.step = "scanning"
      /\ atWork.left = {}
      /\ UNCHANGED <<children, runQueue, dryRun, cancellingRuns, cancelled, reconciling, restarts,
                     overlooked>>
  BY DEF SetScanning, At, runRequestVars, RepositoryInv, RepositoryTypeOK, Works
<1>f. /\ dbFaults' \in 0..MaxDbFaults
      /\ overlooked' \subseteq Runs \X (Images \X (0..restarts'))
      /\ overlooked \subseteq overlooked'
  BY <1>1, FaultsCounted DEF RepositoryInv, SetScanning
<1>2. /\ runStatus' \in [Runs -> Unfinished \cup RunEnd \cup {"none"}]
      /\ runStatus'[n] \in {"scanning", runStatus[n]} /\ runStatus[n] # "completed"
      /\ \A m \in Runs \ {n} : runStatus'[m] = runStatus[m]
  <2>1. runStatus \in [Runs -> Unfinished \cup RunEnd \cup {"none"}] /\ runStatus[n] # "completed"
    BY <1>1 DEF RepositoryInv, RepositoryTypeOK, WorkFitsRun, WorksOn, Early
  <2>2. CASE SetRun(n, "scanning")
    BY <1>1, <2>1, <2>2, SetRunSets DEF RepositoryInv, Unfinished
  <2> QED
    BY <2>1, <2>2 DEF SetScanning
<1>3. CASE Stops
  BY <1>1, <1>f, <1>2, <1>3, WorkerMoves DEF Stops, Settled, At
<1>4. CASE Goes("reconcile")
  <2>1. atWork.image \in SUBSET Images /\ atWork.left \in SUBSET Images
    BY <1>1 DEF Works
  <2>2. /\ atWork' \in Works /\ atWork' # NoRun /\ atWork'.left = atWork.left
        /\ atWork'.run = n /\ atWork'.step = "reconcile"
    BY <1>1, <1>4, <2>1, GoesOn DEF RepositoryInv, Goes
  <2> QED
    BY <1>1, <1>f, <1>2, <2>2, WorkerMoves DEF Settled, Early, At
<1> QED
  BY <1>3, <1>4 DEF SetScanning

-----------------------------------------------------------------------------
(* Reconciliation *)

(* What is found for a run tells that none of its scans waits.             *)
LEMMA FoundNothingWaits ==
  ASSUME NEW n \in Runs, NEW status \in Found(n)
  PROVE  /\ status \in {"completed", "failed"}
         /\ \A c \in DOMAIN children[n] : children[n][c] # "pending"
BY DEF Found, ChildStatuses

LEMMA ReconcileOwnKeeps ==
  ASSUME RepositoryInv, ReconcileOwn
  PROVE  RepositoryInv'
<1> DEFINE n == atWork.run
<1>1. /\ atWork # NoRun /\ n \in Runs /\ ~ At("dispatch") /\ atWork' = NoRun
      /\ UNCHANGED <<children, runQueue, dryRun, cancellingRuns, cancelled, reconciling, restarts,
                     overlooked>>
  BY DEF ReconcileOwn, At, runRequestVars, RepositoryInv, RepositoryTypeOK, Works, Stops
<1>f. /\ dbFaults' \in 0..MaxDbFaults
      /\ overlooked' \subseteq Runs \X (Images \X (0..restarts'))
      /\ overlooked \subseteq overlooked'
  BY <1>1, FaultsCounted DEF RepositoryInv, ReconcileOwn
<1>2. runStatus \in [Runs -> Unfinished \cup RunEnd \cup {"none"}] /\ CompletedIsDone
  BY DEF RepositoryInv, RepositoryTypeOK
<1>3. CASE UNCHANGED runStatus
  BY <1>1, <1>f, <1>2, <1>3, WorkerMoves DEF CompletedIsDone
<1>4. ASSUME NEW status \in Found(n), SetRun(n, status) PROVE RepositoryInv'
  <2>1. /\ status \in {"completed", "failed"}
        /\ \A c \in DOMAIN children[n] : children[n][c] # "pending"
    BY <1>1, <1>4, FoundNothingWaits
  <2>2. /\ runStatus' \in [Runs -> Unfinished \cup RunEnd \cup {"none"}]
        /\ runStatus'[n] = status
        /\ \A m \in Runs \ {n} : runStatus'[m] = runStatus[m]
    BY <1>1, <1>4, <2>1, SetRunSets DEF RepositoryInv, RunEnd
  <2> QED
    BY <1>1, <1>f, <2>1, <2>2, WorkerMoves DEF Settled
<1> QED
  BY <1>3, <1>4 DEF ReconcileOwn

(* The loop has seen the run as scanning: no worker creates scans for it.  *)
LEMMA ReconcileReadKeeps ==
  ASSUME RepositoryInv, NEW n \in Runs, ReconcileRead(n)
  PROVE  RepositoryInv'
<1>1. /\ runStatus[n] = "scanning"
      /\ UNCHANGED <<runStatus, children, runQueue, atWork, dryRun, cancellingRuns, cancelled,
                     restarts, dbFaults, overlooked>>
  BY DEF ReconcileRead, runRequestVars, faultVars
<1> PICK status \in Found(n) : reconciling' = [run |-> n, found |-> status]
  BY DEF ReconcileRead
<1>2. /\ status \in {"completed", "failed"}
      /\ \A c \in DOMAIN children[n] : children[n][c] # "pending"
  BY FoundNothingWaits
<1>3. [run |-> n, found |-> status] \in Reconciliations
  BY <1>2 DEF Reconciliations
<1>4. reconciling' \in Reconciliations /\ reconciling' # NoRun /\ reconciling'.run = n
  BY <1>3, RepositoryConstants
<1>5. dryRun # n /\ (WorksOn(n) => atWork.step = "reconcile")
  BY <1>1 DEF RepositoryInv, FreshIsAlone, WorkFitsRun, WorksOn, RepositoryTypeOK, Works, Early
<1>6. RepositoryTypeOK'
  BY <1>1, <1>4 DEF RepositoryInv, RepositoryTypeOK, At
<1>7. RepositoryData' /\ CancelledIsSettled' /\ CompletedIsDone'
  BY <1>1 DEF RepositoryInv, RepositoryData, CancelledIsSettled, CompletedIsDone
<1>8. FreshIsAlone'
  BY <1>1, <1>4, <1>5 DEF RepositoryInv, FreshIsAlone, WorksOn
<1>9. WorkFitsRun' /\ OnlyInsertedWaits'
  BY <1>1 DEF RepositoryInv, WorkFitsRun, OnlyInsertedWaits, WorksOn, At, CreatedHere
<1>10. FoundIsFinal'
  BY <1>1, <1>2, <1>4, <1>5 DEF FoundIsFinal, WorksOn, Settled
<1> QED
  BY <1>6, <1>7, <1>8, <1>9, <1>10 DEF RepositoryInv

LEMMA ReconcileWriteKeeps ==
  ASSUME RepositoryInv, ReconcileWrite
  PROVE  RepositoryInv'
<1>u. CASE UNCHANGED runStatus
  <2>1. /\ reconciling' = NoRun
        /\ UNCHANGED <<runStatus, children, runQueue, atWork, dryRun, cancellingRuns, cancelled,
                       restarts, overlooked>>
    BY <1>u DEF ReconcileWrite, runRequestVars
  <2>2. dbFaults' \in 0..MaxDbFaults
    BY <2>1, FaultsCounted DEF RepositoryInv, ReconcileWrite
  <2>3. RepositoryTypeOK' /\ RepositoryData'
    BY <2>1, <2>2 DEF RepositoryInv, RepositoryTypeOK, RepositoryData, At
  <2>4. FreshIsAlone' /\ WorkFitsRun' /\ FoundIsFinal' /\ CancelledIsSettled'
    BY <2>1 DEF RepositoryInv, FreshIsAlone, WorkFitsRun, FoundIsFinal, CancelledIsSettled, WorksOn, At
  <2>5. CompletedIsDone' /\ OnlyInsertedWaits'
    BY <2>1 DEF RepositoryInv, CompletedIsDone, OnlyInsertedWaits, WorksOn, CreatedHere
  <2> QED
    BY <2>3, <2>4, <2>5 DEF RepositoryInv
<1>w. SUFFICES ASSUME ~ UNCHANGED runStatus PROVE RepositoryInv'
  BY <1>u
<1> DEFINE n == reconciling.run
<1>1. /\ reconciling # NoRun /\ reconciling' = NoRun
      /\ n \in Runs /\ reconciling.found \in {"completed", "failed"}
      /\ UNCHANGED <<children, runQueue, atWork, dryRun, cancellingRuns, cancelled, restarts,
                     overlooked>>
  BY DEF ReconcileWrite, runRequestVars, RepositoryInv, RepositoryTypeOK, Reconciliations
<1>2. /\ runStatus' \in [Runs -> Unfinished \cup RunEnd \cup {"none"}]
      /\ runStatus'[n] \in {"completed", "failed"}
      /\ \A m \in Runs \ {n} : runStatus'[m] = runStatus[m]
  BY <1>1, <1>w, SetRunSets DEF ReconcileWrite, RepositoryInv, RunEnd
<1>f. /\ dbFaults' \in 0..MaxDbFaults
      /\ overlooked' \subseteq Runs \X (Images \X (0..restarts'))
      /\ overlooked \subseteq overlooked'
  BY <1>1, FaultsCounted DEF RepositoryInv, ReconcileWrite
<1>3. /\ runStatus[n] \in Settled /\ dryRun # n
      /\ WorksOn(n) => atWork.step = "reconcile"
      /\ \A c \in DOMAIN children[n] : children[n][c] # "pending"
  BY <1>1 DEF RepositoryInv, FoundIsFinal, FreshIsAlone
<1> HIDE DEF n
<1>4. RepositoryTypeOK'
  BY <1>1, <1>f, <1>2 DEF RepositoryInv, RepositoryTypeOK, At
<1>5. RepositoryData'
  BY <1>1 DEF RepositoryInv, RepositoryData
<1>6. FreshIsAlone'
  BY <1>1, <1>2, <1>3 DEF RepositoryInv, FreshIsAlone, WorksOn
<1>7. WorkFitsRun' /\ OnlyInsertedWaits'
  BY <1>1, <1>2, <1>3
  DEF RepositoryInv, WorkFitsRun, OnlyInsertedWaits, WorksOn, At, CreatedHere, Early
<1>8. FoundIsFinal' /\ CancelledIsSettled'
  BY <1>1, <1>2, <1>3 DEF RepositoryInv, FoundIsFinal, CancelledIsSettled, Settled, RepositoryTypeOK
<1>9. CompletedIsDone'
  BY <1>1, <1>2, <1>3 DEF RepositoryInv, CompletedIsDone
<1> QED
  BY <1>4, <1>5, <1>6, <1>7, <1>8, <1>9 DEF RepositoryInv

-----------------------------------------------------------------------------
(* Environment *)

LEMMA ChildEndsKeeps ==
  ASSUME RepositoryInv, NEW n \in Runs, NEW c \in DOMAIN children[n], NEW status \in ScanStates,
         ChildEnds(n, c, status) \/ (status = "deleted" /\ DeleteChild(n, c))
  PROVE  RepositoryInv'
<1>1. /\ status # "pending" /\ SetChild(n, c, status)
      /\ UNCHANGED <<runStatus, runQueue, atWork, dryRun, cancellingRuns, cancelled, reconciling,
                     restarts, dbFaults, overlooked>>
  BY DEF ChildEnds, DeleteChild, runRequestVars, faultVars
<1>2. /\ DOMAIN children' = Runs
      /\ \A m \in Runs \ {n} : children'[m] = children[m]
      /\ DOMAIN children'[n] = DOMAIN children[n] \cup {c}
      /\ children'[n][c] = status
      /\ \A d \in DOMAIN children[n] \ {c} : children'[n][d] = children[n][d]
  BY <1>1, SetChildSets DEF RepositoryInv
<1>3. \A m \in Runs : /\ DOMAIN children'[m] = DOMAIN children[m]
                       /\ \A d \in DOMAIN children'[m] :
                            \/ children'[m][d] = children[m][d]
                            \/ children'[m][d] = status
  BY <1>2
<1>4. RepositoryTypeOK'
  <2>1. \A m \in Runs : DOMAIN children'[m] \subseteq Images \X (0 .. restarts')
                         /\ \A d \in DOMAIN children'[m] : children'[m][d] \in ScanStates
    BY <1>1, <1>3 DEF RepositoryInv, RepositoryTypeOK
  <2>2. \A m \in Runs : runStatus'[m] \in {"none", "queued"} => DOMAIN children'[m] = {}
    BY <1>1, <1>3 DEF RepositoryInv, RepositoryTypeOK
  <2> QED
    BY <1>1, <2>1, <2>2 DEF RepositoryInv, RepositoryTypeOK, At
<1>5. RepositoryData'
  BY <1>1, <1>2 DEF RepositoryInv, RepositoryData
<1>6. FreshIsAlone'
  BY <1>1, <1>3 DEF RepositoryInv, FreshIsAlone, WorksOn
<1>7. WorkFitsRun' /\ CancelledIsSettled'
  BY <1>1 DEF RepositoryInv, WorkFitsRun, CancelledIsSettled, WorksOn, At
<1>8. FoundIsFinal'
  <2>1. reconciling # NoRun => reconciling.run \in Runs
    BY DEF RepositoryInv, RepositoryTypeOK, Reconciliations
  <2> QED
    BY <1>1, <1>3, <2>1 DEF RepositoryInv, FoundIsFinal, WorksOn
<1>9. CompletedIsDone'
  BY <1>1, <1>3 DEF RepositoryInv, CompletedIsDone
<1>10. OnlyInsertedWaits'
  BY <1>1, <1>3 DEF RepositoryInv, OnlyInsertedWaits, WorksOn, CreatedHere, RepositoryTypeOK
<1> QED
  BY <1>4, <1>5, <1>6, <1>7, <1>8, <1>9, <1>10 DEF RepositoryInv

(* The new process has created no scan yet.                                *)
LEMMA RestartKeeps ==
  ASSUME RepositoryInv, Restart
  PROVE  RepositoryInv'
<1>1. /\ restarts' = restarts + 1 /\ runQueue' \in {Recovered, {}}
      /\ atWork' = NoRun /\ dryRun' = NoRun /\ reconciling' = NoRun /\ cancellingRuns' = {}
      /\ UNCHANGED <<runStatus, children, cancelled, overlooked>>
  BY DEF Restart
<1>2. restarts \in Nat /\ 0 .. restarts \subseteq 0 .. (restarts + 1)
      /\ (restarts + 1) \notin 0 .. restarts
  BY DEF RepositoryInv, RepositoryData
<1>3. RepositoryTypeOK'
  <2>1. \A m \in Runs : DOMAIN children'[m] \subseteq Images \X (0 .. restarts')
    <3> SUFFICES ASSUME NEW m \in Runs PROVE DOMAIN children[m] \subseteq Images \X (0 .. restarts')
      BY <1>1
    <3>1. DOMAIN children[m] \subseteq Images \X (0 .. restarts)
      BY DEF RepositoryInv, RepositoryTypeOK
    <3>2. Images \X (0 .. restarts) \subseteq Images \X (0 .. (restarts + 1))
      BY <1>2
    <3> QED
      BY <1>1, <3>1, <3>2
  <2>2. runQueue' \subseteq Runs
    BY <1>1 DEF Recovered
  <2>3. dbFaults' \in 0..MaxDbFaults
    BY RepositoryConstants DEF Restart, StatementFails, RepositoryInv, RepositoryTypeOK
  <2>4. overlooked' \subseteq Runs \X (Images \X (0..restarts'))
    BY <1>1, <1>2 DEF RepositoryInv, RepositoryTypeOK
  <2> QED
    BY <1>1, <2>1, <2>2, <2>3, <2>4 DEF RepositoryInv, RepositoryTypeOK, At
<1>4. RepositoryData'
  BY <1>1, <1>2 DEF RepositoryInv, RepositoryData
<1>5. FreshIsAlone'
  BY <1>1, RepositoryConstants DEF RepositoryInv, FreshIsAlone, WorksOn, Recovered
<1>6. WorkFitsRun' /\ FoundIsFinal' /\ CancelledIsSettled' /\ CompletedIsDone'
  BY <1>1
  DEF RepositoryInv, WorkFitsRun, FoundIsFinal, CancelledIsSettled, CompletedIsDone, WorksOn, At
<1>7. OnlyInsertedWaits'
  <2>1. \A m \in Runs : \A c \in DOMAIN children[m] : c[2] \in 0 .. restarts
    BY DEF RepositoryInv, RepositoryTypeOK
  <2>2. \A m \in Runs : CreatedHere(m)' = {}
    BY <1>1, <1>2, <2>1 DEF CreatedHere
  <2> QED
    BY <1>1, <2>2 DEF OnlyInsertedWaits, RepositoryInv, RepositoryTypeOK
<1> QED
  BY <1>3, <1>4, <1>5, <1>6, <1>7 DEF RepositoryInv

LEMMA RepositoryNextInv == RepositoryInv /\ [RepositoryNext]_repositoryRunVars => RepositoryInv'
<1> SUFFICES ASSUME RepositoryInv, [RepositoryNext]_repositoryRunVars PROVE RepositoryInv'
  OBVIOUS
<1>1. CASE Requests
  BY <1>1, CheckActiveKeeps, CreateRunKeeps, DiscoveryEndsKeeps, MarkCancelledKeeps,
     CancelScansKeeps DEF Requests
<1>2. CASE Worker
  BY <1>2, TakeRunKeeps, WorkerKeeps, CreateChildKeeps, DispatchKeeps, SetScanningKeeps,
     ReconcileOwnKeeps DEF Worker
<1>3. CASE Reconcile
  BY <1>3, ReconcileReadKeeps, ReconcileWriteKeeps DEF Reconcile
<1>4. CASE ScansEnd
  BY <1>4, ChildEndsKeeps DEF ScansEnd
<1>6. CASE ScansDeleted
  BY <1>6, ChildEndsKeeps DEF ScansDeleted, ScanStates
<1>5. CASE Restart \/ UNCHANGED repositoryRunVars
  BY <1>5, RestartKeeps, CheckActiveKeeps
<1> QED
  BY <1>1, <1>2, <1>3, <1>4, <1>5, <1>6 DEF RepositoryNext

(* Every state of the runs of a repository satisfies the invariant, for    *)
(* any number of runs, images and restarts (service.go).                   *)
THEOREM RepositoryInvariant == RepositorySpec => []RepositoryInv
BY RepositoryInitInv, RepositoryNextInv, PTL DEF RepositorySpec

LEMMA RunsHonestFollows == RepositoryInv => RunsAreHonest
<1>1. RepositoryInv => CancelReachesScans
  BY DEF RepositoryInv, OnlyInsertedWaits, CancelReachesScans, WorksOn, CreatedHere
<1> QED
  BY <1>1 DEF RepositoryInv, RunsAreHonest

(* Whichever statements fail, and in whatever order cancellations, the     *)
(* worker, the loop and restarts come: a completed run has no scan that    *)
(* waits; and once a cancellation is answered and the worker has left the  *)
(* run, a scan of this process waits in it only if the statement that was  *)
(* to look at that very scan again has failed (service.go:493-541).        *)
THEOREM RunsStayHonest == RepositorySpec => []RunsAreHonest
BY RunsHonestFollows, RepositoryInvariant, PTL
=============================================================================
