---------------------------- MODULE ServiceProofs ----------------------------
(***************************************************************************)
(* Proofs about the services around the scan workers, for any number of    *)
(* processes, requests and rows: the permits of Xray (XrayPermits), the    *)
(* step log (StepTimeline), the deletion of a scan group                   *)
(* (ScanGroupDeletion) and the scheduled scans (WatchlistScheduler).       *)
(***************************************************************************)
EXTENDS XrayPermits, StepTimeline, ScanGroupDeletion, WatchlistScheduler, FiniteSetTheorems,
        TLAPS

(* The permits of Xray *)

(* A channel holds at most what it has room for: the bound that the count  *)
(* of the holders inherits.                                                *)
TokensBounded == \A pool \in PermitPools : tokens[pool] <= Concurrency

PermitInv == PermitTypeOK /\ PermitsFitSteps /\ TokensAreHeld /\ TokensBounded

(* The holders of a permit of a pool are finitely many. *)
LEMMA HoldersFinite ==
  ASSUME NEW pool
  PROVE  /\ IsFiniteSet(Holders(pool))
         /\ Cardinality(Holders(pool)) \in Nat
<1>1. Holders(pool) \subseteq Coordinators
  BY DEF Holders
<1>2. IsFiniteSet(Holders(pool))
  BY <1>1, PermitConstants, FS_Subset
<1> QED
  BY <1>2, FS_CardinalityType

(* Acquiring adds the coordinator to the holders of that pool only, and an *)
(* entry to its channel.                                                   *)
LEMMA AcquireKeeps ==
  ASSUME PermitTypeOK, TokensAreHeld, TokensBounded,
         NEW c \in Coordinators, NEW p \in PermitPools,
         ~ permit[c].held, Acquire(c, p)
  PROVE  TokensAreHeld' /\ TokensBounded'
<1>1. /\ tokens \in [PermitPools -> Nat]
      /\ permit \in [Coordinators -> [pool : PermitPools, held : BOOLEAN]]
      /\ Concurrency \in Nat
  BY PermitConstants DEF PermitTypeOK
<1>2. ASSUME NEW q \in PermitPools
      PROVE  /\ tokens'[q] = Cardinality(Holders(q)')
             /\ tokens'[q] <= Concurrency
  <2>1. CASE q = p
    <3>1. Holders(q)' = Holders(q) \cup {c} /\ c \notin Holders(q)
      BY <1>1, <2>1 DEF Holders, Acquire
    <3>2. Cardinality(Holders(q)') = Cardinality(Holders(q)) + 1
      BY <3>1, HoldersFinite, FS_AddElement
    <3>3. tokens'[q] = tokens[q] + 1 /\ tokens[q] < Concurrency
      BY <1>1, <2>1 DEF Acquire
    <3> QED
      BY <1>1, <3>2, <3>3 DEF TokensAreHeld
  <2>2. CASE q # p
    <3>1. Holders(q)' = Holders(q)
      BY <1>1, <2>2 DEF Holders, Acquire
    <3>2. tokens'[q] = tokens[q]
      BY <1>1, <2>2 DEF Acquire
    <3> QED
      BY <3>1, <3>2 DEF TokensAreHeld, TokensBounded
  <2> QED
    BY <2>1, <2>2
<1> QED
  BY <1>2 DEF TokensAreHeld, TokensBounded

(* Releasing takes the coordinator out of the holders of its pool and an   *)
(* entry out of that channel, and leaves the rest.                         *)
LEMMA ReleaseKeeps ==
  ASSUME PermitTypeOK, TokensAreHeld, TokensBounded,
         NEW c \in Coordinators, Release(c)
  PROVE  TokensAreHeld' /\ TokensBounded'
<1>1. /\ tokens \in [PermitPools -> Nat]
      /\ permit \in [Coordinators -> [pool : PermitPools, held : BOOLEAN]]
      /\ permit[c].pool \in PermitPools
      /\ Concurrency \in Nat
  BY PermitConstants DEF PermitTypeOK
<1>2. CASE ~ permit[c].held
  BY <1>2 DEF Release, TokensAreHeld, TokensBounded, Holders
<1>3. CASE permit[c].held
  <2>1. ASSUME NEW q \in PermitPools
        PROVE  /\ tokens'[q] = Cardinality(Holders(q)')
               /\ tokens'[q] <= Concurrency
    <3>1. CASE q = permit[c].pool
      <4>1. Holders(q)' = Holders(q) \ {c} /\ c \in Holders(q)
        BY <1>1, <1>3, <3>1 DEF Holders, Release
      <4>2. Cardinality(Holders(q)') = Cardinality(Holders(q)) - 1
        BY <4>1, HoldersFinite, FS_RemoveElement
      <4>3. tokens'[q] = tokens[q] - 1
        BY <1>1, <1>3, <3>1 DEF Release
      <4> QED
        BY <1>1, <4>2, <4>3 DEF TokensAreHeld, TokensBounded
    <3>2. CASE q # permit[c].pool
      <4>1. Holders(q)' = Holders(q)
        BY <1>1, <1>3, <3>2 DEF Holders, Release
      <4>2. tokens'[q] = tokens[q]
        BY <1>1, <1>3, <3>2 DEF Release
      <4> QED
        BY <4>1, <4>2 DEF TokensAreHeld, TokensBounded
    <3> QED
      BY <3>1, <3>2
  <2> QED
    BY <2>1 DEF TokensAreHeld, TokensBounded
<1> QED
  BY <1>2, <1>3

(* What a release does to the permits. *)
LEMMA ReleaseEffect ==
  ASSUME PermitTypeOK, NEW c \in Coordinators, Release(c)
  PROVE  /\ tokens' \in [PermitPools -> Nat]
         /\ permit' \in [Coordinators -> [pool : PermitPools, held : BOOLEAN]]
         /\ ~ permit'[c].held
         /\ \A d \in Coordinators \ {c} : permit'[d] = permit[d]
<1>1. /\ tokens \in [PermitPools -> Nat]
      /\ permit \in [Coordinators -> [pool : PermitPools, held : BOOLEAN]]
      /\ permit[c].pool \in PermitPools
  BY DEF PermitTypeOK
<1>2. CASE ~ permit[c].held
  BY <1>1, <1>2 DEF Release
<1>3. CASE permit[c].held
  <2>1. tokens' \in [PermitPools -> Nat]
    BY <1>1, <1>3 DEF Release
  <2>2. permit' = [permit EXCEPT ![c].held = FALSE]
    BY <1>3 DEF Release
  <2> QED
    BY <1>1, <2>1, <2>2
<1> QED
  BY <1>2, <1>3

(* What an acquisition does to the permits. *)
LEMMA AcquireEffect ==
  ASSUME PermitTypeOK, NEW c \in Coordinators, NEW p \in PermitPools, Acquire(c, p)
  PROVE  /\ tokens' \in [PermitPools -> Nat]
         /\ permit' \in [Coordinators -> [pool : PermitPools, held : BOOLEAN]]
         /\ permit'[c] = [pool |-> p, held |-> TRUE]
         /\ \A d \in Coordinators \ {c} : permit'[d] = permit[d]
  BY DEF PermitTypeOK, Acquire

(* The empty pools satisfy the invariant. *)
LEMMA PermitInitHolds == PermitInit => PermitInv
<1> SUFFICES ASSUME PermitInit PROVE PermitInv
  OBVIOUS
<1>1. \A pool \in PermitPools : Holders(pool) = {}
  BY DEF PermitInit, Holders
<1>2. TokensAreHeld
  BY <1>1, FS_EmptySet DEF PermitInit, TokensAreHeld
<1>3. PermitTypeOK
  BY PermitConstants DEF PermitInit, PermitTypeOK, StepIs, XraySteps, PermitPools
<1>4. PermitsFitSteps /\ TokensBounded
  BY PermitConstants DEF PermitInit, PermitsFitSteps, TokensBounded, StepIs
<1> QED
  BY <1>2, <1>3, <1>4 DEF PermitInv

(* Every step keeps the types and leaves each coordinator with the permit  *)
(* that its step needs.                                                    *)
LEMMA PermitsStep ==
  ASSUME PermitTypeOK, PermitsFitSteps, [PermitNext]_permitVars
  PROVE  PermitTypeOK' /\ PermitsFitSteps'
<1> USE PermitConstants DEF StepIs, Goes
<1>1. ASSUME NEW c \in Coordinators, NEW s \in XrayScans, TakeJob(c, s)
      PROVE  PermitTypeOK' /\ PermitsFitSteps'
  BY <1>1 DEF TakeJob, PermitTypeOK, PermitsFitSteps, XraySteps, PermitPools
<1>2. ASSUME NEW c \in Coordinators, ClaimWithPermit(c)
      PROVE  PermitTypeOK' /\ PermitsFitSteps'
  <2>1. "work" \in PermitPools /\ Acquire(c, "work")
    BY <1>2 DEF ClaimWithPermit, PermitPools
  <2>2. coordinates[c] \in XrayScans
    BY <1>2 DEF ClaimWithPermit, PermitTypeOK
  <2>3. /\ tokens' \in [PermitPools -> Nat]
        /\ permit' \in [Coordinators -> [pool : PermitPools, held : BOOLEAN]]
        /\ permit'[c] = [pool |-> "work", held |-> TRUE]
        /\ \A d \in Coordinators \ {c} : permit'[d] = permit[d]
    BY <2>1, AcquireEffect
  <2>4. \E step \in {"prepare", "return"} : xrayStep' = [xrayStep EXCEPT ![c] = step]
    BY <1>2 DEF ClaimWithPermit
  <2>5. /\ xrayStep' \in [Coordinators -> XraySteps]
        /\ xrayStep'[c] \in {"prepare", "return"}
        /\ \A d \in Coordinators \ {c} : xrayStep'[d] = xrayStep[d]
    BY <2>4 DEF PermitTypeOK, XraySteps
  <2>6. PermitTypeOK'
    <3>1. xrayScan' \in [XrayScans -> {"pending", "running", "cancelled", "ended"}]
      BY <1>2, <2>2 DEF ClaimWithPermit, PermitTypeOK
    <3>2. xrayQueue' = xrayQueue /\ coordinates' = coordinates
      BY <1>2 DEF ClaimWithPermit
    <3>3. \A d \in Coordinators : coordinates'[d] = NoScan <=> xrayStep'[d] = "idle"
      BY <2>2, <2>5, <3>2 DEF PermitTypeOK
    <3>4. /\ xrayQueue' \subseteq XrayScans
          /\ coordinates' \in [Coordinators -> XrayScans \cup {NoScan}]
      BY <3>2 DEF PermitTypeOK
    <3> QED
      BY <2>3, <2>5, <3>1, <3>3, <3>4 DEF PermitTypeOK
  <2>7. PermitsFitSteps'
    BY <2>3, <2>5 DEF PermitsFitSteps
  <2> QED
    BY <2>6, <2>7
<1>3. ASSUME NEW c \in Coordinators, ReleaseForProvider(c)
      PROVE  PermitTypeOK' /\ PermitsFitSteps'
  BY <1>3, ReleaseEffect DEF ReleaseForProvider, PermitTypeOK, PermitsFitSteps, XraySteps
<1>4. ASSUME NEW c \in Coordinators, ProviderAnswers(c)
      PROVE  PermitTypeOK' /\ PermitsFitSteps'
  BY <1>4 DEF ProviderAnswers, PermitTypeOK, PermitsFitSteps, XraySteps
<1>5. ASSUME NEW c \in Coordinators, ChangePool(c)
      PROVE  PermitTypeOK' /\ PermitsFitSteps'
  BY <1>5, ReleaseEffect DEF ChangePool, PermitTypeOK, PermitsFitSteps, XraySteps
<1>6. ASSUME NEW c \in Coordinators, AcquireImport(c)
      PROVE  PermitTypeOK' /\ PermitsFitSteps'
  <2>1. "import" \in PermitPools /\ Acquire(c, "import")
    BY <1>6 DEF AcquireImport, PermitPools
  <2>2. /\ tokens' \in [PermitPools -> Nat]
        /\ permit' \in [Coordinators -> [pool : PermitPools, held : BOOLEAN]]
        /\ permit'[c] = [pool |-> "import", held |-> TRUE]
        /\ \A d \in Coordinators \ {c} : permit'[d] = permit[d]
    BY <2>1, AcquireEffect
  <2>3. PermitTypeOK'
    BY <1>6, <2>2 DEF AcquireImport, PermitTypeOK, XraySteps
  <2>4. PermitsFitSteps'
    BY <1>6, <2>2 DEF AcquireImport, PermitTypeOK, PermitsFitSteps
  <2> QED
    BY <2>3, <2>4
<1>7. ASSUME NEW c \in Coordinators, FinishImport(c)
      PROVE  PermitTypeOK' /\ PermitsFitSteps'
  <2>1. coordinates[c] \in XrayScans
    BY <1>7 DEF FinishImport, PermitTypeOK
  <2>2. /\ tokens' \in [PermitPools -> Nat]
        /\ permit' \in [Coordinators -> [pool : PermitPools, held : BOOLEAN]]
        /\ ~ permit'[c].held
        /\ \A d \in Coordinators \ {c} : permit'[d] = permit[d]
    BY <1>7, ReleaseEffect DEF FinishImport
  <2>3. PermitTypeOK'
    BY <1>7, <2>1, <2>2 DEF FinishImport, PermitTypeOK, XraySteps
  <2>4. PermitsFitSteps'
    BY <1>7, <2>2 DEF FinishImport, PermitTypeOK, PermitsFitSteps
  <2> QED
    BY <2>3, <2>4
<1>8. ASSUME NEW c \in Coordinators, XrayStepFails(c)
      PROVE  PermitTypeOK' /\ PermitsFitSteps'
  <2>1. coordinates[c] \in XrayScans
    BY <1>8 DEF XrayStepFails, PermitTypeOK
  <2>2. PermitTypeOK'
    BY <1>8, <2>1 DEF XrayStepFails, PermitTypeOK, XraySteps
  <2>3. PermitsFitSteps'
    BY <1>8 DEF XrayStepFails, PermitTypeOK, PermitsFitSteps
  <2> QED
    BY <2>2, <2>3
<1>9. ASSUME NEW c \in Coordinators, NoticeCancel(c)
      PROVE  PermitTypeOK' /\ PermitsFitSteps'
  <2>1. CASE StepIs(c, "import")
    <3>1. /\ tokens' \in [PermitPools -> Nat]
          /\ permit' \in [Coordinators -> [pool : PermitPools, held : BOOLEAN]]
          /\ \A d \in Coordinators \ {c} : permit'[d] = permit[d]
      BY <1>9, <2>1, ReleaseEffect DEF NoticeCancel
    <3>2. PermitTypeOK'
      BY <1>9, <2>1, <3>1 DEF NoticeCancel, PermitTypeOK, XraySteps
    <3>3. PermitsFitSteps'
      BY <1>9, <2>1, <3>1 DEF NoticeCancel, PermitTypeOK, PermitsFitSteps
    <3> QED
      BY <3>2, <3>3
  <2>2. CASE ~ StepIs(c, "import")
    BY <1>9, <2>2 DEF NoticeCancel, PermitTypeOK, PermitsFitSteps, XraySteps
  <2> QED
    BY <2>1, <2>2
<1>10. ASSUME NEW c \in Coordinators, EndJob(c)
       PROVE  PermitTypeOK' /\ PermitsFitSteps'
  BY <1>10, ReleaseEffect DEF EndJob, PermitTypeOK, PermitsFitSteps, XraySteps
<1>11. ASSUME NEW s \in XrayScans, CancelXrayScan(s)
       PROVE  PermitTypeOK' /\ PermitsFitSteps'
  BY <1>11 DEF CancelXrayScan, PermitTypeOK, PermitsFitSteps
<1>12. CASE UNCHANGED permitVars
  BY <1>12 DEF permitVars, PermitTypeOK, PermitsFitSteps
<1> QED
  BY <1>1, <1>2, <1>3, <1>4, <1>5, <1>6, <1>7, <1>8, <1>9, <1>10, <1>11, <1>12 DEF PermitNext

(* Every step leaves in the channels the permits that are held.  A step    *)
(* that acquires does so without a permit, which is where the fit of       *)
(* permits and steps is needed: a second one would overwrite the first.    *)
LEMMA TokensStep ==
  ASSUME PermitInv, [PermitNext]_permitVars
  PROVE  TokensAreHeld' /\ TokensBounded'
<1> USE DEF PermitInv
<1>1. ASSUME NEW c \in Coordinators, NEW s \in XrayScans, TakeJob(c, s)
      PROVE  TokensAreHeld' /\ TokensBounded'
  <2>1. ~ permit[c].held /\ ~ permit'[c].held
    BY <1>1 DEF TakeJob, PermitsFitSteps, StepIs, PermitTypeOK
  <2>2. \A pool : Holders(pool)' = Holders(pool)
    BY <1>1, <2>1 DEF TakeJob, Holders, PermitTypeOK
  <2> QED
    BY <1>1, <2>2 DEF TakeJob, TokensAreHeld, TokensBounded
<1>2. ASSUME NEW c \in Coordinators, ClaimWithPermit(c)
      PROVE  TokensAreHeld' /\ TokensBounded'
  <2>1. ~ permit[c].held /\ Acquire(c, "work") /\ "work" \in PermitPools
    BY <1>2 DEF ClaimWithPermit, PermitsFitSteps, StepIs, PermitPools
  <2> QED
    BY <2>1, AcquireKeeps
<1>3. ASSUME NEW c \in Coordinators, AcquireImport(c)
      PROVE  TokensAreHeld' /\ TokensBounded'
  <2>1. ~ permit[c].held /\ Acquire(c, "import") /\ "import" \in PermitPools
    BY <1>3 DEF AcquireImport, PermitsFitSteps, StepIs, PermitPools
  <2> QED
    BY <2>1, AcquireKeeps
<1>4. ASSUME NEW c \in Coordinators, Release(c)
      PROVE  TokensAreHeld' /\ TokensBounded'
  BY <1>4, ReleaseKeeps
<1>5. CASE UNCHANGED <<tokens, permit>>
  BY <1>5 DEF TokensAreHeld, TokensBounded, Holders
<1> QED
  BY <1>1, <1>2, <1>3, <1>4, <1>5
  DEF PermitNext, permitVars, ReleaseForProvider, ProviderAnswers, ChangePool, FinishImport,
      XrayStepFails, NoticeCancel, EndJob, CancelXrayScan

(* The coordinators at a step that needs a permit are among its holders,   *)
(* who are as many as the entries of the channel.                          *)
LEMMA HoldersBoundWork == PermitInv => CapacityIsKept
<1> SUFFICES ASSUME PermitInv PROVE CapacityIsKept
  OBVIOUS
<1>1. ASSUME NEW step, NEW pool \in PermitPools,
             \A c \in Coordinators : StepIs(c, step) => permit[c] = [pool |-> pool, held |-> TRUE]
      PROVE  Cardinality({c \in Coordinators : StepIs(c, step)}) <= Concurrency
  <2>1. {c \in Coordinators : StepIs(c, step)} \subseteq Holders(pool)
    BY <1>1 DEF Holders
  <2>2. /\ Cardinality({c \in Coordinators : StepIs(c, step)}) <= Cardinality(Holders(pool))
        /\ Cardinality({c \in Coordinators : StepIs(c, step)}) \in Nat
    BY <2>1, HoldersFinite, FS_Subset, FS_CardinalityType
  <2>3. Cardinality(Holders(pool)) <= Concurrency
    BY DEF PermitInv, TokensAreHeld, TokensBounded
  <2> QED
    BY <2>2, <2>3, HoldersFinite, PermitConstants
<1>2. Cardinality({c \in Coordinators : StepIs(c, "prepare")}) <= Concurrency
  BY <1>1 DEF PermitInv, PermitsFitSteps, PermitPools
<1>3. Cardinality({c \in Coordinators : StepIs(c, "import")}) <= Concurrency
  BY <1>1 DEF PermitInv, PermitsFitSteps, PermitPools
<1> QED
  BY <1>2, <1>3 DEF CapacityIsKept

(* However many scans and coordinators there are and whichever way a scan  *)
(* leaves: no permit is lost, doubled or kept during a wait, and downloads *)
(* and imports stay within the configured number.                          *)
THEOREM PermitsStaySound == PermitSpec => []PermitsAreSound
<1>1. PermitInv /\ [PermitNext]_permitVars => PermitInv'
  BY PermitsStep, TokensStep DEF PermitInv
<1>2. PermitInv => PermitsAreSound
  BY HoldersBoundWork DEF PermitInv, PermitsAreSound
<1> QED
  BY PermitInitHolds, <1>1, <1>2, PTL DEF PermitSpec

-----------------------------------------------------------------------------
(* The step log *)

StepsMovedTo == {"queued"} \cup StepsTaken
StepNames    == StepsMovedTo \cup TerminalSteps

LogEntries == [step : StepNames, position : Nat, open : BOOLEAN]

(* What a writer has: a step, and later the entry it goes after.           *)
Begun   == [at : {"read"}, step : StepsMovedTo] \cup [at : {"read end"}, step : TerminalSteps]
Writing == [at : {"again", "close", "move", "insert"}, step : StepsMovedTo, after : Nat, entry : Nat,
            stay : BOOLEAN]
Ending  == [at : {"close", "insert"}, step : TerminalSteps, after : Nat, entry : Nat]

Logged(step) == \E i \in DOMAIN stepLog : stepLog[i].step = step

StepData ==
    /\ stepLog \in Seq(LogEntries) /\ Len(stepLog) > 0
    /\ scanRow \in [status : {"pending", "running"} \cup TerminalSteps, step : StepNames]
    /\ stepWriter \in [StepWriters -> {Quiet} \cup Begun \cup Writing \cup Ending]
    /\ stepFaults \in Nat

(* The entry a writer goes after stays, and one that takes its step again  *)
(* has an entry for it.                                                    *)
WriterFits(w) ==
    /\ stepWriter[w] \in Writing \cup Ending =>
         /\ stepWriter[w].entry \in DOMAIN stepLog
         /\ stepWriter[w].after < Len(stepLog)
    /\ WriterAt(w, "again") => Logged(stepWriter[w].step)

StepInv ==
    /\ StepTypeOK /\ StepData /\ StepIsLogged
    /\ \A w \in StepWriters : WriterFits(w)

LEMMA SingleEntry ==
  ASSUME NEW S, NEW e \in S
  PROVE  /\ <<e>> \in Seq(S) /\ Len(<<e>>) = 1
         /\ DOMAIN <<e>> = {1} /\ <<e>>[1] = e
<1>1. <<e>> \in Seq(S)
  OBVIOUS
<1>2. Len(<<e>>) = 1 /\ <<e>>[1] = e
  OBVIOUS
<1>3. DOMAIN <<e>> = 1 .. 1
  OBVIOUS
<1> QED
  BY <1>1, <1>2, <1>3

LEMMA StepInitInv == StepInit => StepInv
<1> SUFFICES ASSUME StepInit PROVE StepInv
  OBVIOUS
<1> USE DEF StepInit
<1> DEFINE e == [step |-> "queued", position |-> 0, open |-> TRUE]
<1>0. stepLog = <<e>> /\ e.step = "queued" /\ e.position = 0 /\ e.open = TRUE
  OBVIOUS
<1>1. e \in LogEntries
  BY DEF LogEntries, StepNames, StepsMovedTo
<1> HIDE DEF e
<1>2. stepLog \in Seq(LogEntries) /\ Len(stepLog) = 1 /\ DOMAIN stepLog = {1} /\ stepLog[1] = e
  BY <1>0, <1>1, SingleEntry
<1>3. StepData
  <2>1. scanRow \in [status : {"pending", "running"} \cup TerminalSteps, step : StepNames]
    BY DEF StepNames, StepsMovedTo
  <2>2. stepWriter \in [StepWriters -> {Quiet} \cup Begun \cup Writing \cup Ending]
    OBVIOUS
  <2> QED
    BY <1>2, <2>1, <2>2 DEF StepData
<1>4. StepTypeOK
  <2>1. scanRow.status = "pending" /\ ~ RowEnded
    BY DEF RowEnded, TerminalSteps
  <2>2. Len(WorkerSteps) \in Nat
    BY StepConstants
  <2>3. nextStep \in 1 .. Len(WorkerSteps) + 1
    BY <2>2
  <2>4. scanRow.status \in {"pending", "running"} \cup TerminalSteps
    OBVIOUS
  <2>5. \A i \in DOMAIN stepLog : i = 1
    BY <1>2
  <2>6. stepLog[1].position < Len(stepLog) /\ stepLog[1].open \in BOOLEAN
    <3>1. e.position = 0 /\ e.open \in BOOLEAN
      BY <1>0, <1>1 DEF LogEntries
    <3>2. stepLog[1] = e /\ Len(stepLog) = 1
      BY <1>2
    <3> HIDE DEF StepInit
    <3> QED
      BY <3>1, <3>2
  <2> HIDE DEF StepInit
  <2> QED
    BY <2>1, <2>3, <2>4, <2>5, <2>6 DEF StepTypeOK
<1>5. StepIsLogged
  BY <1>0, <1>2 DEF StepIsLogged
<1>6. \A w \in StepWriters : stepWriter[w] = Quiet /\ Quiet \notin Writing \cup Ending
  BY DEF Quiet, Writing, Ending
<1>7. \A w \in StepWriters : WriterFits(w)
  BY <1>6 DEF WriterFits, WriterAt, Quiet
<1> QED
  BY <1>3, <1>4, <1>5, <1>7 DEF StepInv

(* A step that leaves the log alone: the scan's step has an entry still,   *)
(* or its writer goes on.                                                  *)
LEMMA WriterSteps ==
  ASSUME StepInv, NEW w \in StepWriters, NEW r \in {Quiet} \cup Begun \cup Writing \cup Ending,
         stepWriter' = [stepWriter EXCEPT ![w] = r],
         WriterFits(w)',
         stepLog' \in Seq(LogEntries), Len(stepLog') >= Len(stepLog),
         \A i \in DOMAIN stepLog : stepLog'[i].step = stepLog[i].step,
         \A i \in DOMAIN stepLog' :
            stepLog'[i].position < Len(stepLog') /\ stepLog'[i].open \in BOOLEAN,
         scanRow' \in [status : {"pending", "running"} \cup TerminalSteps, step : StepNames],
         scanRow'.status \in TerminalSteps => scanRow'.step = scanRow'.status,
         nextStep' \in 1 .. Len(WorkerSteps) + 1,
         stepFaults' \in Nat, stepFaults' >= stepFaults,
         \/ r.at # "idle" /\ r.step = scanRow'.step
         \/ scanRow'.step = scanRow.step
            /\ (WriterAt(w, "idle") \/ stepWriter[w].step # scanRow.step)
         \/ Logged(scanRow.step)'
         \/ stepFaults' > 0
  PROVE  StepInv'
<1>1. /\ stepWriter' \in [StepWriters -> {Quiet} \cup Begun \cup Writing \cup Ending]
      /\ stepWriter'[w] = r
      /\ \A v \in StepWriters \ {w} : stepWriter'[v] = stepWriter[v]
  BY DEF StepInv, StepData
<1>2. \A i \in DOMAIN stepLog : i \in DOMAIN stepLog'
  BY DEF StepInv, StepData
<1>3. \A step : Logged(step) => Logged(step)'
  BY <1>2 DEF Logged
<1>4. StepData' /\ StepTypeOK'
  BY <1>1 DEF StepInv, StepData, StepTypeOK, RowEnded
<1>5. StepIsLogged'
  BY <1>1, <1>3 DEF StepInv, StepData, StepIsLogged, WriterAt, Logged
<1>6. ASSUME NEW v \in StepWriters \ {w} PROVE WriterFits(v)'
  <2>1. WriterFits(v) /\ stepWriter'[v] = stepWriter[v] /\ Len(stepLog) \in Nat /\ Len(stepLog') \in Nat
    BY <1>1 DEF StepInv, StepData
  <2>2. stepWriter[v] \in Writing \cup Ending => stepWriter[v].after \in Nat
    BY DEF Writing, Ending
  <2> QED
    BY <1>2, <1>3, <2>1, <2>2 DEF WriterFits, WriterAt
<1> QED
  BY <1>4, <1>5, <1>6 DEF StepInv

(* The cases in which a writer leaves the log alone, or its row.           *)
LEMMA LogIsTyped ==
  ASSUME StepInv
  PROVE  /\ Len(stepLog) \in Nat
         /\ \A i \in DOMAIN stepLog : stepLog[i] \in LogEntries
         /\ \A i \in DOMAIN stepLog :
               stepLog[i].position < Len(stepLog) /\ stepLog[i].open \in BOOLEAN
         /\ stepFaults >= stepFaults
         /\ scanRow.status \in TerminalSteps => scanRow.step = scanRow.status
BY DEF StepInv, StepData, StepTypeOK, RowEnded

(* A step with a writer of its own that leaves the log alone.              *)
LEMMA QuietSteps ==
  ASSUME StepInv, NEW w \in StepWriters, NEW r \in {Quiet} \cup Begun \cup Writing \cup Ending,
         stepWriter' = [stepWriter EXCEPT ![w] = r],
         stepLog' = stepLog,
         r \in Writing \cup Ending => r.entry \in DOMAIN stepLog /\ r.after < Len(stepLog),
         r.at = "again" => Logged(r.step),
         scanRow' \in [status : {"pending", "running"} \cup TerminalSteps, step : StepNames],
         scanRow'.status \in TerminalSteps => scanRow'.step = scanRow'.status,
         nextStep' \in 1 .. Len(WorkerSteps) + 1,
         stepFaults' \in Nat, stepFaults' >= stepFaults,
         \/ r.at # "idle" /\ r.step = scanRow'.step
         \/ scanRow'.step = scanRow.step
            /\ (WriterAt(w, "idle") \/ stepWriter[w].step # scanRow.step)
         \/ Logged(scanRow'.step)
         \/ stepFaults' > 0
  PROVE  StepInv'
<1>1. stepWriter'[w] = r
  BY DEF StepInv, StepData
<1>2. \A step : Logged(step) => Logged(step)'
  BY DEF Logged
<1>3. WriterFits(w)'
  BY <1>1, <1>2 DEF WriterFits, WriterAt
<1>4. Logged(scanRow'.step) => Logged(scanRow.step)'
  BY DEF Logged
<1>5. stepLog' \in Seq(LogEntries) /\ Len(stepLog') >= Len(stepLog)
  BY LogIsTyped DEF StepInv, StepData
<1> QED
  BY <1>3, <1>4, <1>5, LogIsTyped, WriterSteps

-----------------------------------------------------------------------------
(* The steps *)

LEMMA ScanRowKeeps ==
  ASSUME StepInv, ClaimForSteps \/ FailInterrupted \/ UNCHANGED stepVars
  PROVE  StepInv'
<1>1. UNCHANGED <<stepLog, stepWriter, nextStep>>
  BY DEF ClaimForSteps, FailInterrupted, stepVars
<1>2. /\ scanRow' \in [status : {"pending", "running"} \cup TerminalSteps, step : StepNames]
      /\ scanRow'.status \in TerminalSteps => scanRow'.step = scanRow'.status
      /\ scanRow'.step = scanRow.step \/ stepFaults' > 0
      /\ stepFaults' \in Nat /\ stepFaults' >= stepFaults
  <2>1. scanRow \in [status : {"pending", "running"} \cup TerminalSteps, step : StepNames]
        /\ stepFaults \in Nat
    BY DEF StepInv, StepData
  <2>2. CASE ClaimForSteps
    BY <2>1, <2>2 DEF ClaimForSteps, TerminalSteps
  <2>3. CASE FailInterrupted
    BY <2>1, <2>3 DEF FailInterrupted, TerminalSteps, StepNames
  <2>4. CASE UNCHANGED stepVars
    BY <2>1, <2>4, LogIsTyped DEF stepVars
  <2> QED
    BY <2>2, <2>3, <2>4
<1>3. StepTypeOK' /\ StepData'
  BY <1>1, <1>2 DEF StepInv, StepData, StepTypeOK, RowEnded
<1>4. StepIsLogged'
  BY <1>1, <1>2 DEF StepInv, StepData, StepIsLogged, WriterAt
<1>5. (\A w \in StepWriters : WriterFits(w))'
  BY <1>1 DEF StepInv, WriterFits, WriterAt, Logged
<1> QED
  BY <1>3, <1>4, <1>5 DEF StepInv

LEMMA BeginStepKeeps ==
  ASSUME StepInv, NEW w \in StepWriters, NEW step \in {"queued"} \cup StepsTaken,
         BeginStep(w, step)
  PROVE  StepInv'
<1> DEFINE r == [at |-> "read", step |-> step]
<1>1. /\ WriterAt(w, "idle") /\ stepWriter' = [stepWriter EXCEPT ![w] = r]
      /\ UNCHANGED <<stepLog, scanRow, stepFaults>>
  BY DEF BeginStep
<1>2. nextStep' \in 1 .. Len(WorkerSteps) + 1
  <2>1. Len(WorkerSteps) \in Nat
    BY StepConstants
  <2> QED
    BY <2>1 DEF BeginStep, StepInv, StepTypeOK
<1>3. step \in StepsMovedTo
  BY DEF StepsMovedTo
<1>4. r \in Begun /\ r.at = "read" /\ r.step = step /\ r \notin Writing \cup Ending
  BY <1>3 DEF Begun, Writing, Ending
<1> HIDE DEF r
<1>5. scanRow \in [status : {"pending", "running"} \cup TerminalSteps, step : StepNames]
      /\ stepFaults \in Nat
  BY DEF StepInv, StepData
<1> QED
  BY <1>1, <1>2, <1>3, <1>4, <1>5, LogIsTyped, QuietSteps

LEMMA ReadLatestKeeps ==
  ASSUME StepInv, NEW w \in StepWriters, ReadLatest(w)
  PROVE  StepInv'
<1>1. WriterAt(w, "read") /\ UNCHANGED <<stepLog, scanRow, nextStep, stepFaults>>
  BY DEF ReadLatest
<1>2. PICK i \in LatestEntries :
         stepWriter' = [stepWriter EXCEPT ![w] =
             [at |-> IF stepLog[i].step = @.step THEN "again"
                     ELSE IF stepLog[i].open THEN "close" ELSE "move",
              step |-> @.step, after |-> stepLog[i].position, entry |-> i,
              stay |-> stepLog[i].open]]
  BY DEF ReadLatest
<1> DEFINE step == stepWriter[w].step
           at == IF stepLog[i].step = step THEN "again"
                 ELSE IF stepLog[i].open THEN "close" ELSE "move"
           r == [at |-> at, step |-> step, after |-> stepLog[i].position, entry |-> i,
                 stay |-> stepLog[i].open]
<1>3. stepWriter' = [stepWriter EXCEPT ![w] = r]
  BY <1>2
<1>4. /\ i \in DOMAIN stepLog /\ i \in Nat /\ stepLog[i] \in LogEntries
      /\ stepLog[i].position \in Nat /\ stepLog[i].position < Len(stepLog)
      /\ stepLog[i].open \in BOOLEAN
  BY LogIsTyped DEF LatestEntries, LogEntries, StepInv, StepData
<1>5. step \in StepsMovedTo
  <2>1. stepWriter[w] \in {Quiet} \cup Begun \cup Writing \cup Ending /\ stepWriter[w].at = "read"
    BY <1>1 DEF StepInv, StepData, WriterAt
  <2>2. stepWriter[w] \notin Writing \cup Ending \cup [at : {"read end"}, step : TerminalSteps]
    BY <2>1 DEF Writing, Ending
  <2>3. Quiet.at = "idle"
    BY DEF Quiet
  <2>4. stepWriter[w] \in [at : {"read"}, step : StepsMovedTo]
    BY <2>1, <2>2, <2>3 DEF Begun
  <2> QED
    BY <2>4
<1>6. at \in {"again", "close", "move"} /\ (at = "again" => Logged(step))
  BY <1>4 DEF Logged
<1> HIDE DEF at, step
<1>7. /\ r \in Writing /\ r.at = at /\ r.step = step /\ r.entry = i
      /\ r.after = stepLog[i].position
  BY <1>4, <1>5, <1>6 DEF Writing
<1> HIDE DEF r
<1>8. scanRow \in [status : {"pending", "running"} \cup TerminalSteps, step : StepNames]
      /\ stepFaults \in Nat /\ nextStep \in 1 .. Len(WorkerSteps) + 1
  BY DEF StepInv, StepData, StepTypeOK
<1>9. r.at # "idle" /\ (scanRow.step = step \/ step # scanRow.step)
  BY <1>6, <1>7
<1> QED
  BY <1>1, <1>3, <1>4, <1>5, <1>6, <1>7, <1>8, <1>9, LogIsTyped, QuietSteps DEF step

(* A writer's record after a step of its own that keeps what it has.       *)
LEMMA WriterHas ==
  ASSUME StepInv, NEW w \in StepWriters, ~ WriterAt(w, "idle"), ~ WriterAt(w, "read"),
         ~ WriterAt(w, "read end")
  PROVE  /\ stepWriter[w] \in Writing \cup Ending
         /\ stepWriter[w].after \in Nat /\ stepWriter[w].entry \in Nat
         /\ stepWriter[w].entry \in DOMAIN stepLog /\ stepWriter[w].after < Len(stepLog)
<1>1. stepWriter[w] \in {Quiet} \cup Begun \cup Writing \cup Ending
  BY DEF StepInv, StepData
<1>2. stepWriter[w] # Quiet
  <2>1. Quiet.at = "idle"
    BY DEF Quiet
  <2> QED
    BY <2>1 DEF WriterAt
<1>3. stepWriter[w] \notin Begun
  BY DEF WriterAt, Begun
<1>4. stepWriter[w] \in Writing \cup Ending
  BY <1>1, <1>2, <1>3
<1> QED
  BY <1>4 DEF StepInv, WriterFits, Writing, Ending

LEMMA MoveKeeps ==
  ASSUME StepInv, NEW w \in StepWriters, MoveAgain(w) \/ MoveCurrentStep(w)
  PROVE  StepInv'
<1> DEFINE s == stepWriter[w].step
<1>1. /\ WriterAt(w, "again") \/ WriterAt(w, "move")
      /\ UNCHANGED <<stepLog, nextStep, stepFaults>>
  BY DEF MoveAgain, MoveCurrentStep
<1>2. /\ stepWriter[w] \in Writing \cup Ending 
      /\ stepWriter[w].entry \in DOMAIN stepLog /\ stepWriter[w].after < Len(stepLog)
  BY <1>1, WriterHas DEF WriterAt
<1>3. stepWriter[w] \in Writing /\ s \in StepsMovedTo
  BY <1>1, <1>2 DEF WriterAt, Ending, Writing
<1>4. /\ scanRow \in [status : {"pending", "running"} \cup TerminalSteps, step : StepNames]
      /\ scanRow.status \in TerminalSteps => scanRow.step = scanRow.status
      /\ stepFaults \in Nat /\ nextStep \in 1 .. Len(WorkerSteps) + 1
  BY LogIsTyped DEF StepInv, StepData, StepTypeOK
<1>5. s \in StepNames /\ s \notin TerminalSteps
  BY <1>3, StepConstants DEF StepNames, StepsMovedTo, TerminalSteps
<1>6. /\ Quiet.at = "idle" /\ Quiet \notin Writing \cup Ending
  BY DEF Quiet, Writing, Ending
<1>7. CASE RowEnded
  <2>1. scanRow' = scanRow /\ stepWriter' = [stepWriter EXCEPT ![w] = Quiet]
    BY <1>7 DEF MoveAgain, MoveCurrentStep, WriterStops
  <2>2. scanRow'.step = scanRow.step /\ s # scanRow.step
    BY <1>4, <1>5, <1>7, <2>1 DEF RowEnded
  <2> QED
    BY <1>1, <1>4, <1>6, <2>1, <2>2, LogIsTyped, QuietSteps
<1>8. CASE ~ RowEnded
  <2>1. scanRow' = [scanRow EXCEPT !.step = s]
    BY <1>8 DEF MoveAgain, MoveCurrentStep, MoveRow
  <2>2. /\ scanRow' \in [status : {"pending", "running"} \cup TerminalSteps, step : StepNames]
        /\ scanRow'.step = s /\ scanRow'.status = scanRow.status
    BY <1>4, <1>5, <2>1
  <2>3. scanRow'.status \notin TerminalSteps
    BY <1>8, <2>2 DEF RowEnded
  <2>4. CASE stepWriter' = [stepWriter EXCEPT ![w] = Quiet] /\ Logged(s)
    BY <1>1, <1>4, <1>6, <2>2, <2>3, <2>4, LogIsTyped, QuietSteps
  <2>5. ASSUME NEW at \in {"move", "insert"}, WriterGoes(w, at)
        PROVE  StepInv'
    <3> DEFINE q == [stepWriter[w] EXCEPT !.at = at]
    <3>1. stepWriter' = [stepWriter EXCEPT ![w] = q]
      BY <2>5 DEF WriterGoes
    <3>2. /\ q \in Writing /\ q.at = at /\ q.step = s
          /\ q.after = stepWriter[w].after /\ q.entry = stepWriter[w].entry
      BY <1>3 DEF Writing
    <3> HIDE DEF q, s
    <3>3. q.at # "idle" /\ q.at # "again" /\ q.at # "read"
      BY <3>2
    <3> QED
      BY <1>1, <1>2, <1>4, <2>2, <2>3, <2>5, <3>1, <3>2, <3>3, LogIsTyped, QuietSteps
  <2>6. CASE MoveAgain(w)
    <3>1. Logged(s)
      BY <2>6 DEF MoveAgain, StepInv, WriterFits
    <3> QED
      BY <1>8, <2>4, <2>5, <2>6, <3>1 DEF MoveAgain, WriterStops
  <2>7. CASE MoveCurrentStep(w)
    BY <1>8, <2>5, <2>7 DEF MoveCurrentStep
  <2> QED
    BY <2>6, <2>7
<1> QED
  BY <1>7, <1>8

LEMMA CloseLatestKeeps ==
  ASSUME StepInv, NEW w \in StepWriters, CloseLatest(w)
  PROVE  StepInv'
<1> DEFINE s == stepWriter[w].step
           i == stepWriter[w].entry
           at == IF s \in TerminalSteps THEN "insert" ELSE "move"
           q == [stepWriter[w] EXCEPT !.at = at]
<1>1. /\ WriterAt(w, "close")
      /\ stepLog' = [stepLog EXCEPT ![i].open = FALSE]
      /\ stepWriter' = [stepWriter EXCEPT ![w] = q]
      /\ UNCHANGED <<scanRow, nextStep, stepFaults>>
  BY DEF CloseLatest, WriterGoes
<1>2. /\ stepWriter[w] \in Writing \cup Ending /\ stepWriter[w].after \in Nat
      /\ i \in DOMAIN stepLog /\ stepWriter[w].after < Len(stepLog)
  BY <1>1, WriterHas DEF WriterAt
<1>3. /\ q \in Writing \cup Ending /\ q.at \in {"insert", "move"} /\ q.step = s
      /\ q.after = stepWriter[w].after /\ q.entry = i
  <2>1. CASE stepWriter[w] \in Writing
    BY <2>1 DEF Writing
  <2>2. CASE stepWriter[w] \in Ending
    BY <2>2 DEF Ending
  <2> QED
    BY <1>2, <2>1, <2>2
<1> HIDE DEF q, s, i
<1>4. /\ stepLog' \in Seq(LogEntries) /\ Len(stepLog') = Len(stepLog) /\ DOMAIN stepLog' = DOMAIN stepLog
      /\ \A j \in DOMAIN stepLog :
            /\ stepLog'[j].step = stepLog[j].step /\ stepLog'[j].position = stepLog[j].position
            /\ stepLog'[j].open \in BOOLEAN
  <2> DEFINE e == [stepLog[i] EXCEPT !.open = FALSE]
  <2>1. stepLog \in Seq(LogEntries) /\ stepLog[i] \in LogEntries
    BY <1>2, LogIsTyped DEF StepInv, StepData
  <2>2. e \in LogEntries /\ e.step = stepLog[i].step /\ e.position = stepLog[i].position
    BY <2>1 DEF LogEntries
  <2>3. stepLog' = [stepLog EXCEPT ![i] = e]
    BY <1>1
  <2> HIDE DEF e
  <2>4. /\ stepLog' \in Seq(LogEntries) /\ Len(stepLog') = Len(stepLog)
        /\ DOMAIN stepLog' = DOMAIN stepLog
    BY <1>2, <2>1, <2>2, <2>3
  <2>5. \A j \in DOMAIN stepLog : stepLog'[j] = IF j = i THEN e ELSE stepLog[j]
    BY <1>2, <2>1, <2>3
  <2>6. \A j \in DOMAIN stepLog : stepLog'[j] \in LogEntries
    BY <2>4
  <2> QED
    BY <2>2, <2>4, <2>5, <2>6 DEF LogEntries
<1>5. \A j \in DOMAIN stepLog' :
        stepLog'[j].position < Len(stepLog') /\ stepLog'[j].open \in BOOLEAN
  BY <1>4, LogIsTyped
<1>6. WriterFits(w)'
  <2>1. stepWriter'[w] = q
    BY <1>1 DEF StepInv, StepData
  <2> QED
    BY <1>2, <1>3, <1>4, <2>1 DEF WriterFits, WriterAt
<1>7. Len(stepLog') >= Len(stepLog) /\ \A j \in DOMAIN stepLog : stepLog'[j].step = stepLog[j].step
  BY <1>4, LogIsTyped
<1>8. /\ scanRow \in [status : {"pending", "running"} \cup TerminalSteps, step : StepNames]
      /\ stepFaults \in Nat /\ nextStep \in 1 .. Len(WorkerSteps) + 1
  BY DEF StepInv, StepData, StepTypeOK
<1>9. q.at # "idle" /\ (scanRow.step = s \/ s # scanRow.step)
  BY <1>3
<1> QED
  BY <1>1, <1>3, <1>4, <1>5, <1>6, <1>7, <1>8, <1>9, LogIsTyped, WriterSteps DEF s

LEMMA InsertEntryKeeps ==
  ASSUME StepInv, NEW w \in StepWriters, InsertEntry(w)
  PROVE  StepInv'
<1> DEFINE s == stepWriter[w].step
           e == [step |-> s, position |-> stepWriter[w].after + 1, open |-> s \notin TerminalSteps]
<1>1. /\ WriterAt(w, "insert")
      /\ stepLog' = Append(stepLog, e)
      /\ stepWriter' = [stepWriter EXCEPT ![w] = Quiet]
      /\ UNCHANGED <<scanRow, nextStep, stepFaults>>
  BY DEF InsertEntry, WriterStops
<1>2. /\ stepWriter[w] \in Writing \cup Ending /\ stepWriter[w].after \in Nat
      /\ stepWriter[w].after < Len(stepLog)
  BY <1>1, WriterHas DEF WriterAt
<1>3. s \in StepNames
  BY <1>2 DEF Writing, Ending, StepNames
<1>4. (s \notin TerminalSteps) \in BOOLEAN /\ stepWriter[w].after + 1 \in Nat
  BY <1>2
<1>5. /\ e \in LogEntries /\ e.step = s /\ e.position = stepWriter[w].after + 1
      /\ e.open \in BOOLEAN
  BY <1>3, <1>4 DEF LogEntries
<1> HIDE DEF e, s
<1>6. stepLog \in Seq(LogEntries) /\ Len(stepLog) \in Nat
  BY LogIsTyped DEF StepInv, StepData
<1>7. /\ stepLog' \in Seq(LogEntries) /\ Len(stepLog') = Len(stepLog) + 1
      /\ stepLog'[Len(stepLog) + 1] = e
      /\ \A j \in DOMAIN stepLog : stepLog'[j] = stepLog[j]
  BY <1>1, <1>5, <1>6
<1>8. /\ \A j \in DOMAIN stepLog' : j \in DOMAIN stepLog \/ j = Len(stepLog) + 1
      /\ Len(stepLog) + 1 \in DOMAIN stepLog'
  BY <1>6, <1>7
<1>9. ASSUME NEW j \in DOMAIN stepLog'
      PROVE  stepLog'[j].position < Len(stepLog') /\ stepLog'[j].open \in BOOLEAN
  <2>1. CASE j = Len(stepLog) + 1
    BY <1>2, <1>5, <1>6, <1>7, <2>1
  <2>2. CASE j \in DOMAIN stepLog
    <3>1. stepLog[j] \in LogEntries /\ stepLog[j].position < Len(stepLog)
      BY <2>2, LogIsTyped
    <3>2. stepLog[j].position \in Nat /\ stepLog[j].open \in BOOLEAN
      BY <3>1 DEF LogEntries
    <3> QED
      BY <1>6, <1>7, <2>2, <3>1, <3>2
  <2> QED
    BY <1>8, <2>1, <2>2
<1>10. WriterFits(w)'
  <2>1. stepWriter'[w] = Quiet
    BY <1>1 DEF StepInv, StepData
  <2>2. Quiet.at = "idle" /\ Quiet \notin Writing \cup Ending
    BY DEF Quiet, Writing, Ending
  <2> QED
    BY <2>1, <2>2 DEF WriterFits, WriterAt
<1>11. Len(stepLog') >= Len(stepLog) /\ \A j \in DOMAIN stepLog : stepLog'[j].step = stepLog[j].step
  BY <1>6, <1>7
<1>12. /\ scanRow \in [status : {"pending", "running"} \cup TerminalSteps, step : StepNames]
       /\ stepFaults \in Nat /\ nextStep \in 1 .. Len(WorkerSteps) + 1
  BY DEF StepInv, StepData, StepTypeOK
<1>13. Logged(scanRow.step)' \/ s # scanRow.step
  BY <1>1, <1>5, <1>7, <1>8 DEF Logged
<1> QED
  BY <1>1, <1>7, <1>9, <1>10, <1>11, <1>12, <1>13, LogIsTyped, WriterSteps DEF s

LEMMA StepWriterFailsKeeps ==
  ASSUME StepInv, NEW w \in StepWriters, StepWriterFails(w)
  PROVE  StepInv'
<1>1. /\ stepWriter' = [stepWriter EXCEPT ![w] = Quiet] /\ stepFaults' = stepFaults + 1
      /\ UNCHANGED <<stepLog, scanRow, nextStep>>
  BY DEF StepWriterFails, WriterStops
<1>2. /\ scanRow \in [status : {"pending", "running"} \cup TerminalSteps, step : StepNames]
      /\ nextStep \in 1 .. Len(WorkerSteps) + 1 /\ stepFaults \in Nat
  BY DEF StepInv, StepData, StepTypeOK
<1>3. stepFaults' \in Nat /\ stepFaults' >= stepFaults /\ stepFaults' > 0
  BY <1>1, <1>2
<1>4. /\ Quiet.at = "idle" /\ Quiet \notin Writing \cup Ending
  BY DEF Quiet, Writing, Ending
<1> QED
  BY <1>1, <1>2, <1>3, <1>4, LogIsTyped, QuietSteps

LEMMA EndScanKeeps ==
  ASSUME StepInv, NEW w \in StepWriters, NEW status \in TerminalSteps, EndScan(w, status)
  PROVE  StepInv'
<1> DEFINE r == [at |-> "read end", step |-> status]
<1>1. /\ stepWriter' = [stepWriter EXCEPT ![w] = r]
      /\ scanRow' = [status |-> status, step |-> status]
      /\ UNCHANGED <<stepLog, nextStep, stepFaults>>
  BY DEF EndScan
<1>2. /\ scanRow' \in [status : {"pending", "running"} \cup TerminalSteps, step : StepNames]
      /\ scanRow'.step = status /\ scanRow'.status = status
  BY <1>1 DEF StepNames
<1>3. r \in Begun /\ r.at = "read end" /\ r.step = status /\ r \notin Writing \cup Ending
  BY DEF Begun, Writing, Ending
<1> HIDE DEF r
<1>4. stepFaults \in Nat /\ nextStep \in 1 .. Len(WorkerSteps) + 1
  BY DEF StepInv, StepData, StepTypeOK
<1> QED
  BY <1>1, <1>2, <1>3, <1>4, LogIsTyped, QuietSteps

LEMMA ReadBeforeEndKeeps ==
  ASSUME StepInv, NEW w \in StepWriters, ReadBeforeEnd(w)
  PROVE  StepInv'
<1> DEFINE s == stepWriter[w].step
<1>1. WriterAt(w, "read end") /\ UNCHANGED <<stepLog, scanRow, nextStep, stepFaults>>
  BY DEF ReadBeforeEnd
<1>2. s \in TerminalSteps
  <2>1. stepWriter[w] \in {Quiet} \cup Begun \cup Writing \cup Ending /\ stepWriter[w].at = "read end"
    BY <1>1 DEF StepInv, StepData, WriterAt
  <2>2. stepWriter[w] \notin Writing \cup Ending \cup [at : {"read"}, step : StepsMovedTo]
    BY <2>1 DEF Writing, Ending
  <2>3. Quiet.at = "idle"
    BY DEF Quiet
  <2>4. stepWriter[w] \in [at : {"read end"}, step : TerminalSteps]
    BY <2>1, <2>2, <2>3 DEF Begun
  <2> QED
    BY <2>4
<1>3. /\ scanRow \in [status : {"pending", "running"} \cup TerminalSteps, step : StepNames]
      /\ nextStep \in 1 .. Len(WorkerSteps) + 1 /\ stepFaults \in Nat
  BY DEF StepInv, StepData, StepTypeOK
<1>4. PICK i \in LatestEntries :
         IF stepLog[i].step = stepWriter[w].step /\ ~ stepLog[i].open
         THEN WriterStops(w)
         ELSE stepWriter' = [stepWriter EXCEPT ![w] =
                [at |-> IF stepLog[i].open THEN "close" ELSE "insert", step |-> @.step,
                 after |-> stepLog[i].position, entry |-> i]]
  BY DEF ReadBeforeEnd
<1>5. /\ i \in DOMAIN stepLog /\ i \in Nat
      /\ stepLog[i].position \in Nat /\ stepLog[i].position < Len(stepLog)
  BY LogIsTyped DEF LatestEntries, LogEntries, StepInv, StepData
<1>6. CASE stepLog[i].step = s /\ ~ stepLog[i].open
  <2>1. stepWriter' = [stepWriter EXCEPT ![w] = Quiet]
    BY <1>4, <1>6 DEF WriterStops
  <2>2. Logged(scanRow'.step) \/ s # scanRow.step
    BY <1>1, <1>5, <1>6 DEF Logged
  <2>3. /\ Quiet.at = "idle" /\ Quiet \notin Writing \cup Ending
    BY DEF Quiet, Writing, Ending
  <2> QED
    BY <1>1, <1>3, <2>1, <2>2, <2>3, LogIsTyped, QuietSteps
<1>7. CASE ~ (stepLog[i].step = s /\ ~ stepLog[i].open)
  <2> DEFINE at == IF stepLog[i].open THEN "close" ELSE "insert"
             r == [at |-> at, step |-> s, after |-> stepLog[i].position, entry |-> i]
  <2>1. stepWriter' = [stepWriter EXCEPT ![w] = r]
    BY <1>4, <1>7
  <2>2. at \in {"close", "insert"}
    OBVIOUS
  <2> HIDE DEF at, s
  <2>3. /\ r \in Ending /\ r.at = at /\ r.step = s /\ r.entry = i
        /\ r.after = stepLog[i].position
    BY <1>2, <1>5, <2>2 DEF Ending
  <2> HIDE DEF r
  <2>4. r.at # "idle" /\ r.at # "again" /\ (scanRow.step = s \/ s # scanRow.step)
    BY <2>2, <2>3
  <2> QED
    BY <1>1, <1>3, <1>5, <2>1, <2>3, <2>4, LogIsTyped, QuietSteps DEF s
<1> QED
  BY <1>6, <1>7

LEMMA StepNextInv == StepInv /\ [StepNext]_stepVars => StepInv'
<1> SUFFICES ASSUME StepInv, [StepNext]_stepVars PROVE StepInv'
  OBVIOUS
<1> QED
  BY ScanRowKeeps, BeginStepKeeps, ReadLatestKeeps, MoveKeeps, CloseLatestKeeps, InsertEntryKeeps,
     StepWriterFailsKeeps, EndScanKeeps, ReadBeforeEndKeeps DEF StepNext

(* The inductive invariant: a writer that is under way goes after an entry *)
(* that is there, and one that takes its step again finds that step logged *)
(* (steps.go).                                                             *)
THEOREM StepInvariant == StepSpec => []StepInv
BY StepInitInv, StepNextInv, PTL DEF StepSpec

(* However many writers move one scan at once, and whichever of their      *)
(* reads and writes come between: the log shows one open entry at its end, *)
(* and the step the scan is in has an entry or a writer that is about to   *)
(* insert it, unless a write failed (setScanStepByID, steps.go).           *)
THEOREM TimelineStaysTrue == StepSpec => []TimelineIsTrue
<1>1. StepInv => TimelineIsTrue
  <2> SUFFICES ASSUME StepInv PROVE TimelineIsTrue
    OBVIOUS
  <2>1. ASSUME NEW i \in DOMAIN stepLog, NEW j \in DOMAIN stepLog, i # j
        PROVE  ShownAfter(i, j) \/ ShownAfter(j, i)
    <3>1. i \in Nat /\ j \in Nat
      BY DEF StepInv, StepData
    <3>2. stepLog[i].position \in Nat /\ stepLog[j].position \in Nat
      BY LogIsTyped DEF LogEntries
    <3> QED
      BY <2>1, <3>1, <3>2 DEF ShownAfter
  <2>2. OneShownRunning
    BY <2>1 DEF OneShownRunning, ShownRunning, HasEnd
  <2> QED
    BY <2>2 DEF StepInv, TimelineIsTrue
<1> QED
  BY <1>1, StepInvariant, PTL

-----------------------------------------------------------------------------
(* The deletion of a scan group *)

DeletionRows ==
    [status : {"none", "queued", "running", "succeeded", "failed"},
     owner : DeletionWorkers \cup {NoWorker}, leased : BOOLEAN,
     accepted : SUBSET ScanNumbers, remaining : SUBSET ScanNumbers,
     current : Nat, retries : Nat]

Deletions ==
    [job : DeletionJobs, step : {"begin", "delete", "save"}, remaining : SUBSET ScanNumbers,
     current : Nat, retries : Nat]

DeletionData ==
    /\ deletionJob \in [DeletionJobs -> DeletionRows]
    /\ deleter \in [DeletionWorkers -> Deletions \cup {NoJob}]
    /\ created \subseteq ScanNumbers /\ IsFiniteSet(created)
    /\ present \subseteq created /\ deletedSingly \subseteq created \ present
    /\ asked \in [DeletionRequests -> SUBSET created]

OneActive == \A i, j \in DeletionJobs : ActiveDeletion(i) /\ ActiveDeletion(j) => i = j

(* What a row's list leaves out is deleted, and counted at most once.      *)
RowIsExact(j) ==
    LET row == deletionJob[j] IN
    /\ row.accepted \subseteq created /\ row.remaining \subseteq row.accepted
    /\ present \cap row.accepted \subseteq row.remaining
    /\ row.status = "succeeded" => present \cap row.accepted = {}
    /\ row.current <= Cardinality(row.accepted \ row.remaining)
    /\ row.retries <= MaxDeletionRetries

(* A worker's own list may be late, and leaves out only what is deleted;   *)
(* that of the owner is the row's.                                         *)
ListOf(w) == IF deleter[w].step = "save" THEN Rest(w) ELSE deleter[w].remaining

DeleterIsExact(w) ==
    LET row == deletionJob[deleter[w].job] IN
    /\ row.status # "none"
    /\ deleter[w].remaining \subseteq row.accepted
    /\ present \cap row.accepted \subseteq ListOf(w)
    /\ deleter[w].retries <= MaxDeletionRetries
    /\ row.owner = w => /\ deleter[w].remaining = row.remaining
                        /\ deleter[w].current = row.current

DeletionInv ==
    /\ DeletionData /\ OneActive /\ OnlyListed
    /\ \A j \in DeletionJobs : RowIsExact(j)
    /\ \A w \in DeletionWorkers : deleter[w] # NoJob => DeleterIsExact(w)

(* A step leaves an owner what it has.                                     *)
SameForOwner(w, j) ==
    deletionJob'[j].owner = w =>
        /\ deletionJob[j].owner = w
        /\ deletionJob'[j].remaining = deletionJob[j].remaining
        /\ deletionJob'[j].current = deletionJob[j].current

LEMMA BatchIsListed == ASSUME NEW rest PROVE Batch(rest) \subseteq rest
BY DEF Batch

(* Counting a batch that leaves the list keeps the count within bounds.    *)
LEMMA BatchIsCounted ==
  ASSUME NEW accepted, IsFiniteSet(accepted), NEW rest \in SUBSET accepted,
         NEW batch \in SUBSET rest, NEW n \in Nat, n <= Cardinality(accepted \ rest)
  PROVE  /\ n + Cardinality(batch) \in Nat
         /\ n + Cardinality(batch) <= Cardinality(accepted \ (rest \ batch))
         /\ n <= Cardinality(accepted \ (rest \ batch))
<1>1. accepted \ (rest \ batch) = (accepted \ rest) \cup batch /\ (accepted \ rest) \cap batch = {}
  OBVIOUS
<1>2. IsFiniteSet(accepted \ rest) /\ IsFiniteSet(batch)
  BY FS_Subset, FS_Difference
<1>3. Cardinality((accepted \ rest) \cup batch)
        = Cardinality(accepted \ rest) + Cardinality(batch) - Cardinality((accepted \ rest) \cap batch)
  BY <1>2, FS_Union
<1>4. /\ Cardinality(accepted \ rest) \in Nat /\ Cardinality(batch) \in Nat
      /\ Cardinality((accepted \ rest) \cap batch) = 0
  BY <1>1, <1>2, FS_CardinalityType, FS_EmptySet
<1>5. Cardinality(accepted \ (rest \ batch)) = Cardinality((accepted \ rest) \cup batch)
  BY <1>1
<1> QED
  BY <1>3, <1>4, <1>5

(* Setting a row changes that one.                                         *)
LEMMA RowSets ==
  ASSUME DeletionData, NEW j \in DeletionJobs, NEW row \in DeletionRows, SetDeletion(j, row)
  PROVE  /\ deletionJob' \in [DeletionJobs -> DeletionRows]
         /\ deletionJob'[j] = row
         /\ \A i \in DeletionJobs \ {j} : deletionJob'[i] = deletionJob[i]
BY DEF DeletionData, SetDeletion

(* Where the scans, the rows and the workers' lists may go in one step.    *)
LEMMA DeletionMoves ==
  ASSUME DeletionInv,
         deletionJob' \in [DeletionJobs -> DeletionRows],
         deleter' \in [DeletionWorkers -> Deletions \cup {NoJob}],
         UNCHANGED <<created, deletedSingly, asked>>,
         present' \subseteq present,
         \A s \in present \ present' : \E j \in DeletionJobs : s \in deletionJob[j].accepted,
         \A j \in DeletionJobs :
            /\ deletionJob'[j].accepted = deletionJob[j].accepted
            /\ deletionJob'[j].status \in {"queued", "running"} => ActiveDeletion(j)
            /\ deletionJob'[j].status = "none" => deletionJob[j].status = "none"
            /\ deletionJob'[j] = deletionJob[j] \/ RowIsExact(j)',
         \A w \in DeletionWorkers : deleter'[w] # NoJob =>
            \/ DeleterIsExact(w)'
            \/ /\ deleter'[w] = deleter[w]
               /\ SameForOwner(w, deleter[w].job)
  PROVE  DeletionInv'
<1>1. DeletionData'
  BY DEF DeletionInv, DeletionData
<1>2. OneActive'
  BY DEF DeletionInv, OneActive, ActiveDeletion
<1>3. OnlyListed'
  <2> SUFFICES ASSUME NEW s \in created \ (present' \cup deletedSingly)
               PROVE  \E j \in DeletionJobs : s \in deletionJob[j].accepted
    BY DEF OnlyListed
  <2> QED
    BY DEF DeletionInv, OnlyListed
<1>4. \A j \in DeletionJobs : RowIsExact(j)'
  BY DEF DeletionInv, RowIsExact
<1>5. ASSUME NEW w \in DeletionWorkers, deleter'[w] # NoJob
      PROVE  DeleterIsExact(w)'
  <2> SUFFICES ASSUME deleter'[w] = deleter[w],
                      SameForOwner(w, deleter[w].job)
               PROVE  DeleterIsExact(w)'
    BY <1>5
  <2>1. deleter[w].job \in DeletionJobs
    BY <1>5 DEF DeletionInv, DeletionData, Deletions
  <2>2. DeleterIsExact(w)
    BY <1>5 DEF DeletionInv
  <2> QED
    BY <2>1, <2>2 DEF DeleterIsExact, ListOf, Rest, SameForOwner
<1> QED
  BY <1>1, <1>2, <1>3, <1>4, <1>5 DEF DeletionInv

-----------------------------------------------------------------------------
(* Scans and requests *)

LEMMA DeletionInitInv == DeletionInit => DeletionInv
<1> SUFFICES ASSUME DeletionInit PROVE DeletionInv
  OBVIOUS
<1> USE DEF DeletionInit
<1>1. NoRow \in DeletionRows
  BY DEF NoRow, DeletionRows
<1>2. DeletionData
  BY <1>1, DeletionConstants DEF DeletionData
<1>3. \A j \in DeletionJobs : deletionJob[j] = NoRow
  OBVIOUS
<1>4. OneActive /\ OnlyListed
  BY <1>3 DEF OneActive, ActiveDeletion, NoRow, OnlyListed
<1>5. ASSUME NEW j \in DeletionJobs PROVE RowIsExact(j)
  <2>1. {} \ {} = {} /\ Cardinality({}) = 0
    BY FS_EmptySet
  <2> QED
    BY <1>3, <2>1, DeletionConstants DEF RowIsExact, NoRow
<1> QED
  BY <1>2, <1>4, <1>5 DEF DeletionInv

(* A new scan is on no list.                                               *)
LEMMA ScansKeep ==
  ASSUME DeletionInv, NEW s \in ScanNumbers, CreateScan(s) \/ DeleteOne(s)
  PROVE  DeletionInv'
<1>1. /\ UNCHANGED <<asked, deletionJob, deleter>>
      /\ created \subseteq created' /\ created' \subseteq created \cup {s}
      /\ present' \subseteq present \cup (created' \ created)
      /\ deletedSingly' \subseteq deletedSingly \cup (present \ present')
      /\ present' \subseteq created' /\ deletedSingly' \subseteq created' \ present'
      /\ present \subseteq present' \cup deletedSingly'
      /\ deletedSingly \subseteq deletedSingly'
      /\ created' \ created \subseteq present'
  BY DEF CreateScan, DeleteOne, requestVars, DeletionInv, DeletionData
<1>2. IsFiniteSet(created')
  <2>1. created' = created \/ created' = created \cup {s}
    BY <1>1
  <2> QED
    BY <2>1, FS_AddElement DEF DeletionInv, DeletionData
<1>3. DeletionData'
  BY <1>1, <1>2 DEF DeletionInv, DeletionData
<1>4. OneActive' /\ OnlyListed'
  BY <1>1 DEF DeletionInv, OneActive, ActiveDeletion, OnlyListed
<1>5. ASSUME NEW j \in DeletionJobs PROVE RowIsExact(j)'
  <2>1. RowIsExact(j)
    BY DEF DeletionInv
  <2> QED
    BY <1>1, <2>1 DEF RowIsExact
<1>6. ASSUME NEW w \in DeletionWorkers, deleter[w] # NoJob PROVE DeleterIsExact(w)'
  <2>1. DeleterIsExact(w) /\ deleter[w].job \in DeletionJobs
    BY <1>6 DEF DeletionInv, DeletionData, Deletions
  <2>2. deletionJob[deleter[w].job].accepted \subseteq created
    BY <2>1 DEF DeletionInv, RowIsExact
  <2> QED
    BY <1>1, <2>1, <2>2 DEF DeleterIsExact, ListOf, Rest
<1> QED
  BY <1>1, <1>3, <1>4, <1>5, <1>6 DEF DeletionInv

LEMMA RequestsKeep ==
  ASSUME DeletionInv, NEW r \in DeletionRequests,
         NEW j, ListGroup(r) \/ (j \in DeletionJobs /\ EnqueueDeletion(r, j))
  PROVE  DeletionInv'
<1>1. UNCHANGED <<present, created, deletedSingly, deleter>>
  BY DEF ListGroup, EnqueueDeletion, groupVars
<1>2. asked' \in [DeletionRequests -> SUBSET created]
  BY DEF ListGroup, EnqueueDeletion, DeletionInv, DeletionData
<1>3. CASE UNCHANGED deletionJob
  <2>1. DeletionData'
    BY <1>1, <1>2, <1>3 DEF DeletionInv, DeletionData
  <2>2. OneActive' /\ OnlyListed'
    BY <1>1, <1>3 DEF DeletionInv, OneActive, ActiveDeletion, OnlyListed
  <2>3. (\A i \in DeletionJobs : RowIsExact(i))'
    BY <1>1, <1>3 DEF DeletionInv, RowIsExact
  <2>4. (\A w \in DeletionWorkers : deleter[w] # NoJob => DeleterIsExact(w))'
    BY <1>1, <1>3 DEF DeletionInv, DeleterIsExact, ListOf, Rest
  <2> QED
    BY <2>1, <2>2, <2>3, <2>4 DEF DeletionInv
<1>4. CASE ~ UNCHANGED deletionJob
  <2> DEFINE row == [NoRow EXCEPT !.status = "queued", !.accepted = asked[r], !.remaining = asked[r]]
  <2>1. /\ j \in DeletionJobs /\ deletionJob[j] = NoRow /\ \A i \in DeletionJobs : ~ ActiveDeletion(i)
        /\ deletionJob' = [deletionJob EXCEPT ![j] = row]
    BY <1>4 DEF ListGroup, EnqueueDeletion
  <2>2. asked[r] \subseteq created /\ asked[r] \subseteq ScanNumbers
    BY DEF DeletionInv, DeletionData
  <2>3. /\ row \in DeletionRows
        /\ row.status = "queued" /\ row.accepted = asked[r] /\ row.remaining = asked[r]
        /\ row.current = 0 /\ row.retries = 0
    BY <2>2 DEF DeletionRows, NoRow
  <2> HIDE DEF row
  <2>4. /\ deletionJob' \in [DeletionJobs -> DeletionRows] /\ deletionJob'[j] = row
        /\ \A i \in DeletionJobs \ {j} : deletionJob'[i] = deletionJob[i]
    BY <2>1, <2>3 DEF DeletionInv, DeletionData
  <2>5. DeletionData'
    BY <1>1, <1>2, <2>4 DEF DeletionInv, DeletionData
  <2>6. OneActive'
    BY <2>1, <2>4 DEF OneActive, ActiveDeletion
  <2>7. OnlyListed'
    <3>1. \A i \in DeletionJobs : deletionJob[i].accepted \subseteq deletionJob'[i].accepted
      BY <2>1, <2>4 DEF NoRow
    <3> QED
      BY <1>1, <3>1 DEF DeletionInv, OnlyListed
  <2>8. ASSUME NEW i \in DeletionJobs PROVE RowIsExact(i)'
    <3>1. CASE i # j
      BY <1>1, <2>4, <3>1 DEF DeletionInv, RowIsExact
    <3>2. CASE i = j
      <4>1. asked[r] \ asked[r] = {} /\ Cardinality({}) = 0
        BY FS_EmptySet
      <4> QED
        BY <1>1, <2>2, <2>3, <2>4, <3>2, <4>1, DeletionConstants DEF RowIsExact
    <3> QED
      BY <3>1, <3>2
  <2>9. ASSUME NEW w \in DeletionWorkers, deleter[w] # NoJob PROVE DeleterIsExact(w)'
    <3>1. DeleterIsExact(w) /\ deleter[w].job \in DeletionJobs
      BY <2>9 DEF DeletionInv, DeletionData, Deletions
    <3>2. deleter[w].job # j
      BY <2>1, <3>1 DEF DeleterIsExact, NoRow
    <3> QED
      BY <1>1, <2>4, <3>1, <3>2 DEF DeleterIsExact, ListOf, Rest
  <2> QED
    BY <1>1, <2>5, <2>6, <2>7, <2>8, <2>9 DEF DeletionInv
<1> QED
  BY <1>3, <1>4

-----------------------------------------------------------------------------
(* The workers *)

LEMMA ClaimDeletionKeeps ==
  ASSUME DeletionInv, NEW w \in DeletionWorkers, NEW j \in DeletionJobs, ClaimDeletion(w, j)
  PROVE  DeletionInv'
<1> DEFINE row == [deletionJob[j] EXCEPT !.status = "running", !.owner = w, !.leased = TRUE]
           d == [job |-> j, step |-> "begin", remaining |-> deletionJob[j].remaining,
                 current |-> deletionJob[j].current, retries |-> deletionJob[j].retries]
<1>1. /\ deleter[w] = NoJob /\ ActiveDeletion(j) /\ SetDeletion(j, row)
      /\ deleter' = [deleter EXCEPT ![w] = d]
      /\ UNCHANGED <<present, created, deletedSingly, asked>>
  BY DEF ClaimDeletion, groupVars, requestVars
<1>2. deletionJob[j] \in DeletionRows /\ RowIsExact(j)
  BY DEF DeletionInv, DeletionData
<1>3. /\ row \in DeletionRows
      /\ row.status = "running" /\ row.owner = w
      /\ row.accepted = deletionJob[j].accepted /\ row.remaining = deletionJob[j].remaining
      /\ row.current = deletionJob[j].current /\ row.retries = deletionJob[j].retries
  BY <1>2 DEF DeletionRows
<1>4. /\ d \in Deletions /\ d.job = j /\ d.step = "begin" /\ d.remaining = deletionJob[j].remaining
      /\ d.current = deletionJob[j].current /\ d.retries = deletionJob[j].retries
  BY <1>2 DEF DeletionRows, Deletions
<1> HIDE DEF row, d
<1>5. /\ deletionJob' \in [DeletionJobs -> DeletionRows] /\ deletionJob'[j] = row
      /\ \A i \in DeletionJobs \ {j} : deletionJob'[i] = deletionJob[i]
  BY <1>1, <1>3, RowSets DEF DeletionInv
<1>6. /\ deleter' \in [DeletionWorkers -> Deletions \cup {NoJob}] /\ deleter'[w] = d
      /\ \A v \in DeletionWorkers \ {w} : deleter'[v] = deleter[v]
  BY <1>1, <1>4 DEF DeletionInv, DeletionData
<1>7. RowIsExact(j)'
  BY <1>1, <1>2, <1>3, <1>5 DEF RowIsExact
<1>8. DeleterIsExact(w)'
  BY <1>1, <1>2, <1>3, <1>4, <1>5, <1>6 DEF DeleterIsExact, RowIsExact, ListOf
<1>9. ASSUME NEW v \in DeletionWorkers \ {w}, deleter'[v] # NoJob
      PROVE  deleter'[v] = deleter[v] /\ SameForOwner(v, deleter[v].job)
  <2>1. deleter[v].job \in DeletionJobs /\ deleter'[v] = deleter[v]
    BY <1>6, <1>9 DEF DeletionInv, DeletionData, Deletions
  <2> QED
    BY <1>3, <1>5, <2>1 DEF SameForOwner
<1>10. \A i \in DeletionJobs :
         /\ deletionJob'[i].accepted = deletionJob[i].accepted
         /\ deletionJob'[i].status \in {"queued", "running"} => ActiveDeletion(i)
         /\ deletionJob'[i].status = "none" => deletionJob[i].status = "none"
         /\ deletionJob'[i] = deletionJob[i] \/ RowIsExact(i)'
  BY <1>1, <1>3, <1>5, <1>7 DEF ActiveDeletion
<1> QED
  BY <1>1, <1>5, <1>6, <1>8, <1>9, <1>10, DeletionMoves

LEMMA DeletionLeaseExpiresKeeps ==
  ASSUME DeletionInv, NEW j \in DeletionJobs, DeletionLeaseExpires(j)
  PROVE  DeletionInv'
<1> DEFINE row == [deletionJob[j] EXCEPT !.leased = FALSE]
<1>1. /\ SetDeletion(j, row)
      /\ UNCHANGED <<present, created, deletedSingly, asked, deleter>>
  BY DEF DeletionLeaseExpires, groupVars, requestVars
<1>2. deletionJob[j] \in DeletionRows /\ RowIsExact(j)
  BY DEF DeletionInv, DeletionData
<1>3. /\ row \in DeletionRows
      /\ row.status = deletionJob[j].status /\ row.owner = deletionJob[j].owner
      /\ row.accepted = deletionJob[j].accepted /\ row.remaining = deletionJob[j].remaining
      /\ row.current = deletionJob[j].current /\ row.retries = deletionJob[j].retries
  BY <1>2 DEF DeletionRows
<1> HIDE DEF row
<1>4. /\ deletionJob' \in [DeletionJobs -> DeletionRows] /\ deletionJob'[j] = row
      /\ \A i \in DeletionJobs \ {j} : deletionJob'[i] = deletionJob[i]
  BY <1>1, <1>3, RowSets DEF DeletionInv
<1>5. RowIsExact(j)'
  BY <1>1, <1>2, <1>3, <1>4 DEF RowIsExact
<1>6. ASSUME NEW v \in DeletionWorkers, deleter'[v] # NoJob
      PROVE  deleter'[v] = deleter[v] /\ SameForOwner(v, deleter[v].job)
  <2>1. deleter[v].job \in DeletionJobs
    BY <1>1, <1>6 DEF DeletionInv, DeletionData, Deletions
  <2> QED
    BY <1>1, <1>3, <1>4, <2>1 DEF SameForOwner
<1>7. \A i \in DeletionJobs :
         /\ deletionJob'[i].accepted = deletionJob[i].accepted
         /\ deletionJob'[i].status \in {"queued", "running"} => ActiveDeletion(i)
         /\ deletionJob'[i].status = "none" => deletionJob[i].status = "none"
         /\ deletionJob'[i] = deletionJob[i] \/ RowIsExact(i)'
  BY <1>1, <1>3, <1>4, <1>5 DEF ActiveDeletion
<1>8. deleter' \in [DeletionWorkers -> Deletions \cup {NoJob}]
  BY <1>1 DEF DeletionInv, DeletionData
<1> QED
  BY <1>1, <1>4, <1>6, <1>7, <1>8, DeletionMoves

(* A step of the worker w that writes its row only as the owner: what it   *)
(* says of the row and of its own list is enough.                          *)
LEMMA DeleterSteps ==
  ASSUME DeletionInv, NEW w \in DeletionWorkers, deleter[w] # NoJob,
         NEW j, j = deleter[w].job, NEW row, NEW d,
         UNCHANGED <<created, deletedSingly, asked>>,
         present' = present \/ present' = present \ Batch(deleter[w].remaining),
         \/ UNCHANGED deletionJob
         \/ /\ SetDeletion(j, row) /\ OwnsDeletion(w)
            /\ row \in DeletionRows
            /\ row.owner \in {w, NoWorker}
            /\ row.accepted = deletionJob[j].accepted
            /\ row.status \in {deletionJob[j].status, "succeeded", "failed"}
            /\ RowIsExact(j)',
         deleter' = [deleter EXCEPT ![w] = d],
         d \in Deletions \cup {NoJob},
         d # NoJob => DeleterIsExact(w)'
  PROVE  DeletionInv'
<1>1. /\ j \in DeletionJobs /\ deletionJob[j] \in DeletionRows /\ DeleterIsExact(w)
  BY DEF DeletionInv, DeletionData, Deletions
<1>2. /\ deleter' \in [DeletionWorkers -> Deletions \cup {NoJob}] /\ deleter'[w] = d
      /\ \A v \in DeletionWorkers \ {w} : deleter'[v] = deleter[v]
  BY DEF DeletionInv, DeletionData
<1>3. deletionJob \in [DeletionJobs -> DeletionRows]
  BY DEF DeletionInv, DeletionData
<1>4. ASSUME NEW s \in present \ present' PROVE s \in deletionJob[j].accepted
  BY <1>1, BatchIsListed DEF DeleterIsExact
<1>5. present' \subseteq present
  OBVIOUS
<1>6. CASE UNCHANGED deletionJob
  <2>1. ASSUME NEW v \in DeletionWorkers \ {w}, deleter'[v] # NoJob
        PROVE  deleter'[v] = deleter[v] /\ SameForOwner(v, deleter[v].job)
    BY <1>2, <1>6 DEF SameForOwner
  <2> QED
    BY <1>1, <1>2, <1>3, <1>4, <1>5, <1>6, <2>1, DeletionMoves DEF ActiveDeletion
<1>7. CASE ~ UNCHANGED deletionJob
  <2>1. /\ SetDeletion(j, row) /\ deletionJob[j].owner = w
        /\ row \in DeletionRows /\ row.owner \in {w, NoWorker}
        /\ row.accepted = deletionJob[j].accepted
        /\ row.status \in {deletionJob[j].status, "succeeded", "failed"}
        /\ RowIsExact(j)'
    BY <1>7 DEF OwnsDeletion
  <2>2. /\ deletionJob' \in [DeletionJobs -> DeletionRows] /\ deletionJob'[j] = row
        /\ \A i \in DeletionJobs \ {j} : deletionJob'[i] = deletionJob[i]
    BY <1>1, <2>1, RowSets DEF DeletionInv
  <2>3. ASSUME NEW v \in DeletionWorkers \ {w}, deleter'[v] # NoJob
        PROVE  deleter'[v] = deleter[v] /\ SameForOwner(v, deleter[v].job)
    <3>1. deleter[v].job \in DeletionJobs /\ deleter'[v] = deleter[v] /\ v # NoWorker
      BY <1>2, <2>3, DeletionConstants DEF DeletionInv, DeletionData, Deletions
    <3> QED
      BY <2>1, <2>2, <3>1 DEF SameForOwner
  <2>4. \A i \in DeletionJobs :
           /\ deletionJob'[i].accepted = deletionJob[i].accepted
           /\ deletionJob'[i].status \in {"queued", "running"} => ActiveDeletion(i)
           /\ deletionJob'[i].status = "none" => deletionJob[i].status = "none"
           /\ deletionJob'[i] = deletionJob[i] \/ RowIsExact(i)'
    BY <2>1, <2>2 DEF ActiveDeletion
  <2> QED
    BY <1>1, <1>2, <1>4, <1>5, <2>2, <2>3, <2>4, DeletionMoves
<1> QED
  BY <1>6, <1>7

LEMMA BeginBatchKeeps ==
  ASSUME DeletionInv, NEW w \in DeletionWorkers, BeginBatch(w)
  PROVE  DeletionInv'
<1> PICK j : j = deleter[w].job
  OBVIOUS
<1>1. /\ deleter[w] # NoJob /\ deleter[w] \in Deletions /\ deleter[w].step = "begin"
      /\ j \in DeletionJobs /\ deletionJob[j] \in DeletionRows
      /\ DeleterIsExact(w) /\ RowIsExact(j)
      /\ UNCHANGED <<present, created, deletedSingly, asked>>
  BY DEF BeginBatch, DeleterAt, groupVars, requestVars, DeletionInv, DeletionData, Deletions
<1>2. CASE OwnsDeletion(w)
  <2> DEFINE row == [deletionJob[j] EXCEPT !.leased = TRUE]
             d == [deleter[w] EXCEPT !.step = "delete"]
  <2>1. SetDeletion(j, row) /\ deleter' = [deleter EXCEPT ![w] = d]
    BY <1>2 DEF BeginBatch, DeleterGoes
  <2>2. /\ row \in DeletionRows
        /\ row.status = deletionJob[j].status /\ row.owner = deletionJob[j].owner
        /\ row.accepted = deletionJob[j].accepted /\ row.remaining = deletionJob[j].remaining
        /\ row.current = deletionJob[j].current /\ row.retries = deletionJob[j].retries
    BY <1>1 DEF DeletionRows
  <2>3. /\ d \in Deletions /\ d.step = "delete"
        /\ d.job = j /\ d.remaining = deleter[w].remaining
        /\ d.current = deleter[w].current /\ d.retries = deleter[w].retries
    BY <1>1 DEF Deletions
  <2> HIDE DEF row, d
  <2>4. deletionJob'[j] = row /\ deleter'[w] = d
    BY <1>1, <2>1, <2>2, RowSets DEF DeletionInv, DeletionData
  <2>5. RowIsExact(j)'
    BY <1>1, <2>2, <2>4 DEF RowIsExact
  <2>6. DeleterIsExact(w)'
    BY <1>1, <2>2, <2>3, <2>4 DEF DeleterIsExact, ListOf
  <2> QED
    BY <1>1, <1>2, <2>1, <2>2, <2>3, <2>5, <2>6, DeleterSteps DEF OwnsDeletion
<1>3. CASE ~ OwnsDeletion(w)
  BY <1>1, <1>3, DeleterSteps DEF BeginBatch, DeleterStops
<1> QED
  BY <1>2, <1>3

(* The batch is gone; the worker's list is shortened by it with the save.  *)
LEMMA DeleteBatchKeeps ==
  ASSUME DeletionInv, NEW w \in DeletionWorkers, DeleteBatch(w)
  PROVE  DeletionInv'
<1> PICK j : j = deleter[w].job
  OBVIOUS
<1> DEFINE d == [deleter[w] EXCEPT !.step = "save"]
<1>1. /\ deleter[w] # NoJob /\ deleter[w] \in Deletions /\ deleter[w].step = "delete"
      /\ j \in DeletionJobs /\ DeleterIsExact(w)
      /\ present' = present \ Batch(deleter[w].remaining)
      /\ deleter' = [deleter EXCEPT ![w] = d]
      /\ UNCHANGED <<created, deletedSingly, asked, deletionJob>>
  BY DEF DeleteBatch, DeleterGoes, DeleterAt, requestVars, DeletionInv, DeletionData, Deletions
<1>2. /\ d \in Deletions /\ d.step = "save"
      /\ d.job = j /\ d.remaining = deleter[w].remaining
      /\ d.current = deleter[w].current /\ d.retries = deleter[w].retries
  BY <1>1 DEF Deletions
<1> HIDE DEF d
<1>3. deleter'[w] = d
  BY <1>1, <1>2 DEF DeletionInv, DeletionData
<1>4. ListOf(w)' = deleter[w].remaining \ Batch(deleter[w].remaining)
  BY <1>2, <1>3 DEF ListOf, Rest, Batch
<1>5. DeleterIsExact(w)'
  BY <1>1, <1>2, <1>3, <1>4 DEF DeleterIsExact, ListOf
<1> QED
  BY <1>1, <1>2, <1>5, DeleterSteps

(* The retry, or the end without one, writes the row of an owner.          *)
LEMMA RetryKeeps ==
  ASSUME DeletionInv, NEW w \in DeletionWorkers, deleter[w] # NoJob,
         NEW remaining \in {deleter[w].remaining, Rest(w)},
         UNCHANGED <<created, deletedSingly, asked>>,
         present' = present \/ present' = present \ Batch(deleter[w].remaining),
         present' \cap deletionJob[deleter[w].job].accepted \subseteq remaining,
         RetryOrFail(w, remaining)
  PROVE  DeletionInv'
<1> PICK j : j = deleter[w].job
  OBVIOUS
<1>1. /\ deleter[w] \in Deletions /\ j \in DeletionJobs /\ deletionJob[j] \in DeletionRows
      /\ DeleterIsExact(w) /\ RowIsExact(j)
      /\ deleter' = [deleter EXCEPT ![w] = NoJob]
  BY DEF RetryOrFail, DeleterStops, DeletionInv, DeletionData, Deletions
<1>2. CASE ~ OwnsDeletion(w)
  BY <1>1, <1>2, DeleterSteps DEF RetryOrFail
<1>3. CASE OwnsDeletion(w)
  <2>1. /\ deleter[w].remaining = deletionJob[j].remaining
        /\ deleter[w].current = deletionJob[j].current /\ deletionJob[j].owner = w
    BY <1>1, <1>3 DEF OwnsDeletion, DeleterIsExact
  <2> DEFINE again == [deletionJob[j] EXCEPT !.owner = NoWorker, !.leased = TRUE,
                         !.remaining = remaining, !.retries = deleter[w].retries + 1]
             failed == [deletionJob[j] EXCEPT !.status = "failed", !.owner = NoWorker,
                                              !.leased = FALSE]
  <2>2. CASE deleter[w].retries < MaxDeletionRetries /\ SetDeletion(j, again)
    <3> DEFINE row == [deletionJob[j] EXCEPT !.owner = NoWorker, !.leased = TRUE,
                                             !.remaining = remaining,
                                             !.retries = deleter[w].retries + 1]
    <3>1. SetDeletion(j, row)
      BY <2>2
    <3>2. /\ remaining \subseteq deleter[w].remaining /\ remaining \subseteq ScanNumbers
          /\ deleter[w].retries \in Nat /\ deleter[w].retries + 1 \in Nat
      BY <1>1 DEF Rest, Deletions
    <3>3. /\ row \in DeletionRows
          /\ row.status = deletionJob[j].status /\ row.owner = NoWorker
          /\ row.accepted = deletionJob[j].accepted /\ row.remaining = remaining
          /\ row.current = deletionJob[j].current /\ row.retries = deleter[w].retries + 1
      BY <1>1, <3>2 DEF DeletionRows
    <3> HIDE DEF row
    <3>4. deletionJob'[j] = row
      BY <1>1, <3>1, <3>3, RowSets DEF DeletionInv
    <3>5. row.current <= Cardinality(row.accepted \ row.remaining)
      <4>1. IsFiniteSet(deletionJob[j].accepted)
        BY <1>1, FS_Subset DEF RowIsExact, DeletionInv, DeletionData
      <4>2. /\ deletionJob[j].remaining \in SUBSET deletionJob[j].accepted
            /\ deletionJob[j].current \in Nat
            /\ deletionJob[j].current <= Cardinality(deletionJob[j].accepted \ deletionJob[j].remaining)
        BY <1>1 DEF RowIsExact, DeletionRows
      <4>3. CASE remaining = deleter[w].remaining
        BY <2>1, <3>3, <4>2, <4>3
      <4>4. CASE remaining = Rest(w)
        <5>1. Batch(deleter[w].remaining) \in SUBSET deletionJob[j].remaining
          BY <2>1, BatchIsListed
        <5>2. remaining = deletionJob[j].remaining \ Batch(deleter[w].remaining)
          BY <2>1, <4>4 DEF Rest
        <5> QED
          BY <3>3, <4>1, <4>2, <5>1, <5>2, BatchIsCounted
      <4> QED
        BY <4>3, <4>4
    <3>6. RowIsExact(j)'
      <4>1. row.retries <= MaxDeletionRetries
        BY <1>1, <2>2, <3>3, DeletionConstants DEF Deletions
      <4> QED
        BY <1>1, <2>1, <3>2, <3>3, <3>4, <3>5, <4>1 DEF RowIsExact, DeleterIsExact
    <3> QED
      BY <1>1, <1>3, <3>1, <3>3, <3>6, DeleterSteps
  <2>3. CASE SetDeletion(j, failed)
    <3> DEFINE row == [deletionJob[j] EXCEPT !.status = "failed", !.owner = NoWorker,
                                             !.leased = FALSE]
    <3>1. SetDeletion(j, row)
      BY <2>3
    <3>3. /\ row \in DeletionRows
          /\ row.status = "failed" /\ row.owner = NoWorker
          /\ row.accepted = deletionJob[j].accepted /\ row.remaining = deletionJob[j].remaining
          /\ row.current = deletionJob[j].current /\ row.retries = deletionJob[j].retries
      BY <1>1 DEF DeletionRows
    <3> HIDE DEF row
    <3>4. deletionJob'[j] = row
      BY <1>1, <3>1, <3>3, RowSets DEF DeletionInv
    <3>6. RowIsExact(j)'
      BY <1>1, <2>1, <3>3, <3>4 DEF RowIsExact, DeleterIsExact
    <3> QED
      BY <1>1, <1>3, <3>1, <3>3, <3>6, DeleterSteps
  <2> QED
    BY <1>3, <2>2, <2>3 DEF RetryOrFail
<1> QED
  BY <1>2, <1>3

LEMMA BeginBatchFailsKeeps ==
  ASSUME DeletionInv, NEW w \in DeletionWorkers, BeginBatchFails(w)
  PROVE  DeletionInv'
<1>1. /\ deleter[w] # NoJob /\ deleter[w].step = "begin"
      /\ RetryOrFail(w, deleter[w].remaining)
      /\ UNCHANGED <<present, created, deletedSingly, asked>>
  BY DEF BeginBatchFails, DeleterAt, groupVars, requestVars
<1>2. present' \cap deletionJob[deleter[w].job].accepted \subseteq deleter[w].remaining
  BY <1>1 DEF DeletionInv, DeleterIsExact, ListOf
<1> QED
  BY <1>1, <1>2, RetryKeeps

LEMMA DeleteBatchFailsKeeps ==
  ASSUME DeletionInv, NEW w \in DeletionWorkers, DeleteBatchFails(w)
  PROVE  DeletionInv'
<1>1. /\ deleter[w] # NoJob /\ deleter[w].step = "delete"
      /\ present' = present \/ present' = present \ Batch(deleter[w].remaining)
      /\ RetryOrFail(w, deleter[w].remaining)
      /\ UNCHANGED <<created, deletedSingly, asked>>
  BY DEF DeleteBatchFails, DeleterAt, requestVars
<1>2. present' \cap deletionJob[deleter[w].job].accepted \subseteq deleter[w].remaining
  BY <1>1 DEF DeletionInv, DeleterIsExact, ListOf
<1> QED
  BY <1>1, <1>2, RetryKeeps

LEMMA SaveProgressFailsKeeps ==
  ASSUME DeletionInv, NEW w \in DeletionWorkers, SaveProgressFails(w)
  PROVE  DeletionInv'
<1>1. /\ deleter[w] # NoJob /\ deleter[w].step = "save"
      /\ RetryOrFail(w, Rest(w))
      /\ UNCHANGED <<present, created, deletedSingly, asked>>
  BY DEF SaveProgressFails, DeleterAt, groupVars, requestVars
<1>2. present' \cap deletionJob[deleter[w].job].accepted \subseteq Rest(w)
  BY <1>1 DEF DeletionInv, DeleterIsExact, ListOf
<1> QED
  BY <1>1, <1>2, RetryKeeps

LEMMA SaveProgressKeeps ==
  ASSUME DeletionInv, NEW w \in DeletionWorkers, SaveProgress(w)
  PROVE  DeletionInv'
<1> PICK j : j = deleter[w].job
  OBVIOUS
<1>1. /\ deleter[w] # NoJob /\ deleter[w] \in Deletions /\ deleter[w].step = "save"
      /\ j \in DeletionJobs /\ deletionJob[j] \in DeletionRows
      /\ DeleterIsExact(w) /\ RowIsExact(j)
      /\ UNCHANGED <<present, created, deletedSingly, asked>>
  BY DEF SaveProgress, DeleterAt, groupVars, requestVars, DeletionInv, DeletionData, Deletions
<1>2. CASE OwnsDeletion(w)
  <2> DEFINE row == [deletionJob[j] EXCEPT !.leased = TRUE, !.remaining = Rest(w),
                                           !.current = Done(w), !.retries = deleter[w].retries]
             d == [deleter[w] EXCEPT !.step = "begin", !.remaining = Rest(w), !.current = Done(w)]
  <2>1. SetDeletion(j, row) /\ deleter' = [deleter EXCEPT ![w] = d]
    BY <1>2 DEF SaveProgress
  <2>2. /\ deleter[w].remaining = deletionJob[j].remaining
        /\ deleter[w].current = deletionJob[j].current
    BY <1>1, <1>2 DEF OwnsDeletion, DeleterIsExact
  <2>3. /\ Done(w) \in Nat /\ Done(w) <= Cardinality(deletionJob[j].accepted \ Rest(w))
    <3>1. IsFiniteSet(deletionJob[j].accepted)
      BY <1>1, FS_Subset DEF RowIsExact, DeletionInv, DeletionData
    <3>2. /\ deleter[w].remaining \in SUBSET deletionJob[j].accepted
          /\ deleter[w].current \in Nat
          /\ deleter[w].current <= Cardinality(deletionJob[j].accepted \ deleter[w].remaining)
      BY <1>1, <2>2 DEF RowIsExact, DeletionRows
    <3>3. Batch(deleter[w].remaining) \in SUBSET deleter[w].remaining
      BY BatchIsListed
    <3> QED
      BY <3>1, <3>2, <3>3, BatchIsCounted DEF Done, Rest
  <2>4. /\ Rest(w) \subseteq deleter[w].remaining /\ Rest(w) \subseteq ScanNumbers
        /\ deleter[w].retries \in Nat
    BY <1>1 DEF Rest, Deletions
  <2>5. /\ row \in DeletionRows
        /\ row.status = deletionJob[j].status /\ row.owner = deletionJob[j].owner
        /\ row.accepted = deletionJob[j].accepted /\ row.remaining = Rest(w)
        /\ row.current = Done(w) /\ row.retries = deleter[w].retries
    BY <1>1, <2>3, <2>4 DEF DeletionRows
  <2>6. /\ d \in Deletions /\ d.step = "begin"
        /\ d.job = j /\ d.remaining = Rest(w)
        /\ d.current = Done(w) /\ d.retries = deleter[w].retries
    BY <1>1, <2>3, <2>4 DEF Deletions
  <2> HIDE DEF row, d
  <2>7. deletionJob'[j] = row /\ deleter'[w] = d
    BY <1>1, <2>1, <2>5, RowSets DEF DeletionInv, DeletionData
  <2>8. present' \cap deletionJob[j].accepted \subseteq Rest(w)
    BY <1>1 DEF DeleterIsExact, ListOf
  <2>9. RowIsExact(j)'
    BY <1>1, <2>2, <2>3, <2>4, <2>5, <2>7, <2>8 DEF RowIsExact, DeleterIsExact
  <2>10. DeleterIsExact(w)'
    BY <1>1, <2>4, <2>5, <2>6, <2>7, <2>8 DEF DeleterIsExact, ListOf
  <2> QED
    BY <1>1, <1>2, <2>1, <2>5, <2>6, <2>9, <2>10, DeleterSteps DEF OwnsDeletion
<1>3. CASE ~ OwnsDeletion(w)
  BY <1>1, <1>3, DeleterSteps DEF SaveProgress, DeleterStops
<1> QED
  BY <1>2, <1>3

(* With the list empty there is none left of what the job accepted.        *)
LEMMA FinishDeletionKeeps ==
  ASSUME DeletionInv, NEW w \in DeletionWorkers, FinishDeletion(w) \/ DeleterDies(w)
  PROVE  DeletionInv'
<1> PICK j : j = deleter[w].job
  OBVIOUS
<1>1. /\ deleter[w] # NoJob /\ deleter[w] \in Deletions
      /\ j \in DeletionJobs /\ deletionJob[j] \in DeletionRows
      /\ DeleterIsExact(w) /\ RowIsExact(j)
      /\ UNCHANGED <<present, created, deletedSingly, asked>>
      /\ deleter' = [deleter EXCEPT ![w] = NoJob]
  BY DEF FinishDeletion, DeleterDies, DeleterStops, DeleterAt, groupVars, requestVars, DeletionInv,
         DeletionData, Deletions
<1>2. CASE UNCHANGED deletionJob
  BY <1>1, <1>2, DeleterSteps
<1>3. CASE ~ UNCHANGED deletionJob
  <2> DEFINE row == [deletionJob[j] EXCEPT !.status = "succeeded", !.owner = NoWorker,
                                           !.leased = FALSE]
  <2>1. /\ SetDeletion(j, row) /\ OwnsDeletion(w)
        /\ deleter[w].step = "begin" /\ deleter[w].remaining = {}
    BY <1>3 DEF FinishDeletion, DeleterDies, DeleterAt
  <2>2. /\ row \in DeletionRows
        /\ row.status = "succeeded" /\ row.owner = NoWorker
        /\ row.accepted = deletionJob[j].accepted /\ row.remaining = deletionJob[j].remaining
        /\ row.current = deletionJob[j].current /\ row.retries = deletionJob[j].retries
    BY <1>1 DEF DeletionRows
  <2> HIDE DEF row
  <2>3. deletionJob'[j] = row
    BY <1>1, <2>1, <2>2, RowSets DEF DeletionInv
  <2>4. RowIsExact(j)'
    BY <1>1, <2>1, <2>2, <2>3 DEF RowIsExact, DeleterIsExact, ListOf
  <2> QED
    BY <1>1, <2>1, <2>2, <2>4, DeleterSteps
<1> QED
  BY <1>2, <1>3

LEMMA DeletionNextInv == DeletionInv /\ [DeletionNext]_deletionVars => DeletionInv'
<1> SUFFICES ASSUME DeletionInv, [DeletionNext]_deletionVars PROVE DeletionInv'
  OBVIOUS
<1>1. CASE DeletionNext
  BY <1>1, ScansKeep, RequestsKeep, DeletionLeaseExpiresKeeps, ClaimDeletionKeeps, BeginBatchKeeps,
     BeginBatchFailsKeeps, DeleteBatchKeeps, DeleteBatchFailsKeeps, SaveProgressKeeps,
     SaveProgressFailsKeeps, FinishDeletionKeeps DEF DeletionNext
<1>2. CASE UNCHANGED deletionVars
  <2>1. DeletionData'
    BY <1>2 DEF DeletionInv, DeletionData, deletionVars, groupVars, requestVars
  <2>2. OneActive' /\ OnlyListed'
    BY <1>2 DEF DeletionInv, OneActive, ActiveDeletion, OnlyListed, deletionVars, groupVars
  <2>3. (\A i \in DeletionJobs : RowIsExact(i))'
    BY <1>2 DEF DeletionInv, RowIsExact, deletionVars, groupVars
  <2>4. (\A w \in DeletionWorkers : deleter[w] # NoJob => DeleterIsExact(w))'
    BY <1>2 DEF DeletionInv, DeleterIsExact, ListOf, Rest, deletionVars, groupVars
  <2> QED
    BY <2>1, <2>2, <2>3, <2>4 DEF DeletionInv
<1> QED
  BY <1>1, <1>2

(* The inductive invariant: one active row, a list that leaves out only    *)
(* what is deleted and counts it at most once, and a worker whose list is  *)
(* the row's as long as it owns the row (backgroundjobs/jobs.go).          *)
THEOREM DeletionInvariant == DeletionSpec => []DeletionInv
BY DeletionInitInv, DeletionNextInv, PTL DEF DeletionSpec

(* However many workers take the job over, and however often one of them   *)
(* is late with its write: what is accepted is deleted, nothing else is,   *)
(* a job that succeeded has left no scan out, and the progress shown is    *)
(* never more than what is gone.                                           *)
THEOREM DeletionStaysExact == DeletionSpec => []DeletionIsExact
<1>1. DeletionInv => DeletionIsExact
  <2> SUFFICES ASSUME DeletionInv PROVE DeletionIsExact
    OBVIOUS
  <2>1. DeletionTypeOK
    <3>1. ASSUME NEW j \in DeletionJobs
          PROVE  LET row == deletionJob[j] IN
                 /\ row.status \in {"none", "queued", "running", "succeeded", "failed"}
                 /\ row.owner \in DeletionWorkers \cup {NoWorker}
                 /\ row.remaining \subseteq row.accepted
                 /\ row.retries <= MaxDeletionRetries
      BY DEF DeletionInv, DeletionData, DeletionRows, RowIsExact
    <3> QED
      BY <3>1 DEF DeletionInv, DeletionData, OneActive, DeletionTypeOK
  <2>2. NoneSkipped
    BY DEF DeletionInv, RowIsExact, NoneSkipped
  <2>3. ASSUME NEW j \in DeletionJobs
        PROVE  deletionJob[j].current <= Cardinality(deletionJob[j].accepted \ present)
    <3> DEFINE row == deletionJob[j]
    <3>1. RowIsExact(j) /\ row.current \in Nat
      BY DEF DeletionInv, DeletionData, DeletionRows
    <3>2. IsFiniteSet(row.accepted \ present)
      BY <3>1, FS_Subset, FS_Difference DEF RowIsExact, DeletionInv, DeletionData
    <3>3. row.accepted \ row.remaining \subseteq row.accepted \ present
      BY <3>1 DEF RowIsExact
    <3>4. /\ Cardinality(row.accepted \ row.remaining) <= Cardinality(row.accepted \ present)
          /\ Cardinality(row.accepted \ row.remaining) \in Nat
          /\ Cardinality(row.accepted \ present) \in Nat
      BY <3>2, <3>3, FS_Subset, FS_CardinalityType
    <3> QED
      BY <3>1, <3>4 DEF RowIsExact
  <2> QED
    BY <2>1, <2>2, <2>3 DEF DeletionInv, DeletionIsExact, ProgressIsMade
<1> QED
  BY <1>1, DeletionInvariant, PTL
-----------------------------------------------------------------------------
(* The deletion sees the queue through its rows.  As a queue they keep the *)
(* contract of JobContract, which JobQueue implements.                     *)
phaseOf  == [j \in DeletionJobs |-> deletionJob[j].status]
holderOf == [j \in DeletionJobs |-> deletionJob[j].owner]
freeJobs == {j \in DeletionJobs : ~ deletionJob[j].leased}
triesOf  == [j \in DeletionJobs |-> deletionJob[j].retries]

DeletionQueue == INSTANCE JobContract WITH
    Requests <- DeletionJobs, Workers <- DeletionWorkers, MaxTries <- MaxDeletionRetries,
    KeyOf <- [j \in DeletionJobs |-> "image"], NoKey <- "no key",
    phase <- phaseOf, holder <- holderOf, free <- freeJobs, tries <- triesOf

DeletionKeepsContract == DeletionQueue!Spec

(* A row that names a worker is running, and the worker it names counts    *)
(* its retries.                                                            *)
HoldersCount ==
    /\ \A j \in DeletionJobs :
          deletionJob[j].owner # NoWorker => deletionJob[j].status = "running"
    /\ \A w \in DeletionWorkers :
          deleter[w] # NoJob /\ OwnsDeletion(w)
            => deleter[w].retries = deletionJob[deleter[w].job].retries

LEMMA QueueRow ==
  ASSUME DeletionData, NEW j \in DeletionJobs, NEW row \in DeletionRows, SetDeletion(j, row)
  PROVE  /\ phaseOf' = [phaseOf EXCEPT ![j] = row.status]
         /\ holderOf' = [holderOf EXCEPT ![j] = row.owner]
         /\ triesOf' = [triesOf EXCEPT ![j] = row.retries]
         /\ freeJobs' = IF row.leased THEN freeJobs \ {j} ELSE freeJobs \cup {j}
<1>1. /\ deletionJob'[j] = row /\ row.leased \in BOOLEAN
      /\ \A i \in DeletionJobs \ {j} : deletionJob'[i] = deletionJob[i]
  BY RowSets DEF DeletionRows
<1>2. phaseOf' = [phaseOf EXCEPT ![j] = row.status]
  BY <1>1 DEF phaseOf
<1>3. holderOf' = [holderOf EXCEPT ![j] = row.owner]
  BY <1>1 DEF holderOf
<1>4. triesOf' = [triesOf EXCEPT ![j] = row.retries]
  BY <1>1 DEF triesOf
<1>5. freeJobs' = IF row.leased THEN freeJobs \ {j} ELSE freeJobs \cup {j}
  BY <1>1 DEF freeJobs
<1> QED
  BY <1>2, <1>3, <1>4, <1>5

LEMMA HoldersKeep ==
  ASSUME DeletionData, HoldersCount, NEW j \in DeletionJobs, NEW row \in DeletionRows,
         SetDeletion(j, row), row.owner # NoWorker => row.status = "running",
         \A w \in DeletionWorkers : deleter'[w] # NoJob =>
            \/ deleter'[w].retries = deletionJob'[deleter'[w].job].retries
            \/ /\ deleter'[w] = deleter[w]
               /\ deleter[w].job = j /\ row.owner = w =>
                    deletionJob[j].owner = w /\ row.retries = deletionJob[j].retries
  PROVE  HoldersCount'
<1>1. deletionJob'[j] = row /\ \A i \in DeletionJobs \ {j} : deletionJob'[i] = deletionJob[i]
  BY RowSets
<1>2. \A i \in DeletionJobs : deletionJob'[i].owner # NoWorker => deletionJob'[i].status = "running"
  BY <1>1 DEF HoldersCount
<1>3. ASSUME NEW w \in DeletionWorkers, deleter'[w] # NoJob, OwnsDeletion(w)'
      PROVE  deleter'[w].retries = deletionJob'[deleter'[w].job].retries
  <2> SUFFICES ASSUME deleter'[w] = deleter[w],
                      deleter[w].job = j /\ row.owner = w =>
                        deletionJob[j].owner = w /\ row.retries = deletionJob[j].retries
               PROVE  deleter'[w].retries = deletionJob'[deleter'[w].job].retries
    BY <1>3
  <2>1. deleter[w] \in Deletions /\ deleter[w].job \in DeletionJobs
    BY <1>3 DEF DeletionData, Deletions
  <2>2. CASE deleter[w].job = j
    BY <1>1, <1>3, <2>2 DEF OwnsDeletion, HoldersCount
  <2>3. CASE deleter[w].job # j
    BY <1>1, <1>3, <2>1, <2>3 DEF OwnsDeletion, HoldersCount
  <2> QED
    BY <2>2, <2>3
<1> QED
  BY <1>2, <1>3 DEF HoldersCount

(* Steps that leave the rows alone. *)
LEMMA RowsAlone ==
  ASSUME HoldersCount, UNCHANGED deletionJob,
         \A w \in DeletionWorkers : deleter'[w] = NoJob
            \/ (deleter'[w].job = deleter[w].job /\ deleter'[w].retries = deleter[w].retries
                /\ deleter[w] # NoJob)
  PROVE  HoldersCount' /\ UNCHANGED DeletionQueue!cvars
BY DEF HoldersCount, OwnsDeletion, DeletionQueue!cvars, phaseOf, holderOf, freeJobs, triesOf
LEMMA HeldRow ==
  ASSUME DeletionData, HoldersCount, NEW j \in DeletionJobs,
         deletionJob[j].owner \in DeletionWorkers
  PROVE  DeletionQueue!Held(j)
BY DeletionConstants DEF HoldersCount, DeletionQueue!Held, phaseOf, holderOf

LEMMA EnqueueAccepts ==
  ASSUME DeletionInv, HoldersCount, NEW r \in DeletionRequests, NEW j \in DeletionJobs,
         EnqueueDeletion(r, j)
  PROVE  HoldersCount' /\ [DeletionQueue!Next]_(DeletionQueue!cvars)
<1>1. UNCHANGED deleter
  BY DEF EnqueueDeletion
<1>2. CASE \E i \in DeletionJobs : ActiveDeletion(i)
  BY <1>1, <1>2, RowsAlone DEF EnqueueDeletion
<1>3. CASE ~ \E i \in DeletionJobs : ActiveDeletion(i)
  <2> DEFINE row == [NoRow EXCEPT !.status = "queued", !.accepted = asked[r], !.remaining = asked[r]]
  <2>1. deletionJob[j] = NoRow /\ SetDeletion(j, row)
    BY <1>3 DEF EnqueueDeletion, SetDeletion
  <2>2. asked[r] \in SUBSET ScanNumbers
    BY DEF DeletionInv, DeletionData
  <2>3. /\ row \in DeletionRows /\ row.status = "queued" /\ row.owner = NoWorker
        /\ row.leased = FALSE /\ row.retries = 0
    BY <2>2 DEF NoRow, DeletionRows
  <2> HIDE DEF row
  <2>4. HoldersCount'
    BY <1>1, <2>1, <2>3, DeletionConstants, HoldersKeep DEF DeletionInv
  <2>5. /\ phaseOf' = [phaseOf EXCEPT ![j] = "queued"]
        /\ holderOf' = [holderOf EXCEPT ![j] = NoWorker] /\ triesOf' = [triesOf EXCEPT ![j] = 0]
        /\ freeJobs' = freeJobs \cup {j}
    BY <2>1, <2>3, QueueRow DEF DeletionInv
  <2>6. phaseOf[j] = "none" /\ holderOf[j] = NoWorker /\ triesOf[j] = 0 /\ j \in freeJobs
    BY <2>1 DEF NoRow, phaseOf, holderOf, triesOf, freeJobs
  <2>7. holderOf' = holderOf /\ triesOf' = triesOf /\ freeJobs' = freeJobs
    BY <2>5, <2>6 DEF holderOf, triesOf
  <2>8. \A q \in DeletionJobs : phaseOf[q] \notin {"queued", "running"}
    BY <1>3 DEF ActiveDeletion, phaseOf
  <2>9. DeletionQueue!Accept(j)
    BY <2>5, <2>6, <2>7, <2>8 DEF DeletionQueue!Accept
  <2> QED
    BY <2>4, <2>9 DEF DeletionQueue!Next
<1> QED
  BY <1>2, <1>3

LEMMA ClaimTakes ==
  ASSUME DeletionInv, HoldersCount, NEW w \in DeletionWorkers, NEW j \in DeletionJobs,
         ClaimDeletion(w, j)
  PROVE  HoldersCount' /\ DeletionQueue!Next
<1> DEFINE row == [deletionJob[j] EXCEPT !.status = "running", !.owner = w, !.leased = TRUE]
           d   == [job |-> j, step |-> "begin", remaining |-> deletionJob[j].remaining,
                   current |-> deletionJob[j].current, retries |-> deletionJob[j].retries]
<1>1. /\ deleter[w] = NoJob /\ ActiveDeletion(j) /\ ~ deletionJob[j].leased
      /\ SetDeletion(j, row) /\ deleter' = [deleter EXCEPT ![w] = d]
  BY DEF ClaimDeletion
<1>2. deletionJob[j] \in DeletionRows
  BY DEF DeletionInv, DeletionData
<1>3. /\ row \in DeletionRows /\ row.status = "running" /\ row.owner = w
      /\ row.leased = TRUE /\ row.retries = deletionJob[j].retries
  BY <1>2 DEF DeletionRows
<1>4. /\ deleter'[w].job = j /\ deleter'[w].retries = deletionJob[j].retries
      /\ \A v \in DeletionWorkers \ {w} : deleter'[v] = deleter[v]
  BY <1>1 DEF DeletionInv, DeletionData
<1> HIDE DEF row, d
<1>5. deletionJob'[j] = row
  BY <1>1, <1>3, RowSets DEF DeletionInv
<1>6. HoldersCount'
  BY <1>1, <1>3, <1>4, <1>5, HoldersKeep DEF DeletionInv
<1>7. /\ phaseOf' = [phaseOf EXCEPT ![j] = "running"] /\ holderOf' = [holderOf EXCEPT ![j] = w]
      /\ triesOf' = [triesOf EXCEPT ![j] = deletionJob[j].retries] /\ freeJobs' = freeJobs \ {j}
  BY <1>1, <1>3, QueueRow DEF DeletionInv
<1>8. phaseOf[j] \in {"queued", "running"} /\ j \in freeJobs /\ triesOf' = triesOf
  BY <1>1, <1>7 DEF ActiveDeletion, phaseOf, freeJobs, triesOf
<1>9. DeletionQueue!Take(j, w)
  BY <1>7, <1>8 DEF DeletionQueue!Take
<1> QED
  BY <1>6, <1>9 DEF DeletionQueue!Next

(* A step that only gives or takes the lease of a row. *)
LEMMA LeaseAlone ==
  ASSUME DeletionInv, HoldersCount, NEW j \in DeletionJobs, NEW row \in DeletionRows,
         SetDeletion(j, row), row.status = deletionJob[j].status, row.owner = deletionJob[j].owner,
         row.retries = deletionJob[j].retries,
         \A w \in DeletionWorkers : deleter'[w] # NoJob =>
            /\ deleter[w] # NoJob
            /\ deleter'[w].job = deleter[w].job /\ deleter'[w].retries = deleter[w].retries
  PROVE  /\ HoldersCount' /\ UNCHANGED <<phaseOf, holderOf, triesOf>>
         /\ freeJobs' = IF row.leased THEN freeJobs \ {j} ELSE freeJobs \cup {j}
<1>1. deletionJob'[j] = row /\ \A i \in DeletionJobs \ {j} : deletionJob'[i] = deletionJob[i]
  BY RowSets DEF DeletionInv
<1>2. \A i \in DeletionJobs : /\ deletionJob'[i].status = deletionJob[i].status
                              /\ deletionJob'[i].owner = deletionJob[i].owner
                              /\ deletionJob'[i].retries = deletionJob[i].retries
  BY <1>1
<1>3. UNCHANGED <<phaseOf, holderOf, triesOf>>
  BY <1>2 DEF phaseOf, holderOf, triesOf
<1>4. \A w \in DeletionWorkers : deleter[w] # NoJob => deleter[w].job \in DeletionJobs
  BY DEF DeletionInv, DeletionData, Deletions
<1>5. HoldersCount'
  BY <1>2, <1>4 DEF HoldersCount, OwnsDeletion
<1> QED
  BY <1>3, <1>5, QueueRow DEF DeletionInv

LEMMA LeaseExpires ==
  ASSUME DeletionInv, HoldersCount, NEW j \in DeletionJobs, DeletionLeaseExpires(j)
  PROVE  HoldersCount' /\ DeletionQueue!Next
<1> DEFINE row == [deletionJob[j] EXCEPT !.leased = FALSE]
<1>1. deletionJob[j].leased /\ SetDeletion(j, row) /\ UNCHANGED deleter
  BY DEF DeletionLeaseExpires
<1>2. deletionJob[j] \in DeletionRows
  BY DEF DeletionInv, DeletionData
<1>3. /\ row \in DeletionRows /\ row.status = deletionJob[j].status
      /\ row.owner = deletionJob[j].owner /\ row.leased = FALSE
      /\ row.retries = deletionJob[j].retries
  BY <1>2 DEF DeletionRows
<1> HIDE DEF row
<1>4. /\ HoldersCount' /\ UNCHANGED <<phaseOf, holderOf, triesOf>>
      /\ freeJobs' = freeJobs \cup {j} /\ j \notin freeJobs
  BY <1>1, <1>3, LeaseAlone DEF freeJobs
<1>5. DeletionQueue!Expire(j)
  BY <1>4 DEF DeletionQueue!Expire
<1> QED
  BY <1>4, <1>5 DEF DeletionQueue!Next

(* The owner renews its lease with the progress it writes. *)
LEMMA ProgressRenews ==
  ASSUME DeletionInv, HoldersCount, NEW w \in DeletionWorkers, BeginBatch(w) \/ SaveProgress(w)
  PROVE  HoldersCount' /\ [DeletionQueue!Next]_(DeletionQueue!cvars)
<1> PICK j : j = deleter[w].job
  OBVIOUS
<1>1. /\ deleter[w] # NoJob /\ deleter[w] \in Deletions
      /\ j \in DeletionJobs /\ deletionJob[j] \in DeletionRows
  BY DEF BeginBatch, SaveProgress, DeleterAt, DeletionInv, DeletionData, Deletions
<1>2. \A v \in DeletionWorkers : deleter'[v] # NoJob =>
            /\ deleter[v] # NoJob
            /\ deleter'[v].job = deleter[v].job /\ deleter'[v].retries = deleter[v].retries
  <2>1. \/ deleter' = [deleter EXCEPT ![w] = NoJob]
        \/ deleter' = [deleter EXCEPT ![w].step = "delete"]
        \/ deleter' = [deleter EXCEPT ![w] =
             [deleter[w] EXCEPT !.step = "begin", !.remaining = Rest(w), !.current = Done(w)]]
    BY DEF BeginBatch, SaveProgress, DeleterStops, DeleterGoes
  <2>2. ASSUME NEW d, deleter' = [deleter EXCEPT ![w] = d],
               d = NoJob \/ (d.job = deleter[w].job /\ d.retries = deleter[w].retries)
        PROVE  \A v \in DeletionWorkers : deleter'[v] # NoJob =>
                  /\ deleter[v] # NoJob
                  /\ deleter'[v].job = deleter[v].job /\ deleter'[v].retries = deleter[v].retries
    <3>1. deleter'[w] = d /\ \A v \in DeletionWorkers \ {w} : deleter'[v] = deleter[v]
      BY <2>2 DEF DeletionInv, DeletionData
    <3> QED
      BY <1>1, <2>2, <3>1
  <2>3. CASE deleter' = [deleter EXCEPT ![w] = NoJob]
    BY <2>2, <2>3
  <2>4. CASE deleter' = [deleter EXCEPT ![w].step = "delete"]
    <3> DEFINE d == [deleter[w] EXCEPT !.step = "delete"]
    <3>1. deleter' = [deleter EXCEPT ![w] = d]
      BY <2>4
    <3>2. d.job = deleter[w].job /\ d.retries = deleter[w].retries
      BY <1>1 DEF Deletions
    <3> HIDE DEF d
    <3> QED
      BY <2>2, <3>1, <3>2
  <2>5. CASE deleter' = [deleter EXCEPT ![w] =
               [deleter[w] EXCEPT !.step = "begin", !.remaining = Rest(w), !.current = Done(w)]]
    <3> DEFINE d == [deleter[w] EXCEPT !.step = "begin", !.remaining = Rest(w), !.current = Done(w)]
    <3>1. d.job = deleter[w].job /\ d.retries = deleter[w].retries
      BY <1>1 DEF Deletions
    <3>2. deleter' = [deleter EXCEPT ![w] = d]
      BY <2>5
    <3> HIDE DEF d
    <3> QED
      BY <2>2, <3>1, <3>2
  <2> QED
    BY <2>1, <2>3, <2>4, <2>5
<1>3. CASE OwnsDeletion(w)
  <2>1. PICK row \in DeletionRows :
          /\ SetDeletion(j, row) /\ row.leased = TRUE
          /\ row.status = deletionJob[j].status /\ row.owner = deletionJob[j].owner
          /\ row.retries = deletionJob[j].retries
    <3>1. CASE BeginBatch(w)
      <4> DEFINE row == [deletionJob[j] EXCEPT !.leased = TRUE]
      <4>1. SetDeletion(j, row)
        BY <1>3, <3>1 DEF BeginBatch
      <4>2. row \in DeletionRows
        BY <1>1 DEF DeletionRows
      <4> QED
        BY <1>1, <4>1, <4>2 DEF DeletionRows
    <3>2. CASE SaveProgress(w)
      <4> DEFINE row == [deletionJob[j] EXCEPT !.leased = TRUE, !.remaining = Rest(w),
                                               !.current = Done(w), !.retries = deleter[w].retries]
      <4>1. SetDeletion(j, row)
        BY <1>3, <3>2 DEF SaveProgress
      <4>2. deleter[w].retries = deletionJob[j].retries
        BY <1>1, <1>3 DEF HoldersCount
      <4>3. Rest(w) \subseteq ScanNumbers /\ Done(w) \in Nat /\ deleter[w].retries \in Nat
        <5>1. DeleterIsExact(w) /\ RowIsExact(j)
          BY <1>1 DEF DeletionInv
        <5>2. IsFiniteSet(Batch(deleter[w].remaining))
          BY <5>1, BatchIsListed, FS_Subset DEF DeleterIsExact, RowIsExact, DeletionInv, DeletionData
        <5>3. Cardinality(Batch(deleter[w].remaining)) \in Nat
          BY <5>2, FS_CardinalityType
        <5> QED
          BY <1>1, <5>3 DEF Rest, Done, Deletions
      <4>4. row \in DeletionRows
        BY <1>1, <4>3 DEF DeletionRows
      <4> QED
        BY <1>1, <4>1, <4>2, <4>4 DEF DeletionRows
    <3> QED
      BY <3>1, <3>2
  <2>2. /\ HoldersCount' /\ UNCHANGED <<phaseOf, holderOf, triesOf>> /\ freeJobs' = freeJobs \ {j}
    BY <1>1, <1>2, <2>1, LeaseAlone
  <2>3. DeletionQueue!Held(j)
    BY <1>1, <1>3, HeldRow DEF OwnsDeletion, DeletionInv
  <2>4. DeletionQueue!Renew(j)
    BY <2>2, <2>3 DEF DeletionQueue!Renew
  <2> QED
    BY <1>1, <2>2, <2>4 DEF DeletionQueue!Next
<1>4. CASE ~ OwnsDeletion(w)
  <2>1. UNCHANGED deletionJob
    BY <1>4 DEF BeginBatch, SaveProgress
  <2> QED
    BY <1>2, <2>1, RowsAlone
<1> QED
  BY <1>3, <1>4
(* The owner gives the job back, or ends it; another worker just stops. *)
LEMMA DeleterLeaves ==
  ASSUME DeletionInv, HoldersCount, NEW w \in DeletionWorkers,
         deleter[w] # NoJob, DeleterStops(w),
         \/ UNCHANGED deletionJob
         \/ /\ OwnsDeletion(w)
            /\ \E row \in DeletionRows :
                 /\ SetDeletion(deleter[w].job, row) /\ row.owner = NoWorker
                 /\ \/ /\ row.status = deletionJob[deleter[w].job].status /\ row.leased = TRUE
                       /\ deleter[w].retries < MaxDeletionRetries
                       /\ row.retries = deleter[w].retries + 1
                    \/ /\ row.status \in {"succeeded", "failed"} /\ row.leased = FALSE
                       /\ row.retries = deletionJob[deleter[w].job].retries
  PROVE  HoldersCount' /\ [DeletionQueue!Next]_(DeletionQueue!cvars)
<1>1. PICK j \in DeletionJobs : j = deleter[w].job /\ deletionJob[j] \in DeletionRows
  BY DEF DeletionInv, DeletionData, Deletions
<1>2. deleter'[w] = NoJob /\ \A v \in DeletionWorkers \ {w} : deleter'[v] = deleter[v]
  BY DEF DeleterStops, DeletionInv, DeletionData
<1>3. CASE UNCHANGED deletionJob
  BY <1>2, <1>3, RowsAlone
<1>4. ASSUME OwnsDeletion(w), NEW row \in DeletionRows, SetDeletion(j, row), row.owner = NoWorker,
             \/ /\ row.status = deletionJob[j].status /\ row.leased = TRUE
                /\ deleter[w].retries < MaxDeletionRetries
                /\ row.retries = deleter[w].retries + 1
             \/ /\ row.status \in {"succeeded", "failed"} /\ row.leased = FALSE
                /\ row.retries = deletionJob[j].retries
      PROVE  HoldersCount' /\ DeletionQueue!Next
  <2>1. HoldersCount'
    BY <1>2, <1>4, DeletionConstants, HoldersKeep DEF DeletionInv
  <2>2. /\ phaseOf' = [phaseOf EXCEPT ![j] = row.status]
        /\ holderOf' = [holderOf EXCEPT ![j] = NoWorker]
        /\ triesOf' = [triesOf EXCEPT ![j] = row.retries]
        /\ freeJobs' = IF row.leased THEN freeJobs \ {j} ELSE freeJobs \cup {j}
    BY <1>4, QueueRow DEF DeletionInv
  <2>3. DeletionQueue!Held(j) /\ triesOf[j] = deleter[w].retries
    BY <1>1, <1>4, HeldRow DEF OwnsDeletion, DeletionInv, HoldersCount, triesOf
  <2>4. CASE /\ row.status = deletionJob[j].status /\ row.leased = TRUE
             /\ deleter[w].retries < MaxDeletionRetries /\ row.retries = deleter[w].retries + 1
    <3>1. phaseOf' = phaseOf /\ freeJobs' = freeJobs \ {j}
      BY <2>2, <2>4 DEF phaseOf
    <3>2. triesOf' = [triesOf EXCEPT ![j] = triesOf[j] + 1] /\ triesOf[j] < MaxDeletionRetries
      BY <2>2, <2>3, <2>4
    <3>3. DeletionQueue!Release(j)
      BY <2>2, <2>3, <3>1, <3>2 DEF DeletionQueue!Release
    <3> QED
      BY <2>1, <3>3 DEF DeletionQueue!Next
  <2>5. CASE /\ row.status \in {"succeeded", "failed"} /\ row.leased = FALSE
             /\ row.retries = deletionJob[j].retries
    <3>1. triesOf' = triesOf /\ freeJobs' = freeJobs \cup {j}
      BY <2>2, <2>5 DEF triesOf
    <3>2. DeletionQueue!Finish(j)
      BY <2>2, <2>3, <2>5, <3>1 DEF DeletionQueue!Finish
    <3> QED
      BY <2>1, <3>2 DEF DeletionQueue!Next
  <2> QED
    BY <1>4, <2>4, <2>5
<1> QED
  BY <1>1, <1>3, <1>4

LEMMA FailureLeaves ==
  ASSUME DeletionInv, HoldersCount, NEW w \in DeletionWorkers, deleter[w] # NoJob,
         NEW remaining \in SUBSET ScanNumbers, RetryOrFail(w, remaining)
  PROVE  HoldersCount' /\ [DeletionQueue!Next]_(DeletionQueue!cvars)
<1> PICK j \in DeletionJobs : j = deleter[w].job
  BY DEF DeletionInv, DeletionData, Deletions
<1>1. deletionJob[j] \in DeletionRows /\ deleter[w].retries \in Nat /\ DeleterStops(w)
  BY DEF DeletionInv, DeletionData, Deletions, RetryOrFail
<1>2. CASE ~ OwnsDeletion(w)
  <2>1. UNCHANGED deletionJob
    BY <1>2 DEF RetryOrFail
  <2> QED
    BY <1>1, <2>1, DeleterLeaves
<1> DEFINE again == [deletionJob[j] EXCEPT !.owner = NoWorker, !.leased = TRUE,
                       !.remaining = remaining, !.retries = deleter[w].retries + 1]
           failed == [deletionJob[j] EXCEPT !.status = "failed", !.owner = NoWorker, !.leased = FALSE]
<1>3. CASE OwnsDeletion(w) /\ deleter[w].retries < MaxDeletionRetries /\ SetDeletion(j, again)
  <2> DEFINE row == [deletionJob[j] EXCEPT !.owner = NoWorker, !.leased = TRUE,
                       !.remaining = remaining, !.retries = deleter[w].retries + 1]
  <2>1. SetDeletion(j, row)
    BY <1>3
  <2>2. /\ row \in DeletionRows /\ row.owner = NoWorker /\ row.leased = TRUE
        /\ row.status = deletionJob[j].status /\ row.retries = deleter[w].retries + 1
    <3>1. PICK n \in Nat : n = deleter[w].retries + 1
      BY <1>1
    <3>2. row = [deletionJob[j] EXCEPT !.owner = NoWorker, !.leased = TRUE,
                                       !.remaining = remaining, !.retries = n]
      BY <3>1
    <3> HIDE DEF row
    <3> QED
      BY <1>1, <3>1, <3>2 DEF DeletionRows
  <2> HIDE DEF row
  <2> QED
    BY <1>1, <1>3, <2>1, <2>2, DeleterLeaves
<1>4. CASE OwnsDeletion(w) /\ SetDeletion(j, failed)
  <2> DEFINE row == [deletionJob[j] EXCEPT !.status = "failed", !.owner = NoWorker, !.leased = FALSE]
  <2>1. SetDeletion(j, row)
    BY <1>4
  <2>2. /\ row \in DeletionRows /\ row.owner = NoWorker /\ row.leased = FALSE
        /\ row.status = "failed" /\ row.retries = deletionJob[j].retries
    BY <1>1 DEF DeletionRows
  <2> HIDE DEF row
  <2> QED
    BY <1>1, <1>4, <2>1, <2>2, DeleterLeaves
<1> QED
  BY <1>2, <1>3, <1>4 DEF RetryOrFail

LEMMA FinishEnds ==
  ASSUME DeletionInv, HoldersCount, NEW w \in DeletionWorkers, FinishDeletion(w) \/ DeleterDies(w)
  PROVE  HoldersCount' /\ [DeletionQueue!Next]_(DeletionQueue!cvars)
<1> PICK j : j = deleter[w].job
  OBVIOUS
<1>1. deleter[w] # NoJob /\ DeleterStops(w) /\ j \in DeletionJobs /\ deletionJob[j] \in DeletionRows
  BY DEF FinishDeletion, DeleterDies, DeleterAt, DeletionInv, DeletionData, Deletions
<1>2. CASE UNCHANGED deletionJob
  BY <1>1, <1>2, DeleterLeaves
<1>3. CASE ~ UNCHANGED deletionJob
  <2> DEFINE row == [deletionJob[j] EXCEPT !.status = "succeeded", !.owner = NoWorker,
                                           !.leased = FALSE]
  <2>1. OwnsDeletion(w) /\ SetDeletion(j, row)
    BY <1>3 DEF FinishDeletion, DeleterDies
  <2>2. /\ row \in DeletionRows /\ row.owner = NoWorker /\ row.leased = FALSE
        /\ row.status = "succeeded" /\ row.retries = deletionJob[j].retries
    BY <1>1 DEF DeletionRows
  <2> HIDE DEF row
  <2> QED
    BY <1>1, <2>1, <2>2, DeleterLeaves
<1> QED
  BY <1>2, <1>3

LEMMA DeletionQueueStep ==
  ASSUME DeletionInv, HoldersCount, [DeletionNext]_deletionVars
  PROVE  HoldersCount' /\ [DeletionQueue!Next]_(DeletionQueue!cvars)
<1>1. CASE UNCHANGED <<deletionJob, deleter>>
  BY <1>1, RowsAlone
<1>2. ASSUME NEW r \in DeletionRequests, NEW j \in DeletionJobs, EnqueueDeletion(r, j)
      PROVE  HoldersCount' /\ [DeletionQueue!Next]_(DeletionQueue!cvars)
  BY <1>2, EnqueueAccepts
<1>3. ASSUME NEW w \in DeletionWorkers, DeleteBatch(w)
      PROVE  HoldersCount' /\ [DeletionQueue!Next]_(DeletionQueue!cvars)
  <2>1. /\ UNCHANGED deletionJob /\ deleter[w] # NoJob /\ deleter[w] \in Deletions
        /\ deleter' = [deleter EXCEPT ![w].step = "save"]
    BY <1>3 DEF DeleteBatch, DeleterAt, DeleterGoes, DeletionInv, DeletionData
  <2>2. /\ deleter'[w].job = deleter[w].job /\ deleter'[w].retries = deleter[w].retries
        /\ \A v \in DeletionWorkers \ {w} : deleter'[v] = deleter[v]
    BY <2>1 DEF DeletionInv, DeletionData, Deletions
  <2> QED
    BY <2>1, <2>2, RowsAlone
<1>4. ASSUME NEW w \in DeletionWorkers, BeginBatchFails(w) \/ DeleteBatchFails(w) \/ SaveProgressFails(w)
      PROVE  HoldersCount' /\ [DeletionQueue!Next]_(DeletionQueue!cvars)
  <2>1. deleter[w] # NoJob /\ deleter[w].remaining \in SUBSET ScanNumbers
    BY <1>4 DEF BeginBatchFails, DeleteBatchFails, SaveProgressFails, DeleterAt, DeletionInv,
                DeletionData, Deletions
  <2>2. Rest(w) \in SUBSET ScanNumbers
    BY <2>1 DEF Rest
  <2> QED
    BY <1>4, <2>1, <2>2, FailureLeaves DEF BeginBatchFails, DeleteBatchFails, SaveProgressFails
<1>5. CASE \E s \in ScanNumbers : CreateScan(s) \/ DeleteOne(s)
  BY <1>1, <1>5 DEF CreateScan, DeleteOne
<1>6. CASE \E r \in DeletionRequests : ListGroup(r)
  BY <1>1, <1>6 DEF ListGroup
<1>7. CASE UNCHANGED deletionVars
  BY <1>1, <1>7 DEF deletionVars
<1> QED
  BY <1>2, <1>3, <1>4, <1>5, <1>6, <1>7, ClaimTakes, LeaseExpires, ProgressRenews, FinishEnds
  DEF DeletionNext

(* As the deletion's rows go, they go as JobContract lets the jobs of a    *)
(* queue go: one active job per image, one holder, an end by the holder.   *)
(* So what the deletion takes for granted of its queue is no more than     *)
(* what JobQueue is proved to do (backgroundjobs/jobs.go).                 *)
THEOREM DeletionUsesTheQueue == DeletionSpec => DeletionKeepsContract
<1>1. DeletionInit => HoldersCount /\ DeletionQueue!Init
  BY DEF DeletionInit, NoRow, HoldersCount, DeletionQueue!Init, phaseOf, holderOf, freeJobs, triesOf
<1>2. DeletionInv /\ HoldersCount /\ [DeletionNext]_deletionVars
        => HoldersCount' /\ [DeletionQueue!Next]_(DeletionQueue!cvars)
  BY DeletionQueueStep
<1> QED
  BY <1>1, <1>2, DeletionInvariant, PTL
  DEF DeletionSpec, DeletionKeepsContract, DeletionQueue!Spec

-----------------------------------------------------------------------------
(* The scheduled scans of a watchlist item *)

Items == [enabled : BOOLEAN, schedule : Schedules]

CronEntries == [id : Nat, copy : Items]

Tasks ==
    [step : {"idle", "done"}]
      \cup [step : {"load"}, process : CronProcesses]
      \cup [step : {"write"}, process : CronProcesses, change : Changes, bulk : BOOLEAN, copy : Items]
      \cup [step : {"remove", "unschedule", "add"}, process : CronProcesses, copy : Items]
      \cup [step : {"store"}, process : CronProcesses, id : Nat]

FiringRecords ==
    [step : {"idle"}]
      \cup [step : {"lock", "check", "insert", "unlock"}, process : CronProcesses, off : BOOLEAN]

RowData ==
    /\ watchRow \in {"none", "present", "deleted"}
    /\ watchItem \in Items /\ recent \in BOOLEAN

(* The lock is held by the firing that is past it; a firing that is about  *)
(* to scan has seen the item on, and no other has scanned in the window.   *)
FiringInv ==
    /\ firing \in [Firings -> FiringRecords]
    /\ watchLock \in Firings \cup {NoFiring}
    /\ \A f \in Firings : firing[f].step \in {"check", "insert", "unlock"} <=> watchLock = f
    /\ \A f \in Firings : firing[f].step # "idle" /\ firing[f].off = TRUE => ~ ItemIsOn
    /\ \A f \in Firings : firing[f].step = "insert" => watchScans = 0 /\ firing[f].off = FALSE
    /\ watchScans \in {0, 1} /\ (recent = FALSE => watchScans = 0)
    /\ unwantedScans = 0

Busy(t) == task[t].step \notin {"idle", "done"}

CronData ==
    /\ task \in [ScheduleTasks -> Tasks]
    /\ entryOf \in [CronProcesses -> Nat \cup {NoEntry}]
    /\ cronEntries \in [CronProcesses -> SUBSET CronEntries]
    /\ lastEntryId \in [CronProcesses -> Nat]
    /\ \A p \in CronProcesses : Busy(p) => task[p].process = p

(* The ids of a process are handed out in order, each once.                *)
IdsAreGiven ==
    /\ \A p \in CronProcesses :
          /\ entryOf[p] # NoEntry => entryOf[p] <= lastEntryId[p]
          /\ \A e \in cronEntries[p] : e.id <= lastEntryId[p]
          /\ \A d, e \in cronEntries[p] : d.id = e.id => d = e
    /\ \A t \in ScheduleTasks : task[t].step = "store" => task[t].id <= lastEntryId[task[t].process]

(* As long as no two tasks have met in a process, the entries it has are   *)
(* those its task takes away or has just added.                            *)
TasksFitEntries ==
    \A p \in CronProcesses \ overlapping :
       /\ \A s, t \in TasksOf(p) : s = t
       /\ \/ \E t \in TasksOf(p) : task[t].step \in {"add", "store"}
          \/ \A e \in cronEntries[p] : e.id = entryOf[p]
       /\ \A t \in TasksOf(p) :
             /\ task[t].step = "add" => cronEntries[p] = {}
             /\ task[t].step = "store" => \A e \in cronEntries[p] : e.id = task[t].id

CronInv == CronData /\ IdsAreGiven /\ TasksFitEntries

WatchInv == RowData /\ FiringInv /\ CronInv

(* What a step leaves alone keeps its part of the invariant.               *)
LEMMA FiringStays ==
  ASSUME FiringInv, UNCHANGED <<rowVars, firing, watchLock, watchScans, unwantedScans>>
  PROVE  FiringInv'
BY DEF FiringInv, rowVars, ItemIsOn

LEMMA RowStays ==
  ASSUME RowData, UNCHANGED <<watchRow, watchItem>>, recent' \in BOOLEAN
  PROVE  RowData'
BY DEF RowData

LEMMA CronStays ==
  ASSUME CronInv, UNCHANGED <<cronVars, task, overlapping>>
  PROVE  CronInv'
<1>1. CronData' /\ IdsAreGiven'
  BY DEF CronInv, CronData, IdsAreGiven, Busy, cronVars
<1>2. TasksFitEntries'
  BY DEF CronInv, TasksFitEntries, TasksOf, cronVars
<1> QED
  BY <1>1, <1>2 DEF CronInv

-----------------------------------------------------------------------------
(* The firings *)

(* One firing goes on, and takes or leaves the lock.                       *)
LEMMA FiringSteps ==
  ASSUME FiringInv, NEW f \in Firings, NEW r \in FiringRecords,
         firing' = [firing EXCEPT ![f] = r],
         UNCHANGED <<watchRow, watchItem>>,
         \/ watchLock' = watchLock /\ (r.step \in {"check", "insert", "unlock"} <=> watchLock = f)
         \/ watchLock = NoFiring /\ watchLock' = f /\ r.step \in {"check", "insert", "unlock"}
         \/ watchLock = f /\ watchLock' = NoFiring /\ r.step \notin {"check", "insert", "unlock"},
         r.step # "idle" /\ r.off = TRUE => ~ ItemIsOn,
         r.step = "insert" => watchScans' = 0 /\ r.off = FALSE,
         watchScans' = watchScans \/ watchLock = f,
         watchScans' \in {0, 1}, recent' = FALSE => watchScans' = 0, unwantedScans' = 0
  PROVE  FiringInv'
<1>1. /\ firing' \in [Firings -> FiringRecords] /\ firing'[f] = r
      /\ \A g \in Firings \ {f} : firing'[g] = firing[g]
  BY DEF FiringInv
<1>2. NoFiring \notin Firings
  BY WatchConstants
<1>3. ItemIsOn' = ItemIsOn
  BY DEF ItemIsOn
<1>4. watchLock' \in Firings \cup {NoFiring}
  BY DEF FiringInv
<1>5. ASSUME NEW g \in Firings
      PROVE  firing'[g].step \in {"check", "insert", "unlock"} <=> watchLock' = g
  <2>1. CASE g = f
    BY <1>1, <1>2, <2>1
  <2>2. CASE g # f
    BY <1>1, <1>2, <2>2 DEF FiringInv
  <2> QED
    BY <2>1, <2>2
<1>6. \A g \in Firings : firing'[g].step # "idle" /\ firing'[g].off = TRUE => ~ ItemIsOn
  BY <1>1 DEF FiringInv
<1>7. ASSUME NEW g \in Firings, firing'[g].step = "insert"
      PROVE  watchScans' = 0 /\ firing'[g].off = FALSE
  <2>1. CASE g = f
    BY <1>1, <1>7, <2>1
  <2>2. CASE g # f
    <3>1. firing[g].step = "insert" /\ watchLock = g
      BY <1>1, <1>7, <2>2 DEF FiringInv
    <3> QED
      BY <1>1, <2>2, <3>1 DEF FiringInv
  <2> QED
    BY <2>1, <2>2
<1> QED
  BY <1>1, <1>3, <1>4, <1>5, <1>6, <1>7 DEF FiringInv

LEMMA IdleFiring ==
  /\ NotFiring \in FiringRecords /\ NotFiring.step = "idle"
BY DEF NotFiring, FiringRecords

(* The record of a firing that goes to a later step.                       *)
LEMMA FiringGoes ==
  ASSUME FiringInv, NEW f \in Firings, firing[f].step # "idle",
         NEW step \in {"check", "insert", "unlock"}
  PROVE  /\ [firing[f] EXCEPT !.step = step] \in FiringRecords
         /\ [firing[f] EXCEPT !.step = step].step = step
         /\ [firing[f] EXCEPT !.step = step].off = firing[f].off
         /\ firing[f].off \in BOOLEAN
<1>1. firing[f] \in FiringRecords
  BY DEF FiringInv
<1>2. firing[f] \in [step : {"lock", "check", "insert", "unlock"}, process : CronProcesses,
                     off : BOOLEAN]
  BY <1>1 DEF FiringRecords
<1> QED
  BY <1>2 DEF FiringRecords

LEMMA FireKeeps ==
  ASSUME RowData, FiringInv, NEW f \in Firings, NEW p \in CronProcesses, Fire(f, p)
  PROVE  FiringInv'
<1> DEFINE r == [step |-> "lock", process |-> p, off |-> ~ ItemIsOn]
<1>1. /\ firing[f].step = "idle" /\ firing' = [firing EXCEPT ![f] = r]
      /\ UNCHANGED <<watchRow, watchItem, recent, watchLock, watchScans, unwantedScans>>
  BY DEF Fire, rowVars, watchSeen
<1>2. /\ r \in FiringRecords /\ r.step = "lock" /\ (r.off = TRUE => ~ ItemIsOn)
  BY DEF FiringRecords
<1> HIDE DEF r
<1>3. watchLock # f
  BY <1>1 DEF FiringInv
<1>4. watchScans \in {0, 1} /\ (recent = FALSE => watchScans = 0) /\ unwantedScans = 0
  BY DEF FiringInv
<1> QED
  BY <1>1, <1>2, <1>3, <1>4, FiringSteps

LEMMA TryLockKeeps ==
  ASSUME FiringInv, NEW f \in Firings, TryLock(f)
  PROVE  FiringInv'
<1>1. /\ firing[f].step = "lock"
      /\ UNCHANGED <<watchRow, watchItem, recent, watchScans, unwantedScans>>
  BY DEF TryLock, rowVars, watchSeen
<1>2. watchLock # f
  BY <1>1 DEF FiringInv
<1>3. watchScans \in {0, 1} /\ (recent = FALSE => watchScans = 0) /\ unwantedScans = 0
  BY DEF FiringInv
<1>4. CASE watchLock = NoFiring
  <2> DEFINE r == [firing[f] EXCEPT !.step = "check"]
  <2>1. watchLock' = f /\ firing' = [firing EXCEPT ![f] = r]
    BY <1>4 DEF TryLock
  <2>2. r \in FiringRecords /\ r.step = "check" /\ r.off = firing[f].off
    BY <1>1, FiringGoes
  <2> HIDE DEF r
  <2>3. r.off = TRUE => ~ ItemIsOn
    BY <1>1, <2>2 DEF FiringInv
  <2> QED
    BY <1>1, <1>3, <1>4, <2>1, <2>2, <2>3, FiringSteps
<1>5. CASE watchLock # NoFiring
  <2>1. watchLock' = watchLock /\ firing' = [firing EXCEPT ![f] = NotFiring]
    BY <1>5 DEF TryLock
  <2> QED
    BY <1>1, <1>2, <1>3, <2>1, IdleFiring, FiringSteps
<1> QED
  BY <1>4, <1>5

LEMMA CheckItemKeeps ==
  ASSUME RowData, FiringInv, NEW f \in Firings, CheckItem(f)
  PROVE  FiringInv'
<1>1. /\ firing[f].step = "check"
      /\ UNCHANGED <<watchRow, watchItem, recent, watchScans, unwantedScans>>
  BY DEF CheckItem, rowVars, watchSeen
<1>2. watchLock = f
  BY <1>1 DEF FiringInv
<1>3. watchScans \in {0, 1} /\ (recent = FALSE => watchScans = 0) /\ unwantedScans = 0
  BY DEF FiringInv
<1>4. CASE ItemIsOn /\ ~ recent
  <2> DEFINE r == [firing[f] EXCEPT !.step = "insert"]
  <2>1. watchLock' = watchLock /\ firing' = [firing EXCEPT ![f] = r]
    BY <1>4 DEF CheckItem
  <2>2. r \in FiringRecords /\ r.step = "insert" /\ r.off = firing[f].off /\ firing[f].off \in BOOLEAN
    BY <1>1, FiringGoes
  <2> HIDE DEF r
  <2>3. firing[f].off # TRUE
    BY <1>1, <1>4 DEF FiringInv
  <2>4. r.off = FALSE
    BY <2>2, <2>3
  <2>5. watchScans' = 0
    BY <1>1, <1>4 DEF RowData, FiringInv
  <2> QED
    BY <1>1, <1>2, <1>3, <2>1, <2>2, <2>4, <2>5, FiringSteps
<1>5. CASE ~ (ItemIsOn /\ ~ recent)
  <2>1. watchLock' = NoFiring /\ firing' = [firing EXCEPT ![f] = NotFiring]
    BY <1>5 DEF CheckItem
  <2> QED
    BY <1>1, <1>2, <1>3, <2>1, IdleFiring, FiringSteps
<1> QED
  BY <1>4, <1>5

LEMMA CreateScheduledScanKeeps ==
  ASSUME FiringInv, NEW f \in Firings, CreateScheduledScan(f)
  PROVE  FiringInv'
<1> DEFINE r == [firing[f] EXCEPT !.step = "unlock"]
<1>1. /\ firing[f].step = "insert" /\ recent' = TRUE /\ watchScans' = watchScans + 1
      /\ unwantedScans' = unwantedScans + IF firing[f].off THEN 1 ELSE 0
      /\ firing' = [firing EXCEPT ![f] = r]
      /\ UNCHANGED <<watchRow, watchItem, watchLock>>
  BY DEF CreateScheduledScan
<1>2. watchLock = f /\ watchScans = 0 /\ firing[f].off = FALSE
  BY <1>1 DEF FiringInv
<1>3. watchScans' = 1 /\ unwantedScans' = 0
  BY <1>1, <1>2 DEF FiringInv
<1>4. r \in FiringRecords /\ r.step = "unlock" /\ r.off = firing[f].off
  BY <1>1, FiringGoes
<1> HIDE DEF r
<1> QED
  BY <1>1, <1>2, <1>3, <1>4, FiringSteps

LEMMA FiringEndsKeeps ==
  ASSUME FiringInv, NEW f \in Firings, ReleaseLock(f) \/ FiringFails(f)
  PROVE  FiringInv'
<1>1. /\ firing[f].step \in {"check", "insert", "unlock"}
      /\ watchLock' = NoFiring /\ firing' = [firing EXCEPT ![f] = NotFiring]
      /\ UNCHANGED <<watchRow, watchItem, recent, watchScans, unwantedScans>>
  BY DEF ReleaseLock, FiringFails, rowVars, watchSeen
<1>2. watchLock = f
  BY <1>1 DEF FiringInv
<1>3. watchScans \in {0, 1} /\ (recent = FALSE => watchScans = 0) /\ unwantedScans = 0
  BY DEF FiringInv
<1> QED
  BY <1>1, <1>2, <1>3, IdleFiring, FiringSteps

(* A user's scan and the end of the window leave the firings as they are.  *)
LEMMA WindowPassesKeeps ==
  ASSUME FiringInv, TriggerScan \/ WindowPasses
  PROVE  FiringInv'
BY DEF TriggerScan, WindowPasses, FiringInv, ItemIsOn, watchSeen

-----------------------------------------------------------------------------
(* The tasks *)

(* The task t goes on in the process p, which is the only one it touches.  *)
LEMMA CronSteps ==
  ASSUME CronInv, NEW t \in ScheduleTasks, NEW p \in CronProcesses, NEW r \in Tasks,
         task' = [task EXCEPT ![t] = r],
         Busy(t) => task[t].process = p,
         r.step \notin {"idle", "done"} => r.process = p /\ (t \in CronProcesses => t = p),
         overlapping \subseteq overlapping' /\ overlapping' \subseteq overlapping \cup {p},
         p \notin overlapping' => TasksOf(p) \subseteq {t},
         entryOf' \in [CronProcesses -> Nat \cup {NoEntry}],
         cronEntries' \in [CronProcesses -> SUBSET CronEntries],
         lastEntryId' \in [CronProcesses -> Nat],
         \A q \in CronProcesses \ {p} : /\ entryOf'[q] = entryOf[q]
                                        /\ cronEntries'[q] = cronEntries[q]
                                        /\ lastEntryId'[q] = lastEntryId[q],
         lastEntryId'[p] >= lastEntryId[p],
         entryOf'[p] # NoEntry => entryOf'[p] <= lastEntryId'[p],
         \A e \in cronEntries'[p] : e.id <= lastEntryId'[p],
         \A d, e \in cronEntries'[p] : d.id = e.id => d = e,
         r.step = "store" => r.id <= lastEntryId'[p],
         p \notin overlapping' =>
            /\ r.step \notin {"add", "store"} => \A e \in cronEntries'[p] : e.id = entryOf'[p]
            /\ r.step = "add" => cronEntries'[p] = {}
            /\ r.step = "store" => \A e \in cronEntries'[p] : e.id = r.id
  PROVE  CronInv'
<1>1. /\ task' \in [ScheduleTasks -> Tasks] /\ task'[t] = r
      /\ \A s \in ScheduleTasks \ {t} : task'[s] = task[s]
  BY DEF CronInv, CronData
<1>2. CronProcesses \subseteq ScheduleTasks
  BY DEF ScheduleTasks
<1>3. CronData'
  BY <1>1, <1>2 DEF CronInv, CronData, Busy
<1>4. IdsAreGiven'
  <2>1. ASSUME NEW s \in ScheduleTasks, task'[s].step = "store"
        PROVE  task'[s].id <= lastEntryId'[task'[s].process]
    <3>1. CASE s = t
      BY <1>1, <2>1, <3>1
    <3>2. CASE s # t
      <4>1. task[s] \in Tasks /\ task[s].step = "store" /\ task'[s] = task[s]
        BY <1>1, <2>1, <3>2 DEF CronInv, CronData
      <4>2. task[s].process \in CronProcesses /\ task[s].id \in Nat
        BY <4>1 DEF Tasks
      <4>3. task[s].id <= lastEntryId[task[s].process]
        BY <4>1 DEF CronInv, IdsAreGiven
      <4>4. /\ lastEntryId[task[s].process] \in Nat /\ lastEntryId'[task[s].process] \in Nat
            /\ lastEntryId[task[s].process] <= lastEntryId'[task[s].process]
        BY <4>2 DEF CronInv, CronData
      <4> QED
        BY <4>1, <4>2, <4>3, <4>4
    <3> QED
      BY <3>1, <3>2
  <2>2. ASSUME NEW q \in CronProcesses
        PROVE  /\ entryOf'[q] # NoEntry => entryOf'[q] <= lastEntryId'[q]
               /\ \A e \in cronEntries'[q] : e.id <= lastEntryId'[q]
               /\ \A d, e \in cronEntries'[q] : d.id = e.id => d = e
    <3>1. CASE q = p
      BY <3>1
    <3>2. CASE q # p
      BY <3>2 DEF CronInv, IdsAreGiven
    <3> QED
      BY <3>1, <3>2
  <2> QED
    BY <2>1, <2>2 DEF IdsAreGiven
<1>5. \A q \in CronProcesses \ {p} : TasksOf(q)' = TasksOf(q)
  <2> SUFFICES ASSUME NEW q \in CronProcesses \ {p}, NEW s
               PROVE  s \in TasksOf(q)' <=> s \in TasksOf(q)
    OBVIOUS
  <2>1. CASE s = t
    BY <1>1, <2>1 DEF TasksOf, Busy
  <2>2. CASE s # t
    BY <1>1, <2>2 DEF TasksOf
  <2> QED
    BY <2>1, <2>2
<1>6. ASSUME NEW s \in TasksOf(p)', p \notin overlapping' PROVE s = t
  BY <1>1, <1>6 DEF TasksOf
<1>7. TasksFitEntries'
  <2> SUFFICES ASSUME NEW q \in CronProcesses \ overlapping'
        PROVE  /\ \A s, u \in TasksOf(q)' : s = u
               /\ \/ \E s \in TasksOf(q)' : task'[s].step \in {"add", "store"}
                  \/ \A e \in cronEntries'[q] : e.id = entryOf'[q]
               /\ \A s \in TasksOf(q)' :
                    /\ task'[s].step = "add" => cronEntries'[q] = {}
                    /\ task'[s].step = "store" => \A e \in cronEntries'[q] : e.id = task'[s].id
    BY DEF TasksFitEntries
  <2>1. CASE q = p
    <3>1. r.step \in {"add", "store"} => t \in TasksOf(p)'
      BY <1>1 DEF TasksOf
    <3> QED
      BY <1>1, <1>6, <2>1, <3>1
  <2>2. CASE q # p
    <3>1. TasksOf(q)' = TasksOf(q) /\ q \notin overlapping
      BY <1>5, <2>2
    <3>2. \A s \in TasksOf(q) : task'[s] = task[s]
      <4>1. ~ Busy(t) \/ t \notin TasksOf(q)
        BY <2>2 DEF TasksOf
      <4> QED
        BY <1>1, <4>1 DEF TasksOf, Busy
    <3> QED
      BY <2>2, <3>1, <3>2 DEF CronInv, TasksFitEntries
  <2> QED
    BY <2>1, <2>2
<1> QED
  BY <1>3, <1>4, <1>7 DEF CronInv

(* What the invariant says of a task that is under way in its process.     *)
LEMMA TaskIsAlone ==
  ASSUME CronInv, NEW t \in ScheduleTasks, Busy(t)
  PROVE  /\ task[t].process \in CronProcesses
         /\ t \in CronProcesses => task[t].process = t
         /\ task[t].process \notin overlapping => TasksOf(task[t].process) = {t}
<1>1. task[t] \in Tasks
  BY DEF CronInv, CronData
<1>2. task[t].process \in CronProcesses
  BY <1>1 DEF Tasks, Busy
<1>3. t \in TasksOf(task[t].process)
  BY DEF TasksOf, Busy
<1>4. t \in CronProcesses => task[t].process = t
  BY DEF CronInv, CronData
<1>5. ASSUME task[t].process \notin overlapping PROVE TasksOf(task[t].process) = {t}
  BY <1>2, <1>3, <1>5 DEF CronInv, TasksFitEntries
<1> QED
  BY <1>2, <1>4, <1>5

(* A task that goes on without touching its process's entries.             *)
LEMMA TaskGoes ==
  ASSUME CronInv, NEW t \in ScheduleTasks, Busy(t), UNCHANGED <<cronVars, overlapping>>,
         NEW r \in Tasks, task' = [task EXCEPT ![t] = r],
         r.step \in {"idle", "done"} \/ r.process = task[t].process,
         r.step \notin {"add", "store"}, task[t].step \notin {"add", "store"}
  PROVE  CronInv'
<1> DEFINE p == task[t].process
<1>1. /\ p \in CronProcesses /\ (t \in CronProcesses => p = t)
      /\ p \notin overlapping => TasksOf(p) = {t}
  BY TaskIsAlone
<1>2. /\ entryOf' \in [CronProcesses -> Nat \cup {NoEntry}]
      /\ cronEntries' \in [CronProcesses -> SUBSET CronEntries]
      /\ lastEntryId' \in [CronProcesses -> Nat]
      /\ UNCHANGED <<entryOf, cronEntries, lastEntryId>> /\ lastEntryId[p] \in Nat
  BY <1>1 DEF CronInv, CronData, cronVars
<1>3. /\ entryOf[p] # NoEntry => entryOf[p] <= lastEntryId[p]
      /\ \A e \in cronEntries[p] : e.id <= lastEntryId[p]
      /\ \A d, e \in cronEntries[p] : d.id = e.id => d = e
  BY <1>1 DEF CronInv, IdsAreGiven
<1>4. p \notin overlapping => \A e \in cronEntries[p] : e.id = entryOf[p]
  BY <1>1 DEF CronInv, TasksFitEntries
<1> HIDE DEF p
<1>5. task[t].process = p
  BY DEF p
<1>6. /\ Busy(t) => task[t].process = p
      /\ r.step \notin {"idle", "done"} => r.process = p /\ (t \in CronProcesses => t = p)
      /\ overlapping \subseteq overlapping' /\ overlapping' \subseteq overlapping \cup {p}
      /\ p \notin overlapping' => TasksOf(p) \subseteq {t}
  BY <1>1, <1>2, <1>3, <1>4, <1>5
<1>7. /\ \A q \in CronProcesses \ {p} : /\ entryOf'[q] = entryOf[q]
                                        /\ cronEntries'[q] = cronEntries[q]
                                        /\ lastEntryId'[q] = lastEntryId[q]
      /\ lastEntryId'[p] >= lastEntryId[p]
  BY <1>1, <1>2, <1>3, <1>4, <1>5
<1>8. /\ entryOf'[p] # NoEntry => entryOf'[p] <= lastEntryId'[p]
      /\ \A e \in cronEntries'[p] : e.id <= lastEntryId'[p]
      /\ \A d, e \in cronEntries'[p] : d.id = e.id => d = e
      /\ r.step = "store" => r.id <= lastEntryId'[p]
  BY <1>1, <1>2, <1>3, <1>4, <1>5
<1>9. p \notin overlapping' =>
         /\ r.step \notin {"add", "store"} => \A e \in cronEntries'[p] : e.id = entryOf'[p]
         /\ r.step = "add" => cronEntries'[p] = {}
         /\ r.step = "store" => \A e \in cronEntries'[p] : e.id = r.id
  BY <1>1, <1>2, <1>3, <1>4, <1>5
<1> QED
  BY <1>1, <1>2, <1>6, <1>7, <1>8, <1>9, CronSteps

LEMMA TaskRecords ==
  /\ NoTask \in Tasks /\ [step |-> "done"] \in Tasks
  /\ \A p \in CronProcesses, copy \in Items, step \in {"remove", "unschedule", "add"} :
        [step |-> step, process |-> p, copy |-> copy] \in Tasks
  /\ \A p \in CronProcesses : [step |-> "load", process |-> p] \in Tasks
  /\ \A p \in CronProcesses, change \in Changes, bulk \in BOOLEAN, copy \in Items :
        [step |-> "write", process |-> p, change |-> change, bulk |-> bulk, copy |-> copy] \in Tasks
  /\ \A p \in CronProcesses, id \in Nat : [step |-> "store", process |-> p, id |-> id] \in Tasks
<1>1. NoTask \in Tasks /\ [step |-> "done"] \in Tasks
  BY DEF NoTask, Tasks
<1>2. \A p \in CronProcesses, copy \in Items, step \in {"remove", "unschedule", "add"} :
        [step |-> step, process |-> p, copy |-> copy] \in Tasks
  BY DEF Tasks
<1>3. \A p \in CronProcesses : [step |-> "load", process |-> p] \in Tasks
  BY DEF Tasks
<1>4. \A p \in CronProcesses, change \in Changes, bulk \in BOOLEAN, copy \in Items :
        [step |-> "write", process |-> p, change |-> change, bulk |-> bulk, copy |-> copy] \in Tasks
  BY DEF Tasks
<1>5. \A p \in CronProcesses, id \in Nat : [step |-> "store", process |-> p, id |-> id] \in Tasks
  BY DEF Tasks
<1> QED
  BY <1>1, <1>2, <1>3, <1>4, <1>5

LEMMA ChangedIsItem ==
  ASSUME NEW item \in Items, NEW change \in Changes
  PROVE  Changed(item, change) \in Items
<1>1. CASE change \in Schedules
  <2>1. change \notin ItemChanges
    BY <1>1, WatchConstants
  <2> QED
    BY <1>1, <2>1 DEF Changed, Items, ItemChanges
<1>2. CASE change \notin Schedules
  BY <1>2 DEF Changed, Items, Changes, ItemChanges
<1> QED
  BY <1>1, <1>2

LEMMA LoadItemsKeeps ==
  ASSUME RowData, CronInv, NEW p \in CronProcesses, LoadItems(p)
  PROVE  CronInv'
<1> DEFINE r == IF ItemIsOn THEN [step |-> "remove", process |-> p, copy |-> watchItem]
                ELSE [step |-> "done"]
<1>1. /\ task[p].step = "load" /\ task' = [task EXCEPT ![p] = r]
      /\ UNCHANGED <<cronVars, overlapping>>
  BY DEF LoadItems
<1>2. p \in ScheduleTasks /\ Busy(p) /\ task[p].process = p
  BY <1>1 DEF ScheduleTasks, Busy, CronInv, CronData
<1>3. r \in Tasks /\ r.step \in {"remove", "done"} /\ (r.step = "done" \/ r.process = p)
  <2>1. [step |-> "remove", process |-> p, copy |-> watchItem] \in Tasks /\ [step |-> "done"] \in Tasks
    BY TaskRecords DEF RowData
  <2> QED
    BY <2>1
<1> HIDE DEF r
<1> QED
  BY <1>1, <1>2, <1>3, TaskGoes

LEMMA ReadWatchlistItemKeeps ==
  ASSUME RowData, CronInv, NEW r \in WatchRequests, NEW p \in CronProcesses, NEW change \in Changes,
         NEW bulk \in BOOLEAN, ReadWatchlistItem(r, p, change, bulk)
  PROVE  CronInv'
<1> DEFINE q == [step |-> "write", process |-> p, change |-> change, bulk |-> bulk,
                 copy |-> Changed(watchItem, change)]
<1>1. /\ task[r].step = "idle" /\ task' = [task EXCEPT ![r] = q]
      /\ overlapping' = IF TasksOf(p) # {} THEN overlapping \cup {p} ELSE overlapping
      /\ UNCHANGED <<entryOf, cronEntries, lastEntryId>>
  BY DEF ReadWatchlistItem, cronVars
<1>2. r \in ScheduleTasks /\ ~ Busy(r) /\ r \notin CronProcesses
  BY <1>1, WatchConstants DEF ScheduleTasks, Busy
<1>3. q \in Tasks /\ q.step = "write" /\ q.process = p
  BY TaskRecords, ChangedIsItem DEF RowData
<1> HIDE DEF q
<1>4. /\ entryOf' \in [CronProcesses -> Nat \cup {NoEntry}]
      /\ cronEntries' \in [CronProcesses -> SUBSET CronEntries]
      /\ lastEntryId' \in [CronProcesses -> Nat] /\ lastEntryId[p] \in Nat
  BY <1>1 DEF CronInv, CronData
<1>5. /\ entryOf[p] # NoEntry => entryOf[p] <= lastEntryId[p]
      /\ \A e \in cronEntries[p] : e.id <= lastEntryId[p]
      /\ \A d, e \in cronEntries[p] : d.id = e.id => d = e
  BY DEF CronInv, IdsAreGiven
<1>6. overlapping \subseteq overlapping' /\ overlapping' \subseteq overlapping \cup {p}
  BY <1>1
<1>7. ASSUME p \notin overlapping'
      PROVE  TasksOf(p) = {} /\ \A e \in cronEntries[p] : e.id = entryOf[p]
  <2>1. TasksOf(p) = {} /\ p \notin overlapping
    BY <1>1, <1>7
  <2> QED
    BY <2>1 DEF CronInv, TasksFitEntries
<1>8. /\ Busy(r) => task[r].process = p
      /\ q.step \notin {"idle", "done"} => q.process = p /\ (r \in CronProcesses => r = p)
      /\ overlapping \subseteq overlapping' /\ overlapping' \subseteq overlapping \cup {p}
      /\ p \notin overlapping' => TasksOf(p) \subseteq {r}
  BY <1>1, <1>2, <1>3, <1>4, <1>5, <1>6, <1>7
<1>9. /\ \A o \in CronProcesses \ {p} : /\ entryOf'[o] = entryOf[o]
                                        /\ cronEntries'[o] = cronEntries[o]
                                        /\ lastEntryId'[o] = lastEntryId[o]
      /\ lastEntryId'[p] >= lastEntryId[p]
  BY <1>1, <1>2, <1>3, <1>4, <1>5, <1>6, <1>7
<1>10. /\ entryOf'[p] # NoEntry => entryOf'[p] <= lastEntryId'[p]
       /\ \A e \in cronEntries'[p] : e.id <= lastEntryId'[p]
       /\ \A d, e \in cronEntries'[p] : d.id = e.id => d = e
       /\ q.step = "store" => q.id <= lastEntryId'[p]
  BY <1>1, <1>2, <1>3, <1>4, <1>5, <1>6, <1>7
<1>11. p \notin overlapping' =>
         /\ q.step \notin {"add", "store"} => \A e \in cronEntries'[p] : e.id = entryOf'[p]
         /\ q.step = "add" => cronEntries'[p] = {}
         /\ q.step = "store" => \A e \in cronEntries'[p] : e.id = q.id
  BY <1>1, <1>2, <1>3, <1>4, <1>5, <1>6, <1>7
<1>12. /\ p \in CronProcesses /\ q \in Tasks /\ task' = [task EXCEPT ![r] = q]
       /\ entryOf' \in [CronProcesses -> Nat \cup {NoEntry}]
       /\ cronEntries' \in [CronProcesses -> SUBSET CronEntries]
       /\ lastEntryId' \in [CronProcesses -> Nat]
  BY <1>1, <1>3, <1>4
<1> QED
  BY <1>2, <1>8, <1>9, <1>10, <1>11, <1>12, CronSteps

LEMMA UnscheduleKeeps ==
  ASSUME CronInv, NEW t \in ScheduleTasks, UnscheduleWatchlistItem(t)
  PROVE  CronInv'
<1> DEFINE p == task[t].process
           rest == cronEntries[p] \ Entry(p, entryOf[p])
           r == [step |-> "done"]
<1>1. /\ task[t].step = "unschedule" /\ Busy(t) /\ task' = [task EXCEPT ![t] = r]
      /\ cronEntries' = [cronEntries EXCEPT ![p] = rest]
      /\ entryOf' = [entryOf EXCEPT ![p] = NoEntry]
      /\ UNCHANGED <<lastEntryId, overlapping>>
  BY DEF UnscheduleWatchlistItem, Busy
<1>2. /\ p \in CronProcesses /\ (t \in CronProcesses => p = t)
      /\ p \notin overlapping => TasksOf(p) = {t}
  BY <1>1, TaskIsAlone
<1>3. r \in Tasks /\ r.step = "done"
  BY TaskRecords
<1>4. rest \subseteq cronEntries[p] /\ rest \subseteq CronEntries
  BY <1>2 DEF CronInv, CronData
<1>5. p \notin overlapping => rest = {}
  BY <1>1, <1>2 DEF CronInv, TasksFitEntries, Entry
<1> HIDE DEF p, rest, r
<1>6. /\ entryOf' \in [CronProcesses -> Nat \cup {NoEntry}] /\ entryOf'[p] = NoEntry
      /\ cronEntries' \in [CronProcesses -> SUBSET CronEntries] /\ cronEntries'[p] = rest
      /\ lastEntryId' \in [CronProcesses -> Nat] /\ lastEntryId[p] \in Nat
      /\ \A q \in CronProcesses \ {p} : entryOf'[q] = entryOf[q] /\ cronEntries'[q] = cronEntries[q]
  BY <1>1, <1>2, <1>4 DEF CronInv, CronData
<1>7. /\ \A e \in rest : e.id <= lastEntryId[p]
      /\ \A d, e \in rest : d.id = e.id => d = e
  BY <1>2, <1>4 DEF CronInv, IdsAreGiven
<1>8. task[t].process = p
  BY DEF p
<1>9. /\ Busy(t) => task[t].process = p
      /\ r.step \notin {"idle", "done"} => r.process = p /\ (t \in CronProcesses => t = p)
      /\ overlapping \subseteq overlapping' /\ overlapping' \subseteq overlapping \cup {p}
      /\ p \notin overlapping' => TasksOf(p) \subseteq {t}
  BY <1>1, <1>2, <1>3, <1>5, <1>6, <1>7, <1>8
<1>10. /\ \A q \in CronProcesses \ {p} : /\ entryOf'[q] = entryOf[q]
                                        /\ cronEntries'[q] = cronEntries[q]
                                        /\ lastEntryId'[q] = lastEntryId[q]
      /\ lastEntryId'[p] >= lastEntryId[p]
  BY <1>1, <1>2, <1>3, <1>5, <1>6, <1>7, <1>8
<1>11. /\ entryOf'[p] # NoEntry => entryOf'[p] <= lastEntryId'[p]
       /\ \A e \in cronEntries'[p] : e.id <= lastEntryId'[p]
       /\ \A d, e \in cronEntries'[p] : d.id = e.id => d = e
       /\ r.step = "store" => r.id <= lastEntryId'[p]
  BY <1>1, <1>2, <1>3, <1>5, <1>6, <1>7, <1>8
<1>12. p \notin overlapping' =>
         /\ r.step \notin {"add", "store"} => \A e \in cronEntries'[p] : e.id = entryOf'[p]
         /\ r.step = "add" => cronEntries'[p] = {}
         /\ r.step = "store" => \A e \in cronEntries'[p] : e.id = r.id
  BY <1>1, <1>2, <1>3, <1>5, <1>6, <1>7, <1>8
<1>13. /\ p \in CronProcesses /\ r \in Tasks /\ task' = [task EXCEPT ![t] = r]
       /\ entryOf' \in [CronProcesses -> Nat \cup {NoEntry}]
       /\ cronEntries' \in [CronProcesses -> SUBSET CronEntries]
       /\ lastEntryId' \in [CronProcesses -> Nat]
  BY <1>1, <1>2, <1>3, <1>6
<1> QED
  BY <1>9, <1>10, <1>11, <1>12, <1>13, CronSteps

LEMMA RemoveEntryKeeps ==
  ASSUME CronInv, NEW t \in ScheduleTasks, RemoveEntry(t)
  PROVE  CronInv'
<1> DEFINE p == task[t].process
           rest == cronEntries[p] \ Entry(p, entryOf[p])
           r == [task[t] EXCEPT !.step = "add"]
<1>1. /\ task[t].step = "remove" /\ Busy(t) /\ task' = [task EXCEPT ![t] = r]
      /\ cronEntries' = [cronEntries EXCEPT ![p] = rest]
      /\ UNCHANGED <<entryOf, lastEntryId, overlapping>>
  BY DEF RemoveEntry, Busy
<1>2. /\ p \in CronProcesses /\ (t \in CronProcesses => p = t)
      /\ p \notin overlapping => TasksOf(p) = {t}
  BY <1>1, TaskIsAlone
<1>3. r \in Tasks /\ r.step = "add" /\ r.process = p
  <2>1. task[t] \in Tasks
    BY DEF CronInv, CronData
  <2>2. task[t] \in [step : {"remove", "unschedule", "add"}, process : CronProcesses, copy : Items]
    BY <1>1, <2>1 DEF Tasks
  <2> QED
    BY <2>2 DEF Tasks
<1>4. rest \subseteq cronEntries[p] /\ rest \subseteq CronEntries
  BY <1>2 DEF CronInv, CronData
<1>5. p \notin overlapping => rest = {}
  BY <1>1, <1>2 DEF CronInv, TasksFitEntries, Entry
<1> HIDE DEF p, rest, r
<1>6. /\ entryOf' \in [CronProcesses -> Nat \cup {NoEntry}]
      /\ cronEntries' \in [CronProcesses -> SUBSET CronEntries] /\ cronEntries'[p] = rest
      /\ lastEntryId' \in [CronProcesses -> Nat] /\ lastEntryId[p] \in Nat
      /\ \A q \in CronProcesses \ {p} : cronEntries'[q] = cronEntries[q]
  BY <1>1, <1>2, <1>4 DEF CronInv, CronData
<1>7. /\ \A e \in rest : e.id <= lastEntryId[p]
      /\ \A d, e \in rest : d.id = e.id => d = e
      /\ entryOf[p] # NoEntry => entryOf[p] <= lastEntryId[p]
  BY <1>2, <1>4 DEF CronInv, IdsAreGiven
<1>8. task[t].process = p
  BY DEF p
<1>9. /\ Busy(t) => task[t].process = p
      /\ r.step \notin {"idle", "done"} => r.process = p /\ (t \in CronProcesses => t = p)
      /\ overlapping \subseteq overlapping' /\ overlapping' \subseteq overlapping \cup {p}
      /\ p \notin overlapping' => TasksOf(p) \subseteq {t}
  BY <1>1, <1>2, <1>3, <1>5, <1>6, <1>7, <1>8
<1>10. /\ \A q \in CronProcesses \ {p} : /\ entryOf'[q] = entryOf[q]
                                        /\ cronEntries'[q] = cronEntries[q]
                                        /\ lastEntryId'[q] = lastEntryId[q]
      /\ lastEntryId'[p] >= lastEntryId[p]
  BY <1>1, <1>2, <1>3, <1>5, <1>6, <1>7, <1>8
<1>11. /\ entryOf'[p] # NoEntry => entryOf'[p] <= lastEntryId'[p]
       /\ \A e \in cronEntries'[p] : e.id <= lastEntryId'[p]
       /\ \A d, e \in cronEntries'[p] : d.id = e.id => d = e
       /\ r.step = "store" => r.id <= lastEntryId'[p]
  BY <1>1, <1>2, <1>3, <1>5, <1>6, <1>7, <1>8
<1>12. p \notin overlapping' =>
         /\ r.step \notin {"add", "store"} => \A e \in cronEntries'[p] : e.id = entryOf'[p]
         /\ r.step = "add" => cronEntries'[p] = {}
         /\ r.step = "store" => \A e \in cronEntries'[p] : e.id = r.id
  BY <1>1, <1>2, <1>3, <1>5, <1>6, <1>7, <1>8
<1>13. /\ p \in CronProcesses /\ r \in Tasks /\ task' = [task EXCEPT ![t] = r]
       /\ entryOf' \in [CronProcesses -> Nat \cup {NoEntry}]
       /\ cronEntries' \in [CronProcesses -> SUBSET CronEntries]
       /\ lastEntryId' \in [CronProcesses -> Nat]
  BY <1>1, <1>2, <1>3, <1>6
<1> QED
  BY <1>9, <1>10, <1>11, <1>12, <1>13, CronSteps

LEMMA AddEntryKeeps ==
  ASSUME CronInv, NEW t \in ScheduleTasks, AddEntry(t)
  PROVE  CronInv'
<1> DEFINE p == task[t].process
           id == lastEntryId[p] + 1
           new == [id |-> id, copy |-> task[t].copy]
           r == [step |-> "store", process |-> p, id |-> id]
<1>1. /\ task[t].step = "add" /\ Busy(t) /\ task' = [task EXCEPT ![t] = r]
      /\ cronEntries' = [cronEntries EXCEPT ![p] = cronEntries[p] \cup {new}]
      /\ lastEntryId' = [lastEntryId EXCEPT ![p] = id]
      /\ UNCHANGED <<entryOf, overlapping>>
  BY DEF AddEntry, Busy
<1>2. /\ p \in CronProcesses /\ (t \in CronProcesses => p = t)
      /\ p \notin overlapping => TasksOf(p) = {t}
  BY <1>1, TaskIsAlone
<1>3. lastEntryId[p] \in Nat /\ id \in Nat
  BY <1>2 DEF CronInv, CronData
<1>4. r \in Tasks /\ r.step = "store" /\ r.process = p /\ r.id = id
  BY <1>2, <1>3, TaskRecords
<1>5. new \in CronEntries /\ new.id = id
  <2>1. task[t] \in Tasks
    BY DEF CronInv, CronData
  <2>2. task[t].copy \in Items
    BY <1>1, <2>1 DEF Tasks
  <2> QED
    BY <1>3, <2>2 DEF CronEntries
<1>6. p \notin overlapping => cronEntries[p] = {}
  BY <1>1, <1>2 DEF CronInv, TasksFitEntries
<1>7. /\ \A e \in cronEntries[p] : e.id \in Nat /\ e.id <= lastEntryId[p]
      /\ \A d, e \in cronEntries[p] : d.id = e.id => d = e
      /\ entryOf[p] # NoEntry => entryOf[p] <= lastEntryId[p]
      /\ entryOf[p] \in Nat \cup {NoEntry}
      /\ cronEntries[p] \subseteq CronEntries
  BY <1>2 DEF CronInv, IdsAreGiven, CronData, CronEntries
<1>8. id > lastEntryId[p]
  BY <1>3
<1> HIDE DEF p, id, new, r
<1>9. /\ entryOf' \in [CronProcesses -> Nat \cup {NoEntry}]
      /\ cronEntries' \in [CronProcesses -> SUBSET CronEntries]
      /\ cronEntries'[p] = cronEntries[p] \cup {new}
      /\ lastEntryId' \in [CronProcesses -> Nat] /\ lastEntryId'[p] = id
      /\ \A q \in CronProcesses \ {p} :
            cronEntries'[q] = cronEntries[q] /\ lastEntryId'[q] = lastEntryId[q]
  BY <1>1, <1>2, <1>3, <1>5, <1>7 DEF CronInv, CronData
<1>10. \A e \in cronEntries'[p] : e.id <= lastEntryId'[p]
  BY <1>3, <1>5, <1>7, <1>8, <1>9
<1>11. \A d, e \in cronEntries'[p] : d.id = e.id => d = e
  BY <1>3, <1>5, <1>7, <1>8, <1>9
<1>12. entryOf'[p] # NoEntry => entryOf'[p] <= lastEntryId'[p]
  BY <1>1, <1>3, <1>7, <1>8, <1>9
<1>13. task[t].process = p /\ lastEntryId'[p] >= lastEntryId[p] /\ r.id <= lastEntryId'[p]
  BY <1>3, <1>4, <1>8, <1>9 DEF p
<1>14. p \notin overlapping => \A e \in cronEntries'[p] : e.id = r.id
  BY <1>4, <1>5, <1>6, <1>9
<1> QED
  BY <1>1, <1>2, <1>4, <1>9, <1>10, <1>11, <1>12, <1>13, <1>14, CronSteps

LEMMA StoreEntryKeeps ==
  ASSUME CronInv, NEW t \in ScheduleTasks, StoreEntry(t)
  PROVE  CronInv'
<1> DEFINE p == task[t].process
           id == task[t].id
           r == [step |-> "done"]
<1>1. /\ task[t].step = "store" /\ Busy(t) /\ task' = [task EXCEPT ![t] = r]
      /\ entryOf' = [entryOf EXCEPT ![p] = id]
      /\ UNCHANGED <<cronEntries, lastEntryId, overlapping>>
  BY DEF StoreEntry, Busy
<1>2. /\ p \in CronProcesses /\ (t \in CronProcesses => p = t)
      /\ p \notin overlapping => TasksOf(p) = {t}
  BY <1>1, TaskIsAlone
<1>3. r \in Tasks /\ r.step = "done"
  BY TaskRecords
<1>4. id \in Nat /\ id <= lastEntryId[p]
  <2>1. task[t] \in Tasks
    BY DEF CronInv, CronData
  <2> QED
    BY <1>1, <2>1 DEF Tasks, CronInv, IdsAreGiven
<1>5. p \notin overlapping => \A e \in cronEntries[p] : e.id = id
  BY <1>1, <1>2 DEF CronInv, TasksFitEntries
<1> HIDE DEF p, id, r
<1>6. /\ entryOf' \in [CronProcesses -> Nat \cup {NoEntry}] /\ entryOf'[p] = id
      /\ cronEntries' \in [CronProcesses -> SUBSET CronEntries]
      /\ lastEntryId' \in [CronProcesses -> Nat] /\ lastEntryId[p] \in Nat
      /\ \A q \in CronProcesses \ {p} : entryOf'[q] = entryOf[q]
  BY <1>1, <1>2, <1>4 DEF CronInv, CronData
<1>7. /\ \A e \in cronEntries[p] : e.id <= lastEntryId[p]
      /\ \A d, e \in cronEntries[p] : d.id = e.id => d = e
  BY <1>2 DEF CronInv, IdsAreGiven
<1>8. task[t].process = p
  BY DEF p
<1>9. /\ Busy(t) => task[t].process = p
      /\ r.step \notin {"idle", "done"} => r.process = p /\ (t \in CronProcesses => t = p)
      /\ overlapping \subseteq overlapping' /\ overlapping' \subseteq overlapping \cup {p}
      /\ p \notin overlapping' => TasksOf(p) \subseteq {t}
  BY <1>1, <1>2, <1>3, <1>4, <1>5, <1>6, <1>7, <1>8
<1>10. /\ \A q \in CronProcesses \ {p} : /\ entryOf'[q] = entryOf[q]
                                        /\ cronEntries'[q] = cronEntries[q]
                                        /\ lastEntryId'[q] = lastEntryId[q]
      /\ lastEntryId'[p] >= lastEntryId[p]
  BY <1>1, <1>2, <1>3, <1>4, <1>5, <1>6, <1>7, <1>8
<1>11. /\ entryOf'[p] # NoEntry => entryOf'[p] <= lastEntryId'[p]
       /\ \A e \in cronEntries'[p] : e.id <= lastEntryId'[p]
       /\ \A d, e \in cronEntries'[p] : d.id = e.id => d = e
       /\ r.step = "store" => r.id <= lastEntryId'[p]
  BY <1>1, <1>2, <1>3, <1>4, <1>5, <1>6, <1>7, <1>8
<1>12. p \notin overlapping' =>
         /\ r.step \notin {"add", "store"} => \A e \in cronEntries'[p] : e.id = entryOf'[p]
         /\ r.step = "add" => cronEntries'[p] = {}
         /\ r.step = "store" => \A e \in cronEntries'[p] : e.id = r.id
  BY <1>1, <1>2, <1>3, <1>4, <1>5, <1>6, <1>7, <1>8
<1>13. /\ p \in CronProcesses /\ r \in Tasks /\ task' = [task EXCEPT ![t] = r]
       /\ entryOf' \in [CronProcesses -> Nat \cup {NoEntry}]
       /\ cronEntries' \in [CronProcesses -> SUBSET CronEntries]
       /\ lastEntryId' \in [CronProcesses -> Nat]
  BY <1>1, <1>2, <1>3, <1>6
<1> QED
  BY <1>9, <1>10, <1>11, <1>12, <1>13, CronSteps

(* The write reaches the row, and what every firing knows of it.           *)
LEMMA WriteWatchlistItemKeeps ==
  ASSUME WatchInv, NEW r \in WatchRequests, WriteWatchlistItem(r)
  PROVE  WatchInv'
<1> DEFINE t == task[r]
           now == IF watchRow # "present" \/ t.change = "transfer" THEN watchItem
                  ELSE IF t.bulk THEN Changed(watchItem, t.change) ELSE t.copy
           q == [step |-> IF t.change = "delete" \/ ~ t.copy.enabled THEN "unschedule" ELSE "remove",
                 process |-> t.process, copy |-> t.copy]
<1>1. /\ t.step = "write" /\ watchItem' = now /\ task' = [task EXCEPT ![r] = q]
      /\ watchRow' \in {"present", "deleted", watchRow}
      /\ firing' = [f \in Firings |->
                      IF watchRow' = "present" /\ now.enabled /\ firing[f].step # "idle"
                      THEN [firing[f] EXCEPT !.off = FALSE] ELSE firing[f]]
      /\ UNCHANGED <<recent, cronVars, overlapping, watchLock, watchSeen>>
  BY DEF WriteWatchlistItem
<1>2. r \in ScheduleTasks /\ Busy(r)
  BY <1>1 DEF ScheduleTasks, Busy
<1>3. /\ t.process \in CronProcesses /\ t.change \in Changes /\ t.copy \in Items
  <2>1. t \in Tasks
    BY <1>2 DEF WatchInv, CronInv, CronData
  <2>2. t \in [step : {"write"}, process : CronProcesses, change : Changes, bulk : BOOLEAN,
                copy : Items]
    BY <1>1, <2>1 DEF Tasks
  <2> QED
    BY <2>2
<1>4. watchItem \in Items /\ now \in Items
  BY <1>3, ChangedIsItem DEF WatchInv, RowData
<1>5. q \in Tasks /\ q.step \in {"unschedule", "remove"} /\ q.process = t.process
  <2>1. [step |-> "unschedule", process |-> t.process, copy |-> t.copy] \in Tasks
        /\ [step |-> "remove", process |-> t.process, copy |-> t.copy] \in Tasks
    BY <1>3, TaskRecords
  <2> QED
    BY <2>1
<1> HIDE DEF t, now, q
<1>6. CronInv'
  <2>1. UNCHANGED <<cronVars, overlapping>> /\ t = task[r]
    BY <1>1 DEF t
  <2> QED
    BY <1>1, <1>2, <1>5, <2>1, TaskGoes DEF WatchInv
<1>7. RowData'
  BY <1>1, <1>4 DEF WatchInv, RowData
<1>8. ASSUME NEW f \in Firings
      PROVE  /\ firing'[f] \in FiringRecords /\ firing'[f].step = firing[f].step
             /\ firing[f].step = "insert" => firing'[f].off = FALSE
             /\ firing'[f].step # "idle" /\ firing'[f].off = TRUE => ~ ItemIsOn'
  <2>1. firing[f] \in FiringRecords
    BY DEF WatchInv, FiringInv
  <2>2. CASE watchRow' = "present" /\ now.enabled /\ firing[f].step # "idle"
    <3>1. firing'[f] = [firing[f] EXCEPT !.off = FALSE]
      BY <1>1, <2>2
    <3>2. firing[f] \in [step : {"lock", "check", "insert", "unlock"}, process : CronProcesses,
                         off : BOOLEAN]
      BY <2>1, <2>2 DEF FiringRecords
    <3> QED
      BY <3>1, <3>2 DEF FiringRecords
  <2>3. CASE ~ (watchRow' = "present" /\ now.enabled /\ firing[f].step # "idle")
    <3>1. firing'[f] = firing[f]
      BY <1>1, <2>3
    <3>2. firing[f].step # "idle" => ~ ItemIsOn'
      BY <1>1, <2>3 DEF ItemIsOn
    <3> QED
      BY <2>1, <3>1, <3>2 DEF WatchInv, FiringInv
  <2> QED
    BY <2>2, <2>3
<1>9. FiringInv'
  <2>1. firing' \in [Firings -> FiringRecords]
    BY <1>1, <1>8
  <2>2. watchLock' = watchLock /\ watchScans' = watchScans /\ unwantedScans' = unwantedScans
        /\ recent' = recent
    BY <1>1 DEF watchSeen
  <2>3. \A f \in Firings : firing'[f].step \in {"check", "insert", "unlock"} <=> watchLock' = f
    BY <1>8, <2>2 DEF WatchInv, FiringInv
  <2>4. \A f \in Firings : firing'[f].step = "insert" => watchScans' = 0 /\ firing'[f].off = FALSE
    BY <1>8, <2>2 DEF WatchInv, FiringInv
  <2>5. \A f \in Firings : firing'[f].step # "idle" /\ firing'[f].off = TRUE => ~ ItemIsOn'
    BY <1>8
  <2> QED
    BY <2>1, <2>2, <2>3, <2>4, <2>5 DEF WatchInv, FiringInv
<1> QED
  BY <1>6, <1>7, <1>9 DEF WatchInv

(* The tasks, the entries and the firings of the process are gone.         *)
LEMMA CronProcessRestartsKeeps ==
  ASSUME WatchInv, NEW p \in CronProcesses, CronProcessRestarts(p)
  PROVE  WatchInv'
<1>1. /\ entryOf' = [entryOf EXCEPT ![p] = NoEntry]
      /\ cronEntries' = [cronEntries EXCEPT ![p] = {}]
      /\ lastEntryId' = [lastEntryId EXCEPT ![p] = 0]
      /\ task' = [t \in ScheduleTasks |-> IF t = p THEN [step |-> "load", process |-> p]
                                          ELSE IF t \in TasksOf(p) THEN [step |-> "done"]
                                          ELSE task[t]]
      /\ overlapping' = overlapping \ {p}
      /\ UNCHANGED <<watchRow, watchItem, recent, watchScans, unwantedScans>>
  BY DEF CronProcessRestarts, rowVars
<1>2. RowData'
  BY <1>1 DEF WatchInv, RowData
<1>3. FiringInv'
  <2> DEFINE gone == {f \in Firings : firing[f].step # "idle" /\ firing[f].process = p}
  <2>1. /\ firing' = [f \in Firings |-> IF f \in gone THEN NotFiring ELSE firing[f]]
        /\ watchLock' = IF watchLock \in gone THEN NoFiring ELSE watchLock
    BY DEF CronProcessRestarts
  <2> HIDE DEF gone
  <2>2. NoFiring \notin Firings /\ NotFiring \in FiringRecords /\ NotFiring.step = "idle"
    BY WatchConstants, IdleFiring
  <2>3. firing' \in [Firings -> FiringRecords] /\ watchLock' \in Firings \cup {NoFiring}
    BY <2>1, <2>2 DEF WatchInv, FiringInv
  <2>4. \A f \in Firings : firing'[f].step \in {"check", "insert", "unlock"} <=> watchLock' = f
    BY <2>1, <2>2 DEF WatchInv, FiringInv
  <2>5. ItemIsOn' = ItemIsOn
    BY <1>1 DEF ItemIsOn
  <2>6. \A f \in Firings : firing'[f].step # "idle" /\ firing'[f].off = TRUE => ~ ItemIsOn
    BY <2>1, <2>2 DEF WatchInv, FiringInv
  <2>7. \A f \in Firings : firing'[f].step = "insert" => watchScans' = 0 /\ firing'[f].off = FALSE
    BY <1>1, <2>1, <2>2 DEF WatchInv, FiringInv
  <2> QED
    BY <1>1, <2>3, <2>4, <2>5, <2>6, <2>7 DEF WatchInv, FiringInv
<1>4. \A t \in ScheduleTasks :
         \/ t = p /\ task'[t].step = "load" /\ task'[t].process = p
         \/ t # p /\ t \in TasksOf(p) /\ task'[t].step = "done"
         \/ t # p /\ t \notin TasksOf(p) /\ task'[t] = task[t]
  BY <1>1
<1>5. /\ entryOf' \in [CronProcesses -> Nat \cup {NoEntry}] /\ entryOf'[p] = NoEntry
      /\ cronEntries' \in [CronProcesses -> SUBSET CronEntries] /\ cronEntries'[p] = {}
      /\ lastEntryId' \in [CronProcesses -> Nat] /\ lastEntryId'[p] = 0
      /\ \A q \in CronProcesses \ {p} :
            /\ entryOf'[q] = entryOf[q] /\ cronEntries'[q] = cronEntries[q]
            /\ lastEntryId'[q] = lastEntryId[q]
  BY <1>1 DEF WatchInv, CronInv, CronData
<1>6. task' \in [ScheduleTasks -> Tasks]
  <2>1. [step |-> "load", process |-> p] \in Tasks /\ [step |-> "done"] \in Tasks
    BY TaskRecords
  <2> QED
    BY <1>1, <2>1 DEF WatchInv, CronInv, CronData
<1>7. p \in ScheduleTasks /\ CronProcesses \subseteq ScheduleTasks
  BY DEF ScheduleTasks
<1>8. CronData'
  BY <1>4, <1>5, <1>6, <1>7 DEF WatchInv, CronInv, CronData, Busy
<1>9. \A q \in CronProcesses \ {p} : TasksOf(q)' = TasksOf(q)
  <2> SUFFICES ASSUME NEW q \in CronProcesses \ {p}, NEW t \in ScheduleTasks
               PROVE  t \in TasksOf(q)' <=> t \in TasksOf(q)
    BY DEF TasksOf
  <2>1. CASE t = p
    <3>1. Busy(p) => task[p].process = p
      BY DEF WatchInv, CronInv, CronData
    <3> QED
      BY <1>4, <1>7, <2>1, <3>1 DEF TasksOf, Busy
  <2>2. CASE t # p
    BY <1>4, <2>2 DEF TasksOf
  <2> QED
    BY <2>1, <2>2
<1>10. TasksOf(p)' \subseteq {p}
  BY <1>4 DEF TasksOf
<1>11. \A q \in CronProcesses \ {p} : \A t \in TasksOf(q) : task'[t] = task[t]
  <2> SUFFICES ASSUME NEW q \in CronProcesses \ {p}, NEW t \in TasksOf(q) PROVE task'[t] = task[t]
    OBVIOUS
  <2>1. t \in ScheduleTasks /\ t \notin TasksOf(p) /\ Busy(t) /\ task[t].process = q
    BY DEF TasksOf, Busy
  <2>2. t # p
    BY <2>1 DEF WatchInv, CronInv, CronData
  <2> QED
    BY <1>4, <2>1, <2>2
<1>12. IdsAreGiven'
  <2>1. ASSUME NEW q \in CronProcesses
        PROVE  /\ entryOf'[q] # NoEntry => entryOf'[q] <= lastEntryId'[q]
               /\ \A e \in cronEntries'[q] : e.id <= lastEntryId'[q]
               /\ \A d, e \in cronEntries'[q] : d.id = e.id => d = e
    <3>1. CASE q = p
      BY <1>5, <3>1
    <3>2. CASE q # p
      BY <1>5, <3>2 DEF WatchInv, CronInv, IdsAreGiven
    <3> QED
      BY <3>1, <3>2
  <2>2. ASSUME NEW t \in ScheduleTasks, task'[t].step = "store"
        PROVE  task'[t].id <= lastEntryId'[task'[t].process]
    <3>1. task'[t] = task[t] /\ t \notin TasksOf(p) /\ task[t].step = "store"
      BY <1>4, <2>2
    <3>2. task[t] \in Tasks
      BY DEF WatchInv, CronInv, CronData
    <3>3. task[t].process \in CronProcesses /\ task[t].process # p
      BY <3>1, <3>2 DEF Tasks, TasksOf
    <3> QED
      BY <1>5, <3>1, <3>3 DEF WatchInv, CronInv, IdsAreGiven
  <2> QED
    BY <2>1, <2>2 DEF IdsAreGiven
<1>13. TasksFitEntries'
  <2> SUFFICES ASSUME NEW q \in CronProcesses \ overlapping'
        PROVE  /\ \A s, u \in TasksOf(q)' : s = u
               /\ \/ \E s \in TasksOf(q)' : task'[s].step \in {"add", "store"}
                  \/ \A e \in cronEntries'[q] : e.id = entryOf'[q]
               /\ \A s \in TasksOf(q)' :
                    /\ task'[s].step = "add" => cronEntries'[q] = {}
                    /\ task'[s].step = "store" => \A e \in cronEntries'[q] : e.id = task'[s].id
    BY DEF TasksFitEntries
  <2>1. CASE q = p
    BY <1>5, <1>10, <2>1
  <2>2. CASE q # p
    <3>1. q \notin overlapping /\ TasksOf(q)' = TasksOf(q)
      BY <1>1, <1>9, <2>2
    <3> QED
      BY <1>5, <1>11, <2>2, <3>1 DEF WatchInv, CronInv, TasksFitEntries
  <2> QED
    BY <2>1, <2>2
<1> QED
  BY <1>2, <1>3, <1>8, <1>12, <1>13 DEF WatchInv, CronInv

-----------------------------------------------------------------------------
LEMMA WatchInitInv ==
  ASSUME WatchInit
  PROVE  WatchInv
<1>1. RowData
  BY DEF WatchInit, RowData, Items
<1>2. FiringInv
  <2>1. /\ firing = [f \in Firings |-> NotFiring] /\ watchLock = NoFiring /\ recent = FALSE
        /\ watchScans = 0 /\ unwantedScans = 0
    BY DEF WatchInit
  <2>2. NoFiring \notin Firings
    BY WatchConstants
  <2>3. \A f \in Firings : firing[f].step = "idle"
    BY <2>1, IdleFiring
  <2>4. firing \in [Firings -> FiringRecords]
    BY <2>1, IdleFiring
  <2> QED
    BY <2>1, <2>2, <2>3, <2>4 DEF FiringInv
<1>3. CronInv
  <2>1. /\ entryOf = [p \in CronProcesses |-> NoEntry]
        /\ cronEntries = [p \in CronProcesses |-> {}]
        /\ lastEntryId = [p \in CronProcesses |-> 0]
        /\ overlapping = {}
    BY DEF WatchInit
  <2>2. task = [t \in ScheduleTasks |->
                  IF t \in CronProcesses THEN [step |-> "load", process |-> t] ELSE NoTask]
    BY DEF WatchInit
  <2>3. ASSUME NEW t \in ScheduleTasks
        PROVE  /\ task[t] \in Tasks
               /\ t \in CronProcesses => task[t].step = "load" /\ task[t].process = t
               /\ t \notin CronProcesses => task[t].step = "idle"
    BY <2>2 DEF Tasks, NoTask
  <2>4. CronData
    <3>1. task \in [ScheduleTasks -> Tasks]
      BY <2>2, <2>3
    <3>2. \A p \in CronProcesses : Busy(p) => task[p].process = p
      BY <2>3 DEF ScheduleTasks
    <3> QED
      BY <2>1, <3>1, <3>2 DEF CronData
  <2>5. IdsAreGiven
    BY <2>1, <2>3 DEF IdsAreGiven
  <2>6. ASSUME NEW p \in CronProcesses, NEW t \in TasksOf(p)
        PROVE  t = p /\ task[t].step = "load"
    BY <2>3, <2>6 DEF TasksOf
  <2>7. TasksFitEntries
    BY <2>1, <2>6 DEF TasksFitEntries
  <2> QED
    BY <2>4, <2>5, <2>7 DEF CronInv
<1> QED
  BY <1>1, <1>2, <1>3 DEF WatchInv

LEMMA FiringActionKeeps ==
  ASSUME WatchInv, NEW f \in Firings,
         \/ \E p \in CronProcesses : Fire(f, p)
         \/ TryLock(f) \/ CheckItem(f) \/ CreateScheduledScan(f) \/ ReleaseLock(f) \/ FiringFails(f)
  PROVE  WatchInv'
<1>1. RowData /\ FiringInv /\ CronInv
  BY DEF WatchInv
<1>2. FiringInv'
  BY <1>1, FireKeeps, TryLockKeeps, CheckItemKeeps, CreateScheduledScanKeeps, FiringEndsKeeps
<1>3. UNCHANGED <<cronVars, task, overlapping>> /\ UNCHANGED <<watchRow, watchItem>>
  BY DEF Fire, TryLock, CheckItem, CreateScheduledScan, ReleaseLock, FiringFails, rowVars
<1>4. recent' \in BOOLEAN
  BY <1>1 DEF RowData, Fire, TryLock, CheckItem, CreateScheduledScan, ReleaseLock, FiringFails, rowVars
<1> QED
  BY <1>1, <1>2, <1>3, <1>4, RowStays, CronStays DEF WatchInv

LEMMA TaskActionKeeps ==
  ASSUME WatchInv,
         \/ \E p \in CronProcesses : LoadItems(p)
         \/ \E p \in CronProcesses, r \in WatchRequests, change \in Changes, bulk \in BOOLEAN :
              ReadWatchlistItem(r, p, change, bulk)
         \/ \E t \in ScheduleTasks :
              UnscheduleWatchlistItem(t) \/ RemoveEntry(t) \/ AddEntry(t) \/ StoreEntry(t)
  PROVE  WatchInv'
<1>1. RowData /\ FiringInv /\ CronInv
  BY DEF WatchInv
<1>2. CronInv'
  BY <1>1, LoadItemsKeeps, ReadWatchlistItemKeeps, UnscheduleKeeps, RemoveEntryKeeps, AddEntryKeeps,
     StoreEntryKeeps
<1>3. UNCHANGED <<rowVars, firing, watchLock, watchScans, unwantedScans>>
  BY DEF LoadItems, ReadWatchlistItem, UnscheduleWatchlistItem, RemoveEntry, AddEntry, StoreEntry,
         watchSeen
<1>4. UNCHANGED <<watchRow, watchItem>> /\ recent' \in BOOLEAN
  BY <1>1, <1>3 DEF RowData, rowVars
<1> QED
  BY <1>1, <1>2, <1>3, <1>4, RowStays, FiringStays DEF WatchInv

LEMMA WatchNextInv ==
  ASSUME WatchInv, [WatchNext]_watchVars
  PROVE  WatchInv'
<1>1. RowData /\ FiringInv /\ CronInv
  BY DEF WatchInv
<1>2. CASE TriggerScan \/ WindowPasses
  <2>1. UNCHANGED <<cronVars, task, overlapping>> /\ UNCHANGED <<watchRow, watchItem>>
    BY <1>2 DEF TriggerScan, WindowPasses
  <2>2. recent' \in BOOLEAN
    BY <1>2 DEF TriggerScan, WindowPasses
  <2> QED
    BY <1>1, <1>2, <2>1, <2>2, WindowPassesKeeps, RowStays, CronStays DEF WatchInv
<1>3. CASE UNCHANGED watchVars
  <2>1. /\ UNCHANGED <<rowVars, firing, watchLock, watchScans, unwantedScans>>
        /\ UNCHANGED <<cronVars, task, overlapping>>
    BY <1>3 DEF watchVars, watchSeen
  <2>2. UNCHANGED <<watchRow, watchItem>> /\ recent' \in BOOLEAN
    BY <1>1, <2>1 DEF RowData, rowVars
  <2> QED
    BY <1>1, <2>1, <2>2, RowStays, FiringStays, CronStays DEF WatchInv
<1>4. CASE \E r \in WatchRequests : WriteWatchlistItem(r)
  BY <1>4, WriteWatchlistItemKeeps
<1>5. CASE \E p \in CronProcesses : CronProcessRestarts(p)
  BY <1>5, CronProcessRestartsKeeps
<1>6. CASE \E f \in Firings :
             \/ \E p \in CronProcesses : Fire(f, p)
             \/ TryLock(f) \/ CheckItem(f) \/ CreateScheduledScan(f) \/ ReleaseLock(f)
             \/ FiringFails(f)
  BY <1>6, FiringActionKeeps
<1>7. CASE \/ \E p \in CronProcesses : LoadItems(p)
           \/ \E p \in CronProcesses, r \in WatchRequests, change \in Changes, bulk \in BOOLEAN :
                ReadWatchlistItem(r, p, change, bulk)
           \/ \E t \in ScheduleTasks :
                UnscheduleWatchlistItem(t) \/ RemoveEntry(t) \/ AddEntry(t) \/ StoreEntry(t)
  BY <1>7, TaskActionKeeps
<1> QED
  BY <1>2, <1>3, <1>4, <1>5, <1>6, <1>7 DEF WatchNext

(* The inductive invariant: the lock belongs to the firing that is past    *)
(* it, a firing that is about to scan has seen the item on, and as long as *)
(* no two schedulings met in a process its entries are those its task      *)
(* takes away or has just added.                                           *)
THEOREM WatchInvariant == WatchSpec => []WatchInv
<1>1. WatchInit => WatchInv
  BY WatchInitInv
<1>2. WatchInv /\ [WatchNext]_watchVars => WatchInv'
  BY WatchNextInv
<1> QED
  BY <1>1, <1>2, PTL DEF WatchSpec

(* The set of entries with one id is empty or has one member.              *)
LEMMA OneEntryInAll ==
  ASSUME NEW S, NEW id, \A e \in S : e.id = id, \A d, e \in S : d.id = e.id => d = e
  PROVE  Cardinality(S) <= 1
<1>1. CASE S = {}
  BY <1>1, FS_EmptySet
<1>2. CASE S # {}
  <2>1. PICK e : e \in S
    BY <1>2
  <2>2. S = {e}
    BY <2>1
  <2>3. Cardinality({e}) = 1
    BY FS_Singleton
  <2> QED
    BY <2>2, <2>3
<1> QED
  BY <1>1, <1>2

LEMMA WatchInvIsSound ==
  ASSUME WatchInv
  PROVE  WatchIsSound
<1>1. WatchTypeOK
  <2>1. /\ watchRow \in {"none", "present", "deleted"}
        /\ watchItem \in [enabled : BOOLEAN, schedule : Schedules] /\ recent \in BOOLEAN
    BY DEF WatchInv, RowData, Items
  <2>2. ASSUME NEW t \in ScheduleTasks
        PROVE  task[t].step \in BusySteps \cup {"idle", "done"}
    <3>1. task[t] \in Tasks
      BY DEF WatchInv, CronInv, CronData
    <3> QED
      BY <3>1 DEF Tasks, BusySteps
  <2>3. \A p \in CronProcesses :
           /\ entryOf[p] # NoEntry => entryOf[p] <= lastEntryId[p]
           /\ \A d, e \in cronEntries[p] : d.id = e.id => d = e
    BY DEF WatchInv, CronInv, IdsAreGiven
  <2>4. watchLock # NoFiring <=> \E f \in Firings : firing[f].step \in {"check", "insert", "unlock"}
    BY WatchConstants DEF WatchInv, FiringInv
  <2> QED
    BY <2>1, <2>2, <2>3, <2>4 DEF WatchTypeOK
<1>2. WatchedOnce
  BY <1>1 DEF WatchedOnce, WatchInv, FiringInv
<1>3. OneEntry
  <2> SUFFICES ASSUME NEW p \in CronProcesses \ overlapping, TasksOf(p) = {}
               PROVE  /\ Cardinality(cronEntries[p]) <= 1
                      /\ \A e \in cronEntries[p] : e.id = entryOf[p]
    BY DEF OneEntry
  <2>1. \A e \in cronEntries[p] : e.id = entryOf[p]
    BY DEF WatchInv, CronInv, TasksFitEntries
  <2>2. \A d, e \in cronEntries[p] : d.id = e.id => d = e
    BY DEF WatchInv, CronInv, IdsAreGiven
  <2> QED
    BY <2>1, <2>2, OneEntryInAll
<1> QED
  BY <1>2, <1>3 DEF WatchIsSound

(* However many processes and leftover entries fire at once, an item is    *)
(* scanned once in the window and never by a firing that began after it    *)
(* was off; and a process in which no two schedulings met has one entry,   *)
(* the one it would remove (scheduler.go).                                 *)
THEOREM WatchStaysSound == WatchSpec => []WatchIsSound
<1>1. WatchInv => WatchIsSound
  BY WatchInvIsSound
<1> QED
  BY <1>1, WatchInvariant, PTL
=============================================================================
