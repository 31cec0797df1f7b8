------------------------------ MODULE XrayPermits ------------------------------
(***************************************************************************)
(* The capacity for Xray scans in one process (scanner/xray_workers.go and *)
(* its uses in scanner/xray.go).  A few coordinators take scans from the   *)
(* queue.  Fewer of them may download at once, and as many may import; a   *)
(* coordinator gives its permit back while it polls the provider.          *)
(*                                                                         *)
(* A pool is a buffered channel: to acquire is to send, to release is to   *)
(* receive, and both may have to wait.                                     *)
(***************************************************************************)
EXTENDS Naturals, FiniteSets

CONSTANTS
    XrayScans, Coordinators, NoScan,
    Concurrency         \* capacity of each of the two pools

ASSUME PermitConstants ==
    /\ IsFiniteSet(Coordinators)
    /\ NoScan \notin XrayScans
    /\ Concurrency \in Nat \ {0}

PermitPools == {"work", "import"}

VARIABLES
    xrayQueue,      \* scans in the channel xrayJobQueue
    xrayScan,       \* "pending", "running", "cancelled" or "ended"
    tokens,         \* pool -> entries in its channel
    permit,         \* coordinator -> pool and held
    coordinates,    \* coordinator -> its scan, NoScan when it waits for one
    xrayStep        \* what the coordinator does for it

permitVars == <<xrayQueue, xrayScan, tokens, permit, coordinates, xrayStep>>

PermitInit ==
    /\ xrayQueue = XrayScans
    /\ xrayScan = [s \in XrayScans |-> "pending"]
    /\ tokens = [pool \in PermitPools |-> 0]
    /\ permit = [c \in Coordinators |-> [pool |-> "work", held |-> FALSE]]
    /\ coordinates = [c \in Coordinators |-> NoScan]
    /\ xrayStep = [c \in Coordinators |-> "idle"]

StepIs(c, step) == xrayStep[c] = step

Goes(c, step) == xrayStep' = [xrayStep EXCEPT ![c] = step]

(* xrayWorkPermit.acquire *)
Acquire(c, pool) ==
    /\ tokens[pool] < Concurrency
    /\ tokens' = [tokens EXCEPT ![pool] = @ + 1]
    /\ permit' = [permit EXCEPT ![c] = [pool |-> pool, held |-> TRUE]]

(* xrayWorkPermit.release *)
Release(c) ==
    IF permit[c].held
    THEN /\ tokens[permit[c].pool] > 0
         /\ tokens' = [tokens EXCEPT ![permit[c].pool] = @ - 1]
         /\ permit' = [permit EXCEPT ![c].held = FALSE]
    ELSE UNCHANGED <<tokens, permit>>

-----------------------------------------------------------------------------
TakeJob(c, s) ==
    /\ StepIs(c, "idle") /\ s \in xrayQueue
    /\ xrayQueue' = xrayQueue \ {s}
    /\ coordinates' = [coordinates EXCEPT ![c] = s]
    /\ permit' = [permit EXCEPT ![c] = [pool |-> "work", held |-> FALSE]]
    /\ Goes(c, "await work")
    /\ UNCHANGED <<xrayScan, tokens>>

(* The wait for the first permit cannot be cancelled; processScan then     *)
(* finds out whether the scan is still to be claimed.                      *)
ClaimWithPermit(c) ==
    /\ StepIs(c, "await work")
    /\ Acquire(c, "work")
    /\ LET s == coordinates[c]
       IN  IF xrayScan[s] = "pending"
           THEN xrayScan' = [xrayScan EXCEPT ![s] = "running"] /\ Goes(c, "prepare")
           ELSE UNCHANGED xrayScan /\ Goes(c, "return")
    /\ UNCHANGED <<xrayQueue, coordinates>>

(* Mutant: the permit is kept while polling. *)
KeepForProvider(c) ==
    /\ StepIs(c, "prepare")
    /\ Goes(c, "poll")
    /\ UNCHANGED <<xrayQueue, xrayScan, tokens, permit, coordinates>>

(* Preparation is done, or the provider blocks the download. *)
ReleaseForProvider(c) ==
    /\ StepIs(c, "prepare")
    /\ Release(c)
    /\ Goes(c, "poll")
    /\ UNCHANGED <<xrayQueue, xrayScan, coordinates>>

ProviderAnswers(c) ==
    /\ StepIs(c, "poll")
    /\ Goes(c, "leave pool")
    /\ UNCHANGED <<xrayQueue, xrayScan, tokens, permit, coordinates>>

(* acquireImport: release what is held, change the pool, acquire. *)
ChangePool(c) ==
    /\ StepIs(c, "leave pool")
    /\ Release(c)
    /\ Goes(c, "await import")
    /\ UNCHANGED <<xrayQueue, xrayScan, coordinates>>

(* Mutant: downloads and imports share one capacity. *)
AcquireImportShared(c) ==
    /\ StepIs(c, "await import")
    /\ tokens["work"] + tokens["import"] < Concurrency
    /\ Acquire(c, "import")
    /\ Goes(c, "import")
    /\ UNCHANGED <<xrayQueue, xrayScan, coordinates>>

AcquireImport(c) ==
    /\ StepIs(c, "await import")
    /\ Acquire(c, "import")
    /\ Goes(c, "import")
    /\ UNCHANGED <<xrayQueue, xrayScan, coordinates>>

FinishImport(c) ==
    /\ StepIs(c, "import")
    /\ Release(c)
    /\ xrayScan' = [xrayScan EXCEPT ![coordinates[c]] = IF @ = "running" THEN "ended" ELSE @]
    /\ Goes(c, "return")
    /\ UNCHANGED <<xrayQueue, coordinates>>

(* A step fails: the worker fails the scan, if it is still running. *)
XrayStepFails(c) ==
    /\ xrayStep[c] \in {"prepare", "poll"}
    /\ xrayScan' = [xrayScan EXCEPT ![coordinates[c]] = IF @ = "running" THEN "ended" ELSE @]
    /\ Goes(c, "return")
    /\ UNCHANGED <<xrayQueue, tokens, permit, coordinates>>

(* CancelScan, and the contexts it ends: every wait but the first. *)
CancelXrayScan(s) ==
    /\ xrayScan[s] \in {"pending", "running"}
    /\ xrayScan' = [xrayScan EXCEPT ![s] = "cancelled"]
    /\ UNCHANGED <<xrayQueue, tokens, permit, coordinates, xrayStep>>

NoticeCancel(c) ==
    /\ xrayStep[c] \in {"prepare", "poll", "await import", "import"}
    /\ xrayScan[coordinates[c]] = "cancelled"
    /\ IF StepIs(c, "import") THEN Release(c) ELSE UNCHANGED <<tokens, permit>>
    /\ Goes(c, "return")
    /\ UNCHANGED <<xrayQueue, xrayScan, coordinates>>

(* processScan has returned; the coordinator releases what is still held. *)
EndJob(c) ==
    /\ StepIs(c, "return")
    /\ Release(c)
    /\ coordinates' = [coordinates EXCEPT ![c] = NoScan]
    /\ Goes(c, "idle")
    /\ UNCHANGED <<xrayQueue, xrayScan>>

-----------------------------------------------------------------------------
PermitNext ==
    \/ \E c \in Coordinators :
          \/ \E s \in XrayScans : TakeJob(c, s)
          \/ ClaimWithPermit(c) \/ ReleaseForProvider(c) \/ ProviderAnswers(c) \/ ChangePool(c)
          \/ AcquireImport(c) \/ FinishImport(c) \/ XrayStepFails(c) \/ NoticeCancel(c) \/ EndJob(c)
    \/ \E s \in XrayScans : CancelXrayScan(s)

PermitSpec == PermitInit /\ [][PermitNext]_permitVars

(* A sender that waits at a channel gets its turn, and an import ends; a   *)
(* download and the provider may hang for ever.                            *)
PermitFairness ==
    \A c \in Coordinators : /\ SF_permitVars(AcquireImport(c))
                            /\ WF_permitVars(ChangePool(c))
                            /\ WF_permitVars(FinishImport(c))
                            /\ WF_permitVars(EndJob(c))

-----------------------------------------------------------------------------
(* Properties *)

XraySteps == {"idle", "await work", "prepare", "poll", "leave pool", "await import", "import",
              "return"}

PermitTypeOK ==
    /\ xrayQueue \subseteq XrayScans
    /\ xrayScan \in [XrayScans -> {"pending", "running", "cancelled", "ended"}]
    /\ tokens \in [PermitPools -> Nat]
    /\ permit \in [Coordinators -> [pool : PermitPools, held : BOOLEAN]]
    /\ coordinates \in [Coordinators -> XrayScans \cup {NoScan}]
    /\ xrayStep \in [Coordinators -> XraySteps]
    /\ \A c \in Coordinators : coordinates[c] = NoScan <=> StepIs(c, "idle")

Holders(pool) == {c \in Coordinators : permit[c].held /\ permit[c].pool = pool}

(* No permit is lost or given back twice, whichever way a scan leaves: the *)
(* entries of a channel are the permits held from it.                      *)
TokensAreHeld == \A pool \in PermitPools : tokens[pool] = Cardinality(Holders(pool))

(* However scans come and go, no more than the configured number download  *)
(* or import at once.                                                      *)
CapacityIsKept ==
    /\ Cardinality({c \in Coordinators : StepIs(c, "prepare")}) <= Concurrency
    /\ Cardinality({c \in Coordinators : StepIs(c, "import")}) <= Concurrency

(* Download and import permits are released during provider waits, and     *)
(* work is done with the permit for it.                                    *)
PermitsFitSteps ==
    \A c \in Coordinators :
      /\ xrayStep[c] \in {"idle", "await work", "poll", "leave pool", "await import"}
           => ~ permit[c].held
      /\ StepIs(c, "prepare") => permit[c] = [pool |-> "work", held |-> TRUE]
      /\ StepIs(c, "import")  => permit[c] = [pool |-> "import", held |-> TRUE]

PermitsAreSound == PermitTypeOK /\ TokensAreHeld /\ PermitsFitSteps /\ CapacityIsKept

(* A burst of downloads, even of some that never end, does not starve a    *)
(* report whose analysis has completed.                                    *)
ImportsGetCapacity ==
    \A c \in Coordinators : StepIs(c, "await import") ~> ~ StepIs(c, "await import")
=============================================================================
