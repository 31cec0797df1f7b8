----------------------------- MODULE MCJobQueue -----------------------------
(***************************************************************************)
(* Instances of JobQueue for TLC.  r1 and r2 ask for the same work (one    *)
(* dedupe key) in the race; for liveness r1 is a deletion and r2 a job of  *)
(* a type this process has no processor for.                               *)
(***************************************************************************)
EXTENDS JobQueue, TLC

CONSTANTS r1, r2, k1, w1, w2, p1, p2

RaceRequests == {r1, r2}
RaceKeyOf == [r \in RaceRequests |-> k1]
RaceTypeOf == [r \in RaceRequests |-> "deletion"]

LiveRequests == {r1, r2}
LiveKeyOf == (r1 :> k1) @@ (r2 :> NoKey)
LiveTypeOf == (r1 :> "deletion") @@ (r2 :> "foreign")

PairHome == (w1 :> p1) @@ (w2 :> p2)
=============================================================================
