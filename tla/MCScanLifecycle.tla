--------------------------- MODULE MCScanLifecycle ---------------------------
(***************************************************************************)
(* Instances of ScanLifecycle for TLC.                                     *)
(***************************************************************************)
EXTENDS ScanLifecycle, TLC

CONSTANTS s1, s2, w1, w2, p1, p2

PairHome  == (w1 :> p1) @@ (w2 :> p2)
SameHome  == (w1 :> p1) @@ (w2 :> p1)
SoleHome  == w1 :> p1

(* Processes are interchangeable together with their workers.              *)
ProcessSymmetry ==
    {f \in Permutations(Workers \cup Replicas) :
       \A w \in Workers : f[w] \in Workers /\ Home[f[w]] = f[Home[w]]}
=============================================================================
