---------------------------- MODULE JobContract -----------------------------
(***************************************************************************)
(* What backgroundjobs promises its users, without claims in two steps,    *)
(* memory copies, heartbeats or processes: a job is accepted once per      *)
(* active key, is held by at most one worker, changes hands only when its  *)
(* lease is over, and is finished by its holder and nobody else.           *)
(***************************************************************************)
EXTENDS Naturals

CONSTANTS Requests, KeyOf, NoKey, Workers, NoWorker, MaxTries

VARIABLES phase,    \* none, queued, running, succeeded, failed
          holder,   \* the worker the row names
          free,     \* rows without a lease that is still running
          tries     \* transient retries spent

cvars == <<phase, holder, free, tries>>

Init ==
    /\ phase = [r \in Requests |-> "none"]
    /\ holder = [r \in Requests |-> NoWorker]
    /\ free = Requests
    /\ tries = [r \in Requests |-> 0]

(* Accepted work is unique among the active work of its key. *)
Accept(r) ==
    /\ phase[r] = "none"
    /\ KeyOf[r] # NoKey =>
         \A q \in Requests : KeyOf[q] = KeyOf[r] => phase[q] \notin {"queued", "running"}
    /\ phase' = [phase EXCEPT ![r] = "queued"]
    /\ UNCHANGED <<holder, free, tries>>

(* A job changes hands only when its lease is over. *)
Take(r, w) ==
    /\ phase[r] \in {"queued", "running"}
    /\ r \in free
    /\ phase' = [phase EXCEPT ![r] = "running"]
    /\ holder' = [holder EXCEPT ![r] = w]
    /\ free' = free \ {r}
    /\ UNCHANGED tries

Held(r) == phase[r] = "running" /\ holder[r] \in Workers

(* The holder renews its lease. *)
Renew(r) ==
    /\ Held(r)
    /\ free' = free \ {r}
    /\ UNCHANGED <<phase, holder, tries>>

Expire(r) ==
    /\ r \notin free
    /\ free' = free \cup {r}
    /\ UNCHANGED <<phase, holder, tries>>

(* The holder gives the job back, to be taken after a delay. *)
Release(r) ==
    /\ Held(r)
    /\ holder' = [holder EXCEPT ![r] = NoWorker]
    /\ free' = free \ {r}
    /\ \/ UNCHANGED tries
       \/ /\ tries[r] < MaxTries
          /\ tries' = [tries EXCEPT ![r] = @ + 1]
    /\ UNCHANGED phase

(* The holder ends the job. *)
Finish(r) ==
    /\ Held(r)
    /\ \E verdict \in {"succeeded", "failed"} : phase' = [phase EXCEPT ![r] = verdict]
    /\ holder' = [holder EXCEPT ![r] = NoWorker]
    /\ free' = free \cup {r}
    /\ UNCHANGED tries

Next ==
    \E r \in Requests :
      \/ Accept(r) \/ Renew(r) \/ Expire(r) \/ Release(r) \/ Finish(r)
      \/ \E w \in Workers : Take(r, w)

Spec == Init /\ [][Next]_cvars
=============================================================================
