---------------------------- MODULE ScanContract ----------------------------
(***************************************************************************)
(* What the scanner promises those who submit scans, without queues,       *)
(* processes, reservations, step names or heartbeats: an accepted scan is  *)
(* run by one worker at most, only once, ends once, whoever ends it, and   *)
(* its end is told once.                                                   *)
(***************************************************************************)
EXTENDS Naturals

CONSTANTS Scans, Workers

VARIABLES status,     \* none, pending, running, completed, failed, cancelled
          runners,    \* the workers that run a scan
          notified,   \* announcements to people
          callback    \* whether the pipeline's callback was asked for

svars == <<status, runners, notified, callback>>

Ended == {"completed", "failed", "cancelled"}

Init ==
    /\ status = [s \in Scans |-> "none"]
    /\ runners = [s \in Scans |-> {}]
    /\ notified = [s \in Scans |-> 0]
    /\ callback = [s \in Scans |-> FALSE]

Accept(s) ==
    /\ status[s] = "none"
    /\ status' = [status EXCEPT ![s] = "pending"]
    /\ UNCHANGED <<runners, notified, callback>>

(* The only run of the scan. *)
Run(s, w) ==
    /\ status[s] = "pending" /\ runners[s] = {}
    /\ status' = [status EXCEPT ![s] = "running"]
    /\ runners' = [runners EXCEPT ![s] = {w}]
    /\ UNCHANGED <<notified, callback>>

Shrink == \A s \in Scans : runners'[s] \subseteq runners[s]

(* Workers stop: they are through, were cancelled, or died. *)
Stop ==
    /\ Shrink
    /\ UNCHANGED <<status, notified, callback>>

(* Whoever ends the scan; the dispatcher asks for the callback at once. *)
End(s) ==
    /\ status[s] \in {"pending", "running"}
    /\ \E to \in Ended : status' = [status EXCEPT ![s] = to]
    /\ \/ UNCHANGED callback
       \/ callback' = [callback EXCEPT ![s] = TRUE]
    /\ Shrink
    /\ UNCHANGED notified

(* The writer of the end tells of it, and asks for the callback unless it  *)
(* dies or fails on the way.                                               *)
Tell(s) ==
    /\ status[s] \in Ended
    /\ notified[s] = 0
    /\ notified' = [notified EXCEPT ![s] = 1]
    /\ \E asked \in BOOLEAN : callback' = [callback EXCEPT ![s] = @ \/ asked]
    /\ UNCHANGED <<status, runners>>

Next ==
    \/ Stop
    \/ \E s \in Scans :
         \/ Accept(s) \/ End(s) \/ Tell(s)
         \/ \E w \in Workers : Run(s, w)

Spec == Init /\ [][Next]_svars
=============================================================================
