-------------------------- MODULE NotificationOutbox --------------------------
(***************************************************************************)
(* The way of an event to the channels (notifications/queue.go).  Every    *)
(* process runs a matcher, which turns events into queue jobs or appends   *)
(* them to a digest; a scheduler, which queues a digest when its window    *)
(* is over; and a worker, which claims jobs and sends them.                *)
(*                                                                         *)
(* Every statement is a step.  A claimed job has the status leased, which  *)
(* no query of the worker selects: whatever happens to the process, the    *)
(* job is not sent a second time, and nobody takes it over.                *)
(***************************************************************************)
EXTENDS Naturals, FiniteSets

CONSTANTS
    Events,
    Instant,            \* rule and channel of an immediate delivery
    Digests,            \* rule, channel and window of a digest
    RuleSets,           \* choices of the rules that match every event
    Processes,
    Scheduling,         \* processes whose digest scheduler ticks
    Nobody, NoEvent,
    MaxAttempts,        \* 5 in the code
    MaxDisturbances     \* statements that fail, answers that are lost, processes that
                        \* die, jobs that users retry

(* idempotency_key *)
JobKeys == (Events \X Instant) \cup ({NoEvent} \X Digests)

(* What a matcher and a sender are at. *)
Readings == [digest : Digests, absent : BOOLEAN, ids : SUBSET Events]
Matches  == [event : Events, left : SUBSET (Instant \cup Digests),
             read : Readings \cup {Nobody}]
Sendings == [job : JobKeys, step : {"selected", "leased"}]
            \cup [job : JobKeys, step : {"sent", "refused"}, attempts : Nat]

ASSUME OutboxConstants ==
    /\ IsFiniteSet(Processes) /\ Scheduling \subseteq Processes
    /\ RuleSets \subseteq SUBSET (Instant \cup Digests) /\ Instant \cap Digests = {}
    /\ Nobody \notin Digests \cup Readings \cup Matches \cup Sendings
    /\ NoEvent \notin Events
    /\ MaxAttempts \in Nat \ {0} /\ MaxDisturbances \in Nat

VARIABLES
    rules,          \* enabled rules with their channels
    event,          \* notification_events: "none", "published" or "matched"
    digest,         \* Digests -> its status, "none" without a row
    appended,       \* Digests -> event_ids
    windowOver,     \* window_end <= now()
    outbox,         \* JobKeys -> status and attempt_count of the queue job
    matcher,        \* process -> the event it matches, the targets left, and the digest read
    scheduler,      \* process -> the digest it has queued and not yet marked, or Nobody
    sender,         \* process -> the job it holds, what it read, and the outcome of sending
    received,       \* JobKeys -> messages the channel accepted
    resent,         \* JobKeys -> times somebody asked for it again: a lost answer, a user
    told,           \* Digests -> events in the messages the channel accepted
    unmatched,      \* matches lost to a failed statement
    disturbances

outboxRows  == <<rules, event, digest, appended, windowOver, outbox>>
outboxWork  == <<matcher, scheduler, sender>>
outboxSeen  == <<received, resent, told, unmatched>>
outboxVars  == <<outboxRows, outboxWork, outboxSeen, disturbances>>

OutboxInit ==
    /\ rules \in RuleSets
    /\ event = [e \in Events |-> "none"]
    /\ digest = [d \in Digests |-> "none"] /\ appended = [d \in Digests |-> {}]
    /\ windowOver = FALSE
    /\ outbox = [k \in JobKeys |-> [status |-> "none", attempts |-> 0]]
    /\ matcher = [p \in Processes |-> Nobody]
    /\ scheduler = [p \in Processes |-> Nobody]
    /\ sender = [p \in Processes |-> Nobody]
    /\ received = [k \in JobKeys |-> 0] /\ resent = [k \in JobKeys |-> 0]
    /\ told = [d \in Digests |-> {}] /\ unmatched = {}
    /\ disturbances = 0

Disturbance == disturbances < MaxDisturbances /\ disturbances' = disturbances + 1

SetStatus(k, status) == outbox' = [outbox EXCEPT ![k].status = status]

(* INSERT ... ON CONFLICT (idempotency_key) DO NOTHING *)
InsertJob(k) ==
    IF outbox[k].status = "none" THEN SetStatus(k, "pending") ELSE UNCHANGED outbox

-----------------------------------------------------------------------------
(* PublishEvent, and time.  An event belongs to the window it occurred in. *)

PublishEvent(e) ==
    /\ event[e] = "none" /\ ~ windowOver
    /\ event' = [event EXCEPT ![e] = "published"]
    /\ UNCHANGED <<rules, digest, appended, windowOver, outbox, outboxWork, outboxSeen,
                   disturbances>>

WindowEnds ==
    /\ ~ windowOver
    /\ windowOver' = TRUE
    /\ UNCHANGED <<rules, event, digest, appended, outbox, outboxWork, outboxSeen, disturbances>>

-----------------------------------------------------------------------------
(* matchPendingEvents *)

(* Another process may have read the event too. *)
MatchEvent(p, e) ==
    /\ matcher[p] = Nobody /\ event[e] = "published"
    /\ matcher' = [matcher EXCEPT ![p] =
                      [event |-> e, left |-> rules, read |-> Nobody]]
    /\ UNCHANGED <<outboxRows, scheduler, sender, outboxSeen, disturbances>>

Matched(p, t) ==
    matcher' = [matcher EXCEPT ![p] =
                   [event |-> @.event, left |-> @.left \ {t}, read |-> Nobody]]

(* queueMatch *)
QueueMatch(p, t) ==
    /\ matcher[p] # Nobody /\ t \in matcher[p].left \cap Instant
    /\ InsertJob(<<matcher[p].event, t>>)
    /\ Matched(p, t)
    /\ UNCHANGED <<rules, event, digest, appended, windowOver, scheduler, sender, outboxSeen,
                   disturbances>>

(* appendDigestEvent reads the digest and then inserts or replaces it.     *)
ReadDigest(p, d) ==
    /\ matcher[p] # Nobody /\ d \in matcher[p].left \cap Digests /\ matcher[p].read = Nobody
    /\ IF matcher[p].event \in appended[d]
       THEN Matched(p, d)
       ELSE matcher' = [matcher EXCEPT ![p] =
                   [event |-> @.event, left |-> @.left,
                    read |-> [digest |-> d, absent |-> digest[d] = "none", ids |-> appended[d]]]]
    /\ UNCHANGED <<outboxRows, scheduler, sender, outboxSeen, disturbances>>

(* The unique index on the window refuses a second insert: the match is    *)
(* lost.  An update writes the list that was read, whatever the status.    *)
AppendDigest(p) ==
    /\ matcher[p] # Nobody /\ matcher[p].read # Nobody
    /\ LET e == matcher[p].event
           r == matcher[p].read
       IN  /\ IF r.absent /\ digest[r.digest] # "none"
              THEN /\ unmatched' = unmatched \cup {<<e, r.digest>>}
                   /\ UNCHANGED <<digest, appended>>
              ELSE /\ appended' = [appended EXCEPT ![r.digest] = r.ids \cup {e}]
                   /\ digest' = [digest EXCEPT ![r.digest] = IF r.absent THEN "open" ELSE @]
                   /\ UNCHANGED unmatched
           /\ Matched(p, r.digest)
    /\ UNCHANGED <<rules, event, windowOver, outbox, scheduler, sender, received, resent, told,
                   disturbances>>

(* An error is logged, and the event counts as matched all the same. *)
MatchFails(p, t) ==
    /\ Disturbance
    /\ matcher[p] # Nobody /\ t \in matcher[p].left
    /\ unmatched' = unmatched \cup {<<matcher[p].event, t>>}
    /\ Matched(p, t)
    /\ UNCHANGED <<outboxRows, scheduler, sender, received, resent, told>>

MarkMatched(p) ==
    /\ matcher[p] # Nobody /\ matcher[p].left = {}
    /\ event' = [event EXCEPT ![matcher[p].event] = "matched"]
    /\ matcher' = [matcher EXCEPT ![p] = Nobody]
    /\ UNCHANGED <<rules, digest, appended, windowOver, outbox, scheduler, sender, outboxSeen,
                   disturbances>>

-----------------------------------------------------------------------------
(* queueDueDigests: insert the job, then mark the digest; what was read as *)
(* open may have gone on since.                                            *)

QueueDigest(p, d) ==
    /\ p \in Scheduling /\ scheduler[p] = Nobody /\ windowOver /\ digest[d] = "open"
    /\ InsertJob(<<NoEvent, d>>)
    /\ scheduler' = [scheduler EXCEPT ![p] = d]
    /\ UNCHANGED <<rules, event, digest, appended, windowOver, matcher, sender, outboxSeen,
                   disturbances>>

MarkDigestQueued(p) ==
    /\ scheduler[p] # Nobody
    /\ digest' = [digest EXCEPT ![scheduler[p]] = "queued"]
    /\ scheduler' = [scheduler EXCEPT ![p] = Nobody]
    /\ UNCHANGED <<rules, event, appended, windowOver, outbox, matcher, sender, outboxSeen,
                   disturbances>>

-----------------------------------------------------------------------------
(* processQueueBatch, deliverQueueJob and failQueueJob *)

Due == {k \in JobKeys : outbox[k].status \in {"pending", "failed"}}

(* The batch is read first, and each job is claimed by a conditional       *)
(* update when its turn has come.                                          *)
SelectDue(p, k) ==
    /\ sender[p] = Nobody /\ k \in Due
    /\ sender' = [sender EXCEPT ![p] = [job |-> k, step |-> "selected"]]
    /\ UNCHANGED <<outboxRows, matcher, scheduler, outboxSeen, disturbances>>

Holds(p, step) == sender[p] # Nobody /\ sender[p].step = step

(* Mutant: the update repeats only the identifier. *)
ClaimUnconditionally(p) ==
    /\ Holds(p, "selected")
    /\ SetStatus(sender[p].job, "leased")
    /\ sender' = [sender EXCEPT ![p] = [job |-> @.job, step |-> "leased"]]
    /\ UNCHANGED <<rules, event, digest, appended, windowOver, matcher, scheduler, outboxSeen,
                   disturbances>>

ClaimJob(p) ==
    /\ Holds(p, "selected")
    /\ IF sender[p].job \in Due
       THEN /\ SetStatus(sender[p].job, "leased")
            /\ sender' = [sender EXCEPT ![p] = [job |-> @.job, step |-> "leased"]]
       ELSE sender' = [sender EXCEPT ![p] = Nobody] /\ UNCHANGED outbox
    /\ UNCHANGED <<rules, event, digest, appended, windowOver, matcher, scheduler, outboxSeen,
                   disturbances>>

(* attempt_count as deliverQueueJob reads it, before it sends; the channel *)
(* accepts the message or not, and its answer may be lost.                 *)
SendToChannel(p, accepted, answered) ==
    /\ Holds(p, "leased")
    /\ IF answered THEN UNCHANGED disturbances ELSE Disturbance
    /\ LET k == sender[p].job
       IN  /\ sender' = [sender EXCEPT ![p] =
                            [job |-> k, step |-> IF accepted /\ answered THEN "sent" ELSE "refused",
                             attempts |-> outbox[k].attempts]]
           /\ received' = [received EXCEPT ![k] = IF accepted THEN @ + 1 ELSE @]
           /\ resent' = [resent EXCEPT ![k] = IF accepted /\ ~ answered THEN @ + 1 ELSE @]
           /\ told' = IF accepted /\ k[2] \in Digests
                      THEN [told EXCEPT ![k[2]] = @ \cup appended[k[2]]] ELSE told
    /\ UNCHANGED <<outboxRows, matcher, scheduler, unmatched>>

Released(p) == sender' = [sender EXCEPT ![p] = Nobody]

RecordDelivered(p) ==
    /\ Holds(p, "sent")
    /\ LET k == sender[p].job
       IN  /\ outbox' = [outbox EXCEPT ![k] = [status |-> "delivered", attempts |-> @.attempts + 1]]
           /\ digest' = IF k[2] \in Digests THEN [digest EXCEPT ![k[2]] = "delivered"] ELSE digest
    /\ Released(p)
    /\ UNCHANGED <<rules, event, appended, windowOver, matcher, scheduler, outboxSeen,
                   disturbances>>

(* Mutant: the last attempt is retried. *)
FailWithoutLimit(p) ==
    /\ Holds(p, "refused")
    /\ outbox' = [outbox EXCEPT ![sender[p].job] = [status |-> "failed", attempts |-> MaxAttempts]]
    /\ Released(p)
    /\ UNCHANGED <<rules, event, digest, appended, windowOver, matcher, scheduler, outboxSeen,
                   disturbances>>

(* The limit is compared with the count that was read. *)
FailQueueJob(p) ==
    /\ Holds(p, "refused")
    /\ outbox' = [outbox EXCEPT ![sender[p].job] =
                     [status |-> IF sender[p].attempts + 1 >= MaxAttempts
                                 THEN "dead letter" ELSE "failed",
                      attempts |-> @.attempts + 1]]
    /\ Released(p)
    /\ UNCHANGED <<rules, event, digest, appended, windowOver, matcher, scheduler, outboxSeen,
                   disturbances>>

(* A read or an update fails, and the job stays leased. *)
DeliveryError(p) ==
    /\ Disturbance
    /\ sender[p] # Nobody /\ sender[p].step # "selected"
    /\ Released(p)
    /\ UNCHANGED <<outboxRows, matcher, scheduler, outboxSeen>>

(* Everything a process was doing is gone; another one takes its place. *)
ProcessDies(p) ==
    /\ Disturbance
    /\ matcher' = [matcher EXCEPT ![p] = Nobody]
    /\ scheduler' = [scheduler EXCEPT ![p] = Nobody]
    /\ Released(p)
    /\ UNCHANGED <<outboxRows, outboxSeen>>

(* RetryQueueJob asks for no status: a job may have been delivered since   *)
(* the list that showed it was read.                                       *)
RetryQueueJob(k) ==
    /\ Disturbance
    /\ outbox[k].status # "none"
    /\ outbox' = [outbox EXCEPT ![k] = [status |-> "pending", attempts |-> 0]]
    /\ resent' = [resent EXCEPT ![k] = @ + 1]
    /\ UNCHANGED <<rules, event, digest, appended, windowOver, outboxWork, received, told,
                   unmatched>>

-----------------------------------------------------------------------------
Matching(p) ==
    \/ \E e \in Events : MatchEvent(p, e)
    \/ \E t \in Instant : QueueMatch(p, t)
    \/ \E d \in Digests : ReadDigest(p, d)
    \/ AppendDigest(p) \/ MarkMatched(p)

QueueingDigests(p) == MarkDigestQueued(p) \/ \E d \in Digests : QueueDigest(p, d)

Delivering(p) ==
    \/ \E k \in JobKeys : SelectDue(p, k)
    \/ ClaimJob(p) \/ RecordDelivered(p) \/ FailQueueJob(p)
    \/ \E accepted \in BOOLEAN : SendToChannel(p, accepted, TRUE)

OutboxNext ==
    \/ \E e \in Events : PublishEvent(e)
    \/ WindowEnds
    \/ \E p \in Processes :
          \/ Matching(p) \/ QueueingDigests(p) \/ Delivering(p)
          \/ \E t \in Instant \cup Digests : MatchFails(p, t)
          \/ SendToChannel(p, TRUE, FALSE)
          \/ DeliveryError(p) \/ ProcessDies(p)
    \/ \E k \in JobKeys : RetryQueueJob(k)

OutboxSpec == OutboxInit /\ [][OutboxNext]_outboxVars

(* The three loops of every process tick, and a channel answers or times   *)
(* out.                                                                    *)
OutboxFairness ==
    \A p \in Processes : /\ WF_outboxVars(Matching(p))
                         /\ WF_outboxVars(QueueingDigests(p))
                         /\ WF_outboxVars(Delivering(p))

-----------------------------------------------------------------------------
(* Properties *)

OutboxTypeOK ==
    /\ rules \in RuleSets
    /\ event \in [Events -> {"none", "published", "matched"}]
    /\ digest \in [Digests -> {"none", "open", "queued", "delivered"}]
    /\ appended \in [Digests -> SUBSET Events] /\ told \in [Digests -> SUBSET Events]
    /\ outbox \in [JobKeys -> [status : {"none", "pending", "leased", "failed", "delivered",
                                         "dead letter"},
                               attempts : Nat]]
    /\ matcher \in [Processes -> Matches \cup {Nobody}]
    /\ scheduler \in [Processes -> Digests \cup {Nobody}]
    /\ sender \in [Processes -> Sendings \cup {Nobody}]
    /\ received \in [JobKeys -> Nat] /\ resent \in [JobKeys -> Nat]

(* A channel gets a message once, however many processes match the event   *)
(* and select the job, for every time it was asked again: because the      *)
(* answer was lost or a user said so.                                      *)
SentOnce == \A k \in JobKeys : received[k] <= 1 + resent[k]

(* An event counts as matched when each of its deliveries has its job, but *)
(* for those whose statement failed.                                       *)
MatchedIsQueued ==
    \A e \in Events, t \in rules \cap Instant :
      event[e] = "matched" => outbox[<<e, t>>].status # "none" \/ <<e, t>> \in unmatched

(* The outbox delivers what was published, and delivers it once. *)
OutboxIsSound == OutboxTypeOK /\ SentOnce /\ MatchedIsQueued

(* A job is delivered or given up, unless it was lost by the process that  *)
(* had leased it: nobody selects such a job again.                         *)
Lost(k) ==
    /\ outbox[k].status = "leased"
    /\ \A p \in Processes : sender[p] # Nobody => sender[p].job # k

JobsSettle ==
    \A k \in JobKeys :
      outbox[k].status \in {"pending", "failed"}
        ~> outbox[k].status \in {"delivered", "dead letter"} \/ Lost(k)

(* Does not hold: a digest tells every event appended to it.  An event     *)
(* that is matched after its window has ended is appended to a digest that *)
(* may have been sent, and of two lists written at once one is lost.       *)
DigestTellsAll ==
    \A d \in Digests, e \in Events :
      digest[d] = "delivered" /\ event[e] = "matched" /\ <<e, d>> \notin unmatched => e \in told[d]
=============================================================================
