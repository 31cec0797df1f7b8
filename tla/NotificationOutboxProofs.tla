---------------------- MODULE NotificationOutboxProofs ----------------------
(***************************************************************************)
(* Proofs about NotificationOutbox for any number of processes, events and *)
(* targets.                                                                *)
(***************************************************************************)
EXTENDS NotificationOutbox, FiniteSetTheorems, TLAPS

(* Processes that have claimed the job and may still send it or let it be  *)
(* sent again.                                                             *)
Working(k) ==
    {p \in Processes : /\ sender[p] # Nobody /\ sender[p].job = k
                       /\ sender[p].step \in {"leased", "refused"}}

(* The job may still be claimed. *)
Open(k) == IF outbox[k].status \in {"none", "pending", "failed"} THEN 1 ELSE 0

(* Every message that was asked for is accepted, in work, or yet to claim: *)
(* once for the job itself and once for each time it was asked again.      *)
SendsAreAsked ==
    \A k \in JobKeys : received[k] + Cardinality(Working(k)) + Open(k) <= 1 + resent[k]

(* A matcher goes on to the next target only when the last one has its job.*)
DoneIsQueued ==
    \A p \in Processes : matcher[p] # Nobody =>
      \A t \in (rules \cap Instant) \ matcher[p].left :
        \/ outbox[<<matcher[p].event, t>>].status # "none"
        \/ <<matcher[p].event, t>> \in unmatched

OutboxInv == OutboxTypeOK /\ SendsAreAsked /\ DoneIsQueued /\ MatchedIsQueued

LEMMA WorkingFinite ==
  ASSUME NEW k
  PROVE  IsFiniteSet(Working(k)) /\ Cardinality(Working(k)) \in Nat
<1>1. Working(k) \in SUBSET Processes
  BY DEF Working
<1>2. IsFiniteSet(Working(k))
  BY <1>1, OutboxConstants, FS_Subset
<1> QED
  BY <1>2, FS_CardinalityType

(* What it means for a value to be a record of a matcher or a sender.      *)
LEMMA OutboxRecords ==
  ASSUME OutboxTypeOK, NEW p \in Processes
  PROVE  /\ matcher[p] # Nobody => matcher[p] \in Matches
         /\ sender[p] # Nobody => sender[p] \in Sendings /\ sender[p].job \in JobKeys
         /\ scheduler[p] # Nobody => scheduler[p] \in Digests
<1>1. /\ matcher[p] \in Matches \cup {Nobody} /\ scheduler[p] \in Digests \cup {Nobody}
      /\ sender[p] \in Sendings \cup {Nobody}
  BY DEF OutboxTypeOK
<1>2. \A s \in Sendings : s.job \in JobKeys
  BY DEF Sendings
<1> QED
  BY <1>1, <1>2

LEMMA OutboxStarts == OutboxInit => OutboxInv
<1> SUFFICES ASSUME OutboxInit PROVE OutboxInv
  OBVIOUS
<1>1. OutboxTypeOK
  <2>1. /\ outbox \in [JobKeys -> [status : {"none", "pending", "leased", "failed", "delivered",
                                            "dead letter"}, attempts : Nat]]
        /\ received \in [JobKeys -> Nat] /\ resent \in [JobKeys -> Nat]
    BY DEF OutboxInit
  <2>2. /\ rules \in RuleSets
        /\ event \in [Events -> {"none", "published", "matched"}]
        /\ digest \in [Digests -> {"none", "open", "queued", "delivered"}]
        /\ appended \in [Digests -> SUBSET Events] /\ told \in [Digests -> SUBSET Events]
    BY DEF OutboxInit
  <2>3. /\ matcher \in [Processes -> Matches \cup {Nobody}]
        /\ scheduler \in [Processes -> Digests \cup {Nobody}]
        /\ sender \in [Processes -> Sendings \cup {Nobody}]
    BY DEF OutboxInit
  <2> QED
    BY <2>1, <2>2, <2>3 DEF OutboxTypeOK
<1>2. SendsAreAsked
  <2> SUFFICES ASSUME NEW k \in JobKeys
               PROVE  received[k] + Cardinality(Working(k)) + Open(k) <= 1 + resent[k]
    BY DEF SendsAreAsked
  <2>1. Working(k) = {}
    BY DEF OutboxInit, Working
  <2>2. received[k] = 0 /\ resent[k] = 0 /\ Open(k) = 1
    BY DEF OutboxInit, Open
  <2> QED
    BY <2>1, <2>2, FS_EmptySet
<1>3. DoneIsQueued /\ MatchedIsQueued
  BY DEF OutboxInit, DoneIsQueued, MatchedIsQueued
<1> QED
  BY <1>1, <1>2, <1>3 DEF OutboxInv

-----------------------------------------------------------------------------
(* Steps that send nothing: a job may come into being or be marked.        *)

(* The jobs in work and those to claim are as they were, or fewer.         *)
LEMMA NothingMore ==
  ASSUME OutboxTypeOK, SendsAreAsked,
         UNCHANGED <<received, resent>>,
         \A k \in JobKeys : Working(k)' \subseteq Working(k) /\ Open(k)' <= Open(k)
  PROVE  SendsAreAsked'
<1> SUFFICES ASSUME NEW k \in JobKeys
             PROVE  received'[k] + Cardinality(Working(k)') + Open(k)' <= 1 + resent'[k]
  BY DEF SendsAreAsked
<1>1. Cardinality(Working(k)') <= Cardinality(Working(k)) /\ Cardinality(Working(k)') \in Nat
  <2>1. Working(k)' \in SUBSET Working(k) /\ IsFiniteSet(Working(k))
    BY WorkingFinite
  <2>2. IsFiniteSet(Working(k)') /\ Cardinality(Working(k)') <= Cardinality(Working(k))
    BY <2>1, FS_Subset
  <2> QED
    BY <2>2, FS_CardinalityType
<1>2. Cardinality(Working(k)) \in Nat /\ Open(k) \in Nat /\ Open(k)' \in Nat
  BY WorkingFinite DEF Open
<1>3. received[k] \in Nat /\ resent[k] \in Nat
  BY DEF OutboxTypeOK
<1>4. received[k] + Cardinality(Working(k)) + Open(k) <= 1 + resent[k]
  BY DEF SendsAreAsked
<1>5. Open(k)' <= Open(k) /\ received'[k] = received[k] /\ resent'[k] = resent[k]
  OBVIOUS
<1> QED
  BY <1>1, <1>2, <1>3, <1>4, <1>5

(* Jobs do not disappear, and what is lost stays recorded.                 *)
LEMMA QueuedStays ==
  ASSUME OutboxInv, UNCHANGED <<rules, event>>, unmatched \subseteq unmatched',
         \A k \in JobKeys : outbox[k].status # "none" => outbox'[k].status # "none",
         \A p \in Processes : matcher'[p] # Nobody =>
            /\ matcher[p] # Nobody /\ matcher'[p].event = matcher[p].event
            /\ \A t \in matcher[p].left \ matcher'[p].left : t \in Instant =>
                  \/ outbox'[<<matcher[p].event, t>>].status # "none"
                  \/ <<matcher[p].event, t>> \in unmatched'
  PROVE  DoneIsQueued' /\ MatchedIsQueued'
<1>1. OutboxTypeOK /\ DoneIsQueued /\ MatchedIsQueued
  BY DEF OutboxInv
<1>2. \A e \in Events, t \in Instant : <<e, t>> \in JobKeys
  BY DEF JobKeys
<1>3. MatchedIsQueued'
  BY <1>1, <1>2 DEF MatchedIsQueued
<1>4. DoneIsQueued'
  <2> SUFFICES ASSUME NEW p \in Processes, matcher'[p] # Nobody,
                      NEW t \in (rules \cap Instant) \ matcher'[p].left
               PROVE  \/ outbox'[<<matcher'[p].event, t>>].status # "none"
                      \/ <<matcher'[p].event, t>> \in unmatched'
    BY DEF DoneIsQueued
  <2>1. matcher[p] # Nobody /\ matcher'[p].event = matcher[p].event
    OBVIOUS
  <2>2. <<matcher[p].event, t>> \in JobKeys
    BY <1>1, <1>2, <2>1, OutboxRecords DEF Matches
  <2>3. CASE t \in matcher[p].left
    BY <2>1, <2>3
  <2>4. CASE t \notin matcher[p].left
    BY <1>1, <2>1, <2>2, <2>4 DEF DoneIsQueued
  <2> QED
    BY <2>3, <2>4
<1> QED
  BY <1>3, <1>4

(* A matcher that has dealt with a target goes on with the same event.     *)
LEMMA MatcherGoesOn ==
  ASSUME OutboxTypeOK, NEW p \in Processes, matcher[p] # Nobody, NEW t, Matched(p, t)
  PROVE  /\ matcher' \in [Processes -> Matches \cup {Nobody}]
         /\ matcher'[p] # Nobody /\ matcher'[p].event = matcher[p].event
         /\ matcher'[p].left = matcher[p].left \ {t}
         /\ \A q \in Processes \ {p} : matcher'[q] = matcher[q]
<1>1. matcher[p] \in Matches /\ matcher \in [Processes -> Matches \cup {Nobody}]
  BY OutboxRecords DEF OutboxTypeOK
<1> DEFINE m == matcher[p]
           next == [event |-> m.event, left |-> m.left \ {t}, read |-> Nobody]
<1>2. next \in Matches
  BY <1>1 DEF Matches
<1>3. matcher' = [matcher EXCEPT ![p] = next]
  BY <1>1 DEF Matched
<1>4. next # Nobody
  BY <1>2, OutboxConstants
<1> HIDE DEF next, m
<1>5. matcher' \in [Processes -> Matches \cup {Nobody}] /\ matcher'[p] = next
  BY <1>1, <1>2, <1>3
<1> QED
  BY <1>1, <1>3, <1>4, <1>5 DEF next, m

(* Steps of users, of time and of the matchers.                            *)
LEMMA JobsUntouched ==
  ASSUME OutboxTypeOK, SendsAreAsked, UNCHANGED <<outbox, sender, received, resent>>
  PROVE  SendsAreAsked'
<1>1. \A k \in JobKeys : Working(k)' = Working(k) /\ Open(k)' = Open(k) /\ Open(k) \in Nat
  BY DEF Working, Open
<1> QED
  BY <1>1, NothingMore

LEMMA PublishKeeps ==
  ASSUME OutboxInv, WindowEnds \/ \E e \in Events : PublishEvent(e)
  PROVE  OutboxInv'
<1>1. OutboxTypeOK /\ SendsAreAsked /\ DoneIsQueued /\ MatchedIsQueued
  BY DEF OutboxInv
<1>2. /\ UNCHANGED <<rules, digest, appended, outbox, outboxWork, outboxSeen>>
      /\ event' \in [Events -> {"none", "published", "matched"}]
      /\ \A e \in Events : event'[e] = "matched" => event[e] = "matched"
  BY <1>1 DEF WindowEnds, PublishEvent, OutboxTypeOK
<1>3. OutboxTypeOK'
  BY <1>1, <1>2 DEF OutboxTypeOK, outboxWork, outboxSeen
<1>4. SendsAreAsked'
  BY <1>1, <1>2, JobsUntouched DEF outboxWork, outboxSeen
<1>5. DoneIsQueued' /\ MatchedIsQueued'
  BY <1>1, <1>2 DEF DoneIsQueued, MatchedIsQueued, outboxWork, outboxSeen
<1> QED
  BY <1>3, <1>4, <1>5 DEF OutboxInv

LEMMA MatchKeeps ==
  ASSUME OutboxInv, NEW p \in Processes, NEW e \in Events, MatchEvent(p, e)
  PROVE  OutboxInv'
<1>1. OutboxTypeOK /\ SendsAreAsked /\ DoneIsQueued /\ MatchedIsQueued
  BY DEF OutboxInv
<1> DEFINE m == [event |-> e, left |-> rules, read |-> Nobody]
<1>2. /\ matcher' = [matcher EXCEPT ![p] = m]
      /\ UNCHANGED <<outboxRows, scheduler, sender, outboxSeen, disturbances>>
  BY DEF MatchEvent
<1>3. m \in Matches /\ m.left = rules
  BY <1>1, OutboxConstants DEF Matches, OutboxTypeOK
<1> HIDE DEF m
<1>4. /\ matcher' \in [Processes -> Matches \cup {Nobody}]
      /\ matcher'[p] = m /\ \A q \in Processes \ {p} : matcher'[q] = matcher[q]
  BY <1>1, <1>2, <1>3 DEF OutboxTypeOK
<1>5. OutboxTypeOK'
  BY <1>1, <1>2, <1>4 DEF OutboxTypeOK, outboxRows, outboxSeen
<1>6. SendsAreAsked'
  BY <1>1, <1>2, JobsUntouched DEF outboxRows, outboxSeen
<1>7. DoneIsQueued' /\ MatchedIsQueued'
  BY <1>1, <1>2, <1>3, <1>4 DEF DoneIsQueued, MatchedIsQueued, outboxRows, outboxSeen
<1> QED
  BY <1>5, <1>6, <1>7 DEF OutboxInv

LEMMA MarkMatchedKeeps ==
  ASSUME OutboxInv, NEW p \in Processes, MarkMatched(p)
  PROVE  OutboxInv'
<1>1. OutboxTypeOK /\ SendsAreAsked /\ DoneIsQueued /\ MatchedIsQueued
  BY DEF OutboxInv
<1> DEFINE e == matcher[p].event
<1>2. /\ matcher[p] # Nobody /\ matcher[p].left = {}
      /\ event' = [event EXCEPT ![e] = "matched"] /\ matcher' = [matcher EXCEPT ![p] = Nobody]
      /\ UNCHANGED <<rules, digest, appended, windowOver, outbox, scheduler, sender, outboxSeen,
                     disturbances>>
  BY DEF MarkMatched
<1>3. e \in Events
  BY <1>1, <1>2, OutboxRecords DEF Matches
<1>4. \A t \in rules \cap Instant :
        outbox[<<e, t>>].status # "none" \/ <<e, t>> \in unmatched
  BY <1>1, <1>2 DEF DoneIsQueued
<1> HIDE DEF e
<1>5. /\ matcher' \in [Processes -> Matches \cup {Nobody}]
      /\ matcher'[p] = Nobody /\ \A q \in Processes \ {p} : matcher'[q] = matcher[q]
      /\ event' \in [Events -> {"none", "published", "matched"}]
      /\ \A d \in Events \ {e} : event'[d] = event[d]
  BY <1>1, <1>2, <1>3 DEF OutboxTypeOK
<1>6. OutboxTypeOK'
  BY <1>1, <1>2, <1>5 DEF OutboxTypeOK, outboxSeen
<1>7. SendsAreAsked'
  BY <1>1, <1>2, JobsUntouched DEF outboxSeen
<1>8. MatchedIsQueued'
  BY <1>1, <1>2, <1>4, <1>5 DEF MatchedIsQueued, outboxSeen
<1>9. DoneIsQueued'
  BY <1>1, <1>2, <1>5 DEF DoneIsQueued, outboxSeen
<1> QED
  BY <1>6, <1>7, <1>8, <1>9 DEF OutboxInv

(* A matcher deals with a target: it reads a digest, inserts the job,      *)
(* appends to the digest or loses the match.                               *)
LEMMA TargetKeeps ==
  ASSUME OutboxInv, NEW p \in Processes, matcher[p] # Nobody, NEW t,
         Matched(p, t),
         UNCHANGED <<rules, event, scheduler, sender, received, resent, told>>,
         \/ UNCHANGED outbox
         \/ t \in Instant /\ InsertJob(<<matcher[p].event, t>>),
         t \in Instant => \/ InsertJob(<<matcher[p].event, t>>)
                         \/ <<matcher[p].event, t>> \in unmatched',
         unmatched \subseteq unmatched',
         digest' \in [Digests -> {"none", "open", "queued", "delivered"}],
         appended' \in [Digests -> SUBSET Events]
  PROVE  OutboxInv'
<1>1. OutboxTypeOK /\ SendsAreAsked
  BY DEF OutboxInv
<1> DEFINE k == <<matcher[p].event, t>>
<1>2. /\ matcher' \in [Processes -> Matches \cup {Nobody}]
      /\ matcher'[p] # Nobody /\ matcher'[p].event = matcher[p].event
      /\ matcher'[p].left = matcher[p].left \ {t}
      /\ \A q \in Processes \ {p} : matcher'[q] = matcher[q]
  BY <1>1, MatcherGoesOn
<1>3. t \in Instant => k \in JobKeys
  BY <1>1, OutboxRecords DEF Matches, JobKeys
<1> HIDE DEF k
<1>4. /\ outbox' \in [JobKeys -> [status : {"none", "pending", "leased", "failed", "delivered",
                                            "dead letter"}, attempts : Nat]]
      /\ \A j \in JobKeys : outbox'[j] # outbox[j] =>
                             outbox[j].status = "none" /\ outbox'[j].status = "pending"
      /\ t \in Instant => outbox'[k].status # "none" \/ k \in unmatched'
  <2>1. CASE UNCHANGED outbox
    <3>1. InsertJob(k) /\ t \in Instant => outbox[k].status # "none"
      BY <1>1, <1>3, <2>1 DEF InsertJob, SetStatus, OutboxTypeOK
    <3> QED
      BY <1>1, <2>1, <3>1 DEF OutboxTypeOK, k
  <2>2. CASE t \in Instant /\ InsertJob(k)
    <3>1. k \in JobKeys
      BY <1>3, <2>2
    <3>2. CASE outbox[k].status = "none"
      <4>1. outbox' = [outbox EXCEPT ![k].status = "pending"]
        BY <2>2, <3>2 DEF InsertJob, SetStatus
      <4>2. /\ outbox' \in [JobKeys -> [status : {"none", "pending", "leased", "failed",
                                                 "delivered", "dead letter"}, attempts : Nat]]
            /\ outbox'[k].status = "pending"
            /\ \A j \in JobKeys \ {k} : outbox'[j] = outbox[j]
        BY <1>1, <3>1, <4>1 DEF OutboxTypeOK
      <4> QED
        BY <3>2, <4>2
    <3>3. CASE outbox[k].status # "none"
      BY <1>1, <2>2, <3>3 DEF InsertJob, OutboxTypeOK
    <3> QED
      BY <3>2, <3>3
  <2> QED
    BY <2>1, <2>2 DEF k
<1>5. OutboxTypeOK'
  BY <1>1, <1>2, <1>4 DEF OutboxTypeOK
<1>6. SendsAreAsked'
  <2>1. ASSUME NEW j \in JobKeys PROVE Working(j)' \subseteq Working(j) /\ Open(j)' <= Open(j)
    <3>1. Working(j)' = Working(j)
      BY DEF Working
    <3>2. CASE outbox'[j] = outbox[j]
      BY <3>1, <3>2 DEF Open
    <3>3. CASE outbox[j].status = "none" /\ outbox'[j].status = "pending"
      BY <3>1, <3>3 DEF Open
    <3> QED
      BY <1>4, <3>1, <3>2, <3>3
  <2> QED
    BY <1>1, <2>1, NothingMore
<1>7. DoneIsQueued' /\ MatchedIsQueued'
  <2>1. \A j \in JobKeys : outbox[j].status # "none" => outbox'[j].status # "none"
    BY <1>4
  <2>2. ASSUME NEW q \in Processes, matcher'[q] # Nobody
        PROVE  /\ matcher[q] # Nobody /\ matcher'[q].event = matcher[q].event
               /\ \A s \in matcher[q].left \ matcher'[q].left : s \in Instant =>
                     \/ outbox'[<<matcher[q].event, s>>].status # "none"
                     \/ <<matcher[q].event, s>> \in unmatched'
    BY <1>2, <1>4, <2>2 DEF k
  <2> QED
    BY <2>1, <2>2, QueuedStays
<1> QED
  BY <1>5, <1>6, <1>7 DEF OutboxInv

LEMMA MatcherKeeps ==
  ASSUME OutboxInv, NEW p \in Processes,
         Matching(p) \/ \E t \in Instant \cup Digests : MatchFails(p, t)
  PROVE  OutboxInv'
<1>1. OutboxTypeOK
  BY DEF OutboxInv
<1>2. /\ digest \in [Digests -> {"none", "open", "queued", "delivered"}]
      /\ appended \in [Digests -> SUBSET Events]
  BY <1>1 DEF OutboxTypeOK
<1>3. ASSUME NEW t \in Instant, QueueMatch(p, t) PROVE OutboxInv'
  BY <1>2, <1>3, TargetKeeps DEF QueueMatch, outboxSeen
<1>4. ASSUME NEW d \in Digests, ReadDigest(p, d) PROVE OutboxInv'
  <2> DEFINE m == [event |-> matcher[p].event, left |-> matcher[p].left,
                   read |-> [digest |-> d, absent |-> digest[d] = "none", ids |-> appended[d]]]
  <2>1. matcher[p] # Nobody /\ d \notin Instant
        /\ UNCHANGED <<outboxRows, scheduler, sender, outboxSeen, disturbances>>
    BY <1>4, OutboxConstants DEF ReadDigest
  <2>2. CASE matcher[p].event \in appended[d]
    BY <1>2, <1>4, <2>1, <2>2, TargetKeeps DEF ReadDigest, outboxRows, outboxSeen
  <2>3. CASE matcher[p].event \notin appended[d]
    <3>1. matcher' = [matcher EXCEPT ![p] = m]
      BY <1>4, <2>3 DEF ReadDigest
    <3>2. matcher[p] \in Matches
      BY <1>1, <2>1, OutboxRecords
    <3>3. m \in Matches /\ m.event = matcher[p].event /\ m.left = matcher[p].left
      BY <1>2, <3>2 DEF Matches, Readings
    <3> HIDE DEF m
    <3>4. /\ matcher' \in [Processes -> Matches \cup {Nobody}]
          /\ matcher'[p].event = matcher[p].event /\ matcher'[p].left = matcher[p].left
          /\ \A q \in Processes \ {p} : matcher'[q] = matcher[q]
      BY <1>1, <3>1, <3>3 DEF OutboxTypeOK
    <3>5. OutboxTypeOK'
      BY <1>1, <2>1, <3>4 DEF OutboxTypeOK, outboxRows, outboxSeen
    <3>6. SendsAreAsked'
      BY <1>1, <2>1, JobsUntouched DEF OutboxInv, outboxRows, outboxSeen
    <3>7. ASSUME NEW q \in Processes, matcher'[q] # Nobody
          PROVE  /\ matcher[q] # Nobody /\ matcher'[q].event = matcher[q].event
                 /\ matcher[q].left \ matcher'[q].left = {}
      BY <2>1, <3>4, <3>7
    <3>8. DoneIsQueued' /\ MatchedIsQueued'
      BY <2>1, <3>7, QueuedStays DEF outboxRows, outboxSeen
    <3> QED
      BY <3>5, <3>6, <3>8 DEF OutboxInv
  <2> QED
    BY <2>2, <2>3
<1>5. CASE AppendDigest(p)
  <2> DEFINE r == matcher[p].read
  <2>1. matcher[p] # Nobody /\ r # Nobody /\ Matched(p, r.digest)
        /\ UNCHANGED <<rules, event, windowOver, outbox, scheduler, sender, received, resent, told>>
    BY <1>5 DEF AppendDigest
  <2>2. matcher[p].event \in Events /\ r \in Readings
    BY <1>1, <2>1, OutboxRecords DEF Matches
  <2>3. r.digest \in Digests /\ r.ids \subseteq Events /\ r.digest \notin Instant
    BY <2>2, OutboxConstants DEF Readings
  <2>4. unmatched \subseteq unmatched'
    BY <1>5 DEF AppendDigest
  <2>5. /\ digest' \in [Digests -> {"none", "open", "queued", "delivered"}]
        /\ appended' \in [Digests -> SUBSET Events]
    <3>1. CASE r.absent /\ digest[r.digest] # "none"
      BY <1>2, <1>5, <3>1 DEF AppendDigest
    <3>2. CASE ~ (r.absent /\ digest[r.digest] # "none")
      <4>1. /\ appended' = [appended EXCEPT ![r.digest] = r.ids \cup {matcher[p].event}]
            /\ digest' = [digest EXCEPT ![r.digest] = IF r.absent THEN "open" ELSE digest[r.digest]]
        BY <1>5, <3>2 DEF AppendDigest
      <4> HIDE DEF r
      <4> QED
        BY <1>2, <2>2, <2>3, <4>1
    <3> QED
      BY <3>1, <3>2
  <2> HIDE DEF r
  <2> QED
    BY <2>1, <2>3, <2>4, <2>5, TargetKeeps
<1>6. ASSUME NEW t \in Instant \cup Digests, MatchFails(p, t) PROVE OutboxInv'
  <2>1. /\ matcher[p] # Nobody /\ Matched(p, t)
        /\ unmatched' = unmatched \cup {<<matcher[p].event, t>>}
        /\ UNCHANGED <<outboxRows, scheduler, sender, received, resent, told>>
    BY <1>6 DEF MatchFails
  <2> QED
    BY <1>2, <2>1, TargetKeeps DEF outboxRows
<1> QED
  BY <1>3, <1>4, <1>5, <1>6, MatchKeeps, MarkMatchedKeeps DEF Matching

-----------------------------------------------------------------------------
(* Steps of the schedulers and of the senders                              *)

In(p, k) == IF p \in Working(k) THEN 1 ELSE 0

(* One process at a time changes what it works on, and what it takes up or *)
(* opens has been given up, accepted or asked for in the same step.        *)
LEMMA OneSends ==
  ASSUME OutboxTypeOK, SendsAreAsked, NEW p \in Processes,
         \A q \in Processes \ {p} : sender'[q] = sender[q],
         received' \in [JobKeys -> Nat], resent' \in [JobKeys -> Nat],
         \A k \in JobKeys : received'[k] + In(p, k)' + Open(k)' + resent[k]
                              <= received[k] + In(p, k) + Open(k) + resent'[k]
  PROVE  SendsAreAsked'
<1> SUFFICES ASSUME NEW k \in JobKeys
             PROVE  received'[k] + Cardinality(Working(k)') + Open(k)' <= 1 + resent'[k]
  BY DEF SendsAreAsked
<1> DEFINE others == Working(k) \ {p}
<1>1. Working(k)' \ {p} = others
  BY DEF Working
<1>2. /\ IsFiniteSet(others) /\ Cardinality(others) \in Nat
      /\ Cardinality(Working(k)) = Cardinality(others) + In(p, k)
  <2>1. /\ IsFiniteSet(others)
        /\ Cardinality(others) = IF p \in Working(k) THEN Cardinality(Working(k)) - 1
                                 ELSE Cardinality(Working(k))
    BY WorkingFinite, FS_RemoveElement
  <2> QED
    BY <2>1, WorkingFinite, FS_CardinalityType DEF In
<1>3. Cardinality(Working(k)') = Cardinality(others) + In(p, k)'
  <2>1. CASE p \in Working(k)'
    <3>1. Working(k)' = others \cup {p}
      BY <1>1, <2>1
    <3>2. Cardinality(others \cup {p}) = Cardinality(others) + 1
      BY <1>2, FS_AddElement
    <3> QED
      BY <2>1, <3>1, <3>2 DEF In
  <2>2. CASE p \notin Working(k)'
    <3>1. Working(k)' = others
      BY <1>1, <2>2
    <3> QED
      BY <1>2, <2>2, <3>1 DEF In
  <2> QED
    BY <2>1, <2>2
<1>4. /\ received[k] \in Nat /\ resent[k] \in Nat /\ received'[k] \in Nat /\ resent'[k] \in Nat
      /\ Open(k) \in Nat /\ Open(k)' \in Nat /\ In(p, k) \in Nat /\ In(p, k)' \in Nat
  BY DEF OutboxTypeOK, Open, In
<1>5. received[k] + Cardinality(Working(k)) + Open(k) <= 1 + resent[k]
  BY DEF SendsAreAsked
<1>6. received'[k] + In(p, k)' + Open(k)' + resent[k]
        <= received[k] + In(p, k) + Open(k) + resent'[k]
  OBVIOUS
<1> HIDE DEF others
<1> QED
  BY <1>2, <1>3, <1>4, <1>5, <1>6

JobRows == [JobKeys -> [status : {"none", "pending", "leased", "failed", "delivered",
                                  "dead letter"}, attempts : Nat]]

(* The rest of the invariant after a step that matches nothing.            *)
LEMMA RestKeeps ==
  ASSUME OutboxInv, SendsAreAsked',
         UNCHANGED <<rules, event, appended, unmatched>>,
         outbox' \in JobRows,
         \A k \in JobKeys : outbox[k].status # "none" => outbox'[k].status # "none",
         matcher' \in [Processes -> Matches \cup {Nobody}],
         \A q \in Processes : matcher'[q] # Nobody => matcher'[q] = matcher[q],
         digest' \in [Digests -> {"none", "open", "queued", "delivered"}],
         told' \in [Digests -> SUBSET Events],
         scheduler' \in [Processes -> Digests \cup {Nobody}],
         sender' \in [Processes -> Sendings \cup {Nobody}],
         received' \in [JobKeys -> Nat], resent' \in [JobKeys -> Nat]
  PROVE  OutboxInv'
<1>1. OutboxTypeOK'
  BY DEF OutboxInv, OutboxTypeOK, JobRows
<1>2. DoneIsQueued' /\ MatchedIsQueued'
  BY QueuedStays
<1> QED
  BY <1>1, <1>2 DEF OutboxInv

LEMMA OutboxTypes ==
  ASSUME OutboxInv
  PROVE  /\ OutboxTypeOK /\ SendsAreAsked
         /\ outbox \in JobRows
         /\ matcher \in [Processes -> Matches \cup {Nobody}]
         /\ digest \in [Digests -> {"none", "open", "queued", "delivered"}]
         /\ told \in [Digests -> SUBSET Events] /\ appended \in [Digests -> SUBSET Events]
         /\ scheduler \in [Processes -> Digests \cup {Nobody}]
         /\ sender \in [Processes -> Sendings \cup {Nobody}]
         /\ received \in [JobKeys -> Nat] /\ resent \in [JobKeys -> Nat]
  BY DEF OutboxInv, OutboxTypeOK, JobRows

(* A status is set, and the other jobs are as they were.                   *)
LEMMA StatusSet ==
  ASSUME outbox \in JobRows, NEW k \in JobKeys,
         NEW status \in {"pending", "leased", "failed", "delivered", "dead letter"},
         SetStatus(k, status)
  PROVE  /\ outbox' \in JobRows /\ outbox'[k].status = status
         /\ \A j \in JobKeys \ {k} : outbox'[j] = outbox[j]
         /\ \A j \in JobKeys : outbox[j].status # "none" => outbox'[j].status # "none"
  BY DEF JobRows, SetStatus

LEMMA SchedulerKeeps ==
  ASSUME OutboxInv, NEW p \in Processes, QueueingDigests(p)
  PROVE  OutboxInv'
<1>1. CASE MarkDigestQueued(p)
  <2>1. /\ scheduler[p] # Nobody /\ digest' = [digest EXCEPT ![scheduler[p]] = "queued"]
        /\ scheduler' = [scheduler EXCEPT ![p] = Nobody]
        /\ UNCHANGED <<rules, event, appended, windowOver, outbox, matcher, sender, outboxSeen,
                       disturbances>>
    BY <1>1 DEF MarkDigestQueued
  <2>2. SendsAreAsked'
    BY <2>1, OutboxTypes, JobsUntouched DEF outboxSeen
  <2>3. /\ digest' \in [Digests -> {"none", "open", "queued", "delivered"}]
        /\ scheduler' \in [Processes -> Digests \cup {Nobody}]
    BY <2>1, OutboxTypes
  <2> QED
    BY <2>1, <2>2, <2>3, OutboxTypes, RestKeeps DEF outboxSeen
<1>2. ASSUME NEW d \in Digests, QueueDigest(p, d) PROVE OutboxInv'
  <2> DEFINE k == <<NoEvent, d>>
  <2>1. /\ InsertJob(k) /\ scheduler' = [scheduler EXCEPT ![p] = d]
        /\ UNCHANGED <<rules, event, digest, appended, windowOver, matcher, sender, outboxSeen,
                       disturbances>>
    BY <1>2 DEF QueueDigest
  <2>2. k \in JobKeys
    BY DEF JobKeys
  <2> HIDE DEF k
  <2>3. /\ outbox' \in JobRows
        /\ \A j \in JobKeys : outbox'[j] # outbox[j] =>
                               outbox[j].status = "none" /\ outbox'[j].status = "pending"
    <3>1. CASE outbox[k].status = "none"
      BY <2>1, <2>2, <3>1, OutboxTypes, StatusSet DEF InsertJob
    <3>2. CASE outbox[k].status # "none"
      BY <2>1, <3>2, OutboxTypes DEF InsertJob
    <3> QED
      BY <3>1, <3>2
  <2>4. SendsAreAsked'
    <3>1. ASSUME NEW j \in JobKeys PROVE Working(j)' \subseteq Working(j) /\ Open(j)' <= Open(j)
      <4>1. Working(j)' = Working(j)
        BY <2>1 DEF Working
      <4>2. CASE outbox'[j] = outbox[j]
        BY <4>1, <4>2 DEF Open
      <4>3. CASE outbox[j].status = "none" /\ outbox'[j].status = "pending"
        BY <4>1, <4>3 DEF Open
      <4> QED
        BY <2>3, <4>2, <4>3
    <3> QED
      BY <2>1, <3>1, OutboxTypes, NothingMore DEF outboxSeen
  <2>5. scheduler' \in [Processes -> Digests \cup {Nobody}]
    BY <2>1, OutboxTypes
  <2>6. \A j \in JobKeys : outbox[j].status # "none" => outbox'[j].status # "none"
    BY <2>3
  <2> QED
    BY <2>1, <2>3, <2>4, <2>5, <2>6, OutboxTypes, RestKeeps DEF outboxSeen
<1> QED
  BY <1>1, <1>2 DEF QueueingDigests

(* The sender that a process becomes.                                      *)
LEMMA SenderBecomes ==
  ASSUME OutboxTypeOK, NEW p \in Processes, NEW s \in Sendings \cup {Nobody},
         sender' = [sender EXCEPT ![p] = s]
  PROVE  /\ sender' \in [Processes -> Sendings \cup {Nobody}]
         /\ sender'[p] = s /\ \A q \in Processes \ {p} : sender'[q] = sender[q]
         /\ \A k : p \in Working(k)' <=> s # Nobody /\ s.job = k /\ s.step \in {"leased", "refused"}
  BY DEF OutboxTypeOK, Working

(* Nothing but what the process works on changes, and that for less.       *)
LEMMA GivenUp ==
  ASSUME OutboxInv, NEW p \in Processes, NEW s \in Sendings \cup {Nobody},
         sender' = [sender EXCEPT ![p] = s],
         s = Nobody \/ s.step \notin {"leased", "refused"},
         matcher' \in [Processes -> Matches \cup {Nobody}],
         \A q \in Processes : matcher'[q] # Nobody => matcher'[q] = matcher[q],
         scheduler' \in [Processes -> Digests \cup {Nobody}],
         UNCHANGED <<outboxRows, outboxSeen>>
  PROVE  OutboxInv'
<1>1. /\ sender' \in [Processes -> Sendings \cup {Nobody}]
      /\ \A q \in Processes \ {p} : sender'[q] = sender[q]
      /\ \A k : p \notin Working(k)'
  BY OutboxTypes, SenderBecomes
<1>2. SendsAreAsked'
  <2>1. \A k \in JobKeys : Working(k)' \subseteq Working(k)
    BY <1>1 DEF Working
  <2>2. \A k \in JobKeys : Open(k)' = Open(k) /\ Open(k) \in Nat
    BY DEF Open, outboxRows
  <2> QED
    BY <2>1, <2>2, OutboxTypes, NothingMore DEF outboxSeen
<1> QED
  BY <1>1, <1>2, OutboxTypes, RestKeeps DEF outboxRows, outboxSeen

LEMMA ClaimKeeps ==
  ASSUME OutboxInv, NEW p \in Processes, ClaimJob(p)
  PROVE  OutboxInv'
<1> DEFINE k == sender[p].job
           s == [job |-> k, step |-> "leased"]
<1>1. /\ sender[p] # Nobody /\ sender[p].step = "selected"
      /\ UNCHANGED <<rules, event, digest, appended, windowOver, matcher, scheduler, outboxSeen,
                     disturbances>>
  BY DEF ClaimJob, Holds
<1>2. k \in JobKeys
  BY <1>1, OutboxTypes, OutboxRecords
<1>3. CASE k \notin Due
  BY <1>1, <1>3, OutboxTypes, GivenUp DEF ClaimJob, outboxRows
<1>4. CASE k \in Due
  <2>1. /\ SetStatus(k, "leased") /\ sender' = [sender EXCEPT ![p] = s]
        /\ outbox[k].status \in {"pending", "failed"}
    BY <1>4 DEF ClaimJob, Due
  <2>2. s \in Sendings /\ s # Nobody
    BY <1>2, OutboxConstants DEF Sendings
  <2>3. s.job = k /\ s.step = "leased"
    OBVIOUS
  <2> HIDE DEF k, s
  <2>4. /\ outbox' \in JobRows /\ outbox'[k].status = "leased"
        /\ \A j \in JobKeys \ {k} : outbox'[j] = outbox[j]
        /\ \A j \in JobKeys : outbox[j].status # "none" => outbox'[j].status # "none"
    BY <1>2, <2>1, OutboxTypes, StatusSet
  <2>5. /\ sender' \in [Processes -> Sendings \cup {Nobody}]
        /\ \A q \in Processes \ {p} : sender'[q] = sender[q]
        /\ \A j : p \in Working(j)' <=> j = k
    <3>1. /\ sender' \in [Processes -> Sendings \cup {Nobody}]
          /\ \A q \in Processes \ {p} : sender'[q] = sender[q]
          /\ \A j : p \in Working(j)' <=> s # Nobody /\ s.job = j
                                           /\ s.step \in {"leased", "refused"}
      BY <2>1, <2>2, OutboxTypes, SenderBecomes
    <3>2. \A j : p \in Working(j)' <=> j = k
      BY <2>2, <2>3, <3>1
    <3> QED
      BY <3>1, <3>2
  <2>6. SendsAreAsked'
    <3>1. ASSUME NEW j \in JobKeys
          PROVE  In(p, j)' + Open(j)' <= In(p, j) + Open(j)
      <4>1. CASE j = k
        BY <2>1, <2>4, <2>5, <4>1 DEF In, Open
      <4>2. CASE j # k
        BY <2>4, <2>5, <4>2 DEF In, Open
      <4> QED
        BY <4>1, <4>2
    <3>2. ASSUME NEW j \in JobKeys
          PROVE  received'[j] + In(p, j)' + Open(j)' + resent[j]
                   <= received[j] + In(p, j) + Open(j) + resent'[j]
      <4>1. /\ received'[j] = received[j] /\ resent'[j] = resent[j]
            /\ received[j] \in Nat /\ resent[j] \in Nat
            /\ In(p, j) \in Nat /\ In(p, j)' \in Nat /\ Open(j) \in Nat /\ Open(j)' \in Nat
        BY <1>1, OutboxTypes DEF outboxSeen, In, Open
      <4> QED
        BY <3>1, <4>1
    <3> QED
      BY <1>1, <2>5, <3>2, OutboxTypes, OneSends DEF outboxSeen
  <2> QED
    BY <1>1, <2>4, <2>5, <2>6, OutboxTypes, RestKeeps DEF outboxSeen
<1> QED
  BY <1>3, <1>4

LEMMA SendKeeps ==
  ASSUME OutboxInv, NEW p \in Processes, NEW accepted \in BOOLEAN, NEW answered \in BOOLEAN,
         SendToChannel(p, accepted, answered)
  PROVE  OutboxInv'
<1> DEFINE k == sender[p].job
           s == [job |-> k, step |-> IF accepted /\ answered THEN "sent" ELSE "refused",
                 attempts |-> outbox[k].attempts]
<1>1. /\ sender[p] # Nobody /\ sender[p].step = "leased"
      /\ sender' = [sender EXCEPT ![p] = s]
      /\ received' = [received EXCEPT ![k] = IF accepted THEN received[k] + 1 ELSE received[k]]
      /\ resent' = [resent EXCEPT ![k] = IF accepted /\ ~ answered THEN resent[k] + 1 ELSE resent[k]]
      /\ told' = IF accepted /\ k[2] \in Digests
                 THEN [told EXCEPT ![k[2]] = told[k[2]] \cup appended[k[2]]] ELSE told
      /\ UNCHANGED <<outboxRows, matcher, scheduler, unmatched>>
  BY DEF SendToChannel, Holds
<1>2. k \in JobKeys
  BY <1>1, OutboxTypes, OutboxRecords
<1>3. s \in Sendings /\ s # Nobody
  <2>1. outbox[k].attempts \in Nat
    BY <1>2, OutboxTypes DEF JobRows
  <2>2. s \in Sendings
    BY <1>2, <2>1 DEF Sendings
  <2> QED
    BY <2>2, OutboxConstants
<1>4. s.job = k /\ s.step = IF accepted /\ answered THEN "sent" ELSE "refused"
  OBVIOUS
<1>5. told' \in [Digests -> SUBSET Events]
  BY <1>1, OutboxTypes
<1> HIDE DEF k, s
<1>6. /\ sender' \in [Processes -> Sendings \cup {Nobody}]
      /\ \A q \in Processes \ {p} : sender'[q] = sender[q]
      /\ \A j : p \in Working(j)' <=> j = k /\ ~ (accepted /\ answered)
  BY <1>1, <1>3, <1>4, OutboxTypes, SenderBecomes
<1>7. /\ received' \in [JobKeys -> Nat] /\ resent' \in [JobKeys -> Nat]
  BY <1>1, <1>2, OutboxTypes
<1>8. \A j : p \in Working(j) <=> j = k
  BY <1>1 DEF Working, k
<1>9. SendsAreAsked'
  <2>1. ASSUME NEW j \in JobKeys
        PROVE  received'[j] + In(p, j)' + Open(j)' + resent[j]
                 <= received[j] + In(p, j) + Open(j) + resent'[j]
    <3>1. received[j] \in Nat /\ resent[j] \in Nat
      BY OutboxTypes
    <3>2. Open(j)' = Open(j) /\ Open(j) \in Nat
      BY <1>1 DEF Open, outboxRows
    <3>3. CASE j = k
      <4>1. /\ received'[j] = IF accepted THEN received[j] + 1 ELSE received[j]
            /\ resent'[j] = IF accepted /\ ~ answered THEN resent[j] + 1 ELSE resent[j]
        BY <1>1, <1>2, <3>3, OutboxTypes
      <4>2. In(p, j) = 1 /\ In(p, j)' = IF accepted /\ answered THEN 0 ELSE 1
        BY <1>6, <1>8, <3>3 DEF In
      <4> QED
        BY <3>1, <3>2, <4>1, <4>2
    <3>4. CASE j # k
      <4>1. received'[j] = received[j] /\ resent'[j] = resent[j]
        BY <1>1, <3>4, OutboxTypes
      <4>2. In(p, j) = 0 /\ In(p, j)' = 0
        BY <1>6, <1>8, <3>4 DEF In
      <4> QED
        BY <3>1, <3>2, <4>1, <4>2
    <3> QED
      BY <3>3, <3>4
  <2> QED
    BY <1>6, <1>7, <2>1, OutboxTypes, OneSends
<1> QED
  BY <1>1, <1>5, <1>6, <1>7, <1>9, OutboxTypes, RestKeeps DEF outboxRows

(* A process that lets its job go may open it.                              *)
LEMMA GivesWay ==
  ASSUME NEW r \in Nat, NEW s \in Nat, NEW i \in {0, 1}, NEW o \in {0, 1}, NEW opened \in {0, 1},
         opened = 0 \/ i = 1 \/ o = 1
  PROVE  r + 0 + opened + s <= r + i + o + s
  OBVIOUS

(* The outcome is recorded: only a job whose sending was refused may be    *)
(* claimed again.                                                          *)
LEMMA RecordKeeps ==
  ASSUME OutboxInv, NEW p \in Processes, NEW k \in JobKeys,
         NEW status \in {"failed", "delivered", "dead letter"},
         outbox' \in JobRows, outbox'[k].status = status,
         \A j \in JobKeys \ {k} : outbox'[j] = outbox[j],
         status = "failed" => p \in Working(k),
         Released(p),
         digest' \in [Digests -> {"none", "open", "queued", "delivered"}],
         UNCHANGED <<rules, event, appended, windowOver, matcher, scheduler, outboxSeen>>
  PROVE  OutboxInv'
<1>1. \A j \in JobKeys : outbox[j].status # "none" => outbox'[j].status # "none"
  OBVIOUS
<1>2. /\ sender' \in [Processes -> Sendings \cup {Nobody}]
      /\ \A q \in Processes \ {p} : sender'[q] = sender[q]
      /\ \A j : p \notin Working(j)'
  BY OutboxTypes, SenderBecomes DEF Released
<1>3. UNCHANGED <<received, resent, told, unmatched>>
  BY DEF outboxSeen
<1>4. SendsAreAsked'
  <2>1. ASSUME NEW j \in JobKeys
        PROVE  received'[j] + In(p, j)' + Open(j)' + resent[j]
                 <= received[j] + In(p, j) + Open(j) + resent'[j]
    <3>1. /\ received'[j] = received[j] /\ resent'[j] = resent[j]
          /\ received[j] \in Nat /\ resent[j] \in Nat
      BY <1>3, OutboxTypes
    <3>2. In(p, j)' = 0 /\ In(p, j) \in {0, 1} /\ Open(j) \in {0, 1} /\ Open(j)' \in {0, 1}
      BY <1>2 DEF In, Open
    <3>3. Open(j)' = 0 \/ In(p, j) = 1 \/ Open(j) = 1
      <4>1. j # k => Open(j)' = Open(j)
        BY DEF Open
      <4>2. j = k /\ status = "failed" => In(p, j) = 1 /\ Open(j)' = 1
        BY DEF In, Open
      <4>3. j = k /\ status # "failed" => Open(j)' = 0
        BY DEF Open
      <4> QED
        BY <3>2, <4>1, <4>2, <4>3
    <3>4. received[j] + 0 + Open(j)' + resent[j] <= received[j] + In(p, j) + Open(j) + resent[j]
      BY <3>1, <3>2, <3>3, GivesWay
    <3> QED
      BY <3>1, <3>2, <3>4
  <2> QED
    BY <1>2, <1>3, <2>1, OutboxTypes, OneSends
<1> QED
  BY <1>1, <1>2, <1>3, <1>4, OutboxTypes, RestKeeps

LEMMA JobSet ==
  ASSUME outbox \in JobRows, NEW k \in JobKeys,
         NEW status \in {"failed", "delivered", "dead letter"}, NEW attempts \in Nat,
         outbox' = [outbox EXCEPT ![k] = [status |-> status, attempts |-> attempts]]
  PROVE  /\ outbox' \in JobRows /\ outbox'[k].status = status
         /\ \A j \in JobKeys \ {k} : outbox'[j] = outbox[j]
<1> DEFINE job == [status |-> status, attempts |-> attempts]
<1>1. /\ job \in [status : {"none", "pending", "leased", "failed", "delivered", "dead letter"},
                   attempts : Nat]
      /\ job.status = status
  OBVIOUS
<1>2. outbox' = [outbox EXCEPT ![k] = job]
  OBVIOUS
<1> HIDE DEF job
<1> QED
  BY <1>1, <1>2 DEF JobRows

LEMMA OutcomeKeeps ==
  ASSUME OutboxInv, NEW p \in Processes, RecordDelivered(p) \/ FailQueueJob(p)
  PROVE  OutboxInv'
<1> DEFINE k == sender[p].job
           n == outbox[k].attempts + 1
<1>1. sender[p] # Nobody
  BY DEF RecordDelivered, FailQueueJob, Holds
<1>2. k \in JobKeys /\ n \in Nat
  <2>1. k \in JobKeys
    BY <1>1, OutboxTypes, OutboxRecords
  <2> HIDE DEF k
  <2>2. outbox[k].attempts \in Nat
    BY <2>1, OutboxTypes DEF JobRows
  <2> QED
    BY <2>1, <2>2
<1>3. CASE RecordDelivered(p)
  <2>1. /\ outbox' = [outbox EXCEPT ![k] = [status |-> "delivered", attempts |-> n]]
        /\ digest' = IF k[2] \in Digests THEN [digest EXCEPT ![k[2]] = "delivered"] ELSE digest
        /\ Released(p)
        /\ UNCHANGED <<rules, event, appended, windowOver, matcher, scheduler, outboxSeen>>
    BY <1>3 DEF RecordDelivered
  <2> HIDE DEF k, n
  <2>2. digest' \in [Digests -> {"none", "open", "queued", "delivered"}]
    BY <2>1, OutboxTypes
  <2>3. /\ outbox' \in JobRows /\ outbox'[k].status = "delivered"
        /\ \A j \in JobKeys \ {k} : outbox'[j] = outbox[j]
    BY <1>2, <2>1, OutboxTypes, JobSet
  <2> QED
    BY <1>2, <2>1, <2>2, <2>3, RecordKeeps
<1>4. CASE FailQueueJob(p)
  <2> DEFINE status == IF sender[p].attempts + 1 >= MaxAttempts THEN "dead letter" ELSE "failed"
  <2>1. /\ outbox' = [outbox EXCEPT ![k] = [status |-> status, attempts |-> n]]
        /\ Released(p)
        /\ UNCHANGED <<rules, event, digest, appended, windowOver, matcher, scheduler, outboxSeen>>
    BY <1>4 DEF FailQueueJob
  <2>2. p \in Working(k)
    BY <1>4 DEF FailQueueJob, Holds, Working
  <2>3. status \in {"failed", "delivered", "dead letter"}
    OBVIOUS
  <2> HIDE DEF k, n, status
  <2>4. /\ outbox' \in JobRows /\ outbox'[k].status = status
        /\ \A j \in JobKeys \ {k} : outbox'[j] = outbox[j]
    BY <1>2, <2>1, <2>3, OutboxTypes, JobSet
  <2> QED
    BY <1>2, <2>1, <2>2, <2>3, <2>4, OutboxTypes, RecordKeeps
<1> QED
  BY <1>3, <1>4

(* Steps that let a job go, or take one up without claiming it.            *)
LEMMA LeavesKeep ==
  ASSUME OutboxInv, NEW p \in Processes,
         \/ \E k \in JobKeys : SelectDue(p, k)
         \/ DeliveryError(p) \/ ProcessDies(p)
  PROVE  OutboxInv'
<1>1. ASSUME NEW k \in JobKeys, SelectDue(p, k) PROVE OutboxInv'
  <2> DEFINE s == [job |-> k, step |-> "selected"]
  <2>1. s \in Sendings /\ s.step \notin {"leased", "refused"}
    BY DEF Sendings
  <2>2. /\ sender' = [sender EXCEPT ![p] = s]
        /\ UNCHANGED <<outboxRows, matcher, scheduler, outboxSeen>>
    BY <1>1 DEF SelectDue
  <2> HIDE DEF s
  <2> QED
    BY <2>1, <2>2, OutboxTypes, GivenUp
<1>2. CASE DeliveryError(p)
  BY <1>2, OutboxTypes, GivenUp DEF DeliveryError, Released
<1>3. CASE ProcessDies(p)
  <2>1. /\ matcher' = [matcher EXCEPT ![p] = Nobody]
        /\ scheduler' = [scheduler EXCEPT ![p] = Nobody]
        /\ sender' = [sender EXCEPT ![p] = Nobody]
        /\ UNCHANGED <<outboxRows, outboxSeen>>
    BY <1>3 DEF ProcessDies, Released
  <2>2. /\ matcher' \in [Processes -> Matches \cup {Nobody}]
        /\ scheduler' \in [Processes -> Digests \cup {Nobody}]
        /\ \A q \in Processes : matcher'[q] # Nobody => matcher'[q] = matcher[q]
    BY <2>1, OutboxTypes
  <2> QED
    BY <2>1, <2>2, GivenUp
<1> QED
  BY <1>1, <1>2, <1>3

LEMMA RetryKeeps ==
  ASSUME OutboxInv, NEW k \in JobKeys, RetryQueueJob(k)
  PROVE  OutboxInv'
<1> DEFINE job == [status |-> "pending", attempts |-> 0]
<1>1. /\ outbox' = [outbox EXCEPT ![k] = job]
      /\ resent' = [resent EXCEPT ![k] = resent[k] + 1]
      /\ UNCHANGED <<rules, event, digest, appended, windowOver, outboxWork, received, told,
                     unmatched>>
  BY DEF RetryQueueJob
<1>2. /\ job \in [status : {"none", "pending", "leased", "failed", "delivered", "dead letter"},
                   attempts : Nat]
      /\ job.status = "pending"
  OBVIOUS
<1> HIDE DEF job
<1>3. /\ outbox' \in JobRows /\ outbox'[k].status = "pending"
      /\ \A j \in JobKeys \ {k} : outbox'[j] = outbox[j]
      /\ \A j \in JobKeys : outbox[j].status # "none" => outbox'[j].status # "none"
  BY <1>1, <1>2, OutboxTypes DEF JobRows
<1>4. /\ resent' \in [JobKeys -> Nat] /\ resent'[k] = resent[k] + 1
      /\ \A j \in JobKeys \ {k} : resent'[j] = resent[j]
  BY <1>1, OutboxTypes
<1>5. SendsAreAsked'
  <2> SUFFICES ASSUME NEW j \in JobKeys
               PROVE  received'[j] + Cardinality(Working(j)') + Open(j)' <= 1 + resent'[j]
    BY DEF SendsAreAsked
  <2>1. received[j] + Cardinality(Working(j)) + Open(j) <= 1 + resent[j]
    BY OutboxTypes DEF SendsAreAsked
  <2>2. received'[j] = received[j] /\ received[j] \in Nat /\ resent[j] \in Nat
    BY <1>1, OutboxTypes
  <2>3. Working(j)' = Working(j)
    BY <1>1 DEF Working, outboxWork
  <2>4. Cardinality(Working(j)) \in Nat
    BY WorkingFinite
  <2>5. CASE j = k
    <3>1. Open(j) \in Nat /\ Open(j)' = 1 /\ resent'[j] = resent[j] + 1
      BY <1>3, <1>4, <2>5 DEF Open
    <3> QED
      BY <2>1, <2>2, <2>3, <2>4, <3>1
  <2>6. CASE j # k
    <3>1. Open(j) \in Nat /\ Open(j)' = Open(j) /\ resent'[j] = resent[j]
      BY <1>3, <1>4, <2>6 DEF Open
    <3> QED
      BY <2>1, <2>2, <2>3, <2>4, <3>1
  <2> QED
    BY <2>5, <2>6
<1> QED
  BY <1>1, <1>3, <1>4, <1>5, OutboxTypes, RestKeeps DEF outboxWork

-----------------------------------------------------------------------------
LEMMA OutboxKept == OutboxInv /\ [OutboxNext]_outboxVars => OutboxInv'
<1> SUFFICES ASSUME OutboxInv, [OutboxNext]_outboxVars PROVE OutboxInv'
  OBVIOUS
<1>1. CASE WindowEnds \/ \E e \in Events : PublishEvent(e)
  BY <1>1, PublishKeeps
<1>2. ASSUME NEW p \in Processes,
             Matching(p) \/ \E t \in Instant \cup Digests : MatchFails(p, t)
      PROVE  OutboxInv'
  BY <1>2, MatcherKeeps
<1>3. ASSUME NEW p \in Processes, QueueingDigests(p) PROVE OutboxInv'
  BY <1>3, SchedulerKeeps
<1>4. ASSUME NEW p \in Processes, Delivering(p) PROVE OutboxInv'
  BY <1>4, ClaimKeeps, SendKeeps, OutcomeKeeps, LeavesKeep DEF Delivering
<1>5. ASSUME NEW p \in Processes,
             SendToChannel(p, TRUE, FALSE) \/ DeliveryError(p) \/ ProcessDies(p)
      PROVE  OutboxInv'
  BY <1>5, SendKeeps, LeavesKeep
<1>6. ASSUME NEW k \in JobKeys, RetryQueueJob(k) PROVE OutboxInv'
  BY <1>6, RetryKeeps
<1>7. CASE UNCHANGED outboxVars
  <2>1. UNCHANGED <<outboxRows, outboxWork, outboxSeen>>
    BY <1>7 DEF outboxVars
  <2>2. SendsAreAsked'
    BY <2>1, OutboxTypes, JobsUntouched DEF outboxRows, outboxWork, outboxSeen
  <2> QED
    BY <2>1, <2>2, OutboxTypes, RestKeeps DEF outboxRows, outboxWork, outboxSeen
<1> QED
  BY <1>1, <1>2, <1>3, <1>4, <1>5, <1>6, <1>7 DEF OutboxNext

LEMMA InvIsSound == OutboxInv => OutboxIsSound
<1> SUFFICES ASSUME OutboxInv PROVE OutboxIsSound
  OBVIOUS
<1>1. SentOnce
  <2> SUFFICES ASSUME NEW k \in JobKeys PROVE received[k] <= 1 + resent[k]
    BY DEF SentOnce
  <2>1. received[k] \in Nat /\ resent[k] \in Nat /\ Cardinality(Working(k)) \in Nat
    BY OutboxTypes, WorkingFinite
  <2>2. Open(k) \in Nat
    BY DEF Open
  <2>3. received[k] + Cardinality(Working(k)) + Open(k) <= 1 + resent[k]
    BY OutboxTypes DEF SendsAreAsked
  <2> QED
    BY <2>1, <2>2, <2>3
<1> QED
  BY <1>1 DEF OutboxInv, OutboxIsSound

(* However many processes match an event and select its jobs, however      *)
(* often one of them dies, a channel gets a message once for every time it *)
(* was asked again, and an event counts as matched only when its jobs are  *)
(* queued or their failure is known (notifications/queue.go).              *)
THEOREM OutboxStaysSound == OutboxSpec => []OutboxIsSound
<1>1. OutboxSpec => []OutboxInv
  BY OutboxStarts, OutboxKept, PTL DEF OutboxSpec
<1> QED
  BY <1>1, InvIsSound, PTL
=============================================================================
