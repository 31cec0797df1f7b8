--------------------------- MODULE DeliveryHistory ---------------------------
(***************************************************************************)
(* The notification history of a workspace                                 *)
(* (components/notifications/notification-manager.tsx): a list that is     *)
(* loaded from its start after every change and grows by pages as the user *)
(* scrolls.  Pages are addressed by offset from the newest delivery, while *)
(* deliveries are being added in front.  Also the suggestions for the      *)
(* value of a condition, looked up as the user types.                      *)
(***************************************************************************)
EXTENDS BrowserTab, Naturals, Sequences, FiniteSets

CONSTANTS
    MaxDeliveries,
    DeliveryPageSize,
    MaxLoads,       \* loads of the start of the list under way at a time
    MaxLookups

PageAnswer  == [data : Seq(Nat), hasMore : BOOLEAN, next : Nat]
PageRequest == [offset : Nat, read : {FALSE}] \cup [read : {TRUE}, answer : PageAnswer]

ASSUME DeliveryConstants ==
    /\ MaxDeliveries \in Nat /\ DeliveryPageSize \in Nat \ {0}
    /\ NoRequest \notin PageRequest

VARIABLES
    deliveryCount,  \* deliveries logged, numbered from the oldest
    deliveries,     \* the list on the page
    hasMore, deliveryOffset,
    loadsUnderWay,  \* loads not read by the server yet: a number
    loadAnswers,    \* their answers
    morePage,       \* deliveriesLoadingRef: the offset asked for, its answer, or NoRequest
    overlapped,     \* a load was answered while another or a page was under way
    lookups,        \* lookups under way: their numbers, which stand for the queries too
    lookupNumber,   \* conditionLookupRequest
    suggestions     \* the lookup whose answer is shown, 0 if none, and whether one is loading

historyVars == <<deliveryCount, deliveries, hasMore, deliveryOffset, loadsUnderWay, loadAnswers,
                 morePage, overlapped>>
lookupVars  == <<lookups, lookupNumber, suggestions>>
deliveryVars == <<route, historyVars, lookupVars>>

SmallerOf(a, b) == IF a < b THEN a ELSE b

(* ListDeliveries: newest first, one page from an offset *)
Page(count, offset) ==
    LET length == IF offset >= count THEN 0 ELSE SmallerOf(DeliveryPageSize, count - offset)
    IN  [data    |-> [i \in 1..length |-> count + 1 - offset - i],
         hasMore |-> count > offset + DeliveryPageSize,
         next    |-> offset + length]

OnList(d) == \E i \in 1..Len(deliveries) : deliveries[i] = d

DeliveryInit ==
    /\ deliveryCount \in 0..MaxDeliveries
    /\ deliveries = <<>> /\ hasMore = FALSE /\ deliveryOffset = 0
    /\ loadsUnderWay = 1 /\ loadAnswers = {} /\ morePage = NoRequest
    /\ overlapped = FALSE
    /\ lookups = {} /\ lookupNumber = 0 /\ suggestions = [of |-> 0, loading |-> FALSE]

-----------------------------------------------------------------------------
Deliver ==
    /\ deliveryCount < MaxDeliveries
    /\ deliveryCount' = deliveryCount + 1
    /\ UNCHANGED <<deliveries, hasMore, deliveryOffset, loadsUnderWay, loadAnswers, morePage,
                   overlapped, lookupVars>>

LoadsPending == loadsUnderWay + Cardinality(loadAnswers)

(* Saving, deleting, testing and retrying end with a load. *)
Load ==
    /\ LoadsPending < MaxLoads
    /\ loadsUnderWay' = loadsUnderWay + 1
    /\ UNCHANGED <<deliveryCount, deliveries, hasMore, deliveryOffset, loadAnswers, morePage,
                   overlapped, lookupVars>>

LoadRead ==
    /\ loadsUnderWay > 0
    /\ loadsUnderWay' = loadsUnderWay - 1
    /\ loadAnswers' = loadAnswers \cup {Page(deliveryCount, 0)}
    /\ UNCHANGED <<deliveryCount, deliveries, hasMore, deliveryOffset, morePage, overlapped,
                   lookupVars>>

LoadArrives(answer) ==
    /\ answer \in loadAnswers
    /\ loadAnswers' = loadAnswers \ {answer}
    /\ deliveries' = answer.data /\ hasMore' = answer.hasMore /\ deliveryOffset' = answer.next
    /\ overlapped' = (overlapped \/ morePage # NoRequest \/ LoadsPending > 1)
    /\ UNCHANGED <<deliveryCount, loadsUnderWay, morePage, lookupVars>>

(* A load that fails leaves the list. *)
DeliveriesFail(answer) ==
    /\ answer \in loadAnswers
    /\ loadAnswers' = loadAnswers \ {answer}
    /\ UNCHANGED <<deliveryCount, deliveries, hasMore, deliveryOffset, loadsUnderWay, morePage,
                   overlapped, lookupVars>>

(* loadMoreDeliveries *)
LoadMore ==
    /\ hasMore /\ morePage = NoRequest
    /\ morePage' = [offset |-> deliveryOffset, read |-> FALSE]
    /\ UNCHANGED <<deliveryCount, deliveries, hasMore, deliveryOffset, loadsUnderWay, loadAnswers,
                   overlapped, lookupVars>>

MoreRead ==
    /\ morePage # NoRequest /\ ~ morePage.read
    /\ morePage' = [read |-> TRUE, answer |-> Page(deliveryCount, morePage.offset)]
    /\ UNCHANGED <<deliveryCount, deliveries, hasMore, deliveryOffset, loadsUnderWay, loadAnswers,
                   overlapped, lookupVars>>

(* Mutant: the page is appended as it is. *)
AppendedAll(answer) == deliveries \o answer.data

(* Without those the list has: the entry at each rank among the rest *)
Rank(kept, i) == Cardinality({k \in kept : k <= i})

Without(page) ==
    LET kept == {i \in 1..Len(page) : ~ OnList(page[i])} IN
    [j \in 1..Cardinality(kept) |-> page[CHOOSE i \in kept : Rank(kept, i) = j]]

Appended(answer) == deliveries \o Without(answer.data)

MoreArrives ==
    /\ morePage # NoRequest /\ morePage.read
    /\ deliveries' = Appended(morePage.answer)
    /\ hasMore' = morePage.answer.hasMore /\ deliveryOffset' = morePage.answer.next
    /\ morePage' = NoRequest
    /\ UNCHANGED <<deliveryCount, loadsUnderWay, loadAnswers, overlapped, lookupVars>>

MoreFails ==
    /\ morePage # NoRequest /\ morePage.read
    /\ morePage' = NoRequest
    /\ UNCHANGED <<deliveryCount, deliveries, hasMore, deliveryOffset, loadsUnderWay, loadAnswers,
                   overlapped, lookupVars>>

-----------------------------------------------------------------------------
(* loadConditionOptions *)

Lookup ==
    /\ lookupNumber < MaxLookups
    /\ lookupNumber' = lookupNumber + 1
    /\ lookups' = lookups \cup {lookupNumber'}
    /\ suggestions' = [suggestions EXCEPT !.loading = TRUE]
    /\ UNCHANGED historyVars

Latest(n) == n = lookupNumber

LookupArrives(n) ==
    /\ n \in lookups
    /\ lookups' = lookups \ {n}
    /\ suggestions' = IF Latest(n) THEN [of |-> n, loading |-> FALSE] ELSE suggestions
    /\ UNCHANGED <<historyVars, lookupNumber>>

LookupFails(n) ==
    /\ n \in lookups
    /\ lookups' = lookups \ {n}
    /\ suggestions' = IF Latest(n) THEN [suggestions EXCEPT !.loading = FALSE] ELSE suggestions
    /\ UNCHANGED <<historyVars, lookupNumber>>

DeliveryNext ==
    /\ On("notifications")
    /\ \/ Deliver \/ Load \/ LoadRead \/ LoadMore \/ MoreRead \/ MoreArrives \/ MoreFails
       \/ \E answer \in loadAnswers : LoadArrives(answer) \/ DeliveriesFail(answer)
       \/ Lookup
       \/ \E n \in lookups : LookupArrives(n) \/ LookupFails(n)

DeliverySpec == route = "notifications" /\ DeliveryInit /\ [][DeliveryNext]_deliveryVars

-----------------------------------------------------------------------------
(* Properties *)

(* Type invariant.  Lookups are numbered as they are made, and the field   *)
(* shows that one is loading exactly while the last one is under way.      *)
DeliveryTypeOK ==
    /\ deliveries \in Seq(1..deliveryCount) /\ hasMore \in BOOLEAN
    /\ deliveryOffset \in 0..deliveryCount
    /\ lookups \subseteq 1..lookupNumber
    /\ suggestions.of \in 0..lookupNumber
    /\ suggestions.loading <=> lookupNumber \in lookups

(* The history is whole although deliveries came in front of it while it   *)
(* was read by offset: from its first entry on no delivery is missing or   *)
(* listed twice, and when no more can be loaded it goes back to the        *)
(* oldest.  Three things take this away.  After more than a page of new    *)
(* deliveries the next page holds some of them, which are appended after   *)
(* older ones; a load that overlaps with another or with a page replaces   *)
(* the list that the page was to continue; and, left out here, someone     *)
(* else deletes a channel: ListDeliveries joins with the channels, so its  *)
(* deliveries vanish and the pages behind them move up.                    *)
HistoryIsWhole ==
    ~ overlapped /\ deliveries # <<>> /\ deliveryCount - deliveries[1] <= DeliveryPageSize =>
        /\ \A i \in 1..Len(deliveries) : deliveries[i] = deliveries[1] + 1 - i
        /\ hasMore \/ deliveries[Len(deliveries)] = 1
=============================================================================
