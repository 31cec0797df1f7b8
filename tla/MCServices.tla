------------------------------ MODULE MCServices ------------------------------
(***************************************************************************)
(* The services around the scan workers, for TLC.  They share no state but *)
(* what the modules show of it, so a behaviour is one of one service.      *)
(***************************************************************************)
EXTENDS ScanMirror, NotificationOutbox, ScanGroupDeletion, WatchlistScheduler, XrayPermits,
        StepTimeline

CONSTANT Services

VARIABLE service

LocalSteps == <<"preparing_image", "scanning_image">>

(* The scheduler starts in several states, on its own only. *)
WatchParked == watchRow = "none" /\ watchItem = [enabled |-> TRUE, schedule |-> "hourly"]

Init ==
    /\ service \in Services
    /\ service = "watchlist" \/ WatchParked
    /\ service = "outbox" \/ rules = {"now"}
    /\ MirrorInit /\ OutboxInit /\ DeletionInit /\ WatchInit /\ PermitInit /\ StepInit

Next ==
    /\ UNCHANGED service
    /\ IF service = "mirror"    THEN MirrorNext   ELSE UNCHANGED scanMirrorVars
    /\ IF service = "outbox"    THEN OutboxNext   ELSE UNCHANGED outboxVars
    /\ IF service = "deletion"  THEN DeletionNext ELSE UNCHANGED deletionVars
    /\ IF service = "watchlist" THEN WatchNext    ELSE UNCHANGED watchVars
    /\ IF service = "xray"      THEN PermitNext   ELSE UNCHANGED permitVars
    /\ IF service = "steps"     THEN StepNext     ELSE UNCHANGED stepVars

vars == <<service, scanMirrorVars, outboxVars, deletionVars, watchVars, permitVars, stepVars>>

(* All of it on the service that takes steps: the loops of the others have *)
(* nothing to do.                                                          *)
FairSpec == Init /\ [][Next]_vars /\ MirrorFairness /\ OutboxFairness /\ PermitFairness
=============================================================================
