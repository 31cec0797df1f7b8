----------------------------- MODULE FindingsList -----------------------------
(***************************************************************************)
(* The findings table of one scan (scans/[id]/page.tsx): what the user has *)
(* chosen to see, the view settings the server keeps for the user, and the *)
(* requests that fill the table.                                           *)
(*                                                                         *)
(* A choice is abstracted to three parts: a package filter, which is typed *)
(* and applied by a timer; the settings a saved view consists of; and the  *)
(* page.  Comments and suppressions change the rows: "edition" counts the  *)
(* changes the server has stored.                                          *)
(***************************************************************************)
EXTENDS BrowserTab, Naturals, FiniteSets

CONSTANTS
    Inputs, NoInput,            \* values of the package filter
    Settings, DefaultSettings,  \* values of the saved settings
    Filtered,                   \* the settings that are applied by the page: it loads
                                \* every page of the server's list
    Pages, ServerPages,
    MaxChoices, MaxChanges, MaxRefreshes, MaxDrops

VARIABLES
    endedShown,             \* the scan has ended (and is loaded)
    input, filter, typing,  \* pkgInput, pkgFilter, the debounce timer runs
    settings, page,
    ready, initialized,     \* viewSettingsReady, vulnerabilityViewInitializedRef
    preference,             \* request for the saved settings, none or its phase
    saved,                  \* server: the saved settings
    saving,                 \* saveVulnerabilityViewPreference under way
    edition,                \* server
    request,                \* vulnerabilityRequestRef
    vulnsEffectDue,         \* the effect of a change has not run loadVulns yet
    rows,                   \* what is shown
    failed,                 \* vulnError
    changes,                \* handlers that add a comment, suppress ...
    choices, ownChanges, refreshes, drops

choiceVars == <<input, filter, typing, settings, page>>
viewVars   == <<ready, initialized, preference, saved, saving>>
listVars   == <<request, vulnsEffectDue, rows, failed>>
listBudget == <<choices, ownChanges, refreshes, drops>>
findingsVars == <<route, endedShown, choiceVars, viewVars, edition, listVars, changes, listBudget>>

View == [filter |-> filter, settings |-> settings, page |-> page]
ViewType == [filter : Inputs, settings : Settings, page : Pages]

(* A load of the table, for the effect of a render or for a handler, and a *)
(* handler that changes a finding.                                         *)
TableLoads == [view : ViewType, by : {"effect", "handler"}, pages : Nat, edition : Nat]
FindingChanges == [view : ViewType, phase : {"sent", "stored"}, edition : Nat]

ASSUME FindingsConstants ==
    /\ NoInput \in Inputs /\ DefaultSettings \in Settings
    /\ 1 \in Pages /\ ServerPages \in Nat
    /\ NoRequest \notin TableLoads

EmptyTable == [view |-> View, by |-> "none", edition |-> 0]
Filled == rows.by # "none"

FindingsInit ==
    /\ endedShown = FALSE
    /\ input = NoInput /\ filter = NoInput /\ typing = FALSE
    /\ settings = DefaultSettings /\ page = 1
    /\ ready = FALSE /\ initialized = FALSE /\ preference = "none"
    /\ saved \in Settings /\ saving = NoRequest
    /\ edition = 0
    /\ request = NoRequest /\ vulnsEffectDue = FALSE /\ rows = EmptyTable /\ failed = FALSE
    /\ changes = {}
    /\ choices = 0 /\ ownChanges = 0 /\ refreshes = 0 /\ drops = 0

-----------------------------------------------------------------------------
(* loadVulns *)

(* Mutant: a load under way is left to finish. *)
ReloadLater == UNCHANGED request /\ vulnsEffectDue' = (vulnsEffectDue \/ request = NoRequest)

(* The clean-up of the effect and its next run: any change of what the     *)
(* effect depends on drops the request under way and schedules a new one.  *)
Reload == request' = NoRequest /\ vulnsEffectDue' = TRUE

(* loadVulns for a view: the one of this render, or of the render in which *)
(* a handler was created.                                                  *)
LoadVulns(view, by) ==
    /\ request' = IF endedShown /\ ready
                  THEN [view |-> view, by |-> by, pages |-> 0, edition |-> edition]
                  ELSE NoRequest
    /\ failed' = IF endedShown /\ ready THEN FALSE ELSE failed

RunVulnsEffect ==
    /\ vulnsEffectDue
    /\ vulnsEffectDue' = FALSE
    /\ LoadVulns(View, "effect")
    /\ UNCHANGED <<endedShown, choiceVars, viewVars, edition, rows, changes, listBudget>>

PagesToLoad(view) == IF view.settings \in Filtered THEN ServerPages ELSE 1

(* The server reads its rows when it answers. *)
PageArrives ==
    /\ request # NoRequest /\ request.pages < PagesToLoad(request.view)
    /\ request' = [request EXCEPT !.pages = @ + 1,
                                  !.edition = IF request.pages = 0 THEN edition ELSE @]
    /\ UNCHANGED <<endedShown, choiceVars, viewVars, edition, vulnsEffectDue, rows, failed, changes,
                   listBudget>>

ShowRows ==
    /\ request # NoRequest /\ request.pages = PagesToLoad(request.view)
    /\ rows' = [view |-> request.view, by |-> request.by, edition |-> request.edition]
    /\ request' = NoRequest
    /\ UNCHANGED <<endedShown, choiceVars, viewVars, edition, vulnsEffectDue, failed,
                   changes, listBudget>>

(* The rows of the last answer stay under the error. *)
VulnsFail ==
    /\ request # NoRequest /\ drops < MaxDrops
    /\ drops' = drops + 1
    /\ failed' = TRUE /\ request' = NoRequest
    /\ UNCHANGED <<endedShown, choiceVars, viewVars, edition, vulnsEffectDue, rows, changes, choices,
                   ownChanges, refreshes>>

-----------------------------------------------------------------------------
(* The scan and the saved settings *)

(* Mutant: every refresh of an ended scan waits for settings, but only the *)
(* first one asks for them.                                                *)
InitializeViewWaiting(over) ==
    IF ~over THEN ready' = TRUE /\ preference' = "none"
    ELSE ready' = FALSE /\ preference' = IF initialized THEN "none" ELSE "sent"

(* The effect that initializes the view runs for every new scan object; a  *)
(* request of its last run is forgotten.                                   *)
InitializeView(over) ==
    IF ~over THEN ready' = TRUE /\ preference' = "none"
    ELSE IF initialized THEN preference' = "none" /\ UNCHANGED ready
    ELSE ready' = FALSE /\ preference' = "sent"

(* setScan: a poll, the end of the scan, a tag, a share. *)
ScanRefreshed(over) ==
    /\ endedShown => over
    /\ over = endedShown => refreshes < MaxRefreshes
    /\ endedShown' = over
    /\ InitializeView(over)
    /\ Reload
    /\ refreshes' = IF over = endedShown THEN refreshes + 1 ELSE refreshes
    /\ UNCHANGED <<choiceVars, initialized, saved, saving, edition, rows, failed, changes,
                   choices, ownChanges, drops>>

(* applyVulnerabilityViewPreference; the defaults if the request fails.    *)
ApplyPreference(view) == settings' = view /\ page' = 1

PreferenceArrives ==
    /\ preference = "sent"
    /\ \/ ApplyPreference(saved) /\ UNCHANGED drops
       \/ /\ drops < MaxDrops /\ drops' = drops + 1
          /\ UNCHANGED <<settings, page>>
    /\ initialized' = TRUE /\ ready' = TRUE /\ preference' = "none"
    /\ Reload
    /\ UNCHANGED <<endedShown, input, filter, typing, saved, saving, edition, rows, failed, changes,
                   choices, ownChanges, refreshes>>

(* saveVulnerabilityViewPreference: the choice may change until the answer *)
(* comes; the settings that were sent are then applied.                    *)
SaveView ==
    /\ ready /\ endedShown /\ saving = NoRequest /\ settings # saved
    /\ choices < MaxChoices
    /\ saving' = settings /\ choices' = choices + 1
    /\ UNCHANGED <<endedShown, choiceVars, ready, initialized, preference, saved, edition, listVars,
                   changes, ownChanges, refreshes, drops>>

ViewSaved ==
    /\ saving # NoRequest
    /\ saved' = saving /\ saving' = NoRequest
    /\ ApplyPreference(saving)
    /\ Reload
    /\ UNCHANGED <<endedShown, input, filter, typing, ready, initialized, preference, edition, rows,
                   failed, changes, listBudget>>

-----------------------------------------------------------------------------
(* The user's choices *)

Choice ==
    /\ endedShown /\ ready /\ choices < MaxChoices
    /\ choices' = choices + 1
    /\ UNCHANGED <<endedShown, viewVars, edition, rows, failed, changes, ownChanges,
                   refreshes, drops>>

Type(text) ==
    /\ Choice /\ text # input
    /\ input' = text /\ typing' = TRUE
    /\ UNCHANGED <<filter, settings, page, request, vulnsEffectDue>>

(* After 400 ms without a keystroke. *)
Debounced ==
    /\ typing
    /\ filter' = input /\ page' = 1 /\ typing' = FALSE
    /\ IF <<filter', page'>> = <<filter, page>>
       THEN UNCHANGED <<request, vulnsEffectDue>> ELSE Reload
    /\ UNCHANGED <<endedShown, input, settings, viewVars, edition, rows, failed, changes,
                   listBudget>>

ChooseSettings(view) ==
    /\ Choice /\ view # settings
    /\ settings' = view /\ page' = 1
    /\ Reload
    /\ UNCHANGED <<input, filter, typing>>

ChoosePage(n) ==
    /\ Choice /\ n # page
    /\ page' = n
    /\ Reload
    /\ UNCHANGED <<input, filter, typing, settings>>

(* clearVulnerabilityFilters; the timer starts again if the text changed.  *)
ClearFilters ==
    /\ Choice /\ <<input, filter, settings, page>> # <<NoInput, NoInput, DefaultSettings, 1>>
    /\ input' = NoInput /\ filter' = NoInput /\ settings' = DefaultSettings /\ page' = 1
    /\ typing' = (input # NoInput \/ typing)
    /\ IF <<filter, settings, page>> = <<NoInput, DefaultSettings, 1>>
       THEN UNCHANGED <<request, vulnsEffectDue>> ELSE Reload

-----------------------------------------------------------------------------
(* Comments and suppressions *)

(* The handler and its loadVulns belong to the render of the click. *)
ChangeFinding ==
    /\ endedShown /\ ready /\ Filled /\ ownChanges < MaxChanges
    /\ changes' = changes \cup {[view |-> View, phase |-> "sent", edition |-> 0]}
    /\ ownChanges' = ownChanges + 1
    /\ UNCHANGED <<endedShown, choiceVars, viewVars, edition, listVars, choices, refreshes,
                   drops>>

ChangeStored(c) ==
    /\ c.phase = "sent"
    /\ edition' = edition + 1
    /\ changes' = (changes \ {c}) \cup {[c EXCEPT !.phase = "stored", !.edition = edition + 1]}
    /\ UNCHANGED <<endedShown, choiceVars, viewVars, listVars, listBudget>>

(* Mutant: a load under way is thought to be good enough. *)
ChangeReturnsSharing(c) ==
    /\ c.phase = "stored"
    /\ changes' = changes \ {c}
    /\ IF request = NoRequest THEN LoadVulns(c.view, "handler") ELSE UNCHANGED <<request,
                                                                                 failed>>
    /\ UNCHANGED <<endedShown, choiceVars, viewVars, edition, vulnsEffectDue, rows,
                   listBudget>>

(* The loadVulns of the render of the click.  It decided on that render's  *)
(* endedShown and ready, which held then (ChangeFinding) and stay so.      *)
ChangeReturns(c) ==
    /\ c.phase = "stored"
    /\ changes' = changes \ {c}
    /\ LoadVulns(c.view, "handler")
    /\ UNCHANGED <<endedShown, choiceVars, viewVars, edition, vulnsEffectDue, rows,
                   listBudget>>

-----------------------------------------------------------------------------
Loading == RunVulnsEffect \/ PageArrives \/ ShowRows

FindingsNext ==
    /\ On("findings")
    /\ \/ Loading \/ VulnsFail
       \/ \E over \in BOOLEAN : ScanRefreshed(over)
       \/ PreferenceArrives \/ SaveView \/ ViewSaved
       \/ \E text \in Inputs : Type(text)
       \/ Debounced
       \/ \E view \in Settings : ChooseSettings(view)
       \/ \E n \in Pages : ChoosePage(n)
       \/ ClearFilters
       \/ ChangeFinding
       \/ \E c \in changes : ChangeStored(c) \/ ChangeReturns(c)

FindingsSpec == route = "findings" /\ FindingsInit /\ [][FindingsNext]_findingsVars

FindingsFairness ==
    /\ WF_findingsVars(On("findings") /\ Loading)
    /\ WF_findingsVars(On("findings") /\ PreferenceArrives)
    /\ WF_findingsVars(On("findings") /\ Debounced)

-----------------------------------------------------------------------------
(* Properties *)

Idle == endedShown /\ ready /\ request = NoRequest /\ ~vulnsEffectDue /\ ~failed

FindingsTypeOK ==
    /\ input \in Inputs /\ filter \in Inputs
    /\ ~typing => filter = input
    /\ settings \in Settings /\ saved \in Settings /\ page \in Pages
    /\ preference \in {"none", "sent"} /\ saving \in Settings \cup {NoRequest}
    /\ initialized => endedShown
    /\ request # NoRequest =>
         /\ endedShown /\ ready
         /\ request.view \in ViewType /\ request.pages \in 0 .. PagesToLoad(request.view)
    /\ Filled => rows.view \in ViewType /\ rows.edition <= edition

(* When nothing is under way the table shows what the user has chosen,     *)
(* however choices, refreshes of the scan and answers interleave: no       *)
(* answer to an older choice is the last to be shown.  (The load of a      *)
(* handler is for the choice at its click.)                                *)
TableMatchesChoice == Idle /\ rows.by = "effect" => rows.view = View

(* A comment or suppression the page knows to be stored is in the table    *)
(* once nothing is under way, also when its handler returned during        *)
(* another load or while the saved settings were loaded.                   *)
OwnChangesAreShown ==
    Idle /\ Filled /\ (\A c \in changes : c.phase = "sent") => rows.edition = edition

(* The table shows what the controls say and what the user has changed.    *)
TableIsRight == TableMatchesChoice /\ OwnChangesAreShown

(* The table of an ended scan is filled, or its error is shown, although   *)
(* every refresh of the scan cancels the request for the saved settings.   *)
TableIsFilled == endedShown ~> Filled \/ failed
=============================================================================
