----------------------------- MODULE NewScanForm -----------------------------
(***************************************************************************)
(* The form for a new scan (app/(app)/scans/new/page.tsx): the source of   *)
(* the image, the registry that has it, and for an Artifactory registry    *)
(* the repository.  The registries depend on the workspace and are loaded  *)
(* again when it changes; the repositories of an Artifactory registry are  *)
(* loaded when it is selected.                                             *)
(*                                                                         *)
(* Names of images, the platform and the policy of the organization are    *)
(* left out: they do not touch the fields modelled here.                   *)
(***************************************************************************)
EXTENDS BrowserTab, Naturals

CONSTANTS
    Registries,
    XrayRegistries,     \* those of them that scan with Xray
    DefaultRegistries,  \* those marked as the default of their workspace
    RegistriesOf,       \* workspace -> its registries
    Nothing,            \* an empty field
    MaxScopes,          \* changes of the workspace
    MaxRefusals         \* requests of the form that fail

Workspaces == DOMAIN RegistriesOf
Sources    == {"public", "private_registry", "artifactory_xray", "local_archive"}

(* What the repository field holds of a registry. *)
Repositories == [of : XrayRegistries, how : {"default", "entered"}]

ASSUME FormConstants ==
    /\ XrayRegistries \subseteq Registries /\ DefaultRegistries \subseteq Registries
    /\ \A w \in Workspaces : RegistriesOf[w] \subseteq Registries
    /\ Nothing \notin Registries \cup Sources \cup Repositories

VARIABLES
    formScope,
    trivyEnabled,       \* whether the deployment scans with Trivy
    registriesLoad,     \* "asked" (an older load is dropped), "arrived" or "failed"
    capabilitiesLoading,
    registries,         \* the registries the form knows
    enableTrivy,        \* what it takes trivyEnabled for
    scanSource,
    chosenSource,       \* sourceChosenManually: the source the user chose last
    detected,           \* detectedRegistryName is set
    registryId,
    xrayRepository,     \* the repository and the registry it is from, or Nothing
    manualEntry,        \* useManualXrayRepository
    repositoryLists,    \* XrayRegistries -> "none", "list" or "error"
    repositoriesAsked,  \* registries whose repositories are being read
    repositoriesLoading,
    listEffectDue,      \* the effect of the repositories has to run; it is deferred by a
                        \* microtask only, so it runs before the next event of the user
    submitted,          \* the last request to create scans
    formScopeChanges, refusals

sourceVars     == <<scanSource, chosenSource, detected>>
xrayVars       == <<xrayRepository, manualEntry, repositoryLists, repositoriesAsked,
                    repositoriesLoading>>
loadVars       == <<formScope, trivyEnabled, registriesLoad, capabilitiesLoading, registries,
                    enableTrivy>>
formVars       == <<route, loadVars, sourceVars, registryId, xrayVars, listEffectDue, submitted,
                    formScopeChanges, refusals>>

Private == IF enableTrivy THEN registries \ XrayRegistries ELSE {}
Xray    == registries \cap XrayRegistries

(* selectedRegistryIsXray, and which *)
SelectedXray ==
    IF scanSource = "artifactory_xray" /\ registryId \in Xray THEN registryId ELSE Nothing

Available(source) ==
    CASE source = "private_registry" -> Private # {}
      [] source = "artifactory_xray" -> Xray # {}
      [] OTHER                       -> enableTrivy

(* The effect depends on these. *)
EffectInput == <<SelectedXray, registries, repositoryLists, repositoriesLoading>>
NoteEffect  == listEffectDue' = (listEffectDue \/ EffectInput' # EffectInput)

FormInit ==
    /\ formScope \in Workspaces /\ trivyEnabled \in BOOLEAN
    /\ registriesLoad = "asked" /\ capabilitiesLoading = TRUE
    /\ registries = {} /\ enableTrivy = TRUE
    /\ scanSource = Nothing /\ chosenSource = Nothing /\ detected = FALSE
    /\ registryId = Nothing
    /\ xrayRepository = Nothing /\ manualEntry = FALSE
    /\ repositoryLists = [r \in XrayRegistries |-> "none"]
    /\ repositoriesAsked = {} /\ repositoriesLoading = Nothing
    /\ listEffectDue = FALSE
    /\ submitted = NoRequest
    /\ formScopeChanges = 0 /\ refusals = 0

-----------------------------------------------------------------------------
(* Loading the registries *)

RegistriesArrive ==
    /\ registriesLoad = "asked"
    /\ registriesLoad' = "arrived" /\ capabilitiesLoading' = FALSE
    /\ registries' = RegistriesOf[formScope] /\ enableTrivy' = trivyEnabled
    /\ \/ registryId # Nothing /\ UNCHANGED registryId
       \/ registryId = Nothing /\ registryId' \in registries' \cap DefaultRegistries
       \/ registries' \cap DefaultRegistries = {} /\ UNCHANGED registryId
    /\ listEffectDue' = TRUE
    /\ UNCHANGED <<formScope, trivyEnabled, sourceVars, xrayVars, submitted, formScopeChanges,
                   refusals>>

RegistriesFail ==
    /\ registriesLoad = "asked" /\ refusals < MaxRefusals
    /\ registriesLoad' = "failed" /\ capabilitiesLoading' = FALSE
    /\ refusals' = refusals + 1
    /\ UNCHANGED <<formScope, trivyEnabled, registries, enableTrivy, sourceVars, registryId,
                   xrayVars, listEffectDue, submitted, formScopeChanges>>

(* After a failure the user may ask again. *)
RetryRegistries ==
    /\ ~ listEffectDue
    /\ registriesLoad = "failed"
    /\ registriesLoad' = "asked" /\ capabilitiesLoading' = TRUE
    /\ UNCHANGED <<formScope, trivyEnabled, registries, enableTrivy, sourceVars, registryId,
                   xrayVars, listEffectDue, submitted, formScopeChanges, refusals>>

ChangeFormScope(scope) ==
    /\ ~ listEffectDue
    /\ scope # formScope /\ formScopeChanges < MaxScopes
    /\ formScope' = scope /\ registriesLoad' = "asked"
    /\ formScopeChanges' = formScopeChanges + 1
    /\ UNCHANGED <<trivyEnabled, capabilitiesLoading, registries, enableTrivy, sourceVars,
                   registryId, xrayVars, listEffectDue, submitted, refusals>>

-----------------------------------------------------------------------------
(* The source *)

(* The registry selected now, or a default one, or the first. *)
OfKind(set) ==
    IF registryId \in set THEN {registryId}
    ELSE IF set \cap DefaultRegistries # {} THEN set \cap DefaultRegistries ELSE set

ProposedRegistries(source) ==
    LET set == CASE source = "private_registry" -> OfKind(Private)
                 [] source = "artifactory_xray" -> OfKind(Xray)
                 [] OTHER                       -> {}
    IN  IF set = {} THEN {Nothing} ELSE set

SelectScanSource(source) ==
    /\ scanSource' = source
    /\ registryId' \in ProposedRegistries(source)
    /\ xrayRepository' = IF source = "artifactory_xray" /\ registryId' # Nothing
                         THEN [of |-> registryId', how |-> "default"] ELSE Nothing
    /\ manualEntry' = FALSE
    /\ UNCHANGED <<repositoryLists, repositoriesAsked, repositoriesLoading>>

(* Without a choice of the user the first source that is available *)
FirstAvailable ==
    CASE Available("public")           -> "public"
      [] Available("artifactory_xray") -> "artifactory_xray"
      [] OTHER                         -> Nothing

AutoSelect ==
    /\ ~ capabilitiesLoading /\ scanSource = Nothing /\ chosenSource = Nothing
    /\ FirstAvailable # Nothing
    /\ SelectScanSource(FirstAvailable)
    /\ UNCHANGED <<loadVars, chosenSource, detected, submitted, formScopeChanges, refusals>>
    /\ NoteEffect

ChooseScanSource(source) ==
    /\ ~ listEffectDue
    /\ Available(source)
    /\ chosenSource' = source /\ detected' = FALSE
    /\ SelectScanSource(source)
    /\ UNCHANGED <<loadVars, submitted, formScopeChanges, refusals>>
    /\ NoteEffect

(* The host in the name of the image may be that of a private registry. *)
FollowImage(match) ==
    \/ /\ match # Nothing
       /\ scanSource' = "private_registry" /\ registryId' = match /\ detected' = TRUE
       /\ UNCHANGED xrayVars
    \/ /\ match = Nothing /\ detected
       /\ detected' = FALSE
       /\ SelectScanSource("public")

HandleImageInput(match) ==
    /\ ~ listEffectDue
    /\ chosenSource = Nothing /\ scanSource # "local_archive"
    /\ FollowImage(match)
    /\ UNCHANGED <<loadVars, chosenSource, submitted, formScopeChanges, refusals>>
    /\ NoteEffect

(* The Select of the registry lists those of the kind the source asks for. *)
SelectRegistry(r) ==
    /\ ~ listEffectDue
    /\ \/ scanSource = "private_registry" /\ r \in Private
       \/ scanSource = "artifactory_xray" /\ r \in Xray
    /\ registryId' = r
    /\ UNCHANGED <<loadVars, sourceVars, xrayVars, submitted, formScopeChanges, refusals>>
    /\ NoteEffect

-----------------------------------------------------------------------------
(* The repositories of an Artifactory registry *)

KnownOrLoading(r) == repositoryLists[r] # "none" \/ repositoriesLoading = r

(* Mutant: the effect leaves before the field is set when it has nothing to load. *)
EffectLeavingFirst ==
    /\ listEffectDue
    /\ listEffectDue' = FALSE
    /\ IF SelectedXray = Nothing
       THEN /\ xrayRepository' = Nothing /\ manualEntry' = FALSE
            /\ UNCHANGED <<repositoriesAsked, repositoriesLoading>>
       ELSE IF KnownOrLoading(SelectedXray)
            THEN UNCHANGED <<xrayRepository, manualEntry, repositoriesAsked,
                             repositoriesLoading>>
            ELSE /\ xrayRepository' = [of |-> SelectedXray, how |-> "default"]
                 /\ manualEntry' = FALSE
                 /\ repositoriesLoading' = SelectedXray
                 /\ repositoriesAsked' = repositoriesAsked \cup {SelectedXray}
    /\ UNCHANGED <<loadVars, sourceVars, registryId, repositoryLists, submitted, formScopeChanges,
                   refusals>>

(* The field is set back on every run of the effect, and so when the list  *)
(* arrives; setting repositoriesLoading makes the effect run once more,    *)
(* which changes nothing.                                                  *)
RepositoriesEffect ==
    /\ listEffectDue
    /\ listEffectDue' = FALSE
    /\ manualEntry' = FALSE
    /\ xrayRepository' = IF SelectedXray = Nothing THEN Nothing
                         ELSE [of |-> SelectedXray, how |-> "default"]
    /\ IF SelectedXray = Nothing \/ KnownOrLoading(SelectedXray)
       THEN UNCHANGED <<repositoriesAsked, repositoriesLoading>>
       ELSE /\ repositoriesLoading' = SelectedXray
            /\ repositoriesAsked' = repositoriesAsked \cup {SelectedXray}
    /\ UNCHANGED <<loadVars, sourceVars, registryId, repositoryLists, submitted, formScopeChanges,
                   refusals>>

RepositoriesArrive(r, answer) ==
    /\ r \in repositoriesAsked
    /\ answer = "error" => refusals < MaxRefusals
    /\ repositoriesAsked' = repositoriesAsked \ {r}
    /\ repositoryLists' = [repositoryLists EXCEPT ![r] = answer]
    /\ repositoriesLoading' = IF repositoriesLoading = r THEN Nothing ELSE repositoriesLoading
    /\ refusals' = IF answer = "error" THEN refusals + 1 ELSE refusals
    /\ UNCHANGED <<loadVars, sourceVars, registryId, xrayRepository, manualEntry, submitted,
                   formScopeChanges>>
    /\ NoteEffect

(* Retry forgets the error; the effect then reads the list again. *)
RetryRepositories ==
    /\ ~ listEffectDue
    /\ SelectedXray # Nothing /\ repositoryLists[SelectedXray] = "error"
    /\ repositoryLists' = [repositoryLists EXCEPT ![SelectedXray] = "none"]
    /\ UNCHANGED <<loadVars, sourceVars, registryId, xrayRepository, manualEntry,
                   repositoriesAsked, repositoriesLoading, submitted, formScopeChanges, refusals>>
    /\ NoteEffect

(* The repository is picked from the list or typed. *)
EnterRepository ==
    /\ ~ listEffectDue
    /\ SelectedXray # Nothing
    /\ xrayRepository' = [of |-> SelectedXray, how |-> "entered"]
    /\ \/ manualEntry' = TRUE
       \/ repositoryLists[SelectedXray] = "list" /\ manualEntry' = FALSE
    /\ UNCHANGED <<loadVars, sourceVars, registryId, repositoryLists, repositoriesAsked,
                   repositoriesLoading, listEffectDue, submitted, formScopeChanges, refusals>>

-----------------------------------------------------------------------------
(* validateCreateForm and handleCreate, which reads the workspace anew *)

MayCreate ==
    /\ scanSource # Nothing /\ Available(scanSource)
    /\ scanSource \in {"private_registry", "artifactory_xray"} => registryId # Nothing

HandleCreate ==
    /\ ~ listEffectDue
    /\ MayCreate
    /\ submitted' = [scope      |-> formScope,
                     source     |-> scanSource,
                     registry   |-> IF scanSource \in {"public", "local_archive"} THEN Nothing
                                    ELSE registryId,
                     repository |-> IF SelectedXray = Nothing THEN Nothing ELSE xrayRepository]
    /\ UNCHANGED <<loadVars, sourceVars, registryId, xrayVars, listEffectDue, formScopeChanges,
                   refusals>>

FormNext ==
    /\ On("new scan")
    /\ \/ RegistriesArrive \/ RegistriesFail \/ RetryRegistries
       \/ \E scope \in Workspaces : ChangeFormScope(scope)
       \/ AutoSelect
       \/ \E source \in Sources : ChooseScanSource(source)
       \/ \E match \in Private \cup {Nothing} : HandleImageInput(match)
       \/ \E r \in registries : SelectRegistry(r)
       \/ RepositoriesEffect \/ RetryRepositories \/ EnterRepository
       \/ \E r \in XrayRegistries : \E answer \in {"list", "error"} : RepositoriesArrive(r, answer)
       \/ HandleCreate

(* Effects run and requests are answered. *)
FormFairness ==
    /\ WF_formVars(On("new scan") /\ RepositoriesEffect)
    /\ WF_formVars(On("new scan") /\ \E r \in XrayRegistries : RepositoriesArrive(r, "list"))

FormSpec == route = "new scan" /\ FormInit /\ [][FormNext]_formVars

-----------------------------------------------------------------------------
(* Properties *)

(* Type invariant; a registry whose list is being shown as loading is      *)
(* being read.                                                             *)
FormTypeOK ==
    /\ scanSource \in Sources \cup {Nothing} /\ chosenSource \in Sources \cup {Nothing}
    /\ registryId \in Registries \cup {Nothing} /\ registries \subseteq Registries
    /\ repositoryLists \in [XrayRegistries -> {"none", "list", "error"}]
    /\ repositoriesLoading \in repositoriesAsked \cup {Nothing}
    /\ scanSource = Nothing => submitted = NoRequest

(* A request never names a registry of the wrong kind for its source,      *)
(* whatever was loaded, detected, selected and reloaded before.            *)
RegistryFitsSource ==
    submitted # NoRequest =>
        /\ submitted.source = "private_registry" => submitted.registry \in Registries \ XrayRegistries
        /\ submitted.source = "artifactory_xray" => submitted.registry \in XrayRegistries

(* The repository of a request is one of the registry of the request. *)
RepositoryFitsRegistry ==
    submitted # NoRequest /\ submitted.repository # Nothing =>
        submitted.repository.of = submitted.registry

(* The source a user has chosen is never changed by what is loaded or      *)
(* typed later.                                                            *)
ManualChoiceKept == chosenSource # Nothing => scanSource = chosenSource

(* The choices of the form fit together whenever it is submitted, and what *)
(* the user has chosen stays, whatever answers arrive in whatever order.   *)
ChoicesFit == RegistryFitsSource /\ RepositoryFitsRegistry /\ ManualChoiceKept
=============================================================================
