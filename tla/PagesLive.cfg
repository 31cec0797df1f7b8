SPECIFICATION FairSpec
CONSTANTS
    Routes = {"scan", "findings", "process center", "public", "repository", "repository runs", "new scan"}
    NoRequest = NoRequest

    Orgs = {"o1", "o2"} FirstOrg = "o1"
    MinTicks = 2 MaxTicks = 3 MaxEdits = 1 MaxLosses = 1

    Inputs = {"", "pkg"} NoInput = ""
    Settings = {"plain", "suppressed hidden"} DefaultSettings = "plain"
    Filtered = {"suppressed hidden"}
    Pages = {1, 2} ServerPages = 2
    MaxChoices = 1 MaxChanges = 1 MaxRefreshes = 1 MaxDrops = 1

    MaxTabSwitches = 2 MaxScanSets = 2

    Conversations = {"c1", "c2"} ChatScopes = {"global", "scan"} FirstChatScope = "global"
    NoConversation = NoConversation
    MaxMessages = 2 MaxOpens = 1 MaxScopeChanges = 1 MaxFailures = 1

    deletion = deletion automatic = automatic personal = personal org = org
    Jobs = {automatic} Automated = {automatic} Deletions = {}
    Scopes = {personal, org} FirstScope = personal ScopeOf <- OneScope
    JobLimit = 2 MaxSwitches = 1 MaxFaults = 1

    PublicIds = {1} MaxEntries = 1 Retention = 1 StaleAfter = 1 Outcomes = {"completed"}
    Rounds = {1, 2} MaxClock = 2 MaxLost = 1 MaxVisits = 1

    MaxRuns = 2 MaxPolls = 2 MaxLostPolls = 1

    Runs = {1} DryRuns = {} Images = {"a"} NoRun = NoRun
    MaxCreations = 1 MaxRestarts = 1 MaxDbFaults = 1 MaxRunTroubles = 2

    Registries = {"t", "u", "x", "y"} XrayRegistries = {"x", "y"} DefaultRegistries = {"x"}
    RegistriesOf <- FormRegistries Nothing = Nothing MaxScopes = 1 MaxRefusals = 0

    MaxDeliveries = 6 DeliveryPageSize = 2 MaxLoads = 2 MaxLookups = 3

    NoCve = NoCve
    Vulnerabilities <- ReportVulnerabilities
    PolicyFailures <- ReportPolicyFailures
    FilterChoices <- ReportFilterChoices
PROPERTIES
    PageCatchesUp
    TableIsFilled
    ActiveRowEnds
    EndIsListed
    RunsSettle
CHECK_DEADLOCK FALSE
