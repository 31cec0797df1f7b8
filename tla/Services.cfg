SPECIFICATION FairSpec
CONSTANTS
    Services = {"mirror", "outbox", "deletion", "watchlist", "xray", "steps"}

    Scans = {1, 2} Anonymous = {} Deletable = {1}
    Endings = {"completed", "cancelled"}
    Reconcilers = {"r1", "r2"} Limit = 1 MaxMirrorFaults = 1

    Events = {"e"} Instant = {"now"} Digests = {"daily"} RuleSets = {{"now"}, {"daily"}}
    Processes = {"p1", "p2"} Scheduling = {"p1"} Nobody = Nobody NoEvent = NoEvent
    MaxAttempts = 2 MaxDisturbances = 1

    ScanNumbers = {1, 2} FirstScans = {1} DeletionRequests = {1, 2} DeletionJobs = {1, 2}
    DeletionWorkers = {"w1", "w2"} NoWorker = NoWorker NoJob = NoJob
    BatchSize = 1 MaxDeletionRetries = 1 MaxDeletionFaults = 1

    Schedules = {"hourly", "daily"} CronProcesses = {"c1"} WatchRequests = {"q1"}
    Firings = {"f1", "f2"} NoEntry = NoEntry NoFiring = NoFiring MaxCronRestarts = 1

    XrayScans = {1, 2} Coordinators = {"x1", "x2"} NoScan = NoScan Concurrency = 1

    WorkerSteps <- LocalSteps StepWorker = "worker" Requeuer = "requeuer"
    StepEnders = {"user", "watchdog"} MaxStepFaults = 1
INVARIANTS
    EntriesMatchScans
    OutboxIsSound
    DeletionIsExact
    WatchIsSound
    PermitsAreSound
    TimelineIsTrue
PROPERTIES
    MirrorEnds
    JobsSettle
    ImportsGetCapacity
CHECK_DEADLOCK FALSE
