SPECIFICATION RepositorySpec
CONSTANTS
    Runs = {1, 2}
    DryRuns = {2}
    Images = {"a"}
    NoRun = NoRun
    MaxCreations = 1
    MaxRestarts = 1
    MaxDbFaults = 0
INVARIANT DryRunQueuesNothing
CHECK_DEADLOCK FALSE
