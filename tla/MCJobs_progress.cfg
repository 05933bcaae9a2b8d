SPECIFICATION FairSpec
CONSTANTS
    Names <- MCNames
    Lower <- MCLower
    Small = {"docs", "planner"}
    Jobs <- Small
    Task <- MCTask
    Files <- MCFiles
    NoJob = NoJob
    Concurrency = 1
    MaxActive = 2
    MaxBatch = 2
    MaxRuns = 1
    MaxRestarts = 1
PROPERTY CancelEnds
PROPERTY ShutdownEnds
PROPERTY EveryRunEnds
CHECK_DEADLOCK FALSE
