SPECIFICATION Spec
CONSTANTS
    Names <- MCNames
    Lower <- MCLower
    Small = {"docs", "planner"}
    Jobs <- Small
    Task <- MCTask
    Files <- MCFiles
    NoJob = NoJob
    Concurrency = 1
    MaxActive = 1
    MaxBatch = 2
    MaxRuns = 1
    MaxRestarts = 1
INVARIANT QueueLimit
CHECK_DEADLOCK FALSE
