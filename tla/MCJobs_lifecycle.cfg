SPECIFICATION Spec
CONSTANTS
    Names <- MCNames
    Lower <- MCLower
    Small = {"edit", "planner"}
    Jobs <- Small
    Task <- MCTask
    Files <- MCFiles
    NoJob = NoJob
    Concurrency = 1
    MaxActive = 2
    MaxBatch = 2
    MaxRuns = 2
    MaxRestarts = 2
INVARIANT OneGoroutine
INVARIANT DoneMeansStopped
INVARIANT SlotsAccounted
INVARIANT DurableCompletion
INVARIANT RunOnce
PROPERTY OutcomeIsFinal
CHECK_DEADLOCK FALSE
