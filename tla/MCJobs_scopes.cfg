SPECIFICATION Spec
CONSTANTS
    Names <- MCNames
    Lower <- MCLower
    Small = {"nested", "phase"}
    Jobs <- Small
    Task <- MCTask
    Files <- MCFiles
    NoJob = NoJob
    Concurrency = 1
    MaxActive = 2
    MaxBatch = 2
    MaxRuns = 2
    MaxRestarts = 2
INVARIANT TypeOK
INVARIANT DisjointScopes
PROPERTY ExclusiveEdits
PROPERTY ImplementsReservation
CHECK_DEADLOCK FALSE
