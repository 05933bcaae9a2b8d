SPECIFICATION FairSpec
CONSTANTS
    MaxSteps = 6
    Limit = 12
    MaxOutput = 2
    MinOutput = 1
    SummaryOutput = 1
    Share = 8
    LargeContext = 3
    Seed = 1
    NudgeAfter = 1
    StallAfter = 3
    StallEarly = 2
    StallReads = 1
    MaxCompactions = 2
    MaxCalls = 1
    Recent = 0
    Reports = {r1}
    NoReport = none
    Past = 2
    PastEdits = 1
    PastReads = 1
    MaxEdits = 1
    MaxRereads = 1
    Spare = {0}
INVARIANT TypeOK
INVARIANT BudgetKept
INVARIANT HonestCompletion
INVARIANT StallWindow
PROPERTY RunEnds
PROPERTY ImplementsWorker
CHECK_DEADLOCK FALSE
