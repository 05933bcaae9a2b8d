SPECIFICATION Spec
CONSTANTS
    Jobs = {"a"}
    Packets = {"p", "q"}
    Searchers = {c1, c2}
    ScanLimit = 2
    Batch = 1
    MaxRuns = 3
    MaxRestarts = 3
    None = None
INVARIANT IndexFresh
INVARIANT SearchAccounts
CHECK_DEADLOCK FALSE
