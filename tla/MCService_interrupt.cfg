SPECIFICATION Spec
CONSTANTS
    Clients = {a, b}
    MaxDaemons = 3
    None = None
INVARIANT InterruptCancelsAll
CHECK_DEADLOCK FALSE
