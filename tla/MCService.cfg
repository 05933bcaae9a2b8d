SPECIFICATION Spec
CONSTANTS
    Clients = {a, b}
    MaxDaemons = 3
    None = None
INVARIANT Reachable
INVARIANT InterruptCancels
PROPERTY ClientsConnect
CHECK_DEADLOCK FALSE
