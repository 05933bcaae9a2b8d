SPECIFICATION Spec
CONSTANTS
    Jobs = {"a", "b"}
    Recipient = "a"
    Packets = {p, q}
    MailboxLimit = 2
    Batch = 1
    ContextLimit = 1
    MaxRuns = 2
    MaxRestarts = 1
SYMMETRY MCSymmetry
INVARIANT RecordsWithinLimits
INVARIANT MailSafe
INVARIANT PacketsExist
PROPERTY ImplementsMailbox
CHECK_DEADLOCK FALSE
