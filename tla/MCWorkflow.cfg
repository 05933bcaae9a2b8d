SPECIFICATION FairSpec
CONSTANTS
    MaxTokens = 12
    PhaseCap = 9
    MinBudget = 1
    Overshoot = 2
    MaxRestarts = 2
INVARIANT TypeOK
INVARIANT JobsStopFirst
INVARIANT AccountedExactly
INVARIANT ReadyIsEarned
INVARIANT PhasesFunded
PROPERTY PhasesInOrder
PROPERTY WorkflowIsOver
CHECK_DEADLOCK FALSE
