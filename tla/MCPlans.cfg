SPECIFICATION Spec
CONSTANTS
    Names <- MCNames
    Lower <- MCLower
    Ids = {a, b, c, d}
    WriteSets <- MCWriteSets
    Workspace <- MCWorkspace
    Authorized <- MCAuthorized
    MaxTasks = 4
SYMMETRY MCSymmetry
INVARIANT TypeOK
INVARIANT ClosureExact
INVARIANT WavesInOrder
INVARIANT WavesDispatchable
INVARIANT RefusedForCause
CHECK_DEADLOCK FALSE
