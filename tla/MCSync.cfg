SPECIFICATION Spec
CONSTANTS
    j1 = j1
    Jobs = {j1}
    Batches <- MCBatches
    Requests = {r1, r2}
    maxAttempts = 2
    MaxReplays = 3
    MaxConflicts = 2
    MaxCrashes = 1
INVARIANTS
    TypeOK
    OutcomeBacked
    AttemptsCounted
PROPERTIES
    SuccessIsFinal
    InProgressEnds
CHECK_DEADLOCK FALSE
