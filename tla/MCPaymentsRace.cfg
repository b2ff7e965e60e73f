SPECIFICATION Spec
CONSTANTS
    Requests = {r1, r2}
    Intents = {i1}
    Keys = {}
    Refs = {x1}
    None = None
    MaxTotal = 1
    MaxAmount = 1
    MaxPayments = 2
    MaxWebhooks = 3
    MaxCrashes = 1
INVARIANTS
    TypeOK
    RecordedIsTaken
    SucceededIsRecorded
CHECK_DEADLOCK FALSE
