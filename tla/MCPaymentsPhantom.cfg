SPECIFICATION Spec
CONSTANTS
    Requests = {r1}
    Intents = {i1, i2}
    Keys = {k1}
    Refs = {x1}
    None = None
    MaxTotal = 2
    MaxAmount = 2
    MaxPayments = 3
    MaxWebhooks = 2
    MaxCrashes = 1
INVARIANT
    ClosedWasServed
SYMMETRY MCSymmetry
CHECK_DEADLOCK FALSE
