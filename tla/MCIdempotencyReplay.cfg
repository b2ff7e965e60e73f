SPECIFICATION Spec
CONSTANTS
    Clients = {c1}
    Keys = {k1}
    Payloads = {p1}
    NoPayload = NoPayload
    MaxSends = 2
    MaxCrashes = 0
INVARIANT
    SuccessMeansEffect
