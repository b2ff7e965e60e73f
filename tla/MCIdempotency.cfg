SPECIFICATION Spec
CONSTANTS
    Clients = {c1, c2, c3}
    Keys = {k1}
    Payloads = {p1, p2}
    NoPayload = NoPayload
    MaxSends = 4
    MaxCrashes = 1
INVARIANTS
    TypeOK
    AtMostOneEffect
    OneOwner
PROPERTIES
    ImplementsAtMostOnce
    InFlightResolves
