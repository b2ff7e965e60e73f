SPECIFICATION Spec
CONSTANTS
    Orders = {o1}
    Tables = {}
    Kitchen = Kitchen
    Lines = {l1}
    Requests = {r1, r2}
    Stations = {Kitchen}
    StationOf <- MCStationOf
    None = None
    MaxCrashes = 1
INVARIANTS
    TypeOK
    NoSkippedState
    TicketsFaithful
    OneTicketPerStation
PROPERTY
    SentReachesKitchen
CHECK_DEADLOCK FALSE
