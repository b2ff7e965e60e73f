SPECIFICATION Spec
CONSTANTS
    Reservations = {v1, v2}
    Tables = {t1}
    Deposits = {}
    Orders = {}
    Requests = {r1, r2}
    Times = {0, 1}
    Duration = 2
    None = None
    MaxCrashes = 0
INVARIANT
    NoDoubleBooking
CHECK_DEADLOCK FALSE
