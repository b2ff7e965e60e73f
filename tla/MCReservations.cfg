SPECIFICATION Spec
CONSTANTS
    Reservations = {v1}
    Tables = {t1}
    Deposits = {d1}
    Orders = {o1, o2}
    Requests = {r1, r2}
    Times = {0}
    Duration = 2
    None = None
    MaxCrashes = 1
INVARIANTS
    TypeOK
    DepositKept
PROPERTIES
    SeatedLinked
    FollowsLifecycle
    StatusReported
CHECK_DEADLOCK FALSE
