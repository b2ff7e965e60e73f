SPECIFICATION OfficeSpec
CONSTANTS
    o1 = o1
    p1 = p1
    b1 = b1
    l1 = l1
    l2 = l2
    e1 = e1
    e2 = e2
    x1 = x1
    x2 = x2
    Clerks = {c1, c2}
    a1 = a1
    a2 = a2
    q1 = q1
    h1 = h1
    h2 = h2
    Orders = {o1}
    Payments = {p1}
    OrderOf <- MCOrderOf
    Amount <- MCAmount
    RefundAmounts = {1, 2}
    Threshold = 1
    Requests = {r1}
    None = None
    MaxRefunds = 1
    MaxCrashes = 1
    Users = {u1}
    TillCodes = {d1, d2}
    CashPayments = {p1}
    Float = 1
    DropAmounts = {1}
    Workers = {w1}
    MaxShifts = 1
    MaxTills = 2
    MaxMoves = 2
INVARIANTS
    OfficeTypeOK
    CashAgrees
    AccountsAgree
    StaffAgree
    OrganizationAgrees
SYMMETRY MCSymmetry
CHECK_DEADLOCK FALSE
