SPECIFICATION HouseSpec
CONSTANTS
    p1 = p1
    p2 = p2
    t1 = t1
    t2 = t2
    s1 = s1
    b1 = b1
    b2 = b2
    g1 = g1
    g2 = g2
    a1 = a1
    d1 = d1
    d2 = d2
    d3 = d3
    d4 = d4
    Orders = {o1, o2}
    Taken <- MCTaken
    UnitPrice = 2
    Kinds <- MCKinds
    Threshold = 2
    Requests = {r1, r2}
    None = None
    MaxQuantity = 3
    MaxRows = 3
    MaxParts = 2
    MaxDiscounts = 2
    MaxArrivals = 3
    MaxCrashes = 1
INVARIANTS
    HouseTypeOK
    BillTrue
    ItemsConserved
    RefundsAgree
    GuestsAgree
    WorkAgrees
PROPERTY
    DecidedOnce
SYMMETRY MCSymmetry
CHECK_DEADLOCK FALSE
