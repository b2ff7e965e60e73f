SPECIFICATION Spec
CONSTANTS
    Orders = {o1, o2}
    Tables = {t1}
    Kitchen = Kitchen
    Lines = {l1, l2}
    Requests = {r1}
    Stations = {Kitchen}
    StationOf <- MCStationOf
    None = None
    MaxCrashes = 0
PROPERTIES
    TerminalIsFinal
    ReleaseSparesOthers
SYMMETRY MCSymmetry
CHECK_DEADLOCK FALSE
