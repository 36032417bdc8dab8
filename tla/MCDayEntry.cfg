SPECIFICATION Spec
CONSTANTS
    Drivers = {d1, d2}
    Days = {mon, tue}
    Keys = {k1}
    Clerks = {c1, c2}
    Quantities = {0, 1}
    Limits <- OneUse
    MaxLines = 2
    MaxRequests = 3
    MaxEdits = 1
    None = None
SYMMETRY Symmetry
INVARIANTS
    NoWorkOnDaysOff
PROPERTIES
    LimitsRespected
CHECK_DEADLOCK FALSE
