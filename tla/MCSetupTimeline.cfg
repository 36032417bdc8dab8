SPECIFICATION Spec
CONSTANTS
    None = None
    MonthStarts <- TheMonths
    Schedules <- TheSchedules
    Starts <- TheStarts
    Horizon = 10
    Setups = {1, 2}
    Branches = {1}
    Txns = {t1, t2}
    Today = 4
    Dates = {1, 3, 5}
    LastDay = 5
    MaxRequests = 3
    MaxPeriods = 2
SYMMETRY Symmetry
INVARIANTS
    HistoryKeepsAuthority
    TimelineCovered
    NextPeriodLegalIfAnchored
    SomebodyProceeds
PROPERTIES
    NavigationFindsStarts
CHECK_DEADLOCK FALSE
