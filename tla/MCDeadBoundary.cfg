SPECIFICATION Spec
CONSTANTS
    None = None
    MonthStarts <- TheMonths
    Schedules <- FixedSchedules
    Starts <- RevisedStart
    Horizon = 10
    Setups = {1, 2}
    Branches = {1}
    Txns = {t1}
    Today = 4
    Dates = {1, 3, 5}
    LastDay = 5
    MaxRequests = 2
    MaxPeriods = 2
INVARIANT NextPeriodLegal
CHECK_DEADLOCK FALSE
