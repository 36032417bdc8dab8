SPECIFICATION MCSpec
CONSTANTS
    Scale = 4
    TierBounds <- MCTierBounds
    Branches = {1, 2}
    Periods = {"p1", "p2", "p3"}
    BranchOf <- MCBranchOf
    DaysOf <- MCDaysOf
    Scheduled <- MCDaysOf
    CalendarOf <- MCCalendarOf
    LastDay = 4
    MaxSchedules = 2
    MaxRules = 2
    MaxRequests = 2
    Txns = {t1, t2}
    Windows <- MCWindows
    Clock = {0, 3, 4, 8}
    TransferAt <- MCTransferAt
    Quantities = {4}
    Rates = {3}
    RuleAmounts = {6}
    Minors = {2, 4}
SYMMETRY Perms
INVARIANTS NormalPayWithinRules CountedOnce AmountsPayable SomebodyProceeds
PROPERTY SettledTermsKept
CHECK_DEADLOCK FALSE
