SPECIFICATION Spec
CONSTANTS
    Branches = {"A", "B"}
    Periods = {"A1", "B1"}
    BranchOf <- TwoBranches
    DaysOf <- TwoDays
    MaxTransfers = 2
    FirstBranch = "A"
    LastDay = 2
    MaxSteps = 3
    FirstStatus <- OneDraft
    Idle = Idle
INVARIANTS
    OneTenureAtATime
    FactsInTenure
PROPERTIES
    HistoryRespected
    SubmittedRosterKept
    EntryWithinTenure
    GainedDaysOnRoster
CHECK_DEADLOCK FALSE
