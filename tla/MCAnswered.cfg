SPECIFICATION FairTxSpec
CONSTANTS
    Periods = {1, 2}
    Lines = {line}
    Bonuses = {bonus}
    Users = {u1}
    NoUser = NoUser
    AllowSelfApproval = TRUE
    MaxPosition = 2
    MaxRevision = 1
    MaxEvents = 1
    Txns = {t1, t2}
    NoTx = NoTx
    MaxAttempts = 2
INVARIANTS
    SlotsUnique
    CalendarGapless
PROPERTIES
    RequestAnswered
    LifecycleImplemented
CHECK_DEADLOCK FALSE
