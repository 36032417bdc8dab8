SPECIFICATION TxSpec
CONSTANTS
    Periods = {1}
    Lines = {line}
    Bonuses = {bonus}
    Users = {u1, u2}
    NoUser = NoUser
    AllowSelfApproval = FALSE
    MaxPosition = 1
    MaxRevision = 2
    MaxEvents = 2
    Txns = {t1, t2, t3}
    NoTx = NoTx
    MaxAttempts = 2
SYMMETRY Symmetry
INVARIANTS
    ReviewBinding
    PaidIsApproved
    FourEyes
    FrozenBonusesAreLive
PROPERTIES
    EntryOnlyWhileEditable
    OneHandInPerReview
    HistoryImmutable
CHECK_DEADLOCK FALSE
