SPECIFICATION TxSpec
CONSTANTS
    Periods = {1}
    Lines = {line, dayEntry}
    Bonuses = {}
    Users = {u1}
    NoUser = NoUser
    AllowSelfApproval = TRUE
    MaxPosition = 1
    MaxRevision = 1
    MaxEvents = 2
    Txns = {t1, t2}
    NoTx = NoTx
    MaxAttempts = 2
INVARIANT FrozenPacketIsLive
CHECK_DEADLOCK FALSE
