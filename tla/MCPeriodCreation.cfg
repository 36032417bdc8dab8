SPECIFICATION CreationSpec
CONSTANTS
    Periods = {p1, p2}
    Lines = {line}
    Bonuses = {}
    Users = {u1}
    NoUser = NoUser
    AllowSelfApproval = TRUE
    MaxPosition = 2
    MaxRevision = 1
    MaxEvents = 1
    Clients = {c1, c2}
    MaxTimeline = 1
SYMMETRY Symmetry
PROPERTIES
    RetryIsRecognized
    WorkflowImplemented
CHECK_DEADLOCK FALSE
