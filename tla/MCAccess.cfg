SPECIFICATION Spec
CONSTANTS
    u1 = u1
    u2 = u2
    u3 = u3
    drv = drv
    emp = emp
    admin = admin
    clerk = clerk
    Owner = Owner
    Driver = Driver
    Users = {u1, u2, u3}
    Employees = {drv, emp}
    Drivers = {drv}
    Roles = {admin, clerk}
    Sessions = {s1, s2}
    Companies <- Starts
    MaxRequests = 2
    None = None
SYMMETRY Symmetry
INVARIANTS
    AccessNeedsStanding
    RolesHeldStand
PROPERTIES
    NewOwnerCanSignIn
    GivenWithinCeiling
CHECK_DEADLOCK FALSE
