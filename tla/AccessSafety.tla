---------------------------- MODULE AccessSafety ----------------------------
(***************************************************************************)
(* Who may sign in to a company, in which role and with which permissions: *)
(* accounts and their links to employees (admin/users.py), assignments of  *)
(* roles (admin/role_assignments.py), roles and extra permissions          *)
(* (admin/roles.py, admin/permissions.py), the transfer of ownership       *)
(* (admin/owner_transfer.py), and the end of access with the employment    *)
(* (admin/employee_access.py, called by workforce/service.py), under the   *)
(* rules of admin/access_safety.py.                                        *)
(*                                                                         *)
(* A request is a READ COMMITTED transaction: it asks whether the caller   *)
(* may, then takes the row locks of its operation one by one, checks, and  *)
(* writes.  What it checks on rows that it has not locked may have changed *)
(* when it writes.                                                         *)
(*                                                                         *)
(* The permission codes of administration are one code, edit, and the      *)
(* others one more, pay; each stands for itself and the codes it entails.  *)
(* There is one branch, so a scope is wide (the whole company) or not.     *)
(* Assignments of drivers are in DriverTenure; here every driver has one   *)
(* until terminated.  Names, contact data, passwords, audit rows and the   *)
(* creation of roles (it yields a role without permissions, as the start   *)
(* has one) are left out, and the company is active.                       *)
(***************************************************************************)
EXTENDS Naturals, Sequences

CONSTANTS
    Users,        \* accounts, those to be created too
    Employees,    \* employees of the company
    Drivers,      \* employees who are drivers
    Roles,        \* roles of the company that can be edited
    Owner,        \* the protected role COMPANY_OWNER
    Driver,       \* the protected role DRIVER
    Sessions,     \* requests served at a time
    Companies,    \* companies to start from
    MaxRequests,  \* bound: requests served
    None          \* no account, employee, role or request

Catalog == Roles \cup {Owner, Driver}
Perms == {"edit", "pay"}

Account == [active : BOOLEAN, login : BOOLEAN, staged : BOOLEAN,
            employee : Employees \cup {None}]
Assignment == [role : Catalog, wide : BOOLEAN]
Role == [active : BOOLEAN, archived : BOOLEAN, perms : SUBSET Perms]

\* A company as migration 0074 leaves it: an account is staged exactly while
\* it has no role and then cannot sign in, an employee has one account at
\* most, and nobody terminated has access.
Settled(c) ==
    \A u \in Users :
        IF c.account[u] = None THEN c.held[u] = None
        ELSE LET a == c.account[u] IN
             /\ a.staged <=> c.held[u] = None
             /\ a.login => ~a.staged
             /\ a.employee \in c.terminated => c.held[u] = None
             /\ a.employee # None =>
                  \A v \in Users \ {u} : c.account[v] # None => c.account[v].employee # a.employee
             /\ c.held[u] # None =>
                  /\ ~c.catalog[c.held[u].role].archived
                  /\ c.held[u].role = Driver => a.employee # None

ASSUME AccessAssumption ==
    /\ Drivers \subseteq Employees /\ Owner # Driver /\ {Owner, Driver} \cap Roles = {}
    /\ None \notin Users \cup Employees \cup Catalog \cup Account \cup Assignment
    /\ MaxRequests \in Nat
    /\ Companies \subseteq
         [account : [Users -> Account \cup {None}], held : [Users -> Assignment \cup {None}],
          catalog : [Catalog -> Role], terminated : SUBSET Employees]
    /\ \A c \in Companies : Settled(c)

VARIABLES
    account,     \* user -> the account
    held,        \* user -> the active assignment of a role
    extra,       \* user -> active extra permissions
    catalog,     \* role -> is it active, archived, and what it permits
    terminated,  \* employees whose employment has ended
    txn,         \* session -> the request it serves
    requests     \* begun so far

company == <<account, held, extra, catalog, terminated>>
vars == <<company, txn, requests>>

Init ==
    /\ \E start \in Companies :
         /\ account = start.account /\ held = start.held
         /\ catalog = start.catalog /\ terminated = start.terminated
    /\ extra = [u \in Users |-> {}]
    /\ txn = [s \in Sessions |-> None]
    /\ requests = 0

-----------------------------------------------------------------------------
(* Permissions *)

EmployeeOf(u) == IF account[u] = None THEN None ELSE account[u].employee
AccountOf(e) == {u \in Users : EmployeeOf(u) = e}
Holds(u, role) == held[u] # None /\ held[u].role = role

\* fn_UserHasPermission, in the branch.
BranchPerms(u) ==
    IF \/ held[u] = None \/ Holds(u, Driver)
       \/ ~(account[u].active /\ account[u].login /\ ~account[u].staged) THEN {}
    ELSE IF Holds(u, Owner) THEN Perms
    ELSE catalog[held[u].role].perms \cup extra[u]

\* The same for the company as a whole.
CompanyPerms(u) == IF held[u] # None /\ held[u].wide THEN BranchPerms(u) ELSE {}

\* ensure_any_permission.
Authorized(u) == "edit" \in CompanyPerms(u)

\* What u may grant: ensure_can_grant lets the owner grant everything, also
\* one whose login was disabled meanwhile.
Ceiling(u) == IF Holds(u, Owner) THEN Perms ELSE CompanyPerms(u)

-----------------------------------------------------------------------------
(* Requests *)

\* Roles as they can be given; what would be refused in every state is not
\* enumerated.
Given == {a \in Assignment : a.role # Owner /\ (a.role = Driver => ~a.wide)}

OnUser ==
    [kind : {"assign"}, by : Users, user : Users, given : Given]
    \cup [kind : {"provision"}, by : Users, user : Users, given : Given, login : BOOLEAN]
    \cup [kind : {"revoke", "unlink"}, by : Users, user : Users]
    \cup [kind : {"link"}, by : Users, user : Users, employee : Employees]
    \cup [kind : {"update"}, by : Users, user : Users,
          field : {"active", "login"}, value : BOOLEAN]
    \cup [kind : {"overrides"}, by : Users, user : Users, codes : SUBSET Perms]
    \cup {op \in [kind : {"transfer"}, by : Users, user : Users, role : Roles \cup {None}] :
             op.by # op.user}
OnRole ==
    [kind : {"permissions"}, by : Users, role : Roles, codes : SUBSET Perms]
    \cup [kind : {"activate"}, by : Users, role : Catalog, active : BOOLEAN]
    \cup [kind : {"archive"}, by : Users, role : Roles]
OnEmployee == [kind : {"terminate", "reinstate"}, by : Users, employee : Employees]
Creation == [kind : {"create"}, by : Users, user : Users, employee : Employees \cup {None},
             given : Given \cup {None}, active : BOOLEAN, login : BOOLEAN]

Update(row) == [row |-> row, mode |-> "update"]
Share(row) == [row |-> row, mode |-> "share"]
Optional(rows) == IF rows = {} THEN <<>> ELSE <<Update(CHOOSE r \in rows : TRUE)>>

\* The rows that a role given to an account of the employee locks:
\* validate_company_role_assignment.
GivenRows(given, e) ==
    <<Share(given.role)>> \o IF given.role = Driver THEN Optional({e} \ {None}) ELSE <<>>

\* The row locks of an operation in the order of its statements.
Rows(op) ==
    CASE op.kind \in {"assign", "provision"} ->
             <<Update(op.user)>> \o GivenRows(op.given, EmployeeOf(op.user))
      [] op.kind \in {"revoke", "update"} -> <<Update(op.user)>>
      [] op.kind = "link" -> <<Update(op.user), Update(op.employee)>>
      [] op.kind = "unlink" ->
             <<Update(op.user)>> \o Optional({EmployeeOf(op.user)} \ {None})
      [] op.kind = "create" ->
             Optional({op.employee} \ {None})
             \o IF op.given = None THEN <<>> ELSE GivenRows(op.given, op.employee)
      [] op.kind = "terminate" -> <<Update(op.employee)>> \o Optional(AccountOf(op.employee))
      [] op.kind = "reinstate" -> <<Update(op.employee)>>
      [] op.kind \in {"permissions", "activate", "archive"} -> <<Update(op.role)>>
      [] op.kind = "transfer" ->
             <<Update(op.by), Update(op.user)>>
             \o IF op.role = None THEN <<>> ELSE <<Share(op.role)>>
      [] op.kind = "overrides" -> <<>>

\* The places in Rows of the rows still to lock.
Missing(s) == {i \in DOMAIN Rows(txn[s].op) : Rows(txn[s].op)[i] \notin txn[s].locks}

\* No other session has a lock on the row that conflicts with l.
Free(s, l) ==
    \A o \in Sessions \ {s} : txn[o] # None =>
        \A k \in txn[o].locks : k.row = l.row => "update" \notin {k.mode, l.mode}

\* The permission check comes first and holds no lock; an employee's branch,
\* and with it who may change the record, is known once the record is locked.
Begin(s, op) ==
    /\ txn[s] = None /\ requests < MaxRequests
    /\ account[op.by] # None
    /\ op.kind \notin {"transfer", "terminate", "reinstate"} => Authorized(op.by)
    /\ op.kind \in {"assign", "revoke", "overrides"} => op.by # op.user
    /\ op.kind = "transfer" => catalog[Owner].active
    /\ txn' = [txn EXCEPT ![s] =
                 [op |-> op, locks |-> {}, ready |-> FALSE, ceiling |-> {}, cleared |-> {}]]
    /\ requests' = requests + 1
    /\ UNCHANGED company

Acquire(s) ==
    /\ txn[s] # None /\ ~txn[s].ready
    /\ \E i \in Missing(s) :
         LET row == Rows(txn[s].op)[i] IN
         /\ \A j \in Missing(s) : i <= j
         /\ Free(s, row)
         /\ txn' = [txn EXCEPT ![s].locks = @ \cup {row}]
    /\ UNCHANGED <<company, requests>>

\* A refusal, the victim of a deadlock or a broken connection.
Abandon(s) ==
    /\ txn[s] # None
    /\ txn' = [txn EXCEPT ![s] = None]
    /\ UNCHANGED <<company, requests>>

-----------------------------------------------------------------------------
(* What an operation demands *)

\* Mutant: what the role permits is not compared with what the granter may.
GiveAnything(by, given, e) ==
    /\ e \notin terminated
    /\ catalog[given.role].active /\ ~catalog[given.role].archived
    /\ given.role = Driver => e \in Drivers
\* validate_company_role_assignment and ensure_can_assign_role.
MayGive(by, given, e) ==
    /\ e \notin terminated
    /\ catalog[given.role].active /\ ~catalog[given.role].archived
    /\ given.role = Driver => e \in Drivers
    /\ catalog[given.role].perms \subseteq Ceiling(by)

MayAssign(op) ==
    /\ account[op.user].active /\ ~account[op.user].staged
    /\ MayGive(op.by, op.given, EmployeeOf(op.user))
    /\ op.given.role = Driver => extra[op.user] = {}

MayProvision(op) ==
    /\ account[op.user].staged /\ held[op.user] = None
    /\ MayGive(op.by, op.given, EmployeeOf(op.user))

\* Mutant: the last role is taken from an account that can sign in.
RevokeAnyway(op) == held[op.user] # None /\ ~Holds(op.user, Owner)
MayRevoke(op) ==
    /\ held[op.user] # None /\ ~Holds(op.user, Owner)
    /\ ~account[op.user].login

\* An account staged at its creation has no role and cannot sign in.
MayCreate(op) ==
    /\ op.employee # None => op.employee \notin terminated /\ AccountOf(op.employee) = {}
    /\ IF op.given = None THEN ~op.login ELSE MayGive(op.by, op.given, op.employee)

\* _lock_employee_link_target.
MayLink(op) ==
    /\ EmployeeOf(op.user) = None
    /\ op.employee \notin terminated /\ AccountOf(op.employee) = {}

\* Mutant: the role of a driver is no reason to stay linked.
UnlinkDriver(op) == EmployeeOf(op.user) # None /\ EmployeeOf(op.user) \notin terminated
MayUnlink(op) ==
    /\ EmployeeOf(op.user) # None /\ EmployeeOf(op.user) \notin terminated
    /\ ~Holds(op.user, Driver)

MayUpdate(op) ==
    /\ op.user = op.by => op.value
    /\ op.field = "login" /\ op.value =>
         /\ ~account[op.user].staged /\ held[op.user] # None
         /\ EmployeeOf(op.user) \notin terminated

\* terminate_driver_employee, update_employee and prepare_employee_termination.
MayTerminate(op) ==
    /\ "edit" \in BranchPerms(op.by)
    /\ op.employee \notin terminated
    /\ \A u \in AccountOf(op.employee) : ~Holds(u, Owner) /\ u # op.by

\* Only the records of other employees than drivers can be set back.
MayReinstate(op) ==
    /\ "edit" \in BranchPerms(op.by)
    /\ op.employee \in terminated \ Drivers

\* set_user_permission_overrides: codes that the account has are not asked for.
MayOverride(op) ==
    LET added == op.codes \ extra[op.user]
    IN  /\ ~Holds(op.user, Owner) /\ (op.codes # {} => ~Holds(op.user, Driver))
        /\ added # {} => EmployeeOf(op.user) \notin terminated
        /\ added \subseteq Ceiling(op.by)

MaySetPermissions(op) ==
    /\ ~catalog[op.role].archived
    /\ ~Holds(op.by, op.role)
    /\ op.codes \ catalog[op.role].perms \subseteq Ceiling(op.by)

\* delete_company_role.
MayArchive(op) == \A u \in Users : ~Holds(u, op.role)

\* Mutant: any active account can receive the company.
TransferToActive(op) ==
    /\ Holds(op.by, Owner) /\ account[op.by].active /\ ~account[op.by].staged
    /\ account[op.user].active
    /\ op.role # None => catalog[op.role].active /\ ~catalog[op.role].archived
    /\ op.role = None => ~account[op.by].login
MayTransfer(op) ==
    /\ Holds(op.by, Owner)
    /\ account[op.by].active /\ ~account[op.by].staged
    /\ account[op.user].active /\ account[op.user].login
    /\ op.role # None => catalog[op.role].active /\ ~catalog[op.role].archived
    /\ op.role = None => ~account[op.by].login

May(op) ==
    CASE op.kind = "assign" -> MayAssign(op)
      [] op.kind = "provision" -> MayProvision(op)
      [] op.kind = "revoke" -> MayRevoke(op)
      [] op.kind = "create" -> MayCreate(op)
      [] op.kind = "link" -> MayLink(op)
      [] op.kind = "unlink" -> MayUnlink(op)
      [] op.kind = "update" -> MayUpdate(op)
      [] op.kind = "terminate" -> MayTerminate(op)
      [] op.kind = "reinstate" -> MayReinstate(op)
      [] op.kind = "overrides" -> MayOverride(op)
      [] op.kind = "permissions" -> MaySetPermissions(op)
      [] op.kind = "activate" -> ~catalog[op.role].archived
      [] op.kind = "archive" -> MayArchive(op)
      [] op.kind = "transfer" -> MayTransfer(op)

\* Rows of extra permissions that another session has cleared and not
\* committed: who would clear them too waits.
Unclaimed(s, u) ==
    \A o \in Sessions \ {s} :
        (txn[o] # None /\ txn[o].op.kind = "overrides" /\ txn[o].op.user = u) =>
            txn[o].cleared \cap extra[u] = {}

\* The checks of the operation, under its locks.
Check(s) ==
    LET op == txn[s].op IN
    /\ txn[s] # None /\ ~txn[s].ready /\ Missing(s) = {}
    /\ May(op)
    /\ op.kind = "overrides" => Unclaimed(s, op.user)
    /\ txn' = [txn EXCEPT ![s].ready = TRUE, ![s].ceiling = Ceiling(op.by),
                          ![s].cleared = IF op.kind = "overrides" THEN extra[op.user] ELSE {}]
    /\ UNCHANGED <<company, requests>>

-----------------------------------------------------------------------------
(* What an operation writes *)

Finish(s, kinds) ==
    /\ txn[s] # None /\ txn[s].ready /\ txn[s].op.kind \in kinds
    /\ txn' = [txn EXCEPT ![s] = None]
    /\ UNCHANGED requests

\* A row that refers to others waits for who has them locked.
Refers(s, rows) == \A row \in rows : Free(s, Share(row))

\* The assignment that was active is revoked first.
Assign(s) ==
    LET op == txn[s].op IN
    /\ Finish(s, {"assign"}) /\ Refers(s, {op.by})
    /\ held' = [held EXCEPT ![op.user] = op.given]
    /\ UNCHANGED <<account, extra, catalog, terminated>>

Provision(s) ==
    LET op == txn[s].op IN
    /\ Finish(s, {"provision"}) /\ Refers(s, {op.by})
    /\ held' = [held EXCEPT ![op.user] = op.given]
    /\ account' = [account EXCEPT ![op.user].staged = FALSE, ![op.user].login = op.login]
    /\ UNCHANGED <<extra, catalog, terminated>>

Revoke(s) ==
    LET op == txn[s].op IN
    /\ Finish(s, {"revoke"})
    /\ held' = [held EXCEPT ![op.user] = None]
    /\ account' = [account EXCEPT ![op.user].staged = TRUE]
    /\ UNCHANGED <<extra, catalog, terminated>>

Create(s) ==
    LET op == txn[s].op IN
    /\ Finish(s, {"create"}) /\ account[op.user] = None
    /\ op.given # None => Refers(s, {op.by})
    /\ account' = [account EXCEPT ![op.user] =
                     [active |-> op.active, login |-> op.login,
                      staged |-> op.given = None, employee |-> op.employee]]
    /\ held' = [held EXCEPT ![op.user] = op.given]
    /\ UNCHANGED <<extra, catalog, terminated>>

Link(s) ==
    LET op == txn[s].op IN
    /\ Finish(s, {"link", "unlink"})
    /\ account' = [account EXCEPT ![op.user].employee =
                     IF op.kind = "link" THEN op.employee ELSE None]
    /\ UNCHANGED <<held, extra, catalog, terminated>>

UpdateUser(s) ==
    LET op == txn[s].op IN
    /\ Finish(s, {"update"})
    /\ account' = [account EXCEPT ![op.user] =
                     IF op.field = "login" THEN [@ EXCEPT !.login = op.value]
                                           ELSE [@ EXCEPT !.active = op.value]]
    /\ UNCHANGED <<held, extra, catalog, terminated>>

\* end_terminated_employee_access.
Terminate(s) ==
    LET e == txn[s].op.employee
        ended == {u \in AccountOf(e) : Update(u) \in txn[s].locks}
    IN  /\ Finish(s, {"terminate"}) /\ \A u \in ended : Unclaimed(s, u)
        /\ terminated' = terminated \cup {e}
        /\ account' = [u \in Users |-> IF u \notin ended THEN account[u] ELSE
                         [account[u] EXCEPT !.active = FALSE, !.login = FALSE, !.staged = TRUE]]
        /\ held' = [u \in Users |-> IF u \in ended THEN None ELSE held[u]]
        /\ extra' = [u \in Users |-> IF u \in ended THEN {} ELSE extra[u]]
        /\ UNCHANGED catalog

Reinstate(s) ==
    /\ Finish(s, {"reinstate"})
    /\ terminated' = terminated \ {txn[s].op.employee}
    /\ UNCHANGED <<account, held, extra, catalog>>

\* The target account is not locked: what another session stores meanwhile stays.
Override(s) ==
    LET op == txn[s].op IN
    /\ Finish(s, {"overrides"})
    /\ op.codes # {} => Refers(s, {op.by, op.user})
    /\ extra' = [extra EXCEPT ![op.user] = (@ \ txn[s].cleared) \cup op.codes]
    /\ UNCHANGED <<account, held, catalog, terminated>>

EditRole(s) ==
    LET op == txn[s].op IN
    /\ Finish(s, {"permissions", "activate", "archive"})
    /\ catalog' = [catalog EXCEPT ![op.role] =
                     CASE op.kind = "permissions" -> [@ EXCEPT !.perms = op.codes]
                       [] op.kind = "activate" -> [@ EXCEPT !.active = op.active]
                       [] op.kind = "archive" -> [@ EXCEPT !.archived = TRUE]]
    /\ UNCHANGED <<account, held, extra, terminated>>

\* Without a role for the old owner the account is staged.  The database
\* accepts one owner only (fn_check_company_owner_unique).
Transfer(s) ==
    LET op == txn[s].op IN
    /\ Finish(s, {"transfer"}) /\ Refers(s, {Owner})
    /\ \A u \in Users \ {op.by} : ~Holds(u, Owner)
    /\ held' = [held EXCEPT
                  ![op.by] = IF op.role = None THEN None ELSE [role |-> op.role, wide |-> TRUE],
                  ![op.user] = [role |-> Owner, wide |-> TRUE]]
    /\ account' = [account EXCEPT ![op.by].staged = @ \/ op.role = None]
    /\ UNCHANGED <<extra, catalog, terminated>>

Write(s) ==
    \/ Assign(s) \/ Provision(s) \/ Revoke(s) \/ Create(s) \/ Link(s) \/ UpdateUser(s)
    \/ Terminate(s) \/ Reinstate(s) \/ Override(s) \/ EditRole(s) \/ Transfer(s)

Next ==
    \E s \in Sessions :
        \/ \E op \in OnUser : account[op.user] # None /\ Begin(s, op)
        \/ \E op \in Creation : account[op.user] = None /\ Begin(s, op)
        \/ \E op \in OnRole \cup OnEmployee : Begin(s, op)
        \/ Acquire(s) \/ Check(s) \/ Write(s) \/ Abandon(s)

Spec == Init /\ [][Next]_vars

-----------------------------------------------------------------------------
(* Properties *)

TypeOK ==
    /\ account \in [Users -> Account \cup {None}]
    /\ held \in [Users -> Assignment \cup {None}]
    /\ extra \in [Users -> SUBSET Perms]
    /\ catalog \in [Catalog -> Role]
    /\ terminated \subseteq Employees
    /\ requests \in 0..MaxRequests

\* However updates, revocations, transfers and terminations interleave, an
\* account that can sign in has a role, one is staged exactly while it has
\* none, and the account of a terminated employee has neither.
AccessNeedsStanding ==
    \A u \in Users : account[u] # None =>
        /\ account[u].staged <=> held[u] = None
        /\ account[u].login => ~account[u].staged
        /\ EmployeeOf(u) \in terminated => ~account[u].login /\ held[u] = None

\* No archived role is held, and the role of drivers only with an employee
\* behind the account: roles are archived and accounts unlinked while others
\* give them.
RolesHeldStand ==
    \A u \in Users : held[u] # None =>
        /\ ~catalog[held[u].role].archived
        /\ Holds(u, Driver) => EmployeeOf(u) # None

\* Whoever becomes the owner can act as one: a transfer to an account that
\* is disabled, unprovisioned or terminated meanwhile would leave nobody who
\* can transfer it on.
NewOwnerCanSignIn ==
    [][\A u \in Users : Holds(u, Owner)' /\ ~Holds(u, Owner) =>
          /\ account'[u].active /\ account'[u].login /\ ~account'[u].staged
          /\ EmployeeOf(u)' \notin terminated']_company

\* The role an account is given permits no more, when it is given, than who
\* gives it could grant on deciding, although the role's permissions can be
\* edited.
GivenWithinCeiling ==
    [][\A s \in Sessions :
          (txn[s] # None /\ company' # company /\ txn'[s] = None
           /\ txn[s].op.kind \in {"assign", "provision", "create"}
           /\ txn[s].op.given # None) =>
             catalog'[held'[txn[s].op.user].role].perms \subseteq txn[s].ceiling]_vars
=============================================================================
