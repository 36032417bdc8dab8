----------------------------- MODULE AccessProofs -----------------------------
(***************************************************************************)
(* Proofs about AccessSafety, for any accounts, employees, roles, sessions *)
(* and lawful companies to start from: whatever requests interleave, who   *)
(* can sign in has a role that stands, and who gets the company can act.   *)
(*                                                                         *)
(* A request checks and writes in two steps, and reads rows that it has    *)
(* not locked.  The inductive invariant therefore says, for each operation *)
(* that has passed its checks, which of the facts it found are still true  *)
(* when it writes, and which of its locks keep them so (Ready).  One lemma *)
(* bounds what a write can change by the locks of the session that writes  *)
(* (Covers); a second one concludes that no write undoes what another      *)
(* session relies on.                                                      *)
(***************************************************************************)
EXTENDS AccessSafety, SequenceTheorems, TLAPS

Operations == OnUser \cup OnRole \cup OnEmployee \cup Creation
LockRows == Users \cup Employees \cup Catalog
RowLocks == [row : LockRows, mode : {"update", "share"}]
Transactions ==
    [op : Operations, locks : SUBSET RowLocks, ready : BOOLEAN,
     ceiling : SUBSET Perms, cleared : SUBSET Perms]

Typed == TypeOK /\ txn \in [Sessions -> Transactions \cup {None}]

-----------------------------------------------------------------------------
(* The inductive invariant                                                 *)

\* An employee has one account at most.
OneAccount ==
    \A u, v \in Users : EmployeeOf(u) # None /\ EmployeeOf(u) = EmployeeOf(v) => u = v

\* Two sessions lock a row only if both share it.
LocksExclusive ==
    \A s, o \in Sessions : s # o /\ txn[s] # None /\ txn[o] # None =>
        \A k \in txn[s].locks, l \in txn[o].locks :
            k.row = l.row => "update" \notin {k.mode, l.mode}

\* The accounts of a request exist, and stay: none is ever deleted.
PartiesExist ==
    \A s \in Sessions : txn[s] # None =>
        /\ account[txn[s].op.by] # None
        /\ txn[s].op \in OnUser => account[txn[s].op.user] # None

\* The role to give is locked, in its state and its permissions; the employee
\* behind the account is employed.
RoleFits(t, given, e) ==
    /\ Share(given.role) \in t.locks
    /\ ~catalog[given.role].archived
    /\ catalog[given.role].perms \subseteq t.ceiling
    /\ given.role = Driver => e \in Drivers
    /\ e \notin terminated

\* An employee to link is locked, employed, and without an account.
EmployeeFree(t, e) ==
    /\ Update(e) \in t.locks
    /\ e \notin terminated
    /\ AccountOf(e) = {}

ReadyAssign(t) ==
    /\ Update(t.op.user) \in t.locks
    /\ ~account[t.op.user].staged
    /\ RoleFits(t, t.op.given, EmployeeOf(t.op.user))

ReadyProvision(t) ==
    /\ Update(t.op.user) \in t.locks
    /\ RoleFits(t, t.op.given, EmployeeOf(t.op.user))

ReadyRevoke(t) ==
    /\ Update(t.op.user) \in t.locks
    /\ ~account[t.op.user].login

ReadyCreate(t) ==
    /\ t.op.employee # None => EmployeeFree(t, t.op.employee)
    /\ t.op.given = None => ~t.op.login
    /\ t.op.given # None => RoleFits(t, t.op.given, t.op.employee)

ReadyLink(t) ==
    /\ Update(t.op.user) \in t.locks
    /\ EmployeeFree(t, t.op.employee)

ReadyUnlink(t) ==
    /\ Update(t.op.user) \in t.locks
    /\ ~Holds(t.op.user, Driver)

ReadyUpdate(t) ==
    /\ Update(t.op.user) \in t.locks
    /\ t.op.field = "login" /\ t.op.value =>
         /\ ~account[t.op.user].staged
         /\ EmployeeOf(t.op.user) \notin terminated

\* The termination finds every account of the employee, and has it locked.
ReadyTerminate(t) ==
    /\ Update(t.op.employee) \in t.locks
    /\ \A u \in AccountOf(t.op.employee) : Update(u) \in t.locks

ReadyRole(t) ==
    /\ Update(t.op.role) \in t.locks
    /\ t.op.kind = "archive" => \A u \in Users : ~Holds(u, t.op.role)

\* Both accounts of a transfer are as they were found.
ReadyTransfer(t) ==
    /\ Update(t.op.by) \in t.locks /\ Update(t.op.user) \in t.locks
    /\ Holds(t.op.by, Owner) /\ ~account[t.op.by].staged
    /\ account[t.op.user].active /\ account[t.op.user].login
    /\ t.op.role = None => ~account[t.op.by].login
    /\ t.op.role # None => Share(t.op.role) \in t.locks /\ ~catalog[t.op.role].archived

\* What each operation relies on once it has passed its checks.
Ready(t) ==
    /\ t.op.kind = "assign" => ReadyAssign(t)
    /\ t.op.kind = "provision" => ReadyProvision(t)
    /\ t.op.kind = "revoke" => ReadyRevoke(t)
    /\ t.op.kind = "create" => ReadyCreate(t)
    /\ t.op.kind = "link" => ReadyLink(t)
    /\ t.op.kind = "unlink" => ReadyUnlink(t)
    /\ t.op.kind = "update" => ReadyUpdate(t)
    /\ t.op.kind = "terminate" => ReadyTerminate(t)
    /\ t.op.kind \in {"permissions", "activate", "archive"} => ReadyRole(t)
    /\ t.op.kind = "transfer" => ReadyTransfer(t)

ReadyHolds ==
    \A s \in Sessions : txn[s] # None /\ txn[s].ready => Ready(txn[s])

\* What is true of the company, and what is true of the requests.
CompanySound == AccessNeedsStanding /\ RolesHeldStand /\ OneAccount
RequestsSound == LocksExclusive /\ PartiesExist /\ ReadyHolds

AccessInv == Typed /\ CompanySound /\ RequestsSound

-----------------------------------------------------------------------------
(* Operations and their rows                                               *)

UserKinds == {"assign", "provision", "revoke", "unlink", "link", "update", "overrides", "transfer"}
RoleKinds == {"permissions", "activate", "archive"}

\* The operands of each kind of operation.
Operands(op) ==
    /\ op.by \in Users
    /\ op.kind \in UserKinds \cup RoleKinds \cup {"create", "terminate", "reinstate"}
    /\ op.kind \in UserKinds => op.user \in Users /\ op \in OnUser
    /\ op.kind = "create" => op.user \in Users
    /\ op.kind \in {"assign", "provision"} => op.given \in Given
    /\ op.kind \in {"provision", "create"} => op.login \in BOOLEAN
    /\ op.kind = "link" => op.employee \in Employees
    /\ op.kind = "update" => op.field \in {"active", "login"} /\ op.value \in BOOLEAN
    /\ op.kind = "overrides" => op.codes \in SUBSET Perms
    /\ op.kind = "transfer" => op.role \in Roles \cup {None} /\ op.by # op.user
    /\ op.kind \in RoleKinds => op.role \in Catalog
    /\ op.kind \in {"permissions", "archive"} => op.role \in Roles
    /\ op.kind = "permissions" => op.codes \in SUBSET Perms
    /\ op.kind = "activate" => op.active \in BOOLEAN
    /\ op.kind \in {"terminate", "reinstate"} => op.employee \in Employees
    /\ op.kind = "create" =>
         /\ op.employee \in Employees \cup {None} /\ op.given \in Given \cup {None}
         /\ op.active \in BOOLEAN

LEMMA OperandsOf ==
    ASSUME NEW op \in Operations
    PROVE  Operands(op)
<1>1. CASE op \in OnUser
  BY <1>1 DEF OnUser, Operands, UserKinds, RoleKinds
<1>2. CASE op \in OnRole
  BY <1>2 DEF OnRole, Operands, UserKinds, RoleKinds, Catalog
<1>3. CASE op \in OnEmployee
  BY <1>3 DEF OnEmployee, Operands, UserKinds, RoleKinds
<1>4. CASE op \in Creation
  BY <1>4 DEF Creation, Operands, UserKinds, RoleKinds
<1> QED
  BY <1>1, <1>2, <1>3, <1>4 DEF Operations

Covered(rows, locks) == \A i \in DOMAIN rows : rows[i] \in locks

\* Locks that cover a concatenation cover its parts.
LEMMA CoveredParts ==
    ASSUME NEW p \in Seq(RowLocks), NEW q \in Seq(RowLocks), NEW locks,
           Covered(p \o q, locks)
    PROVE  Covered(p, locks) /\ Covered(q, locks)
<1>1. p \o q \in Seq(RowLocks) /\ Len(p \o q) = Len(p) + Len(q)
  BY ConcatProperties
<1>2. \A i \in 1 .. Len(p) : (p \o q)[i] = p[i]
  BY ConcatProperties
<1>3. \A i \in 1 .. Len(q) : (p \o q)[Len(p) + i] = q[i]
  <2> TAKE i \in 1 .. Len(q)
  <2>1. Len(p) \in Nat /\ Len(q) \in Nat
    BY LenProperties
  <2>2. Len(p) + i \in 1 .. Len(p) + Len(q) /\ ~(Len(p) + i <= Len(p)) /\ Len(p) + i - Len(p) = i
    BY <2>1
  <2> QED
    BY <2>1, <2>2, ConcatProperties
<1>4. Len(p) \in Nat /\ Len(q) \in Nat
  BY LenProperties
<1>5. /\ DOMAIN p = 1 .. Len(p) /\ DOMAIN q = 1 .. Len(q)
      /\ DOMAIN (p \o q) = 1 .. Len(p) + Len(q)
  BY <1>1, LenProperties
<1>6. Covered(p, locks)
  BY <1>2, <1>4, <1>5 DEF Covered
<1>7. ASSUME NEW i \in DOMAIN q
      PROVE  q[i] \in locks
  <2>1. Len(p) + i \in DOMAIN (p \o q) /\ i \in 1 .. Len(q)
    BY <1>4, <1>5, <1>7
  <2> QED
    BY <2>1, <1>3 DEF Covered
<1> QED
  BY <1>6, <1>7 DEF Covered

LEMMA LocksAreTyped ==
    /\ \A r \in LockRows : Update(r) \in RowLocks /\ Share(r) \in RowLocks
    /\ \A r \in LockRows : <<Update(r)>> \in Seq(RowLocks) /\ <<Share(r)>> \in Seq(RowLocks)
    /\ <<>> \in Seq(RowLocks)
BY DEF RowLocks, Update, Share

\* The first of some rows, if there is one.
LEMMA OptionalIs ==
    ASSUME NEW rows \in SUBSET LockRows
    PROVE  /\ Optional(rows) \in Seq(RowLocks)
           /\ rows # {} => \E r \in rows : Optional(rows) = <<Update(r)>>
<1>1. rows # {} => (CHOOSE r \in rows : TRUE) \in rows
  OBVIOUS
<1> QED
  BY <1>1, LocksAreTyped DEF Optional

LEMMA RowsOfGiven ==
    ASSUME AccessAssumption, NEW given \in Given, NEW e \in Employees \cup {None}
    PROVE  /\ GivenRows(given, e) \in Seq(RowLocks)
           /\ \A locks : Covered(GivenRows(given, e), locks) => Share(given.role) \in locks
<1>1. given.role \in LockRows
  BY DEF Given, Assignment, LockRows
<1>2. Optional({e} \ {None}) \in Seq(RowLocks)
  BY OptionalIs DEF LockRows
<1> DEFINE rest == IF given.role = Driver THEN Optional({e} \ {None}) ELSE <<>>
<1>3. rest \in Seq(RowLocks) /\ <<Share(given.role)>> \in Seq(RowLocks)
  BY <1>1, <1>2, LocksAreTyped
<1>4. GivenRows(given, e) = <<Share(given.role)>> \o rest
  BY DEF GivenRows
<1>5. GivenRows(given, e) \in Seq(RowLocks)
  BY <1>3, <1>4, ConcatProperties
<1>6. ASSUME NEW locks, Covered(GivenRows(given, e), locks)
      PROVE  Share(given.role) \in locks
  <2>1. Covered(<<Share(given.role)>>, locks)
    BY <1>3, <1>4, <1>6, CoveredParts
  <2> QED
    BY <2>1 DEF Covered
<1> QED
  BY <1>5, <1>6

\* What an operation has locked once it has locked its rows.
HasLocks(op, locks) ==
    /\ op.kind \in UserKinds \ {"overrides"} => Update(op.user) \in locks
    /\ op.kind \in {"assign", "provision"} => Share(op.given.role) \in locks
    /\ op.kind = "link" => Update(op.employee) \in locks
    /\ op.kind = "create" =>
         /\ op.employee # None => Update(op.employee) \in locks
         /\ op.given # None => Share(op.given.role) \in locks
    /\ op.kind = "terminate" =>
         /\ Update(op.employee) \in locks
         /\ AccountOf(op.employee) # {} => \E u \in AccountOf(op.employee) : Update(u) \in locks
    /\ op.kind \in RoleKinds => Update(op.role) \in locks
    /\ op.kind = "transfer" =>
         /\ Update(op.by) \in locks
         /\ op.role # None => Share(op.role) \in locks

\* The rows of an operation are rows, and locking them gives it its locks.
RowsSound(op) ==
    /\ Rows(op) \in Seq(RowLocks)
    /\ \A locks : Covered(Rows(op), locks) => HasLocks(op, locks)

LEMMA RowsOfUserOperation ==
    ASSUME AccessAssumption, TypeOK, NEW op \in Operations,
           op.kind \in UserKinds
    PROVE  RowsSound(op)
<1> USE DEF UserKinds, RoleKinds
<1>0. Operands(op)
  BY OperandsOf
<1>1. op.user \in Users /\ op.user \in LockRows /\ EmployeeOf(op.user) \in Employees \cup {None}
  BY <1>0 DEF Operands, LockRows, EmployeeOf, TypeOK, Account
<1>2. <<Update(op.user)>> \in Seq(RowLocks)
  BY <1>1, LocksAreTyped
<1>3. \A locks : Covered(<<Update(op.user)>>, locks) => Update(op.user) \in locks
  BY DEF Covered
<1>4. CASE op.kind \in {"assign", "provision"}
  <2> DEFINE rest == GivenRows(op.given, EmployeeOf(op.user))
  <2>1. Rows(op) = <<Update(op.user)>> \o rest
    BY <1>4 DEF Rows
  <2>2. /\ rest \in Seq(RowLocks)
        /\ \A locks : Covered(rest, locks) => Share(op.given.role) \in locks
    BY <1>0, <1>1, <1>4, RowsOfGiven DEF Operands
  <2>3. Rows(op) \in Seq(RowLocks)
    BY <1>2, <2>1, <2>2, ConcatProperties
  <2>4. ASSUME NEW locks, Covered(Rows(op), locks)
        PROVE  Update(op.user) \in locks /\ Share(op.given.role) \in locks
    BY <1>2, <1>3, <2>1, <2>2, <2>4, CoveredParts
  <2> QED
    BY <1>4, <2>3, <2>4 DEF RowsSound, HasLocks
<1>5. CASE op.kind \in {"revoke", "update"}
  <2>1. Rows(op) = <<Update(op.user)>>
    BY <1>5 DEF Rows
  <2> QED
    BY <1>2, <1>3, <1>5, <2>1 DEF RowsSound, HasLocks
<1>6. CASE op.kind = "link"
  <2>1. Rows(op) = <<Update(op.user), Update(op.employee)>>
    BY <1>6 DEF Rows
  <2>2. op.employee \in LockRows
    BY <1>0, <1>6 DEF Operands, LockRows
  <2>3. Rows(op) \in Seq(RowLocks)
    BY <1>1, <2>1, <2>2, LocksAreTyped
  <2>4. ASSUME NEW locks, Covered(Rows(op), locks)
        PROVE  Update(op.user) \in locks /\ Update(op.employee) \in locks
    BY <2>1, <2>4 DEF Covered
  <2> QED
    BY <1>6, <2>3, <2>4 DEF RowsSound, HasLocks
<1>7. CASE op.kind = "unlink"
  <2> DEFINE rest == Optional({EmployeeOf(op.user)} \ {None})
  <2>1. Rows(op) = <<Update(op.user)>> \o rest
    BY <1>7 DEF Rows
  <2>2. rest \in Seq(RowLocks)
    BY <1>1, OptionalIs DEF LockRows
  <2>3. Rows(op) \in Seq(RowLocks)
    BY <1>2, <2>1, <2>2, ConcatProperties
  <2>4. ASSUME NEW locks, Covered(Rows(op), locks)
        PROVE  Update(op.user) \in locks
    BY <1>2, <1>3, <2>1, <2>2, <2>4, CoveredParts
  <2> QED
    BY <1>7, <2>3, <2>4 DEF RowsSound, HasLocks
<1>8. CASE op.kind = "overrides"
  <2>1. Rows(op) = <<>>
    BY <1>8 DEF Rows
  <2> QED
    BY <1>8, <2>1, LocksAreTyped DEF RowsSound, HasLocks
<1>9. CASE op.kind = "transfer"
  <2> DEFINE both == <<Update(op.by), Update(op.user)>>
             rest == IF op.role = None THEN <<>> ELSE <<Share(op.role)>>
  <2>1. Rows(op) = both \o rest
    BY <1>9 DEF Rows
  <2>2. both \in Seq(RowLocks)
    BY <1>0, <1>1, LocksAreTyped DEF Operands, LockRows
  <2>3. rest \in Seq(RowLocks)
    BY <1>0, <1>9, LocksAreTyped DEF Operands, LockRows, Catalog
  <2>4. Rows(op) \in Seq(RowLocks)
    BY <2>1, <2>2, <2>3, ConcatProperties
  <2>5. ASSUME NEW locks, Covered(Rows(op), locks)
        PROVE  /\ Update(op.by) \in locks /\ Update(op.user) \in locks
               /\ op.role # None => Share(op.role) \in locks
    <3>1. Covered(both, locks) /\ Covered(rest, locks)
      BY <2>1, <2>2, <2>3, <2>5, CoveredParts
    <3>2. Update(op.by) \in locks /\ Update(op.user) \in locks
      BY <3>1 DEF Covered
    <3>3. op.role # None => Share(op.role) \in locks
      BY <3>1 DEF Covered
    <3> QED
      BY <3>2, <3>3
  <2> QED
    BY <1>9, <2>4, <2>5 DEF RowsSound, HasLocks
<1> QED
  BY <1>4, <1>5, <1>6, <1>7, <1>8, <1>9

LEMMA RowsOfOperation ==
    ASSUME AccessAssumption, TypeOK, NEW op \in Operations
    PROVE  RowsSound(op)
<1> USE DEF RoleKinds
<1>0. Operands(op)
  BY OperandsOf
<1>1. CASE op.kind = "create"
  <2> DEFINE first == Optional({op.employee} \ {None})
             rest == IF op.given = None THEN <<>> ELSE GivenRows(op.given, op.employee)
  <2>1. Rows(op) = first \o rest
    BY <1>1 DEF Rows
  <2>2. op.employee \in Employees \cup {None} /\ op.given \in Given \cup {None}
    BY <1>0, <1>1 DEF Operands
  <2>3. /\ first \in Seq(RowLocks)
        /\ op.employee # None => first = <<Update(op.employee)>>
    BY <2>2, OptionalIs DEF LockRows
  <2>4. /\ rest \in Seq(RowLocks)
        /\ \A locks : op.given # None /\ Covered(rest, locks) => Share(op.given.role) \in locks
    BY <2>2, RowsOfGiven, LocksAreTyped
  <2>5. Rows(op) \in Seq(RowLocks)
    BY <2>1, <2>3, <2>4, ConcatProperties
  <2>6. ASSUME NEW locks, Covered(Rows(op), locks)
        PROVE  /\ op.employee # None => Update(op.employee) \in locks
               /\ op.given # None => Share(op.given.role) \in locks
    <3>1. Covered(first, locks) /\ Covered(rest, locks)
      <4>1. first \in Seq(RowLocks) /\ rest \in Seq(RowLocks)
        BY <2>3, <2>4
      <4>2. Covered(first \o rest, locks)
        BY <2>1, <2>6
      <4> HIDE DEF first, rest
      <4> QED
        BY <4>1, <4>2, CoveredParts
    <3>2. op.employee # None => Update(op.employee) \in locks
      BY <3>1, <2>3 DEF Covered
    <3> QED
      BY <3>1, <3>2, <2>4
  <2> QED
    BY <1>1, <2>5, <2>6 DEF RowsSound, HasLocks, UserKinds
<1>2. CASE op.kind = "terminate"
  <2> DEFINE e == op.employee
             rest == Optional(AccountOf(e))
  <2>1. Rows(op) = <<Update(e)>> \o rest
    BY <1>2 DEF Rows
  <2>2. e \in LockRows /\ AccountOf(e) \in SUBSET LockRows
    BY <1>0, <1>2 DEF Operands, LockRows, AccountOf
  <2>3. <<Update(e)>> \in Seq(RowLocks) /\ rest \in Seq(RowLocks)
    BY <2>2, LocksAreTyped, OptionalIs
  <2>4. Rows(op) \in Seq(RowLocks)
    BY <2>1, <2>3, ConcatProperties
  <2>5. ASSUME NEW locks, Covered(Rows(op), locks)
        PROVE  /\ Update(e) \in locks
               /\ AccountOf(e) # {} => \E u \in AccountOf(e) : Update(u) \in locks
    <3>1. Covered(<<Update(e)>>, locks) /\ Covered(rest, locks)
      BY <2>1, <2>3, <2>5, CoveredParts
    <3>2. Update(e) \in locks
      BY <3>1 DEF Covered
    <3>3. ASSUME AccountOf(e) # {}
          PROVE  \E u \in AccountOf(e) : Update(u) \in locks
      <4>1. PICK u \in AccountOf(e) : rest = <<Update(u)>>
        BY <2>2, <3>3, OptionalIs
      <4> QED
        BY <3>1, <4>1 DEF Covered
    <3> QED
      BY <3>2, <3>3
  <2> QED
    BY <1>2, <2>4, <2>5 DEF RowsSound, HasLocks, UserKinds
<1>3. CASE op.kind = "reinstate"
  <2>1. Rows(op) = <<Update(op.employee)>> /\ op.employee \in LockRows
    BY <1>0, <1>3 DEF Rows, Operands, LockRows
  <2> QED
    BY <1>3, <2>1, LocksAreTyped DEF RowsSound, HasLocks, UserKinds
<1>4. CASE op.kind \in RoleKinds
  <2>1. Rows(op) = <<Update(op.role)>> /\ op.role \in LockRows
    BY <1>0, <1>4 DEF Rows, Operands, LockRows
  <2>2. \A locks : Covered(Rows(op), locks) => Update(op.role) \in locks
    BY <2>1 DEF Covered
  <2> QED
    BY <1>4, <2>1, <2>2, LocksAreTyped DEF RowsSound, HasLocks, UserKinds
<1> QED
  BY <1>0, <1>1, <1>2, <1>3, <1>4, RowsOfUserOperation DEF Operands

-----------------------------------------------------------------------------
(* What a write can change                                                 *)

\* A write stays within the locks of its session: it touches accounts that
\* exist only under their lock, links and ends only employees it has locked,
\* with the accounts of those whose employment it ends, and gives only roles
\* it shares.
Covers(s) ==
    /\ \A u \in Users : account'[u] # account[u] \/ held'[u] # held[u] =>
         Update(u) \in txn[s].locks \/ account[u] = None
    /\ \A u \in Users : EmployeeOf(u)' \in {EmployeeOf(u), None}
                        \/ Update(EmployeeOf(u)') \in txn[s].locks
    /\ \A e \in terminated' \ terminated :
         /\ Update(e) \in txn[s].locks
         /\ \A u \in AccountOf(e) : Update(u) \in txn[s].locks
    /\ \A r \in Catalog : catalog'[r] # catalog[r] => Update(r) \in txn[s].locks
    /\ \A u \in Users : held'[u] # held[u] /\ held'[u] # None /\ held'[u].role \in Roles =>
         Share(held'[u].role) \in txn[s].locks
    /\ \A u \in Users : account[u] # None => account'[u] # None

\* The part of CompanySound about one account.
Sound(u) ==
    /\ account[u] # None =>
         /\ account[u].staged <=> held[u] = None
         /\ account[u].login => ~account[u].staged
         /\ EmployeeOf(u) \in terminated => ~account[u].login /\ held[u] = None
    /\ held[u] # None =>
         /\ ~catalog[held[u].role].archived
         /\ Holds(u, Driver) => EmployeeOf(u) # None

LEMMA SoundIsStanding ==
    (\A u \in Users : Sound(u)) <=> AccessNeedsStanding /\ RolesHeldStand
BY DEF Sound, AccessNeedsStanding, RolesHeldStand

\* What a write is to show.
WriteSound(s) == TypeOK' /\ (\A u \in Users : Sound(u)') /\ OneAccount' /\ Covers(s)

\* The request that a session is about to carry out.
LEMMA Deciding ==
    ASSUME AccessInv, NEW s \in Sessions, txn[s] # None
    PROVE  /\ txn[s] \in Transactions /\ txn[s].op \in Operations /\ Operands(txn[s].op)
           /\ account[txn[s].op.by] # None
           /\ txn[s].op.kind \in UserKinds =>
                account[txn[s].op.user] # None /\ account[txn[s].op.user] \in Account
           /\ txn[s].ready => Ready(txn[s])
           /\ \A u \in Users : Sound(u)
<1>1. txn[s] \in Transactions
  BY DEF AccessInv, Typed
<1>2. txn[s].op \in Operations
  BY <1>1 DEF Transactions
<1>3. Operands(txn[s].op)
  BY <1>2, OperandsOf
<1>4. account[txn[s].op.by] # None /\ (txn[s].op \in OnUser => account[txn[s].op.user] # None)
  BY DEF AccessInv, RequestsSound, PartiesExist
<1>5. txn[s].op.kind \in UserKinds => account[txn[s].op.user] \in Account
  BY <1>3, <1>4 DEF AccessInv, Typed, TypeOK, Operands
<1>6. txn[s].ready => Ready(txn[s])
  BY DEF AccessInv, RequestsSound, ReadyHolds
<1>7. \A u \in Users : Sound(u)
  BY SoundIsStanding DEF AccessInv, CompanySound
<1> QED
  BY <1>1, <1>2, <1>3, <1>4, <1>5, <1>6, <1>7 DEF Operands

\* A write to one account, w, under its lock.
WritesAccount(s, w) ==
    /\ UNCHANGED <<extra, catalog, terminated, requests>>
    /\ account' \in [Users -> Account \cup {None}]
    /\ held' \in [Users -> Assignment \cup {None}]
    /\ \A u \in Users \ {w} : account'[u] = account[u] /\ held'[u] = held[u]
    /\ account[w] = None \/ (Update(w) \in txn[s].locks /\ account'[w] # None)
    /\ \/ EmployeeOf(w)' \in {EmployeeOf(w), None}
       \/ /\ Update(EmployeeOf(w)') \in txn[s].locks
          /\ \A u \in Users : EmployeeOf(u) # EmployeeOf(w)'
    /\ held'[w] # held[w] /\ held'[w] # None => Share(held'[w].role) \in txn[s].locks

LEMMA OneAccountWritten ==
    ASSUME AccessInv, NEW s \in Sessions, NEW w \in Users,
           WritesAccount(s, w), Sound(w)'
    PROVE  WriteSound(s)
<1>1. TypeOK /\ OneAccount /\ (\A u \in Users : Sound(u))
  BY SoundIsStanding DEF AccessInv, Typed, CompanySound
<1>2. TypeOK'
  BY <1>1 DEF WritesAccount, TypeOK
<1>3. \A u \in Users \ {w} : EmployeeOf(u)' = EmployeeOf(u)
  BY DEF WritesAccount, EmployeeOf
<1>4. ASSUME NEW u \in Users
      PROVE  Sound(u)'
  <2>1. CASE u = w
    BY <2>1
  <2>2. CASE u # w
    BY <1>1, <1>3, <2>2 DEF WritesAccount, Sound, Holds
  <2> QED
    BY <2>1, <2>2
<1>5. OneAccount'
  <2> SUFFICES ASSUME NEW u \in Users, NEW v \in Users,
                      EmployeeOf(u)' # None, EmployeeOf(u)' = EmployeeOf(v)'
               PROVE  u = v
    BY DEF OneAccount
  <2>1. CASE EmployeeOf(w)' \in {EmployeeOf(w), None}
    BY <1>1, <1>3, <2>1 DEF OneAccount
  <2>2. CASE \A x \in Users : EmployeeOf(x) # EmployeeOf(w)'
    BY <1>1, <1>3, <2>2 DEF OneAccount
  <2> QED
    BY <2>1, <2>2 DEF WritesAccount
<1>6. Covers(s)
  <2>1. \A u \in Users : EmployeeOf(u)' \in {EmployeeOf(u), None}
                         \/ Update(EmployeeOf(u)') \in txn[s].locks
    BY <1>3 DEF WritesAccount
  <2> QED
    BY <2>1 DEF WritesAccount, Covers
<1> QED
  BY <1>2, <1>4, <1>5, <1>6 DEF WriteSound

LEMMA AssignSound ==
    ASSUME AccessAssumption, AccessInv, NEW s \in Sessions, Assign(s)
    PROVE  WriteSound(s)
<1>1. /\ txn[s] # None /\ txn[s].ready /\ txn[s].op.kind = "assign"
      /\ held' = [held EXCEPT ![txn[s].op.user] = txn[s].op.given]
      /\ UNCHANGED <<account, extra, catalog, terminated, requests>>
  BY DEF Assign, Finish
<1>2. /\ txn[s].op.user \in Users /\ txn[s].op.given \in Given
      /\ account[txn[s].op.user] # None /\ ReadyAssign(txn[s]) /\ TypeOK
  BY <1>1, Deciding DEF Operands, Ready, UserKinds, AccessInv, Typed
<1>3. PICK w \in Users, g \in Given : w = txn[s].op.user /\ g = txn[s].op.given
  BY <1>2
<1>4. g \in Assignment /\ g # None
  BY DEF Given, AccessAssumption
<1>5. held'[w] = g /\ \A u \in Users \ {w} : held'[u] = held[u]
  BY <1>1, <1>2, <1>3 DEF TypeOK
<1>6. /\ Update(w) \in txn[s].locks /\ Share(g.role) \in txn[s].locks
      /\ ~catalog[g.role].archived /\ ~account[w].staged
      /\ g.role = Driver => EmployeeOf(w) \in Drivers
      /\ EmployeeOf(w) \notin terminated
  BY <1>2, <1>3 DEF ReadyAssign, RoleFits
<1>7. EmployeeOf(w)' = EmployeeOf(w)
  BY <1>1 DEF EmployeeOf
<1>8. WritesAccount(s, w)
  <2>1. UNCHANGED <<extra, catalog, terminated, requests>>
    BY <1>1
  <2>2. account' \in [Users -> Account \cup {None}]
    BY <1>1, <1>2 DEF TypeOK
  <2>3. held' \in [Users -> Assignment \cup {None}]
    BY <1>1, <1>2, <1>3, <1>4 DEF TypeOK
  <2>4. account[w] = None \/ (Update(w) \in txn[s].locks /\ account'[w] # None)
    BY <1>1, <1>2, <1>3, <1>6
  <2>5. \/ EmployeeOf(w)' \in {EmployeeOf(w), None}
        \/ /\ Update(EmployeeOf(w)') \in txn[s].locks
           /\ \A u \in Users : EmployeeOf(u) # EmployeeOf(w)'
    BY <1>7
  <2>6. held'[w] # held[w] /\ held'[w] # None => Share(held'[w].role) \in txn[s].locks
    BY <1>5, <1>6
  <2>7. \A u \in Users \ {w} : account'[u] = account[u] /\ held'[u] = held[u]
    BY <1>1, <1>5
  <2> QED
    BY <2>1, <2>2, <2>3, <2>4, <2>5, <2>6, <2>7 DEF WritesAccount
<1>9. Sound(w)'
  BY <1>1, <1>4, <1>5, <1>6, <1>7 DEF Sound, Holds, AccessAssumption
<1> QED
  BY <1>8, <1>9, OneAccountWritten

LEMMA ProvisionSound ==
    ASSUME AccessAssumption, AccessInv, NEW s \in Sessions, Provision(s)
    PROVE  WriteSound(s)
<1>1. /\ txn[s] # None /\ txn[s].ready /\ txn[s].op.kind = "provision"
      /\ held' = [held EXCEPT ![txn[s].op.user] = txn[s].op.given]
      /\ account' = [account EXCEPT ![txn[s].op.user].staged = FALSE,
                                    ![txn[s].op.user].login = txn[s].op.login]
      /\ UNCHANGED <<extra, catalog, terminated, requests>>
  BY DEF Provision, Finish
<1>2. /\ txn[s].op.user \in Users /\ txn[s].op.given \in Given /\ txn[s].op.login \in BOOLEAN
      /\ account[txn[s].op.user] # None /\ account[txn[s].op.user] \in Account
      /\ ReadyProvision(txn[s]) /\ TypeOK
  BY <1>1, Deciding DEF Operands, Ready, UserKinds, AccessInv, Typed
<1>3. PICK w \in Users, g \in Given, l \in BOOLEAN :
         w = txn[s].op.user /\ g = txn[s].op.given /\ l = txn[s].op.login
  BY <1>2
<1>4. g \in Assignment /\ g # None
  BY DEF Given, AccessAssumption
<1>5. held'[w] = g /\ \A u \in Users \ {w} : held'[u] = held[u] /\ account'[u] = account[u]
  BY <1>1, <1>2, <1>3 DEF TypeOK
<1>6. account'[w] = [account[w] EXCEPT !.staged = FALSE, !.login = l]
  BY <1>1, <1>2, <1>3 DEF TypeOK
<1>7. /\ account'[w] \in Account /\ account'[w] # None /\ ~account'[w].staged
      /\ account'[w].employee = account[w].employee
  BY <1>2, <1>3, <1>6 DEF Account, AccessAssumption
<1>8. /\ Update(w) \in txn[s].locks /\ Share(g.role) \in txn[s].locks
      /\ ~catalog[g.role].archived
      /\ g.role = Driver => EmployeeOf(w) \in Drivers
      /\ EmployeeOf(w) \notin terminated
  BY <1>2, <1>3 DEF ReadyProvision, RoleFits
<1>9. EmployeeOf(w)' = EmployeeOf(w)
  BY <1>2, <1>3, <1>7 DEF EmployeeOf
<1>10. account' \in [Users -> Account \cup {None}]
  BY <1>1, <1>2, <1>3, <1>5, <1>7 DEF TypeOK
<1>11. WritesAccount(s, w)
  <2>1. UNCHANGED <<extra, catalog, terminated, requests>>
    BY <1>1
  <2>2. account' \in [Users -> Account \cup {None}]
    BY <1>10
  <2>3. held' \in [Users -> Assignment \cup {None}]
    BY <1>1, <1>2, <1>3, <1>4 DEF TypeOK
  <2>4. account[w] = None \/ (Update(w) \in txn[s].locks /\ account'[w] # None)
    BY <1>7, <1>8
  <2>5. \/ EmployeeOf(w)' \in {EmployeeOf(w), None}
        \/ /\ Update(EmployeeOf(w)') \in txn[s].locks
           /\ \A u \in Users : EmployeeOf(u) # EmployeeOf(w)'
    BY <1>9
  <2>6. held'[w] # held[w] /\ held'[w] # None => Share(held'[w].role) \in txn[s].locks
    BY <1>5, <1>8
  <2>7. \A u \in Users \ {w} : account'[u] = account[u] /\ held'[u] = held[u]
    BY <1>5
  <2> QED
    BY <2>1, <2>2, <2>3, <2>4, <2>5, <2>6, <2>7 DEF WritesAccount
<1>12. Sound(w)'
  BY <1>1, <1>4, <1>5, <1>7, <1>8, <1>9 DEF Sound, Holds, AccessAssumption
<1> QED
  BY <1>11, <1>12, OneAccountWritten

LEMMA RevokeSound ==
    ASSUME AccessAssumption, AccessInv, NEW s \in Sessions, Revoke(s)
    PROVE  WriteSound(s)
<1>1. /\ txn[s] # None /\ txn[s].ready /\ txn[s].op.kind = "revoke"
      /\ held' = [held EXCEPT ![txn[s].op.user] = None]
      /\ account' = [account EXCEPT ![txn[s].op.user].staged = TRUE]
      /\ UNCHANGED <<extra, catalog, terminated, requests>>
  BY DEF Revoke, Finish
<1>2. /\ txn[s].op.user \in Users
      /\ account[txn[s].op.user] # None /\ account[txn[s].op.user] \in Account
      /\ ReadyRevoke(txn[s]) /\ TypeOK
  BY <1>1, Deciding DEF Operands, Ready, UserKinds, AccessInv, Typed
<1>3. PICK w \in Users : w = txn[s].op.user
  BY <1>2
<1>4. held'[w] = None /\ \A u \in Users \ {w} : held'[u] = held[u] /\ account'[u] = account[u]
  BY <1>1, <1>2, <1>3 DEF TypeOK
<1>5. account'[w] = [account[w] EXCEPT !.staged = TRUE]
  BY <1>1, <1>2, <1>3 DEF TypeOK
<1>6. Update(w) \in txn[s].locks /\ ~account[w].login
  BY <1>2, <1>3 DEF ReadyRevoke
<1>7. /\ account'[w] \in Account /\ account'[w] # None
      /\ account'[w].staged /\ ~account'[w].login
      /\ account'[w].employee = account[w].employee
  BY <1>2, <1>3, <1>5, <1>6 DEF Account, AccessAssumption
<1>8. EmployeeOf(w)' = EmployeeOf(w)
  BY <1>2, <1>3, <1>7 DEF EmployeeOf
<1>9. account' \in [Users -> Account \cup {None}]
  BY <1>1, <1>2, <1>3, <1>4, <1>7 DEF TypeOK
<1>10. WritesAccount(s, w)
  <2>1. UNCHANGED <<extra, catalog, terminated, requests>>
    BY <1>1
  <2>2. account' \in [Users -> Account \cup {None}]
    BY <1>9
  <2>3. held' \in [Users -> Assignment \cup {None}]
    BY <1>1, <1>2, <1>3 DEF TypeOK
  <2>4. account[w] = None \/ (Update(w) \in txn[s].locks /\ account'[w] # None)
    BY <1>6, <1>7
  <2>5. \/ EmployeeOf(w)' \in {EmployeeOf(w), None}
        \/ /\ Update(EmployeeOf(w)') \in txn[s].locks
           /\ \A u \in Users : EmployeeOf(u) # EmployeeOf(w)'
    BY <1>8
  <2>6. held'[w] # held[w] /\ held'[w] # None => Share(held'[w].role) \in txn[s].locks
    BY <1>4
  <2>7. \A u \in Users \ {w} : account'[u] = account[u] /\ held'[u] = held[u]
    BY <1>4
  <2> QED
    BY <2>1, <2>2, <2>3, <2>4, <2>5, <2>6, <2>7 DEF WritesAccount
<1>11. Sound(w)'
  BY <1>4, <1>7 DEF Sound
<1> QED
  BY <1>10, <1>11, OneAccountWritten

LEMMA CreateSound ==
    ASSUME AccessAssumption, AccessInv, NEW s \in Sessions, Create(s)
    PROVE  WriteSound(s)
<1>1. /\ txn[s] # None /\ txn[s].ready /\ txn[s].op.kind = "create"
      /\ account[txn[s].op.user] = None
      /\ account' = [account EXCEPT ![txn[s].op.user] =
                       [active |-> txn[s].op.active, login |-> txn[s].op.login,
                        staged |-> txn[s].op.given = None, employee |-> txn[s].op.employee]]
      /\ held' = [held EXCEPT ![txn[s].op.user] = txn[s].op.given]
      /\ UNCHANGED <<extra, catalog, terminated, requests>>
  BY DEF Create, Finish
<1>2. /\ txn[s].op.user \in Users /\ txn[s].op.given \in Given \cup {None}
      /\ txn[s].op.employee \in Employees \cup {None}
      /\ txn[s].op.login \in BOOLEAN /\ txn[s].op.active \in BOOLEAN
      /\ ReadyCreate(txn[s]) /\ TypeOK
  BY <1>1, Deciding DEF Operands, Ready, AccessInv, Typed
<1>3. PICK w \in Users, g \in Given \cup {None}, e \in Employees \cup {None},
           l \in BOOLEAN, a \in BOOLEAN, staged \in BOOLEAN :
         /\ w = txn[s].op.user /\ g = txn[s].op.given /\ e = txn[s].op.employee
         /\ l = txn[s].op.login /\ a = txn[s].op.active /\ staged = (txn[s].op.given = None)
  BY <1>2
<1>4. g \in Assignment \cup {None}
  BY DEF Given
<1>5. held'[w] = g /\ \A u \in Users \ {w} : held'[u] = held[u] /\ account'[u] = account[u]
  BY <1>1, <1>2, <1>3 DEF TypeOK
<1>6. account'[w] = [active |-> a, login |-> l, staged |-> staged, employee |-> e]
  BY <1>1, <1>2, <1>3 DEF TypeOK
<1>7. /\ account'[w] \in Account /\ account'[w] # None /\ account'[w].employee = e
      /\ account'[w].staged <=> g = None
      /\ account'[w].login => l
  <2>1. account'[w] \in Account
    BY <1>6 DEF Account
  <2>2. staged <=> g = None
    BY <1>3
  <2>3. account'[w].staged = staged /\ account'[w].login = l /\ account'[w].employee = e
    BY <1>6
  <2> QED
    BY <2>1, <2>2, <2>3 DEF AccessAssumption
<1>8. /\ e # None => /\ Update(e) \in txn[s].locks /\ e \notin terminated
                     /\ \A u \in Users : EmployeeOf(u) # e
      /\ g = None => ~l
      /\ g # None => /\ Share(g.role) \in txn[s].locks /\ ~catalog[g.role].archived
                     /\ g.role = Driver => e \in Drivers
  BY <1>2, <1>3 DEF ReadyCreate, EmployeeFree, RoleFits, AccountOf
<1>9. EmployeeOf(w)' = e
  BY <1>7 DEF EmployeeOf
<1>10. account' \in [Users -> Account \cup {None}]
  BY <1>1, <1>2, <1>3, <1>5, <1>7 DEF TypeOK
<1>11. WritesAccount(s, w)
  <2>1. UNCHANGED <<extra, catalog, terminated, requests>>
    BY <1>1
  <2>2. account' \in [Users -> Account \cup {None}]
    BY <1>10
  <2>3. held' \in [Users -> Assignment \cup {None}]
    BY <1>1, <1>2, <1>3, <1>4 DEF TypeOK
  <2>4. account[w] = None \/ (Update(w) \in txn[s].locks /\ account'[w] # None)
    BY <1>1, <1>3
  <2>5. \/ EmployeeOf(w)' \in {EmployeeOf(w), None}
        \/ /\ Update(EmployeeOf(w)') \in txn[s].locks
           /\ \A u \in Users : EmployeeOf(u) # EmployeeOf(w)'
    BY <1>8, <1>9
  <2>6. held'[w] # held[w] /\ held'[w] # None => Share(held'[w].role) \in txn[s].locks
    BY <1>5, <1>8
  <2>7. \A u \in Users \ {w} : account'[u] = account[u] /\ held'[u] = held[u]
    BY <1>5
  <2> QED
    BY <2>1, <2>2, <2>3, <2>4, <2>5, <2>6, <2>7 DEF WritesAccount
<1>12. Sound(w)'
  <2>1. e \notin terminated
    BY <1>2, <1>8 DEF TypeOK, AccessAssumption
  <2>2. g # None /\ g.role = Driver => e # None
    BY <1>8 DEF AccessAssumption
  <2> QED
    BY <1>1, <1>5, <1>7, <1>8, <1>9, <2>1, <2>2 DEF Sound, Holds
<1> QED
  BY <1>11, <1>12, OneAccountWritten

LEMMA LinkSound ==
    ASSUME AccessAssumption, AccessInv, NEW s \in Sessions, Link(s)
    PROVE  WriteSound(s)
<1>1. /\ txn[s] # None /\ txn[s].ready /\ txn[s].op.kind \in {"link", "unlink"}
      /\ account' = [account EXCEPT ![txn[s].op.user].employee =
                       IF txn[s].op.kind = "link" THEN txn[s].op.employee ELSE None]
      /\ UNCHANGED <<held, extra, catalog, terminated, requests>>
  BY DEF Link, Finish
<1>2. /\ txn[s].op.user \in Users /\ TypeOK
      /\ account[txn[s].op.user] # None /\ account[txn[s].op.user] \in Account
      /\ \A u \in Users : Sound(u)
      /\ txn[s].op.kind = "link" => ReadyLink(txn[s]) /\ txn[s].op.employee \in Employees
      /\ txn[s].op.kind = "unlink" => ReadyUnlink(txn[s])
  BY <1>1, Deciding DEF Operands, Ready, UserKinds, AccessInv, Typed
<1>3. PICK w \in Users, e \in Employees \cup {None} :
         /\ w = txn[s].op.user
         /\ e = IF txn[s].op.kind = "link" THEN txn[s].op.employee ELSE None
  BY <1>2
<1>4. \A u \in Users \ {w} : account'[u] = account[u]
  BY <1>1, <1>2, <1>3 DEF TypeOK
<1>5. account'[w] = [account[w] EXCEPT !.employee = e]
  BY <1>1, <1>2, <1>3 DEF TypeOK
<1>6. /\ account'[w] \in Account /\ account'[w] # None
      /\ account'[w].staged = account[w].staged /\ account'[w].login = account[w].login
      /\ account'[w].employee = e
  BY <1>2, <1>3, <1>5 DEF Account, AccessAssumption
<1>7. /\ Update(w) \in txn[s].locks
      /\ e = None => ~Holds(w, Driver)
      /\ e # None => /\ Update(e) \in txn[s].locks /\ e \notin terminated
                     /\ \A u \in Users : EmployeeOf(u) # e
  <2>1. CASE txn[s].op.kind = "link"
    <3>1. e = txn[s].op.employee /\ e \in Employees /\ e # None
      BY <1>2, <1>3, <2>1 DEF AccessAssumption
    <3> QED
      BY <3>1, <1>2, <1>3, <2>1 DEF ReadyLink, EmployeeFree, AccountOf
  <2>2. CASE txn[s].op.kind = "unlink"
    BY <1>2, <1>3, <2>2 DEF ReadyUnlink
  <2> QED
    BY <1>1, <2>1, <2>2
<1>8. EmployeeOf(w)' = e
  BY <1>6 DEF EmployeeOf
<1>9. account' \in [Users -> Account \cup {None}]
  BY <1>1, <1>2, <1>3, <1>4, <1>6 DEF TypeOK
<1>10. WritesAccount(s, w)
  <2>1. UNCHANGED <<extra, catalog, terminated, requests>>
    BY <1>1
  <2>2. account' \in [Users -> Account \cup {None}]
    BY <1>9
  <2>3. held' \in [Users -> Assignment \cup {None}]
    BY <1>1, <1>2 DEF TypeOK
  <2>4. account[w] = None \/ (Update(w) \in txn[s].locks /\ account'[w] # None)
    BY <1>6, <1>7
  <2>5. \/ EmployeeOf(w)' \in {EmployeeOf(w), None}
        \/ /\ Update(EmployeeOf(w)') \in txn[s].locks
           /\ \A u \in Users : EmployeeOf(u) # EmployeeOf(w)'
    BY <1>7, <1>8
  <2>6. held'[w] # held[w] /\ held'[w] # None => Share(held'[w].role) \in txn[s].locks
    BY <1>1
  <2>7. \A u \in Users \ {w} : account'[u] = account[u] /\ held'[u] = held[u]
    BY <1>1, <1>4
  <2> QED
    BY <2>1, <2>2, <2>3, <2>4, <2>5, <2>6, <2>7 DEF WritesAccount
<1>11. Sound(w)'
  <2>1. e \notin terminated
    BY <1>2, <1>7 DEF TypeOK, AccessAssumption
  <2> QED
    BY <1>1, <1>2, <1>3, <1>6, <1>7, <1>8, <2>1 DEF Sound, Holds
<1> QED
  BY <1>10, <1>11, OneAccountWritten

LEMMA UpdateSound ==
    ASSUME AccessAssumption, AccessInv, NEW s \in Sessions, UpdateUser(s)
    PROVE  WriteSound(s)
<1>1. /\ txn[s] # None /\ txn[s].ready /\ txn[s].op.kind = "update"
      /\ account' = [account EXCEPT ![txn[s].op.user] =
                       IF txn[s].op.field = "login" THEN [@ EXCEPT !.login = txn[s].op.value]
                                                    ELSE [@ EXCEPT !.active = txn[s].op.value]]
      /\ UNCHANGED <<held, extra, catalog, terminated, requests>>
  BY DEF UpdateUser, Finish
<1>2. /\ txn[s].op.user \in Users /\ txn[s].op.value \in BOOLEAN /\ TypeOK
      /\ account[txn[s].op.user] # None /\ account[txn[s].op.user] \in Account
      /\ ReadyUpdate(txn[s]) /\ \A u \in Users : Sound(u)
  BY <1>1, Deciding DEF Operands, Ready, UserKinds, AccessInv, Typed
<1>3. PICK w \in Users, v \in BOOLEAN : w = txn[s].op.user /\ v = txn[s].op.value
  BY <1>2
<1>4. \A u \in Users \ {w} : account'[u] = account[u]
  BY <1>1, <1>2, <1>3 DEF TypeOK
<1>5. account'[w] = IF txn[s].op.field = "login" THEN [account[w] EXCEPT !.login = v]
                                                 ELSE [account[w] EXCEPT !.active = v]
  BY <1>1, <1>2, <1>3 DEF TypeOK
<1>6. /\ account'[w] \in Account /\ account'[w] # None
      /\ account'[w].staged = account[w].staged
      /\ account'[w].employee = account[w].employee
      /\ account'[w].login => account[w].login \/ (txn[s].op.field = "login" /\ v)
  <2>1. PICK x \in Account : x = account[w] /\ x # None
    BY <1>2, <1>3
  <2>2. CASE txn[s].op.field = "login"
    <3>1. account'[w] = [x EXCEPT !.login = v]
      BY <1>5, <2>1, <2>2
    <3> QED
      BY <2>1, <2>2, <3>1 DEF Account, AccessAssumption
  <2>3. CASE txn[s].op.field # "login"
    <3>1. account'[w] = [x EXCEPT !.active = v]
      BY <1>5, <2>1, <2>3
    <3> QED
      BY <2>1, <2>3, <3>1 DEF Account, AccessAssumption
  <2> QED
    BY <2>2, <2>3
<1>7. /\ Update(w) \in txn[s].locks
      /\ txn[s].op.field = "login" /\ v => ~account[w].staged /\ EmployeeOf(w) \notin terminated
  BY <1>2, <1>3 DEF ReadyUpdate
<1>8. EmployeeOf(w)' = EmployeeOf(w)
  BY <1>2, <1>3, <1>6 DEF EmployeeOf
<1>9. account' \in [Users -> Account \cup {None}]
  BY <1>1, <1>2, <1>3, <1>4, <1>6 DEF TypeOK
<1>10. WritesAccount(s, w)
  <2>1. UNCHANGED <<extra, catalog, terminated, requests>>
    BY <1>1
  <2>2. account' \in [Users -> Account \cup {None}]
    BY <1>9
  <2>3. held' \in [Users -> Assignment \cup {None}]
    BY <1>1, <1>2 DEF TypeOK
  <2>4. account[w] = None \/ (Update(w) \in txn[s].locks /\ account'[w] # None)
    BY <1>6, <1>7
  <2>5. \/ EmployeeOf(w)' \in {EmployeeOf(w), None}
        \/ /\ Update(EmployeeOf(w)') \in txn[s].locks
           /\ \A u \in Users : EmployeeOf(u) # EmployeeOf(w)'
    BY <1>8
  <2>6. held'[w] # held[w] /\ held'[w] # None => Share(held'[w].role) \in txn[s].locks
    BY <1>1
  <2>7. \A u \in Users \ {w} : account'[u] = account[u] /\ held'[u] = held[u]
    BY <1>1, <1>4
  <2> QED
    BY <2>1, <2>2, <2>3, <2>4, <2>5, <2>6, <2>7 DEF WritesAccount
<1>11. Sound(w)'
  BY <1>1, <1>2, <1>3, <1>6, <1>7, <1>8 DEF Sound, Holds
<1> QED
  BY <1>10, <1>11, OneAccountWritten

LEMMA TerminateSound ==
    ASSUME AccessAssumption, AccessInv, NEW s \in Sessions, Terminate(s)
    PROVE  WriteSound(s)
<1>1. txn[s] # None /\ txn[s].ready /\ txn[s].op.kind = "terminate"
  BY DEF Terminate, Finish
<1>2. /\ txn[s].op.employee \in Employees /\ ReadyTerminate(txn[s])
      /\ TypeOK /\ OneAccount /\ \A u \in Users : Sound(u)
  BY <1>1, Deciding DEF Operands, Ready, AccessInv, Typed, CompanySound
<1>3. PICK e \in Employees : e = txn[s].op.employee
  BY <1>2
<1>4. /\ Update(e) \in txn[s].locks
      /\ \A u \in AccountOf(e) : Update(u) \in txn[s].locks
  BY <1>2, <1>3 DEF ReadyTerminate
<1>5. {u \in AccountOf(e) : Update(u) \in txn[s].locks} = AccountOf(e)
  BY <1>4
<1>6. /\ terminated' = terminated \cup {e}
      /\ account' = [u \in Users |-> IF u \notin AccountOf(e) THEN account[u] ELSE
                       [account[u] EXCEPT !.active = FALSE, !.login = FALSE, !.staged = TRUE]]
      /\ held' = [u \in Users |-> IF u \in AccountOf(e) THEN None ELSE held[u]]
      /\ extra' = [u \in Users |-> IF u \in AccountOf(e) THEN {} ELSE extra[u]]
      /\ UNCHANGED <<catalog, requests>>
  BY <1>3, <1>5 DEF Terminate, Finish
<1>7. \A u \in AccountOf(e) : u \in Users /\ account[u] # None /\ account[u] \in Account
  BY <1>2 DEF AccountOf, EmployeeOf, TypeOK, AccessAssumption
<1>8. ASSUME NEW u \in AccountOf(e)
      PROVE  /\ account'[u] \in Account /\ account'[u] # None /\ held'[u] = None
             /\ account'[u].staged /\ ~account'[u].login
             /\ account'[u].employee = account[u].employee
  <2>1. account'[u] = [account[u] EXCEPT !.active = FALSE, !.login = FALSE, !.staged = TRUE]
    BY <1>6, <1>7
  <2>2. held'[u] = None
    BY <1>6, <1>7
  <2> QED
    <3>1. PICK x \in Account : x = account[u] /\ x # None
      BY <1>7
    <3>2. LET y == [x EXCEPT !.active = FALSE, !.login = FALSE, !.staged = TRUE]
          IN  y \in Account /\ y.staged /\ ~y.login /\ y.employee = x.employee
      BY <3>1 DEF Account
    <3>3. Account \cap {None} = {}
      BY DEF AccessAssumption
    <3> QED
      BY <3>1, <3>2, <3>3, <2>1, <2>2
<1>9. \A u \in Users \ AccountOf(e) : account'[u] = account[u] /\ held'[u] = held[u]
  BY <1>6
<1>10. ASSUME NEW u \in Users
       PROVE  EmployeeOf(u)' = EmployeeOf(u)
  <2>1. CASE u \in AccountOf(e)
    BY <1>7, <1>8, <2>1 DEF EmployeeOf
  <2>2. CASE u \notin AccountOf(e)
    BY <1>9, <2>2 DEF EmployeeOf
  <2> QED
    BY <2>1, <2>2
<1>11. TypeOK'
  <2>1. account' \in [Users -> Account \cup {None}]
    <3>1. \A u \in Users : account'[u] \in Account \cup {None}
      BY <1>2, <1>8, <1>9 DEF TypeOK
    <3> QED
      BY <3>1, <1>6
  <2>2. held' \in [Users -> Assignment \cup {None}]
    BY <1>2, <1>6 DEF TypeOK
  <2>3. extra' \in [Users -> SUBSET Perms]
    BY <1>2, <1>6 DEF TypeOK
  <2> QED
    BY <1>2, <1>6, <2>1, <2>2, <2>3 DEF TypeOK
<1>12. ASSUME NEW u \in Users
       PROVE  Sound(u)'
  <2>1. CASE u \in AccountOf(e)
    BY <1>8, <2>1 DEF Sound
  <2>2. CASE u \notin AccountOf(e)
    <3>1. EmployeeOf(u) # e
      BY <2>2 DEF AccountOf
    <3>2. EmployeeOf(u)' \in terminated' => EmployeeOf(u) \in terminated
      BY <3>1, <1>6, <1>10
    <3> QED
      BY <1>2, <1>6, <1>9, <1>10, <2>2, <3>2 DEF Sound, Holds
  <2> QED
    BY <2>1, <2>2
<1>13. OneAccount'
  BY <1>2, <1>10 DEF OneAccount
<1>14. Covers(s)
  <2>1. \A u \in Users : account'[u] # account[u] \/ held'[u] # held[u] =>
          Update(u) \in txn[s].locks
    BY <1>4, <1>9
  <2>2. \A u \in Users : held'[u] # held[u] => held'[u] = None
    BY <1>8, <1>9
  <2>3. \A u \in Users : account[u] # None => account'[u] # None
    BY <1>8, <1>9
  <2> QED
    BY <2>1, <2>2, <2>3, <1>4, <1>6, <1>10 DEF Covers
<1> QED
  BY <1>11, <1>12, <1>13, <1>14 DEF WriteSound

LEMMA ReinstateSound ==
    ASSUME AccessInv, NEW s \in Sessions, Reinstate(s)
    PROVE  WriteSound(s)
<1>1. /\ terminated' = terminated \ {txn[s].op.employee}
      /\ UNCHANGED <<account, held, extra, catalog, requests>>
  BY DEF Reinstate, Finish
<1>2. TypeOK /\ OneAccount /\ \A u \in Users : Sound(u)
  BY SoundIsStanding DEF AccessInv, Typed, CompanySound
<1>3. \A u \in Users : EmployeeOf(u)' = EmployeeOf(u)
  BY <1>1 DEF EmployeeOf
<1>4. TypeOK' /\ OneAccount'
  BY <1>1, <1>2, <1>3 DEF TypeOK, OneAccount
<1>5. \A u \in Users : Sound(u)'
  BY <1>1, <1>2, <1>3 DEF Sound, Holds
<1>6. Covers(s)
  BY <1>1, <1>3 DEF Covers
<1> QED
  BY <1>4, <1>5, <1>6 DEF WriteSound

LEMMA OverrideSound ==
    ASSUME AccessInv, NEW s \in Sessions, Override(s)
    PROVE  WriteSound(s)
<1>1. /\ txn[s] # None /\ txn[s].op.kind = "overrides"
      /\ extra' = [extra EXCEPT ![txn[s].op.user] = (@ \ txn[s].cleared) \cup txn[s].op.codes]
      /\ UNCHANGED <<account, held, catalog, terminated, requests>>
  BY DEF Override, Finish
<1>2. /\ TypeOK /\ OneAccount /\ \A u \in Users : Sound(u)
      /\ txn[s].op.codes \in SUBSET Perms
  BY <1>1, Deciding DEF Operands, AccessInv, Typed, CompanySound
<1>3. \A u \in Users : EmployeeOf(u)' = EmployeeOf(u)
  BY <1>1 DEF EmployeeOf
<1>4. OneAccount'
  BY <1>2, <1>3 DEF OneAccount
<1>5. extra' \in [Users -> SUBSET Perms]
  BY <1>1, <1>2 DEF TypeOK
<1>6. TypeOK'
  BY <1>1, <1>2, <1>5 DEF TypeOK
<1>7. \A u \in Users : Sound(u)'
  BY <1>1, <1>2, <1>3 DEF Sound, Holds
<1>8. Covers(s)
  BY <1>1, <1>3 DEF Covers
<1> QED
  BY <1>4, <1>6, <1>7, <1>8 DEF WriteSound

LEMMA EditRoleSound ==
    ASSUME AccessAssumption, AccessInv, NEW s \in Sessions, EditRole(s)
    PROVE  WriteSound(s)
<1>1. /\ txn[s] # None /\ txn[s].ready /\ txn[s].op.kind \in RoleKinds
      /\ catalog' = [catalog EXCEPT ![txn[s].op.role] =
           CASE txn[s].op.kind = "permissions" -> [@ EXCEPT !.perms = txn[s].op.codes]
             [] txn[s].op.kind = "activate" -> [@ EXCEPT !.active = txn[s].op.active]
             [] txn[s].op.kind = "archive" -> [@ EXCEPT !.archived = TRUE]]
      /\ UNCHANGED <<account, held, extra, terminated, requests>>
  BY DEF EditRole, Finish, RoleKinds
<1>2. /\ TypeOK /\ OneAccount /\ \A u \in Users : Sound(u)
      /\ txn[s].op.role \in Catalog /\ ReadyRole(txn[s])
      /\ txn[s].op.kind = "permissions" => txn[s].op.codes \in SUBSET Perms
      /\ txn[s].op.kind = "activate" => txn[s].op.active \in BOOLEAN
  BY <1>1, Deciding DEF Operands, Ready, RoleKinds, AccessInv, Typed, CompanySound
<1>3. PICK r \in Catalog : r = txn[s].op.role
  BY <1>2
<1>4. /\ \A q \in Catalog \ {r} : catalog'[q] = catalog[q]
      /\ txn[s].op.kind = "permissions" => catalog'[r] = [catalog[r] EXCEPT !.perms = txn[s].op.codes]
      /\ txn[s].op.kind = "activate" => catalog'[r] = [catalog[r] EXCEPT !.active = txn[s].op.active]
      /\ txn[s].op.kind = "archive" => catalog'[r] = [catalog[r] EXCEPT !.archived = TRUE]
  BY <1>1, <1>2, <1>3 DEF TypeOK
<1>5. catalog[r] \in Role
  BY <1>2 DEF TypeOK
<1>6. /\ catalog'[r] \in Role
      /\ txn[s].op.kind # "archive" => catalog'[r].archived = catalog[r].archived
  <2>1. CASE txn[s].op.kind = "permissions"
    <3>1. catalog'[r] = [catalog[r] EXCEPT !.perms = txn[s].op.codes]
      BY <1>4, <2>1
    <3> QED
      BY <1>2, <1>5, <2>1, <3>1 DEF Role
  <2>2. CASE txn[s].op.kind = "activate"
    <3>1. catalog'[r] = [catalog[r] EXCEPT !.active = txn[s].op.active]
      BY <1>4, <2>2
    <3> QED
      BY <1>2, <1>5, <2>2, <3>1 DEF Role
  <2>3. CASE txn[s].op.kind = "archive"
    <3>1. catalog'[r] = [catalog[r] EXCEPT !.archived = TRUE]
      BY <1>4, <2>3
    <3> QED
      BY <1>5, <2>3, <3>1 DEF Role
  <2> QED
    BY <1>1, <2>1, <2>2, <2>3 DEF RoleKinds
<1>7. /\ Update(r) \in txn[s].locks
      /\ txn[s].op.kind = "archive" => \A u \in Users : ~Holds(u, r)
  BY <1>2, <1>3 DEF ReadyRole
<1>8. \A u \in Users : EmployeeOf(u)' = EmployeeOf(u)
  BY <1>1 DEF EmployeeOf
<1>9. TypeOK'
  <2>1. catalog' \in [Catalog -> Role]
    BY <1>1, <1>2, <1>3, <1>4, <1>6 DEF TypeOK
  <2> QED
    BY <1>1, <1>2, <2>1 DEF TypeOK
<1>10. OneAccount'
  BY <1>2, <1>8 DEF OneAccount
<1>11. ASSUME NEW u \in Users
       PROVE  Sound(u)'
  <2>1. held[u] # None => ~catalog[held[u].role].archived /\ held[u].role \in Catalog
    BY <1>2 DEF Sound, TypeOK, Assignment
  <2>2. held[u] # None => ~catalog'[held[u].role].archived
    BY <1>4, <1>6, <1>7, <2>1 DEF Holds
  <2> QED
    BY <1>1, <1>2, <1>8, <2>2 DEF Sound, Holds
<1>12. Covers(s)
  BY <1>1, <1>4, <1>7, <1>8 DEF Covers
<1> QED
  BY <1>9, <1>10, <1>11, <1>12 DEF WriteSound

\* The transfer changes two accounts, the old owner's and the new one's.
LEMMA TransferSound ==
    ASSUME AccessAssumption, AccessInv, NEW s \in Sessions, Transfer(s)
    PROVE  WriteSound(s)
<1>1. /\ txn[s] # None /\ txn[s].ready /\ txn[s].op.kind = "transfer"
      /\ held' = [held EXCEPT
                    ![txn[s].op.by] = IF txn[s].op.role = None THEN None
                                      ELSE [role |-> txn[s].op.role, wide |-> TRUE],
                    ![txn[s].op.user] = [role |-> Owner, wide |-> TRUE]]
      /\ account' = [account EXCEPT ![txn[s].op.by].staged = @ \/ txn[s].op.role = None]
      /\ UNCHANGED <<extra, catalog, terminated, requests>>
  BY DEF Transfer, Finish
<1>2. /\ txn[s].op.user \in Users /\ txn[s].op.by \in Users /\ txn[s].op.by # txn[s].op.user
      /\ txn[s].op.role \in Roles \cup {None}
      /\ account[txn[s].op.user] # None /\ account[txn[s].op.by] # None
      /\ ReadyTransfer(txn[s]) /\ TypeOK /\ OneAccount /\ \A u \in Users : Sound(u)
  BY <1>1, Deciding DEF Operands, Ready, UserKinds, AccessInv, Typed, CompanySound
<1>3. PICK b \in Users, w \in Users, r \in Roles \cup {None}, none \in BOOLEAN :
         /\ b = txn[s].op.by /\ w = txn[s].op.user /\ r = txn[s].op.role
         /\ none = (txn[s].op.role = None)
  BY <1>2
<1>4. b # w /\ account[b] # None /\ account[w] # None
  BY <1>2, <1>3
<1>5. /\ Update(b) \in txn[s].locks /\ Update(w) \in txn[s].locks
      /\ Holds(b, Owner) /\ ~account[b].staged
      /\ account[w].active /\ account[w].login
      /\ none => ~account[b].login
      /\ ~none => Share(r) \in txn[s].locks /\ ~catalog[r].archived
      /\ none <=> r = None
  BY <1>2, <1>3 DEF ReadyTransfer
<1>6. /\ held'[w] = [role |-> Owner, wide |-> TRUE]
      /\ held'[b] = IF r = None THEN None ELSE [role |-> r, wide |-> TRUE]
      /\ \A u \in Users \ {b, w} : held'[u] = held[u]
  BY <1>1, <1>2, <1>3, <1>4 DEF TypeOK
<1>7. \A u \in Users \ {b} : account'[u] = account[u]
  BY <1>1, <1>2, <1>3 DEF TypeOK
<1>8. account[b] \in Account
  BY <1>2, <1>4 DEF TypeOK
<1>9. account'[b] = [account[b] EXCEPT !.staged = none]
  <2>1. account'[b] = [account[b] EXCEPT !.staged = account[b].staged \/ txn[s].op.role = None]
    BY <1>1, <1>2, <1>3 DEF TypeOK
  <2>2. (account[b].staged \/ txn[s].op.role = None) = none
    BY <1>3, <1>5
  <2> QED
    BY <2>1, <2>2
<1>10. /\ account'[b] \in Account /\ account'[b] # None
       /\ account'[b].staged <=> none
       /\ account'[b].login = account[b].login /\ account'[b].employee = account[b].employee
  BY <1>8, <1>9 DEF Account, AccessAssumption
<1>11. \A u \in Users : EmployeeOf(u)' = EmployeeOf(u)
  BY <1>4, <1>7, <1>10 DEF EmployeeOf
<1>12. held'[w] \in Assignment /\ held'[w] # None /\ held'[w].role = Owner
  <2>1. held'[w] \in Assignment
    BY <1>6 DEF Assignment, Catalog
  <2>2. None \notin Assignment
    BY DEF AccessAssumption
  <2>3. held'[w].role = Owner
    BY <1>6
  <2> QED
    BY <2>1, <2>2, <2>3
<1>13. ~none => /\ held'[b] \in Assignment /\ held'[b] # None /\ held'[b].role = r /\ r \in Roles
  <2> SUFFICES ASSUME ~none
               PROVE  held'[b] \in Assignment /\ held'[b] # None /\ held'[b].role = r /\ r \in Roles
    OBVIOUS
  <2>1. r \in Roles /\ r \in Catalog /\ held'[b] = [role |-> r, wide |-> TRUE]
    BY <1>5, <1>6 DEF Catalog
  <2>2. held'[b] \in Assignment
    BY <2>1 DEF Assignment
  <2>3. None \notin Assignment
    BY DEF AccessAssumption
  <2>4. held'[b].role = r
    BY <2>1
  <2> QED
    BY <2>1, <2>2, <2>3, <2>4
<1>14. none => held'[b] = None
  BY <1>5, <1>6
<1>15. TypeOK'
  <2>1. account' \in [Users -> Account \cup {None}]
    BY <1>1, <1>2, <1>3, <1>7, <1>10 DEF TypeOK
  <2>2. held' \in [Users -> Assignment \cup {None}]
    <3>1. \A u \in Users : held'[u] \in Assignment \cup {None}
      BY <1>2, <1>6, <1>12, <1>13, <1>14 DEF TypeOK
    <3> QED
      BY <3>1, <1>1, <1>2 DEF TypeOK
  <2> QED
    BY <1>1, <1>2, <2>1, <2>2 DEF TypeOK
<1>16. Sound(b)'
  <2>1. EmployeeOf(b) \notin terminated
    BY <1>2, <1>4, <1>5 DEF Sound, Holds
  <2>2. ~none => held'[b].role # Driver
    BY <1>13 DEF AccessAssumption
  <2> QED
    BY <1>1, <1>4, <1>5, <1>10, <1>11, <1>13, <1>14, <2>1, <2>2 DEF Sound, Holds
<1>17. Sound(w)'
  <2>1. ~account[w].staged /\ EmployeeOf(w) \notin terminated
    BY <1>2, <1>4, <1>5 DEF Sound
  <2>2. ~catalog[Owner].archived
    BY <1>2, <1>5 DEF Sound, Holds
  <2> QED
    BY <1>1, <1>4, <1>7, <1>11, <1>12, <2>1, <2>2 DEF Sound, Holds, AccessAssumption
<1>18. ASSUME NEW u \in Users
       PROVE  Sound(u)'
  <2>1. CASE u # b /\ u # w
    <3>1. held'[u] = held[u] /\ account'[u] = account[u] /\ EmployeeOf(u)' = EmployeeOf(u)
      BY <1>6, <1>7, <1>11, <2>1
    <3> QED
      BY <3>1, <1>1, <1>2 DEF Sound, Holds
  <2>2. CASE u = b
    BY <1>16, <2>2
  <2>3. CASE u = w
    BY <1>17, <2>3
  <2> QED
    BY <2>1, <2>2, <2>3
<1>19. OneAccount'
  BY <1>2, <1>11 DEF OneAccount
<1>20. Covers(s)
  <2>1. \A u \in Users : held'[u] # held[u] /\ held'[u] # None /\ held'[u].role \in Roles =>
          Share(held'[u].role) \in txn[s].locks
    BY <1>5, <1>6, <1>12, <1>13, <1>14 DEF AccessAssumption
  <2>2. \A u \in Users : account'[u] # account[u] \/ held'[u] # held[u] =>
          Update(u) \in txn[s].locks
    BY <1>5, <1>6, <1>7
  <2>3. \A u \in Users : account[u] # None => account'[u] # None
    BY <1>7, <1>10
  <2> QED
    BY <2>1, <2>2, <2>3, <1>1, <1>11 DEF Covers
<1> QED
  BY <1>15, <1>18, <1>19, <1>20 DEF WriteSound

-----------------------------------------------------------------------------
(* What a write leaves alone                                               *)

\* What the locks of a request t keep through the write of another session.
Kept(t) ==
    /\ \A u \in Users : Update(u) \in t.locks =>
         /\ account[u] # None => account'[u] = account[u] /\ held'[u] = held[u]
         /\ EmployeeOf(u) \notin terminated => EmployeeOf(u) \notin terminated'
    /\ \A e \in Employees : Update(e) \in t.locks =>
         /\ e \notin terminated => e \notin terminated'
         /\ \A u \in Users : EmployeeOf(u)' = e => EmployeeOf(u) = e
    /\ \A r \in Catalog : {Share(r), Update(r)} \cap t.locks # {} => catalog'[r] = catalog[r]
    /\ \A r \in Roles : Update(r) \in t.locks =>
         \A u \in Users : Holds(u, r)' => Holds(u, r)

LEMMA LocksKeep ==
    ASSUME AccessAssumption, AccessInv, NEW s \in Sessions, NEW o \in Sessions, s # o,
           txn[s] # None, txn[o] # None, Covers(s), NEW t, t = txn[o]
    PROVE  Kept(t)
<1>1. \A r : Update(r) \in t.locks =>
               Update(r) \notin txn[s].locks /\ Share(r) \notin txn[s].locks
  BY DEF AccessInv, RequestsSound, LocksExclusive, Update, Share
<1>2. \A r : Share(r) \in t.locks => Update(r) \notin txn[s].locks
  BY DEF AccessInv, RequestsSound, LocksExclusive, Update, Share
<1>3. \A u \in Users : Update(u) \in t.locks /\ account[u] # None =>
          account'[u] = account[u] /\ held'[u] = held[u]
  BY <1>1 DEF Covers
<1>4. \A u \in Users : Update(u) \in t.locks /\ EmployeeOf(u) \notin terminated =>
          EmployeeOf(u) \notin terminated'
  BY <1>1 DEF Covers, AccountOf
<1>5. \A e \in Employees : Update(e) \in t.locks /\ e \notin terminated => e \notin terminated'
  BY <1>1 DEF Covers
<1>6. ASSUME NEW e \in Employees, Update(e) \in t.locks, NEW u \in Users, EmployeeOf(u)' = e
      PROVE  EmployeeOf(u) = e
  <2>1. e # None
    BY DEF AccessAssumption
  <2> QED
    BY <1>1, <1>6, <2>1 DEF Covers
<1>7. \A r \in Catalog : {Share(r), Update(r)} \cap t.locks # {} => catalog'[r] = catalog[r]
  BY <1>1, <1>2 DEF Covers
<1>8. ASSUME NEW r \in Roles, Update(r) \in t.locks, NEW u \in Users, Holds(u, r)'
      PROVE  Holds(u, r)
  <2>1. held'[u] # None /\ held'[u].role = r
    BY <1>8 DEF Holds
  <2>2. held'[u] = held[u]
    BY <1>1, <1>8, <2>1 DEF Covers
  <2> QED
    BY <2>1, <2>2 DEF Holds
<1> QED
  BY <1>3, <1>4, <1>5, <1>6, <1>7, <1>8 DEF Kept

\* A role that may be given stays so.
LEMMA RoleStillFits ==
    ASSUME NEW t, NEW g, g.role \in Catalog, NEW e, Kept(t), RoleFits(t, g, e),
           e \notin terminated'
    PROVE  RoleFits(t, g, e)'
<1>1. catalog'[g.role] = catalog[g.role]
  BY DEF Kept, RoleFits
<1> QED
  BY <1>1 DEF RoleFits

LEMMA EmployeeStillFree ==
    ASSUME NEW t, NEW e \in Employees, Kept(t), EmployeeFree(t, e)
    PROVE  EmployeeFree(t, e)'
<1>1. Update(e) \in t.locks /\ e \notin terminated /\ \A u \in Users : EmployeeOf(u) # e
  BY DEF EmployeeFree, AccountOf
<1>2. e \notin terminated' /\ \A u \in Users : EmployeeOf(u)' # e
  BY <1>1 DEF Kept
<1> QED
  BY <1>1, <1>2 DEF EmployeeFree, AccountOf

\* What one operation relies on still holds after another one's write.
LEMMA StillReady ==
    ASSUME AccessAssumption, NEW t, Operands(t.op), Kept(t), Ready(t), TypeOK, TypeOK',
           account[t.op.by] # None,
           t.op.kind \in UserKinds => account[t.op.user] # None
    PROVE  Ready(t)'
<1> DEFINE u == t.op.user
           e == t.op.employee
<1>1. ASSUME t.op.kind \in UserKinds, Update(u) \in t.locks
      PROVE  /\ u \in Users /\ account'[u] = account[u] /\ held'[u] = held[u]
             /\ EmployeeOf(u)' = EmployeeOf(u)
             /\ EmployeeOf(u) \notin terminated => EmployeeOf(u)' \notin terminated'
  <2>1. u \in Users
    BY <1>1 DEF Operands
  <2>2. account'[u] = account[u] /\ held'[u] = held[u]
    BY <1>1, <2>1 DEF Kept
  <2>3. EmployeeOf(u)' = EmployeeOf(u)
    BY <2>2 DEF EmployeeOf
  <2> QED
    BY <1>1, <2>1, <2>2, <2>3 DEF Kept
<1>2. CASE t.op.kind = "assign"
  <2>1. ReadyAssign(t) /\ t.op.given.role \in Catalog
    BY <1>2 DEF Ready, Operands, Given, Assignment
  <2>2. /\ account'[u] = account[u] /\ EmployeeOf(u)' = EmployeeOf(u)
        /\ EmployeeOf(u) \notin terminated'
    BY <1>1, <1>2, <2>1 DEF ReadyAssign, RoleFits, UserKinds
  <2>3. PICK x, g : x = EmployeeOf(u) /\ g = t.op.given
    OBVIOUS
  <2>4. RoleFits(t, g, x)'
    BY <2>1, <2>2, <2>3, RoleStillFits DEF ReadyAssign
  <2>5. ReadyAssign(t)'
    BY <2>1, <2>2, <2>3, <2>4 DEF ReadyAssign
  <2> QED
    BY <1>2, <2>5 DEF Ready
<1>3. CASE t.op.kind = "provision"
  <2>1. ReadyProvision(t) /\ t.op.given.role \in Catalog
    BY <1>3 DEF Ready, Operands, Given, Assignment
  <2>2. EmployeeOf(u)' = EmployeeOf(u) /\ EmployeeOf(u) \notin terminated'
    BY <1>1, <1>3, <2>1 DEF ReadyProvision, RoleFits, UserKinds
  <2>3. PICK x, g : x = EmployeeOf(u) /\ g = t.op.given
    OBVIOUS
  <2>4. RoleFits(t, g, x)'
    BY <2>1, <2>2, <2>3, RoleStillFits DEF ReadyProvision
  <2>5. ReadyProvision(t)'
    BY <2>1, <2>2, <2>3, <2>4 DEF ReadyProvision
  <2> QED
    BY <1>3, <2>5 DEF Ready
<1>4. CASE t.op.kind = "revoke"
  <2>1. ReadyRevoke(t)
    BY <1>4 DEF Ready
  <2>2. ReadyRevoke(t)'
    BY <1>1, <1>4, <2>1 DEF ReadyRevoke, UserKinds
  <2> QED
    BY <1>4, <2>2 DEF Ready
<1>5. CASE t.op.kind = "create"
  <2>1. ReadyCreate(t) /\ e \in Employees \cup {None} /\ t.op.given \in Given \cup {None}
    BY <1>5 DEF Ready, Operands
  <2>2. e # None => EmployeeFree(t, e)'
    BY <2>1, EmployeeStillFree DEF ReadyCreate
  <2>3. e \notin terminated'
    BY <2>1, <2>2 DEF EmployeeFree, TypeOK, AccessAssumption
  <2>4. t.op.given # None => RoleFits(t, t.op.given, e)'
    <3>1. t.op.given # None => t.op.given.role \in Catalog
      BY <2>1 DEF Given, Assignment
    <3> QED
      BY <2>1, <2>3, <3>1, RoleStillFits DEF ReadyCreate
  <2>5. ReadyCreate(t)'
    BY <2>1, <2>2, <2>4 DEF ReadyCreate
  <2> QED
    BY <1>5, <2>5 DEF Ready
<1>6. CASE t.op.kind = "link"
  <2>1. ReadyLink(t) /\ e \in Employees
    BY <1>6 DEF Ready, Operands
  <2>2. EmployeeFree(t, e)'
    BY <2>1, EmployeeStillFree DEF ReadyLink
  <2>3. ReadyLink(t)'
    BY <2>1, <2>2 DEF ReadyLink
  <2> QED
    BY <1>6, <2>3 DEF Ready
<1>7. CASE t.op.kind = "unlink"
  <2>1. ReadyUnlink(t)
    BY <1>7 DEF Ready
  <2>2. ReadyUnlink(t)'
    BY <1>1, <1>7, <2>1 DEF ReadyUnlink, UserKinds, Holds
  <2> QED
    BY <1>7, <2>2 DEF Ready
<1>8. CASE t.op.kind = "update"
  <2>1. ReadyUpdate(t)
    BY <1>8 DEF Ready
  <2>2. ReadyUpdate(t)'
    BY <1>1, <1>8, <2>1 DEF ReadyUpdate, UserKinds
  <2> QED
    BY <1>8, <2>2 DEF Ready
<1>9. CASE t.op.kind = "terminate"
  <2>1. ReadyTerminate(t) /\ e \in Employees
    BY <1>9 DEF Ready, Operands
  <2>2. \A x \in Users : EmployeeOf(x)' = e => Update(x) \in t.locks
    BY <2>1 DEF ReadyTerminate, Kept, AccountOf
  <2>3. ReadyTerminate(t)'
    BY <2>1, <2>2 DEF ReadyTerminate, AccountOf
  <2> QED
    BY <1>9, <2>3 DEF Ready
<1>10. CASE t.op.kind \in RoleKinds
  <2>1. ReadyRole(t) /\ (t.op.kind = "archive" => t.op.role \in Roles)
    BY <1>10 DEF Ready, Operands, RoleKinds
  <2>2. t.op.kind = "archive" => \A x \in Users : ~Holds(x, t.op.role)'
    BY <2>1 DEF ReadyRole, Kept
  <2>3. ReadyRole(t)'
    BY <2>1, <2>2 DEF ReadyRole
  <2> QED
    BY <1>10, <2>3 DEF Ready, RoleKinds
<1>11. CASE t.op.kind = "transfer"
  <2>1. ReadyTransfer(t) /\ t.op.by \in Users /\ t.op.role \in Roles \cup {None}
    BY <1>11 DEF Ready, Operands
  <2>2. account'[u] = account[u] /\ held'[u] = held[u]
    BY <1>1, <1>11, <2>1 DEF ReadyTransfer, UserKinds
  <2>3. account'[t.op.by] = account[t.op.by] /\ held'[t.op.by] = held[t.op.by]
    BY <2>1 DEF ReadyTransfer, Kept
  <2>4. t.op.role # None => catalog'[t.op.role] = catalog[t.op.role]
    BY <2>1 DEF ReadyTransfer, Kept, Catalog
  <2>5. ReadyTransfer(t)'
    BY <2>1, <2>2, <2>3, <2>4 DEF ReadyTransfer, Holds
  <2> QED
    BY <1>11, <2>5 DEF Ready
<1>12. CASE t.op.kind \in {"reinstate", "overrides"}
  BY <1>12 DEF Ready
<1> QED
  BY <1>2, <1>3, <1>4, <1>5, <1>6, <1>7, <1>8, <1>9, <1>10, <1>11, <1>12
  DEF Operands, UserKinds, RoleKinds

-----------------------------------------------------------------------------
(* The invariant holds at the start and through every step                 *)

LEMMA Starts ==
    ASSUME AccessAssumption, Init
    PROVE  AccessInv
<1>1. PICK c \in Companies :
         account = c.account /\ held = c.held /\ catalog = c.catalog /\ terminated = c.terminated
  BY DEF Init
<1>2. /\ c.account \in [Users -> Account \cup {None}]
      /\ c.held \in [Users -> Assignment \cup {None}]
      /\ c.catalog \in [Catalog -> Role] /\ c.terminated \in SUBSET Employees
      /\ Settled(c)
  BY DEF AccessAssumption
<1>3. Typed
  BY <1>1, <1>2 DEF AccessAssumption, Init, Typed, TypeOK
<1>4. ASSUME NEW u \in Users
      PROVE  Sound(u)
  BY <1>1, <1>2 DEF Settled, Sound, Holds, EmployeeOf
<1>5. OneAccount
  BY <1>1, <1>2 DEF Settled, OneAccount, EmployeeOf
<1>6. RequestsSound
  BY DEF Init, RequestsSound, LocksExclusive, PartiesExist, ReadyHolds
<1> QED
  BY <1>3, <1>4, <1>5, <1>6, SoundIsStanding DEF AccessInv, CompanySound

\* Steps that leave the company alone: only the requests are to look at.
LEMMA CompanyKept ==
    ASSUME AccessInv, UNCHANGED company, requests' \in 0 .. MaxRequests
    PROVE  TypeOK' /\ CompanySound'
<1>1. account' = account /\ held' = held /\ extra' = extra /\ catalog' = catalog
      /\ terminated' = terminated
  BY DEF company
<1>2. TypeOK'
  BY <1>1 DEF AccessInv, Typed, TypeOK
<1>3. CompanySound'
  BY <1>1 DEF AccessInv, CompanySound, AccessNeedsStanding, RolesHeldStand, OneAccount,
             EmployeeOf, Holds
<1> QED
  BY <1>2, <1>3

\* With the company unchanged, what a request relies on is unchanged.
LEMMA ReadyKept ==
    ASSUME NEW t, UNCHANGED company, Ready(t)
    PROVE  Ready(t)'
<1>1. account' = account /\ held' = held /\ catalog' = catalog /\ terminated' = terminated
  BY DEF company
<1>2. \A e : EmployeeFree(t, e) => EmployeeFree(t, e)'
  BY <1>1 DEF EmployeeFree, AccountOf, EmployeeOf
<1>3. \A g, e : RoleFits(t, g, e) => RoleFits(t, g, e)'
  BY <1>1 DEF RoleFits
<1>4. /\ ReadyAssign(t) => ReadyAssign(t)'
      /\ ReadyProvision(t) => ReadyProvision(t)'
      /\ ReadyRevoke(t) => ReadyRevoke(t)'
  BY <1>1, <1>3 DEF ReadyAssign, ReadyProvision, ReadyRevoke, EmployeeOf
<1>5. /\ ReadyCreate(t) => ReadyCreate(t)'
      /\ ReadyLink(t) => ReadyLink(t)'
  BY <1>2, <1>3 DEF ReadyCreate, ReadyLink
<1>6. /\ ReadyUnlink(t) => ReadyUnlink(t)'
      /\ ReadyUpdate(t) => ReadyUpdate(t)'
  BY <1>1 DEF ReadyUnlink, ReadyUpdate, Holds, EmployeeOf
<1>7. ReadyTerminate(t) => ReadyTerminate(t)'
  BY <1>1 DEF ReadyTerminate, AccountOf, EmployeeOf
<1>8. /\ ReadyRole(t) => ReadyRole(t)'
      /\ ReadyTransfer(t) => ReadyTransfer(t)'
  BY <1>1 DEF ReadyRole, ReadyTransfer, Holds
<1> QED
  BY <1>4, <1>5, <1>6, <1>7, <1>8 DEF Ready

LEMMA BeginKeeps ==
    ASSUME AccessAssumption, AccessInv, NEW s \in Sessions, NEW op \in Operations, Begin(s, op),
           op \in OnUser => account[op.user] # None
    PROVE  AccessInv'
<1> DEFINE new == [op |-> op, locks |-> {}, ready |-> FALSE, ceiling |-> {}, cleared |-> {}]
<1>1. /\ txn[s] = None /\ txn' = [txn EXCEPT ![s] = new] /\ account[op.by] # None
      /\ requests < MaxRequests /\ requests' = requests + 1 /\ UNCHANGED company
  BY DEF Begin
<1>2. txn \in [Sessions -> Transactions \cup {None}] /\ requests \in 0 .. MaxRequests
  BY DEF AccessInv, Typed, TypeOK
<1>3. TypeOK' /\ CompanySound'
  <2>1. requests' \in 0 .. MaxRequests
    BY <1>1, <1>2 DEF AccessAssumption
  <2> QED
    BY <1>1, <2>1, CompanyKept
<1>4. new \in Transactions
  BY DEF Transactions
<1>5. txn' \in [Sessions -> Transactions \cup {None}]
  BY <1>1, <1>2, <1>4
<1>6. txn'[s] = new /\ \A o \in Sessions \ {s} : txn'[o] = txn[o]
  BY <1>1, <1>2
<1>7. new.locks = {} /\ new.op = op /\ new.ready = FALSE
  OBVIOUS
<1>8. account' = account
  BY <1>1 DEF company
<1> HIDE DEF new
<1>9. LocksExclusive'
  BY <1>6, <1>7 DEF AccessInv, RequestsSound, LocksExclusive
<1>10. PartiesExist'
  BY <1>1, <1>6, <1>7, <1>8 DEF AccessInv, RequestsSound, PartiesExist
<1>11. ReadyHolds'
  <2> SUFFICES ASSUME NEW o \in Sessions, txn'[o] # None, txn'[o].ready, NEW t, t = txn'[o]
               PROVE  Ready(t)'
    BY DEF ReadyHolds
  <2>1. o # s /\ t = txn[o]
    BY <1>6, <1>7
  <2>2. Ready(t)
    BY <2>1 DEF AccessInv, RequestsSound, ReadyHolds
  <2> QED
    BY <1>1, <2>2, ReadyKept
<1> QED
  BY <1>3, <1>5, <1>9, <1>10, <1>11 DEF AccessInv, Typed, RequestsSound

LEMMA AcquireKeeps ==
    ASSUME AccessAssumption, AccessInv, NEW s \in Sessions, Acquire(s)
    PROVE  AccessInv'
<1>1. PICK row \in {Rows(txn[s].op)[i] : i \in DOMAIN Rows(txn[s].op)} :
         /\ txn[s] # None /\ ~txn[s].ready /\ Free(s, row)
         /\ txn' = [txn EXCEPT ![s].locks = @ \cup {row}]
         /\ UNCHANGED <<company, requests>>
  BY DEF Acquire, Missing
<1>2. txn \in [Sessions -> Transactions \cup {None}] /\ txn[s] \in Transactions /\ TypeOK
  BY <1>1 DEF AccessInv, Typed
<1>3. row \in RowLocks
  <2>1. Rows(txn[s].op) \in Seq(RowLocks)
    BY <1>1, <1>2, RowsOfOperation DEF RowsSound, Transactions
  <2> QED
    BY <2>1, LenProperties
<1> DEFINE new == [txn[s] EXCEPT !.locks = @ \cup {row}]
<1>4. /\ new \in Transactions /\ new.op = txn[s].op /\ new.locks = txn[s].locks \cup {row}
      /\ new.ready = txn[s].ready
  BY <1>2, <1>3 DEF Transactions
<1>5. txn'[s] = new /\ \A o \in Sessions \ {s} : txn'[o] = txn[o]
  BY <1>1, <1>2
<1> HIDE DEF new
<1>6. txn' \in [Sessions -> Transactions \cup {None}]
  BY <1>1, <1>2, <1>4, <1>5
<1>7. TypeOK' /\ CompanySound'
  BY <1>1, <1>2, CompanyKept DEF TypeOK
<1>8. LocksExclusive'
  <2>1. \A o \in Sessions \ {s} : txn[o] # None =>
          \A k \in txn[o].locks : k.row = row.row => "update" \notin {k.mode, row.mode}
    BY <1>1 DEF Free
  <2>2. LocksExclusive
    BY DEF AccessInv, RequestsSound
  <2> SUFFICES ASSUME NEW x \in Sessions, NEW y \in Sessions, x # y,
                      txn'[x] # None, txn'[y] # None,
                      NEW k \in txn'[x].locks, NEW l \in txn'[y].locks, k.row = l.row
               PROVE  "update" \notin {k.mode, l.mode}
    BY DEF LocksExclusive
  <2>3. CASE x = s
    BY <1>1, <1>4, <1>5, <2>1, <2>2, <2>3 DEF LocksExclusive
  <2>4. CASE y = s
    BY <1>1, <1>4, <1>5, <2>1, <2>2, <2>4 DEF LocksExclusive
  <2>5. CASE x # s /\ y # s
    BY <1>5, <2>2, <2>5 DEF LocksExclusive
  <2> QED
    BY <2>3, <2>4, <2>5
<1>9. PartiesExist'
  <2>1. account' = account
    BY <1>1 DEF company
  <2> QED
    BY <2>1, <1>1, <1>4, <1>5 DEF AccessInv, RequestsSound, PartiesExist
<1>10. ReadyHolds'
  <2> SUFFICES ASSUME NEW o \in Sessions, txn'[o] # None, txn'[o].ready, NEW t, t = txn'[o]
               PROVE  Ready(t)'
    BY DEF ReadyHolds
  <2>1. o # s /\ t = txn[o]
    BY <1>1, <1>4, <1>5
  <2>2. Ready(t)
    BY <2>1 DEF AccessInv, RequestsSound, ReadyHolds
  <2> QED
    BY <1>1, <2>2, ReadyKept
<1> QED
  BY <1>6, <1>7, <1>8, <1>9, <1>10 DEF AccessInv, Typed, RequestsSound

LEMMA AbandonKeeps ==
    ASSUME AccessInv, NEW s \in Sessions, Abandon(s)
    PROVE  AccessInv'
<1>1. txn' = [txn EXCEPT ![s] = None] /\ UNCHANGED <<company, requests>>
  BY DEF Abandon
<1>2. txn \in [Sessions -> Transactions \cup {None}] /\ requests \in 0 .. MaxRequests
  BY DEF AccessInv, Typed, TypeOK
<1>3. txn'[s] = None /\ \A o \in Sessions \ {s} : txn'[o] = txn[o]
  BY <1>1, <1>2
<1>4. TypeOK' /\ CompanySound' /\ account' = account
  BY <1>1, <1>2, CompanyKept DEF company
<1>5. txn' \in [Sessions -> Transactions \cup {None}]
  BY <1>1, <1>2
<1>6. LocksExclusive' /\ PartiesExist'
  BY <1>3, <1>4 DEF AccessInv, RequestsSound, LocksExclusive, PartiesExist
<1>7. ReadyHolds'
  <2> SUFFICES ASSUME NEW o \in Sessions, txn'[o] # None, txn'[o].ready, NEW t, t = txn'[o]
               PROVE  Ready(t)'
    BY DEF ReadyHolds
  <2>1. t = txn[o] /\ Ready(t)
    BY <1>3 DEF AccessInv, RequestsSound, ReadyHolds
  <2> QED
    BY <1>1, <2>1, ReadyKept
<1> QED
  BY <1>4, <1>5, <1>6, <1>7 DEF AccessInv, Typed, RequestsSound

LEMMA CeilingTyped ==
    ASSUME TypeOK, NEW u \in Users, account[u] # None
    PROVE  Ceiling(u) \in SUBSET Perms
<1>1. held[u] # None => catalog[held[u].role].perms \in SUBSET Perms
  BY DEF TypeOK, Assignment, Role
<1>2. extra[u] \in SUBSET Perms
  BY DEF TypeOK
<1>3. BranchPerms(u) \in SUBSET Perms
  BY <1>1, <1>2 DEF BranchPerms
<1> QED
  BY <1>3 DEF Ceiling, CompanyPerms

\* Who may give a role under the share lock relies on it.
LEMMA GiveFits ==
    ASSUME NEW t, NEW e, NEW g, MayGive(t.op.by, g, e), t.ceiling = Ceiling(t.op.by),
           Share(g.role) \in t.locks
    PROVE  RoleFits(t, g, e)
BY DEF MayGive, RoleFits

\* Checks made under the locks of the operation leave it ready.
LEMMA ChecksSuffice ==
    ASSUME AccessAssumption, AccessInv, NEW t, Operands(t.op),
           HasLocks(t.op, t.locks), May(t.op),
           t.ceiling = Ceiling(t.op.by)
    PROVE  Ready(t)
<1> USE DEF UserKinds, RoleKinds
<1>1. CASE t.op.kind = "assign"
  <2>1. MayAssign(t.op) /\ Update(t.op.user) \in t.locks /\ Share(t.op.given.role) \in t.locks
    BY <1>1 DEF May, HasLocks
  <2>2. ReadyAssign(t)
    BY <2>1, GiveFits DEF MayAssign, ReadyAssign
  <2> QED
    BY <1>1, <2>2 DEF Ready
<1>2. CASE t.op.kind = "provision"
  <2>1. MayProvision(t.op) /\ Update(t.op.user) \in t.locks /\ Share(t.op.given.role) \in t.locks
    BY <1>2 DEF May, HasLocks
  <2>2. ReadyProvision(t)
    BY <2>1, GiveFits DEF MayProvision, ReadyProvision
  <2> QED
    BY <1>2, <2>2 DEF Ready
<1>3. CASE t.op.kind = "revoke"
  BY <1>3 DEF May, HasLocks, Ready, MayRevoke, ReadyRevoke
<1>4. CASE t.op.kind = "create"
  <2>1. /\ MayCreate(t.op)
        /\ t.op.employee # None => Update(t.op.employee) \in t.locks
        /\ t.op.given # None => Share(t.op.given.role) \in t.locks
    BY <1>4 DEF May, HasLocks
  <2>2. t.op.employee # None => EmployeeFree(t, t.op.employee)
    BY <2>1 DEF MayCreate, EmployeeFree
  <2>3. t.op.given # None => RoleFits(t, t.op.given, t.op.employee)
    BY <2>1, GiveFits DEF MayCreate
  <2>4. ReadyCreate(t)
    BY <2>1, <2>2, <2>3 DEF MayCreate, ReadyCreate
  <2> QED
    BY <1>4, <2>4 DEF Ready
<1>5. CASE t.op.kind = "link"
  BY <1>5 DEF May, HasLocks, Ready, MayLink, ReadyLink, EmployeeFree
<1>6. CASE t.op.kind = "unlink"
  BY <1>6 DEF May, HasLocks, Ready, MayUnlink, ReadyUnlink
<1>7. CASE t.op.kind = "update"
  BY <1>7 DEF May, HasLocks, Ready, MayUpdate, ReadyUpdate
<1>8. CASE t.op.kind = "terminate"
  <2>1. /\ t.op.employee \in Employees /\ Update(t.op.employee) \in t.locks
        /\ AccountOf(t.op.employee) # {} =>
             \E u \in AccountOf(t.op.employee) : Update(u) \in t.locks
    BY <1>8 DEF Operands, HasLocks
  <2>2. ASSUME NEW u \in AccountOf(t.op.employee)
        PROVE  Update(u) \in t.locks
    <3>1. PICK v \in AccountOf(t.op.employee) : Update(v) \in t.locks
      BY <2>1, <2>2
    <3>2. t.op.employee # None
      BY <2>1 DEF AccessAssumption
    <3>3. u = v
      BY <3>2 DEF AccessInv, CompanySound, OneAccount, AccountOf
    <3> QED
      BY <3>1, <3>3
  <2> QED
    BY <1>8, <2>1, <2>2 DEF Ready, ReadyTerminate
<1>9. CASE t.op.kind \in RoleKinds
  <2>1. Update(t.op.role) \in t.locks
    BY <1>9 DEF HasLocks
  <2>2. t.op.kind = "archive" => MayArchive(t.op)
    BY DEF May
  <2> QED
    BY <1>9, <2>1, <2>2 DEF Ready, ReadyRole, MayArchive
<1>10. CASE t.op.kind = "transfer"
  <2>1. /\ MayTransfer(t.op)
        /\ Update(t.op.by) \in t.locks /\ Update(t.op.user) \in t.locks
        /\ t.op.role # None => Share(t.op.role) \in t.locks
    BY <1>10 DEF May, HasLocks
  <2> QED
    BY <1>10, <2>1 DEF Ready, ReadyTransfer, MayTransfer
<1>11. CASE t.op.kind \in {"reinstate", "overrides"}
  BY <1>11 DEF Ready
<1> QED
  BY <1>1, <1>2, <1>3, <1>4, <1>5, <1>6, <1>7, <1>8, <1>9, <1>10, <1>11 DEF Operands

LEMMA CheckKeeps ==
    ASSUME AccessAssumption, AccessInv, NEW s \in Sessions, Check(s)
    PROVE  AccessInv'
<1>1. /\ txn[s] # None /\ ~txn[s].ready /\ Missing(s) = {} /\ May(txn[s].op)
      /\ txn' = [txn EXCEPT ![s].ready = TRUE, ![s].ceiling = Ceiling(txn[s].op.by),
                   ![s].cleared = IF txn[s].op.kind = "overrides" THEN extra[txn[s].op.user] ELSE {}]
      /\ UNCHANGED <<company, requests>>
  BY DEF Check
<1>2. /\ txn \in [Sessions -> Transactions \cup {None}] /\ txn[s] \in Transactions /\ TypeOK
      /\ Operands(txn[s].op) /\ account[txn[s].op.by] # None
  BY <1>1, Deciding DEF AccessInv, Typed
<1>3. PICK c \in SUBSET Perms, x \in SUBSET Perms :
         /\ c = Ceiling(txn[s].op.by)
         /\ x = IF txn[s].op.kind = "overrides" THEN extra[txn[s].op.user] ELSE {}
  <2>1. Ceiling(txn[s].op.by) \in SUBSET Perms
    BY <1>2, CeilingTyped DEF Operands
  <2>2. txn[s].op.kind = "overrides" => extra[txn[s].op.user] \in SUBSET Perms
    BY <1>2 DEF Operands, UserKinds, TypeOK
  <2> QED
    BY <2>1, <2>2
<1>4. PICK t : t = [txn[s] EXCEPT !.ready = TRUE, !.ceiling = c, !.cleared = x]
  OBVIOUS
<1>5. /\ t \in Transactions /\ t.op = txn[s].op /\ t.locks = txn[s].locks /\ t.ceiling = c
  BY <1>2, <1>4 DEF Transactions
<1>6. txn'[s] = t /\ \A o \in Sessions \ {s} : txn'[o] = txn[o]
  BY <1>1, <1>2, <1>3, <1>4
<1>7. Ready(t)
  <2>1. HasLocks(t.op, t.locks)
    <3>1. Covered(Rows(t.op), t.locks)
      BY <1>1, <1>5 DEF Missing, Covered
    <3>2. t.op \in Operations
      BY <1>5 DEF Transactions
    <3> QED
      BY <1>2, <3>1, <3>2, RowsOfOperation DEF RowsSound
  <2>2. Operands(t.op) /\ May(t.op) /\ t.ceiling = Ceiling(t.op.by)
    BY <1>1, <1>2, <1>3, <1>5
  <2> QED
    BY <2>1, <2>2, ChecksSuffice
<1>8. txn' \in [Sessions -> Transactions \cup {None}]
  BY <1>1, <1>2, <1>5, <1>6
<1>9. TypeOK' /\ CompanySound' /\ account' = account
  BY <1>1, <1>2, CompanyKept DEF TypeOK, company
<1>10. LocksExclusive'
  <2>1. \A o \in Sessions : txn'[o] # None => txn[o] # None /\ txn'[o].locks = txn[o].locks
    BY <1>1, <1>5, <1>6
  <2> QED
    BY <2>1 DEF AccessInv, RequestsSound, LocksExclusive
<1>11. PartiesExist'
  <2>1. \A o \in Sessions : txn'[o] # None => txn[o] # None /\ txn'[o].op = txn[o].op
    BY <1>1, <1>5, <1>6
  <2> QED
    BY <1>9, <2>1 DEF AccessInv, RequestsSound, PartiesExist
<1>12. ReadyHolds'
  <2> SUFFICES ASSUME NEW o \in Sessions, txn'[o] # None, txn'[o].ready, NEW r, r = txn'[o]
               PROVE  Ready(r)'
    BY DEF ReadyHolds
  <2>1. Ready(r)
    BY <1>6, <1>7 DEF AccessInv, RequestsSound, ReadyHolds
  <2> QED
    BY <1>1, <2>1, ReadyKept
<1> QED
  BY <1>8, <1>9, <1>10, <1>11, <1>12 DEF AccessInv, Typed, RequestsSound

LEMMA WriteKeeps ==
    ASSUME AccessAssumption, AccessInv, NEW s \in Sessions, Write(s)
    PROVE  AccessInv' /\ Covers(s)
<1>1. txn[s] # None /\ txn[s].ready /\ txn' = [txn EXCEPT ![s] = None] /\ UNCHANGED requests
  BY DEF Write, Assign, Provision, Revoke, Create, Link, UpdateUser, Terminate, Reinstate,
         Override, EditRole, Transfer, Finish
<1>2. WriteSound(s)
  BY AssignSound, ProvisionSound, RevokeSound, CreateSound, LinkSound, UpdateSound,
     TerminateSound, ReinstateSound, OverrideSound, EditRoleSound, TransferSound DEF Write
<1>3. txn \in [Sessions -> Transactions \cup {None}] /\ TypeOK
  BY DEF AccessInv, Typed
<1>4. txn'[s] = None /\ \A o \in Sessions \ {s} : txn'[o] = txn[o]
  BY <1>1, <1>3
<1>5. TypeOK' /\ OneAccount' /\ Covers(s) /\ \A u \in Users : Sound(u)'
  BY <1>2 DEF WriteSound
<1>6. CompanySound'
  <2>1. (\A u \in Users : Sound(u))' => AccessNeedsStanding' /\ RolesHeldStand'
    BY DEF Sound, AccessNeedsStanding, RolesHeldStand
  <2> QED
    BY <1>5, <2>1 DEF CompanySound
<1>7. txn' \in [Sessions -> Transactions \cup {None}]
  BY <1>1, <1>3
<1>8. LocksExclusive'
  BY <1>4 DEF AccessInv, RequestsSound, LocksExclusive
<1>9. PartiesExist'
  <2> SUFFICES ASSUME NEW o \in Sessions, txn'[o] # None
               PROVE  /\ account'[txn'[o].op.by] # None
                      /\ txn'[o].op \in OnUser => account'[txn'[o].op.user] # None
    BY DEF PartiesExist
  <2>1. txn'[o] = txn[o] /\ txn[o] # None
    BY <1>4
  <2>2. /\ account[txn[o].op.by] # None /\ txn[o].op.by \in Users
        /\ txn[o].op \in OnUser => account[txn[o].op.user] # None /\ txn[o].op.user \in Users
    <3>1. txn[o].op \in OnUser => txn[o].op.user \in Users
      BY DEF OnUser
    <3> QED
      BY <2>1, <3>1, Deciding DEF Operands, AccessInv, RequestsSound, PartiesExist
  <2> QED
    BY <1>5, <2>1, <2>2 DEF Covers
<1>10. ReadyHolds'
  <2> SUFFICES ASSUME NEW o \in Sessions, txn'[o] # None, txn'[o].ready, NEW t, t = txn'[o]
               PROVE  Ready(t)'
    BY DEF ReadyHolds
  <2>1. t = txn[o] /\ o # s /\ txn[o] # None
    BY <1>4
  <2>2. Kept(t)
    BY <1>1, <1>5, <2>1, LocksKeep
  <2>3. /\ Ready(t) /\ Operands(t.op) /\ account[t.op.by] # None
        /\ t.op.kind \in UserKinds => account[t.op.user] # None
    BY <2>1, Deciding
  <2> QED
    BY <1>3, <1>5, <2>2, <2>3, StillReady
<1> QED
  BY <1>5, <1>6, <1>7, <1>8, <1>9, <1>10 DEF AccessInv, Typed, RequestsSound

\* Only a transfer makes an owner, of an account that can sign in.
LEMMA OwnerByTransfer ==
    ASSUME AccessAssumption, AccessInv, NEW s \in Sessions, Write(s),
           NEW u \in Users, Holds(u, Owner)', ~Holds(u, Owner)
    PROVE  account'[u] # None /\ account'[u].active /\ account'[u].login
<1>1. held'[u] # held[u] /\ held'[u] # None /\ held'[u].role = Owner
  BY DEF Holds
<1>2. /\ TypeOK /\ txn[s] # None /\ txn[s].ready
      /\ Operands(txn[s].op) /\ Ready(txn[s])
      /\ txn[s].op.kind \in UserKinds => account[txn[s].op.user] # None
  <2>1. txn[s] # None /\ txn[s].ready
    BY DEF Write, Assign, Provision, Revoke, Create, Link, UpdateUser, Terminate, Reinstate,
           Override, EditRole, Transfer, Finish
  <2> QED
    BY <2>1, Deciding DEF AccessInv, Typed
<1>3. CASE Assign(s) \/ Provision(s) \/ Create(s)
  <2>1. /\ held' = [held EXCEPT ![txn[s].op.user] = txn[s].op.given]
        /\ txn[s].op.given \in Given \cup {None}
    BY <1>2, <1>3 DEF Assign, Provision, Create, Finish, Operands
  <2>2. held'[u] = txn[s].op.given
    BY <1>1, <1>2, <2>1 DEF TypeOK
  <2> QED
    BY <1>1, <2>1, <2>2 DEF Given
<1>4. CASE Transfer(s)
  <2>1. /\ txn[s].op.kind = "transfer"
        /\ held' = [held EXCEPT
                      ![txn[s].op.by] = IF txn[s].op.role = None THEN None
                                        ELSE [role |-> txn[s].op.role, wide |-> TRUE],
                      ![txn[s].op.user] = [role |-> Owner, wide |-> TRUE]]
        /\ account' = [account EXCEPT ![txn[s].op.by].staged = @ \/ txn[s].op.role = None]
    BY <1>4 DEF Transfer, Finish
  <2>2. /\ ReadyTransfer(txn[s]) /\ txn[s].op.user \in Users /\ txn[s].op.by \in Users
        /\ txn[s].op.by # txn[s].op.user /\ txn[s].op.role \in Roles \cup {None}
        /\ account[txn[s].op.user] # None
    BY <1>2, <2>1 DEF Operands, Ready, UserKinds
  <2>3. u = txn[s].op.user
    <3>1. u = txn[s].op.by => held[u] # None /\ held[u].role = Owner
      BY <2>2 DEF ReadyTransfer, Holds
    <3>2. u # txn[s].op.by
      BY <3>1 DEF Holds
    <3> QED
      BY <1>1, <1>2, <2>1, <2>2, <3>2 DEF TypeOK
  <2>4. account'[u] = account[u]
    BY <1>2, <2>1, <2>2, <2>3 DEF TypeOK
  <2> QED
    BY <2>2, <2>3, <2>4 DEF ReadyTransfer
<1>5. CASE Revoke(s)
  <2>1. held' = [held EXCEPT ![txn[s].op.user] = None]
    BY <1>5 DEF Revoke
  <2> QED
    BY <1>1, <1>2, <2>1 DEF TypeOK
<1>6. CASE Terminate(s)
  <2>1. held'[u] = held[u] \/ held'[u] = None
    BY <1>6 DEF Terminate
  <2> QED
    BY <1>1, <2>1
<1>7. CASE Link(s) \/ UpdateUser(s) \/ Reinstate(s) \/ Override(s) \/ EditRole(s)
  BY <1>1, <1>7 DEF Link, UpdateUser, Reinstate, Override, EditRole
<1> QED
  BY <1>3, <1>4, <1>5, <1>6, <1>7 DEF Write

-----------------------------------------------------------------------------
(* Theorems                                                                *)

LEMMA Step ==
    ASSUME AccessAssumption, AccessInv, [Next]_vars
    PROVE  /\ AccessInv'
           /\ company' = company \/ \E s \in Sessions : Write(s) /\ Covers(s)
<1>1. CASE UNCHANGED vars
  <2>1. UNCHANGED <<account, held, extra, catalog, terminated, txn, requests>>
    BY <1>1 DEF vars, company
  <2>2. AccessInv'
    <3>1. TypeOK' /\ CompanySound'
      <4>1. UNCHANGED company /\ requests' \in 0 .. MaxRequests
        BY <2>1 DEF company, AccessInv, Typed, TypeOK
      <4> QED
        BY <4>1, CompanyKept
    <3>2. Typed' /\ LocksExclusive' /\ PartiesExist'
      BY <2>1, <3>1 DEF AccessInv, Typed, RequestsSound, LocksExclusive, PartiesExist
    <3>3. ReadyHolds'
      <4> SUFFICES ASSUME NEW o \in Sessions, txn'[o] # None, txn'[o].ready, NEW t, t = txn'[o]
                   PROVE  Ready(t)'
        BY DEF ReadyHolds
      <4>1. Ready(t)
        BY <2>1 DEF AccessInv, RequestsSound, ReadyHolds
      <4> QED
        BY <2>1, <4>1, ReadyKept DEF company
    <3> QED
      BY <3>1, <3>2, <3>3 DEF AccessInv, RequestsSound
  <2> QED
    BY <2>1, <2>2 DEF company
<1>2. CASE Next
  <2>1. PICK s \in Sessions :
          \/ \E op \in OnUser : account[op.user] # None /\ Begin(s, op)
          \/ \E op \in Creation : account[op.user] = None /\ Begin(s, op)
          \/ \E op \in OnRole \cup OnEmployee : Begin(s, op)
          \/ Acquire(s) \/ Check(s) \/ Write(s) \/ Abandon(s)
    BY <1>2 DEF Next
  <2>2. CASE \E op \in OnUser : account[op.user] # None /\ Begin(s, op)
    <3>1. PICK op \in OnUser : account[op.user] # None /\ Begin(s, op)
      BY <2>2
    <3> QED
      BY <3>1, BeginKeeps DEF Operations, Begin
  <2>3. CASE \E op \in Creation \cup OnRole \cup OnEmployee : Begin(s, op)
    <3>1. PICK op \in Creation \cup OnRole \cup OnEmployee : Begin(s, op)
      BY <2>3
    <3>2. op \notin OnUser
      BY DEF Creation, OnRole, OnEmployee, OnUser
    <3> QED
      BY <3>1, <3>2, BeginKeeps DEF Operations, Begin
  <2>4. CASE Acquire(s)
    BY <2>4, AcquireKeeps DEF Acquire
  <2>5. CASE Check(s)
    BY <2>5, CheckKeeps DEF Check
  <2>6. CASE Write(s)
    BY <2>6, WriteKeeps
  <2>7. CASE Abandon(s)
    BY <2>7, AbandonKeeps DEF Abandon
  <2> QED
    BY <2>1, <2>2, <2>3, <2>4, <2>5, <2>6, <2>7
<1> QED
  BY <1>1, <1>2

\* The inductive invariant holds: accounts, roles and employments stay typed
\* and consistent, locks exclude each other, and every operation that has
\* passed its checks still finds what it relies on.
THEOREM AccessInvariance == Spec => []AccessInv
<1>1. Init => AccessInv
  BY AccessAssumption, Starts
<1>2. AccessInv /\ [Next]_vars => AccessInv'
  BY AccessAssumption, Step
<1> QED
  BY <1>1, <1>2, PTL DEF Spec

\* Whatever requests interleave: an account that can sign in has a role, one
\* is staged exactly while it has none, and nobody terminated has access.
THEOREM AccessStanding == Spec => []AccessNeedsStanding
<1>1. AccessInv => AccessNeedsStanding
  BY DEF AccessInv, CompanySound
<1> QED
  BY <1>1, AccessInvariance, PTL

\* No archived role is held, and only accounts of employees hold the role of
\* drivers.
THEOREM RolesStand == Spec => []RolesHeldStand
<1>1. AccessInv => RolesHeldStand
  BY DEF AccessInv, CompanySound
<1> QED
  BY <1>1, AccessInvariance, PTL

OwnerSignsIn(u) ==
    /\ account'[u].active /\ account'[u].login /\ ~account'[u].staged
    /\ EmployeeOf(u)' \notin terminated'

\* Whoever becomes the owner can act as one: the lock that the transfer has on
\* the account keeps it as it was found.
THEOREM OwnersCanSignIn == Spec => NewOwnerCanSignIn
<1>1. ASSUME AccessInv, [Next]_vars
      PROVE  [\A u \in Users : Holds(u, Owner)' /\ ~Holds(u, Owner) => OwnerSignsIn(u)]_company
  <2>1. AccessInv' /\ (company' = company \/ \E s \in Sessions : Write(s))
    BY <1>1, AccessAssumption, Step
  <2>2. ASSUME NEW s \in Sessions, Write(s), NEW u \in Users, Holds(u, Owner)', ~Holds(u, Owner)
        PROVE  OwnerSignsIn(u)
    <3>1. account'[u] # None /\ account'[u].active /\ account'[u].login
      BY <1>1, <2>2, AccessAssumption, OwnerByTransfer
    <3>2. AccessNeedsStanding'
      BY <2>1 DEF AccessInv, CompanySound
    <3> QED
      BY <3>1, <3>2 DEF AccessNeedsStanding, OwnerSignsIn
  <2> QED
    BY <2>1, <2>2
<1> QED
  BY <1>1, AccessInvariance, PTL DEF Spec, NewOwnerCanSignIn, OwnerSignsIn

Gives(s) ==
    /\ txn[s] # None /\ txn[s].op.kind \in {"assign", "provision", "create"}
    /\ txn[s].op.given # None

WithinCeiling(s) ==
    catalog'[held'[txn[s].op.user].role].perms \subseteq txn[s].ceiling

LEMMA GivesWithinCeiling ==
    ASSUME AccessAssumption, AccessInv, NEW s \in Sessions, Gives(s), Write(s)
    PROVE  WithinCeiling(s)
<1>1. /\ txn[s] # None /\ txn[s].ready
      /\ held' = [held EXCEPT ![txn[s].op.user] = txn[s].op.given] /\ catalog' = catalog
  BY DEF Gives, Write, Assign, Provision, Revoke, Create, Link, UpdateUser, Terminate, Reinstate,
         Override, EditRole, Transfer, Finish
<1>2. TypeOK /\ Operands(txn[s].op) /\ Ready(txn[s])
  BY <1>1, Deciding DEF AccessInv, Typed
<1>3. txn[s].op.user \in Users
  BY <1>2 DEF Gives, Operands, UserKinds
<1>4. held'[txn[s].op.user] = txn[s].op.given
  BY <1>1, <1>2, <1>3 DEF TypeOK
<1>5. catalog[txn[s].op.given.role].perms \subseteq txn[s].ceiling
  BY <1>2 DEF Gives, Ready, ReadyAssign, ReadyProvision, ReadyCreate, RoleFits
<1> QED
  BY <1>1, <1>4, <1>5 DEF WithinCeiling

\* A request ends with a change of the company only by its own write.
LEMMA EndsByWriting ==
    ASSUME AccessInv, Next, NEW s \in Sessions, txn[s] # None, txn'[s] = None,
           company' # company
    PROVE  Write(s)
<1>1. txn \in [Sessions -> Transactions \cup {None}]
  BY DEF AccessInv, Typed
<1>2. PICK o \in Sessions : Write(o)
  BY DEF Next, Begin, Acquire, Check, Abandon
<1>3. txn' = [txn EXCEPT ![o] = None]
  BY <1>2 DEF Write, Assign, Provision, Revoke, Create, Link, UpdateUser, Terminate, Reinstate,
              Override, EditRole, Transfer, Finish
<1>4. o = s
  BY <1>1, <1>3
<1> QED
  BY <1>2, <1>4

\* The role given permits no more, when it is given, than its giver could
\* grant on deciding: the share lock on the role keeps its permissions.
THEOREM GivenRolesWithinCeiling == Spec => GivenWithinCeiling
<1>1. ASSUME AccessInv, [Next]_vars
      PROVE  [\A s \in Sessions :
                 (txn[s] # None /\ company' # company /\ txn'[s] = None
                  /\ txn[s].op.kind \in {"assign", "provision", "create"}
                  /\ txn[s].op.given # None) => WithinCeiling(s)]_vars
  BY <1>1, AccessAssumption, EndsByWriting, GivesWithinCeiling DEF Gives
<1> QED
  BY <1>1, AccessInvariance, PTL DEF Spec, GivenWithinCeiling, WithinCeiling
=============================================================================
