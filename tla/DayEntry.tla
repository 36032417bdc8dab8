------------------------------ MODULE DayEntry ------------------------------
(***************************************************************************)
(* The working days of the drivers of one payroll period: the status a day *)
(* holds and the source lines entered for it (payroll/day_grid.py,         *)
(* payroll/draft_line_mutation.py, payroll/quantity_batch.py), under the   *)
(* company's status catalog and the usage limits of the branch             *)
(* (settings/status_keys.py, settings/status_key_limits.py).               *)
(*                                                                         *)
(* A request reads first, without a lock, and then writes in one step: the *)
(* period row lock keeps the other writers of the period out from there to *)
(* the commit.  The catalog is not under that lock, so statuses change     *)
(* between a request's reading and its writing.  They cannot change during *)
(* the writing: its FOR SHARE locks, and the advisory locks of the         *)
(* database, keep an edit of a status it selects out.  A new limit can be  *)
(* stored meanwhile, which is as if the save had come first: neither of    *)
(* the two writes what the other reads.                                    *)
(*                                                                         *)
(* What a request carries and its reading does not look at is chosen when  *)
(* it writes.                                                              *)
(*                                                                         *)
(* There is one pay definition.  Notes, names, aliases, hours and rates of *)
(* statuses, and whether the driver may work the day (DriverTenure), are   *)
(* left out; so is frozen evidence that keeps a status in use.             *)
(***************************************************************************)
EXTENDS Naturals, Sequences, FiniteSets

CONSTANTS
    Drivers,      \* driver assignments on the roster of the period
    Days,         \* work dates of the period
    Keys,         \* statuses of the catalog
    Clerks,       \* requests served at a time
    Quantities,   \* quantities of a line; 0 is no work
    Limits,       \* settings of the four usage limits of a status
    MaxLines,     \* bound: lines of the period, void ones too
    MaxRequests,  \* bound: requests that clerks serve
    MaxEdits,     \* bound: changes of the catalog and the limits
    None          \* no status, limit, request, or field not sent

ASSUME DayEntryAssumption ==
    /\ IsFiniteSet(Drivers) /\ IsFiniteSet(Days)
    /\ {MaxLines, MaxRequests, MaxEdits} \subseteq Nat
    /\ Quantities \subseteq Nat
    /\ Limits \subseteq [period : Nat \cup {None}, driver : Nat \cup {None},
                         drivers : Nat \cup {None}, day : Nat \cup {None}]
    /\ None \notin Keys \cup Nat

VARIABLES
    keys,     \* status -> is it active, is it a full day off
    limits,   \* status -> its usage limits in the branch
    held,     \* day of a driver -> the status it holds
    lines,    \* day of a driver -> its source lines, oldest first
    pending,  \* clerk -> the request served, with what it has read
    requests, edits   \* made so far

vars == <<keys, limits, held, lines, pending, requests, edits>>

Slots == Drivers \X Days
Line == [qty : Quantities, void : BOOLEAN]

Init ==
    /\ keys \in [Keys -> [active : {TRUE}, off : BOOLEAN]]
    /\ limits \in [Keys -> Limits]
    /\ held = [s \in Slots |-> None]
    /\ lines = [s \in Slots |-> <<>>]
    /\ pending = [c \in Clerks |-> None]
    /\ requests = 0
    /\ edits = 0

-----------------------------------------------------------------------------
(* Lines of a day *)

Live(ls) == {i \in DOMAIN ls : ~ls[i].void}
AllLines(all) == UNION {{s} \X DOMAIN all[s] : s \in Slots}
Works(ls) == \E i \in Live(ls) : ls[i].qty > 0

\* Day Grid's value for the definition: zero voids the line, another value
\* goes to the line there is or to a new one, none leaves the day alone.
Entered(ls, qty) ==
    IF qty = None \/ (qty = 0 /\ Live(ls) = {}) THEN ls
    ELSE IF Live(ls) = {} THEN Append(ls, [qty |-> qty, void |-> FALSE])
    ELSE LET i == CHOOSE j \in Live(ls) : TRUE
         IN  IF qty = 0 THEN [ls EXCEPT ![i].void = TRUE]
                        ELSE [ls EXCEPT ![i].qty = qty]

IsOff(key) == key # None /\ keys[key].off

\* Mutant: the database does not repeat the rule.
Unguarded(key, ls) == TRUE
\* The database's own judgement of a day after a write
\* (fn_guard_status_off_work): no full day off beside ordinary work.
OffWorkGuard(key, ls) == ~(IsOff(key) /\ Works(ls))

\* ux_DraftLines_TargetBusinessKey.
OneLive(ls) == Cardinality(Live(ls)) <= 1

-----------------------------------------------------------------------------
(* Requests *)

Begin(c, request) ==
    /\ pending[c] = None /\ requests < MaxRequests
    /\ pending' = [pending EXCEPT ![c] = request]
    /\ requests' = requests + 1
    /\ UNCHANGED <<keys, limits, held, lines, edits>>

\* A request is refused, or its connection breaks: its transaction leaves
\* nothing behind.
Abandon(c) ==
    /\ pending[c] # None
    /\ pending' = [pending EXCEPT ![c] = None]
    /\ UNCHANGED <<keys, limits, held, lines, requests, edits>>

Done(c) ==
    /\ pending' = [pending EXCEPT ![c] = None]
    /\ UNCHANGED <<keys, limits, requests, edits>>

-----------------------------------------------------------------------------
(* Day Grid: the rows of some drivers on one day *)

Rows == UNION {[D -> Keys \cup {None}] : D \in (SUBSET Drivers) \ {{}}}

\* get_status_by_id, resolve_status_input: an active status, or the one the
\* day holds.
Resolves(key, slot) == key # None => keys[key].active \/ held[slot] = key

Selected(rows) == {rows[d] : d \in DOMAIN rows} \ {None}

\* Phase 1: every status is resolved before the period is locked, and the row
\* read then, with its meaning, is the one the rest of the save judges by.
BeginSave(c, day, rows) ==
    /\ \A d \in DOMAIN rows : Resolves(rows[d], <<d, day>>)
    /\ Begin(c, [op |-> "save", day |-> day, rows |-> rows,
                  seen |-> [k \in Selected(rows) |-> keys[k]]])

BatchSlots(r) == {<<d, r.day>> : d \in DOMAIN r.rows}
BatchUses(r, key) == {<<d, r.day>> : d \in {e \in DOMAIN r.rows : r.rows[e] = key}}

\* Mutant: the uses of the batch's drivers on other days are left out too.
UsesOfOthers(r, key) == {s \in Slots : held[s] = key /\ s[1] \notin DOMAIN r.rows}
\* The uses of a status that stay: the slots of the batch are overwritten.
OtherUses(r, key) == {s \in Slots \ BatchSlots(r) : held[s] = key}

\* _enforce_status_key_limits, for the drivers and the date of the batch.
WithinLimits(r, key) ==
    LET limit == limits[key]
        after == OtherUses(r, key) \cup BatchUses(r, key)
        Reached(most, uses) == most # None => Cardinality(uses) <= most
    IN  /\ Reached(limit.period, after)
        /\ \A s \in BatchUses(r, key) :
              Reached(limit.driver, {u \in after : u[1] = s[1]})
        /\ Reached(limit.drivers, {u[1] : u \in after})
        /\ Reached(limit.day, {u \in after : u[2] = r.day})

\* lock_selected_status_keys: a status resolved as active still is.
StillActive(r) == \A k \in DOMAIN r.seen : r.seen[k].active => keys[k].active

\* assert_no_off_status_work_conflicts: by the meaning read in phase 1.
NoConflictSeen(r, qty) ==
    \A d \in DOMAIN r.rows :
        r.rows[d] # None /\ r.seen[r.rows[d]].off
            => ~Works(Entered(lines[<<d, r.day>>], qty[d]))

\* Phase 2, under the period lock: checks, then clears, statuses and new values.
Save(c) ==
    LET r == pending[c]
    IN  /\ r # None /\ r.op = "save"
        /\ StillActive(r)
        /\ \A k \in DOMAIN r.seen : WithinLimits(r, k)
        /\ \E qty \in [DOMAIN r.rows -> Quantities \cup {None}] :
              /\ NoConflictSeen(r, qty)
              /\ lines' = [s \in Slots |-> IF s \in BatchSlots(r) THEN Entered(lines[s], qty[s[1]])
                                                                ELSE lines[s]]
        /\ held' = [s \in Slots |-> IF s \in BatchSlots(r) THEN r.rows[s[1]] ELSE held[s]]
        /\ \A s \in BatchSlots(r) : OffWorkGuard(held'[s], lines'[s])
        /\ Cardinality(AllLines(lines')) <= MaxLines
        /\ Done(c)

-----------------------------------------------------------------------------
(* Source lines, one at a time *)

\* Everything add_draft_line decides on is read under the period lock.
AddLine(s, qty) ==
    /\ Cardinality(AllLines(lines)) < MaxLines
    /\ ~(qty > 0 /\ IsOff(held[s]))
    /\ Live(lines[s]) = {}
    /\ lines' = [lines EXCEPT ![s] = Append(@, [qty |-> qty, void |-> FALSE])]
    /\ UNCHANGED <<keys, limits, held, pending, requests, edits>>

\* update_draft_line reads the line, and refuses a void one, before it locks
\* the period.
BeginUpdate(c, s, i) ==
    /\ ~lines[s][i].void
    /\ Begin(c, [op |-> "update", slot |-> s, i |-> i, seen |-> lines[s][i]])

Sent(field, old) == IF field = None THEN old ELSE field

\* The status rule is judged with the fields the line had when it was read.
UpdateAllowed(r, qty, void) ==
    Sent(void, r.seen.void) \/ Sent(qty, r.seen.qty) = 0 \/ ~IsOff(held[r.slot])

\* The caller sends a quantity, whether the line is void, or both.  The
\* statement that writes the row does not ask whether it is void by now.
UpdateLine(c) ==
    LET r == pending[c]
        now == lines[r.slot][r.i]
    IN  /\ r # None /\ r.op = "update"
        /\ \E qty \in Quantities \cup {None}, void \in BOOLEAN \cup {None} :
              LET new == [qty |-> Sent(qty, now.qty), void |-> Sent(void, now.void)]
              IN  /\ <<qty, void>> # <<None, None>>
                  /\ UpdateAllowed(r, qty, void)
                  /\ lines' = [lines EXCEPT ![r.slot][r.i] = new]
                  /\ new.void \/ new.qty = 0 \/ OffWorkGuard(held[r.slot], lines'[r.slot])
        /\ OneLive(lines'[r.slot])
        /\ UNCHANGED held
        /\ Done(c)

\* void_draft_line reads the line too; one that another request has voided
\* meanwhile is voided again.
BeginVoid(c, s, i) ==
    /\ ~lines[s][i].void
    /\ Begin(c, [op |-> "void", slot |-> s, i |-> i])

VoidLine(c) ==
    LET r == pending[c]
    IN  /\ r # None /\ r.op = "void"
        /\ lines' = [lines EXCEPT ![r.slot][r.i].void = TRUE]
        /\ UNCHANGED held
        /\ Done(c)

-----------------------------------------------------------------------------
(* Reviewed quantities of an import *)

Quantity(ls) == IF Live(ls) = {} THEN None ELSE ls[CHOOSE i \in Live(ls) : TRUE].qty

\* A change is reviewed with the quantity the day had then.
BeginReview(c, s) ==
    Begin(c, [op |-> "review", slot |-> s, expected |-> Quantity(lines[s])])

\* apply_reviewed_quantities: a plan whose day has changed is refused, and an
\* unchanged value, zero where there is nothing too, writes nothing.
ApplyReviewed(c) ==
    LET r == pending[c]
    IN  /\ r # None /\ r.op = "review"
        /\ Quantity(lines[r.slot]) = r.expected
        /\ \E qty \in Quantities :
              /\ ~(qty > 0 /\ IsOff(held[r.slot]))
              /\ lines' = IF qty = r.expected THEN lines
                          ELSE [lines EXCEPT ![r.slot] = Entered(@, qty)]
        /\ Cardinality(AllLines(lines')) <= MaxLines
        /\ UNCHANGED held
        /\ Done(c)

-----------------------------------------------------------------------------
(* Catalog and limits *)

\* keys_in_use, and fn_guard_status_key_semantics.
InUse(key) == \E s \in Slots : held[s] = key

\* update_status_key, and delete_status_key that only deactivates: a status in
\* use keeps its meaning; it may be deactivated, and activated again.
UpdateStatusKey(k, active, off) ==
    /\ edits < MaxEdits /\ keys[k] # [active |-> active, off |-> off]
    /\ off # keys[k].off => ~InUse(k)
    /\ keys' = [keys EXCEPT ![k] = [active |-> active, off |-> off]]
    /\ edits' = edits + 1
    /\ UNCHANGED <<limits, held, lines, pending, requests>>

\* Lower limits do not look at the uses there are.
PutBranchLimits(k, limit) ==
    /\ edits < MaxEdits /\ limits[k] # limit
    /\ limits' = [limits EXCEPT ![k] = limit]
    /\ edits' = edits + 1
    /\ UNCHANGED <<keys, held, lines, pending, requests>>

-----------------------------------------------------------------------------
Serve(c) ==
    \/ \E day \in Days, rows \in Rows : BeginSave(c, day, rows)
    \/ \E s \in Slots : \E i \in DOMAIN lines[s] :
          BeginUpdate(c, s, i) \/ BeginVoid(c, s, i)
    \/ \E s \in Slots : BeginReview(c, s)
    \/ Save(c) \/ UpdateLine(c) \/ VoidLine(c) \/ ApplyReviewed(c)
    \/ Abandon(c)

Next ==
    \/ \E c \in Clerks : Serve(c)
    \/ \E s \in Slots, qty \in Quantities : AddLine(s, qty)
    \/ \E k \in Keys :
          \/ \E active, off \in BOOLEAN : UpdateStatusKey(k, active, off)
          \/ \E limit \in Limits : PutBranchLimits(k, limit)

Spec == Init /\ [][Next]_vars

-----------------------------------------------------------------------------
(* Properties *)

TypeOK ==
    /\ keys \in [Keys -> [active : BOOLEAN, off : BOOLEAN]]
    /\ limits \in [Keys -> Limits]
    /\ held \in [Slots -> Keys \cup {None}]
    /\ \A s \in Slots : lines[s] \in Seq(Line)
    /\ Cardinality(AllLines(lines)) <= MaxLines

\* A full day off carries no ordinary work, whichever of the two was entered
\* first, and also when the status only became a full day off after a save had
\* read it (status_work_conflict.py, fn_guard_status_off_work).
NoWorkOnDaysOff == \A s \in Slots : ~(IsOff(held[s]) /\ Works(lines[s]))

GrowsWithin(most, before, after) ==
    most # None /\ Cardinality(after) > Cardinality(before) => Cardinality(after) <= most

\* No write makes more use of a status, in the period, by a driver, by drivers
\* or on a day, than the limits allow, whatever saves go on at the same time
\* (day_entry_state.py).  Limits lowered later leave the uses there are alone.
LimitsRespected ==
    [][\A k \in Keys :
          LET Uses == {s \in Slots : held[s] = k}
              Then == {s \in Slots : held'[s] = k}
          IN  /\ GrowsWithin(limits[k].period, Uses, Then)
              /\ \A d \in Drivers : GrowsWithin(limits[k].driver, {s \in Uses : s[1] = d},
                                                                  {s \in Then : s[1] = d})
              /\ GrowsWithin(limits[k].drivers, {s[1] : s \in Uses}, {s[1] : s \in Then})
              /\ \A day \in Days : GrowsWithin(limits[k].day, {s \in Uses : s[2] = day},
                                                              {s \in Then : s[2] = day})]_vars
=============================================================================
