------------------------ MODULE CompensationSchedules ------------------------
(***************************************************************************)
(* Who is paid at which rate: the rate schedules of one driver for one     *)
(* rate definition (compensation/schedules.py), the definition's structure *)
(* (compensation/definitions.py), the Minimum and Maximum rules of the     *)
(* driver (payroll/driver_pay_rules.py) and the company's currency         *)
(* (company_currency.py), changed by concurrent transactions while the     *)
(* driver's periods are opened, submitted and finalized and the driver is  *)
(* transferred.                                                            *)
(*                                                                         *)
(* A request reads without locks (Begin) and takes its locks one by one    *)
(* (Acquire).  One whose change moves pay then decides at an instant it    *)
(* reads last (Decide) and writes in a later step, where the trigger and   *)
(* the constraints of 0088_driver_owned_compensation.sql look again; the   *)
(* others check and write in one step.  A request that is refused, or      *)
(* fails, rolls back (RollBack).  Locks are numbered in the order of       *)
(* branch_compensation_config_concurrency.py.                              *)
(*                                                                         *)
(* Reviews, entries and transfers are PayrollWorkflow's, DayEntry's and    *)
(* DriverTenure's: here a submitted period is approved when it is          *)
(* finalized, its entries are chosen when its submission begins, and the   *)
(* driver is transferred once, at once or from a later instant. As in      *)
(* DriverTenure an instant is half a day and WorkDate d lasts from 2d - 2  *)
(* up to 2d.                                                               *)
(***************************************************************************)
EXTENDS PayCalculation

CONSTANTS
    Branches,       \* numbered from 1: locks are taken in ascending order
    Periods,
    BranchOf,       \* branch of a period
    DaysOf,         \* WorkDates of a period
    Scheduled,      \* its scheduled days
    CalendarOf,     \* the pay calendar of a branch
    LastDay,        \* bound: WorkDates are 1 .. LastDay
    MaxSchedules,   \* bound: schedules created
    MaxRules,       \* bound: pay rules created
    MaxRequests,    \* bound: requests begun
    Txns,           \* connections
    Windows,        \* windows a request may ask for, <<from, to>>
    Clock,          \* bound: the instants at which anything happens
    TransferAt,     \* instants a transfer may be scheduled at, Nothing: at once
    Quantities,     \* of a line
    Rates,          \* amounts of a schedule's value
    RuleAmounts,    \* amounts typed for a pay rule
    Minors          \* quanta in a minor unit of the supported currencies

Days     == 1 .. LastDay
Forever  == LastDay + 1             \* the end of an open window
Instants == 0 .. 2 * LastDay
Never    == 2 * LastDay + 1         \* the end of an open assignment

ASSUME CompensationAssumption ==
    /\ {LastDay, MaxSchedules, MaxRules, MaxRequests} \subseteq Nat
    /\ Branches \subseteq Nat \ {0} /\ IsFiniteSet(Branches)
    /\ BranchOf \in [Periods -> Branches]
    /\ DaysOf \in [Periods -> SUBSET Days] /\ \A p \in Periods : DaysOf[p] # {}
    /\ \A p \in Periods : Scheduled[p] \subseteq DaysOf[p]
    /\ Windows \subseteq Days \X (Days \cup {Forever})
    /\ Quantities \cup Rates \cup RuleAmounts \subseteq Nat
    /\ Minors \subseteq Nat \ {0}
    /\ Clock \subseteq Instants /\ 0 \in Clock /\ TransferAt \subseteq Instants \cup {Nothing}

VARIABLES
    now,        \* the wall clock
    tenures,    \* core.DriverAssignments of the driver, in order
    structure,  \* payroll.RateDefinitions and the status of its PayDefinition
    sched,      \* payroll.DriverRateSchedules with their values
    rules,      \* payroll.DriverPayRules
    pstat,      \* status of a period: "none" before it is created
    roster,     \* eligible WorkDates of the driver's row in a period, {}: no row
    packet,     \* the last calculation snapshot of a period
    minor,      \* core.Companies.CurrencyCode, as quanta in its minor unit
    tx,         \* the transaction of a connection
    served      \* requests begun so far

Unpaid == [tenure |-> 0]    \* a period that was never submitted

monetary == <<structure, sched, rules>>
payroll  == <<tenures, pstat, roster, packet>>
vars == <<now, monetary, payroll, minor, tx, served>>

ScheduleIds == 1 .. MaxSchedules
RuleIds     == 1 .. MaxRules
RuleTypes   == {"MinimumPay", "MaximumPay"}
Shapes      == {"Scalar", "OrdinalTierSchedule"}

-----------------------------------------------------------------------------
(* Dates and tenures                                                       *)

InWindow(d, w) == w.from <= d /\ d <= w.to
Overlap(v, w)  == v.from <= w.to /\ w.from <= v.to

Covers(a, d) == a.from < a.to /\ a.from < 2 * d /\ 2 * d - 2 < a.to

\* fn_DriverAssignmentForBusinessDate: the latest of these, if any
Context(d) ==
    LET covering == {i \in DOMAIN tenures : Covers(tenures[i], d)}
    IN {i \in covering : \A j \in covering : j <= i}

\* Mutant: history can be rewritten.
KnownContext(d) == Context(d) # {}

\* require_compensation_authority, and the trigger DriverCompensationContextWritable
ContextWritable(d) == \E i \in Context(d) : tenures[i].to > now

-----------------------------------------------------------------------------
(* Schedules and rules                                                     *)

Authoritative    == {s \in DOMAIN sched : sched[s].status \in {"Approved", "Superseded"}}
Approved         == {s \in DOMAIN sched : sched[s].status = "Approved"}
InForce          == {r \in DOMAIN rules : rules[r].status \in {"Active", "Ended"}}
ResolvedOn(d)    == {s \in Authoritative : InWindow(d, sched[s])}
RulesOn(type, d) == {r \in InForce : rules[r].type = type /\ InWindow(d, rules[r])}
AmountOn(type, d) == IF RulesOn(type, d) = {} THEN Nothing
                     ELSE rules[CHOOSE r \in RulesOn(type, d) : TRUE].amount

\* What the driver is paid by on day d.
RatesOn(d)         == {<<s, sched[s].values>> : s \in ResolvedOn(d)}
RuleTerms(type, d) == {<<r, rules[r].amount>> : r \in RulesOn(type, d)}

\* fn_DriverFinalizedPayrollTouched in its two modes
Finalized == {p \in Periods : pstat[p] = "Locked" /\ roster[p] # {}}
NoFinalizedWork(from, to)  == \A p \in Finalized : DaysOf[p] \cap (from .. to) = {}
NoFinalizedStart(from, to) == \A p \in Finalized : Min(DaysOf[p]) \notin from .. to

\* driver_payroll_period_branches and the tenures that reach from
BranchesFrom(from) ==
    {tenures[i].branch : i \in {j \in DOMAIN tenures : tenures[j].to > 2 * from - 2}}
    \cup {BranchOf[p] : p \in {q \in Periods : roster[q] # {} /\ Max(DaysOf[q]) >= from}}

SameSchedule(o) == sched[o.s].from = o.from
IsPending(s)    == sched[s].status = "Pending"
IsVoidable(s)   == sched[s].status \in {"Approved", "Superseded"}

\* _authorable_rate_definition
Authorable == structure.active

\* Every date whose rate an approval changes ends here.
FootprintEnd(s) == Max({sched[s].to} \cup {sched[q].to : q \in Approved})

\* The approval of s closes the schedule in force the day before s starts.
Superseded(s) ==
    [q \in DOMAIN sched |->
        IF q \in Approved
        THEN [sched[q] EXCEPT !.status = "Superseded", !.to = Min({@, sched[s].from - 1})]
        ELSE sched[q]]

\* excl_driverrateschedules_authoritativeoverlap
NoOverlap(s, rows) ==
    \A q \in Authoritative \ {s} : rows[q].from <= rows[q].to => ~Overlap(rows[s], rows[q])

ApproveAllowed(o) ==
    LET s == o.s
    IN /\ SameSchedule(o) /\ IsPending(s) /\ Authorable
       /\ DOMAIN sched[s].values = ComponentsOf(structure.shape)
       /\ \A q \in Approved : sched[s].from > sched[q].from
       /\ ContextWritable(sched[s].from)
       /\ NoFinalizedWork(sched[s].from, FootprintEnd(s))

VoidAllowed(o) ==
    /\ SameSchedule(o) /\ IsVoidable(o.s)
    /\ ContextWritable(sched[o.s].from)
    /\ NoFinalizedWork(sched[o.s].from, sched[o.s].to)

-----------------------------------------------------------------------------
(* Pay rules                                                               *)

\* excl_driverpayrules_no_date_overlap
NoRuleOverlap(type, w, except) ==
    \A r \in InForce \ except : rules[r].type = type => ~Overlap(w, rules[r])

CreateRuleAllowed(o) ==
    /\ ContextWritable(o.from)
    /\ NoRuleOverlap(o.type, o, {})
    /\ NoFinalizedStart(o.from, o.to)

\* changed_window: the dates between the old and the new end
FirstChanged(r, to) == Min({to, rules[r].to}) + 1
LastChanged(r, to)  == Max({to, rules[r].to})

EndRuleAllowed(o) ==
    /\ rules[o.r].status = "Active" /\ o.to >= rules[o.r].from
    /\ ContextWritable(FirstChanged(o.r, o.to))
    /\ NoFinalizedStart(FirstChanged(o.r, o.to), LastChanged(o.r, o.to))

VoidRuleAllowed(o) ==
    /\ rules[o.r].status # "Voided"
    /\ ContextWritable(rules[o.r].from)
    /\ NoFinalizedStart(rules[o.r].from, rules[o.r].to)

-----------------------------------------------------------------------------
(* What is paid                                                            *)

\* The driver's assignment in the branch of p.
TenureOf(p) == {i \in DOMAIN tenures : tenures[i].branch = BranchOf[p]}

CoveredDays(i, p) == {d \in DaysOf[p] : Covers(tenures[i], d)}

\* Mutant: a transfer day is everybody's.
AnyonesDays(i, days) == days

\* Rule D1: a later assignment takes the days of a roster it is on, and those
\* of its live window where its branch has no roster yet.
OwnedDays(i, days) ==
    {d \in days : \A j \in DOMAIN tenures : j > i =>
        LET captured == {p \in Periods : pstat[p] # "none" /\ j \in TenureOf(p) /\ d \in DaysOf[p]}
        IN /\ \A p \in captured : d \notin roster[p]
           /\ captured = {} => ~Covers(tenures[j], d)}

\* load_live_source_lines: the values of the schedule that resolves on d
ValuesOn(d) == {sched[s].values : s \in ResolvedOn(d)}

Calculated(lines) ==
    \A d \in DOMAIN lines :
        CalculationStatus(structure.shape, ValuesOn(d), lines[d]) = "CALCULATED"

RawPay(lines) ==
    MapThenSumSet(LAMBDA d : LineAmount(structure.shape, CHOOSE v \in ValuesOn(d) : TRUE, lines[d]),
                  DOMAIN lines)

\* _load_effective_rules and _evaluate_minmax for the driver's row in p
PacketOf(p, i, lines, off) ==
    LET start == Min(DaysOf[p])
        fits  == \A type \in RuleTypes : \A r \in RulesOn(type, start) :
                    rules[r].calendar = CalendarOf[BranchOf[p]]
    IN [tenure |-> i, until |-> tenures[i].to, facts |-> DOMAIN lines \cup off,
        pay |-> Packet(RawPay(lines), AmountOn("MinimumPay", start), AmountOn("MaximumPay", start),
                       fits, minor,
                       CountedDays(Scheduled[p], OwnedDays(i, roster[p]), off), Scheduled[p])]

\* The lines a driver may have on these days; every line has an amount.
Lines(days) ==
    {f \in UNION {[W -> Quantities] : W \in (SUBSET days) \ {{}}} : Calculated(f)}

\* The driver has lines on some eligible days of assignment i and is off on others.
PacketsFrom(i, p) ==
    LET days == roster[p] \cap CoveredDays(i, p)
    IN {PacketOf(p, i, f, off \ DOMAIN f) : f \in Lines(days), off \in SUBSET days}

\* The packets p may be submitted with: no rule blocks.
Packets(p) ==
    {new \in UNION {PacketsFrom(i, p) : i \in TenureOf(p)} : new.pay.status \notin MinMaxBlockers}

-----------------------------------------------------------------------------
(* Requests and their locks                                                *)

Company     == 0            \* core.Companies row
TenureRows  == 10           \* the driver's core.DriverAssignments rows
Workflow(b) == 10 + b       \* branch workflow lock
Structure   == 1000         \* structure lock of the rate definition
RuleRow(r)  == 1000 + r

ScheduleKinds == {"create", "update", "replace", "approve", "discard", "void"}
RuleKinds     == {"createRule", "endRule", "voidRule"}
PeriodKinds   == {"open", "submit", "return", "finalize"}

\* Requests whose change moves pay: they exclude the workflow of every branch
\* it may reach (lock_from)
PayKinds == {"approve", "void"} \cup RuleKinds

\* Mutant: creating a rule does not hold the currency.
MonetaryButCreate == {"replace", "endRule", "voidRule", "approve", "void", "submit", "finalize"}

\* Requests that share the company row, with its currency.
MonetaryKinds == {"replace", "submit", "finalize"} \cup PayKinds

Shared(o) == {k \in {Company}    : o.kind \in MonetaryKinds}
        \cup {k \in {TenureRows} : o.kind \in ScheduleKinds \cup RuleKinds}

Exclusive(o, branches) ==
    {Workflow(b) : b \in branches}
        \cup {k \in {Company}    : o.kind = "currency"}
        \cup {k \in {TenureRows} : o.kind = "transfer"}
        \cup {k \in {Structure}  : o.kind \in ScheduleKinds \cup {"structure", "retire", "open"}}
        \cup {RuleRow(r) : r \in {q \in RuleIds : o.kind \in {"endRule", "voidRule"} /\ o.r = q}}

\* Branches a request names itself.
OwnBranches(o) == CASE o.kind \in PeriodKinds -> {BranchOf[o.p]}
                    [] o.kind = "transfer"    -> Branches
                    [] OTHER                  -> {}

Idle == [kind |-> "idle"]
Busy == {t \in Txns : tx[t].op # Idle}

Wanted(t) == (Shared(tx[t].op) \cup Exclusive(tx[t].op, tx[t].branches)) \ tx[t].held

\* Mutant: a transfer locks the branches before the assignments.
BranchesFirst(o, l) == IF o.kind = "transfer" THEN -l ELSE l

LockOrder(o, l) == l

NextLock(t) == CHOOSE l \in Wanted(t) :
                  \A k \in Wanted(t) : LockOrder(tx[t].op, l) <= LockOrder(tx[t].op, k)

Blockers(t) ==
    {u \in Busy \ {t} : /\ NextLock(t) \in tx[u].held
                        /\ ~(NextLock(t) \in Shared(tx[t].op) /\ NextLock(t) \in Shared(tx[u].op))}

Ready(t, kind)   == tx[t].op.kind = kind /\ Wanted(t) = {}
Decided(t, kind) == tx[t].op.kind = kind /\ tx[t].decided

\* Requests as they reach the service, with what it reads before its locks: a
\* schedule's start, the first day a rule's change touches.
Requests ==
    {[kind |-> "create", w |-> w] : w \in Windows}
    \cup {[kind |-> "update", s |-> s, w |-> w] : s \in DOMAIN sched, w \in Windows}
    \cup {[kind |-> k, s |-> s, from |-> sched[s].from] :
              k \in {"replace", "approve", "discard", "void"}, s \in DOMAIN sched}
    \cup {[kind |-> "createRule", type |-> y, amount |-> a, from |-> w[1], to |-> w[2]] :
              y \in RuleTypes, a \in RuleAmounts, w \in Windows}
    \cup {[kind |-> "endRule", r |-> r, to |-> d, from |-> FirstChanged(r, d)] :
              r \in DOMAIN rules, d \in {w[2] : w \in Windows} \cap Days}
    \cup {[kind |-> "voidRule", r |-> r, from |-> rules[r].from] : r \in DOMAIN rules}
    \cup {[kind |-> "structure", shape |-> h] : h \in Shapes}
    \cup {[kind |-> "retire"]}
    \cup {[kind |-> "currency", minor |-> m] : m \in Minors}
    \cup {[kind |-> k, p |-> p] : k \in PeriodKinds \ {"submit"}, p \in Periods}
    \cup {[kind |-> "submit", p |-> p, seen |-> pstat[p]] : p \in Periods}
    \cup {[kind |-> "transfer", at |-> at] : at \in TransferAt}

\* The checks before any lock: a quick answer, made again under the locks.
Early(o) ==
    CASE o.kind = "create"   -> Authorable /\ ContextWritable(o.w[1])
      [] o.kind = "update"   -> ContextWritable(o.w[1]) /\ sched[o.s].status # "Discarded"
      [] o.kind = "discard"  -> sched[o.s].status # "Discarded"
      [] o.kind \in {"replace", "approve"} -> ContextWritable(o.from) /\ IsPending(o.s)
      [] o.kind = "void"     -> ContextWritable(o.from) /\ IsVoidable(o.s)
      [] o.kind = "endRule"  -> ContextWritable(o.from) /\ rules[o.r].status = "Active"
      [] o.kind = "voidRule" -> ContextWritable(o.from) /\ rules[o.r].status # "Voided"
      [] o.kind = "createRule" -> ContextWritable(o.from)
      [] o.kind = "submit"   -> o.seen \in {"Open", "Returned"}
      [] o.kind \in {"return", "finalize"} -> pstat[o.p] = "Review"
      [] o.kind = "transfer" -> Len(tenures) = 1
      [] OTHER               -> TRUE

\* The transaction of a request that has just begun, or of none.
NewTx(o, new) == [op |-> o, branches |-> OwnBranches(o), held |-> {}, minor |-> minor,
                  decided |-> FALSE, packet |-> new]

\* A submission is REPEATABLE READ: what it will calculate is fixed here.
Begin(t, o) ==
    /\ t \notin Busy /\ served < MaxRequests
    /\ Early(o)
    /\ \E new \in IF o.kind = "submit" THEN Packets(o.p) ELSE {Unpaid} :
         tx' = [tx EXCEPT ![t] = NewTx(o, new)]
    /\ served' = served + 1
    /\ UNCHANGED <<now, monetary, payroll, minor>>

\* Holding the driver's assignments, a pay change learns the branches to lock;
\* holding the company row, its currency.  That row cannot be locked by a
\* submission once it differs from what it saw (40001).
Acquire(t) ==
    /\ t \in Busy /\ Wanted(t) # {} /\ Blockers(t) = {}
    /\ NextLock(t) = Company /\ tx[t].op.kind = "submit" => tx[t].minor = minor
    /\ LET l == NextLock(t)
       IN tx' = [tx EXCEPT ![t].held = @ \cup {l},
                           ![t].minor = IF l = Company THEN minor ELSE @,
                           ![t].branches = IF l = TenureRows /\ tx[t].op.kind \in PayKinds
                                           THEN BranchesFrom(tx[t].op.from) ELSE @]
    /\ UNCHANGED <<now, monetary, payroll, minor, served>>

Done(t) == tx' = [tx EXCEPT ![t] = NewTx(Idle, Unpaid)]

Allowed(o) ==
    CASE o.kind = "approve"    -> ApproveAllowed(o)
      [] o.kind = "void"       -> VoidAllowed(o)
      [] o.kind = "createRule" -> CreateRuleAllowed(o)
      [] o.kind = "endRule"    -> EndRuleAllowed(o)
      [] o.kind = "voidRule"   -> VoidRuleAllowed(o)

Decide(t) ==
    /\ tx[t].op.kind \in PayKinds /\ Wanted(t) = {} /\ ~tx[t].decided
    /\ Allowed(tx[t].op)
    /\ tx' = [tx EXCEPT ![t].decided = TRUE]
    /\ UNCHANGED <<now, monetary, payroll, minor, served>>

RollBack(t) ==
    /\ t \in Busy
    /\ Done(t)
    /\ UNCHANGED <<now, monetary, payroll, minor, served>>

Tick == /\ now' \in Clock
        /\ now < now' /\ \A c \in Clock : now < c => now' <= c
        /\ UNCHANGED <<monetary, payroll, minor, tx, served>>

-----------------------------------------------------------------------------
(* Schedules and the structure of their definition                         *)

ScheduleOnly == UNCHANGED <<now, structure, rules, payroll, minor, served>>

CreatePending(t) ==
    LET w == tx[t].op.w
    IN /\ Ready(t, "create") /\ Done(t)
       /\ Authorable /\ ContextWritable(w[1])
       /\ ~\E s \in DOMAIN sched : IsPending(s)
       /\ Len(sched) < MaxSchedules
       /\ sched' = Append(sched, [from |-> w[1], to |-> w[2], status |-> "Pending", values |-> <<>>])
       /\ ScheduleOnly

UpdatePending(t) ==
    LET o == tx[t].op
    IN /\ Ready(t, "update") /\ Done(t)
       /\ IsPending(o.s) /\ Authorable /\ ContextWritable(o.w[1])
       /\ sched' = [sched EXCEPT ![o.s].from = o.w[1], ![o.s].to = o.w[2]]
       /\ ScheduleOnly

ReplaceValues(t) ==
    LET o == tx[t].op
    IN /\ Ready(t, "replace") /\ Done(t)
       /\ SameSchedule(o) /\ IsPending(o.s) /\ ContextWritable(o.from)
       /\ \E C \in SUBSET ComponentsOf(structure.shape) : \E values \in [C -> Rates] :
            sched' = [sched EXCEPT ![o.s].values = values]
       /\ ScheduleOnly

\* The first approval locks the structure for good.
Approve(t) ==
    LET o == tx[t].op
    IN /\ Decided(t, "approve") /\ Done(t)
       /\ ContextWritable(sched[o.s].from) /\ NoOverlap(o.s, Superseded(o.s))
       /\ sched' = [Superseded(o.s) EXCEPT ![o.s].status = "Approved"]
       /\ structure' = [structure EXCEPT !.locked = TRUE]
       /\ UNCHANGED <<now, rules, payroll, minor, served>>

\* The row is deleted; its number is never used again.
Discard(t) ==
    /\ Ready(t, "discard") /\ Done(t)
    /\ IsPending(tx[t].op.s)
    /\ sched' = [sched EXCEPT ![tx[t].op.s].status = "Discarded"]
    /\ ScheduleOnly

VoidSchedule(t) ==
    /\ Decided(t, "void") /\ Done(t)
    /\ ContextWritable(sched[tx[t].op.s].from)
    /\ sched' = [sched EXCEPT ![tx[t].op.s].status = "Voided"]
    /\ ScheduleOnly

ChangeStructure(t) ==
    /\ Ready(t, "structure") /\ Done(t)
    /\ structure.active /\ ~structure.locked
    /\ ~\E s \in DOMAIN sched : IsPending(s)
    /\ structure' = [structure EXCEPT !.shape = tx[t].op.shape]
    /\ UNCHANGED <<now, sched, rules, payroll, minor, served>>

RetireDefinition(t) ==
    /\ Ready(t, "retire") /\ Done(t)
    /\ structure' = [structure EXCEPT !.active = FALSE]
    /\ UNCHANGED <<now, sched, rules, payroll, minor, served>>

-----------------------------------------------------------------------------
(* Pay rules and currency                                                  *)

RulesOnly == UNCHANGED <<now, structure, sched, payroll, minor, served>>

\* The amount is rounded once to the currency held; the calendar is that of
\* the branch of the start date.
CreateRule(t) ==
    LET o      == tx[t].op
        amount == RoundPayable(o.amount, tx[t].minor)
    IN /\ Decided(t, "createRule") /\ Done(t)
       /\ amount > 0 /\ ContextWritable(o.from) /\ NoRuleOverlap(o.type, o, {})
       /\ Len(rules) < MaxRules
       /\ \E i \in Context(o.from) :
            rules' = Append(rules, [type |-> o.type, amount |-> amount, from |-> o.from,
                                    to |-> o.to, status |-> "Active",
                                    calendar |-> CalendarOf[tenures[i].branch]])
       /\ RulesOnly

EndRule(t) ==
    LET o == tx[t].op
    IN /\ Decided(t, "endRule") /\ Done(t)
       /\ o.to # rules[o.r].to => ContextWritable(FirstChanged(o.r, o.to))
       /\ NoRuleOverlap(rules[o.r].type, [from |-> rules[o.r].from, to |-> o.to], {o.r})
       /\ rules' = [rules EXCEPT ![o.r].status = "Ended", ![o.r].to = o.to]
       /\ RulesOnly

VoidRule(t) ==
    /\ Decided(t, "voidRule") /\ Done(t)
    /\ ContextWritable(rules[tx[t].op.r].from)
    /\ rules' = [rules EXCEPT ![tx[t].op.r].status = "Voided"]
    /\ RulesOnly

\* fn_company_has_durable_monetary_state
Durable == \/ \E s \in DOMAIN sched : sched[s].status \in {"Approved", "Superseded", "Voided"}
           \/ rules # <<>>
           \/ \E p \in Periods : packet[p] # Unpaid

ChangeCurrency(t) ==
    /\ Ready(t, "currency") /\ Done(t)
    /\ ~Durable
    /\ minor' = tx[t].op.minor
    /\ UNCHANGED <<now, monetary, payroll, served>>

-----------------------------------------------------------------------------
(* Periods and the transfer                                                *)

PeriodOnly == UNCHANGED <<now, tenures, sched, rules, minor, served>>

\* Periods of a branch are created in order (PeriodCreation); its slots, one
\* open and one returned period, do not matter here.  Only while
\* the definition is active, as a period without it has no lines.
OpenPeriod(t) ==
    LET p == tx[t].op.p
    IN /\ Ready(t, "open") /\ Done(t)
       /\ pstat[p] = "none" /\ structure.active
       /\ \A q \in Periods : BranchOf[q] = BranchOf[p] /\ pstat[q] # "none"
                            => Max(DaysOf[q]) < Min(DaysOf[p])
       /\ pstat' = [pstat EXCEPT ![p] = "Open"]
       /\ roster' = [roster EXCEPT ![p] = UNION {CoveredDays(i, p) : i \in TenureOf(p)}]
       /\ structure' = [structure EXCEPT !.locked = TRUE]
       /\ UNCHANGED packet /\ PeriodOnly

\* The packet is the one of the snapshot; the period's row has to be as it was.
Submit(t) ==
    LET o == tx[t].op
    IN /\ Ready(t, "submit") /\ Done(t)
       /\ pstat[o.p] = o.seen
       /\ packet' = [packet EXCEPT ![o.p] = tx[t].packet]
       /\ pstat' = [pstat EXCEPT ![o.p] = "Review"]
       /\ UNCHANGED <<roster, structure>> /\ PeriodOnly

Return(t) ==
    LET p == tx[t].op.p
    IN /\ Ready(t, "return") /\ Done(t)
       /\ pstat[p] = "Review"
       /\ pstat' = [pstat EXCEPT ![p] = "Returned"]
       /\ UNCHANGED <<roster, packet, structure>> /\ PeriodOnly

\* The approval and the finalization of its snapshot.
Finalize(t) ==
    LET p == tx[t].op.p
    IN /\ Ready(t, "finalize") /\ Done(t)
       /\ pstat[p] = "Review"
       /\ pstat' = [pstat EXCEPT ![p] = "Locked"]
       /\ UNCHANGED <<roster, packet, structure>> /\ PeriodOnly

\* Packets whose entries are in the draft lines and day statuses.
Entered == {packet[p] : p \in {q \in Periods : pstat[q] \in {"Review", "Locked"}}}
           \cup {tx[t].packet : t \in {u \in Txns : tx[u].op.kind = "submit"}}

\* complete_driver_transfer: no state of a period blocks it, only facts the
\* source would no longer cover.
Transfer(t) ==
    LET at  == tx[t].op.at
        end == IF at = Nothing THEN now ELSE at
    IN /\ Ready(t, "transfer") /\ Done(t)
       /\ Len(tenures) = 1
       /\ end > tenures[1].from /\ (at # Nothing => end > now)
       /\ LET source == [tenures[1] EXCEPT !.to = end]
          IN /\ \A old \in Entered : \A d \in old.facts : Covers(source, d)
             /\ \E b \in Branches \ {source.branch} :
                  LET new == [branch |-> b, from |-> end, to |-> Never]
                  IN /\ tenures' = <<source, new>>
                     /\ roster' = [p \in Periods |->
                           IF BranchOf[p] = b /\ pstat[p] \in {"Open", "Returned"}
                           THEN {d \in DaysOf[p] : Covers(new, d)} ELSE roster[p]]
       /\ UNCHANGED <<now, monetary, pstat, packet, minor, served>>

-----------------------------------------------------------------------------
Next ==
    \/ Tick
    \/ \E t \in Txns :
         \/ \E o \in Requests : Begin(t, o)
         \/ Acquire(t) \/ Decide(t) \/ RollBack(t)
         \/ CreatePending(t) \/ UpdatePending(t) \/ ReplaceValues(t) \/ Approve(t)
         \/ Discard(t) \/ VoidSchedule(t) \/ ChangeStructure(t) \/ RetireDefinition(t)
         \/ CreateRule(t) \/ EndRule(t) \/ VoidRule(t) \/ ChangeCurrency(t)
         \/ OpenPeriod(t) \/ Submit(t) \/ Return(t) \/ Finalize(t) \/ Transfer(t)

\* A driver just hired, a definition just approved.
Init ==
    /\ now = 0
    /\ \E b \in Branches : tenures = <<[branch |-> b, from |-> 0, to |-> Never]>>
    /\ structure \in [shape : Shapes, locked : {FALSE}, active : {TRUE}]
    /\ sched = <<>> /\ rules = <<>>
    /\ pstat = [p \in Periods |-> "none"]
    /\ roster = [p \in Periods |-> {}]
    /\ packet = [p \in Periods |-> Unpaid]
    /\ minor \in Minors
    /\ tx = [t \in Txns |-> NewTx(Idle, Unpaid)]
    /\ served = 0

Spec == Init /\ [][Next]_vars

-----------------------------------------------------------------------------
(* Properties                                                              *)

TypeOK ==
    /\ now \in Clock /\ minor \in Minors /\ served \in 0 .. MaxRequests
    /\ structure \in [shape : Shapes, locked : BOOLEAN, active : BOOLEAN]
    /\ pstat \in [Periods -> {"none", "Open", "Review", "Returned", "Locked"}]
    /\ \A p \in Periods : roster[p] \subseteq DaysOf[p]

\* The rate of a day and the pay rules of a period start, once they have been
\* paid by: the day is on the driver's roster of a finalized period, or starts
\* a finalized period of the driver, or the assignment of the day has ended.
Settled(d) == \/ \E p \in Finalized : d \in roster[p]
              \/ \E i \in Context(d) : tenures[i].to <= now
SettledStart(d) == \/ \E p \in Finalized : d = Min(DaysOf[p])
                   \/ \E i \in Context(d) : tenures[i].to <= now

\* What is settled never changes again, not even as a side effect of closing an
\* earlier schedule or rule, whoever was approving, closing or voiding at the
\* moment of the finalization or of the transfer (require_no_finalized_payroll
\* under the branch locks of driver_payroll_period_branches,
\* require_compensation_authority, trg_DriverCompensationContextWritable).
SettledTermsKept ==
    [][\A d \in Days :
         /\ Settled(d) => RatesOn(d)' = RatesOn(d)
         /\ SettledStart(d) => \A type \in RuleTypes : RuleTerms(type, d)' = RuleTerms(type, d)]_vars

\* What a snapshot pays for normal work is within the prorated rules, but for
\* the rounding of the fraction and of the amount, exactly within them when
\* every scheduled day counts, and is never lifted and capped at once; without
\* a rule that applies it is what was earned.
NormalPayWithinRules ==
    \A p \in Periods : packet[p] # Unpaid =>
        LET pay  == packet[p].pay
            n    == Cardinality(pay.counted)
            d    == Cardinality(pay.scheduled)
            paid == pay.base + pay.topUp + pay.cap
            slack == IF n = d THEN 0 ELSE d * (minor + 1)
        IN /\ pay.topUp = 0 \/ pay.cap = 0
           /\ IF pay.status = "APPLIED"
              THEN /\ pay.minimum # Nothing => 2 * d * paid >= 2 * n * pay.minimum - slack
                   /\ pay.maximum # Nothing => 2 * d * paid <= 2 * n * pay.maximum + slack
              ELSE paid = pay.base

\* A day counts for the rules of one assignment only, unless its period's
\* submission began before the assignment was closed (period_calculation.py, "a date
\* belongs to exactly one DriverAssignment").
CountedOnce ==
    \A p, q \in Periods :
        /\ {pstat[p], pstat[q]} \subseteq {"Review", "Locked"}
        /\ packet[p].tenure < packet[q].tenure
        /\ packet[p].until = tenures[packet[p].tenure].to
        => packet[p].pay.counted \cap packet[q].pay.counted = {}

\* Every amount that will be paid out, or that a rule compares with, can be
\* paid in the company's currency: the currency cannot change under one.
AmountsPayable ==
    /\ \A r \in DOMAIN rules : IsPayablePrecision(rules[r].amount, minor)
    /\ \A p \in Periods : packet[p] # Unpaid =>
         LET pay == packet[p].pay
         IN \A a \in {pay.base, pay.topUp, pay.cap} : IsPayablePrecision(a, minor)

\* Requests never wait for each other in a circle.
SomebodyProceeds == Busy # {} => \E t \in Busy : Wanted(t) = {} \/ Blockers(t) = {}
=============================================================================
