--------------------------- MODULE MCCompensation ---------------------------
(***************************************************************************)
(* Two branches on one calendar of two-day periods: one period of the      *)
(* first branch, two of the second; a driver of branch 1 who may be        *)
(* transferred to branch 2 at midday of day 2.                             *)
(* Amounts have four quanta in a unit and two or four in a minor unit.     *)
(* Init is one of the configurations that the requests before the two of   *)
(* a behavior may have led to.                                             *)
(***************************************************************************)
EXTENDS CompensationSchedules, TLC

MCTierBounds == <<<<1, 1>>, <<2, Nothing>>>>
MCBranchOf   == [p1 |-> 1, p2 |-> 2, p3 |-> 2]
MCDaysOf     == [p1 |-> 1 .. 2, p2 |-> 1 .. 2, p3 |-> 3 .. 4]
MCCalendarOf == [b \in {1, 2} |-> "short"]
MCWindows    == {<<1, Forever>>, <<2, 2>>, <<2, Forever>>}
MCTransferAt == {Nothing, 3}

Perms == Permutations(Txns)

Scalar(r) == [c \in {0} |-> r]
Tiers(r)  == [c \in 1 .. 2 |-> r + c - 1]

Sched(from, to, status, values) == [from |-> from, to |-> to, status |-> status, values |-> values]
Rule(type, amount, calendar) ==
    [type |-> type, amount |-> amount, from |-> 1, to |-> Forever, status |-> "Active",
     calendar |-> calendar]

Minimum(calendar) == Rule("MinimumPay", 6, calendar)
Maximum           == Rule("MaximumPay", 8, "short")

Tariff(shape, r) == IF shape = "Scalar" THEN Scalar(r) ELSE Tiers(r)
First(shape)     == Sched(1, Forever, "Approved", Tariff(shape, 5))
Second(shape)    == Sched(2, 2, "Pending", Tariff(shape, 3))

Terms ==
    \/ structure.shape = "Scalar" /\ sched = <<First("Scalar")>> /\ rules = <<>>
    \/ structure.shape = "Scalar" /\ sched = <<First("Scalar"), Second("Scalar")>>
       /\ rules = <<Minimum("short"), Maximum>>
    \/ structure.shape # "Scalar" /\ sched = <<First(structure.shape)>> /\ rules = <<Minimum("short")>>
    \/ structure.shape # "Scalar" /\ sched = <<First(structure.shape), Second(structure.shape)>>
       /\ rules = <<Minimum("long")>>

\* Nothing monetary yet.
Fresh ==
    /\ structure = [shape |-> "Scalar", locked |-> FALSE, active |-> TRUE]
    /\ sched \in {<<>>, <<Sched(1, Forever, "Pending", Scalar(5))>>}
    /\ rules = <<>> /\ now = 0 /\ minor \in Minors
    /\ tenures = <<[branch |-> 1, from |-> 0, to |-> Never]>>
    /\ pstat = [p \in Periods |-> "none"]

\* Some periods are opened, one may be submitted with a line on its first
\* day, the driver may have been transferred since.
Midlife ==
    /\ structure \in [shape : Shapes, locked : {TRUE}, active : {TRUE}]
    /\ Terms /\ minor = 2
    /\ \/ now = 0 /\ tenures = <<[branch |-> 1, from |-> 0, to |-> Never]>>
       \/ now \in {3, 8}
          /\ tenures = <<[branch |-> 1, from |-> 0, to |-> 3], [branch |-> 2, from |-> 3, to |-> Never]>>
    /\ pstat \in [p1 : {"none", "Open", "Review"}, p2 : {"none", "Open"}, p3 : {"none", "Review"}]
    /\ pstat["p3"] = "Review" <=> now = 8
    /\ now = 8 => pstat["p2"] = "none"
    /\ rules = <<Minimum("long")>> => ~\E p \in Periods : pstat[p] = "Review"

MCInit ==
    /\ Fresh \/ Midlife
    /\ roster = [p1 |-> IF pstat["p1"] = "none" THEN {} ELSE {1, 2},
                 p2 |-> IF pstat["p2"] = "none" \/ Len(tenures) = 1 THEN {} ELSE {2},
                 p3 |-> IF pstat["p3"] = "none" THEN {} ELSE {3, 4}]
    /\ packet = [p \in Periods |->
                    IF pstat[p] # "Review" THEN Unpaid
                    ELSE LET i == IF p = "p1" THEN 1 ELSE 2
                             d == Min(DaysOf[p])
                         IN [PacketOf(p, i, [e \in {d} |-> 4], {}) EXCEPT !.until = Never]]
    /\ tx = [t \in Txns |-> NewTx(Idle, Unpaid)]
    /\ served = 0

MCSpec == MCInit /\ [][Next]_vars
=============================================================================
