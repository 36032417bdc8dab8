--------------------------- MODULE PayCalculation ---------------------------
(***************************************************************************)
(* What a driver is paid for a period: lines from quantities and rates     *)
(* (payroll/definition_calculation.py, payroll/calculation), the days the  *)
(* Minimum and Maximum rules are prorated by, and the official amounts     *)
(* (payroll/period_calculation.py).                                        *)
(*                                                                         *)
(* An amount or a quantity is an integer: the number of INTERNAL_QUANTUM   *)
(* in it.  The code has 10000 of them in a unit; Scale is a small number   *)
(* that leaves the same ties to round.                                     *)
(***************************************************************************)
EXTENDS Integers, Sequences, FiniteSetsExt

CONSTANTS
    Scale,      \* quanta in one unit of an amount or a quantity
    TierBounds  \* the tiers of an OrdinalTierSchedule: <<from, to>> in order

ASSUME ScaleAssumption == Scale \in Nat \ {0}

Nothing == -1       \* no rule, no value, no amount; also the open end of a tier

-----------------------------------------------------------------------------
(* Rounding                                                                *)

\* n / d rounded half to even, for d > 0 (ROUND_HALF_EVEN)
Nearest(n, d) ==
    LET q == n \div d
        r == n % d
    IN IF 2 * r > d \/ (2 * r = d /\ q % 2 = 1) THEN q + 1 ELSE q

\* One official amount; minor is the number of quanta in a minor currency unit.
RoundPayable(a, minor)       == minor * Nearest(a, minor)
IsPayablePrecision(a, minor) == RoundPayable(a, minor) = a

-----------------------------------------------------------------------------
(* Lines                                                                   *)

\* topology_error: from 1 on, without gap or overlap, the last one open.
TopologyValid(tiers) ==
    /\ tiers # <<>>
    /\ tiers[1][1] = 1
    /\ \A i \in DOMAIN tiers :
         IF i = Len(tiers) THEN tiers[i][2] = Nothing
         ELSE tiers[i][2] >= tiers[i][1] /\ tiers[i + 1][1] = tiers[i][2] + 1

ASSUME TopologyAssumption == TierBounds \in Seq(Int \X Int) /\ TopologyValid(TierBounds)

\* The components of a rate definition of that shape: 0 is the scalar one.
ComponentsOf(shape) == IF shape = "Scalar" THEN {0} ELSE DOMAIN TierBounds

PerUnit(quantity, rate) == Nearest(quantity * rate, Scale)

\* The ordinals of 1 .. units that the tier covers.
UnitsIn(units, tier) ==
    LET last == IF tier[2] = Nothing \/ units < tier[2] THEN units ELSE tier[2]
    IN Max({0, last - tier[1] + 1})

OrdinalTier(units, values) ==
    MapThenSumSet(LAMBDA i : UnitsIn(units, TierBounds[i]) * values[i], DOMAIN TierBounds)

\* calculate_definition_input: found holds the values, by component, of the
\* schedule that applies, or nothing.
CalculationStatus(shape, found, quantity) ==
    IF found = {} THEN "MISSING_RATE"
    ELSE IF \E values \in found : DOMAIN values # ComponentsOf(shape) THEN "INCOMPLETE_RATE"
    ELSE IF shape # "Scalar" /\ quantity % Scale # 0 THEN "INVALID_QUANTITY"
    ELSE "CALCULATED"

LineAmount(shape, values, quantity) ==
    IF shape = "Scalar" THEN PerUnit(quantity, values[0])
                        ELSE OrdinalTier(quantity \div Scale, values)

-----------------------------------------------------------------------------
(* Minimum and Maximum                                                     *)

CountedDays(scheduled, eligible, off) == (scheduled \cap eligible) \ off

Prorate(amount, n, d) == IF n = d THEN amount ELSE Nearest(amount * n, d)
Prorated(amount, n, d) == IF amount = Nothing THEN Nothing ELSE Prorate(amount, n, d)

\* Mutant: the top-up is the whole minimum.
WholeMinimum(base, minimum) == IF minimum # Nothing /\ base < minimum THEN minimum ELSE 0

\* raw_minimum_adjustment, raw_maximum_adjustment
TopUp(base, minimum) == IF minimum # Nothing /\ base < minimum THEN minimum - base ELSE 0
Cap(base, maximum)   == IF maximum # Nothing /\ base > maximum THEN maximum - base ELSE 0

\* _evaluate_minmax: why the rules apply or not, in the order of the checks
MinMaxStatus(minimum, maximum, fits, minor, counted, scheduled) ==
    LET amounts == {minimum, maximum} \ {Nothing}
    IN IF amounts = {}                                    THEN "NO_RULE"
       ELSE IF ~fits                                      THEN "CALENDAR_MISMATCH"
       ELSE IF \E a \in amounts : ~IsPayablePrecision(a, minor)
                                                          THEN "SOURCE_AMOUNT_PRECISION"
       ELSE IF maximum # Nothing /\ minimum > maximum     THEN "MIN_EXCEEDS_MAX"
       ELSE IF scheduled = {}                             THEN "NO_SCHEDULED_DAYS"
       ELSE IF counted = {}                               THEN "NO_ELIGIBLE_SCHEDULED_DAYS"
       ELSE "APPLIED"

\* Statuses that block the packet and with it a submission
MinMaxBlockers == {"CALENDAR_MISMATCH", "SOURCE_AMOUNT_PRECISION", "MIN_EXCEEDS_MAX"}

\* _build_live_calculation_packet: official amounts of one assignment.  raw is
\* the sum of its lines, each component rounded once.
Packet(raw, minimum, maximum, fits, minor, counted, scheduled) ==
    LET base    == RoundPayable(raw, minor)
        status  == MinMaxStatus(minimum, maximum, fits, minor, counted, scheduled)
        n       == Cardinality(counted)
        d       == Cardinality(scheduled)
        applied == status = "APPLIED"
        topUp   == IF applied THEN TopUp(base, Prorated(minimum, n, d)) ELSE 0
        cap     == IF applied THEN Cap(base, Prorated(maximum, n, d)) ELSE 0
    IN [status  |-> status,  raw     |-> raw,     base    |-> base,
        minimum |-> minimum, maximum |-> maximum,
        topUp   |-> RoundPayable(topUp, minor),
        cap     |-> RoundPayable(cap, minor),
        counted |-> counted, scheduled |-> scheduled]
=============================================================================
