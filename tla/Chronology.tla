----------------------------- MODULE Chronology -----------------------------
(***************************************************************************)
(* Schedule arithmetic of the payroll setup (payroll_setup/chronology.py   *)
(* and the window of payroll_setup/onboarding.py).  A day is a number; day *)
(* 1 is the first day of the first month.  Where the months start is a     *)
(* parameter, so that a small calendar too has months that end before the  *)
(* day of the month a period starts on.                                    *)
(*                                                                         *)
(* A schedule is Month, or Custom with an interval; Week and Biweek are    *)
(* the intervals 7 and 14.  Normal days off move no boundary and are left  *)
(* out.  A timeline is a set of segments, each the reign of one schedule   *)
(* from a day on; no two start on one day.                                 *)
(***************************************************************************)
EXTENDS Naturals, Sequences, FiniteSetsExt

CONSTANTS
    MonthStarts,    \* first days of the months of the calendar
    Schedules,      \* [frequency, interval, anchor]; the interval of Month is 0
    Horizon,        \* bound: the last day a grid is followed to
    None            \* no day, no schedule

MonthOf(d) == Max({m \in DOMAIN MonthStarts : MonthStarts[m] <= d})
MonthLength(m) == MonthStarts[m + 1] - MonthStarts[m]

ASSUME ChronologyAssumption ==
    /\ MonthStarts \in Seq(Nat) /\ MonthStarts # <<>> /\ MonthStarts[1] = 1
    /\ \A m \in 1 .. Len(MonthStarts) - 1 : MonthStarts[m] < MonthStarts[m + 1]
    /\ Horizon \in Nat /\ MonthOf(Horizon) + 1 < Len(MonthStarts)
    /\ Schedules \subseteq [frequency : {"Month"}, interval : {0}, anchor : 1 .. Horizon]
                     \cup [frequency : {"Custom"}, interval : Nat \ {0}, anchor : 1 .. Horizon]
    /\ None \notin Nat \cup Schedules

\* Mutant: the day of the month is not cut to the length of the next month.
SameDayNextMonth(day, m) == MonthStarts[m] + day - 1
\* The same day of month m, or its last day.
ClampedDay(day, m) == MonthStarts[m] + (IF day < MonthLength(m) THEN day ELSE MonthLength(m)) - 1

\* The last day of the period that starts on the day.
PeriodEnd(sched, start) ==
    IF sched.frequency = "Month"
    THEN LET m == MonthOf(start)
         IN  ClampedDay(start - MonthStarts[m] + 1, m + 1) - 1
    ELSE start + sched.interval - 1

\* The grid of a schedule from an origin: the starts of periods one after
\* another.  Python's loops follow it a period at a time.
Grid == [sched \in Schedules |-> [origin \in 1 .. Horizon |->
    LET walk[n \in 0 .. Horizon] ==
            IF n = 0 THEN origin
            ELSE IF walk[n - 1] > Horizon THEN walk[n - 1]
            ELSE PeriodEnd(sched, walk[n - 1]) + 1
    IN  {walk[n] : n \in 0 .. Horizon}]]

\* Is the day a start of the cadence from the origin?
IsPeriodStart(sched, day, origin) ==
    /\ day >= origin
    /\ IF sched.frequency = "Month" THEN day \in Grid[sched][origin]
       ELSE (day - origin) % sched.interval = 0

OnGrid(sched, day) == IsPeriodStart(sched, day, sched.anchor)

\* The first start of the grid strictly after the day.
NextPeriodStart(sched, after) ==
    IF after < sched.anchor THEN sched.anchor
    ELSE IF sched.frequency = "Month"
    THEN Min({d \in Grid[sched][sched.anchor] : d > after})
    ELSE sched.anchor
         + ((after - sched.anchor) \div sched.interval + 1) * sched.interval

\* The last start of the grid strictly before the day.
PreviousPeriodStart(sched, before) ==
    IF before <= sched.anchor THEN None
    ELSE IF sched.frequency = "Month"
    THEN Max({d \in Grid[sched][sched.anchor] : d < before})
    ELSE sched.anchor
         + ((before - sched.anchor - 1) \div sched.interval) * sched.interval

-----------------------------------------------------------------------------
(* Timelines *)

\* The segment that governs the day: a set of one, or none before the first.
Governing(segments, day) ==
    {g \in segments : g.from <= day /\ \A h \in segments : h.from <= day => h.from <= g.from}

Following(segments, g) == {h \in segments : h.from > g.from}

IsTimelineStart(segments, day) ==
    \E g \in Governing(segments, day) : OnGrid(g.sched, day)

\* The first start after the day: the next of the first segment, from the
\* governing one on, whose next start is before the following segment.
TimelineNextStart(segments, after) ==
    LET next(g) == NextPeriodStart(g.sched, IF after < g.from THEN g.from - 1 ELSE after)
        usable == {g \in Governing(segments, after) \cup {h \in segments : h.from > after} :
                      \A h \in Following(segments, g) : next(g) < h.from}
    IN  IF usable = {} THEN None
        ELSE next(CHOOSE g \in usable : \A h \in usable : g.from <= h.from)

\* The last start before the day, walking back over the segments.
TimelinePreviousStart(segments, before) ==
    LET bound(g) == Min({before} \cup {h.from : h \in Following(segments, g)})
        usable == {g \in segments : g.from < before
                      /\ PreviousPeriodStart(g.sched, bound(g)) # None
                      /\ PreviousPeriodStart(g.sched, bound(g)) >= g.from}
    IN  IF usable = {} THEN None
        ELSE LET g == CHOOSE x \in usable : \A h \in usable : x.from >= h.from
             IN  PreviousPeriodStart(g.sched, bound(g))

\* The earliest first payroll: the period of today, or up to two before it.
OnboardingFloor(segments, today) ==
    LET before(d) == IF d = None THEN None ELSE TimelinePreviousStart(segments, d)
        current == IF IsTimelineStart(segments, today) THEN today ELSE before(today)
        one == before(current)
        two == before(one)
    IN  IF two # None THEN two ELSE IF one # None THEN one ELSE current

-----------------------------------------------------------------------------
(* Properties of a timeline, against the starts it has *)

LegalStarts(segments) == {d \in 1 .. Horizon : IsTimelineStart(segments, d)}

\* Navigation finds the nearest legal start on either side of a day, over
\* the boundaries of versions, and the onboarding window reaches back to the
\* second start before the current period and no further.
NavigationExact(segments, day) ==
    LET starts == LegalStarts(segments)
        later == {d \in starts : d > day}
        earlier == {d \in starts : d < day}
        upTo == {d \in starts : d <= day}
    IN  /\ IF later # {} THEN TimelineNextStart(segments, day) = Min(later)
           ELSE TimelineNextStart(segments, day) \notin 1 .. Horizon
        /\ TimelinePreviousStart(segments, day) = IF earlier = {} THEN None ELSE Max(earlier)
        /\ LET floor == OnboardingFloor(segments, day)
           IN  IF upTo = {} THEN floor = None
               ELSE /\ floor \in upTo
                    /\ Cardinality({d \in upTo : d > floor})
                         = Min({2, Cardinality(upTo) - 1})

\* A month that a monthly schedule governs as a whole has one legal start.
MonthsCovered(segments) ==
    \A m \in 1 .. MonthOf(Horizon) - 1 :
        LET days == MonthStarts[m] .. MonthStarts[m + 1] - 1
            reign == {g \in segments : \A d \in days : Governing(segments, d) = {g}}
        IN  \A g \in reign : g.sched.frequency = "Month" =>
                Cardinality(LegalStarts(segments) \cap days) = 1
=============================================================================
