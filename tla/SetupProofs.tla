----------------------------- MODULE SetupProofs -----------------------------
(***************************************************************************)
(* Proofs about SetupTimeline, for any schedules, calendar, setups,        *)
(* branches and requests, and from every start that StartsAssumption       *)
(* allows.                                                                 *)
(***************************************************************************)
EXTENDS SetupTimeline, FiniteSetTheorems, WellFoundedInduction, TLAPS

-----------------------------------------------------------------------------
(* Least and greatest members                                              *)

\* A set of naturals that is not empty has a least member.
LEMMA MinIsLeast ==
    ASSUME NEW S \in SUBSET Nat, S # {}
    PROVE  Min(S) \in S /\ \A x \in S : Min(S) <= x
<1> DEFINE less == OpToRel(<, Nat)
<1>1. IsWellFoundedOn(less, Nat)
  BY NatLessThanWellFounded
<1>2. \A x, y \in Nat : <<y, x>> \in less <=> y < x
  BY DEF OpToRel
<1> HIDE DEF less
<1>3. PICK x \in S : \A y \in S : <<y, x>> \notin less
  BY <1>1, WFMin
<1>4. \A y \in S : x <= y
  <2> SUFFICES ASSUME NEW y \in S PROVE x <= y
    OBVIOUS
  <2>1. x \in Nat /\ y \in Nat
    BY <1>3
  <2>2. ~(y < x)
    BY <1>2, <1>3, <2>1
  <2> QED
    BY <2>1, <2>2
<1> QED
  BY <1>4 DEF Min

\* And a greatest one, if it is bounded.
LEMMA MaxIsGreatest ==
    ASSUME NEW S \in SUBSET Nat, S # {}, NEW n \in Nat, \A x \in S : x <= n
    PROVE  Max(S) \in S /\ \A x \in S : x <= Max(S)
<1> DEFINE B == {k \in Nat : \A x \in S : x <= k}
<1>1. B \in SUBSET Nat /\ B # {}
  OBVIOUS
<1>2. Min(B) \in B /\ \A k \in B : Min(B) <= k
  BY <1>1, MinIsLeast
<1>3. PICK m \in Nat : m = Min(B)
  BY <1>2
<1>4. m \in S
  <2> SUFFICES ASSUME m \notin S PROVE FALSE
    OBVIOUS
  <2>1. \A x \in S : x <= m /\ x # m
    BY <1>2, <1>3
  <2>2. m > 0
    <3>1. PICK x \in S : TRUE
      OBVIOUS
    <3>2. x \in Nat /\ x <= m /\ x # m
      BY <2>1, <3>1
    <3> QED
      BY <1>3, <3>2
  <2>3. m - 1 \in B
    BY <2>1, <2>2
  <2> QED
    BY <1>2, <1>3, <2>2, <2>3
<1>5. \A x \in S : x <= m
  BY <1>2, <1>3
<1> QED
  BY <1>4, <1>5 DEF Max

\* A finite set of naturals is bounded.
LEMMA FiniteIsBounded ==
    ASSUME NEW S \in SUBSET Nat, IsFiniteSet(S)
    PROVE  \E n \in Nat : \A x \in S : x <= n
<1>1. PICK n \in Nat : ExistsBijection(1 .. n, S)
  BY FS_NatBijection
<1> PICK f : f \in Bijection(1 .. n, S)
  BY <1>1 DEF ExistsBijection
<1>2. f \in [1 .. n -> S] /\ \A x \in S : \E i \in 1 .. n : f[i] = x
  BY DEF Bijection, Surjection, Injection
<1> DEFINE Bounds(k) == {m \in Nat : \A i \in 1 .. k : f[i] <= m}
           Open == {k \in 0 .. n : Bounds(k) = {}}
<1>3. Open = {}
  <2> SUFFICES ASSUME Open # {} PROVE FALSE
    OBVIOUS
  <2>1. Min(Open) \in Open /\ \A k \in Open : Min(Open) <= k
    <3>1. Open \in SUBSET Nat
      BY <1>1
    <3> HIDE DEF Open
    <3> QED
      BY <3>1, MinIsLeast
  <2>2. PICK k \in 0 .. n : k = Min(Open) /\ Bounds(k) = {}
    BY <2>1
  <2>3. k # 0
    <3>1. 0 \in Bounds(0)
      OBVIOUS
    <3> QED
      BY <2>2, <3>1
  <2>4. k - 1 \in 0 .. n /\ k - 1 \notin Open
    <3>1. k - 1 \in 0 .. n /\ ~(k <= k - 1)
      BY <1>1, <2>2, <2>3
    <3> QED
      BY <2>1, <2>2, <3>1
  <2>5. PICK m \in Nat : \A i \in 1 .. k - 1 : f[i] <= m
    BY <2>4
  <2>6. k \in 1 .. n /\ f[k] \in Nat
    <3>1. k \in 1 .. n
      BY <1>1, <2>2, <2>3
    <3>2. f[k] \in S
      BY <1>2, <3>1
    <3> QED
      BY <3>1, <3>2
  <2>7. PICK j \in Nat : f[k] = j
    BY <2>6
  <2>8. m + j \in Bounds(k)
    <3>1. ASSUME NEW i \in 1 .. k PROVE f[i] <= m + j
      <4>1. CASE i = k
        BY <2>7, <4>1
      <4>2. CASE i # k
        <5>1. i \in 1 .. k - 1 /\ i \in 1 .. n
          BY <1>1, <2>2, <4>2
        <5>2. f[i] \in Nat
          BY <1>2, <5>1
        <5> QED
          BY <2>5, <2>7, <5>1, <5>2
      <4> QED
        BY <4>1, <4>2
    <3> QED
      BY <3>1
  <2> QED
    BY <2>2, <2>8
<1>4. Bounds(n) # {}
  <2> HIDE DEF Bounds
  <2>1. n \in 0 .. n /\ n \notin Open
    BY <1>1, <1>3
  <2> QED
    BY <2>1
<1>5. PICK m \in Nat : \A i \in 1 .. n : f[i] <= m
  BY <1>4
<1> QED
  BY <1>2, <1>5

-----------------------------------------------------------------------------
(* The timelines, as sets of rows                                          *)

PeriodRows == [start : 1 .. Horizon, end : 1 .. Horizon, assignment : Nat, version : Nat,
               status : {"Open", "Draft", "Kept"}]
Timelines == [Setups -> SUBSET VersionRows]

HasSchedule(vs, day) == \E v \in vs : v.from <= day
Ahead(rows, day, end) == \A r \in rows : r.from > day => end < r.from
Covers(a, day) == a.from <= day /\ day < a.to

\* The rows neither overlap nor leave a gap, and each has a schedule.
Contiguous(vers, rows) ==
    /\ \A a \in rows : a.from < a.to /\ HasSchedule(vers[a.setup], a.from)
    /\ \A a, c \in rows : a # c => a.to <= c.from \/ c.to <= a.from
    /\ \A a, c \in rows : a.to <= c.from => \E d \in rows : d.from = a.to

\* The row that the period is pinned to has authority over all of it, and so
\* has the version of the setup.
Governs(vers, rows, a, p) ==
    /\ Covers(a, p.start) /\ a.id = p.assignment
    /\ p.end < a.to /\ Ahead(rows, p.start, p.end)
    /\ Ahead(vers[a.setup], p.start, p.end)
    /\ \E v \in Governing(vers[a.setup], p.start) :
          v.no = p.version /\ p.end = PeriodEnd(v.sched, p.start) /\ OnGrid(v.sched, p.start)
Kept(vers, rows, p) == p.start <= p.end /\ \E a \in rows : Governs(vers, rows, a, p)

-----------------------------------------------------------------------------
(* The inductive invariant                                                 *)

Operations ==
    [kind : {"archive"}, setup : Setups, hint : {None}]
    \cup [kind : {"publish"}, setup : Setups, from : 1 .. Horizon,
          replaces : Nat \cup {None}, hint : {None}]
    \cup [kind : {"assign", "reassign"}, branch : Branches, setup : Setups,
          from : 1 .. Horizon, hint : Setups \cup {None}]
    \cup [kind : {"withdraw"}, branch : Branches, setup : Setups, id : Nat,
          hint : Setups \cup {None}]
Effects == [out : SUBSET VersionRows, in : SUBSET VersionRows]
           \cup [out : SUBSET AssignmentRows, in : SUBSET AssignmentRows]
Requested == {Idle}
             \cup [pc : {"locking"}, op : Operations, no : Nat]
             \cup [pc : {"writing"}, op : Operations, no : Nat, effect : Effects]

TypeOK ==
    /\ versions \in Timelines
    /\ \A s \in Setups : IsFiniteSet(versions[s])
    /\ archived \in SUBSET Setups
    /\ assigned \in [Branches -> SUBSET AssignmentRows]
    /\ periods \in [Branches -> SUBSET PeriodRows]
    /\ setupLock \in [Setups -> Txns \cup {None}]
    /\ branchLock \in [Branches -> Txns \cup {None}]
    /\ req \in [Txns -> Requested]
    /\ requests \in Nat

Pending(t) == req[t] # Idle

\* An assignment keeps its identifier for life, and the identifiers of
\* requests are not used yet; so a withdrawal finds the assignment it named,
\* or none.
IdsInv ==
    /\ \A b \in Branches : \A a, c \in assigned[b] : a.id = c.id => a = c
    /\ \A b \in Branches : \A a \in assigned[b] : a.id <= requests
    /\ \A t \in Txns : Pending(t) =>
          /\ 1 <= req[t].no /\ req[t].no <= requests
          /\ \A u \in Txns : Pending(u) /\ req[u].no = req[t].no => u = t
          /\ \A b \in Branches : \A a \in assigned[b] : a.id # req[t].no
          /\ req[t].op.kind = "withdraw" =>
                /\ req[t].op.id <= requests
                /\ \A u \in Txns : Pending(u) => req[u].no # req[t].op.id
                /\ \A a \in assigned[req[t].op.branch] :
                      a.id = req[t].op.id => a.setup = req[t].op.setup

\* Locks are held by requests, for what they touch, and are taken in order.
LockInv ==
    /\ \A s \in Setups, t \in Txns : setupLock[s] = t =>
          Pending(t) /\ s \in SetupsOf(req[t].op)
    /\ \A b \in Branches, t \in Txns : branchLock[b] = t =>
          Pending(t) /\ SetupsLeft(t) = {}
    /\ \A t \in Txns : Pending(t) =>
          /\ \A s \in SetupsLeft(t), r \in Held(setupLock, t) : r < s
          /\ \A b \in BranchesLeft(t), c \in Held(branchLock, t) : c < b
          /\ req[t].pc = "writing" => SetupsLeft(t) = {} /\ BranchesLeft(t) = {}

\* What a request that was accepted relies on, until it has written.
PublishReady(o) ==
    \A b \in Branches : \A a \in assigned[b], p \in periods[b] :
        a.setup = o.setup /\ Covers(a, p.start) =>
            \/ p.end < o.from
            \/ \E v \in versions[o.setup] : o.from < v.from /\ v.from <= p.start
AssignReady(o) ==
    /\ \A a \in assigned[o.branch] : ~Covers(a, o.from)
    /\ (\E a \in assigned[o.branch] : a.from < o.from) =>
          \E a \in assigned[o.branch] : a.to = o.from
    /\ HasSchedule(versions[o.setup], o.from)
    /\ \A p \in periods[o.branch] :
          \/ p.end < o.from
          \/ \E a \in assigned[o.branch] : o.from < a.from /\ a.from <= p.start
ReassignReady(o) ==
    /\ Spanning(o.branch, o.hint, o.from) # {}
    /\ HasSchedule(versions[o.setup], o.from)
    /\ \A a \in Spanning(o.branch, o.hint, o.from) :
          \A p \in periods[o.branch] : p.end < o.from \/ a.to <= p.start
WithdrawReady(o) ==
    \E t \in assigned[o.branch] :
        /\ t.id = o.id
        /\ \A a \in assigned[o.branch] : a.to = t.from => a.setup = o.hint
        /\ \A p \in periods[o.branch] : p.end < t.from \/ t.to <= p.start

Accepted(t, o, effect) ==
    /\ o.kind = "publish" =>
          /\ \E sched \in Schedules : effect = PublishEffect(o, sched)
          /\ PublishReady(o)
    /\ o.kind = "assign" => effect = AssignEffect(t, o) /\ AssignReady(o)
    /\ o.kind = "reassign" => effect = ReassignEffect(t, o) /\ ReassignReady(o)
    /\ o.kind = "withdraw" => effect = WithdrawEffect(o) /\ WithdrawReady(o)
WriteInv ==
    \A t \in Txns : req[t].pc = "writing" => Accepted(t, req[t].op, req[t].effect)

TimelineInv ==
    \A b \in Branches : /\ Contiguous(versions, assigned[b])
                        /\ \A p \in periods[b] : Kept(versions, assigned[b], p)

IInv == TypeOK /\ IdsInv /\ LockInv /\ WriteInv /\ TimelineInv

-----------------------------------------------------------------------------
(* What keeps a branch from getting stuck                                  *)

\* No row starts between the days.
Undivided(vs, after, until) == \A w \in vs : w.from > after => until <= w.from

\* The versions of a setup are dated apart and each takes over where a period
\* of the one before it ends.
VersionsFit(vs) ==
    /\ \A v, w \in vs : v.from = w.from => v = w
    /\ \A v \in vs : OnGrid(v.sched, v.from)
    /\ \A v, w \in vs : v.from < w.from /\ Undivided(vs, v.from, w.from) => OnGrid(v.sched, w.from)

\* An assignment starts on the grid of its schedule, and comes to an end there
\* if that schedule governs it as a whole and is anchored on its start.
EndFits(vs, sched, from, to) ==
    to # Forever /\ Undivided(vs, from, to) /\ sched.anchor = from => OnGrid(sched, to)
RowFits(vs, sched, from, to) == OnGrid(sched, from) /\ EndFits(vs, sched, from, to)
RowsFit(vers, rows) ==
    \A a \in rows :
        /\ a.to # Forever => \E d \in rows : d.from = a.to
        /\ \A v \in Governing(vers[a.setup], a.from) :
              RowFits(vers[a.setup], v.sched, a.from, a.to)

\* What of this a request that was accepted has looked at.
PublishFits(o, sched) ==
    /\ Fits(versions[o.setup], o.from, sched)
    /\ \A b \in Branches : \A a \in assigned[b] :
          a.setup = o.setup /\ o.from <= a.from /\ Ahead(versions[o.setup], o.from, a.from)
             => RowFits(versions[o.setup], sched, a.from, a.to)
AssignFits(o) ==
    \A v \in Governing(versions[o.setup], o.from) :
        RowFits(versions[o.setup], v.sched, o.from, AssignUntil(o.branch, o.from))
ReassignFits(o) ==
    \A a \in Spanning(o.branch, o.hint, o.from) :
        /\ \A v \in Governing(versions[o.hint], a.from) :
              EndFits(versions[o.hint], v.sched, a.from, o.from)
        /\ \A v \in Governing(versions[o.setup], o.from) :
              RowFits(versions[o.setup], v.sched, o.from, a.to)
WithdrawFits(o) ==
    \A t \in assigned[o.branch] : t.id = o.id =>
        \A a \in assigned[o.branch] : a.to = t.from /\ a.setup = o.hint =>
            \A v \in Governing(versions[o.hint], a.from) :
                EndFits(versions[o.hint], v.sched, a.from, t.to)
AcceptedFits(o, effect) ==
    /\ o.kind = "publish" =>
          \E sched \in Schedules : effect = PublishEffect(o, sched) /\ PublishFits(o, sched)
    /\ o.kind = "assign" => AssignFits(o)
    /\ o.kind = "reassign" => ReassignFits(o)
    /\ o.kind = "withdraw" => WithdrawFits(o)

FitInv ==
    /\ \A s \in Setups : VersionsFit(versions[s])
    /\ \A b \in Branches : RowsFit(versions, assigned[b])
    /\ \A t \in Txns : req[t].pc = "writing" => AcceptedFits(req[t].op, req[t].effect)

-----------------------------------------------------------------------------
(* What the operators of the model compute                                 *)

LEMMA ConstantFacts ==
    /\ Horizon \in Nat /\ Forever \in Nat /\ Forever = Horizon + 1
    /\ Today \in 1 .. Horizon /\ LastDay \in 1 .. Horizon /\ Dates \subseteq 1 .. Horizon
    /\ \A s \in Setups : s \in Nat /\ s # None
    /\ \A b \in Branches : b \in Nat /\ b # None
    /\ \A t \in Txns : t # None
    /\ \A x \in Schedules : x # None
    /\ MaxRequests \in Nat
  BY SetupAssumption, ChronologyAssumption DEF Forever

\* The month of a day is the one it lies in, and two more follow it.
LEMMA MonthOfDay ==
    ASSUME NEW d \in 1 .. Horizon
    PROVE  /\ MonthOf(d) \in Nat \ {0} /\ MonthOf(d) + 1 < Len(MonthStarts)
           /\ MonthStarts[MonthOf(d)] <= d /\ d < MonthStarts[MonthOf(d) + 1]
<1> DEFINE Begun(e) == {m \in DOMAIN MonthStarts : MonthStarts[m] <= e}
<1>1. /\ MonthStarts \in Seq(Nat) /\ Len(MonthStarts) \in Nat \ {0}
      /\ DOMAIN MonthStarts = 1 .. Len(MonthStarts)
  BY ChronologyAssumption
<1>2. \A e \in 1 .. Horizon : /\ MonthOf(e) \in Begun(e)
                              /\ \A m \in Begun(e) : m <= MonthOf(e)
  <2> SUFFICES ASSUME NEW e \in 1 .. Horizon
               PROVE  /\ MonthOf(e) \in Begun(e)
                      /\ \A m \in Begun(e) : m <= MonthOf(e)
    OBVIOUS
  <2>1. 1 \in Begun(e) /\ Begun(e) \in SUBSET Nat
    BY <1>1, ChronologyAssumption
  <2>2. \A m \in Begun(e) : m <= Len(MonthStarts)
    BY <1>1
  <2> HIDE DEF Begun
  <2>3. /\ Max(Begun(e)) \in Begun(e)
        /\ \A m \in Begun(e) : m <= Max(Begun(e))
    BY <1>1, <2>1, <2>2, MaxIsGreatest
  <2>4. MonthOf(e) = Max(Begun(e))
    BY DEF MonthOf, Begun
  <2> QED
    BY <2>3, <2>4
<1>3. Horizon \in 1 .. Horizon
  BY ChronologyAssumption
<1>4. PICK h \in Nat : h = MonthOf(Horizon)
  BY <1>1, <1>2, <1>3
<1>5. PICK m \in Nat : m = MonthOf(d)
  BY <1>1, <1>2
<1>6. m \in Begun(d) /\ m \in 1 .. Len(MonthStarts)
  BY <1>1, <1>2, <1>5
<1>7. m \in Begun(Horizon)
  <2>1. MonthStarts[m] \in Nat
    BY <1>1, <1>6
  <2>2. MonthStarts[m] <= Horizon
    BY <1>6, <2>1, ChronologyAssumption
  <2> QED
    BY <1>1, <1>6, <2>2
<1>8. m <= h
  BY <1>2, <1>3, <1>4, <1>7
<1>9. h + 1 < Len(MonthStarts)
  BY <1>4, ChronologyAssumption
<1>10. m + 1 < Len(MonthStarts)
  BY <1>1, <1>8, <1>9
<1>11. m + 1 \notin Begun(d)
  <2>1. ~(m + 1 <= m)
    OBVIOUS
  <2> HIDE DEF Begun
  <2> QED
    BY <1>2, <1>5, <2>1
<1>12. d < MonthStarts[m + 1]
  <2>1. m + 1 \in 1 .. Len(MonthStarts)
    BY <1>1, <1>10
  <2>2. MonthStarts[m + 1] \in Nat
    BY <1>1, <2>1
  <2>3. ~(MonthStarts[m + 1] <= d)
    BY <1>1, <1>11, <2>1
  <2> QED
    BY <2>2, <2>3
<1> QED
  BY <1>5, <1>6, <1>10, <1>12

\* A period ends on the day it starts on, or later.
LEMMA PeriodEndsLater ==
    ASSUME NEW sched \in Schedules, NEW d \in 1 .. Horizon
    PROVE  PeriodEnd(sched, d) \in Nat /\ d <= PeriodEnd(sched, d)
<1>1. CASE sched.frequency = "Month"
  <2>1. PICK m \in Nat \ {0} : m = MonthOf(d)
    BY MonthOfDay
  <2>2. m + 1 < Len(MonthStarts) /\ MonthStarts[m] <= d /\ d < MonthStarts[m + 1]
    BY <2>1, MonthOfDay
  <2>3. MonthStarts \in Seq(Nat) /\ Len(MonthStarts) \in Nat
    BY ChronologyAssumption
  <2>4. MonthStarts[m] \in Nat /\ MonthStarts[m + 1] \in Nat /\ MonthStarts[m + 2] \in Nat
    <3>1. m \in 1 .. Len(MonthStarts) /\ m + 1 \in 1 .. Len(MonthStarts)
          /\ m + 2 \in 1 .. Len(MonthStarts)
      BY <2>2, <2>3
    <3> QED
      <4>1. \A i \in 1 .. Len(MonthStarts) : MonthStarts[i] \in Nat
        BY <2>3
      <4> QED
        BY <3>1, <4>1
  <2>5. MonthStarts[m + 1] < MonthStarts[m + 2]
    <3>1. m + 1 \in 1 .. Len(MonthStarts) - 1 /\ (m + 1) + 1 = m + 2
      BY <2>2, <2>3
    <3> QED
      BY <3>1, ChronologyAssumption
  <2>6. PICK x, y, z \in Nat : x = MonthStarts[m] /\ y = MonthStarts[m + 1] /\ z = MonthStarts[m + 2]
    BY <2>4
  <2>7. PeriodEnd(sched, d)
          = y + (IF d - x + 1 < z - y THEN d - x + 1 ELSE z - y) - 1 - 1
    <3>1. (m + 1) + 1 = m + 2
      OBVIOUS
    <3> QED
      BY <1>1, <2>1, <2>6, <3>1 DEF PeriodEnd, ClampedDay, MonthLength
  <2>8. x <= d /\ d < y /\ y < z
    BY <2>2, <2>5, <2>6
  <2> QED
    BY <2>7, <2>8
<1>2. CASE sched.frequency # "Month"
  <2>1. sched.interval \in Nat \ {0}
    BY <1>2, ChronologyAssumption
  <2>2. PeriodEnd(sched, d) = d + sched.interval - 1
    BY <1>2 DEF PeriodEnd
  <2> QED
    BY <2>1, <2>2
<1> QED
  BY <1>1, <1>2

-----------------------------------------------------------------------------
(* Grids                                                                   *)

\* Induction up to a bound, over a set of numbers.
LEMMA CountsUp ==
    ASSUME NEW N \in Nat, NEW S, 0 \in S, \A n \in 1 .. N : n - 1 \in S => n \in S
    PROVE  \A n \in 0 .. N : n \in S
<1> DEFINE Bad == {n \in 0 .. N : n \notin S}
<1> SUFFICES ASSUME Bad # {} PROVE FALSE
  OBVIOUS
<1>1. PICK m \in Bad : \A n \in Bad : m <= n
  <2>1. Bad \in SUBSET Nat
    OBVIOUS
  <2> HIDE DEF Bad
  <2> QED
    BY <2>1, MinIsLeast
<1>2. m \in 1 .. N /\ m - 1 \in 0 .. N /\ ~(m <= m - 1)
  <2>1. m \in 0 .. N /\ m # 0
    BY <1>1
  <2> QED
    BY <2>1
<1>3. m - 1 \in S
  BY <1>1, <1>2
<1> QED
  BY <1>1, <1>2, <1>3

\* The starts of a schedule from an origin on, one after another.
Counted(w, k, sched, origin) ==
    /\ w \in [0 .. k -> Nat \ {0}] /\ w[0] = origin
    /\ \A n \in 1 .. k : w[n] = IF w[n - 1] > Horizon THEN w[n - 1]
                                ELSE PeriodEnd(sched, w[n - 1]) + 1

LEMMA CountExists ==
    ASSUME NEW sched \in Schedules, NEW origin \in 1 .. Horizon
    PROVE  \E w : Counted(w, Horizon, sched, origin)
<1> DEFINE S == {k \in 0 .. Horizon : \E w : Counted(w, k, sched, origin)}
<1>1. Horizon \in Nat /\ origin \in Nat \ {0}
  BY ConstantFacts
<1>2. 0 \in S
  <2>1. Counted([n \in 0 .. 0 |-> origin], 0, sched, origin)
    BY <1>1 DEF Counted
  <2> QED
    BY <1>1, <2>1
<1>3. ASSUME NEW k \in 1 .. Horizon, k - 1 \in S PROVE k \in S
  <2>1. PICK w : Counted(w, k - 1, sched, origin)
    BY <1>3
  <2>2. w \in [0 .. k - 1 -> Nat \ {0}] /\ k - 1 \in 0 .. k - 1 /\ k \in Nat
    BY <1>1, <2>1 DEF Counted
  <2>3. PICK last \in Nat \ {0} : last = w[k - 1]
    BY <2>2
  <2>4. PICK next \in Nat \ {0} : next = IF last > Horizon THEN last ELSE PeriodEnd(sched, last) + 1
    <3>1. CASE last > Horizon
      BY <3>1
    <3>2. CASE ~(last > Horizon)
      <4>1. last \in 1 .. Horizon
        BY <1>1, <3>2
      <4>2. PeriodEnd(sched, last) \in Nat
        BY <4>1, PeriodEndsLater
      <4> QED
        BY <3>2, <4>2
    <3> QED
      BY <3>1, <3>2
  <2> DEFINE x == [n \in 0 .. k |-> IF n = k THEN next ELSE w[n]]
  <2>5. x \in [0 .. k -> Nat \ {0}]
    <3>1. \A n \in 0 .. k : n # k => n \in 0 .. k - 1
      BY <2>2
    <3> QED
      BY <2>2, <3>1
  <2>6. x[0] = origin
    BY <2>1, <2>2 DEF Counted
  <2>7. ASSUME NEW n \in 1 .. k
        PROVE  x[n] = IF x[n - 1] > Horizon THEN x[n - 1] ELSE PeriodEnd(sched, x[n - 1]) + 1
    <3>1. n - 1 \in 0 .. k /\ n - 1 # k /\ n \in 0 .. k
      BY <2>2
    <3>2. x[n - 1] = w[n - 1]
      BY <3>1
    <3>3. CASE n = k
      BY <2>3, <2>4, <3>1, <3>2, <3>3
    <3>4. CASE n # k
      <4>1. n \in 1 .. k - 1
        BY <2>2, <3>4
      <4>2. x[n] = w[n]
        BY <3>1, <3>4
      <4> QED
        BY <2>1, <3>2, <4>1, <4>2 DEF Counted
    <3> QED
      BY <3>3, <3>4
  <2>8. Counted(x, k, sched, origin)
    <3> HIDE DEF x
    <3> QED
      BY <2>5, <2>6, <2>7 DEF Counted
  <2> QED
    BY <2>8
<1>4. Horizon \in S
  <2> HIDE DEF S
  <2>1. \A k \in 0 .. Horizon : k \in S
    BY <1>1, <1>2, <1>3, CountsUp
  <2> QED
    BY <1>1, <2>1
<1> QED
  BY <1>4

\* What Grid has is what is counted.
LEMMA GridIsCounted ==
    ASSUME NEW sched \in Schedules, NEW origin \in 1 .. Horizon
    PROVE  \E w : /\ Counted(w, Horizon, sched, origin)
                  /\ Grid[sched][origin] = {w[n] : n \in 0 .. Horizon}
<1> DEFINE step(w, n) == IF n = 0 THEN origin
                         ELSE IF w[n - 1] > Horizon THEN w[n - 1]
                         ELSE PeriodEnd(sched, w[n - 1]) + 1
           walkOf(s, o) == CHOOSE w : w = [n \in 0 .. Horizon |->
                              IF n = 0 THEN o
                              ELSE IF w[n - 1] > Horizon THEN w[n - 1]
                              ELSE PeriodEnd(s, w[n - 1]) + 1]
           startsOf(s, o) == {walkOf(s, o)[n] : n \in 0 .. Horizon}
           walk == walkOf(sched, origin)
<1>1. Horizon \in Nat /\ origin \in Nat \ {0}
  BY ConstantFacts
<1>2. \E w : w = [n \in 0 .. Horizon |-> step(w, n)]
  <2>1. PICK w : Counted(w, Horizon, sched, origin)
    BY CountExists
  <2>2. w \in [0 .. Horizon -> Nat \ {0}]
    BY <2>1 DEF Counted
  <2>3. ASSUME NEW n \in 0 .. Horizon PROVE w[n] = step(w, n)
    <3>1. CASE n = 0
      BY <2>1, <3>1 DEF Counted
    <3>2. CASE n # 0
      <4>1. n \in 1 .. Horizon
        BY <1>1, <3>2
      <4> QED
        BY <2>1, <3>2, <4>1 DEF Counted
    <3> QED
      BY <3>1, <3>2
  <2>4. w = [n \in 0 .. Horizon |-> step(w, n)]
    BY <2>2, <2>3
  <2> QED
    BY <2>4
<1>3. walk = [n \in 0 .. Horizon |-> step(walk, n)]
  BY <1>2
<1>4. Grid[sched][origin] = {walk[n] : n \in 0 .. Horizon}
  <2>1. Grid = [s \in Schedules |-> [o \in 1 .. Horizon |-> startsOf(s, o)]]
    BY DEF Grid
  <2>2. startsOf(sched, origin) = {walk[n] : n \in 0 .. Horizon}
    <3> HIDE DEF walkOf
    <3> QED
      OBVIOUS
  <2>3. Grid[sched][origin] = startsOf(sched, origin)
    <3> HIDE DEF startsOf, walkOf, walk
    <3> QED
      BY <2>1
  <2> QED
    BY <2>2, <2>3
<1>5. PICK w : w = walk
  OBVIOUS
<1>6. w = [n \in 0 .. Horizon |-> step(w, n)]
  BY <1>3, <1>5
<1>7. Grid[sched][origin] = {w[n] : n \in 0 .. Horizon}
  BY <1>4, <1>5
<1> HIDE DEF walk, walkOf, startsOf
<1>8. \A n \in 0 .. Horizon : w[n] = step(w, n)
  BY <1>6
<1> DEFINE S == {n \in 0 .. Horizon : w[n] \in Nat \ {0}}
<1>9. 0 \in S
  BY <1>1, <1>8
<1>10. ASSUME NEW n \in 1 .. Horizon, n - 1 \in S PROVE n \in S
  <2>1. n \in 0 .. Horizon /\ n # 0
    BY <1>1
  <2>2. PICK last \in Nat \ {0} : last = w[n - 1]
    BY <1>10
  <2>3. w[n] = IF last > Horizon THEN last ELSE PeriodEnd(sched, last) + 1
    BY <1>8, <2>1, <2>2
  <2>4. CASE last > Horizon
    BY <2>1, <2>3, <2>4
  <2>5. CASE ~(last > Horizon)
    <3>1. last \in 1 .. Horizon
      BY <1>1, <2>5
    <3>2. PeriodEnd(sched, last) \in Nat
      BY <3>1, PeriodEndsLater
    <3> QED
      BY <2>1, <2>3, <2>5, <3>2
  <2> QED
    BY <2>4, <2>5
<1>11. \A n \in 0 .. Horizon : w[n] \in Nat \ {0}
  <2>1. \A n \in 0 .. Horizon : n \in S
    <3> HIDE DEF S
    <3> QED
      BY <1>1, <1>9, <1>10, CountsUp
  <2> QED
    BY <2>1
<1>12. Counted(w, Horizon, sched, origin)
  <2>1. w \in [0 .. Horizon -> Nat \ {0}]
    <3> HIDE DEF step
    <3>1. \A n \in 0 .. Horizon : step(w, n) \in Nat \ {0}
      BY <1>8, <1>11
    <3> QED
      BY <1>6, <3>1
  <2>2. w[0] = origin
    BY <1>1, <1>8
  <2>3. ASSUME NEW n \in 1 .. Horizon
        PROVE  w[n] = IF w[n - 1] > Horizon THEN w[n - 1] ELSE PeriodEnd(sched, w[n - 1]) + 1
    <3>1. n \in 0 .. Horizon /\ n # 0
      BY <1>1
    <3> QED
      BY <1>8, <3>1
  <2> QED
    BY <2>1, <2>2, <2>3 DEF Counted
<1> HIDE DEF step, S
<1> QED
  BY <1>7, <1>12

\* Starts come after each other, and the n-th is at least n days later.
LEMMA CountAscends ==
    ASSUME NEW sched \in Schedules, NEW origin \in 1 .. Horizon,
           NEW w, Counted(w, Horizon, sched, origin)
    PROVE  /\ \A n \in 1 .. Horizon : w[n - 1] <= w[n] /\ (w[n - 1] <= Horizon => w[n - 1] < w[n])
           /\ \A n \in 0 .. Horizon : w[n] <= Horizon => n < w[n]
           /\ \A m, n \in 0 .. Horizon : m <= n => w[m] <= w[n]
<1>1. Horizon \in Nat /\ \A n \in 0 .. Horizon : w[n] \in Nat \ {0}
  BY ConstantFacts DEF Counted
<1>2. ASSUME NEW n \in 1 .. Horizon
      PROVE  w[n - 1] <= w[n] /\ (w[n - 1] <= Horizon => w[n - 1] < w[n])
  <2>1. n \in 0 .. Horizon /\ n - 1 \in 0 .. Horizon
    BY <1>1
  <2>2. PICK x, y \in Nat \ {0} : x = w[n - 1] /\ y = w[n]
    BY <1>1, <2>1
  <2>3. y = IF x > Horizon THEN x ELSE PeriodEnd(sched, x) + 1
    BY <2>2 DEF Counted
  <2>4. ASSUME x <= Horizon PROVE x < y
    <3>1. x \in 1 .. Horizon
      BY <1>1, <2>4
    <3>2. PICK e \in Nat : e = PeriodEnd(sched, x) /\ x <= e
      BY <3>1, PeriodEndsLater
    <3>3. y = e + 1
      BY <1>1, <2>3, <2>4, <3>2
    <3> QED
      BY <3>2, <3>3
  <2>5. x > Horizon => y = x
    BY <2>3
  <2> QED
    BY <1>1, <2>2, <2>4, <2>5
<1>3. ASSUME NEW n \in 0 .. Horizon PROVE w[n] <= Horizon => n < w[n]
  <2> DEFINE S == {k \in 0 .. Horizon : w[k] <= Horizon => k < w[k]}
  <2>1. 0 \in S
    BY <1>1
  <2>2. ASSUME NEW k \in 1 .. Horizon, k - 1 \in S PROVE k \in S
    <3>1. k \in 0 .. Horizon /\ k - 1 \in 0 .. Horizon
      BY <1>1
    <3>2. PICK x, y \in Nat : x = w[k - 1] /\ y = w[k]
      BY <1>1, <3>1
    <3>3. x <= y /\ (x <= Horizon => x < y)
      BY <1>2, <3>2
    <3>4. x <= Horizon => k - 1 < x
      BY <2>2, <3>2
    <3>5. y <= Horizon => k < y
      BY <1>1, <3>1, <3>3, <3>4
    <3> QED
      BY <3>1, <3>2, <3>5
  <2>3. \A k \in 0 .. Horizon : k \in S
    <3> HIDE DEF S
    <3> QED
      BY <1>1, <2>1, <2>2, CountsUp
  <2> QED
    BY <2>3
<1>4. ASSUME NEW m \in 0 .. Horizon, NEW n \in 0 .. Horizon, m <= n PROVE w[m] <= w[n]
  <2> DEFINE S == {k \in 0 .. Horizon : m <= k => w[m] <= w[k]}
  <2>1. 0 \in S
    BY <1>1
  <2>2. ASSUME NEW k \in 1 .. Horizon, k - 1 \in S PROVE k \in S
    <3>1. k \in 0 .. Horizon /\ k - 1 \in 0 .. Horizon
      BY <1>1
    <3>2. PICK x, y, z \in Nat : x = w[k - 1] /\ y = w[k] /\ z = w[m]
      BY <1>1, <3>1
    <3>3. x <= y
      BY <1>2, <3>2
    <3>4. m <= k - 1 => z <= x
      BY <2>2, <3>2
    <3>5. m = k => z = y
      BY <3>2
    <3>6. m <= k => z <= y
      BY <1>1, <3>1, <3>3, <3>4, <3>5
    <3> QED
      BY <3>1, <3>2, <3>6
  <2>3. \A k \in 0 .. Horizon : k \in S
    <3> HIDE DEF S
    <3> QED
      BY <1>1, <2>1, <2>2, CountsUp
  <2> QED
    BY <1>4, <2>3
<1> QED
  BY <1>2, <1>3, <1>4

\* No remainder means a multiple.
LEMMA Multiple ==
    ASSUME NEW n \in Nat, NEW d \in Nat \ {0}
    PROVE  n % d = 0 <=> \E q \in Nat : n = d * q
<1>1. PICK q \in Int, r \in Nat : q = n \div d /\ r = n % d /\ n = d * q + r /\ r < d
  OBVIOUS
<1>2. q >= 0
  <2> SUFFICES ASSUME q <= 0 - 1 PROVE FALSE
    BY <1>1
  <2>1. d * q <= 0 - d
    <3>1. PICK k \in Nat : q = 0 - 1 - k
      <4>1. 0 - 1 - q \in Nat
        BY <1>1
      <4> QED
        BY <1>1, <4>1
    <3>2. PICK m \in Nat : m = d * k
      OBVIOUS
    <3>3. d * q = 0 - d - m
      BY <3>1, <3>2
    <3> QED
      BY <3>2, <3>3
  <2> QED
    BY <1>1, <2>1
<1>3. ASSUME NEW p \in Nat, n = d * p PROVE r = 0
  <2>1. PICK k \in Int : k = p - q
    OBVIOUS
  <2>2. d * k = r
    <3>1. PICK g, h \in Int : g = d * p /\ h = d * q
      BY <1>1
    <3>2. d * k = g - h
      BY <1>1, <2>1, <3>1
    <3> QED
      BY <1>1, <1>3, <3>1, <3>2
  <2>3. CASE k <= 0
    <3>1. PICK j \in Nat : k = 0 - j
      <4>1. 0 - k \in Nat
        BY <2>1, <2>3
      <4> QED
        BY <2>1, <4>1
    <3>2. PICK m \in Nat : m = d * j
      OBVIOUS
    <3>3. d * k = 0 - m
      BY <3>1, <3>2
    <3> QED
      BY <1>1, <2>2, <3>2, <3>3
  <2>4. CASE k >= 1
    <3>1. PICK j \in Nat : k = j + 1
      <4>1. k - 1 \in Nat
        BY <2>1, <2>4
      <4> QED
        BY <2>1, <4>1
    <3>2. PICK m \in Nat : m = d * j
      OBVIOUS
    <3>3. d * k = m + d
      BY <3>1, <3>2
    <3> QED
      BY <1>1, <2>2, <3>2, <3>3
  <2> QED
    BY <2>1, <2>3, <2>4
<1>4. r = 0 => n = d * q
  <2>1. PICK h \in Int : h = d * q
    BY <1>1
  <2> QED
    BY <1>1, <2>1
<1>5. r = 0 <=> \E p \in Nat : n = d * p
  BY <1>2, <1>3, <1>4
<1>6. n % d = r
  BY <1>1
<1> QED
  BY <1>5, <1>6

\* A monthly grid, as it is counted; another one, by multiples.
LEMMA StartByCount ==
    ASSUME NEW sched \in Schedules, sched.frequency = "Month", NEW origin \in 1 .. Horizon
    PROVE  \E w : /\ Counted(w, Horizon, sched, origin)
                  /\ \A d \in Nat : IsPeriodStart(sched, d, origin) <=>
                                       \E n \in 0 .. Horizon : w[n] = d
<1>1. PICK w : /\ Counted(w, Horizon, sched, origin)
               /\ Grid[sched][origin] = {w[n] : n \in 0 .. Horizon}
  BY GridIsCounted
<1>2. Horizon \in Nat /\ origin \in Nat /\ w[0] = origin /\ \A n \in 0 .. Horizon : w[n] \in Nat
  BY <1>1, ConstantFacts DEF Counted
<1>3. \A n \in 0 .. Horizon : origin <= w[n]
  <2>1. 0 \in 0 .. Horizon /\ \A n \in 0 .. Horizon : 0 <= n
    BY <1>2
  <2> QED
    BY <1>1, <1>2, <2>1, CountAscends
<1>4. ASSUME NEW d \in Nat
      PROVE  IsPeriodStart(sched, d, origin) <=> \E n \in 0 .. Horizon : w[n] = d
  BY <1>1, <1>2, <1>3 DEF IsPeriodStart
<1> QED
  BY <1>1, <1>4

LEMMA StartByMultiple ==
    ASSUME NEW sched \in Schedules, sched.frequency # "Month", NEW origin \in Nat, NEW d \in Nat
    PROVE  /\ sched.interval \in Nat \ {0}
           /\ PeriodEnd(sched, d) = d + sched.interval - 1
           /\ IsPeriodStart(sched, d, origin) <=>
                 \E q \in Nat : d = origin + sched.interval * q
<1>1. PICK i \in Nat \ {0} : i = sched.interval
  BY ChronologyAssumption
<1>2. IsPeriodStart(sched, d, origin) <=> d >= origin /\ (d - origin) % i = 0
  BY <1>1 DEF IsPeriodStart
<1>3. ASSUME d >= origin
      PROVE  (d - origin) % i = 0 <=> \E q \in Nat : d = origin + i * q
  <2>1. PICK n \in Nat : n = d - origin
    BY <1>3
  <2>2. n % i = 0 <=> \E q \in Nat : n = i * q
    BY Multiple
  <2>3. ASSUME NEW q \in Nat PROVE n = i * q <=> d = origin + i * q
    <3>1. PICK m \in Nat : m = i * q
      OBVIOUS
    <3> QED
      BY <2>1, <3>1
  <2> QED
    BY <2>1, <2>2, <2>3
<1>4. ASSUME NEW q \in Nat, d = origin + i * q PROVE d >= origin
  <2>1. PICK m \in Nat : m = i * q
    OBVIOUS
  <2> QED
    BY <1>4, <2>1
<1> QED
  BY <1>1, <1>2, <1>3, <1>4 DEF PeriodEnd

\* A grid has its origin, and after a start the day after its period.
LEMMA GridHasOrigin ==
    ASSUME NEW sched \in Schedules, NEW origin \in 1 .. Horizon
    PROVE  IsPeriodStart(sched, origin, origin)
<1>1. CASE sched.frequency = "Month"
  <2>1. PICK w : /\ Counted(w, Horizon, sched, origin)
                 /\ \A d \in Nat : IsPeriodStart(sched, d, origin) <=>
                                      \E n \in 0 .. Horizon : w[n] = d
    BY <1>1, StartByCount
  <2>2. w[0] = origin /\ 0 \in 0 .. Horizon
    BY <2>1, ConstantFacts DEF Counted
  <2> QED
    BY <2>1, <2>2
<1>2. CASE sched.frequency # "Month"
  <2>1. origin = origin + sched.interval * 0
    BY <1>2, StartByMultiple
  <2> QED
    BY <1>2, <2>1, StartByMultiple
<1> QED
  BY <1>1, <1>2

LEMMA GridGoesOn ==
    ASSUME NEW sched \in Schedules, NEW origin \in 1 .. Horizon, NEW x \in 1 .. Horizon,
           IsPeriodStart(sched, x, origin)
    PROVE  IsPeriodStart(sched, PeriodEnd(sched, x) + 1, origin)
<1>1. PICK e \in Nat : e = PeriodEnd(sched, x)
  BY PeriodEndsLater
<1>2. CASE sched.frequency = "Month"
  <2>1. PICK w : /\ Counted(w, Horizon, sched, origin)
                 /\ \A d \in Nat : IsPeriodStart(sched, d, origin) <=>
                                      \E n \in 0 .. Horizon : w[n] = d
    BY <1>2, StartByCount
  <2>2. PICK n \in 0 .. Horizon : w[n] = x
    BY <2>1
  <2>3. n + 1 \in 1 .. Horizon /\ n + 1 \in 0 .. Horizon /\ (n + 1) - 1 = n
    <3>1. n < x
      BY <2>1, <2>2, CountAscends
    <3> QED
      BY <3>1, ConstantFacts
  <2>4. w[n + 1] = e + 1
    <3>1. ~(w[n] > Horizon)
      BY <2>2, ConstantFacts
    <3>2. w[n + 1] = IF w[(n + 1) - 1] > Horizon THEN w[(n + 1) - 1]
                     ELSE PeriodEnd(sched, w[(n + 1) - 1]) + 1
      BY <2>1, <2>3 DEF Counted
    <3> QED
      BY <1>1, <2>2, <2>3, <3>1, <3>2
  <2>5. e + 1 \in Nat
    OBVIOUS
  <2> QED
    BY <1>1, <2>1, <2>3, <2>4, <2>5
<1>3. CASE sched.frequency # "Month"
  <2>1. PICK i \in Nat \ {0} : i = sched.interval /\ e + 1 = x + i
    <3>1. PICK i \in Nat \ {0} : i = sched.interval /\ e = x + i - 1
      BY <1>1, <1>3, StartByMultiple
    <3> QED
      BY <3>1
  <2>2. PICK q \in Nat : x = origin + i * q
    BY <1>3, <2>1, StartByMultiple
  <2>3. x + i = origin + i * (q + 1)
    <3>1. PICK m \in Nat : m = i * q
      OBVIOUS
    <3>2. i * (q + 1) = m + i
      BY <3>1
    <3> QED
      BY <2>2, <3>1, <3>2
  <2>4. q + 1 \in Nat /\ e + 1 \in Nat
    OBVIOUS
  <2> QED
    BY <1>1, <1>3, <2>1, <2>3, <2>4, StartByMultiple
<1> QED
  BY <1>2, <1>3

\* A period does not reach the next start of its grid.
LEMMA GridKeepsApart ==
    ASSUME NEW sched \in Schedules, NEW origin \in 1 .. Horizon,
           NEW x \in 1 .. Horizon, NEW y \in Nat, x < y,
           IsPeriodStart(sched, x, origin), IsPeriodStart(sched, y, origin)
    PROVE  PeriodEnd(sched, x) < y
<1>1. PICK e \in Nat : e = PeriodEnd(sched, x)
  BY PeriodEndsLater
<1>2. CASE sched.frequency = "Month"
  <2>1. PICK w : /\ Counted(w, Horizon, sched, origin)
                 /\ \A d \in Nat : IsPeriodStart(sched, d, origin) <=>
                                      \E n \in 0 .. Horizon : w[n] = d
    BY <1>2, StartByCount
  <2>2. PICK n \in 0 .. Horizon : w[n] = x
    BY <2>1
  <2>3. PICK m \in 0 .. Horizon : w[m] = y
    BY <2>1
  <2>4. \A i, j \in 0 .. Horizon : i <= j => w[i] <= w[j]
    BY <2>1, CountAscends
  <2>5. ~(m <= n)
    <3>1. ~(y <= x)
      OBVIOUS
    <3> QED
      BY <2>2, <2>3, <2>4, <3>1
  <2>6. n + 1 \in 1 .. Horizon /\ n + 1 \in 0 .. Horizon /\ n + 1 <= m /\ (n + 1) - 1 = n
    BY <2>5, ConstantFacts
  <2>7. w[n + 1] = e + 1
    <3>1. ~(w[n] > Horizon)
      BY <2>2, ConstantFacts
    <3>2. w[n + 1] = IF w[(n + 1) - 1] > Horizon THEN w[(n + 1) - 1]
                     ELSE PeriodEnd(sched, w[(n + 1) - 1]) + 1
      BY <2>1, <2>6 DEF Counted
    <3> QED
      BY <1>1, <2>2, <2>6, <3>1, <3>2
  <2>8. e + 1 <= y
    BY <2>3, <2>4, <2>6, <2>7
  <2> QED
    BY <1>1, <2>8
<1>3. CASE sched.frequency # "Month"
  <2>1. PICK i \in Nat \ {0} : i = sched.interval /\ e = x + i - 1
    BY <1>1, <1>3, StartByMultiple
  <2>2. PICK p \in Nat : x = origin + i * p
    BY <1>3, <2>1, StartByMultiple
  <2>3. PICK q \in Nat : y = origin + i * q
    BY <1>3, <2>1, StartByMultiple
  <2>4. PICK m, n \in Nat : m = i * p /\ n = i * q
    OBVIOUS
  <2>5. ~(q <= p)
    <3> SUFFICES ASSUME q <= p PROVE FALSE
      OBVIOUS
    <3>1. PICK k \in Nat : p = q + k
      <4>1. p - q \in Nat
        OBVIOUS
      <4> QED
        BY <4>1
    <3>2. PICK h \in Nat : h = i * k
      OBVIOUS
    <3>3. m = n + h
      BY <2>4, <3>1, <3>2
    <3> QED
      BY <2>2, <2>3, <2>4, <3>2, <3>3
  <2>6. PICK k \in Nat : q = p + 1 + k
    <3>1. q - p - 1 \in Nat
      BY <2>5
    <3> QED
      BY <3>1
  <2>7. PICK h \in Nat : h = i * k
    OBVIOUS
  <2>8. n = m + i + h
    BY <2>4, <2>6, <2>7
  <2> QED
    BY <1>1, <2>1, <2>2, <2>3, <2>4, <2>7, <2>8
<1> QED
  BY <1>2, <1>3

\* The grid from a start of a grid is part of it.
LEMMA GridFromStart ==
    ASSUME NEW sched \in Schedules, NEW origin \in 1 .. Horizon,
           NEW x \in 1 .. Horizon, NEW y \in 1 .. Horizon,
           IsPeriodStart(sched, x, origin), IsPeriodStart(sched, y, x)
    PROVE  IsPeriodStart(sched, y, origin)
<1>1. CASE sched.frequency = "Month"
  <2>1. PICK w : /\ Counted(w, Horizon, sched, origin)
                 /\ \A d \in Nat : IsPeriodStart(sched, d, origin) <=>
                                      \E n \in 0 .. Horizon : w[n] = d
    BY <1>1, StartByCount
  <2>2. PICK u : /\ Counted(u, Horizon, sched, x)
                 /\ \A d \in Nat : IsPeriodStart(sched, d, x) <=>
                                      \E n \in 0 .. Horizon : u[n] = d
    BY <1>1, StartByCount
  <2>3. PICK n \in 0 .. Horizon : w[n] = x
    BY <2>1
  <2>4. PICK k \in 0 .. Horizon : u[k] = y
    BY <2>2
  <2>5. /\ Horizon \in Nat
        /\ \A i \in 0 .. Horizon : w[i] \in Nat \ {0} /\ u[i] \in Nat \ {0}
        /\ u[0] = x
    BY <2>1, <2>2, ConstantFacts DEF Counted
  <2> DEFINE S == {i \in 0 .. Horizon : u[i] <= Horizon =>
                      n + i \in 0 .. Horizon /\ w[n + i] = u[i]}
  <2>6. 0 \in S
    <3>1. n + 0 = n /\ 0 \in 0 .. Horizon
      BY <2>5
    <3> QED
      BY <2>3, <2>5, <3>1
  <2>7. ASSUME NEW i \in 1 .. Horizon, i - 1 \in S PROVE i \in S
    <3> SUFFICES ASSUME u[i] <= Horizon
                 PROVE  n + i \in 0 .. Horizon /\ w[n + i] = u[i]
      BY <2>5
    <3>1. i \in 0 .. Horizon /\ i - 1 \in 0 .. Horizon
      BY <2>5
    <3>2. PICK s, t \in Nat \ {0} : s = u[i - 1] /\ t = u[i]
      BY <2>5, <3>1
    <3>3. s <= t
      BY <2>2, <3>2, CountAscends
    <3>4. s <= Horizon /\ t <= Horizon
      BY <2>5, <3>2, <3>3
    <3>5. n + (i - 1) \in 0 .. Horizon /\ w[n + (i - 1)] = s
      BY <2>7, <3>2, <3>4
    <3>6. n + (i - 1) < s
      BY <2>1, <3>4, <3>5, CountAscends
    <3>7. n + i \in 1 .. Horizon /\ n + i \in 0 .. Horizon /\ (n + i) - 1 = n + (i - 1)
      BY <2>5, <3>1, <3>4, <3>6
    <3>8. w[n + i] = IF s > Horizon THEN s ELSE PeriodEnd(sched, s) + 1
      <4>1. w[n + i] = IF w[(n + i) - 1] > Horizon THEN w[(n + i) - 1]
                       ELSE PeriodEnd(sched, w[(n + i) - 1]) + 1
        BY <2>1, <3>7 DEF Counted
      <4> QED
        BY <3>5, <3>7, <4>1
    <3>9. t = IF s > Horizon THEN s ELSE PeriodEnd(sched, s) + 1
      BY <2>2, <3>2 DEF Counted
    <3> QED
      BY <3>2, <3>7, <3>8, <3>9
  <2>8. k \in S
    <3> HIDE DEF S
    <3>1. \A i \in 0 .. Horizon : i \in S
      BY <2>5, <2>6, <2>7, CountsUp
    <3> QED
      BY <3>1
  <2>9. n + k \in 0 .. Horizon /\ w[n + k] = y
    BY <2>4, <2>8
  <2> QED
    BY <2>1, <2>9
<1>2. CASE sched.frequency # "Month"
  <2>1. PICK i \in Nat \ {0} : i = sched.interval
    BY <1>2, StartByMultiple
  <2>2. PICK p \in Nat : x = origin + i * p
    BY <1>2, <2>1, StartByMultiple
  <2>3. PICK q \in Nat : y = x + i * q
    BY <1>2, <2>1, StartByMultiple
  <2>4. y = origin + i * (p + q) /\ p + q \in Nat
    <3>1. PICK m, n \in Nat : m = i * p /\ n = i * q
      OBVIOUS
    <3>2. i * (p + q) = m + n
      BY <3>1
    <3> QED
      BY <2>2, <2>3, <3>1, <3>2
  <2> QED
    BY <1>2, <2>1, <2>4, StartByMultiple
<1> QED
  BY <1>1, <1>2

-----------------------------------------------------------------------------
(* Rows, ends and versions                                                 *)

\* The first start after a day that a set of rows has, or Forever.
NextOf(rows, day) == Min({Forever} \cup {r.from : r \in {x \in rows : x.from > day}})

LEMMA NextFrom ==
    ASSUME NEW rows, \A r \in rows : r.from \in 1 .. Horizon, NEW day \in Nat,
           NEW n, n = NextOf(rows, day)
    PROVE  /\ n \in 1 .. Forever
           /\ \A e \in Nat : e < n <=> e < Forever /\ Ahead(rows, day, e)
           /\ n # Forever => \E r \in rows : r.from = n /\ day < r.from
<1> DEFINE S == {Forever} \cup {r.from : r \in {x \in rows : x.from > day}}
<1>1. S \in SUBSET (1 .. Forever) /\ S # {}
  BY ConstantFacts
<1>2. n \in S /\ \A x \in S : n <= x
  <2>1. S \in SUBSET Nat
    BY <1>1
  <2>2. n = Min(S)
    BY DEF NextOf
  <2>3. Min(S) \in S /\ \A x \in S : Min(S) <= x
    <3>1. S # {}
      BY <1>1
    <3> HIDE DEF S
    <3> QED
      BY <2>1, <3>1, MinIsLeast
  <2> QED
    BY <2>2, <2>3
<1>3. n \in 1 .. Forever
  BY <1>1, <1>2
<1>4. ASSUME NEW e \in Nat
      PROVE  e < n <=> e < Forever /\ Ahead(rows, day, e)
  <2>1. ASSUME e < n PROVE e < Forever /\ Ahead(rows, day, e)
    <3>1. n <= Forever
      BY <1>2
    <3>2. \A r \in rows : r.from > day => n <= r.from
      BY <1>2
    <3> QED
      BY <1>3, <2>1, <3>1, <3>2, ConstantFacts DEF Ahead
  <2>2. ASSUME e < Forever, Ahead(rows, day, e) PROVE e < n
    BY <1>2, <2>2 DEF Ahead
  <2> QED
    BY <2>1, <2>2
<1>5. n # Forever => \E r \in rows : r.from = n /\ day < r.from
  BY <1>2
<1> QED
  BY <1>3, <1>4, <1>5

\* The last end of a set of periods.
LEMMA LastEndBounds ==
    ASSUME NEW ps \in SUBSET PeriodRows
    PROVE  /\ LastEnd(ps) \in 0 .. Horizon /\ \A p \in ps : p.end <= LastEnd(ps)
           /\ LastEnd(ps) = 0 \/ \E p \in ps : p.end = LastEnd(ps)
<1> DEFINE S == {0} \cup {p.end : p \in ps}
<1>1. S \in SUBSET Nat /\ S # {} /\ \A x \in S : x <= Horizon
  BY ConstantFacts DEF PeriodRows
<1>2. Max(S) \in S /\ \A x \in S : x <= Max(S)
  <2> HIDE DEF S
  <2> QED
    BY <1>1, MaxIsGreatest, ConstantFacts
<1>3. LastEnd(ps) = Max(S)
  BY DEF LastEnd
<1>4. LastEnd(ps) \in S /\ \A x \in S : x <= LastEnd(ps)
  BY <1>2, <1>3
<1>5. S \subseteq 0 .. Horizon
  BY <1>1, ConstantFacts
<1>6. \A p \in ps : p.end \in S
  OBVIOUS
<1>7. \A x \in S : x = 0 \/ \E p \in ps : p.end = x
  OBVIOUS
<1> HIDE DEF S
<1> QED
  BY <1>4, <1>5, <1>6, <1>7

\* A version governs the day exactly when one starts by then.
LEMMA GoverningExists ==
    ASSUME NEW vs \in SUBSET VersionRows, NEW day \in Nat
    PROVE  Governing(vs, day) # {} <=> HasSchedule(vs, day)
<1> DEFINE S == {v.from : v \in {w \in vs : w.from <= day}}
<1>1. ASSUME HasSchedule(vs, day) PROVE Governing(vs, day) # {}
  <2>1. S \in SUBSET Nat /\ S # {} /\ \A x \in S : x <= day
    BY <1>1 DEF HasSchedule, VersionRows
  <2>2. Max(S) \in S /\ \A x \in S : x <= Max(S)
    <3> HIDE DEF S
    <3> QED
      BY <2>1, MaxIsGreatest
  <2>3. PICK v \in vs : v.from <= day /\ v.from = Max(S)
    BY <2>2
  <2>4. v \in Governing(vs, day)
    BY <2>2, <2>3 DEF Governing
  <2> QED
    BY <2>4
<1>2. ASSUME Governing(vs, day) # {} PROVE HasSchedule(vs, day)
  BY <1>2 DEF HasSchedule, Governing
<1> QED
  BY <1>1, <1>2

LEMMA ScheduleAtExists ==
    ASSUME TypeOK, NEW s \in Setups, NEW day \in Nat
    PROVE  ScheduleAt(s, day) # None <=> HasSchedule(versions[s], day)
<1>1. versions[s] \in SUBSET VersionRows
  BY DEF TypeOK, Timelines
<1>2. PICK g : g = Governing(versions[s], day)
  OBVIOUS
<1>3. g \in SUBSET VersionRows /\ (g # {} <=> HasSchedule(versions[s], day))
  <2>1. g \subseteq versions[s]
    BY <1>2 DEF Governing
  <2> QED
    BY <1>1, <1>2, <2>1, GoverningExists
<1>4. g # {} => ScheduleOf(g) # None
  <2> SUFFICES ASSUME g # {} PROVE ScheduleOf(g) # None
    OBVIOUS
  <2>1. (CHOOSE v \in g : TRUE) \in g
    OBVIOUS
  <2>2. (CHOOSE v \in g : TRUE).sched \in Schedules
    BY <1>3, <2>1 DEF VersionRows
  <2> QED
    BY <2>2, ConstantFacts DEF ScheduleOf
<1> QED
  BY <1>2, <1>3, <1>4 DEF ScheduleAt, TerminalVersion, ScheduleOf

-----------------------------------------------------------------------------
(* Versions and assignments that fit                                       *)

LEMMA MinOfTwo ==
    ASSUME NEW x \in Nat, NEW y \in Nat
    PROVE  Min({x, y}) = IF x <= y THEN x ELSE y
<1>1. {x, y} \in SUBSET Nat
  OBVIOUS
<1>2. Min({x, y}) \in {x, y} /\ \A z \in {x, y} : Min({x, y}) <= z
  BY <1>1, MinIsLeast
<1> QED
  BY <1>2

LEMMA MaxOfTwo ==
    ASSUME NEW x \in Nat, NEW y \in Nat
    PROVE  Max({x, y}) = IF x <= y THEN y ELSE x
<1>1. {x, y} \in SUBSET Nat /\ \A z \in {x, y} : z <= x + y
  OBVIOUS
<1>2. Max({x, y}) \in {x, y} /\ \A z \in {x, y} : z <= Max({x, y})
  BY <1>1, MaxIsGreatest
<1> QED
  BY <1>2

\* One version governs a day.
LEMMA OneGoverns ==
    ASSUME NEW vs \in SUBSET VersionRows, VersionsFit(vs), NEW day,
           NEW v \in Governing(vs, day), NEW w \in Governing(vs, day)
    PROVE  v = w
<1>1. v \in vs /\ w \in vs /\ v.from <= w.from /\ w.from <= v.from
  BY DEF Governing
<1>2. v.from \in Nat /\ w.from \in Nat
  BY <1>1 DEF VersionRows
<1>3. v.from = w.from
  BY <1>1, <1>2
<1> QED
  BY <1>1, <1>3 DEF VersionsFit

LEMMA ScheduleAtIs ==
    ASSUME TypeOK, NEW s \in Setups, VersionsFit(versions[s]), NEW day,
           NEW v \in Governing(versions[s], day)
    PROVE  ScheduleAt(s, day) = v.sched /\ v \in VersionRows /\ v.sched \in Schedules
<1>1. PICK vs \in SUBSET VersionRows : vs = versions[s]
  BY DEF TypeOK, Timelines
<1>2. PICK g : g = Governing(vs, day)
  OBVIOUS
<1>3. g = {v}
  BY <1>1, <1>2, OneGoverns
<1>4. ScheduleOf(g) = v.sched
  <2>1. (CHOOSE x \in {v} : TRUE) = v
    OBVIOUS
  <2> QED
    BY <1>3, <2>1 DEF ScheduleOf
<1>5. v \in vs
  BY <1>1 DEF Governing
<1>6. v \in VersionRows /\ v.sched \in Schedules
  BY <1>5 DEF VersionRows
<1> QED
  BY <1>1, <1>2, <1>4, <1>6 DEF ScheduleAt, TerminalVersion

\* A version governs until another one starts.
LEMMA GovernsOn ==
    ASSUME NEW vs \in SUBSET VersionRows, NEW from \in Nat, NEW day \in Nat,
           from <= day, Ahead(vs, from, day)
    PROVE  Governing(vs, day) = Governing(vs, from)
<1>1. \A v \in vs : v.from \in Nat
  BY DEF VersionRows
<1>2. \A v \in vs : v.from <= day <=> v.from <= from
  BY <1>1 DEF Ahead
<1> QED
  BY <1>2 DEF Governing

-----------------------------------------------------------------------------
(* What the writes do to the timelines                                     *)

\* A version takes its place, and that of the version with its date.
Published(vs, new, v) == new = (vs \ {w \in vs : w.from = v.from}) \cup {v}

\* A version that is published governs from its date to the next version.
LEMMA PublishedVersions ==
    ASSUME NEW vs \in SUBSET VersionRows, NEW v \in VersionRows, NEW new,
           Published(vs, new, v), NEW day \in Nat
    PROVE  /\ HasSchedule(vs, day) => HasSchedule(new, day)
           /\ day < v.from \/ (\E w \in vs : v.from < w.from /\ w.from <= day)
                 => Governing(new, day) = Governing(vs, day)
           /\ \A e \in Nat : Ahead(vs, day, e) /\ (e < v.from \/ v.from <= day)
                 => Ahead(new, day, e)
<1> USE DEF Published
<1>1. \A w \in vs \cup {v} : w.from \in Nat
  BY DEF VersionRows
<1>2. HasSchedule(vs, day) => HasSchedule(new, day)
  BY <1>1 DEF HasSchedule
<1>3. ASSUME day < v.from PROVE Governing(new, day) = Governing(vs, day)
  <2>1. \A w : w \in new /\ w.from <= day <=> w \in vs /\ w.from <= day
    BY <1>1, <1>3
  <2> QED
    BY <2>1 DEF Governing
<1>4. ASSUME NEW w \in vs, v.from < w.from, w.from <= day
      PROVE  Governing(new, day) = Governing(vs, day)
  <2>1. w \in new
    BY <1>1, <1>4
  <2>2. \A g \in Governing(new, day) : g \in vs /\ g # v
    BY <1>1, <1>4, <2>1 DEF Governing
  <2>3. \A g \in Governing(vs, day) : g.from >= w.from
    BY <1>1, <1>4 DEF Governing
  <2>4. ASSUME NEW g \in Governing(new, day) PROVE g \in Governing(vs, day)
    <3>1. g \in vs /\ g.from <= day /\ g.from >= w.from
      BY <1>4, <2>1, <2>2 DEF Governing
    <3>2. ASSUME NEW h \in vs, h.from <= day PROVE h.from <= g.from
      <4>1. CASE h.from = v.from
        BY <1>1, <1>4, <3>1, <4>1
      <4>2. CASE h.from # v.from
        BY <3>2, <4>2 DEF Governing
      <4> QED
        BY <4>1, <4>2
    <3> QED
      BY <3>1, <3>2 DEF Governing
  <2>5. ASSUME NEW g \in Governing(vs, day) PROVE g \in Governing(new, day)
    <3>1. g \in vs /\ g.from <= day /\ g.from # v.from /\ v.from <= g.from
      BY <1>1, <1>4, <2>3 DEF Governing
    <3>2. \A h \in new : h.from <= day => h.from <= g.from
      BY <1>1, <3>1 DEF Governing
    <3> QED
      BY <3>1, <3>2 DEF Governing
  <2> QED
    BY <2>4, <2>5
<1>5. ASSUME NEW e \in Nat, Ahead(vs, day, e), e < v.from \/ v.from <= day
      PROVE  Ahead(new, day, e)
  BY <1>1, <1>5 DEF Ahead
<1> QED
  BY <1>2, <1>3, <1>4, <1>5

LEMMA PublishKeeps ==
    ASSUME NEW vers \in Timelines, NEW next \in Timelines, NEW s \in Setups,
           NEW v \in VersionRows, Published(vers[s], next[s], v),
           \A r \in Setups \ {s} : next[r] = vers[r],
           NEW rows \in SUBSET AssignmentRows, Contiguous(vers, rows),
           NEW p \in PeriodRows, Kept(vers, rows, p),
           \A a \in rows : a.setup = s /\ Covers(a, p.start) =>
              \/ p.end < v.from
              \/ \E w \in vers[s] : v.from < w.from /\ w.from <= p.start
    PROVE  Kept(next, rows, p)
<1>1. p.start \in Nat /\ p.end \in Nat /\ p.start <= p.end
  BY DEF PeriodRows, Kept
<1>2. PICK a \in rows : Governs(vers, rows, a, p)
  BY DEF Kept
<1>3. a.setup \in Setups
  BY DEF AssignmentRows
<1>4. CASE a.setup # s
  <2>1. next[a.setup] = vers[a.setup]
    BY <1>3, <1>4
  <2> QED
    BY <1>1, <1>2, <2>1 DEF Kept, Governs
<1>5. CASE a.setup = s
  <2>1. vers[s] \in SUBSET VersionRows /\ v.from \in Nat
    BY DEF Timelines, VersionRows
  <2>2. p.end < v.from \/ \E w \in vers[s] : v.from < w.from /\ w.from <= p.start
    BY <1>2, <1>5 DEF Governs
  <2>3. /\ p.start < v.from \/ \E w \in vers[s] : v.from < w.from /\ w.from <= p.start
        /\ p.end < v.from \/ v.from <= p.start
    <3>1. \A w \in vers[s] : w.from \in Nat
      BY <2>1 DEF VersionRows
    <3> QED
      BY <1>1, <2>1, <2>2, <3>1
  <2>4. PICK vs, new \in SUBSET VersionRows : vs = vers[s] /\ new = next[s]
    BY DEF Timelines
  <2>5. /\ p.start < v.from \/ (\E w \in vs : v.from < w.from /\ w.from <= p.start)
             => Governing(new, p.start) = Governing(vs, p.start)
        /\ \A e \in Nat : Ahead(vs, p.start, e) /\ (e < v.from \/ v.from <= p.start)
             => Ahead(new, p.start, e)
    <3>1. Published(vs, new, v)
      BY <2>4
    <3> QED
      BY <1>1, <3>1, PublishedVersions
  <2>6. Governing(new, p.start) = Governing(vers[s], p.start)
    BY <2>3, <2>4, <2>5
  <2>7. Ahead(new, p.start, p.end)
    BY <1>1, <1>2, <1>5, <2>3, <2>4, <2>5 DEF Governs
  <2>8. Governs(next, rows, a, p)
    BY <1>2, <1>5, <2>4, <2>6, <2>7 DEF Governs
  <2> QED
    BY <1>1, <2>8 DEF Kept
<1> QED
  BY <1>4, <1>5

LEMMA PublishContiguous ==
    ASSUME NEW vers \in Timelines, NEW next \in Timelines, NEW s \in Setups,
           NEW v \in VersionRows, Published(vers[s], next[s], v),
           \A r \in Setups \ {s} : next[r] = vers[r],
           NEW rows \in SUBSET AssignmentRows, Contiguous(vers, rows)
    PROVE  Contiguous(next, rows)
<1> SUFFICES ASSUME NEW a \in rows PROVE HasSchedule(next[a.setup], a.from)
  BY DEF Contiguous
<1>1. a.setup \in Setups /\ a.from \in Nat /\ HasSchedule(vers[a.setup], a.from)
  BY DEF AssignmentRows, Contiguous
<1>2. CASE a.setup = s
  <2>1. PICK vs, new \in SUBSET VersionRows : vs = vers[s] /\ new = next[s]
    BY DEF Timelines
  <2>2. HasSchedule(vs, a.from) => HasSchedule(new, a.from)
    BY <1>1, <2>1, PublishedVersions
  <2> QED
    BY <1>1, <1>2, <2>1, <2>2
<1>3. CASE a.setup # s
  BY <1>1, <1>3
<1> QED
  BY <1>2, <1>3

\* An assignment that fills the days up to the next one.
LEMMA AssignKeeps ==
    ASSUME NEW vers, NEW rows \in SUBSET AssignmentRows, Contiguous(vers, rows),
           NEW n \in AssignmentRows, n.from < n.to,
           HasSchedule(vers[n.setup], n.from),
           \A a \in rows : ~Covers(a, n.from),
           (\E a \in rows : a.from < n.from) => \E a \in rows : a.to = n.from,
           \A a \in rows : n.from < a.from => n.to <= a.from,
           n.to # Forever => \E a \in rows : a.from = n.to
    PROVE  /\ Contiguous(vers, rows \cup {n})
           /\ \A p \in PeriodRows :
                 Kept(vers, rows, p) /\ (p.end < n.from \/ n.to <= p.start)
                    => Kept(vers, rows \cup {n}, p)
<1>1. /\ \A a \in rows \cup {n} : a.from \in Nat /\ a.to \in Nat /\ a.from <= Horizon
      /\ Forever = Horizon + 1 /\ Horizon \in Nat
  BY ConstantFacts DEF AssignmentRows
<1>2. \A a \in rows : a.from < a.to
  BY DEF Contiguous
<1>3. \A a \in rows : a.to <= n.from \/ n.to <= a.from
  <2> SUFFICES ASSUME NEW a \in rows PROVE a.to <= n.from \/ n.to <= a.from
    OBVIOUS
  <2>1. ~Covers(a, n.from)
    OBVIOUS
  <2>2. CASE n.from < a.from
    BY <2>2
  <2>3. CASE a.from <= n.from
    BY <1>1, <2>1, <2>3 DEF Covers
  <2> QED
    BY <1>1, <2>2, <2>3
<1>4. ASSUME NEW a \in rows \cup {n}, NEW c \in rows \cup {n}, a.to <= c.from
      PROVE  \E d \in rows \cup {n} : d.from = a.to
  <2>1. CASE a \in rows /\ c \in rows
    BY <1>4, <2>1 DEF Contiguous
  <2>2. CASE a = n
    <3>1. n.to # Forever
      BY <1>1, <1>4, <2>2
    <3> QED
      BY <2>2, <3>1
  <2>3. CASE a \in rows /\ c = n
    <3>1. a.from < n.from
      BY <1>1, <1>2, <1>4, <2>3
    <3>2. PICK q \in rows : q.to = n.from
      BY <2>3, <3>1
    <3>3. CASE q = a
      BY <3>2, <3>3
    <3>4. CASE q # a
      <4>1. a.to <= q.from \/ q.to <= a.from
        BY <2>3, <3>4 DEF Contiguous
      <4>2. a.to <= q.from
        BY <1>1, <3>1, <3>2, <4>1
      <4> QED
        BY <2>3, <4>2 DEF Contiguous
    <3> QED
      BY <3>3, <3>4
  <2> QED
    BY <2>1, <2>2, <2>3
<1>5. Contiguous(vers, rows \cup {n})
  <2>1. \A a \in rows \cup {n} : a.from < a.to /\ HasSchedule(vers[a.setup], a.from)
    BY DEF Contiguous
  <2>2. \A a, c \in rows \cup {n} : a # c => a.to <= c.from \/ c.to <= a.from
    BY <1>3 DEF Contiguous
  <2> QED
    BY <1>4, <2>1, <2>2 DEF Contiguous
<1>6. ASSUME NEW p \in PeriodRows, Kept(vers, rows, p), p.end < n.from \/ n.to <= p.start
      PROVE  Kept(vers, rows \cup {n}, p)
  <2>1. p.start \in Nat /\ p.end \in Nat /\ p.start <= p.end
    BY <1>6 DEF PeriodRows, Kept
  <2>2. PICK a \in rows : Governs(vers, rows, a, p)
    BY <1>6 DEF Kept
  <2>3. n.from > p.start => p.end < n.from
    BY <1>1, <1>6, <2>1
  <2>4. Ahead(rows \cup {n}, p.start, p.end)
    BY <2>2, <2>3 DEF Governs, Ahead
  <2>5. Governs(vers, rows \cup {n}, a, p)
    BY <2>2, <2>4 DEF Governs
  <2> QED
    BY <2>1, <2>5 DEF Kept
<1> QED
  BY <1>5, <1>6

\* An assignment that takes over within another one.
LEMMA ReassignKeeps ==
    ASSUME NEW vers, NEW rows \in SUBSET AssignmentRows, Contiguous(vers, rows),
           NEW a \in rows, NEW n \in AssignmentRows,
           a.from < n.from, n.from < a.to, n.to = a.to,
           HasSchedule(vers[n.setup], n.from),
           NEW k \in AssignmentRows, k.id = a.id, k.setup = a.setup, k.from = a.from,
           k.to = n.from
    PROVE  /\ Contiguous(vers, (rows \ {a}) \cup {k, n})
           /\ \A p \in PeriodRows :
                 Kept(vers, rows, p) /\ (p.end < n.from \/ a.to <= p.start)
                    => Kept(vers, (rows \ {a}) \cup {k, n}, p)
<1> SUFFICES ASSUME NEW new, new = (rows \ {a}) \cup {k, n}
             PROVE  /\ Contiguous(vers, new)
                    /\ \A p \in PeriodRows :
                          Kept(vers, rows, p) /\ (p.end < n.from \/ a.to <= p.start)
                             => Kept(vers, new, p)
  OBVIOUS
<1>1. /\ k.id = a.id /\ k.setup = a.setup /\ k.from = a.from /\ k.to = n.from
      /\ k \in AssignmentRows
  OBVIOUS
<1>2. \A x \in rows \cup {n, k} : x.from \in Nat /\ x.to \in Nat
  BY <1>1, ConstantFacts DEF AssignmentRows
<1>3. \A x \in rows : x # a => x.to <= a.from \/ a.to <= x.from
  BY DEF Contiguous
<1>4. \A x \in new : x.from < x.to /\ HasSchedule(vers[x.setup], x.from)
  <2>1. n.from < n.to /\ HasSchedule(vers[n.setup], n.from)
    OBVIOUS
  <2>2. k.from < k.to /\ HasSchedule(vers[k.setup], k.from)
    BY <1>1 DEF Contiguous
  <2> QED
    BY <2>1, <2>2 DEF Contiguous
<1>5. ASSUME NEW x \in new, NEW y \in new, x # y
      PROVE  x.to <= y.from \/ y.to <= x.from
  <2>1. CASE x \in rows /\ y \in rows
    BY <1>5, <2>1 DEF Contiguous
  <2>2. CASE x \in {k, n} /\ y \in {k, n}
    <3>1. k.to <= n.from
      BY <1>1, <1>2
    <3>2. (x = k /\ y = n) \/ (x = n /\ y = k)
      BY <1>5, <2>2
    <3> QED
      BY <3>1, <3>2
  <2>3. ASSUME NEW u \in rows, u # a
        PROVE  /\ u.to <= k.from \/ k.to <= u.from
               /\ u.to <= n.from \/ n.to <= u.from
    BY <1>1, <1>2, <1>3, <2>3
  <2>4. CASE x \in rows /\ x # a /\ y \in {k, n}
    BY <2>3, <2>4
  <2>5. CASE y \in rows /\ y # a /\ x \in {k, n}
    BY <2>3, <2>5
  <2> QED
    BY <2>1, <2>2, <2>4, <2>5
<1>6. ASSUME NEW x \in new, NEW y \in new, x.to <= y.from
      PROVE  \E d \in new : d.from = x.to
  <2>1. \A d \in rows : \E e \in new : e.from = d.from
    BY <1>1
  <2>2. CASE x = k
    BY <1>1, <2>2
  <2>3. ASSUME NEW u \in rows, NEW v \in rows, u.to <= v.from
        PROVE  \E d \in new : d.from = u.to
    <3>1. PICK d \in rows : d.from = u.to
      BY <2>3 DEF Contiguous
    <3> QED
      BY <2>1, <3>1
  <2>4. CASE x = n
    <3>1. a.to <= y.from
      BY <1>6, <2>4
    <3>2. y \in rows
      <4>1. a.from < a.to
        BY DEF Contiguous
      <4>2. y # k
        <5>1. ~(a.to <= k.from)
          BY <1>1, <1>2, <4>1
        <5> QED
          BY <3>1, <5>1
      <4>3. y # n
        <5>1. ~(a.to <= n.from)
          BY <1>2
        <5> QED
          BY <3>1, <5>1
      <4> QED
        BY <4>2, <4>3
    <3> QED
      BY <2>3, <2>4, <3>1, <3>2
  <2>5. CASE x \in rows /\ x # a
    <3>1. CASE y \in rows
      BY <1>6, <2>3, <2>5, <3>1
    <3>2. CASE y = k
      BY <1>1, <1>6, <2>3, <2>5, <3>2
    <3>3. CASE y = n
      <4>1. x.to <= a.from \/ a.to <= x.from
        BY <1>3, <2>5
      <4>2. x.to <= a.from
        <5>1. x.from < x.to
          BY <2>5 DEF Contiguous
        <5> QED
          BY <1>2, <1>6, <2>5, <3>3, <4>1, <5>1
      <4> QED
        BY <2>3, <2>5, <4>2
    <3> QED
      BY <3>1, <3>2, <3>3
  <2> QED
    BY <2>2, <2>4, <2>5
<1>7. Contiguous(vers, new)
  BY <1>4, <1>5, <1>6 DEF Contiguous
<1>8. ASSUME NEW p \in PeriodRows, Kept(vers, rows, p), p.end < n.from \/ a.to <= p.start
      PROVE  Kept(vers, new, p)
  <2>1. p.start \in Nat /\ p.end \in Nat /\ p.start <= p.end
    BY <1>8 DEF PeriodRows, Kept
  <2>2. PICK g \in rows : Governs(vers, rows, g, p)
    BY <1>8 DEF Kept
  <2>3. p.start < n.from => p.end < n.from
    BY <1>2, <1>8, <2>1
  <2>4. Ahead(new, p.start, p.end)
    <3>1. \A x \in rows : x.from > p.start => p.end < x.from
      BY <2>2 DEF Governs, Ahead
    <3> QED
      BY <1>1, <2>3, <3>1 DEF Ahead
  <2>5. CASE g # a
    <3>1. g \in new /\ Governs(vers, new, g, p)
      BY <2>2, <2>4, <2>5 DEF Governs
    <3> QED
      BY <2>1, <3>1 DEF Kept
  <2>6. CASE g = a
    <3>1. p.start < a.to
      BY <2>2, <2>6 DEF Governs, Covers
    <3>2. p.end < n.from
      BY <1>2, <1>8, <2>1, <3>1
    <3>3. Covers(k, p.start)
      BY <1>1, <1>2, <2>1, <2>2, <2>6, <3>2 DEF Governs, Covers
    <3>4. Governs(vers, new, k, p)
      BY <1>1, <2>2, <2>4, <2>6, <3>2, <3>3 DEF Governs
    <3> QED
      BY <2>1, <3>4 DEF Kept
  <2> QED
    BY <2>5, <2>6
<1> QED
  BY <1>1, <1>7, <1>8

\* An assignment goes, and nothing ended where it began.
LEMMA WithdrawKeepsFirst ==
    ASSUME NEW vers, NEW rows \in SUBSET AssignmentRows, Contiguous(vers, rows),
           NEW t \in rows, \A a \in rows : a.to # t.from
    PROVE  /\ Contiguous(vers, rows \ {t})
           /\ \A p \in PeriodRows :
                 Kept(vers, rows, p) /\ (p.end < t.from \/ t.to <= p.start)
                    => Kept(vers, rows \ {t}, p)
<1>1. Contiguous(vers, rows \ {t})
  <2>1. ASSUME NEW x \in rows \ {t}, NEW y \in rows \ {t}, x.to <= y.from
        PROVE  \E d \in rows \ {t} : d.from = x.to
    BY <2>1 DEF Contiguous
  <2> QED
    BY <2>1 DEF Contiguous
<1>2. ASSUME NEW p \in PeriodRows, Kept(vers, rows, p), p.end < t.from \/ t.to <= p.start
      PROVE  Kept(vers, rows \ {t}, p)
  <2>1. p.start \in Nat /\ p.end \in Nat /\ p.start <= p.end
    BY <1>2 DEF PeriodRows, Kept
  <2>2. PICK g \in rows : Governs(vers, rows, g, p)
    BY <1>2 DEF Kept
  <2>3. g # t
    <3>1. t.from \in Nat /\ t.to \in Nat
      BY ConstantFacts DEF AssignmentRows
    <3>2. g.from <= p.start /\ p.start < g.to
      BY <2>2 DEF Governs, Covers
    <3> QED
      BY <1>2, <2>1, <3>1, <3>2
  <2>4. Governs(vers, rows \ {t}, g, p)
    BY <2>2 DEF Governs, Ahead
  <2> QED
    BY <2>1, <2>3, <2>4 DEF Kept
<1> QED
  BY <1>1, <1>2

\* An assignment goes, and the one before it covers its days.
LEMMA WithdrawKeepsPrior ==
    ASSUME NEW vers, NEW rows \in SUBSET AssignmentRows, Contiguous(vers, rows),
           NEW t \in rows, NEW q \in rows, q.to = t.from,
           NEW k \in AssignmentRows, k.id = q.id, k.setup = q.setup, k.from = q.from,
           k.to = t.to
    PROVE  /\ Contiguous(vers, (rows \ {t, q}) \cup {k})
           /\ \A p \in PeriodRows :
                 Kept(vers, rows, p) /\ (p.end < t.from \/ t.to <= p.start)
                    => Kept(vers, (rows \ {t, q}) \cup {k}, p)
<1> SUFFICES ASSUME NEW new, new = (rows \ {t, q}) \cup {k}
             PROVE  /\ Contiguous(vers, new)
                    /\ \A p \in PeriodRows :
                          Kept(vers, rows, p) /\ (p.end < t.from \/ t.to <= p.start)
                             => Kept(vers, new, p)
  OBVIOUS
<1>1. /\ k.id = q.id /\ k.setup = q.setup /\ k.from = q.from /\ k.to = t.to
      /\ k \in AssignmentRows
  OBVIOUS
<1>2. \A x \in rows \cup {k} : x.from \in Nat /\ x.to \in Nat
  BY <1>1, ConstantFacts DEF AssignmentRows
<1>3. /\ \A x \in rows : x.from < x.to
      /\ \A x, y \in rows : x # y => x.to <= y.from \/ y.to <= x.from
  BY DEF Contiguous
<1>4. \A x \in rows \ {t, q} : x.to <= q.from \/ t.to <= x.from
  <2> SUFFICES ASSUME NEW x \in rows \ {t, q} PROVE x.to <= q.from \/ t.to <= x.from
    OBVIOUS
  <2>1. /\ x.to <= q.from \/ q.to <= x.from
        /\ x.to <= t.from \/ t.to <= x.from
    BY <1>3
  <2>2. x.from < x.to
    BY <1>3
  <2> QED
    BY <1>2, <2>1, <2>2
<1>5. q.from < t.from /\ t.from < t.to
  BY <1>3
<1>6. \A x \in new : x.from < x.to /\ HasSchedule(vers[x.setup], x.from)
  <2>1. k.from < k.to /\ HasSchedule(vers[k.setup], k.from)
    BY <1>1, <1>2, <1>5 DEF Contiguous
  <2> QED
    BY <2>1 DEF Contiguous
<1>7. ASSUME NEW x \in new, NEW y \in new, x # y
      PROVE  x.to <= y.from \/ y.to <= x.from
  BY <1>1, <1>3, <1>4, <1>7
<1>8. ASSUME NEW x \in new, NEW y \in new, x.to <= y.from
      PROVE  \E d \in new : d.from = x.to
  <2>1. PICK u \in rows : u.to = x.to /\ u # q /\ (x # k => x = u)
    <3>1. CASE x = k
      <4>1. t.to # q.to
        BY <1>2, <1>5
      <4> QED
        BY <1>1, <3>1, <4>1
    <3>2. CASE x # k
      BY <3>2
    <3> QED
      BY <3>1, <3>2
  <2>2. \E v \in rows : u.to <= v.from
    <3>1. CASE y = k
      BY <1>1, <1>8, <2>1, <3>1
    <3>2. CASE y # k
      BY <1>8, <2>1, <3>2
    <3> QED
      BY <3>1, <3>2
  <2>3. PICK d \in rows : d.from = u.to
    BY <2>2 DEF Contiguous
  <2>4. d # t
    <3> SUFFICES ASSUME d = t PROVE FALSE
      OBVIOUS
    <3>1. u.to = t.from
      BY <2>3
    <3>2. u # q /\ u # t
      <4>1. t.to # t.from
        BY <1>2, <1>5
      <4> QED
        BY <2>1, <3>1, <4>1
    <3> QED
      BY <1>2, <1>3, <1>5, <3>1, <3>2
  <2>5. CASE d = q
    BY <1>1, <2>1, <2>3, <2>5
  <2>6. CASE d # q
    BY <2>1, <2>3, <2>4, <2>6
  <2> QED
    BY <2>5, <2>6
<1>9. Contiguous(vers, new)
  BY <1>6, <1>7, <1>8 DEF Contiguous
<1>10. ASSUME NEW p \in PeriodRows, Kept(vers, rows, p), p.end < t.from \/ t.to <= p.start
       PROVE  Kept(vers, new, p)
  <2>1. p.start \in Nat /\ p.end \in Nat /\ p.start <= p.end
    BY <1>10 DEF PeriodRows, Kept
  <2>2. PICK g \in rows : Governs(vers, rows, g, p)
    BY <1>10 DEF Kept
  <2>3. Ahead(new, p.start, p.end)
    BY <1>1, <2>2 DEF Governs, Ahead
  <2>4. g # t
    <3>1. g.from <= p.start /\ p.start < g.to
      BY <2>2 DEF Governs, Covers
    <3> QED
      BY <1>2, <1>10, <2>1, <3>1
  <2>5. CASE g = q
    <3>1. Covers(k, p.start) /\ p.end < k.to
      BY <1>1, <1>2, <1>5, <2>1, <2>2, <2>5 DEF Governs, Covers
    <3>2. Governs(vers, new, k, p)
      BY <1>1, <2>2, <2>3, <2>5, <3>1 DEF Governs
    <3> QED
      BY <2>1, <3>2 DEF Kept
  <2>6. CASE g # q
    <3>1. g \in new /\ Governs(vers, new, g, p)
      BY <2>2, <2>3, <2>4, <2>6 DEF Governs
    <3> QED
      BY <2>1, <3>1 DEF Kept
  <2> QED
    BY <2>5, <2>6
<1> QED
  BY <1>1, <1>9, <1>10

-----------------------------------------------------------------------------
(* What the writes do to what fits                                         *)

LEMMA UndividedBefore ==
    ASSUME NEW vs, NEW new, NEW v, Published(vs, new, v), NEW from, NEW to,
           Undivided(new, from, to)
    PROVE  Undivided(vs, from, to)
<1> SUFFICES ASSUME NEW w \in vs, w.from > from PROVE to <= w.from
  BY DEF Undivided
<1>1. CASE w.from = v.from
  BY <1>1 DEF Undivided, Published
<1>2. CASE w.from # v.from
  BY <1>2 DEF Undivided, Published
<1> QED
  BY <1>1, <1>2

LEMMA PublishVersionsFit ==
    ASSUME NEW vs \in SUBSET VersionRows, VersionsFit(vs), NEW v \in VersionRows,
           Fits(vs, v.from, v.sched), NEW new, Published(vs, new, v)
    PROVE  VersionsFit(new)
<1>1. /\ \A w \in new : w.from \in Nat /\ (w = v \/ (w \in vs /\ w.from # v.from))
      /\ \A w \in vs : w.from \in Nat /\ (w.from = v.from \/ w \in new)
      /\ v \in new
  BY DEF Published, VersionRows
<1>2. \A x, y \in new : x.from = y.from => x = y
  BY <1>1 DEF VersionsFit
<1>3. OnGrid(v.sched, v.from)
  BY DEF Fits
<1>4. \A x \in new : OnGrid(x.sched, x.from)
  BY <1>1, <1>3 DEF VersionsFit
<1>5. ASSUME NEW x \in new, NEW y \in new, x.from < y.from, Undivided(new, x.from, y.from)
      PROVE  OnGrid(x.sched, y.from)
  <2>1. Undivided(vs, x.from, y.from)
    BY <1>5, UndividedBefore
  <2>2. CASE y = v
    <3>1. x \in vs /\ x.from < v.from
      BY <1>1, <1>5, <2>2
    <3>2. \A w \in vs : w.from < v.from => w.from <= x.from
      BY <1>1, <1>5, <2>1, <2>2 DEF Undivided
    <3> QED
      BY <2>2, <3>1, <3>2 DEF Fits
  <2>3. CASE x = v
    <3>1. y \in vs /\ y.from > v.from
      BY <1>1, <1>5, <2>3
    <3>2. \A w \in vs : w.from > v.from => w.from >= y.from
      BY <1>1, <1>5, <2>1, <2>3 DEF Undivided
    <3> QED
      BY <2>3, <3>1, <3>2 DEF Fits
  <2>4. CASE x # v /\ y # v
    BY <1>1, <1>5, <2>1, <2>4 DEF VersionsFit
  <2> QED
    BY <2>2, <2>3, <2>4
<1> QED
  BY <1>2, <1>4, <1>5 DEF VersionsFit

\* A publication has looked at the assignments it takes over from their start;
\* the others keep the version they start with.
LEMMA PublishRowsFit ==
    ASSUME NEW vers \in Timelines, NEW next \in Timelines, NEW s \in Setups,
           NEW v \in VersionRows, Published(vers[s], next[s], v),
           \A r \in Setups \ {s} : next[r] = vers[r],
           NEW rows \in SUBSET AssignmentRows, RowsFit(vers, rows),
           \A a \in rows : a.setup = s /\ v.from <= a.from /\ Ahead(vers[s], v.from, a.from)
              => RowFits(vers[s], v.sched, a.from, a.to)
    PROVE  RowsFit(next, rows)
<1> SUFFICES ASSUME NEW a \in rows, NEW g \in Governing(next[a.setup], a.from)
             PROVE  RowFits(next[a.setup], g.sched, a.from, a.to)
  BY DEF RowsFit
<1>1. a.setup \in Setups /\ a.from \in Nat
  BY DEF AssignmentRows
<1>2. CASE a.setup # s
  <2>1. next[a.setup] = vers[a.setup]
    BY <1>1, <1>2
  <2> QED
    BY <2>1 DEF RowsFit
<1>3. CASE a.setup = s
  <2>1. PICK vs, new \in SUBSET VersionRows : vs = vers[s] /\ new = next[s]
    BY DEF Timelines
  <2>2. Published(vs, new, v) /\ v.from \in Nat /\ \A w \in vs \cup new : w.from \in Nat
    BY <2>1 DEF VersionRows
  <2>3. RowFits(vs, g.sched, a.from, a.to) => RowFits(new, g.sched, a.from, a.to)
    BY <2>2, UndividedBefore DEF RowFits, EndFits
  <2>4. CASE a.from < v.from \/ \E w \in vs : v.from < w.from /\ w.from <= a.from
    <3>1. Governing(new, a.from) = Governing(vs, a.from)
      BY <1>1, <2>2, <2>4, PublishedVersions
    <3> QED
      BY <1>3, <2>1, <2>3, <3>1 DEF RowsFit
  <2>5. CASE ~(a.from < v.from \/ \E w \in vs : v.from < w.from /\ w.from <= a.from)
    <3>1. v.from <= a.from /\ Ahead(vs, v.from, a.from)
      BY <1>1, <2>2, <2>5 DEF Ahead
    <3>2. g = v
      <4>1. g \in new /\ g.from <= a.from /\ v \in new
        BY <1>3, <2>1, <2>2 DEF Governing, Published
      <4>2. v.from <= g.from
        BY <1>3, <2>1, <3>1, <4>1 DEF Governing
      <4>3. ASSUME g # v PROVE FALSE
        <5>1. g \in vs /\ g.from # v.from
          BY <2>2, <4>1, <4>3 DEF Published
        <5> QED
          BY <2>2, <2>5, <4>1, <4>2, <5>1
      <4> QED
        BY <4>3
    <3>3. RowFits(vs, v.sched, a.from, a.to)
      BY <1>3, <2>1, <3>1
    <3> QED
      BY <1>3, <2>1, <2>3, <3>2, <3>3
  <2> QED
    BY <2>4, <2>5
<1> QED
  BY <1>2, <1>3

LEMMA AssignRowsFit ==
    ASSUME NEW vers, NEW rows, RowsFit(vers, rows), NEW n,
           n.to # Forever => \E d \in rows : d.from = n.to,
           \A v \in Governing(vers[n.setup], n.from) :
              RowFits(vers[n.setup], v.sched, n.from, n.to)
    PROVE  RowsFit(vers, rows \cup {n})
  BY DEF RowsFit

LEMMA ReassignRowsFit ==
    ASSUME NEW vers, NEW rows \in SUBSET AssignmentRows, RowsFit(vers, rows),
           NEW a \in rows, a.from < a.to,
           NEW k, k.setup = a.setup, k.from = a.from,
           NEW n \in AssignmentRows, k.to = n.from, n.to = a.to,
           \A v \in Governing(vers[a.setup], a.from) :
              EndFits(vers[a.setup], v.sched, a.from, n.from),
           \A v \in Governing(vers[n.setup], n.from) :
              RowFits(vers[n.setup], v.sched, n.from, n.to)
    PROVE  RowsFit(vers, (rows \ {a}) \cup {k, n})
<1> DEFINE new == (rows \ {a}) \cup {k, n}
<1>1. \A d \in rows : \E e \in new : e.from = d.from
  OBVIOUS
<1>2. ASSUME NEW x \in new, x.to # Forever PROVE \E d \in new : d.from = x.to
  <2>1. CASE x = k
    BY <2>1
  <2>2. CASE x # k
    <3>1. \E y \in rows : y.to = x.to
      BY <2>2
    <3>2. PICK d \in rows : d.from = x.to
      BY <1>2, <3>1 DEF RowsFit
    <3> QED
      BY <1>1, <3>2
  <2> QED
    BY <2>1, <2>2
<1>3. ASSUME NEW x \in new, NEW v \in Governing(vers[x.setup], x.from)
      PROVE  RowFits(vers[x.setup], v.sched, x.from, x.to)
  <2>1. CASE x = k
    BY <2>1, <1>3 DEF RowsFit, RowFits
  <2>2. CASE x = n
    BY <2>2, <1>3
  <2>3. CASE x \in rows
    BY <2>3, <1>3 DEF RowsFit
  <2> QED
    BY <2>1, <2>2, <2>3
<1> QED
  BY <1>2, <1>3 DEF RowsFit

LEMMA WithdrawRowsFitFirst ==
    ASSUME NEW vers, NEW rows, RowsFit(vers, rows), NEW x \in rows,
           \A a \in rows : a.to # x.from
    PROVE  RowsFit(vers, rows \ {x})
<1>1. ASSUME NEW a \in rows \ {x}, a.to # Forever PROVE \E d \in rows \ {x} : d.from = a.to
  <2>1. PICK d \in rows : d.from = a.to
    BY <1>1 DEF RowsFit
  <2> QED
    BY <2>1
<1> QED
  BY <1>1 DEF RowsFit

LEMMA WithdrawRowsFitPrior ==
    ASSUME NEW vers, NEW rows \in SUBSET AssignmentRows, RowsFit(vers, rows),
           Contiguous(vers, rows),
           NEW x \in rows, NEW q \in rows, q.to = x.from,
           NEW k, k.setup = q.setup, k.from = q.from, k.to = x.to,
           \A v \in Governing(vers[q.setup], q.from) :
              EndFits(vers[q.setup], v.sched, q.from, x.to)
    PROVE  RowsFit(vers, (rows \ {x, q}) \cup {k})
<1> DEFINE new == (rows \ {x, q}) \cup {k}
<1>1. \A a \in rows : a.from \in Nat /\ a.to \in Nat /\ a.from < a.to
  BY ConstantFacts DEF AssignmentRows, Contiguous
<1>2. \A d \in rows : d # x => \E e \in new : e.from = d.from
  OBVIOUS
<1>3. ASSUME NEW y \in new, y.to # Forever PROVE \E d \in new : d.from = y.to
  <2>1. PICK z \in rows : z.to = y.to /\ z # q
    BY <1>1
  <2>2. PICK d \in rows : d.from = z.to
    BY <1>3, <2>1 DEF RowsFit
  <2>3. d # x
    <3>1. z.to <= q.from \/ q.to <= z.from
      BY <2>1 DEF Contiguous
    <3> QED
      BY <1>1, <2>2, <3>1
  <2> QED
    BY <1>2, <2>1, <2>2, <2>3
<1>4. ASSUME NEW y \in new, NEW v \in Governing(vers[y.setup], y.from)
      PROVE  RowFits(vers[y.setup], v.sched, y.from, y.to)
  <2>1. CASE y = k
    BY <2>1, <1>4 DEF RowsFit, RowFits
  <2>2. CASE y \in rows
    BY <2>2, <1>4 DEF RowsFit
  <2> QED
    BY <2>1, <2>2
<1> QED
  BY <1>3, <1>4 DEF RowsFit

-----------------------------------------------------------------------------
(* What the invariant implies                                              *)

LEMMA NextVersionBounds ==
    ASSUME TypeOK, NEW s \in Setups, NEW day \in Nat
    PROVE  /\ NextVersionDate(s, day) \in 1 .. Forever
           /\ \A e \in Nat : e < NextVersionDate(s, day)
                 <=> e < Forever /\ Ahead(versions[s], day, e)
           /\ NextVersionDate(s, day) # Forever =>
                 \E v \in versions[s] : v.from = NextVersionDate(s, day) /\ day < v.from
<1>1. PICK vs : vs = versions[s]
  OBVIOUS
<1>2. \A v \in vs : v.from \in 1 .. Horizon
  BY <1>1 DEF TypeOK, Timelines, VersionRows
<1>3. PICK n : n = NextOf(vs, day)
  OBVIOUS
<1>4. n = NextVersionDate(s, day)
  BY <1>1, <1>3 DEF NextVersionDate, NextOf
<1>5. /\ n \in 1 .. Forever
      /\ \A e \in Nat : e < n <=> e < Forever /\ Ahead(vs, day, e)
      /\ n # Forever => \E v \in vs : v.from = n /\ day < v.from
  BY <1>2, <1>3, NextFrom
<1> QED
  BY <1>1, <1>4, <1>5

LEMMA AssignUntilBounds ==
    ASSUME TypeOK, NEW b \in Branches, NEW day \in Nat
    PROVE  /\ AssignUntil(b, day) \in 1 .. Forever
           /\ \A e \in Nat : e < AssignUntil(b, day)
                 <=> e < Forever /\ Ahead(assigned[b], day, e)
           /\ AssignUntil(b, day) # Forever =>
                 \E a \in assigned[b] : a.from = AssignUntil(b, day) /\ day < a.from
<1>1. PICK rows : rows = assigned[b]
  OBVIOUS
<1>2. \A a \in rows : a.from \in 1 .. Horizon
  BY <1>1 DEF TypeOK, AssignmentRows
<1>3. PICK n : n = NextOf(rows, day)
  OBVIOUS
<1>4. n = AssignUntil(b, day)
  BY <1>1, <1>3 DEF AssignUntil, NextOf
<1>5. /\ n \in 1 .. Forever
      /\ \A e \in Nat : e < n <=> e < Forever /\ Ahead(rows, day, e)
      /\ n # Forever => \E a \in rows : a.from = n /\ day < a.from
  BY <1>2, <1>3, NextFrom
<1> QED
  BY <1>1, <1>4, <1>5

\* Before the next takeover means before the end of the assignment, the next
\* version of its setup, and the next assignment.
LEMMA AuthorityBefore ==
    ASSUME TypeOK, NEW b \in Branches, NEW a \in assigned[b], NEW day \in Nat, NEW e \in Nat
    PROVE  e < AuthorityUntil(b, a, day) <=>
              /\ e < a.to
              /\ Ahead(versions[a.setup], day, e)
              /\ Ahead(assigned[b], day, e)
<1>1. a.setup \in Setups /\ a.to \in 1 .. Forever
  BY DEF TypeOK, AssignmentRows
<1>3. PICK n : n = NextVersionDate(a.setup, day)
  OBVIOUS
<1>4. n \in 1 .. Forever /\ (e < n <=> e < Forever /\ Ahead(versions[a.setup], day, e))
  BY <1>1, <1>3, NextVersionBounds
<1>5. PICK u : u = AssignUntil(b, day)
  OBVIOUS
<1>6. u \in 1 .. Forever /\ (e < u <=> e < Forever /\ Ahead(assigned[b], day, e))
  BY <1>5, AssignUntilBounds
<1>7. PICK w \in 1 .. Forever : w = a.to
  BY <1>1
<1>8. {w, n, u} \in SUBSET Nat /\ {w, n, u} # {}
  BY <1>4, <1>6
<1>9. Min({w, n, u}) \in {w, n, u} /\ \A x \in {w, n, u} : Min({w, n, u}) <= x
  BY <1>8, MinIsLeast
<1>10. PICK m \in {w, n, u} : m = Min({w, n, u}) /\ m <= w /\ m <= n /\ m <= u
  BY <1>9
<1>11. m = AuthorityUntil(b, a, day)
  BY <1>3, <1>5, <1>7, <1>10 DEF AuthorityUntil
<1>12. e < m <=> e < w /\ e < n /\ e < u
  BY <1>4, <1>6, <1>10
<1>13. e < w => e < Forever
  BY ConstantFacts
<1> QED
  BY <1>4, <1>6, <1>7, <1>11, <1>12, <1>13

\* One assignment covers a day of a contiguous timeline.
LEMMA OneCovers ==
    ASSUME TypeOK, NEW b \in Branches, Contiguous(versions, assigned[b]),
           NEW a \in assigned[b], NEW c \in assigned[b], NEW day \in Nat,
           Covers(a, day), Covers(c, day)
    PROVE  a = c
<1>1. a.from \in Nat /\ a.to \in Nat /\ c.from \in Nat /\ c.to \in Nat
  BY ConstantFacts DEF TypeOK, AssignmentRows
<1> QED
  BY <1>1 DEF Contiguous, Covers

LEMMA HistoryFromInv ==
    ASSUME TypeOK, TimelineInv
    PROVE  HistoryKeepsAuthority
<1> SUFFICES ASSUME NEW b \in Branches, NEW p \in periods[b]
             PROVE  \E a \in AssignmentsAt(b, p.start) :
                       /\ AssignmentsAt(b, p.start) = {a} /\ a.id = p.assignment
                       /\ \E v \in TerminalVersion(a.setup, p.start) :
                             v.no = p.version /\ p.end = PeriodEnd(v.sched, p.start)
                       /\ p.end < AuthorityUntil(b, a, p.start)
  BY DEF HistoryKeepsAuthority
<1>1. p.start \in Nat /\ p.end \in Nat
  BY DEF TypeOK, PeriodRows
<1>2. PICK a \in assigned[b] : Governs(versions, assigned[b], a, p)
  BY DEF TimelineInv, Kept
<1>3. Contiguous(versions, assigned[b])
  BY DEF TimelineInv
<1>4. AssignmentsAt(b, p.start) = {a}
  <2>1. \A x : x \in AssignmentsAt(b, p.start) <=> x \in assigned[b] /\ Covers(x, p.start)
    BY DEF AssignmentsAt, Covers
  <2>2. Covers(a, p.start)
    BY <1>2 DEF Governs
  <2> QED
    BY <1>1, <1>3, <2>1, <2>2, OneCovers
<1>5. p.end < AuthorityUntil(b, a, p.start)
  BY <1>1, <1>2, AuthorityBefore DEF Governs
<1>6. \E v \in TerminalVersion(a.setup, p.start) :
         v.no = p.version /\ p.end = PeriodEnd(v.sched, p.start)
  BY <1>2 DEF Governs, TerminalVersion
<1>7. a.id = p.assignment
  BY <1>2 DEF Governs
<1> QED
  BY <1>4, <1>5, <1>6, <1>7

LEMMA CoveredFromInv ==
    ASSUME TypeOK, TimelineInv
    PROVE  TimelineCovered
<1> SUFFICES ASSUME NEW b \in Branches, NEW a \in assigned[b], NEW c \in assigned[b]
             PROVE  /\ a # c => a.to <= c.from \/ c.to <= a.from
                    /\ a.to <= c.from => \E d \in assigned[b] : d.from = a.to
                    /\ ScheduleAt(a.setup, a.from) # None
  BY DEF TimelineCovered
<1>1. Contiguous(versions, assigned[b])
  BY DEF TimelineInv
<1>2. a.setup \in Setups /\ a.from \in Nat
  BY DEF TypeOK, AssignmentRows
<1>3. ScheduleAt(a.setup, a.from) # None
  BY <1>1, <1>2, ScheduleAtExists DEF Contiguous
<1> QED
  BY <1>1, <1>3 DEF Contiguous

\* The request that waits for the last lock waits for one that does not.
LEMMA ProceedsFromInv ==
    ASSUME TypeOK, LockInv
    PROVE  SomebodyProceeds
<1> DEFINE waiting(t) ==
              /\ Locking(t)
              /\ IF SetupsLeft(t) # {} THEN setupLock[NextSetup(t)] # None
                 ELSE branchLock[Min(BranchesLeft(t))] # None
           OnSetup(t) == req[t] # Idle /\ waiting(t) /\ SetupsLeft(t) # {}
           OnBranch(t) == req[t] # Idle /\ waiting(t) /\ SetupsLeft(t) = {}
<1> SUFFICES ASSUME NEW w \in Txns, waiting(w), \A t \in Txns : req[t] # Idle => waiting(t)
             PROVE  FALSE
  BY DEF SomebodyProceeds
<1>1. \A t \in Txns : waiting(t) => req[t] # Idle
  BY DEF Locking, Idle
<1>2. ASSUME NEW t \in Txns, req[t] # Idle
      PROVE  SetupsLeft(t) \in SUBSET Setups /\ BranchesLeft(t) \in SUBSET Branches
  <2>1. req[t].op \in Operations
    BY <1>2 DEF TypeOK, Requested
  <2>2. SetupsOf(req[t].op) \in SUBSET Setups
    BY <2>1 DEF Operations, SetupsOf
  <2>3. BranchesOf(req[t].op) \in SUBSET Branches
    BY <2>1 DEF Operations, BranchesOf
  <2> QED
    BY <2>2, <2>3 DEF SetupsLeft, BranchesLeft
<1>3. ASSUME NEW t \in Txns, OnSetup(t)
      PROVE  /\ NextSetup(t) \in Setups /\ NextSetup(t) \in SetupsLeft(t)
             /\ setupLock[NextSetup(t)] \in Txns
  <2>1. SetupsLeft(t) \in SUBSET Nat /\ SetupsLeft(t) \in SUBSET Setups /\ SetupsLeft(t) # {}
    BY <1>2, <1>3, ConstantFacts
  <2>2. NextSetup(t) \in SetupsLeft(t)
    BY <2>1, MinIsLeast DEF NextSetup
  <2>3. setupLock[NextSetup(t)] # None
    BY <1>3
  <2> QED
    BY <2>1, <2>2, <2>3 DEF TypeOK
<1>4. ASSUME NEW t \in Txns, OnBranch(t)
      PROVE  /\ Min(BranchesLeft(t)) \in Branches /\ Min(BranchesLeft(t)) \in BranchesLeft(t)
             /\ branchLock[Min(BranchesLeft(t))] \in Txns
  <2>1. BranchesLeft(t) # {}
    BY <1>4 DEF Locking
  <2>2. BranchesLeft(t) \in SUBSET Nat /\ BranchesLeft(t) \in SUBSET Branches
    BY <1>2, <1>4, ConstantFacts
  <2>3. Min(BranchesLeft(t)) \in BranchesLeft(t)
    BY <2>1, <2>2, MinIsLeast
  <2>4. branchLock[Min(BranchesLeft(t))] # None
    BY <1>4
  <2> QED
    BY <2>2, <2>3, <2>4 DEF TypeOK
<1> HIDE DEF waiting
\* The locks that are waited for are finitely many.
<1>5. PICK n \in Nat : \A x \in Setups \cup Branches : x <= n
  BY SetupAssumption, FiniteIsBounded
<1>6. ASSUME NEW t \in Txns, OnBranch(t) PROVE FALSE
  <2> DEFINE B == {Min(BranchesLeft(u)) : u \in {x \in Txns : OnBranch(x)}}
  <2>1. B \in SUBSET Branches /\ B # {}
    BY <1>4, <1>6
  <2>2. Max(B) \in B /\ \A x \in B : x <= Max(B)
    <3>1. B \in SUBSET Nat /\ \A x \in B : x <= n
      BY <1>5, <2>1, ConstantFacts
    <3> HIDE DEF B
    <3> QED
      BY <2>1, <3>1, MaxIsGreatest
  <2>3. PICK m \in Branches : m = Max(B)
    BY <2>1, <2>2
  <2>4. PICK u \in Txns : OnBranch(u) /\ m = Min(BranchesLeft(u))
    BY <2>2, <2>3
  <2>5. PICK h \in Txns : h = branchLock[m]
    BY <1>4, <2>4
  <2>6. req[h] # Idle /\ SetupsLeft(h) = {}
    BY <2>5, ConstantFacts DEF LockInv, Pending
  <2>7. OnBranch(h)
    BY <2>6
  <2>8. Min(BranchesLeft(h)) \in BranchesLeft(h) /\ Min(BranchesLeft(h)) \in B
    BY <1>4, <2>7
  <2>9. m \in Held(branchLock, h)
    BY <2>3, <2>5 DEF Held, TypeOK
  <2>10. m < Min(BranchesLeft(h))
    BY <2>6, <2>8, <2>9 DEF LockInv, Pending
  <2>11. Min(BranchesLeft(h)) <= m
    BY <2>2, <2>3, <2>8
  <2>12. m \in Nat /\ Min(BranchesLeft(h)) \in Nat
    BY <2>1, <2>8, ConstantFacts
  <2> QED
    BY <2>10, <2>11, <2>12
<1>7. ASSUME NEW t \in Txns, OnSetup(t) PROVE FALSE
  <2> DEFINE S == {NextSetup(u) : u \in {x \in Txns : OnSetup(x)}}
  <2>1. S \in SUBSET Setups /\ S # {}
    BY <1>3, <1>7
  <2>2. Max(S) \in S /\ \A x \in S : x <= Max(S)
    <3>1. S \in SUBSET Nat /\ \A x \in S : x <= n
      BY <1>5, <2>1, ConstantFacts
    <3> HIDE DEF S
    <3> QED
      BY <2>1, <3>1, MaxIsGreatest
  <2>3. PICK m \in Setups : m = Max(S)
    BY <2>1, <2>2
  <2>4. PICK u \in Txns : OnSetup(u) /\ m = NextSetup(u)
    BY <2>2, <2>3
  <2>5. PICK h \in Txns : h = setupLock[m]
    BY <1>3, <2>4
  <2>6. req[h] # Idle
    BY <2>5, ConstantFacts DEF LockInv, Pending
  <2>7. OnSetup(h)
    BY <1>6, <2>6
  <2>8. NextSetup(h) \in SetupsLeft(h) /\ NextSetup(h) \in S
    BY <1>3, <2>7
  <2>9. m \in Held(setupLock, h)
    BY <2>3, <2>5 DEF Held, TypeOK
  <2>10. m < NextSetup(h)
    BY <2>6, <2>8, <2>9 DEF LockInv, Pending
  <2>11. NextSetup(h) <= m
    BY <2>2, <2>3, <2>8
  <2>12. m \in Nat /\ NextSetup(h) \in Nat
    BY <2>1, <2>8, ConstantFacts
  <2> QED
    BY <2>10, <2>11, <2>12
<1> QED
  BY <1>1, <1>6, <1>7

-----------------------------------------------------------------------------
(* The invariant holds initially                                           *)

LEMMA InitInv == Init => IInv
<1> SUFFICES ASSUME Init PROVE IInv
  OBVIOUS
<1>1. PICK start \in Starts : versions = start.versions /\ assigned = start.assigned
  BY DEF Init
<1>2. /\ versions \in [Setups -> SUBSET VersionRows]
      /\ assigned \in [Branches -> SUBSET AssignmentRows]
      /\ \A s \in Setups : IsFiniteSet(versions[s])
      /\ \A b \in Branches : \A a \in assigned[b] :
            /\ assigned[b] = {a} /\ a.id = 0 /\ a.to = Forever
            /\ IsTimelineStart(versions[a.setup], a.from)
  BY <1>1, StartsAssumption
<1>3. /\ archived = {}
      /\ \A b \in Branches : periods[b] = {} /\ branchLock[b] = None
      /\ \A s \in Setups : setupLock[s] = None
      /\ \A t \in Txns : req[t] = Idle
      /\ requests = 0
  BY DEF Init
<1>4. TypeOK
  <2>1. periods \in [Branches -> SUBSET PeriodRows] /\ branchLock \in [Branches -> Txns \cup {None}]
    BY DEF Init
  <2>2. setupLock \in [Setups -> Txns \cup {None}] /\ req \in [Txns -> Requested]
    BY DEF Init, Requested
  <2> QED
    BY <1>2, <1>3, <2>1, <2>2 DEF TypeOK, Timelines
<1>5. IdsInv
  BY <1>2, <1>3 DEF IdsInv, Pending
<1>6. LockInv
  BY <1>3, ConstantFacts DEF LockInv, Pending
<1>7. WriteInv
  BY <1>3 DEF WriteInv, Idle
<1>8. TimelineInv
  <2> SUFFICES ASSUME NEW b \in Branches PROVE Contiguous(versions, assigned[b])
    BY <1>3 DEF TimelineInv
  <2>1. ASSUME NEW a \in assigned[b]
        PROVE  /\ a.from < a.to /\ HasSchedule(versions[a.setup], a.from)
               /\ a.from \in Nat /\ a.to \in Nat /\ assigned[b] = {a}
    <3>1. a.from \in 1 .. Horizon /\ a.setup \in Setups /\ a.to = Forever /\ assigned[b] = {a}
      BY <1>2 DEF AssignmentRows
    <3>2. a.from < a.to /\ a.from \in Nat /\ a.to \in Nat
      BY <3>1, ConstantFacts
    <3>3. Governing(versions[a.setup], a.from) # {}
      BY <1>2 DEF IsTimelineStart
    <3>4. HasSchedule(versions[a.setup], a.from)
      BY <3>3 DEF HasSchedule, Governing
    <3> QED
      BY <3>1, <3>2, <3>4
  <2>2. \A a, c \in assigned[b] : a = c /\ ~(a.to <= c.from)
    BY <2>1
  <2> QED
    BY <2>1, <2>2 DEF Contiguous
<1> QED
  BY <1>4, <1>5, <1>6, <1>7, <1>8 DEF IInv

LEMMA AllFitIsFit ==
    ASSUME NEW vs \in SUBSET VersionRows, AllFit(vs), \A v, w \in vs : v.from = w.from => v = w
    PROVE  VersionsFit(vs)
<1>1. \A v \in vs : v.from \in Nat
  BY DEF VersionRows
<1>2. \A v \in vs : OnGrid(v.sched, v.from)
  BY DEF AllFit, Fits
<1>3. ASSUME NEW v \in vs, NEW w \in vs, v.from < w.from, Undivided(vs, v.from, w.from)
      PROVE  OnGrid(v.sched, w.from)
  <2>1. PICK others : others = vs \ {w}
    OBVIOUS
  <2>2. Fits(others, w.from, w.sched)
    BY <2>1 DEF AllFit
  <2>3. v \in others /\ v.from < w.from
    BY <1>1, <1>3, <2>1
  <2>4. \A x \in others : x.from < w.from => x.from <= v.from
    BY <1>1, <1>3, <2>1 DEF Undivided
  <2> QED
    BY <2>2, <2>3, <2>4 DEF Fits
<1> QED
  BY <1>2, <1>3 DEF VersionsFit

LEMMA InitFit == Init => FitInv
<1> SUFFICES ASSUME Init PROVE FitInv
  OBVIOUS
<1>1. PICK start \in Starts : versions = start.versions /\ assigned = start.assigned
  BY DEF Init
<1>2. /\ versions \in [Setups -> SUBSET VersionRows]
      /\ assigned \in [Branches -> SUBSET AssignmentRows]
      /\ \A s \in Setups : /\ AllFit(versions[s])
                           /\ \A v, w \in versions[s] : v.from = w.from => v = w
      /\ \A b \in Branches : \A a \in assigned[b] :
            a.to = Forever /\ IsTimelineStart(versions[a.setup], a.from)
  BY <1>1, StartsAssumption
<1>3. \A s \in Setups : VersionsFit(versions[s])
  BY <1>2, AllFitIsFit
<1>4. ASSUME NEW b \in Branches PROVE RowsFit(versions, assigned[b])
  <2> SUFFICES ASSUME NEW a \in assigned[b], NEW v \in Governing(versions[a.setup], a.from)
               PROVE  RowFits(versions[a.setup], v.sched, a.from, a.to)
    BY <1>2 DEF RowsFit
  <2>1. a.setup \in Setups /\ a.to = Forever
    BY <1>2 DEF AssignmentRows
  <2>2. PICK vs \in SUBSET VersionRows : vs = versions[a.setup] /\ VersionsFit(vs)
    BY <1>2, <1>3, <2>1
  <2>3. PICK g \in Governing(vs, a.from) : OnGrid(g.sched, a.from)
    BY <1>2, <2>2 DEF IsTimelineStart
  <2>4. v = g
    BY <2>2, OneGoverns
  <2> QED
    BY <2>1, <2>3, <2>4 DEF RowFits, EndFits
<1>5. \A t \in Txns : req[t].pc # "writing"
  BY DEF Init, Idle
<1> QED
  BY <1>3, <1>4, <1>5 DEF FitInv

-----------------------------------------------------------------------------
(* Requests and their locks                                                *)

LEMMA RequestFacts ==
    ASSUME TypeOK, NEW t \in Txns, Pending(t), NEW o, o = req[t].op
    PROVE  /\ o \in Operations /\ req[t].no \in Nat
           /\ req[t].pc \in {"locking", "writing"}
           /\ o.setup \in Setups /\ o.setup \in SetupsOf(o)
           /\ o.hint \in SetupsOf(o) \cup {None}
           /\ SetupsOf(o) \in SUBSET Setups /\ BranchesOf(o) \in SUBSET Branches
           /\ o.kind \in {"publish", "archive", "assign", "reassign", "withdraw"}
           /\ o.kind \in {"publish", "assign", "reassign"} => o.from \in 1 .. Horizon
           /\ o.kind \in {"assign", "reassign", "withdraw"} =>
                 o.branch \in Branches /\ BranchesOf(o) = {o.branch}
           /\ o.kind = "withdraw" => o.id \in Nat
<1>1. o \in Operations /\ req[t].no \in Nat /\ req[t].pc \in {"locking", "writing"}
  BY DEF TypeOK, Requested, Pending
<1>2. o.setup \in Setups /\ o.hint \in Setups \cup {None}
  BY <1>1 DEF Operations
<1>3. /\ SetupsOf(o) \in SUBSET Setups /\ o.setup \in SetupsOf(o)
      /\ o.hint \in SetupsOf(o) \cup {None}
  BY <1>2, ConstantFacts DEF SetupsOf
<1>4. /\ o.kind \in {"publish", "archive", "assign", "reassign", "withdraw"}
      /\ o.kind \in {"publish", "assign", "reassign"} => o.from \in 1 .. Horizon
      /\ o.kind \in {"assign", "reassign", "withdraw"} => o.branch \in Branches
      /\ o.kind = "withdraw" => o.id \in Nat
  BY <1>1 DEF Operations
<1>5. /\ BranchesOf(o) \in SUBSET Branches
      /\ o.kind \in {"assign", "reassign", "withdraw"} => BranchesOf(o) = {o.branch}
  BY <1>4 DEF BranchesOf
<1> QED
  BY <1>1, <1>2, <1>3, <1>4, <1>5

\* Who can write holds the locks of its setups and branches.
LEMMA WriterHolds ==
    ASSUME TypeOK, LockInv, NEW t \in Txns, req[t].pc = "writing"
    PROVE  /\ Pending(t)
           /\ \A s \in SetupsOf(req[t].op) : setupLock[s] = t
           /\ \A b \in BranchesOf(req[t].op) : branchLock[b] = t
<1>1. Pending(t)
  BY DEF Pending, Idle
<1>2. SetupsLeft(t) = {} /\ BranchesLeft(t) = {}
  BY <1>1 DEF LockInv
<1> QED
  BY <1>1, <1>2 DEF SetupsLeft, BranchesLeft, Held

\* Taking the next lock keeps the order.
LEMMA LockSetupKeeps ==
    ASSUME TypeOK, LockInv, NEW t \in Txns, LockSetup(t)
    PROVE  LockInv' /\ setupLock' \in [Setups -> Txns \cup {None}]
<1>1. req' = req /\ branchLock' = branchLock /\ versions' = versions /\ assigned' = assigned
  BY DEF LockSetup
<1>2. Pending(t) /\ SetupsLeft(t) # {} /\ req[t].pc = "locking"
  BY DEF LockSetup, Pending, Idle
<1>3. SetupsLeft(t) \in SUBSET Setups /\ SetupsLeft(t) \in SUBSET Nat
  <2>1. SetupsOf(req[t].op) \in SUBSET Setups
    BY <1>2, RequestFacts
  <2> QED
    BY <2>1, ConstantFacts DEF SetupsLeft
<1>4. PICK s \in Setups : s = NextSetup(t) /\ s \in SetupsLeft(t) /\ \A r \in SetupsLeft(t) : s <= r
  BY <1>2, <1>3, MinIsLeast DEF NextSetup
<1>5. setupLock[s] = None /\ setupLock' = [setupLock EXCEPT ![s] = t]
  BY <1>4 DEF LockSetup
<1>6. setupLock' \in [Setups -> Txns \cup {None}]
  BY <1>5 DEF TypeOK
<1>7. \A u \in Txns : Held(branchLock, u)' = Held(branchLock, u) /\ BranchesLeft(u)' = BranchesLeft(u)
  BY <1>1 DEF Held, BranchesLeft, BranchesOf, Affected, NextVersionDate
<1>8. ASSUME NEW u \in Txns
      PROVE  /\ Held(setupLock, u)' = Held(setupLock, u) \cup (IF u = t THEN {s} ELSE {})
             /\ SetupsLeft(u)' = SetupsLeft(u) \ (IF u = t THEN {s} ELSE {})
  <2>1. Held(setupLock, u)' = Held(setupLock, u) \cup (IF u = t THEN {s} ELSE {})
    BY <1>5, ConstantFacts DEF Held, TypeOK
  <2>2. SetupsOf(req[u].op)' = SetupsOf(req[u].op)
    BY <1>1 DEF SetupsOf
  <2> QED
    BY <2>1, <2>2 DEF SetupsLeft
<1>9. \A r \in Setups, u \in Txns : setupLock'[r] = u =>
         Pending(u)' /\ r \in SetupsOf(req[u].op)'
  <2> SUFFICES ASSUME NEW r \in Setups, NEW u \in Txns, setupLock'[r] = u
               PROVE  Pending(u)' /\ r \in SetupsOf(req[u].op)'
    OBVIOUS
  <2>1. Pending(u)' <=> Pending(u)
    BY <1>1 DEF Pending
  <2>2. SetupsOf(req[u].op)' = SetupsOf(req[u].op)
    BY <1>1 DEF SetupsOf
  <2>3. CASE r = s
    <3>1. u = t
      BY <1>5, <2>3 DEF TypeOK
    <3> QED
      BY <1>2, <1>4, <2>1, <2>2, <2>3, <3>1 DEF SetupsLeft
  <2>4. CASE r # s
    <3>1. setupLock[r] = u
      BY <1>5, <2>4 DEF TypeOK
    <3> QED
      BY <2>1, <2>2, <3>1 DEF LockInv
  <2> QED
    BY <2>3, <2>4
<1>10. ASSUME NEW b \in Branches, NEW h \in Txns, branchLock'[b] = h
       PROVE  Pending(h)' /\ SetupsLeft(h)' = {}
  <2>1. Pending(h) /\ SetupsLeft(h) = {}
    BY <1>1, <1>10 DEF LockInv
  <2> QED
    BY <1>1, <1>8, <2>1 DEF Pending
<1>11. ASSUME NEW u \in Txns, Pending(u)'
       PROVE  /\ \A r \in SetupsLeft(u)', q \in Held(setupLock, u)' : q < r
              /\ \A b \in BranchesLeft(u)', c \in Held(branchLock, u)' : c < b
              /\ req'[u].pc = "writing" => SetupsLeft(u)' = {} /\ BranchesLeft(u)' = {}
  <2>1. Pending(u)
    BY <1>1, <1>11 DEF Pending
  <2>2. \A r \in SetupsLeft(u)', q \in Held(setupLock, u)' : q < r
    <3> SUFFICES ASSUME NEW r \in SetupsLeft(u)', NEW q \in Held(setupLock, u)' PROVE q < r
      OBVIOUS
    <3>1. CASE u = t /\ q = s
      <4>1. r \in SetupsLeft(t) /\ r # s
        BY <1>8, <3>1
      <4> QED
        BY <1>3, <1>4, <3>1, <4>1
    <3>2. CASE ~(u = t /\ q = s)
      <4>1. r \in SetupsLeft(u) /\ q \in Held(setupLock, u)
        BY <1>8, <3>2
      <4> QED
        BY <2>1, <4>1 DEF LockInv
    <3> QED
      BY <3>1, <3>2
  <2>3. \A b \in BranchesLeft(u)', c \in Held(branchLock, u)' : c < b
    BY <1>7, <2>1 DEF LockInv
  <2>4. req'[u].pc = "writing" => SetupsLeft(u)' = {} /\ BranchesLeft(u)' = {}
    BY <1>1, <1>7, <1>8, <2>1 DEF LockInv
  <2> QED
    BY <2>2, <2>3, <2>4
<1>12. LockInv'
  BY <1>9, <1>10, <1>11 DEF LockInv
<1> QED
  BY <1>6, <1>12

LEMMA LockBranchKeeps ==
    ASSUME TypeOK, LockInv, NEW t \in Txns, LockBranch(t)
    PROVE  LockInv' /\ branchLock' \in [Branches -> Txns \cup {None}]
<1>1. req' = req /\ setupLock' = setupLock /\ versions' = versions /\ assigned' = assigned
  BY DEF LockBranch
<1>2. Pending(t) /\ SetupsLeft(t) = {} /\ BranchesLeft(t) # {} /\ req[t].pc = "locking"
  BY DEF LockBranch, Pending, Idle
<1>3. BranchesLeft(t) \in SUBSET Branches /\ BranchesLeft(t) \in SUBSET Nat
  <2>1. BranchesOf(req[t].op) \in SUBSET Branches
    BY <1>2, RequestFacts
  <2> QED
    BY <2>1, ConstantFacts DEF BranchesLeft
<1>4. PICK b \in Branches :
         b = Min(BranchesLeft(t)) /\ b \in BranchesLeft(t) /\ \A c \in BranchesLeft(t) : b <= c
  BY <1>2, <1>3, MinIsLeast
<1>5. branchLock[b] = None /\ branchLock' = [branchLock EXCEPT ![b] = t]
  BY <1>4 DEF LockBranch
<1>6. branchLock' \in [Branches -> Txns \cup {None}]
  BY <1>5 DEF TypeOK
<1>7. \A u \in Txns : Held(setupLock, u)' = Held(setupLock, u) /\ SetupsLeft(u)' = SetupsLeft(u)
  BY <1>1 DEF Held, SetupsLeft, SetupsOf
<1>8. ASSUME NEW u \in Txns
      PROVE  /\ Held(branchLock, u)' = Held(branchLock, u) \cup (IF u = t THEN {b} ELSE {})
             /\ BranchesLeft(u)' = BranchesLeft(u) \ (IF u = t THEN {b} ELSE {})
  <2>1. Held(branchLock, u)' = Held(branchLock, u) \cup (IF u = t THEN {b} ELSE {})
    BY <1>5, ConstantFacts DEF Held, TypeOK
  <2>2. BranchesOf(req[u].op)' = BranchesOf(req[u].op)
    BY <1>1 DEF BranchesOf, Affected, NextVersionDate
  <2> QED
    BY <2>1, <2>2 DEF BranchesLeft
<1>9. \A s \in Setups, u \in Txns : setupLock'[s] = u =>
         Pending(u)' /\ s \in SetupsOf(req[u].op)'
  BY <1>1 DEF LockInv, Pending, SetupsOf
<1>10. ASSUME NEW c \in Branches, NEW u \in Txns, branchLock'[c] = u
       PROVE  Pending(u)' /\ SetupsLeft(u)' = {}
  <2>1. CASE c = b
    <3>1. u = t
      BY <1>5, <1>10, <2>1 DEF TypeOK
    <3> QED
      BY <1>1, <1>2, <1>7, <3>1 DEF Pending
  <2>2. CASE c # b
    <3>1. branchLock[c] = u
      BY <1>5, <1>10, <2>2 DEF TypeOK
    <3>2. Pending(u) /\ SetupsLeft(u) = {}
      BY <3>1 DEF LockInv
    <3> QED
      BY <1>1, <1>7, <3>2 DEF Pending
  <2> QED
    BY <2>1, <2>2
<1>11. ASSUME NEW u \in Txns, Pending(u)'
       PROVE  /\ \A r \in SetupsLeft(u)', q \in Held(setupLock, u)' : q < r
              /\ \A d \in BranchesLeft(u)', c \in Held(branchLock, u)' : c < d
              /\ req'[u].pc = "writing" => SetupsLeft(u)' = {} /\ BranchesLeft(u)' = {}
  <2>1. Pending(u)
    BY <1>1, <1>11 DEF Pending
  <2>2. \A d \in BranchesLeft(u)', c \in Held(branchLock, u)' : c < d
    <3> SUFFICES ASSUME NEW d \in BranchesLeft(u)', NEW c \in Held(branchLock, u)' PROVE c < d
      OBVIOUS
    <3>1. CASE u = t /\ c = b
      <4>1. d \in BranchesLeft(t) /\ d # b
        BY <1>8, <3>1
      <4> QED
        BY <1>3, <1>4, <3>1, <4>1
    <3>2. CASE ~(u = t /\ c = b)
      <4>1. d \in BranchesLeft(u) /\ c \in Held(branchLock, u)
        BY <1>8, <3>2
      <4> QED
        BY <2>1, <4>1 DEF LockInv
    <3> QED
      BY <3>1, <3>2
  <2>3. \A r \in SetupsLeft(u)', q \in Held(setupLock, u)' : q < r
    BY <1>7, <2>1 DEF LockInv
  <2>4. req'[u].pc = "writing" => SetupsLeft(u)' = {} /\ BranchesLeft(u)' = {}
    BY <1>1, <1>7, <1>8, <2>1 DEF LockInv
  <2> QED
    BY <2>2, <2>3, <2>4
<1>12. LockInv'
  BY <1>9, <1>10, <1>11 DEF LockInv
<1> QED
  BY <1>6, <1>12

\* Nobody holds a lock before it asks for one, and a request ends with all
\* its locks released: the locks of the others stay as they are.  So they do
\* when a request is accepted.  What a request may lock does not change
\* under it, as long as the setups it holds keep their rows.
LEMMA LocksKept ==
    ASSUME TypeOK, LockInv, NEW t \in Txns,
           \A u \in Txns \ {t} : req'[u] = req[u],
           \A u \in Txns \ {t} : Held(setupLock, u)' = Held(setupLock, u),
           \A u \in Txns \ {t} : Held(branchLock, u)' = Held(branchLock, u),
           \A u \in Txns \ {t} : Pending(u) /\ SetupsLeft(u) = {} =>
              BranchesOf(req[u].op)' = BranchesOf(req[u].op),
           \/ Held(setupLock, t)' = {} /\ Held(branchLock, t)' = {} /\ req'[t].pc # "writing"
           \/ /\ Pending(t)' /\ req'[t].op = req[t].op
              /\ SetupsLeft(t) = {} /\ BranchesLeft(t) = {}
              /\ setupLock' = setupLock /\ branchLock' = branchLock
              /\ versions' = versions /\ assigned' = assigned,
           DOMAIN setupLock' = Setups, DOMAIN branchLock' = Branches
    PROVE  LockInv'
<1>1. ASSUME NEW u \in Txns \ {t}
      PROVE  /\ Pending(u)' <=> Pending(u)
             /\ SetupsOf(req[u].op)' = SetupsOf(req[u].op)
             /\ SetupsLeft(u)' = SetupsLeft(u)
             /\ Pending(u) /\ SetupsLeft(u) = {} => BranchesLeft(u)' = BranchesLeft(u)
  <2>1. req'[u] = req[u] /\ Held(setupLock, u)' = Held(setupLock, u)
        /\ Held(branchLock, u)' = Held(branchLock, u)
    OBVIOUS
  <2>2. SetupsOf(req[u].op)' = SetupsOf(req[u].op)
    BY <2>1 DEF SetupsOf
  <2>3. Pending(u)' <=> Pending(u)
    BY <2>1 DEF Pending
  <2>4. SetupsLeft(u)' = SetupsLeft(u)
    BY <2>1, <2>2 DEF SetupsLeft
  <2>5. Pending(u) /\ SetupsLeft(u) = {} => BranchesLeft(u)' = BranchesLeft(u)
    BY <2>1 DEF BranchesLeft
  <2> QED
    BY <2>2, <2>3, <2>4, <2>5
\* A request that holds a branch, or writes, has its setups.
<1>2. ASSUME NEW u \in Txns \ {t}, Pending(u)'
      PROVE  /\ \A r \in SetupsLeft(u)', q \in Held(setupLock, u)' : q < r
             /\ \A d \in BranchesLeft(u)', c \in Held(branchLock, u)' : c < d
             /\ req'[u].pc = "writing" => SetupsLeft(u)' = {} /\ BranchesLeft(u)' = {}
  <2>1. Pending(u) /\ req'[u] = req[u]
    BY <1>1, <1>2
  <2>2. \A r \in SetupsLeft(u)', q \in Held(setupLock, u)' : q < r
    BY <1>1, <2>1 DEF LockInv
  <2>3. ASSUME NEW d \in BranchesLeft(u)', NEW c \in Held(branchLock, u)' PROVE c < d
    <3>1. c \in Held(branchLock, u)
      BY <2>3
    <3>2. SetupsLeft(u) = {}
      BY <3>1 DEF Held, LockInv, TypeOK
    <3>3. d \in BranchesLeft(u)
      BY <1>1, <2>1, <2>3, <3>2
    <3> QED
      BY <2>1, <3>1, <3>3 DEF LockInv
  <2>4. req'[u].pc = "writing" => SetupsLeft(u)' = {} /\ BranchesLeft(u)' = {}
    BY <1>1, <2>1 DEF LockInv
  <2> QED
    BY <2>2, <2>3, <2>4
<1>3. ASSUME NEW u \in Txns \ {t}
      PROVE  /\ \A s \in Setups : setupLock'[s] = u => Pending(u)' /\ s \in SetupsOf(req[u].op)'
             /\ \A b \in Branches : branchLock'[b] = u => Pending(u)' /\ SetupsLeft(u)' = {}
  <2>1. ASSUME NEW s \in Setups, setupLock'[s] = u
        PROVE  Pending(u)' /\ s \in SetupsOf(req[u].op)'
    <3>1. s \in Held(setupLock, u)'
      BY <2>1 DEF Held
    <3>2. setupLock[s] = u
      BY <3>1 DEF Held
    <3> QED
      BY <1>1, <3>2 DEF LockInv
  <2>2. ASSUME NEW b \in Branches, branchLock'[b] = u
        PROVE  Pending(u)' /\ SetupsLeft(u)' = {}
    <3>1. b \in Held(branchLock, u)'
      BY <2>2 DEF Held
    <3>2. branchLock[b] = u
      BY <3>1 DEF Held
    <3> QED
      BY <1>1, <3>2 DEF LockInv
  <2> QED
    BY <2>1, <2>2
<1>4. CASE Held(setupLock, t)' = {} /\ Held(branchLock, t)' = {} /\ req'[t].pc # "writing"
  <2>1. /\ \A s \in Setups : setupLock'[s] # t
        /\ \A b \in Branches : branchLock'[b] # t
    BY <1>4 DEF Held
  <2> QED
    BY <1>2, <1>3, <1>4, <2>1 DEF LockInv
<1>5. CASE /\ Pending(t)' /\ req'[t].op = req[t].op
           /\ SetupsLeft(t) = {} /\ BranchesLeft(t) = {}
           /\ setupLock' = setupLock /\ branchLock' = branchLock
           /\ versions' = versions /\ assigned' = assigned
  <2>1. SetupsOf(req[t].op)' = SetupsOf(req[t].op) /\ SetupsLeft(t)' = {}
    BY <1>5 DEF SetupsLeft, SetupsOf, Held
  <2>2. BranchesOf(req[t].op)' = BranchesOf(req[t].op)
    BY <1>5 DEF BranchesOf, Affected, NextVersionDate
  <2>3. BranchesLeft(t)' = {}
    BY <1>5, <2>2 DEF BranchesLeft, Held
  <2>4. \A s \in Setups : setupLock'[s] = t => Pending(t)' /\ s \in SetupsOf(req[t].op)'
    BY <1>5, <2>1 DEF LockInv
  <2> QED
    BY <1>2, <1>3, <1>5, <2>1, <2>3, <2>4 DEF LockInv
<1> QED
  BY <1>4, <1>5

-----------------------------------------------------------------------------
(* What a request was accepted on stays true until it has written          *)

\* A publication changes no period of an assignment that it does not affect.
LEMMA UnaffectedReady ==
    ASSUME TypeOK, NEW b \in Branches, Contiguous(versions, assigned[b]),
           NEW p \in PeriodRows, Kept(versions, assigned[b], p),
           NEW s \in Setups, NEW from \in 1 .. Horizon,
           NEW a \in assigned[b], a.setup = s, Covers(a, p.start),
           a \notin Affected(b, s, from)
    PROVE  p.end < from \/ \E v \in versions[s] : from < v.from /\ v.from <= p.start
<1>1. /\ p.start \in Nat /\ p.end \in Nat /\ p.start <= Horizon
      /\ a.from \in Nat /\ a.to \in Nat /\ a.from <= Horizon
      /\ Forever = Horizon + 1 /\ Horizon \in Nat /\ from \in Nat
  BY ConstantFacts DEF PeriodRows, TypeOK, AssignmentRows
<1>2. ~(a.to > from) \/ ~(a.from < NextVersionDate(s, from))
  BY DEF Affected
<1>3. CASE ~(a.to > from)
  <2>1. PICK g \in assigned[b] : Governs(versions, assigned[b], g, p)
    BY DEF Kept
  <2>2. g = a
    BY <1>1, <2>1, OneCovers DEF Governs
  <2>3. p.end < a.to
    BY <2>1, <2>2 DEF Governs
  <2> QED
    BY <1>1, <1>3, <2>3
<1>4. CASE ~(a.from < NextVersionDate(s, from))
  <2>1. PICK n \in 1 .. Forever :
           n = NextVersionDate(s, from)
           /\ (n # Forever => \E v \in versions[s] : v.from = n /\ from < v.from)
    BY <1>1, NextVersionBounds
  <2>2. n <= a.from /\ n # Forever
    BY <1>1, <1>4, <2>1
  <2>3. n <= p.start
    BY <1>1, <2>1, <2>2 DEF Covers
  <2> QED
    BY <2>1, <2>2, <2>3
<1> QED
  BY <1>2, <1>3, <1>4

LEMMA PublishStays ==
    ASSUME NEW o, PublishReady(o), versions'[o.setup] = versions[o.setup],
           \A b \in Branches : \A a \in assigned'[b] : a.setup = o.setup => a \in assigned[b],
           \A b \in Branches : \A p \in periods'[b] :
              \E q \in periods[b] : q.start = p.start /\ q.end = p.end
    PROVE  PublishReady(o)'
<1> SUFFICES ASSUME NEW b \in Branches, NEW a \in assigned'[b], NEW p \in periods'[b],
                    a.setup = o.setup, Covers(a, p.start)
             PROVE  \/ p.end < o.from
                    \/ \E v \in versions'[o.setup] : o.from < v.from /\ v.from <= p.start
  BY DEF PublishReady
<1>1. PICK q \in periods[b] : q.start = p.start /\ q.end = p.end
  OBVIOUS
<1>2. a \in assigned[b] /\ Covers(a, q.start)
  BY <1>1
<1>3. q.end < o.from \/ \E v \in versions[o.setup] : o.from < v.from /\ v.from <= q.start
  BY <1>2 DEF PublishReady
<1> QED
  BY <1>1, <1>3

\* What a withdrawal writes, from the rows of its branch.
WithdrawOf(rows, o) ==
    LET target == CHOOSE a \in rows : a.id = o.id
        prior  == {a \in rows : a.to = target.from}
    IN  [out |-> {target} \cup prior, in |-> {[a EXCEPT !.to = target.to] : a \in prior}]

LEMMA AcceptedStays ==
    ASSUME TypeOK, NEW t \in Txns, Pending(t), NEW o, o = req[t].op, o = req'[t].op,
           req'[t].no = req[t].no, NEW effect, Accepted(t, o, effect),
           \A s \in SetupsOf(o) : versions'[s] = versions[s],
           o.kind \in {"assign", "reassign", "withdraw"} =>
              /\ assigned'[o.branch] = assigned[o.branch]
              /\ \A p \in periods'[o.branch] :
                    \E q \in periods[o.branch] : q.start = p.start /\ q.end = p.end,
           o.kind = "publish" => PublishReady(o)'
    PROVE  Accepted(t, o, effect)'
<1>1. o.setup \in SetupsOf(o) /\ versions'[o.setup] = versions[o.setup]
  BY RequestFacts
<1>2. CASE o.kind = "publish"
  BY <1>1, <1>2 DEF Accepted, PublishEffect
<1>3. CASE o.kind = "assign"
  <2>1. AssignReady(o)'
    <3>1. AssignReady(o)
      BY <1>3 DEF Accepted
    <3>2. \A p \in periods'[o.branch] :
             \/ p.end < o.from
             \/ \E a \in assigned'[o.branch] : o.from < a.from /\ a.from <= p.start
      BY <1>3, <3>1 DEF AssignReady
    <3>3. \A a \in assigned'[o.branch] : ~Covers(a, o.from)
      BY <1>3, <3>1 DEF AssignReady
    <3>4. /\ (\E a \in assigned'[o.branch] : a.from < o.from) =>
               \E a \in assigned'[o.branch] : a.to = o.from
          /\ HasSchedule(versions'[o.setup], o.from)
      BY <1>1, <1>3, <3>1 DEF AssignReady
    <3> QED
      BY <3>2, <3>3, <3>4 DEF AssignReady
  <2>2. AssignEffect(t, o)' = AssignEffect(t, o)
    BY <1>3 DEF AssignEffect, AssignmentRow, AssignUntil
  <2> QED
    BY <1>3, <2>1, <2>2 DEF Accepted
<1>4. CASE o.kind = "reassign"
  <2>1. Spanning(o.branch, o.hint, o.from)' = Spanning(o.branch, o.hint, o.from)
    BY <1>4 DEF Spanning
  <2>2. ReassignReady(o)'
    <3>1. ReassignReady(o)
      BY <1>4 DEF Accepted
    <3>2. \A a \in Spanning(o.branch, o.hint, o.from) :
             \A p \in periods'[o.branch] : p.end < o.from \/ a.to <= p.start
      BY <1>4, <3>1 DEF ReassignReady
    <3>3. HasSchedule(versions'[o.setup], o.from)
      BY <1>1, <3>1 DEF ReassignReady
    <3> QED
      BY <2>1, <3>1, <3>2, <3>3 DEF ReassignReady
  <2>3. ReassignEffect(t, o)' = ReassignEffect(t, o)
    BY <2>1 DEF ReassignEffect, AssignmentRow
  <2> QED
    BY <1>4, <2>2, <2>3 DEF Accepted
<1>5. CASE o.kind = "withdraw"
  <2>1. WithdrawReady(o)
    BY <1>5 DEF Accepted
  <2>2. PICK x \in assigned[o.branch] :
           /\ x.id = o.id
           /\ \A a \in assigned[o.branch] : a.to = x.from => a.setup = o.hint
           /\ \A p \in periods[o.branch] : p.end < x.from \/ x.to <= p.start
    BY <2>1 DEF WithdrawReady
  <2>3. \A p \in periods'[o.branch] : p.end < x.from \/ x.to <= p.start
    BY <1>5, <2>2
  <2>4. WithdrawReady(o)'
    BY <1>5, <2>2, <2>3 DEF WithdrawReady
  <2>5. WithdrawEffect(o)' = WithdrawEffect(o)
    <3>1. WithdrawEffect(o) = WithdrawOf(assigned[o.branch], o)
      BY DEF WithdrawEffect, WithdrawOf
    <3>2. WithdrawEffect(o)' = WithdrawOf(assigned'[o.branch], o)
      BY DEF WithdrawEffect, WithdrawOf
    <3> QED
      BY <1>5, <3>1, <3>2
  <2> QED
    BY <1>5, <2>4, <2>5 DEF Accepted
<1>6. CASE o.kind = "archive"
  BY <1>6 DEF Accepted
<1> QED
  BY <1>2, <1>3, <1>4, <1>5, <1>6, RequestFacts

\* What a request has looked at is under its locks.
LEMMA FitsStay ==
    ASSUME TypeOK, NEW t \in Txns, Pending(t), NEW o, o = req[t].op,
           NEW effect, AcceptedFits(o, effect),
           \A s \in SetupsOf(o) : versions'[s] = versions[s],
           o.kind = "publish" =>
              \A b \in Branches : \A a \in assigned'[b] : a.setup = o.setup => a \in assigned[b],
           o.kind \in {"assign", "reassign", "withdraw"} =>
              assigned'[o.branch] = assigned[o.branch]
    PROVE  AcceptedFits(o, effect)'
<1>1. /\ o.setup \in SetupsOf(o) /\ versions'[o.setup] = versions[o.setup]
      /\ o.kind \in {"publish", "archive", "assign", "reassign", "withdraw"}
  BY RequestFacts
<1>2. CASE o.kind = "publish"
  <2>1. PICK sched \in Schedules : effect = PublishEffect(o, sched) /\ PublishFits(o, sched)
    BY <1>2 DEF AcceptedFits
  <2>2. (effect = PublishEffect(o, sched))'
    BY <1>1, <2>1 DEF PublishEffect
  <2>3. Fits(versions'[o.setup], o.from, sched)
    BY <1>1, <2>1 DEF PublishFits
  <2>4. ASSUME NEW b \in Branches, NEW a \in assigned'[b], a.setup = o.setup, o.from <= a.from,
               Ahead(versions'[o.setup], o.from, a.from)
        PROVE  RowFits(versions'[o.setup], sched, a.from, a.to)
    BY <1>1, <1>2, <2>1, <2>4 DEF PublishFits
  <2>5. PublishFits(o, sched)'
    BY <2>3, <2>4 DEF PublishFits
  <2> QED
    BY <1>2, <2>1, <2>2, <2>5 DEF AcceptedFits
<1>3. CASE o.kind = "assign"
  <2>1. AssignUntil(o.branch, o.from)' = AssignUntil(o.branch, o.from)
    BY <1>3 DEF AssignUntil
  <2>2. AssignFits(o)
    BY <1>3 DEF AcceptedFits
  <2>3. AssignFits(o)'
    BY <1>1, <2>1, <2>2 DEF AssignFits
  <2> QED
    BY <1>3, <2>3 DEF AcceptedFits
<1>4. CASE o.kind \in {"reassign", "withdraw"}
  <2>1. o.branch \in Branches /\ assigned'[o.branch] = assigned[o.branch]
    BY <1>4, RequestFacts
  <2>2. ASSUME NEW a \in assigned[o.branch], a.setup = o.hint
        PROVE  versions'[o.hint] = versions[o.hint]
    <3>1. o.hint \in Setups
      BY <2>1, <2>2 DEF TypeOK, AssignmentRows
    <3> QED
      BY <3>1, ConstantFacts DEF SetupsOf
  <2>3. CASE o.kind = "reassign"
    <3>1. ReassignFits(o)
      BY <2>3 DEF AcceptedFits
    <3>2. Spanning(o.branch, o.hint, o.from)' = Spanning(o.branch, o.hint, o.from)
      BY <2>1 DEF Spanning
    <3>3. \A a \in Spanning(o.branch, o.hint, o.from) : a \in assigned[o.branch] /\ a.setup = o.hint
      BY DEF Spanning
    <3>4. ReassignFits(o)'
      BY <1>1, <2>2, <3>1, <3>2, <3>3 DEF ReassignFits
    <3> QED
      BY <2>3, <3>4 DEF AcceptedFits
  <2>4. CASE o.kind = "withdraw"
    <3>1. WithdrawFits(o)
      BY <2>4 DEF AcceptedFits
    <3>2. WithdrawFits(o)'
      BY <2>1, <2>2, <3>1 DEF WithdrawFits
    <3> QED
      BY <2>4, <3>2 DEF AcceptedFits
  <2> QED
    BY <1>4, <2>3, <2>4
<1>5. CASE o.kind = "archive"
  BY <1>5 DEF AcceptedFits
<1> QED
  BY <1>1, <1>2, <1>3, <1>4, <1>5

\* The steps that write neither versions nor assignments keep what fits.
LEMMA FitUnchanged ==
    ASSUME TypeOK, FitInv, versions' = versions, assigned' = assigned,
           \A u \in Txns : req'[u].pc = "writing" => req'[u] = req[u]
    PROVE  FitInv'
<1>1. \A s \in Setups : VersionsFit(versions[s])'
  BY DEF FitInv
<1>2. \A b \in Branches : RowsFit(versions, assigned[b])'
  BY DEF FitInv
<1>3. ASSUME NEW u \in Txns, req'[u].pc = "writing"
      PROVE  AcceptedFits(req[u].op, req[u].effect)'
  <2>1. req'[u] = req[u] /\ Pending(u)
    BY <1>3 DEF Pending, Idle
  <2>2. PICK o, effect : o = req[u].op /\ effect = req[u].effect
    OBVIOUS
  <2>3. AcceptedFits(o, effect)
    BY <1>3, <2>1, <2>2 DEF FitInv
  <2>4. AcceptedFits(o, effect)'
    BY <2>1, <2>2, <2>3, FitsStay
  <2> QED
    BY <2>1, <2>2, <2>4
<1> QED
  BY <1>1, <1>2, <1>3 DEF FitInv

-----------------------------------------------------------------------------
(* Accepting a request                                                     *)

\* A free interval has no period of its branch in it.
LEMMA FreeInterval ==
    ASSUME NEW b \in Branches, NEW change, NEW until, HistoryFree(b, change, until, TRUE),
           NEW p \in periods[b]
    PROVE  ~(p.end >= change) \/ ~(p.start < until)
  BY DEF HistoryFree

LEMMA PublishAcceptedReady ==
    ASSUME TypeOK, TimelineInv, NEW o \in Operations, o.kind = "publish",
           NEW sched \in Schedules, PublishAccepted(o, sched)
    PROVE  PublishReady(o)
<1>1. o.setup \in Setups /\ o.from \in 1 .. Horizon
  BY DEF Operations
<1> SUFFICES ASSUME NEW b \in Branches, NEW a \in assigned[b], NEW p \in periods[b],
                    a.setup = o.setup, Covers(a, p.start)
             PROVE  \/ p.end < o.from
                    \/ \E v \in versions[o.setup] : o.from < v.from /\ v.from <= p.start
  BY DEF PublishReady
<1>2. /\ Contiguous(versions, assigned[b]) /\ Kept(versions, assigned[b], p)
      /\ p \in PeriodRows
  BY DEF TimelineInv, TypeOK
<1>3. CASE a \notin Affected(b, o.setup, o.from)
  BY <1>1, <1>2, <1>3, UnaffectedReady
<1>4. CASE a \in Affected(b, o.setup, o.from)
  <2>1. PICK n \in 1 .. Forever :
           n = NextVersionDate(o.setup, o.from)
           /\ (n # Forever => \E v \in versions[o.setup] : v.from = n /\ o.from < v.from)
    BY <1>1, NextVersionBounds
  <2>2. PublicationFits(b, a, o.setup, o.from, sched)
    BY <1>4 DEF PublishAccepted
  <2>3. HistoryFree(b, Max({o.from, a.from}), Min({n, a.to}), TRUE)
    BY <2>1, <2>2 DEF PublicationFits, BoundaryValid
  <2>4. a.from \in 1 .. Horizon /\ a.to \in 1 .. Forever
    BY DEF TypeOK, AssignmentRows
  <2>5. PICK c \in Nat : c = Max({o.from, a.from}) /\ (c = o.from \/ c = a.from)
    <3>1. {o.from, a.from} \in SUBSET Nat /\ \A x \in {o.from, a.from} : x <= Horizon
      BY <1>1, <2>4, ConstantFacts
    <3>2. Max({o.from, a.from}) \in {o.from, a.from}
      BY <3>1, MaxIsGreatest, ConstantFacts
    <3> QED
      BY <3>1, <3>2
  <2>6. PICK u \in Nat : u = Min({n, a.to}) /\ (u = n \/ u = a.to)
    <3>1. {n, a.to} \in SUBSET Nat
      BY <2>1, <2>4, ConstantFacts
    <3>2. Min({n, a.to}) \in {n, a.to}
      BY <3>1, MinIsLeast
    <3> QED
      BY <3>1, <3>2
  <2>7. ~(p.end >= c) \/ ~(p.start < u)
    BY <2>3, <2>5, <2>6, FreeInterval
  <2>8. /\ p.start \in 1 .. Horizon /\ p.end \in 1 .. Horizon /\ p.start <= p.end
        /\ a.from <= p.start /\ p.start < a.to
    BY <1>2 DEF PeriodRows, Kept, Covers
  <2>9. p.end < o.from \/ n <= p.start
    BY <1>1, <2>1, <2>4, <2>5, <2>6, <2>7, <2>8
  <2>10. n <= p.start => n # Forever
    BY <2>8, ConstantFacts
  <2> QED
    BY <2>1, <2>9, <2>10
<1> QED
  BY <1>3, <1>4

LEMMA AssignAcceptedReady ==
    ASSUME TypeOK, NEW o \in Operations, o.kind = "assign", AssignAccepted(o)
    PROVE  AssignReady(o)
<1>1. o.setup \in Setups /\ o.from \in 1 .. Horizon /\ o.from \in Nat /\ o.branch \in Branches
  BY DEF Operations
<1>2. \A a \in assigned[o.branch] : ~Covers(a, o.from)
  BY DEF AssignAccepted, AssignmentsAt, Covers
<1>3. (\E a \in assigned[o.branch] : a.from < o.from) =>
         \E a \in assigned[o.branch] : a.to = o.from
  BY DEF AssignAccepted
<1>4. HasSchedule(versions[o.setup], o.from)
  BY <1>1, ScheduleAtExists DEF AssignAccepted
<1>5. ASSUME NEW p \in periods[o.branch]
      PROVE  \/ p.end < o.from
             \/ \E a \in assigned[o.branch] : o.from < a.from /\ a.from <= p.start
  <2>1. PICK n \in 1 .. Forever :
           n = AssignUntil(o.branch, o.from)
           /\ (n # Forever => \E a \in assigned[o.branch] : a.from = n /\ o.from < a.from)
    BY <1>1, AssignUntilBounds
  <2>2. HistoryFree(o.branch, o.from, n, TRUE)
    BY <2>1 DEF AssignAccepted, BoundaryValid
  <2>3. p.start \in 1 .. Horizon /\ p.end \in 1 .. Horizon
    BY <1>1 DEF TypeOK, PeriodRows
  <2>4. ~(p.end >= o.from) \/ ~(p.start < n)
    BY <1>1, <2>2, FreeInterval
  <2>5. p.end < o.from \/ n <= p.start
    BY <1>1, <2>1, <2>3, <2>4
  <2>6. n <= p.start => n # Forever
    BY <2>3, ConstantFacts
  <2> QED
    BY <2>1, <2>5, <2>6
<1> QED
  BY <1>2, <1>3, <1>4, <1>5 DEF AssignReady

\* One assignment spans a day.
LEMMA OneSpans ==
    ASSUME TypeOK, NEW b \in Branches, Contiguous(versions, assigned[b]), NEW s,
           NEW day \in 1 .. Horizon, NEW a \in Spanning(b, s, day)
    PROVE  Spanning(b, s, day) = {a} /\ a \in assigned[b]
<1>1. ASSUME NEW x \in Spanning(b, s, day)
      PROVE  x \in assigned[b] /\ Covers(x, day)
  <2>1. x \in assigned[b] /\ x.from < day /\ day < x.to
    BY DEF Spanning
  <2>2. x.from \in Nat /\ x.to \in Nat /\ day \in Nat
    BY <2>1, ConstantFacts DEF TypeOK, AssignmentRows
  <2> QED
    BY <2>1, <2>2 DEF Covers
<1>2. \A x \in Spanning(b, s, day) : x = a
  <2>1. day \in Nat
    OBVIOUS
  <2> QED
    BY <1>1, <2>1, OneCovers
<1> QED
  BY <1>1, <1>2

LEMMA ReassignAcceptedReady ==
    ASSUME TypeOK, TimelineInv, NEW o \in Operations, o.kind = "reassign", ReassignAccepted(o)
    PROVE  ReassignReady(o)
<1>1. o.setup \in Setups /\ o.from \in 1 .. Horizon /\ o.from \in Nat /\ o.branch \in Branches
  BY DEF Operations
<1>2. PICK a : a \in Spanning(o.branch, o.hint, o.from)
  BY DEF ReassignAccepted
<1>3. Spanning(o.branch, o.hint, o.from) = {a} /\ a \in assigned[o.branch]
  BY <1>1, <1>2, OneSpans DEF TimelineInv
<1>4. (CHOOSE x \in Spanning(o.branch, o.hint, o.from) : TRUE) = a
  BY <1>3
<1>5. HistoryFree(o.branch, o.from, a.to, TRUE)
  BY <1>4 DEF ReassignAccepted, BoundaryValid
<1>6. HasSchedule(versions[o.setup], o.from)
  BY <1>1, ScheduleAtExists DEF ReassignAccepted
<1>7. ASSUME NEW p \in periods[o.branch] PROVE p.end < o.from \/ a.to <= p.start
  <2>1. ~(p.end >= o.from) \/ ~(p.start < a.to)
    BY <1>1, <1>5, FreeInterval
  <2>2. p.start \in Nat /\ p.end \in Nat /\ a.to \in Nat
    BY <1>1, <1>3, ConstantFacts DEF TypeOK, PeriodRows, AssignmentRows
  <2> QED
    BY <1>1, <2>1, <2>2
<1> QED
  BY <1>3, <1>6, <1>7 DEF ReassignReady

LEMMA WithdrawAcceptedReady ==
    ASSUME TypeOK, TimelineInv, NEW o \in Operations, o.kind = "withdraw", WithdrawAccepted(o)
    PROVE  WithdrawReady(o)
<1>1. o.branch \in Branches
  BY DEF Operations
<1>2. PICK t \in assigned[o.branch] :
         /\ t.id = o.id
         /\ SetupOf({a \in assigned[o.branch] : a.to = t.from}) = o.hint
         /\ ~\E p \in periods[o.branch] : p.start < t.to /\ p.end >= t.from
  BY DEF WithdrawAccepted
<1>3. ASSUME NEW a \in assigned[o.branch], a.to = t.from PROVE a.setup = o.hint
  <2>1. \A x \in assigned[o.branch] : x.from \in Nat /\ x.to \in Nat /\ x.from < x.to
    BY <1>1, ConstantFacts DEF TypeOK, AssignmentRows, TimelineInv, Contiguous
  <2>2. ASSUME NEW x \in assigned[o.branch], x.to = t.from PROVE x = a
    <3>1. x # a => x.to <= a.from \/ a.to <= x.from
      BY <1>1 DEF TimelineInv, Contiguous
    <3> QED
      BY <1>3, <2>1, <2>2, <3>1
  <2>3. {x \in assigned[o.branch] : x.to = t.from} = {a}
    BY <1>3, <2>2
  <2>4. SetupOf({a}) = a.setup
    <3>1. (CHOOSE x \in {a} : TRUE) = a
      OBVIOUS
    <3> QED
      BY <3>1 DEF SetupOf
  <2> QED
    BY <1>2, <2>3, <2>4
<1>4. ASSUME NEW p \in periods[o.branch] PROVE p.end < t.from \/ t.to <= p.start
  <2>1. p.start \in Nat /\ p.end \in Nat /\ t.to \in Nat /\ t.from \in Nat
    BY <1>1, ConstantFacts DEF TypeOK, PeriodRows, AssignmentRows
  <2> QED
    BY <1>2, <2>1
<1> QED
  BY <1>2, <1>3, <1>4 DEF WithdrawReady

-----------------------------------------------------------------------------
(* Where an accepted change ends what it follows                           *)

LEMMA PriorEndBounds ==
    ASSUME TypeOK, NEW b \in Branches, NEW day \in Nat
    PROVE  /\ PriorEnd(b, day) \in 0 .. Horizon
           /\ \/ PriorEnd(b, day) = 0
              \/ \E p \in periods[b] : p.end < day /\ p.end = PriorEnd(b, day)
           /\ \A p \in periods[b] : p.end < day => p.end <= PriorEnd(b, day)
<1>1. PICK ps \in SUBSET PeriodRows : ps = {p \in periods[b] : p.end < day}
  BY DEF TypeOK
<1>2. PriorEnd(b, day) = LastEnd(ps)
  BY <1>1 DEF PriorEnd
<1> QED
  BY <1>1, <1>2, LastEndBounds

\* A cadence that is counted to a change from the anchor of its schedule, or
\* from the day after the last period before the change.
Counts(b, sched, change) ==
    IsPeriodStart(sched, change, Max({sched.anchor, PriorEnd(b, change) + 1}))

\* No period lies between the anchor and the change.
LEMMA CountedAfresh ==
    ASSUME TypeOK, TimelineInv, NEW b \in Branches, NEW sched \in Schedules,
           NEW to \in Nat, HistoryFree(b, sched.anchor, to, TRUE), Counts(b, sched, to)
    PROVE  OnGrid(sched, to)
<1>1. PICK from \in 1 .. Horizon : from = sched.anchor
  BY ChronologyAssumption
<1>2. PICK e \in 0 .. Horizon :
         /\ e = PriorEnd(b, to)
         /\ e = 0 \/ \E p \in periods[b] : p.end < to /\ p.end = e
  BY PriorEndBounds
<1>3. e + 1 <= from
  <2>1. ASSUME NEW p \in periods[b], p.end < to PROVE p.end < from
    <3>1. p.start \in Nat /\ p.end \in Nat /\ p.start <= p.end
      BY DEF TypeOK, PeriodRows, TimelineInv, Kept
    <3>2. ~(p.end >= from) \/ ~(p.start < to)
      BY <1>1, FreeInterval
    <3> QED
      BY <1>1, <2>1, <3>1, <3>2
  <2> QED
    BY <1>1, <1>2, <2>1
<1>4. Max({from, e + 1}) = from
  BY <1>1, <1>2, <1>3, MaxOfTwo
<1> QED
  BY <1>1, <1>2, <1>4 DEF Counts, OnGrid

\* The periods before the change are those of the assignment that is anchored
\* on its start.
LEMMA CountedFromAnchor ==
    ASSUME TypeOK, TimelineInv, NEW b \in Branches, NEW a \in assigned[b],
           VersionsFit(versions[a.setup]),
           NEW v \in Governing(versions[a.setup], a.from), v.sched.anchor = a.from,
           NEW c \in 1 .. Horizon, a.from < c, Undivided(versions[a.setup], a.from, c),
           \A p \in periods[b] : p.end < c => p.end < a.to,
           Counts(b, v.sched, c)
    PROVE  OnGrid(v.sched, c)
<1>1. a.setup \in Setups /\ a.from \in 1 .. Horizon /\ a.to \in 1 .. Forever
  BY DEF TypeOK, AssignmentRows
<1>2. PICK vs \in SUBSET VersionRows : vs = versions[a.setup]
  BY <1>1 DEF TypeOK, Timelines
<1>3. v \in VersionRows /\ v.sched \in Schedules
  BY <1>2 DEF Governing, VersionRows
<1>4. PICK sched \in Schedules : sched = v.sched
  BY <1>3
<1>5. PICK e \in 0 .. Horizon :
         /\ e = PriorEnd(b, c)
         /\ e = 0 \/ \E p \in periods[b] : p.end < c /\ p.end = e
  BY PriorEndBounds
<1>6. CASE e < a.from
  <2>1. Max({a.from, e + 1}) = a.from
    BY <1>1, <1>5, <1>6, MaxOfTwo
  <2> QED
    BY <1>5, <2>1 DEF Counts, OnGrid
<1>7. CASE ~(e < a.from)
  <2>1. PICK p \in periods[b] : p.end < c /\ p.end = e
    BY <1>1, <1>5, <1>7
  <2>2. p \in PeriodRows /\ p.start \in 1 .. Horizon /\ p.end \in 1 .. Horizon /\ p.start <= p.end
    BY DEF TypeOK, PeriodRows, TimelineInv, Kept
  <2>3. PICK g \in assigned[b] : Governs(versions, assigned[b], g, p)
    BY DEF TimelineInv, Kept
  <2>4. a.from <= p.start
    BY <1>1, <1>7, <2>1, <2>2, <2>3 DEF Governs, Ahead
  <2>5. g = a
    <3>1. Covers(g, p.start)
      BY <2>3 DEF Governs
    <3>2. Covers(a, p.start)
      BY <1>1, <2>1, <2>2, <2>4 DEF Covers
    <3>3. Contiguous(versions, assigned[b]) /\ p.start \in Nat
      BY <2>2 DEF TimelineInv
    <3> QED
      BY <3>1, <3>2, <3>3, OneCovers
  <2>6. p.end = PeriodEnd(sched, p.start) /\ OnGrid(sched, p.start)
    <3>1. PICK w \in Governing(vs, p.start) :
             p.end = PeriodEnd(w.sched, p.start) /\ OnGrid(w.sched, p.start)
      BY <1>2, <2>3, <2>5 DEF Governs
    <3>2. Ahead(vs, a.from, p.start)
      <4>1. \A x \in vs : x.from \in Nat
        BY DEF VersionRows
      <4> QED
        BY <1>1, <1>2, <2>1, <2>2, <4>1 DEF Undivided, Ahead
    <3>3. Governing(vs, p.start) = Governing(vs, a.from)
      BY <1>1, <2>2, <2>4, <3>2, GovernsOn
    <3>4. w = v
      BY <1>2, <3>3, OneGoverns
    <3> QED
      BY <1>4, <3>1, <3>4
  <2>7. IsPeriodStart(sched, e + 1, a.from)
    <3>1. IsPeriodStart(sched, p.start, a.from)
      BY <1>4, <2>6 DEF OnGrid
    <3> QED
      BY <1>1, <2>1, <2>2, <2>6, <3>1, GridGoesOn
  <2>8. Max({a.from, e + 1}) = e + 1
    BY <1>1, <1>5, <1>7, MaxOfTwo
  <2>9. IsPeriodStart(sched, c, e + 1)
    BY <1>4, <1>5, <2>8 DEF Counts
  <2>10. e + 1 \in 1 .. Horizon
    BY <1>5, <2>1, ConstantFacts
  <2>11. IsPeriodStart(sched, c, a.from)
    BY <1>1, <2>7, <2>9, <2>10, GridFromStart
  <2> QED
    BY <1>4, <2>11 DEF OnGrid
<1> QED
  BY <1>6, <1>7

\* The schedule on the last day before a change that nothing divides.
LEMMA ScheduleBefore ==
    ASSUME TypeOK, NEW s \in Setups, VersionsFit(versions[s]), NEW from \in 1 .. Horizon,
           NEW v \in Governing(versions[s], from), NEW c \in 1 .. Forever, from < c,
           Undivided(versions[s], from, c)
    PROVE  ScheduleAt(s, c - 1) = v.sched
<1>1. PICK vs \in SUBSET VersionRows : vs = versions[s]
  BY DEF TypeOK, Timelines
<1>2. from \in Nat /\ c - 1 \in Nat /\ from <= c - 1 /\ c \in Nat
  BY ConstantFacts
<1>3. Ahead(vs, from, c - 1)
  <2>1. \A x \in vs : x.from \in Nat
    BY DEF VersionRows
  <2> QED
    BY <1>1, <1>2, <2>1 DEF Undivided, Ahead
<1>4. Governing(vs, c - 1) = Governing(vs, from)
  BY <1>2, <1>3, GovernsOn
<1> QED
  BY <1>1, <1>4, ScheduleAtIs

LEMMA AssignAcceptedFits ==
    ASSUME TypeOK, TimelineInv, FitInv, NEW o \in Operations, o.kind = "assign",
           AssignAccepted(o)
    PROVE  AssignFits(o)
<1>1. o.setup \in Setups /\ o.from \in 1 .. Horizon /\ o.from \in Nat /\ o.branch \in Branches
  BY DEF Operations
<1> SUFFICES ASSUME NEW v \in Governing(versions[o.setup], o.from)
             PROVE  RowFits(versions[o.setup], v.sched, o.from, AssignUntil(o.branch, o.from))
  BY DEF AssignFits
<1>2. PICK sched \in Schedules : sched = v.sched /\ sched = ScheduleAt(o.setup, o.from) /\ sched # None
  BY <1>1, ScheduleAtIs, ConstantFacts DEF FitInv
<1>3. PICK n \in 1 .. Forever :
         /\ n = AssignUntil(o.branch, o.from)
         /\ n # Forever => \E a \in assigned[o.branch] : a.from = n /\ o.from < a.from
  BY <1>1, AssignUntilBounds
<1>4. HistoryFree(o.branch, o.from, n, TRUE) /\ OnGrid(sched, o.from)
  BY <1>2, <1>3 DEF AssignAccepted, BoundaryValid
<1>5. ASSUME n # Forever, sched.anchor = o.from PROVE OnGrid(sched, n)
  <2>1. FollowingFits(o.branch, sched, n)
    BY <1>2, <1>3 DEF AssignAccepted
  <2>2. Counts(o.branch, sched, n)
    BY <1>2, <1>3, <1>5, <2>1 DEF FollowingFits, BoundaryValid, Counts
  <2>3. n \in Nat
    BY ConstantFacts
  <2> QED
    BY <1>1, <1>4, <1>5, <2>2, <2>3, CountedAfresh
<1> QED
  BY <1>2, <1>3, <1>4, <1>5 DEF RowFits, EndFits

LEMMA ReassignAcceptedFits ==
    ASSUME TypeOK, TimelineInv, FitInv, NEW o \in Operations, o.kind = "reassign",
           ReassignAccepted(o)
    PROVE  ReassignFits(o)
<1>1. o.setup \in Setups /\ o.from \in 1 .. Horizon /\ o.from \in Nat /\ o.branch \in Branches
  BY DEF Operations
<1> SUFFICES ASSUME NEW a \in Spanning(o.branch, o.hint, o.from)
             PROVE  /\ \A v \in Governing(versions[o.hint], a.from) :
                          EndFits(versions[o.hint], v.sched, a.from, o.from)
                    /\ \A v \in Governing(versions[o.setup], o.from) :
                          RowFits(versions[o.setup], v.sched, o.from, a.to)
  BY DEF ReassignFits
<1>2. Spanning(o.branch, o.hint, o.from) = {a} /\ a \in assigned[o.branch]
  BY <1>1, OneSpans DEF TimelineInv
<1>3. (CHOOSE x \in Spanning(o.branch, o.hint, o.from) : TRUE) = a
  BY <1>2
<1>4. /\ a.setup = o.hint /\ a.from < o.from /\ o.from < a.to
      /\ a.setup \in Setups /\ a.from \in 1 .. Horizon /\ a.to \in 1 .. Forever
  BY <1>1, <1>2 DEF Spanning, TypeOK, AssignmentRows
<1>5. /\ BoundaryValid(o.branch, o.from, ScheduleAt(o.hint, o.from - 1),
                       ScheduleAt(o.setup, o.from), a.to, TRUE)
      /\ FollowingFits(o.branch, ScheduleAt(o.setup, o.from), a.to)
  BY <1>3 DEF ReassignAccepted
<1>6. ASSUME NEW v \in Governing(versions[o.hint], a.from),
             Undivided(versions[o.hint], a.from, o.from), v.sched.anchor = a.from
      PROVE  OnGrid(v.sched, o.from)
  <2>1. VersionsFit(versions[a.setup])
    BY <1>4 DEF FitInv
  <2>2. o.from \in 1 .. Forever
    BY <1>1, ConstantFacts
  <2>3. ScheduleAt(o.hint, o.from - 1) = v.sched
    BY <1>4, <1>6, <2>1, <2>2, ScheduleBefore
  <2>4. v.sched # None
    BY <1>4, <1>6, <2>1, ScheduleAtIs, ConstantFacts
  <2>5. Counts(o.branch, v.sched, o.from)
    BY <1>5, <2>3, <2>4 DEF BoundaryValid, Counts
  <2>6. \A p \in periods[o.branch] : p.end < o.from => p.end < a.to
    <3>1. \A p \in periods[o.branch] : p.end \in Nat
      BY <1>1 DEF TypeOK, PeriodRows
    <3>2. a.to \in Nat
      BY <1>4, ConstantFacts
    <3> QED
      BY <1>1, <1>4, <3>1, <3>2
  <2> QED
    BY <1>1, <1>2, <1>4, <1>6, <2>1, <2>5, <2>6, CountedFromAnchor
<1>7. ASSUME NEW v \in Governing(versions[o.setup], o.from)
      PROVE  RowFits(versions[o.setup], v.sched, o.from, a.to)
  <2>1. PICK sched \in Schedules : /\ sched = v.sched /\ sched = ScheduleAt(o.setup, o.from)
                                   /\ sched # None
    BY <1>1, <1>7, ScheduleAtIs, ConstantFacts DEF FitInv
  <2>2. HistoryFree(o.branch, o.from, a.to, TRUE) /\ OnGrid(sched, o.from)
    BY <1>5, <2>1 DEF BoundaryValid
  <2>3. ASSUME a.to # Forever, sched.anchor = o.from PROVE OnGrid(sched, a.to)
    <3>1. \E d \in assigned[o.branch] : d.from = a.to
      BY <1>1, <1>2, <2>3 DEF FitInv, RowsFit
    <3>2. Counts(o.branch, sched, a.to)
      BY <1>5, <2>1, <3>1 DEF FollowingFits, BoundaryValid, Counts
    <3>3. a.to \in Nat
      BY <1>4, ConstantFacts
    <3> QED
      BY <1>1, <2>2, <2>3, <3>2, <3>3, CountedAfresh
  <2> QED
    BY <2>1, <2>2, <2>3 DEF RowFits, EndFits
<1> QED
  BY <1>6, <1>7 DEF EndFits

LEMMA WithdrawAcceptedFits ==
    ASSUME TypeOK, IdsInv, TimelineInv, FitInv, NEW o \in Operations, o.kind = "withdraw",
           WithdrawAccepted(o)
    PROVE  WithdrawFits(o)
<1>1. o.branch \in Branches
  BY DEF Operations
<1> SUFFICES ASSUME NEW t \in assigned[o.branch], t.id = o.id,
                    NEW a \in assigned[o.branch], a.to = t.from, a.setup = o.hint,
                    NEW v \in Governing(versions[o.hint], a.from), t.to # Forever,
                    Undivided(versions[o.hint], a.from, t.to), v.sched.anchor = a.from
             PROVE  OnGrid(v.sched, t.to)
  BY DEF WithdrawFits, EndFits
<1>2. /\ t.from \in 1 .. Horizon /\ t.to \in 1 .. Forever
      /\ a.from \in 1 .. Horizon /\ a.setup \in Setups
      /\ t.from < t.to /\ a.from < a.to
  BY <1>1 DEF TypeOK, AssignmentRows, TimelineInv, Contiguous
<1>3. t.to \in 1 .. Horizon /\ a.from < t.to
  BY <1>2, ConstantFacts
<1>4. PICK sched : sched = ScheduleAt(o.hint, t.from)
  OBVIOUS
<1>5. /\ ~\E p \in periods[o.branch] : p.start < t.to /\ p.end >= t.from
      /\ (\E d \in assigned[o.branch] : d.from = t.to) =>
            \E succ : BoundaryValid(o.branch, t.to, ScheduleAt(o.hint, t.to - 1), succ,
                                    Forever, FALSE)
  <2>1. PICK x \in assigned[o.branch] :
           /\ x.id = o.id
           /\ ~\E p \in periods[o.branch] : p.start < x.to /\ p.end >= x.from
           /\ {c \in assigned[o.branch] : c.to = x.from} # {} =>
                 LET next == {c \in assigned[o.branch] : c.from = x.to}
                 IN  next # {} =>
                        BoundaryValid(o.branch, x.to, ScheduleAt(o.hint, x.to - 1),
                                      Follows(next, x.to), Forever, FALSE)
    BY DEF WithdrawAccepted
  <2>2. x = t
    BY <1>1, <2>1 DEF IdsInv
  <2> QED
    BY <2>1, <2>2
<1>6. \E d \in assigned[o.branch] : d.from = t.to
  BY <1>1 DEF FitInv, RowsFit
<1>7. VersionsFit(versions[a.setup])
  BY <1>2 DEF FitInv
<1>8. ScheduleAt(o.hint, t.to - 1) = v.sched
  BY <1>2, <1>3, <1>7, ScheduleBefore
<1>9. v.sched # None
  BY <1>2, <1>7, ScheduleAtIs, ConstantFacts
<1>10. Counts(o.branch, v.sched, t.to)
  BY <1>5, <1>6, <1>8, <1>9 DEF BoundaryValid, Counts
<1>11. ASSUME NEW p \in periods[o.branch], p.end < t.to PROVE p.end < a.to
  <2>1. p.start \in Nat /\ p.end \in Nat /\ p.start <= p.end
    BY <1>1 DEF TypeOK, PeriodRows, TimelineInv, Kept
  <2> QED
    BY <1>2, <1>3, <1>5, <1>11, <2>1
<1> QED
  BY <1>1, <1>2, <1>3, <1>7, <1>10, <1>11, CountedFromAnchor

LEMMA PublishAcceptedFits ==
    ASSUME TypeOK, TimelineInv, FitInv, NEW o \in Operations, o.kind = "publish",
           NEW sched \in Schedules, PublishAccepted(o, sched)
    PROVE  PublishFits(o, sched)
<1>1. o.setup \in Setups /\ o.from \in 1 .. Horizon /\ o.from \in Nat
  BY DEF Operations
<1>2. Fits(versions[o.setup], o.from, sched)
  BY DEF PublishAccepted
<1> SUFFICES ASSUME NEW b \in Branches, NEW a \in assigned[b], a.setup = o.setup,
                    o.from <= a.from, Ahead(versions[o.setup], o.from, a.from)
             PROVE  RowFits(versions[o.setup], sched, a.from, a.to)
  BY <1>2 DEF PublishFits
<1>3. /\ a.from \in 1 .. Horizon /\ a.to \in 1 .. Forever /\ a.from \in Nat /\ a.to \in Nat
      /\ a.from < a.to /\ a.from < Forever
  BY ConstantFacts DEF TypeOK, AssignmentRows, TimelineInv, Contiguous
<1>4. PICK n \in 1 .. Forever :
         /\ n = NextVersionDate(o.setup, o.from)
         /\ a.from < n
         /\ n # Forever => \E v \in versions[o.setup] : v.from = n /\ o.from < v.from
         /\ \A e \in Nat : e < n => Ahead(versions[o.setup], o.from, e)
  BY <1>1, <1>3, NextVersionBounds
<1>5. n \in Nat
  BY ConstantFacts
<1>6. a \in Affected(b, o.setup, o.from)
  BY <1>1, <1>3, <1>4 DEF Affected
<1>7. Max({o.from, a.from}) = a.from
  BY <1>1, <1>3, MaxOfTwo
<1>8. \E pred : BoundaryValid(b, a.from, pred, sched, Min({n, a.to}), TRUE)
  BY <1>4, <1>6, <1>7 DEF PublishAccepted, PublicationFits
<1>9. sched # None
  BY ConstantFacts
<1>10. HistoryFree(b, a.from, Min({n, a.to}), TRUE) /\ OnGrid(sched, a.from)
  BY <1>8, <1>9 DEF BoundaryValid
<1>11. ASSUME a.to # Forever, Undivided(versions[o.setup], a.from, a.to), sched.anchor = a.from
       PROVE  OnGrid(sched, a.to)
  <2>1. a.to <= n
    <3> SUFFICES ASSUME n < a.to PROVE FALSE
      BY <1>3, <1>5
    <3>1. n # Forever
      BY <1>3, ConstantFacts
    <3>2. PICK v \in versions[o.setup] : v.from = n
      BY <1>4, <3>1
    <3>3. a.to <= n
      BY <1>3, <1>4, <1>5, <1>11, <3>2 DEF Undivided
    <3> QED
      BY <1>3, <1>5, <3>3
  <2>2. CASE a.to < n
    <3>1. \E succ : BoundaryValid(b, a.to, sched, succ, Forever, FALSE)
      BY <1>4, <1>6, <2>2 DEF PublishAccepted, PublicationFits
    <3>2. Counts(b, sched, a.to)
      BY <1>9, <3>1 DEF BoundaryValid, Counts
    <3>3. Min({n, a.to}) = a.to
      BY <1>3, <1>5, <2>1, <2>2, MinOfTwo
    <3> QED
      BY <1>3, <1>10, <1>11, <3>2, <3>3, CountedAfresh
  <2>3. CASE a.to = n
    <3>1. PICK v \in versions[o.setup] : v.from = n /\ o.from < v.from
      BY <1>4, <1>11, <2>3
    <3>2. \A w \in versions[o.setup] : w.from > o.from => w.from >= n
      <4> SUFFICES ASSUME NEW w \in versions[o.setup], w.from > o.from PROVE w.from >= n
        OBVIOUS
      <4>1. w.from \in Nat
        BY <1>1 DEF TypeOK, Timelines, VersionRows
      <4>2. ~(w.from < n)
        BY <1>4, <4>1 DEF Ahead
      <4> QED
        BY <1>5, <4>1, <4>2
    <3> QED
      BY <1>2, <2>3, <3>1, <3>2 DEF Fits
  <2> QED
    BY <1>3, <1>5, <2>1, <2>2, <2>3
<1> QED
  BY <1>10, <1>11 DEF RowFits, EndFits

-----------------------------------------------------------------------------
(* What an accepted request writes                                         *)

\* The number of a new version is one.
LEMMA PublishShape ==
    ASSUME TypeOK, NEW o \in Operations, o.kind = "publish", NEW sched \in Schedules,
           NEW effect, effect = PublishEffect(o, sched)
    PROVE  /\ effect \in Effects
           /\ \E v \in VersionRows :
                 /\ v.from = o.from /\ effect.in = {v}
                 /\ effect.out = {w \in versions[o.setup] : w.from = v.from}
<1>1. o.setup \in Setups /\ o.from \in 1 .. Horizon
  BY DEF Operations
<1>2. PICK vs \in SUBSET VersionRows : vs = versions[o.setup] /\ IsFiniteSet(vs)
  BY <1>1 DEF TypeOK, Timelines
<1> DEFINE N == {v.no : v \in vs}
           S == {0} \cup N
<1>3. IsFiniteSet(S)
  <2>1. [v \in vs |-> v.no] \in Surjection(vs, N)
    BY DEF Surjection
  <2>2. IsFiniteSet(N)
    <3> HIDE DEF N
    <3> QED
      BY <1>2, <2>1, FS_Surjection
  <2>3. IsFiniteSet({0})
    BY FS_Singleton
  <2> HIDE DEF N
  <2> QED
    BY <2>2, <2>3, FS_Union
<1>4. S \in SUBSET Nat /\ S # {}
  BY DEF VersionRows
<1>5. Max(S) \in Nat
  <2> HIDE DEF S
  <2>1. PICK n \in Nat : \A x \in S : x <= n
    BY <1>3, <1>4, FiniteIsBounded
  <2>2. Max(S) \in S
    BY <1>4, <2>1, MaxIsGreatest
  <2> QED
    BY <1>4, <2>2
<1> DEFINE v == [no |-> Max(S) + 1, from |-> o.from, sched |-> sched]
<1>6. v \in VersionRows
  BY <1>1, <1>5 DEF VersionRows
<1>7. effect = [out |-> {w \in vs : w.from = o.from}, in |-> {v}]
  BY <1>2 DEF PublishEffect
<1>8. effect \in [out : SUBSET VersionRows, in : SUBSET VersionRows]
  <2>1. {w \in vs : w.from = o.from} \in SUBSET VersionRows /\ {v} \in SUBSET VersionRows
    BY <1>6
  <2> HIDE DEF v
  <2> QED
    BY <1>7, <2>1
<1>9. PICK w \in VersionRows : w = v
  BY <1>6
<1>10. w.from = o.from
  BY <1>9
<1>11. effect.in = {w} /\ effect.out = {x \in vs : x.from = o.from}
  <2> HIDE DEF v
  <2> QED
    BY <1>7, <1>9
<1> QED
  BY <1>2, <1>8, <1>9, <1>10, <1>11 DEF Effects

\* What a write makes of the assignments of its branch.
Rewrites(rows, new, no, locked) ==
    /\ new \in SUBSET AssignmentRows
    /\ \A x \in (rows \ new) \cup (new \ rows) : x.setup \in locked
    /\ \A x, y \in new : x.id = y.id => x = y
    /\ \A x \in new : x.id = no \/ \E y \in rows : y.id = x.id /\ y.setup = x.setup

Applied(rows, effect) == (rows \ effect.out) \cup effect.in

LEMMA AssignWrite ==
    ASSUME TypeOK, IdsInv, TimelineInv, NEW t \in Txns, Pending(t), NEW o, o = req[t].op,
           o.kind = "assign", NEW effect, effect = AssignEffect(t, o), AssignReady(o),
           NEW new, new = Applied(assigned[o.branch], effect)
    PROVE  /\ effect \in Effects
           /\ Rewrites(assigned[o.branch], new, req[t].no, SetupsOf(o))
           /\ Contiguous(versions, new)
           /\ \A p \in periods[o.branch] : Kept(versions, new, p)
           /\ RowsFit(versions, assigned[o.branch]) /\ AssignFits(o) => RowsFit(versions, new)
<1>1. /\ o.setup \in Setups /\ o.setup \in SetupsOf(o) /\ o.branch \in Branches
      /\ o.from \in 1 .. Horizon /\ req[t].no \in Nat
  BY RequestFacts
<1>2. PICK until \in 1 .. Forever :
         /\ until = AssignUntil(o.branch, o.from)
         /\ until # Forever =>
               \E a \in assigned[o.branch] : a.from = until /\ o.from < a.from
         /\ \A e \in Nat : e < until <=> e < Forever /\ Ahead(assigned[o.branch], o.from, e)
  <2>1. o.from \in Nat
    BY <1>1
  <2>2. PICK u : u = AssignUntil(o.branch, o.from)
    OBVIOUS
  <2>3. /\ u \in 1 .. Forever
        /\ \A e \in Nat : e < u <=> e < Forever /\ Ahead(assigned[o.branch], o.from, e)
        /\ u # Forever => \E a \in assigned[o.branch] : a.from = u /\ o.from < a.from
    BY <1>1, <2>1, <2>2, AssignUntilBounds
  <2> QED
    BY <2>2, <2>3
<1>3. PICK n : n = AssignmentRow(t, until)
  OBVIOUS
<1>4. /\ n \in AssignmentRows /\ n.id = req[t].no /\ n.setup = o.setup
      /\ n.from = o.from /\ n.to = until
  BY <1>1, <1>3 DEF AssignmentRow, AssignmentRows
<1>5. effect = [out |-> {}, in |-> {n}]
  BY <1>2, <1>3 DEF AssignEffect
<1>6. new = assigned[o.branch] \cup {n}
  BY <1>5 DEF Applied
<1>7. assigned[o.branch] \in SUBSET AssignmentRows /\ Contiguous(versions, assigned[o.branch])
  BY <1>1 DEF TypeOK, TimelineInv
<1>8. \A a \in assigned[o.branch] : o.from < a.from => until <= a.from
  <2> SUFFICES ASSUME NEW a \in assigned[o.branch], o.from < a.from PROVE until <= a.from
    OBVIOUS
  <2>1. a.from \in Nat
    BY <1>7 DEF AssignmentRows
  <2>2. ~(a.from < until)
    BY <1>2, <2>1 DEF Ahead
  <2> QED
    BY <1>2, <2>1, <2>2
<1>9. o.from < until
  <2>1. o.from < Forever /\ Ahead(assigned[o.branch], o.from, o.from)
    BY <1>1, ConstantFacts DEF Ahead
  <2> QED
    BY <1>1, <1>2, <2>1
<1>10. /\ Contiguous(versions, new)
       /\ \A p \in PeriodRows :
             Kept(versions, assigned[o.branch], p) /\ (p.end < o.from \/ until <= p.start)
                => Kept(versions, new, p)
  <2>1. PICK rows : rows = assigned[o.branch]
    OBVIOUS
  <2>2. /\ n.from < n.to /\ HasSchedule(versions[n.setup], n.from)
        /\ \A a \in rows : ~Covers(a, n.from)
        /\ (\E a \in rows : a.from < n.from) => \E a \in rows : a.to = n.from
        /\ \A a \in rows : n.from < a.from => n.to <= a.from
        /\ n.to # Forever => \E a \in rows : a.from = n.to
    BY <1>2, <1>4, <1>8, <1>9, <2>1 DEF AssignReady
  <2>3. rows \in SUBSET AssignmentRows /\ Contiguous(versions, rows)
    BY <1>7, <2>1
  <2>4. /\ Contiguous(versions, rows \cup {n})
        /\ \A p \in PeriodRows :
              Kept(versions, rows, p) /\ (p.end < n.from \/ n.to <= p.start)
                 => Kept(versions, rows \cup {n}, p)
    BY <1>4, <2>2, <2>3, AssignKeeps
  <2> QED
    BY <1>4, <1>6, <2>1, <2>4
<1>11. ASSUME NEW p \in periods[o.branch] PROVE Kept(versions, new, p)
  <2>1. p \in PeriodRows /\ Kept(versions, assigned[o.branch], p)
    BY <1>1 DEF TypeOK, TimelineInv
  <2>2. p.end < o.from \/ until <= p.start
    <3>1. \/ p.end < o.from
          \/ \E a \in assigned[o.branch] : o.from < a.from /\ a.from <= p.start
      BY DEF AssignReady
    <3>2. ASSUME NEW a \in assigned[o.branch], o.from < a.from, a.from <= p.start
          PROVE  until <= p.start
      <4>1. a.from \in Nat /\ p.start \in Nat /\ until \in Nat
        BY <1>2, <1>7, <2>1 DEF AssignmentRows, PeriodRows
      <4> QED
        BY <1>8, <3>2, <4>1
    <3> QED
      BY <3>1, <3>2
  <2> QED
    BY <1>10, <2>1, <2>2
<1>12. Rewrites(assigned[o.branch], new, req[t].no, SetupsOf(o))
  <2>1. \A a \in assigned[o.branch] : a.id # req[t].no
    BY <1>1 DEF IdsInv
  <2>2. \A x, y \in assigned[o.branch] : x.id = y.id => x = y
    BY <1>1 DEF IdsInv
  <2> QED
    BY <1>1, <1>4, <1>6, <1>7, <2>1, <2>2 DEF Rewrites
<1>13. effect \in Effects
  BY <1>4, <1>5 DEF Effects
<1>14. ASSUME RowsFit(versions, assigned[o.branch]), AssignFits(o)
       PROVE  RowsFit(versions, new)
  <2>1. n.to # Forever => \E d \in assigned[o.branch] : d.from = n.to
    BY <1>2, <1>4
  <2>2. \A v \in Governing(versions[n.setup], n.from) :
           RowFits(versions[n.setup], v.sched, n.from, n.to)
    BY <1>2, <1>4, <1>14 DEF AssignFits
  <2> QED
    BY <1>6, <1>14, <2>1, <2>2, AssignRowsFit
<1> QED
  BY <1>10, <1>11, <1>12, <1>13, <1>14

LEMMA ReassignWrite ==
    ASSUME TypeOK, IdsInv, TimelineInv, NEW t \in Txns, Pending(t), NEW o, o = req[t].op,
           o.kind = "reassign", NEW effect, effect = ReassignEffect(t, o), ReassignReady(o),
           NEW new, new = Applied(assigned[o.branch], effect)
    PROVE  /\ effect \in Effects
           /\ Rewrites(assigned[o.branch], new, req[t].no, SetupsOf(o))
           /\ Contiguous(versions, new)
           /\ \A p \in periods[o.branch] : Kept(versions, new, p)
           /\ RowsFit(versions, assigned[o.branch]) /\ ReassignFits(o) => RowsFit(versions, new)
<1>1. /\ o.setup \in Setups /\ o.setup \in SetupsOf(o) /\ o.branch \in Branches
      /\ o.hint \in SetupsOf(o) \cup {None}
      /\ o.from \in 1 .. Horizon /\ req[t].no \in Nat
  BY RequestFacts
<1>2. PICK rows : rows = assigned[o.branch]
  OBVIOUS
<1>3. rows \in SUBSET AssignmentRows /\ Contiguous(versions, rows)
  BY <1>1, <1>2 DEF TypeOK, TimelineInv
<1>4. PICK a : a \in Spanning(o.branch, o.hint, o.from)
  BY DEF ReassignReady
<1>5. Spanning(o.branch, o.hint, o.from) = {a} /\ a \in rows
  BY <1>1, <1>2, <1>3, <1>4, OneSpans
<1>6. a.setup = o.hint /\ a.from < o.from /\ o.from < a.to
  BY <1>4 DEF Spanning
<1>7. a.setup \in Setups /\ a.to \in 1 .. Forever
  BY <1>3, <1>5 DEF AssignmentRows
<1>8. a.setup \in SetupsOf(o)
  BY <1>1, <1>6, <1>7, ConstantFacts
<1>9. PICK n : n = AssignmentRow(t, a.to)
  OBVIOUS
<1>10. /\ n \in AssignmentRows /\ n.id = req[t].no /\ n.setup = o.setup
       /\ n.from = o.from /\ n.to = a.to
  BY <1>1, <1>7, <1>9 DEF AssignmentRow, AssignmentRows
<1>11. PICK k : k = [a EXCEPT !.to = n.from]
  OBVIOUS
<1>12. PICK final : final = (rows \ {a}) \cup {k, n}
  OBVIOUS
<1>13. /\ k \in AssignmentRows /\ k.id = a.id /\ k.setup = a.setup
       /\ k.from = a.from /\ k.to = n.from
  BY <1>3, <1>5, <1>10, <1>11, ConstantFacts DEF AssignmentRows
<1>14. /\ Contiguous(versions, final)
       /\ \A p \in PeriodRows :
             Kept(versions, rows, p) /\ (p.end < n.from \/ a.to <= p.start)
                => Kept(versions, final, p)
  <2>1. HasSchedule(versions[n.setup], n.from)
    BY <1>10 DEF ReassignReady
  <2>2. a.from < n.from /\ n.from < a.to /\ n.to = a.to
    BY <1>6, <1>10
  <2>3. /\ Contiguous(versions, (rows \ {a}) \cup {k, n})
        /\ \A p \in PeriodRows :
              Kept(versions, rows, p) /\ (p.end < n.from \/ a.to <= p.start)
                 => Kept(versions, (rows \ {a}) \cup {k, n}, p)
    BY <1>3, <1>5, <1>10, <1>13, <2>1, <2>2, ReassignKeeps
  <2> QED
    BY <1>12, <2>3
<1>15. effect = [out |-> {a}, in |-> {k, n}]
  <2>1. effect = [out |-> {a}, in |-> UNION {{[x EXCEPT !.to = o.from], AssignmentRow(t, x.to)} :
                                              x \in {a}}]
    BY <1>5 DEF ReassignEffect
  <2>2. UNION {{[x EXCEPT !.to = o.from], AssignmentRow(t, x.to)} : x \in {a}}
          = {[a EXCEPT !.to = o.from], AssignmentRow(t, a.to)}
    OBVIOUS
  <2>3. {[a EXCEPT !.to = o.from], AssignmentRow(t, a.to)} = {k, n}
    BY <1>9, <1>10, <1>11
  <2> QED
    BY <2>1, <2>2, <2>3
<1>16. new = final
  BY <1>2, <1>12, <1>15 DEF Applied
<1>17. ASSUME NEW p \in periods[o.branch] PROVE Kept(versions, new, p)
  <2>1. p \in PeriodRows /\ Kept(versions, rows, p)
    BY <1>1, <1>2 DEF TypeOK, TimelineInv
  <2>2. p.end < n.from \/ a.to <= p.start
    BY <1>5, <1>10 DEF ReassignReady
  <2> QED
    BY <1>14, <1>16, <2>1, <2>2
<1>18. Rewrites(rows, new, req[t].no, SetupsOf(o))
  <2>1. \A x \in rows : x.id # req[t].no
    BY <1>1, <1>2 DEF IdsInv
  <2>2. \A x, y \in rows : x.id = y.id => x = y
    BY <1>1, <1>2 DEF IdsInv
  <2>3. ASSUME NEW x \in final, NEW y \in final, x.id = y.id PROVE x = y
    <3>1. k.id # n.id
      BY <1>5, <1>10, <1>13, <2>1
    <3>2. \A z \in rows \ {a} : z.id # k.id /\ z.id # n.id
      BY <1>5, <1>10, <1>13, <2>1, <2>2
    <3> QED
      BY <1>12, <2>2, <2>3, <3>1, <3>2
  <2>4. final \in SUBSET AssignmentRows
    BY <1>3, <1>10, <1>12, <1>13
  <2>5. \A x \in (rows \ final) \cup (final \ rows) : x \in {a, k, n}
    BY <1>12
  <2>6. \A x \in final : x.id = req[t].no \/ \E y \in rows : y.id = x.id /\ y.setup = x.setup
    BY <1>5, <1>10, <1>12, <1>13
  <2>7. \A x \in {a, k, n} : x.setup \in SetupsOf(o)
    BY <1>1, <1>8, <1>10, <1>13
  <2> QED
    BY <1>16, <2>3, <2>4, <2>5, <2>6, <2>7 DEF Rewrites
<1>19. effect \in Effects
  BY <1>3, <1>5, <1>10, <1>13, <1>15 DEF Effects
<1>20. ASSUME RowsFit(versions, rows), ReassignFits(o)
       PROVE  RowsFit(versions, final)
  <2>1. /\ \A v \in Governing(versions[a.setup], a.from) :
              EndFits(versions[a.setup], v.sched, a.from, n.from)
        /\ \A v \in Governing(versions[n.setup], n.from) :
              RowFits(versions[n.setup], v.sched, n.from, n.to)
    BY <1>4, <1>6, <1>10, <1>20 DEF ReassignFits
  <2>2. a.from < a.to
    BY <1>3, <1>5 DEF Contiguous
  <2> QED
    BY <1>3, <1>5, <1>10, <1>12, <1>13, <1>20, <2>1, <2>2, ReassignRowsFit
<1> QED
  BY <1>2, <1>14, <1>16, <1>17, <1>18, <1>19, <1>20

LEMMA WithdrawWrite ==
    ASSUME TypeOK, IdsInv, TimelineInv, NEW t \in Txns, Pending(t), NEW o, o = req[t].op,
           o.kind = "withdraw", NEW effect, effect = WithdrawEffect(o), WithdrawReady(o),
           NEW new, new = Applied(assigned[o.branch], effect)
    PROVE  /\ effect \in Effects
           /\ Rewrites(assigned[o.branch], new, req[t].no, SetupsOf(o))
           /\ Contiguous(versions, new)
           /\ \A p \in periods[o.branch] : Kept(versions, new, p)
           /\ RowsFit(versions, assigned[o.branch]) /\ WithdrawFits(o) => RowsFit(versions, new)
<1>1. /\ o.setup \in Setups /\ o.setup \in SetupsOf(o) /\ o.branch \in Branches
      /\ o.hint \in SetupsOf(o) \cup {None}
  BY RequestFacts
<1>2. PICK rows : rows = assigned[o.branch]
  OBVIOUS
<1>3. rows \in SUBSET AssignmentRows /\ Contiguous(versions, rows)
  BY <1>1, <1>2 DEF TypeOK, TimelineInv
<1>4. PICK x \in rows :
         /\ x.id = o.id
         /\ \A a \in rows : a.to = x.from => a.setup = o.hint
         /\ \A p \in periods[o.branch] : p.end < x.from \/ x.to <= p.start
  BY <1>2 DEF WithdrawReady
<1>5. /\ \A a, c \in rows : a.id = c.id => a = c
      /\ \A a \in rows : a.id = o.id => a.setup = o.setup
  BY <1>1, <1>2 DEF IdsInv
<1>6. PICK prior : prior = {a \in rows : a.to = x.from}
  OBVIOUS
<1>7. effect = [out |-> {x} \cup prior, in |-> {[a EXCEPT !.to = x.to] : a \in prior}]
  <2>1. (CHOOSE a \in rows : a.id = o.id) = x
    BY <1>4, <1>5
  <2>2. WithdrawEffect(o) = WithdrawOf(rows, o)
    BY <1>2 DEF WithdrawEffect, WithdrawOf
  <2> QED
    BY <1>6, <2>1, <2>2 DEF WithdrawOf
<1>8. \A p \in periods[o.branch] : p \in PeriodRows /\ Kept(versions, rows, p)
  BY <1>1, <1>2 DEF TypeOK, TimelineInv
<1>9. CASE prior = {}
  <2>1. effect = [out |-> {x}, in |-> {}]
    BY <1>7, <1>9
  <2>2. new = rows \ {x}
    BY <1>2, <2>1 DEF Applied
  <2>3. \A a \in rows : a.to # x.from
    BY <1>6, <1>9
  <2>4. /\ Contiguous(versions, rows \ {x})
        /\ \A p \in PeriodRows :
              Kept(versions, rows, p) /\ (p.end < x.from \/ x.to <= p.start)
                 => Kept(versions, rows \ {x}, p)
    BY <1>3, <2>3, WithdrawKeepsFirst
  <2>5. \A p \in periods[o.branch] : Kept(versions, new, p)
    BY <1>4, <1>8, <2>2, <2>4
  <2>6. Rewrites(rows, new, req[t].no, SetupsOf(o))
    BY <1>1, <1>3, <1>4, <1>5, <2>2 DEF Rewrites
  <2>7. effect \in Effects
    BY <1>3, <2>1 DEF Effects
  <2>8. RowsFit(versions, rows) => RowsFit(versions, rows \ {x})
    BY <2>3, WithdrawRowsFitFirst
  <2> QED
    BY <1>2, <2>2, <2>4, <2>5, <2>6, <2>7, <2>8
<1>10. CASE prior # {}
  <2>1. PICK q \in rows : q.to = x.from
    BY <1>6, <1>10
  <2>2. \A a \in rows : a.from \in Nat /\ a.to \in Nat /\ a.from < a.to
    BY <1>3, ConstantFacts DEF AssignmentRows, Contiguous
  <2>3. prior = {q}
    <3>1. ASSUME NEW a \in rows, a.to = x.from PROVE a = q
      <4>1. a # q => a.to <= q.from \/ q.to <= a.from
        BY <1>3 DEF Contiguous
      <4> QED
        BY <2>1, <2>2, <3>1, <4>1
    <3> QED
      BY <1>6, <2>1, <3>1
  <2>4. PICK k : k = [q EXCEPT !.to = x.to]
    OBVIOUS
  <2>5. /\ k \in AssignmentRows /\ k.id = q.id /\ k.setup = q.setup
        /\ k.from = q.from /\ k.to = x.to
    BY <1>3, <1>4, <2>4 DEF AssignmentRows
  <2>6. effect = [out |-> {x, q}, in |-> {k}]
    <3>1. {[a EXCEPT !.to = x.to] : a \in {q}} = {[q EXCEPT !.to = x.to]}
      OBVIOUS
    <3>2. {[a EXCEPT !.to = x.to] : a \in prior} = {k}
      BY <2>3, <2>4, <3>1
    <3>3. {x} \cup prior = {x, q}
      BY <2>3
    <3> QED
      BY <1>7, <3>2, <3>3
  <2>7. new = (rows \ {x, q}) \cup {k}
    BY <1>2, <2>6 DEF Applied
  <2>8. /\ Contiguous(versions, (rows \ {x, q}) \cup {k})
        /\ \A p \in PeriodRows :
              Kept(versions, rows, p) /\ (p.end < x.from \/ x.to <= p.start)
                 => Kept(versions, (rows \ {x, q}) \cup {k}, p)
    BY <1>3, <1>4, <2>1, <2>5, WithdrawKeepsPrior
  <2>9. \A p \in periods[o.branch] : Kept(versions, new, p)
    BY <1>4, <1>8, <2>7, <2>8
  <2>10. q.setup \in SetupsOf(o) /\ x.setup \in SetupsOf(o)
    <3>1. q.setup = o.hint /\ q.setup \in Setups
      BY <1>3, <1>4, <2>1 DEF AssignmentRows
    <3> QED
      BY <1>1, <1>4, <1>5, <3>1, ConstantFacts
  <2>11. Rewrites(rows, new, req[t].no, SetupsOf(o))
    <3>1. \A a \in (rows \ new) \cup (new \ rows) : a \in {x, q, k}
      BY <2>7
    <3>2. \A a, c \in new : a.id = c.id => a = c
      <4>1. \A a \in rows \ {x, q} : a.id # k.id
        BY <1>5, <2>1, <2>5
      <4> QED
        BY <1>5, <2>7, <4>1
    <3>3. new \in SUBSET AssignmentRows
      BY <1>3, <2>5, <2>7
    <3>4. \A a \in new : \E c \in rows : c.id = a.id /\ c.setup = a.setup
      BY <2>1, <2>5, <2>7
    <3>5. \A a \in {x, q, k} : a.setup \in SetupsOf(o)
      BY <2>5, <2>10
    <3> QED
      BY <3>1, <3>2, <3>3, <3>4, <3>5 DEF Rewrites
  <2>12. effect \in Effects
    BY <1>3, <1>4, <2>1, <2>5, <2>6 DEF Effects
  <2>13. ASSUME RowsFit(versions, rows), WithdrawFits(o) PROVE RowsFit(versions, new)
    <3>1. \A v \in Governing(versions[q.setup], q.from) :
             EndFits(versions[q.setup], v.sched, q.from, x.to)
      BY <1>2, <1>4, <2>1, <2>13 DEF WithdrawFits
    <3> QED
      BY <1>3, <2>1, <2>5, <2>7, <2>13, <3>1, WithdrawRowsFitPrior
  <2> QED
    BY <1>2, <2>7, <2>8, <2>9, <2>11, <2>12, <2>13
<1> QED
  BY <1>9, <1>10

\* All three together.
LEMMA BranchWrite ==
    ASSUME TypeOK, IdsInv, TimelineInv, NEW t \in Txns, Pending(t), NEW o, o = req[t].op,
           o.kind \in {"assign", "reassign", "withdraw"},
           NEW effect, Accepted(t, o, effect)
    PROVE  /\ effect \in Effects
           /\ Rewrites(assigned[o.branch], Applied(assigned[o.branch], effect),
                       req[t].no, SetupsOf(o))
           /\ Contiguous(versions, Applied(assigned[o.branch], effect))
           /\ \A p \in periods[o.branch] :
                 Kept(versions, Applied(assigned[o.branch], effect), p)
           /\ RowsFit(versions, assigned[o.branch]) /\ AcceptedFits(o, effect)
                 => RowsFit(versions, Applied(assigned[o.branch], effect))
<1>1. CASE o.kind = "assign"
  BY <1>1, AssignWrite DEF Accepted, AcceptedFits
<1>2. CASE o.kind = "reassign"
  BY <1>2, ReassignWrite DEF Accepted, AcceptedFits
<1>3. CASE o.kind = "withdraw"
  BY <1>3, WithdrawWrite DEF Accepted, AcceptedFits
<1> QED
  BY <1>1, <1>2, <1>3

\* Rows change only under the locks of the setups they belong to.
LEMMA RowsUnderLock ==
    ASSUME IInv, NEW t \in Txns, Write(t), NEW s \in Setups, setupLock[s] # t
    PROVE  /\ versions'[s] = versions[s]
           /\ \A b \in Branches : \A a : a.setup = s =>
                 (a \in assigned'[b] <=> a \in assigned[b])
<1> USE DEF IInv
<1>1. PICK o : o = req[t].op
  OBVIOUS
<1>2. PICK effect : effect = req[t].effect
  OBVIOUS
<1>3. req[t].pc = "writing" /\ Pending(t) /\ Accepted(t, o, effect)
  BY <1>1, <1>2 DEF Write, Pending, Idle, WriteInv
<1>4. s \notin SetupsOf(o)
  BY <1>1, <1>3, WriterHolds
<1>5. o.setup \in SetupsOf(o)
  BY <1>1, <1>3, RequestFacts
<1>6. versions'[s] = versions[s]
  BY <1>1, <1>4, <1>5 DEF Write, TypeOK, Timelines
<1>7. CASE o.kind \in {"publish", "archive"}
  BY <1>1, <1>6, <1>7 DEF Write
<1>8. CASE o.kind \notin {"publish", "archive"}
  <2>1. o.kind \in {"assign", "reassign", "withdraw"} /\ o.branch \in Branches
    BY <1>1, <1>3, <1>8, RequestFacts
  <2>2. assigned' = [assigned EXCEPT ![o.branch] = Applied(assigned[o.branch], effect)]
    BY <1>1, <1>2, <1>8 DEF Write, Applied
  <2>3. Rewrites(assigned[o.branch], Applied(assigned[o.branch], effect), req[t].no, SetupsOf(o))
    BY <1>1, <1>3, <2>1, BranchWrite
  <2>4. PICK new : new = Applied(assigned[o.branch], effect)
    OBVIOUS
  <2>5. \A a : a.setup = s => (a \in new <=> a \in assigned[o.branch])
    BY <1>4, <2>3, <2>4 DEF Rewrites
  <2>6. \A b \in Branches : assigned'[b] = IF b = o.branch THEN new ELSE assigned[b]
    BY <2>1, <2>2, <2>4 DEF TypeOK
  <2> QED
    BY <1>6, <2>5, <2>6
<1> QED
  BY <1>7, <1>8

-----------------------------------------------------------------------------
(* The steps of requests                                                   *)

LEMMA FinishFrees ==
    ASSUME TypeOK, NEW t \in Txns, Finish(t)
    PROVE  /\ setupLock' \in [Setups -> Txns \cup {None}]
           /\ branchLock' \in [Branches -> Txns \cup {None}]
           /\ req' \in [Txns -> Requested] /\ req'[t] = Idle
           /\ Held(setupLock, t)' = {} /\ Held(branchLock, t)' = {}
           /\ \A u \in Txns \ {t} : /\ req'[u] = req[u]
                                    /\ Held(setupLock, u)' = Held(setupLock, u)
                                    /\ Held(branchLock, u)' = Held(branchLock, u)
           /\ periods' = periods /\ requests' = requests
<1>1. setupLock' = [s \in Setups |-> IF setupLock[s] = t THEN None ELSE setupLock[s]]
  BY DEF Finish, Released, TypeOK
<1>2. branchLock' = [b \in Branches |-> IF branchLock[b] = t THEN None ELSE branchLock[b]]
  BY DEF Finish, Released, TypeOK
<1>3. req' = [req EXCEPT ![t] = Idle] /\ periods' = periods /\ requests' = requests
  BY DEF Finish
<1>4. setupLock' \in [Setups -> Txns \cup {None}] /\ branchLock' \in [Branches -> Txns \cup {None}]
  BY <1>1, <1>2 DEF TypeOK
<1>5. req' \in [Txns -> Requested] /\ req'[t] = Idle /\ \A u \in Txns \ {t} : req'[u] = req[u]
  BY <1>3 DEF TypeOK, Requested
<1>6. ASSUME NEW u \in Txns
      PROVE  /\ Held(setupLock, u)' = IF u = t THEN {} ELSE Held(setupLock, u)
             /\ Held(branchLock, u)' = IF u = t THEN {} ELSE Held(branchLock, u)
  <2>1. DOMAIN setupLock = Setups /\ DOMAIN branchLock = Branches
        /\ DOMAIN setupLock' = Setups /\ DOMAIN branchLock' = Branches
    BY <1>1, <1>2 DEF TypeOK
  <2>2. \A s \in Setups : setupLock'[s] = u <=> u # t /\ setupLock[s] = u
    BY <1>1, ConstantFacts
  <2>3. \A b \in Branches : branchLock'[b] = u <=> u # t /\ branchLock[b] = u
    BY <1>2, ConstantFacts
  <2> QED
    BY <2>1, <2>2, <2>3 DEF Held
<1> QED
  BY <1>3, <1>4, <1>5, <1>6

\* What a request may lock depends on the rows of its setup only.
LEMMA BranchesStable ==
    ASSUME TypeOK, NEW u \in Txns, Pending(u), req'[u] = req[u],
           NEW s, s = req[u].op.setup, versions'[s] = versions[s],
           \A b \in Branches : \A a : a.setup = s => (a \in assigned'[b] <=> a \in assigned[b])
    PROVE  BranchesOf(req[u].op)' = BranchesOf(req[u].op)
<1>1. PICK o : o = req[u].op /\ o = req'[u].op /\ o.setup = s
  OBVIOUS
<1>2. BranchesOf(o)' = BranchesOf(o)
  <2>1. CASE o.kind = "publish"
    <3>1. NextVersionDate(s, o.from)' = NextVersionDate(s, o.from)
      BY DEF NextVersionDate
    <3>2. \A b \in Branches : Affected(b, s, o.from)' = Affected(b, s, o.from)
      BY <3>1 DEF Affected
    <3> QED
      BY <1>1, <2>1, <3>2 DEF BranchesOf
  <2>2. CASE o.kind = "archive"
    BY <1>1, <2>2 DEF BranchesOf
  <2>3. CASE o.kind \notin {"publish", "archive"}
    BY <2>3 DEF BranchesOf
  <2> QED
    BY <2>1, <2>2, <2>3
<1>3. BranchesOf(req[u].op)' = BranchesOf(o)'
  BY <1>1 DEF BranchesOf, Affected, NextVersionDate
<1>4. BranchesOf(req[u].op) = BranchesOf(o)
  BY <1>1
<1> QED
  BY <1>2, <1>3, <1>4

\* The identifiers that a finished request leaves.
LEMMA IdsKept ==
    ASSUME TypeOK, IdsInv, NEW t \in Txns, Pending(t), req'[t] = Idle, requests' = requests,
           \A u \in Txns \ {t} : req'[u] = req[u],
           NEW locked,
           \A b \in Branches : \/ assigned'[b] = assigned[b]
                               \/ Rewrites(assigned[b], assigned'[b], req[t].no, locked)
    PROVE  IdsInv'
<1>1. req[t].no \in Nat /\ req[t].no <= requests /\ requests \in Nat
  BY RequestFacts DEF IdsInv, TypeOK
<1>2. ASSUME NEW b \in Branches
      PROVE  /\ \A x, y \in assigned'[b] : x.id = y.id => x = y
             /\ \A x \in assigned'[b] :
                   x.id = req[t].no \/ \E y \in assigned[b] : y.id = x.id /\ y.setup = x.setup
  <2>1. CASE assigned'[b] = assigned[b]
    BY <2>1 DEF IdsInv
  <2>2. CASE Rewrites(assigned[b], assigned'[b], req[t].no, locked)
    BY <2>2 DEF Rewrites
  <2> QED
    BY <1>2, <2>1, <2>2
<1>3. \A b \in Branches : \A x \in assigned'[b] : x.id <= requests'
  BY <1>1, <1>2 DEF IdsInv
<1>4. ASSUME NEW u \in Txns, Pending(u)'
      PROVE  /\ 1 <= req'[u].no /\ req'[u].no <= requests'
             /\ \A w \in Txns : Pending(w)' /\ req'[w].no = req'[u].no => w = u
             /\ \A b \in Branches : \A a \in assigned'[b] : a.id # req'[u].no
             /\ req'[u].op.kind = "withdraw" =>
                   /\ req'[u].op.id <= requests'
                   /\ \A w \in Txns : Pending(w)' => req'[w].no # req'[u].op.id
                   /\ \A a \in assigned'[req'[u].op.branch] :
                         a.id = req'[u].op.id => a.setup = req'[u].op.setup
  <2>1. u # t /\ req'[u] = req[u] /\ Pending(u)
    BY <1>4 DEF Pending
  <2>2. \A w \in Txns : Pending(w)' => req'[w] = req[w] /\ Pending(w)
    BY DEF Pending
  <2>3. 1 <= req'[u].no /\ req'[u].no <= requests'
    BY <2>1 DEF IdsInv
  <2>4. \A w \in Txns : Pending(w)' /\ req'[w].no = req'[u].no => w = u
    BY <2>1, <2>2 DEF IdsInv
  <2>5. ASSUME NEW b \in Branches, NEW a \in assigned'[b] PROVE a.id # req'[u].no
    <3>1. req[t].no # req[u].no
      BY <2>1 DEF IdsInv
    <3>2. \A y \in assigned[b] : y.id # req[u].no
      BY <2>1 DEF IdsInv
    <3> QED
      BY <1>2, <2>1, <3>1, <3>2
  <2>6. ASSUME req'[u].op.kind = "withdraw"
        PROVE  /\ req'[u].op.id <= requests'
               /\ \A w \in Txns : Pending(w)' => req'[w].no # req'[u].op.id
               /\ \A a \in assigned'[req'[u].op.branch] :
                     a.id = req'[u].op.id => a.setup = req'[u].op.setup
    <3>1. PICK o : o = req[u].op
      OBVIOUS
    <3>2. /\ o.id <= requests /\ \A w \in Txns : Pending(w) => req[w].no # o.id
          /\ \A a \in assigned[o.branch] : a.id = o.id => a.setup = o.setup
      BY <2>1, <2>6, <3>1 DEF IdsInv
    <3>3. o.branch \in Branches
      BY <2>1, <2>6, <3>1, RequestFacts
    <3>4. \A a \in assigned'[o.branch] : a.id = o.id => a.setup = o.setup
      <4> SUFFICES ASSUME NEW a \in assigned'[o.branch], a.id = o.id PROVE a.setup = o.setup
        OBVIOUS
      <4>1. a.id # req[t].no
        BY <3>2
      <4>2. PICK y \in assigned[o.branch] : y.id = a.id /\ y.setup = a.setup
        BY <1>2, <3>3, <4>1
      <4> QED
        BY <3>2, <4>2
    <3> QED
      BY <2>1, <2>2, <3>1, <3>2, <3>4
  <2> QED
    BY <2>3, <2>4, <2>5, <2>6
<1> QED
  BY <1>2, <1>3, <1>4 DEF IdsInv

LEMMA GiveUpKeeps ==
    ASSUME IInv, NEW t \in Txns, GiveUp(t)
    PROVE  IInv'
<1> USE DEF IInv
<1>1. /\ versions' = versions /\ archived' = archived /\ assigned' = assigned
      /\ Finish(t) /\ Pending(t)
  BY DEF GiveUp, Pending
<1>2. /\ setupLock' \in [Setups -> Txns \cup {None}]
      /\ branchLock' \in [Branches -> Txns \cup {None}]
      /\ req' \in [Txns -> Requested] /\ req'[t] = Idle
      /\ Held(setupLock, t)' = {} /\ Held(branchLock, t)' = {}
      /\ \A u \in Txns \ {t} : /\ req'[u] = req[u]
                               /\ Held(setupLock, u)' = Held(setupLock, u)
                               /\ Held(branchLock, u)' = Held(branchLock, u)
      /\ periods' = periods /\ requests' = requests
  BY <1>1, FinishFrees
<1>3. TypeOK'
  BY <1>1, <1>2 DEF TypeOK
<1>4. IdsInv'
  BY <1>1, <1>2, IdsKept
<1>5. LockInv'
  <2>1. DOMAIN setupLock' = Setups /\ DOMAIN branchLock' = Branches
    BY <1>2
  <2>2. \A u \in Txns \ {t} : Pending(u) /\ SetupsLeft(u) = {} =>
           BranchesOf(req[u].op)' = BranchesOf(req[u].op)
    BY <1>1, <1>2, BranchesStable
  <2>3. req'[t].pc # "writing"
    BY <1>2 DEF Idle
  <2> QED
    BY <1>2, <2>1, <2>2, <2>3, LocksKept
<1>6. WriteInv'
  <2> SUFFICES ASSUME NEW u \in Txns, req'[u].pc = "writing"
               PROVE  Accepted(u, req[u].op, req[u].effect)'
    BY DEF WriteInv
  <2>1. u # t /\ req'[u] = req[u]
    BY <1>2 DEF Idle
  <2>2. PICK o, effect : o = req[u].op /\ effect = req[u].effect
    OBVIOUS
  <2>3. Pending(u) /\ Accepted(u, o, effect)
    BY <2>1, <2>2 DEF WriteInv, Pending, Idle
  <2>4. o.kind = "publish" => PublishReady(o)'
    <3> SUFFICES ASSUME o.kind = "publish" PROVE PublishReady(o)'
      OBVIOUS
    <3>1. PublishReady(o)
      BY <2>3 DEF Accepted
    <3> QED
      BY <1>1, <1>2, <3>1, PublishStays
  <2>5. Accepted(u, o, effect)'
    BY <1>1, <1>2, <2>1, <2>2, <2>3, <2>4, AcceptedStays
  <2> QED
    BY <2>1, <2>2, <2>5
<1>7. TimelineInv'
  BY <1>1, <1>2 DEF TimelineInv
<1> QED
  BY <1>3, <1>4, <1>5, <1>6, <1>7

\* What the write of a request makes of the state.
LEMMA WriteEffect ==
    ASSUME IInv, NEW t \in Txns, Write(t), NEW o, o = req[t].op
    PROVE  /\ Pending(t) /\ Finish(t) /\ archived' \in SUBSET Setups
           /\ o.kind = "publish" =>
                 /\ assigned' = assigned
                 /\ \E v \in VersionRows :
                       versions' = [versions EXCEPT ![o.setup] =
                          (versions[o.setup] \ {w \in versions[o.setup] : w.from = v.from}) \cup {v}]
                       /\ v.from = o.from
           /\ o.kind = "archive" => versions' = versions /\ assigned' = assigned
           /\ o.kind \in {"assign", "reassign", "withdraw"} =>
                 /\ versions' = versions /\ o.branch \in Branches
                 /\ \E new : /\ assigned' = [assigned EXCEPT ![o.branch] = new]
                             /\ Rewrites(assigned[o.branch], new, req[t].no, SetupsOf(o))
                             /\ Contiguous(versions, new)
                             /\ \A p \in periods[o.branch] : Kept(versions, new, p)
<1> USE DEF IInv
<1>1. PICK effect : effect = req[t].effect
  OBVIOUS
<1>2. req[t].pc = "writing" /\ Pending(t) /\ Accepted(t, o, effect) /\ Finish(t)
  BY <1>1 DEF Write, Pending, Idle, WriteInv
<1>3. o \in Operations /\ o.setup \in Setups
  BY <1>2, RequestFacts
<1>4. archived' \in SUBSET Setups
  BY <1>3 DEF Write, TypeOK
<1>5. ASSUME o.kind = "publish"
      PROVE  /\ assigned' = assigned
             /\ \E v \in VersionRows :
                   versions' = [versions EXCEPT ![o.setup] =
                      (versions[o.setup] \ {w \in versions[o.setup] : w.from = v.from}) \cup {v}]
                   /\ v.from = o.from
  <2>1. PICK sched \in Schedules : effect = PublishEffect(o, sched)
    BY <1>2, <1>5 DEF Accepted
  <2>2. PICK v \in VersionRows :
           /\ v.from = o.from /\ effect.in = {v}
           /\ effect.out = {w \in versions[o.setup] : w.from = v.from}
    BY <1>3, <1>5, <2>1, PublishShape
  <2>3. versions' = [versions EXCEPT ![o.setup] = (@ \ effect.out) \cup effect.in]
    BY <1>1, <1>5 DEF Write
  <2>4. assigned' = assigned
    BY <1>5 DEF Write
  <2> QED
    BY <2>2, <2>3, <2>4
<1>6. ASSUME o.kind = "archive" PROVE versions' = versions /\ assigned' = assigned
  BY <1>6 DEF Write
<1>7. ASSUME o.kind \in {"assign", "reassign", "withdraw"}
      PROVE  /\ versions' = versions /\ o.branch \in Branches
             /\ \E new : /\ assigned' = [assigned EXCEPT ![o.branch] = new]
                         /\ Rewrites(assigned[o.branch], new, req[t].no, SetupsOf(o))
                         /\ Contiguous(versions, new)
                         /\ \A p \in periods[o.branch] : Kept(versions, new, p)
  <2>1. versions' = versions /\ o.branch \in Branches
    BY <1>2, <1>7, RequestFacts DEF Write
  <2>2. assigned' = [assigned EXCEPT ![o.branch] = Applied(assigned[o.branch], effect)]
    BY <1>1, <1>7 DEF Write, Applied
  <2>3. PICK new : new = Applied(assigned[o.branch], effect)
    OBVIOUS
  <2>4. /\ Rewrites(assigned[o.branch], new, req[t].no, SetupsOf(o))
        /\ Contiguous(versions, new)
        /\ \A p \in periods[o.branch] : Kept(versions, new, p)
    BY <1>2, <1>7, <2>3, BranchWrite
  <2> QED
    BY <2>1, <2>2, <2>3, <2>4
<1> QED
  BY <1>2, <1>4, <1>5, <1>6, <1>7

\* A write leaves alone what the others hold locks for.
LEMMA OthersUndisturbed ==
    ASSUME IInv, NEW t \in Txns, Write(t), NEW u \in Txns \ {t}, req[u].pc = "writing",
           NEW c, c = req[u].op
    PROVE  /\ \A s \in SetupsOf(c) :
                 /\ s \in Setups /\ versions'[s] = versions[s]
                 /\ \A b \in Branches : \A a : a.setup = s => (a \in assigned'[b] <=> a \in assigned[b])
           /\ c.kind \in {"assign", "reassign", "withdraw"} =>
                 assigned'[c.branch] = assigned[c.branch]
<1>1. PICK o :
         /\ o = req[t].op
         /\ o.kind \in {"publish", "archive"} => assigned' = assigned
         /\ o.kind \in {"assign", "reassign", "withdraw"} =>
               \E new : assigned' = [assigned EXCEPT ![o.branch] = new]
  <2>1. PICK o : o = req[t].op
    OBVIOUS
  <2>2. o.kind = "publish" => assigned' = assigned
    BY <2>1, WriteEffect
  <2>3. o.kind = "archive" => assigned' = assigned
    BY <2>1, WriteEffect
  <2>4. o.kind \in {"assign", "reassign", "withdraw"} =>
           \E new : /\ assigned' = [assigned EXCEPT ![o.branch] = new]
                    /\ Rewrites(assigned[o.branch], new, req[t].no, SetupsOf(o))
                    /\ Contiguous(versions, new)
                    /\ \A p \in periods[o.branch] : Kept(versions, new, p)
    BY <2>1, WriteEffect
  <2> QED
    BY <2>1, <2>2, <2>3, <2>4
<1> USE DEF IInv
<1>2. Pending(t) /\ Pending(u) /\ req[t].pc = "writing"
  <2>1. Pending(u)
    BY DEF Pending, Idle
  <2>2. req[t].pc = "writing"
    BY DEF Write
  <2>3. Pending(t)
    BY <2>2 DEF Pending, Idle
  <2> QED
    BY <2>1, <2>2, <2>3
<1>3. ASSUME NEW s \in SetupsOf(c)
      PROVE  /\ s \in Setups /\ versions'[s] = versions[s]
             /\ \A b \in Branches : \A a : a.setup = s => (a \in assigned'[b] <=> a \in assigned[b])
  <2>1. s \in Setups
    BY <1>2, <1>3, RequestFacts
  <2>2. setupLock[s] = u
    BY <1>3, WriterHolds
  <2> QED
    BY <2>1, <2>2, RowsUnderLock
<1>4. ASSUME c.kind \in {"assign", "reassign", "withdraw"}
      PROVE  assigned'[c.branch] = assigned[c.branch]
  <2>1. c.branch \in Branches /\ c.branch \in BranchesOf(c)
    BY <1>2, <1>4, RequestFacts
  <2>2. branchLock[c.branch] = u
    BY <2>1, WriterHolds
  <2>3. CASE o.kind \in {"publish", "archive"}
    BY <1>1, <2>3
  <2>4. CASE o.kind \in {"assign", "reassign", "withdraw"}
    <3>1. o.branch \in Branches /\ o.branch \in BranchesOf(o)
      BY <1>1, <1>2, <2>4, RequestFacts
    <3>2. branchLock[o.branch] = t
      BY <1>1, <1>2, <3>1, WriterHolds
    <3>3. c.branch # o.branch
      BY <2>2, <3>2
    <3>4. PICK new : assigned' = [assigned EXCEPT ![o.branch] = new]
      BY <1>1, <2>4
    <3>5. DOMAIN assigned = Branches
      <4>1. assigned \in [Branches -> SUBSET AssignmentRows]
        BY DEF TypeOK
      <4> QED
        BY <4>1
    <3>6. PICK x \in Branches : x = c.branch
      BY <2>1
    <3>7. assigned'[x] = assigned[x]
      <4>1. PICK y : y = o.branch /\ y # x
        BY <3>3, <3>6
      <4>2. assigned' = [assigned EXCEPT ![y] = new]
        BY <3>4, <4>1
      <4> QED
        BY <3>5, <4>1, <4>2
    <3> QED
      BY <3>6, <3>7
  <2>5. o.kind \in {"publish", "archive", "assign", "reassign", "withdraw"}
    BY <1>1, <1>2, RequestFacts
  <2> QED
    BY <2>3, <2>4, <2>5
<1> QED
  BY <1>3, <1>4

LEMMA WriteTimelines ==
    ASSUME IInv, NEW t \in Txns, Write(t)
    PROVE  TypeOK' /\ TimelineInv'
<1> USE DEF IInv
<1>1. PICK o : o = req[t].op
  OBVIOUS
<1>2. Pending(t) /\ Finish(t) /\ archived' \in SUBSET Setups
  BY <1>1, WriteEffect
<1>3. /\ setupLock' \in [Setups -> Txns \cup {None}]
      /\ branchLock' \in [Branches -> Txns \cup {None}]
      /\ req' \in [Txns -> Requested] /\ periods' = periods /\ requests' = requests
  BY <1>2, FinishFrees
<1>4. o.setup \in Setups /\ o.kind \in {"publish", "archive", "assign", "reassign", "withdraw"}
  BY <1>1, <1>2, RequestFacts
<1>5. CASE o.kind = "publish"
  <2>1. PICK v \in VersionRows :
           versions' = [versions EXCEPT ![o.setup] =
              (versions[o.setup] \ {w \in versions[o.setup] : w.from = v.from}) \cup {v}]
           /\ v.from = o.from
    BY <1>1, <1>5, WriteEffect
  <2>2. assigned' = assigned
    BY <1>1, <1>5, WriteEffect
  <2>3. PICK vs \in SUBSET VersionRows : vs = versions[o.setup] /\ IsFiniteSet(vs)
    BY <1>4 DEF TypeOK, Timelines
  <2>4. PICK new : new = (vs \ {w \in vs : w.from = v.from}) \cup {v}
    OBVIOUS
  <2>5. versions' = [versions EXCEPT ![o.setup] = new]
    BY <2>1, <2>3, <2>4
  <2>6. new \in SUBSET VersionRows
    BY <2>4
  <2>7. IsFiniteSet(new)
    <3>1. PICK rest \in SUBSET vs : rest = vs \ {w \in vs : w.from = v.from}
      OBVIOUS
    <3>2. IsFiniteSet(rest)
      BY <2>3, <3>1, FS_Subset
    <3>3. IsFiniteSet(rest \cup {v})
      BY <3>2, FS_AddElement
    <3> QED
      BY <2>4, <3>1, <3>3
  <2>8. versions' \in Timelines /\ \A s \in Setups : IsFiniteSet(versions'[s])
    <3>1. \A s \in Setups : versions'[s] = IF s = o.setup THEN new ELSE versions[s]
      BY <1>4, <2>5 DEF TypeOK, Timelines
    <3>2. versions' \in Timelines
      BY <1>4, <2>5, <2>6 DEF TypeOK, Timelines
    <3> QED
      BY <2>7, <3>1, <3>2 DEF TypeOK
  <2>9. TypeOK'
    BY <1>2, <1>3, <2>2, <2>8 DEF TypeOK
  <2>10. Accepted(t, o, req[t].effect)
    BY <1>1 DEF Write, WriteInv
  <2>11. PublishReady(o)
    BY <1>5, <2>10 DEF Accepted
  <2>12. PICK vers : vers = versions
    OBVIOUS
  <2>13. PICK next : next = versions'
    OBVIOUS
  <2>14. /\ vers \in Timelines /\ next \in Timelines
         /\ Published(vers[o.setup], next[o.setup], v)
         /\ \A s \in Setups \ {o.setup} : next[s] = vers[s]
    <3>1. \A s \in Setups : next[s] = IF s = o.setup THEN new ELSE vers[s]
      BY <1>4, <2>5, <2>12, <2>13 DEF TypeOK, Timelines
    <3> QED
      BY <1>4, <2>3, <2>4, <2>8, <2>12, <2>13, <3>1 DEF TypeOK, Published
  <2>15. ASSUME NEW b \in Branches
         PROVE  /\ Contiguous(versions, assigned[b])'
                /\ \A p \in periods'[b] : Kept(versions, assigned[b], p)'
    <3>1. PICK rows \in SUBSET AssignmentRows : rows = assigned[b] /\ rows = assigned'[b]
      BY <2>2 DEF TypeOK
    <3>2. Contiguous(vers, rows)
      BY <2>12, <3>1 DEF TimelineInv
    <3>3. Contiguous(next, rows)
      BY <1>4, <2>14, <3>2, PublishContiguous
    <3>4. ASSUME NEW p \in periods[b] PROVE Kept(next, rows, p)
      <4>1. p \in PeriodRows /\ Kept(vers, rows, p)
        BY <2>12, <3>1 DEF TypeOK, TimelineInv
      <4>2. \A a \in rows : a.setup = o.setup /\ Covers(a, p.start) =>
               \/ p.end < v.from
               \/ \E w \in vers[o.setup] : v.from < w.from /\ w.from <= p.start
        BY <2>1, <2>11, <2>12, <3>1 DEF PublishReady
      <4> QED
        BY <1>4, <2>14, <3>2, <4>1, <4>2, PublishKeeps
    <3>5. Contiguous(versions, assigned[b])'
      BY <2>13, <3>1, <3>3 DEF Contiguous
    <3>6. ASSUME NEW p \in periods'[b] PROVE Kept(versions, assigned[b], p)'
      <4>1. Kept(next, rows, p)
        BY <1>3, <3>4
      <4> QED
        BY <2>13, <3>1, <4>1 DEF Kept, Governs
    <3> QED
      BY <3>5, <3>6
  <2>16. TimelineInv'
    BY <2>15 DEF TimelineInv
  <2> QED
    BY <2>9, <2>16
<1>6. CASE o.kind = "archive"
  <2>1. versions' = versions /\ assigned' = assigned
    BY <1>1, <1>6, WriteEffect
  <2> QED
    BY <1>2, <1>3, <2>1 DEF TypeOK, TimelineInv
<1>7. CASE o.kind \in {"assign", "reassign", "withdraw"}
  <2>1. versions' = versions /\ o.branch \in Branches
    BY <1>1, <1>7, WriteEffect
  <2>2. PICK new : /\ assigned' = [assigned EXCEPT ![o.branch] = new]
                   /\ Rewrites(assigned[o.branch], new, req[t].no, SetupsOf(o))
                   /\ Contiguous(versions, new)
                   /\ \A p \in periods[o.branch] : Kept(versions, new, p)
    BY <1>1, <1>7, WriteEffect
  <2>3. new \in SUBSET AssignmentRows
    BY <2>2 DEF Rewrites
  <2>4. assigned' \in [Branches -> SUBSET AssignmentRows]
        /\ \A b \in Branches : assigned'[b] = IF b = o.branch THEN new ELSE assigned[b]
    BY <2>1, <2>2, <2>3 DEF TypeOK
  <2>5. TypeOK'
    BY <1>2, <1>3, <2>1, <2>4 DEF TypeOK
  <2>6. ASSUME NEW b \in Branches
        PROVE  /\ Contiguous(versions, assigned[b])'
               /\ \A p \in periods'[b] : Kept(versions, assigned[b], p)'
    <3>1. Contiguous(versions, assigned[b])' <=> Contiguous(versions, assigned'[b])
      BY <2>1 DEF Contiguous
    <3>2. \A p : Kept(versions, assigned[b], p)' <=> Kept(versions, assigned'[b], p)
      BY <2>1 DEF Kept, Governs
    <3>3. /\ Contiguous(versions, assigned'[b])
          /\ \A p \in periods[b] : Kept(versions, assigned'[b], p)
      BY <2>2, <2>4 DEF TimelineInv
    <3> QED
      BY <1>3, <3>1, <3>2, <3>3
  <2>7. TimelineInv'
    BY <2>6 DEF TimelineInv
  <2> QED
    BY <2>5, <2>7
<1> QED
  BY <1>4, <1>5, <1>6, <1>7

LEMMA WriteKeeps ==
    ASSUME IInv, NEW t \in Txns, Write(t)
    PROVE  IInv'
<1> USE DEF IInv
<1>1. PICK o : o = req[t].op
  OBVIOUS
<1>2. Pending(t) /\ Finish(t) /\ req[t].pc = "writing"
  BY <1>1, WriteEffect DEF Write
<1>3. /\ setupLock' \in [Setups -> Txns \cup {None}]
      /\ branchLock' \in [Branches -> Txns \cup {None}]
      /\ req' \in [Txns -> Requested] /\ req'[t] = Idle
      /\ Held(setupLock, t)' = {} /\ Held(branchLock, t)' = {}
      /\ \A u \in Txns \ {t} : /\ req'[u] = req[u]
                               /\ Held(setupLock, u)' = Held(setupLock, u)
                               /\ Held(branchLock, u)' = Held(branchLock, u)
      /\ periods' = periods /\ requests' = requests
  BY <1>2, FinishFrees
<1>4. TypeOK' /\ TimelineInv'
  BY WriteTimelines
<1>5. o.kind \in {"publish", "archive", "assign", "reassign", "withdraw"}
  BY <1>1, <1>2, RequestFacts
<1>6. IdsInv'
  <2>1. \A b \in Branches : \/ assigned'[b] = assigned[b]
                            \/ Rewrites(assigned[b], assigned'[b], req[t].no, SetupsOf(o))
    <3>1. CASE o.kind \in {"publish", "archive"}
      BY <1>1, <3>1, WriteEffect
    <3>2. CASE o.kind \in {"assign", "reassign", "withdraw"}
      <4>1. o.branch \in Branches
        BY <1>1, <3>2, WriteEffect
      <4>2. PICK new : /\ assigned' = [assigned EXCEPT ![o.branch] = new]
                       /\ Rewrites(assigned[o.branch], new, req[t].no, SetupsOf(o))
        BY <1>1, <3>2, WriteEffect
      <4>3. \A b \in Branches : assigned'[b] = IF b = o.branch THEN new ELSE assigned[b]
        BY <4>1, <4>2 DEF TypeOK
      <4> QED
        BY <4>2, <4>3
    <3> QED
      BY <1>5, <3>1, <3>2
  <2> QED
    BY <1>2, <1>3, <2>1, IdsKept
\* The others' setups are locked by them, and so keep their rows.
<1>7. ASSUME NEW u \in Txns \ {t}, Pending(u), SetupsLeft(u) = {}, NEW s \in SetupsOf(req[u].op)
      PROVE  /\ s \in Setups /\ versions'[s] = versions[s]
             /\ \A b \in Branches : \A a : a.setup = s => (a \in assigned'[b] <=> a \in assigned[b])
  <2>1. s \in Setups
    BY <1>7, RequestFacts
  <2>2. setupLock[s] = u
    BY <1>7 DEF SetupsLeft, Held
  <2> QED
    BY <2>1, <2>2, RowsUnderLock
<1>8. LockInv'
  <2>1. DOMAIN setupLock' = Setups /\ DOMAIN branchLock' = Branches
    BY <1>3
  <2>2. ASSUME NEW u \in Txns \ {t}, Pending(u), SetupsLeft(u) = {}
        PROVE  BranchesOf(req[u].op)' = BranchesOf(req[u].op)
    <3>1. PICK s : s = req[u].op.setup
      OBVIOUS
    <3>2. s \in SetupsOf(req[u].op)
      BY <2>2, <3>1, RequestFacts
    <3>3. /\ versions'[s] = versions[s]
          /\ \A b \in Branches : \A a : a.setup = s => (a \in assigned'[b] <=> a \in assigned[b])
      BY <1>7, <2>2, <3>2
    <3> QED
      BY <1>3, <2>2, <3>1, <3>3, BranchesStable
  <2>3. req'[t].pc # "writing"
    BY <1>3 DEF Idle
  <2> QED
    BY <1>3, <2>1, <2>2, <2>3, LocksKept
<1>9. WriteInv'
  <2> SUFFICES ASSUME NEW u \in Txns, req'[u].pc = "writing"
               PROVE  Accepted(u, req[u].op, req[u].effect)'
    BY DEF WriteInv
  <2>1. u # t /\ req'[u] = req[u] /\ u \in Txns \ {t}
    BY <1>3 DEF Idle
  <2>2. PICK c, effect : c = req[u].op /\ effect = req[u].effect
    OBVIOUS
  <2>3. Pending(u) /\ Accepted(u, c, effect) /\ SetupsLeft(u) = {} /\ req[u].pc = "writing"
    BY <2>1, <2>2 DEF WriteInv, Pending, Idle, LockInv
  <2>4. /\ \A s \in SetupsOf(c) :
             /\ s \in Setups /\ versions'[s] = versions[s]
             /\ \A b \in Branches : \A a : a.setup = s => (a \in assigned'[b] <=> a \in assigned[b])
        /\ c.kind \in {"assign", "reassign", "withdraw"} => assigned'[c.branch] = assigned[c.branch]
    BY <2>1, <2>2, <2>3, OthersUndisturbed
  <2>5. c.setup \in SetupsOf(c)
    BY <2>2, <2>3, RequestFacts
  <2>6. c.kind = "publish" => PublishReady(c)'
    <3> SUFFICES ASSUME c.kind = "publish" PROVE PublishReady(c)'
      OBVIOUS
    <3>1. PublishReady(c)
      BY <2>3 DEF Accepted
    <3>2. \A b \in Branches : \A p \in periods'[b] :
             \E q \in periods[b] : q.start = p.start /\ q.end = p.end
      BY <1>3
    <3> QED
      BY <2>4, <2>5, <3>1, <3>2, PublishStays
  <2>7. Accepted(u, c, effect)'
    BY <1>3, <2>1, <2>2, <2>3, <2>4, <2>6, AcceptedStays
  <2> QED
    BY <2>1, <2>2, <2>7
<1> QED
  BY <1>4, <1>6, <1>8, <1>9

\* What a write leaves fits where what it found did.
LEMMA WriteFitKeeps ==
    ASSUME IInv, FitInv, NEW t \in Txns, Write(t)
    PROVE  FitInv'
<1> USE DEF IInv
<1>1. PICK o, effect : o = req[t].op /\ effect = req[t].effect
  OBVIOUS
<1>2. /\ Pending(t) /\ Finish(t) /\ req[t].pc = "writing"
      /\ Accepted(t, o, effect) /\ AcceptedFits(o, effect)
  BY <1>1, WriteEffect DEF Write, WriteInv, FitInv
<1>3. o \in Operations /\ o.setup \in Setups
      /\ o.kind \in {"publish", "archive", "assign", "reassign", "withdraw"}
  BY <1>1, <1>2, RequestFacts
<1>4. ASSUME NEW u \in Txns, req'[u].pc = "writing"
      PROVE  AcceptedFits(req[u].op, req[u].effect)'
  <2>1. u \in Txns \ {t} /\ req'[u] = req[u]
    BY <1>2, <1>4, FinishFrees DEF Idle
  <2>2. PICK c, e : c = req[u].op /\ e = req[u].effect
    OBVIOUS
  <2>3. Pending(u) /\ AcceptedFits(c, e) /\ req[u].pc = "writing"
    BY <1>4, <2>1, <2>2 DEF FitInv, Pending, Idle
  <2>4. /\ \A s \in SetupsOf(c) :
             /\ versions'[s] = versions[s]
             /\ \A b \in Branches : \A a : a.setup = s => (a \in assigned'[b] <=> a \in assigned[b])
        /\ c.kind \in {"assign", "reassign", "withdraw"} => assigned'[c.branch] = assigned[c.branch]
    BY <2>1, <2>2, <2>3, OthersUndisturbed
  <2>5. c.setup \in SetupsOf(c)
    BY <2>2, <2>3, RequestFacts
  <2>6. AcceptedFits(c, e)'
    BY <2>2, <2>3, <2>4, <2>5, FitsStay
  <2> QED
    BY <2>1, <2>2, <2>6
<1>5. /\ \A s \in Setups : VersionsFit(versions'[s])
      /\ \A b \in Branches : RowsFit(versions', assigned'[b])
  <2>1. CASE o.kind = "publish"
    <3>1. PICK sched \in Schedules : effect = PublishEffect(o, sched) /\ PublishFits(o, sched)
      BY <1>2, <2>1 DEF AcceptedFits
    <3>2. PICK v \in VersionRows :
             /\ v.from = o.from /\ effect.in = {v}
             /\ effect.out = {w \in versions[o.setup] : w.from = v.from}
      BY <1>3, <2>1, <3>1, PublishShape
    <3>3. v.sched = sched
      <4>1. PICK n : n = Max({0} \cup {w.no : w \in versions[o.setup]}) + 1
        OBVIOUS
      <4>2. effect.in = {[no |-> n, from |-> o.from, sched |-> sched]}
        BY <3>1, <4>1 DEF PublishEffect
      <4>3. v = [no |-> n, from |-> o.from, sched |-> sched]
        BY <3>2, <4>2
      <4> QED
        BY <4>3
    <3>4. versions' = [versions EXCEPT ![o.setup] = (@ \ effect.out) \cup effect.in] /\ assigned' = assigned
      BY <1>1, <2>1 DEF Write
    <3>5. PICK vers, next : vers = versions /\ next = versions'
      OBVIOUS
    <3>6. /\ vers \in Timelines /\ next \in Timelines
          /\ Published(vers[o.setup], next[o.setup], v)
          /\ \A s \in Setups \ {o.setup} : next[s] = vers[s]
      <4>1. TypeOK'
        BY WriteTimelines
      <4>2. next = [vers EXCEPT ![o.setup] = (vers[o.setup] \ {w \in vers[o.setup] : w.from = v.from}) \cup {v}]
        BY <3>2, <3>4, <3>5
      <4> QED
        BY <1>3, <3>5, <4>1, <4>2 DEF TypeOK, Timelines, Published
    <3>7. VersionsFit(next[o.setup])
      <4>1. VersionsFit(vers[o.setup]) /\ Fits(vers[o.setup], v.from, v.sched)
        BY <1>3, <3>1, <3>2, <3>3, <3>5 DEF FitInv, PublishFits
      <4>2. IsFiniteSet(vers[o.setup])
        BY <1>3, <3>5 DEF TypeOK
      <4> QED
        BY <1>3, <3>6, <4>1, <4>2, PublishVersionsFit DEF Timelines
    <3>8. ASSUME NEW b \in Branches PROVE RowsFit(next, assigned[b])
      <4>1. PICK rows \in SUBSET AssignmentRows : rows = assigned[b]
        BY DEF TypeOK
      <4>2. RowsFit(vers, rows) /\ Contiguous(vers, rows)
        BY <3>5, <4>1 DEF FitInv, TimelineInv
      <4>3. \A a \in rows : a.setup = o.setup /\ v.from <= a.from /\ Ahead(vers[o.setup], v.from, a.from)
               => RowFits(vers[o.setup], v.sched, a.from, a.to)
        BY <3>1, <3>2, <3>3, <3>5, <4>1 DEF PublishFits
      <4> QED
        BY <1>3, <3>6, <4>1, <4>2, <4>3, PublishRowsFit
    <3> QED
      BY <3>4, <3>5, <3>6, <3>7, <3>8 DEF FitInv
  <2>2. CASE o.kind = "archive"
    <3>1. versions' = versions /\ assigned' = assigned
      BY <1>1, <2>2, WriteEffect
    <3> QED
      BY <3>1 DEF FitInv
  <2>3. CASE o.kind \in {"assign", "reassign", "withdraw"}
    <3>1. versions' = versions /\ o.branch \in Branches
      BY <1>1, <2>3, WriteEffect
    <3>2. assigned' = [assigned EXCEPT ![o.branch] = Applied(assigned[o.branch], effect)]
      BY <1>1, <2>3 DEF Write, Applied
    <3>3. RowsFit(versions, Applied(assigned[o.branch], effect))
      BY <1>1, <1>2, <2>3, <3>1, BranchWrite DEF FitInv
    <3>4. PICK new : new = Applied(assigned[o.branch], effect)
      OBVIOUS
    <3>5. \A b \in Branches : assigned'[b] = IF b = o.branch THEN new ELSE assigned[b]
      BY <3>1, <3>2, <3>4 DEF TypeOK
    <3> QED
      BY <3>1, <3>3, <3>4, <3>5 DEF FitInv
  <2> QED
    BY <1>3, <2>1, <2>2, <2>3
<1>6. (\A s \in Setups : VersionsFit(versions[s]))' /\ (\A b \in Branches : RowsFit(versions, assigned[b]))'
  BY <1>5
<1> QED
  BY <1>4, <1>6 DEF FitInv

LEMMA RequestsTyped ==
    ASSUME TypeOK, NEW o \in Requests
    PROVE  /\ o \in Operations
           /\ o.kind = "withdraw" =>
                 \E x \in assigned[o.branch] : x.id = o.id /\ x.setup = o.setup
<1>1. ASSUME NEW b \in Branches, NEW rows \in SUBSET assigned[b]
      PROVE  SetupOf(rows) \in Setups \cup {None}
  <2>1. CASE rows = {}
    BY <2>1 DEF SetupOf
  <2>2. CASE rows # {}
    <3>1. (CHOOSE a \in rows : TRUE) \in rows
      BY <2>2
    <3>2. (CHOOSE a \in rows : TRUE).setup \in Setups
      BY <3>1 DEF TypeOK, AssignmentRows
    <3> QED
      BY <2>2, <3>2 DEF SetupOf
  <2> QED
    BY <2>1, <2>2
<1>2. Dates \subseteq 1 .. Horizon
  BY ConstantFacts
<1>3. ASSUME NEW s \in Setups, o = Archive(s) PROVE o \in Operations /\ o.kind # "withdraw"
  BY <1>3 DEF Archive, Operations
<1>4. ASSUME NEW s \in Setups, NEW d \in Dates, o = Publish(s, d, None)
      PROVE  o \in Operations /\ o.kind # "withdraw"
  BY <1>2, <1>4 DEF Publish, Operations
<1>5. ASSUME NEW s \in Setups, NEW v \in versions[s], o = Publish(s, v.from, v.no)
      PROVE  o \in Operations /\ o.kind # "withdraw"
  <2>1. v.from \in 1 .. Horizon /\ v.no \in Nat
    BY DEF TypeOK, Timelines, VersionRows
  <2> QED
    BY <1>5, <2>1 DEF Publish, Operations
<1>6. ASSUME NEW b \in Branches, NEW s \in Setups, NEW d \in Dates, o = Assign(b, s, d)
      PROVE  o \in Operations /\ o.kind # "withdraw"
  <2>1. SetupOf({a \in assigned[b] : a.to = d}) \in Setups \cup {None}
    BY <1>1
  <2>2. PICK h \in Setups \cup {None} : h = SetupOf({a \in assigned[b] : a.to = d})
    BY <2>1
  <2>3. o = [kind |-> "assign", branch |-> b, setup |-> s, from |-> d, hint |-> h]
    BY <1>6, <2>2 DEF Assign
  <2> QED
    BY <1>2, <2>3 DEF Operations
<1>7. ASSUME NEW b \in Branches, NEW a \in assigned[b], NEW s \in Setups, NEW d \in Dates,
             o = Reassign(b, s, d, a.setup)
      PROVE  o \in Operations /\ o.kind # "withdraw"
  <2>1. a.setup \in Setups
    BY DEF TypeOK, AssignmentRows
  <2> QED
    BY <1>2, <1>7, <2>1 DEF Reassign, Operations
<1>8. ASSUME NEW b \in Branches, NEW a \in assigned[b], o = Withdraw(b, a)
      PROVE  /\ o \in Operations
             /\ \E x \in assigned[o.branch] : x.id = o.id /\ x.setup = o.setup
  <2>1. SetupOf({c \in assigned[b] : c.to = a.from}) \in Setups \cup {None}
    BY <1>1
  <2>2. PICK h \in Setups \cup {None} : h = SetupOf({c \in assigned[b] : c.to = a.from})
    BY <2>1
  <2>3. o = [kind |-> "withdraw", branch |-> b, setup |-> a.setup, id |-> a.id, hint |-> h]
    BY <1>8, <2>2 DEF Withdraw
  <2>4. a.setup \in Setups /\ a.id \in Nat
    BY DEF TypeOK, AssignmentRows
  <2> QED
    BY <2>3, <2>4 DEF Operations
<1>9. \/ \E s \in Setups : o = Archive(s)
      \/ \E s \in Setups : \E d \in Dates : o = Publish(s, d, None)
      \/ \E s \in Setups : \E v \in versions[s] : o = Publish(s, v.from, v.no)
      \/ \E b \in Branches : \E s \in Setups : \E d \in Dates : o = Assign(b, s, d)
      \/ \E b \in Branches : \E a \in assigned[b] : \E s \in Setups : \E d \in Dates :
            o = Reassign(b, s, d, a.setup)
      \/ \E b \in Branches : \E a \in assigned[b] : o = Withdraw(b, a)
  <2> DEFINE archives == {Archive(s) : s \in Setups \ archived}
             first == {Publish(s, d, None) : s \in Setups, d \in Dates}
             again == UNION {{Publish(s, v.from, v.no) : v \in versions[s]} : s \in Setups}
             assigns == {Assign(b, s, d) : b \in Branches, s \in Setups, d \in Dates}
             moves(b) == UNION {{Reassign(b, s, d, a.setup) :
                                    s \in Setups \ {a.setup},
                                    d \in {x \in Dates : a.from < x /\ x < a.to}} :
                                a \in assigned[b]}
             withdrawals == UNION {{Withdraw(b, t) : t \in assigned[b]} : b \in Branches}
  <2>1. Requests = archives \cup first \cup again \cup assigns
                   \cup (UNION {moves(b) : b \in Branches}) \cup withdrawals
    BY DEF Requests
  <2>2. o \in archives => \E s \in Setups : o = Archive(s)
    OBVIOUS
  <2>3. o \in first => \E s \in Setups : \E d \in Dates : o = Publish(s, d, None)
    OBVIOUS
  <2>4. o \in again => \E s \in Setups : \E v \in versions[s] : o = Publish(s, v.from, v.no)
    OBVIOUS
  <2>5. o \in assigns =>
           \E b \in Branches : \E s \in Setups : \E d \in Dates : o = Assign(b, s, d)
    OBVIOUS
  <2>6. ASSUME NEW b \in Branches, o \in moves(b)
        PROVE  \E a \in assigned[b] : \E s \in Setups : \E d \in Dates :
                  o = Reassign(b, s, d, a.setup)
    <3>1. PICK a \in assigned[b] :
             o \in {Reassign(b, s, d, a.setup) :
                     s \in Setups \ {a.setup}, d \in {x \in Dates : a.from < x /\ x < a.to}}
      BY <2>6
    <3> QED
      BY <3>1
  <2>7. o \in withdrawals => \E b \in Branches : \E a \in assigned[b] : o = Withdraw(b, a)
    OBVIOUS
  <2> HIDE DEF archives, first, again, assigns, moves, withdrawals
  <2>8. \/ o \in archives \/ o \in first \/ o \in again \/ o \in assigns \/ o \in withdrawals
        \/ \E b \in Branches : o \in moves(b)
    BY <2>1
  <2> QED
    BY <2>2, <2>3, <2>4, <2>5, <2>6, <2>7, <2>8
<1> QED
  BY <1>3, <1>4, <1>5, <1>6, <1>7, <1>8, <1>9

LEMMA BeginKeeps ==
    ASSUME IInv, NEW t \in Txns, NEW o \in Requests, Begin(t, o)
    PROVE  IInv'
<1> USE DEF IInv
<1>1. /\ versions' = versions /\ archived' = archived /\ assigned' = assigned
      /\ periods' = periods /\ setupLock' = setupLock /\ branchLock' = branchLock
      /\ requests' = requests + 1 /\ requests \in Nat /\ req[t] = Idle
      /\ req' = [req EXCEPT ![t] = [pc |-> "locking", op |-> o, no |-> requests + 1]]
  BY DEF Begin, TypeOK
<1>2. PICK x : x = [pc |-> "locking", op |-> o, no |-> requests + 1]
  OBVIOUS
<1>3. o \in Operations
  BY RequestsTyped
<1>4. x \in Requested /\ x.pc = "locking" /\ x.op = o /\ x.no = requests + 1
  BY <1>1, <1>2, <1>3 DEF Requested
<1>5. /\ req' \in [Txns -> Requested]
      /\ \A u \in Txns : req'[u] = IF u = t THEN x ELSE req[u]
  BY <1>1, <1>2, <1>4 DEF TypeOK
<1>6. TypeOK'
  BY <1>1, <1>5 DEF TypeOK
<1>7. ~Pending(t)
  BY <1>1 DEF Pending
<1>8. IdsInv'
  <2>1. \A b \in Branches : \A a, c \in assigned'[b] : a.id = c.id => a = c
    BY <1>1 DEF IdsInv
  <2>2. \A b \in Branches : \A a \in assigned[b] : a.id \in Nat /\ a.id <= requests
    BY DEF IdsInv, TypeOK, AssignmentRows
  <2>3. \A b \in Branches : \A a \in assigned'[b] : a.id <= requests'
    BY <1>1, <2>2
  <2>4. \A u \in Txns : Pending(u) => req[u].no \in Nat /\ 1 <= req[u].no /\ req[u].no <= requests
    BY RequestFacts DEF IdsInv
  <2>5. \A u \in Txns \ {t} : req'[u] = req[u] /\ (Pending(u)' <=> Pending(u))
    BY <1>5 DEF Pending
  <2>6. ASSUME NEW u \in Txns, Pending(u)'
        PROVE  /\ 1 <= req'[u].no /\ req'[u].no <= requests'
               /\ \A w \in Txns : Pending(w)' /\ req'[w].no = req'[u].no => w = u
               /\ \A b \in Branches : \A a \in assigned'[b] : a.id # req'[u].no
    <3>1. CASE u = t
      <4>1. req'[u].no = requests + 1
        BY <1>4, <1>5, <3>1
      <4>2. \A w \in Txns \ {t} : Pending(w)' => req'[w].no # requests + 1
        BY <1>1, <2>4, <2>5
      <4>3. \A b \in Branches : \A a \in assigned'[b] : a.id # requests + 1
        BY <1>1, <2>2
      <4> QED
        BY <1>1, <3>1, <4>1, <4>2, <4>3
    <3>2. CASE u # t
      <4>1. Pending(u) /\ req'[u] = req[u]
        BY <2>5, <2>6, <3>2
      <4>2. req'[t].no # req[u].no
        BY <1>1, <1>4, <1>5, <2>4, <4>1
      <4>3. \A w \in Txns \ {t} : Pending(w)' /\ req'[w].no = req[u].no => w = u
        BY <2>5, <4>1 DEF IdsInv
      <4>4. \A b \in Branches : \A a \in assigned'[b] : a.id # req[u].no
        BY <1>1, <4>1 DEF IdsInv
      <4>5. 1 <= req[u].no /\ req[u].no <= requests'
        BY <1>1, <2>4, <4>1
      <4> QED
        BY <4>1, <4>2, <4>3, <4>4, <4>5
    <3> QED
      BY <3>1, <3>2
  <2>7. ASSUME NEW u \in Txns, Pending(u)', NEW c, c = req'[u].op, c.kind = "withdraw"
        PROVE  /\ c.id <= requests'
               /\ \A w \in Txns : Pending(w)' => req'[w].no # c.id
               /\ \A a \in assigned'[c.branch] : a.id = c.id => a.setup = c.setup
    <3>1. /\ c.id \in Nat /\ c.id <= requests
          /\ \A w \in Txns : Pending(w) => req[w].no # c.id
          /\ \A a \in assigned[c.branch] : a.id = c.id => a.setup = c.setup
      <4>1. CASE u = t
        <5>1. c = o
          BY <1>4, <1>5, <2>7, <4>1
        <5>2. PICK y \in assigned[c.branch] : y.id = c.id /\ y.setup = c.setup
          BY <2>7, <5>1, RequestsTyped
        <5>3. c.branch \in Branches
          BY <1>3, <2>7, <5>1 DEF Operations
        <5>4. y.id \in Nat /\ y.id <= requests
          BY <2>2, <5>2, <5>3
        <5>5. \A w \in Txns : Pending(w) => req[w].no # y.id
          BY <5>2, <5>3 DEF IdsInv
        <5>6. \A a \in assigned[c.branch] : a.id = y.id => a = y
          BY <5>2, <5>3 DEF IdsInv
        <5> QED
          BY <5>2, <5>4, <5>5, <5>6
      <4>2. CASE u # t
        <5>1. Pending(u) /\ c = req[u].op
          BY <2>5, <2>7, <4>2
        <5>2. c.id \in Nat
          BY <2>7, <5>1, RequestFacts
        <5> QED
          BY <2>7, <5>1, <5>2 DEF IdsInv
      <4> QED
        BY <4>1, <4>2
    <3>2. \A w \in Txns : Pending(w)' => req'[w].no # c.id
      <4> SUFFICES ASSUME NEW w \in Txns, Pending(w)' PROVE req'[w].no # c.id
        OBVIOUS
      <4>1. CASE w = t
        BY <1>1, <1>4, <1>5, <3>1, <4>1
      <4>2. CASE w # t
        BY <2>5, <3>1, <4>2
      <4> QED
        BY <4>1, <4>2
    <3> QED
      BY <1>1, <3>1, <3>2
  <2> QED
    BY <2>1, <2>3, <2>6, <2>7 DEF IdsInv
<1>9. LockInv'
  <2>1. DOMAIN setupLock' = Setups /\ DOMAIN branchLock' = Branches
    BY <1>1 DEF TypeOK
  <2>2. \A u \in Txns : /\ Held(setupLock, u)' = Held(setupLock, u)
                        /\ Held(branchLock, u)' = Held(branchLock, u)
    BY <1>1 DEF Held
  <2>3. Held(setupLock, t) = {} /\ Held(branchLock, t) = {}
    BY <1>7 DEF LockInv, Held, TypeOK
  <2>4. \A u \in Txns \ {t} : req'[u] = req[u]
    BY <1>5
  <2>5. \A u \in Txns \ {t} : Pending(u) /\ SetupsLeft(u) = {} =>
           BranchesOf(req[u].op)' = BranchesOf(req[u].op)
    BY <1>1, <2>4, BranchesStable
  <2>6. req'[t].pc # "writing"
    BY <1>4, <1>5
  <2> QED
    BY <2>1, <2>2, <2>3, <2>4, <2>5, <2>6, LocksKept
<1>10. WriteInv'
  <2> SUFFICES ASSUME NEW u \in Txns, req'[u].pc = "writing"
               PROVE  Accepted(u, req[u].op, req[u].effect)'
    BY DEF WriteInv
  <2>1. u # t /\ req'[u] = req[u]
    BY <1>4, <1>5
  <2>2. PICK c, effect : c = req[u].op /\ effect = req[u].effect
    OBVIOUS
  <2>3. Pending(u) /\ Accepted(u, c, effect)
    BY <2>1, <2>2 DEF WriteInv, Pending, Idle
  <2>4. c.kind = "publish" => PublishReady(c)'
    BY <1>1, <2>3 DEF Accepted, PublishReady
  <2>5. Accepted(u, c, effect)'
    BY <1>1, <2>1, <2>2, <2>3, <2>4, AcceptedStays
  <2> QED
    BY <2>1, <2>2, <2>5
<1>11. TimelineInv'
  BY <1>1 DEF TimelineInv
<1> QED
  BY <1>6, <1>8, <1>9, <1>10, <1>11

LEMMA LockingKeeps ==
    ASSUME IInv, NEW t \in Txns, LockSetup(t) \/ LockBranch(t)
    PROVE  IInv'
<1> USE DEF IInv
<1>1. /\ versions' = versions /\ archived' = archived /\ assigned' = assigned
      /\ periods' = periods /\ req' = req /\ requests' = requests
  BY DEF LockSetup, LockBranch
<1>2. /\ LockInv' /\ setupLock' \in [Setups -> Txns \cup {None}]
      /\ branchLock' \in [Branches -> Txns \cup {None}]
  <2>1. CASE LockSetup(t)
    <3>1. branchLock' = branchLock
      BY <2>1 DEF LockSetup
    <3> QED
      BY <2>1, <3>1, LockSetupKeeps DEF TypeOK
  <2>2. CASE LockBranch(t)
    <3>1. setupLock' = setupLock
      BY <2>2 DEF LockBranch
    <3> QED
      BY <2>2, <3>1, LockBranchKeeps DEF TypeOK
  <2> QED
    BY <2>1, <2>2
<1>3. TypeOK'
  BY <1>1, <1>2 DEF TypeOK
<1>4. IdsInv'
  BY <1>1 DEF IdsInv, Pending
<1>5. WriteInv'
  <2> SUFFICES ASSUME NEW u \in Txns, req'[u].pc = "writing"
               PROVE  Accepted(u, req[u].op, req[u].effect)'
    BY DEF WriteInv
  <2>1. PICK c, effect : c = req[u].op /\ effect = req[u].effect
    OBVIOUS
  <2>2. Pending(u) /\ Accepted(u, c, effect)
    BY <1>1, <2>1 DEF WriteInv, Pending, Idle
  <2>3. c.kind = "publish" => PublishReady(c)'
    BY <1>1, <2>2 DEF Accepted, PublishReady
  <2>4. Accepted(u, c, effect)'
    BY <1>1, <2>1, <2>2, <2>3, AcceptedStays
  <2> QED
    BY <1>1, <2>1, <2>4
<1>6. TimelineInv'
  BY <1>1 DEF TimelineInv
<1> QED
  BY <1>2, <1>3, <1>4, <1>5, <1>6

\* What a request is accepted with.
LEMMA ValidateEffect ==
    ASSUME IInv, NEW t \in Txns, Validate(t), NEW o, o = req[t].op
    PROVE  \E effect \in Effects : Accepted(t, o, effect) /\ Accept(t, effect)
<1> USE DEF IInv
<1>1. Pending(t)
  BY DEF Validate, Pending, Idle
<1>2. o \in Operations
  BY <1>1, RequestFacts
<1>3. CASE \E sched \in Schedules : /\ o.kind = "publish" /\ PublishAccepted(o, sched)
                                    /\ Accept(t, PublishEffect(o, sched))
  <2>1. PICK sched \in Schedules : /\ o.kind = "publish" /\ PublishAccepted(o, sched)
                                   /\ Accept(t, PublishEffect(o, sched))
    BY <1>3
  <2>2. PICK effect : effect = PublishEffect(o, sched)
    OBVIOUS
  <2>3. effect \in Effects
    BY <1>2, <2>1, <2>2, PublishShape
  <2>4. PublishReady(o)
    BY <1>2, <2>1, PublishAcceptedReady
  <2>5. Accepted(t, o, effect)
    BY <2>1, <2>2, <2>4 DEF Accepted
  <2> QED
    BY <2>1, <2>2, <2>3, <2>5
<1>4. CASE o.kind = "assign" /\ AssignAccepted(o) /\ Accept(t, AssignEffect(t, o))
  <2>1. PICK effect : effect = AssignEffect(t, o)
    OBVIOUS
  <2>2. Accepted(t, o, effect)
    BY <1>2, <1>4, <2>1, AssignAcceptedReady DEF Accepted
  <2> QED
    BY <1>1, <1>4, <2>1, <2>2, BranchWrite
<1>5. CASE o.kind = "reassign" /\ ReassignAccepted(o) /\ Accept(t, ReassignEffect(t, o))
  <2>1. PICK effect : effect = ReassignEffect(t, o)
    OBVIOUS
  <2>2. Accepted(t, o, effect)
    BY <1>2, <1>5, <2>1, ReassignAcceptedReady DEF Accepted
  <2> QED
    BY <1>1, <1>5, <2>1, <2>2, BranchWrite
<1>6. CASE o.kind = "withdraw" /\ WithdrawAccepted(o) /\ Accept(t, WithdrawEffect(o))
  <2>1. PICK effect : effect = WithdrawEffect(o)
    OBVIOUS
  <2>2. Accepted(t, o, effect)
    BY <1>2, <1>6, <2>1, WithdrawAcceptedReady DEF Accepted
  <2> QED
    BY <1>1, <1>6, <2>1, <2>2, BranchWrite
<1>7. CASE o.kind = "archive" /\ Accept(t, [out |-> {}, in |-> {}])
  <2>1. PICK effect : effect = [out |-> {}, in |-> {}]
    OBVIOUS
  <2>2. effect \in Effects
    BY <2>1 DEF Effects
  <2>3. Accepted(t, o, effect)
    BY <1>7 DEF Accepted
  <2> QED
    BY <1>7, <2>1, <2>2, <2>3
<1> QED
  BY <1>3, <1>4, <1>5, <1>6, <1>7 DEF Validate

LEMMA ValidateKeeps ==
    ASSUME IInv, NEW t \in Txns, Validate(t)
    PROVE  IInv'
<1> USE DEF IInv
<1>1. Pending(t) /\ req[t].pc = "locking" /\ SetupsLeft(t) = {} /\ BranchesLeft(t) = {}
  BY DEF Validate, Locking, Pending, Idle
<1>2. PICK o : o = req[t].op
  OBVIOUS
<1>3. PICK effect \in Effects : Accepted(t, o, effect) /\ Accept(t, effect)
  BY <1>2, ValidateEffect
<1>4. PICK x : x = [pc |-> "writing", op |-> req[t].op, no |-> req[t].no, effect |-> effect]
  OBVIOUS
<1>5. /\ versions' = versions /\ archived' = archived /\ assigned' = assigned
      /\ periods' = periods /\ setupLock' = setupLock /\ branchLock' = branchLock
      /\ requests' = requests /\ req' = [req EXCEPT ![t] = x]
  BY <1>3, <1>4 DEF Accept
<1>6. x \in Requested /\ x.op = o /\ x.no = req[t].no /\ x.effect = effect /\ x # Idle
  <2>1. o \in Operations /\ req[t].no \in Nat
    BY <1>1, <1>2, RequestFacts
  <2> QED
    BY <1>2, <1>3, <1>4, <2>1 DEF Requested, Idle
<1>7. /\ req' \in [Txns -> Requested]
      /\ \A u \in Txns : req'[u] = IF u = t THEN x ELSE req[u]
  BY <1>5, <1>6 DEF TypeOK
<1>8. TypeOK'
  BY <1>5, <1>7 DEF TypeOK
<1>9. \A u \in Txns : /\ req'[u].op = req[u].op /\ req'[u].no = req[u].no
                      /\ Pending(u)' <=> Pending(u)
  BY <1>1, <1>2, <1>6, <1>7 DEF Pending
<1>10. IdsInv'
  BY <1>5, <1>9 DEF IdsInv
<1>11. LockInv'
  <2>1. DOMAIN setupLock' = Setups /\ DOMAIN branchLock' = Branches
    BY <1>5 DEF TypeOK
  <2>2. \A u \in Txns : /\ Held(setupLock, u)' = Held(setupLock, u)
                        /\ Held(branchLock, u)' = Held(branchLock, u)
    BY <1>5 DEF Held
  <2>3. \A u \in Txns \ {t} : req'[u] = req[u]
    BY <1>7
  <2>4. \A u \in Txns \ {t} : Pending(u) /\ SetupsLeft(u) = {} =>
           BranchesOf(req[u].op)' = BranchesOf(req[u].op)
    BY <1>5, <2>3, BranchesStable
  <2>5. Pending(t)' /\ req'[t].op = req[t].op
    BY <1>1, <1>9
  <2> QED
    BY <1>1, <1>5, <2>1, <2>2, <2>3, <2>4, <2>5, LocksKept
<1>12. WriteInv'
  <2> SUFFICES ASSUME NEW u \in Txns, req'[u].pc = "writing"
               PROVE  Accepted(u, req[u].op, req[u].effect)'
    BY DEF WriteInv
  <2>1. PICK c, e : c = req'[u].op /\ e = req'[u].effect
    OBVIOUS
  <2>2. c = req[u].op
    BY <1>9, <2>1
  <2>3. Pending(u) /\ Accepted(u, c, e)
    <3>1. CASE u = t
      BY <1>1, <1>2, <1>3, <1>6, <1>7, <2>1, <2>2, <3>1
    <3>2. CASE u # t
      BY <1>7, <2>1, <2>2, <3>2 DEF WriteInv, Pending, Idle
    <3> QED
      BY <3>1, <3>2
  <2>4. c.kind = "publish" => PublishReady(c)'
    BY <1>5, <2>3 DEF Accepted, PublishReady
  <2>5. Accepted(u, c, e)'
    BY <1>5, <1>9, <2>1, <2>2, <2>3, <2>4, AcceptedStays
  <2> QED
    BY <2>1, <2>5
<1>13. TimelineInv'
  BY <1>5 DEF TimelineInv
<1> QED
  BY <1>8, <1>10, <1>11, <1>12, <1>13

\* Who is accepted has looked at what it writes.
LEMMA ValidateFitKeeps ==
    ASSUME IInv, FitInv, NEW t \in Txns, Validate(t)
    PROVE  FitInv'
<1> USE DEF IInv
<1>1. PICK o : o = req[t].op
  OBVIOUS
<1>2. Pending(t) /\ versions' = versions /\ assigned' = assigned
  BY DEF Validate, Accept, Pending, Idle
<1>3. o \in Operations
  BY <1>1, <1>2, RequestFacts
<1>4. PICK effect :
         /\ req' = [req EXCEPT ![t] = [pc |-> "writing", op |-> o, no |-> req[t].no,
                                       effect |-> effect]]
         /\ AcceptedFits(o, effect)
  <2>1. CASE o.kind = "publish"
    <3>1. PICK sched \in Schedules :
             PublishAccepted(o, sched) /\ Accept(t, PublishEffect(o, sched))
      BY <1>1, <2>1 DEF Validate
    <3>2. PublishFits(o, sched)
      BY <1>3, <2>1, <3>1, PublishAcceptedFits
    <3>3. AcceptedFits(o, PublishEffect(o, sched))
      BY <2>1, <3>2 DEF AcceptedFits
    <3> QED
      BY <1>1, <3>1, <3>3 DEF Accept
  <2>2. CASE o.kind = "assign"
    <3>1. AssignAccepted(o) /\ Accept(t, AssignEffect(t, o))
      BY <1>1, <2>2 DEF Validate
    <3>2. AcceptedFits(o, AssignEffect(t, o))
      BY <1>3, <2>2, <3>1, AssignAcceptedFits DEF AcceptedFits
    <3> QED
      BY <1>1, <3>1, <3>2 DEF Accept
  <2>3. CASE o.kind = "reassign"
    <3>1. ReassignAccepted(o) /\ Accept(t, ReassignEffect(t, o))
      BY <1>1, <2>3 DEF Validate
    <3>2. AcceptedFits(o, ReassignEffect(t, o))
      BY <1>3, <2>3, <3>1, ReassignAcceptedFits DEF AcceptedFits
    <3> QED
      BY <1>1, <3>1, <3>2 DEF Accept
  <2>4. CASE o.kind = "withdraw"
    <3>1. WithdrawAccepted(o) /\ Accept(t, WithdrawEffect(o))
      BY <1>1, <2>4 DEF Validate
    <3>2. AcceptedFits(o, WithdrawEffect(o))
      BY <1>3, <2>4, <3>1, WithdrawAcceptedFits DEF AcceptedFits
    <3> QED
      BY <1>1, <3>1, <3>2 DEF Accept
  <2>5. CASE o.kind = "archive"
    <3>1. Accept(t, [out |-> {}, in |-> {}])
      BY <1>1, <2>5 DEF Validate
    <3>2. AcceptedFits(o, [out |-> {}, in |-> {}])
      BY <2>5 DEF AcceptedFits
    <3> QED
      BY <1>1, <3>1, <3>2 DEF Accept
  <2> QED
    BY <1>1, <1>2, <2>1, <2>2, <2>3, <2>4, <2>5, RequestFacts
<1>5. \A s \in Setups : VersionsFit(versions[s])'
  BY <1>2 DEF FitInv
<1>6. \A b \in Branches : RowsFit(versions, assigned[b])'
  BY <1>2 DEF FitInv
<1>7. ASSUME NEW u \in Txns, req'[u].pc = "writing"
      PROVE  AcceptedFits(req[u].op, req[u].effect)'
  <2>1. /\ req'[u].op = req[u].op /\ Pending(u)
        /\ AcceptedFits(req[u].op, req'[u].effect)
    <3>1. CASE u = t
      BY <1>1, <1>2, <1>4, <3>1 DEF TypeOK
    <3>2. CASE u # t
      BY <1>4, <1>7, <3>2 DEF TypeOK, FitInv, Pending, Idle
    <3> QED
      BY <3>1, <3>2
  <2>2. PICK c, e : c = req[u].op /\ e = req'[u].effect
    OBVIOUS
  <2>3. AcceptedFits(c, e)'
    BY <1>2, <2>1, <2>2, FitsStay
  <2> QED
    BY <2>1, <2>2, <2>3
<1> QED
  BY <1>5, <1>6, <1>7 DEF FitInv

-----------------------------------------------------------------------------
(* The steps of periods                                                    *)

\* A period comes or changes while nobody holds its branch, or it was there
\* before; either way what was accepted stays accepted.
LEMMA PeriodStep ==
    ASSUME IInv, NEW b \in Branches,
           UNCHANGED <<versions, archived, assigned, setupLock, branchLock, req, requests>>,
           periods' \in [Branches -> SUBSET PeriodRows],
           \A c \in Branches \ {b} : periods'[c] = periods[c],
           \A p \in periods'[b] : Kept(versions, assigned[b], p),
           \/ branchLock[b] = None
           \/ \A p \in periods'[b] : \E q \in periods[b] : q.start = p.start /\ q.end = p.end
    PROVE  IInv'
<1> USE DEF IInv
<1>1. /\ versions' = versions /\ archived' = archived /\ assigned' = assigned
      /\ setupLock' = setupLock /\ branchLock' = branchLock
      /\ req' = req /\ requests' = requests
  OBVIOUS
<1>2. TypeOK'
  BY <1>1 DEF TypeOK
<1>3. IdsInv'
  BY <1>1 DEF IdsInv, Pending
<1>4. \A u \in Txns : SetupsLeft(u)' = SetupsLeft(u) /\ BranchesLeft(u)' = BranchesLeft(u)
  BY <1>1 DEF SetupsLeft, BranchesLeft, BranchesOf, Affected, NextVersionDate, Held, SetupsOf
<1>5. LockInv'
  BY <1>1, <1>4 DEF LockInv, Pending, Held
<1>6. TimelineInv'
  <2>1. \A c \in Branches : \A p \in periods'[c] : Kept(versions, assigned[c], p)
    BY DEF TimelineInv
  <2> QED
    BY <1>1, <2>1 DEF TimelineInv
<1>7. WriteInv'
  <2> SUFFICES ASSUME NEW u \in Txns, req'[u].pc = "writing"
               PROVE  Accepted(u, req[u].op, req[u].effect)'
    BY DEF WriteInv
  <2>1. PICK o, effect : o = req[u].op /\ effect = req[u].effect
    OBVIOUS
  <2>2. req[u].pc = "writing" /\ Pending(u) /\ Accepted(u, o, effect)
    BY <1>1, <2>1 DEF WriteInv, Pending, Idle
  <2>3. \A c \in BranchesOf(o) : branchLock[c] = u
    BY <2>1, <2>2, WriterHolds
  <2>4. u # None
    BY ConstantFacts
  <2>5. ASSUME o.kind \in {"assign", "reassign", "withdraw"}
        PROVE  \A p \in periods'[o.branch] :
                  \E q \in periods[o.branch] : q.start = p.start /\ q.end = p.end
    <3>1. o.branch \in Branches /\ o.branch \in BranchesOf(o)
      BY <2>1, <2>2, <2>5, RequestFacts
    <3>2. CASE o.branch = b
      BY <2>3, <2>4, <3>1, <3>2
    <3>3. CASE o.branch # b
      BY <3>1, <3>3
    <3> QED
      BY <3>2, <3>3
  <2>6. ASSUME o.kind = "publish" PROVE PublishReady(o)'
    <3>1. PublishReady(o) /\ o.setup \in Setups /\ o.from \in 1 .. Horizon
      BY <2>1, <2>2, <2>6, RequestFacts DEF Accepted
    <3>2. CASE branchLock[b] = None
      <4>1. b \notin BranchesOf(o)
        BY <2>3, <2>4, <3>2
      <4>2. Affected(b, o.setup, o.from) = {}
        BY <2>6, <4>1 DEF BranchesOf
      <4>3. ASSUME NEW c \in Branches, NEW a \in assigned[c], NEW p \in periods'[c],
                   a.setup = o.setup, Covers(a, p.start)
            PROVE  \/ p.end < o.from
                   \/ \E v \in versions[o.setup] : o.from < v.from /\ v.from <= p.start
        <5>1. CASE c = b
          <6>1. p \in PeriodRows /\ Kept(versions, assigned[b], p)
            BY <5>1
          <6>2. Contiguous(versions, assigned[b])
            BY DEF TimelineInv
          <6> QED
            BY <3>1, <4>2, <4>3, <5>1, <6>1, <6>2, UnaffectedReady
        <5>2. CASE c # b
          <6>1. p \in periods[c]
            BY <5>2
          <6> QED
            BY <3>1, <4>3, <6>1 DEF PublishReady
        <5> QED
          BY <5>1, <5>2
      <4> QED
        BY <1>1, <4>3 DEF PublishReady
    <3>3. CASE \A p \in periods'[b] : \E q \in periods[b] : q.start = p.start /\ q.end = p.end
      <4>1. \A c \in Branches : \A p \in periods'[c] :
               \E q \in periods[c] : q.start = p.start /\ q.end = p.end
        BY <3>3
      <4> QED
        BY <1>1, <3>1, <4>1, PublishStays
    <3> QED
      BY <3>2, <3>3
  <2>7. Accepted(u, o, effect)'
    BY <1>1, <2>1, <2>2, <2>5, <2>6, AcceptedStays
  <2> QED
    BY <1>1, <2>1, <2>7
<1> QED
  BY <1>2, <1>3, <1>5, <1>6, <1>7

\* The next period starts on a day.
LEMMA NextStartIsDay ==
    ASSUME TypeOK, NEW b \in Branches
    PROVE  NextStart(b) \in Nat \ {0}
<1>1. CASE periods[b] # {}
  <2>1. periods[b] \in SUBSET PeriodRows
    BY DEF TypeOK
  <2>2. PICK n \in Nat : n = LastEnd(periods[b])
    BY <2>1, LastEndBounds
  <2> QED
    BY <1>1, <2>2 DEF NextStart
<1>2. CASE periods[b] = {}
  <2> DEFINE S == {Forever} \cup {a.from : a \in assigned[b]}
  <2>1. S \in SUBSET (Nat \ {0}) /\ S # {}
    BY ConstantFacts DEF TypeOK, AssignmentRows
  <2>2. Min(S) \in S
    <3>1. S \in SUBSET Nat
      BY <2>1
    <3> HIDE DEF S
    <3> QED
      BY <2>1, <3>1, MinIsLeast
  <2>3. NextStart(b) = Min(S)
    BY <1>2 DEF NextStart
  <2> QED
    BY <2>1, <2>2, <2>3
<1> QED
  BY <1>1, <1>2

\* The day after the last period, or the first day of a branch without one,
\* is a start of the schedule that governs it.
LEMMA NextPeriodAligned ==
    ASSUME TypeOK, TimelineInv, FitInv, NEW b \in Branches, NEW d \in 1 .. Horizon,
           d = NextStart(b), NEW a \in assigned[b], Covers(a, d),
           NEW v \in Governing(versions[a.setup], d)
    PROVE  OnGrid(v.sched, d)
<1>1. PICK rows \in SUBSET AssignmentRows :
         rows = assigned[b] /\ Contiguous(versions, rows) /\ RowsFit(versions, rows)
  BY DEF TypeOK, TimelineInv, FitInv
<1>2. /\ a.setup \in Setups /\ a.from \in Nat /\ a.to \in Nat
      /\ a.from <= d /\ d < a.to /\ d \in Nat
  BY <1>1, ConstantFacts DEF AssignmentRows, Covers
<1>3. PICK vs \in SUBSET VersionRows : vs = versions[a.setup] /\ VersionsFit(vs)
  BY <1>2 DEF TypeOK, Timelines, FitInv
<1>4. ASSUME d = a.from PROVE OnGrid(v.sched, d)
  BY <1>1, <1>4 DEF RowsFit, RowFits
<1>5. CASE periods[b] = {}
  <2> DEFINE S == {Forever} \cup {x.from : x \in rows}
  <2>1. S \in SUBSET Nat /\ a.from \in S
    BY <1>1, ConstantFacts DEF AssignmentRows
  <2>2. Min(S) <= a.from
    <3> HIDE DEF S
    <3> QED
      BY <2>1, MinIsLeast
  <2>3. d = Min(S)
    BY <1>1, <1>5 DEF NextStart
  <2>4. d <= a.from
    BY <2>2, <2>3
  <2> QED
    BY <1>2, <1>4, <2>4
<1>6. CASE periods[b] # {}
  <2>1. PICK ps \in SUBSET PeriodRows : ps = periods[b]
    BY DEF TypeOK
  <2>2. d = LastEnd(ps) + 1
    BY <1>6, <2>1 DEF NextStart
  <2>3. PICK p \in ps : p.end = LastEnd(ps)
    <3>1. PICK q \in ps : TRUE
      BY <1>6, <2>1
    <3>2. q.end \in 1 .. Horizon /\ q.end <= LastEnd(ps)
      BY LastEndBounds DEF PeriodRows
    <3>3. LastEnd(ps) # 0
      BY <3>2
    <3> QED
      BY <3>3, LastEndBounds
  <2>4. /\ p.start \in 1 .. Horizon /\ p.end \in 1 .. Horizon
        /\ p.start \in Nat /\ p.end \in Nat /\ d = p.end + 1
    BY <2>2, <2>3 DEF PeriodRows
  <2>5. PICK g \in rows : Governs(versions, rows, g, p) /\ p.start <= p.end
    BY <1>1, <2>1 DEF TimelineInv, Kept
  <2>6. /\ g.from \in Nat /\ g.to \in Nat /\ g.from <= p.start /\ p.end < g.to
    BY <1>1, <2>5, ConstantFacts DEF AssignmentRows, Governs, Covers
  <2>7. CASE d < g.to
    <3>1. g = a
      <4>1. Covers(g, d)
        BY <2>4, <2>5, <2>6, <2>7 DEF Covers
      <4> QED
        BY <1>1, <1>2, <4>1, OneCovers
    <3>2. PICK w \in Governing(vs, p.start) :
             /\ p.end = PeriodEnd(w.sched, p.start) /\ OnGrid(w.sched, p.start)
      BY <1>3, <2>5, <3>1 DEF Governs
    <3>3. Ahead(vs, p.start, p.end)
      BY <1>3, <2>5, <3>1 DEF Governs
    <3>4. /\ v \in vs /\ v.from \in Nat /\ v.from <= d
          /\ \A x \in vs : x.from <= d => x.from <= v.from
      BY <1>3 DEF Governing, VersionRows
    <3>5. CASE v.from = d
      BY <1>3, <3>4, <3>5 DEF VersionsFit
    <3>6. CASE v.from # d
      <4>1. \A x \in vs : x.from \in Nat
        BY DEF VersionRows
      <4>2. Ahead(vs, p.start, d)
        BY <2>4, <3>3, <3>4, <3>6, <4>1 DEF Ahead
      <4>3. Governing(vs, d) = Governing(vs, p.start)
        BY <1>2, <2>4, <2>5, <4>2, GovernsOn
      <4>4. v = w
        BY <1>3, <3>2, <4>3, OneGoverns
      <4>5. v.sched \in Schedules /\ v.sched.anchor \in 1 .. Horizon
        <5>1. v.sched \in Schedules
          BY <3>4 DEF VersionRows
        <5> QED
          BY <5>1, ChronologyAssumption
      <4>6. IsPeriodStart(v.sched, PeriodEnd(v.sched, p.start) + 1, v.sched.anchor)
        BY <2>4, <3>2, <4>4, <4>5, GridGoesOn DEF OnGrid
      <4> QED
        BY <2>4, <3>2, <4>4, <4>6 DEF OnGrid
    <3> QED
      BY <3>5, <3>6
  <2>8. CASE ~(d < g.to)
    <3>1. d = g.to /\ g.to # Forever
      BY <2>4, <2>6, <2>8, ConstantFacts
    <3>2. PICK c \in rows : c.from = g.to
      BY <1>1, <3>1 DEF RowsFit
    <3>3. Covers(c, d)
      BY <1>1, <1>2, <3>1, <3>2 DEF Contiguous, Covers
    <3>4. c = a
      BY <1>1, <1>2, <3>3, OneCovers
    <3> QED
      BY <1>4, <3>1, <3>2, <3>4
  <2> QED
    BY <2>7, <2>8
<1> QED
  BY <1>5, <1>6

LEMMA CreatePeriodKeeps ==
    ASSUME IInv, FitInv, NEW b \in Branches, CreatePeriod(b)
    PROVE  IInv'
<1> USE DEF IInv
<1>1. PICK day \in Nat \ {0} : day = NextStart(b)
  BY NextStartIsDay
<1>2. day \in 1 .. Horizon
  <2>1. day <= LastDay
    BY <1>1 DEF CreatePeriod
  <2> QED
    BY <2>1, ConstantFacts
<1>3. PICK a \in AssignmentsAt(b, day), status \in {"Open", "Draft"} :
         \E v \in TerminalVersion(a.setup, day) :
            /\ Legal(b, a, v, day)
            /\ periods' = [periods EXCEPT ![b] = @ \cup
                  {[start |-> day, end |-> PeriodEnd(v.sched, day),
                    assignment |-> a.id, version |-> v.no, status |-> status]}]
  BY <1>1 DEF CreatePeriod
<1> PICK v \in TerminalVersion(a.setup, day) :
         /\ Legal(b, a, v, day)
         /\ periods' = [periods EXCEPT ![b] = @ \cup
               {[start |-> day, end |-> PeriodEnd(v.sched, day),
                 assignment |-> a.id, version |-> v.no, status |-> status]}]
  BY <1>3
<1>4. a \in assigned[b] /\ Covers(a, day) /\ a \in AssignmentRows
  BY DEF AssignmentsAt, Covers, TypeOK
<1>5. a.setup \in Setups /\ a.id \in Nat /\ a.to \in Nat /\ a.to <= Horizon + 1
  BY <1>4, ConstantFacts DEF AssignmentRows
<1>6. v \in VersionRows /\ v \in Governing(versions[a.setup], day)
  BY <1>5 DEF TerminalVersion, Governing, TypeOK, Timelines
<1>7. PICK end \in Nat : end = PeriodEnd(v.sched, day) /\ day <= end
  BY <1>2, <1>6, PeriodEndsLater DEF VersionRows
<1>8. end < AuthorityUntil(b, a, day)
  BY <1>3, <1>7 DEF Legal
<1>9. end < a.to /\ Ahead(versions[a.setup], day, end) /\ Ahead(assigned[b], day, end)
  BY <1>4, <1>8, AuthorityBefore
<1>10. PICK new : new = [start |-> day, end |-> end, assignment |-> a.id,
                         version |-> v.no, status |-> status]
  OBVIOUS
<1>11. new \in PeriodRows
  <2>1. end \in 1 .. Horizon
    BY <1>2, <1>5, <1>7, <1>9, ConstantFacts
  <2>2. v.no \in Nat
    BY <1>6 DEF VersionRows
  <2> QED
    BY <1>2, <1>5, <1>10, <2>1, <2>2 DEF PeriodRows
<1>12. Kept(versions, assigned[b], new)
  <2>1. /\ new.start = day /\ new.end = end /\ new.assignment = a.id
        /\ new.version = v.no
    BY <1>10
  <2>2. OnGrid(v.sched, day)
    BY <1>1, <1>2, <1>4, <1>6, NextPeriodAligned
  <2>3. Governs(versions, assigned[b], a, new)
    BY <1>4, <1>6, <1>7, <1>9, <2>1, <2>2 DEF Governs
  <2> QED
    BY <1>4, <1>7, <2>1, <2>3 DEF Kept
<1>13. \A c \in Branches : periods'[c] = IF c = b THEN periods[b] \cup {new} ELSE periods[c]
  BY <1>3, <1>7, <1>10 DEF TypeOK
<1>14. periods' \in [Branches -> SUBSET PeriodRows]
  BY <1>3, <1>7, <1>10, <1>11 DEF TypeOK
<1>15. \A p \in periods'[b] : Kept(versions, assigned[b], p)
  BY <1>12, <1>13 DEF TimelineInv
<1>16. /\ branchLock[b] = None
       /\ UNCHANGED <<versions, archived, assigned, setupLock, branchLock, req, requests>>
  BY DEF CreatePeriod, BranchFree
<1> QED
  BY <1>13, <1>14, <1>15, <1>16, PeriodStep

LEMMA SubmitPeriodKeeps ==
    ASSUME IInv, NEW b \in Branches, SubmitPeriod(b)
    PROVE  IInv'
<1> USE DEF IInv
<1> DEFINE after == [Open |-> "Kept", Draft |-> "Open", Kept |-> "Kept"]
           Later(p) == [p EXCEPT !.status = after[p.status]]
<1>1. PICK new : new = {Later(p) : p \in periods[b]}
  OBVIOUS
<1>2. periods' = [periods EXCEPT ![b] = new]
  BY <1>1 DEF SubmitPeriod
<1>3. ASSUME NEW p \in periods[b], NEW q, q = Later(p)
      PROVE  q \in PeriodRows /\ Kept(versions, assigned[b], q)
  <2>1. p \in PeriodRows /\ Kept(versions, assigned[b], p)
    BY DEF TypeOK, TimelineInv
  <2>2. after[p.status] \in {"Open", "Kept"}
    BY <2>1 DEF PeriodRows
  <2>3. PICK s \in {"Open", "Kept"} : s = after[p.status]
    BY <2>2
  <2>4. q = [p EXCEPT !.status = s]
    BY <1>3, <2>3
  <2>5. /\ q \in PeriodRows /\ q.start = p.start /\ q.end = p.end
        /\ q.assignment = p.assignment /\ q.version = p.version
    BY <2>1, <2>4 DEF PeriodRows
  <2> QED
    BY <2>1, <2>5 DEF Kept, Governs
<1>4. \A q \in new : q \in PeriodRows /\ Kept(versions, assigned[b], q)
  BY <1>1, <1>3
<1>5. \A c \in Branches : periods'[c] = IF c = b THEN new ELSE periods[c]
  BY <1>2 DEF TypeOK
<1>6. periods' \in [Branches -> SUBSET PeriodRows]
  BY <1>2, <1>4 DEF TypeOK
<1>7. /\ branchLock[b] = None
      /\ UNCHANGED <<versions, archived, assigned, setupLock, branchLock, req, requests>>
  BY DEF SubmitPeriod, BranchFree
<1> QED
  BY <1>4, <1>5, <1>6, <1>7, PeriodStep

LEMMA CancelPeriodKeeps ==
    ASSUME IInv, NEW b \in Branches, CancelPeriod(b)
    PROVE  IInv'
<1> USE DEF IInv
<1>1. PICK p \in periods[b] : periods' = [periods EXCEPT ![b] = @ \ {p}]
  BY DEF CancelPeriod
<1>2. \A c \in Branches : periods'[c] = IF c = b THEN periods[b] \ {p} ELSE periods[c]
  BY <1>1 DEF TypeOK
<1>3. periods' \in [Branches -> SUBSET PeriodRows]
  BY <1>1 DEF TypeOK
<1>4. \A q \in periods'[b] : q \in periods[b] /\ Kept(versions, assigned[b], q)
  BY <1>2 DEF TimelineInv
<1>5. UNCHANGED <<versions, archived, assigned, setupLock, branchLock, req, requests>>
  BY DEF CancelPeriod
<1> QED
  BY <1>2, <1>3, <1>4, <1>5, PeriodStep

\* What takes over next is not before the end of a period that starts on d.
LEMMA LegalFromFit ==
    ASSUME TypeOK, TimelineInv, FitInv
    PROVE  NextPeriodLegalIfAnchored
<1> SUFFICES ASSUME NEW b \in Branches, NEW a \in Due(b),
                    ~(a.to # Forever /\ (Revised(b, a) \/ Unanchored(a)))
             PROVE  CanFollow(b, a)
  BY DEF NextPeriodLegalIfAnchored
<1>1. PICK d \in 1 .. Horizon : d = NextStart(b) /\ d <= LastDay /\ d \in Nat
  <2>1. NextStart(b) \in Nat \ {0}
    BY NextStartIsDay
  <2>2. NextStart(b) <= LastDay
    BY <2>1, ConstantFacts DEF Due
  <2> QED
    BY <2>1, <2>2, ConstantFacts
<1>2. a \in assigned[b] /\ Covers(a, d)
  BY <1>1 DEF Due, AssignmentsAt, Covers
<1>3. PICK rows \in SUBSET AssignmentRows :
         rows = assigned[b] /\ Contiguous(versions, rows) /\ RowsFit(versions, rows)
  BY DEF TypeOK, TimelineInv, FitInv
<1>4. /\ a \in rows /\ a.setup \in Setups /\ a.from \in 1 .. Horizon /\ a.to \in 1 .. Forever
      /\ a.from \in Nat /\ a.to \in Nat /\ a.from <= d /\ d < a.to /\ a.from < a.to
  BY <1>2, <1>3, ConstantFacts DEF AssignmentRows, Covers
<1>5. PICK vs \in SUBSET VersionRows : vs = versions[a.setup] /\ VersionsFit(vs)
  BY <1>4 DEF TypeOK, Timelines, FitInv
<1>6. \A x \in vs : x.from \in 1 .. Horizon /\ x.from \in Nat
  BY DEF VersionRows
<1>7. PICK v \in Governing(vs, d) : TRUE
  <2>1. HasSchedule(vs, a.from)
    BY <1>3, <1>4, <1>5 DEF Contiguous
  <2>2. HasSchedule(vs, d)
    BY <1>4, <1>6, <2>1 DEF HasSchedule
  <2> QED
    BY <1>1, <2>2, GoverningExists
<1>8. /\ v \in vs /\ v.from <= d /\ \A x \in vs : x.from <= d => x.from <= v.from
      /\ v.sched \in Schedules
  BY DEF Governing, VersionRows
<1>9. PICK anchor \in 1 .. Horizon : anchor = v.sched.anchor
  BY <1>8, ChronologyAssumption
<1>10. IsPeriodStart(v.sched, d, anchor)
  BY <1>1, <1>2, <1>5, <1>9, NextPeriodAligned DEF OnGrid
<1>11. IsPeriodStart(v.sched, d, Max({v.sched.anchor, PriorEnd(b, d) + 1}))
  <2>1. PICK e \in 0 .. Horizon :
           /\ e = PriorEnd(b, d)
           /\ e = 0 \/ \E p \in periods[b] : p.end < d /\ p.end = e
           /\ \A p \in periods[b] : p.end < d => p.end <= e
    BY <1>1, PriorEndBounds
  <2>2. e + 1 \in Nat /\ anchor <= d
    BY <1>10 DEF IsPeriodStart
  <2>3. CASE periods[b] = {}
    <3>1. e + 1 <= anchor
      BY <2>1, <2>3
    <3>2. Max({anchor, e + 1}) = anchor
      BY <2>2, <3>1, MaxOfTwo
    <3> QED
      BY <1>9, <1>10, <2>1, <3>2
  <2>4. CASE periods[b] # {}
    <3>1. PICK ps \in SUBSET PeriodRows : ps = periods[b]
      BY DEF TypeOK
    <3>2. PICK last \in 0 .. Horizon :
             /\ last = LastEnd(ps) /\ \A p \in ps : p.end <= last
             /\ last = 0 \/ \E p \in ps : p.end = last
      BY LastEndBounds
    <3>3. d = last + 1
      BY <1>1, <2>4, <3>1, <3>2 DEF NextStart
    <3>4. e = last
      <4>1. \A p \in ps : p.end \in Nat /\ p.end < d
        BY <3>2, <3>3 DEF PeriodRows
      <4>2. e <= last
        BY <2>1, <3>1, <3>2, <4>1
      <4>3. last <= e
        BY <2>1, <3>1, <3>2, <4>1
      <4> QED
        BY <4>2, <4>3
    <3>5. Max({anchor, e + 1}) = d
      BY <2>2, <3>3, <3>4, MaxOfTwo
    <3> QED
      BY <1>8, <1>9, <2>1, <3>5, GridHasOrigin
  <2> QED
    BY <2>3, <2>4
<1>12. PICK e \in Nat : e = PeriodEnd(v.sched, d)
  BY <1>8, PeriodEndsLater
<1>13. Ahead(vs, d, e)
  <2> SUFFICES ASSUME NEW x \in vs, x.from > d PROVE e < x.from
    BY DEF Ahead
  <2>1. PICK n \in 1 .. Forever :
           /\ n = NextVersionDate(a.setup, d)
           /\ \A i \in Nat : i < n <=> i < Forever /\ Ahead(vs, d, i)
           /\ n # Forever => \E w \in vs : w.from = n /\ d < w.from
    BY <1>1, <1>4, <1>5, NextVersionBounds
  <2>2. ~Ahead(vs, d, x.from)
    BY <1>6 DEF Ahead
  <2>3. n <= x.from /\ n # Forever
    BY <1>6, <2>1, <2>2, ConstantFacts
  <2>4. PICK w \in vs : w.from = n /\ d < w.from
    BY <2>1, <2>3
  <2>5. Undivided(vs, v.from, w.from)
    <3> SUFFICES ASSUME NEW y \in vs, y.from > v.from PROVE w.from <= y.from
      BY DEF Undivided
    <3>1. y.from > d
      BY <1>1, <1>6, <1>8
    <3>2. ~Ahead(vs, d, y.from)
      BY <1>6, <3>1 DEF Ahead
    <3> QED
      BY <1>6, <2>1, <2>4, <3>2, ConstantFacts
  <2>6. v.from < w.from
    BY <1>1, <1>6, <1>8, <2>4
  <2>7. IsPeriodStart(v.sched, w.from, anchor)
    BY <1>5, <1>8, <1>9, <2>5, <2>6 DEF VersionsFit, OnGrid
  <2>8. e < w.from
    BY <1>6, <1>8, <1>10, <1>12, <2>4, <2>7, GridKeepsApart
  <2> QED
    BY <1>6, <2>3, <2>4, <2>8
<1>14. e < a.to
  <2>1. CASE a.to = Forever
    <3>1. e <= Horizon
      BY <1>1, <1>8, <1>12, SetupAssumption
    <3> QED
      BY <2>1, <3>1, ConstantFacts
  <2>2. CASE \E x \in vs : d < x.from /\ x.from <= a.to
    BY <1>4, <1>6, <1>12, <1>13, <2>2 DEF Ahead
  <2>3. CASE a.to # Forever /\ ~\E x \in vs : d < x.from /\ x.from <= a.to
    <3>1. ~Revised(b, a) /\ ~Unanchored(a)
      BY <2>3
    <3>2. \A x \in vs : ~(a.from < x.from /\ x.from <= d)
      BY <1>1, <1>5, <3>1 DEF Revised
    <3>3. Ahead(vs, a.from, d)
      BY <1>1, <1>4, <1>6, <3>2 DEF Ahead
    <3>4. Governing(vs, d) = Governing(vs, a.from)
      BY <1>1, <1>4, <3>3, GovernsOn
    <3>5. RowFits(vs, v.sched, a.from, a.to)
      BY <1>3, <1>4, <1>5, <3>4 DEF RowsFit
    <3>6. IsPeriodStart(v.sched, a.from, anchor) /\ anchor <= a.from
      BY <1>9, <3>5 DEF RowFits, OnGrid, IsPeriodStart
    <3>7. ~(anchor < a.from)
      BY <1>5, <1>9, <3>1, <3>4 DEF Unanchored, TerminalVersion
    <3>8. anchor = a.from
      BY <1>4, <3>6, <3>7
    <3>9. Undivided(vs, a.from, a.to)
      BY <1>1, <1>4, <1>6, <2>3, <3>2 DEF Undivided
    <3>10. IsPeriodStart(v.sched, a.to, anchor)
      BY <1>9, <2>3, <3>5, <3>8, <3>9 DEF RowFits, EndFits, OnGrid
    <3> QED
      BY <1>4, <1>8, <1>10, <1>12, <3>10, GridKeepsApart
  <2> QED
    BY <2>1, <2>2, <2>3
<1>15. Ahead(rows, d, e)
  <2> SUFFICES ASSUME NEW c \in rows, c.from > d PROVE e < c.from
    BY DEF Ahead
  <2>1. c.from \in Nat /\ c.to \in Nat /\ c.from < c.to
    BY <1>3, ConstantFacts DEF AssignmentRows, Contiguous
  <2>2. c # a
    BY <1>1, <1>4, <2>1
  <2>3. a.to <= c.from \/ c.to <= a.from
    BY <1>3, <1>4, <2>2 DEF Contiguous
  <2>4. a.to <= c.from
    BY <1>1, <1>4, <2>1, <2>3
  <2> QED
    BY <1>4, <1>14, <2>1, <2>4
<1>16. e < AuthorityUntil(b, a, d)
  BY <1>1, <1>2, <1>3, <1>5, <1>12, <1>13, <1>14, <1>15, AuthorityBefore
<1>17. Legal(b, a, v, d)
  BY <1>11, <1>12, <1>16 DEF Legal
<1> QED
  BY <1>1, <1>5, <1>17 DEF CanFollow, TerminalVersion

-----------------------------------------------------------------------------
(* The theorems                                                            *)

LEMMA StepKeeps ==
    ASSUME IInv, FitInv, [Next]_vars
    PROVE  IInv'
<1>1. CASE UNCHANGED vars
  <2>1. /\ versions' = versions /\ archived' = archived /\ assigned' = assigned
        /\ periods' = periods /\ setupLock' = setupLock /\ branchLock' = branchLock
        /\ req' = req /\ requests' = requests
    BY <1>1 DEF vars
  <2>2. TypeOK'
    BY <2>1 DEF IInv, TypeOK
  <2>3. IdsInv'
    BY <2>1 DEF IInv, IdsInv, Pending
  <2>4. \A u \in Txns : SetupsLeft(u)' = SetupsLeft(u) /\ BranchesLeft(u)' = BranchesLeft(u)
    BY <2>1 DEF SetupsLeft, BranchesLeft, BranchesOf, Affected, NextVersionDate, Held, SetupsOf
  <2>5. LockInv'
    BY <2>1, <2>4 DEF IInv, LockInv, Pending, Held
  <2>6. WriteInv'
    <3> SUFFICES ASSUME NEW u \in Txns, req'[u].pc = "writing"
                 PROVE  Accepted(u, req[u].op, req[u].effect)'
      BY DEF WriteInv
    <3>1. PICK o, effect : o = req[u].op /\ effect = req[u].effect
      OBVIOUS
    <3>2. Pending(u) /\ Accepted(u, o, effect)
      BY <2>1, <3>1 DEF IInv, WriteInv, Pending, Idle
    <3>3. o.kind = "publish" => PublishReady(o)'
      BY <2>1, <3>2 DEF Accepted, PublishReady
    <3>4. Accepted(u, o, effect)'
      BY <2>1, <3>1, <3>2, <3>3, AcceptedStays DEF IInv
    <3> QED
      BY <2>1, <3>1, <3>4
  <2>7. TimelineInv'
    BY <2>1 DEF IInv, TimelineInv
  <2> QED
    BY <2>2, <2>3, <2>5, <2>6, <2>7 DEF IInv
<1>2. CASE Next
  <2>1. CASE \E t \in Txns : \E o \in Requests : Begin(t, o)
    BY <2>1, BeginKeeps
  <2>2. CASE \E t \in Txns : LockSetup(t) \/ LockBranch(t)
    BY <2>2, LockingKeeps
  <2>3. CASE \E t \in Txns : Validate(t)
    BY <2>3, ValidateKeeps
  <2>4. CASE \E t \in Txns : Write(t)
    BY <2>4, WriteKeeps
  <2>5. CASE \E t \in Txns : GiveUp(t)
    BY <2>5, GiveUpKeeps
  <2>6. CASE \E b \in Branches : CreatePeriod(b)
    BY <2>6, CreatePeriodKeeps
  <2>7. CASE \E b \in Branches : SubmitPeriod(b)
    BY <2>7, SubmitPeriodKeeps
  <2>8. CASE \E b \in Branches : CancelPeriod(b)
    BY <2>8, CancelPeriodKeeps
  <2> QED
    BY <1>2, <2>1, <2>2, <2>3, <2>4, <2>5, <2>6, <2>7, <2>8 DEF Next
<1> QED
  BY <1>1, <1>2

LEMMA StepFitKeeps ==
    ASSUME IInv, FitInv, [Next]_vars
    PROVE  FitInv'
<1>1. CASE UNCHANGED vars
  BY <1>1, FitUnchanged DEF vars, IInv
<1>2. CASE Next
  <2>1. ASSUME NEW t \in Txns, NEW o \in Requests, Begin(t, o) PROVE FitInv'
    <3>1. /\ versions' = versions /\ assigned' = assigned
          /\ \A u \in Txns : req'[u].pc = "writing" => req'[u] = req[u]
      BY <2>1 DEF Begin, IInv, TypeOK
    <3> QED
      BY <3>1, FitUnchanged DEF IInv
  <2>2. CASE \E t \in Txns : LockSetup(t) \/ LockBranch(t)
    BY <2>2, FitUnchanged DEF LockSetup, LockBranch, IInv
  <2>3. CASE \E t \in Txns : Validate(t)
    BY <2>3, ValidateFitKeeps
  <2>4. CASE \E t \in Txns : Write(t)
    BY <2>4, WriteFitKeeps
  <2>5. ASSUME NEW t \in Txns, GiveUp(t) PROVE FitInv'
    <3>1. /\ versions' = versions /\ assigned' = assigned
          /\ \A u \in Txns : req'[u].pc = "writing" => req'[u] = req[u]
      BY <2>5, FinishFrees DEF GiveUp, Idle, IInv
    <3> QED
      BY <3>1, FitUnchanged DEF IInv
  <2>6. CASE \E b \in Branches : CreatePeriod(b) \/ SubmitPeriod(b) \/ CancelPeriod(b)
    BY <2>6, FitUnchanged DEF CreatePeriod, SubmitPeriod, CancelPeriod, IInv
  <2> QED
    BY <1>2, <2>1, <2>2, <2>3, <2>4, <2>5, <2>6 DEF Next
<1> QED
  BY <1>1, <1>2

\* The inductive invariant, of the timelines and of what fits on their grids:
\* whatever the schedules, the calendar, the numbers of setups and branches,
\* and however requests and periods interleave.
THEOREM SetupInvariance == Spec => [](IInv /\ FitInv)
<1>1. Init => IInv /\ FitInv
  BY InitInv, InitFit
<1>2. IInv /\ FitInv /\ [Next]_vars => (IInv /\ FitInv)'
  BY StepKeeps, StepFitKeeps
<1> QED
  BY <1>1, <1>2, PTL DEF Spec

\* The assignments of a branch neither overlap nor leave a gap, and each has
\* a schedule from its first day on (assign_setup, reassign_setup and
\* withdraw_assignment, whatever is published in between).
THEOREM TimelinesAreCovered == Spec => []TimelineCovered
<1>1. IInv => TimelineCovered
  BY CoveredFromInv DEF IInv
<1> QED
  BY <1>1, SetupInvariance, PTL

\* A period that was created stays under the assignment and version it is
\* pinned to, whatever is published, assigned, moved or withdrawn later.
THEOREM HistoryIsKept == Spec => []HistoryKeepsAuthority
<1>1. IInv => HistoryKeepsAuthority
  BY HistoryFromInv DEF IInv
<1> QED
  BY <1>1, SetupInvariance, PTL

\* Requests never wait for each other in a circle: locks are taken setups
\* first, then branches, each kind in ascending order, and a request that
\* waits for a branch has all its setups.
THEOREM NoCircularWait == Spec => []SomebodyProceeds
<1>1. IInv => SomebodyProceeds
  BY ProceedsFromInv DEF IInv
<1> QED
  BY <1>1, SetupInvariance, PTL

\* A branch is not stuck between two schedules: the period that follows the
\* last one, or the first, is one that resolve_payroll_setup_version accepts,
\* as it starts on a start of the schedule that governs its first day and ends
\* before another version or assignment takes over.  The exception is an
\* assignment that comes to an end, and had a version published after its
\* start or does not start where its schedule is anchored.
THEOREM NoBranchIsStuck == Spec => []NextPeriodLegalIfAnchored
<1>1. IInv /\ FitInv => NextPeriodLegalIfAnchored
  BY LegalFromFit DEF IInv
<1> QED
  BY <1>1, SetupInvariance, PTL
=============================================================================
