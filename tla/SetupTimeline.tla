---------------------------- MODULE SetupTimeline ----------------------------
(***************************************************************************)
(* The payroll setup timeline (payroll_setup/payroll_policy.py,            *)
(* validation.py, resolver.py): setups with published schedule versions,   *)
(* the assignments that put a branch under a setup for a range of days,    *)
(* and the payroll periods that are created from them.                     *)
(*                                                                         *)
(* A request reads a hint without a lock, locks setups and then branches,  *)
(* each kind in ascending order, validates, and writes.  A period is       *)
(* created under the branch lock alone, and cancelled without it, so a     *)
(* cancellation may come between a request's validation and its write.     *)
(*                                                                         *)
(* Days are numbers; the end of a range is the day after it, and Forever   *)
(* is the end of a range without one.  A version that was replaced is      *)
(* dropped: what replaces it has its date.  Drafts of versions, names,     *)
(* audit, permissions, branches that are not active, and the company's     *)
(* default setup are left out.                                             *)
(***************************************************************************)
EXTENDS Chronology

CONSTANTS
    Setups,         \* numbers: locks are taken in this order
    Branches,       \* numbers
    Txns,           \* requests served at a time
    Today,          \* business date of the branches
    Starts,         \* versions and assignments that a run may start with
    Dates,          \* bound: the days that requests name
    LastDay,        \* bound: the last day a period starts on
    MaxRequests,    \* bound: requests that are served
    MaxPeriods      \* bound: periods of a branch

ASSUME SetupAssumption ==
    /\ Setups \cup Branches \subseteq Nat /\ IsFiniteSet(Setups \cup Branches)
    /\ None \notin Txns
    /\ {Today, LastDay} \cup Dates \subseteq 1 .. Horizon
    /\ {MaxRequests, MaxPeriods} \subseteq Nat
    /\ \A sched \in Schedules, d \in 1 .. LastDay : PeriodEnd(sched, d) <= Horizon

VARIABLES
    versions,     \* setup -> its terminal published versions [no, from, sched]
    archived,     \* setups that are Archived
    assigned,     \* branch -> assignments not withdrawn [id, setup, from, to]
    periods,      \* branch -> periods not cancelled, with what they are pinned to
    setupLock, branchLock,   \* setup, branch -> who holds its lock
    req,          \* request -> what it does, how far it is, what it will write
    requests      \* begun so far

vars == <<versions, archived, assigned, periods, setupLock, branchLock, req, requests>>

Forever == Horizon + 1
VersionRows == [no : Nat, from : 1 .. Horizon, sched : Schedules]
AssignmentRows == [id : Nat, setup : Setups, from : 1 .. Horizon, to : 1 .. Forever]
Idle == [pc |-> "idle"]

-----------------------------------------------------------------------------
(* Reading the timelines *)

TerminalVersion(s, day) == Governing(versions[s], day)
ScheduleOf(vs) == IF vs = {} THEN None ELSE (CHOOSE v \in vs : TRUE).sched
ScheduleAt(s, day) == ScheduleOf(TerminalVersion(s, day))

AssignmentsAt(b, day) == {a \in assigned[b] : a.from <= day /\ day < a.to}
\* The schedule that the assignments among rows put on the day.
Follows(rows, day) ==
    IF rows = {} THEN None ELSE ScheduleAt((CHOOSE a \in rows : TRUE).setup, day)
SetupOf(rows) == IF rows = {} THEN None ELSE (CHOOSE a \in rows : TRUE).setup

LastEnd(ps) == Max({0} \cup {p.end : p \in ps})
PriorEnd(b, day) == LastEnd({p \in periods[b] : p.end < day})
NextVersionDate(s, day) == Min({Forever} \cup {v.from : v \in {w \in versions[s] : w.from > day}})

-----------------------------------------------------------------------------
(* Validation *)

\* No period that is not cancelled lies in the interval that changes hands.
HistoryFree(b, change, until, protectFuture) ==
    ~\E p \in periods[b] :
        /\ p.end >= change
        /\ protectFuture \/ p.start < change
        /\ p.start < until

\* A period of the old schedule ends right before the change, counted from
\* the last actual period, and one of the new schedule starts with it.
BoundaryValid(b, change, pred, succ, until, protectFuture) ==
    /\ HistoryFree(b, change, until, protectFuture)
    /\ pred # None =>
          IsPeriodStart(pred, change, Max({pred.anchor, PriorEnd(b, change) + 1}))
    /\ succ # None => OnGrid(succ, change)

\* The versions of the setup that come after the day, up to until, take
\* over where a period of the one before them ends.
NextVersionsValid(b, s, sched, after, until) ==
    LET dates == {v.from : v \in {w \in versions[s] : after < w.from /\ w.from < until}}
    IN  \A n \in dates :
            LET segment == Max({after} \cup {d \in dates : d < n})
                within == LastEnd({p \in periods[b] : p.start >= segment /\ p.end < n})
            IN  /\ IsPeriodStart(IF segment = after THEN sched ELSE ScheduleAt(s, segment),
                                 n, Max({segment, within + 1}))
                /\ BoundaryValid(b, n, None, ScheduleAt(s, n), Forever, FALSE)

\* A version fits between the other versions of its setup.
Fits(vs, from, sched) ==
    LET before == {v \in vs : v.from < from}
        after  == {v \in vs : v.from > from}
    IN  /\ OnGrid(sched, from)
        /\ \A v \in before : (\A w \in before : w.from <= v.from) => OnGrid(v.sched, from)
        /\ \A v \in after : (\A w \in after : w.from >= v.from) => OnGrid(sched, v.from)
AllFit(vs) == \A v \in vs : Fits(vs \ {v}, v.from, v.sched)

-----------------------------------------------------------------------------
(* The requests.  Each has the setups it locks, the branches it locks, the *)
(* condition under which it is accepted and what it then writes.           *)

\* What a publication changes of an assignment of the setup.
Affected(b, s, from) ==
    {a \in assigned[b] : a.setup = s /\ a.to > from /\ a.from < NextVersionDate(s, from)}

PublicationFits(b, a, s, from, sched) ==
    LET here == {v \in versions[s] : v.from = from}
        boundary == Max({from, a.from})
        next == NextVersionDate(s, from)
        pred == IF boundary > from THEN Follows(AssignmentsAt(b, boundary - 1), boundary - 1)
                ELSE IF here # {} THEN ScheduleOf(here)
                ELSE ScheduleAt(s, from - 1)
    IN  /\ boundary = from /\ here = {} /\ a.from < from => pred # None
        /\ BoundaryValid(b, boundary, pred, sched, Min({next, a.to}), TRUE)
        /\ NextVersionsValid(b, s, sched, from, a.to)
        /\ a.to < next =>
              BoundaryValid(b, a.to, sched,
                            Follows({f \in assigned[b] : f.from = a.to}, a.to),
                            Forever, FALSE)

\* A same-date publication names the version it replaces, any other none.
PublishAccepted(o, sched) ==
    LET here == {v \in versions[o.setup] : v.from = o.from}
    IN  /\ o.setup \notin archived
        /\ IF o.replaces = None THEN here = {} ELSE \E v \in here : v.no = o.replaces
        /\ Fits(versions[o.setup], o.from, sched)
        /\ \A b \in Branches : \A a \in Affected(b, o.setup, o.from) :
              PublicationFits(b, a, o.setup, o.from, sched)

\* Mutant: what follows the new assignment is not checked against it.
FollowingUnchecked(b, sched, day) == TRUE
\* The assignment that starts on the day can follow the schedule.
FollowingFits(b, sched, day) ==
    LET next == Follows({a \in assigned[b] : a.from = day}, day)
    IN  (\E a \in assigned[b] : a.from = day) =>
            next # None /\ BoundaryValid(b, day, sched, next, Forever, FALSE)

AssignUntil(b, from) ==
    Min({Forever} \cup {a.from : a \in {x \in assigned[b] : x.from > from}})

AssignAccepted(o) ==
    LET prior == {a \in assigned[o.branch] : a.to = o.from}
        until == AssignUntil(o.branch, o.from)
        sched == ScheduleAt(o.setup, o.from)
        floor == OnboardingFloor(versions[o.setup], Today)
    IN  /\ o.setup \notin archived
        /\ SetupOf(prior) = o.hint
        /\ AssignmentsAt(o.branch, o.from) = {}
        /\ (\E a \in assigned[o.branch] : a.from < o.from) => prior # {}
        /\ sched # None
        /\ assigned[o.branch] = {} => (floor # None => o.from >= floor)
        /\ BoundaryValid(o.branch, o.from, Follows(prior, o.from - 1), sched, until, TRUE)
        /\ NextVersionsValid(o.branch, o.setup, sched, o.from, until)
        /\ FollowingFits(o.branch, sched, until)

\* The assignment of the hinted setup that spans the day.
Spanning(b, s, day) == {a \in assigned[b] : a.setup = s /\ a.from < day /\ day < a.to}

ReassignAccepted(o) ==
    LET source == Spanning(o.branch, o.hint, o.from)
        until == (CHOOSE a \in source : TRUE).to
        pred == ScheduleAt(o.hint, o.from - 1)
        sched == ScheduleAt(o.setup, o.from)
    IN  /\ o.setup \notin archived
        /\ source # {}
        /\ pred # None /\ sched # None
        /\ BoundaryValid(o.branch, o.from, pred, sched, until, TRUE)
        /\ NextVersionsValid(o.branch, o.setup, sched, o.from, until)
        /\ FollowingFits(o.branch, sched, until)

\* The prior assignment is extended over the one withdrawn.
WithdrawAccepted(o) ==
    \E t \in assigned[o.branch] :
        LET prior == {a \in assigned[o.branch] : a.to = t.from}
            sched == ScheduleAt(o.hint, t.from)
            next == {a \in assigned[o.branch] : a.from = t.to}
        IN  /\ t.id = o.id
            /\ SetupOf(prior) = o.hint
            /\ ~\E p \in periods[o.branch] : p.start < t.to /\ p.end >= t.from
            /\ prior # {} =>
                  /\ sched # None
                  /\ BoundaryValid(o.branch, t.from, sched, sched, t.to, TRUE)
                  /\ NextVersionsValid(o.branch, o.hint, sched, t.from, t.to)
                  /\ next # {} => BoundaryValid(o.branch, t.to, ScheduleAt(o.hint, t.to - 1),
                                                Follows(next, t.to), Forever, FALSE)

\* No assignment of the setup can still govern a new period.
ArchiveAccepted(o) ==
    /\ o.setup \notin archived
    /\ \A b \in Branches : \A a \in assigned[b] :
          a.setup = o.setup => /\ a.to # Forever
                               /\ periods[b] # {} /\ LastEnd(periods[b]) >= a.to - 1

-----------------------------------------------------------------------------
(* Serving a request                                                       *)

Publish(s, from, replaces) ==
    [kind |-> "publish", setup |-> s, from |-> from, replaces |-> replaces, hint |-> None]
Assign(b, s, from) ==
    [kind |-> "assign", branch |-> b, setup |-> s, from |-> from,
     hint |-> SetupOf({a \in assigned[b] : a.to = from})]
Reassign(b, s, from, source) ==
    [kind |-> "reassign", branch |-> b, setup |-> s, from |-> from, hint |-> source]
Withdraw(b, t) ==
    [kind |-> "withdraw", branch |-> b, setup |-> t.setup, id |-> t.id,
     hint |-> SetupOf({a \in assigned[b] : a.to = t.from})]
Archive(s) == [kind |-> "archive", setup |-> s, hint |-> None]

\* What can be asked for; the hints are read without a lock.
Requests ==
    {Archive(s) : s \in Setups \ archived}
    \cup {Publish(s, d, None) : s \in Setups, d \in Dates}
    \cup (UNION {{Publish(s, v.from, v.no) : v \in versions[s]} : s \in Setups})
    \cup {Assign(b, s, d) : b \in Branches, s \in Setups, d \in Dates}
    \cup (UNION {UNION {{Reassign(b, s, d, a.setup) :
                           s \in Setups \ {a.setup}, d \in {x \in Dates : a.from < x /\ x < a.to}} :
                       a \in assigned[b]} : b \in Branches})
    \cup (UNION {{Withdraw(b, t) : t \in assigned[b]} : b \in Branches})

Begin(t, o) ==
    /\ req[t] = Idle
    /\ requests < MaxRequests
    /\ requests' = requests + 1
    /\ req' = [req EXCEPT ![t] = [pc |-> "locking", op |-> o, no |-> requests + 1]]
    /\ UNCHANGED <<versions, archived, assigned, periods, setupLock, branchLock>>

SetupsOf(o) == {o.setup, o.hint} \ {None}
\* The branches of an assignment change are known, those of a change of the
\* setup are read once the setup is locked.
BranchesOf(o) ==
    IF o.kind = "publish" THEN {b \in Branches : Affected(b, o.setup, o.from) # {}}
    ELSE IF o.kind = "archive" THEN {b \in Branches : \E a \in assigned[b] : a.setup = o.setup}
    ELSE {o.branch}

Held(lock, t) == {x \in DOMAIN lock : lock[x] = t}
SetupsLeft(t)   == SetupsOf(req[t].op) \ Held(setupLock, t)
BranchesLeft(t) == BranchesOf(req[t].op) \ Held(branchLock, t)
Locking(t) == req[t].pc = "locking" /\ (SetupsLeft(t) # {} \/ BranchesLeft(t) # {})

\* Mutant: the setup of the operation first, then that of the hint.
NextSetupAsNamed(t) ==
    IF req[t].op.setup \in SetupsLeft(t) THEN req[t].op.setup ELSE req[t].op.hint
\* The lock a request takes next.
NextSetup(t) == Min(SetupsLeft(t))

LockSetup(t) ==
    /\ req[t].pc = "locking"
    /\ SetupsLeft(t) # {}
    /\ setupLock[NextSetup(t)] = None
    /\ setupLock' = [setupLock EXCEPT ![NextSetup(t)] = t]
    /\ UNCHANGED <<versions, archived, assigned, periods, branchLock, req, requests>>

LockBranch(t) ==
    /\ req[t].pc = "locking"
    /\ SetupsLeft(t) = {}
    /\ BranchesLeft(t) # {}
    /\ branchLock[Min(BranchesLeft(t))] = None
    /\ branchLock' = [branchLock EXCEPT ![Min(BranchesLeft(t))] = t]
    /\ UNCHANGED <<versions, archived, assigned, periods, setupLock, req, requests>>

\* The rows that go and the rows that come.
PublishEffect(o, sched) ==
    [out |-> {v \in versions[o.setup] : v.from = o.from},
     in  |-> {[no |-> Max({0} \cup {v.no : v \in versions[o.setup]}) + 1,
               from |-> o.from, sched |-> sched]}]
\* The number of the request stands for the identifier of the row.
AssignmentRow(t, until) == [id |-> req[t].no, setup |-> req[t].op.setup,
                           from |-> req[t].op.from, to |-> until]
AssignEffect(t, o) ==
    [out |-> {}, in |-> {AssignmentRow(t, AssignUntil(o.branch, o.from))}]
ReassignEffect(t, o) ==
    LET source == Spanning(o.branch, o.hint, o.from)
    IN  [out |-> source,
         in  |-> UNION {{[a EXCEPT !.to = o.from], AssignmentRow(t, a.to)} : a \in source}]
\* Mutant: the prior assignment is not extended over the range given up.
WithdrawOnly(o) ==
    [out |-> {a \in assigned[o.branch] : a.id = o.id}, in |-> {}]
WithdrawEffect(o) ==
    LET target == CHOOSE a \in assigned[o.branch] : a.id = o.id
        prior  == {a \in assigned[o.branch] : a.to = target.from}
    IN  [out |-> {target} \cup prior, in |-> {[a EXCEPT !.to = target.to] : a \in prior}]

\* Locks held, a request validates and composes what it writes; one that is
\* refused changes nothing (GiveUp).
Accept(t, effect) ==
    /\ req' = [req EXCEPT ![t] = [pc |-> "writing", op |-> req[t].op, no |-> req[t].no,
                                  effect |-> effect]]
    /\ UNCHANGED <<versions, archived, assigned, periods, setupLock, branchLock, requests>>

Validate(t) ==
    /\ req[t].pc = "locking" /\ ~Locking(t)
    /\ LET o == req[t].op
       IN  \/ /\ o.kind = "publish"
              /\ \E sched \in Schedules :
                    PublishAccepted(o, sched) /\ Accept(t, PublishEffect(o, sched))
           \/ o.kind = "assign"   /\ AssignAccepted(o)   /\ Accept(t, AssignEffect(t, o))
           \/ o.kind = "reassign" /\ ReassignAccepted(o) /\ Accept(t, ReassignEffect(t, o))
           \/ o.kind = "withdraw" /\ WithdrawAccepted(o) /\ Accept(t, WithdrawEffect(o))
           \/ o.kind = "archive"  /\ ArchiveAccepted(o)  /\ Accept(t, [out |-> {}, in |-> {}])

Released(lock, t) == [x \in DOMAIN lock |-> IF lock[x] = t THEN None ELSE lock[x]]
Finish(t) ==
    /\ req' = [req EXCEPT ![t] = Idle]
    /\ setupLock' = Released(setupLock, t)
    /\ branchLock' = Released(branchLock, t)
    /\ UNCHANGED <<periods, requests>>

Write(t) ==
    /\ req[t].pc = "writing"
    /\ LET o == req[t].op
           written(rows) == (rows \ req[t].effect.out) \cup req[t].effect.in
       IN  /\ versions' = IF o.kind # "publish" THEN versions
                          ELSE [versions EXCEPT ![o.setup] = written(@)]
           /\ archived' = IF o.kind # "archive" THEN archived ELSE archived \cup {o.setup}
           /\ assigned' = IF o.kind \in {"publish", "archive"} THEN assigned
                          ELSE [assigned EXCEPT ![o.branch] = written(@)]
    /\ Finish(t)

\* The request is refused, or its process or connection dies.
GiveUp(t) ==
    /\ req[t] # Idle
    /\ Finish(t)
    /\ UNCHANGED <<versions, archived, assigned>>

-----------------------------------------------------------------------------
(* Periods                                                                 *)

NextStart(b) ==
    IF periods[b] # {} THEN LastEnd(periods[b]) + 1
    ELSE Min({Forever} \cup {a.from : a \in assigned[b]})

\* The next day on which another version or assignment takes over.
AuthorityUntil(b, a, day) ==
    Min({a.to, NextVersionDate(a.setup, day), AssignUntil(b, day)})

\* Assignment a and version v let a period start on the day.
Legal(b, a, v, day) ==
    /\ IsPeriodStart(v.sched, day, Max({v.sched.anchor, PriorEnd(b, day) + 1}))
    /\ PeriodEnd(v.sched, day) < AuthorityUntil(b, a, day)

\* Mutant: creation does not wait for the branch lock.
BranchOpen(b) == TRUE
BranchFree(b) == branchLock[b] = None

SlotFree(b, status) ==
    /\ \A p \in periods[b] : p.status # "Draft"
    /\ IF status = "Open" THEN \A p \in periods[b] : p.status # "Open"
       ELSE \E p \in periods[b] : p.status = "Open"

CreatePeriod(b) ==
    /\ BranchFree(b)
    /\ Cardinality(periods[b]) < MaxPeriods
    /\ NextStart(b) <= LastDay
    /\ \E a \in AssignmentsAt(b, NextStart(b)), status \in {"Open", "Draft"} :
          /\ a.setup \notin archived
          /\ SlotFree(b, status)
          /\ \E v \in TerminalVersion(a.setup, NextStart(b)) :
                /\ Legal(b, a, v, NextStart(b))
                /\ periods' = [periods EXCEPT ![b] = @ \cup
                      {[start |-> NextStart(b), end |-> PeriodEnd(v.sched, NextStart(b)),
                        assignment |-> a.id, version |-> v.no, status |-> status]}]
    /\ UNCHANGED <<versions, archived, assigned, setupLock, branchLock, req, requests>>

\* The open period goes to review for good, and a draft becomes open.
SubmitPeriod(b) ==
    LET after == [Open |-> "Kept", Draft |-> "Open", Kept |-> "Kept"]
    IN  /\ BranchFree(b)
        /\ \E p \in periods[b] : p.status = "Open"
        /\ periods' = [periods EXCEPT ![b] = {[p EXCEPT !.status = after[@]] : p \in @}]
        /\ UNCHANGED <<versions, archived, assigned, setupLock, branchLock, req, requests>>

\* Not under the branch lock; the last period only, see PayrollWorkflow.
CancelPeriod(b) ==
    /\ \E p \in periods[b] :
          /\ p.status \in {"Open", "Draft"}
          /\ periods' = [periods EXCEPT ![b] = @ \ {p}]
    /\ UNCHANGED <<versions, archived, assigned, setupLock, branchLock, req, requests>>

-----------------------------------------------------------------------------

\* What earlier requests can have left: versions that fit, and assignments
\* for good, from a start of the setup on.
ASSUME StartsAssumption ==
    \A start \in Starts :
        /\ start.versions \in [Setups -> SUBSET VersionRows]
        /\ start.assigned \in [Branches -> SUBSET AssignmentRows]
        /\ \A s \in Setups :
              /\ AllFit(start.versions[s]) /\ IsFiniteSet(start.versions[s])
              /\ \A v, w \in start.versions[s] : v.from = w.from => v = w
        /\ \A b \in Branches : \A a \in start.assigned[b] :
              /\ start.assigned[b] = {a} /\ a.id = 0 /\ a.to = Forever
              /\ IsTimelineStart(start.versions[a.setup], a.from)

Init ==
    /\ \E start \in Starts : versions = start.versions /\ assigned = start.assigned
    /\ archived = {}
    /\ periods = [b \in Branches |-> {}]
    /\ setupLock = [s \in Setups |-> None]
    /\ branchLock = [b \in Branches |-> None]
    /\ req = [t \in Txns |-> Idle]
    /\ requests = 0

Next ==
    \/ \E t \in Txns :
          \/ \E o \in Requests : Begin(t, o)
          \/ LockSetup(t) \/ LockBranch(t) \/ Validate(t) \/ Write(t) \/ GiveUp(t)
    \/ \E b \in Branches : CreatePeriod(b) \/ SubmitPeriod(b) \/ CancelPeriod(b)

Spec == Init /\ [][Next]_vars

-----------------------------------------------------------------------------
(* Properties                                                              *)

\* Whatever is published, assigned or withdrawn after a period was created,
\* its start still resolves to the assignment and version it is pinned to,
\* and nothing takes over before it ends.
HistoryKeepsAuthority ==
    \A b \in Branches : \A p \in periods[b] :
        \E a \in AssignmentsAt(b, p.start) :
            /\ AssignmentsAt(b, p.start) = {a} /\ a.id = p.assignment
            /\ \E v \in TerminalVersion(a.setup, p.start) :
                  v.no = p.version /\ p.end = PeriodEnd(v.sched, p.start)
            /\ p.end < AuthorityUntil(b, a, p.start)

\* The assignments of a branch neither overlap nor leave a day between them
\* uncovered, and each of its days has a schedule.
TimelineCovered ==
    \A b \in Branches : \A a, c \in assigned[b] :
        /\ a # c => a.to <= c.from \/ c.to <= a.from
        /\ a.to <= c.from => \E d \in assigned[b] : d.from = a.to
        /\ ScheduleAt(a.setup, a.from) # None

\* A branch is never stuck between two schedules: the next period it is due
\* is one that the resolver lets it create, as long as a setup is assigned
\* on its first day.
Due(b) == IF NextStart(b) > LastDay THEN {} ELSE AssignmentsAt(b, NextStart(b))
CanFollow(b, a) == \E v \in TerminalVersion(a.setup, NextStart(b)) : Legal(b, a, v, NextStart(b))
NextPeriodLegal == \A b \in Branches : \A a \in Due(b) : CanFollow(b, a)

\* The same, but for two kinds of assignments that come to an end: one whose
\* setup moved on to another version, and one that does not start where the
\* schedule of its first day is anchored, so that its end may have been counted
\* from a period before it.
Revised(b, a) == \E v \in versions[a.setup] : a.from < v.from /\ v.from <= NextStart(b)
Unanchored(a) == \E v \in TerminalVersion(a.setup, a.from) : v.sched.anchor < a.from
NextPeriodLegalIfAnchored ==
    \A b \in Branches : \A a \in Due(b) :
        CanFollow(b, a) \/ (a.to # Forever /\ (Revised(b, a) \/ Unanchored(a)))

\* Requests do not wait for each other in a circle.
SomebodyProceeds ==
    LET waiting(t) ==
            /\ Locking(t)
            /\ IF SetupsLeft(t) # {} THEN setupLock[NextSetup(t)] # None
               ELSE branchLock[Min(BranchesLeft(t))] # None
    IN  (\E t \in Txns : waiting(t)) => \E t \in Txns : req[t] # Idle /\ ~waiting(t)

\* The starts that the onboarding window and the boundary choices are made
\* of are the nearest ones that the timeline of a setup has, and a monthly
\* schedule has one in every month, also where the month is too short for
\* the day the schedule is anchored on.
NavigationFindsStarts ==
    [][\A s \in Setups : versions'[s] # versions[s] =>
          /\ \A d \in 1 .. LastDay : NavigationExact(versions'[s], d)
          /\ MonthsCovered(versions'[s])]_vars
=============================================================================
