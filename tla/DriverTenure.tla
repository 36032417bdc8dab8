---------------------------- MODULE DriverTenure ----------------------------
(***************************************************************************)
(* The branch assignments of one driver and what depends on them: transfer *)
(* requests (transfer/service.py, transfer/disposal.py), termination and   *)
(* driver edits (workforce/service.py), the driver eligibility rosters of  *)
(* payroll periods and the authorization of source entries                 *)
(* (payroll/eligibility.py).                                               *)
(*                                                                         *)
(* An instant is half a day: WorkDate d lasts from 2d - 2 up to 2d, so a   *)
(* boundary at midday leaves both tenures a share of its day.  All branches*)
(* are in one time zone, the captured zone of a roster row with them.      *)
(*                                                                         *)
(* An operation that moves a boundary locks the employee, the request and  *)
(* the assignments, then waits for branches and period rows, and decides   *)
(* with the clock it reads last: op is the operation that waits.  A source *)
(* mutation locks its period row, is authorized, and writes: writer is the *)
(* one that holds its row (bound: one at a time).  Whatever fails rolls    *)
(* back.                                                                   *)
(***************************************************************************)
EXTENDS Naturals, FiniteSets

CONSTANTS
    Branches,       \* branches of the company
    Periods,        \* payroll periods of these branches
    BranchOf,       \* branch of a period
    DaysOf,         \* WorkDates of a period
    FirstBranch,    \* branch of the driver's first assignment
    LastDay,        \* bound: WorkDates are 1 .. LastDay
    MaxTransfers,   \* bound: transfer requests made
    FirstStatus,    \* status of a period at the start
    MaxSteps,       \* bound: requests, live entries and edits together
    Idle            \* nobody waits, or holds a row

Days     == 1 .. LastDay
Instants == 0 .. 2 * LastDay
Never    == 2 * LastDay + 1         \* an open end, or no EffectiveAt
Requests == 1 .. MaxTransfers       \* numbered as they are made

ASSUME TenureAssumption ==
    /\ LastDay \in Nat \ {0} /\ {MaxTransfers, MaxSteps} \subseteq Nat
    /\ FirstStatus \in [Periods -> {"Draft", "Open"}]
    /\ BranchOf \in [Periods -> Branches]
    /\ FirstBranch \in Branches
    /\ DaysOf \in [Periods -> SUBSET Days]
    /\ \A p \in Periods : DaysOf[p] # {}

VARIABLES
    now,        \* the wall clock
    hire,       \* core.Employees.HireDate
    termDate,   \* TerminationDate of a Terminated employee, 0 while Active
    active,     \* core.Drivers.DriverStatus = 'Active'
    asg,        \* core.DriverAssignments: 0 is the first, r the destination of request r
    req,        \* core.DriverTransferRequests
    pstat,      \* PayrollPeriods.Status
    roster,     \* eligible WorkDates per roster row; {}: IncludedByExistingData
    source,     \* WorkDates with a live line or day status: <<period, assignment, day>>
    bonus,      \* active bonus events: <<period, assignment>>
    touched,    \* assignments some payroll row or evidence ever referred to
    writer,     \* source mutation that holds its period row
    op,         \* boundary operation that waits for branches and period rows
    edits       \* moves of periods and edits of the driver so far

people  == <<hire, termDate, active>>
tenure  == <<asg, req>>
entries == <<source, bonus, touched>>
vars == <<now, people, tenure, pstat, roster, entries, writer, op, edits>>

Assignments == {0} \cup Requests
EndReasons  == {"none", "Transferred", "Terminated"}
Windows     == [branch: Branches, from: Instants, to: Instants \cup {Never},
                end: EndReasons]
Finished    == {"Completed", "Cancelled", "Rejected"}
Undecided   == {"PendingSourceApproval", "PendingTargetApproval", "Returned", "Approved"}
Transfers   == [status: Finished \cup Undecided \cup {"Scheduled"},
                source: Assignments, target: Branches, at: Instants \cup {Never}]

EditableStatuses == {"Draft", "Open", "Returned"}       \* SOURCE_ENTRY_STATUSES
BonusStatuses    == {"Open", "Returned"}
Greater(m, n) == IF m >= n THEN m ELSE n
Lesser(m, n)  == IF m <= n THEN m ELSE n

-----------------------------------------------------------------------------
(* Windows and the clock                                                   *)

\* fn_DriverEffectiveRange && fn_WorkDateRange: some of day d is in the window.
Covers(w, d) == w.from < w.to /\ w.from < 2 * d /\ 2 * d - 2 < w.to

IsCurrent(a)  == asg[a].from <= now /\ now < asg[a].to
Current       == {a \in DOMAIN asg : IsCurrent(a)}
Pending       == {a \in DOMAIN asg : now < asg[a].from /\ asg[a].from < asg[a].to}
Terminated    == termDate # 0

\* fn_DriverTransferStatus
EffectiveStatus(r) ==
    IF req[r].status = "Scheduled" /\ req[r].at <= now THEN "Completed"
                                                       ELSE req[r].status

\* The WorkDates of p meet the instants from s up to e.
Meets(p, s, e) == \E d \in DaysOf[p] : s < 2 * d /\ 2 * d - 2 < e

-----------------------------------------------------------------------------
(* Rosters                                                                 *)

EligibleDays(p, w) ==
    {d \in DaysOf[p] : Covers(w, d) /\ hire <= d /\ (Terminated => d <= termDate)}

\* An Active, TerminatedHistorical or Transferred row, or one that only
\* existing entries account for.
HasRow(p, a, w) ==
    \/ EligibleDays(p, w) # {} /\ (w.end # "none" \/ active)
    \/ \E d \in Days : <<p, a, d>> \in source
RowDays(p, w) == IF w.end # "none" \/ active THEN EligibleDays(p, w) ELSE {}

\* Rows of a table by id: one inserted, one deleted.
With(rows, a, row) == [b \in DOMAIN rows \cup {a} |-> IF b = a THEN row ELSE rows[b]]
Without(rows, a)   == [b \in DOMAIN rows \ {a} |-> rows[b]]

\* The row of assignment a with window w, captured into the roster of p.
Captured(p, ros, a, w) ==
    IF HasRow(p, a, w) THEN With(ros, a, RowDays(p, w)) ELSE ros

\* append_driver_assignment_to_editable_periods
Appendable(w) == {p \in Periods : BranchOf[p] = w.branch /\ pstat[p] \in EditableStatuses}
Appended(a, w) ==
    [p \in Periods |-> IF p \in Appendable(w) /\ a \notin DOMAIN roster[p]
                       THEN Captured(p, roster[p], a, w) ELSE roster[p]]

\* Mutant: the row is not captured again.
Unchanged(ros, a, w, ps) == ros

\* recapture_assignment_eligibility in the periods ps
Recaptured(ros, a, w, ps) ==
    [p \in Periods |-> IF p \in ps /\ BranchOf[p] = w.branch
                       THEN Captured(p, Without(ros[p], a), a, w) ELSE ros[p]]

\* Mutant: the day is looked up in the roster alone.
OnRoster(p, a, d) == a \in DOMAIN roster[p] /\ d \in roster[p][a]

\* A captured day that the live window and the driver's state still allow.
DayEligible(p, a, d) ==
    /\ a \in DOMAIN roster[p] /\ d \in roster[p][a]
    /\ a \in DOMAIN asg /\ Covers(asg[a], d)
    /\ asg[a].end # "none" \/ active
    /\ hire <= d /\ (Terminated => d <= termDate)

\* Active bonuses are covered by the window (a mutant of the next, alone).
BonusesCovered(a, w) ==
    \A p \in Periods : <<p, a>> \in bonus =>
        a \in DOMAIN roster[p] /\ \E d \in roster[p][a] : Covers(w, d)

\* assert_assignment_payroll_covered, with the changed window w
PayrollCovered(a, w) ==
    /\ \A p \in Periods, d \in Days : <<p, a, d>> \in source => Covers(w, d)
    /\ BonusesCovered(a, w)

\* What recapture asks of an active bonus.
BonusHasDay(a, ros, ps) ==
    \A p \in ps : <<p, a>> \in bonus => a \in DOMAIN ros[p] /\ ros[p][a] # {}

\* The destination of a scheduled transfer may be deleted.
Disposable(a) ==
    /\ a \notin touched
    /\ \A p \in Periods : a \in DOMAIN roster[p]
                             => pstat[p] \in EditableStatuses \cup {"Cancelled"}

-----------------------------------------------------------------------------
(* Periods: what the payroll workflow does to the rosters and entries      *)

NoWriter(ps) == writer # Idle => writer.p \notin ps

Room == edits + Cardinality(DOMAIN req) + Cardinality(source \cup bonus) < MaxSteps
Edit == Room /\ edits' = edits + 1

\* A prepared period is promoted, its roster captured again and frozen.
Promote(p) ==
    /\ Edit /\ pstat[p] = "Draft" /\ NoWriter({p})
    /\ pstat' = [pstat EXCEPT ![p] = "Open"]
    /\ roster' = [roster EXCEPT ![p] =
                    [a \in {b \in DOMAIN asg : asg[b].branch = BranchOf[p]
                                               /\ HasRow(p, b, asg[b])}
                        |-> RowDays(p, asg[a])]]
    /\ UNCHANGED <<now, people, tenure, entries, writer, op>>

\* Submission, return, finalization and cancellation.
Moves == {<<"Open", "InReview">>, <<"Returned", "InReview">>, <<"InReview", "Returned">>,
          <<"InReview", "Locked">>, <<"Draft", "Cancelled">>, <<"Open", "Cancelled">>}
MovePeriod(p) ==
    /\ Edit /\ NoWriter({p})
    /\ \E to \in EditableStatuses \cup {"InReview", "Locked", "Cancelled"} :
          /\ <<pstat[p], to>> \in Moves
          /\ pstat' = [pstat EXCEPT ![p] = to]
    /\ UNCHANGED <<now, people, tenure, roster, entries, writer, op>>

-----------------------------------------------------------------------------
(* Source mutations                                                        *)

\* save_day_grid and add_draft_line: only a day without an entry needs the
\* roster, an entry on a day that has one may always be replaced.
MayEnter(w) ==
    \/ w.kind = "daily" /\ pstat[w.p] \in EditableStatuses /\ DayEligible(w.p, w.a, w.d)
    \/ w.kind = "bonus" /\ pstat[w.p] \in BonusStatuses
                        /\ \E d \in Days : DayEligible(w.p, w.a, d)
    \/ w.kind = "void"  /\ pstat[w.p] \in EditableStatuses /\ <<w.p, w.a, w.d>> \in source

\* The period row is locked and the mutation authorized under the lock.
Authorize(w) ==
    /\ writer = Idle
    /\ w.a \in DOMAIN asg /\ MayEnter(w)
    /\ w.kind # "void" => Room
    /\ writer' = w
    /\ UNCHANGED <<now, people, tenure, pstat, roster, entries, op, edits>>

Save ==
    /\ writer # Idle
    /\ source' = CASE writer.kind = "daily" -> source \cup {<<writer.p, writer.a, writer.d>>}
                   [] writer.kind = "void"  -> source \ {<<writer.p, writer.a, writer.d>>}
                   [] writer.kind = "bonus" -> source
    /\ bonus' = bonus \cup (IF writer.kind = "bonus" THEN {<<writer.p, writer.a>>} ELSE {})
    /\ touched' = touched \cup {writer.a}
    /\ writer' = Idle
    /\ UNCHANGED <<now, people, tenure, pstat, roster, op, edits>>

\* A refusal or a crash before the commit.
AbandonSave ==
    /\ writer # Idle
    /\ writer' = Idle
    /\ UNCHANGED <<now, people, tenure, pstat, roster, entries, op, edits>>

-----------------------------------------------------------------------------
(* Workforce: the driver and the employee                                  *)

\* The driver with its first assignment.
CreateDriver(b, from) ==
    /\ op = Idle /\ DOMAIN asg = {} /\ NoWriter(Appendable([branch |-> b]))
    /\ LET w == [branch |-> b, from |-> from, to |-> Never, end |-> "none"] IN
          /\ asg' = With(asg, 0, w)
          /\ roster' = Appended(0, w)
    /\ UNCHANGED <<now, people, req, pstat, entries, writer, op, edits>>

UpdateDriver ==
    /\ Edit /\ op = Idle /\ Current \cup Pending # {}
    /\ active' = ~active
    /\ UNCHANGED <<now, hire, termDate, tenure, pstat, roster, entries, writer, op>>

\* _hire_date_has_payroll_history
LinesBefore(d) == \E x \in source : x[3] < d

UpdateHireDate(d) ==
    /\ Edit /\ op = Idle /\ DOMAIN asg # {} /\ hire # d /\ ~LinesBefore(d)
    /\ hire' = d
    /\ UNCHANGED <<now, termDate, active, tenure, pstat, roster, entries, writer, op>>

-----------------------------------------------------------------------------
(* Transfer requests                                                       *)

NoActiveTransfer == \A r \in DOMAIN req : EffectiveStatus(r) \in Finished

CreateTransfer(r, target, at, status) ==
    /\ op = Idle /\ Room /\ DOMAIN req = 1 .. r - 1
    /\ at > now
    /\ \E a \in Current :
          /\ asg[a].end = "none" /\ at > asg[a].from /\ asg[a].branch # target
          /\ NoActiveTransfer /\ Pending \ {a} = {}
          /\ req' = With(req, r, [status |-> status, source |-> a, target |-> target,
                                  at |-> at])
    /\ UNCHANGED <<now, people, asg, pstat, roster, entries, writer, op, edits>>

SetStatus(r, status) == req' = [req EXCEPT ![r].status = status]

ApproveSource(r) ==
    /\ op = Idle /\ req[r].status \in {"PendingSourceApproval", "Returned"}
    /\ SetStatus(r, "PendingTargetApproval")
    /\ UNCHANGED <<now, people, asg, pstat, roster, entries, writer, op, edits>>

DecideTarget(r, verdict) ==
    /\ op = Idle /\ req[r].status = "PendingTargetApproval"
    /\ SetStatus(r, verdict)
    /\ UNCHANGED <<now, people, asg, pstat, roster, entries, writer, op, edits>>

\* cancel and reschedule of a request that has no destination yet
CancelUnscheduled(r) ==
    /\ op = Idle /\ req[r].status \in Undecided
    /\ SetStatus(r, "Cancelled")
    /\ UNCHANGED <<now, people, asg, pstat, roster, entries, writer, op, edits>>

RescheduleUnscheduled(r, at) ==
    /\ op = Idle /\ req[r].status \in Undecided
    /\ at > now /\ at > asg[req[r].source].from /\ at # req[r].at
    /\ req' = [req EXCEPT ![r].at = at]
    /\ UNCHANGED <<now, people, asg, pstat, roster, entries, writer, op, edits>>

-----------------------------------------------------------------------------
(* Operations that move a boundary                                         *)

\* _lock_transfer_lifecycle: the operation owns the employee from here on.
BeginOperation(o) ==
    /\ op = Idle
    /\ op' = o
    /\ UNCHANGED <<now, people, tenure, pstat, roster, entries, writer, edits>>

BeginComplete(r) ==
    /\ req[r].status = "Approved"
    /\ asg[req[r].source].end = "none"
    /\ BeginOperation([kind |-> "complete", r |-> r, start |-> now])

BeginCancel(r) ==
    /\ req[r].status = "Scheduled" /\ ~Terminated
    /\ BeginOperation([kind |-> "cancel", r |-> r])

BeginReschedule(r, at) ==
    /\ req[r].status = "Scheduled" /\ ~Terminated /\ at # req[r].at /\ at < Never
    /\ BeginOperation([kind |-> "reschedule", r |-> r, at |-> at])

\* Refused, or crashed, after it waited for the locks.
AbandonOperation ==
    /\ op # Idle
    /\ op' = Idle
    /\ UNCHANGED <<now, people, tenure, pstat, roster, entries, writer, edits>>

\* lock_boundary_periods: periods of branches bs that meet the instants s to e
BoundaryPeriods(bs, s, e) == {p \in Periods : BranchOf[p] \in bs /\ Meets(p, s, e)}

\* Mutant: no state of a period blocks the operation.
NoneBlocks(ps) == TRUE

\* Strict mode: nothing is rewritten below a submitted period.
AllEditable(ps) == \A p \in ps : pstat[p] \in EditableStatuses \cup {"Cancelled"}
EditableOf(ps)  == {p \in ps : pstat[p] \in EditableStatuses}

BranchesOf(r) == {asg[req[r].source].branch, req[r].target}

\* Mutant: the decision instant is the start of the transaction.
TransactionStart == op.start
\* decision_instant: the clock, read after every lock is held.
DecidedAt == now

Commit(asgNew, rosterNew, reqNew) ==
    /\ asg' = asgNew /\ roster' = rosterNew /\ req' = reqNew
    /\ op' = Idle
    /\ UNCHANGED <<now, hire, active, pstat, entries, writer, edits>>

Complete ==
    /\ op # Idle /\ op.kind = "complete"
    /\ LET r      == op.r
           s      == req[r].source
           lower  == IF req[r].at = Never THEN op.start ELSE req[r].at
           at     == IF req[r].at = Never THEN DecidedAt ELSE req[r].at
           closed == [asg[s] EXCEPT !.to = at, !.end = "Transferred"]
           opened == [branch |-> req[r].target, from |-> at, to |-> Never, end |-> "none"]
       IN /\ NoWriter(BoundaryPeriods(BranchesOf(r), lower, Never) \cup Appendable(opened))
          /\ IsCurrent(s) /\ asg[s].to = Never
          /\ req[r].at # Never => req[r].at > DecidedAt
          /\ at > asg[s].from
          /\ Pending \ {s} = {}
          /\ PayrollCovered(s, closed)
          /\ Commit(With([asg EXCEPT ![s] = closed], r, opened), Appended(r, opened),
                    [req EXCEPT ![r].at = at,
                                ![r].status = IF req[r].at = Never THEN "Completed"
                                                                   ELSE "Scheduled"])
    /\ UNCHANGED termDate

Cancel ==
    /\ op # Idle /\ op.kind = "cancel"
    /\ LET r        == op.r
           s        == req[r].source
           ps       == BoundaryPeriods(BranchesOf(r), req[r].at, Never)
           reopened == [asg[s] EXCEPT !.to = Never, !.end = "none"]
           without  == [p \in Periods |-> Without(roster[p], r)]
           captured == Recaptured(without, s, reopened, EditableOf(ps))
       IN /\ NoWriter(ps) /\ AllEditable(ps)
          /\ req[r].at > DecidedAt
          /\ Disposable(r)
          /\ BonusHasDay(s, captured, EditableOf(ps))
          /\ Commit(Without([asg EXCEPT ![s] = reopened], r), captured,
                    [req EXCEPT ![r].status = "Cancelled"])
    /\ UNCHANGED termDate

\* Mutant: the destination keeps its start.
MovedSource(r, at) == [asg EXCEPT ![req[r].source].to = at]

\* Both boundaries move together.
MovedBoundary(r, at) == [asg EXCEPT ![req[r].source].to = at, ![r].from = at]

Reschedule ==
    /\ op # Idle /\ op.kind = "reschedule"
    /\ LET r     == op.r
           s     == req[r].source
           at    == op.at
           ps    == BoundaryPeriods(BranchesOf(r), Lesser(req[r].at, at), Greater(req[r].at, at))
           moved == MovedBoundary(r, at)
           once  == Recaptured(roster, s, moved[s], EditableOf(ps))
           twice == Recaptured(once, r, moved[r], EditableOf(ps))
       IN /\ NoWriter(ps) /\ AllEditable(ps)
          /\ req[r].at > DecidedAt /\ at > DecidedAt /\ at > asg[s].from
          /\ PayrollCovered(s, moved[s]) /\ PayrollCovered(r, moved[r])
          /\ BonusHasDay(s, twice, EditableOf(ps)) /\ BonusHasDay(r, twice, EditableOf(ps))
          /\ Commit(moved, twice, [req EXCEPT ![r].at = at])
    /\ UNCHANGED termDate

-----------------------------------------------------------------------------
(* Termination                                                             *)

Cutoff(d) == 2 * d

\* Paid entries after the termination date.
FinalizedAfter(d) == \E x \in source : pstat[x[1]] = "Locked" /\ x[3] > d

\* What the request reads before it waits for branches and periods.
BeginTerminate(d) ==
    /\ ~Terminated /\ hire <= d
    /\ \E a \in DOMAIN asg : Covers(asg[a], d)
    /\ ~FinalizedAfter(d)
    /\ BeginOperation([kind |-> "terminate", d |-> d])

\* Scheduled requests that can no longer take effect.
Disposed(d) == {r \in DOMAIN req : /\ req[r].status = "Scheduled"
                                   /\ req[r].at >= Cutoff(d) /\ req[r].at > DecidedAt}

\* Every assignment is capped at the cutoff; one that starts later is emptied.
Capped(w, d) ==
    IF w.to <= Cutoff(d) /\ (w.end = "Terminated" \/ w.from < Cutoff(d)) THEN w
    ELSE [w EXCEPT !.end = "Terminated",
                   !.to = IF w.from >= Cutoff(d) THEN w.from ELSE Lesser(w.to, Cutoff(d))]

\* The source of a disposed transfer ends at the cutoff.
CappedSource(w, d) == [w EXCEPT !.end = "Terminated", !.to = Greater(w.from, Cutoff(d))]

Terminate ==
    /\ op # Idle /\ op.kind = "terminate"
    /\ LET d    == op.d
           gone == Disposed(d)
           bs   == {asg[a].branch : a \in DOMAIN asg}
                       \cup {req[r].target : r \in {q \in DOMAIN req :
                                req[q].status \in Undecided \cup {"Scheduled"}}}
           ps   == BoundaryPeriods(bs, Cutoff(d), Never)
       IN /\ NoWriter(ps)
          /\ \A r \in gone : Disposable(r)
          /\ Commit([a \in DOMAIN asg \ gone |->
                        Capped(IF \E r \in gone : req[r].source = a
                               THEN CappedSource(asg[a], d) ELSE asg[a], d)],
                    [p \in Periods |-> [a \in DOMAIN roster[p] \ gone |-> roster[p][a]]],
                    [r \in DOMAIN req |->
                        IF r \in gone \/ req[r].status \in Undecided
                        THEN [req[r] EXCEPT !.status = "Cancelled"] ELSE req[r]])
          /\ termDate' = d

-----------------------------------------------------------------------------
Init ==
    /\ now = 0 /\ hire = 1 /\ termDate = 0 /\ active = TRUE
    /\ asg = <<>> /\ req = <<>>
    /\ pstat = FirstStatus
    /\ roster = [p \in Periods |-> <<>>]
    /\ source = {} /\ bonus = {} /\ touched = {}
    /\ writer = Idle /\ op = Idle /\ edits = 0

Tick ==
    /\ now < 2 * LastDay - 1
    /\ now' = now + 1
    /\ UNCHANGED <<people, tenure, pstat, roster, entries, writer, op, edits>>

Mutations ==
    [kind: {"daily", "void"}, p: Periods, a: Assignments, d: Days] \cup
    [kind: {"bonus"}, p: Periods, a: Assignments]

PayrollNext ==
    \/ \E p \in Periods : Promote(p) \/ MovePeriod(p)
    \/ \E w \in Mutations : Authorize(w)
    \/ Save \/ AbandonSave

RequestNext ==
    \E r \in Requests :
        \/ \E b \in Branches, at \in Instants \cup {Never},
              s \in {"PendingSourceApproval", "PendingTargetApproval"} :
              CreateTransfer(r, b, at, s)
        \/ /\ r \in DOMAIN req
           /\ \/ ApproveSource(r)
              \/ \E v \in {"Approved", "Rejected", "Returned"} : DecideTarget(r, v)
              \/ CancelUnscheduled(r)
              \/ \E at \in Instants : RescheduleUnscheduled(r, at) \/ BeginReschedule(r, at)
              \/ BeginComplete(r)
              \/ BeginCancel(r)

WorkforceNext ==
    \/ \E from \in {now, now + 1} \cap Instants : CreateDriver(FirstBranch, from)
    \/ UpdateDriver
    \/ \E d \in Days : UpdateHireDate(d) \/ BeginTerminate(d)
    \/ Complete \/ Cancel \/ Reschedule \/ Terminate
    \/ AbandonOperation

Next == Tick \/ PayrollNext \/ RequestNext \/ WorkforceNext

Spec == Init /\ [][Next]_vars

-----------------------------------------------------------------------------
(* Properties                                                              *)

\* Every value is of its kind, and every id is the id of a row.
TypeOK ==
    /\ now \in Instants /\ hire \in Days /\ termDate \in 0 .. LastDay /\ active \in BOOLEAN
    /\ DOMAIN asg \subseteq Assignments /\ \A a \in DOMAIN asg : asg[a] \in Windows
    /\ DOMAIN req \subseteq Requests /\ \A r \in DOMAIN req : req[r] \in Transfers
    /\ pstat \in [Periods -> EditableStatuses \cup {"InReview", "Locked", "Cancelled"}]
    /\ \A p \in Periods : \A a \in DOMAIN roster[p] : roster[p][a] \subseteq DaysOf[p]
    /\ source \subseteq Periods \X Assignments \X Days
    /\ bonus \subseteq Periods \X Assignments
    /\ writer \in Mutations \cup {Idle}

\* A driver belongs to one branch at a time, whatever transfers are made,
\* moved, cancelled and cut short (the database excludes overlaps as well).
OneTenureAtATime ==
    \A a, b \in DOMAIN asg : a # b =>
        \/ asg[a].to <= asg[b].from \/ asg[b].to <= asg[a].from
        \/ asg[a].from = asg[a].to \/ asg[b].from = asg[b].to

\* No entry of a day and no bonus is left with an assignment that does not
\* cover it; only days after a termination may be.
FactsInTenure ==
    /\ \A x \in source : (Terminated => x[3] <= termDate)
                            => x[2] \in DOMAIN asg /\ Covers(asg[x[2]], x[3])
    /\ \A x \in bonus : ~Terminated =>
          /\ x[2] \in DOMAIN asg \cap DOMAIN roster[x[1]]
          /\ \E d \in roster[x[1]][x[2]] : Covers(asg[x[2]], d)

\* What trg_DriverAssignments_HistoryImmutable accepts: the handlers never ask
\* the database for a boundary it refuses to move.
BoundaryMoveLegal(a) ==
    /\ asg'[a].branch = asg[a].branch
    /\ asg'[a].from # asg[a].from => asg[a].from > now /\ asg'[a].from > now
    /\ \/ asg'[a].to = asg[a].to /\ asg'[a].end = asg[a].end
       \/ asg[a].to = Never /\ (asg'[a].to >= now \/ termDate' # termDate)
       \/ asg[a].to > now /\ (asg'[a].to > now \/ termDate' # termDate)
       \/ asg[a].end = "Transferred" /\ asg'[a].end = "Terminated" /\ termDate' # termDate
HistoryRespected ==
    [][/\ \A a \in DOMAIN asg \ DOMAIN asg' : asg[a].from > now
       /\ \A a \in DOMAIN asg \cap DOMAIN asg' : BoundaryMoveLegal(a)]_asg

\* Days that the tenure of a gains in p in this step.
Gained(a, p) ==
    {d \in DaysOf[p] : /\ a \in DOMAIN asg' /\ asg'[a].branch = BranchOf[p]
                       /\ Covers(asg'[a], d)
                       /\ ~(a \in DOMAIN asg /\ Covers(asg[a], d))}

\* The roster of a submitted period is evidence: no operation rewrites it, nor
\* gives an existing assignment days of which it does not know.
SubmittedRosterKept ==
    [][\A p \in Periods : pstat[p] \in {"InReview", "Locked"} =>
          roster'[p] = roster[p] /\ \A a \in DOMAIN asg : Gained(a, p) = {}]_<<asg, roster>>

\* A day that an Active driver gains, by a new assignment or by a boundary
\* given back or moved, is on the roster of its editable period at once.
GainedDaysOnRoster ==
    [][\A p \in Periods, a \in Assignments :
          pstat[p] \in EditableStatuses /\ active =>
              \A d \in Gained(a, p) : hire <= d =>
                  a \in DOMAIN roster'[p] /\ d \in roster'[p][a]]_asg

\* A new entry is on a day that the roster and the tenure allow when it is
\* written, not only when it was authorized.
EntryWithinTenure ==
    [][\A x \in source' \ source :
          /\ x[2] \in DOMAIN roster[x[1]] /\ x[3] \in roster[x[1]][x[2]]
          /\ x[2] \in DOMAIN asg /\ Covers(asg[x[2]], x[3])
          /\ Terminated => x[3] <= termDate]_source
=============================================================================
