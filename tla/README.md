# Flussra payroll workflow in TLA+

Flussra is a multi-company payroll application: a FastAPI backend
(`backend/app`) over PostgreSQL, and a React frontend. This directory holds
TLA+ specifications of its core, the period workflow, TLC configurations that
model-check them, and proofs that TLAPS checks.

Paths below are relative to `backend/app/` unless they say otherwise.

## 1. The system

A company has branches. A branch pays its drivers period by period. A period
is prepared (`Draft`), open for entry (`Open`), handed in for review
(`InReview`), sent back (`Returned`) or `Approved`, paid (`Locked`) and
`Archived`, or `Cancelled` before it was handed in. All state is in PostgreSQL;
the backend keeps none between requests, so all concurrency is between
database transactions, and a crash is a rollback.

| component | state | operations | interacts with |
|---|---|---|---|
| Period lifecycle (`payroll/period_lifecycle.py`) | `PayrollPeriods.Status`, `CurrentReturnReviewItemID` | submit, resubmit, PATCH transitions (cancel, archive) | captures a snapshot, links evidence, creates a review item, promotes the prepared period |
| Period creation (`payroll/period_creation.py`) | period rows with `CreationCandidateKeyHash` | preview candidates, create from a signed key | slots and calendar of the branch, payroll setup, rosters |
| Source entry (`payroll/draft_line_mutation.py`, `day_grid.py`, `quantity_batch.py`) | draft lines, day entries, statuses | add, update, void, save a grid, commit a batch | period row lock, rosters, evidence |
| Bonuses (`payroll/bonus.py`) | bonus events, `BonusDataRevision` | create, update, void, batch | period row (locked and updated), evidence |
| Review (`review/service.py`) | review items and decisions | approve, reject, request edits, comment | period status, self-approval policy |
| Finalization (`payroll/finalization.py`) | final lines | finalize | the approved item's snapshot |
| Snapshots and evidence (`payroll/calculation_snapshot.py`, `audit_evidence.py`) | immutable revisions, evidence events and their links | capture, link, verify | written by submission, read by finalization |
| Rosters (`payroll/eligibility.py`) | eligibility rows, provisional or frozen | create, recapture, regenerate, freeze | creation, promotion, transfers |
| Transactions (`db/transaction_retry.py`, `payroll/workflow_lock.py`, `mutation_lock.py`) | locks | retry on 40001/40P01, advisory branch lock, row lock | every handler |
| Driver tenure (`transfer/`, `workforce/`) | `DriverAssignments`, transfer requests, hire and termination dates | create, approve, complete, cancel, reschedule a transfer; hire, terminate | rosters and entries of periods in both branches, the clock |
| Day statuses (`payroll/day_entry_state.py`, `settings/status_keys.py`) | selections per day, catalog, usage limits | save, change a status, set a limit | source entry |
| Payroll setup (`payroll_setup/`) | setups, versions, assignments of branches | publish, assign, reassign, withdraw, archive | creation pins a version; periods restrict every change |
| Compensation (`compensation/`, `payroll/driver_pay_rules.py`) | rate definitions, schedules and values, pay rules | draft, approve, void; change or retire a structure | tenures give the authority, finalized payroll forbids |
| Company currency (`company_currency.py`) | currency of the company | change | share-locked by every monetary write |
| Calculation (`payroll/calculation`, `period_calculation.py`) | none (pure) | lines, tiers, proration, rounding, day ownership | snapshots |
| Imports (`imports/`) | batches, interpretation, mapping, saved rules, previews | create, interpret, map, preview, cancel, purge | facts of the period, finalization |
| Administration (`admin/`) | accounts, roles given, roles and their permissions, extra permissions | create, link, provision, update, assign, revoke, edit, archive, transfer ownership | employments (`workforce/`), permission checks of every handler |
| Authentication, read models, frontend | see `PROJECT.json` | | |

What is hard here, and what each hazard in `PROJECT.json` points at:

- Requests interleave. Every handler reads first without a lock, then waits,
  then checks again; what it read before may be old.
- Submission runs at REPEATABLE READ, so what it reads after waiting is old
  by design; it relies on 40001 conflicts and a retry to notice.
- Two mechanisms guard the calendar of a branch: an advisory lock that
  creation, submission, decisions and finalization take, and period rows that
  everybody locks. Cancelling and source entry take only the second.
- A period may go round review several times, by different people, and what
  is paid must be what was approved.
- Creation is two requests with a key between them that may be old, used,
  repeated or used by somebody else. Imports repeat this with uploads.
- Changes of a driver's tenure, rates and rules reach over several branches.
  They learn which branches to lock from rows they must lock first, and they are
  judged by a clock that moves while they wait.
- Administration locks the account it changes but judges it by rows of other
  tables: roles, employments, and what the one who acts may grant.
- What is settled (paid payroll, ended tenures, periods under review) must not be
  rewritten by a change whose dates reach back to it.
- The setup timeline and the periods created from it constrain each other: a
  version may not cut a period, a period may not run past its authority.

The properties that make the components correct are: slots are never doubled
and the calendar has no gap (lifecycle, creation); what is reviewed is what was
entered, and what is paid is what was approved by somebody entitled (entry,
snapshots, review, finalization); history is append-only; a retried request is
applied once; every request is answered; tenures do not overlap and every entry
lies in one; usage limits and days off hold whoever saves at once; the setup
timeline has no hole under a period; rates and rules of settled dates stay as they
were; amounts are within the rules and payable; a preview shows today's facts; who
signs in has a role and an employment, and gets no more than the giver could grant.

## 2. Modules

| module | models | state and actions |
|---|---|---|
| `PeriodLifecycle` | the abstract specification | phase of every period, packet handed in, packet paid |
| `PayrollWorkflow` | every handler as one atomic action | rows of one branch: status, place in the calendar, roster, entries, evidence, snapshots, items, return pointer, final lines |
| `WorkflowTransactions` | the same handlers as concurrent transactions | adds connections (`pc`, `req`, `attempt`), what a REPEATABLE READ snapshot or a candidate shows (`view`), what it missed, and the locks |
| `PeriodCreation` | preview, key and creation around `PayrollWorkflow` | adds the setup timeline, previews being served, keys held, the key of each period, the last answer |
| `DriverTenure` | transfers, termination and hiring of one driver, rosters and entries by day | assignments, requests, clock, periods, rosters, entries; `op` is the operation that waits for locks, `writer` the entry that holds a row |
| `ImportBatches` | import requests of one period | imports, rule head, version of the payroll facts, the request each worker serves, the holder of the row |
| `DayEntry` | statuses and lines of each day of one period | catalog, limits, selections, lines, what each clerk's request has read |
| `Chronology` | schedule arithmetic: period ends, grids, navigation | operators only |
| `SetupTimeline` | the payroll setup of the branches, as transactions | versions, assignments, periods, locks, requests |
| `PayCalculation` | lines, tiers, rounding, proration, official amounts | operators only |
| `CompensationSchedules` | schedules, pay rules, structure, currency, periods and a transfer of one driver, as transactions | clock, tenures, structure, schedules, rules, period statuses, rosters, packets, currency, transactions with the locks they hold |
| `AccessSafety` | accounts, roles, extra permissions, ownership and the end of employments, as transactions | accounts, roles held, extra permissions, roles, terminated employees, the request each session serves with its row locks |
| `MC...` | constants, initial states and symmetry for TLC | |
| `...Proofs` | theorems (section 4) | |

`WorkflowTransactions` and `PeriodCreation` extend `PayrollWorkflow` and reuse
its handlers: `SubmitReading(p, u, db)` takes the database it reads as an
argument, and is given the current one by the atomic `Submit` and the snapshot
of the transaction by `CommitSubmit`.

### How the state corresponds to the code

- *One branch.* Slot indexes, the advisory lock and the calendar are keyed by
  (company, branch), so branches do not influence one another.
- *Dates are positions.* A candidate starts the day after the last period that
  is not cancelled (`_next_candidate_start`), so a period at position n ends
  where n + 1 starts. The length of a period and the overlap query have no more
  to say once positions are distinct.
- *Entries are facts.* A draft line, a day status or a bonus is a member of
  `Lines` or `Bonuses`; an edit voids a fact and adds another. One mutation
  changes any number of facts of one kind, as a grid or a batch does.
- *A snapshot is the packet it stores*; hashes and their verification are
  functions of it. Evidence is counted: events written and events linked.
  Evidence of the workflow actions themselves is linked when it is written and
  left out.
- *Final lines are the packet they are projected from.* A period with status
  evidence only projects no rows; the model keeps the packet that was projected,
  evidence included.
- *Keys are payloads.* The HMAC of a payload identifies it.
- *Unique indexes are not guards.* The partial indexes for one Draft, one Open,
  one InReview and one Returned period are left out of the handlers; the
  properties show that locks and checks suffice without them.

### Transactions

Writes take effect at the commit step, with the locks still held; a `Crash` or a
refusal before it changes nothing. A lock on a row that someone else *updated*
since a REPEATABLE READ snapshot fails with 40001 (`Conflict`); a row that
someone else merely *locked* is granted. This is PostgreSQL's rule and the whole
difference between bonuses, which update `BonusDataRevision` in the period row,
and lines, which only lock it. Rows are locked one at a time in identifier
order. Creation checks its candidate in one step and inserts in another, because
cancelling takes no branch lock and may come between.
After its check under the lock, a single bonus mutation accepts the statuses of
`SOURCE_ENTRY_STATUSES`, having checked `ENTRY_ALLOWED_STATUSES` before; a period
never goes back to `Draft`, so this accepts no more. The batch repeats the
narrower check under the lock, which is a special case.

In `PeriodCreation` a creation is one step; the gap between its checks and its
insert is `WorkflowTransactions`' business. The second lock of a creation
(`branch_compensation_config_concurrency.py`) orders it against changes of the
setup timeline and is part of that step.

Left out here: the purge of import details by finalization (`ImportBatches` has
it), the share lock on the company's currency row (`CompensationSchedules` has
it), and review item rows, which lock together with their period since every
deciding request holds the branch lock.

### Driver tenure

An instant is half a day, so a boundary at midday gives its day to both tenures.
Every handler of `transfer/service.py` is an action; those that move a boundary
(complete, cancel, reschedule, terminate) are two: `Begin...` locks employee,
request and assignments, and `Complete`, `Cancel`, `Reschedule` or `Terminate`
decides under the branch and period locks with the clock read last
(`DecidedAt`). Periods and entries move in between. `Recaptured`, `Appended` and
`Without` are the three things that happen to roster rows
(`payroll/eligibility.py`). Rosters hold the days they were captured with, so
they may differ from what the tenure covers today; `DayEligible` asks both.

### Day entry

A save resolves statuses without a lock (`BeginSave`) and writes under the
period row lock (`Save`), where a status resolved as active is read again and the
limits are counted. The trigger that refuses work beside a full day off is the
guard `OffWorkGuard` of each write; the unique index on live lines is `OneLive`.

### Imports

Writing transactions are one step, guarded by the revision of the import
(`LockMutable`); the preview has its three transactions, and the publication is
split between its recheck and its write, because rule heads are not locked. Files
and columns are members of small sets.

### Payroll setup

A request reads a hint (`Begin`), locks setups and then branches in ascending
order (`LockSetup`, `LockBranch`), validates and writes. Days are numbers, and
the days on which months start are a parameter of `Chronology`, so that a short
calendar has months that end before the day a period starts on. `CreatePeriod` resolves and
checks the timeline as `PeriodCreation`'s creation does, whose timeline is one
number.

### Compensation and calculation

The module has one driver and one rate definition. A request is begun, takes its
locks one at a time in the order of `branch_compensation_config_concurrency.py`,
learning the branches to lock once it holds the driver's assignments
(`BranchesFrom`), and then acts. A change that moves pay decides (`Decide`) and
writes in two steps because the clock may tick in between: the trigger of
migration 0088 looks at it again. Exclusion constraints and triggers are guards
of the write.

A submission is REPEATABLE READ: `Begin` fixes the packet it will store. A
schedule approved while it waits is not in that packet, for the same reason as in
`stale_snapshot`. The currency is: its row cannot be locked once it changed.

Amounts are integers, counted in quanta of the internal precision (`Scale` in a
unit where the code has 10000), and a currency is the number of quanta in its
minor unit. `Nearest` is ROUND_HALF_EVEN. `Packet` rounds the sum of the lines
once, then the adjustments, as `_build_live_calculation_packet` does.

The driver has entries in every period that is submitted, periods are not
cancelled, and a submitted period is approved when it is finalized: the workflow
itself is `PayrollWorkflow`'s.

### Administration

A request passes its permission check without a lock (`Begin`), locks rows in the
order of its statements (`Rows`, `Acquire`), checks (`Check`, with one operator
`May...` per operation) and writes (one action per operation). Rows that an
operation reads and does not lock may change between its check and its write: the
permissions of the one who acts, and everything about the target of an override.
A foreign key waits for the rows it refers to (`Refers`). Permission codes are
two: the one that administration asks for, and any other.

## 3. Model checking

Every run below finishes with the stated result. Bounds are the CONSTANTS named
`Max...`, `Last...` or `Horizon`, and the sizes of the sets. All runs turn the
deadlock check off: a system is quiescent when every bound is used up. That
nobody waits for somebody who waits is stated instead, by `RequestAnswered` and
`SomebodyProceeds`.

| run | instance | shows |
|---|---|---|
| `entry_race` | 3 connections, 1 period, 2 rounds, 2 users, no self-approval | `EntryOnlyWhileEditable`, `FrozenBonusesAreLive`, `OneHandInPerReview`, `ReviewBinding`, `PaidIsApproved`, `FourEyes`, `HistoryImmutable`; three connections so that a bonus may commit while a submission waits and another mutation holds the row |
| `answered` | 2 connections, 2 periods, no symmetry (liveness) | `RequestAnswered`, `SlotsUnique`, `CalendarGapless`, and that the interleaved handlers implement `PeriodLifecycle` |
| `period_creation` | 2 clients, 2 periods, a timeline that changes once | `RetryIsRecognized`, and that creation by key implements `PayrollWorkflow` |
| `tenure` | 2 branches, a two-day period in one and a one-day period in the other, 2 transfers, 3 edits and moves | tenures do not overlap, entries lie within them, nothing behind the clock or below a submitted roster is rewritten, gained days reach the rosters |
| `imports` | 2 workers, 2 keys, batches, mappings and interpretations, 5 requests | no lost update, previews published and served on current facts and rules, creation once per key, no detail left behind by finalization |
| `day_entry` | 2 drivers, 2 days, 1 status, 2 clerks, 3 requests, 1 change of catalog or limits | no work on a full day off, limits hold under concurrent saves |
| `setup_timeline` | 1 branch, 2 setups, days 1, 3 and 5, months of 3, 2, 3 ... days, 3 requests by 2 transactions | periods keep their authority, no gaps, the next period can be created unless its assignment comes to an end after a revision or away from the anchor of its schedule, no circle of locks, navigation finds every start and no other |
| `compensation` | 57 configurations of schedules, rules, periods and tenures, then 2 requests of any kind by 2 connections; days 1 to 4, clock 0, 3, 4, 8; three two-day periods in 2 branches; 4 quanta in a unit | settled terms never change, no day counts twice, normal pay within the rules, amounts payable in the currency, no circle of locks |
| `access` | an owner who may sign in or not, an administrator and a third account in each of 8 situations; 2 employees, one a driver; 2 roles to edit; 2 requests of any kind by 2 sessions | `AccessNeedsStanding`, `RolesHeldStand`, `NewOwnerCanSignIn`, `GivenWithinCeiling` |
| `dead_boundary` | violation | `NextPeriodLegal` fails |
| `stale_snapshot` | violation | `FrozenPacketIsLive` fails for lines |
| `cancelled_candidate` | violation | `FreshCandidateWorks` fails |

Why the bounds are enough. The workflow's handlers look at most at one other
period in each slot and at the last one in the calendar, so two periods meet every
guard; a second revision is the first with a past, and a third repeats it. Two
attempts have a retry that succeeds and one that gives up (the code has three).
Two connections make every pair of handlers interleave. What holds of the atomic
handlers is proved without any bound (below). A second transfer is the first one
built on another; a boundary lies in one day, so a period of two days has a day
before it, one of it or one after it. An import has one live preview and one rule
head, so two workers are the writer and the one it overtakes; two mappings let a
rule change. A limit counts uses by driver and by day, so two of each, with a limit
of one, tell all four apart. In the setup timeline a boundary has a predecessor
and a successor, and requests name the days before, at and after the start of the
second version. In `compensation` a defect needs two requests at once against a
configuration with a past, so the initial states are configurations that earlier
requests lead to: with and without schedules, a pending successor, rules, a
calendar that does not fit, submitted periods and a transfer, before and after the
clock passes it. Schedules change while a period between them is paid with one
line of 4 quanta, rates of 3 and 5 and rules of 6 and 8: enough for a tie, a
top-up, a cap and a fraction of one half. `access` starts like `compensation`: the
third account is absent, staged, linked, terminated, an administrator, a clerk of one
branch or of all, or a driver, and two requests are an operation and the one that
comes between its check and its write.

Symmetry is used for interchangeable connections, users, keys and mappings, and
never in `answered`.

### Mutants

For every property of a run above, `PROJECT.json` names a definition of the model
and a variant of it, defined next to it and commented `Mutant:`, that makes the
mistake the property is there to find: a guard forgotten, a check made on an old
read, a lock kept or not taken. With the variant in place the run reports the
property violated.

### Fairness

Only `answered` assumes fairness. `WF(Work(t))`: a transaction that can go on
does, since a request handler runs until it answers. `SF(TakeLock(t))`:
PostgreSQL grants a lock in the order of the requests waiting for it, so a
waiting transaction is not overtaken for ever even though the lock is taken and
released in between. Requests need not arrive, and crashes need not happen.

### What the violations show

- `stale_snapshot`. A submission's snapshot is taken by its first read
  (`period_lifecycle.py:96`), before it waits for the period row. A line or
  grid mutation that holds the row then commits; the row was locked, not
  updated, so the submission continues on its old snapshot and hands in a packet
  without the change. The period is in review with entries that differ from the
  snapshot. A bonus in the same place makes the submission start over.
- `dead_boundary`. A branch may be assigned to a setup up to the start of a later
  assignment; the boundary is checked against the schedule at the *start* of the
  new assignment, although a version published in between may govern its end. A
  period of that version would run over the boundary, so no next period is legal.
  `NextPeriodLegalIfAnchored` states what does hold.
- `cancelled_candidate`. The candidate key does not show cancelled periods. After
  the created period is cancelled, and with nothing else changed, a fresh preview
  offers the same key, which creation refuses as used up.

### Other divergences met

These follow from the source and have no run of their own.

- `payroll_setup/validation.py:84`. The predecessor's cadence is counted from the last
  actual period, although that period may belong to an earlier assignment
  (`validate_next_version` takes the periods of the segment only). Under setup 1 (2 days
  from day 1), with a period on days 1 to 2, a branch is reassigned from day 5 to setup 2
  (3 days from day 2) and from day 9 back to setup 1. Day 9 is accepted as counted from
  day 3, but the periods of setup 2 start on days 5 and 8, and the one due on day 8 runs
  over day 9: the branch is stuck, as in `dead_boundary` but without a second version. It
  came up as the case in which the proof of `NextPeriodLegalIfAnchored` without its
  `Unanchored` failed, and TLC finds it with these schedules.
- `payroll/period_lifecycle.py:196`. With the cause of `stale_snapshot`, a submission
  does not see a prepared period created while it waited for the branch lock, and
  does not promote it: the branch is left with a prepared period and no open one.
  `SubmitPromotes` of `PayrollWorkflow` says what is expected, and
  `SubmissionPromotes` proves it of handlers that run one at a time.
- `admin/role_assignments.py:89`. Revocation and termination refuse to take the role
  of the Company Owner, and assignment does not look whether its target holds it: a
  role given to the owner leaves the company without one.
- `admin/permissions.py:302`. Extra permissions are set without a lock on the account,
  so they may outlast a termination, meet the role DRIVER, or merge with another
  request's.
- `admin/users.py:163`. Unlinking and giving DRIVER lock account and then employee,
  termination the other way round: PostgreSQL ends one of them. The model's `Abandon`
  is that.
- `admin/roles.py:212`. The role of the owner can be set inactive, and then ownership
  cannot be transferred (`owner_transfer.py:64-71`).
- `admin/roles.py:111`. A new role whose generated code is taken is tried again
  without a savepoint, in a transaction that has failed.
- `payroll/day_entry_state.py:181`. A status that is inactive when it is resolved
  is accepted because the day holds it, and not read again under the lock. If the
  day is cleared meanwhile the save selects a deactivated status anew
  (`StillActive` in `DayEntry` looks at statuses seen active only).
- `workforce/service.py:601`. The earliest assignment is read before the driver's
  rows are locked and its start is then moved.
- `payroll/period_calculation.py:436-438` says that a date belongs to exactly one
  assignment. A period submitted before a transfer closes its assignment has
  already counted the transfer day, which the destination counts as well;
  `CountedOnce` excepts exactly that case.
- `payroll/audit_evidence.py:169`. Evidence of a line committed after a
  submission's snapshot stays unlinked until the next one.
- `payroll/draft_line_mutation.py:345`. Two voids of one line both write evidence.
- A meaning of a status read before the locks is repeated only by the trigger of
  the database, which then refuses the save with a database error.
- An archived setup governs again when the assignment that replaced its own is
  withdrawn.

## 4. Proofs

Every theorem holds for all values of the constants: any numbers of periods,
facts, users, connections, workers, clerks and keys, and any bounds. The
assumptions are the types of the constants and that a null value is not a value
(`WorkflowAssumption`, `TransactionAssumption`, `CreationAssumption`,
`DayEntryAssumption`, `ImportAssumption`, `TenureAssumption`, `AccessAssumption`,
`CompensationAssumption`, `ScaleAssumption`, `NullAssumption`). Some say more: a
fact is not both a line and a bonus, `DayEntryAssumption` has finitely many
drivers and days, because usage is counted with `Cardinality`, and
`TransactionAssumption` has periods numbered, because rows are locked in the
order of their identifiers. `AccessAssumption` has every company start `Settled`,
as migration 0074 leaves it when it introduces staged accounts: without a role an
account is staged and cannot sign in, and an employee has one account.
`SetupAssumption` has setups and branches numbered, because they are locked in the
order of their identifiers, and that a period that starts by `LastDay` ends within
`Horizon`, the last day on which something can take over. `StartsAssumption` says which
timelines a run may start with: versions that pass the checks of a publication, one
to a date, as replaced versions are dropped, and assignments without an end from a
start of their setup. `ChronologyAssumption` says that months follow each other.
`CompensationAssumption` numbers the branches, has finitely many, and gives each
period at least one day; rates, quantities and rule amounts are not negative (0088
and the request models refuse others), and a minor unit is at least one quantum.
`TopologyAssumption` is the check of `validate_tier_topology`: the tiers of the
rate definition start at one, leave no gap and end open.

| module | about | proves |
|---|---|---|
| `PayrollWorkflowProofs` | `PayrollWorkflow` | its inductive invariants, the invariants that follow, history, promotion, and the refinement of `PeriodLifecycle` |
| `TransactionProofs` | `WorkflowTransactions`, `PeriodCreation` | every safety property of `entry_race` and `answered`, for interleaved handlers; the refinement of `PayrollWorkflow`, recognition of repeated requests |
| `DayEntryProofs` | `DayEntry` | both properties of `day_entry` |
| `ImportProofs` | `ImportBatches` | the five properties of `imports` |
| `TenureProofs` | `DriverTenure` | the six properties of `tenure` |
| `AccessProofs` | `AccessSafety` | the four properties of `access` |
| `SetupProofs` | `SetupTimeline` | four of the five properties of `setup_timeline` |
| `CompensationProofs` | `CompensationSchedules`, `PayCalculation` | the five properties of `compensation`, its types; what a packet pays, for any lines, rules and days |

### Handlers one at a time

`PayrollWorkflowProofs` proves

    CoreInv == TypeOK /\ SlotsUnique /\ ReviewBinding /\ PaidIsApproved
               /\ RosterFrozen /\ PacketsNonEmpty /\ ApprovedByOther
    IInv    == CoreInv /\ FrozenPacketIsLive /\ EvidenceComplete

inductive. The parts need each other. A submission keeps `SlotsUnique` only
because no returned period exists, and a return only because its period was the
one in review. Finalization keeps `PaidIsApproved` because `ReviewBinding` makes
the approved item unique and its snapshot the last one, and because
`PacketsNonEmpty` (the content guard of every earlier submission) makes the
projected packet nonempty. `FourEyes` speaks of paid periods, but the check was
made at the decision; `ApprovedByOther` carries it there. `RosterFrozen` needs
that promotion reaches every prepared period.

`CoreInv` is what is left when handlers interleave: the two other conjuncts fail
there for lines (`stale_snapshot`). The lemmas about handlers are therefore
stated over `CoreInv` and over the database a submission *reads*, and are used
twice, here with the current one and in `TransactionProofs` with a snapshot.

Its second half adds `CalendarGapless` and `DraftFollowsOpen`, inductive on top
of `IInv`. The argument is in the creation step: everything submitted lies before
an open period, so the place after the last period that is not cancelled is the
place after the open one. `HistoryIsImmutable` and `SubmissionPromotes` are
action properties.

Two consequences for a reader of the code: the refusal `DRAFT_PROMOTION_CONFLICT`
of a submission cannot happen (`PreparedIsNext`), and a return decision never
finds the returned slot taken (`SlotsAreUnique`): both checks are redundant.

### Handlers as transactions

`TransactionProofs` proves the same of the interleaved handlers, with conflicts,
retries, refusals and crashes. The handlers write what they read earlier, so the
inductive invariant

    TxInv == BranchInv /\ Connections /\ \A t \in Txns : ConnectionFits(t)

has a part that says why it is still true at the commit:

- `BranchInv`: `CoreInv`, `FrozenBonusesAreLive`, the calendar, and that no two
  periods that are not cancelled share a place. `DraftFollowsOpen` is not in it:
  it fails when a period is prepared while a submission waits (section 3).
- `LocksFit`: a request past acquiring them holds its branch and its rows, and
  no row it holds was updated since its snapshot.
- `SnapshotFits`: of every row not updated since, the snapshot shows status,
  items and bonuses as they are (not lines: mutations of lines do not update the
  row). A row it does not show was inserted later. What it shows as settled is
  settled. While the period submitted is unchanged, no period inserted later has
  been handed in, which is why the review slot it saw free is free.
- `EntryChecked`, `ItemKnown`, `PlaceChecked`: the status a mutation checked, the
  item a decision names, and the place a creation found stay valid until the
  commit. A cancellation may empty the place before a *prepared* period between
  check and insert, never the one before an open period, so `PlaceChecked` keeps
  `IsNextPosition` for the latter only; `CalendarGapless` asks no more.

`Effect(t, updated)` says what the commit of one connection may do to the rows, and
`OthersFit` that any such commit leaves the other connections fit; each commit
action is then shown to have that effect. `StepKeeps` combines them, with what
each step promises (`StepFine`) for the action properties and the refinement.
`FrozenBonusesAreLive` comes out of `SnapshotFits`: a period that a submission can
still lock has the bonuses that its snapshot shows.

### Creation, day entry, imports

`TransactionProofs`, last section: an accepted creation is a step of the workflow. What has to be
shown is that the place a key names is one the workflow would take:
there always is a place after the last period that is not cancelled
(`PlaceInv` bounds the places), and it is the only one.
`GuardedBranchIsSafe` carries the theorems about the workflow over.

`DayEntryProofs`: `NoWorkOnDaysOff` is inductive with the types and
`SeenIsSelected` (a save judges the statuses of its rows, no others). Its
substance is that every write of a line or a status passes a guard that sees the
other. `LimitsAreRespected` counts: what a save adds stays within the limit of
each key by driver, day and period.

`ImportProofs`: `RevisionTellsContent` is the optimistic lock, that a request
which still finds its revision finds the content it saw, and gives `NoUpdateIsLost`.
`HolderStands` is the row lock between recheck and publication, and
`PreviewsTrue` what a published preview was made of; rule heads are not locked,
so a preview is served only after it is compared with the head again
(`ServedPreviewsAreCurrent`).

### Driver tenure, rosters and entries

`TenureProofs` proves `IInv == TenureInv /\ PayrollInv` inductive.

`TenureInv` is about windows and requests alone. `OneTenureAtATime` is not inductive:
a completion opens a window without looking at the others, and a cancellation
opens one again to infinity. What makes that safe is that at most one request is
still to take effect (`OneInProgress`), and that one that lies ahead ends its
source exactly where its destination begins, after which nothing comes
(`ScheduledFits`); a window is open exactly while its end reason is none
(`WindowFits`); and what an operation read before it waited for its locks still
holds (`OperationFits`), because it owns the employee. A termination only shortens
windows (`CappedFits`), and windows that only end earlier stay apart
(`ShrinkingKeepsApart`).

`PayrollInv` is about what lies between the boundaries. `WriterFits` says that what a
mutation was authorized for is still allowed when it is written: boundaries move
past periods, and a period that a mutation holds is one of those that the
operation waits for, or has no day between the old boundary and the new
(`OutsideBoundary`). The same interval is what keeps submitted rosters: its
periods have to be editable. `BoundaryPayroll` reduces each of the five steps that
move a boundary to what is particular to it: the coverage check
(`PayrollCovered`) for a completion and a new date, `Disposable` for what is deleted,
the bonus that must keep a day (`BonusHasDay`) where a row is captured again.
`StepFine` collects what the four action properties say of a step.

### Access

`AccessProofs` proves `AccessInv == Typed /\ CompanySound /\ RequestsSound` inductive.
`AccessNeedsStanding` and `RolesHeldStand` (`CompanySound`, with `OneAccount`) are
written by operations that decided earlier, so `RequestsSound` says for each kind of
operation what its decision rests on and that it still holds (`Ready`): a revocation
holds the account and finds it unable to sign in, an archived role is held by nobody,
and so on. It lists, in effect, which of the checks of the code are safe under the
locks the code takes; facts checked without a lock (`Authorized`, the granter's own
role) are not in it, and no property needs them.

The argument is the same for every pair of operations. `Covers(s)` bounds a write by
the locks of its session: only accounts under an update lock change, roles are given
under a share lock, and a termination has locked the employee with every account of
theirs. `LocksKeep` turns that and `LocksExclusive` into what no other session's write
can disturb, and `StillReady` concludes. Two places need more than a lock on the row
that is read: a termination finds the *one* account of the employee, which takes
`OneAccount`, and it is seen by who holds only that account, because the termination
has to lock it as well. `NewOwnerCanSignIn` and `GivenWithinCeiling` are read off
`ReadyTransfer` and `RoleFits`.

### Setup timeline

`SetupProofs` proves `IInv /\ FitInv` inductive, where
`IInv == TypeOK /\ IdsInv /\ LockInv /\ WriteInv /\ TimelineInv` keeps what was created
and `FitInv` keeps the next period possible.

- `TimelineInv` is what is wanted, of rows instead of operators: the assignments of
  a branch are `Contiguous`, and every period is `Kept`, that is, the row it is
  pinned to covers its start, nothing else begins before it ends, and the same of
  the version. The first part of the module shows for each of the four kinds of
  write what it does to such rows (`PublishKeeps`, `AssignKeeps`, `ReassignKeeps`,
  `WithdrawKeepsFirst`, `WithdrawKeepsPrior`), without requests or locks.
- `WriteInv` carries the validation to the write: the effect that was composed is
  still the one of the rows as they are, and what the request checked (`PublishReady`,
  `AssignReady`, `ReassignReady`, `WithdrawReady`) still holds. It holds less than the
  acceptance conditions do: of the boundary checks only that no period lies in the
  interval that changes hands is needed. That the change lies on a grid is what
  keeps the *next* period possible, and is carried by `FitInv`.
- `LockInv`: locks are held for what a request touches and taken in order. With it
  `RowsUnderLock` says that a write changes rows of setups it has locked only, so what
  another request validated about its own setups and branch stays true (`WriteKeeps`).
  A publication does not lock the branches that its setup does not govern after the
  new version's date; there `UnaffectedReady` finds that no period can be affected,
  also none created later (`PeriodStep`). Cancelling needs no lock: a period that goes
  takes no fact away.
- `IdsInv` is for withdrawals, which name an assignment that another request may
  have withdrawn before they got their locks.

`NoBranchIsStuck` needs the grids. The induction theorems cannot be used for the
recursive function `Grid` of `Chronology`; `CountsUp` does induction over a set of
numbers by its least counterexample, `CountExists` and `GridIsCounted` find the walk
that the function takes, and intervals are counted by multiples. Four facts are used
from then on:
a grid has its origin (`GridHasOrigin`), goes on after each period (`GridGoesOn`), a
period does not reach the next start (`GridKeepsApart`), and the grid from one of its
starts is part of it (`GridFromStart`).

- `VersionsFit`: the versions of a setup have different dates, each on its own grid,
  and the first one after a version lies on the grid of that version (`Fits`).
- `RowsFit`: an assignment starts on the grid of the version that governs its first
  day; one that ends is followed by another; and its end lies on that grid too,
  provided that no version takes over within it and the schedule is anchored on its
  first day (`EndFits`). Without the first proviso the formula is false because the
  boundary is checked against the schedule of the first day only (`dead_boundary`), and
  without the second because a cadence is counted from the last period whoever it
  belonged to (`validation.py:84`).
- `AcceptedFits` carries both from validation to write, like `WriteInv`. It is where
  `IsPeriodStart` counted from `Max(anchor, PriorEnd + 1)` is turned into a statement
  about the grid from the anchor: no period since the anchor (`CountedAfresh`), or the
  last one starts on that grid (`CountedFromAnchor`).

`NextPeriodAligned` follows: the day after the last period is a start of the schedule
that governs it, as the grid goes on, a version takes over, or the next assignment starts.
`LegalFromFit` adds that its period ends in time: the next version lies on
the grid, the end of the assignment does unless it is one of the two exceptions, and
other assignments come after that end. So `NextPeriodLegalIfAnchored` names exactly
the provisos of `EndFits`, and both have a counterexample.

`NoCircularWait` follows from `LockInv`: of the branches that are waited for take the
greatest; who holds it has its setups and can only wait for a greater branch, so it
does not wait. If nobody waits for a branch, the same holds of setups.

### Compensation and calculation

`CompensationProofs` begins with the arithmetic. `NearestIs` bounds the error of a
rounding by half a unit, and roundings keep the order of what they round; the rule of
a period is prorated with one rounding more. From these `PacketPays`: whatever the lines
come to and whatever rules, currency and days they meet, the rules lift the pay to the
prorated minimum or cap it to the maximum, never both, but for those roundings, and every
official amount can be paid. That the amount of a packet is an integer at all is an
induction over lines and tiers; it is done by the least counterexample
(`MinIsLeast`), since the induction theorems cannot be used (`SumsExist`,
`OrdinalTierIsInt`, `LineAmountIsInt`).

`IInv == LockInv /\ PayInv /\ SettledInv` is inductive, each part on top of the ones before.

- `LockInv`: what a transaction holds lies below all that it still wants, and two
  transactions share a lock only where both asked for it shared. A pay change learns the
  branches to lock from the assignments, so it wants more locks later; they are greater
  than the ones it holds because it knows no branch before. `SomebodyProceeds` follows: of
  the transactions that wait, the one that wants the greatest lock waits for a holder
  that cannot want a smaller one.
- `PayInv`: every stored packet, and every one a submission waits with, is one that
  `PacketPays` speaks of, in the currency of the company (`CurrencyFits`: the company
  row excludes a change of currency from whoever writes amounts, and a change is refused
  once anything is paid). `NormalPayWithinRules` and `AmountsPayable` follow.
  `Counts` says which days a packet may hold. A period that is opened later takes only
  days that no period of an earlier assignment has captured (`Owns`), and a
  snapshot that knows where the source ends counts none of the days taken. That is
  `CountedOnce`, with its exception for snapshots older than the transfer.
- `SettledInv`: a decision stays allowed until it is written (`Stands`). The clock may
  tick in between, so what the decision says of the clock is not part of it (the trigger
  looks again). A finalization is excluded by the workflow lock of a branch
  that the change knows (`BranchesFit`), another change of schedules by the structure
  lock, of rules by the rule's row, a transfer by the driver's assignments. With
  `Untouched` (a change that may be written touches no settled date) every write is shown
  to leave the terms of settled dates as they are: `SettledTermsStay`.

The proof changed the property. A first `Settled` called every day of a period that is
finalized with the driver on its roster settled. `Stands` did not give that, and TLC found
the counterexample in a larger instance: a period of the branch the driver leaves is not
opened yet when a change from a day after the transfer looks for the branches to
lock, so it is submitted and finalized between decision and write. The days of
that period after the transfer are then changed; nothing is paid for them there, so
`Settled` now speaks of the days that the driver is on the roster for.

### Only model-checked

`NavigationFindsStarts` of `SetupTimeline`, which compares what navigation returns with
the cardinality of sets of starts over all versions of a setup; and liveness
(`RequestAnswered`), out of the prover's reach (fairness and ENABLED).

## 5. Not modelled, and the plan

To be modelled next:

- `BonusBatches`: idempotency key, request hash, expected revision, replay on a
  locked period (`payroll/bonus.py`).
- Requests for new definitions and the branch configuration of definitions
  (`compensation/definitions.py`, `branch_config.py`), drafts of setup versions and
  the company's default setup (`payroll_setup/`), status pay.

Not modelled on purpose:

- outside `AccessSafety`, who may see, edit or approve (permissions, the independent
  approver of schedules), but for the two-person rule of reviews;
- in `CompensationSchedules` the time between the trigger's look at the clock and
  the COMMIT; display snapshots and names on roster rows; branch time zones that
  differ;
- the admission limiter of uploads (it answers 429 before any state changes) and
  rule binding that only tests call;
- parsing and aggregation of imported files (data conversion), reports, previews
  and dashboards (read-only), authentication (stateless checks before every
  handler), the frontend, migrations and scripts.
