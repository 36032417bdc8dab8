--------------------------- MODULE PayrollWorkflow ---------------------------
(***************************************************************************)
(* The payroll workflow of one branch: every handler of                    *)
(* payroll/period_creation.py, period_lifecycle.py, draft_line_mutation.py,*)
(* bonus.py, review/service.py and payroll/finalization.py that changes a  *)
(* period, its source entries, its calculation snapshots, its review items *)
(* or its final lines, as one atomic action.                               *)
(*                                                                         *)
(* Branches do not share rows: every slot index and the advisory lock are  *)
(* keyed by (company, branch), so one branch is modelled.  Dates are       *)
(* positions: a candidate starts the day after the last non-cancelled      *)
(* period, so position n + 1 starts where n ends.  Submission reads the    *)
(* database through an argument, because the transaction it runs in reads  *)
(* from a snapshot; WorkflowTransactions passes an older one.              *)
(***************************************************************************)
EXTENDS Naturals, Sequences, FiniteSets

CONSTANTS
    Periods,            \* identities a period can have
    Lines,              \* source lines and statuses a period can hold
    Bonuses,            \* bonus events a period can hold
    Users,              \* people who submit and decide
    NoUser,             \* decider of an undecided review item
    AllowSelfApproval,  \* core.companies.allowselfapproval
    MaxPosition,        \* bound: positions in the calendar of the branch
    MaxRevision,        \* bound: snapshots of a period
    MaxEvents           \* bound: source mutations of a period

ASSUME WorkflowAssumption ==
    /\ NoUser \notin Users
    /\ AllowSelfApproval \in BOOLEAN
    /\ MaxPosition \in Nat /\ MaxRevision \in Nat /\ MaxEvents \in Nat
    /\ Lines \cap Bonuses = {}

VARIABLES
    status,     \* PayrollPeriods.Status ("None": the row does not exist)
    pos,        \* place of the period in the calendar, 0 before creation
    roster,     \* driver eligibility snapshot: none, provisional or frozen
    live,       \* active source entries of the period
    events,     \* source mutations of the period with audit evidence
    linked,     \* how many of them are linked to a calculation snapshot
    snaps,      \* calculation snapshots, by revision number
    items,      \* PeriodApproval review items, in creation order
    retItem,    \* CurrentReturnReviewItemID (0: NULL)
    finals      \* packet projected into the final lines ({}: not yet)

entryVars  == <<live, events>>
reviewVars == <<linked, snaps, items, retItem>>
vars == <<status, pos, roster, live, events, linked, snaps, items, retItem, finals>>

Facts == Lines \cup Bonuses

Statuses == {"None", "Draft", "Open", "InReview", "Returned",
             "Approved", "Locked", "Archived", "Cancelled"}
ItemStatuses == {"Pending", "Approved", "Rejected", "EditRequested"}
ReviewItems == [by: Users, status: ItemStatuses, snap: Nat, decider: Users \cup {NoUser}]

SourceEntryStatuses == {"Draft", "Open", "Returned"}   \* SOURCE_ENTRY_STATUSES
BonusStatuses       == {"Open", "Returned"}            \* ENTRY_ALLOWED_STATUSES
UnderReview         == {"InReview", "Returned"}
Frozen              == {"InReview", "Approved", "Locked", "Archived"}
Submitted           == Frozen \cup {"Returned"}
Inactive            == {"None", "Cancelled"}

\* What a statement reads: the rows of the branch as of one instant.
Database == [status |-> status, pos |-> pos, live |-> live, events |-> events,
             items |-> items]

\* The period has a Pending PeriodApproval item among the given items.
HasPending(its) == \E i \in DOMAIN its : its[i].status = "Pending"

Init ==
    /\ status  = [p \in Periods |-> "None"]
    /\ pos     = [p \in Periods |-> 0]
    /\ roster  = [p \in Periods |-> "none"]
    /\ live    = [p \in Periods |-> {}]
    /\ events  = [p \in Periods |-> 0]
    /\ linked  = [p \in Periods |-> 0]
    /\ snaps   = [p \in Periods |-> <<>>]
    /\ items   = [p \in Periods |-> <<>>]
    /\ retItem = [p \in Periods |-> 0]
    /\ finals  = [p \in Periods |-> {}]

-----------------------------------------------------------------------------
(* Creation                                                                *)

Target(mode) == IF mode = "OPEN_CREATION" THEN "Open" ELSE "Draft"

\* The mode/slot matrix: an open period needs both slots empty, a prepared
\* one needs an open period and an empty prepared slot.
SlotFree(mode) ==
    /\ \A q \in Periods : status[q] # "Draft"
    /\ mode = "OPEN_CREATION"     => \A q \in Periods : status[q] # "Open"
    /\ mode = "PREPARED_CREATION" => \E q \in Periods : status[q] = "Open"

\* n follows the last period that is not cancelled.
IsNextPosition(n) ==
    /\ \A q \in Periods : status[q] \notin Inactive => pos[q] < n
    /\ \/ n = 1
       \/ \E q \in Periods : status[q] \notin Inactive /\ pos[q] = n - 1

\* The inserts of create_period_from_candidate; an open period gets a frozen
\* eligibility snapshot, a prepared one a provisional one.
InsertPeriod(p, mode, n) ==
    /\ status[p] = "None"
    /\ status' = [status EXCEPT ![p] = Target(mode)]
    /\ pos'    = [pos EXCEPT ![p] = n]
    /\ roster' = [roster EXCEPT ![p] = IF mode = "OPEN_CREATION"
                                       THEN "frozen" ELSE "provisional"]
    /\ UNCHANGED <<entryVars, reviewVars, finals>>

\* Creation from a candidate that is still current; a stale or replayed key
\* changes nothing.  PeriodCreation says when a key is one or the other.
CreateFromCandidate(p, mode) ==
    /\ SlotFree(mode)
    /\ \E n \in 1 .. MaxPosition : IsNextPosition(n) /\ InsertPeriod(p, mode, n)

-----------------------------------------------------------------------------
(* Source entry                                                            *)

\* One mutation of the facts of one kind: some added, some voided, in one
\* transaction with its evidence; an edited value is a fact voided and another
\* one added, and a grid, a quantity or a bonus batch changes several.
WriteFacts(p, kind) ==
    /\ events[p] < MaxEvents
    /\ \E facts \in SUBSET kind :
          live' = [live EXCEPT ![p] = (@ \ kind) \cup facts]
    /\ live' # live
    /\ events' = [events EXCEPT ![p] = @ + 1]
    /\ UNCHANGED <<status, pos, roster, reviewVars, finals>>

ChangeLines(p) ==
    /\ status[p] \in SourceEntryStatuses
    /\ WriteFacts(p, Lines)

ChangeBonuses(p) ==
    /\ status[p] \in BonusStatuses
    /\ WriteFacts(p, Bonuses)

-----------------------------------------------------------------------------
(* Submission                                                              *)

\* No other period of the branch is in review, as far as db shows.
ReviewSlotFree(p, db) == \A q \in Periods \ {p} : db.status[q] # "InReview"

\* The guards that submit and resubmit share: the review slot, a period with
\* content and no Pending item.
HandInAllowed(p, db) ==
    /\ ReviewSlotFree(p, db)
    /\ db.live[p] # {}
    /\ ~HasPending(db.items[p])
    /\ Len(snaps[p]) < MaxRevision

\* Every evidence event that db shows is linked to a snapshot.
LinkEvidence(p, db) == linked' = [linked EXCEPT ![p] = db.events[p]]

\* Mutant: the item refers to the snapshot before the one just captured.
NewItemOfPrevious(p, u) == [by |-> u, status |-> "Pending", snap |-> Len(snaps[p]),
                            decider |-> NoUser]
\* The Pending item of a submission by u, bound to the snapshot it captures.
NewItem(p, u) == [by |-> u, status |-> "Pending", snap |-> Len(snaps[p]) + 1,
                  decider |-> NoUser]

\* Snapshot, evidence linking and Pending review item of a submission by u
\* of the packet that db shows for p.
HandIn(p, u, db) ==
    /\ snaps'  = [snaps EXCEPT ![p] = Append(@, db.live[p])]
    /\ items'  = [items EXCEPT ![p] = Append(@, NewItem(p, u))]
    /\ LinkEvidence(p, db)

Drafts(db) == {d \in Periods : db.status[d] = "Draft"}

SubmitAllowed(p, db) ==
    /\ db.status[p] = "Open"
    /\ \A q \in Periods : db.status[q] # "Returned"
    /\ \A d \in Drafts(db) : db.pos[d] = db.pos[p] + 1
    /\ HandInAllowed(p, db)

\* The roster of a promoted period is frozen with it.
FreezeRosters(db) ==
    roster' = [q \in Periods |-> IF q \in Drafts(db) THEN "frozen" ELSE roster[q]]

\* Open -> InReview, promoting the adjacent prepared period db shows.
SubmitReading(p, u, db) ==
    /\ SubmitAllowed(p, db)
    /\ HandIn(p, u, db)
    /\ status' = [q \in Periods |-> IF q = p THEN "InReview"
                                    ELSE IF q \in Drafts(db) THEN "Open"
                                    ELSE status[q]]
    /\ FreezeRosters(db)
    /\ UNCHANGED <<pos, entryVars, retItem, finals>>

ResubmitAllowed(p, db) ==
    /\ db.status[p] = "Returned"
    /\ HandInAllowed(p, db)

ClearReturn(p) == retItem' = [retItem EXCEPT ![p] = 0]

\* Returned -> InReview, clearing the pointer to the item that returned it.
ResubmitReading(p, u, db) ==
    /\ ResubmitAllowed(p, db)
    /\ HandIn(p, u, db)
    /\ status'  = [status EXCEPT ![p] = "InReview"]
    /\ ClearReturn(p)
    /\ UNCHANGED <<pos, roster, entryVars, finals>>

Submit(p, u)   == SubmitReading(p, u, Database)
Resubmit(p, u) == ResubmitReading(p, u, Database)

-----------------------------------------------------------------------------
(* Review decision, finalization, cancellation, archiving                  *)

\* Mutants: no self-approval check, and no check that the item is undecided.
DecideAnybody(p, i, u) ==
    items[p][i].status = "Pending" /\ status[p] = "InReview"
DecideAgain(p, i, u) ==
    status[p] = "InReview" /\ (u = items[p][i].by => AllowSelfApproval)

\* A substantive decision needs a Pending item of a period in review and,
\* unless the company allows it, a decider other than the requester.
DecideAllowed(p, i, u) ==
    /\ items[p][i].status = "Pending"
    /\ status[p] = "InReview"
    /\ u = items[p][i].by => AllowSelfApproval

Decide(p, i, u, verdict) ==
    /\ DecideAllowed(p, i, u)
    /\ items' = [items EXCEPT ![p][i].status = verdict, ![p][i].decider = u]
    /\ UNCHANGED <<pos, roster, entryVars, linked, snaps, finals>>

Approve(p, i, u) ==
    /\ Decide(p, i, u, "Approved")
    /\ status' = [status EXCEPT ![p] = "Approved"]
    /\ UNCHANGED retItem

ReturnSlotFree == \A q \in Periods : status[q] # "Returned"

\* Rejected and EditRequested both send the period back for correction.
SendBack(p, i, u, verdict) ==
    /\ ReturnSlotFree
    /\ Decide(p, i, u, verdict)
    /\ status'  = [status EXCEPT ![p] = "Returned"]
    /\ retItem' = [retItem EXCEPT ![p] = i]

ApprovedItems(p) == {i \in DOMAIN items[p] : items[p][i].status = "Approved"}

FinalizeAllowed(p) ==
    /\ status[p] = "Approved"
    /\ \E i \in DOMAIN items[p] : ApprovedItems(p) = {i}

\* Mutant: the first snapshot is projected.
FirstPacket(p, i) == snaps[p][1]
\* The packet of the snapshot that item i was about.
Projection(p, i) == snaps[p][items[p][i].snap]

\* Projects the snapshot of the one approved item into the final lines.
FinalizePeriod(p) ==
    /\ FinalizeAllowed(p)
    /\ \E i \in ApprovedItems(p) : finals' = [finals EXCEPT ![p] = Projection(p, i)]
    /\ status' = [status EXCEPT ![p] = "Locked"]
    /\ UNCHANGED <<pos, roster, entryVars, reviewVars>>

\* Mutant: the transition is decided on an earlier read of the status.
PatchUnchecked(p, from, to) ==
    /\ status[p] \notin Inactive
    /\ status' = [status EXCEPT ![p] = to]
    /\ UNCHANGED <<pos, roster, entryVars, reviewVars, finals>>

\* The transitions PATCH makes by the status alone.
Patch(p, from, to) ==
    /\ status[p] = from
    /\ status' = [status EXCEPT ![p] = to]
    /\ UNCHANGED <<pos, roster, entryVars, reviewVars, finals>>

Cancel(p)  == Patch(p, "Draft", "Cancelled") \/ Patch(p, "Open", "Cancelled")
Archive(p) == Patch(p, "Locked", "Archived")

Create == \E p \in Periods, mode \in {"OPEN_CREATION", "PREPARED_CREATION"} :
    CreateFromCandidate(p, mode)

Operate == \E p \in Periods :
    \/ ChangeLines(p)
    \/ ChangeBonuses(p)
    \/ \E u \in Users :
          \/ Submit(p, u)
          \/ Resubmit(p, u)
          \/ \E i \in DOMAIN items[p] :
                \/ Approve(p, i, u)
                \/ SendBack(p, i, u, "Rejected")
                \/ SendBack(p, i, u, "EditRequested")
    \/ FinalizePeriod(p)
    \/ Cancel(p)
    \/ Archive(p)

Next == Create \/ Operate

Spec == Init /\ [][Next]_vars

-----------------------------------------------------------------------------
(* Properties                                                              *)

LastPacket(p) == IF Len(snaps[p]) = 0 THEN {} ELSE snaps[p][Len(snaps[p])]

\* The variables hold values of their types.
TypeOK ==
    /\ status  \in [Periods -> Statuses]
    /\ pos     \in [Periods -> Nat]
    /\ roster  \in [Periods -> {"none", "provisional", "frozen"}]
    /\ live    \in [Periods -> SUBSET Facts]
    /\ events  \in [Periods -> Nat]
    /\ linked  \in [Periods -> Nat]
    /\ snaps   \in [Periods -> Seq(SUBSET Facts)]
    /\ items   \in [Periods -> Seq(ReviewItems)]
    /\ retItem \in [Periods -> Nat]
    /\ finals  \in [Periods -> SUBSET Facts]

\* At most one period of the branch is prepared, one is open, and one is in
\* review or returned: a returned period blocks the next submission, so the
\* two review slots (submit, resubmit and return decisions, each checking
\* its own) are never both taken.
SlotsUnique ==
    \A slot \in {{"Draft"}, {"Open"}, UnderReview} :
        \A p, q \in Periods :
            status[p] \in slot /\ status[q] \in slot => p = q

\* Each snapshot has its own review item and the undecided item is the last
\* one, of a period in review; a returned period points at the item that
\* returned it, an approved one has its last item approved, and nobody else
\* points anywhere (submit, resubmit, decide and finalize keep them in step).
ItemsBound(p) ==
    /\ Len(items[p]) = Len(snaps[p])
    /\ \A i \in 1 .. Len(items[p]) : items[p][i].snap = i
    /\ \A i \in 1 .. Len(items[p]) :
          i < Len(items[p]) => items[p][i].status \in {"Rejected", "EditRequested"}
    /\ status[p] \in Submitted <=> Len(items[p]) > 0
    /\ status[p] = "InReview" => items[p][Len(items[p])].status = "Pending"
    /\ status[p] \in {"Approved", "Locked", "Archived"} =>
          items[p][Len(items[p])].status = "Approved"
    /\ status[p] = "Returned" =>
          /\ retItem[p] = Len(items[p])
          /\ items[p][retItem[p]].status \in {"Rejected", "EditRequested"}
    /\ status[p] # "Returned" => retItem[p] = 0
ReviewBinding == \A p \in Periods : ItemsBound(p)

\* While a period is in review, approved or paid its source entries are
\* exactly those of the snapshot under review: submission captures the live
\* packet and no source mutation is accepted afterwards.
FrozenPacketIsLive ==
    \A p \in Periods : status[p] \in Frozen => LastPacket(p) = live[p]

\* Every source change of a period that left entry is linked to one of its
\* snapshots (link_unmapped_audit_evidence_to_snapshot leaves none behind).
EvidenceComplete ==
    \A p \in Periods : status[p] \in Frozen => linked[p] = events[p]

\* The final lines of a paid period are the packet its approver approved,
\* and only a paid period has any (finalization projects the snapshot of
\* the approved item, not the live entries).
PaidIsApproved ==
    \A p \in Periods :
        IF status[p] \in {"Locked", "Archived"}
        THEN \E i \in DOMAIN items[p] :
                /\ items[p][i].status = "Approved"
                /\ finals[p] = snaps[p][items[p][i].snap]
                /\ finals[p] # {}
        ELSE finals[p] = {}

\* Without self-approval a paid period was approved by somebody who did not
\* submit the packet paid.
FourEyes ==
    ~AllowSelfApproval =>
        \A p \in Periods : status[p] \in {"Locked", "Archived"} =>
            \E i \in DOMAIN items[p] :
                /\ finals[p] = snaps[p][items[p][i].snap]
                /\ items[p][i].decider \in Users \ {items[p][i].by}

\* No day of the calendar before a period that is open or was submitted is
\* left without a period, and no day is paid by two: positions are reused
\* after a cancellation, never doubled or skipped.
CalendarGapless ==
    \A p \in Periods : status[p] \in Submitted \cup {"Open"} =>
        /\ \A n \in 1 .. pos[p] - 1 :
              \E q \in Periods : status[q] \in Submitted /\ pos[q] = n
        /\ \A q \in Periods \ {p} : status[q] \notin Inactive => pos[q] # pos[p]

\* A prepared period directly follows the open one, so the refusal
\* DRAFT_PROMOTION_CONFLICT of a submission is never needed.
DraftFollowsOpen ==
    \A p, d \in Periods :
        status[p] = "Open" /\ status[d] = "Draft" => pos[d] = pos[p] + 1

\* Drivers of a period that is being entered or paid come from a frozen
\* roster; only a prepared period may still be regenerated.
RosterFrozen ==
    \A p \in Periods : status[p] \in Submitted \cup {"Open"} => roster[p] = "frozen"

\* A submission leaves no prepared period behind: the next period is opened
\* in the same transaction.
SubmitPromotes ==
    [][\A p \in Periods :
          status[p] = "Open" /\ status'[p] = "InReview"
              => \A d \in Periods : status'[d] # "Draft"]_vars

\* History is append-only: a snapshot is never changed or dropped, a decided
\* item is never decided again, final lines never change once written.
HistoryImmutable ==
    [][\A p \in Periods :
          /\ Len(snaps'[p]) >= Len(snaps[p])
          /\ \A r \in DOMAIN snaps[p] : snaps'[p][r] = snaps[p][r]
          /\ \A i \in DOMAIN items[p] :
                items[p][i].status # "Pending" => items'[p][i] = items[p][i]
          /\ finals[p] # {} => finals'[p] = finals[p]]_vars

\* The handlers implement the lifecycle the branch is promised.
Lifecycle == INSTANCE PeriodLifecycle WITH
    phase  <- status,
    packet <- [p \in Periods |-> LastPacket(p)],
    paid   <- finals
LifecycleImplemented == Lifecycle!Spec
==============================================================================
