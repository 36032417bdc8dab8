------------------------ MODULE WorkflowTransactions ------------------------
(***************************************************************************)
(* The handlers of PayrollWorkflow as they run: each request is a database *)
(* transaction that reads, waits for the branch advisory lock and for      *)
(* period rows, checks again, writes and commits.                          *)
(*                                                                         *)
(* submit and resubmit run at REPEATABLE READ: every read of the           *)
(* transaction shows the database as of its first read, locking a row      *)
(* updated since fails with SQLSTATE 40001, and run_retryable_transaction  *)
(* starts over in a new transaction, MaxAttempts times in all.  Locking a  *)
(* row another transaction merely locked does not fail.  Everything else   *)
(* runs at READ COMMITTED: each statement sees what is committed by then.  *)
(*                                                                         *)
(* Writes take effect at the commit step, which also releases the locks.   *)
(* Period rows are locked one at a time in identifier order.  Review item  *)
(* rows are locked together with their period: every request that locks    *)
(* one for a decision holds the branch lock.  The company currency row is  *)
(* share-locked by all of them and left out: it excludes only a change of  *)
(* the company's currency.                                                 *)
(***************************************************************************)
EXTENDS PayrollWorkflow

CONSTANTS
    Txns,           \* database connections serving requests
    NoTx,           \* holder of a free lock
    MaxAttempts     \* MAX_ATTEMPTS of run_retryable_transaction

ASSUME TransactionAssumption ==
    /\ Periods \subseteq Nat
    /\ NoTx \notin Txns
    /\ MaxAttempts \in Nat \ {0}

VARIABLES
    pc,             \* what a connection does next
    req,            \* the request it serves
    view,           \* what its REPEATABLE READ snapshot or candidate shows
    missed,         \* periods updated by others since that snapshot
    attempt,        \* attempts made for the request
    branchLock,     \* holder of the branch advisory lock
    rowLock         \* holder of the lock on every period row

txVars  == <<pc, req, view, missed, attempt, branchLock, rowLock>>
allVars == <<vars, txVars>>

NoRequest == [op |-> "none"]
NoView    == [status |-> <<>>]

\* Mutant: a submission does not ask for REPEATABLE READ.
RetryableResubmit == {"resubmit"}
\* Requests that run at REPEATABLE READ and are retried.
Retryable == {"submit", "resubmit"}
InTx(t) == pc[t] # "idle"

TxInit ==
    /\ Init
    /\ pc         = [t \in Txns |-> "idle"]
    /\ req        = [t \in Txns |-> NoRequest]
    /\ view       = [t \in Txns |-> NoView]
    /\ missed     = [t \in Txns |-> {}]
    /\ attempt    = [t \in Txns |-> 1]
    /\ branchLock = NoTx
    /\ rowLock    = [p \in Periods |-> NoTx]

-----------------------------------------------------------------------------
(* Arrival: reads made before any lock decide whether the request goes on  *)

Begin(t, r, step, shown) ==
    /\ pc[t] = "idle"
    /\ req'  = [req EXCEPT ![t] = r]
    /\ pc'   = [pc EXCEPT ![t] = step]
    /\ view' = [view EXCEPT ![t] = shown]
    /\ UNCHANGED <<vars, missed, attempt, branchLock, rowLock>>

BeginSubmit(t, p, u) ==
    /\ status[p] = "Open" /\ Len(snaps[p]) < MaxRevision
    /\ Begin(t, [op |-> "submit", p |-> p, u |-> u], "branch", Database)

BeginResubmit(t, p, u) ==
    /\ status[p] = "Returned" /\ Len(snaps[p]) < MaxRevision
    /\ Begin(t, [op |-> "resubmit", p |-> p, u |-> u], "branch", Database)

BeginLine(t, p) ==
    /\ status[p] \in SourceEntryStatuses /\ events[p] < MaxEvents
    /\ Begin(t, [op |-> "line", p |-> p], "rows", NoView)

BeginBonus(t, p) ==
    /\ status[p] \in BonusStatuses /\ events[p] < MaxEvents
    /\ Begin(t, [op |-> "bonus", p |-> p], "rows", NoView)

BeginPatch(t, p, to) ==
    /\ <<status[p], to>> \in {<<"Draft", "Cancelled">>, <<"Open", "Cancelled">>,
                              <<"Locked", "Archived">>}
    /\ Begin(t, [op |-> "patch", p |-> p, from |-> status[p], to |-> to], "rows", NoView)

\* The candidate key carries the slots and the start that the preview saw.
BeginCreate(t, mode) ==
    /\ SlotFree(mode)
    /\ \E n \in 1 .. MaxPosition :
          /\ IsNextPosition(n)
          /\ Begin(t, [op |-> "create", mode |-> mode, n |-> n], "branch",
                   [status |-> status])

BeginDecide(t, p, i, u, verdict) ==
    /\ items[p][i].status = "Pending"
    /\ Begin(t, [op |-> "decide", p |-> p, i |-> i, u |-> u, verdict |-> verdict],
             "branch", NoView)

BeginFinalize(t, p) ==
    /\ status[p] = "Approved"
    /\ Begin(t, [op |-> "finalize", p |-> p], "branch", NoView)

-----------------------------------------------------------------------------
(* Locks                                                                   *)

\* Mutant: the advisory lock does not exclude anybody.
EnterBranch(t) ==
    /\ pc[t] = "branch"
    /\ branchLock' = t
    /\ pc' = [pc EXCEPT ![t] = IF req[t].op = "create" THEN "check" ELSE "rows"]
    /\ UNCHANGED <<vars, req, view, missed, attempt, rowLock>>

AcquireBranch(t) ==
    /\ pc[t] = "branch"
    /\ branchLock = NoTx
    /\ branchLock' = t
    /\ pc' = [pc EXCEPT ![t] = IF req[t].op = "create" THEN "check" ELSE "rows"]
    /\ UNCHANGED <<vars, req, view, missed, attempt, rowLock>>

\* submit locks every active row its snapshot shows, the others their own.
RowsOf(t) ==
    IF req[t].op = "submit"
    THEN {p \in Periods : view[t].status[p] \in {"Draft", "Open"} \cup UnderReview}
    ELSE {req[t].p}

RowsToLock(t) == {p \in RowsOf(t) : rowLock[p] # t}
IsNextRow(t, p) == p \in RowsToLock(t) /\ \A q \in RowsToLock(t) : p <= q

RowLockable(t, p) == rowLock[p] = NoTx /\ p \notin missed[t]

LockRow(t, p) ==
    /\ pc[t] = "rows"
    /\ IsNextRow(t, p)
    /\ RowLockable(t, p)
    /\ rowLock' = [rowLock EXCEPT ![p] = t]
    /\ pc' = [pc EXCEPT ![t] = IF RowsToLock(t) # {p} THEN "rows"
                               ELSE IF req[t].op \in {"line", "bonus"} THEN "check"
                               ELSE "commit"]
    /\ UNCHANGED <<vars, req, view, missed, attempt, branchLock>>

ReleaseLocks(t) ==
    /\ branchLock' = IF branchLock = t THEN NoTx ELSE branchLock
    /\ rowLock' = [p \in Periods |-> IF rowLock[p] = t THEN NoTx ELSE rowLock[p]]

AttemptLeft(t) == attempt[t] < MaxAttempts

\* Mutant: the next attempt begins inside the transaction that failed.
RollBackLater(t) == UNCHANGED <<branchLock, rowLock>>
\* The transaction of a failed attempt ends before the next one begins.
RollBack(t) == ReleaseLocks(t)

\* 40001: roll back, and start over unless this was the last attempt.
Conflict(t, p) ==
    /\ pc[t] = "rows"
    /\ IsNextRow(t, p)
    /\ rowLock[p] = NoTx
    /\ p \in missed[t]
    /\ RollBack(t)
    /\ missed' = [missed EXCEPT ![t] = {}]
    /\ view'   = [view EXCEPT ![t] = NoView]
    /\ IF AttemptLeft(t)
       THEN /\ pc' = [pc EXCEPT ![t] = "again"]
            /\ attempt' = [attempt EXCEPT ![t] = @ + 1]
            /\ UNCHANGED req
       ELSE /\ pc' = [pc EXCEPT ![t] = "idle"]
            /\ attempt' = [attempt EXCEPT ![t] = 1]
            /\ req' = [req EXCEPT ![t] = NoRequest]
    /\ UNCHANGED vars

\* The next attempt reads the period again in a new transaction.
StartOver(t) ==
    /\ pc[t] = "again"
    /\ status[req[t].p] = IF req[t].op = "submit" THEN "Open" ELSE "Returned"
    /\ pc'   = [pc EXCEPT ![t] = "branch"]
    /\ view' = [view EXCEPT ![t] = Database]
    /\ UNCHANGED <<vars, req, missed, attempt, branchLock, rowLock>>

-----------------------------------------------------------------------------
(* Commit, refusal, failure                                                *)

\* The connection answers and is free again; its locks go with it, and the
\* period rows it updated become missed updates of the running snapshots.
Finish(t, updated) ==
    /\ ReleaseLocks(t)
    /\ pc'      = [pc EXCEPT ![t] = "idle"]
    /\ req'     = [req EXCEPT ![t] = NoRequest]
    /\ view'    = [view EXCEPT ![t] = NoView]
    /\ attempt' = [attempt EXCEPT ![t] = 1]
    /\ missed'  = [o \in Txns |->
                     IF o = t THEN {}
                     ELSE IF view[o] # NoView /\ req[o].op \in Retryable
                     THEN missed[o] \cup updated
                     ELSE missed[o]]

\* Rows of db that a committed submission updates: its own and the promoted.
SubmitUpdates(p, db) == {p} \cup Drafts(db)

CommitSubmit(t) ==
    /\ pc[t] = "commit" /\ req[t].op = "submit"
    /\ SubmitReading(req[t].p, req[t].u, view[t])
    /\ Finish(t, SubmitUpdates(req[t].p, view[t]))

CommitResubmit(t) ==
    /\ pc[t] = "commit" /\ req[t].op = "resubmit"
    /\ ResubmitReading(req[t].p, req[t].u, view[t])
    /\ Finish(t, {req[t].p})

\* Mutant: the status read before the lock is trusted.
RecheckSkipped(t) == TRUE
\* Source mutations, bonuses too, recheck the status against
\* SOURCE_ENTRY_STATUSES once they hold the row lock and then write without
\* looking at it again.
Editable(t) == status[req[t].p] \in SourceEntryStatuses

CheckEntry(t) ==
    /\ pc[t] = "check" /\ req[t].op \in {"line", "bonus"}
    /\ Editable(t)
    /\ pc' = [pc EXCEPT ![t] = "commit"]
    /\ UNCHANGED <<vars, req, view, missed, attempt, branchLock, rowLock>>

\* Lines, statuses and day entries leave the period row as it was.
CommitLine(t) ==
    /\ pc[t] = "commit" /\ req[t].op = "line"
    /\ WriteFacts(req[t].p, Lines)
    /\ Finish(t, {})

\* Mutant: BonusDataRevision is kept elsewhere.
BonusUpdatesNothing(t) == {}
\* A bonus raises BonusDataRevision in the period row.
BonusUpdates(t) == {req[t].p}

CommitBonus(t) ==
    /\ pc[t] = "commit" /\ req[t].op = "bonus"
    /\ WriteFacts(req[t].p, Bonuses)
    /\ Finish(t, BonusUpdates(t))

CommitPatch(t) ==
    /\ pc[t] = "commit" /\ req[t].op = "patch"
    /\ Patch(req[t].p, req[t].from, req[t].to)
    /\ Finish(t, {req[t].p})

CommitDecide(t) ==
    /\ pc[t] = "commit" /\ req[t].op = "decide"
    /\ IF req[t].verdict = "Approved"
       THEN Approve(req[t].p, req[t].i, req[t].u)
       ELSE SendBack(req[t].p, req[t].i, req[t].u, req[t].verdict)
    /\ Finish(t, {req[t].p})

CommitFinalize(t) ==
    /\ pc[t] = "commit" /\ req[t].op = "finalize"
    /\ FinalizePeriod(req[t].p)
    /\ Finish(t, {req[t].p})

\* Mutant: the key is trusted once the slot is free.
CandidateTrusted(t) == SlotFree(req[t].mode)

\* The slot fingerprint of the candidate is compared under the branch lock.
CandidateCurrent(t) ==
    /\ \A p \in Periods :
          status[p] # view[t].status[p] => {status[p], view[t].status[p]} \subseteq Inactive
    /\ SlotFree(req[t].mode)
    /\ IsNextPosition(req[t].n)

CheckCandidate(t) ==
    /\ pc[t] = "check" /\ req[t].op = "create"
    /\ CandidateCurrent(t)
    /\ pc' = [pc EXCEPT ![t] = "insert"]
    /\ UNCHANGED <<vars, req, view, missed, attempt, branchLock, rowLock>>

\* The identifier comes from a sequence.
CommitCreate(t) ==
    /\ pc[t] = "insert"
    /\ \E p \in Periods :
          /\ \A q \in Periods : status[q] = "None" => p <= q
          /\ InsertPeriod(p, req[t].mode, req[t].n)
    /\ Finish(t, {})

\* The checks made under the locks turn the request down (HTTP 409 or 422).
Refused(t) ==
    \/ /\ pc[t] = "check"
       /\ IF req[t].op = "create" THEN ~CandidateCurrent(t) ELSE ~Editable(t)
    \/ /\ pc[t] = "insert" /\ \A p \in Periods : status[p] # "None"
    \/ /\ pc[t] = "again"
       /\ status[req[t].p] # IF req[t].op = "submit" THEN "Open" ELSE "Returned"
    \/ /\ pc[t] = "commit"
       /\ \/ req[t].op = "submit"   /\ ~SubmitAllowed(req[t].p, view[t])
          \/ req[t].op = "resubmit" /\ ~ResubmitAllowed(req[t].p, view[t])
          \/ req[t].op \in {"line", "bonus"} /\ events[req[t].p] = MaxEvents
          \/ req[t].op = "patch"    /\ status[req[t].p] # req[t].from
          \/ req[t].op = "finalize" /\ ~FinalizeAllowed(req[t].p)
          \/ /\ req[t].op = "decide"
             /\ \/ ~DecideAllowed(req[t].p, req[t].i, req[t].u)
                \/ req[t].verdict # "Approved" /\ ~ReturnSlotFree

Refuse(t) == Refused(t) /\ Finish(t, {}) /\ UNCHANGED vars

\* The process dies or the connection is lost: the transaction rolls back.
Crash(t) == InTx(t) /\ Finish(t, {}) /\ UNCHANGED vars

-----------------------------------------------------------------------------

Arrive(t) ==
    \/ \E p \in Periods :
          \/ \E u \in Users : BeginSubmit(t, p, u) \/ BeginResubmit(t, p, u)
          \/ BeginLine(t, p) \/ BeginBonus(t, p) \/ BeginFinalize(t, p)
          \/ \E to \in {"Cancelled", "Archived"} : BeginPatch(t, p, to)
          \/ \E i \in DOMAIN items[p], u \in Users,
                verdict \in {"Approved", "Rejected", "EditRequested"} :
                BeginDecide(t, p, i, u, verdict)
    \/ \E mode \in {"OPEN_CREATION", "PREPARED_CREATION"} : BeginCreate(t, mode)

TakeLock(t) == AcquireBranch(t) \/ \E p \in Periods : LockRow(t, p) \/ Conflict(t, p)

Work(t) ==
    \/ StartOver(t) \/ CheckCandidate(t) \/ CheckEntry(t) \/ Refuse(t)
    \/ CommitSubmit(t) \/ CommitResubmit(t) \/ CommitLine(t) \/ CommitBonus(t)
    \/ CommitPatch(t) \/ CommitDecide(t) \/ CommitFinalize(t) \/ CommitCreate(t)

TxNext == \E t \in Txns : Arrive(t) \/ TakeLock(t) \/ Work(t) \/ Crash(t)

TxSpec == TxInit /\ [][TxNext]_allVars

\* A transaction keeps working, and PostgreSQL grants a lock in the order of
\* the waiting requests: nobody waits for a lock that is released again and
\* again.  Requests need not arrive and crashes need not happen.
FairTxSpec == TxSpec /\ \A t \in Txns : WF_allVars(Work(t)) /\ SF_allVars(TakeLock(t))

-----------------------------------------------------------------------------
(* Properties                                                              *)

\* Locks are held by transactions that are past acquiring them, and every
\* busy connection serves a request.
TxTypeOK ==
    /\ TypeOK
    /\ pc \in [Txns -> {"idle", "branch", "rows", "check", "insert", "commit", "again"}]
    /\ \A t \in Txns :
          /\ pc[t] = "idle" => req[t] = NoRequest /\ view[t] = NoView
          /\ branchLock = t => pc[t] \in {"rows", "check", "insert", "commit"}
          /\ \A p \in Periods : rowLock[p] = t => pc[t] \in {"rows", "check", "commit"}
          /\ attempt[t] \in 1 .. MaxAttempts

\* The source entries of a period change only while it may be edited, however
\* long before its commit the mutation read the status: the row lock keeps a
\* transition out between the recheck and the write (mutation_lock.py).
EntryOnlyWhileEditable ==
    [][\A p \in Periods : live'[p] # live[p] =>
          status[p] \in SourceEntryStatuses /\ status'[p] = status[p]]_allVars

\* No bonus is lost: the bonuses of a period in review, approved or paid are
\* those of its last snapshot, because a bonus updates the period row and so
\* makes a submission with an older snapshot start over.
FrozenBonusesAreLive ==
    \A p \in Periods : status[p] \in Frozen =>
        LastPacket(p) \cap Bonuses = live[p] \cap Bonuses

\* A retried submission never repeats what an earlier attempt did: every
\* submission that is answered added at most one snapshot and one item, and
\* nobody adds one for a period whose item is still to be decided.
OneHandInPerReview ==
    [][\A p \in Periods :
          snaps'[p] # snaps[p] =>
              /\ status[p] \in {"Open", "Returned"} /\ status'[p] = "InReview"
              /\ Len(snaps'[p]) = Len(snaps[p]) + 1
              /\ ~HasPending(items[p])]_allVars

\* Every request is answered: no two transactions wait for each other's
\* locks, and no submission is retried for ever.
RequestAnswered == \A t \in Txns : InTx(t) ~> ~InTx(t)
=============================================================================
