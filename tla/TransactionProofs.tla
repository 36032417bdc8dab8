--------------------------- MODULE TransactionProofs ---------------------------
(***************************************************************************)
(* Proofs about WorkflowTransactions: what the handlers of the workflow    *)
(* keep when any number of them run as concurrent transactions; and, at    *)
(* the end, about PeriodCreation: what candidate keys promise.             *)
(*                                                                         *)
(* The handlers write what they read earlier: a submission its snapshot, a *)
(* source mutation the status it checked, a creation the place its key     *)
(* names.  The inductive invariant says why that is still true at the      *)
(* commit: whoever changes the status, the items or the bonuses of a       *)
(* period holds its row, whoever moves the branch along holds the branch   *)
(* lock, and a snapshot knows the rows that were updated since.            *)
(***************************************************************************)
EXTENDS WorkflowTransactions, PeriodCreation, PayrollWorkflowProofs, WellFoundedInduction

Steps     == {"idle", "branch", "rows", "check", "insert", "commit", "again"}
BranchOps == {"submit", "resubmit", "create", "decide", "finalize"}
EntryOps  == {"line", "bonus"}
Moves     == {<<"Draft", "Cancelled">>, <<"Open", "Cancelled">>, <<"Locked", "Archived">>}

HandInRequests == [op : Retryable, p : Periods, u : Users]
PeriodRequests == [op : EntryOps \cup {"finalize"}, p : Periods]
PatchRequests  == {r \in [op : {"patch"}, p : Periods, from : Statuses, to : Statuses] :
                      <<r.from, r.to>> \in Moves}
CreateRequests == [op : {"create"}, mode : {"OPEN_CREATION", "PREPARED_CREATION"},
                   n : 1 .. MaxPosition]
DecideRequests == [op : {"decide"}, p : Periods, i : Nat, u : Users,
                   verdict : {"Approved", "Rejected", "EditRequested"}]
Requests == {NoRequest} \cup HandInRequests \cup PeriodRequests \cup PatchRequests
                \cup CreateRequests \cup DecideRequests

\* The connections' variables hold values of their types.
Connections ==
    /\ pc \in [Txns -> Steps]
    /\ req \in [Txns -> Requests]
    /\ view = [t \in Txns |-> view[t]]
    /\ missed \in [Txns -> SUBSET Periods]
    /\ attempt \in [Txns -> 1 .. MaxAttempts]
    /\ branchLock \in Txns \cup {NoTx}
    /\ rowLock \in [Periods -> Txns \cup {NoTx}]

\* Each kind of request goes through its own steps.
StepFits(t) ==
    /\ pc[t] = "idle"   <=> req[t] = NoRequest
    /\ pc[t] = "branch" => req[t].op \in BranchOps
    /\ pc[t] = "check"  => req[t].op \in EntryOps \cup {"create"}
    /\ req[t].op = "create" => pc[t] \in {"branch", "check", "insert"}
    /\ pc[t] = "insert" => req[t].op = "create"
    /\ pc[t] = "again"  => req[t].op \in Retryable

\* Connection t is past acquiring the locks of its rows.
RowsLocked(t) == pc[t] = "commit" \/ (pc[t] = "check" /\ req[t].op \in EntryOps)

\* What a connection has locked: the branch, once it is past waiting for it;
\* all its rows, once it is past locking them; and no row that was updated
\* since its snapshot.
LocksFit(t) ==
    /\ req[t].op \in BranchOps /\ pc[t] \in {"rows", "check", "insert", "commit"} =>
          branchLock = t
    /\ RowsLocked(t) => \A p \in Periods : p \in RowsOf(t) => rowLock[p] = t
    /\ \A p \in Periods : rowLock[p] = t => p \notin missed[t]
    /\ branchLock = t => pc[t] \in {"rows", "check", "insert", "commit"}
    /\ \A p \in Periods :
          rowLock[p] = t => pc[t] \in {"rows", "check", "commit"} /\ req[t].op # "create"

\* Connection t reads from a snapshot.
Reading(t) == req[t].op \in Retryable /\ pc[t] # "again"

Settled == {"Approved", "Locked", "Archived", "Cancelled"}
Unborn  == {"None", "Draft", "Cancelled"}

\* The row of period q is as connection t's snapshot shows it, or it was
\* inserted later.
RowCurrent(t, q) ==
    \/ /\ view[t].status[q] = status[q]
       /\ view[t].items[q] = items[q]
       /\ view[t].live[q] \cap Bonuses = live[q] \cap Bonuses
    \/ view[t].status[q] = "None" /\ status[q] \in {"None", "Draft", "Open"}

\* What the snapshot of connection t says of the rows as they are: rows not
\* updated since are current, places never change, what was settled stays
\* so, and while the period being submitted was not updated no other period
\* took its place.
SnapshotFits(t) ==
    /\ Reading(t) =>
          /\ view[t] # NoView
          /\ \A q \in Periods : /\ view[t].status[q] \in Statuses
                                /\ view[t].live[q] \in SUBSET Facts
                                /\ view[t].events[q] \in Nat
          /\ view[t].status[req[t].p] = IF req[t].op = "submit" THEN "Open" ELSE "Returned"
          /\ \A q \in Periods \ missed[t] : RowCurrent(t, q)
          /\ \A q \in Periods : view[t].status[q] # "None" =>
                status[q] # "None" /\ view[t].pos[q] = pos[q]
          /\ \A q \in Periods : view[t].status[q] \in Settled => status[q] \in Settled
          /\ req[t].op = "submit" /\ req[t].p \notin missed[t] =>
                \A q \in Periods : view[t].status[q] = "None" => status[q] \in Unborn
    /\ ~Reading(t) => missed[t] = {}
    /\ pc[t] \in {"idle", "again"} => view[t] = NoView

\* A source mutation writes only what it checked under the row lock.
EntryChecked(t) ==
    pc[t] = "commit" /\ req[t].op \in EntryOps => status[req[t].p] \in SourceEntryStatuses

\* The item a decision is about is never removed.
ItemKnown(t) == req[t].op = "decide" => req[t].i \in DOMAIN items[req[t].p]

\* While a creation holds the branch the slot it found free stays free, and
\* the place it takes stays behind all the others.  A cancellation may empty
\* the place before a prepared period, never the one before an open period.
PlaceChecked(t) ==
    pc[t] = "insert" =>
        /\ \A q \in Periods : status[q] # "Draft"
        /\ \A q \in Periods : status[q] \notin Inactive => pos[q] < req[t].n
        /\ req[t].mode = "OPEN_CREATION" =>
              /\ \A q \in Periods : status[q] # "Open"
              /\ IsNextPosition(req[t].n)

ConnectionFits(t) ==
    /\ StepFits(t) /\ LocksFit(t) /\ SnapshotFits(t)
    /\ EntryChecked(t) /\ ItemKnown(t) /\ PlaceChecked(t)

\* No two periods that are not cancelled share a place.
PlacesDistinct ==
    \A p, q \in Periods :
        status[p] \notin Inactive /\ status[q] \notin Inactive /\ pos[p] = pos[q] => p = q

\* What the branch looks like between two steps of its transactions.
BranchInv ==
    /\ CoreInv
    /\ FrozenBonusesAreLive
    /\ CalendarGapless /\ PlacesDistinct /\ PositionsStart

\* The inductive invariant.
TxInv == BranchInv /\ Connections /\ \A t \in Txns : ConnectionFits(t)
-----------------------------------------------------------------------------
(* Requests, and what ends one                                             *)

\* What a request of each kind names.
LEMMA RequestFields ==
    ASSUME NEW r \in Requests
    PROVE  /\ r = NoRequest => r.op = "none"
           /\ r.op = "none" => r = NoRequest
           /\ r.op \in {"none", "patch", "create", "decide", "finalize"}
                          \cup Retryable \cup EntryOps
           /\ r.op \in Retryable => r.p \in Periods /\ r.u \in Users
           /\ r.op \in EntryOps \cup {"finalize"} => r.p \in Periods
           /\ r.op = "patch" => r.p \in Periods /\ <<r.from, r.to>> \in Moves
           /\ r.op = "create" => /\ r.mode \in {"OPEN_CREATION", "PREPARED_CREATION"}
                                 /\ r.n \in 1 .. MaxPosition
           /\ r.op = "decide" => /\ r.p \in Periods /\ r.u \in Users
                                 /\ r.verdict \in {"Approved", "Rejected", "EditRequested"}
<1> USE DEF Retryable, EntryOps
<1>1. CASE r = NoRequest
  BY <1>1 DEF NoRequest
<1>2. CASE r \in HandInRequests
  BY <1>2 DEF HandInRequests, NoRequest
<1>3. CASE r \in PeriodRequests
  BY <1>3 DEF PeriodRequests, NoRequest
<1>4. CASE r \in PatchRequests
  BY <1>4 DEF PatchRequests, NoRequest
<1>5. CASE r \in CreateRequests
  BY <1>5 DEF CreateRequests, NoRequest
<1>6. CASE r \in DecideRequests
  BY <1>6 DEF DecideRequests, NoRequest
<1> QED
  BY <1>1, <1>2, <1>3, <1>4, <1>5, <1>6 DEF Requests

\* A connection that finishes holds nothing, and takes nothing from others.
LEMMA FinishEffect ==
    ASSUME Connections, NEW t \in Txns, NEW updated \in SUBSET Periods, Finish(t, updated)
    PROVE  /\ Connections'
           /\ pc'[t] = "idle" /\ req'[t] = NoRequest /\ view'[t] = NoView
           /\ missed'[t] = {}
           /\ branchLock' # t /\ \A p \in Periods : rowLock'[p] # t
           /\ \A o \in Txns \ {t} :
                 /\ pc'[o] = pc[o] /\ req'[o] = req[o] /\ view'[o] = view[o]
                 /\ missed'[o] = IF view[o] # NoView /\ req[o].op \in Retryable
                                 THEN missed[o] \cup updated ELSE missed[o]
                 /\ branchLock' = o <=> branchLock = o
                 /\ \A p \in Periods : rowLock'[p] = o <=> rowLock[p] = o
<1> USE DEF Connections
<1>1. /\ pc' = [pc EXCEPT ![t] = "idle"]
      /\ req' = [req EXCEPT ![t] = NoRequest]
      /\ view' = [view EXCEPT ![t] = NoView]
      /\ attempt' = [attempt EXCEPT ![t] = 1]
      /\ missed' = [o \in Txns |->
                       IF o = t THEN {}
                       ELSE IF view[o] # NoView /\ req[o].op \in Retryable
                       THEN missed[o] \cup updated
                       ELSE missed[o]]
      /\ branchLock' = IF branchLock = t THEN NoTx ELSE branchLock
      /\ rowLock' = [p \in Periods |-> IF rowLock[p] = t THEN NoTx ELSE rowLock[p]]
  BY DEF Finish, ReleaseLocks
<1>2. pc' \in [Txns -> Steps] /\ attempt' \in [Txns -> 1 .. MaxAttempts]
  BY <1>1, TransactionAssumption DEF Steps
<1>3. req' \in [Txns -> Requests]
  BY <1>1 DEF Requests
<1>4. view' = [o \in Txns |-> view'[o]] /\ view'[t] = NoView
      /\ \A o \in Txns \ {t} : view'[o] = view[o]
  BY <1>1
<1>5. missed' \in [Txns -> SUBSET Periods]
  BY <1>1
<1>6. branchLock' \in Txns \cup {NoTx} /\ rowLock' \in [Periods -> Txns \cup {NoTx}]
  BY <1>1
<1>7. pc'[t] = "idle" /\ req'[t] = NoRequest /\ missed'[t] = {}
  BY <1>1
<1>8. branchLock' # t /\ \A p \in Periods : rowLock'[p] # t
  BY <1>1, TransactionAssumption
<1>9. ASSUME NEW o \in Txns \ {t}
      PROVE  /\ pc'[o] = pc[o] /\ req'[o] = req[o]
             /\ missed'[o] = IF view[o] # NoView /\ req[o].op \in Retryable
                             THEN missed[o] \cup updated ELSE missed[o]
             /\ branchLock' = o <=> branchLock = o
             /\ \A p \in Periods : rowLock'[p] = o <=> rowLock[p] = o
  BY <1>1, <1>9, TransactionAssumption
<1> QED
  BY <1>2, <1>3, <1>4, <1>5, <1>6, <1>7, <1>8, <1>9

-----------------------------------------------------------------------------
(* What one transaction may do to the others                               *)

\* What a committing transaction t does to the branch, if the rows it
\* updates are the given ones.
Effect(t, updated) ==
    /\ \A q \in Periods \ updated :
          /\ items'[q] = items[q]
          /\ live'[q] \cap Bonuses = live[q] \cap Bonuses
          /\ status'[q] # status[q] => status[q] = "None" /\ status'[q] \in {"Draft", "Open"}
    /\ \A q \in updated : rowLock[q] = t
    /\ \A q \in Periods : status[q] # "None" => status'[q] # "None" /\ pos'[q] = pos[q]
    /\ \A q \in Periods : status[q] \in Settled => status'[q] \in Settled
    /\ \A q, o \in Periods :
          status[o] = "Open" /\ status[q] \in Unborn /\ status'[q] \notin Unborn =>
              o \in updated
    /\ branchLock # t => \A q \in Periods :
          /\ pos'[q] = pos[q]
          /\ status'[q] # status[q] => <<status[q], status'[q]>> \in Moves
    /\ \A q \in Periods : DOMAIN items[q] \subseteq DOMAIN items'[q]

\* A connection that is not touched in a step that leaves the branch alone
\* stays as it should be.
LEMMA Undisturbed ==
    ASSUME NEW o \in Txns, ConnectionFits(o), UNCHANGED vars,
           pc'[o] = pc[o], req'[o] = req[o], view'[o] = view[o], missed'[o] = missed[o],
           branchLock' = o <=> branchLock = o,
           \A p \in Periods : rowLock'[p] = o <=> rowLock[p] = o
    PROVE  ConnectionFits(o)'
<1>1. UNCHANGED <<status, pos, live, items>>
  BY DEF vars
<1> USE DEF ConnectionFits
<1>2. StepFits(o)'
  BY DEF StepFits
<1>3. /\ RowsOf(o)' = RowsOf(o)
      /\ RowsLocked(o)' <=> RowsLocked(o)
      /\ Reading(o)' <=> Reading(o)
  BY DEF RowsOf, RowsLocked, Reading
<1>4. LocksFit(o)'
  <2> USE DEF LocksFit
  <2>1. \A p \in Periods : rowLock'[p] = o => p \notin missed'[o]
    OBVIOUS
  <2>2. RowsLocked(o)' => \A p \in Periods : p \in RowsOf(o)' => rowLock'[p] = o
    BY <1>3
  <2>3. \A p \in Periods :
           rowLock'[p] = o => pc'[o] \in {"rows", "check", "commit"} /\ req'[o].op # "create"
    OBVIOUS
  <2> QED
    BY <2>1, <2>2, <2>3
<1>5. SnapshotFits(o)'
  BY <1>1, <1>3 DEF SnapshotFits, RowCurrent
<1>6. EntryChecked(o)' /\ ItemKnown(o)'
  BY <1>1 DEF EntryChecked, ItemKnown
<1>7. PlaceChecked(o)'
  BY <1>1 DEF PlaceChecked, IsNextPosition
<1> QED
  BY <1>2, <1>4, <1>5, <1>6, <1>7

\* A connection is not disturbed by the commit of another one: the rows it
\* has locked were not updated, and the rows updated since its snapshot are
\* known to it.
LEMMA OthersFit ==
    ASSUME Connections, NEW t \in Txns, NEW updated \in SUBSET Periods,
           Finish(t, updated), Effect(t, updated),
           NEW o \in Txns \ {t}, ConnectionFits(o)
    PROVE  ConnectionFits(o)'
<1>1. /\ pc'[o] = pc[o] /\ req'[o] = req[o] /\ view'[o] = view[o]
      /\ missed'[o] = IF view[o] # NoView /\ req[o].op \in Retryable
                      THEN missed[o] \cup updated ELSE missed[o]
      /\ branchLock' = o <=> branchLock = o
      /\ \A p \in Periods : rowLock'[p] = o <=> rowLock[p] = o
  <2>1. \A x \in Txns \ {t} :
           /\ pc'[x] = pc[x] /\ req'[x] = req[x] /\ view'[x] = view[x]
           /\ missed'[x] = IF view[x] # NoView /\ req[x].op \in Retryable
                           THEN missed[x] \cup updated ELSE missed[x]
           /\ branchLock' = x <=> branchLock = x
           /\ \A p \in Periods : rowLock'[p] = x <=> rowLock[p] = x
    BY FinishEffect
  <2> QED
    BY <2>1
<1>2. /\ RowsOf(o)' = RowsOf(o)
      /\ RowsLocked(o)' <=> RowsLocked(o)
      /\ Reading(o)' <=> Reading(o)
  BY <1>1 DEF RowsOf, RowsLocked, Reading
<1>3. \A q \in updated : rowLock[q] = t
  BY DEF Effect
<1>4. req[o] \in Requests
  BY DEF Connections
<1> USE DEF ConnectionFits
<1>5. StepFits(o)'
  BY <1>1 DEF StepFits
<1>6. LocksFit(o)'
  <2> USE DEF LocksFit
  <2>1. \A p \in Periods : rowLock'[p] = o => p \notin missed'[o]
    <3> SUFFICES ASSUME NEW p \in Periods, rowLock'[p] = o PROVE p \notin missed'[o]
      OBVIOUS
    <3>1. rowLock[p] = o /\ p \notin updated
      BY <1>1, <1>3
    <3> QED
      BY <1>1, <3>1
  <2>2. RowsLocked(o)' => \A p \in Periods : p \in RowsOf(o)' => rowLock'[p] = o
    BY <1>1, <1>2
  <2> QED
    BY <2>1, <2>2, <1>1
<1>7. SnapshotFits(o)'
  <2>1. CASE Reading(o)
    <3> USE DEF SnapshotFits
    <3>1. view[o] # NoView /\ req[o].op \in Retryable
      BY <2>1 DEF Reading
    <3>2. missed'[o] = missed[o] \cup updated
      BY <1>1, <3>1
    <3>3. req[o].p \in Periods
      BY <1>4, <3>1, RequestFields
    <3>4. \A q \in Periods \ missed'[o] : RowCurrent(o, q)'
      <4> SUFFICES ASSUME NEW q \in Periods \ missed'[o] PROVE RowCurrent(o, q)'
        OBVIOUS
      <4>1. q \notin missed[o] /\ q \notin updated
        BY <3>2
      <4>2. RowCurrent(o, q)
        BY <2>1, <4>1
      <4>3. /\ items'[q] = items[q]
            /\ live'[q] \cap Bonuses = live[q] \cap Bonuses
            /\ status'[q] # status[q] => status[q] = "None" /\ status'[q] \in {"Draft", "Open"}
        BY <4>1 DEF Effect
      <4> QED
        BY <1>1, <4>2, <4>3 DEF RowCurrent
    <3>5. \A q \in Periods : view[o].status[q] # "None" =>
             status'[q] # "None" /\ view[o].pos[q] = pos'[q]
      BY <2>1 DEF Effect
    <3>6. \A q \in Periods : view[o].status[q] \in Settled => status'[q] \in Settled
      BY <2>1 DEF Effect
    <3>7. req[o].op = "submit" /\ req[o].p \notin missed'[o] =>
             \A q \in Periods : view[o].status[q] = "None" => status'[q] \in Unborn
      <4> SUFFICES ASSUME req[o].op = "submit", req[o].p \notin missed'[o],
                          NEW q \in Periods, view[o].status[q] = "None"
                   PROVE  status'[q] \in Unborn
        OBVIOUS
      <4>1. req[o].p \notin missed[o] /\ req[o].p \notin updated
        BY <3>2
      <4>2. view[o].status[req[o].p] = "Open" /\ RowCurrent(o, req[o].p)
        BY <2>1, <3>3, <4>1
      <4>3. status[req[o].p] = "Open"
        BY <4>2 DEF RowCurrent
      <4>4. status[q] \in Unborn
        BY <2>1, <4>1
      <4> QED
        BY <3>3, <4>1, <4>3, <4>4 DEF Effect
    <3>8. pc[o] \notin {"idle", "again"}
      <4>1. pc[o] # "idle"
        BY <3>1, <1>4, RequestFields DEF StepFits, Retryable
      <4> QED
        BY <4>1, <2>1 DEF Reading
    <3> QED
      BY <1>1, <1>2, <2>1, <3>4, <3>5, <3>6, <3>7, <3>8
  <2>2. CASE ~Reading(o)
    <3>1. missed'[o] = {}
      BY <1>1, <2>2 DEF SnapshotFits, Reading
    <3> QED
      BY <1>1, <1>2, <2>2, <3>1 DEF SnapshotFits
  <2> QED
    BY <2>1, <2>2
<1>8. EntryChecked(o)'
  <2> SUFFICES ASSUME pc[o] = "commit", req[o].op \in EntryOps
               PROVE  status'[req[o].p] \in SourceEntryStatuses
    BY <1>1 DEF EntryChecked
  <2>1. req[o].p \in Periods
    BY <1>4, RequestFields
  <2>2. RowsOf(o) = {req[o].p} /\ RowsLocked(o)
    BY DEF RowsOf, RowsLocked, EntryOps
  <2>3. rowLock[req[o].p] = o
    BY <2>1, <2>2 DEF LocksFit
  <2>4. req[o].p \notin updated
    BY <1>3, <2>3
  <2>5. status[req[o].p] \in SourceEntryStatuses
    BY DEF EntryChecked
  <2> QED
    BY <2>1, <2>4, <2>5 DEF Effect, SourceEntryStatuses
<1>9. ItemKnown(o)'
  <2> SUFFICES ASSUME req[o].op = "decide" PROVE req[o].i \in DOMAIN items'[req[o].p]
    BY <1>1 DEF ItemKnown
  <2>1. req[o].p \in Periods
    BY <1>4, RequestFields
  <2> QED
    BY <2>1 DEF ItemKnown, Effect
<1>10. PlaceChecked(o)'
  <2> SUFFICES ASSUME pc[o] = "insert"
               PROVE  /\ \A q \in Periods : status'[q] # "Draft"
                      /\ \A q \in Periods : status'[q] \notin Inactive => pos'[q] < req[o].n
                      /\ req[o].mode = "OPEN_CREATION" =>
                            /\ \A q \in Periods : status'[q] # "Open"
                            /\ IsNextPosition(req[o].n)'
    BY <1>1 DEF PlaceChecked
  <2>1. req[o].op = "create" /\ branchLock = o
    BY DEF StepFits, LocksFit, BranchOps
  <2>2. \A q \in Periods : /\ pos'[q] = pos[q]
                           /\ status'[q] # status[q] => <<status[q], status'[q]>> \in Moves
    BY <2>1 DEF Effect
  <2>3. \A q \in Periods : /\ status'[q] \notin Inactive => status[q] \notin Inactive
                           /\ status'[q] \in {"Draft", "Open"} => status'[q] = status[q]
                           /\ status[q] \notin {"Draft", "Open"} /\ status[q] \notin Inactive
                                 => status'[q] \notin Inactive
    BY <2>2 DEF Moves, Inactive
  <2>4. /\ \A q \in Periods : status'[q] # "Draft"
        /\ \A q \in Periods : status'[q] \notin Inactive => pos'[q] < req[o].n
    BY <2>2, <2>3 DEF PlaceChecked
  <2>5. ASSUME req[o].mode = "OPEN_CREATION"
        PROVE  (\A q \in Periods : status'[q] # "Open") /\ IsNextPosition(req[o].n)'
    <3>1. /\ \A q \in Periods : status[q] \notin {"Draft", "Open"}
          /\ IsNextPosition(req[o].n)
      BY <2>5 DEF PlaceChecked
    <3>2. req'[o].n = req[o].n
      BY <1>1
    <3> QED
      BY <2>2, <2>3, <2>4, <3>1, <3>2 DEF IsNextPosition
  <2> QED
    BY <2>4, <2>5
<1> QED
  BY <1>5, <1>6, <1>7, <1>8, <1>9, <1>10

\* An idle connection is as it should be.
LEMMA IdleFits ==
    ASSUME NEW t \in Txns, pc[t] = "idle", req[t] = NoRequest, view[t] = NoView,
           missed[t] = {}, branchLock # t, \A p \in Periods : rowLock[p] # t
    PROVE  ConnectionFits(t)
<1>1. req[t].op = "none"
  BY DEF NoRequest
<1> QED
  BY <1>1 DEF ConnectionFits, StepFits, LocksFit, SnapshotFits, EntryChecked, ItemKnown,
              PlaceChecked, RowsLocked, Reading, BranchOps, EntryOps, Retryable

\* The commit of one transaction leaves all connections as they should be.
LEMMA CommitFits ==
    ASSUME Connections, \A o \in Txns : ConnectionFits(o),
           NEW t \in Txns, NEW updated \in SUBSET Periods,
           Finish(t, updated), Effect(t, updated)
    PROVE  Connections' /\ \A o \in Txns : ConnectionFits(o)'
<1>1. /\ Connections'
      /\ pc'[t] = "idle" /\ req'[t] = NoRequest /\ view'[t] = NoView /\ missed'[t] = {}
      /\ branchLock' # t /\ \A p \in Periods : rowLock'[p] # t
  BY FinishEffect
<1>2. ConnectionFits(t)'
  <2>1. req'[t].op = "none"
    BY <1>1 DEF NoRequest
  <2> QED
    BY <1>1, <2>1 DEF ConnectionFits, StepFits, LocksFit, SnapshotFits, EntryChecked,
                ItemKnown, PlaceChecked, RowsLocked, Reading, BranchOps, EntryOps, Retryable
<1>3. \A o \in Txns \ {t} : ConnectionFits(o)'
  BY OthersFit
<1> QED
  BY <1>1, <1>2, <1>3

-----------------------------------------------------------------------------
(* What each commit does to the branch                                     *)

\* Leaving the places and the kinds of periods as they are, or cancelling
\* some, keeps the calendar.
LEMMA PlacesKept ==
    ASSUME CalendarGapless, PlacesDistinct, PositionsStart, UNCHANGED pos,
           \A q \in Periods :
              /\ status'[q] \in Submitted <=> status[q] \in Submitted
              /\ status'[q] = "Open" => status[q] = "Open"
              /\ status'[q] \notin Inactive => status[q] \notin Inactive
    PROVE  CalendarGapless' /\ PlacesDistinct' /\ PositionsStart'
<1>1. CalendarGapless'
  <2> SUFFICES ASSUME NEW p \in Periods, status'[p] \in Submitted \cup {"Open"}
               PROVE  /\ \A n \in 1 .. pos[p] - 1 :
                            \E q \in Periods : status'[q] \in Submitted /\ pos[q] = n
                      /\ \A q \in Periods \ {p} :
                            status'[q] \notin Inactive => pos[q] # pos[p]
    BY DEF CalendarGapless
  <2>1. status[p] \in Submitted \cup {"Open"}
    OBVIOUS
  <2> QED
    BY <2>1 DEF CalendarGapless
<1>2. PlacesDistinct'
  BY DEF PlacesDistinct
<1>3. PositionsStart'
  BY DEF PositionsStart
<1> QED
  BY <1>1, <1>2, <1>3

\* A submission turns the open period into the end of the submitted ones and
\* may open the period after it.
LEMMA SubmitPlaces ==
    ASSUME BranchInv, UNCHANGED pos, NEW p \in Periods, status[p] = "Open",
           NEW promoted \in SUBSET Periods,
           \A d \in promoted : status[d] = "Draft" /\ pos[d] = pos[p] + 1,
           \A q \in Periods : status'[q] = IF q = p THEN "InReview"
                                           ELSE IF q \in promoted THEN "Open" ELSE status[q]
    PROVE  CalendarGapless' /\ PlacesDistinct' /\ PositionsStart'
<1> USE DEF BranchInv
<1>1. \A q \in Periods : /\ status'[q] \notin Inactive => status[q] \notin Inactive
                         /\ status[q] \in Submitted => status'[q] \in Submitted
                         /\ pos[q] \in Nat
  BY DEF Inactive, Submitted, Frozen, CoreInv, TypeOK
<1>2. PlacesDistinct'
  BY <1>1 DEF PlacesDistinct
<1>3. PositionsStart'
  BY <1>1 DEF PositionsStart
<1>4. status'[p] \in Submitted
  BY DEF Submitted, Frozen
<1>5. CalendarGapless'
  <2> SUFFICES ASSUME NEW r \in Periods, status'[r] \in Submitted \cup {"Open"}
               PROVE  /\ \A n \in 1 .. pos[r] - 1 :
                            \E q \in Periods : status'[q] \in Submitted /\ pos[q] = n
                      /\ \A q \in Periods \ {r} :
                            status'[q] \notin Inactive => pos[q] # pos[r]
    BY DEF CalendarGapless
  <2>1. \A q \in Periods \ {r} : status'[q] \notin Inactive => pos[q] # pos[r]
    <3>1. status'[r] \notin Inactive
      BY DEF Submitted, Frozen, Inactive
    <3> QED
      BY <1>1, <3>1 DEF PlacesDistinct
  <2>2. CASE status[r] \in Submitted \cup {"Open"}
    <3>1. \A n \in 1 .. pos[r] - 1 :
             \E q \in Periods : status[q] \in Submitted /\ pos[q] = n
      BY <2>2 DEF CalendarGapless
    <3> QED
      BY <1>1, <2>1, <3>1
  <2>3. CASE status[r] \notin Submitted \cup {"Open"}
    <3>1. r \in promoted /\ pos[r] = pos[p] + 1
      BY <2>3
    <3>2. ASSUME NEW n \in 1 .. pos[r] - 1
          PROVE  \E q \in Periods : status'[q] \in Submitted /\ pos[q] = n
      <4>1. CASE n = pos[p]
        BY <4>1, <1>4
      <4>2. CASE n \in 1 .. pos[p] - 1
        <5>1. \E q \in Periods : status[q] \in Submitted /\ pos[q] = n
          BY <4>2 DEF CalendarGapless
        <5> QED
          BY <1>1, <5>1
      <4> QED
        BY <3>1, <4>1, <4>2, <1>1
    <3> QED
      BY <2>1, <3>2
  <2> QED
    BY <2>2, <2>3
<1> QED
  BY <1>2, <1>3, <1>5

\* A created period takes a place behind all the others; an open one takes
\* the place after the submitted ones.
LEMMA InsertPlaces ==
    ASSUME BranchInv, NEW p \in Periods, status[p] = "None", NEW n \in Nat \ {0},
           NEW to \in {"Draft", "Open"},
           status' = [status EXCEPT ![p] = to], pos' = [pos EXCEPT ![p] = n],
           \A q \in Periods : status[q] # "Draft",
           \A q \in Periods : status[q] \notin Inactive => pos[q] < n,
           to = "Open" => (\A q \in Periods : status[q] # "Open") /\ IsNextPosition(n)
    PROVE  CalendarGapless' /\ PlacesDistinct' /\ PositionsStart'
<1> USE DEF BranchInv
<1>1. /\ status'[p] = to /\ pos'[p] = n
      /\ \A q \in Periods \ {p} : status'[q] = status[q] /\ pos'[q] = pos[q]
      /\ \A q \in Periods : pos[q] \in Nat /\ status[q] \in Statuses
      /\ p \in Periods
  BY DEF CoreInv, TypeOK
<1>2. PositionsStart'
  BY <1>1 DEF PositionsStart
<1>3. PlacesDistinct'
  BY <1>1 DEF PlacesDistinct
<1>4. \A q \in Periods : status[q] \in Submitted =>
         q # p /\ status'[q] \in Submitted /\ pos'[q] = pos[q]
  BY <1>1 DEF Submitted, Frozen
<1>5. CalendarGapless'
  <2> SUFFICES ASSUME NEW r \in Periods, status'[r] \in Submitted \cup {"Open"}
               PROVE  /\ \A m \in 1 .. pos'[r] - 1 :
                            \E q \in Periods : status'[q] \in Submitted /\ pos'[q] = m
                      /\ \A q \in Periods \ {r} :
                            status'[q] \notin Inactive => pos'[q] # pos'[r]
    BY DEF CalendarGapless
  <2>1. \A q \in Periods \ {r} : status'[q] \notin Inactive => pos'[q] # pos'[r]
    <3>1. status'[r] \notin Inactive
      BY DEF Submitted, Frozen, Inactive
    <3> QED
      BY <1>3, <3>1 DEF PlacesDistinct
  <2>2. \A m \in 1 .. pos'[r] - 1 : \E q \in Periods : status[q] \in Submitted /\ pos[q] = m
    <3>1. CASE r # p
      <4>1. status[r] \in Submitted \cup {"Open"} /\ pos'[r] = pos[r]
        BY <1>1, <3>1
      <4> QED
        BY <4>1 DEF CalendarGapless
    <3>2. CASE r = p
      <4>1. to = "Open" /\ pos'[r] = n
        BY <1>1, <3>2 DEF Submitted, Frozen
      <4>2. \A q \in Periods : status[q] \notin Inactive => status[q] \in Submitted
        BY <1>1, <4>1 DEF Statuses, Submitted, Frozen, Inactive
      <4>3. ASSUME NEW m \in 1 .. n - 1
            PROVE  \E q \in Periods : status[q] \in Submitted /\ pos[q] = m
        <5>1. PICK q \in Periods : status[q] \in Submitted /\ pos[q] = n - 1
          BY <4>1, <4>2 DEF IsNextPosition
        <5>2. CASE m = n - 1
          BY <5>1, <5>2
        <5>3. CASE m # n - 1
          <6>1. m \in 1 .. pos[q] - 1
            BY <5>1, <5>3
          <6> QED
            BY <5>1, <6>1 DEF CalendarGapless
        <5> QED
          BY <5>2, <5>3
      <4> QED
        BY <4>1, <4>3
    <3> QED
      BY <3>1, <3>2
  <2>3. \A m \in 1 .. pos'[r] - 1 : \E q \in Periods : status'[q] \in Submitted /\ pos'[q] = m
    BY <1>4, <2>2
  <2> QED
    BY <2>1, <2>3
<1> QED
  BY <1>2, <1>3, <1>5

\* What the actions promise, as a step of the branch.
EntryStep ==
    \A p \in Periods : live'[p] # live[p] =>
        status[p] \in SourceEntryStatuses /\ status'[p] = status[p]
HandInStep ==
    \A p \in Periods : snaps'[p] # snaps[p] =>
        /\ status[p] \in {"Open", "Returned"} /\ status'[p] = "InReview"
        /\ Len(snaps'[p]) = Len(snaps[p]) + 1
        /\ ~HasPending(items[p])
HistoryStep   == \A p \in Periods : HistoryKept(p)
LifecycleStep == Lifecycle!Next \/ UNCHANGED <<status, snaps, finals>>
StepFine == EntryStep /\ HandInStep /\ HistoryStep /\ LifecycleStep

\* Connection t finishes with an effect the other connections can bear.
Committed(t) == \E updated \in SUBSET Periods : Finish(t, updated) /\ Effect(t, updated)

\* A submission captures the bonuses as they are, if its snapshot shows them.
LEMMA HandInBonuses ==
    ASSUME TypeOK, FrozenBonusesAreLive, NEW p \in Periods, NEW u \in Users, NEW db,
           db.live[p] \in SUBSET Facts, db.events[p] \in Nat, HandIn(p, u, db),
           db.live[p] \cap Bonuses = live[p] \cap Bonuses, UNCHANGED live,
           \A q \in Periods \ {p} : status'[q] \in Frozen => status[q] \in Frozen
    PROVE  FrozenBonusesAreLive'
<1> SUFFICES ASSUME NEW q \in Periods, status'[q] \in Frozen
             PROVE  LastPacket(q)' \cap Bonuses = live[q] \cap Bonuses
  BY DEF FrozenBonusesAreLive
<1>1. /\ Len(snaps'[p]) = Len(snaps[p]) + 1
      /\ snaps'[p][Len(snaps[p]) + 1] = db.live[p]
      /\ \A o \in Periods \ {p} : snaps'[o] = snaps[o]
  BY HandInEffect
<1>2. Len(snaps[p]) \in Nat
  BY DEF TypeOK
<1>3. CASE q = p
  <2>1. LastPacket(q)' = db.live[p]
    BY <1>1, <1>2, <1>3 DEF LastPacket
  <2> QED
    BY <1>3, <2>1
<1>4. CASE q # p
  <2>1. LastPacket(q)' = LastPacket(q)
    BY <1>1, <1>4 DEF LastPacket
  <2> QED
    BY <1>4, <2>1 DEF FrozenBonusesAreLive
<1> QED
  BY <1>3, <1>4

\* Who takes no packet and moves no period into review leaves them so.
LEMMA BonusesKept ==
    ASSUME FrozenBonusesAreLive, UNCHANGED <<live, snaps>>,
           \A q \in Periods : status'[q] \in Frozen => status[q] \in Frozen
    PROVE  FrozenBonusesAreLive'
  BY DEF FrozenBonusesAreLive, LastPacket

\* What submission and resubmission do alike to history and to the items.
LEMMA HandInSteps ==
    ASSUME TypeOK, NEW p \in Periods, NEW u \in Users, NEW db,
           db.live[p] \in SUBSET Facts, db.events[p] \in Nat, HandIn(p, u, db),
           UNCHANGED <<live, finals>>,
           status[p] \in {"Open", "Returned"}, status'[p] = "InReview", ~HasPending(items[p])
    PROVE  /\ EntryStep /\ HandInStep /\ HistoryStep
           /\ \A q \in Periods : DOMAIN items[q] \subseteq DOMAIN items'[q]
           /\ \A q \in Periods \ {p} : items'[q] = items[q]
<1>1. /\ items' \in [Periods -> Seq(ReviewItems)]
      /\ Len(snaps'[p]) = Len(snaps[p]) + 1
      /\ Len(items'[p]) = Len(items[p]) + 1
      /\ \A q \in Periods \ {p} : snaps'[q] = snaps[q] /\ items'[q] = items[q]
  BY HandInEffect
<1>2. EntryStep
  BY DEF EntryStep
<1>3. HandInStep
  BY <1>1 DEF HandInStep
<1>4. HistoryStep
  BY HandInKeepsHistory DEF HistoryStep
<1>5. DOMAIN items[p] = 1 .. Len(items[p]) /\ DOMAIN items'[p] = 1 .. Len(items'[p])
      /\ Len(items[p]) \in Nat
  BY <1>1 DEF TypeOK
<1>6. DOMAIN items[p] \subseteq DOMAIN items'[p]
  BY <1>1, <1>5
<1> QED
  BY <1>1, <1>2, <1>3, <1>4, <1>6

\* What a connection about to commit a submission or a resubmission holds,
\* and what its snapshot then still says of the rows it locked.
LEMMA HandInReads ==
    ASSUME TxInv, NEW t \in Txns, pc[t] = "commit", req[t].op \in Retryable
    PROVE  /\ req[t].p \in Periods /\ req[t].u \in Users
           /\ branchLock = t
           /\ \A q \in Periods : q \in RowsOf(t) => rowLock[q] = t /\ RowCurrent(t, q)
           /\ \A q \in Periods : /\ view[t].status[q] \in Statuses
                                 /\ view[t].live[q] \in SUBSET Facts
                                 /\ view[t].events[q] \in Nat
           /\ req[t].p \in RowsOf(t)
           /\ status[req[t].p] = IF req[t].op = "submit" THEN "Open" ELSE "Returned"
           /\ items[req[t].p] = view[t].items[req[t].p]
           /\ view[t].live[req[t].p] \cap Bonuses = live[req[t].p] \cap Bonuses
<1>1. ConnectionFits(t) /\ req[t] \in Requests
  BY DEF TxInv, Connections
<1>2. req[t].p \in Periods /\ req[t].u \in Users
  BY <1>1, RequestFields
<1>3. Reading(t) /\ RowsLocked(t) /\ req[t].op \in BranchOps
  BY DEF Reading, RowsLocked, Retryable, BranchOps
<1>4. branchLock = t
  BY <1>1, <1>3 DEF ConnectionFits, LocksFit
<1>5. \A q \in Periods : q \in RowsOf(t) => rowLock[q] = t /\ q \notin missed[t]
  BY <1>1, <1>3 DEF ConnectionFits, LocksFit
<1>6. /\ \A q \in Periods : /\ view[t].status[q] \in Statuses
                            /\ view[t].live[q] \in SUBSET Facts
                            /\ view[t].events[q] \in Nat
      /\ view[t].status[req[t].p] = IF req[t].op = "submit" THEN "Open" ELSE "Returned"
      /\ \A q \in Periods \ missed[t] : RowCurrent(t, q)
  BY <1>1, <1>3 DEF ConnectionFits, SnapshotFits
<1>7. req[t].p \in RowsOf(t)
  BY <1>2, <1>6 DEF RowsOf
<1>8. RowCurrent(t, req[t].p) /\ view[t].status[req[t].p] # "None"
  BY <1>2, <1>5, <1>6, <1>7
<1> QED
  BY <1>2, <1>4, <1>5, <1>6, <1>7, <1>8 DEF RowCurrent

LEMMA SubmitCommitted ==
    ASSUME TxInv, NEW t \in Txns, CommitSubmit(t)
    PROVE  BranchInv' /\ StepFine /\ Committed(t)
<1> DEFINE p  == req[t].p
           u  == req[t].u
           db == view[t]
           D  == Drafts(db)
<1>1. /\ pc[t] = "commit" /\ req[t].op = "submit"
      /\ SubmitReading(p, u, db)
      /\ Finish(t, {p} \cup D)
  BY DEF CommitSubmit, SubmitUpdates
<1>2. /\ p \in Periods /\ u \in Users /\ branchLock = t
      /\ \A q \in Periods : q \in RowsOf(t) => rowLock[q] = t /\ RowCurrent(t, q)
      /\ \A q \in Periods : db.status[q] \in Statuses
      /\ db.live[p] \in SUBSET Facts /\ db.events[p] \in Nat
      /\ p \in RowsOf(t) /\ status[p] = "Open" /\ items[p] = db.items[p]
      /\ db.live[p] \cap Bonuses = live[p] \cap Bonuses
  BY <1>1, HandInReads DEF Retryable
<1>3. ConnectionFits(t) /\ BranchInv /\ Reading(t)
  BY <1>1 DEF TxInv, Reading, Retryable
<1>4. p \notin missed[t]
  BY <1>2, <1>3 DEF ConnectionFits, LocksFit
<1>5. /\ \A q \in Periods : db.status[q] = "None" => status[q] \in Unborn
      /\ \A q \in Periods : db.status[q] \in Settled => status[q] \in Settled
      /\ \A q \in Periods : db.status[q] # "None" => db.pos[q] = pos[q]
  BY <1>1, <1>3, <1>4 DEF ConnectionFits, SnapshotFits
<1>6. \A q \in Periods : q \in RowsOf(t) <=> db.status[q] \in {"Draft", "Open"} \cup UnderReview
  BY <1>1 DEF RowsOf
<1>7. \A q \in Periods : q \in RowsOf(t) => status[q] = db.status[q]
  BY <1>2, <1>6 DEF RowCurrent, UnderReview
<1> HIDE DEF p, u, db, D
<1>8. /\ \A q \in Periods : db.status[q] # "Returned"
      /\ \A q \in Periods \ {p} : db.status[q] # "InReview"
      /\ \A d \in D : db.pos[d] = db.pos[p] + 1
      /\ ~HasPending(items[p])
      /\ HandIn(p, u, db) /\ db.live[p] # {}
  BY <1>1, <1>2 DEF SubmitReading, SubmitAllowed, HandInAllowed, ReviewSlotFree, D
<1>9. \A q \in Periods : status[q] \notin UnderReview
  <2> SUFFICES ASSUME NEW q \in Periods, status[q] \in UnderReview PROVE FALSE
    OBVIOUS
  <2>1. db.status[q] \notin {"None"} \cup Settled
    BY <1>5 DEF Unborn, Settled, UnderReview
  <2>2. db.status[q] \in {"Draft", "Open"} \cup UnderReview
    BY <2>1, <1>2 DEF Statuses, Settled, UnderReview
  <2>3. db.status[q] \in UnderReview
    BY <2>2, <1>6, <1>7 DEF UnderReview
  <2> QED
    BY <2>3, <1>2, <1>7, <1>6, <1>8 DEF UnderReview
<1>10. \A d \in Periods : d \in D =>
          status[d] = "Draft" /\ rowLock[d] = t /\ pos[d] = pos[p] + 1
  <2> SUFFICES ASSUME NEW d \in Periods, d \in D
               PROVE  status[d] = "Draft" /\ rowLock[d] = t /\ pos[d] = pos[p] + 1
    OBVIOUS
  <2>1. db.status[d] = "Draft"
    BY DEF D, Drafts
  <2>2. db.status[p] = "Open"
    BY <1>2, <1>7
  <2> QED
    BY <2>1, <2>2, <1>2, <1>5, <1>6, <1>7, <1>8
<1>11. D \in SUBSET Periods
  BY DEF D, Drafts
<1>12. /\ status' = [q \in Periods |-> IF q = p THEN "InReview"
                                       ELSE IF q \in D THEN "Open" ELSE status[q]]
       /\ UNCHANGED <<pos, live, retItem, finals>>
  BY <1>1 DEF SubmitReading, entryVars, D
<1>13. \A q \in Periods : status'[q] = IF q = p THEN "InReview"
                                       ELSE IF q \in D THEN "Open" ELSE status[q]
  BY <1>12
<1>14. CoreInv /\ TypeOK /\ FrozenBonusesAreLive
  BY <1>3 DEF BranchInv, CoreInv
<1>15. CoreInv'
  <2>1. \A q \in Drafts(db) : status[q] = "Draft"
    BY <1>10, <1>11 DEF D
  <2> QED
    BY <2>1, <1>1, <1>2, <1>9, <1>14, SubmitKeepsCore
<1>16. FrozenBonusesAreLive'
  <2>1. \A q \in Periods \ {p} : status'[q] \in Frozen => status[q] \in Frozen
    BY <1>13 DEF Frozen
  <2> QED
    BY <2>1, <1>2, <1>8, <1>12, <1>14, HandInBonuses
<1>17. CalendarGapless' /\ PlacesDistinct' /\ PositionsStart'
  BY <1>2, <1>3, <1>10, <1>11, <1>12, <1>13, SubmitPlaces
<1>18. /\ EntryStep /\ HandInStep /\ HistoryStep
       /\ \A q \in Periods : DOMAIN items[q] \subseteq DOMAIN items'[q]
       /\ \A q \in Periods \ {p} : items'[q] = items[q]
  BY <1>2, <1>8, <1>12, <1>13, <1>14, HandInSteps
<1>19. LifecycleStep
  <2>1. \E content \in (SUBSET Facts) \ {{}} :
           [q \in Periods |-> LastPacket(q)]'
              = [[q \in Periods |-> LastPacket(q)] EXCEPT ![p] = content]
    BY <1>2, <1>8, <1>14, HandInMaps
  <2>2. D \in SUBSET {d \in Periods : status[d] = "Draft"}
    BY <1>10, <1>11
  <2>3. Lifecycle!Submit(p)
    BY <2>1, <2>2, <1>2, <1>9, <1>12 DEF Lifecycle!Submit, Lifecycle!Free, UnderReview
  <2> QED
    BY <2>3, <1>2 DEF LifecycleStep, Lifecycle!Next
<1>20. Effect(t, {p} \cup D)
  <2>1. \A q \in Periods \ ({p} \cup D) : items'[q] = items[q] /\ status'[q] = status[q]
    BY <1>13, <1>18
  <2>2. \A q \in {p} \cup D : rowLock[q] = t
    BY <1>2, <1>10, <1>11
  <2>3. \A q \in Periods : /\ status[q] # "None" => status'[q] # "None"
                           /\ status[q] \in Settled => status'[q] \in Settled
    BY <1>2, <1>10, <1>13 DEF Settled
  <2>4. \A q, o \in Periods :
           status[o] = "Open" /\ status[q] \in Unborn /\ status'[q] \notin Unborn =>
               o \in {p} \cup D
    BY <1>2, <1>14 DEF CoreInv, SlotsUnique
  <2> QED
    BY <2>1, <2>2, <2>3, <2>4, <1>2, <1>12, <1>18 DEF Effect
<1>21. {p} \cup D \in SUBSET Periods
  BY <1>2, <1>11
<1> QED
  BY <1>1, <1>15, <1>16, <1>17, <1>18, <1>19, <1>20, <1>21
     DEF BranchInv, StepFine, Committed

LEMMA ResubmitCommitted ==
    ASSUME TxInv, NEW t \in Txns, CommitResubmit(t)
    PROVE  BranchInv' /\ StepFine /\ Committed(t)
<1> DEFINE p  == req[t].p
           u  == req[t].u
           db == view[t]
<1>1. /\ pc[t] = "commit" /\ req[t].op = "resubmit"
      /\ ResubmitReading(p, u, db)
      /\ Finish(t, {p})
  BY DEF CommitResubmit
<1>2. /\ p \in Periods /\ u \in Users /\ branchLock = t /\ rowLock[p] = t
      /\ db.live[p] \in SUBSET Facts /\ db.events[p] \in Nat
      /\ status[p] = "Returned" /\ items[p] = db.items[p]
      /\ db.live[p] \cap Bonuses = live[p] \cap Bonuses
  BY <1>1, HandInReads DEF Retryable
<1> HIDE DEF p, u, db
<1>3. /\ ~HasPending(items[p]) /\ HandIn(p, u, db) /\ db.live[p] # {}
      /\ status' = [status EXCEPT ![p] = "InReview"]
      /\ UNCHANGED <<pos, live, finals>>
  BY <1>1, <1>2 DEF ResubmitReading, ResubmitAllowed, HandInAllowed, entryVars
<1>4. /\ BranchInv /\ CoreInv /\ TypeOK /\ FrozenBonusesAreLive
      /\ CalendarGapless /\ PlacesDistinct /\ PositionsStart
  BY DEF TxInv, BranchInv, CoreInv
<1>5. status'[p] = "InReview" /\ \A q \in Periods \ {p} : status'[q] = status[q]
  BY <1>2, <1>3, <1>4 DEF TypeOK
<1>6. CoreInv'
  BY <1>1, <1>2, <1>4, ResubmitKeepsCore
<1>7. FrozenBonusesAreLive'
  BY <1>2, <1>3, <1>4, <1>5, HandInBonuses
<1>8. CalendarGapless' /\ PlacesDistinct' /\ PositionsStart'
  <2>1. \A q \in Periods : /\ status'[q] \in Submitted <=> status[q] \in Submitted
                           /\ status'[q] = "Open" => status[q] = "Open"
                           /\ status'[q] \notin Inactive => status[q] \notin Inactive
    BY <1>2, <1>5 DEF Submitted, Frozen, Inactive
  <2> QED
    BY <2>1, <1>3, <1>4, PlacesKept
<1>9. /\ EntryStep /\ HandInStep /\ HistoryStep
      /\ \A q \in Periods : DOMAIN items[q] \subseteq DOMAIN items'[q]
      /\ \A q \in Periods \ {p} : items'[q] = items[q]
  BY <1>2, <1>3, <1>4, <1>5, HandInSteps
<1>10. LifecycleStep
  <2>1. \E content \in (SUBSET Facts) \ {{}} :
           [q \in Periods |-> LastPacket(q)]'
              = [[q \in Periods |-> LastPacket(q)] EXCEPT ![p] = content]
    BY <1>2, <1>3, <1>4, HandInMaps
  <2>2. Lifecycle!Resubmit(p)
    BY <2>1, <1>2, <1>3 DEF Lifecycle!Resubmit
  <2> QED
    BY <2>2, <1>2 DEF LifecycleStep, Lifecycle!Next
<1>11. Effect(t, {p})
  BY <1>2, <1>3, <1>5, <1>9 DEF Effect, Settled, Unborn
<1> QED
  BY <1>1, <1>2, <1>6, <1>7, <1>8, <1>9, <1>10, <1>11 DEF BranchInv, StepFine, Committed

\* What the branch and a connection about to commit can count on.
LEMMA CommitFacts ==
    ASSUME TxInv, NEW t \in Txns, pc[t] = "commit", req[t].op # "submit"
    PROVE  /\ CoreInv /\ TypeOK /\ FrozenBonusesAreLive
           /\ CalendarGapless /\ PlacesDistinct /\ PositionsStart
           /\ req[t] \in Requests /\ ConnectionFits(t)
           /\ req[t].p \in Periods => rowLock[req[t].p] = t
           /\ req[t].op \in BranchOps => branchLock = t
<1>1. ConnectionFits(t) /\ req[t] \in Requests /\ BranchInv
  BY DEF TxInv, Connections
<1>2. RowsLocked(t) /\ RowsOf(t) = {req[t].p}
  BY DEF RowsLocked, RowsOf
<1>3. req[t].p \in Periods => rowLock[req[t].p] = t
  BY <1>1, <1>2 DEF ConnectionFits, LocksFit
<1>4. req[t].op \in BranchOps => branchLock = t
  BY <1>1 DEF ConnectionFits, LocksFit
<1> QED
  BY <1>1, <1>3, <1>4 DEF BranchInv, CoreInv

\* Commits that leave snapshots, items and final lines alone keep history.
LEMMA QuietHistory ==
    ASSUME TypeOK, UNCHANGED <<snaps, items, finals>>
    PROVE  HandInStep /\ HistoryStep
<1>1. HandInStep
  BY DEF HandInStep
<1>2. HistoryStep
  BY NothingRewritten DEF HistoryStep
<1> QED
  BY <1>1, <1>2

LEMMA EntryCommitted ==
    ASSUME TxInv, NEW t \in Txns, CommitLine(t) \/ CommitBonus(t)
    PROVE  BranchInv' /\ StepFine /\ Committed(t)
<1> DEFINE p == req[t].p
<1>1. PICK kind, updated :
         /\ pc[t] = "commit" /\ req[t].op \in EntryOps
         /\ WriteFacts(p, kind) /\ Finish(t, updated)
         /\ \/ kind = Lines /\ updated = {}
            \/ kind = Bonuses /\ updated = {p}
  BY DEF CommitLine, CommitBonus, BonusUpdates, EntryOps
<1>2. /\ CoreInv /\ TypeOK /\ FrozenBonusesAreLive
      /\ CalendarGapless /\ PlacesDistinct /\ PositionsStart
      /\ req[t] \in Requests /\ ConnectionFits(t)
      /\ p \in Periods => rowLock[p] = t
  BY <1>1, CommitFacts DEF EntryOps
<1>3. p \in Periods
  BY <1>1, <1>2, RequestFields
<1>4. status[p] \in SourceEntryStatuses
  BY <1>1, <1>2 DEF ConnectionFits, EntryChecked
<1>5. kind \in SUBSET Facts /\ Facts = Lines \cup Bonuses /\ Lines \cap Bonuses = {}
  BY <1>1, WorkflowAssumption DEF Facts
<1> HIDE DEF p
<1>6. /\ UNCHANGED <<status, pos, roster, linked, snaps, items, retItem, finals>>
      /\ live' \in [Periods -> SUBSET Facts]
      /\ \A f \in Facts \ kind : f \in live'[p] <=> f \in live[p]
      /\ \A q \in Periods \ {p} : live'[q] = live[q]
  BY <1>1, <1>2, <1>3, <1>5, WriteEffect
<1>7. \A q \in Periods \ updated : live'[q] \cap Bonuses = live[q] \cap Bonuses
  <2> SUFFICES ASSUME NEW q \in Periods \ updated
               PROVE  live'[q] \cap Bonuses = live[q] \cap Bonuses
    OBVIOUS
  <2>1. CASE q # p
    BY <1>6, <2>1
  <2>2. CASE q = p
    <3>1. kind = Lines
      BY <1>1, <2>2
    <3>2. \A f \in Bonuses : f \in Facts \ kind
      BY <1>5, <3>1
    <3> QED
      BY <2>2, <3>2, <1>6
  <2> QED
    BY <2>1, <2>2
<1>8. CoreInv'
  BY <1>1, <1>2, <1>3, <1>5, WriteKeepsCore
<1>9. FrozenBonusesAreLive'
  <2>1. \A q \in Periods : status[q] \in Frozen => q # p
    BY <1>4 DEF SourceEntryStatuses, Frozen
  <2> QED
    BY <2>1, <1>2, <1>6 DEF FrozenBonusesAreLive, LastPacket
<1>10. CalendarGapless' /\ PlacesDistinct' /\ PositionsStart'
  BY <1>2, <1>6, PlacesKept
<1>11. EntryStep
  BY <1>3, <1>4, <1>6 DEF EntryStep
<1>12. HandInStep /\ HistoryStep /\ LifecycleStep
  BY <1>2, <1>6, QuietHistory DEF LifecycleStep
<1>13. Effect(t, updated) /\ updated \in SUBSET Periods
  BY <1>1, <1>2, <1>3, <1>6, <1>7 DEF Effect
<1> QED
  BY <1>1, <1>8, <1>9, <1>10, <1>11, <1>12, <1>13 DEF BranchInv, StepFine, Committed

\* A commit that changes the status of one period it has locked, and perhaps
\* its items, in one of the later moves of the lifecycle.
LEMMA MoveCommitted ==
    ASSUME CoreInv, FrozenBonusesAreLive, CalendarGapless, PlacesDistinct, PositionsStart,
           CoreInv', NEW t \in Txns, NEW p \in Periods, rowLock[p] = t, NEW to,
           status' = [status EXCEPT ![p] = to],
           \/ <<status[p], to>> \in Moves
           \/ branchLock = t /\ <<status[p], to>> \in {<<"InReview", "Approved">>,
                                    <<"InReview", "Returned">>, <<"Approved", "Locked">>},
           UNCHANGED <<pos, live, snaps>>,
           DOMAIN items[p] \subseteq DOMAIN items'[p],
           \A q \in Periods \ {p} : items'[q] = items[q]
    PROVE  BranchInv' /\ EntryStep /\ HandInStep /\ Effect(t, {p})
<1>1. status'[p] = to /\ \A q \in Periods \ {p} : status'[q] = status[q]
  BY DEF CoreInv, TypeOK
<1>2. \A q \in Periods : /\ status'[q] \in Submitted <=> status[q] \in Submitted
                         /\ status'[q] = "Open" => status[q] = "Open"
                         /\ status'[q] \notin Inactive => status[q] \notin Inactive
                         /\ status'[q] \in Frozen => status[q] \in Frozen
                         /\ status[q] # "None" => status'[q] # "None"
                         /\ status[q] \in Settled => status'[q] \in Settled
                         /\ status[q] \in Unborn => status'[q] \in Unborn
                         /\ branchLock # t /\ status'[q] # status[q] =>
                               <<status[q], status'[q]>> \in Moves
  BY <1>1 DEF Moves, Submitted, Frozen, Inactive, Settled, Unborn
<1>3. CalendarGapless' /\ PlacesDistinct' /\ PositionsStart'
  BY <1>2, PlacesKept
<1>4. FrozenBonusesAreLive'
  BY <1>2, BonusesKept
<1>5. EntryStep /\ HandInStep
  BY DEF EntryStep, HandInStep
<1>6. Effect(t, {p})
  BY <1>1, <1>2 DEF Effect
<1> QED
  BY <1>3, <1>4, <1>5, <1>6 DEF BranchInv

LEMMA PatchCommitted ==
    ASSUME TxInv, NEW t \in Txns, CommitPatch(t)
    PROVE  BranchInv' /\ StepFine /\ Committed(t)
<1> DEFINE p    == req[t].p
           from == req[t].from
           to   == req[t].to
<1>1. /\ pc[t] = "commit" /\ req[t].op = "patch"
      /\ Patch(p, from, to) /\ Finish(t, {p})
  BY DEF CommitPatch
<1>2. /\ CoreInv /\ TypeOK /\ FrozenBonusesAreLive
      /\ CalendarGapless /\ PlacesDistinct /\ PositionsStart
      /\ req[t] \in Requests
      /\ p \in Periods => rowLock[p] = t
  BY <1>1, CommitFacts
<1>3. p \in Periods /\ <<from, to>> \in Moves
  BY <1>1, <1>2, RequestFields
<1>4. rowLock[p] = t
  BY <1>2, <1>3
<1> HIDE DEF p, from, to
<1>5. /\ status[p] = from /\ status' = [status EXCEPT ![p] = to]
      /\ UNCHANGED <<pos, live, snaps, items, finals>>
  BY <1>1 DEF Patch, entryVars, reviewVars
<1>6. CoreInv'
  BY <1>1, <1>2, <1>3, PatchKeepsCore DEF Moves
<1>7. BranchInv' /\ EntryStep /\ HandInStep /\ Effect(t, {p})
  BY <1>2, <1>3, <1>4, <1>5, <1>6, MoveCommitted
<1>8. HistoryStep
  BY <1>2, <1>5, QuietHistory
<1>9. LifecycleStep
  <2>1. Lifecycle!Move(p, from, to)
    BY <1>3, <1>5, MoveMaps
  <2>2. Lifecycle!Cancel(p) \/ Lifecycle!Archive(p)
    BY <2>1, <1>3 DEF Moves, Lifecycle!Cancel, Lifecycle!Archive
  <2> QED
    BY <2>2, <1>3 DEF LifecycleStep, Lifecycle!Next
<1> QED
  BY <1>1, <1>3, <1>7, <1>8, <1>9 DEF StepFine, Committed

LEMMA DecideCommitted ==
    ASSUME TxInv, NEW t \in Txns, CommitDecide(t)
    PROVE  BranchInv' /\ StepFine /\ Committed(t)
<1> DEFINE p == req[t].p
           i == req[t].i
           u == req[t].u
           v == req[t].verdict
<1>1. /\ pc[t] = "commit" /\ req[t].op = "decide"
      /\ IF v = "Approved" THEN Approve(p, i, u) ELSE SendBack(p, i, u, v)
      /\ Finish(t, {p})
  BY DEF CommitDecide
<1>2. /\ CoreInv /\ TypeOK /\ FrozenBonusesAreLive
      /\ CalendarGapless /\ PlacesDistinct /\ PositionsStart
      /\ req[t] \in Requests /\ ConnectionFits(t)
      /\ p \in Periods => rowLock[p] = t
      /\ branchLock = t
  BY <1>1, CommitFacts DEF BranchOps
<1>3. p \in Periods /\ u \in Users /\ v \in {"Approved", "Rejected", "EditRequested"}
  BY <1>1, <1>2, RequestFields
<1>4. i \in DOMAIN items[p]
  BY <1>1, <1>2 DEF ConnectionFits, ItemKnown
<1> HIDE DEF p, i, u, v
<1>5. PICK to :
         /\ Decide(p, i, u, v) /\ status' = [status EXCEPT ![p] = to]
         /\ \/ v = "Approved" /\ to = "Approved" /\ Approve(p, i, u)
            \/ v \in {"Rejected", "EditRequested"} /\ to = "Returned" /\ SendBack(p, i, u, v)
  BY <1>1, <1>3 DEF Approve, SendBack
<1>6. CoreInv'
  BY <1>2, <1>3, <1>4, <1>5, ApproveKeepsCore, SendBackKeepsCore
<1>7. /\ status[p] = "InReview"
      /\ UNCHANGED <<pos, live, snaps, finals>>
  BY <1>5 DEF Decide, DecideAllowed, entryVars
<1>8. v \in ItemStatuses
  BY <1>3 DEF ItemStatuses
<1>9. /\ DOMAIN items[p] \subseteq DOMAIN items'[p]
      /\ \A q \in Periods \ {p} : items'[q] = items[q]
  <2>1. /\ items' \in [Periods -> Seq(ReviewItems)]
        /\ Len(items'[p]) = Len(items[p])
        /\ \A q \in Periods \ {p} : items'[q] = items[q]
    BY <1>2, <1>3, <1>4, <1>5, <1>8, DecideEffect
  <2>2. DOMAIN items[p] = 1 .. Len(items[p]) /\ DOMAIN items'[p] = 1 .. Len(items'[p])
    BY <2>1, <1>2, <1>3 DEF TypeOK
  <2> QED
    BY <2>1, <2>2
<1>10. BranchInv' /\ EntryStep /\ HandInStep /\ Effect(t, {p})
  BY <1>2, <1>3, <1>5, <1>6, <1>7, <1>9, MoveCommitted
<1>11. HistoryStep
  BY <1>2, <1>3, <1>4, <1>5, <1>8, DecisionKeepsHistory DEF HistoryStep
<1>12. LifecycleStep
  <2>1. Lifecycle!Move(p, "InReview", to)
    BY <1>3, <1>5, <1>7, MoveMaps
  <2>2. Lifecycle!Approve(p) \/ Lifecycle!Return(p)
    BY <2>1, <1>5 DEF Lifecycle!Approve, Lifecycle!Return
  <2> QED
    BY <2>2, <1>3 DEF LifecycleStep, Lifecycle!Next
<1> QED
  BY <1>1, <1>3, <1>10, <1>11, <1>12 DEF StepFine, Committed

LEMMA FinalizeCommitted ==
    ASSUME TxInv, NEW t \in Txns, CommitFinalize(t)
    PROVE  BranchInv' /\ StepFine /\ Committed(t)
<1> DEFINE p == req[t].p
<1>1. /\ pc[t] = "commit" /\ req[t].op = "finalize"
      /\ FinalizePeriod(p) /\ Finish(t, {p})
  BY DEF CommitFinalize
<1>2. /\ CoreInv /\ TypeOK /\ FrozenBonusesAreLive
      /\ CalendarGapless /\ PlacesDistinct /\ PositionsStart
      /\ req[t] \in Requests
      /\ p \in Periods => rowLock[p] = t
      /\ branchLock = t
  BY <1>1, CommitFacts DEF BranchOps
<1>3. p \in Periods
  BY <1>1, <1>2, RequestFields
<1> HIDE DEF p
<1>4. /\ status[p] = "Approved" /\ status' = [status EXCEPT ![p] = "Locked"]
      /\ UNCHANGED <<pos, live, snaps, items>>
  BY <1>1 DEF FinalizePeriod, FinalizeAllowed, entryVars, reviewVars
<1>5. CoreInv'
  BY <1>1, <1>2, <1>3, FinalizeKeepsCore
<1>6. BranchInv' /\ EntryStep /\ HandInStep /\ Effect(t, {p})
  BY <1>2, <1>3, <1>4, <1>5, MoveCommitted
<1>7. HistoryStep
  BY <1>1, <1>2, <1>3, FinalizeKeepsHistory DEF HistoryStep
<1>8. LifecycleStep
  BY <1>1, <1>2, <1>3, FinalizeMaps DEF LifecycleStep, Lifecycle!Next
<1> QED
  BY <1>1, <1>3, <1>6, <1>7, <1>8 DEF StepFine, Committed

LEMMA CreateCommitted ==
    ASSUME TxInv, NEW t \in Txns, CommitCreate(t)
    PROVE  BranchInv' /\ StepFine /\ Committed(t)
<1> DEFINE mode == req[t].mode
           n    == req[t].n
<1>1. pc[t] = "insert" /\ Finish(t, {})
  BY DEF CommitCreate
<1>2. PICK p \in Periods : InsertPeriod(p, mode, n)
  BY DEF CommitCreate
<1>3. /\ CoreInv /\ TypeOK /\ FrozenBonusesAreLive /\ BranchInv
      /\ req[t] \in Requests /\ ConnectionFits(t)
  BY DEF TxInv, BranchInv, CoreInv, Connections
<1>4. req[t].op = "create" /\ branchLock = t
  BY <1>1, <1>3 DEF ConnectionFits, StepFits, LocksFit, BranchOps
<1>5. mode \in {"OPEN_CREATION", "PREPARED_CREATION"} /\ n \in Nat \ {0}
  <2>1. mode \in {"OPEN_CREATION", "PREPARED_CREATION"} /\ n \in 1 .. MaxPosition
    BY <1>3, <1>4, RequestFields
  <2> QED
    BY <2>1, WorkflowAssumption
<1>6. /\ \A q \in Periods : status[q] # "Draft"
      /\ \A q \in Periods : status[q] \notin Inactive => pos[q] < n
      /\ mode = "OPEN_CREATION" =>
            (\A q \in Periods : status[q] # "Open") /\ IsNextPosition(n)
  BY <1>1, <1>3 DEF ConnectionFits, PlaceChecked
<1> HIDE DEF mode, n
<1>7. PICK to \in {"Draft", "Open"} :
         to = Target(mode) /\ (to = "Open" => mode = "OPEN_CREATION")
  BY <1>5 DEF Target
<1>8. /\ status[p] = "None"
      /\ status' = [status EXCEPT ![p] = to] /\ pos' = [pos EXCEPT ![p] = n]
      /\ UNCHANGED <<live, snaps, items, finals>>
  BY <1>2, <1>7 DEF InsertPeriod, entryVars, reviewVars
<1>9. /\ status'[p] = to
      /\ \A q \in Periods \ {p} : status'[q] = status[q] /\ pos'[q] = pos[q]
  BY <1>3, <1>8 DEF TypeOK
<1>10. CoreInv'
  BY <1>2, <1>3, <1>5, <1>6, <1>7, InsertKeepsCore
<1>11. FrozenBonusesAreLive'
  <2>1. \A q \in Periods : status'[q] \in Frozen => status[q] \in Frozen
    BY <1>9 DEF Frozen
  <2> QED
    BY <2>1, <1>3, <1>8, BonusesKept
<1>12. CalendarGapless' /\ PlacesDistinct' /\ PositionsStart'
  BY <1>3, <1>5, <1>6, <1>7, <1>8, InsertPlaces
<1>13. EntryStep /\ HandInStep /\ HistoryStep
  BY <1>3, <1>8, QuietHistory DEF EntryStep
<1>14. LifecycleStep
  <2>1. Lifecycle!Create(p)
    BY <1>6, <1>7, <1>8 DEF Lifecycle!Create, Lifecycle!Free, LastPacket
  <2> QED
    BY <2>1 DEF LifecycleStep, Lifecycle!Next
<1>15. Effect(t, {})
  BY <1>4, <1>6, <1>7, <1>8, <1>9 DEF Effect, Settled, Unborn
<1> QED
  BY <1>1, <1>10, <1>11, <1>12, <1>13, <1>14, <1>15 DEF BranchInv, StepFine, Committed

-----------------------------------------------------------------------------
(* Arrivals, locks and checks                                              *)

\* A step that leaves the branch alone.
LEMMA QuietStep ==
    ASSUME BranchInv, UNCHANGED vars
    PROVE  BranchInv' /\ StepFine
<1>1. UNCHANGED <<status, pos, roster, live, events, linked, snaps, items, retItem, finals>>
  BY DEF vars
<1> USE DEF BranchInv, CoreInv
<1>2. TypeOK' /\ SlotsUnique' /\ RosterFrozen' /\ PacketsNonEmpty' /\ ApprovedByOther'
  BY <1>1 DEF TypeOK, SlotsUnique, RosterFrozen, PacketsNonEmpty, ApprovedByOther
<1>3. ReviewBinding' /\ PaidIsApproved' /\ FrozenBonusesAreLive'
  BY <1>1 DEF ReviewBinding, ItemsBound, PaidIsApproved, FrozenBonusesAreLive, LastPacket
<1>4. CalendarGapless' /\ PlacesDistinct' /\ PositionsStart'
  BY <1>1 DEF CalendarGapless, PlacesDistinct, PositionsStart
<1>5. HandInStep /\ HistoryStep
  BY <1>1, QuietHistory
<1>6. EntryStep /\ LifecycleStep
  BY <1>1 DEF EntryStep, LifecycleStep
<1> QED
  BY <1>2, <1>3, <1>4, <1>5, <1>6 DEF StepFine

\* A refusal or a crash takes nothing but the connection's own locks.
LEMMA QuietFinish ==
    ASSUME TxInv, NEW t \in Txns, Finish(t, {}), UNCHANGED vars
    PROVE  TxInv' /\ StepFine
<1>1. Effect(t, {})
  BY DEF Effect, vars
<1>2. Connections' /\ \A o \in Txns : ConnectionFits(o)'
  BY <1>1, CommitFits DEF TxInv
<1> QED
  BY <1>2, QuietStep DEF TxInv

\* The rows as they are read now are current.
LEMMA FreshSnapshot ==
    ASSUME TypeOK
    PROVE  /\ Database # NoView
           /\ \A q \in Periods : /\ Database.status[q] \in Statuses
                                 /\ Database.live[q] \in SUBSET Facts
                                 /\ Database.events[q] \in Nat
           /\ Database.status = status /\ Database.pos = pos /\ Database.live = live
           /\ Database.items = items
<1>1. "pos" \in DOMAIN Database /\ "pos" \notin DOMAIN NoView
  BY DEF Database, NoView
<1> QED
  BY <1>1 DEF Database, TypeOK

\* A request that arrives finds its connection without locks and history.
LEMMA BeginEffect ==
    ASSUME TxInv, NEW t \in Txns, NEW r \in Requests, NEW step \in {"branch", "rows"},
           NEW shown, Begin(t, r, step, shown)
    PROVE  /\ Connections' /\ UNCHANGED vars
           /\ pc'[t] = step /\ req'[t] = r /\ view'[t] = shown /\ missed'[t] = {}
           /\ branchLock' # t /\ \A p \in Periods : rowLock'[p] # t
           /\ \A o \in Txns \ {t} : ConnectionFits(o)'
<1>1. Connections /\ \A o \in Txns : ConnectionFits(o)
  BY DEF TxInv
<1>2. /\ pc[t] = "idle"
      /\ req'  = [req EXCEPT ![t] = r]
      /\ pc'   = [pc EXCEPT ![t] = step]
      /\ view' = [view EXCEPT ![t] = shown]
      /\ UNCHANGED <<vars, missed, attempt, branchLock, rowLock>>
  BY DEF Begin
<1>3. /\ req[t] = NoRequest /\ missed[t] = {}
      /\ branchLock # t /\ \A p \in Periods : rowLock[p] # t
  <2>1. req[t] = NoRequest
    BY <1>1, <1>2 DEF ConnectionFits, StepFits
  <2>2. ~Reading(t)
    BY <2>1 DEF Reading, NoRequest, Retryable
  <2> QED
    BY <1>1, <1>2, <2>1, <2>2 DEF ConnectionFits, SnapshotFits, LocksFit
<1>4. /\ pc'[t] = step /\ req'[t] = r /\ view'[t] = shown
      /\ \A o \in Txns \ {t} : pc'[o] = pc[o] /\ req'[o] = req[o] /\ view'[o] = view[o]
  BY <1>1, <1>2 DEF Connections
<1>5. Connections'
  BY <1>1, <1>2 DEF Connections, Steps
<1>6. \A o \in Txns \ {t} : ConnectionFits(o)'
  BY <1>1, <1>2, <1>4, Undisturbed
<1> QED
  BY <1>2, <1>3, <1>4, <1>5, <1>6

\* A request that reads no snapshot needs nothing but its kind.
LEMMA PlainBegin ==
    ASSUME TxInv, NEW t \in Txns, NEW r \in Requests, NEW step \in {"branch", "rows"},
           NEW shown, Begin(t, r, step, shown), r # NoRequest,
           r.op \notin Retryable, r.op \in BranchOps <=> step = "branch",
           r.op = "decide" => r.i \in DOMAIN items[r.p]
    PROVE  TxInv' /\ StepFine
<1>1. /\ Connections' /\ UNCHANGED vars
      /\ pc'[t] = step /\ req'[t] = r /\ missed'[t] = {}
      /\ branchLock' # t /\ \A p \in Periods : rowLock'[p] # t
      /\ \A o \in Txns \ {t} : ConnectionFits(o)'
  BY BeginEffect
<1>2. items' = items
  BY <1>1 DEF vars
<1>3. StepFits(t)' /\ LocksFit(t)'
  BY <1>1 DEF StepFits, LocksFit, RowsLocked, BranchOps
<1>4. SnapshotFits(t)'
  BY <1>1 DEF SnapshotFits, Reading
<1>5. EntryChecked(t)' /\ ItemKnown(t)' /\ PlaceChecked(t)'
  BY <1>1, <1>2 DEF EntryChecked, ItemKnown, PlaceChecked
<1> QED
  BY <1>1, <1>3, <1>4, <1>5, QuietStep DEF TxInv, ConnectionFits

\* A submission or resubmission that arrives takes its snapshot.
LEMMA SnapshotBegin ==
    ASSUME TxInv, NEW t \in Txns, NEW r \in HandInRequests,
           Begin(t, r, "branch", Database),
           status[r.p] = IF r.op = "submit" THEN "Open" ELSE "Returned"
    PROVE  TxInv' /\ StepFine
<1>0. r \in Requests /\ r.op \in Retryable /\ r.p \in Periods /\ r # NoRequest
  BY DEF Requests, HandInRequests, NoRequest, Retryable
<1>1. /\ Connections' /\ UNCHANGED vars
      /\ pc'[t] = "branch" /\ req'[t] = r /\ view'[t] = Database /\ missed'[t] = {}
      /\ branchLock' # t /\ \A p \in Periods : rowLock'[p] # t
      /\ \A o \in Txns \ {t} : ConnectionFits(o)'
  BY <1>0, BeginEffect
<1>2. UNCHANGED <<status, pos, live, items>> /\ TypeOK
  BY <1>1 DEF vars, TxInv, BranchInv, CoreInv
<1>3. StepFits(t)' /\ LocksFit(t)'
  BY <1>0, <1>1 DEF StepFits, LocksFit, RowsLocked, BranchOps, Retryable
<1>4. Reading(t)'
  BY <1>0, <1>1 DEF Reading
<1>5. SnapshotFits(t)'
  <2>1. \A q \in Periods : RowCurrent(t, q)'
    BY <1>1, <1>2, FreshSnapshot DEF RowCurrent
  <2> QED
    BY <1>0, <1>1, <1>2, <1>4, <2>1, FreshSnapshot DEF SnapshotFits, Unborn
<1>6. EntryChecked(t)' /\ ItemKnown(t)' /\ PlaceChecked(t)'
  BY <1>0, <1>1 DEF EntryChecked, ItemKnown, PlaceChecked, Retryable
<1> QED
  BY <1>1, <1>3, <1>5, <1>6, QuietStep DEF TxInv, ConnectionFits

LEMMA ArriveKeeps ==
    ASSUME TxInv, NEW t \in Txns, Arrive(t)
    PROVE  TxInv' /\ StepFine
<1>1. status \in [Periods -> Statuses] /\ items \in [Periods -> Seq(ReviewItems)]
  BY DEF TxInv, BranchInv, CoreInv, TypeOK
<1>2. ASSUME NEW p \in Periods, NEW u \in Users, BeginSubmit(t, p, u) \/ BeginResubmit(t, p, u)
      PROVE  TxInv' /\ StepFine
  <2>1. PICK op \in Retryable :
           /\ Begin(t, [op |-> op, p |-> p, u |-> u], "branch", Database)
           /\ status[p] = IF op = "submit" THEN "Open" ELSE "Returned"
    BY <1>2 DEF BeginSubmit, BeginResubmit, Retryable
  <2>2. [op |-> op, p |-> p, u |-> u] \in HandInRequests
    BY DEF HandInRequests
  <2> QED
    BY <2>1, <2>2, SnapshotBegin
<1>3. ASSUME NEW p \in Periods, BeginLine(t, p) \/ BeginBonus(t, p) \/ BeginFinalize(t, p)
      PROVE  TxInv' /\ StepFine
  <2>1. PICK op \in EntryOps \cup {"finalize"}, step \in {"branch", "rows"} :
           /\ Begin(t, [op |-> op, p |-> p], step, NoView)
           /\ op = "finalize" <=> step = "branch"
    BY <1>3 DEF BeginLine, BeginBonus, BeginFinalize, EntryOps
  <2> DEFINE r == [op |-> op, p |-> p]
  <2>2. /\ r \in Requests /\ r # NoRequest /\ r.op \notin Retryable
        /\ r.op \in BranchOps <=> step = "branch"
        /\ r.op # "decide"
    BY <2>1 DEF Requests, PeriodRequests, NoRequest, EntryOps, Retryable, BranchOps
  <2> HIDE DEF r
  <2>3. Begin(t, r, step, NoView)
    BY <2>1 DEF r
  <2> QED
    BY <2>2, <2>3, PlainBegin
<1>4. ASSUME NEW p \in Periods, NEW to \in {"Cancelled", "Archived"}, BeginPatch(t, p, to)
      PROVE  TxInv' /\ StepFine
  <2> DEFINE r == [op |-> "patch", p |-> p, from |-> status[p], to |-> to]
  <2>1. <<status[p], to>> \in Moves /\ Begin(t, r, "rows", NoView)
    BY <1>4 DEF BeginPatch, Moves
  <2>2. /\ r \in Requests /\ r # NoRequest /\ r.op = "patch"
    <3>1. r \in [op : {"patch"}, p : Periods, from : Statuses, to : Statuses]
      BY <1>1 DEF Statuses
    <3> QED
      BY <3>1, <2>1 DEF Requests, PatchRequests, NoRequest
  <2> HIDE DEF r
  <2> QED
    BY <2>1, <2>2, PlainBegin DEF Retryable, BranchOps
<1>5. ASSUME NEW p \in Periods, NEW i \in DOMAIN items[p], NEW u \in Users,
             NEW verdict \in {"Approved", "Rejected", "EditRequested"},
             BeginDecide(t, p, i, u, verdict)
      PROVE  TxInv' /\ StepFine
  <2> DEFINE r == [op |-> "decide", p |-> p, i |-> i, u |-> u, verdict |-> verdict]
  <2>1. Begin(t, r, "branch", NoView)
    BY <1>5 DEF BeginDecide
  <2>2. i \in Nat
    BY <1>1
  <2>3. r \in Requests /\ r # NoRequest /\ r.op = "decide" /\ r.i \in DOMAIN items[r.p]
    BY <2>2 DEF Requests, DecideRequests, NoRequest
  <2> HIDE DEF r
  <2> QED
    BY <2>1, <2>3, PlainBegin DEF Retryable, BranchOps
<1>6. ASSUME NEW mode \in {"OPEN_CREATION", "PREPARED_CREATION"}, BeginCreate(t, mode)
      PROVE  TxInv' /\ StepFine
  <2>1. PICK n \in 1 .. MaxPosition :
           Begin(t, [op |-> "create", mode |-> mode, n |-> n], "branch", [status |-> status])
    BY <1>6 DEF BeginCreate
  <2> DEFINE r == [op |-> "create", mode |-> mode, n |-> n]
  <2>2. r \in Requests /\ r # NoRequest /\ r.op = "create"
    BY DEF Requests, CreateRequests, NoRequest
  <2> HIDE DEF r
  <2>3. Begin(t, r, "branch", [status |-> status])
    BY <2>1 DEF r
  <2> QED
    BY <2>2, <2>3, PlainBegin DEF Retryable, BranchOps
<1> QED
  BY <1>2, <1>3, <1>4, <1>5, <1>6 DEF Arrive

\* The branch lock is taken when it is free.
LEMMA AcquireKeeps ==
    ASSUME TxInv, NEW t \in Txns, AcquireBranch(t)
    PROVE  TxInv' /\ StepFine
<1>1. Connections /\ BranchInv /\ \A o \in Txns : ConnectionFits(o)
  BY DEF TxInv
<1>2. /\ pc[t] = "branch" /\ branchLock = NoTx /\ branchLock' = t
      /\ pc' = [pc EXCEPT ![t] = IF req[t].op = "create" THEN "check" ELSE "rows"]
      /\ UNCHANGED <<vars, req, view, missed, attempt, rowLock>>
  BY DEF AcquireBranch
<1>3. /\ pc'[t] = IF req[t].op = "create" THEN "check" ELSE "rows"
      /\ \A o \in Txns \ {t} : pc'[o] = pc[o]
  BY <1>1, <1>2 DEF Connections
<1>4. Connections'
  BY <1>1, <1>2 DEF Connections, Steps
<1>5. \A o \in Txns \ {t} : ConnectionFits(o)'
  BY <1>1, <1>2, <1>3, Undisturbed, TransactionAssumption
<1>6. ConnectionFits(t) /\ req[t].op \in BranchOps /\ UNCHANGED <<status, pos, live, items>>
  BY <1>1, <1>2 DEF ConnectionFits, StepFits, vars
<1>7. req[t] # NoRequest
  BY <1>2, <1>6 DEF ConnectionFits, StepFits
<1>8. StepFits(t)'
  BY <1>2, <1>3, <1>6, <1>7 DEF ConnectionFits, StepFits
<1>9. LocksFit(t)'
  BY <1>2, <1>3, <1>6 DEF ConnectionFits, LocksFit, RowsLocked, EntryOps, BranchOps
<1>10. SnapshotFits(t)'
  <2>1. Reading(t)' <=> Reading(t)
    BY <1>2, <1>3 DEF Reading
  <2> QED
    BY <1>2, <1>3, <1>6, <2>1 DEF ConnectionFits, SnapshotFits, RowCurrent
<1>11. EntryChecked(t)' /\ ItemKnown(t)' /\ PlaceChecked(t)'
  BY <1>2, <1>3, <1>6 DEF ConnectionFits, EntryChecked, ItemKnown, PlaceChecked
<1> QED
  BY <1>1, <1>2, <1>4, <1>5, <1>8, <1>9, <1>10, <1>11, QuietStep DEF TxInv, ConnectionFits

\* A row is locked when it is free and was not updated since the snapshot;
\* the last one opens the way to the check or the commit.
LEMMA LockRowKeeps ==
    ASSUME TxInv, NEW t \in Txns, NEW p \in Periods, LockRow(t, p)
    PROVE  TxInv' /\ StepFine
<1>1. Connections /\ BranchInv /\ \A o \in Txns : ConnectionFits(o)
  BY DEF TxInv
<1>2. /\ pc[t] = "rows" /\ p \in RowsToLock(t) /\ rowLock[p] = NoTx /\ p \notin missed[t]
      /\ rowLock' = [rowLock EXCEPT ![p] = t]
      /\ pc' = [pc EXCEPT ![t] = IF RowsToLock(t) # {p} THEN "rows"
                                 ELSE IF req[t].op \in {"line", "bonus"} THEN "check"
                                 ELSE "commit"]
      /\ UNCHANGED <<vars, req, view, missed, attempt, branchLock>>
  BY DEF LockRow, IsNextRow, RowLockable
<1>3. /\ pc'[t] = IF RowsToLock(t) # {p} THEN "rows"
                  ELSE IF req[t].op \in EntryOps THEN "check" ELSE "commit"
      /\ \A o \in Txns \ {t} : pc'[o] = pc[o]
      /\ rowLock'[p] = t /\ \A q \in Periods \ {p} : rowLock'[q] = rowLock[q]
  BY <1>1, <1>2 DEF Connections, EntryOps
<1>4. Connections'
  BY <1>1, <1>2 DEF Connections, Steps
<1>5. \A o \in Txns \ {t} : ConnectionFits(o)'
  <2> SUFFICES ASSUME NEW o \in Txns \ {t} PROVE ConnectionFits(o)'
    OBVIOUS
  <2>1. \A q \in Periods : rowLock'[q] = o <=> rowLock[q] = o
    BY <1>2, <1>3, TransactionAssumption
  <2> QED
    BY <1>1, <1>2, <1>3, <2>1, Undisturbed
<1>6. ConnectionFits(t) /\ UNCHANGED <<status, pos, live, items>>
  BY <1>1, <1>2 DEF vars
<1>7. StepFits(t)'
  BY <1>2, <1>3, <1>6 DEF ConnectionFits, StepFits
<1>8. LocksFit(t)'
  <2> USE DEF LocksFit
  <2>1. LocksFit(t)
    BY <1>6 DEF ConnectionFits
  <2>2. \A q \in Periods : rowLock'[q] = t => q \notin missed'[t]
    BY <2>1, <1>2, <1>3
  <2>3. RowsLocked(t)' => \A q \in Periods : q \in RowsOf(t)' => rowLock'[q] = t
    <3> SUFFICES ASSUME RowsLocked(t)', NEW q \in Periods, q \in RowsOf(t)'
                 PROVE  rowLock'[q] = t
      OBVIOUS
    <3>1. RowsToLock(t) = {p}
      BY <1>3 DEF RowsLocked
    <3>2. q \in RowsOf(t)
      BY <1>2 DEF RowsOf
    <3>3. rowLock[q] = t \/ q = p
      BY <3>1, <3>2 DEF RowsToLock
    <3> QED
      BY <3>3, <1>3
  <2>4. pc'[t] \in {"rows", "check", "commit"} /\ req[t].op # "create"
    BY <1>2, <1>3, <1>6 DEF ConnectionFits, StepFits
  <2>5. req[t].op \in BranchOps => branchLock = t
    BY <2>1, <1>2
  <2> QED
    BY <2>2, <2>3, <2>4, <2>5, <1>2
<1>9. SnapshotFits(t)'
  <2>1. Reading(t)' <=> Reading(t)
    BY <1>2, <1>3 DEF Reading
  <2> QED
    BY <1>2, <1>3, <1>6, <2>1 DEF ConnectionFits, SnapshotFits, RowCurrent
<1>10. EntryChecked(t)' /\ ItemKnown(t)' /\ PlaceChecked(t)'
  BY <1>2, <1>3, <1>6 DEF ConnectionFits, EntryChecked, ItemKnown, PlaceChecked
<1> QED
  BY <1>1, <1>2, <1>4, <1>5, <1>7, <1>8, <1>9, <1>10, QuietStep DEF TxInv, ConnectionFits

\* A row that was updated since the snapshot ends the attempt: the locks go,
\* and the request starts over or is given up.
LEMMA ConflictKeeps ==
    ASSUME TxInv, NEW t \in Txns, NEW p \in Periods, Conflict(t, p)
    PROVE  TxInv' /\ StepFine
<1>1. Connections /\ BranchInv /\ (\A o \in Txns : ConnectionFits(o)) /\ ConnectionFits(t)
  BY DEF TxInv
<1>2. /\ pc[t] = "rows" /\ p \in missed[t]
      /\ branchLock' = IF branchLock = t THEN NoTx ELSE branchLock
      /\ rowLock' = [q \in Periods |-> IF rowLock[q] = t THEN NoTx ELSE rowLock[q]]
      /\ missed' = [missed EXCEPT ![t] = {}]
      /\ view'   = [view EXCEPT ![t] = NoView]
      /\ UNCHANGED vars
  BY DEF Conflict, RollBack, ReleaseLocks
<1>3. \/ /\ attempt[t] < MaxAttempts
         /\ pc' = [pc EXCEPT ![t] = "again"]
         /\ attempt' = [attempt EXCEPT ![t] = attempt[t] + 1]
         /\ UNCHANGED req
      \/ /\ pc' = [pc EXCEPT ![t] = "idle"]
         /\ attempt' = [attempt EXCEPT ![t] = 1]
         /\ req' = [req EXCEPT ![t] = NoRequest]
  BY DEF Conflict, AttemptLeft
<1>4. /\ view'[t] = NoView /\ missed'[t] = {}
      /\ branchLock' # t /\ \A q \in Periods : rowLock'[q] # t
      /\ \/ pc'[t] = "again" /\ req'[t] = req[t]
         \/ pc'[t] = "idle" /\ req'[t] = NoRequest
  BY <1>1, <1>2, <1>3, TransactionAssumption DEF Connections
<1>5. Connections'
  <2>1. missed' \in [Txns -> SUBSET Periods] /\ view' = [o \in Txns |-> view'[o]]
    BY <1>1, <1>2 DEF Connections
  <2>2. branchLock' \in Txns \cup {NoTx} /\ rowLock' \in [Periods -> Txns \cup {NoTx}]
    BY <1>1, <1>2 DEF Connections
  <2>3. pc' \in [Txns -> Steps] /\ req' \in [Txns -> Requests]
    BY <1>1, <1>3 DEF Connections, Steps, Requests
  <2>4. attempt' \in [Txns -> 1 .. MaxAttempts]
    BY <1>1, <1>3, TransactionAssumption DEF Connections
  <2> QED
    BY <2>1, <2>2, <2>3, <2>4 DEF Connections
<1>6. \A o \in Txns \ {t} : ConnectionFits(o)'
  <2> SUFFICES ASSUME NEW o \in Txns \ {t} PROVE ConnectionFits(o)'
    OBVIOUS
  <2>1. pc'[o] = pc[o] /\ req'[o] = req[o] /\ view'[o] = view[o] /\ missed'[o] = missed[o]
    BY <1>1, <1>2, <1>3 DEF Connections
  <2>2. /\ branchLock' = o <=> branchLock = o
        /\ \A q \in Periods : rowLock'[q] = o <=> rowLock[q] = o
    BY <1>2, TransactionAssumption
  <2> QED
    BY <1>1, <1>2, <2>1, <2>2, Undisturbed
<1>7. ConnectionFits(t)'
  <2>1. CASE pc'[t] = "idle" /\ req'[t] = NoRequest
    <3>1. req'[t].op = "none"
      BY <2>1 DEF NoRequest
    <3> QED
      BY <1>4, <2>1, <3>1 DEF ConnectionFits, StepFits, LocksFit, SnapshotFits, EntryChecked,
                ItemKnown, PlaceChecked, RowsLocked, Reading, BranchOps, EntryOps, Retryable
  <2>2. CASE pc'[t] = "again" /\ req'[t] = req[t]
    <3>1. req[t].op \in Retryable
      BY <1>1, <1>2 DEF ConnectionFits, SnapshotFits, Reading
    <3>2. req[t] # NoRequest
      BY <1>1, <1>2 DEF ConnectionFits, StepFits
    <3> QED
      BY <1>4, <2>2, <3>1, <3>2 DEF ConnectionFits, StepFits, LocksFit, SnapshotFits,
                EntryChecked, ItemKnown, PlaceChecked, RowsLocked, Reading, Retryable
  <2> QED
    BY <1>4, <2>1, <2>2
<1> QED
  BY <1>1, <1>2, <1>5, <1>6, <1>7, QuietStep DEF TxInv

\* The next attempt reads the rows as they are now.
LEMMA StartOverKeeps ==
    ASSUME TxInv, NEW t \in Txns, StartOver(t)
    PROVE  TxInv' /\ StepFine
<1>1. Connections /\ BranchInv /\ (\A o \in Txns : ConnectionFits(o)) /\ ConnectionFits(t)
  BY DEF TxInv
<1>2. /\ pc[t] = "again"
      /\ status[req[t].p] = IF req[t].op = "submit" THEN "Open" ELSE "Returned"
      /\ pc'   = [pc EXCEPT ![t] = "branch"]
      /\ view' = [view EXCEPT ![t] = Database]
      /\ UNCHANGED <<vars, req, missed, attempt, branchLock, rowLock>>
  BY DEF StartOver
<1>3. UNCHANGED <<status, pos, live, items>> /\ TypeOK
  BY <1>1, <1>2 DEF vars, BranchInv, CoreInv
<1>4. /\ pc'[t] = "branch" /\ view'[t] = Database
      /\ \A o \in Txns \ {t} : pc'[o] = pc[o] /\ view'[o] = view[o]
  BY <1>1, <1>2 DEF Connections
<1>5. Connections'
  BY <1>1, <1>2 DEF Connections, Steps
<1>6. \A o \in Txns \ {t} : ConnectionFits(o)'
  BY <1>1, <1>2, <1>4, Undisturbed
<1>7. /\ req[t].op \in Retryable /\ req[t] # NoRequest /\ req[t].p \in Periods
      /\ missed[t] = {}
      /\ branchLock # t /\ \A q \in Periods : rowLock[q] # t
  <2>1. req[t].op \in Retryable /\ req[t] # NoRequest
    BY <1>1, <1>2 DEF ConnectionFits, StepFits
  <2>2. req[t].p \in Periods
    BY <1>1, <2>1, RequestFields DEF Connections
  <2>3. missed[t] = {}
    BY <1>1, <1>2 DEF ConnectionFits, SnapshotFits, Reading
  <2>4. branchLock # t /\ \A q \in Periods : rowLock[q] # t
    BY <1>1, <1>2 DEF ConnectionFits, LocksFit
  <2> QED
    BY <2>1, <2>2, <2>3, <2>4
<1>8. StepFits(t)' /\ LocksFit(t)'
  BY <1>2, <1>4, <1>7 DEF StepFits, LocksFit, RowsLocked, BranchOps, Retryable
<1>9. SnapshotFits(t)'
  <2>1. \A q \in Periods : RowCurrent(t, q)'
    BY <1>3, <1>4, FreshSnapshot DEF RowCurrent
  <2>2. Reading(t)'
    BY <1>2, <1>4, <1>7 DEF Reading
  <2> QED
    BY <1>2, <1>3, <1>4, <1>7, <2>1, <2>2, FreshSnapshot DEF SnapshotFits, Unborn
<1>10. EntryChecked(t)' /\ ItemKnown(t)' /\ PlaceChecked(t)'
  BY <1>2, <1>4, <1>7 DEF EntryChecked, ItemKnown, PlaceChecked, Retryable
<1> QED
  BY <1>1, <1>2, <1>5, <1>6, <1>8, <1>9, <1>10, QuietStep DEF TxInv, ConnectionFits

\* The status that a source mutation checks is the one it writes under: it
\* has the row locked already.
LEMMA CheckEntryKeeps ==
    ASSUME TxInv, NEW t \in Txns, CheckEntry(t)
    PROVE  TxInv' /\ StepFine
<1>1. Connections /\ BranchInv /\ (\A o \in Txns : ConnectionFits(o)) /\ ConnectionFits(t)
  BY DEF TxInv
<1>2. /\ pc[t] = "check" /\ req[t].op \in EntryOps
      /\ status[req[t].p] \in SourceEntryStatuses
      /\ pc' = [pc EXCEPT ![t] = "commit"]
      /\ UNCHANGED <<vars, req, view, missed, attempt, branchLock, rowLock>>
  BY DEF CheckEntry, Editable, EntryOps
<1>3. UNCHANGED <<status, pos, live, items>>
  BY <1>2 DEF vars
<1>4. pc'[t] = "commit" /\ \A o \in Txns \ {t} : pc'[o] = pc[o]
  BY <1>1, <1>2 DEF Connections
<1>5. Connections'
  BY <1>1, <1>2 DEF Connections, Steps
<1>6. \A o \in Txns \ {t} : ConnectionFits(o)'
  BY <1>1, <1>2, <1>4, Undisturbed
<1>7. req[t] # NoRequest
  BY <1>1, <1>2 DEF ConnectionFits, StepFits
<1>8. StepFits(t)'
  BY <1>2, <1>4, <1>7 DEF StepFits, EntryOps
<1>9. LocksFit(t)'
  <2>1. RowsOf(t)' = RowsOf(t) /\ req[t].op \notin BranchOps /\ req[t].op # "create"
    BY <1>2 DEF RowsOf, EntryOps, BranchOps
  <2>2. LocksFit(t) /\ RowsLocked(t)
    BY <1>1, <1>2 DEF ConnectionFits, RowsLocked
  <2>3. \A p \in Periods : p \in RowsOf(t) => rowLock[p] = t
    BY <2>2 DEF LocksFit
  <2>4. \A p \in Periods : rowLock[p] = t => p \notin missed[t]
    BY <2>2 DEF LocksFit
  <2>5. UNCHANGED <<req, missed, branchLock, rowLock>>
    BY <1>2
  <2> QED
    BY <1>4, <2>1, <2>3, <2>4, <2>5 DEF LocksFit
<1>10. SnapshotFits(t)'
  <2>1. ~Reading(t) /\ ~Reading(t)'
    BY <1>2 DEF Reading, EntryOps, Retryable
  <2> QED
    BY <1>1, <1>2, <1>4, <2>1 DEF ConnectionFits, SnapshotFits
<1>11. EntryChecked(t)' /\ ItemKnown(t)' /\ PlaceChecked(t)'
  BY <1>2, <1>3, <1>4 DEF EntryChecked, ItemKnown, PlaceChecked, EntryOps
<1> QED
  BY <1>1, <1>2, <1>5, <1>6, <1>8, <1>9, <1>10, <1>11, QuietStep DEF TxInv, ConnectionFits

\* The place that a creation checks under the branch lock is free, and the
\* next one.
LEMMA CheckCandidateKeeps ==
    ASSUME TxInv, NEW t \in Txns, CheckCandidate(t)
    PROVE  TxInv' /\ StepFine
<1>1. Connections /\ BranchInv /\ (\A o \in Txns : ConnectionFits(o)) /\ ConnectionFits(t)
  BY DEF TxInv
<1>2. /\ pc[t] = "check" /\ req[t].op = "create"
      /\ SlotFree(req[t].mode) /\ IsNextPosition(req[t].n)
      /\ pc' = [pc EXCEPT ![t] = "insert"]
      /\ UNCHANGED <<vars, req, view, missed, attempt, branchLock, rowLock>>
  BY DEF CheckCandidate, CandidateCurrent
<1>3. UNCHANGED <<status, pos, live, items>> /\ TypeOK
  BY <1>1, <1>2 DEF vars, BranchInv, CoreInv
<1>4. pc'[t] = "insert" /\ \A o \in Txns \ {t} : pc'[o] = pc[o]
  BY <1>1, <1>2 DEF Connections
<1>5. Connections'
  BY <1>1, <1>2 DEF Connections, Steps
<1>6. \A o \in Txns \ {t} : ConnectionFits(o)'
  BY <1>1, <1>2, <1>4, Undisturbed
<1>7. req[t] # NoRequest /\ req[t].op \in BranchOps
  BY <1>1, <1>2 DEF ConnectionFits, StepFits, BranchOps
<1>8. StepFits(t)'
  BY <1>2, <1>4, <1>7 DEF StepFits
<1>9. LocksFit(t)'
  <2>1. branchLock = t
    BY <1>1, <1>2, <1>7 DEF ConnectionFits, LocksFit
  <2> QED
    BY <1>1, <1>2, <1>4, <2>1 DEF ConnectionFits, LocksFit, RowsLocked
<1>10. SnapshotFits(t)'
  <2>1. ~Reading(t) /\ ~Reading(t)'
    BY <1>2 DEF Reading, Retryable
  <2> QED
    BY <1>1, <1>2, <1>4, <2>1 DEF ConnectionFits, SnapshotFits
<1>11. EntryChecked(t)' /\ ItemKnown(t)'
  BY <1>2, <1>4 DEF EntryChecked, ItemKnown
<1>12. PlaceChecked(t)'
  <2>1. \A q \in Periods : status[q] # "Draft"
    BY <1>2 DEF SlotFree
  <2>2. \A q \in Periods : status[q] \notin Inactive => pos[q] < req[t].n
    BY <1>2 DEF IsNextPosition
  <2>3. req[t].mode = "OPEN_CREATION" => \A q \in Periods : status[q] # "Open"
    BY <1>2 DEF SlotFree
  <2> QED
    BY <1>2, <1>3, <2>1, <2>2, <2>3 DEF PlaceChecked, IsNextPosition
<1> QED
  BY <1>1, <1>2, <1>5, <1>6, <1>8, <1>9, <1>10, <1>11, <1>12, QuietStep
     DEF TxInv, ConnectionFits

-----------------------------------------------------------------------------
(* Every step                                                              *)

\* A commit that does to the branch what it may do keeps the invariant.
LEMMA CommittedKeeps ==
    ASSUME TxInv, NEW t \in Txns, BranchInv' /\ StepFine /\ Committed(t)
    PROVE  TxInv' /\ StepFine
<1>1. PICK updated \in SUBSET Periods : Finish(t, updated) /\ Effect(t, updated)
  BY DEF Committed
<1>2. Connections' /\ \A o \in Txns : ConnectionFits(o)'
  BY <1>1, CommitFits DEF TxInv
<1> QED
  BY <1>2 DEF TxInv

LEMMA WorkKeeps ==
    ASSUME TxInv, NEW t \in Txns, Work(t)
    PROVE  TxInv' /\ StepFine
<1>1. CASE StartOver(t)
  BY <1>1, StartOverKeeps
<1>2. CASE CheckCandidate(t)
  BY <1>2, CheckCandidateKeeps
<1>3. CASE CheckEntry(t)
  BY <1>3, CheckEntryKeeps
<1>4. CASE Refuse(t)
  BY <1>4, QuietFinish DEF Refuse
<1>5. CASE CommitSubmit(t)
  BY <1>5, SubmitCommitted, CommittedKeeps
<1>6. CASE CommitResubmit(t)
  BY <1>6, ResubmitCommitted, CommittedKeeps
<1>7. CASE CommitLine(t) \/ CommitBonus(t)
  BY <1>7, EntryCommitted, CommittedKeeps
<1>8. CASE CommitPatch(t)
  BY <1>8, PatchCommitted, CommittedKeeps
<1>9. CASE CommitDecide(t)
  BY <1>9, DecideCommitted, CommittedKeeps
<1>10. CASE CommitFinalize(t)
  BY <1>10, FinalizeCommitted, CommittedKeeps
<1>11. CASE CommitCreate(t)
  BY <1>11, CreateCommitted, CommittedKeeps
<1> QED
  BY <1>1, <1>2, <1>3, <1>4, <1>5, <1>6, <1>7, <1>8, <1>9, <1>10, <1>11 DEF Work

\* Every step of every connection keeps the invariant, and does what its
\* kind of step may do.
LEMMA StepKeeps == TxInv /\ [TxNext]_allVars => TxInv' /\ StepFine
<1> SUFFICES ASSUME TxInv, [TxNext]_allVars PROVE TxInv' /\ StepFine
  OBVIOUS
<1>1. ASSUME NEW t \in Txns, Arrive(t) PROVE TxInv' /\ StepFine
  BY <1>1, ArriveKeeps
<1>2. ASSUME NEW t \in Txns, TakeLock(t) PROVE TxInv' /\ StepFine
  BY <1>2, AcquireKeeps, LockRowKeeps, ConflictKeeps DEF TakeLock
<1>3. ASSUME NEW t \in Txns, Work(t) PROVE TxInv' /\ StepFine
  BY <1>3, WorkKeeps
<1>4. ASSUME NEW t \in Txns, Crash(t) PROVE TxInv' /\ StepFine
  BY <1>4, QuietFinish DEF Crash
<1>5. CASE UNCHANGED allVars
  <2>1. UNCHANGED <<vars, pc, req, view, missed, attempt, branchLock, rowLock>>
    BY <1>5 DEF allVars, txVars
  <2>2. Connections' /\ \A o \in Txns : ConnectionFits(o)'
    <3>1. Connections'
      BY <2>1 DEF TxInv, Connections
    <3>2. \A o \in Txns : ConnectionFits(o)'
      BY <2>1, Undisturbed DEF TxInv
    <3> QED
      BY <3>1, <3>2
  <2> QED
    BY <2>1, <2>2, QuietStep DEF TxInv
<1> QED
  BY <1>1, <1>2, <1>3, <1>4, <1>5 DEF TxNext

LEMMA InitTxInv == TxInit => TxInv
<1> SUFFICES ASSUME TxInit PROVE TxInv
  OBVIOUS
<1>1. /\ Init
      /\ pc = [t \in Txns |-> "idle"] /\ req = [t \in Txns |-> NoRequest]
      /\ view = [t \in Txns |-> NoView] /\ missed = [t \in Txns |-> {}]
      /\ attempt = [t \in Txns |-> 1]
      /\ branchLock = NoTx /\ rowLock = [p \in Periods |-> NoTx]
  BY DEF TxInit
<1>2. IInv /\ \A p \in Periods : status[p] = "None"
  BY <1>1, InitIInv DEF Init
<1>3. BranchInv
  <2>1. CoreInv
    BY <1>2 DEF IInv
  <2> QED
    BY <1>2, <2>1 DEF BranchInv, FrozenBonusesAreLive, Frozen, CalendarGapless, PlacesDistinct,
                      PositionsStart, Submitted, Inactive
<1>4. Connections
  BY <1>1, TransactionAssumption DEF Connections, Steps, Requests
<1>5. ASSUME NEW t \in Txns PROVE ConnectionFits(t)
  BY <1>1, IdleFits, TransactionAssumption
<1> QED
  BY <1>3, <1>4, <1>5 DEF TxInv

\* The workflow keeps its inductive invariant however its transactions are
\* interleaved, retried and broken off.
THEOREM TxInvariance == TxSpec => []TxInv
  BY InitTxInv, StepKeeps, PTL DEF TxSpec

-----------------------------------------------------------------------------
(* What the transactions keep                                              *)

\* Locks are held by connections that are past acquiring them, an idle
\* connection serves no request, and no request is tried too often.
THEOREM ConnectionsAreTyped == TxSpec => []TxTypeOK
<1>1. TxInv => TxTypeOK
  <2> SUFFICES ASSUME TxInv PROVE TxTypeOK
    OBVIOUS
  <2>1. TypeOK /\ pc \in [Txns -> Steps] /\ attempt \in [Txns -> 1 .. MaxAttempts]
    BY DEF TxInv, BranchInv, CoreInv, Connections
  <2>2. \A t \in Txns : StepFits(t) /\ LocksFit(t) /\ SnapshotFits(t)
    BY DEF TxInv, ConnectionFits
  <2> QED
    BY <2>1, <2>2 DEF TxTypeOK, Steps, StepFits, LocksFit, SnapshotFits
<1> QED
  BY <1>1, TxInvariance, PTL

\* No bonus is lost between the snapshot a submission reads and its commit:
\* the bonuses of a period in review, approved or paid are those of its last
\* snapshot.
THEOREM BonusesAreFrozen == TxSpec => []FrozenBonusesAreLive
<1>1. TxInv => FrozenBonusesAreLive
  BY DEF TxInv, BranchInv
<1> QED
  BY <1>1, TxInvariance, PTL

\* One period at a time is open, prepared, in review or returned, although
\* every transition read the others before it waited for its locks.
THEOREM SlotsStayUnique == TxSpec => []SlotsUnique
<1>1. TxInv => SlotsUnique
  BY DEF TxInv, BranchInv, CoreInv
<1> QED
  BY <1>1, TxInvariance, PTL

\* The calendar of the branch has no gap and no place taken twice, although
\* a creation chose its place before it had the branch lock.
THEOREM CalendarStaysGapless == TxSpec => []CalendarGapless
<1>1. TxInv => CalendarGapless
  BY DEF TxInv, BranchInv
<1> QED
  BY <1>1, TxInvariance, PTL

\* A period in review has the pending item of its last snapshot, and an
\* approved one its approval.
THEOREM ReviewStaysBound == TxSpec => []ReviewBinding
<1>1. TxInv => ReviewBinding
  BY DEF TxInv, BranchInv, CoreInv
<1> QED
  BY <1>1, TxInvariance, PTL

\* What is paid is what was approved.
THEOREM PaidStaysApproved == TxSpec => []PaidIsApproved
<1>1. TxInv => PaidIsApproved
  BY DEF TxInv, BranchInv, CoreInv
<1> QED
  BY <1>1, TxInvariance, PTL

\* Without self-approval somebody else approved the packet that is paid.
THEOREM TwoPersonsStand == TxSpec => []FourEyes
<1>1. TxInv => FourEyes
  BY CoreFourEyes DEF TxInv, BranchInv
<1> QED
  BY <1>1, TxInvariance, PTL

\* The source entries of a period change only while it may be edited: the
\* row lock keeps a transition out between the recheck and the write.
THEOREM EntryIsGuarded == TxSpec => EntryOnlyWhileEditable
<1>1. TxInv /\ [TxNext]_allVars =>
         [\A p \in Periods : live'[p] # live[p] =>
             status[p] \in SourceEntryStatuses /\ status'[p] = status[p]]_allVars
  BY StepKeeps DEF StepFine, EntryStep
<1> QED
  BY <1>1, TxInvariance, PTL DEF TxSpec, EntryOnlyWhileEditable

\* A retried submission repeats nothing: whoever adds a snapshot adds one,
\* to a period whose review is not pending.
THEOREM OneHandInAtATime == TxSpec => OneHandInPerReview
<1>1. TxInv /\ [TxNext]_allVars =>
         [\A p \in Periods : snaps'[p] # snaps[p] =>
             /\ status[p] \in {"Open", "Returned"} /\ status'[p] = "InReview"
             /\ Len(snaps'[p]) = Len(snaps[p]) + 1
             /\ ~HasPending(items[p])]_allVars
  BY StepKeeps DEF StepFine, HandInStep
<1> QED
  BY <1>1, TxInvariance, PTL DEF TxSpec, OneHandInPerReview

\* Snapshots, decided items and final lines are never rewritten.
THEOREM HistoryStaysImmutable == TxSpec => HistoryImmutable
<1>1. TxInv /\ [TxNext]_allVars =>
         [\A p \in Periods :
            /\ Len(snaps'[p]) >= Len(snaps[p])
            /\ \A r \in DOMAIN snaps[p] : snaps'[p][r] = snaps[p][r]
            /\ \A i \in DOMAIN items[p] :
                  items[p][i].status # "Pending" => items'[p][i] = items[p][i]
            /\ finals[p] # {} => finals'[p] = finals[p]]_vars
  BY StepKeeps DEF StepFine, HistoryStep, HistoryKept
<1> QED
  BY <1>1, TxInvariance, PTL DEF TxSpec, HistoryImmutable

\* The interleaved handlers implement the lifecycle: every commit is one of
\* its steps, and everything else a transaction does is invisible to it.
THEOREM TransactionsImplementLifecycle == TxSpec => LifecycleImplemented
<1>1. TxInit => Lifecycle!Init
  BY InitMaps DEF TxInit
<1>2. TxInv /\ [TxNext]_allVars => [Lifecycle!Next]_(Lifecycle!lifecycle)
  <2> SUFFICES ASSUME TxInv, [TxNext]_allVars PROVE [Lifecycle!Next]_(Lifecycle!lifecycle)
    OBVIOUS
  <2>1. CASE UNCHANGED <<status, snaps, finals>>
    BY <2>1 DEF Lifecycle!lifecycle, LastPacket
  <2>2. CASE Lifecycle!Next
    BY <2>2
  <2> QED
    BY <2>1, <2>2, StepKeeps DEF StepFine, LifecycleStep
<1> QED
  BY <1>1, <1>2, TxInvariance, PTL DEF TxSpec, LifecycleImplemented, Lifecycle!Spec
-----------------------------------------------------------------------------
(***************************************************************************)
(* PeriodCreation: creation with candidate keys implements the workflow of *)
(* the branch, and a repeated creation is recognized.                      *)
(*                                                                         *)
(* What has to be shown is that the place a key names is one the workflow  *)
(* would take: there always is a place after the last period that is not   *)
(* cancelled, and it is the only one.                                      *)
(***************************************************************************)

Alive(q) == status[q] \notin Inactive

PositionsWithin == \A q \in Periods : Alive(q) => pos[q] <= MaxPosition

PlaceInv == CalendarInv /\ PositionsWithin

KeysOffered == [mode : Modes, slots : SUBSET (Periods \X Statuses),
                start : 1 .. MaxPosition, timeline : Nat]
SlotsRead   == [mode : Modes, slots : SUBSET (Periods \X Statuses)]

\* What clients hold are keys that a preview can have offered.
KeyInv ==
    /\ timeline \in Nat
    /\ reading \in [Clients -> SlotsRead \cup {NoReading}]
    /\ held \in [Clients -> KeysOffered \cup {NoKey}]

\* The inductive invariant.
CreationInv == PlaceInv /\ KeyInv

-----------------------------------------------------------------------------
(* The next place                                                          *)

\* A bounded set of places has a last one.
LEMMA LastPlace ==
    ASSUME NEW S \in SUBSET (1 .. MaxPosition), S # {}
    PROVE  \E m \in S : \A n \in S : n <= m
<1> DEFINE T == {MaxPosition - n : n \in S}
           less == OpToRel(<, Nat)
<1>1. T \in SUBSET Nat /\ T # {}
  <2>1. \A n \in S : MaxPosition - n \in Nat
    BY WorkflowAssumption
  <2> QED
    BY <2>1
<1>2. IsWellFoundedOn(less, Nat)
  BY NatLessThanWellFounded
<1>3. \A x, y \in Nat : <<y, x>> \in less <=> y < x
  BY DEF OpToRel
<1> HIDE DEF less, T
<1>4. PICK x \in T : \A y \in T : <<y, x>> \notin less
  BY <1>1, <1>2, WFMin
<1>5. PICK m \in S : x = MaxPosition - m
  BY DEF T
<1>6. ASSUME NEW n \in S
      PROVE  n <= m
  <2>1. MaxPosition - n \in T
    BY DEF T
  <2>2. ~(MaxPosition - n < x)
    BY <1>1, <1>3, <1>4, <2>1
  <2> QED
    BY <1>5, <2>2, WorkflowAssumption
<1> QED
  BY <1>6

\* One place, at most, follows the last period.
LEMMA OneNextPlace ==
    ASSUME TypeOK, NEW m \in Nat \ {0}, NEW n \in Nat \ {0},
           IsNextPosition(m), IsNextPosition(n)
    PROVE  m = n
<1>1. \A q \in Periods : pos[q] \in Nat
  BY DEF TypeOK
<1> QED
  BY <1>1 DEF IsNextPosition

\* Whatever was created, submitted and cancelled, there is a place that follows
\* the last period.
LEMMA NextPlaceExists ==
    ASSUME PlaceInv
    PROVE  \E n \in 1 .. MaxPosition + 1 : IsNextPosition(n)
<1> USE DEF PlaceInv, CalendarInv
<1>1. \A q \in Periods : Alive(q) => pos[q] \in 1 .. MaxPosition
  BY WorkflowAssumption DEF PositionsStart, PositionsWithin, Alive, Inactive
<1>2. ASSUME NEW p \in Periods, Alive(p), \A q \in Periods \ {p} : Alive(q) => pos[q] <= pos[p]
      PROVE  \E n \in 1 .. MaxPosition + 1 : IsNextPosition(n)
  <2>1. pos[p] + 1 \in 1 .. MaxPosition + 1 /\ pos[p] = (pos[p] + 1) - 1
    BY <1>1, <1>2, WorkflowAssumption
  <2>2. \A q \in Periods : Alive(q) => pos[q] < pos[p] + 1
    BY <1>1, <1>2
  <2>3. IsNextPosition(pos[p] + 1)
    BY <1>2, <2>1, <2>2 DEF IsNextPosition, Alive
  <2> QED
    BY <2>1, <2>3
<1>3. CASE \E p \in Periods : Alive(p)
  <2> DEFINE S == {pos[q] : q \in {r \in Periods : Alive(r)}}
  <2>1. S \in SUBSET (1 .. MaxPosition) /\ S # {}
    BY <1>1, <1>3
  <2>2. PICK m \in S : \A n \in S : n <= m
    BY <2>1, LastPlace
  <2>3. PICK p \in Periods : Alive(p) /\ pos[p] = m
    BY <2>2
  <2>4. \A q \in Periods : Alive(q) => pos[q] <= pos[p]
    BY <2>2, <2>3
  <2> QED
    BY <1>2, <2>3, <2>4
<1>4. CASE \A p \in Periods : ~Alive(p)
  <2>1. 1 \in 1 .. MaxPosition + 1 /\ IsNextPosition(1)
    BY <1>4, WorkflowAssumption DEF IsNextPosition, Alive
  <2> QED
    BY <2>1
<1> QED
  BY <1>3, <1>4

\* So the place that a preview offers is the one a creation takes.
LEMMA NextStartIsNext ==
    ASSUME PlaceInv
    PROVE  /\ NextStart \in 1 .. MaxPosition + 1
           /\ IsNextPosition(NextStart)
           /\ \A n \in Nat \ {0} : IsNextPosition(n) => n = NextStart
<1>1. \E n \in 1 .. MaxPosition + 1 : IsNextPosition(n)
  BY NextPlaceExists
<1>2. NextStart \in 1 .. MaxPosition + 1 /\ IsNextPosition(NextStart)
  BY <1>1 DEF NextStart
<1>3. NextStart \in Nat \ {0}
  BY <1>2, WorkflowAssumption
<1> QED
  BY <1>2, <1>3, OneNextPlace DEF PlaceInv, CalendarInv, IInv, CoreInv

-----------------------------------------------------------------------------
(* The invariant                                                           *)

\* Creation aside, no handler brings a period to life or moves it.
LEMMA OperateMovesNothing ==
    ASSUME TypeOK, Operate
    PROVE  pos' = pos /\ \A q \in Periods : Alive(q)' => Alive(q)
<1>1. PICK p \in Periods :
         \/ ChangeLines(p)
         \/ ChangeBonuses(p)
         \/ \E u \in Users :
               \/ Submit(p, u)
               \/ Resubmit(p, u)
               \/ \E i \in DOMAIN items[p] :
                     \/ Approve(p, i, u)
                     \/ SendBack(p, i, u, "Rejected")
                     \/ SendBack(p, i, u, "EditRequested")
         \/ FinalizePeriod(p)
         \/ Cancel(p)
         \/ Archive(p)
  BY DEF Operate
<1>2. CASE ChangeLines(p) \/ ChangeBonuses(p)
  BY <1>2 DEF ChangeLines, ChangeBonuses, WriteFacts, Alive
<1>3. CASE \E u \in Users : Submit(p, u)
  BY <1>3 DEF Submit, SubmitReading, SubmitAllowed, Drafts, Database, Alive, Inactive, TypeOK
<1>4. CASE \E u \in Users : Resubmit(p, u)
  BY <1>4 DEF Resubmit, ResubmitReading, ResubmitAllowed, Database, Alive, Inactive, TypeOK
<1>5. CASE \E u \in Users, i \in DOMAIN items[p] : Approve(p, i, u)
  BY <1>5 DEF Approve, Decide, DecideAllowed, Alive, Inactive, TypeOK
<1>6. CASE \E u \in Users, i \in DOMAIN items[p], v \in {"Rejected", "EditRequested"} :
             SendBack(p, i, u, v)
  BY <1>6 DEF SendBack, Decide, DecideAllowed, Alive, Inactive, TypeOK
<1>7. CASE FinalizePeriod(p)
  BY <1>7 DEF FinalizePeriod, FinalizeAllowed, Alive, Inactive, TypeOK
<1>8. CASE Cancel(p) \/ Archive(p)
  BY <1>8 DEF Cancel, Archive, Patch, Alive, Inactive, TypeOK
<1> QED
  BY <1>1, <1>2, <1>3, <1>4, <1>5, <1>6, <1>7, <1>8

LEMMA NextPlaceInv == PlaceInv /\ [Next]_vars => PlaceInv'
<1> SUFFICES ASSUME PlaceInv, [Next]_vars PROVE PlaceInv'
  OBVIOUS
<1>1. CalendarInv'
  BY NextCalendarInv DEF PlaceInv
<1>2. TypeOK
  BY DEF PlaceInv, CalendarInv, IInv, CoreInv
<1>3. CASE Create
  <2>1. PICK p \in Periods, mode \in {"OPEN_CREATION", "PREPARED_CREATION"}, n \in 1 .. MaxPosition :
           InsertPeriod(p, mode, n)
    BY <1>3 DEF Create, CreateFromCandidate
  <2>2. /\ \A q \in Periods \ {p} : status'[q] = status[q] /\ pos'[q] = pos[q]
        /\ pos'[p] <= MaxPosition
    BY <1>2, <2>1, WorkflowAssumption DEF InsertPeriod, TypeOK
  <2>3. PositionsWithin'
    BY <2>2 DEF PlaceInv, PositionsWithin, Alive
  <2> QED
    BY <1>1, <2>3 DEF PlaceInv
<1>4. CASE Operate
  <2>1. pos' = pos /\ \A q \in Periods : Alive(q)' => Alive(q)
    BY <1>2, <1>4, OperateMovesNothing
  <2>2. PositionsWithin'
    BY <2>1 DEF PlaceInv, PositionsWithin
  <2> QED
    BY <1>1, <2>2 DEF PlaceInv
<1>5. CASE UNCHANGED vars
  BY <1>1, <1>5 DEF PlaceInv, PositionsWithin, Alive, vars
<1> QED
  BY <1>3, <1>4, <1>5 DEF Next

LEMMA InitPlaceInv == Init => PlaceInv
<1> SUFFICES ASSUME Init PROVE PlaceInv
  OBVIOUS
<1>1. CalendarInv
  BY InitIInv DEF Init, CalendarInv, CalendarGapless, DraftFollowsOpen, PositionsStart, Submitted,
                  Frozen, Inactive
<1> QED
  BY <1>1 DEF Init, PlaceInv, PositionsWithin, Alive, Inactive

\* A creation with a current key is one the workflow would make.
LEMMA CreateWithKeyMaps ==
    ASSUME CreationInv, NEW k \in KeysOffered, CreateWithKey(k)
    PROVE  Create
<1>1. /\ k.mode \in {"OPEN_CREATION", "PREPARED_CREATION"} /\ k.start \in 1 .. MaxPosition
      /\ Current(k) /\ SlotFree(k.mode)
  BY DEF KeysOffered, Modes, CreateWithKey, Result
<1>2. PICK p \in Periods : InsertPeriod(p, k.mode, k.start)
  BY DEF CreateWithKey
<1>3. IsNextPosition(k.start)
  BY <1>1, NextStartIsNext DEF Current, CreationInv
<1> QED
  BY <1>1, <1>2, <1>3 DEF Create, CreateFromCandidate

\* Every step of the guarded creation is a step of the workflow, or none.
LEMMA CreationNextMaps ==
    ASSUME CreationInv, [CreationNext]_creationVars
    PROVE  [Next]_vars
<1>1. CASE \E c \in Clients : held[c] # NoKey /\ CreateWithKey(held[c])
  BY <1>1, CreateWithKeyMaps DEF CreationInv, KeyInv, Next
<1>2. CASE ~ \E c \in Clients : held[c] # NoKey /\ CreateWithKey(held[c])
  BY <1>2 DEF CreationNext, PreviewSlots, PreviewCandidate, AnswerOnly, ChangeTimeline, Next, vars,
              creationVars
<1> QED
  BY <1>1, <1>2

LEMMA KeysKept ==
    ASSUME CreationInv, [CreationNext]_creationVars
    PROVE  KeyInv'
<1> USE DEF CreationInv
<1>1. ASSUME NEW c \in Clients, NEW mode \in Modes, PreviewSlots(c, mode)
      PROVE  KeyInv'
  <2>1. SlotFingerprint \in SUBSET (Periods \X Statuses)
    BY DEF SlotFingerprint, PlaceInv, CalendarInv, IInv, CoreInv, TypeOK
  <2>2. [mode |-> mode, slots |-> SlotFingerprint] \in SlotsRead
    BY <2>1 DEF SlotsRead
  <2> QED
    BY <1>1, <2>2 DEF KeyInv, PreviewSlots
<1>2. ASSUME NEW c \in Clients, PreviewCandidate(c)
      PROVE  KeyInv'
  <2>1. NextStart \in 1 .. MaxPosition
    BY <1>2, NextStartIsNext, WorkflowAssumption DEF PreviewCandidate
  <2>2. reading[c] \in SlotsRead
    BY <1>2 DEF KeyInv, PreviewCandidate
  <2>3. [mode |-> reading[c].mode, slots |-> reading[c].slots, start |-> NextStart,
         timeline |-> timeline] \in KeysOffered
    BY <2>1, <2>2 DEF KeyInv, SlotsRead, KeysOffered
  <2> QED
    BY <1>2, <2>3 DEF KeyInv, PreviewCandidate
<1>3. CASE ChangeTimeline
  BY <1>3 DEF KeyInv, ChangeTimeline
<1>4. CASE UNCHANGED <<timeline, reading, held>>
  BY <1>4 DEF KeyInv
<1> QED
  BY <1>1, <1>2, <1>3, <1>4 DEF CreationNext, CreateWithKey, AnswerOnly, keyVars, creationVars

LEMMA CreationInvariance == CreationSpec => []CreationInv
<1>1. CreationInit => CreationInv
  BY InitPlaceInv DEF CreationInit, CreationInv, KeyInv
<1>2. CreationInv /\ [CreationNext]_creationVars => CreationInv'
  BY CreationNextMaps, KeysKept, NextPlaceInv DEF CreationInv
<1> QED
  BY <1>1, <1>2, PTL DEF CreationSpec

-----------------------------------------------------------------------------
\* Keys guard creation so that the branch behaves as the workflow says
\* (create_period_from_candidate).
THEOREM ImplementsWorkflow == CreationSpec => WorkflowImplemented
<1>1. CreationInit => Init
  BY DEF CreationInit
<1>2. CreationInv /\ [CreationNext]_creationVars => [Next]_vars
  BY CreationNextMaps
<1> QED
  BY <1>1, <1>2, CreationInvariance, PTL DEF CreationSpec, WorkflowImplemented, Spec

\* So what was proved of the workflow holds of it: the slots, the review, the
\* calendar and what is paid are as promised whatever keys clients present.
THEOREM GuardedBranchIsSafe ==
    CreationSpec => []SlotsUnique /\ []ReviewBinding /\ []CalendarGapless /\ []PaidIsApproved
  BY ImplementsWorkflow, SlotsAreUnique, ReviewIsBound, CalendarHasNoGap, PaidWasApproved, PTL
     DEF WorkflowImplemented

\* A repeated creation is answered as a repetition, whatever became of the
\* branch since (the replay check comes before the staleness check).
THEOREM RepetitionIsRecognized == CreationSpec => RetryIsRecognized
<1>1. ASSUME CreationNext, answer' # answer, UsedBy(answer'.key) # {}
      PROVE  /\ answer'.result \in {"ALREADY_EXISTS", "CANDIDATE_ALREADY_CANCELLED"}
             /\ UNCHANGED <<status, keyOf>>
  <2>1. PICK c \in Clients : CreateWithKey(held[c]) \/ AnswerOnly(held[c])
    BY <1>1 DEF CreationNext, PreviewSlots, PreviewCandidate, ChangeTimeline, keyVars
  <2>2. answer'.key = held[c]
    BY <2>1 DEF CreateWithKey, AnswerOnly
  <2>3. ~CreateWithKey(held[c])
    BY <1>1, <2>2 DEF CreateWithKey, Result
  <2>4. AnswerOnly(held[c]) /\ answer'.result = Result(held[c])
    BY <2>1, <2>3 DEF AnswerOnly
  <2> QED
    BY <1>1, <2>2, <2>4 DEF AnswerOnly, Result, vars
<1>2. [CreationNext]_creationVars =>
         [answer' # answer /\ UsedBy(answer'.key) # {} =>
             /\ answer'.result \in {"ALREADY_EXISTS", "CANDIDATE_ALREADY_CANCELLED"}
             /\ UNCHANGED <<status, keyOf>>]_creationVars
  BY <1>1
<1> QED
  BY <1>2, PTL DEF CreationSpec, RetryIsRecognized
================================================================================
