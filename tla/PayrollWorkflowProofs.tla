------------------------ MODULE PayrollWorkflowProofs ------------------------
(***************************************************************************)
(* Proofs about PayrollWorkflow for any number of periods, facts, users,   *)
(* positions, revisions and events.                                        *)
(***************************************************************************)
EXTENDS PayrollWorkflow, TLAPS

\* No empty packet was ever captured (the content guard of a submission).
PacketsNonEmpty == \A p \in Periods : \A r \in 1 .. Len(snaps[p]) : snaps[p][r] # {}

\* Who approved an item did not request it, unless the company allows it.
ApprovedByOther ==
    ~AllowSelfApproval =>
        \A p \in Periods : \A i \in 1 .. Len(items[p]) :
            items[p][i].status = "Approved" =>
                items[p][i].decider \in Users \ {items[p][i].by}

\* What handlers keep even when they act on an older reading of the rows,
\* as concurrent transactions do: the safety properties, which need each
\* other, and the two facts about every captured packet and approved item.
CoreInv ==
    /\ TypeOK
    /\ SlotsUnique
    /\ ReviewBinding
    /\ PaidIsApproved
    /\ RosterFrozen
    /\ PacketsNonEmpty
    /\ ApprovedByOther

\* The inductive invariant of the handlers that run one at a time.
IInv == CoreInv /\ FrozenPacketIsLive /\ EvidenceComplete

-----------------------------------------------------------------------------
(* What the shared parts of the handlers do                                *)

\* Capturing the packet that db shows adds it as the last snapshot of the
\* period, with a Pending item bound to it, and touches nothing else.
LEMMA HandInEffect ==
    ASSUME TypeOK, NEW p \in Periods, NEW u \in Users, NEW db,
           db.live[p] \in SUBSET Facts, db.events[p] \in Nat, HandIn(p, u, db)
    PROVE  /\ snaps' \in [Periods -> Seq(SUBSET Facts)]
           /\ items' \in [Periods -> Seq(ReviewItems)]
           /\ linked' \in [Periods -> Nat]
           /\ Len(snaps'[p]) = Len(snaps[p]) + 1
           /\ \A r \in 1 .. Len(snaps[p]) : snaps'[p][r] = snaps[p][r]
           /\ snaps'[p][Len(snaps[p]) + 1] = db.live[p]
           /\ Len(items'[p]) = Len(items[p]) + 1
           /\ \A i \in 1 .. Len(items[p]) : items'[p][i] = items[p][i]
           /\ items'[p][Len(items[p]) + 1].status = "Pending"
           /\ items'[p][Len(items[p]) + 1].snap = Len(snaps[p]) + 1
           /\ linked'[p] = db.events[p]
           /\ \A q \in Periods \ {p} : /\ snaps'[q] = snaps[q]
                                       /\ items'[q] = items[q]
                                       /\ linked'[q] = linked[q]
<1> DEFINE item == NewItem(p, u)
<1>1. snaps[p] \in Seq(SUBSET Facts)
  BY DEF TypeOK
<1>2. items[p] \in Seq(ReviewItems)
  BY DEF TypeOK
<1>3. Len(snaps[p]) \in Nat
  BY <1>1
<1>4. item \in ReviewItems /\ item.status = "Pending" /\ item.snap = Len(snaps[p]) + 1
  BY <1>3, WorkflowAssumption DEF NewItem, ReviewItems, ItemStatuses
<1>5. /\ snaps' = [snaps EXCEPT ![p] = Append(@, db.live[p])]
      /\ items' = [items EXCEPT ![p] = Append(@, item)]
      /\ linked' = [linked EXCEPT ![p] = db.events[p]]
  BY DEF HandIn, LinkEvidence
<1> HIDE DEF item
<1>6. /\ Append(snaps[p], db.live[p]) \in Seq(SUBSET Facts)
      /\ Len(Append(snaps[p], db.live[p])) = Len(snaps[p]) + 1
      /\ \A r \in 1 .. Len(snaps[p]) : Append(snaps[p], db.live[p])[r] = snaps[p][r]
      /\ Append(snaps[p], db.live[p])[Len(snaps[p]) + 1] = db.live[p]
  BY <1>1
<1>7. /\ Append(items[p], item) \in Seq(ReviewItems)
      /\ Len(Append(items[p], item)) = Len(items[p]) + 1
      /\ \A i \in 1 .. Len(items[p]) : Append(items[p], item)[i] = items[p][i]
      /\ Append(items[p], item)[Len(items[p]) + 1] = item
  BY <1>2, <1>4
<1>8. /\ snaps'[p] = Append(snaps[p], db.live[p])
      /\ items'[p] = Append(items[p], item)
      /\ linked'[p] = db.events[p]
      /\ \A q \in Periods \ {p} : /\ snaps'[q] = snaps[q]
                                  /\ items'[q] = items[q]
                                  /\ linked'[q] = linked[q]
  BY <1>5 DEF TypeOK
<1>9. /\ snaps' \in [Periods -> Seq(SUBSET Facts)]
      /\ items' \in [Periods -> Seq(ReviewItems)]
      /\ linked' \in [Periods -> Nat]
  BY <1>5, <1>6, <1>7 DEF TypeOK
<1> QED
  BY <1>4, <1>6, <1>7, <1>8, <1>9

\* A decision changes the status and the decider of one item.
LEMMA DecideEffect ==
    ASSUME TypeOK, NEW p \in Periods, NEW i \in DOMAIN items[p], NEW u \in Users,
           NEW verdict \in ItemStatuses, Decide(p, i, u, verdict)
    PROVE  /\ i \in 1 .. Len(items[p])
           /\ items' \in [Periods -> Seq(ReviewItems)]
           /\ Len(items'[p]) = Len(items[p])
           /\ items'[p][i].status = verdict
           /\ items'[p][i].decider = u
           /\ items'[p][i].by = items[p][i].by
           /\ items'[p][i].snap = items[p][i].snap
           /\ \A j \in 1 .. Len(items[p]) : j # i => items'[p][j] = items[p][j]
           /\ \A q \in Periods \ {p} : items'[q] = items[q]
<1>1. items[p] \in Seq(ReviewItems)
  BY DEF TypeOK
<1>2. DOMAIN items[p] = 1 .. Len(items[p]) /\ items[p][i] \in ReviewItems
  BY <1>1
<1> DEFINE old == items[p][i]
           new == [old EXCEPT !.status = verdict, !.decider = u]
           its == [items[p] EXCEPT ![i] = new]
<1>3. /\ new \in ReviewItems
      /\ new.status = verdict /\ new.decider = u
      /\ new.by = old.by /\ new.snap = old.snap
  BY <1>2 DEF ReviewItems
<1>4. items' = [items EXCEPT ![p] = its]
  BY <1>2 DEF Decide, TypeOK, ReviewItems
<1> HIDE DEF new
<1>5. /\ its \in Seq(ReviewItems)
      /\ Len(its) = Len(items[p])
      /\ its[i] = new
      /\ \A j \in 1 .. Len(items[p]) : j # i => its[j] = items[p][j]
  BY <1>1, <1>2, <1>3
<1> HIDE DEF its
<1>6. items'[p] = its /\ \A q \in Periods \ {p} : items'[q] = items[q]
  BY <1>4 DEF TypeOK
<1>7. items' \in [Periods -> Seq(ReviewItems)]
  BY <1>4, <1>5 DEF TypeOK
<1> QED
  BY <1>2, <1>3, <1>5, <1>6, <1>7

-----------------------------------------------------------------------------
(* One lemma per handler: it keeps the inductive invariant                 *)

\* A new period takes a free slot and has nothing submitted.
LEMMA InsertKeepsCore ==
    ASSUME CoreInv, NEW p \in Periods, NEW mode \in {"OPEN_CREATION", "PREPARED_CREATION"},
           NEW n \in Nat, \A q \in Periods : status[q] # Target(mode),
           InsertPeriod(p, mode, n)
    PROVE  CoreInv'
<1> USE DEF CoreInv
<1>1. /\ status[p] = "None"
      /\ status' = [status EXCEPT ![p] = Target(mode)]
      /\ Target(mode) \in {"Open", "Draft"}
      /\ UNCHANGED <<live, events, linked, snaps, items, retItem, finals>>
  BY DEF InsertPeriod, Target, entryVars, reviewVars
<1>2. TypeOK'
  BY <1>1 DEF TypeOK, InsertPeriod, Statuses
<1>3. SlotsUnique'
  BY <1>1 DEF SlotsUnique, TypeOK, UnderReview
<1>4. ReviewBinding'
  BY <1>1 DEF ReviewBinding, ItemsBound, TypeOK, Submitted, Frozen
<1>5. PaidIsApproved'
  BY <1>1 DEF PaidIsApproved, TypeOK
<1>6. RosterFrozen'
  BY <1>1 DEF RosterFrozen, TypeOK, InsertPeriod, Target, Submitted, Frozen
<1>7. PacketsNonEmpty' /\ ApprovedByOther'
  BY <1>1 DEF PacketsNonEmpty, ApprovedByOther
<1> QED
  BY <1>2, <1>3, <1>4, <1>5, <1>6, <1>7

LEMMA CreateKeeps ==
    ASSUME IInv, NEW p \in Periods, NEW mode \in {"OPEN_CREATION", "PREPARED_CREATION"},
           CreateFromCandidate(p, mode)
    PROVE  IInv'
<1> USE DEF IInv
<1>1. PICK n \in 1 .. MaxPosition : InsertPeriod(p, mode, n)
  BY DEF CreateFromCandidate
<1>2. \A q \in Periods : status[q] # Target(mode)
  BY DEF CreateFromCandidate, SlotFree, Target
<1>3. CoreInv'
  BY <1>1, <1>2, WorkflowAssumption, InsertKeepsCore
<1>4. FrozenPacketIsLive' /\ EvidenceComplete'
  BY <1>1 DEF FrozenPacketIsLive, EvidenceComplete, CoreInv, TypeOK, Frozen, LastPacket,
              InsertPeriod, Target, entryVars, reviewVars
<1> QED
  BY <1>3, <1>4

\* A source mutation changes the live entries of one period.
LEMMA WriteEffect ==
    ASSUME TypeOK, NEW p \in Periods, NEW kind \in SUBSET Facts, WriteFacts(p, kind)
    PROVE  /\ UNCHANGED <<status, pos, roster, linked, snaps, items, retItem, finals>>
           /\ live' \in [Periods -> SUBSET Facts]
           /\ events' \in [Periods -> Nat]
           /\ \A f \in Facts \ kind : f \in live'[p] <=> f \in live[p]
           /\ \A q \in Periods \ {p} : live'[q] = live[q] /\ events'[q] = events[q]
<1>1. UNCHANGED <<status, pos, roster, linked, snaps, items, retItem, finals>>
  BY DEF WriteFacts, reviewVars
<1>2. PICK facts \in SUBSET kind : live' = [live EXCEPT ![p] = (live[p] \ kind) \cup facts]
  BY DEF WriteFacts
<1>3. (live[p] \ kind) \cup facts \in SUBSET Facts
  BY DEF TypeOK
<1>4. events' = [events EXCEPT ![p] = @ + 1]
  BY DEF WriteFacts
<1> QED
  BY <1>1, <1>2, <1>3, <1>4 DEF TypeOK

LEMMA WriteKeepsCore ==
    ASSUME CoreInv, NEW p \in Periods, NEW kind \in SUBSET Facts, WriteFacts(p, kind)
    PROVE  CoreInv'
<1> USE DEF CoreInv
<1>1. /\ UNCHANGED <<status, pos, roster, linked, snaps, items, retItem, finals>>
      /\ live' \in [Periods -> SUBSET Facts]
      /\ events' \in [Periods -> Nat]
  BY WriteEffect
<1>2. TypeOK'
  BY <1>1 DEF TypeOK
<1>3. SlotsUnique' /\ RosterFrozen' /\ ReviewBinding'
  BY <1>1 DEF SlotsUnique, RosterFrozen, ReviewBinding, ItemsBound
<1>4. PaidIsApproved' /\ PacketsNonEmpty' /\ ApprovedByOther'
  BY <1>1 DEF PaidIsApproved, PacketsNonEmpty, ApprovedByOther
<1> QED
  BY <1>2, <1>3, <1>4

\* A source mutation happens only before the packet is frozen.
LEMMA WriteKeeps ==
    ASSUME IInv, NEW p \in Periods, NEW kind \in SUBSET Facts,
           status[p] \in SourceEntryStatuses, WriteFacts(p, kind)
    PROVE  IInv'
<1> USE DEF IInv
<1>1. /\ UNCHANGED <<status, linked, snaps>>
      /\ \A q \in Periods \ {p} : live'[q] = live[q] /\ events'[q] = events[q]
  BY WriteEffect DEF CoreInv
<1>2. status[p] \notin Frozen
  BY DEF SourceEntryStatuses, Frozen
<1>3. FrozenPacketIsLive' /\ EvidenceComplete'
  BY <1>1, <1>2 DEF FrozenPacketIsLive, EvidenceComplete, LastPacket
<1> QED
  BY <1>3, WriteKeepsCore

\* A submission that captures the live packet freezes it.
LEMMA HandInFreezes ==
    ASSUME IInv, NEW p \in Periods, NEW u \in Users, HandIn(p, u, Database),
           UNCHANGED <<live, events>>,
           \A q \in Periods \ {p} : status'[q] \in Frozen => status[q] \in Frozen
    PROVE  FrozenPacketIsLive' /\ EvidenceComplete'
<1> SUFFICES ASSUME NEW q \in Periods, status'[q] \in Frozen
             PROVE  LastPacket(q)' = live'[q] /\ linked'[q] = events'[q]
  BY DEF FrozenPacketIsLive, EvidenceComplete
<1>1. /\ Len(snaps'[p]) = Len(snaps[p]) + 1
      /\ snaps'[p][Len(snaps[p]) + 1] = live[p]
      /\ linked'[p] = events[p]
      /\ \A o \in Periods \ {p} : snaps'[o] = snaps[o] /\ linked'[o] = linked[o]
  <2>1. /\ TypeOK
        /\ Database.live[p] = live[p] /\ Database.live[p] \in SUBSET Facts
        /\ Database.events[p] = events[p] /\ Database.events[p] \in Nat
    BY DEF Database, IInv, CoreInv, TypeOK
  <2> QED
    BY <2>1, HandInEffect
<1>2. Len(snaps[p]) \in Nat
  BY DEF IInv, CoreInv, TypeOK
<1>3. CASE q = p
  BY <1>1, <1>2, <1>3 DEF LastPacket
<1>4. CASE q # p
  BY <1>1, <1>4 DEF LastPacket, IInv, FrozenPacketIsLive, EvidenceComplete
<1> QED
  BY <1>3, <1>4

\* A submission leaves at most one open period and binds its item to the
\* snapshot it captures, whatever it read, if what it read still holds of the
\* period and of the periods it promotes, and no period is under review.
LEMMA SubmitKeepsCore ==
    ASSUME CoreInv, NEW p \in Periods, NEW u \in Users, NEW db,
           db.live[p] \in SUBSET Facts, db.events[p] \in Nat,
           status[p] = "Open", \A q \in Periods : status[q] \notin UnderReview,
           \A q \in Drafts(db) : status[q] = "Draft",
           SubmitReading(p, u, db)
    PROVE  CoreInv'
<1> USE DEF CoreInv
<1> DEFINE D == Drafts(db)
<1>1. /\ status[p] = "Open"
      /\ \A q \in Periods : status[q] # "Returned"
      /\ \A q \in Periods \ {p} : status[q] # "InReview"
      /\ db.live[p] # {}
      /\ HandIn(p, u, db)
  BY DEF SubmitReading, SubmitAllowed, HandInAllowed, UnderReview
<1>2. /\ \A q \in Periods : q \in D => status[q] = "Draft"
      /\ status' = [q \in Periods |-> IF q = p THEN "InReview"
                                      ELSE IF q \in D THEN "Open" ELSE status[q]]
      /\ roster' = [q \in Periods |-> IF q \in D THEN "frozen" ELSE roster[q]]
      /\ UNCHANGED <<pos, live, events, retItem, finals>>
  BY DEF SubmitReading, FreezeRosters, Drafts, entryVars
<1> HIDE DEF D
<1>3. /\ snaps' \in [Periods -> Seq(SUBSET Facts)]
      /\ items' \in [Periods -> Seq(ReviewItems)]
      /\ linked' \in [Periods -> Nat]
      /\ Len(snaps'[p]) = Len(snaps[p]) + 1
      /\ \A r \in 1 .. Len(snaps[p]) : snaps'[p][r] = snaps[p][r]
      /\ snaps'[p][Len(snaps[p]) + 1] = db.live[p]
      /\ Len(items'[p]) = Len(items[p]) + 1
      /\ \A i \in 1 .. Len(items[p]) : items'[p][i] = items[p][i]
      /\ items'[p][Len(items[p]) + 1].status = "Pending"
      /\ items'[p][Len(items[p]) + 1].snap = Len(snaps[p]) + 1
      /\ linked'[p] = db.events[p]
      /\ \A q \in Periods \ {p} : /\ snaps'[q] = snaps[q]
                                  /\ items'[q] = items[q]
                                  /\ linked'[q] = linked[q]
  BY <1>1, HandInEffect
<1>4. Len(items[p]) = 0 /\ Len(snaps[p]) = 0 /\ retItem[p] = 0
  <2>1. Len(items[p]) \in Nat /\ ItemsBound(p)
    BY DEF TypeOK, ReviewBinding
  <2> QED
    BY <2>1, <1>1 DEF ItemsBound, Submitted, Frozen
<1>5. \A q \in Periods : /\ q = p => status'[q] = "InReview"
                         /\ q # p /\ q \in D => status'[q] = "Open"
                         /\ q # p /\ q \notin D => status'[q] = status[q]
  BY <1>2
<1>6. TypeOK'
  BY <1>2, <1>3 DEF TypeOK, Statuses
<1>7. SlotsUnique'
  <2> SUFFICES ASSUME NEW slot \in {{"Draft"}, {"Open"}, UnderReview},
                      NEW q1 \in Periods, NEW q2 \in Periods,
                      status'[q1] \in slot, status'[q2] \in slot
               PROVE  q1 = q2
    BY DEF SlotsUnique
  <2>1. CASE slot = {"Draft"}
    BY <2>1, <1>2, <1>5 DEF SlotsUnique
  <2>2. CASE slot = {"Open"}
    BY <2>2, <1>1, <1>2, <1>5 DEF SlotsUnique
  <2>3. CASE slot = UnderReview
    BY <2>3, <1>1, <1>5 DEF SlotsUnique, UnderReview
  <2> QED
    BY <2>1, <2>2, <2>3
<1>8. ReviewBinding'
  <2> SUFFICES ASSUME NEW q \in Periods PROVE ItemsBound(q)'
    BY DEF ReviewBinding
  <2>1. ItemsBound(q)
    BY DEF ReviewBinding
  <2>2. CASE q = p
    BY <2>2, <1>2, <1>3, <1>4, <1>5 DEF ItemsBound, Submitted, Frozen
  <2>3. CASE q # p
    <3>1. items'[q] = items[q] /\ snaps'[q] = snaps[q] /\ retItem' = retItem
      BY <2>3, <1>2, <1>3
    <3>2. CASE q \in D
      <4>1. status[q] = "Draft" /\ status'[q] = "Open"
        BY <2>3, <3>2, <1>2, <1>5
      <4> QED
        BY <2>1, <3>1, <4>1 DEF ItemsBound, Submitted, Frozen
    <3>3. CASE q \notin D
      <4>1. status'[q] = status[q]
        BY <2>3, <3>3, <1>5
      <4> QED
        BY <2>1, <3>1, <4>1 DEF ItemsBound
    <3> QED
      BY <3>2, <3>3
  <2> QED
    BY <2>2, <2>3
<1>9. PaidIsApproved'
  <2> SUFFICES ASSUME NEW q \in Periods
               PROVE  IF status'[q] \in {"Locked", "Archived"}
                      THEN \E i \in DOMAIN items'[q] :
                              /\ items'[q][i].status = "Approved"
                              /\ finals'[q] = snaps'[q][items'[q][i].snap]
                              /\ finals'[q] # {}
                      ELSE finals'[q] = {}
    BY DEF PaidIsApproved
  <2>1. CASE q = p
    BY <2>1, <1>1, <1>2, <1>5 DEF PaidIsApproved
  <2>2. CASE q # p
    <3>1. /\ items'[q] = items[q] /\ snaps'[q] = snaps[q] /\ finals' = finals
      BY <2>2, <1>2, <1>3
    <3>2. CASE q \in D
      <4>1. status'[q] = "Open" /\ status[q] \notin {"Locked", "Archived"}
        BY <2>2, <3>2, <1>2, <1>5
      <4> QED
        BY <3>1, <4>1 DEF PaidIsApproved
    <3>3. CASE q \notin D
      <4>1. status'[q] = status[q]
        BY <2>2, <3>3, <1>5
      <4> QED
        BY <3>1, <4>1 DEF PaidIsApproved
    <3> QED
      BY <3>2, <3>3
  <2> QED
    BY <2>1, <2>2
<1>10. RosterFrozen'
  BY <1>1, <1>2, <1>5 DEF RosterFrozen, Submitted, Frozen, TypeOK
<1>11. PacketsNonEmpty'
  <2> SUFFICES ASSUME NEW q \in Periods, NEW r \in 1 .. Len(snaps'[q])
               PROVE  snaps'[q][r] # {}
    BY DEF PacketsNonEmpty
  <2>0. snaps'[p][Len(snaps[p]) + 1] # {}
    BY <1>1, <1>3
  <2>1. CASE q = p
    <3>1. r = Len(snaps[p]) + 1
      BY <2>1, <1>3, <1>4
    <3> QED
      BY <2>0, <2>1, <3>1, Zenon
  <2>2. CASE q # p
    <3>1. snaps'[q] = snaps[q]
      BY <2>2, <1>3
    <3> QED
      BY <3>1 DEF PacketsNonEmpty
  <2> QED
    BY <2>1, <2>2
<1>12. ApprovedByOther'
  <2> SUFFICES ASSUME ~AllowSelfApproval, NEW q \in Periods,
                      NEW i \in 1 .. Len(items'[q]), items'[q][i].status = "Approved"
               PROVE  items'[q][i].decider \in Users \ {items'[q][i].by}
    BY DEF ApprovedByOther
  <2>1. CASE q = p
    BY <2>1, <1>3, <1>4 DEF ApprovedByOther
  <2>2. CASE q # p
    BY <2>2, <1>3 DEF ApprovedByOther
  <2> QED
    BY <2>1, <2>2
<1> QED
  BY <1>6, <1>7, <1>8, <1>9, <1>10, <1>11, <1>12

\* Reading the rows as they are, a submission freezes the live packet too.
LEMMA SubmitKeeps ==
    ASSUME IInv, NEW p \in Periods, NEW u \in Users, Submit(p, u)
    PROVE  IInv'
<1>1. /\ status[p] = "Open"
      /\ \A q \in Periods : status[q] \notin UnderReview
      /\ \A q \in Drafts(Database) : status[q] = "Draft"
      /\ HandIn(p, u, Database)
      /\ UNCHANGED <<live, events>>
  BY DEF Submit, SubmitReading, SubmitAllowed, HandInAllowed, ReviewSlotFree, Database,
         UnderReview, Drafts, entryVars
<1>2. Database.live[p] \in SUBSET Facts /\ Database.events[p] \in Nat
  BY DEF Database, IInv, CoreInv, TypeOK
<1>3. CoreInv'
  BY <1>1, <1>2, SubmitKeepsCore DEF IInv, Submit
<1>4. \A q \in Periods \ {p} : status'[q] \in Frozen => status[q] \in Frozen
  BY DEF Submit, SubmitReading, Frozen
<1> QED
  BY <1>1, <1>3, <1>4, HandInFreezes DEF IInv

\* A resubmission does the same for a returned period.
LEMMA ResubmitKeepsCore ==
    ASSUME CoreInv, NEW p \in Periods, NEW u \in Users, NEW db,
           db.live[p] \in SUBSET Facts, db.events[p] \in Nat,
           status[p] = "Returned", ResubmitReading(p, u, db)
    PROVE  CoreInv'
<1> USE DEF CoreInv
<1>1. /\ status[p] = "Returned"
      /\ \A q \in Periods \ {p} : status[q] # "InReview"
      /\ db.live[p] # {}
      /\ HandIn(p, u, db)
  BY DEF ResubmitReading, ResubmitAllowed, HandInAllowed, SlotsUnique, UnderReview
<1>2. /\ status' = [status EXCEPT ![p] = "InReview"]
      /\ retItem' = [retItem EXCEPT ![p] = 0]
      /\ UNCHANGED <<pos, roster, live, events, finals>>
  BY DEF ResubmitReading, ClearReturn, entryVars
<1>3. /\ snaps' \in [Periods -> Seq(SUBSET Facts)]
      /\ items' \in [Periods -> Seq(ReviewItems)]
      /\ linked' \in [Periods -> Nat]
      /\ Len(snaps'[p]) = Len(snaps[p]) + 1
      /\ \A r \in 1 .. Len(snaps[p]) : snaps'[p][r] = snaps[p][r]
      /\ snaps'[p][Len(snaps[p]) + 1] = db.live[p]
      /\ Len(items'[p]) = Len(items[p]) + 1
      /\ \A i \in 1 .. Len(items[p]) : items'[p][i] = items[p][i]
      /\ items'[p][Len(items[p]) + 1].status = "Pending"
      /\ items'[p][Len(items[p]) + 1].snap = Len(snaps[p]) + 1
      /\ linked'[p] = db.events[p]
      /\ \A q \in Periods \ {p} : /\ snaps'[q] = snaps[q]
                                  /\ items'[q] = items[q]
                                  /\ linked'[q] = linked[q]
  BY <1>1, HandInEffect
<1>4. Len(items[p]) \in Nat /\ Len(snaps[p]) = Len(items[p])
  BY DEF ReviewBinding, ItemsBound, TypeOK
<1>4a. \A i \in 1 .. Len(items'[p]) : i \in 1 .. Len(items[p]) \/ i = Len(items[p]) + 1
  BY <1>3, <1>4
<1>5. status'[p] = "InReview" /\ \A q \in Periods \ {p} : status'[q] = status[q]
  BY <1>2 DEF TypeOK
<1>6. TypeOK'
  BY <1>2, <1>3 DEF TypeOK, Statuses
<1>7. SlotsUnique'
  BY <1>1, <1>5 DEF SlotsUnique, UnderReview
<1>8. ReviewBinding'
  <2> SUFFICES ASSUME NEW q \in Periods PROVE ItemsBound(q)'
    BY DEF ReviewBinding
  <2>1. ItemsBound(q)
    BY DEF ReviewBinding
  <2>2. CASE q = p
    <3>1. \A i \in 1 .. Len(items[p]) : items[p][i].status \in {"Rejected", "EditRequested"}
      BY <2>1, <2>2, <1>1, <1>4 DEF ItemsBound
    <3>2. retItem'[p] = 0
      BY <1>2 DEF TypeOK
    <3>3. Len(items'[p]) = Len(snaps'[p])
      BY <1>3, <1>4
    <3>4. \A i \in 1 .. Len(items'[p]) : items'[p][i].snap = i
      <4>1. \A i \in 1 .. Len(items[p]) : items'[p][i].snap = i
        BY <2>1, <2>2, <1>3 DEF ItemsBound
      <4>2. items'[p][Len(items[p]) + 1].snap = Len(items[p]) + 1
        BY <1>3, <1>4
      <4> QED
        BY <4>1, <4>2, <1>4a
    <3>5. \A i \in 1 .. Len(items'[p]) : i < Len(items'[p]) =>
             items'[p][i].status \in {"Rejected", "EditRequested"}
      <4> SUFFICES ASSUME NEW i \in 1 .. Len(items'[p]), i < Len(items'[p])
                   PROVE  items'[p][i].status \in {"Rejected", "EditRequested"}
        OBVIOUS
      <4>1. i \in 1 .. Len(items[p])
        BY <1>3, <1>4
      <4> QED
        BY <4>1, <3>1, <1>3
    <3>6. Len(items'[p]) > 0 /\ items'[p][Len(items'[p])].status = "Pending"
      BY <1>3, <1>4
    <3> QED
      BY <2>2, <3>2, <3>3, <3>4, <3>5, <3>6, <1>5 DEF ItemsBound, Submitted, Frozen
  <2>3. CASE q # p
    BY <2>1, <2>3, <1>2, <1>3, <1>5 DEF ItemsBound, Submitted, Frozen, TypeOK
  <2> QED
    BY <2>2, <2>3
<1>9. PaidIsApproved'
  <2>1. finals' = finals /\ status[p] \notin {"Locked", "Archived"}
    BY <1>1, <1>2
  <2>2. finals'[p] = {}
    BY <2>1 DEF PaidIsApproved
  <2>3. \A q \in Periods \ {p} : /\ status'[q] = status[q] /\ items'[q] = items[q]
                                 /\ snaps'[q] = snaps[q] /\ finals'[q] = finals[q]
    BY <1>3, <1>5, <2>1
  <2>4. status'[p] = "InReview"
    BY <1>5
  <2> QED
    BY <2>2, <2>3, <2>4 DEF PaidIsApproved
<1>10. RosterFrozen'
  BY <1>1, <1>2, <1>5 DEF RosterFrozen, Submitted, Frozen
<1>11. PacketsNonEmpty'
  <2> SUFFICES ASSUME NEW q \in Periods, NEW r \in 1 .. Len(snaps'[q])
               PROVE  snaps'[q][r] # {}
    BY DEF PacketsNonEmpty
  <2>0. snaps'[p][Len(snaps[p]) + 1] # {}
    BY <1>1, <1>3
  <2>1. CASE q = p
    <3>1. CASE r \in 1 .. Len(snaps[p])
      BY <2>1, <3>1, <1>3 DEF PacketsNonEmpty
    <3>2. CASE r = Len(snaps[p]) + 1
      BY <2>0, <2>1, <3>2, Zenon
    <3> QED
      BY <2>1, <3>1, <3>2, <1>3, <1>4, <1>4a
  <2>2. CASE q # p
    <3>1. snaps'[q] = snaps[q]
      BY <2>2, <1>3
    <3> QED
      BY <3>1 DEF PacketsNonEmpty
  <2> QED
    BY <2>1, <2>2
<1>12. ApprovedByOther'
  <2> SUFFICES ASSUME ~AllowSelfApproval, NEW q \in Periods,
                      NEW i \in 1 .. Len(items'[q]), items'[q][i].status = "Approved"
               PROVE  items'[q][i].decider \in Users \ {items'[q][i].by}
    BY DEF ApprovedByOther
  <2>1. CASE q = p
    <3>1. i \in 1 .. Len(items[p])
      BY <2>1, <1>3, <1>4a
    <3> QED
      BY <2>1, <3>1, <1>3 DEF ApprovedByOther
  <2>2. CASE q # p
    BY <2>2, <1>3 DEF ApprovedByOther
  <2> QED
    BY <2>1, <2>2
<1> QED
  BY <1>6, <1>7, <1>8, <1>9, <1>10, <1>11, <1>12

LEMMA ResubmitKeeps ==
    ASSUME IInv, NEW p \in Periods, NEW u \in Users, Resubmit(p, u)
    PROVE  IInv'
<1>1. /\ status[p] = "Returned" /\ status' = [status EXCEPT ![p] = "InReview"]
      /\ HandIn(p, u, Database)
      /\ UNCHANGED <<live, events>>
  BY DEF Resubmit, ResubmitReading, ResubmitAllowed, Database, entryVars
<1>2. Database.live[p] \in SUBSET Facts /\ Database.events[p] \in Nat
  BY DEF Database, IInv, CoreInv, TypeOK
<1>3. CoreInv'
  BY <1>1, <1>2, ResubmitKeepsCore DEF IInv, Resubmit
<1>4. \A q \in Periods \ {p} : status'[q] \in Frozen => status[q] \in Frozen
  BY <1>1 DEF IInv, CoreInv, TypeOK
<1> QED
  BY <1>1, <1>3, <1>4, HandInFreezes DEF IInv

\* What a decision of either kind needs and does, given the invariant.
LEMMA DecisionFacts ==
    ASSUME CoreInv, NEW p \in Periods, NEW i \in DOMAIN items[p], NEW u \in Users,
           NEW verdict \in ItemStatuses, Decide(p, i, u, verdict)
    PROVE  /\ status[p] = "InReview"
           /\ i = Len(items[p]) /\ i \in 1 .. Len(items[p])
           /\ UNCHANGED <<pos, roster, live, events, linked, snaps, finals>>
           /\ ~AllowSelfApproval => u # items[p][i].by
<1>1. items[p][i].status = "Pending" /\ status[p] = "InReview"
  BY DEF Decide, DecideAllowed
<1>2. i \in 1 .. Len(items[p]) /\ ItemsBound(p) /\ Len(items[p]) \in Nat
  BY DecideEffect DEF CoreInv, ReviewBinding, TypeOK
<1>3. i = Len(items[p])
  BY <1>1, <1>2 DEF ItemsBound
<1> QED
  BY <1>1, <1>2, <1>3 DEF Decide, DecideAllowed, entryVars

\* The parts of the invariant that both decisions keep in the same way.
LEMMA DecisionKeeps ==
    ASSUME CoreInv, NEW p \in Periods, NEW i \in DOMAIN items[p], NEW u \in Users,
           NEW verdict \in ItemStatuses \ {"Pending"}, Decide(p, i, u, verdict),
           NEW to \in {"Approved", "Returned"}, status' = [status EXCEPT ![p] = to]
    PROVE  /\ SlotsUnique'
           /\ RosterFrozen' /\ PaidIsApproved' /\ PacketsNonEmpty' /\ ApprovedByOther'
<1> USE DEF CoreInv
<1>1. /\ status[p] = "InReview" /\ i = Len(items[p])
      /\ UNCHANGED <<pos, roster, live, events, linked, snaps, finals>>
      /\ ~AllowSelfApproval => u # items[p][i].by
  BY DecisionFacts
<1>2. /\ i \in 1 .. Len(items[p])
      /\ Len(items'[p]) = Len(items[p])
      /\ items'[p][i].status = verdict
      /\ items'[p][i].decider = u
      /\ items'[p][i].by = items[p][i].by
      /\ items'[p][i].snap = items[p][i].snap
      /\ \A j \in 1 .. Len(items[p]) : j # i => items'[p][j] = items[p][j]
      /\ \A q \in Periods \ {p} : items'[q] = items[q]
  BY DecideEffect
<1>3. status'[p] = to /\ \A q \in Periods \ {p} : status'[q] = status[q]
  BY DEF TypeOK
<1>4. SlotsUnique'
  BY <1>1, <1>3 DEF SlotsUnique, UnderReview
<1>5. RosterFrozen'
  BY <1>1, <1>3 DEF RosterFrozen, Submitted, Frozen
<1>6. PaidIsApproved'
  BY <1>1, <1>2, <1>3 DEF PaidIsApproved
<1>7. PacketsNonEmpty'
  BY <1>1 DEF PacketsNonEmpty
<1>8. ApprovedByOther'
  <2> SUFFICES ASSUME ~AllowSelfApproval, NEW q \in Periods,
                      NEW j \in 1 .. Len(items'[q]), items'[q][j].status = "Approved"
               PROVE  items'[q][j].decider \in Users \ {items'[q][j].by}
    BY DEF ApprovedByOther
  <2>1. CASE q = p /\ j = i
    BY <2>1, <1>1, <1>2
  <2>2. CASE ~(q = p /\ j = i)
    <3>1. j \in 1 .. Len(items[q]) /\ items'[q][j] = items[q][j]
      BY <2>2, <1>2
    <3> QED
      BY <3>1 DEF ApprovedByOther
  <2> QED
    BY <2>1, <2>2
<1> QED
  BY <1>4, <1>5, <1>6, <1>7, <1>8

\* An approval decides the last item of a period in review.
LEMMA ApproveKeepsCore ==
    ASSUME CoreInv, NEW p \in Periods, NEW i \in DOMAIN items[p], NEW u \in Users,
           Approve(p, i, u)
    PROVE  CoreInv'
<1> USE DEF CoreInv
<1>1. /\ Decide(p, i, u, "Approved")
      /\ status' = [status EXCEPT ![p] = "Approved"]
      /\ UNCHANGED retItem
      /\ "Approved" \in ItemStatuses \ {"Pending"}
  BY DEF Approve, ItemStatuses
<1>2. /\ status[p] = "InReview" /\ i = Len(items[p])
      /\ UNCHANGED <<pos, roster, live, events, linked, snaps, finals>>
  BY <1>1, DecisionFacts
<1>3. /\ i \in 1 .. Len(items[p])
      /\ items' \in [Periods -> Seq(ReviewItems)]
      /\ Len(items'[p]) = Len(items[p])
      /\ items'[p][i].status = "Approved"
      /\ items'[p][i].snap = items[p][i].snap
      /\ \A j \in 1 .. Len(items[p]) : j # i => items'[p][j] = items[p][j]
      /\ \A q \in Periods \ {p} : items'[q] = items[q]
  BY <1>1, DecideEffect
<1>4. status'[p] = "Approved" /\ \A q \in Periods \ {p} : status'[q] = status[q]
  BY <1>1 DEF TypeOK
<1>5. TypeOK'
  BY <1>1, <1>2, <1>3 DEF TypeOK, Statuses
<1>6. ReviewBinding'
  <2> SUFFICES ASSUME NEW q \in Periods PROVE ItemsBound(q)'
    BY DEF ReviewBinding
  <2>1. ItemsBound(q)
    BY DEF ReviewBinding
  <2>2. CASE q = p
    <3>1. PICK n \in Nat : n = Len(items[p]) /\ n > 0
      BY <1>3 DEF TypeOK
    <3>2. Len(items'[p]) = n /\ i = n /\ Len(snaps'[p]) = n /\ retItem'[p] = 0
      BY <1>1, <1>2, <1>3, <2>1, <2>2, <3>1 DEF ItemsBound, TypeOK
    <3>3. \A j \in 1 .. n : /\ items'[p][j].snap = j
                            /\ j < n => items'[p][j].status \in {"Rejected", "EditRequested"}
      BY <1>2, <1>3, <2>1, <2>2, <3>1, <3>2 DEF ItemsBound
    <3> QED
      BY <1>3, <1>4, <2>2, <3>1, <3>2, <3>3 DEF ItemsBound, Submitted, Frozen
  <2>3. CASE q # p
    BY <2>1, <2>3, <1>1, <1>2, <1>3, <1>4 DEF ItemsBound, Submitted, Frozen
  <2> QED
    BY <2>2, <2>3
<1> QED
  BY <1>1, <1>5, <1>6, DecisionKeeps

\* A rejection or an edit request returns the period and points at its item.
LEMMA SendBackKeepsCore ==
    ASSUME CoreInv, NEW p \in Periods, NEW i \in DOMAIN items[p], NEW u \in Users,
           NEW verdict \in {"Rejected", "EditRequested"}, SendBack(p, i, u, verdict)
    PROVE  CoreInv'
<1> USE DEF CoreInv
<1>1. /\ Decide(p, i, u, verdict)
      /\ status' = [status EXCEPT ![p] = "Returned"]
      /\ retItem' = [retItem EXCEPT ![p] = i]
      /\ verdict \in ItemStatuses \ {"Pending"}
  BY DEF SendBack, ItemStatuses
<1>2. /\ status[p] = "InReview" /\ i = Len(items[p])
      /\ UNCHANGED <<pos, roster, live, events, linked, snaps, finals>>
  BY <1>1, DecisionFacts
<1>3. /\ i \in 1 .. Len(items[p])
      /\ items' \in [Periods -> Seq(ReviewItems)]
      /\ Len(items'[p]) = Len(items[p])
      /\ items'[p][i].status = verdict
      /\ items'[p][i].snap = items[p][i].snap
      /\ \A j \in 1 .. Len(items[p]) : j # i => items'[p][j] = items[p][j]
      /\ \A q \in Periods \ {p} : items'[q] = items[q]
  BY <1>1, DecideEffect
<1>4. /\ status'[p] = "Returned" /\ \A q \in Periods \ {p} : status'[q] = status[q]
      /\ retItem'[p] = i /\ \A q \in Periods \ {p} : retItem'[q] = retItem[q]
  BY <1>1 DEF TypeOK
<1>5. TypeOK'
  <2>1. retItem' \in [Periods -> Nat]
    BY <1>1, <1>3 DEF TypeOK
  <2>2. status' \in [Periods -> Statuses]
    BY <1>1 DEF TypeOK, Statuses
  <2> QED
    BY <2>1, <2>2, <1>2, <1>3 DEF TypeOK
<1>6. ReviewBinding'
  <2> SUFFICES ASSUME NEW q \in Periods PROVE ItemsBound(q)'
    BY DEF ReviewBinding
  <2>1. ItemsBound(q)
    BY DEF ReviewBinding
  <2>2. CASE q = p
    BY <2>1, <2>2, <1>2, <1>3, <1>4 DEF ItemsBound, Submitted, Frozen
  <2>3. CASE q # p
    BY <2>1, <2>3, <1>2, <1>3, <1>4 DEF ItemsBound, Submitted, Frozen
  <2> QED
    BY <2>2, <2>3
<1> QED
  BY <1>1, <1>5, <1>6, DecisionKeeps

\* The one approved item is the last, so the last packet is what is paid.
LEMMA FinalizeKeepsCore ==
    ASSUME CoreInv, NEW p \in Periods, FinalizePeriod(p)
    PROVE  CoreInv'
<1> USE DEF CoreInv
<1>1. PICK i \in DOMAIN items[p] :
         items[p][i].status = "Approved" /\ finals' = [finals EXCEPT ![p] = Projection(p, i)]
  BY DEF FinalizePeriod, ApprovedItems
<1>2. /\ status[p] = "Approved"
      /\ status' = [status EXCEPT ![p] = "Locked"]
      /\ UNCHANGED <<pos, roster, live, events, linked, snaps, items, retItem>>
  BY DEF FinalizePeriod, FinalizeAllowed, entryVars, reviewVars
<1>3. /\ items[p] \in Seq(ReviewItems) /\ snaps[p] \in Seq(SUBSET Facts)
      /\ ItemsBound(p)
  BY DEF TypeOK, ReviewBinding
<1>4. i \in 1 .. Len(snaps[p]) /\ items[p][i].snap = i
  BY <1>3 DEF ItemsBound
<1>5. Projection(p, i) = snaps[p][i] /\ snaps[p][i] \in SUBSET Facts /\ snaps[p][i] # {}
  BY <1>3, <1>4 DEF Projection, PacketsNonEmpty
<1>6. /\ status'[p] = "Locked" /\ \A q \in Periods \ {p} : status'[q] = status[q]
      /\ finals'[p] = snaps[p][i] /\ \A q \in Periods \ {p} : finals'[q] = finals[q]
      /\ finals' \in [Periods -> SUBSET Facts]
  BY <1>1, <1>2, <1>5 DEF TypeOK
<1>7. TypeOK'
  BY <1>2, <1>6 DEF TypeOK, Statuses
<1>8. SlotsUnique'
  BY <1>6 DEF SlotsUnique, UnderReview
<1>9. ReviewBinding'
  <2> SUFFICES ASSUME NEW q \in Periods PROVE ItemsBound(q)'
    BY DEF ReviewBinding
  <2> QED
    BY <1>2, <1>6 DEF ReviewBinding, ItemsBound, Submitted, Frozen
<1>10. PaidIsApproved'
  BY <1>1, <1>2, <1>4, <1>5, <1>6 DEF PaidIsApproved
<1>11. RosterFrozen'
  BY <1>2, <1>6 DEF RosterFrozen, Submitted, Frozen
<1>12. PacketsNonEmpty' /\ ApprovedByOther'
  BY <1>2 DEF PacketsNonEmpty, ApprovedByOther
<1> QED
  BY <1>7, <1>8, <1>9, <1>10, <1>11, <1>12

\* Cancelling and archiving touch nothing but the status.
LEMMA PatchKeepsCore ==
    ASSUME CoreInv, NEW p \in Periods, NEW from, NEW to, Patch(p, from, to),
           <<from, to>> \in {<<"Draft", "Cancelled">>, <<"Open", "Cancelled">>,
                             <<"Locked", "Archived">>}
    PROVE  CoreInv'
<1> USE DEF CoreInv
<1>1. /\ status' = [status EXCEPT ![p] = to]
      /\ to \in {"Cancelled", "Archived"}
      /\ to = "Cancelled" => status[p] \in {"Draft", "Open"}
      /\ to = "Archived"  => status[p] = "Locked"
      /\ UNCHANGED <<pos, roster, live, events, linked, snaps, items, retItem, finals>>
  BY DEF Patch, entryVars, reviewVars
<1>2. status'[p] = to /\ \A q \in Periods \ {p} : status'[q] = status[q]
  BY <1>1 DEF TypeOK
<1>3. TypeOK'
  BY <1>1 DEF TypeOK, Statuses
<1>4. SlotsUnique'
  BY <1>1, <1>2 DEF SlotsUnique, UnderReview
<1>5. ReviewBinding'
  <2> SUFFICES ASSUME NEW q \in Periods PROVE ItemsBound(q)'
    BY DEF ReviewBinding
  <2> QED
    BY <1>1, <1>2 DEF ReviewBinding, ItemsBound, Submitted, Frozen
<1>6. PaidIsApproved'
  BY <1>1, <1>2 DEF PaidIsApproved
<1>7. RosterFrozen'
  BY <1>1, <1>2 DEF RosterFrozen, Submitted, Frozen
<1>8. PacketsNonEmpty' /\ ApprovedByOther'
  BY <1>1 DEF PacketsNonEmpty, ApprovedByOther
<1> QED
  BY <1>3, <1>4, <1>5, <1>6, <1>7, <1>8

\* A handler that changes neither live entries nor snapshots nor evidence
\* and takes no period into review leaves the frozen packets as they were.
LEMMA FrozenKept ==
    ASSUME IInv, UNCHANGED <<live, events, linked, snaps>>,
           \A q \in Periods : status'[q] \in Frozen => status[q] \in Frozen
    PROVE  FrozenPacketIsLive' /\ EvidenceComplete'
  BY DEF IInv, FrozenPacketIsLive, EvidenceComplete, LastPacket

\* Nor do decisions, finalization, cancellation and archiving touch them.
LEMMA LaterKeeps ==
    ASSUME IInv, NEW p \in Periods,
           \/ \E u \in Users, i \in DOMAIN items[p] :
                 \/ Approve(p, i, u)
                 \/ \E v \in {"Rejected", "EditRequested"} : SendBack(p, i, u, v)
           \/ FinalizePeriod(p) \/ Cancel(p) \/ Archive(p)
    PROVE  IInv'
<1>1. CoreInv'
  <2>1. Cancel(p) \/ Archive(p) => CoreInv'
    BY PatchKeepsCore DEF Cancel, Archive, IInv
  <2> QED
    BY <2>1, ApproveKeepsCore, SendBackKeepsCore, FinalizeKeepsCore DEF IInv
<1>2. \E to : /\ status' = [status EXCEPT ![p] = to]
              /\ to \in Frozen => status[p] \in Frozen
  BY DEF Approve, SendBack, Decide, DecideAllowed, FinalizePeriod, FinalizeAllowed,
         Cancel, Archive, Patch, Frozen
<1>3. \A q \in Periods : status'[q] \in Frozen => status[q] \in Frozen
  BY <1>2 DEF IInv, CoreInv, TypeOK
<1>4. UNCHANGED <<live, events, linked, snaps>>
  BY DEF Approve, SendBack, Decide, FinalizePeriod, Cancel, Archive, Patch,
         entryVars, reviewVars
<1> QED
  BY <1>1, <1>3, <1>4, FrozenKept DEF IInv

-----------------------------------------------------------------------------
(* The invariant, and the safety properties it implies                     *)

\* The inductive invariant holds when the branch has no period.
LEMMA InitIInv == Init => IInv
<1> SUFFICES ASSUME Init PROVE IInv
  OBVIOUS
<1>1. \A p \in Periods : /\ status[p] = "None" /\ snaps[p] = <<>> /\ items[p] = <<>>
                         /\ retItem[p] = 0 /\ finals[p] = {}
  BY DEF Init
<1>2. TypeOK
  BY DEF Init, TypeOK, Statuses
<1>3. SlotsUnique
  BY <1>1 DEF SlotsUnique, UnderReview
<1>4. ReviewBinding
  BY <1>1 DEF ReviewBinding, ItemsBound, Submitted, Frozen
<1>5. FrozenPacketIsLive /\ EvidenceComplete /\ RosterFrozen /\ PaidIsApproved
  BY <1>1 DEF FrozenPacketIsLive, EvidenceComplete, RosterFrozen, PaidIsApproved,
              Submitted, Frozen
<1>6. PacketsNonEmpty /\ ApprovedByOther
  BY <1>1 DEF PacketsNonEmpty, ApprovedByOther
<1> QED
  BY <1>2, <1>3, <1>4, <1>5, <1>6 DEF IInv, CoreInv

\* Every handler keeps the inductive invariant.
LEMMA NextIInv == IInv /\ [Next]_vars => IInv'
<1> SUFFICES ASSUME IInv, [Next]_vars PROVE IInv'
  OBVIOUS
<1>1. CASE UNCHANGED vars
  <2>1. UNCHANGED <<status, pos, roster, live, events, linked, snaps, items, retItem, finals>>
    BY <1>1 DEF vars
  <2>2. TypeOK' /\ SlotsUnique' /\ RosterFrozen'
    BY <2>1 DEF IInv, CoreInv, TypeOK, SlotsUnique, RosterFrozen
  <2>3. ReviewBinding'
    BY <2>1 DEF IInv, CoreInv, ReviewBinding, ItemsBound
  <2>4. FrozenPacketIsLive' /\ EvidenceComplete' /\ PaidIsApproved'
    BY <2>1 DEF IInv, CoreInv, FrozenPacketIsLive, EvidenceComplete, PaidIsApproved, LastPacket
  <2>5. PacketsNonEmpty' /\ ApprovedByOther'
    BY <2>1 DEF IInv, CoreInv, PacketsNonEmpty, ApprovedByOther
  <2> QED
    BY <2>2, <2>3, <2>4, <2>5 DEF IInv, CoreInv
<1>2. CASE Create
  BY <1>2, CreateKeeps DEF Create
<1>3. CASE Operate
  <2>1. PICK p \in Periods :
           \/ ChangeLines(p)
           \/ ChangeBonuses(p)
           \/ \E u \in Users :
                 \/ Submit(p, u)
                 \/ Resubmit(p, u)
                 \/ \E i \in DOMAIN items[p] :
                       \/ Approve(p, i, u)
                       \/ SendBack(p, i, u, "Rejected")
                       \/ SendBack(p, i, u, "EditRequested")
           \/ FinalizePeriod(p)
           \/ Cancel(p)
           \/ Archive(p)
    BY <1>3 DEF Operate
  <2>2. CASE ChangeLines(p)
    BY <2>2, WriteKeeps DEF ChangeLines, Facts
  <2>3. CASE ChangeBonuses(p)
    BY <2>3, WriteKeeps DEF ChangeBonuses, Facts, BonusStatuses, SourceEntryStatuses
  <2>4. CASE \E u \in Users : Submit(p, u)
    BY <2>4, SubmitKeeps
  <2>5. CASE \E u \in Users : Resubmit(p, u)
    BY <2>5, ResubmitKeeps
  <2>6. CASE \E u \in Users, i \in DOMAIN items[p] : Approve(p, i, u)
    BY <2>6, LaterKeeps
  <2>7. CASE \E u \in Users, i \in DOMAIN items[p], v \in {"Rejected", "EditRequested"} :
               SendBack(p, i, u, v)
    BY <2>7, LaterKeeps
  <2>8. CASE FinalizePeriod(p)
    BY <2>8, LaterKeeps
  <2>9. CASE Cancel(p) \/ Archive(p)
    BY <2>9, LaterKeeps
  <2> QED
    BY <2>1, <2>2, <2>3, <2>4, <2>5, <2>6, <2>7, <2>8, <2>9
<1> QED
  BY <1>1, <1>2, <1>3 DEF Next

\* In every reachable state the parts of the workflow agree as the handlers
\* need: the conjunction that all theorems below follow from.
THEOREM Invariance == Spec => []IInv
  BY InitIInv, NextIInv, PTL DEF Spec

\* Every reachable state of the workflow is well typed.
THEOREM TypeCorrect == Spec => []TypeOK
<1>1. IInv => TypeOK
  BY DEF IInv, CoreInv
<1> QED
  BY <1>1, Invariance, PTL

\* One prepared period, one open and one under review or correction at most,
\* whatever the order of creations, submissions, decisions and cancellations.
THEOREM SlotsAreUnique == Spec => []SlotsUnique
<1>1. IInv => SlotsUnique
  BY DEF IInv, CoreInv
<1> QED
  BY <1>1, Invariance, PTL

\* Snapshots, review items, the status and the return pointer agree.
THEOREM ReviewIsBound == Spec => []ReviewBinding
<1>1. IInv => ReviewBinding
  BY DEF IInv, CoreInv
<1> QED
  BY <1>1, Invariance, PTL

\* What is in review, approved or paid is what the source entries say, as
\* long as handlers run one at a time.
THEOREM FrozenPacket == Spec => [](FrozenPacketIsLive /\ EvidenceComplete)
<1>1. IInv => FrozenPacketIsLive /\ EvidenceComplete
  BY DEF IInv, CoreInv
<1> QED
  BY <1>1, Invariance, PTL

\* Final lines are the packet of the approved review item.
THEOREM PaidWasApproved == Spec => []PaidIsApproved
<1>1. IInv => PaidIsApproved
  BY DEF IInv, CoreInv
<1> QED
  BY <1>1, Invariance, PTL

\* What ApprovedByOther and PaidIsApproved say together of a paid packet.
LEMMA CoreFourEyes == CoreInv => FourEyes
<1> SUFFICES ASSUME CoreInv, ~AllowSelfApproval, NEW p \in Periods,
                    status[p] \in {"Locked", "Archived"}
             PROVE  \E i \in DOMAIN items[p] :
                       /\ finals[p] = snaps[p][items[p][i].snap]
                       /\ items[p][i].decider \in Users \ {items[p][i].by}
  BY DEF FourEyes
<1>1. PICK i \in DOMAIN items[p] : /\ items[p][i].status = "Approved"
                                   /\ finals[p] = snaps[p][items[p][i].snap]
  BY DEF CoreInv, PaidIsApproved
<1>2. i \in 1 .. Len(items[p])
  BY DEF CoreInv, TypeOK
<1>3. items[p][i].decider \in Users \ {items[p][i].by}
  BY <1>1, <1>2 DEF CoreInv, ApprovedByOther
<1> QED
  BY <1>1, <1>3

\* Without self-approval somebody else approved the packet that is paid.
THEOREM TwoPersonRule == Spec => []FourEyes
<1>1. IInv => FourEyes
  BY CoreFourEyes DEF IInv
<1> QED
  BY <1>1, Invariance, PTL

\* Nobody works on a roster that may still be regenerated.
THEOREM RosterIsFrozen == Spec => []RosterFrozen
<1>1. IInv => RosterFrozen
  BY DEF IInv, CoreInv
<1> QED
  BY <1>1, Invariance, PTL

-----------------------------------------------------------------------------
(* The handlers implement the lifecycle                                    *)

\* A branch without periods is one the lifecycle starts with.
LEMMA InitMaps == Init => Lifecycle!Init
  BY DEF Init, Lifecycle!Init, LastPacket

\* The handlers that capture no packet and pay nothing move one period.
LEMMA MoveMaps ==
    ASSUME NEW p \in Periods, NEW from, NEW to,
           status[p] = from, status' = [status EXCEPT ![p] = to],
           UNCHANGED <<snaps, finals>>
    PROVE  Lifecycle!Move(p, from, to)
  BY DEF Lifecycle!Move, LastPacket

\* A submission replaces the packet of its period by the one it captures.
LEMMA HandInMaps ==
    ASSUME TypeOK, NEW p \in Periods, NEW u \in Users, NEW db,
           db.live[p] \in SUBSET Facts, db.events[p] \in Nat,
           HandIn(p, u, db), db.live[p] # {}
    PROVE  \E content \in (SUBSET Facts) \ {{}} :
              [q \in Periods |-> LastPacket(q)]'
                 = [[q \in Periods |-> LastPacket(q)] EXCEPT ![p] = content]
<1>1. /\ Len(snaps'[p]) = Len(snaps[p]) + 1
      /\ snaps'[p][Len(snaps[p]) + 1] = db.live[p]
      /\ \A q \in Periods \ {p} : snaps'[q] = snaps[q]
  BY HandInEffect
<1>2. Len(snaps[p]) \in Nat
  BY DEF TypeOK
<1>3. /\ LastPacket(p)' = db.live[p]
      /\ \A q \in Periods \ {p} : LastPacket(q)' = LastPacket(q)
  BY <1>1, <1>2 DEF LastPacket
<1> HIDE DEF LastPacket
<1>4. [q \in Periods |-> LastPacket(q)]'
         = [[q \in Periods |-> LastPacket(q)] EXCEPT ![p] = db.live[p]]
  BY <1>3
<1>5. db.live[p] \in (SUBSET Facts) \ {{}}
  OBVIOUS
<1> QED
  BY <1>4, <1>5

\* A finalization pays the packet that was handed in last.
LEMMA FinalizeMaps ==
    ASSUME CoreInv, NEW p \in Periods, FinalizePeriod(p)
    PROVE  Lifecycle!Finalize(p)
<1>1. PICK i \in DOMAIN items[p] :
         /\ items[p][i].status = "Approved"
         /\ finals' = [finals EXCEPT ![p] = Projection(p, i)]
  BY DEF FinalizePeriod, ApprovedItems
<1>2. /\ status[p] = "Approved" /\ status' = [status EXCEPT ![p] = "Locked"]
      /\ UNCHANGED snaps
  BY DEF FinalizePeriod, FinalizeAllowed, reviewVars
<1>3. ItemsBound(p) /\ items[p] \in Seq(ReviewItems)
  BY DEF CoreInv, ReviewBinding, TypeOK
<1>4. i = Len(items[p]) /\ items[p][i].snap = i /\ Len(items[p]) = Len(snaps[p])
  BY <1>1, <1>3 DEF ItemsBound
<1>5. Projection(p, i) = LastPacket(p)
  BY <1>3, <1>4 DEF Projection, LastPacket
<1> QED
  BY <1>1, <1>2, <1>5 DEF Lifecycle!Finalize, LastPacket

\* Every handler is a step of the lifecycle, or none.
LEMMA NextMaps == IInv /\ [Next]_vars => [Lifecycle!Next]_(Lifecycle!lifecycle)
<1> SUFFICES ASSUME IInv, [Next]_vars
             PROVE  Lifecycle!Next \/ UNCHANGED <<status, snaps, finals>>
  BY DEF Lifecycle!lifecycle, LastPacket
<1>1. CASE UNCHANGED vars
  BY <1>1 DEF vars
<1>2. CASE Create
  <2>1. PICK p \in Periods, mode \in {"OPEN_CREATION", "PREPARED_CREATION"} :
           CreateFromCandidate(p, mode)
    BY <1>2 DEF Create
  <2>2. Lifecycle!Create(p)
    BY <2>1 DEF CreateFromCandidate, SlotFree, InsertPeriod, Target, reviewVars,
                Lifecycle!Create, Lifecycle!Free, LastPacket
  <2> QED
    BY <2>2 DEF Lifecycle!Next
<1>3. CASE Operate
  <2>1. PICK p \in Periods :
           \/ ChangeLines(p)
           \/ ChangeBonuses(p)
           \/ \E u \in Users :
                 \/ Submit(p, u)
                 \/ Resubmit(p, u)
                 \/ \E i \in DOMAIN items[p] :
                       \/ Approve(p, i, u)
                       \/ SendBack(p, i, u, "Rejected")
                       \/ SendBack(p, i, u, "EditRequested")
           \/ FinalizePeriod(p)
           \/ Cancel(p)
           \/ Archive(p)
    BY <1>3 DEF Operate
  <2>0. TypeOK /\ live[p] \in SUBSET Facts /\ events[p] \in Nat
    BY DEF IInv, CoreInv, TypeOK
  <2>2. CASE ChangeLines(p) \/ ChangeBonuses(p)
    BY <2>2 DEF ChangeLines, ChangeBonuses, WriteFacts, reviewVars
  <2>3. CASE \E u \in Users : Submit(p, u)
    <3>1. PICK u \in Users : Submit(p, u)
      BY <2>3
    <3>2. /\ status[p] = "Open"
          /\ \A q \in Periods : status[q] \notin {"InReview", "Returned"}
          /\ live[p] # {}
          /\ HandIn(p, u, Database)
      BY <3>1 DEF Submit, SubmitReading, SubmitAllowed, HandInAllowed, ReviewSlotFree,
                  Database
    <3>3. /\ status' = [q \in Periods |-> IF q = p THEN "InReview"
                            ELSE IF q \in {d \in Periods : status[d] = "Draft"} THEN "Open"
                            ELSE status[q]]
          /\ UNCHANGED finals
      BY <3>1 DEF Submit, SubmitReading, Drafts, Database
    <3>4. Lifecycle!Submit(p)
      BY <2>0, <3>2, <3>3, HandInMaps DEF Lifecycle!Submit, Lifecycle!Free, Database
    <3> QED
      BY <3>4 DEF Lifecycle!Next
  <2>4. CASE \E u \in Users : Resubmit(p, u)
    <3>1. PICK u \in Users : Resubmit(p, u)
      BY <2>4
    <3>2. /\ status[p] = "Returned" /\ live[p] # {} /\ HandIn(p, u, Database)
          /\ status' = [status EXCEPT ![p] = "InReview"]
          /\ UNCHANGED finals
      BY <3>1 DEF Resubmit, ResubmitReading, ResubmitAllowed, HandInAllowed, Database
    <3>3. Lifecycle!Resubmit(p)
      BY <2>0, <3>2, HandInMaps DEF Lifecycle!Resubmit, Database
    <3> QED
      BY <3>3 DEF Lifecycle!Next
  <2>5. CASE \E u \in Users, i \in DOMAIN items[p] : Approve(p, i, u)
    <3>1. Lifecycle!Approve(p)
      BY <2>5, MoveMaps DEF Approve, Decide, DecideAllowed, Lifecycle!Approve
    <3> QED
      BY <3>1 DEF Lifecycle!Next
  <2>6. CASE \E u \in Users, i \in DOMAIN items[p], v \in {"Rejected", "EditRequested"} :
               SendBack(p, i, u, v)
    <3>1. Lifecycle!Return(p)
      BY <2>6, MoveMaps DEF SendBack, Decide, DecideAllowed, Lifecycle!Return
    <3> QED
      BY <3>1 DEF Lifecycle!Next
  <2>7. CASE FinalizePeriod(p)
    BY <2>7, FinalizeMaps DEF IInv, Lifecycle!Next
  <2>8. CASE Cancel(p)
    <3>1. Lifecycle!Cancel(p)
      BY <2>8, MoveMaps DEF Cancel, Patch, reviewVars, Lifecycle!Cancel
    <3> QED
      BY <3>1 DEF Lifecycle!Next
  <2>9. CASE Archive(p)
    <3>1. Lifecycle!Archive(p)
      BY <2>9, MoveMaps DEF Archive, Patch, reviewVars, Lifecycle!Archive
    <3> QED
      BY <3>1 DEF Lifecycle!Next
  <2> QED
    BY <2>1, <2>2, <2>3, <2>4, <2>5, <2>6, <2>7, <2>8, <2>9
<1> QED
  BY <1>1, <1>2, <1>3 DEF Next

\* Every run of the handlers is a run of the lifecycle: one slot of each
\* kind, review of what was handed in, payment of what was approved.
THEOREM ImplementsLifecycle == Spec => LifecycleImplemented
  BY InitMaps, NextMaps, Invariance, PTL DEF Spec, LifecycleImplemented, Lifecycle!Spec

-----------------------------------------------------------------------------
(* The calendar and the history of the branch: the positions of the        *)
(* periods have no gap, the prepared period follows the open one, a        *)
(* submission opens the prepared period, and history is append-only.       *)
(*                                                                         *)
(* CalendarGapless and DraftFollowsOpen are inductive together, on top of  *)
(* IInv.  Creation is the interesting step: the place after the last       *)
(* period that is not cancelled is the place after the open one, because   *)
(* everything submitted lies before an open period.                        *)

\* The calendar starts at position 1.
PositionsStart == \A p \in Periods : status[p] \notin Inactive => pos[p] \in Nat \ {0}

CalendarInv == IInv /\ CalendarGapless /\ DraftFollowsOpen /\ PositionsStart

\* Everything submitted lies before an open period: its place would
\* otherwise be filled twice.
LEMMA SubmittedBeforeOpen ==
    ASSUME CalendarInv, NEW p \in Periods, NEW q \in Periods,
           status[p] = "Open", status[q] \in Submitted
    PROVE  pos[q] < pos[p]
<1> USE DEF CalendarInv
<1>1. pos[p] \in Nat \ {0} /\ pos[q] \in Nat \ {0} /\ p # q
  BY DEF PositionsStart, Submitted, Frozen, Inactive
<1>2. pos[q] # pos[p]
  BY <1>1 DEF CalendarGapless, Submitted, Frozen, Inactive
<1>3. ASSUME pos[q] > pos[p] PROVE FALSE
  <2>1. pos[p] \in 1 .. pos[q] - 1
    BY <1>1, <1>3
  <2>2. PICK r \in Periods : status[r] \in Submitted /\ pos[r] = pos[p]
    BY <2>1 DEF CalendarGapless
  <2>3. r # p
    BY <2>2 DEF Submitted, Frozen
  <2> QED
    BY <2>2, <2>3 DEF CalendarGapless, Submitted, Frozen, Inactive
<1> QED
  BY <1>1, <1>2, <1>3

\* The handlers that neither create nor submit for the first time nor open a
\* period leave the calendar as it is, or take an entry away.
LEMMA CalendarKept ==
    ASSUME CalendarInv, UNCHANGED pos,
           \A q \in Periods :
              /\ status'[q] \in Submitted <=> status[q] \in Submitted
              /\ status'[q] \in {"Open", "Draft"} => status'[q] = status[q]
              /\ status'[q] \notin Inactive => status[q] \notin Inactive
    PROVE  CalendarGapless' /\ DraftFollowsOpen' /\ PositionsStart'
<1> USE DEF CalendarInv
<1>1. CalendarGapless'
  <2> SUFFICES ASSUME NEW p \in Periods, status'[p] \in Submitted \cup {"Open"}
               PROVE  /\ \A n \in 1 .. pos'[p] - 1 :
                            \E q \in Periods : status'[q] \in Submitted /\ pos'[q] = n
                      /\ \A q \in Periods \ {p} :
                            status'[q] \notin Inactive => pos'[q] # pos'[p]
    BY DEF CalendarGapless
  <2>1. status[p] \in Submitted \cup {"Open"}
    OBVIOUS
  <2> QED
    BY <2>1 DEF CalendarGapless
<1>2. DraftFollowsOpen'
  BY DEF DraftFollowsOpen
<1>3. PositionsStart'
  BY DEF PositionsStart
<1> QED
  BY <1>1, <1>2, <1>3

\* A created period takes the first free position, after all the others.
LEMMA CreateKeepsCalendar ==
    ASSUME CalendarInv, NEW p \in Periods,
           NEW mode \in {"OPEN_CREATION", "PREPARED_CREATION"},
           CreateFromCandidate(p, mode)
    PROVE  CalendarGapless' /\ DraftFollowsOpen' /\ PositionsStart'
<1> USE DEF CalendarInv
<1>1. PICK n \in 1 .. MaxPosition : IsNextPosition(n) /\ InsertPeriod(p, mode, n)
  BY DEF CreateFromCandidate
<1>2. /\ status[p] = "None" /\ status' = [status EXCEPT ![p] = Target(mode)]
      /\ pos' = [pos EXCEPT ![p] = n]
  BY <1>1 DEF InsertPeriod
<1>3. /\ status'[p] = Target(mode) /\ pos'[p] = n /\ n \in Nat \ {0}
      /\ \A q \in Periods \ {p} : status'[q] = status[q] /\ pos'[q] = pos[q]
      /\ \A q \in Periods : pos[q] \in Nat
  BY <1>2, WorkflowAssumption DEF IInv, CoreInv, TypeOK
<1>4. \A q \in Periods : status[q] \notin Inactive => pos[q] < n
  BY <1>1 DEF IsNextPosition
<1>5. n = 1 \/ \E q \in Periods : status[q] \notin Inactive /\ pos[q] = n - 1
  BY <1>1 DEF IsNextPosition
<1>6. \A q \in Periods : status[q] # "Draft"
  BY DEF CreateFromCandidate, SlotFree
<1>7. PositionsStart'
  BY <1>3 DEF PositionsStart
<1>8. CASE mode = "OPEN_CREATION"
  <2>1. \A q \in Periods : status[q] # "Open"
    BY <1>8 DEF CreateFromCandidate, SlotFree
  <2>2. \A q \in Periods : status[q] \notin Inactive => status[q] \in Submitted
    BY <1>6, <2>1 DEF IInv, CoreInv, TypeOK, Statuses, Submitted, Frozen, Inactive
  <2>3. \A m \in 1 .. n - 1 : \E q \in Periods : status[q] \in Submitted /\ pos[q] = m
    <3> SUFFICES ASSUME NEW m \in 1 .. n - 1
                 PROVE  \E q \in Periods : status[q] \in Submitted /\ pos[q] = m
      OBVIOUS
    <3>1. PICK q \in Periods : status[q] \in Submitted /\ pos[q] = n - 1
      BY <1>3, <1>5, <2>2
    <3>2. CASE m = n - 1
      BY <3>1, <3>2
    <3>3. CASE m # n - 1
      BY <3>1, <3>3, <1>3 DEF CalendarGapless
    <3> QED
      BY <3>2, <3>3
  <2>4. CalendarGapless'
    <3> SUFFICES ASSUME NEW r \in Periods, status'[r] \in Submitted \cup {"Open"}
                 PROVE  /\ \A m \in 1 .. pos'[r] - 1 :
                              \E q \in Periods : status'[q] \in Submitted /\ pos'[q] = m
                        /\ \A q \in Periods \ {r} :
                              status'[q] \notin Inactive => pos'[q] # pos'[r]
      BY DEF CalendarGapless
    <3>1. \A q \in Periods : status[q] \in Submitted => q # p
      BY <1>2 DEF Submitted, Frozen
    <3>2. CASE r = p
      BY <3>1, <3>2, <1>3, <1>4, <2>3
    <3>3. CASE r # p
      <4>1. status[r] \in Submitted \cup {"Open"} /\ status[r] \notin Inactive
        BY <3>3, <1>3 DEF Submitted, Frozen, Inactive
      <4>2. \A m \in 1 .. pos[r] - 1 :
               \E q \in Periods : status[q] \in Submitted /\ pos[q] = m
        BY <4>1 DEF CalendarGapless
      <4>3. \A m \in 1 .. pos'[r] - 1 :
               \E q \in Periods : status'[q] \in Submitted /\ pos'[q] = m
        BY <3>1, <3>3, <4>2, <1>3
      <4>4. \A q \in Periods \ {r} : status'[q] \notin Inactive => pos'[q] # pos'[r]
        BY <3>3, <4>1, <1>3, <1>4 DEF CalendarGapless
      <4> QED
        BY <4>3, <4>4
    <3> QED
      BY <3>2, <3>3
  <2>5. DraftFollowsOpen'
    BY <1>3, <1>6, <1>8 DEF DraftFollowsOpen, Target
  <2> QED
    BY <2>4, <2>5, <1>7
<1>9. CASE mode = "PREPARED_CREATION"
  <2>1. Target(mode) = "Draft"
    BY <1>9 DEF Target
  <2>2. PICK o \in Periods : status[o] = "Open"
    BY <1>9 DEF CreateFromCandidate, SlotFree
  <2>3. n = pos[o] + 1
    <3>1. pos[o] < n
      BY <2>2, <1>4 DEF Inactive
    <3>2. PICK q \in Periods : status[q] \notin Inactive /\ pos[q] = n - 1
      BY <3>1, <2>2, <1>3, <1>5 DEF PositionsStart, Inactive
    <3>3. CASE status[q] \in Submitted
      BY <3>1, <3>2, <3>3, <2>2, <1>3, SubmittedBeforeOpen
    <3>4. CASE status[q] = "Open"
      BY <3>2, <3>4, <2>2, <1>3 DEF IInv, CoreInv, SlotsUnique
    <3> QED
      BY <3>2, <3>3, <3>4, <1>6 DEF IInv, CoreInv, TypeOK, Statuses, Submitted, Frozen, Inactive
  <2>4. CalendarGapless'
    <3> SUFFICES ASSUME NEW r \in Periods, status'[r] \in Submitted \cup {"Open"}
                 PROVE  /\ \A m \in 1 .. pos'[r] - 1 :
                              \E q \in Periods : status'[q] \in Submitted /\ pos'[q] = m
                        /\ \A q \in Periods \ {r} :
                              status'[q] \notin Inactive => pos'[q] # pos'[r]
      BY DEF CalendarGapless
    <3>1. r # p /\ \A q \in Periods : status[q] \in Submitted => q # p
      BY <1>2, <1>3, <2>1 DEF Submitted, Frozen
    <3>2. status[r] \in Submitted \cup {"Open"} /\ status[r] \notin Inactive
      BY <3>1, <1>3 DEF Submitted, Frozen, Inactive
    <3>3. \A m \in 1 .. pos[r] - 1 :
             \E q \in Periods : status[q] \in Submitted /\ pos[q] = m
      BY <3>2 DEF CalendarGapless
    <3>4. \A m \in 1 .. pos'[r] - 1 :
             \E q \in Periods : status'[q] \in Submitted /\ pos'[q] = m
      BY <3>1, <3>3, <1>3
    <3>5. \A q \in Periods \ {r} : status'[q] \notin Inactive => pos'[q] # pos'[r]
      BY <3>1, <3>2, <1>3, <1>4 DEF CalendarGapless
    <3> QED
      BY <3>4, <3>5
  <2>5. DraftFollowsOpen'
    <3> SUFFICES ASSUME NEW r \in Periods, NEW d \in Periods,
                        status'[r] = "Open", status'[d] = "Draft"
                 PROVE  pos'[d] = pos'[r] + 1
      BY DEF DraftFollowsOpen
    <3>1. d = p /\ r # p
      BY <1>3, <1>6, <2>1
    <3>2. r = o
      BY <3>1, <1>3, <2>2 DEF IInv, CoreInv, SlotsUnique
    <3> QED
      BY <3>1, <3>2, <1>3, <2>3
  <2> QED
    BY <2>4, <2>5, <1>7
<1> QED
  BY <1>8, <1>9

\* A submission extends the submitted prefix by the open period, and the
\* promoted period follows it.
LEMMA SubmitKeepsCalendar ==
    ASSUME CalendarInv, NEW p \in Periods, NEW u \in Users, Submit(p, u)
    PROVE  CalendarGapless' /\ DraftFollowsOpen' /\ PositionsStart'
<1> USE DEF CalendarInv
<1>1. status[p] = "Open" /\ UNCHANGED pos
  BY DEF Submit, SubmitReading, SubmitAllowed, Database
<1>2. \A q \in Periods : status'[q] = IF q = p THEN "InReview"
                                      ELSE IF status[q] = "Draft" THEN "Open"
                                      ELSE status[q]
  BY DEF Submit, SubmitReading, Drafts, Database
<1>3. \A q \in Periods : pos[q] \in Nat
  BY DEF IInv, CoreInv, TypeOK
<1>4. PositionsStart'
  BY <1>1, <1>2 DEF PositionsStart, Inactive
<1>5. \A q \in Periods : status'[q] # "Draft"
  BY <1>2
<1>6. DraftFollowsOpen'
  BY <1>5 DEF DraftFollowsOpen
<1>7. \A q \in Periods : status[q] \in Submitted => status'[q] \in Submitted
  BY <1>1, <1>2 DEF Submitted, Frozen
<1>8. status'[p] \in Submitted
  BY <1>2 DEF Submitted, Frozen
<1>9. CalendarGapless'
  <2> SUFFICES ASSUME NEW r \in Periods, status'[r] \in Submitted \cup {"Open"}
               PROVE  /\ \A m \in 1 .. pos[r] - 1 :
                            \E q \in Periods : status'[q] \in Submitted /\ pos[q] = m
                      /\ \A q \in Periods \ {r} :
                            status'[q] \notin Inactive => pos[q] # pos[r]
    BY <1>1 DEF CalendarGapless
  <2>1. \A q \in Periods : status'[q] \notin Inactive => status[q] \notin Inactive
    BY <1>1, <1>2 DEF Inactive
  <2>2. CASE status[r] \in Submitted \cup {"Open"}
    BY <2>1, <2>2, <1>7 DEF CalendarGapless
  <2>3. CASE status[r] \notin Submitted \cup {"Open"}
    <3>1. status[r] = "Draft" /\ pos[r] = pos[p] + 1
      BY <2>3, <1>1, <1>2 DEF DraftFollowsOpen
    <3>2. ASSUME NEW m \in 1 .. pos[r] - 1
          PROVE  \E q \in Periods : status'[q] \in Submitted /\ pos[q] = m
      <4>1. CASE m = pos[p]
        BY <4>1, <1>8
      <4>2. CASE m \in 1 .. pos[p] - 1
        BY <4>2, <1>1, <1>7 DEF CalendarGapless
      <4> QED
        BY <3>1, <4>1, <4>2, <1>3
    <3>3. ASSUME NEW q \in Periods \ {r}, status'[q] \notin Inactive
          PROVE  pos[q] # pos[r]
      <4>1. status[q] \notin Inactive
        BY <2>1, <3>3
      <4>2. CASE q = p
        BY <4>2, <3>1, <1>3
      <4>3. CASE status[q] \in Submitted
        BY <4>3, <3>1, <1>1, <1>3, SubmittedBeforeOpen
      <4>4. status[q] \notin {"Open", "Draft"} \/ q = p
        BY <3>1, <1>1 DEF IInv, CoreInv, SlotsUnique
      <4> QED
        BY <4>1, <4>2, <4>3, <4>4 DEF IInv, CoreInv, TypeOK, Statuses, Submitted, Frozen, Inactive
    <3> QED
      BY <3>2, <3>3
  <2> QED
    BY <2>2, <2>3
<1> QED
  BY <1>4, <1>6, <1>9

\* Every handler keeps the calendar invariant.
LEMMA NextCalendarInv == CalendarInv /\ [Next]_vars => CalendarInv'
<1> SUFFICES ASSUME CalendarInv, [Next]_vars
             PROVE  CalendarGapless' /\ DraftFollowsOpen' /\ PositionsStart'
  BY NextIInv DEF CalendarInv
<1>1. status \in [Periods -> Statuses]
  BY DEF CalendarInv, IInv, CoreInv, TypeOK
<1>2. CASE UNCHANGED vars
  BY <1>2, CalendarKept DEF vars
<1>3. CASE Create
  BY <1>3, CreateKeepsCalendar DEF Create
<1>4. CASE Operate
  <2>1. PICK p \in Periods :
           \/ ChangeLines(p)
           \/ ChangeBonuses(p)
           \/ \E u \in Users :
                 \/ Submit(p, u)
                 \/ Resubmit(p, u)
                 \/ \E i \in DOMAIN items[p] :
                       \/ Approve(p, i, u)
                       \/ SendBack(p, i, u, "Rejected")
                       \/ SendBack(p, i, u, "EditRequested")
           \/ FinalizePeriod(p)
           \/ Cancel(p)
           \/ Archive(p)
    BY <1>4 DEF Operate
  <2>2. CASE ChangeLines(p) \/ ChangeBonuses(p)
    <3>1. UNCHANGED <<status, pos>>
      BY <2>2 DEF ChangeLines, ChangeBonuses, WriteFacts
    <3> QED
      BY <3>1, CalendarKept
  <2>3. CASE \E u \in Users : Submit(p, u)
    BY <2>3, SubmitKeepsCalendar
  <2>4. CASE \E to : /\ status' = [status EXCEPT ![p] = to]
                     /\ UNCHANGED pos
                     /\ \/ status[p] \in Submitted /\ to \in Submitted
                        \/ status[p] \in {"Draft", "Open"} /\ to = "Cancelled"
    <3>1. PICK to : /\ status' = [status EXCEPT ![p] = to]
                    /\ UNCHANGED pos
                    /\ \/ status[p] \in Submitted /\ to \in Submitted
                       \/ status[p] \in {"Draft", "Open"} /\ to = "Cancelled"
      BY <2>4
    <3>2. status'[p] = to /\ \A q \in Periods \ {p} : status'[q] = status[q]
      BY <1>1, <3>1
    <3>3. \A q \in Periods :
             /\ status'[q] \in Submitted <=> status[q] \in Submitted
             /\ status'[q] \in {"Open", "Draft"} => status'[q] = status[q]
             /\ status'[q] \notin Inactive => status[q] \notin Inactive
      BY <3>1, <3>2 DEF Submitted, Frozen, Inactive
    <3> QED
      BY <3>1, <3>3, CalendarKept
  <2>5. CASE \E u \in Users : Resubmit(p, u)
    BY <2>4, <2>5 DEF Resubmit, ResubmitReading, ResubmitAllowed, Database, Submitted, Frozen
  <2>6. CASE \E u \in Users, i \in DOMAIN items[p] : Approve(p, i, u)
    BY <2>4, <2>6 DEF Approve, Decide, DecideAllowed, Submitted, Frozen
  <2>7. CASE \E u \in Users, i \in DOMAIN items[p], v \in {"Rejected", "EditRequested"} :
               SendBack(p, i, u, v)
    BY <2>4, <2>7 DEF SendBack, Decide, DecideAllowed, Submitted, Frozen
  <2>8. CASE FinalizePeriod(p)
    BY <2>4, <2>8 DEF FinalizePeriod, FinalizeAllowed, Submitted, Frozen
  <2>9. CASE Cancel(p) \/ Archive(p)
    BY <2>4, <2>9 DEF Cancel, Archive, Patch, Submitted, Frozen
  <2> QED
    BY <2>1, <2>2, <2>3, <2>5, <2>6, <2>7, <2>8, <2>9
<1> QED
  BY <1>2, <1>3, <1>4 DEF Next

\* The calendar invariant holds in every reachable state.
LEMMA CalendarInvariance == Spec => []CalendarInv
<1>1. Init => CalendarInv
  BY InitIInv DEF Init, CalendarInv, CalendarGapless, DraftFollowsOpen, PositionsStart,
                  Submitted, Frozen, Inactive
<1> QED
  BY <1>1, NextCalendarInv, PTL DEF Spec

\* No position before an open or submitted period is unpaid, and none is
\* paid twice, however often periods are cancelled and created again.
THEOREM CalendarHasNoGap == Spec => []CalendarGapless
<1>1. CalendarInv => CalendarGapless
  BY DEF CalendarInv
<1> QED
  BY <1>1, CalendarInvariance, PTL

\* The prepared period is the one a submission may promote.
THEOREM PreparedIsNext == Spec => []DraftFollowsOpen
<1>1. CalendarInv => DraftFollowsOpen
  BY DEF CalendarInv
<1> QED
  BY <1>1, CalendarInvariance, PTL

-----------------------------------------------------------------------------
(* History                                                                 *)

\* What no handler does to a period p: drop or change a snapshot, decide a
\* decided item, or change final lines.
HistoryKept(p) ==
    /\ Len(snaps'[p]) >= Len(snaps[p])
    /\ \A r \in DOMAIN snaps[p] : snaps'[p][r] = snaps[p][r]
    /\ \A i \in DOMAIN items[p] :
          items[p][i].status # "Pending" => items'[p][i] = items[p][i]
    /\ finals[p] # {} => finals'[p] = finals[p]

\* A handler that leaves snapshots, items and final lines alone keeps history.
LEMMA NothingRewritten ==
    ASSUME TypeOK, NEW p \in Periods, UNCHANGED <<snaps, items, finals>>
    PROVE  HistoryKept(p)
<1>1. Len(snaps[p]) \in Nat
  BY DEF TypeOK
<1> QED
  BY <1>1 DEF HistoryKept

\* A submission appends to history and rewrites none of it, whatever it read.
LEMMA HandInKeepsHistory ==
    ASSUME TypeOK, NEW p \in Periods, NEW u \in Users, NEW db,
           db.live[p] \in SUBSET Facts, db.events[p] \in Nat, HandIn(p, u, db),
           UNCHANGED finals, NEW q \in Periods
    PROVE  HistoryKept(q)
<1>1. /\ Len(snaps'[p]) = Len(snaps[p]) + 1
      /\ \A r \in 1 .. Len(snaps[p]) : snaps'[p][r] = snaps[p][r]
      /\ \A i \in 1 .. Len(items[p]) : items'[p][i] = items[p][i]
      /\ \A o \in Periods \ {p} : snaps'[o] = snaps[o] /\ items'[o] = items[o]
  BY HandInEffect
<1>2. /\ Len(snaps[q]) \in Nat
      /\ DOMAIN snaps[q] = 1 .. Len(snaps[q]) /\ DOMAIN items[q] = 1 .. Len(items[q])
  BY DEF TypeOK
<1>3. CASE q = p
  BY <1>1, <1>2, <1>3 DEF HistoryKept
<1>4. CASE q # p
  BY <1>1, <1>2, <1>4 DEF HistoryKept
<1> QED
  BY <1>3, <1>4

\* A decision changes the one Pending item it is about.
LEMMA DecisionKeepsHistory ==
    ASSUME TypeOK, NEW p \in Periods, NEW i \in DOMAIN items[p], NEW u \in Users,
           NEW verdict \in ItemStatuses, Decide(p, i, u, verdict), NEW q \in Periods
    PROVE  HistoryKept(q)
<1>1. UNCHANGED <<snaps, finals>> /\ items[p][i].status = "Pending"
  BY DEF Decide, DecideAllowed
<1>2. /\ \A j \in 1 .. Len(items[p]) : j # i => items'[p][j] = items[p][j]
      /\ \A o \in Periods \ {p} : items'[o] = items[o]
  BY DecideEffect
<1>3. Len(snaps[q]) \in Nat /\ DOMAIN items[q] = 1 .. Len(items[q])
  BY DEF TypeOK
<1> QED
  BY <1>1, <1>2, <1>3 DEF HistoryKept

\* A finalization writes final lines where there were none.
LEMMA FinalizeKeepsHistory ==
    ASSUME CoreInv, NEW p \in Periods, FinalizePeriod(p), NEW q \in Periods
    PROVE  HistoryKept(q)
<1>1. /\ status[p] = "Approved" /\ UNCHANGED <<snaps, items>>
      /\ \A o \in Periods \ {p} : finals'[o] = finals[o]
  BY DEF FinalizePeriod, FinalizeAllowed, reviewVars, CoreInv, TypeOK
<1>2. finals[p] = {}
  BY <1>1 DEF CoreInv, PaidIsApproved
<1>3. Len(snaps[q]) \in Nat
  BY DEF CoreInv, TypeOK
<1> QED
  BY <1>1, <1>2, <1>3 DEF HistoryKept

\* No handler rewrites history.
LEMMA NextKeepsHistory ==
    ASSUME IInv, Next, NEW q \in Periods
    PROVE  HistoryKept(q)
<1>1. CASE Create
  BY <1>1, NothingRewritten DEF IInv, CoreInv, Create, CreateFromCandidate, InsertPeriod, reviewVars
<1>2. CASE Operate
  <2>1. PICK p \in Periods :
           \/ ChangeLines(p)
           \/ ChangeBonuses(p)
           \/ \E u \in Users :
                 \/ Submit(p, u)
                 \/ Resubmit(p, u)
                 \/ \E i \in DOMAIN items[p] :
                       \/ Approve(p, i, u)
                       \/ SendBack(p, i, u, "Rejected")
                       \/ SendBack(p, i, u, "EditRequested")
           \/ FinalizePeriod(p)
           \/ Cancel(p)
           \/ Archive(p)
    BY <1>2 DEF Operate
  <2>0. TypeOK /\ Database.live[p] \in SUBSET Facts /\ Database.events[p] \in Nat
    BY DEF IInv, CoreInv, TypeOK, Database
  <2>2. CASE ChangeLines(p) \/ ChangeBonuses(p)
    BY <2>0, <2>2, NothingRewritten DEF ChangeLines, ChangeBonuses, WriteFacts, reviewVars
  <2>3. CASE \E u \in Users : Submit(p, u)
    BY <2>0, <2>3, HandInKeepsHistory DEF Submit, SubmitReading
  <2>4. CASE \E u \in Users : Resubmit(p, u)
    BY <2>0, <2>4, HandInKeepsHistory DEF Resubmit, ResubmitReading
  <2>5. CASE \E u \in Users, i \in DOMAIN items[p] : Approve(p, i, u)
    BY <2>0, <2>5, DecisionKeepsHistory DEF Approve, ItemStatuses
  <2>6. CASE \E u \in Users, i \in DOMAIN items[p], v \in {"Rejected", "EditRequested"} :
               SendBack(p, i, u, v)
    BY <2>0, <2>6, DecisionKeepsHistory DEF SendBack, ItemStatuses
  <2>7. CASE FinalizePeriod(p)
    BY <2>7, FinalizeKeepsHistory DEF IInv
  <2>8. CASE Cancel(p) \/ Archive(p)
    BY <2>0, <2>8, NothingRewritten DEF Cancel, Archive, Patch, reviewVars
  <2> QED
    BY <2>1, <2>2, <2>3, <2>4, <2>5, <2>6, <2>7, <2>8
<1> QED
  BY <1>1, <1>2 DEF Next

\* Snapshots, decided items and final lines are never rewritten.
THEOREM HistoryIsImmutable == Spec => HistoryImmutable
<1>1. IInv /\ [Next]_vars =>
         [\A p \in Periods :
            /\ Len(snaps'[p]) >= Len(snaps[p])
            /\ \A r \in DOMAIN snaps[p] : snaps'[p][r] = snaps[p][r]
            /\ \A i \in DOMAIN items[p] :
                  items[p][i].status # "Pending" => items'[p][i] = items[p][i]
            /\ finals[p] # {} => finals'[p] = finals[p]]_vars
  BY NextKeepsHistory DEF HistoryKept
<1> QED
  BY <1>1, Invariance, PTL DEF Spec, HistoryImmutable

-----------------------------------------------------------------------------
(* Promotion                                                               *)

\* Only a submission takes a period from entry to review.
LEMMA OnlySubmitEntersReview ==
    ASSUME IInv, Next, NEW p \in Periods, status[p] = "Open", status'[p] = "InReview"
    PROVE  \E u \in Users : Submit(p, u)
<1>1. CASE Create
  BY <1>1 DEF Create, CreateFromCandidate, InsertPeriod, Target, IInv, CoreInv, TypeOK
<1>2. CASE Operate
  <2>1. PICK q \in Periods :
           \/ ChangeLines(q)
           \/ ChangeBonuses(q)
           \/ \E u \in Users :
                 \/ Submit(q, u)
                 \/ Resubmit(q, u)
                 \/ \E i \in DOMAIN items[q] :
                       \/ Approve(q, i, u)
                       \/ SendBack(q, i, u, "Rejected")
                       \/ SendBack(q, i, u, "EditRequested")
           \/ FinalizePeriod(q)
           \/ Cancel(q)
           \/ Archive(q)
    BY <1>2 DEF Operate
  <2>2. CASE ChangeLines(q) \/ ChangeBonuses(q)
    BY <2>2 DEF ChangeLines, ChangeBonuses, WriteFacts
  <2>3. CASE \E u \in Users : Submit(q, u)
    BY <2>3 DEF Submit, SubmitReading
  <2>4. CASE \E u \in Users : Resubmit(q, u)
    BY <2>4 DEF Resubmit, ResubmitReading, ResubmitAllowed, Database, IInv, CoreInv, TypeOK
  <2>5. CASE \E u \in Users, i \in DOMAIN items[q] : Approve(q, i, u)
    BY <2>5 DEF Approve, IInv, CoreInv, TypeOK
  <2>6. CASE \E u \in Users, i \in DOMAIN items[q], v \in {"Rejected", "EditRequested"} :
               SendBack(q, i, u, v)
    BY <2>6 DEF SendBack, IInv, CoreInv, TypeOK
  <2>7. CASE FinalizePeriod(q)
    BY <2>7 DEF FinalizePeriod, IInv, CoreInv, TypeOK
  <2>8. CASE Cancel(q) \/ Archive(q)
    BY <2>8 DEF Cancel, Archive, Patch, IInv, CoreInv, TypeOK
  <2> QED
    BY <2>1, <2>2, <2>3, <2>4, <2>5, <2>6, <2>7, <2>8
<1> QED
  BY <1>1, <1>2 DEF Next

\* As long as handlers run one at a time, a submission leaves no prepared
\* period behind: the branch is never left with a prepared and no open one.
THEOREM SubmissionPromotes == Spec => SubmitPromotes
<1>1. ASSUME IInv, Next, NEW p \in Periods, status[p] = "Open", status'[p] = "InReview",
             NEW d \in Periods
      PROVE  status'[d] # "Draft"
  <2>1. PICK u \in Users : Submit(p, u)
    BY <1>1, OnlySubmitEntersReview
  <2>2. status'[d] = IF d = p THEN "InReview"
                     ELSE IF status[d] = "Draft" THEN "Open" ELSE status[d]
    BY <2>1 DEF Submit, SubmitReading, Drafts, Database
  <2> QED
    BY <2>2
<1>2. IInv /\ [Next]_vars =>
         [\A p \in Periods :
            status[p] = "Open" /\ status'[p] = "InReview"
                => \A d \in Periods : status'[d] # "Draft"]_vars
  BY <1>1
<1> QED
  BY <1>2, Invariance, PTL DEF Spec, SubmitPromotes
==============================================================================
