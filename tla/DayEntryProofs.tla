---------------------------- MODULE DayEntryProofs ----------------------------
(***************************************************************************)
(* Proofs about DayEntry, for any catalog, limits, drivers, days, clerks   *)
(* and bounds: no work on full days off, and no save above a usage limit.  *)
(***************************************************************************)
EXTENDS DayEntry, FiniteSetTheorems, TLAPS

Status == [active : BOOLEAN, off : BOOLEAN]

\* What clerks are served, with what was read for them.
SaveRequests ==
    [op : {"save"}, day : Days, rows : Rows, seen : UNION {[K -> Status] : K \in SUBSET Keys}]
UpdateRequests == [op : {"update"}, slot : Slots, i : Nat, seen : Line]
VoidRequests   == [op : {"void"}, slot : Slots, i : Nat]
ReviewRequests == [op : {"review"}, slot : Slots, expected : Quantities \cup {None}]
Requests == SaveRequests \cup UpdateRequests \cup VoidRequests \cup ReviewRequests

\* A save judges the statuses of its rows, and no others.
SeenIsSelected ==
    \A c \in Clerks : pending[c] # None /\ pending[c] \in SaveRequests =>
        DOMAIN pending[c].seen = Selected(pending[c].rows)

Types ==
    /\ keys \in [Keys -> Status]
    /\ held \in [Slots -> Keys \cup {None}]
    /\ lines \in [Slots -> Seq(Line)]
    /\ pending \in [Clerks -> Requests \cup {None}]
    /\ SeenIsSelected

\* The inductive invariant.
IInv == Types /\ NoWorkOnDaysOff

-----------------------------------------------------------------------------
(* Lines of a day *)

\* A day's lines stay lines when a value is entered.
LEMMA EnteredType ==
    ASSUME NEW ls \in Seq(Line), NEW qty \in Quantities \cup {None}
    PROVE  Entered(ls, qty) \in Seq(Line)
<1>1. CASE qty = None \/ (qty = 0 /\ Live(ls) = {})
  BY <1>1 DEF Entered
<1>2. CASE ~(qty = None \/ (qty = 0 /\ Live(ls) = {})) /\ Live(ls) = {}
  <2>1. [qty |-> qty, void |-> FALSE] \in Line
    BY <1>2 DEF Line
  <2> QED
    BY <1>2, <2>1 DEF Entered
<1>3. CASE qty # None /\ Live(ls) # {}
  <2> DEFINE i == CHOOSE j \in Live(ls) : TRUE
  <2>1. i \in Live(ls)
    BY <1>3
  <2>2. i \in DOMAIN ls /\ ls[i] \in Line
    BY <2>1 DEF Live
  <2> HIDE DEF i
  <2>3. /\ [ls[i] EXCEPT !.void = TRUE] \in Line
        /\ [ls[i] EXCEPT !.qty = qty] \in Line
    BY <1>3, <2>2 DEF Line
  <2>4. /\ [ls EXCEPT ![i] = [ls[i] EXCEPT !.void = TRUE]] \in Seq(Line)
        /\ [ls EXCEPT ![i] = [ls[i] EXCEPT !.qty = qty]] \in Seq(Line)
    BY <2>2, <2>3
  <2>5. Entered(ls, qty) = IF qty = 0 THEN [ls EXCEPT ![i] = [ls[i] EXCEPT !.void = TRUE]]
                                      ELSE [ls EXCEPT ![i] = [ls[i] EXCEPT !.qty = qty]]
    BY <1>3 DEF Entered, i
  <2> QED
    BY <2>4, <2>5
<1> QED
  BY <1>1, <1>2, <1>3

\* Replacing a line by a line, too.
LEMMA ReplacedType ==
    ASSUME NEW ls \in Seq(Line), NEW i, NEW new, i \in DOMAIN ls => new \in Line
    PROVE  [ls EXCEPT ![i] = new] \in Seq(Line)
<1>1. CASE i \in DOMAIN ls
  BY <1>1
<1>2. CASE i \notin DOMAIN ls
  <2>1. [ls EXCEPT ![i] = new] = ls
    BY <1>2
  <2> QED
    BY <2>1
<1> QED
  BY <1>1, <1>2

\* A line that is replaced by one that is void or of no quantity adds no work.
LEMMA ReplacedAddsNoWork ==
    ASSUME NEW ls \in Seq(Line), NEW i, NEW new, i \in DOMAIN ls => new \in Line,
           new.void \/ new.qty = 0, ~Works(ls)
    PROVE  ~Works([ls EXCEPT ![i] = new])
<1> DEFINE after == [ls EXCEPT ![i] = new]
<1> SUFFICES ASSUME NEW j \in Live(after), after[j].qty > 0
             PROVE  FALSE
  BY DEF Works
<1>1. j \in DOMAIN ls /\ ls[j] \in Line
  BY DEF Live
<1>2. CASE j = i
  BY <1>1, <1>2, DayEntryAssumption DEF Live, Line
<1>3. CASE j # i
  BY <1>1, <1>3 DEF Live, Works
<1> QED
  BY <1>2, <1>3

\* Nor does a new line of no quantity.
LEMMA AppendedAddsNoWork ==
    ASSUME NEW ls \in Seq(Line), NEW new \in Line, new.qty = 0, ~Works(ls)
    PROVE  ~Works(Append(ls, new))
<1> DEFINE after == Append(ls, new)
<1> SUFFICES ASSUME NEW j \in Live(after), after[j].qty > 0
             PROVE  FALSE
  BY DEF Works
<1>1. j \in 1 .. Len(ls) + 1
  BY DEF Live
<1>2. CASE j = Len(ls) + 1
  BY <1>2
<1>3. CASE j \in 1 .. Len(ls)
  BY <1>3 DEF Live, Works
<1> QED
  BY <1>1, <1>2, <1>3

\* Nor does the value zero.
LEMMA ZeroAddsNoWork ==
    ASSUME NEW ls \in Seq(Line), ~Works(ls), 0 \in Quantities
    PROVE  ~Works(Entered(ls, 0))
<1>1. CASE Live(ls) = {}
  BY <1>1 DEF Entered
<1>2. CASE Live(ls) # {}
  <2> DEFINE i == CHOOSE j \in Live(ls) : TRUE
             new == [ls[i] EXCEPT !.void = TRUE]
  <2>1. i \in DOMAIN ls /\ ls[i] \in Line
    BY <1>2 DEF Live
  <2> HIDE DEF i
  <2>2. new \in Line /\ new.void
    BY <2>1 DEF Line
  <2>3. 0 # None
    BY DayEntryAssumption
  <2>4. Entered(ls, 0) = [ls EXCEPT ![i] = new]
    BY <1>2, <2>3 DEF Entered, i
  <2> HIDE DEF new
  <2>5. ~Works([ls EXCEPT ![i] = new])
    BY <2>2, ReplacedAddsNoWork
  <2> QED
    BY <2>4, <2>5
<1> QED
  BY <1>1, <1>2

-----------------------------------------------------------------------------
(* The parts every action has *)

\* A request begins or ends: nothing of the days changes.
LEMMA PendingKeeps ==
    ASSUME IInv, NEW c \in Clerks, NEW r \in Requests \cup {None},
           r # None /\ r \in SaveRequests => DOMAIN r.seen = Selected(r.rows),
           pending' = [pending EXCEPT ![c] = r], UNCHANGED <<keys, held, lines>>
    PROVE  IInv'
<1>1. pending' \in [Clerks -> Requests \cup {None}]
  BY DEF IInv, Types
<1>2. SeenIsSelected'
  BY DEF IInv, Types, SeenIsSelected
<1>3. NoWorkOnDaysOff'
  BY DEF IInv, NoWorkOnDaysOff, IsOff
<1> QED
  BY <1>1, <1>2, <1>3 DEF IInv, Types

\* A request that has been served is forgotten.
LEMMA DoneKeeps ==
    ASSUME Types, NEW c \in Clerks, Done(c)
    PROVE  /\ pending' \in [Clerks -> Requests \cup {None}]
           /\ SeenIsSelected'
           /\ keys' = keys
<1>1. pending' = [pending EXCEPT ![c] = None]
  BY DEF Done
<1> QED
  BY <1>1 DEF Types, SeenIsSelected, Done

\* A write to some days keeps the invariant, if what it leaves there is typed
\* and no full day off works.
LEMMA WriteKeeps ==
    ASSUME IInv, NEW written \in SUBSET Slots,
           held' \in [Slots -> Keys \cup {None}],
           lines' \in [Slots -> Seq(Line)],
           \A s \in Slots \ written : held'[s] = held[s] /\ lines'[s] = lines[s],
           \A s \in written : ~(IsOff(held'[s]) /\ Works(lines'[s])),
           keys' = keys, pending' \in [Clerks -> Requests \cup {None}], SeenIsSelected'
    PROVE  IInv'
<1>1. NoWorkOnDaysOff'
  <2> SUFFICES ASSUME NEW s \in Slots
               PROVE  ~(IsOff(held'[s]) /\ Works(lines'[s]))
    BY DEF NoWorkOnDaysOff, IsOff
  <2> QED
    BY DEF IInv, NoWorkOnDaysOff
<1> QED
  BY <1>1 DEF IInv, Types

-----------------------------------------------------------------------------
(* The actions *)

LEMMA BeginKeeps ==
    ASSUME IInv, NEW c \in Clerks,
           \/ \E day \in Days, rows \in Rows : BeginSave(c, day, rows)
           \/ \E s \in Slots : \E i \in DOMAIN lines[s] : BeginUpdate(c, s, i) \/ BeginVoid(c, s, i)
           \/ \E s \in Slots : BeginReview(c, s)
           \/ Abandon(c)
    PROVE  IInv'
<1> USE DEF Begin
<1>1. ASSUME NEW day \in Days, NEW rows \in Rows, BeginSave(c, day, rows)
      PROVE  IInv'
  <2> DEFINE seen == [k \in Selected(rows) |-> keys[k]]
             r == [op |-> "save", day |-> day, rows |-> rows, seen |-> seen]
  <2>1. Selected(rows) \in SUBSET Keys
    BY DEF Selected, Rows
  <2>2. seen \in [Selected(rows) -> Status]
    BY <2>1 DEF IInv, Types
  <2>3. r \in SaveRequests
    BY <2>1, <2>2 DEF SaveRequests
  <2>4. DOMAIN r.seen = Selected(r.rows)
    OBVIOUS
  <2>5. pending' = [pending EXCEPT ![c] = r] /\ UNCHANGED <<keys, held, lines>>
    BY <1>1 DEF BeginSave
  <2> HIDE DEF r
  <2> QED
    BY <2>3, <2>4, <2>5, PendingKeeps DEF Requests
<1>2. ASSUME NEW s \in Slots, NEW i \in DOMAIN lines[s], BeginUpdate(c, s, i)
      PROVE  IInv'
  <2> DEFINE r == [op |-> "update", slot |-> s, i |-> i, seen |-> lines[s][i]]
  <2>1. lines[s] \in Seq(Line)
    BY DEF IInv, Types
  <2>2. r \in UpdateRequests /\ r \notin SaveRequests
    BY <2>1 DEF UpdateRequests, SaveRequests
  <2>3. pending' = [pending EXCEPT ![c] = r] /\ UNCHANGED <<keys, held, lines>>
    BY <1>2 DEF BeginUpdate
  <2> HIDE DEF r
  <2> QED
    BY <2>2, <2>3, PendingKeeps DEF Requests
<1>3. ASSUME NEW s \in Slots, NEW i \in DOMAIN lines[s], BeginVoid(c, s, i)
      PROVE  IInv'
  <2> DEFINE r == [op |-> "void", slot |-> s, i |-> i]
  <2>1. lines[s] \in Seq(Line)
    BY DEF IInv, Types
  <2>2. r \in VoidRequests /\ r \notin SaveRequests
    BY <2>1 DEF VoidRequests, SaveRequests
  <2>3. pending' = [pending EXCEPT ![c] = r] /\ UNCHANGED <<keys, held, lines>>
    BY <1>3 DEF BeginVoid
  <2> HIDE DEF r
  <2> QED
    BY <2>2, <2>3, PendingKeeps DEF Requests
<1>4. ASSUME NEW s \in Slots, BeginReview(c, s)
      PROVE  IInv'
  <2> DEFINE r == [op |-> "review", slot |-> s, expected |-> Quantity(lines[s])]
  <2>1. Quantity(lines[s]) \in Quantities \cup {None}
    <3>1. lines[s] \in Seq(Line)
      BY DEF IInv, Types
    <3>2. \A i \in Live(lines[s]) : lines[s][i] \in Line
      BY <3>1 DEF Live
    <3> QED
      BY <3>2 DEF Quantity, Line
  <2>2. r \in ReviewRequests /\ r \notin SaveRequests
    BY <2>1 DEF ReviewRequests, SaveRequests
  <2>3. pending' = [pending EXCEPT ![c] = r] /\ UNCHANGED <<keys, held, lines>>
    BY <1>4 DEF BeginReview
  <2> HIDE DEF r
  <2> QED
    BY <2>2, <2>3, PendingKeeps DEF Requests
<1>5. CASE Abandon(c)
  BY <1>5, PendingKeeps DEF Abandon
<1> QED
  BY <1>1, <1>2, <1>3, <1>4, <1>5

\* The database judges every day of the batch after the save wrote it.
LEMMA SaveKeeps ==
    ASSUME IInv, NEW c \in Clerks, Save(c)
    PROVE  IInv'
<1> DEFINE r == pending[c]
<1>1. r \in SaveRequests
  BY DEF IInv, Types, Save, Requests, UpdateRequests, VoidRequests, ReviewRequests
<1>2. /\ r.rows \in [DOMAIN r.rows -> Keys \cup {None}]
      /\ DOMAIN r.rows \in SUBSET Drivers
      /\ r.day \in Days
  BY <1>1 DEF SaveRequests, Rows
<1>3. PICK qty \in [DOMAIN r.rows -> Quantities \cup {None}] :
         lines' = [s \in Slots |-> IF s \in BatchSlots(r) THEN Entered(lines[s], qty[s[1]])
                                                           ELSE lines[s]]
  BY DEF Save
<1>4. held' = [s \in Slots |-> IF s \in BatchSlots(r) THEN r.rows[s[1]] ELSE held[s]]
  BY DEF Save
<1>5. BatchSlots(r) \in SUBSET Slots /\ \A s \in BatchSlots(r) : s[1] \in DOMAIN r.rows
  BY <1>2 DEF BatchSlots, Slots
<1>6. held' \in [Slots -> Keys \cup {None}]
  BY <1>2, <1>4, <1>5 DEF IInv, Types
<1>7. lines' \in [Slots -> Seq(Line)]
  <2> SUFFICES ASSUME NEW s \in Slots
               PROVE  lines'[s] \in Seq(Line)
    BY <1>3
  <2>1. lines[s] \in Seq(Line)
    BY DEF IInv, Types
  <2> QED
    BY <1>3, <1>5, <2>1, EnteredType
<1>8. \A s \in BatchSlots(r) : ~(IsOff(held'[s]) /\ Works(lines'[s]))
  BY DEF Save, OffWorkGuard
<1>9. \A s \in Slots \ BatchSlots(r) : held'[s] = held[s] /\ lines'[s] = lines[s]
  BY <1>3, <1>4
<1>10. Done(c)
  BY DEF Save
<1> HIDE DEF r
<1> QED
  BY <1>5, <1>6, <1>7, <1>8, <1>9, <1>10, DoneKeeps, WriteKeeps DEF IInv

\* Work is not added to a full day off.
LEMMA AddLineKeeps ==
    ASSUME IInv, NEW s \in Slots, NEW qty \in Quantities, AddLine(s, qty)
    PROVE  IInv'
<1> DEFINE new == [qty |-> qty, void |-> FALSE]
<1>1. new \in Line /\ lines[s] \in Seq(Line)
  BY DEF Line, IInv, Types
<1>2. /\ lines' = [lines EXCEPT ![s] = Append(lines[s], new)]
      /\ keys' = keys /\ held' = held /\ pending' = pending
  BY DEF AddLine
<1>3. lines' \in [Slots -> Seq(Line)]
  BY <1>1, <1>2 DEF IInv, Types
<1>4. SeenIsSelected' /\ pending' \in [Clerks -> Requests \cup {None}]
  BY <1>2 DEF IInv, Types, SeenIsSelected
<1>5. ASSUME IsOff(held'[s])
      PROVE  ~Works(lines'[s])
  <2>1. qty = 0
    BY <1>2, <1>5, DayEntryAssumption DEF AddLine
  <2>2. ~Works(lines[s])
    BY <1>2, <1>5 DEF IInv, NoWorkOnDaysOff
  <2>3. lines'[s] = Append(lines[s], new)
    BY <1>2 DEF IInv, Types
  <2> QED
    BY <1>1, <2>1, <2>2, <2>3, AppendedAddsNoWork
<1>6. \A t \in Slots \ {s} : held'[t] = held[t] /\ lines'[t] = lines[t]
  BY <1>2 DEF IInv, Types
<1>7. held' \in [Slots -> Keys \cup {None}]
  BY <1>2 DEF IInv, Types
<1>8. \A t \in {s} : ~(IsOff(held'[t]) /\ Works(lines'[t]))
  BY <1>5
<1>9. {s} \in SUBSET Slots
  OBVIOUS
<1> QED
  BY <1>2, <1>3, <1>4, <1>6, <1>7, <1>8, <1>9, WriteKeeps

\* A line is updated by what it was when it was read: only a line that ends
\* void or without quantity escapes the database's judgement.
LEMMA UpdateLineKeeps ==
    ASSUME IInv, NEW c \in Clerks, UpdateLine(c)
    PROVE  IInv'
<1> DEFINE r == pending[c]
           now == lines[r.slot][r.i]
<1>1. r.slot \in Slots
  BY DEF IInv, Types, UpdateLine, Requests, UpdateRequests, SaveRequests, VoidRequests, ReviewRequests
<1>2. PICK qty \in Quantities \cup {None}, void \in BOOLEAN \cup {None} :
         LET new == [qty |-> Sent(qty, now.qty), void |-> Sent(void, now.void)]
         IN  /\ lines' = [lines EXCEPT ![r.slot][r.i] = new]
             /\ new.void \/ new.qty = 0 \/ OffWorkGuard(held[r.slot], lines'[r.slot])
  BY DEF UpdateLine
<1> DEFINE new == [qty |-> Sent(qty, now.qty), void |-> Sent(void, now.void)]
<1>3. lines[r.slot] \in Seq(Line)
  BY <1>1 DEF IInv, Types
<1>4. r.i \in DOMAIN lines[r.slot] => new \in Line
  <2>1. r.i \in DOMAIN lines[r.slot] => now \in Line
    BY <1>3
  <2> HIDE DEF now, r
  <2> QED
    BY <2>1 DEF Sent, Line
<1>5. /\ lines' = [lines EXCEPT ![r.slot] = [lines[r.slot] EXCEPT ![r.i] = new]]
      /\ new.void \/ new.qty = 0 \/ OffWorkGuard(held[r.slot], lines'[r.slot])
  BY <1>2
<1>6. held' = held /\ Done(c) /\ keys' = keys
  BY DEF UpdateLine, Done
<1> HIDE DEF r, new
<1>7. [lines[r.slot] EXCEPT ![r.i] = new] \in Seq(Line)
  BY <1>3, <1>4, ReplacedType
<1>8. lines' \in [Slots -> Seq(Line)]
  BY <1>5, <1>7 DEF IInv, Types
<1>9. \A t \in {r.slot} : ~(IsOff(held'[t]) /\ Works(lines'[t]))
  <2>1. lines'[r.slot] = [lines[r.slot] EXCEPT ![r.i] = new]
    BY <1>1, <1>5 DEF IInv, Types
  <2>2. CASE OffWorkGuard(held[r.slot], lines'[r.slot])
    BY <2>2, <1>6 DEF OffWorkGuard
  <2>3. CASE new.void \/ new.qty = 0
    <3>1. CASE Works(lines[r.slot])
      BY <3>1, <1>1, <1>6 DEF IInv, NoWorkOnDaysOff
    <3>2. CASE ~Works(lines[r.slot])
      BY <3>2, <2>1, <2>3, <1>3, <1>4, ReplacedAddsNoWork
    <3> QED
      BY <3>1, <3>2
  <2> QED
    BY <1>5, <2>2, <2>3
<1>10. \A t \in Slots \ {r.slot} : held'[t] = held[t] /\ lines'[t] = lines[t]
  BY <1>5, <1>6 DEF IInv, Types
<1>11. held' \in [Slots -> Keys \cup {None}]
  BY <1>6 DEF IInv, Types
<1>12. {r.slot} \in SUBSET Slots
  BY <1>1
<1> QED
  BY <1>6, <1>8, <1>9, <1>10, <1>11, <1>12, DoneKeeps, WriteKeeps DEF IInv

\* A void line is no work.
LEMMA VoidLineKeeps ==
    ASSUME IInv, NEW c \in Clerks, VoidLine(c)
    PROVE  IInv'
<1> DEFINE r == pending[c]
           new == [lines[r.slot][r.i] EXCEPT !.void = TRUE]
<1>1. r.slot \in Slots
  BY DEF IInv, Types, VoidLine, Requests, UpdateRequests, SaveRequests, VoidRequests, ReviewRequests
<1>2. lines[r.slot] \in Seq(Line)
  BY <1>1 DEF IInv, Types
<1>3. r.i \in DOMAIN lines[r.slot] => new \in Line /\ new.void
  <2>1. r.i \in DOMAIN lines[r.slot] => lines[r.slot][r.i] \in Line
    BY <1>2
  <2> HIDE DEF r
  <2> QED
    BY <2>1 DEF Line
<1>4. /\ lines' = [lines EXCEPT ![r.slot] = [lines[r.slot] EXCEPT ![r.i] = new]]
      /\ held' = held /\ Done(c) /\ keys' = keys
  BY DEF VoidLine, Done
<1> HIDE DEF r, new
<1>5. [lines[r.slot] EXCEPT ![r.i] = new] \in Seq(Line)
  BY <1>2, <1>3, ReplacedType
<1>6. lines' \in [Slots -> Seq(Line)]
  BY <1>4, <1>5 DEF IInv, Types
<1>7. \A t \in {r.slot} : ~(IsOff(held'[t]) /\ Works(lines'[t]))
  <2>1. lines'[r.slot] = [lines[r.slot] EXCEPT ![r.i] = new]
    BY <1>1, <1>4 DEF IInv, Types
  <2>2. CASE Works(lines[r.slot])
    BY <2>2, <1>1, <1>4 DEF IInv, NoWorkOnDaysOff
  <2>3. CASE ~Works(lines[r.slot]) /\ r.i \in DOMAIN lines[r.slot]
    BY <2>1, <2>3, <1>2, <1>3, ReplacedAddsNoWork
  <2>4. CASE ~Works(lines[r.slot]) /\ r.i \notin DOMAIN lines[r.slot]
    BY <2>1, <2>4, <1>2
  <2> QED
    BY <2>2, <2>3, <2>4
<1>8. \A t \in Slots \ {r.slot} : held'[t] = held[t] /\ lines'[t] = lines[t]
  BY <1>4 DEF IInv, Types
<1>9. held' \in [Slots -> Keys \cup {None}] /\ {r.slot} \in SUBSET Slots
  BY <1>1, <1>4 DEF IInv, Types
<1> QED
  BY <1>4, <1>6, <1>7, <1>8, <1>9, DoneKeeps, WriteKeeps DEF IInv

\* Reviewed quantities of an import are judged by the status the day holds.
LEMMA ApplyReviewedKeeps ==
    ASSUME IInv, NEW c \in Clerks, ApplyReviewed(c)
    PROVE  IInv'
<1> DEFINE r == pending[c]
<1>1. r.slot \in Slots
  BY DEF IInv, Types, ApplyReviewed, Requests, UpdateRequests, SaveRequests, VoidRequests, ReviewRequests
<1>2. PICK qty \in Quantities :
         /\ ~(qty > 0 /\ IsOff(held[r.slot]))
         /\ lines' = IF qty = r.expected THEN lines
                     ELSE [lines EXCEPT ![r.slot] = Entered(lines[r.slot], qty)]
  BY DEF ApplyReviewed
<1>3. held' = held /\ Done(c) /\ keys' = keys
  BY DEF ApplyReviewed, Done
<1> HIDE DEF r
<1>4. lines[r.slot] \in Seq(Line)
  BY <1>1 DEF IInv, Types
<1>5. lines' \in [Slots -> Seq(Line)]
  BY <1>1, <1>2, <1>4, EnteredType DEF IInv, Types
<1>6. \A t \in {r.slot} : ~(IsOff(held'[t]) /\ Works(lines'[t]))
  <2>1. CASE ~IsOff(held[r.slot])
    BY <2>1, <1>3 DEF IsOff
  <2>2. CASE IsOff(held[r.slot])
    <3>1. qty = 0 /\ 0 \in Quantities
      BY <2>2, <1>2, DayEntryAssumption
    <3>2. ~Works(lines[r.slot])
      BY <2>2, <1>1 DEF IInv, NoWorkOnDaysOff
    <3>3. ~Works(Entered(lines[r.slot], 0))
      BY <3>1, <3>2, <1>4, ZeroAddsNoWork
    <3>4. \/ lines' = lines
          \/ lines'[r.slot] = Entered(lines[r.slot], 0)
      BY <3>1, <1>1, <1>2 DEF IInv, Types
    <3> QED
      BY <3>2, <3>3, <3>4
  <2> QED
    BY <2>1, <2>2
<1>7. \A t \in Slots \ {r.slot} : held'[t] = held[t] /\ lines'[t] = lines[t]
  BY <1>2, <1>3 DEF IInv, Types
<1>8. held' \in [Slots -> Keys \cup {None}] /\ {r.slot} \in SUBSET Slots
  BY <1>1, <1>3 DEF IInv, Types
<1> QED
  BY <1>3, <1>5, <1>6, <1>7, <1>8, DoneKeeps, WriteKeeps DEF IInv

\* A status in use keeps its meaning.
LEMMA CatalogKeeps ==
    ASSUME IInv, NEW k \in Keys,
           \/ \E active, off \in BOOLEAN : UpdateStatusKey(k, active, off)
           \/ \E limit \in Limits : PutBranchLimits(k, limit)
    PROVE  IInv'
<1>1. ASSUME NEW active \in BOOLEAN, NEW off \in BOOLEAN, UpdateStatusKey(k, active, off)
      PROVE  IInv'
  <2>1. /\ keys' = [keys EXCEPT ![k] = [active |-> active, off |-> off]]
        /\ held' = held /\ lines' = lines /\ pending' = pending
        /\ off # keys[k].off => \A s \in Slots : held[s] # k
    BY <1>1 DEF UpdateStatusKey, InUse
  <2>2. Types'
    BY <2>1 DEF IInv, Types, Status, SeenIsSelected
  <2>3. ASSUME NEW s \in Slots, held[s] # None, keys'[held[s]].off
        PROVE  keys[held[s]].off
    <3>1. held[s] \in Keys
      BY <2>3 DEF IInv, Types
    <3>2. CASE held[s] = k
      BY <2>1, <2>3, <3>1, <3>2 DEF IInv, Types
    <3>3. CASE held[s] # k
      BY <2>1, <2>3, <3>1, <3>3 DEF IInv, Types
    <3> QED
      BY <3>2, <3>3
  <2>4. NoWorkOnDaysOff'
    BY <2>1, <2>3 DEF IInv, NoWorkOnDaysOff, IsOff
  <2> QED
    BY <2>2, <2>4 DEF IInv
<1>2. ASSUME NEW limit \in Limits, PutBranchLimits(k, limit)
      PROVE  IInv'
  BY <1>2 DEF PutBranchLimits, IInv, Types, SeenIsSelected, NoWorkOnDaysOff, IsOff
<1> QED
  BY <1>1, <1>2

-----------------------------------------------------------------------------
LEMMA InitIInv == Init => IInv
<1> SUFFICES ASSUME Init PROVE IInv
  OBVIOUS
<1>1. Types
  <2>1. /\ keys \in [Keys -> Status]
        /\ held \in [Slots -> Keys \cup {None}]
    BY DEF Init, Status
  <2>2. lines \in [Slots -> Seq(Line)]
    BY DEF Init
  <2>3. pending \in [Clerks -> Requests \cup {None}] /\ SeenIsSelected
    BY DEF Init, SeenIsSelected
  <2> QED
    BY <2>1, <2>2, <2>3 DEF Types
<1>2. NoWorkOnDaysOff
  BY DEF Init, NoWorkOnDaysOff, IsOff
<1> QED
  BY <1>1, <1>2 DEF IInv

LEMMA NextIInv == IInv /\ [Next]_vars => IInv'
<1> SUFFICES ASSUME IInv, [Next]_vars PROVE IInv'
  OBVIOUS
<1>1. CASE \E c \in Clerks : Serve(c)
  BY <1>1, BeginKeeps, SaveKeeps, UpdateLineKeeps, VoidLineKeeps, ApplyReviewedKeeps DEF Serve
<1>2. CASE \E s \in Slots, qty \in Quantities : AddLine(s, qty)
  BY <1>2, AddLineKeeps
<1>3. CASE \E k \in Keys : \/ \E active, off \in BOOLEAN : UpdateStatusKey(k, active, off)
                           \/ \E limit \in Limits : PutBranchLimits(k, limit)
  BY <1>3, CatalogKeeps
<1>4. CASE UNCHANGED vars
  BY <1>4 DEF vars, IInv, Types, SeenIsSelected, NoWorkOnDaysOff, IsOff
<1> QED
  BY <1>1, <1>2, <1>3, <1>4 DEF Next

THEOREM Invariance == Spec => []IInv
  BY InitIInv, NextIInv, PTL DEF Spec

\* A full day off carries no ordinary work, whichever of the two was entered
\* first and whatever a save had read before (status_work_conflict.py,
\* fn_guard_status_off_work).
THEOREM DaysOffAreFree == Spec => []NoWorkOnDaysOff
<1>1. IInv => NoWorkOnDaysOff
  BY DEF IInv
<1> QED
  BY <1>1, Invariance, PTL

-----------------------------------------------------------------------------
(* Usage limits *)

\* Uses that only get fewer are within any limit.
LEMMA FewerAreWithin ==
    ASSUME NEW before, IsFiniteSet(before), NEW after \in SUBSET before, NEW most
    PROVE  GrowsWithin(most, before, after)
<1>1. /\ Cardinality(after) <= Cardinality(before)
      /\ Cardinality(after) \in Nat /\ Cardinality(before) \in Nat
  BY FS_Subset, FS_CardinalityType
<1> QED
  BY <1>1 DEF GrowsWithin

LEMMA FiniteSlots == \A S \in SUBSET Slots : IsFiniteSet(S)
  BY DayEntryAssumption, FS_Product, FS_Subset DEF Slots

\* The uses of a status after a save are those WithinLimits has counted.
LEMMA UsesAfterSave ==
    ASSUME IInv, NEW c \in Clerks, Save(c), NEW k \in Keys
    PROVE  LET r == pending[c]
           IN  /\ {s \in Slots : held'[s] = k} = OtherUses(r, k) \cup BatchUses(r, k)
               /\ OtherUses(r, k) \subseteq {s \in Slots : held[s] = k}
               /\ BatchUses(r, k) # {} => WithinLimits(r, k)
               /\ \A s \in BatchUses(r, k) : s[2] = r.day
<1> DEFINE r == pending[c]
<1>1. r \in SaveRequests /\ r # None
  BY DEF IInv, Types, Save, Requests, UpdateRequests, VoidRequests, ReviewRequests
<1>2. /\ r.rows \in [DOMAIN r.rows -> Keys \cup {None}]
      /\ DOMAIN r.rows \in SUBSET Drivers
      /\ r.day \in Days
  BY <1>1 DEF SaveRequests, Rows
<1>3. held' = [s \in Slots |-> IF s \in BatchSlots(r) THEN r.rows[s[1]] ELSE held[s]]
  BY DEF Save
<1>4. DOMAIN r.seen = Selected(r.rows)
  BY <1>1 DEF IInv, Types, SeenIsSelected
<1>5. \A j \in DOMAIN r.seen : WithinLimits(r, j)
  BY DEF Save
<1> HIDE DEF r
<1>6. \A s \in Slots : s \in BatchSlots(r) <=> s[1] \in DOMAIN r.rows /\ s[2] = r.day
  BY <1>2 DEF BatchSlots, Slots
<1>7. \A s \in Slots : s \in BatchUses(r, k) <=> s \in BatchSlots(r) /\ r.rows[s[1]] = k
  BY <1>2 DEF BatchUses, BatchSlots, Slots
<1>8. BatchUses(r, k) \subseteq Slots /\ \A s \in BatchUses(r, k) : s[2] = r.day
  BY <1>2 DEF BatchUses, Slots
<1>9. {s \in Slots : held'[s] = k} = OtherUses(r, k) \cup BatchUses(r, k)
  BY <1>3, <1>7, <1>8 DEF OtherUses
<1>10. BatchUses(r, k) # {} => WithinLimits(r, k)
  <2>1. BatchUses(r, k) # {} => k \in Selected(r.rows)
    BY DayEntryAssumption DEF BatchUses, Selected
  <2> QED
    BY <1>4, <1>5, <2>1
<1> QED
  BY <1>8, <1>9, <1>10 DEF OtherUses, r

\* The body of LimitsRespected for one status.
UsesWithin(k) ==
    LET Uses == {s \in Slots : held[s] = k}
        Then == {s \in Slots : held'[s] = k}
    IN  /\ GrowsWithin(limits[k].period, Uses, Then)
        /\ \A d \in Drivers : GrowsWithin(limits[k].driver, {s \in Uses : s[1] = d},
                                                            {s \in Then : s[1] = d})
        /\ GrowsWithin(limits[k].drivers, {s[1] : s \in Uses}, {s[1] : s \in Then})
        /\ \A day \in Days : GrowsWithin(limits[k].day, {s \in Uses : s[2] = day},
                                                        {s \in Then : s[2] = day})

\* A step after which a status is used nowhere it was not is within its limits.
LEMMA FewerUsesWithin ==
    ASSUME NEW k \in Keys,
           {s \in Slots : held'[s] = k} \subseteq {s \in Slots : held[s] = k}
    PROVE  UsesWithin(k)
<1> DEFINE Uses == {s \in Slots : held[s] = k}
           Then == {s \in Slots : held'[s] = k}
<1>1. Uses \subseteq Slots /\ IsFiniteSet(Uses) /\ Then \subseteq Uses
  BY FiniteSlots
<1>2. {s[1] : s \in Uses} \subseteq Drivers
  BY DEF Slots
<1>3. IsFiniteSet({s[1] : s \in Uses}) /\ {s[1] : s \in Then} \subseteq {s[1] : s \in Uses}
  BY <1>1, <1>2, DayEntryAssumption, FS_Subset
<1> HIDE DEF Uses, Then
<1>4. \A d \in Drivers : /\ IsFiniteSet({s \in Uses : s[1] = d})
                         /\ {s \in Then : s[1] = d} \subseteq {s \in Uses : s[1] = d}
  BY <1>1, FiniteSlots
<1>5. \A day \in Days : /\ IsFiniteSet({s \in Uses : s[2] = day})
                        /\ {s \in Then : s[2] = day} \subseteq {s \in Uses : s[2] = day}
  BY <1>1, FiniteSlots
<1>6. /\ GrowsWithin(limits[k].period, Uses, Then)
      /\ GrowsWithin(limits[k].drivers, {s[1] : s \in Uses}, {s[1] : s \in Then})
  BY <1>1, <1>3, FewerAreWithin
<1>7. \A d \in Drivers : GrowsWithin(limits[k].driver, {s \in Uses : s[1] = d}, {s \in Then : s[1] = d})
  BY <1>4, FewerAreWithin
<1>8. \A day \in Days : GrowsWithin(limits[k].day, {s \in Uses : s[2] = day}, {s \in Then : s[2] = day})
  BY <1>5, FewerAreWithin
<1> QED
  BY <1>6, <1>7, <1>8 DEF UsesWithin, Uses, Then

LEMMA SaveWithinLimits ==
    ASSUME IInv, NEW c \in Clerks, Save(c), NEW k \in Keys
    PROVE  UsesWithin(k)
<1> DEFINE r == pending[c]
           Uses == {s \in Slots : held[s] = k}
           Then == {s \in Slots : held'[s] = k}
<1>1. /\ Then = OtherUses(r, k) \cup BatchUses(r, k)
      /\ OtherUses(r, k) \subseteq Uses
      /\ BatchUses(r, k) # {} => WithinLimits(r, k)
      /\ \A s \in BatchUses(r, k) : s[2] = r.day
  BY UsesAfterSave
<1>2. CASE BatchUses(r, k) = {}
  BY <1>1, <1>2, FewerUsesWithin
<1>3. CASE BatchUses(r, k) # {}
  <2> HIDE DEF r, Then, Uses
  <2>1. WithinLimits(r, k)
    BY <1>1, <1>3
  <2>2. /\ GrowsWithin(limits[k].period, Uses, Then)
        /\ GrowsWithin(limits[k].drivers, {s[1] : s \in Uses}, {s[1] : s \in Then})
    BY <1>1, <2>1 DEF WithinLimits, GrowsWithin
  <2>3. ASSUME NEW d \in Drivers
        PROVE  GrowsWithin(limits[k].driver, {s \in Uses : s[1] = d}, {s \in Then : s[1] = d})
    <3>1. CASE \E s \in BatchUses(r, k) : s[1] = d
      BY <1>1, <2>1, <3>1 DEF WithinLimits, GrowsWithin
    <3>2. CASE ~ \E s \in BatchUses(r, k) : s[1] = d
      <4>1. {s \in Then : s[1] = d} \subseteq {s \in Uses : s[1] = d}
        BY <1>1, <3>2
      <4>2. IsFiniteSet({s \in Uses : s[1] = d})
        BY FiniteSlots DEF Uses
      <4> QED
        BY <4>1, <4>2, FewerAreWithin
    <3> QED
      BY <3>1, <3>2
  <2>4. ASSUME NEW day \in Days
        PROVE  GrowsWithin(limits[k].day, {s \in Uses : s[2] = day}, {s \in Then : s[2] = day})
    <3>1. CASE day = r.day
      BY <1>1, <2>1, <3>1 DEF WithinLimits, GrowsWithin
    <3>2. CASE day # r.day
      <4>1. {s \in Then : s[2] = day} \subseteq {s \in Uses : s[2] = day}
        BY <1>1, <3>2
      <4>2. IsFiniteSet({s \in Uses : s[2] = day})
        BY FiniteSlots DEF Uses
      <4> QED
        BY <4>1, <4>2, FewerAreWithin
    <3> QED
      BY <3>1, <3>2
  <2> QED
    BY <2>2, <2>3, <2>4 DEF UsesWithin, Uses, Then
<1> QED
  BY <1>2, <1>3

\* Only a save changes what days hold.
LEMMA NextWithinLimits == IInv /\ [Next]_vars => \A k \in Keys : UsesWithin(k)
<1> SUFFICES ASSUME IInv, [Next]_vars, NEW k \in Keys PROVE UsesWithin(k)
  OBVIOUS
<1>1. CASE \E c \in Clerks : Save(c)
  BY <1>1, SaveWithinLimits
<1>2. CASE held' = held
  BY <1>2, FewerUsesWithin
<1>3. (\E c \in Clerks : Save(c)) \/ held' = held
  BY DEF Next, Serve, BeginSave, BeginUpdate, BeginVoid, BeginReview, Begin, Abandon, UpdateLine,
         VoidLine, ApplyReviewed, AddLine, UpdateStatusKey, PutBranchLimits, vars
<1> QED
  BY <1>1, <1>2, <1>3

\* No write makes more use of a status than the limits allow, whatever saves
\* go on at the same time (_enforce_status_key_limits).
THEOREM LimitsAreRespected == Spec => LimitsRespected
<1>1. IInv /\ [Next]_vars => [\A k \in Keys : UsesWithin(k)]_vars
  BY NextWithinLimits
<1> QED
  BY <1>1, Invariance, PTL DEF Spec, LimitsRespected, UsesWithin
===============================================================================
