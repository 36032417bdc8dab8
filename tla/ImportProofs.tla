----------------------------- MODULE ImportProofs -----------------------------
(***************************************************************************)
(* Proofs about ImportBatches, for any workers, keys, batches, settings    *)
(* and bounds: the revision of an import tells its content, and what that  *)
(* makes of changes, previews, creation and purge.                         *)
(***************************************************************************)
EXTENDS ImportBatches, FiniteSetTheorems, TLAPS

Statuses == Live \cup {"Completed", "Cancelled"}
Heads    == 0 .. MaxHead

ImportRecords ==
    [key : Keys, batch : Batches, status : Statuses, revision : Nat, units : Units,
     pending : Pendings \cup {None}, preview : Previews \cup {None},
     context : Pendings \cup {None}, purged : BOOLEAN]

Contents == [units : Units, pending : Pendings \cup {None},
             preview : Previews \cup {None}, status : Statuses]

\* What workers serve.
CreateRequests == [op : {"create"}, key : Keys, batch : Batches, checked : BOOLEAN]
Changes == [op : {"interpret", "map", "rows", "cancel"}, i : Ids, rev : Nat, saw : Contents,
            head : Heads, change : Units \cup Maps \cup {None}]
ChangeRequests ==
    {r \in Changes : /\ r.op = "interpret" => r.change \in Units
                     /\ r.op = "map" => r.change \in Maps \cup {None}
                     /\ r.op = "rows" => r.change \in Maps}
PreviewRequests == [op : {"preview"}, i : Ids, rev : Nat, saw : Contents, head : Heads,
                    history : SUBSET Ids, lines : 0 .. MaxLines \cup {None}]
Requests == CreateRequests \cup ChangeRequests \cup PreviewRequests

Types ==
    /\ pstat \in {"Open", "InReview", "Returned", "Locked"}
    /\ lines \in 0 .. MaxLines
    /\ head.rev \in Heads /\ (head.rev > 0 => head.rule \in Rules)
    /\ \E n \in 0 .. MaxImports : imports \in [1 .. n -> ImportRecords]
    /\ req \in [Workers -> Requests \cup {None}]
    /\ holder \in Workers \cup {None}

\* The content of an import, from its record.
ContentOf(imp) ==
    [units |-> imp.units, pending |-> imp.pending, preview |-> imp.preview, status |-> imp.status]

\* The revision of an import tells its content: a request that still finds the
\* revision it read finds what it read.
RevisionTellsContent ==
    \A w \in Workers :
        LET r == req[w]
        IN  r # None /\ r.op # "create" =>
               /\ r.i \in DOMAIN imports
               /\ r.rev <= imports[r.i].revision
               /\ imports[r.i].revision = r.rev => Content(r.i) = r.saw

\* A preview is computed by a rule that expected the head of that time.
SnapshotsCurrent ==
    \A w \in Workers :
        req[w] # None /\ req[w].op = "preview" =>
            req[w].saw.pending # None /\ req[w].saw.pending.expected = req[w].head

\* While a preview is published nothing it was rechecked against moves, but
\* for the head.
HolderStands ==
    holder # None =>
        LET r == req[holder]
        IN  /\ r # None /\ r.op = "preview" /\ r.lines # None
            /\ Editable
            /\ imports[r.i].revision = r.rev
            /\ imports[r.i].status \in Live /\ ~imports[r.i].purged
            /\ lines = r.lines
            /\ Completed = r.history

\* The preview of an import that is worked on has the import's interpretation,
\* and the mapping and the head of the rule it was made with.
PreviewsTrue ==
    \A i \in DOMAIN imports :
        imports[i].status \in Live /\ imports[i].preview # None =>
            /\ imports[i].preview.units = imports[i].units
            /\ imports[i].preview.map = imports[i].context.rule.map
            /\ imports[i].preview.head = imports[i].context.expected

\* Whoever got an answer got an import there is.
AnswersExist == \A t \in told : t[3] \in DOMAIN imports

\* The inductive invariant.
IInv ==
    /\ Types
    /\ RevisionTellsContent
    /\ SnapshotsCurrent
    /\ HolderStands
    /\ PreviewsTrue
    /\ FinalPeriodsKeepNoDetail
    /\ AnswersExist
    /\ CreationIdempotent

-----------------------------------------------------------------------------
(* Rules and the records they are bound to                                 *)

\* A rule is made, taken over or kept: a rule of its kind in each case.
LEMMA RuleType ==
    ASSUME Types, NEW i \in Ids, NEW imp \in ImportRecords, NEW m \in Maps
    PROVE  RuleFor(i, imp, m) \in Rules
<1> DEFINE dated == CarriesDates(i, imp, m)
           new == [map |-> m, dated |-> dated, origin |-> i]
<1>1. dated \in BOOLEAN
  BY DEF CarriesDates
<1>2. i \in 0 .. MaxImports
  BY ImportAssumption DEF Ids
<1>3. new \in Rules
  BY <1>1, <1>2 DEF Rules
<1>4. imp.pending # None => imp.pending.rule \in Rules
  BY DEF ImportRecords, Pendings
<1>5. head.rev > 0 => head.rule \in Rules
  BY DEF Types
<1> HIDE DEF dated
<1>6. \/ RuleFor(i, imp, m) = imp.pending.rule /\ imp.pending # None
      \/ RuleFor(i, imp, m) = head.rule /\ head.rev > 0
      \/ RuleFor(i, imp, m) = new
  BY DEF RuleFor, dated
<1> QED
  BY <1>3, <1>4, <1>5, <1>6

LEMMA BoundType ==
    ASSUME Types, NEW imp \in ImportRecords, NEW rule \in Rules
    PROVE  Bound(imp, rule) \in Pendings
<1>1. head.rev \in Heads
  BY DEF Types
<1>2. imp.pending # None => imp.pending \in Pendings /\ imp.pending.rev + 1 \in Nat
  BY DEF ImportRecords, Pendings
<1> QED
  BY <1>1, <1>2 DEF Bound, Pendings, Heads

\* What every change writes: the derived state is cleared, and the revision goes up.
LEMMA ClearedEffect ==
    ASSUME NEW imp \in ImportRecords
    PROVE  LET new == Cleared(imp)
           IN  /\ new \in ImportRecords
               /\ new.preview = None /\ new.revision = imp.revision + 1
               /\ new.key = imp.key /\ new.batch = imp.batch
               /\ new.purged = imp.purged /\ new.pending = imp.pending
               /\ new.units = imp.units
<1>1. imp.revision + 1 \in Nat /\ "NeedsMapping" \in Statuses
  BY DEF ImportRecords, Statuses, Live
<1> QED
  BY <1>1 DEF Cleared, ImportRecords

LEMMA MappedEffect ==
    ASSUME Types, NEW i \in Ids, NEW imp \in ImportRecords, NEW m \in Maps \cup {None}
    PROVE  LET new == Mapped(i, imp, m)
           IN  /\ new \in ImportRecords
               /\ new.preview = None /\ new.revision = imp.revision + 1
               /\ new.key = imp.key /\ new.batch = imp.batch
               /\ new.purged = imp.purged
<1> DEFINE pending == IF m = None THEN None ELSE Bound(imp, RuleFor(i, imp, m))
           base == Cleared(imp)
<1>1. pending \in Pendings \cup {None}
  BY RuleType, BoundType
<1>2. /\ base \in ImportRecords
      /\ base.preview = None /\ base.revision = imp.revision + 1
      /\ base.key = imp.key /\ base.batch = imp.batch /\ base.purged = imp.purged
  BY ClearedEffect
<1>3. Mapped(i, imp, m) = [base EXCEPT !.pending = pending]
  BY DEF Mapped
<1> HIDE DEF pending, base
<1> QED
  BY <1>1, <1>2, <1>3 DEF ImportRecords

LEMMA PreparedEffect ==
    ASSUME Types, NEW i \in Ids, NEW imp \in ImportRecords, imp.preview = None,
           NEW found \in BOOLEAN
    PROVE  LET new == Prepared(i, imp, found)
           IN  /\ new \in ImportRecords
               /\ new.preview = None /\ new.revision >= imp.revision
               /\ new.key = imp.key /\ new.batch = imp.batch
               /\ new.purged = imp.purged
<1>1. imp.revision \in Nat
  BY DEF ImportRecords
<1>2. CASE found /\ imp.pending = None /\ head.rev > 0
  <2>1. head.rule.map \in Maps
    BY <1>2 DEF Types, Rules
  <2>2. Prepared(i, imp, found) = Mapped(i, imp, head.rule.map)
    BY <1>2 DEF Prepared
  <2> QED
    BY <1>1, <2>1, <2>2, MappedEffect
<1>3. CASE ~(found /\ imp.pending = None /\ head.rev > 0)
  BY <1>1, <1>3 DEF Prepared
<1> QED
  BY <1>2, <1>3

-----------------------------------------------------------------------------
(* What a step does to the requests and to the imports                     *)

\* A worker takes a request on: it has read the import as it is.
LEMMA ServeKeeps ==
    ASSUME IInv, NEW w \in Workers, NEW r \in Requests,
           r.op # "create" => /\ r.i \in DOMAIN imports
                              /\ r.rev = imports[r.i].revision
                              /\ r.saw = Content(r.i),
           r.op = "preview" => r.saw.pending # None /\ r.saw.pending.expected = r.head,
           Serve(w, r), UNCHANGED <<pstat, lines, head, imports, holder, told>>
    PROVE  IInv'
<1>1. req[w] = None /\ req' = [req EXCEPT ![w] = r]
  BY DEF Serve
<1>2. \A i \in DOMAIN imports : imports[i].revision \in Nat
  BY DEF IInv, Types, ImportRecords
<1>3. Types'
  BY <1>1 DEF IInv, Types
<1>4. RevisionTellsContent'
  <2> SUFFICES ASSUME NEW v \in Workers, req'[v] # None, req'[v].op # "create"
               PROVE  /\ req'[v].i \in DOMAIN imports
                      /\ req'[v].rev <= imports[req'[v].i].revision
                      /\ imports[req'[v].i].revision = req'[v].rev
                            => Content(req'[v].i) = req'[v].saw
    BY DEF RevisionTellsContent, Content
  <2>1. CASE v = w
    BY <1>1, <1>2, <2>1 DEF IInv, Types
  <2>2. CASE v # w
    BY <1>1, <2>2 DEF IInv, Types, RevisionTellsContent
  <2> QED
    BY <2>1, <2>2
<1>5. SnapshotsCurrent'
  BY <1>1 DEF IInv, Types, SnapshotsCurrent
<1>6. HolderStands'
  <2>1. holder # None => req'[holder] = req[holder]
    BY <1>1, ImportAssumption DEF IInv, HolderStands
  <2> QED
    BY <2>1 DEF IInv, HolderStands, Editable, Completed
<1>7. PreviewsTrue' /\ FinalPeriodsKeepNoDetail' /\ AnswersExist' /\ CreationIdempotent'
  BY DEF IInv, PreviewsTrue, FinalPeriodsKeepNoDetail, AnswersExist, CreationIdempotent
<1> QED
  BY <1>3, <1>4, <1>5, <1>6, <1>7 DEF IInv

\* An answer is added that names an import made under the key for the batch.
LEMMA ToldKeeps ==
    ASSUME AnswersExist, CreationIdempotent, NEW t,
           told' \in {told, told \cup {t}},
           t[3] \in DOMAIN imports, imports[t[3]].key = t[1], imports[t[3]].batch = t[2],
           imports' = imports
    PROVE  AnswersExist' /\ CreationIdempotent'
  BY DEF AnswersExist, CreationIdempotent

\* A request is over: the others stand.
LEMMA ServedKeeps ==
    ASSUME IInv, NEW w \in Workers, Served(w),
           holder' = IF holder = w THEN None ELSE holder,
           UNCHANGED <<pstat, lines, head, imports>>,
           AnswersExist', CreationIdempotent'
    PROVE  IInv'
<1>1. req' = [req EXCEPT ![w] = None]
  BY DEF Served
<1>2. Types'
  BY <1>1 DEF IInv, Types
<1>3. RevisionTellsContent'
  <2> SUFFICES ASSUME NEW v \in Workers, req'[v] # None, req'[v].op # "create"
               PROVE  /\ req'[v].i \in DOMAIN imports
                      /\ req'[v].rev <= imports[req'[v].i].revision
                      /\ imports[req'[v].i].revision = req'[v].rev
                            => Content(req'[v].i) = req'[v].saw
    BY DEF RevisionTellsContent, Content
  <2>1. req'[v] = req[v]
    BY <1>1 DEF IInv, Types
  <2> QED
    BY <2>1 DEF IInv, RevisionTellsContent
<1>4. SnapshotsCurrent'
  BY <1>1 DEF IInv, Types, SnapshotsCurrent
<1>5. HolderStands'
  <2>1. holder' # None => holder' = holder /\ req'[holder] = req[holder]
    BY <1>1 DEF IInv, Types
  <2> QED
    BY <2>1 DEF IInv, HolderStands, Editable, Completed
<1>6. PreviewsTrue' /\ FinalPeriodsKeepNoDetail'
  BY DEF IInv, PreviewsTrue, FinalPeriodsKeepNoDetail
<1> QED
  BY <1>2, <1>3, <1>4, <1>5, <1>6 DEF IInv

\* One import is written: either it stays as it is, or its revision goes up.
LEMMA ImportWriteKeeps ==
    ASSUME IInv, Editable, NEW i \in DOMAIN imports, NEW imp \in ImportRecords,
           imports' = [imports EXCEPT ![i] = imp],
           imp.key = imports[i].key, imp.batch = imports[i].batch, ~imp.purged,
           imp = imports[i] \/ imp.revision > imports[i].revision,
           imp.status \in Live /\ imp.preview # None =>
               /\ imp.preview.units = imp.units
               /\ imp.preview.map = imp.context.rule.map
               /\ imp.preview.head = imp.context.expected,
           head'.rev \in Heads, head'.rev > 0 => head'.rule \in Rules,
           req' = req \/ \E w \in Workers : req' = [req EXCEPT ![w] = None],
           holder' = None, UNCHANGED <<pstat, lines, told>>
    PROVE  IInv'
<1>1. PICK n \in 0 .. MaxImports : imports \in [1 .. n -> ImportRecords]
  BY DEF IInv, Types
<1>2. imports' \in [1 .. n -> ImportRecords] /\ i \in 1 .. n
  BY <1>1
<1>3. \A j \in 1 .. n : imports[j].revision \in Nat
  BY <1>1 DEF ImportRecords
<1>4. imp.revision \in Nat
  BY DEF ImportRecords
<1>5. req' \in [Workers -> Requests \cup {None}]
  BY DEF IInv, Types
<1>6. Types'
  BY <1>2, <1>5 DEF IInv, Types
<1>7. \A v \in Workers : req'[v] # None => req'[v] = req[v]
  BY DEF IInv, Types
<1>8. RevisionTellsContent'
  <2>1. ASSUME NEW v \in Workers, req[v] # None, req[v].op # "create"
        PROVE  /\ req[v].i \in DOMAIN imports'
               /\ req[v].rev <= imports'[req[v].i].revision
               /\ imports'[req[v].i].revision = req[v].rev
                     => ContentOf(imports'[req[v].i]) = req[v].saw
    <3> DEFINE r == req[v]
    <3>1. /\ r.i \in 1 .. n /\ r.rev <= imports[r.i].revision
          /\ imports[r.i].revision = r.rev => ContentOf(imports[r.i]) = r.saw
      BY <1>1, <2>1 DEF IInv, RevisionTellsContent, Content, ContentOf
    <3>2. r.rev \in Nat
      BY <2>1 DEF IInv, Types, Requests, CreateRequests, ChangeRequests, Changes, PreviewRequests
    <3> HIDE DEF r
    <3>3. CASE imports'[r.i] = imports[r.i]
      BY <1>1, <1>2, <3>1, <3>3 DEF r
    <3>4. CASE r.i = i /\ imp.revision > imports[i].revision
      <4>1. imports'[r.i].revision = imp.revision /\ imp.revision > r.rev
        BY <1>1, <1>2, <1>3, <1>4, <3>1, <3>2, <3>4
      <4>2. imports'[r.i].revision # r.rev /\ r.rev <= imports'[r.i].revision
        BY <1>4, <3>2, <4>1
      <4> QED
        BY <1>2, <3>1, <4>2 DEF r
    <3>5. imports'[r.i] = imports[r.i] \/ (r.i = i /\ imp.revision > imports[i].revision)
      BY <1>1, <3>1
    <3> QED
      BY <3>3, <3>4, <3>5 DEF r
  <2> QED
    BY <1>7, <2>1 DEF RevisionTellsContent, Content, ContentOf
<1>9. SnapshotsCurrent'
  BY <1>7 DEF IInv, SnapshotsCurrent
<1>10. HolderStands'
  BY DEF HolderStands
<1>11. PreviewsTrue'
  BY <1>1, <1>2 DEF IInv, PreviewsTrue
<1>12. FinalPeriodsKeepNoDetail'
  BY <1>1, <1>2 DEF IInv, FinalPeriodsKeepNoDetail, Editable, EditableStatuses
<1>13. AnswersExist' /\ CreationIdempotent'
  <2>1. \A j \in 1 .. n : imports'[j].key = imports[j].key /\ imports'[j].batch = imports[j].batch
    BY <1>1
  <2> QED
    BY <1>1, <1>2, <2>1 DEF IInv, AnswersExist, CreationIdempotent
<1> QED
  BY <1>6, <1>8, <1>9, <1>10, <1>11, <1>12, <1>13 DEF IInv

-----------------------------------------------------------------------------
(* The actions                                                             *)

LEMMA ImportTypes ==
    ASSUME IInv, NEW i \in DOMAIN imports
    PROVE  /\ imports[i] \in ImportRecords
           /\ imports[i].revision \in Nat
           /\ i \in Ids
           /\ Editable => ~imports[i].purged
<1>1. PICK n \in 0 .. MaxImports : imports \in [1 .. n -> ImportRecords]
  BY DEF IInv, Types
<1>2. i \in 1 .. n /\ imports[i] \in ImportRecords
  BY <1>1
<1>3. i \in Ids
  BY <1>2, ImportAssumption DEF Ids
<1>4. Editable => ~imports[i].purged
  BY DEF IInv, FinalPeriodsKeepNoDetail, Editable, EditableStatuses
<1> QED
  BY <1>2, <1>3, <1>4 DEF ImportRecords

\* A request that is still at the revision it read may write.
LEMMA WriteReady ==
    ASSUME IInv, NEW w \in Workers, req[w] # None, req[w].op # "create",
           LockMutable(req[w].i, req[w].rev)
    PROVE  /\ req[w].i \in DOMAIN imports
           /\ req[w].saw = Content(req[w].i)
           /\ Editable /\ holder = None
  BY DEF LockMutable, PeriodLocked, IInv, RevisionTellsContent

LEMMA WriteKeeps ==
    ASSUME IInv, NEW w \in Workers, NEW op, op # "create", NEW imp, Write(w, op, imp),
           req[w].i \in DOMAIN imports =>
               /\ imp \in ImportRecords
               /\ imp.key = imports[req[w].i].key /\ imp.batch = imports[req[w].i].batch
               /\ imp.purged = imports[req[w].i].purged
               /\ imp = imports[req[w].i] \/ imp.revision > imports[req[w].i].revision
               /\ \/ imp = imports[req[w].i]
                  \/ imp.preview = None
                  \/ imp.status \notin Live
    PROVE  IInv'
<1> DEFINE i == req[w].i
<1>1. /\ i \in DOMAIN imports /\ Editable /\ holder = None
      /\ imports' = [imports EXCEPT ![i] = imp]
      /\ UNCHANGED <<pstat, lines, head, holder, told>>
      /\ req' = [req EXCEPT ![w] = None]
  BY WriteReady DEF Write, Served
<1>2. ~imports[i].purged
  BY <1>1, ImportTypes
<1>3. imp.status \in Live /\ imp.preview # None =>
         /\ imp.preview.units = imp.units
         /\ imp.preview.map = imp.context.rule.map
         /\ imp.preview.head = imp.context.expected
  BY <1>1 DEF IInv, PreviewsTrue
<1>4. head'.rev \in Heads /\ (head'.rev > 0 => head'.rule \in Rules)
  BY <1>1 DEF IInv, Types
<1> HIDE DEF i
<1> QED
  BY <1>1, <1>2, <1>3, <1>4, ImportWriteKeeps DEF i

LEMMA InterpretKeeps ==
    ASSUME IInv, NEW w \in Workers, Interpret(w)
    PROVE  IInv'
<1> DEFINE i == req[w].i
           base == [Cleared(imports[i]) EXCEPT !.units = req[w].change]
<1>1. req[w] # None /\ req[w].op = "interpret"
  BY DEF Interpret
<1>2. PICK found \in BOOLEAN : Write(w, "interpret", Prepared(i, base, found))
  BY DEF Interpret
<1>3. req[w].change \in Units
  BY <1>1 DEF IInv, Types, Requests, CreateRequests, ChangeRequests, PreviewRequests
<1>4. ASSUME i \in DOMAIN imports
      PROVE  LET new == Prepared(i, base, found)
             IN  /\ new \in ImportRecords /\ new.preview = None
                 /\ new.key = imports[i].key /\ new.batch = imports[i].batch
                 /\ new.purged = imports[i].purged
                 /\ new.revision > imports[i].revision
  <2>1. imports[i] \in ImportRecords /\ imports[i].revision \in Nat /\ i \in Ids
    BY <1>4, ImportTypes
  <2> DEFINE clear == Cleared(imports[i])
  <2>2. /\ clear \in ImportRecords
        /\ clear.preview = None /\ clear.revision = imports[i].revision + 1
        /\ clear.key = imports[i].key /\ clear.batch = imports[i].batch
        /\ clear.purged = imports[i].purged
    BY <2>1, ClearedEffect
  <2>3. base = [clear EXCEPT !.units = req[w].change]
    OBVIOUS
  <2> HIDE DEF clear, base
  <2>4. /\ base \in ImportRecords /\ base.preview = None
        /\ base.revision = imports[i].revision + 1
        /\ base.key = imports[i].key /\ base.batch = imports[i].batch
        /\ base.purged = imports[i].purged
    BY <1>3, <2>2, <2>3 DEF ImportRecords
  <2> DEFINE new == Prepared(i, base, found)
  <2>5. /\ new \in ImportRecords /\ new.preview = None /\ new.revision >= base.revision
        /\ new.key = base.key /\ new.batch = base.batch /\ new.purged = base.purged
    BY <2>1, <2>4, PreparedEffect DEF IInv
  <2>6. new.revision \in Nat
    BY <2>5 DEF ImportRecords
  <2> HIDE DEF new
  <2>7. new.revision > imports[i].revision
    BY <2>1, <2>4, <2>5, <2>6
  <2> QED
    BY <2>4, <2>5, <2>7 DEF new
<1> HIDE DEF base
<1> QED
  BY <1>2, <1>4, WriteKeeps

\* A mapping that is saved, for both of its callers.
LEMMA MappedKeeps ==
    ASSUME IInv, NEW w \in Workers, NEW op, op # "create", NEW m \in Maps \cup {None},
           Write(w, op, Mapped(req[w].i, imports[req[w].i], m))
    PROVE  IInv'
<1> DEFINE i == req[w].i
           new == Mapped(i, imports[i], m)
<1>1. ASSUME i \in DOMAIN imports
      PROVE  /\ new \in ImportRecords /\ new.preview = None
             /\ new.key = imports[i].key /\ new.batch = imports[i].batch
             /\ new.purged = imports[i].purged
             /\ new.revision > imports[i].revision
  <2>1. imports[i] \in ImportRecords /\ imports[i].revision \in Nat /\ i \in Ids
    BY <1>1, ImportTypes
  <2>2. /\ new \in ImportRecords /\ new.preview = None
        /\ new.revision = imports[i].revision + 1
        /\ new.key = imports[i].key /\ new.batch = imports[i].batch
        /\ new.purged = imports[i].purged
    BY <2>1, MappedEffect DEF IInv
  <2> QED
    BY <2>1, <2>2
<1> HIDE DEF new
<1> QED
  BY <1>1, WriteKeeps DEF new

LEMMA AcceptMappingKeeps ==
    ASSUME IInv, NEW w \in Workers, NEW named \in BOOLEAN, AcceptMapping(w, named)
    PROVE  IInv'
<1>1. req[w] # None /\ req[w].op = "map"
  BY DEF AcceptMapping
<1>2. req[w].change \in Maps \cup {None}
  BY <1>1 DEF IInv, Types, Requests, CreateRequests, ChangeRequests, PreviewRequests
<1>3. Write(w, "map", Mapped(req[w].i, imports[req[w].i], req[w].change))
  BY DEF AcceptMapping
<1> QED
  BY <1>2, <1>3, MappedKeeps

\* A rule that already says so is left alone: nothing is written.
LEMMA UpdateRowHandlingKeeps ==
    ASSUME IInv, NEW w \in Workers, UpdateRowHandling(w)
    PROVE  IInv'
<1>1. req[w] # None /\ req[w].op = "rows"
  BY DEF UpdateRowHandling
<1>2. req[w].change \in Maps
  BY <1>1 DEF IInv, Types, Requests, CreateRequests, ChangeRequests, PreviewRequests
<1>3. \/ Write(w, "rows", imports[req[w].i])
      \/ Write(w, "rows", Mapped(req[w].i, imports[req[w].i], req[w].change))
  BY DEF UpdateRowHandling
<1>4. CASE Write(w, "rows", imports[req[w].i])
  BY <1>4, ImportTypes, WriteKeeps
<1> QED
  BY <1>2, <1>3, <1>4, MappedKeeps

LEMMA CancelKeeps ==
    ASSUME IInv, NEW w \in Workers, Cancel(w)
    PROVE  IInv'
<1> DEFINE i == req[w].i
           new == [imports[i] EXCEPT !.status = "Cancelled", !.revision = @ + 1]
<1>1. Write(w, "cancel", new)
  BY DEF Cancel
<1>2. ASSUME i \in DOMAIN imports
      PROVE  /\ new \in ImportRecords /\ new.status \notin Live
             /\ new.key = imports[i].key /\ new.batch = imports[i].batch
             /\ new.purged = imports[i].purged
             /\ new.revision > imports[i].revision
  <2>1. imports[i] \in ImportRecords /\ imports[i].revision \in Nat
    BY <1>2, ImportTypes
  <2> DEFINE imp == imports[i]
  <2> HIDE DEF imp, i
  <2>2. imp \in ImportRecords /\ imp.revision + 1 \in Nat /\ imp.revision + 1 > imp.revision
    BY <2>1 DEF imp
  <2>3. LET x == [imp EXCEPT !.status = "Cancelled", !.revision = @ + 1]
        IN  /\ x \in ImportRecords /\ x.status \notin Live
            /\ x.key = imp.key /\ x.batch = imp.batch /\ x.purged = imp.purged
            /\ x.revision = imp.revision + 1
    BY <2>2 DEF ImportRecords, Statuses, Live
  <2> QED
    BY <2>2, <2>3 DEF imp
<1> HIDE DEF new
<1> QED
  BY <1>1, <1>2, WriteKeeps

\* Requests taken on.
LEMMA AskKeeps ==
    ASSUME IInv, NEW w \in Workers,
           \/ \E key \in Keys, b \in Batches : AskCreate(w, key, b)
           \/ \E i \in DOMAIN imports :
                 \/ \E u \in Units : Ask(w, "interpret", i, u)
                 \/ \E m \in Maps \cup {None} : Ask(w, "map", i, m)
                 \/ \E m \in Maps : Ask(w, "rows", i, m)
                 \/ Ask(w, "cancel", i, None)
                 \/ PreviewSnapshot(w, i)
    PROVE  IInv'
<1>1. ASSUME NEW key \in Keys, NEW b \in Batches, AskCreate(w, key, b)
      PROVE  IInv'
  <2> DEFINE r == [op |-> "create", key |-> key, batch |-> b, checked |-> FALSE]
  <2>1. r \in Requests /\ r.op = "create"
    BY DEF Requests, CreateRequests
  <2>2. Serve(w, r) /\ UNCHANGED <<pstat, lines, head, imports, holder, told>>
    BY <1>1 DEF AskCreate
  <2> HIDE DEF r
  <2> QED
    BY <2>1, <2>2, ServeKeeps
<1>2. ASSUME NEW i \in DOMAIN imports
      PROVE  Content(i) \in Contents /\ head.rev \in Heads /\ imports[i].revision \in Nat /\ i \in Ids
  BY ImportTypes DEF Content, Contents, ImportRecords, IInv, Types
<1>3. ASSUME NEW i \in DOMAIN imports, NEW op \in {"interpret", "map", "rows", "cancel"},
             NEW change \in Units \cup Maps \cup {None}, Ask(w, op, i, change),
             op = "interpret" => change \in Units,
             op = "map" => change \in Maps \cup {None},
             op = "rows" => change \in Maps
      PROVE  IInv'
  <2> DEFINE r == Asked(op, i, change)
  <2>1. r \in ChangeRequests /\ r.i = i /\ r.rev = imports[i].revision
        /\ r.saw = Content(i) /\ r.op = op
    BY <1>2, <1>3 DEF Asked, ChangeRequests, Changes
  <2>2. Serve(w, r) /\ UNCHANGED <<pstat, lines, head, imports, holder, told>>
    BY <1>3 DEF Ask
  <2> HIDE DEF r
  <2> QED
    BY <2>1, <2>2, ServeKeeps DEF Requests
<1>4. ASSUME NEW i \in DOMAIN imports, PreviewSnapshot(w, i)
      PROVE  IInv'
  <2> DEFINE r == [op |-> "preview", i |-> i, rev |-> imports[i].revision, saw |-> Content(i),
                   head |-> head.rev, history |-> Completed, lines |-> None]
  <2>1. Completed \in SUBSET Ids
    BY <1>2 DEF Completed
  <2>2. r \in PreviewRequests
    BY <1>2, <2>1 DEF PreviewRequests
  <2>3. Serve(w, r) /\ UNCHANGED <<pstat, lines, head, imports, holder, told>>
    BY <1>4 DEF PreviewSnapshot
  <2>4. Content(i).pending # None /\ Content(i).pending.expected = head.rev
    BY <1>4 DEF PreviewSnapshot, RuleContextCurrent, Content
  <2>5. /\ r.op = "preview" /\ r.i = i /\ r.rev = imports[i].revision
        /\ r.saw = Content(i) /\ r.head = head.rev
    OBVIOUS
  <2> HIDE DEF r
  <2> QED
    BY <2>2, <2>3, <2>4, <2>5, ServeKeeps DEF Requests
<1> QED
  BY <1>1, <1>3, <1>4

LEMMA AbandonKeeps ==
    ASSUME IInv, NEW w \in Workers, Abandon(w)
    PROVE  IInv'
<1>1. AnswersExist' /\ CreationIdempotent'
  BY DEF Abandon, IInv, AnswersExist, CreationIdempotent
<1> QED
  BY <1>1, ServedKeeps DEF Abandon

\* The answer a repeated request gets names the import of its batch.
LEMMA RetriedKeeps ==
    ASSUME IInv, NEW key, NEW batch, NEW i \in ImportOf(key), Retried(key, batch, i),
           imports' = imports
    PROVE  AnswersExist' /\ CreationIdempotent'
<1> DEFINE t == <<key, batch, i>>
<1>1. CASE imports[i].batch = batch
  <2>1. told' = told \cup {t} /\ t[3] \in DOMAIN imports
        /\ imports[t[3]].key = t[1] /\ imports[t[3]].batch = t[2]
    BY <1>1 DEF Retried, ImportOf
  <2> HIDE DEF t
  <2> QED
    BY <2>1, ToldKeeps DEF IInv
<1>2. CASE imports[i].batch # batch
  BY <1>2 DEF Retried, IInv, AnswersExist, CreationIdempotent
<1> QED
  BY <1>1, <1>2

\* A request goes on, and still says what it said about the import.
LEMMA GoesOnKeeps ==
    ASSUME IInv, NEW w \in Workers, NEW r \in Requests, req[w] # None, holder # w,
           req' = [req EXCEPT ![w] = r], r.op = req[w].op,
           r.op # "create" => r.i = req[w].i /\ r.rev = req[w].rev /\ r.saw = req[w].saw,
           r.op = "preview" => r.head = req[w].head,
           UNCHANGED <<pstat, lines, head, imports, holder, told>>
    PROVE  IInv'
<1>1. Types'
  BY DEF IInv, Types
<1>2. \A v \in Workers : req'[v] = req[v] \/ (v = w /\ req'[v] = r)
  BY DEF IInv, Types
<1>3. RevisionTellsContent'
  <2> SUFFICES ASSUME NEW v \in Workers, req'[v] # None, req'[v].op # "create"
               PROVE  /\ req'[v].i \in DOMAIN imports
                      /\ req'[v].rev <= imports[req'[v].i].revision
                      /\ imports[req'[v].i].revision = req'[v].rev
                            => Content(req'[v].i) = req'[v].saw
    BY DEF RevisionTellsContent, Content
  <2> QED
    BY <1>2 DEF IInv, RevisionTellsContent
<1>4. SnapshotsCurrent'
  BY <1>2 DEF IInv, SnapshotsCurrent
<1>5. HolderStands'
  <2>1. holder # None => req'[holder] = req[holder]
    BY DEF IInv, Types
  <2> QED
    BY <2>1 DEF IInv, HolderStands, Editable, Completed
<1>6. PreviewsTrue' /\ FinalPeriodsKeepNoDetail' /\ AnswersExist' /\ CreationIdempotent'
  BY DEF IInv, PreviewsTrue, FinalPeriodsKeepNoDetail, AnswersExist, CreationIdempotent
<1> QED
  BY <1>1, <1>3, <1>4, <1>5, <1>6 DEF IInv

LEMMA CreateLookUpKeeps ==
    ASSUME IInv, NEW w \in Workers, CreateLookUp(w)
    PROVE  IInv'
<1> DEFINE r == req[w]
<1>1. r \in CreateRequests /\ r # None /\ r.op = "create"
  BY DEF CreateLookUp, IInv, Types, Requests, ChangeRequests, Changes, PreviewRequests
<1>2. holder # w
  BY <1>1, ImportAssumption DEF IInv, HolderStands
<1>3. CASE req' = [req EXCEPT ![w].checked = TRUE] /\ UNCHANGED told
  <2> DEFINE new == [r EXCEPT !.checked = TRUE]
  <2>1. new \in CreateRequests /\ new.op = "create"
    BY <1>1 DEF CreateRequests
  <2>2. req' = [req EXCEPT ![w] = new]
    BY <1>3
  <2>3. UNCHANGED <<pstat, lines, head, imports, holder, told>>
    BY <1>3 DEF CreateLookUp
  <2> HIDE DEF new
  <2> QED
    BY <1>1, <1>2, <2>1, <2>2, <2>3, GoesOnKeeps DEF Requests
<1>4. CASE \E i \in ImportOf(r.key) : Retried(r.key, r.batch, i) /\ Served(w)
  <2>1. UNCHANGED <<pstat, lines, head, imports, holder>>
    BY DEF CreateLookUp
  <2>2. AnswersExist' /\ CreationIdempotent'
    BY <1>4, <2>1, RetriedKeeps
  <2> QED
    BY <1>2, <1>4, <2>1, <2>2, ServedKeeps
<1> QED
  BY <1>3, <1>4 DEF CreateLookUp

LEMMA PreviewLoadKeeps ==
    ASSUME IInv, NEW w \in Workers, PreviewLoad(w)
    PROVE  IInv'
<1> DEFINE r == req[w]
           new == [r EXCEPT !.lines = lines]
<1>1. r \in PreviewRequests /\ r # None
  BY DEF PreviewLoad, IInv, Types, Requests, ChangeRequests, Changes, CreateRequests
<1>2. lines \in 0 .. MaxLines
  BY DEF IInv, Types
<1>3. /\ new \in PreviewRequests /\ new.op = r.op /\ new.i = r.i /\ new.rev = r.rev
      /\ new.saw = r.saw /\ new.head = r.head
  BY <1>1, <1>2 DEF PreviewRequests
<1>4. holder # w
  BY ImportAssumption DEF PreviewLoad, IInv, HolderStands
<1>5. req' = [req EXCEPT ![w] = new] /\ UNCHANGED <<pstat, lines, head, imports, holder, told>>
  BY DEF PreviewLoad
<1> HIDE DEF new
<1> QED
  BY <1>1, <1>3, <1>4, <1>5, GoesOnKeeps DEF Requests

LEMMA PreviewRecheckKeeps ==
    ASSUME IInv, NEW w \in Workers, PreviewRecheck(w)
    PROVE  IInv'
<1>1. /\ req[w] # None /\ req[w].op = "preview" /\ req[w].lines # None
      /\ LockMutable(req[w].i, req[w].rev) /\ NothingMoved(req[w])
      /\ holder' = w /\ UNCHANGED <<pstat, lines, head, imports, req, told>>
  BY DEF PreviewRecheck
<1>2. Types'
  BY <1>1 DEF IInv, Types
<1>3. HolderStands'
  BY <1>1 DEF HolderStands, LockMutable, PeriodLocked, NothingMoved, Editable, Completed
<1>4. RevisionTellsContent' /\ SnapshotsCurrent'
  BY <1>1 DEF IInv, RevisionTellsContent, SnapshotsCurrent, Content
<1>5. PreviewsTrue' /\ FinalPeriodsKeepNoDetail' /\ AnswersExist' /\ CreationIdempotent'
  BY <1>1 DEF IInv, PreviewsTrue, FinalPeriodsKeepNoDetail, AnswersExist, CreationIdempotent
<1> QED
  BY <1>2, <1>3, <1>4, <1>5 DEF IInv

\* Under the lock the key is taken, or names the import that is made now.
LEMMA CreateInsertKeeps ==
    ASSUME IInv, NEW w \in Workers, CreateInsert(w)
    PROVE  IInv'
<1> DEFINE r == req[w]
           i == Cardinality(DOMAIN imports) + 1
<1>1. /\ r # None /\ r.op = "create" /\ PeriodLocked
      /\ Served(w) /\ UNCHANGED <<pstat, lines, head, holder>>
  BY DEF CreateInsert
<1>2. CASE \E j \in ImportOf(r.key) : Retried(r.key, r.batch, j) /\ UNCHANGED imports
  <2>1. AnswersExist' /\ CreationIdempotent'
    BY <1>2, RetriedKeeps
  <2> QED
    BY <1>1, <1>2, <2>1, ServedKeeps DEF PeriodLocked
<1>3. CASE /\ ImportOf(r.key) = {} /\ i \in Ids
           /\ \E found \in BOOLEAN : imports' = [j \in DOMAIN imports \cup {i} |->
                        IF j = i THEN Prepared(i, New(r), found) ELSE imports[j]]
           /\ told' = told \cup {<<r.key, r.batch, i>>}
  <2>1. PICK n \in 0 .. MaxImports : imports \in [1 .. n -> ImportRecords]
    BY DEF IInv, Types
  <2>2. Cardinality(DOMAIN imports) = n
    BY <2>1, FS_Interval, ImportAssumption
  <2>3. i = n + 1 /\ n + 1 \in 0 .. MaxImports
    BY <1>3, <2>1, <2>2, ImportAssumption DEF Ids
  <2>4. PICK found \in BOOLEAN : imports' = [j \in DOMAIN imports \cup {i} |->
                        IF j = i THEN Prepared(i, New(r), found) ELSE imports[j]]
    BY <1>3
  <2> DEFINE new == Prepared(i, New(r), found)
  <2>5. r \in CreateRequests
    BY <1>1 DEF IInv, Types, Requests, ChangeRequests, Changes, PreviewRequests
  <2>6. /\ New(r) \in ImportRecords /\ New(r).preview = None /\ ~New(r).purged
        /\ New(r).key = r.key /\ New(r).batch = r.batch
    BY <2>5, ImportAssumption DEF New, ImportRecords, CreateRequests, Statuses, Live
  <2>7. /\ new \in ImportRecords /\ new.preview = None /\ ~new.purged
        /\ new.key = r.key /\ new.batch = r.batch
    BY <1>3, <2>6, PreparedEffect DEF IInv
  <2>8. imports' = [j \in 1 .. n + 1 |-> IF j = n + 1 THEN new ELSE imports[j]]
    BY <2>1, <2>3, <2>4
  <2> HIDE DEF new, i
  <2>9. /\ imports' \in [1 .. n + 1 -> ImportRecords]
        /\ imports'[n + 1] = new
        /\ \A j \in 1 .. n : j \in DOMAIN imports' /\ imports'[j] = imports[j]
        /\ \A j \in DOMAIN imports' : j \in 1 .. n \/ j = n + 1
        /\ n + 1 \notin DOMAIN imports
    BY <2>1, <2>7, <2>8
  <2>10. \A v \in Workers : req'[v] # None => req'[v] = req[v]
    BY <1>1 DEF Served, IInv, Types
  <2>11. Types'
    <3>1. req' \in [Workers -> Requests \cup {None}]
      BY <1>1 DEF Served, IInv, Types
    <3> QED
      BY <1>1, <2>3, <2>9, <3>1 DEF IInv, Types
  <2>12. RevisionTellsContent'
    <3>1. ASSUME NEW v \in Workers, req[v] # None, req[v].op # "create"
          PROVE  /\ req[v].i \in DOMAIN imports'
                 /\ req[v].rev <= imports'[req[v].i].revision
                 /\ imports'[req[v].i].revision = req[v].rev
                       => ContentOf(imports'[req[v].i]) = req[v].saw
      BY <2>1, <2>9, <3>1 DEF IInv, RevisionTellsContent, Content, ContentOf
    <3> QED
      BY <2>10, <3>1 DEF RevisionTellsContent, Content, ContentOf
  <2>13. SnapshotsCurrent'
    BY <2>10 DEF IInv, SnapshotsCurrent
  <2>14. HolderStands'
    BY <1>1 DEF HolderStands, PeriodLocked
  <2>15. PreviewsTrue'
    BY <2>1, <2>7, <2>9 DEF IInv, PreviewsTrue
  <2>16. FinalPeriodsKeepNoDetail'
    BY <1>1, <2>1, <2>7, <2>9 DEF IInv, FinalPeriodsKeepNoDetail, PeriodLocked, Editable, EditableStatuses
  <2>17. /\ \A j \in 1 .. n : imports'[j].key = imports[j].key /\ imports'[j].batch = imports[j].batch
         /\ imports'[n + 1].key = r.key /\ imports'[n + 1].batch = r.batch
         /\ \A j \in 1 .. n : imports[j].key # r.key
    BY <1>3, <2>1, <2>7, <2>9 DEF ImportOf
  <2>18. told' = told \cup {<<r.key, r.batch, n + 1>>}
    BY <1>3, <2>3
  <2>19. AnswersExist'
    BY <2>1, <2>9, <2>18 DEF IInv, AnswersExist
  <2>20. CreationIdempotent'
    <3>1. ASSUME NEW j \in DOMAIN imports', NEW k \in DOMAIN imports', imports'[j].key = imports'[k].key
          PROVE  j = k
      BY <2>1, <2>9, <2>17, <3>1 DEF IInv, CreationIdempotent
    <3>2. ASSUME NEW t \in told'
          PROVE  imports'[t[3]].key = t[1] /\ imports'[t[3]].batch = t[2]
      <4>1. CASE t \in told
        BY <2>1, <2>17, <4>1 DEF IInv, AnswersExist, CreationIdempotent
      <4>2. CASE t = <<r.key, r.batch, n + 1>>
        BY <2>17, <4>2
      <4> QED
        BY <2>18, <4>1, <4>2
    <3> QED
      BY <3>1, <3>2 DEF CreationIdempotent
  <2> QED
    BY <2>11, <2>12, <2>13, <2>14, <2>15, <2>16, <2>19, <2>20 DEF IInv
<1> QED
  BY <1>2, <1>3 DEF CreateInsert, KeyTaken

\* What a publication writes, and what of it was computed before.
LEMMA PublishEffect ==
    ASSUME IInv, NEW w \in Workers, PreviewPublish(w)
    PROVE  LET r == req[w]
           IN  /\ r.i \in DOMAIN imports /\ Editable
               /\ r.saw = Content(r.i)
               /\ \E new \in ImportRecords :
                     /\ imports' = [imports EXCEPT ![r.i] = new]
                     /\ new.key = imports[r.i].key /\ new.batch = imports[r.i].batch
                     /\ ~new.purged /\ new.status = "NeedsReview"
                     /\ new.revision = imports[r.i].revision + 1
                     /\ new.units = imports[r.i].units
                     /\ new.pending # None /\ new.context = new.pending
                     /\ new.pending.expected = head.rev /\ new.pending.expected = r.head
                     /\ new.pending.rule.map = r.saw.pending.rule.map
                     /\ new.preview = [units |-> new.units, map |-> new.pending.rule.map,
                                       head |-> head.rev, history |-> Completed, lines |-> lines]
                     /\ new.preview \in Previews
<1> DEFINE r == req[w]
           i == r.i
           imp == imports[i]
<1>1. /\ r # None /\ r.op = "preview" /\ Editable
      /\ imports[i].revision = r.rev /\ imports[i].status \in Live /\ ~imports[i].purged
      /\ lines = r.lines /\ Completed = r.history
  BY ImportAssumption DEF PreviewPublish, IInv, HolderStands
<1>2. i \in DOMAIN imports /\ r.saw = Content(i)
  BY <1>1 DEF IInv, RevisionTellsContent
<1>3. imp \in ImportRecords /\ i \in Ids
  BY <1>2, ImportTypes
<1>4. r.saw.pending # None /\ r.saw.pending.expected = r.head
  BY <1>1 DEF IInv, SnapshotsCurrent
<1>5. imp.pending = r.saw.pending /\ imp.units = r.saw.units
  BY <1>2 DEF Content
<1>6. PICK learnt \in BOOLEAN :
         LET x == WithDates(i, imp, learnt)
         IN  /\ RuleContextCurrent(x)
             /\ imports' = [imports EXCEPT ![i] =
                   [Cleared(x) EXCEPT
                       !.pending = x.pending, !.context = x.pending, !.status = "NeedsReview",
                       !.preview = [units |-> r.saw.units, map |-> r.saw.pending.rule.map,
                                    head |-> r.head, history |-> r.history, lines |-> r.lines]]]
  BY DEF PreviewPublish
<1> DEFINE x == WithDates(i, imp, learnt)
<1> HIDE DEF i, imp, r
<1>7. /\ x \in ImportRecords
      /\ x.key = imp.key /\ x.batch = imp.batch /\ x.purged = imp.purged
      /\ x.revision = imp.revision /\ x.units = imp.units
      /\ x.pending \in Pendings
      /\ x.pending.expected = imp.pending.expected
      /\ x.pending.rule.map = imp.pending.rule.map
  <2>1. imp.pending \in Pendings
    BY <1>3, <1>4, <1>5 DEF ImportRecords
  <2> DEFINE p == imp.pending
             rule == [p.rule EXCEPT !.dated = TRUE, !.origin = i]
             q == [p EXCEPT !.rev = p.rev + 1, !.rule = rule]
  <2>2. rule \in Rules /\ rule.map = p.rule.map
    <3>1. i \in 0 .. MaxImports
      BY <1>3, ImportAssumption DEF Ids
    <3>2. p.rule \in Rules
      BY <2>1 DEF Pendings
    <3> HIDE DEF p
    <3> QED
      BY <3>1, <3>2 DEF Rules
  <2>3. p \in Pendings /\ p.rev + 1 \in Nat
    BY <2>1 DEF Pendings
  <2> HIDE DEF p, rule
  <2>4. q \in Pendings /\ q.expected = p.expected /\ q.rule = rule
    BY <2>2, <2>3 DEF Pendings
  <2>5. CASE ~learnt \/ imp.pending.rule.dated
    BY <1>3, <2>1, <2>5 DEF WithDates, x
  <2>6. CASE ~(~learnt \/ imp.pending.rule.dated)
    <3>1. x = [imp EXCEPT !.pending = q]
      BY <2>6 DEF WithDates, x, p, rule
    <3> HIDE DEF q, x
    <3>2. /\ x \in ImportRecords
          /\ x.key = imp.key /\ x.batch = imp.batch /\ x.purged = imp.purged
          /\ x.revision = imp.revision /\ x.units = imp.units /\ x.pending = q
      BY <1>3, <2>4, <3>1 DEF ImportRecords
    <3> QED
      BY <2>2, <2>4, <3>2 DEF p
  <2> QED
    BY <2>5, <2>6
<1> DEFINE preview == [units |-> r.saw.units, map |-> r.saw.pending.rule.map,
                       head |-> r.head, history |-> r.history, lines |-> r.lines]
           clear == Cleared(x)
           new == [clear EXCEPT !.pending = x.pending, !.context = x.pending,
                                !.status = "NeedsReview", !.preview = preview]
<1> HIDE DEF x
<1>8. x.pending # None /\ x.pending.expected = head.rev /\ imports' = [imports EXCEPT ![i] = new]
  BY <1>6 DEF x, RuleContextCurrent
<1>9. preview \in Previews
  <2>1. r \in PreviewRequests
    BY <1>1 DEF r, IInv, Types, Requests, ChangeRequests, Changes, CreateRequests
  <2>2. r.saw.units \in Units /\ r.saw.pending.rule.map \in Maps
    BY <1>3, <1>4, <1>5 DEF ImportRecords, Pendings, Rules
  <2>3. lines \in 0 .. MaxLines
    BY DEF IInv, Types
  <2> QED
    BY <1>1, <2>1, <2>2, <2>3 DEF Previews, PreviewRequests, Heads
<1>10. preview = [units |-> imp.units, map |-> x.pending.rule.map, head |-> head.rev,
                  history |-> Completed, lines |-> lines]
  BY <1>1, <1>4, <1>5, <1>7, <1>8
<1>11. /\ clear \in ImportRecords /\ clear.revision = x.revision + 1
       /\ clear.key = x.key /\ clear.batch = x.batch /\ clear.purged = x.purged
       /\ clear.units = x.units
  BY <1>7, ClearedEffect
<1> HIDE DEF preview, clear
<1>12. /\ new \in ImportRecords /\ new.revision = x.revision + 1
       /\ new.key = x.key /\ new.batch = x.batch /\ new.purged = x.purged
       /\ new.units = x.units /\ new.pending = x.pending /\ new.context = x.pending
       /\ new.status = "NeedsReview" /\ new.preview = preview
  BY <1>7, <1>9, <1>11 DEF ImportRecords, Statuses, Live
<1> HIDE DEF new
<1> QED
  BY <1>1, <1>2, <1>4, <1>5, <1>7, <1>8, <1>9, <1>10, <1>12 DEF i, imp, r

LEMMA PublishKeeps ==
    ASSUME IInv, NEW w \in Workers, PreviewPublish(w)
    PROVE  IInv'
<1> DEFINE i == req[w].i
<1>1. i \in DOMAIN imports /\ Editable
  BY PublishEffect
<1>2. PICK new \in ImportRecords :
         /\ imports' = [imports EXCEPT ![i] = new]
         /\ new.key = imports[i].key /\ new.batch = imports[i].batch
         /\ ~new.purged
         /\ new.revision = imports[i].revision + 1
         /\ new.context = new.pending
         /\ new.pending.expected = head.rev
         /\ new.preview = [units |-> new.units, map |-> new.pending.rule.map,
                           head |-> head.rev, history |-> Completed, lines |-> lines]
  BY PublishEffect
<1>3. imports[i].revision \in Nat
  BY <1>1, ImportTypes
<1>4. new.revision > imports[i].revision
  BY <1>2, <1>3
<1>5. /\ new.preview.units = new.units
      /\ new.preview.map = new.context.rule.map
      /\ new.preview.head = new.context.expected
  BY <1>2
<1>6. /\ req' = [req EXCEPT ![w] = None] /\ holder' = None
      /\ UNCHANGED <<pstat, lines, head, told>>
  BY DEF PreviewPublish, Served
<1>7. head'.rev \in Heads /\ (head'.rev > 0 => head'.rule \in Rules)
  BY <1>6 DEF IInv, Types
<1> HIDE DEF i
<1> QED
  BY <1>1, <1>2, <1>4, <1>5, <1>6, <1>7, ImportWriteKeeps

LEMMA CompleteKeeps ==
    ASSUME IInv, NEW i \in DOMAIN imports, Complete(i)
    PROVE  IInv'
<1> DEFINE new == [imports[i] EXCEPT !.status = "Completed", !.revision = @ + 1]
<1>1. imports[i] \in ImportRecords /\ imports[i].revision \in Nat /\ (Editable => ~imports[i].purged)
  BY ImportTypes
<1>2. /\ new \in ImportRecords /\ new.status \notin Live
      /\ new.key = imports[i].key /\ new.batch = imports[i].batch
      /\ new.purged = imports[i].purged
      /\ new.revision > imports[i].revision
  <2> DEFINE imp == imports[i]
  <2> HIDE DEF imp
  <2>1. imp \in ImportRecords /\ imp.revision + 1 \in Nat /\ imp.revision + 1 > imp.revision
    BY <1>1 DEF imp
  <2>2. LET x == [imp EXCEPT !.status = "Completed", !.revision = @ + 1]
        IN  /\ x \in ImportRecords /\ x.status \notin Live
            /\ x.key = imp.key /\ x.batch = imp.batch /\ x.purged = imp.purged
            /\ x.revision = imp.revision + 1
    BY <2>1 DEF ImportRecords, Statuses, Live
  <2> QED
    BY <2>1, <2>2 DEF imp
<1>3. imports' = [imports EXCEPT ![i] = new]
  <2>1. PICK n \in 0 .. MaxImports : imports \in [1 .. n -> ImportRecords]
    BY DEF IInv, Types
  <2>2. imports' = [imports EXCEPT ![i].status = "Completed", ![i].revision = @ + 1]
    BY DEF Complete
  <2> QED
    BY <2>1, <2>2
<1>4. /\ Editable /\ holder = None /\ req' = req /\ holder' = holder
      /\ UNCHANGED <<pstat, lines, told>>
  BY DEF Complete, PeriodLocked
<1>5. head'.rev \in Heads /\ (head'.rev > 0 => head'.rule \in Rules)
  <2>1. imports[i].pending # None
    BY DEF Complete, Servable, RuleContextCurrent, Live
  <2>2. imports[i].pending.rule \in Rules
    BY <1>1, <2>1 DEF ImportRecords, Pendings
  <2>3. head.rev \in Heads /\ (head.rev > 0 => head.rule \in Rules)
    BY DEF IInv, Types
  <2>4. CASE UNCHANGED head
    BY <2>3, <2>4
  <2>5. CASE /\ head.rev < MaxHead
             /\ head' = [rule |-> imports[i].pending.rule, rev |-> head.rev + 1]
    BY <2>2, <2>3, <2>5, ImportAssumption DEF Heads
  <2> QED
    BY <2>4, <2>5 DEF Complete
<1> HIDE DEF new
<1> QED
  BY <1>1, <1>2, <1>3, <1>4, <1>5, ImportWriteKeeps

\* Finalization leaves no import its detail, and every request behind.
LEMMA FinalizeKeeps ==
    ASSUME IInv, Finalize
    PROVE  IInv'
<1>1. PICK n \in 0 .. MaxImports : imports \in [1 .. n -> ImportRecords]
  BY DEF IInv, Types
<1>2. /\ pstat = "InReview" /\ pstat' = "Locked" /\ holder = None
      /\ UNCHANGED <<lines, head, req, holder, told>>
  BY DEF Finalize
<1>3. \A i \in 1 .. n : ~imports[i].purged
  BY <1>1, <1>2 DEF IInv, FinalPeriodsKeepNoDetail
<1> DEFINE Purged(i) == [imports[i] EXCEPT !.preview = None, !.context = None,
                                           !.purged = TRUE, !.revision = @ + 1]
<1>4. imports' = [i \in 1 .. n |-> Purged(i)]
  BY <1>1, <1>3 DEF Finalize, ToPurge
<1>5. ASSUME NEW i \in 1 .. n
      PROVE  /\ Purged(i) \in ImportRecords
             /\ Purged(i).preview = None /\ Purged(i).context = None /\ Purged(i).purged
             /\ Purged(i).key = imports[i].key /\ Purged(i).batch = imports[i].batch
             /\ imports[i].revision \in Nat /\ Purged(i).revision = imports[i].revision + 1
  <2> DEFINE imp == imports[i]
  <2> HIDE DEF imp
  <2>1. imp \in ImportRecords
    BY <1>1 DEF imp
  <2>2. imp.revision \in Nat /\ imp.revision + 1 \in Nat
    BY <2>1 DEF ImportRecords
  <2>3. LET x == [imp EXCEPT !.preview = None, !.context = None,
                             !.purged = TRUE, !.revision = @ + 1]
        IN  /\ x \in ImportRecords /\ x.preview = None /\ x.context = None /\ x.purged
            /\ x.key = imp.key /\ x.batch = imp.batch
            /\ x.revision = imp.revision + 1
    BY <2>1, <2>2 DEF ImportRecords
  <2> QED
    BY <2>2, <2>3 DEF imp
<1> HIDE DEF Purged
<1>6. Types'
  <2>1. imports' \in [1 .. n -> ImportRecords]
    BY <1>4, <1>5
  <2> QED
    BY <1>2, <2>1 DEF IInv, Types
<1>7. RevisionTellsContent'
  <2>1. ASSUME NEW w \in Workers, req[w] # None, req[w].op # "create"
        PROVE  /\ req[w].i \in DOMAIN imports'
               /\ req[w].rev < imports'[req[w].i].revision
               /\ imports'[req[w].i].revision \in Nat /\ req[w].rev \in Nat
    <3>1. req[w].i \in 1 .. n /\ req[w].rev <= imports[req[w].i].revision
      BY <1>1, <2>1 DEF IInv, RevisionTellsContent
    <3>2. req[w].rev \in Nat
      BY <2>1 DEF IInv, Types, Requests, CreateRequests, ChangeRequests, Changes, PreviewRequests
    <3> QED
      BY <1>4, <1>5, <3>1, <3>2
  <2> QED
    BY <1>2, <2>1 DEF RevisionTellsContent
<1>8. SnapshotsCurrent' /\ HolderStands'
  BY <1>2 DEF IInv, SnapshotsCurrent, HolderStands
<1>9. PreviewsTrue' /\ FinalPeriodsKeepNoDetail'
  BY <1>2, <1>4, <1>5 DEF PreviewsTrue, FinalPeriodsKeepNoDetail
<1>10. AnswersExist' /\ CreationIdempotent'
  <2>1. /\ DOMAIN imports = 1 .. n /\ DOMAIN imports' = 1 .. n
        /\ \A i \in 1 .. n : /\ imports'[i].key = imports[i].key
                             /\ imports'[i].batch = imports[i].batch
    BY <1>1, <1>4, <1>5
  <2>2. UNCHANGED <<told, req>> /\ AnswersExist /\ CreationIdempotent
    BY <1>2 DEF IInv
  <2>3. AnswersExist'
    BY <2>1, <2>2 DEF AnswersExist
  <2> QED
    BY <2>1, <2>2, <2>3 DEF AnswersExist, CreationIdempotent
<1> QED
  BY <1>6, <1>7, <1>8, <1>9, <1>10 DEF IInv

\* The rest moves neither imports nor requests.
LEMMA OtherKeeps ==
    ASSUME IInv, EnterLines \/ MovePeriod \/ (\E m \in Maps : AdvanceHead(m))
    PROVE  IInv'
<1>1. UNCHANGED <<imports, req, holder, told>>
  BY DEF EnterLines, MovePeriod, AdvanceHead
<1>2. Types'
  <2>1. CASE EnterLines
    BY <2>1, ImportAssumption DEF IInv, Types, EnterLines
  <2>2. CASE MovePeriod
    BY <2>2 DEF IInv, Types, MovePeriod, EditableStatuses
  <2>3. ASSUME NEW m \in Maps, AdvanceHead(m)
        PROVE  Types'
    <3>1. PICK dated \in BOOLEAN :
             head' = [rule |-> [map |-> m, dated |-> dated, origin |-> 0], rev |-> head.rev + 1]
      BY <2>3 DEF AdvanceHead
    <3>2. head.rev + 1 \in Heads /\ 0 \in 0 .. MaxImports
      BY <2>3, ImportAssumption DEF AdvanceHead, IInv, Types, Heads
    <3>3. [map |-> m, dated |-> dated, origin |-> 0] \in Rules
      BY <3>2 DEF Rules
    <3> QED
      BY <2>3, <3>1, <3>2, <3>3 DEF AdvanceHead, IInv, Types
  <2> QED
    BY <2>1, <2>2, <2>3
<1>3. HolderStands'
  BY <1>1 DEF IInv, HolderStands, EnterLines, MovePeriod, AdvanceHead, PeriodLocked, Editable,
              Completed
<1>4. RevisionTellsContent' /\ SnapshotsCurrent' /\ PreviewsTrue' /\ AnswersExist' /\ CreationIdempotent'
  BY <1>1 DEF IInv, RevisionTellsContent, SnapshotsCurrent, PreviewsTrue, AnswersExist,
              CreationIdempotent, Content
<1>5. FinalPeriodsKeepNoDetail'
  BY <1>1 DEF IInv, FinalPeriodsKeepNoDetail, EnterLines, MovePeriod, AdvanceHead, EditableStatuses
<1> QED
  BY <1>2, <1>3, <1>4, <1>5 DEF IInv

-----------------------------------------------------------------------------
LEMMA InitIInv == Init => IInv
<1> SUFFICES ASSUME Init PROVE IInv
  OBVIOUS
<1>1. DOMAIN imports = {} /\ imports \in [1 .. 0 -> ImportRecords]
  BY DEF Init
<1>2. Types
  <2>1. 0 \in 0 .. MaxImports /\ 0 \in 0 .. MaxLines /\ 0 \in Heads
    BY ImportAssumption DEF Heads
  <2> QED
    BY <1>1, <2>1 DEF Init, Types
<1>3. /\ RevisionTellsContent /\ SnapshotsCurrent /\ HolderStands /\ PreviewsTrue
      /\ FinalPeriodsKeepNoDetail /\ AnswersExist /\ CreationIdempotent
  BY <1>1 DEF Init, RevisionTellsContent, SnapshotsCurrent, HolderStands, PreviewsTrue,
              FinalPeriodsKeepNoDetail, AnswersExist, CreationIdempotent
<1> QED
  BY <1>2, <1>3 DEF IInv

LEMMA NextIInv == IInv /\ [Next]_vars => IInv'
<1> SUFFICES ASSUME IInv, [Next]_vars PROVE IInv'
  OBVIOUS
<1>1. ASSUME NEW w \in Workers, WorkerNext(w)
      PROVE  IInv'
  BY <1>1, AskKeeps, CreateLookUpKeeps, CreateInsertKeeps, InterpretKeeps, UpdateRowHandlingKeeps,
     CancelKeeps, AcceptMappingKeeps, PreviewLoadKeeps, PreviewRecheckKeeps, PublishKeeps,
     AbandonKeeps DEF WorkerNext
<1>2. CASE EnterLines \/ MovePeriod \/ (\E m \in Maps : AdvanceHead(m))
  BY <1>2, OtherKeeps
<1>3. CASE UNCHANGED vars
  BY <1>3 DEF vars, IInv, Types, RevisionTellsContent, SnapshotsCurrent, HolderStands, PreviewsTrue,
              FinalPeriodsKeepNoDetail, AnswersExist, CreationIdempotent, Editable, Completed, Content
<1> QED
  BY <1>1, <1>2, <1>3, FinalizeKeeps, CompleteKeeps DEF Next

THEOREM Invariance == Spec => []IInv
  BY InitIInv, NextIInv, PTL DEF Spec

-----------------------------------------------------------------------------
\* One key names one import, and whoever got an answer got the import of the
\* batch sent (create_import, _retry).
THEOREM CreationIsIdempotent == Spec => []CreationIdempotent
<1>1. IInv => CreationIdempotent
  BY DEF IInv
<1> QED
  BY <1>1, Invariance, PTL

\* Final periods keep no detail, whatever requests were under way when they
\* became final (purge_payroll_work_import_details).
THEOREM DetailIsPurged == Spec => []FinalPeriodsKeepNoDetail
<1>1. IInv => FinalPeriodsKeepNoDetail
  BY DEF IInv
<1> QED
  BY <1>1, Invariance, PTL

\* A preview that is served while the import is worked on was computed from
\* today's interpretation, mapping and rule head (_read_identity).
THEOREM ServedPreviewsAreCurrent == Spec => []ServedPreviewIsCurrent
<1>1. IInv => ServedPreviewIsCurrent
  BY DEF IInv, PreviewsTrue, ServedPreviewIsCurrent, Servable, RuleContextCurrent
<1> QED
  BY <1>1, Invariance, PTL

\* A request that is over and has changed imports had read the content it
\* changed.
LEMMA WriterHadRead ==
    ASSUME IInv, Next, NEW w \in Workers, req[w] # None, req'[w] = None,
           req[w].op # "create", imports' # imports
    PROVE  req[w].saw = Content(req[w].i)
<1>1. \A v \in Workers : v # w /\ WorkerNext(v) => req'[w] = req[w]
  <2> SUFFICES ASSUME NEW v \in Workers, v # w, WorkerNext(v)
               PROVE  req'[w] = req[w]
    OBVIOUS
  <2>1. DOMAIN req = Workers
    BY DEF IInv, Types
  <2>2. ASSUME NEW x, req' = [req EXCEPT ![v] = x]
        PROVE  req'[w] = req[w]
    BY <2>1, <2>2
  <2>3. CASE \E x : Serve(v, x)
    BY <2>2, <2>3 DEF Serve
  <2>4. CASE Served(v)
    BY <2>2, <2>4 DEF Served
  <2>5. CASE req' = [req EXCEPT ![v].checked = TRUE] \/ req' = [req EXCEPT ![v].lines = lines]
    BY <2>1, <2>5
  <2>6. \/ \E x : Serve(v, x)
        \/ Served(v)
        \/ req' = [req EXCEPT ![v].checked = TRUE] \/ req' = [req EXCEPT ![v].lines = lines]
    <3>1. CASE CreateLookUp(v) \/ CreateInsert(v) \/ \E key \in Keys, b \in Batches : AskCreate(v, key, b)
      BY <3>1 DEF AskCreate, CreateLookUp, CreateInsert
    <3>2. CASE \E i \in DOMAIN imports :
                  PreviewSnapshot(v, i) \/ \E kind, change : Ask(v, kind, i, change)
      BY <3>2 DEF Ask, PreviewSnapshot
    <3>3. CASE \/ Interpret(v) \/ UpdateRowHandling(v) \/ Cancel(v)
               \/ \E named \in BOOLEAN : AcceptMapping(v, named)
      BY <3>3 DEF Write, Interpret, UpdateRowHandling, Cancel, AcceptMapping
    <3>4. CASE PreviewLoad(v) \/ PreviewRecheck(v) \/ PreviewPublish(v) \/ Abandon(v)
      BY <3>4 DEF PreviewLoad, PreviewRecheck, PreviewPublish, Abandon
    <3> QED
      BY <3>1, <3>2, <3>3, <3>4 DEF WorkerNext
  <2> QED
    BY <2>3, <2>4, <2>5, <2>6
<1>2. ~(EnterLines \/ MovePeriod \/ Finalize \/ (\E i \in DOMAIN imports : Complete(i))
                   \/ \E m \in Maps : AdvanceHead(m))
  BY DEF EnterLines, MovePeriod, Finalize, Complete, AdvanceHead
<1>3. WorkerNext(w)
  BY <1>1, <1>2 DEF Next
<1>4. \/ PreviewPublish(w)
      \/ Interpret(w) \/ UpdateRowHandling(w) \/ Cancel(w) \/ \E named \in BOOLEAN : AcceptMapping(w, named)
  BY <1>3 DEF WorkerNext, AskCreate, CreateLookUp, CreateInsert, Ask, PreviewSnapshot, Serve,
              PreviewLoad, PreviewRecheck, Abandon
<1>5. CASE PreviewPublish(w)
  BY <1>5, PublishEffect
<1>6. CASE Interpret(w) \/ UpdateRowHandling(w) \/ Cancel(w) \/ \E named \in BOOLEAN : AcceptMapping(w, named)
  <2>1. LockMutable(req[w].i, req[w].rev)
    BY <1>6 DEF Interpret, UpdateRowHandling, Cancel, AcceptMapping, Write
  <2> QED
    BY <2>1, WriteReady
<1> QED
  BY <1>4, <1>5, <1>6

\* No update is lost: a change is only written to the content that its client
\* and its own first transaction have seen (_lock_mutable).
THEOREM NoUpdateIsLost == Spec => NoLostUpdate
<1>1. IInv /\ [Next]_vars =>
         [\A w \in Workers :
             LET r == req[w] IN
             r # None /\ req'[w] = None /\ r.op # "create" /\ imports' # imports
                => r.saw = Content(r.i)]_vars
  BY WriterHadRead
<1> QED
  BY <1>1, Invariance, PTL DEF Spec, NoLostUpdate

\* While a preview is published only its publication writes imports.
LEMMA HolderWrites ==
    ASSUME IInv, Next, NEW w \in Workers, holder = w, imports' # imports
    PROVE  PreviewPublish(w)
<1>1. holder # None
  BY ImportAssumption
<1>2. ~(EnterLines \/ MovePeriod \/ Finalize \/ (\E i \in DOMAIN imports : Complete(i))
                   \/ \E m \in Maps : AdvanceHead(m))
  BY <1>1 DEF EnterLines, MovePeriod, Finalize, Complete, AdvanceHead, PeriodLocked
<1>3. ASSUME NEW v \in Workers, WorkerNext(v)
      PROVE  PreviewPublish(v)
  <2>1. ~(Interpret(v) \/ UpdateRowHandling(v) \/ Cancel(v) \/ \E named \in BOOLEAN : AcceptMapping(v, named))
    BY <1>1 DEF Interpret, UpdateRowHandling, Cancel, AcceptMapping, Write, LockMutable, PeriodLocked
  <2> QED
    BY <1>1, <1>3, <2>1 DEF WorkerNext, AskCreate, CreateLookUp, CreateInsert, Ask, PreviewSnapshot,
                            PreviewLoad, PreviewRecheck, Abandon, PeriodLocked
<1> QED
  BY <1>2, <1>3 DEF Next, PreviewPublish

LEMMA PublishesCurrentFacts ==
    ASSUME IInv, Next, NEW w \in Workers, NEW i \in DOMAIN imports,
           holder = w, req[w].i = i, imports'[i] # imports[i]
    PROVE  /\ imports'[i].preview.lines = lines
           /\ imports'[i].preview.history = Completed
           /\ Servable(i)'
<1>1. PreviewPublish(w)
  BY HolderWrites
<1>2. PICK new \in ImportRecords :
         /\ imports' = [imports EXCEPT ![i] = new]
         /\ new.pending # None /\ new.context = new.pending
         /\ new.pending.expected = head.rev
         /\ new.preview = [units |-> new.units, map |-> new.pending.rule.map,
                           head |-> head.rev, history |-> Completed, lines |-> lines]
         /\ new.preview \in Previews
  BY <1>1, PublishEffect
<1>3. imports'[i] = new /\ head' = head
  BY <1>1, <1>2 DEF PreviewPublish
<1>4. new.preview.lines = lines /\ new.preview.history = Completed /\ new.preview # None
  BY <1>2, NullAssumption
<1> QED
  BY <1>2, <1>3, <1>4 DEF Servable, RuleContextCurrent

\* A preview is published on the payroll facts and completed imports of that
\* moment, and can be read (build_preview).
THEOREM PreviewsArePublishedOnCurrentFacts == Spec => PublishedOnCurrentFacts
<1>1. IInv /\ [Next]_vars =>
         [\A w \in Workers, i \in DOMAIN imports :
             holder = w /\ req[w].i = i /\ imports'[i] # imports[i] =>
                 /\ imports'[i].preview.lines = lines
                 /\ imports'[i].preview.history = Completed
                 /\ Servable(i)']_imports
  BY PublishesCurrentFacts DEF vars
<1> QED
  BY <1>1, Invariance, PTL DEF Spec, PublishedOnCurrentFacts
===============================================================================
