--------------------------- MODULE ImportBatches ----------------------------
(***************************************************************************)
(* Batches of work files uploaded for one payroll period                   *)
(* (imports/batch_service.py): their creation under an idempotency key, the*)
(* interpretation of the files, the mapping of columns to a pay definition *)
(* with its saved rules, the preview, and the purge by finalization        *)
(* (imports/retention.py).                                                 *)
(*                                                                         *)
(* A worker serves one request: it works on what its client, and its first *)
(* transaction, read at one revision of the import, and writes in a last   *)
(* transaction that locks the period row and checks the revision again.    *)
(* The writing transactions are one step each, but for the publication of a*)
(* preview, which rechecks and then writes while rule heads, which it does *)
(* not lock, may move: holder is the worker in between.  A request may be  *)
(* refused or lost at any time, and made again.                            *)
(*                                                                         *)
(* Files, cells and dates are abstracted: units is the choice and reading  *)
(* of the source units, map what a rule says about columns and rows, dated *)
(* whether it has learnt the date format.  There is one pay definition.    *)
(***************************************************************************)
EXTENDS Naturals, FiniteSets

CONSTANTS
    Workers,        \* requests served at a time
    Keys,           \* idempotency keys
    Batches,        \* ordered file batches, as creation fingerprints tell them apart
    Units,          \* interpretations of the source units
    Maps,           \* column mappings, with their row handling
    FirstUnits,     \* interpretation of an import just made
    MaxImports,     \* bound: imports of the period
    MaxRequests,    \* bound: requests made
    MaxHead,        \* bound: revision of the rule head
    MaxLines,       \* bound: changes of the payroll lines
    None            \* no rule, preview, request or worker

ASSUME ImportAssumption ==
    /\ {MaxImports, MaxRequests, MaxHead, MaxLines} \subseteq Nat
    /\ FirstUnits \in Units
    /\ None \notin Workers \cup Maps

VARIABLES
    pstat,      \* PayrollPeriods.Status; Open stands for Draft too
    lines,      \* version of the payroll facts that the period row protects
    head,       \* import.PayrollWorkRuleHeads: [rule, rev], rev 0 when there is none
    imports,    \* import.Imports with its PayrollWorkImports, by id
    req,        \* request that each worker serves
    holder,     \* worker that holds the period row to publish
    told,       \* history: <<key, batch, import>> answered by create_import
    asked       \* requests made so far

vars == <<pstat, lines, head, imports, req, holder, told, asked>>

Ids              == 1 .. MaxImports
EditableStatuses == {"Open", "Returned"}
Live             == {"NeedsMapping", "NeedsReview"}
Editable         == pstat \in EditableStatuses

Completed == {i \in DOMAIN imports : imports[i].status = "Completed"}

\* What a client, or a first transaction, sees of an import.
Content(i) == [units   |-> imports[i].units,  pending |-> imports[i].pending,
               preview |-> imports[i].preview, status |-> imports[i].status]

\* The writing transaction has the period row to itself.
PeriodLocked == Editable /\ holder = None

\* Mutant: the client's revision is not compared.
Unpurged(i, rev) ==
    PeriodLocked /\ imports[i].status \in Live /\ ~imports[i].purged

\* _lock_mutable
LockMutable(i, rev) ==
    /\ PeriodLocked
    /\ imports[i].revision = rev
    /\ imports[i].status \in Live /\ ~imports[i].purged

-----------------------------------------------------------------------------
(* Saved rules                                                             *)

\* current_rule_context: it refuses a rule whose expected head has moved.
RuleContextCurrent(imp) == imp.pending # None /\ imp.pending.expected = head.rev

\* A rule of this import, or the confirmed head: one whose settings carry over.
OwnOrConfirmed(i, rule) == rule.origin = i \/ rule = head.rule

\* The date format learnt for the same columns, from the pending rule or the head.
CarriesDates(i, imp, m) ==
    LET own == /\ imp.pending # None
               /\ OwnOrConfirmed(i, imp.pending.rule)
               /\ imp.pending.rule.map = m /\ imp.pending.rule.dated
    IN own \/ (head.rev > 0 /\ head.rule.map = m /\ head.rule.dated)

\* save_or_reuse: the rule that stays, is taken from the head, or is made.
RuleFor(i, imp, m) ==
    LET dated == CarriesDates(i, imp, m)
        same(rule) == rule.map = m /\ rule.dated = dated
    IN CASE imp.pending # None /\ OwnOrConfirmed(i, imp.pending.rule) /\ same(imp.pending.rule)
                -> imp.pending.rule
         [] head.rev > 0 /\ same(head.rule)
                -> head.rule
         [] OTHER -> [map |-> m, dated |-> dated, origin |-> i]

Bound(imp, rule) ==
    IF imp.pending # None /\ imp.pending.rule = rule /\ imp.pending.expected = head.rev
    THEN imp.pending
    ELSE [rule |-> rule, expected |-> head.rev,
          rev  |-> IF imp.pending = None THEN 1 ELSE imp.pending.rev + 1]

\* clear_derived_state, with the revision and status every change writes.
Cleared(imp) == [imp EXCEPT !.preview = None, !.context = None,
                            !.status = "NeedsMapping", !.revision = @ + 1]

\* _save_mapping for column mapping m, or for none.
Mapped(i, imp, m) ==
    [Cleared(imp) EXCEPT !.pending = IF m = None THEN None ELSE Bound(imp, RuleFor(i, imp, m))]

\* _prepare_current_rules: a confirmed rule whose columns the files have is
\* taken over, unless the import already has a rule.
Prepared(i, imp, found) ==
    IF found /\ imp.pending = None /\ head.rev > 0 THEN Mapped(i, imp, head.rule.map) ELSE imp

-----------------------------------------------------------------------------
(* Requests                                                                *)

Serve(w, r) ==
    /\ req[w] = None /\ req' = [req EXCEPT ![w] = r]
    /\ asked < MaxRequests /\ asked' = asked + 1
Served(w) == req' = [req EXCEPT ![w] = None] /\ asked' = asked

\* The client reads the import and asks for op; the first transaction has
\* found the import mutable at that revision.
Asked(op, i, change) ==
    [op |-> op, i |-> i, rev |-> imports[i].revision, saw |-> Content(i),
     head |-> head.rev, change |-> change]

Ask(w, op, i, change) ==
    /\ Editable /\ imports[i].status \in Live /\ ~imports[i].purged
    /\ Serve(w, Asked(op, i, change))
    /\ UNCHANGED <<pstat, lines, head, imports, holder, told>>

\* A refusal, a failure of the worker, or a client that gives up.
Abandon(w) ==
    /\ req[w] # None
    /\ Served(w)
    /\ holder' = IF holder = w THEN None ELSE holder
    /\ UNCHANGED <<pstat, lines, head, imports, told>>

-----------------------------------------------------------------------------
(* create_import                                                           *)

ImportOf(key) == {i \in DOMAIN imports : imports[i].key = key}

\* _retry
Retried(key, batch, i) ==
    told' = IF imports[i].batch = batch THEN told \cup {<<key, batch, i>>} ELSE told

AskCreate(w, key, batch) ==
    /\ ImportOf(key) = {} => Editable
    /\ Serve(w, [op |-> "create", key |-> key, batch |-> batch, checked |-> FALSE])
    /\ UNCHANGED <<pstat, lines, head, imports, holder, told>>

\* The files are inspected: the key is looked up again, before any lock.
CreateLookUp(w) ==
    LET r == req[w] IN
    /\ r # None /\ r.op = "create" /\ ~r.checked
    /\ \/ /\ ImportOf(r.key) = {} /\ Editable
          /\ req' = [req EXCEPT ![w].checked = TRUE]
          /\ UNCHANGED <<told, asked>>
       \/ \E i \in ImportOf(r.key) : Retried(r.key, r.batch, i) /\ Served(w)
    /\ UNCHANGED <<pstat, lines, head, imports, holder>>

New(r) == [key |-> r.key, batch |-> r.batch, status |-> "NeedsMapping", revision |-> 1,
           units |-> FirstUnits, pending |-> None, preview |-> None, context |-> None,
           purged |-> FALSE]

\* Mutant: the answer of the earlier look-up is believed.
NeverTaken(key) == {}

\* INSERT ... ON CONFLICT DO NOTHING: the key as the insertion finds it.
KeyTaken(key) == ImportOf(key)

CreateInsert(w) ==
    LET r == req[w]
        i == Cardinality(DOMAIN imports) + 1
    IN
    /\ r # None /\ r.op = "create" /\ r.checked
    /\ PeriodLocked
    /\ \/ /\ KeyTaken(r.key) = {} /\ i \in Ids
          /\ \E found \in BOOLEAN :
                imports' = [j \in DOMAIN imports \cup {i} |->
                              IF j = i THEN Prepared(i, New(r), found) ELSE imports[j]]
          /\ told' = told \cup {<<r.key, r.batch, i>>}
       \/ \E j \in KeyTaken(r.key) : Retried(r.key, r.batch, j) /\ UNCHANGED imports
    /\ Served(w)
    /\ UNCHANGED <<pstat, lines, head, holder>>

-----------------------------------------------------------------------------
(* Changes of an import                                                    *)

Write(w, op, imp) ==
    LET r == req[w] IN
    /\ r # None /\ r.op = op
    /\ LockMutable(r.i, r.rev)
    /\ imports' = [imports EXCEPT ![r.i] = imp]
    /\ Served(w)
    /\ UNCHANGED <<pstat, lines, head, holder, told>>

\* update_interpretation: unmentioned settings are written as the first
\* transaction read them.
Interpret(w) ==
    /\ req[w] # None /\ req[w].op = "interpret"
    /\ LET i == req[w].i IN
       \E found \in BOOLEAN :
          Write(w, "interpret",
                Prepared(i, [Cleared(imports[i]) EXCEPT !.units = req[w].change], found))

\* accept_mapping: the client names the head it has seen, or none.
AcceptMapping(w, named) ==
    /\ req[w] # None /\ req[w].op = "map"
    /\ named => req[w].head = head.rev
    /\ Write(w, "map", Mapped(req[w].i, imports[req[w].i], req[w].change))

\* update_row_handling: the head that the pending rule expected; a rule that
\* already says so is left alone.
UpdateRowHandling(w) ==
    /\ req[w] # None /\ req[w].op = "rows"
    /\ LET r == req[w] IN
       /\ r.saw.pending # None
       /\ r.saw.pending.rule.map # r.change => r.saw.pending.expected = head.rev
       /\ Write(w, "rows", IF r.saw.pending.rule.map = r.change THEN imports[r.i]
                           ELSE Mapped(r.i, imports[r.i], r.change))

\* cancel_import: the preview of a cancelled import stays to be read.
Cancel(w) ==
    /\ req[w] # None /\ req[w].op = "cancel"
    /\ Write(w, "cancel", [imports[req[w].i] EXCEPT !.status = "Cancelled",
                                                    !.revision = @ + 1])

-----------------------------------------------------------------------------
(* build_preview                                                           *)

\* The first transaction: one snapshot of the import, its rules and the
\* completed imports.
PreviewSnapshot(w, i) ==
    /\ Editable /\ imports[i].status \in Live /\ ~imports[i].purged
    /\ RuleContextCurrent(imports[i])
    /\ Serve(w, [op |-> "preview", i |-> i, rev |-> imports[i].revision, saw |-> Content(i),
                 head |-> head.rev, history |-> Completed, lines |-> None])
    /\ UNCHANGED <<pstat, lines, head, imports, holder, told>>

\* load_context, in a transaction of its own.
PreviewLoad(w) ==
    /\ req[w] # None /\ req[w].op = "preview" /\ req[w].lines = None
    /\ req' = [req EXCEPT ![w].lines = lines]
    /\ UNCHANGED <<pstat, lines, head, imports, holder, told, asked>>

\* Mutant: the payroll facts are not read again.
RulesUnchanged(r) ==
    /\ RuleContextCurrent(imports[r.i]) /\ imports[r.i].pending = r.saw.pending
    /\ Completed = r.history

\* What the preview was computed from is read again under the lock.
NothingMoved(r) ==
    /\ RuleContextCurrent(imports[r.i]) /\ imports[r.i].pending = r.saw.pending
    /\ Completed = r.history
    /\ lines = r.lines

PreviewRecheck(w) ==
    /\ req[w] # None /\ req[w].op = "preview" /\ req[w].lines # None /\ holder # w
    /\ LockMutable(req[w].i, req[w].rev)
    /\ NothingMoved(req[w])
    /\ holder' = w
    /\ UNCHANGED <<pstat, lines, head, imports, req, told, asked>>

\* _apply_date_rule_profiles: the dates teach the rule their format.
WithDates(i, imp, learnt) ==
    IF ~learnt \/ imp.pending.rule.dated THEN imp
    ELSE LET own == [imp.pending.rule EXCEPT !.dated = TRUE, !.origin = i]
         IN  [imp EXCEPT !.pending = [imp.pending EXCEPT !.rev = imp.pending.rev + 1, !.rule = own]]

\* The rule context is taken again after the dates were learnt, and refused if
\* the head moved meanwhile; the preview replaces the former one.
PreviewPublish(w) ==
    /\ holder = w
    /\ LET r == req[w] IN
       /\ \E learnt \in BOOLEAN :
             LET imp == WithDates(r.i, imports[r.i], learnt) IN
             /\ RuleContextCurrent(imp)
             /\ imports' = [imports EXCEPT ![r.i] =
                   [Cleared(imp) EXCEPT
                       !.pending = imp.pending,
                       !.context = imp.pending,
                       !.status  = "NeedsReview",
                       !.preview = [units |-> r.saw.units, map |-> r.saw.pending.rule.map,
                                    head |-> r.head, history |-> r.history,
                                    lines |-> r.lines]]]
    /\ Served(w) /\ holder' = None
    /\ UNCHANGED <<pstat, lines, head, told>>

\* Mutant: a page is served while the revision and plan are right.
AnyPreview(i) == imports[i].preview # None

\* _read_identity: a page of the preview is served.
Servable(i) ==
    /\ imports[i].preview # None
    /\ imports[i].status \in Live =>
          RuleContextCurrent(imports[i]) /\ imports[i].context = imports[i].pending

-----------------------------------------------------------------------------
(* The period, and imports that complete                                   *)

\* Lines, day statuses and rosters change under the period row.
EnterLines ==
    /\ PeriodLocked /\ lines < MaxLines
    /\ lines' = lines + 1
    /\ UNCHANGED <<pstat, head, imports, req, holder, told, asked>>

MovePeriod ==
    /\ holder = None
    /\ \/ pstat \in EditableStatuses /\ pstat' = "InReview"
       \/ pstat = "InReview" /\ pstat' = "Returned"
    /\ UNCHANGED <<lines, head, imports, req, holder, told, asked>>

\* Mutant: only an import that is still worked on loses its detail.
LiveOnly == {i \in DOMAIN imports : imports[i].status \in Live}

\* The imports of the period that still have their detail.
ToPurge == {i \in DOMAIN imports : ~imports[i].purged}

\* purge_payroll_work_import_details, in the transaction of finalization.
Finalize ==
    /\ holder = None /\ pstat = "InReview"
    /\ pstat' = "Locked"
    /\ imports' = [i \in DOMAIN imports |->
                     IF i \in ToPurge
                     THEN [imports[i] EXCEPT !.preview = None, !.context = None,
                                             !.purged = TRUE, !.revision = @ + 1]
                     ELSE imports[i]]
    /\ UNCHANGED <<lines, head, req, holder, told, asked>>

\* Completion is not in the code yet; its guards are those of the schema: a
\* reviewed import, and a rule of its own whose expected head is the head.
Complete(i) ==
    /\ PeriodLocked /\ imports[i].status = "NeedsReview" /\ Servable(i)
    /\ imports' = [imports EXCEPT ![i].status = "Completed", ![i].revision = @ + 1]
    /\ IF imports[i].pending.rule.origin = i
       THEN head.rev < MaxHead
            /\ head' = [rule |-> imports[i].pending.rule, rev |-> head.rev + 1]
       ELSE UNCHANGED head
    /\ UNCHANGED <<pstat, lines, req, holder, told, asked>>

\* An import of another period (origin 0) completes.
AdvanceHead(m) ==
    /\ head.rev < MaxHead
    /\ \E dated \in BOOLEAN :
          head' = [rule |-> [map |-> m, dated |-> dated, origin |-> 0], rev |-> head.rev + 1]
    /\ UNCHANGED <<pstat, lines, imports, req, holder, told, asked>>

-----------------------------------------------------------------------------
Init ==
    /\ pstat = "Open" /\ lines = 0 /\ head = [rule |-> None, rev |-> 0]
    /\ imports = <<>>
    /\ req = [w \in Workers |-> None] /\ holder = None
    /\ told = {} /\ asked = 0

WorkerNext(w) ==
    \/ \E key \in Keys, b \in Batches : AskCreate(w, key, b)
    \/ CreateLookUp(w) \/ CreateInsert(w)
    \/ \E i \in DOMAIN imports :
          \/ \E u \in Units : Ask(w, "interpret", i, u)
          \/ \E m \in Maps \cup {None} : Ask(w, "map", i, m)
          \/ \E m \in Maps : imports[i].pending # None /\ Ask(w, "rows", i, m)
          \/ Ask(w, "cancel", i, None)
          \/ PreviewSnapshot(w, i)
    \/ Interpret(w) \/ UpdateRowHandling(w) \/ Cancel(w)
    \/ \E named \in BOOLEAN : AcceptMapping(w, named)
    \/ PreviewLoad(w) \/ PreviewRecheck(w) \/ PreviewPublish(w)
    \/ Abandon(w)

Next ==
    \/ \E w \in Workers : WorkerNext(w)
    \/ EnterLines \/ MovePeriod \/ Finalize
    \/ \E i \in DOMAIN imports : Complete(i)
    \/ \E m \in Maps : AdvanceHead(m)

Spec == Init /\ [][Next]_vars

-----------------------------------------------------------------------------
(* Properties                                                              *)

Rules    == [map: Maps, dated: BOOLEAN, origin: 0 .. MaxImports]
Pendings == [rule: Rules, expected: 0 .. MaxHead, rev: Nat]
Previews == [units: Units, map: Maps, head: 0 .. MaxHead, history: SUBSET Ids,
             lines: 0 .. MaxLines]

ASSUME NullAssumption == None \notin Previews

\* Every value is of its kind; a live import is under review exactly while it
\* has a preview, and the preview has the rules it was made with.
TypeOK ==
    /\ pstat \in {"Open", "InReview", "Returned", "Locked"}
    /\ lines \in 0 .. MaxLines
    /\ head.rev \in 0 .. MaxHead /\ (head.rev > 0 => head.rule \in Rules)
    /\ DOMAIN imports \subseteq Ids
    /\ \A i \in DOMAIN imports : LET imp == imports[i] IN
          /\ imp.key \in Keys /\ imp.batch \in Batches /\ imp.units \in Units
          /\ imp.status \in Live \cup {"Completed", "Cancelled"}
          /\ imp.revision \in Nat \ {0} /\ imp.purged \in BOOLEAN
          /\ imp.pending \in Pendings \cup {None}
          /\ imp.preview \in Previews \cup {None}
          /\ (imp.preview = None) = (imp.context = None)
          /\ imp.status = "NeedsReview" /\ ~imp.purged => imp.preview # None
          /\ imp.status = "NeedsMapping" => imp.preview = None
    /\ holder \in Workers \cup {None}
    /\ holder # None => req[holder].op = "preview"

\* A change, a preview among them, is only ever written to the content that
\* its client and its own first transaction have seen, whatever other
\* requests and the finalization wrote in between.
NoLostUpdate ==
    [][\A w \in Workers :
          LET r == req[w] IN
          r # None /\ req'[w] = None /\ r.op # "create" /\ imports' # imports
             => r.saw = Content(r.i)]_vars

\* A preview that can be read was computed from the interpretation, the column
\* mapping and the rule head of today.
ServedPreviewIsCurrent ==
    \A i \in DOMAIN imports : imports[i].status \in Live /\ Servable(i) =>
        /\ imports[i].preview.units = imports[i].units
        /\ imports[i].preview.map = imports[i].pending.rule.map
        /\ imports[i].preview.head = head.rev

\* A preview is published on the payroll facts and completed imports of that
\* moment, though both were read in earlier transactions, and can be read.
PublishedOnCurrentFacts ==
    [][\A w \in Workers, i \in DOMAIN imports :
          holder = w /\ req[w].i = i /\ imports'[i] # imports[i] =>
              /\ imports'[i].preview.lines = lines
              /\ imports'[i].preview.history = Completed
              /\ Servable(i)']_imports

\* Once the period is final no import has detail left, and no request that was
\* under way brings any back; before that none has lost it.
FinalPeriodsKeepNoDetail ==
    \A i \in DOMAIN imports :
        /\ imports[i].purged <=> pstat = "Locked"
        /\ imports[i].purged => imports[i].preview = None /\ imports[i].context = None

\* One key names one import, however often and by whomever it is used, and
\* whoever got an answer got the import of the batch sent.
CreationIdempotent ==
    /\ \A i, j \in DOMAIN imports : imports[i].key = imports[j].key => i = j
    /\ \A t \in told : imports[t[3]].key = t[1] /\ imports[t[3]].batch = t[2]
=============================================================================
