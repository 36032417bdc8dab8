----------------------------- MODULE TenureProofs -----------------------------
(***************************************************************************)
(* Proofs about DriverTenure, for any branches, periods, days and bounds:  *)
(* the tenures of a driver, the rosters and the entries stay consistent    *)
(* whatever transfers, terminations, edits and mutations are made.         *)
(*                                                                         *)
(* The handlers move two things that must fit each other, and the entries  *)
(* that lie between them: the boundary of a tenure, and the start of the   *)
(* next one.  The first part of the inductive invariant is about tenures   *)
(* and requests alone; the second one about rosters, entries and the       *)
(* mutation that is about to write.                                        *)
(***************************************************************************)
EXTENDS DriverTenure, TLAPS

PeriodStatuses == EditableStatuses \cup {"InReview", "Locked", "Cancelled"}

RequestOps   == [kind : {"cancel"}, r : Requests]
Completions  == [kind : {"complete"}, r : Requests, start : Instants]
Reschedules  == [kind : {"reschedule"}, r : Requests, at : Instants]
Terminations == [kind : {"terminate"}, d : Days]
Operations   == RequestOps \cup Completions \cup Reschedules \cup Terminations

-----------------------------------------------------------------------------
(* Tenures and requests                                                    *)

TenureTypes ==
    /\ now \in Instants /\ hire \in Days /\ termDate \in 0 .. LastDay /\ active \in BOOLEAN
    /\ DOMAIN asg \subseteq Assignments /\ asg \in [DOMAIN asg -> Windows]
    /\ DOMAIN req \subseteq Requests /\ req \in [DOMAIN req -> Transfers]
    /\ op \in Operations \cup {Idle}

\* A window is open exactly while its assignment has no end, and nobody works
\* for a driver's employer after the termination.
WindowFits(a) ==
    /\ asg[a].from <= asg[a].to
    /\ asg[a].end = "none" <=> asg[a].to = Never
    /\ asg[a].end = "Terminated" => Terminated
    /\ Terminated => asg[a].end # "none"

\* The first assignment stays, and every other one is the destination of a
\* request that was carried out.
DestinationsFit ==
    /\ Terminated \/ op # Idle => DOMAIN asg # {}
    /\ DOMAIN asg # {} => 0 \in DOMAIN asg
    /\ \A a \in DOMAIN asg \ {0} :
          /\ a \in DOMAIN req
          /\ req[a].status \in {"Scheduled", "Completed"}
          /\ asg[a].branch = req[a].target

\* A transfer leaves an assignment that had begun when it was asked for.
SourcesStarted ==
    \A r \in DOMAIN req : LET s == req[r].source IN
        s \in DOMAIN asg /\ s # r /\ asg[s].from <= now

\* At most one transfer is still to be decided or to take effect.
InProgress(r) == EffectiveStatus(r) \notin Finished
OneInProgress == \A q, r \in DOMAIN req : InProgress(q) /\ InProgress(r) => q = r

\* A scheduled transfer ends its source where its destination begins, and
\* nothing comes after it.
Ahead(r) == req[r].status = "Scheduled" /\ req[r].at > now
ScheduledFits(r) ==
    Ahead(r) /\ ~Terminated => LET s == req[r].source IN
        /\ r \in DOMAIN asg /\ s \in DOMAIN asg
        /\ asg[s].to = req[r].at /\ asg[s].from < req[r].at /\ asg[s].end = "Transferred"
        /\ asg[r].from = req[r].at /\ asg[r].to = Never
        /\ req[r].at # Never

\* What an operation read before it waited for its locks still holds.
OperationFits ==
    op # Idle =>
        /\ op.kind \in {"complete", "cancel", "reschedule"} => op.r \in DOMAIN req
        /\ op.kind = "complete" => req[op.r].status = "Approved" /\ op.start <= now
        /\ op.kind \in {"cancel", "reschedule"} => req[op.r].status = "Scheduled"
        /\ op.kind \in {"cancel", "reschedule", "terminate"} => ~Terminated

TenureInv ==
    /\ TenureTypes
    /\ \A a \in DOMAIN asg : WindowFits(a)
    /\ DestinationsFit /\ SourcesStarted /\ OneInProgress
    /\ \A r \in DOMAIN req : ScheduledFits(r)
    /\ OperationFits
    /\ OneTenureAtATime

-----------------------------------------------------------------------------
(* Rosters, entries and the mutation under way                             *)

PayrollTypes ==
    /\ pstat \in [Periods -> PeriodStatuses]
    /\ roster = [p \in Periods |-> roster[p]]
    /\ \A p \in Periods : roster[p] \in [DOMAIN roster[p] -> SUBSET DaysOf[p]]
    /\ source \subseteq Periods \X Assignments \X Days
    /\ bonus \subseteq Periods \X Assignments
    /\ writer \in Mutations \cup {Idle}

\* Rows of the roster are about assignments of the period's branch.
RostersFit ==
    \A p \in Periods : \A a \in DOMAIN roster[p] :
        a \in DOMAIN asg /\ asg[a].branch = BranchOf[p]

\* What has an entry was referred to, and a prepared period has no bonus.
EntriesKnown ==
    /\ \A x \in source : x[2] \in touched
    /\ \A x \in bonus : x[2] \in touched /\ pstat[x[1]] # "Draft"

\* Day d is on the roster of p, in the tenure of a, and not after the end.
Allowed(p, a, d) ==
    /\ a \in DOMAIN roster[p] /\ d \in roster[p][a]
    /\ a \in DOMAIN asg /\ Covers(asg[a], d)
    /\ Terminated => d <= termDate

\* What a mutation was authorized for is still allowed: its period row is
\* held, and boundaries move only past periods that nobody holds.
WriterFits ==
    writer # Idle /\ writer.kind # "void" =>
        /\ writer.kind = "bonus" => pstat[writer.p] \in BonusStatuses
        /\ \E d \in Days : /\ Allowed(writer.p, writer.a, d)
                           /\ writer.kind = "daily" => d = writer.d

PayrollInv ==
    /\ PayrollTypes
    /\ RostersFit /\ EntriesKnown /\ WriterFits
    /\ FactsInTenure

\* The inductive invariant.
IInv == TenureInv /\ PayrollInv

-----------------------------------------------------------------------------
(* Steps that move no boundary                                             *)

\* What an operation of each kind names.
LEMMA OperationFields ==
    ASSUME op \in Operations
    PROVE  /\ op.kind \in {"complete", "cancel", "reschedule", "terminate"}
           /\ op.kind \in {"complete", "cancel", "reschedule"} => op.r \in Requests
           /\ op.kind = "complete" => op.start \in Instants
           /\ op.kind = "reschedule" => op.at \in Instants
           /\ op.kind = "terminate" => op.d \in Days
<1>1. CASE op \in RequestOps
  BY <1>1 DEF RequestOps
<1>2. CASE op \in Completions
  BY <1>2 DEF Completions
<1>3. CASE op \in Reschedules
  BY <1>3 DEF Reschedules
<1>4. CASE op \in Terminations
  BY <1>4 DEF Terminations
<1> QED
  BY <1>1, <1>2, <1>3, <1>4 DEF Operations

\* Time passes, and the driver and the employee are edited.
LEMMA QuietTenure ==
    ASSUME TenureInv, UNCHANGED <<asg, req, termDate, op>>,
           now' \in Instants, now' >= now, hire' \in Days, active' \in BOOLEAN
    PROVE  TenureInv'
<1> USE DEF TenureInv
<1>1. TenureTypes'
  BY DEF TenureTypes
<1>2. now \in Nat /\ now' \in Nat
  BY TenureAssumption DEF TenureTypes, Instants
<1>3. ASSUME NEW r \in DOMAIN req
      PROVE  /\ req[r].at \in Nat
             /\ req[r].source \in DOMAIN asg => asg[req[r].source].from \in Nat
  BY <1>3, TenureAssumption DEF TenureTypes, Transfers, Windows, Instants, Never
<1>4. (\A a \in DOMAIN asg : WindowFits(a))' /\ DestinationsFit' /\ OneTenureAtATime'
  BY DEF WindowFits, DestinationsFit, Terminated, OneTenureAtATime
<1>5. SourcesStarted'
  BY <1>2, <1>3 DEF SourcesStarted
<1>6. \A r \in DOMAIN req : Ahead(r)' => Ahead(r)
  BY <1>2, <1>3 DEF Ahead
<1>7. (\A r \in DOMAIN req : ScheduledFits(r))'
  BY <1>6 DEF ScheduledFits, Terminated
<1>8. \A r \in DOMAIN req : InProgress(r)' => InProgress(r)
  BY <1>2, <1>3 DEF InProgress, EffectiveStatus, Finished
<1>9. OneInProgress'
  BY <1>8 DEF OneInProgress
<1>10. OperationFits'
  <2>1. op # Idle /\ op.kind = "complete" => op.start \in Nat
    BY OperationFields, TenureAssumption DEF TenureTypes, Instants
  <2> QED
    BY <1>2, <2>1 DEF OperationFits, Terminated
<1> QED
  BY <1>1, <1>4, <1>5, <1>7, <1>9, <1>10

\* A request is made, decided, given up or moved before it is carried out.
LEMMA RequestTenure ==
    ASSUME TenureInv, op = Idle, UNCHANGED <<now, people, asg, op>>,
           NEW r \in Requests, r \notin DOMAIN asg, NEW new \in Transfers,
           new.status \in Undecided \cup {"Cancelled", "Rejected"},
           new.source \in DOMAIN asg, asg[new.source].from <= now,
           new.status \in Undecided => \A q \in DOMAIN req \ {r} : ~InProgress(q),
           req' = With(req, r, new)
    PROVE  TenureInv'
<1> USE DEF TenureInv
<1>1. UNCHANGED <<now, hire, termDate, active, asg, op>>
  BY DEF people
<1>2. /\ DOMAIN req' = DOMAIN req \cup {r} /\ req'[r] = new
      /\ \A q \in DOMAIN req \ {r} : req'[q] = req[q]
      /\ req' = [q \in DOMAIN req' |-> req'[q]]
  BY DEF With
<1>3. TenureTypes'
  <2>1. req' \in [DOMAIN req' -> Transfers] /\ DOMAIN req' \subseteq Requests
    BY <1>2 DEF TenureTypes
  <2> QED
    BY <1>1, <2>1 DEF TenureTypes
<1>4. (\A a \in DOMAIN asg : WindowFits(a))' /\ OneTenureAtATime'
  BY <1>1 DEF WindowFits, Terminated, OneTenureAtATime
<1>5. DestinationsFit'
  BY <1>1, <1>2 DEF DestinationsFit, Terminated
<1>6. SourcesStarted'
  <2> SUFFICES ASSUME NEW q \in DOMAIN req'
               PROVE  /\ req'[q].source \in DOMAIN asg /\ req'[q].source # q
                      /\ asg[req'[q].source].from <= now
    BY <1>1 DEF SourcesStarted
  <2>1. CASE q = r
    BY <2>1, <1>2
  <2>2. CASE q # r
    BY <2>2, <1>2 DEF SourcesStarted
  <2> QED
    BY <2>1, <2>2
<1>7. ~Ahead(r)' /\ (new.status \notin Undecided => ~InProgress(r)')
  BY <1>2 DEF Ahead, Undecided, InProgress, EffectiveStatus, Finished
<1>8. \A q \in DOMAIN req \ {r} : /\ Ahead(q)' <=> Ahead(q)
                                  /\ InProgress(q)' <=> InProgress(q)
  BY <1>1, <1>2 DEF Ahead, InProgress, EffectiveStatus
<1>9. (\A q \in DOMAIN req : ScheduledFits(q))'
  <2> SUFFICES ASSUME NEW q \in DOMAIN req' PROVE ScheduledFits(q)'
    OBVIOUS
  <2>1. CASE q = r
    BY <2>1, <1>7 DEF ScheduledFits
  <2>2. CASE q # r
    BY <2>2, <1>1, <1>2, <1>8 DEF ScheduledFits, Terminated
  <2> QED
    BY <2>1, <2>2
<1>10. OneInProgress'
  <2> SUFFICES ASSUME NEW p \in DOMAIN req', NEW q \in DOMAIN req',
                      InProgress(p)', InProgress(q)'
               PROVE  p = q
    BY DEF OneInProgress
  <2>1. CASE p = r \/ q = r
    BY <2>1, <1>2, <1>7, <1>8
  <2>2. CASE p # r /\ q # r
    BY <2>2, <1>2, <1>8 DEF OneInProgress
  <2> QED
    BY <2>1, <2>2
<1>11. OperationFits'
  BY <1>1 DEF OperationFits
<1> QED
  BY <1>3, <1>4, <1>5, <1>6, <1>9, <1>10, <1>11

\* An operation starts to wait for its locks, or gives up.
LEMMA BeginTenure ==
    ASSUME TenureInv, UNCHANGED <<now, people, tenure>>, op' \in Operations \cup {Idle},
           OperationFits', op' # Idle => DOMAIN asg # {}
    PROVE  TenureInv'
<1> USE DEF TenureInv
<1>1. UNCHANGED <<now, hire, termDate, active, asg, req>>
  BY DEF people, tenure
<1>2. TenureTypes' /\ (\A a \in DOMAIN asg : WindowFits(a))'
  BY <1>1 DEF TenureTypes, WindowFits, Terminated
<1>3. DestinationsFit' /\ SourcesStarted' /\ OneTenureAtATime'
  BY <1>1 DEF DestinationsFit, SourcesStarted, OneTenureAtATime, Terminated
<1>4. OneInProgress' /\ (\A r \in DOMAIN req : ScheduledFits(r))'
  BY <1>1 DEF OneInProgress, InProgress, EffectiveStatus, ScheduledFits, Ahead, Terminated
<1> QED
  BY <1>2, <1>3, <1>4

-----------------------------------------------------------------------------
(* Steps that move a boundary                                              *)

\* Instants are numbers, and every assignment begins before the open end.
LEMMA Numbers ==
    ASSUME TenureTypes
    PROVE  /\ Never \in Nat /\ now \in Nat /\ now < Never /\ termDate \in Nat
           /\ \A i \in Instants : i \in Nat /\ i < Never
           /\ \A d \in Days : d \in Nat \ {0} /\ 2 * d \in Instants
           /\ \A a \in DOMAIN asg :
                 /\ asg[a].from \in Nat /\ asg[a].to \in Nat
                 /\ asg[a].from < Never /\ asg[a].to <= Never
                 /\ asg[a].branch \in Branches
                 /\ asg[a].end \in {"none", "Transferred", "Terminated"}
           /\ \A r \in DOMAIN req : req[r].at \in Nat /\ req[r].at <= Never
<1>1. LastDay \in Nat
  BY TenureAssumption
<1> USE DEF Never, Instants, Days
<1>2. \A a \in DOMAIN asg : asg[a] \in Windows
  BY DEF TenureTypes
<1>3. \A r \in DOMAIN req : req[r] \in Transfers
  BY DEF TenureTypes
<1>4. \A a \in DOMAIN asg :
         /\ asg[a].from \in Nat /\ asg[a].to \in Nat
         /\ asg[a].from < Never /\ asg[a].to <= Never
         /\ asg[a].branch \in Branches
         /\ asg[a].end \in {"none", "Transferred", "Terminated"}
  BY <1>1, <1>2 DEF Windows, EndReasons
<1>5. \A r \in DOMAIN req : req[r].at \in Nat /\ req[r].at <= Never
  BY <1>1, <1>3 DEF Transfers
<1>6. now \in Nat /\ now < Never /\ termDate \in Nat
  BY <1>1 DEF TenureTypes
<1> QED
  BY <1>1, <1>4, <1>5, <1>6

\* Windows that only end earlier stay apart.
LEMMA ShrinkingKeepsApart ==
    ASSUME NEW f, NEW g, NEW A, NEW B \in SUBSET A,
           \A a, b \in A : a # b =>
              \/ f[a].to <= f[b].from \/ f[b].to <= f[a].from
              \/ f[a].from = f[a].to \/ f[b].from = f[b].to,
           \A a \in A : f[a].from \in Nat /\ f[a].to \in Nat,
           \A a \in B : /\ g[a].from = f[a].from /\ g[a].to \in Nat
                        /\ f[a].from <= g[a].to /\ g[a].to <= f[a].to
    PROVE  \A a, b \in B : a # b =>
              \/ g[a].to <= g[b].from \/ g[b].to <= g[a].from
              \/ g[a].from = g[a].to \/ g[b].from = g[b].to
<1> SUFFICES ASSUME NEW a \in B, NEW b \in B, a # b
             PROVE  \/ g[a].to <= g[b].from \/ g[b].to <= g[a].from
                    \/ g[a].from = g[a].to \/ g[b].from = g[b].to
  OBVIOUS
<1>1. /\ g[a].from = f[a].from /\ g[a].to \in Nat /\ f[a].from <= g[a].to /\ g[a].to <= f[a].to
      /\ g[b].from = f[b].from /\ g[b].to \in Nat /\ f[b].from <= g[b].to /\ g[b].to <= f[b].to
      /\ f[a].from \in Nat /\ f[a].to \in Nat /\ f[b].from \in Nat /\ f[b].to \in Nat
  OBVIOUS
<1>2. \/ f[a].to <= f[b].from \/ f[b].to <= f[a].from
      \/ f[a].from = f[a].to \/ f[b].from = f[b].to
  OBVIOUS
<1> QED
  BY <1>1, <1>2

\* The first assignment of the driver.
LEMMA CreateDriverTenure ==
    ASSUME TenureInv, NEW from \in Instants, from >= now, CreateDriver(FirstBranch, from)
    PROVE  TenureInv' /\ ~Terminated
<1> USE DEF TenureInv
<1>1. /\ op = Idle /\ DOMAIN asg = {}
      /\ asg' = With(asg, 0, [branch |-> FirstBranch, from |-> from,
                              to |-> Never, end |-> "none"])
      /\ UNCHANGED <<now, people, req, op>>
  BY DEF CreateDriver
<1>2. UNCHANGED <<now, hire, termDate, active>>
  BY <1>1 DEF people
<1>3. /\ DOMAIN asg' = {0}
      /\ asg'[0] = [branch |-> FirstBranch, from |-> from, to |-> Never, end |-> "none"]
      /\ asg' = [a \in DOMAIN asg' |-> asg'[a]]
  BY <1>1 DEF With
<1>4. DOMAIN req = {} /\ ~Terminated
  BY <1>1 DEF SourcesStarted, DestinationsFit
<1>5. TenureTypes'
  <2>1. asg' \in [DOMAIN asg' -> Windows] /\ DOMAIN asg' \subseteq Assignments
    BY <1>3, TenureAssumption DEF Windows, EndReasons, Assignments
  <2> QED
    BY <1>1, <1>2, <2>1 DEF TenureTypes
<1>6. (\A a \in DOMAIN asg : WindowFits(a))'
  BY <1>2, <1>3, <1>4, Numbers DEF WindowFits, Terminated
<1>7. DestinationsFit' /\ SourcesStarted' /\ OneInProgress'
  BY <1>1, <1>2, <1>3, <1>4 DEF DestinationsFit, SourcesStarted, OneInProgress
<1>8. (\A r \in DOMAIN req : ScheduledFits(r))' /\ OperationFits' /\ OneTenureAtATime'
  BY <1>1, <1>3, <1>4 DEF OperationFits, OneTenureAtATime
<1> QED
  BY <1>4, <1>5, <1>6, <1>7, <1>8

\* Where a completion puts the boundary.
Boundary == IF req[op.r].at = Never THEN now ELSE req[op.r].at

\* A completion closes the open assignment of the driver and opens the next.
LEMMA CompleteEffect ==
    ASSUME TenureInv, Complete
    PROVE  LET r == op.r
               s == req[r].source
           IN  /\ r \in DOMAIN req /\ r \in Requests /\ req[r].status = "Approved"
               /\ s \in DOMAIN asg /\ s # r /\ r \notin DOMAIN asg
               /\ asg[s].to = Never /\ asg[s].from <= now /\ ~Terminated
               /\ Boundary \in Instants /\ asg[s].from < Boundary /\ now <= Boundary
               /\ op.start \in Instants /\ op.start <= now
               /\ asg' = With([asg EXCEPT ![s] = [asg[s] EXCEPT !.to = Boundary,
                                                                !.end = "Transferred"]],
                              r, [branch |-> req[r].target, from |-> Boundary,
                                  to |-> Never, end |-> "none"])
               /\ req' = [req EXCEPT ![r].at = Boundary,
                                     ![r].status = IF req[r].at = Never THEN "Completed"
                                                                        ELSE "Scheduled"]
               /\ op' = Idle /\ UNCHANGED <<now, hire, active, termDate>>
<1> USE DEF TenureInv
<1> DEFINE r == op.r
           s == req[r].source
<1>1. op # Idle /\ op.kind = "complete" /\ op \in Operations
  BY DEF Complete, TenureTypes
<1>2. /\ r \in DOMAIN req /\ r \in Requests /\ req[r].status = "Approved"
      /\ op.start \in Instants /\ op.start <= now
  BY <1>1, OperationFields DEF OperationFits
<1>3. s \in DOMAIN asg /\ s # r /\ r \notin DOMAIN asg /\ asg[s].from <= now
  <2>1. r # 0
    BY <1>2 DEF Requests
  <2> QED
    BY <1>2, <2>1 DEF SourcesStarted, DestinationsFit
<1>4. /\ IsCurrent(s) /\ asg[s].to = Never
      /\ req[r].at # Never => req[r].at > now
      /\ Boundary > asg[s].from
      /\ asg' = With([asg EXCEPT ![s] = [asg[s] EXCEPT !.to = Boundary, !.end = "Transferred"]],
                     r, [branch |-> req[r].target, from |-> Boundary,
                         to |-> Never, end |-> "none"])
      /\ req' = [req EXCEPT ![r].at = Boundary,
                            ![r].status = IF req[r].at = Never THEN "Completed"
                                                               ELSE "Scheduled"]
      /\ op' = Idle /\ UNCHANGED <<now, hire, active, termDate>>
  BY DEF Complete, Commit, DecidedAt, Boundary
<1>5. ~Terminated
  BY <1>3, <1>4 DEF WindowFits
<1>6. Boundary \in Instants /\ now <= Boundary
  <2>1. now \in Instants /\ req[r] \in Transfers
    BY <1>2 DEF TenureTypes
  <2>2. req[r].at \in Instants \cup {Never}
    BY <2>1 DEF Transfers
  <2> QED
    BY <1>4, <2>1, <2>2, Numbers DEF Boundary
<1> QED
  BY <1>2, <1>3, <1>4, <1>5, <1>6, Numbers

LEMMA CompleteTenure ==
    ASSUME TenureInv, Complete
    PROVE  TenureInv'
<1> USE DEF TenureInv
<1> DEFINE r == op.r
           s == req[r].source
           at == Boundary
           closed == [asg[s] EXCEPT !.to = at, !.end = "Transferred"]
           opened == [branch |-> req[r].target, from |-> at, to |-> Never, end |-> "none"]
           moved  == [req[r] EXCEPT !.at = at,
                                    !.status = IF req[r].at = Never THEN "Completed"
                                                                    ELSE "Scheduled"]
<1>1. /\ r \in DOMAIN req /\ r \in Requests /\ req[r].status = "Approved"
      /\ s \in DOMAIN asg /\ s # r /\ r \notin DOMAIN asg
      /\ asg[s].to = Never /\ asg[s].from <= now /\ ~Terminated
      /\ at \in Instants /\ asg[s].from < at /\ now <= at
      /\ asg' = With([asg EXCEPT ![s] = closed], r, opened)
      /\ op' = Idle /\ UNCHANGED <<now, hire, active, termDate>>
  BY CompleteEffect
<1>2. asg[s] \in Windows /\ req[r] \in Transfers
  BY <1>1 DEF TenureTypes
<1>3. closed \in Windows /\ opened \in Windows /\ moved \in Transfers
  BY <1>1, <1>2 DEF Windows, Transfers, EndReasons, Finished
<1>4. /\ closed.branch = asg[s].branch /\ closed.from = asg[s].from
      /\ closed.to = at /\ closed.end = "Transferred"
      /\ moved.source = s /\ moved.target = req[r].target /\ moved.at = at
      /\ moved.status = IF req[r].at = Never THEN "Completed" ELSE "Scheduled"
  BY <1>2 DEF Windows, Transfers
<1>5. /\ DOMAIN asg' = DOMAIN asg \cup {r}
      /\ asg'[s] = closed /\ asg'[r] = opened
      /\ \A a \in DOMAIN asg \ {s} : asg'[a] = asg[a]
      /\ asg' = [a \in DOMAIN asg' |-> asg'[a]]
  BY <1>1 DEF With
<1>6. /\ DOMAIN req' = DOMAIN req /\ req'[r] = moved
      /\ \A q \in DOMAIN req \ {r} : req'[q] = req[q]
      /\ req' = [q \in DOMAIN req |-> req'[q]]
  <2>1. req' = [req EXCEPT ![r] = moved]
    BY CompleteEffect
  <2> QED
    BY <2>1, <1>1
<1>7. req[r].at = Never \/ req[r].at = at
  BY DEF Boundary
<1>8. req[r].at = Never => at = now
  BY DEF Boundary
<1> HIDE DEF r, s, at, closed, opened, moved
<1>9. opened = [branch |-> req[r].target, from |-> at, to |-> Never, end |-> "none"]
  BY DEF opened
<1>10. \A q \in DOMAIN req \ {r} : req'[q].source \in DOMAIN asg' /\ ~Ahead(q)
  <2>1. InProgress(r) /\ \A q \in DOMAIN req : Ahead(q) => InProgress(q)
    BY <1>1, Numbers DEF InProgress, EffectiveStatus, Finished, Ahead
  <2> QED
    BY <2>1, <1>1, <1>5, <1>6 DEF OneInProgress, SourcesStarted
<1>11. TenureTypes'
  <2>1. asg' \in [DOMAIN asg' -> Windows]
    BY <1>3, <1>5, <1>1 DEF TenureTypes
  <2>2. DOMAIN asg' \subseteq Assignments
    BY <1>1, <1>5 DEF TenureTypes, Assignments
  <2>3. req' \in [DOMAIN req' -> Transfers]
    BY <1>3, <1>6 DEF TenureTypes
  <2> QED
    BY <1>1, <1>6, <2>1, <2>2, <2>3 DEF TenureTypes
<1>12. (\A a \in DOMAIN asg : WindowFits(a))'
  <2> SUFFICES ASSUME NEW a \in DOMAIN asg' PROVE WindowFits(a)'
    OBVIOUS
  <2>1. CASE a = s
    BY <2>1, <1>1, <1>4, <1>5, Numbers DEF WindowFits, Terminated
  <2>2. CASE a = r
    BY <2>2, <1>1, <1>5, <1>9, Numbers DEF WindowFits, Terminated
  <2>3. CASE a \in DOMAIN asg \ {s}
    BY <2>3, <1>1, <1>5 DEF WindowFits, Terminated
  <2> QED
    BY <2>1, <2>2, <2>3, <1>5
<1>13. DestinationsFit'
  <2>1. 0 \in DOMAIN asg'
    BY <1>1, <1>5 DEF DestinationsFit
  <2>2. ASSUME NEW a \in DOMAIN asg' \ {0}
        PROVE  /\ a \in DOMAIN req' /\ req'[a].status \in {"Scheduled", "Completed"}
               /\ asg'[a].branch = req'[a].target
    <3>1. CASE a = r
      BY <3>1, <1>1, <1>4, <1>5, <1>6, <1>9
    <3>2. CASE a # r
      <4>1. a \in DOMAIN asg \ {0} /\ asg'[a].branch = asg[a].branch
        BY <3>2, <2>2, <1>4, <1>5
      <4> QED
        BY <3>2, <4>1, <1>6 DEF DestinationsFit
    <3> QED
      BY <3>1, <3>2
  <2> QED
    BY <2>1, <2>2 DEF DestinationsFit
<1>14. SourcesStarted'
  <2> SUFFICES ASSUME NEW q \in DOMAIN req
               PROVE  /\ req'[q].source \in DOMAIN asg' /\ req'[q].source # q
                      /\ asg'[req'[q].source].from <= now
    BY <1>1, <1>6 DEF SourcesStarted
  <2>1. req'[q].source = req[q].source
    BY <1>4, <1>6 DEF s
  <2>2. req[q].source \in DOMAIN asg /\ req[q].source # q /\ asg[req[q].source].from <= now
    BY DEF SourcesStarted
  <2>3. asg'[req[q].source].from = asg[req[q].source].from
    BY <2>2, <1>4, <1>5
  <2> QED
    BY <2>1, <2>2, <2>3, <1>5
<1>15. OneInProgress'
  <2>1. \A q \in DOMAIN req \ {r} : InProgress(q)' => InProgress(q)
    BY <1>1, <1>6 DEF InProgress, EffectiveStatus
  <2>2. InProgress(r)
    BY <1>1, Numbers DEF InProgress, EffectiveStatus, Finished
  <2> QED
    BY <1>1, <1>6, <2>1, <2>2 DEF OneInProgress
<1>16. (\A q \in DOMAIN req : ScheduledFits(q))'
  <2> SUFFICES ASSUME NEW q \in DOMAIN req PROVE ScheduledFits(q)'
    BY <1>6
  <2>1. CASE q = r
    <3>1. req'[r].source = s /\ req'[r].at = at /\ at # Never
      BY <1>1, <1>4, <1>6, Numbers
    <3> QED
      BY <2>1, <3>1, <1>1, <1>4, <1>5, <1>9 DEF ScheduledFits
  <2>2. CASE q # r
    BY <2>2, <1>1, <1>6, <1>10 DEF ScheduledFits, Ahead
  <2> QED
    BY <2>1, <2>2
<1>17. OperationFits'
  BY <1>1 DEF OperationFits
<1>18. OneTenureAtATime'
  <2>1. \A b \in DOMAIN asg \ {s} :
           /\ asg[b].from \in Nat /\ asg[b].to \in Nat
           /\ asg[b].to <= asg[s].from \/ asg[b].from = asg[b].to
    BY <1>1, Numbers DEF OneTenureAtATime
  <2>2. at \in Nat /\ asg[s].from \in Nat /\ asg[s].from < at /\ at < Never
    BY <1>1, Numbers
  <2>3. \A b \in DOMAIN asg \ {s} : asg'[b].from = asg'[b].to \/ asg'[b].to <= asg'[s].from
    BY <2>1, <1>4, <1>5
  <2>4. \A b \in DOMAIN asg \ {s} : asg'[b].from = asg'[b].to \/ asg'[b].to <= asg'[r].from
    BY <2>1, <2>2, <1>5, <1>9
  <2>5. asg'[s].to <= asg'[r].from
    BY <2>2, <1>4, <1>5, <1>9
  <2>6. ASSUME NEW a \in DOMAIN asg \ {s}, NEW b \in DOMAIN asg \ {s}, a # b
        PROVE  \/ asg'[a].to <= asg'[b].from \/ asg'[b].to <= asg'[a].from
               \/ asg'[a].from = asg'[a].to \/ asg'[b].from = asg'[b].to
    BY <2>6, <1>5 DEF OneTenureAtATime
  <2> QED
    BY <2>3, <2>4, <2>5, <2>6, <1>5 DEF OneTenureAtATime
<1> QED
  BY <1>11, <1>12, <1>13, <1>14, <1>15, <1>16, <1>17, <1>18

\* The transfer an operation cancels or moves lies ahead: its source ends
\* where its destination begins, nothing comes after it, and nothing else is
\* in progress.
LEMMA AheadEffect ==
    ASSUME TenureInv, op # Idle, op.kind \in {"cancel", "reschedule"}, req[op.r].at > now
    PROVE  LET r == op.r
               s == req[r].source
           IN  /\ r \in DOMAIN req /\ r \in Requests /\ req[r].status = "Scheduled"
               /\ s \in DOMAIN asg /\ r \in DOMAIN asg /\ s # r /\ r # 0 /\ ~Terminated
               /\ asg[s].to = req[r].at /\ asg[s].from < req[r].at /\ asg[s].from <= now
               /\ asg[s].end = "Transferred"
               /\ asg[r].from = req[r].at /\ asg[r].to = Never /\ asg[r].end = "none"
               /\ asg[r].branch = req[r].target
               /\ req[r].at \in Instants
               /\ \A q \in DOMAIN req : req[q].source # r
               /\ \A q \in DOMAIN req \ {r} : ~InProgress(q) /\ ~Ahead(q)
               /\ \A b \in DOMAIN asg \ {r, s} :
                     asg[b].to <= asg[s].from \/ asg[b].from = asg[b].to
<1> USE DEF TenureInv
<1> DEFINE r == op.r
           s == req[r].source
<1>1. op \in Operations
  BY DEF TenureTypes
<1>2. /\ r \in DOMAIN req /\ r \in Requests /\ req[r].status = "Scheduled" /\ ~Terminated
  BY <1>1, OperationFields DEF OperationFits
<1>3. Ahead(r) /\ r # 0
  BY <1>2 DEF Ahead, Requests
<1>4. /\ r \in DOMAIN asg /\ s \in DOMAIN asg
      /\ asg[s].to = req[r].at /\ asg[s].from < req[r].at /\ asg[s].end = "Transferred"
      /\ asg[r].from = req[r].at /\ asg[r].to = Never /\ req[r].at # Never
  BY <1>2, <1>3 DEF ScheduledFits
<1>5. asg[r].end = "none" /\ s # r /\ asg[s].from <= now /\ asg[r].branch = req[r].target
  BY <1>2, <1>3, <1>4 DEF WindowFits, SourcesStarted, DestinationsFit
<1>6. req[r] \in Transfers
  BY <1>2 DEF TenureTypes
<1>7. req[r].at \in Instants
  BY <1>4, <1>6 DEF Transfers
<1>8. \A q \in DOMAIN req : req[q].source # r
  <2>1. req[r].at \in Nat /\ now \in Nat
    BY <1>7, Numbers
  <2>2. ~(asg[r].from <= now)
    BY <2>1, <1>4
  <2> QED
    BY <2>2 DEF SourcesStarted
<1>9. \A q \in DOMAIN req \ {r} : ~InProgress(q) /\ ~Ahead(q)
  <2>1. \A q \in DOMAIN req : Ahead(q) => InProgress(q)
    BY Numbers DEF InProgress, EffectiveStatus, Finished, Ahead
  <2> QED
    BY <2>1, <1>2, <1>3 DEF OneInProgress
<1>10. ASSUME NEW b \in DOMAIN asg \ {r, s}
       PROVE  asg[b].to <= asg[s].from \/ asg[b].from = asg[b].to
  <2>1. \/ asg[b].to <= asg[s].from \/ asg[s].to <= asg[b].from \/ asg[b].from = asg[b].to
    BY <1>4, Numbers DEF OneTenureAtATime
  <2>2. \/ asg[b].to <= asg[r].from \/ asg[b].from = asg[b].to
    BY <1>4, Numbers DEF OneTenureAtATime
  <2>3. asg[b].from <= asg[b].to /\ asg[b].from \in Nat /\ asg[b].to \in Nat
    BY Numbers DEF WindowFits
  <2> QED
    BY <2>1, <2>2, <2>3, <1>4, <1>7, Numbers
<1> QED
  BY <1>2, <1>3, <1>4, <1>5, <1>7, <1>8, <1>9, <1>10

\* The destination is deleted, and its source open again.
LEMMA CancelEffect ==
    ASSUME TenureInv, Cancel
    PROVE  LET r == op.r
               s == req[r].source
           IN  /\ op # Idle /\ op.kind = "cancel" /\ req[r].at > now
               /\ asg' = Without([asg EXCEPT ![s] = [asg[s] EXCEPT !.to = Never,
                                                                   !.end = "none"]], r)
               /\ req' = [req EXCEPT ![r].status = "Cancelled"]
               /\ op' = Idle /\ UNCHANGED <<now, hire, active, termDate>>
  BY DEF Cancel, Commit, DecidedAt

LEMMA CancelTenure ==
    ASSUME TenureInv, Cancel
    PROVE  TenureInv'
<1> USE DEF TenureInv
<1> DEFINE r == op.r
           s == req[r].source
           reopened == [asg[s] EXCEPT !.to = Never, !.end = "none"]
           given == [req[r] EXCEPT !.status = "Cancelled"]
<1>1. /\ asg' = Without([asg EXCEPT ![s] = reopened], r)
      /\ req' = [req EXCEPT ![r] = given]
      /\ op' = Idle /\ UNCHANGED <<now, hire, active, termDate>>
  BY CancelEffect
<1>2. /\ r \in DOMAIN req
      /\ s \in DOMAIN asg /\ r \in DOMAIN asg /\ s # r /\ r # 0 /\ ~Terminated
      /\ asg[s].to = req[r].at /\ asg[s].from < req[r].at /\ asg[s].from <= now
      /\ \A q \in DOMAIN req : req[q].source # r
      /\ \A q \in DOMAIN req \ {r} : ~InProgress(q) /\ ~Ahead(q)
      /\ \A b \in DOMAIN asg \ {r, s} :
            asg[b].to <= asg[s].from \/ asg[b].from = asg[b].to
  BY CancelEffect, AheadEffect
<1>3. asg[s] \in Windows /\ req[r] \in Transfers
  BY <1>2 DEF TenureTypes
<1>4. /\ reopened \in Windows /\ given \in Transfers
      /\ reopened.branch = asg[s].branch /\ reopened.from = asg[s].from
      /\ reopened.to = Never /\ reopened.end = "none"
      /\ given.source = s /\ given.status = "Cancelled"
  BY <1>3 DEF Windows, Transfers, EndReasons, Finished
<1>5. /\ DOMAIN asg' = DOMAIN asg \ {r} /\ asg'[s] = reopened
      /\ \A a \in DOMAIN asg \ {r, s} : asg'[a] = asg[a]
      /\ asg' = [a \in DOMAIN asg' |-> asg'[a]]
  BY <1>1, <1>2 DEF Without
<1>6. /\ DOMAIN req' = DOMAIN req /\ req'[r] = given
      /\ \A q \in DOMAIN req \ {r} : req'[q] = req[q]
      /\ req' = [q \in DOMAIN req |-> req'[q]]
  BY <1>1, <1>2
<1> HIDE DEF r, reopened, given
<1>7. TenureTypes'
  <2>1. asg' \in [DOMAIN asg' -> Windows]
    BY <1>4, <1>5 DEF TenureTypes
  <2>2. req' \in [DOMAIN req' -> Transfers]
    BY <1>4, <1>6 DEF TenureTypes
  <2> QED
    BY <1>1, <1>5, <1>6, <2>1, <2>2 DEF TenureTypes
<1>8. (\A a \in DOMAIN asg : WindowFits(a))'
  <2> SUFFICES ASSUME NEW a \in DOMAIN asg' PROVE WindowFits(a)'
    OBVIOUS
  <2>1. CASE a = s
    BY <2>1, <1>1, <1>2, <1>4, <1>5, Numbers DEF WindowFits, Terminated
  <2>2. CASE a # s
    BY <2>2, <1>1, <1>5 DEF WindowFits, Terminated
  <2> QED
    BY <2>1, <2>2
<1>9. \A q \in DOMAIN req : req'[q].source = req[q].source
  BY <1>4, <1>6 DEF s
<1>10. DestinationsFit'
  <2>1. 0 \in DOMAIN asg'
    BY <1>2, <1>5 DEF DestinationsFit
  <2>2. ASSUME NEW a \in DOMAIN asg' \ {0}
        PROVE  /\ a \in DOMAIN req' /\ req'[a].status \in {"Scheduled", "Completed"}
               /\ asg'[a].branch = req'[a].target
    <3>1. a # r /\ a \in DOMAIN asg \ {0} /\ asg'[a].branch = asg[a].branch
      BY <2>2, <1>4, <1>5
    <3> QED
      BY <3>1, <1>6 DEF DestinationsFit
  <2> QED
    BY <2>1, <2>2 DEF DestinationsFit
<1>11. SourcesStarted'
  <2> SUFFICES ASSUME NEW q \in DOMAIN req
               PROVE  /\ req'[q].source \in DOMAIN asg' /\ req'[q].source # q
                      /\ asg'[req'[q].source].from <= now
    BY <1>1, <1>6 DEF SourcesStarted
  <2>1. /\ req[q].source \in DOMAIN asg \ {r} /\ req[q].source # q
        /\ asg[req[q].source].from <= now
    BY <1>2 DEF SourcesStarted
  <2> QED
    BY <2>1, <1>4, <1>5, <1>9
<1>12. \A q \in DOMAIN req : ~InProgress(q)' /\ ~Ahead(q)'
  <2>1. \A q \in {r} : ~InProgress(q)' /\ ~Ahead(q)'
    BY <1>4, <1>6 DEF InProgress, EffectiveStatus, Finished, Ahead
  <2>2. \A q \in DOMAIN req \ {r} : ~InProgress(q)' /\ ~Ahead(q)'
    BY <1>1, <1>2, <1>6 DEF InProgress, EffectiveStatus, Ahead
  <2> QED
    BY <2>1, <2>2
<1>13. OneInProgress' /\ (\A q \in DOMAIN req : ScheduledFits(q))' /\ OperationFits'
  BY <1>1, <1>6, <1>12 DEF OneInProgress, ScheduledFits, OperationFits
<1>14. OneTenureAtATime'
  <2>1. \A b \in DOMAIN asg \ {r, s} :
           asg'[b].to <= asg'[s].from \/ asg'[b].from = asg'[b].to
    BY <1>2, <1>4, <1>5
  <2>2. ASSUME NEW a \in DOMAIN asg \ {r, s}, NEW b \in DOMAIN asg \ {r, s}, a # b
        PROVE  \/ asg'[a].to <= asg'[b].from \/ asg'[b].to <= asg'[a].from
               \/ asg'[a].from = asg'[a].to \/ asg'[b].from = asg'[b].to
    BY <2>2, <1>5 DEF OneTenureAtATime
  <2> QED
    BY <2>1, <2>2, <1>5 DEF OneTenureAtATime
<1> QED
  BY <1>7, <1>8, <1>10, <1>11, <1>13, <1>14

\* Both boundaries of a scheduled transfer move together, ahead of the clock.
LEMMA RescheduleEffect ==
    ASSUME TenureInv, Reschedule
    PROVE  LET r == op.r
               s == req[r].source
           IN  /\ op # Idle /\ op.kind = "reschedule" /\ req[r].at > now
               /\ op.at > now /\ op.at > asg[s].from /\ op.at \in Instants
               /\ asg' = [asg EXCEPT ![s].to = op.at, ![r].from = op.at]
               /\ req' = [req EXCEPT ![r].at = op.at]
               /\ op' = Idle /\ UNCHANGED <<now, hire, active, termDate>>
<1>1. op \in Operations /\ op.kind = "reschedule"
  BY DEF Reschedule, TenureInv, TenureTypes
<1>2. op.at \in Instants
  BY <1>1, OperationFields
<1> QED
  BY <1>1, <1>2 DEF Reschedule, Commit, DecidedAt, MovedBoundary

LEMMA RescheduleTenure ==
    ASSUME TenureInv, Reschedule
    PROVE  TenureInv'
<1> USE DEF TenureInv
<1> DEFINE r == op.r
           s == req[r].source
           at == op.at
           ended == [asg[s] EXCEPT !.to = at]
           begun == [asg[r] EXCEPT !.from = at]
           moved == [req[r] EXCEPT !.at = at]
<1>1. /\ at > now /\ at > asg[s].from /\ at \in Instants
      /\ asg' = [asg EXCEPT ![s].to = at, ![r].from = at]
      /\ req' = [req EXCEPT ![r].at = at]
      /\ op' = Idle /\ UNCHANGED <<now, hire, active, termDate>>
  BY RescheduleEffect
<1>2. /\ r \in DOMAIN req /\ req[r].status = "Scheduled"
      /\ s \in DOMAIN asg /\ r \in DOMAIN asg /\ s # r /\ r # 0 /\ ~Terminated
      /\ asg[s].from <= now /\ asg[s].end = "Transferred"
      /\ asg[r].to = Never /\ asg[r].end = "none"
      /\ \A q \in DOMAIN req : req[q].source # r
      /\ \A q \in DOMAIN req \ {r} : ~InProgress(q) /\ ~Ahead(q)
      /\ \A b \in DOMAIN asg \ {r, s} :
            asg[b].to <= asg[s].from \/ asg[b].from = asg[b].to
  BY RescheduleEffect, AheadEffect
<1>3. asg[s] \in Windows /\ asg[r] \in Windows /\ req[r] \in Transfers
  BY <1>2 DEF TenureTypes
<1>4. /\ ended \in Windows /\ begun \in Windows /\ moved \in Transfers
      /\ ended.branch = asg[s].branch /\ ended.from = asg[s].from
      /\ ended.to = at /\ ended.end = "Transferred"
      /\ begun.branch = asg[r].branch /\ begun.from = at
      /\ begun.to = Never /\ begun.end = "none"
      /\ moved.source = s /\ moved.target = req[r].target
      /\ moved.status = "Scheduled" /\ moved.at = at
  BY <1>1, <1>2, <1>3 DEF Windows, Transfers
<1>5. /\ DOMAIN asg' = DOMAIN asg /\ asg'[s] = ended /\ asg'[r] = begun
      /\ \A a \in DOMAIN asg \ {r, s} : asg'[a] = asg[a]
      /\ asg' = [a \in DOMAIN asg' |-> asg'[a]]
  BY <1>1, <1>2
<1>6. /\ DOMAIN req' = DOMAIN req /\ req'[r] = moved
      /\ \A q \in DOMAIN req \ {r} : req'[q] = req[q]
      /\ req' = [q \in DOMAIN req |-> req'[q]]
  BY <1>1, <1>2
<1> HIDE DEF r, at, ended, begun, moved
<1>7. TenureTypes'
  <2>1. asg' \in [DOMAIN asg' -> Windows]
    BY <1>4, <1>5 DEF TenureTypes
  <2>2. req' \in [DOMAIN req' -> Transfers]
    BY <1>4, <1>6 DEF TenureTypes
  <2> QED
    BY <1>1, <1>5, <1>6, <2>1, <2>2 DEF TenureTypes
<1>8. (\A a \in DOMAIN asg : WindowFits(a))'
  <2> SUFFICES ASSUME NEW a \in DOMAIN asg' PROVE WindowFits(a)'
    OBVIOUS
  <2>0. ~Terminated /\ ~Terminated' /\ at \in Nat /\ at < Never /\ Never \in Nat
    BY <1>1, <1>2, Numbers DEF Terminated
  <2>1. CASE a = s
    BY <2>0, <2>1, <1>1, <1>2, <1>4, <1>5, Numbers DEF WindowFits
  <2>2. CASE a = r
    BY <2>0, <2>2, <1>4, <1>5 DEF WindowFits
  <2>3. CASE a \notin {r, s}
    BY <2>3, <1>1, <1>5 DEF WindowFits, Terminated
  <2> QED
    BY <2>1, <2>2, <2>3
<1>9. \A q \in DOMAIN req : req'[q].source = req[q].source
  BY <1>4, <1>6 DEF s
<1>10. DestinationsFit'
  <2>1. 0 \in DOMAIN asg'
    BY <1>2, <1>5 DEF DestinationsFit
  <2>2. \A a \in DOMAIN asg : asg'[a].branch = asg[a].branch
    BY <1>4, <1>5
  <2>3. \A q \in DOMAIN req : req'[q].status = req[q].status /\ req'[q].target = req[q].target
    BY <1>2, <1>4, <1>6
  <2> QED
    BY <2>1, <2>2, <2>3, <1>5, <1>6 DEF DestinationsFit
<1>11. SourcesStarted'
  <2> SUFFICES ASSUME NEW q \in DOMAIN req
               PROVE  /\ req'[q].source \in DOMAIN asg' /\ req'[q].source # q
                      /\ asg'[req'[q].source].from <= now
    <3>1. DOMAIN req' = DOMAIN req /\ now' = now
      BY <1>1, <1>6
    <3> QED
      BY <3>1 DEF SourcesStarted
  <2>1. /\ req[q].source \in DOMAIN asg \ {r} /\ req[q].source # q
        /\ asg[req[q].source].from <= now
    BY <1>2 DEF SourcesStarted
  <2> QED
    BY <2>1, <1>4, <1>5, <1>9
<1>12. \A q \in DOMAIN req \ {r} : ~InProgress(q)' /\ ~Ahead(q)'
  BY <1>1, <1>2, <1>6 DEF InProgress, EffectiveStatus, Ahead
<1>13. OneInProgress' /\ OperationFits'
  BY <1>1, <1>6, <1>12 DEF OneInProgress, OperationFits
<1>14. (\A q \in DOMAIN req : ScheduledFits(q))'
  <2> SUFFICES ASSUME NEW q \in DOMAIN req PROVE ScheduledFits(q)'
    BY <1>6
  <2>1. CASE q = r
    <3>1. req'[r].source = s /\ req'[r].at = at /\ at # Never
      BY <1>1, <1>4, <1>6, Numbers
    <3>2. asg'[s].from < at
      BY <1>1, <1>2, <1>4, <1>5, Numbers
    <3> QED
      BY <2>1, <3>1, <3>2, <1>2, <1>4, <1>5 DEF ScheduledFits
  <2>2. CASE q # r
    BY <2>2, <1>12 DEF ScheduledFits
  <2> QED
    BY <2>1, <2>2
<1>15. OneTenureAtATime'
  <2>1. /\ at \in Nat /\ asg[s].from \in Nat /\ asg[s].from < at
        /\ \A b \in DOMAIN asg \ {r, s} : asg[b].to \in Nat
    BY <1>1, <1>2, Numbers
  <2>2. \A b \in DOMAIN asg \ {r, s} :
           \/ asg'[b].from = asg'[b].to
           \/ asg'[b].to <= asg'[s].from /\ asg'[b].to <= asg'[r].from
    BY <2>1, <1>2, <1>4, <1>5
  <2>3. asg'[s].to <= asg'[r].from
    BY <2>1, <1>4, <1>5
  <2>4. ASSUME NEW a \in DOMAIN asg \ {r, s}, NEW b \in DOMAIN asg \ {r, s}, a # b
        PROVE  \/ asg'[a].to <= asg'[b].from \/ asg'[b].to <= asg'[a].from
               \/ asg'[a].from = asg'[a].to \/ asg'[b].from = asg'[b].to
    BY <2>4, <1>5 DEF OneTenureAtATime
  <2> QED
    BY <2>2, <2>3, <2>4, <1>5 DEF OneTenureAtATime
<1> QED
  BY <1>7, <1>8, <1>10, <1>11, <1>13, <1>14, <1>15

\* What the termination on day d makes of the window of assignment a.
CappedWindow(a, d) ==
    Capped(IF \E r \in Disposed(d) : req[r].source = a THEN CappedSource(asg[a], d)
                                                       ELSE asg[a], d)

\* A transfer that is disposed of lies ahead.
LEMMA DisposedAhead ==
    ASSUME TenureInv, ~Terminated, NEW d \in Days, NEW r \in Disposed(d)
    PROVE  LET s == req[r].source
           IN  /\ r \in DOMAIN req /\ Ahead(r) /\ req[r].at >= 2 * d
               /\ r \in DOMAIN asg /\ s \in DOMAIN asg
               /\ asg[r].from = req[r].at /\ asg[r].to = Never
               /\ asg[s].to = req[r].at /\ asg[s].from < req[r].at
               /\ asg[s].end = "Transferred"
               /\ \A q \in DOMAIN req : req[q].source # r
<1>1. r \in DOMAIN req /\ Ahead(r) /\ req[r].at >= 2 * d
  BY DEF Disposed, Ahead, DecidedAt, Cutoff
<1>2. ScheduledFits(r)
  BY <1>1 DEF TenureInv
<1>3. \A q \in DOMAIN req : req[q].source # r
  <2>1. asg[r].from = req[r].at /\ req[r].at > now /\ req[r].at \in Nat /\ now \in Nat
    BY <1>1, <1>2, Numbers DEF ScheduledFits, Ahead, TenureInv
  <2>2. ~(asg[r].from <= now)
    BY <2>1
  <2> QED
    BY <2>2 DEF TenureInv, SourcesStarted
<1> QED
  BY <1>1, <1>2, <1>3 DEF ScheduledFits

\* A window is capped by ending it no later, and keeps its days up to d.
LEMMA CappedFits ==
    ASSUME TenureInv, ~Terminated, NEW d \in Days, NEW a \in DOMAIN asg
    PROVE  LET w == CappedWindow(a, d)
           IN  /\ w \in Windows /\ w.branch = asg[a].branch /\ w.from = asg[a].from
               /\ w.from <= w.to /\ w.to <= asg[a].to /\ w.to # Never
               /\ w.end # "none"
               /\ w = asg[a] \/ w.end = "Terminated"
               /\ \A e \in Days : e <= d /\ Covers(asg[a], e) => Covers(w, e)
<1> DEFINE w == asg[a]
           v == CappedWindow(a, d)
           cut == 2 * d
<1>1. /\ w \in Windows /\ w.from \in Nat /\ w.to \in Nat /\ w.from < Never /\ w.to <= Never
      /\ w.from \in Instants /\ cut \in Nat /\ cut \in Instants /\ cut < Never
  BY Numbers DEF TenureInv, TenureTypes, Windows
<1>2. w.from <= w.to /\ (w.end = "none" <=> w.to = Never) /\ w.end # "Terminated"
  BY DEF TenureInv, WindowFits
<1>3. CASE \E r \in Disposed(d) : req[r].source = a
  <2>1. PICK r \in Disposed(d) : req[r].source = a
    BY <1>3
  <2>2. w.to = req[r].at /\ w.from < w.to /\ w.to >= cut
    BY <2>1, DisposedAhead
  <2> DEFINE u == CappedSource(w, d)
  <2>3. /\ u \in Windows /\ u.branch = w.branch /\ u.from = w.from /\ u.end = "Terminated"
        /\ u.to = Greater(w.from, cut)
    BY <1>1 DEF CappedSource, Windows, EndReasons, Greater, Cutoff
  <2>4. u.to \in Instants /\ u.to # Never /\ u.from <= u.to /\ u.to <= w.to
    BY <1>1, <2>2, <2>3 DEF Greater
  <2>5. v = Capped(u, d)
    BY <1>3 DEF CappedWindow
  <2> HIDE DEF u, v
  <2>6. CASE u.to <= cut
    <3>1. v = u
      BY <2>3, <2>5, <2>6 DEF Capped, Cutoff
    <3>2. \A e \in Days : e <= d /\ Covers(w, e) => Covers(u, e)
      BY <1>1, <2>2, <2>3, <2>4, Numbers DEF Covers, Greater, Days, TenureInv
    <3> QED
      BY <3>1, <3>2, <2>3, <2>4 DEF v
  <2>7. CASE ~(u.to <= cut)
    <3>1. w.from >= cut /\ u.to = w.from
      BY <1>1, <2>3, <2>7 DEF Greater
    <3>2. v = [u EXCEPT !.end = "Terminated", !.to = u.from]
      BY <2>3, <2>5, <2>7, <3>1 DEF Capped, Cutoff
    <3>3. /\ v \in Windows /\ v.branch = w.branch /\ v.from = w.from /\ v.to = w.from
          /\ v.end = "Terminated"
      BY <1>1, <2>3, <3>2 DEF Windows, EndReasons
    <3>4. \A e \in Days : e <= d => ~Covers(w, e)
      BY <1>1, <3>1, Numbers DEF Covers, Days, TenureInv
    <3> QED
      BY <1>1, <1>2, <3>3, <3>4 DEF v
  <2> QED
    BY <2>6, <2>7
<1>4. CASE ~\E r \in Disposed(d) : req[r].source = a
  <2>1. v = Capped(w, d)
    BY <1>4 DEF CappedWindow
  <2> HIDE DEF v
  <2>2. CASE w.to <= cut /\ w.from < cut
    <3>1. v = w
      BY <2>1, <2>2 DEF Capped, Cutoff
    <3>2. w.to # Never
      BY <1>1, <2>2
    <3> QED
      BY <1>1, <1>2, <3>1, <3>2 DEF v
  <2>3. CASE w.from >= cut
    <3>1. v = [w EXCEPT !.end = "Terminated", !.to = w.from]
      BY <1>1, <1>2, <2>1, <2>3 DEF Capped, Cutoff
    <3>2. /\ v \in Windows /\ v.branch = w.branch /\ v.from = w.from /\ v.to = w.from
          /\ v.end = "Terminated"
      BY <1>1, <3>1 DEF Windows, EndReasons
    <3>3. \A e \in Days : e <= d => ~Covers(w, e)
      BY <1>1, <2>3, Numbers DEF Covers, Days, TenureInv
    <3> QED
      BY <1>1, <1>2, <3>2, <3>3 DEF v
  <2>4. CASE w.to > cut /\ w.from < cut
    <3>0. Lesser(w.to, cut) = cut /\ ~(w.from >= cut) /\ ~(w.to <= cut)
      BY <1>1, <2>4 DEF Lesser
    <3>1. v = [w EXCEPT !.end = "Terminated", !.to = cut]
      BY <2>1, <3>0 DEF Capped, Cutoff
    <3>2. /\ v \in Windows /\ v.branch = w.branch /\ v.from = w.from /\ v.to = cut
          /\ v.end = "Terminated"
      BY <1>1, <3>1 DEF Windows, EndReasons
    <3>3. \A e \in Days : e <= d /\ Covers(w, e) => Covers(v, e)
      BY <1>1, <2>4, <3>2, Numbers DEF Covers, Days, TenureInv
    <3> QED
      BY <1>1, <2>4, <3>2, <3>3 DEF v
  <2> QED
    BY <1>1, <2>2, <2>3, <2>4
<1> QED
  BY <1>3, <1>4

\* What is gone leaves the tables, what is left is capped, and every request
\* that could still take effect is cancelled.
LEMMA TerminateEffect ==
    ASSUME TenureInv, Terminate
    PROVE  LET d    == op.d
               gone == Disposed(d)
           IN  /\ op # Idle /\ op.kind = "terminate" /\ d \in Days /\ ~Terminated
               /\ DOMAIN asg # {}
               /\ asg' = [a \in DOMAIN asg \ gone |-> CappedWindow(a, d)]
               /\ req' = [r \in DOMAIN req |->
                            IF r \in gone \/ req[r].status \in Undecided
                            THEN [req[r] EXCEPT !.status = "Cancelled"] ELSE req[r]]
               /\ roster' = [p \in Periods |->
                               [a \in DOMAIN roster[p] \ gone |-> roster[p][a]]]
               /\ termDate' = d /\ op' = Idle
               /\ UNCHANGED <<now, hire, active, pstat, entries, writer>>
<1>1. op # Idle /\ op.kind = "terminate" /\ op \in Operations
  BY DEF Terminate, TenureInv, TenureTypes
<1>2. op.d \in Days /\ ~Terminated /\ DOMAIN asg # {}
  BY <1>1, OperationFields DEF TenureInv, OperationFits, DestinationsFit
<1> QED
  BY <1>1, <1>2 DEF Terminate, Commit, CappedWindow

LEMMA TerminateTenure ==
    ASSUME TenureInv, Terminate
    PROVE  TenureInv' /\ Terminated'
<1> DEFINE d == op.d
           gone == Disposed(d)
<1>1. /\ d \in Days /\ ~Terminated /\ DOMAIN asg # {}
      /\ asg' = [a \in DOMAIN asg \ gone |-> CappedWindow(a, d)]
      /\ req' = [r \in DOMAIN req |->
                    IF r \in gone \/ req[r].status \in Undecided
                    THEN [req[r] EXCEPT !.status = "Cancelled"] ELSE req[r]]
      /\ termDate' = d /\ op' = Idle /\ UNCHANGED <<now, hire, active>>
  BY TerminateEffect
<1>2. Terminated'
  BY <1>1, Numbers DEF Terminated, TenureInv
<1>3. DOMAIN asg' = DOMAIN asg \ gone /\ \A a \in DOMAIN asg' : asg'[a] = CappedWindow(a, d)
  BY <1>1
<1>4. \A a \in DOMAIN asg' :
         /\ asg'[a] \in Windows /\ asg'[a].branch = asg[a].branch
         /\ asg'[a].from = asg[a].from
         /\ asg'[a].from <= asg'[a].to /\ asg'[a].to <= asg[a].to
         /\ asg'[a].to # Never /\ asg'[a].end # "none"
  BY <1>1, <1>3, CappedFits
<1>5. DOMAIN req' = DOMAIN req
  BY <1>1
<1>6. \A r \in DOMAIN req :
         /\ req[r] \in Transfers
         /\ r \in gone \/ req[r].status \in Undecided =>
               req'[r] = [req[r] EXCEPT !.status = "Cancelled"]
         /\ ~(r \in gone \/ req[r].status \in Undecided) => req'[r] = req[r]
  BY <1>1 DEF TenureInv, TenureTypes
<1>7. \A r \in DOMAIN req :
         /\ req'[r] \in Transfers /\ req'[r].source = req[r].source
         /\ req'[r].target = req[r].target /\ req'[r].at = req[r].at
  <2> SUFFICES ASSUME NEW r \in DOMAIN req
               PROVE  /\ req'[r] \in Transfers /\ req'[r].source = req[r].source
                      /\ req'[r].target = req[r].target /\ req'[r].at = req[r].at
    OBVIOUS
  <2>1. PICK q \in Transfers : q = req[r]
    BY <1>6
  <2>2. LET x == [q EXCEPT !.status = "Cancelled"]
        IN  x \in Transfers /\ x.source = q.source /\ x.target = q.target /\ x.at = q.at
    BY <2>1 DEF Transfers, Finished
  <2>3. req'[r] = q \/ req'[r] = [q EXCEPT !.status = "Cancelled"]
    BY <1>6, <2>1
  <2> QED
    BY <2>1, <2>2, <2>3
<1>8. \A r \in gone : /\ r \in DOMAIN asg /\ r # 0
                      /\ \A q \in DOMAIN req : req[q].source # r
  <2>1. \A r \in gone : r \in DOMAIN req /\ r \in DOMAIN asg
                        /\ \A q \in DOMAIN req : req[q].source # r
    BY <1>1, DisposedAhead
  <2> QED
    BY <2>1 DEF TenureInv, TenureTypes, Requests
<1> HIDE DEF d, gone
<1>9. TenureTypes'
  <2>1. asg' \in [DOMAIN asg' -> Windows]
    BY <1>1, <1>3, <1>4
  <2>2. req' \in [DOMAIN req' -> Transfers]
    BY <1>1, <1>5, <1>7
  <2>3. termDate' \in 0 .. LastDay
    BY <1>1, TenureAssumption DEF Days
  <2> QED
    BY <1>1, <1>3, <1>5, <2>1, <2>2, <2>3 DEF TenureInv, TenureTypes
<1>10. (\A a \in DOMAIN asg : WindowFits(a))'
  BY <1>2, <1>4 DEF WindowFits
<1>11. DestinationsFit'
  <2>1. 0 \in DOMAIN asg'
    BY <1>1, <1>3, <1>8 DEF TenureInv, DestinationsFit
  <2>2. ASSUME NEW a \in DOMAIN asg' \ {0}
        PROVE  /\ a \in DOMAIN req' /\ req'[a].status \in {"Scheduled", "Completed"}
               /\ asg'[a].branch = req'[a].target
    <3>1. /\ a \in DOMAIN req /\ req[a].status \in {"Scheduled", "Completed"}
          /\ asg[a].branch = req[a].target /\ a \notin gone
      BY <2>2, <1>3 DEF TenureInv, DestinationsFit
    <3>2. req'[a] = req[a]
      BY <3>1, <1>6 DEF Undecided
    <3> QED
      BY <2>2, <3>1, <3>2, <1>4, <1>5
  <2> QED
    BY <1>1, <2>1, <2>2 DEF DestinationsFit
<1>12. SourcesStarted'
  <2> SUFFICES ASSUME NEW r \in DOMAIN req
               PROVE  /\ req'[r].source \in DOMAIN asg' /\ req'[r].source # r
                      /\ asg'[req'[r].source].from <= now
    BY <1>1, <1>5 DEF SourcesStarted
  <2>1. req[r].source \in DOMAIN asg /\ req[r].source # r /\ asg[req[r].source].from <= now
    BY DEF TenureInv, SourcesStarted
  <2>2. req[r].source \in DOMAIN asg'
    BY <2>1, <1>3, <1>8
  <2> QED
    BY <2>1, <2>2, <1>4, <1>7
<1>13. \A r \in DOMAIN req : InProgress(r)' => InProgress(r)
  <2> SUFFICES ASSUME NEW r \in DOMAIN req, InProgress(r)' PROVE InProgress(r)
    OBVIOUS
  <2>1. CASE r \in gone \/ req[r].status \in Undecided
    <3>1. req'[r].status = "Cancelled"
      BY <2>1, <1>6 DEF Transfers
    <3> QED
      BY <3>1 DEF InProgress, EffectiveStatus, Finished
  <2>2. CASE ~(r \in gone \/ req[r].status \in Undecided)
    BY <2>2, <1>1, <1>6 DEF InProgress, EffectiveStatus
  <2> QED
    BY <2>1, <2>2
<1>14. OneInProgress'
  BY <1>5, <1>13 DEF TenureInv, OneInProgress
<1>15. (\A r \in DOMAIN req : ScheduledFits(r))' /\ OperationFits'
  BY <1>1, <1>2 DEF ScheduledFits, OperationFits
<1>16. OneTenureAtATime'
  <2>1. DOMAIN asg' \in SUBSET DOMAIN asg
    BY <1>3
  <2>2. \A a \in DOMAIN asg : asg[a].from \in Nat /\ asg[a].to \in Nat
    BY Numbers DEF TenureInv
  <2>3. \A a \in DOMAIN asg' : asg'[a].to \in Nat
    BY <1>4, TenureAssumption DEF Windows, Instants, Never
  <2>4. \A a, b \in DOMAIN asg : a # b =>
           \/ asg[a].to <= asg[b].from \/ asg[b].to <= asg[a].from
           \/ asg[a].from = asg[a].to \/ asg[b].from = asg[b].to
    BY DEF TenureInv, OneTenureAtATime
  <2>5. \A a \in DOMAIN asg' : /\ asg'[a].from = asg[a].from /\ asg'[a].to \in Nat
                               /\ asg[a].from <= asg'[a].to /\ asg'[a].to <= asg[a].to
    BY <2>3, <1>4
  <2> HIDE DEF TenureInv
  <2>6. \A a, b \in DOMAIN asg' : a # b =>
           \/ asg'[a].to <= asg'[b].from \/ asg'[b].to <= asg'[a].from
           \/ asg'[a].from = asg'[a].to \/ asg'[b].from = asg'[b].to
    BY <2>1, <2>2, <2>4, <2>5, ShrinkingKeepsApart
  <2> QED
    BY <2>6 DEF OneTenureAtATime
<1> QED
  BY <1>2, <1>9, <1>10, <1>11, <1>12, <1>14, <1>15, <1>16 DEF TenureInv

-----------------------------------------------------------------------------
(* What each step may do, as a predicate of the step                       *)

HistoryStep ==
    /\ \A a \in DOMAIN asg \ DOMAIN asg' : asg[a].from > now
    /\ \A a \in DOMAIN asg \cap DOMAIN asg' : BoundaryMoveLegal(a)

SubmittedStep ==
    \A p \in Periods : pstat[p] \in {"InReview", "Locked"} =>
        roster'[p] = roster[p] /\ \A a \in DOMAIN asg : Gained(a, p) = {}

GainedStep ==
    \A p \in Periods, a \in Assignments :
        pstat[p] \in EditableStatuses /\ active =>
            \A d \in Gained(a, p) : hire <= d =>
                a \in DOMAIN roster'[p] /\ d \in roster'[p][a]

EntryStep ==
    \A x \in source' \ source :
        /\ x[2] \in DOMAIN roster[x[1]] /\ x[3] \in roster[x[1]][x[2]]
        /\ x[2] \in DOMAIN asg /\ Covers(asg[x[2]], x[3])
        /\ Terminated => x[3] <= termDate

StepFine == HistoryStep /\ SubmittedStep /\ GainedStep /\ EntryStep

\* A step that moves no boundary moves none illegally.
LEMMA NoBoundaryMoved ==
    ASSUME asg' = asg
    PROVE  HistoryStep /\ GainedStep /\ \A a \in DOMAIN asg, p \in Periods : Gained(a, p) = {}
  BY DEF HistoryStep, BoundaryMoveLegal, GainedStep, Gained

-----------------------------------------------------------------------------
(* Rosters, entries and mutations: steps that move no boundary             *)

\* A step that leaves boundaries, rosters, entries and mutations alone.
LEMMA QuietPayroll ==
    ASSUME PayrollInv, UNCHANGED <<asg, termDate, pstat, roster, entries, writer>>
    PROVE  PayrollInv' /\ StepFine
<1>1. UNCHANGED <<source, bonus, touched>>
  BY DEF entries
<1>2. PayrollTypes' /\ RostersFit' /\ EntriesKnown'
  BY <1>1 DEF PayrollInv, PayrollTypes, RostersFit, EntriesKnown
<1>3. WriterFits' /\ FactsInTenure'
  BY <1>1 DEF PayrollInv, WriterFits, Allowed, Terminated, FactsInTenure
<1>4. StepFine
  BY <1>1, NoBoundaryMoved DEF StepFine, SubmittedStep, EntryStep
<1> QED
  BY <1>2, <1>3, <1>4 DEF PayrollInv

\* A mutation that holds its period row names things that exist.
LEMMA WriterFields ==
    ASSUME PayrollTypes, writer # Idle
    PROVE  /\ writer \in Mutations /\ writer.p \in Periods /\ writer.a \in Assignments
           /\ writer.kind \in {"daily", "void", "bonus"}
           /\ writer.kind \in {"daily", "void"} => writer.d \in Days
  BY DEF PayrollTypes, Mutations

\* The days of a row are days of the period, in the window, and before the end.
LEMMA RowDaysFit ==
    ASSUME NEW p \in Periods, NEW w
    PROVE  /\ RowDays(p, w) \subseteq DaysOf[p]
           /\ \A d \in RowDays(p, w) : Covers(w, d) /\ (Terminated => d <= termDate)
  BY DEF RowDays, EligibleDays

\* A period is promoted: its roster is captured again, and nobody held it.
LEMMA PromotePayroll ==
    ASSUME PayrollInv, NEW p \in Periods, Promote(p)
    PROVE  PayrollInv' /\ StepFine
<1> DEFINE rows == {b \in DOMAIN asg : asg[b].branch = BranchOf[p] /\ HasRow(p, b, asg[b])}
<1>1. /\ pstat[p] = "Draft" /\ NoWriter({p})
      /\ pstat' = [pstat EXCEPT ![p] = "Open"]
      /\ roster' = [roster EXCEPT ![p] = [a \in rows |-> RowDays(p, asg[a])]]
      /\ UNCHANGED <<asg, termDate, source, bonus, touched, writer>>
  BY DEF Promote, people, tenure, entries
<1>2. /\ pstat \in [Periods -> PeriodStatuses] /\ DOMAIN roster = Periods
      /\ pstat'[p] = "Open" /\ \A q \in Periods \ {p} : pstat'[q] = pstat[q]
      /\ roster'[p] = [a \in rows |-> RowDays(p, asg[a])]
      /\ \A q \in Periods \ {p} : roster'[q] = roster[q]
  BY <1>1 DEF PayrollInv, PayrollTypes
<1>3. PayrollTypes'
  <2>1. pstat' \in [Periods -> PeriodStatuses]
    BY <1>1, <1>2 DEF PeriodStatuses, EditableStatuses
  <2>2. roster' = [q \in Periods |-> roster'[q]]
    BY <1>1, <1>2
  <2>3. roster'[p] \in [DOMAIN roster'[p] -> SUBSET DaysOf[p]]
    BY <1>2, RowDaysFit
  <2>4. \A q \in Periods : roster'[q] \in [DOMAIN roster'[q] -> SUBSET DaysOf[q]]
    BY <1>2, <2>3 DEF PayrollInv, PayrollTypes
  <2> QED
    BY <1>1, <2>1, <2>2, <2>4 DEF PayrollInv, PayrollTypes
<1>4. RostersFit'
  <2>1. \A a \in DOMAIN roster'[p] : a \in DOMAIN asg /\ asg[a].branch = BranchOf[p]
    BY <1>2
  <2>2. \A q \in Periods \ {p} : \A a \in DOMAIN roster'[q] :
           a \in DOMAIN asg /\ asg[a].branch = BranchOf[q]
    BY <1>2 DEF PayrollInv, RostersFit
  <2> QED
    BY <1>1, <2>1, <2>2 DEF RostersFit
<1>5. \A x \in bonus : x[1] \in Periods \ {p}
  BY <1>1 DEF PayrollInv, PayrollTypes, EntriesKnown
<1>6. EntriesKnown' /\ FactsInTenure'
  BY <1>1, <1>2, <1>5 DEF PayrollInv, EntriesKnown, FactsInTenure, Terminated
<1>7. WriterFits'
  <2> SUFFICES ASSUME writer # Idle, writer.kind # "void"
               PROVE  /\ writer.kind = "bonus" => pstat'[writer.p] \in BonusStatuses
                      /\ \E d \in Days : /\ Allowed(writer.p, writer.a, d)'
                                         /\ writer.kind = "daily" => d = writer.d
    BY <1>1 DEF WriterFits
  <2>1. writer.p \in Periods \ {p}
    BY <1>1, WriterFields DEF NoWriter, PayrollInv
  <2> QED
    BY <2>1, <1>1, <1>2 DEF PayrollInv, WriterFits, Allowed, Terminated
<1>8. StepFine
  BY <1>1, <1>2, NoBoundaryMoved DEF StepFine, SubmittedStep, EntryStep
<1> QED
  BY <1>3, <1>4, <1>6, <1>7, <1>8 DEF PayrollInv

\* A period is submitted, returned, finalized or cancelled.
LEMMA MovePayroll ==
    ASSUME PayrollInv, NEW p \in Periods, MovePeriod(p)
    PROVE  PayrollInv' /\ StepFine
<1>1. PICK to \in EditableStatuses \cup {"InReview", "Locked", "Cancelled"} :
         <<pstat[p], to>> \in Moves /\ pstat' = [pstat EXCEPT ![p] = to]
  BY DEF MovePeriod
<1>2. NoWriter({p}) /\ UNCHANGED <<asg, termDate, roster, source, bonus, touched, writer>>
  BY DEF MovePeriod, people, tenure, entries
<1>3. to \in PeriodStatuses /\ to # "Draft"
  BY <1>1 DEF Moves, PeriodStatuses
<1>4. /\ pstat' \in [Periods -> PeriodStatuses]
      /\ \A q \in Periods : pstat'[q] = IF q = p THEN to ELSE pstat[q]
  BY <1>1, <1>3 DEF PayrollInv, PayrollTypes
<1>5. PayrollTypes' /\ RostersFit' /\ FactsInTenure'
  BY <1>2, <1>4 DEF PayrollInv, PayrollTypes, RostersFit, FactsInTenure, Terminated
<1>6. EntriesKnown'
  <2>1. \A x \in bonus : x[1] \in Periods
    BY DEF PayrollInv, PayrollTypes
  <2> QED
    BY <2>1, <1>2, <1>3, <1>4 DEF PayrollInv, EntriesKnown
<1>7. WriterFits'
  <2> SUFFICES ASSUME writer # Idle, writer.kind # "void"
               PROVE  /\ writer.kind = "bonus" => pstat'[writer.p] \in BonusStatuses
                      /\ \E d \in Days : /\ Allowed(writer.p, writer.a, d)'
                                         /\ writer.kind = "daily" => d = writer.d
    BY <1>2 DEF WriterFits
  <2>1. writer.p \in Periods \ {p}
    BY <1>2, WriterFields DEF NoWriter, PayrollInv
  <2> QED
    BY <2>1, <1>2, <1>4 DEF PayrollInv, WriterFits, Allowed, Terminated
<1>8. StepFine
  BY <1>2, NoBoundaryMoved DEF StepFine, SubmittedStep, EntryStep
<1> QED
  BY <1>5, <1>6, <1>7, <1>8 DEF PayrollInv

\* A mutation is authorized by what holds when its period row is locked.
LEMMA AuthorizePayroll ==
    ASSUME PayrollInv, NEW w \in Mutations, Authorize(w)
    PROVE  PayrollInv' /\ StepFine
<1>1. /\ MayEnter(w) /\ writer' = w
      /\ UNCHANGED <<asg, termDate, pstat, roster, source, bonus, touched>>
  BY DEF Authorize, people, tenure, entries
<1>2. PayrollTypes' /\ RostersFit' /\ EntriesKnown' /\ FactsInTenure'
  BY <1>1 DEF PayrollInv, PayrollTypes, RostersFit, EntriesKnown, FactsInTenure, Terminated
<1>3. w.kind = "daily" => w.d \in Days
  BY DEF Mutations
<1>4. WriterFits'
  BY <1>1, <1>3 DEF MayEnter, DayEligible, WriterFits, Allowed, Terminated
<1>5. StepFine
  BY <1>1, NoBoundaryMoved DEF StepFine, SubmittedStep, EntryStep
<1> QED
  BY <1>2, <1>4, <1>5 DEF PayrollInv

\* The mutation is written, and what it was authorized for is still allowed.
LEMMA SavePayroll ==
    ASSUME PayrollInv, Save
    PROVE  PayrollInv' /\ StepFine
<1> DEFINE daily == {x \in {<<writer.p, writer.a, writer.d>>} : writer.kind = "daily"}
           paid  == {x \in {<<writer.p, writer.a>>} : writer.kind = "bonus"}
<1>1. /\ writer # Idle /\ writer' = Idle /\ touched' = touched \cup {writer.a}
      /\ UNCHANGED <<asg, termDate, pstat, roster>>
  BY DEF Save, people, tenure
<1>2. /\ writer.p \in Periods /\ writer.a \in Assignments
      /\ writer.kind \in {"daily", "void", "bonus"}
      /\ writer.kind \in {"daily", "void"} => writer.d \in Days
  BY <1>1, WriterFields DEF PayrollInv
<1>3. source' \subseteq source \cup daily
  BY <1>1, <1>2 DEF Save
<1>4. bonus' = bonus \cup paid
  BY DEF Save
<1>5. writer.kind = "daily" => Allowed(writer.p, writer.a, writer.d)
  BY <1>1 DEF PayrollInv, WriterFits
<1>6. writer.kind = "bonus" =>
         /\ pstat[writer.p] # "Draft"
         /\ writer.a \in DOMAIN asg /\ writer.a \in DOMAIN roster[writer.p]
         /\ \E d \in roster[writer.p][writer.a] : Covers(asg[writer.a], d)
  BY <1>1 DEF PayrollInv, WriterFits, Allowed, BonusStatuses
<1>7. PayrollTypes'
  BY <1>1, <1>2, <1>3, <1>4 DEF PayrollInv, PayrollTypes
<1>8. RostersFit' /\ WriterFits'
  BY <1>1 DEF PayrollInv, RostersFit, WriterFits
<1>9. EntriesKnown'
  BY <1>1, <1>3, <1>4, <1>6 DEF PayrollInv, EntriesKnown
<1>10. FactsInTenure'
  <2>1. \A x \in source' : (Terminated => x[3] <= termDate)
                               => x[2] \in DOMAIN asg /\ Covers(asg[x[2]], x[3])
    BY <1>3, <1>5 DEF PayrollInv, FactsInTenure, Allowed
  <2>2. \A x \in bonus' : ~Terminated =>
           /\ x[2] \in DOMAIN asg \cap DOMAIN roster[x[1]]
           /\ \E d \in roster[x[1]][x[2]] : Covers(asg[x[2]], d)
    BY <1>4, <1>6 DEF PayrollInv, FactsInTenure
  <2> QED
    BY <1>1, <2>1, <2>2 DEF FactsInTenure, Terminated
<1>11. StepFine
  <2>1. EntryStep
    BY <1>3, <1>5 DEF EntryStep, Allowed
  <2> QED
    BY <1>1, <2>1, NoBoundaryMoved DEF StepFine, SubmittedStep
<1> QED
  BY <1>7, <1>8, <1>9, <1>10, <1>11 DEF PayrollInv

\* A mutation that is refused lets go of its row.
LEMMA AbandonPayroll ==
    ASSUME PayrollInv, AbandonSave
    PROVE  PayrollInv' /\ StepFine
<1>1. writer' = Idle /\ UNCHANGED <<asg, termDate, pstat, roster, source, bonus, touched>>
  BY DEF AbandonSave, people, tenure, entries
<1>2. PayrollTypes' /\ RostersFit' /\ EntriesKnown'
  BY <1>1 DEF PayrollInv, PayrollTypes, RostersFit, EntriesKnown
<1>3. WriterFits' /\ FactsInTenure'
  BY <1>1 DEF PayrollInv, WriterFits, Terminated, FactsInTenure
<1>4. StepFine
  BY <1>1, NoBoundaryMoved DEF StepFine, SubmittedStep, EntryStep
<1> QED
  BY <1>2, <1>3, <1>4 DEF PayrollInv

-----------------------------------------------------------------------------
(* What a boundary does to the rosters                                     *)

\* A row is inserted or left out; the other rows stay.
LEMMA CapturedFits ==
    ASSUME NEW p \in Periods, NEW ros, ros \in [DOMAIN ros -> SUBSET DaysOf[p]],
           NEW a, NEW w
    PROVE  LET new == Captured(p, ros, a, w)
           IN  /\ new \in [DOMAIN new -> SUBSET DaysOf[p]]
               /\ DOMAIN new \subseteq DOMAIN ros \cup {a}
               /\ \A b \in DOMAIN ros \ {a} : b \in DOMAIN new /\ new[b] = ros[b]
               /\ HasRow(p, a, w) => a \in DOMAIN new /\ new[a] = RowDays(p, w)
               /\ ~HasRow(p, a, w) => new = ros
<1>1. CASE HasRow(p, a, w)
  <2>1. Captured(p, ros, a, w) = With(ros, a, RowDays(p, w))
    BY <1>1 DEF Captured
  <2> QED
    BY <1>1, <2>1, RowDaysFit DEF With
<1>2. CASE ~HasRow(p, a, w)
  BY <1>2 DEF Captured
<1> QED
  BY <1>1, <1>2

\* A deleted row is gone, the others stay.
LEMMA WithoutFits ==
    ASSUME NEW S, NEW rows, rows \in [DOMAIN rows -> S], NEW a
    PROVE  LET new == Without(rows, a)
           IN  /\ new \in [DOMAIN new -> S] /\ DOMAIN new = DOMAIN rows \ {a}
               /\ \A b \in DOMAIN rows \ {a} : new[b] = rows[b]
               /\ a \notin DOMAIN rows => new = rows
  BY DEF Without

\* Rows of every period, each with days of its own period.
Rosters(ros) ==
    /\ ros = [p \in Periods |-> ros[p]]
    /\ \A p \in Periods : ros[p] \in [DOMAIN ros[p] -> SUBSET DaysOf[p]]

\* The new assignment gets its row in the editable periods of its branch.
IsAppended(new, a, w) ==
    /\ Rosters(new)
    /\ \A p \in Periods :
          /\ DOMAIN roster[p] \subseteq DOMAIN new[p]
          /\ \A b \in DOMAIN roster[p] : new[p][b] = roster[p][b]
          /\ DOMAIN new[p] \subseteq DOMAIN roster[p] \cup {a}
          /\ a \in DOMAIN new[p] => BranchOf[p] = w.branch
          /\ p \notin Appendable(w) => new[p] = roster[p]
          /\ p \in Appendable(w) /\ HasRow(p, a, w) =>
                a \in DOMAIN new[p] /\ new[p][a] = RowDays(p, w)

LEMMA AppendedFits ==
    ASSUME Rosters(roster), NEW a, \A p \in Periods : a \notin DOMAIN roster[p], NEW w
    PROVE  IsAppended(Appended(a, w), a, w)
<1> DEFINE new == Appended(a, w)
<1>1. /\ new = [p \in Periods |-> new[p]]
      /\ \A p \in Periods : new[p] = IF p \in Appendable(w) THEN Captured(p, roster[p], a, w)
                                                            ELSE roster[p]
  BY DEF Appended
<1> HIDE DEF new
<1>2. ASSUME NEW p \in Periods
      PROVE  /\ new[p] \in [DOMAIN new[p] -> SUBSET DaysOf[p]]
             /\ DOMAIN roster[p] \subseteq DOMAIN new[p]
             /\ \A b \in DOMAIN roster[p] : new[p][b] = roster[p][b]
             /\ DOMAIN new[p] \subseteq DOMAIN roster[p] \cup {a}
             /\ a \in DOMAIN new[p] => BranchOf[p] = w.branch
             /\ p \notin Appendable(w) => new[p] = roster[p]
             /\ p \in Appendable(w) /\ HasRow(p, a, w) =>
                   a \in DOMAIN new[p] /\ new[p][a] = RowDays(p, w)
  <2>1. roster[p] \in [DOMAIN roster[p] -> SUBSET DaysOf[p]]
    BY DEF Rosters
  <2>2. CASE p \in Appendable(w)
    <3>1. BranchOf[p] = w.branch /\ new[p] = Captured(p, roster[p], a, w)
      BY <2>2, <1>1 DEF Appendable
    <3> QED
      BY <2>1, <2>2, <3>1, CapturedFits
  <2>3. CASE p \notin Appendable(w)
    BY <2>1, <2>3, <1>1
  <2> QED
    BY <2>2, <2>3
<1>3. Rosters(new)
  BY <1>1, <1>2 DEF Rosters
<1> QED
  BY <1>2, <1>3 DEF new, IsAppended

\* The row of an assignment is captured again where its window changed.
IsRecaptured(new, ros, a, w, ps) ==
    /\ Rosters(new)
    /\ \A p \in Periods :
          /\ \A b \in DOMAIN ros[p] \ {a} : b \in DOMAIN new[p] /\ new[p][b] = ros[p][b]
          /\ DOMAIN new[p] \subseteq DOMAIN ros[p] \cup {a}
          /\ p \notin ps => new[p] = ros[p]
          /\ new[p] # ros[p] => BranchOf[p] = w.branch
          /\ p \in ps /\ BranchOf[p] = w.branch =>
                /\ HasRow(p, a, w) => a \in DOMAIN new[p]
                /\ a \in DOMAIN new[p] => new[p][a] = RowDays(p, w)

LEMMA RecapturedFits ==
    ASSUME NEW ros, Rosters(ros), NEW a, NEW w, NEW ps
    PROVE  IsRecaptured(Recaptured(ros, a, w, ps), ros, a, w, ps)
<1> DEFINE new == Recaptured(ros, a, w, ps)
<1>1. /\ new = [p \in Periods |-> new[p]]
      /\ \A p \in Periods : new[p] = IF p \in ps /\ BranchOf[p] = w.branch
                                     THEN Captured(p, Without(ros[p], a), a, w) ELSE ros[p]
  BY DEF Recaptured
<1> HIDE DEF new
<1>2. ASSUME NEW p \in Periods
      PROVE  /\ new[p] \in [DOMAIN new[p] -> SUBSET DaysOf[p]]
             /\ \A b \in DOMAIN ros[p] \ {a} : b \in DOMAIN new[p] /\ new[p][b] = ros[p][b]
             /\ DOMAIN new[p] \subseteq DOMAIN ros[p] \cup {a}
             /\ p \notin ps => new[p] = ros[p]
             /\ new[p] # ros[p] => BranchOf[p] = w.branch
             /\ p \in ps /\ BranchOf[p] = w.branch =>
                   /\ HasRow(p, a, w) => a \in DOMAIN new[p]
                   /\ a \in DOMAIN new[p] => new[p][a] = RowDays(p, w)
  <2>1. ros[p] \in [DOMAIN ros[p] -> SUBSET DaysOf[p]]
    BY DEF Rosters
  <2>2. CASE p \in ps /\ BranchOf[p] = w.branch
    <3> DEFINE less == Without(ros[p], a)
    <3>1. new[p] = Captured(p, less, a, w)
      BY <2>2, <1>1
    <3>2. /\ less \in [DOMAIN less -> SUBSET DaysOf[p]] /\ DOMAIN less = DOMAIN ros[p] \ {a}
          /\ \A b \in DOMAIN ros[p] \ {a} : less[b] = ros[p][b]
      BY <2>1 DEF Without
    <3> HIDE DEF less
    <3>3. /\ new[p] \in [DOMAIN new[p] -> SUBSET DaysOf[p]]
          /\ DOMAIN new[p] \subseteq DOMAIN less \cup {a}
          /\ \A b \in DOMAIN less \ {a} : b \in DOMAIN new[p] /\ new[p][b] = less[b]
          /\ HasRow(p, a, w) => a \in DOMAIN new[p] /\ new[p][a] = RowDays(p, w)
          /\ ~HasRow(p, a, w) => new[p] = less
      BY <3>1, <3>2, CapturedFits
    <3> QED
      BY <2>2, <3>2, <3>3
  <2>3. CASE ~(p \in ps /\ BranchOf[p] = w.branch)
    BY <2>1, <2>3, <1>1
  <2> QED
    BY <2>2, <2>3
<1>3. Rosters(new)
  BY <1>1, <1>2 DEF Rosters
<1> QED
  BY <1>2, <1>3 DEF new, IsRecaptured

\* What is left to show of a step that moves boundaries and rosters, and
\* leaves the entries, the periods and the mutation under way alone.
LEMMA BoundaryPayroll ==
    ASSUME PayrollInv, UNCHANGED <<pstat, entries, writer>>,
           Rosters(roster)', RostersFit',
           FactsInTenure',
           \A p \in Periods, a \in Assignments : \A d \in DaysOf[p] :
               ~NoWriter({p}) /\ Allowed(p, a, d) => Allowed(p, a, d)'
    PROVE  PayrollInv' /\ EntryStep
<1>1. UNCHANGED <<source, bonus, touched>>
  BY DEF entries
<1>2. PayrollTypes' /\ EntriesKnown' /\ EntryStep
  BY <1>1 DEF PayrollInv, PayrollTypes, Rosters, EntriesKnown, EntryStep
<1>3. WriterFits'
  <2> SUFFICES ASSUME writer # Idle, writer.kind # "void"
               PROVE  /\ writer.kind = "bonus" => pstat[writer.p] \in BonusStatuses
                      /\ \E d \in Days : /\ Allowed(writer.p, writer.a, d)'
                                         /\ writer.kind = "daily" => d = writer.d
    BY DEF WriterFits
  <2>1. /\ writer.kind = "bonus" => pstat[writer.p] \in BonusStatuses
        /\ \E d \in Days : /\ Allowed(writer.p, writer.a, d)
                           /\ writer.kind = "daily" => d = writer.d
    BY DEF PayrollInv, WriterFits
  <2>2. writer.p \in Periods /\ writer.a \in Assignments
    BY WriterFields DEF PayrollInv
  <2>3. ~NoWriter({writer.p})
    BY DEF NoWriter
  <2>4. \A d \in Days : Allowed(writer.p, writer.a, d) => d \in DaysOf[writer.p]
    BY <2>2 DEF Allowed, PayrollInv, PayrollTypes
  <2> QED
    BY <2>1, <2>2, <2>3, <2>4
<1> QED
  BY <1>2, <1>3 DEF PayrollInv

\* Two kinds of period: those of the branches that meet the interval, whose
\* rows the operation locks, and those with no day in it.
LEMMA OutsideBoundary ==
    ASSUME NEW p \in Periods, NEW bs, BranchOf[p] \in bs, NEW s, NEW e,
           p \notin BoundaryPeriods(bs, s, e)
    PROVE  \A d \in DaysOf[p] : ~(s < 2 * d /\ 2 * d - 2 < e)
  BY DEF BoundaryPeriods, Meets

-----------------------------------------------------------------------------
(* Rosters, entries and mutations: steps that move a boundary              *)

LEMMA CreateDriverPayroll ==
    ASSUME IInv, NEW from \in Instants, from >= now, CreateDriver(FirstBranch, from)
    PROVE  PayrollInv' /\ StepFine
<1> DEFINE w == [branch |-> FirstBranch, from |-> from, to |-> Never, end |-> "none"]
<1>1. /\ DOMAIN asg = {} /\ asg' = With(asg, 0, w) /\ roster' = Appended(0, w)
      /\ UNCHANGED <<hire, active, termDate, pstat, entries, writer>>
  BY DEF CreateDriver, people
<1>2. DOMAIN asg' = {0} /\ asg'[0] = w
  BY <1>1 DEF With
<1>3. ~Terminated
  BY CreateDriverTenure DEF IInv
<1>4. Rosters(roster) /\ \A p \in Periods : DOMAIN roster[p] = {}
  BY <1>1 DEF IInv, PayrollInv, PayrollTypes, RostersFit, Rosters
<1>5. /\ Rosters(roster')
      /\ \A p \in Periods :
            /\ DOMAIN roster'[p] \subseteq {0}
            /\ 0 \in DOMAIN roster'[p] => BranchOf[p] = w.branch
            /\ p \notin Appendable(w) => roster'[p] = roster[p]
            /\ p \in Appendable(w) /\ HasRow(p, 0, w) =>
                  0 \in DOMAIN roster'[p] /\ roster'[p][0] = RowDays(p, w)
  <2>1. \A p \in Periods : 0 \notin DOMAIN roster[p]
    BY <1>4
  <2> HIDE DEF w
  <2>2. IsAppended(Appended(0, w), 0, w)
    BY <1>4, <2>1, AppendedFits
  <2> QED
    BY <1>1, <1>4, <2>2 DEF IsAppended
<1>6. source = {} /\ bonus = {}
  BY <1>1, <1>3 DEF IInv, PayrollInv, FactsInTenure
<1>7. PayrollInv' /\ EntryStep
  <2>1. RostersFit'
    BY <1>2, <1>5 DEF RostersFit
  <2>2. FactsInTenure'
    BY <1>1, <1>6 DEF FactsInTenure, entries
  <2>3. \A p \in Periods, a \in Assignments : \A d \in DaysOf[p] : ~Allowed(p, a, d)
    BY <1>1 DEF Allowed
  <2>4. Rosters(roster)'
    BY <1>5 DEF Rosters
  <2> QED
    BY <1>1, <2>1, <2>2, <2>3, <2>4, BoundaryPayroll DEF IInv
<1>8. HistoryStep
  BY <1>1 DEF HistoryStep
<1>9. SubmittedStep
  <2>1. \A p \in Periods : pstat[p] \in {"InReview", "Locked"} => p \notin Appendable(w)
    BY DEF Appendable, EditableStatuses
  <2> QED
    BY <2>1, <1>1, <1>5 DEF SubmittedStep
<1>10. GainedStep
  <2> SUFFICES ASSUME NEW p \in Periods, NEW a \in Assignments,
                      pstat[p] \in EditableStatuses, active,
                      NEW d \in Gained(a, p), hire <= d
               PROVE  a \in DOMAIN roster'[p] /\ d \in roster'[p][a]
    BY DEF GainedStep
  <2>1. a = 0 /\ d \in DaysOf[p] /\ BranchOf[p] = w.branch /\ Covers(w, d)
    BY <1>2 DEF Gained
  <2>2. p \in Appendable(w)
    BY <2>1 DEF Appendable
  <2>3. d \in RowDays(p, w) /\ HasRow(p, 0, w)
    BY <2>1, <1>3 DEF RowDays, HasRow, EligibleDays
  <2> QED
    BY <2>1, <2>2, <2>3, <1>5
<1> QED
  BY <1>7, <1>8, <1>9, <1>10 DEF StepFine

\* Completed: the source gives up only days that nothing depends on.
LEMMA CompletePayroll ==
    ASSUME IInv, Complete
    PROVE  PayrollInv' /\ StepFine
<1> DEFINE r == op.r
           s == req[r].source
           at == Boundary
           lower == IF req[r].at = Never THEN op.start ELSE req[r].at
           closed == [asg[s] EXCEPT !.to = at, !.end = "Transferred"]
           opened == [branch |-> req[r].target, from |-> at, to |-> Never, end |-> "none"]
           ps == BoundaryPeriods(BranchesOf(r), lower, Never)
<1>1. /\ r \in DOMAIN req /\ r \in Requests
      /\ s \in DOMAIN asg /\ s # r /\ r \notin DOMAIN asg
      /\ asg[s].to = Never /\ asg[s].from <= now /\ ~Terminated
      /\ at \in Instants /\ asg[s].from < at /\ now <= at
      /\ op.start \in Instants /\ op.start <= now
      /\ asg' = With([asg EXCEPT ![s] = closed], r, opened)
      /\ UNCHANGED <<now, hire, active, termDate>>
  BY CompleteEffect DEF IInv
<1>2. /\ NoWriter(ps \cup Appendable(opened)) /\ PayrollCovered(s, closed)
      /\ roster' = Appended(r, opened)
      /\ UNCHANGED <<pstat, entries, writer>>
  BY DEF Complete, Commit, DecidedAt, Boundary
<1>3. asg[s] \in Windows
  BY <1>1 DEF IInv, TenureInv, TenureTypes
<1>4. /\ closed.branch = asg[s].branch /\ closed.from = asg[s].from
      /\ closed.to = at /\ closed.end = "Transferred"
  BY <1>3 DEF Windows
<1>5. /\ DOMAIN asg' = DOMAIN asg \cup {r}
      /\ asg'[s] = closed /\ asg'[r] = opened
      /\ \A a \in DOMAIN asg \ {s} : asg'[a] = asg[a]
  BY <1>1 DEF With
<1>6. lower \in Nat /\ lower <= at /\ at \in Nat /\ at < Never /\ Never \in Nat
  <2>1. req[r].at \in Nat /\ now \in Nat /\ op.start \in Nat
    BY <1>1, Numbers DEF IInv, TenureInv
  <2> QED
    BY <2>1, <1>1, Numbers DEF IInv, TenureInv, Boundary
<1>7. opened = [branch |-> req[r].target, from |-> at, to |-> Never, end |-> "none"]
  OBVIOUS
<1>8. asg[s].branch \in BranchesOf(r)
  BY DEF BranchesOf
<1>9. /\ Rosters(roster)
      /\ \A p \in Periods : /\ \A a \in DOMAIN roster[p] : a \in DOMAIN asg
                                                          /\ asg[a].branch = BranchOf[p]
                            /\ DaysOf[p] \subseteq Days
  BY TenureAssumption DEF IInv, PayrollInv, PayrollTypes, RostersFit, Rosters
<1> HIDE DEF r, s, at, lower, closed, opened
<1>10. /\ Rosters(roster')
       /\ \A p \in Periods :
             /\ DOMAIN roster[p] \subseteq DOMAIN roster'[p]
             /\ \A b \in DOMAIN roster[p] : roster'[p][b] = roster[p][b]
             /\ DOMAIN roster'[p] \subseteq DOMAIN roster[p] \cup {r}
             /\ r \in DOMAIN roster'[p] => BranchOf[p] = opened.branch
             /\ p \notin Appendable(opened) => roster'[p] = roster[p]
             /\ p \in Appendable(opened) /\ HasRow(p, r, opened) =>
                   r \in DOMAIN roster'[p] /\ roster'[p][r] = RowDays(p, opened)
  <2>1. \A p \in Periods : r \notin DOMAIN roster[p]
    BY <1>1, <1>9
  <2>2. IsAppended(Appended(r, opened), r, opened)
    BY <2>1, <1>9, AppendedFits
  <2> QED
    BY <1>2, <2>2 DEF IsAppended
<1>11. \A d \in Days : Covers(closed, d) => Covers(asg[s], d)
  BY <1>1, <1>4, <1>6, Numbers DEF Covers, IInv, TenureInv
<1>12. RostersFit'
  <2> SUFFICES ASSUME NEW p \in Periods, NEW a \in DOMAIN roster'[p]
               PROVE  a \in DOMAIN asg' /\ asg'[a].branch = BranchOf[p]
    BY DEF RostersFit
  <2>1. CASE a = r
    BY <2>1, <1>5, <1>10
  <2>2. CASE a # r
    <3>1. a \in DOMAIN asg /\ asg[a].branch = BranchOf[p]
      BY <2>2, <1>9, <1>10
    <3> QED
      BY <3>1, <1>4, <1>5
  <2> QED
    BY <2>1, <2>2
<1>13. FactsInTenure'
  <2>1. ASSUME NEW x \in source
        PROVE  x[2] \in DOMAIN asg' /\ Covers(asg'[x[2]], x[3])
    <3>1. /\ x[2] \in DOMAIN asg /\ Covers(asg[x[2]], x[3])
          /\ x[1] \in Periods /\ x[3] \in Days /\ x = <<x[1], x[2], x[3]>>
      BY <1>1 DEF IInv, PayrollInv, FactsInTenure, PayrollTypes
    <3>2. x[2] = s => Covers(closed, x[3])
      BY <3>1, <1>2 DEF PayrollCovered
    <3> QED
      BY <3>1, <3>2, <1>5
  <2>2. ASSUME NEW x \in bonus
        PROVE  /\ x[2] \in DOMAIN asg' \cap DOMAIN roster'[x[1]]
               /\ \E d \in roster'[x[1]][x[2]] : Covers(asg'[x[2]], d)
    <3>1. /\ x[2] \in DOMAIN asg \cap DOMAIN roster[x[1]]
          /\ \E d \in roster[x[1]][x[2]] : Covers(asg[x[2]], d)
          /\ x[1] \in Periods /\ x = <<x[1], x[2]>>
      BY <1>1 DEF IInv, PayrollInv, FactsInTenure, PayrollTypes
    <3>2. x[2] = s => \E d \in roster[x[1]][x[2]] : Covers(closed, d)
      BY <3>1, <1>2 DEF PayrollCovered, BonusesCovered
    <3>3. x[2] \in DOMAIN roster'[x[1]] /\ roster'[x[1]][x[2]] = roster[x[1]][x[2]]
      BY <3>1, <1>10
    <3> QED
      BY <3>1, <3>2, <3>3, <1>5
  <2> QED
    BY <2>1, <2>2, <1>2 DEF FactsInTenure, entries
<1>14. ASSUME NEW p \in Periods, NEW a \in Assignments, NEW d \in DaysOf[p],
              ~NoWriter({p}), Allowed(p, a, d)
       PROVE  Allowed(p, a, d)'
  <2>1. a \in DOMAIN asg /\ asg[a].branch = BranchOf[p] /\ d \in Days
    BY <1>9, <1>14 DEF Allowed
  <2>2. a \in DOMAIN roster'[p] /\ d \in roster'[p][a]
    BY <1>10, <1>14 DEF Allowed
  <2>3. Covers(asg'[a], d)
    <3>1. CASE a = s
      <4>1. ~(lower < 2 * d /\ 2 * d - 2 < Never)
        BY <3>1, <2>1, <1>2, <1>8, <1>14, OutsideBoundary DEF NoWriter
      <4>2. d \in Nat /\ 2 * d < Never /\ asg[s].from < 2 * d
        BY <3>1, <2>1, <1>14, Numbers DEF Allowed, Covers, IInv, TenureInv
      <4> QED
        BY <3>1, <4>1, <4>2, <1>1, <1>4, <1>5, <1>6 DEF Covers
    <3>2. CASE a # s
      BY <3>2, <2>1, <1>5, <1>14 DEF Allowed
    <3> QED
      BY <3>1, <3>2
  <2> QED
    BY <2>1, <2>2, <2>3, <1>1, <1>5 DEF Allowed, Terminated
<1>15. PayrollInv' /\ EntryStep
  <2>1. Rosters(roster)'
    BY <1>10 DEF Rosters
  <2> QED
    BY <1>2, <1>12, <1>13, <1>14, <2>1, BoundaryPayroll DEF IInv
<1>16. HistoryStep
  <2>1. \A a \in DOMAIN asg \ {s} : BoundaryMoveLegal(a)
    BY <1>5 DEF BoundaryMoveLegal
  <2>2. \A a \in {s} : BoundaryMoveLegal(a)
    BY <1>1, <1>4, <1>5 DEF BoundaryMoveLegal
  <2> QED
    BY <2>1, <2>2, <1>5 DEF HistoryStep
<1>17. \A a \in DOMAIN asg, p \in Periods : Gained(a, p) = {}
  BY <1>5, <1>9, <1>11 DEF Gained
<1>18. SubmittedStep
  <2>1. \A p \in Periods : pstat[p] \in {"InReview", "Locked"} => p \notin Appendable(opened)
    BY DEF Appendable, EditableStatuses
  <2> QED
    BY <2>1, <1>10, <1>17 DEF SubmittedStep
<1>19. GainedStep
  <2> SUFFICES ASSUME NEW p \in Periods, NEW a \in Assignments,
                      pstat[p] \in EditableStatuses, active,
                      NEW d \in Gained(a, p), hire <= d
               PROVE  a \in DOMAIN roster'[p] /\ d \in roster'[p][a]
    BY DEF GainedStep
  <2>1. a = r /\ d \in DaysOf[p] /\ BranchOf[p] = opened.branch /\ Covers(opened, d)
    BY <1>5, <1>17 DEF Gained
  <2>2. p \in Appendable(opened)
    BY <2>1 DEF Appendable
  <2>3. d \in RowDays(p, opened) /\ HasRow(p, r, opened)
    BY <2>1, <1>1 DEF RowDays, HasRow, EligibleDays
  <2> QED
    BY <2>1, <2>2, <2>3, <1>10
<1> QED
  BY <1>15, <1>16, <1>18, <1>19 DEF StepFine

\* Cancelled: nothing referred to the destination, and the source gets back
\* days of periods that nobody holds or has submitted.
LEMMA CancelPayroll ==
    ASSUME IInv, Cancel
    PROVE  PayrollInv' /\ StepFine
<1> DEFINE r == op.r
           s == req[r].source
           ps == BoundaryPeriods(BranchesOf(r), req[r].at, Never)
           reopened == [asg[s] EXCEPT !.to = Never, !.end = "none"]
           without == [p \in Periods |-> Without(roster[p], r)]
           edit == EditableOf(ps)
<1>1. /\ r \in DOMAIN req
      /\ s \in DOMAIN asg /\ r \in DOMAIN asg /\ s # r /\ ~Terminated
      /\ asg[s].to = req[r].at /\ asg[s].from < req[r].at /\ req[r].at > now
      /\ asg[r].from = req[r].at /\ asg[r].branch = req[r].target
      /\ req[r].at \in Instants
      /\ asg' = Without([asg EXCEPT ![s] = reopened], r)
      /\ UNCHANGED <<now, hire, active, termDate>>
  BY CancelEffect, AheadEffect DEF IInv
<1>2. /\ NoWriter(ps) /\ AllEditable(ps) /\ Disposable(r)
      /\ roster' = Recaptured(without, s, reopened, edit)
      /\ BonusHasDay(s, roster', edit)
      /\ UNCHANGED <<pstat, entries, writer>>
  BY DEF Cancel, Commit
<1>3. asg[s] \in Windows
  BY <1>1 DEF IInv, TenureInv, TenureTypes
<1>4. /\ reopened.branch = asg[s].branch /\ reopened.from = asg[s].from
      /\ reopened.to = Never /\ reopened.end = "none"
  BY <1>3 DEF Windows
<1>5. /\ DOMAIN asg' = DOMAIN asg \ {r} /\ asg'[s] = reopened
      /\ \A a \in DOMAIN asg \ {r, s} : asg'[a] = asg[a]
  BY <1>1 DEF Without
<1>6. /\ req[r].at \in Nat /\ now \in Nat /\ req[r].at < Never /\ Never \in Nat
      /\ asg[s].from \in Nat /\ asg[s].from < Never
      /\ \A d \in Days : d \in Nat \ {0} /\ 2 * d < Never
  BY <1>1, Numbers DEF IInv, TenureInv
<1>7. asg[s].branch \in BranchesOf(r) /\ asg[r].branch \in BranchesOf(r)
  BY <1>1 DEF BranchesOf
<1>8. /\ Rosters(roster)
      /\ \A p \in Periods : /\ \A a \in DOMAIN roster[p] : a \in DOMAIN asg
                                                          /\ asg[a].branch = BranchOf[p]
                            /\ DaysOf[p] \subseteq Days
  BY TenureAssumption DEF IInv, PayrollInv, PayrollTypes, RostersFit, Rosters
<1>9. r \notin touched
  BY <1>2 DEF Disposable
<1>10. \A p \in Periods : pstat[p] \in {"InReview", "Locked"} =>
          p \notin ps /\ r \notin DOMAIN roster[p]
  BY <1>2 DEF AllEditable, Disposable, EditableStatuses
<1>11. edit \subseteq ps /\ \A p \in ps : pstat[p] \in EditableStatuses => p \in edit
  BY DEF EditableOf
<1>12. \A p \in Periods : BranchOf[p] \in BranchesOf(r) /\ p \notin ps =>
          \A d \in DaysOf[p] : 2 * d <= req[r].at
  <2> SUFFICES ASSUME NEW p \in Periods, BranchOf[p] \in BranchesOf(r), p \notin ps,
                      NEW d \in DaysOf[p]
               PROVE  2 * d <= req[r].at
    OBVIOUS
  <2>1. ~(req[r].at < 2 * d /\ 2 * d - 2 < Never)
    BY OutsideBoundary
  <2> QED
    BY <2>1, <1>6, <1>8
<1>13. /\ Rosters(without)
       /\ \A p \in Periods : /\ DOMAIN without[p] = DOMAIN roster[p] \ {r}
                             /\ \A b \in DOMAIN roster[p] \ {r} : without[p][b] = roster[p][b]
                             /\ r \notin DOMAIN roster[p] => without[p] = roster[p]
  <2>1. ASSUME NEW p \in Periods
        PROVE  /\ without[p] \in [DOMAIN without[p] -> SUBSET DaysOf[p]]
               /\ DOMAIN without[p] = DOMAIN roster[p] \ {r}
               /\ \A b \in DOMAIN roster[p] \ {r} : without[p][b] = roster[p][b]
               /\ r \notin DOMAIN roster[p] => without[p] = roster[p]
    <3>1. /\ without[p] = Without(roster[p], r)
          /\ roster[p] \in [DOMAIN roster[p] -> SUBSET DaysOf[p]]
      BY <1>8 DEF Rosters
    <3>2. PICK ros : ros = roster[p]
      OBVIOUS
    <3>3. LET left == Without(ros, r)
          IN  /\ left \in [DOMAIN left -> SUBSET DaysOf[p]]
              /\ DOMAIN left = DOMAIN ros \ {r}
              /\ \A b \in DOMAIN ros \ {r} : left[b] = ros[b]
              /\ r \notin DOMAIN ros => left = ros
      BY <3>1, <3>2 DEF Without
    <3> QED
      BY <3>1, <3>2, <3>3
  <2> QED
    BY <2>1 DEF Rosters
<1> HIDE DEF r, s, ps, reopened, without, edit
<1>14. IsRecaptured(roster', without, s, reopened, edit)
  <2>1. IsRecaptured(Recaptured(without, s, reopened, edit), without, s, reopened, edit)
    BY <1>13, RecapturedFits
  <2> QED
    BY <2>1, <1>2
<1>15. \A p \in Periods :
          /\ \A b \in DOMAIN roster[p] \ {r, s} : /\ b \in DOMAIN roster'[p]
                                                  /\ roster'[p][b] = roster[p][b]
          /\ DOMAIN roster'[p] \subseteq (DOMAIN roster[p] \ {r}) \cup {s}
          /\ s \in DOMAIN roster'[p] => BranchOf[p] = asg[s].branch
          /\ p \in edit /\ BranchOf[p] = asg[s].branch =>
                /\ HasRow(p, s, reopened) => s \in DOMAIN roster'[p]
                /\ s \in DOMAIN roster'[p] => roster'[p][s] = RowDays(p, reopened)
          /\ ~(p \in edit /\ BranchOf[p] = asg[s].branch) =>
                /\ s \in DOMAIN roster[p] => /\ s \in DOMAIN roster'[p]
                                             /\ roster'[p][s] = roster[p][s]
                /\ r \notin DOMAIN roster[p] => roster'[p] = roster[p]
  BY <1>1, <1>4, <1>8, <1>13, <1>14 DEF IsRecaptured
<1>16. \A d \in Days : Covers(asg[s], d) => Covers(reopened, d)
  BY <1>1, <1>4, <1>6 DEF Covers
<1>17. RostersFit'
  <2> SUFFICES ASSUME NEW p \in Periods, NEW a \in DOMAIN roster'[p]
               PROVE  a \in DOMAIN asg' /\ asg'[a].branch = BranchOf[p]
    BY DEF RostersFit
  <2>1. CASE a = s
    BY <2>1, <1>1, <1>4, <1>5, <1>15
  <2>2. CASE a # s
    <3>1. a # r /\ a \in DOMAIN asg /\ asg[a].branch = BranchOf[p]
      BY <2>2, <1>8, <1>15
    <3> QED
      BY <2>2, <3>1, <1>5
  <2> QED
    BY <2>1, <2>2
<1>18. FactsInTenure'
  <2>1. ASSUME NEW x \in source
        PROVE  x[2] \in DOMAIN asg' /\ Covers(asg'[x[2]], x[3])
    <3>1. x[2] \in DOMAIN asg /\ Covers(asg[x[2]], x[3]) /\ x[3] \in Days /\ x[2] # r
      BY <1>1, <1>9 DEF IInv, PayrollInv, FactsInTenure, PayrollTypes, EntriesKnown
    <3> QED
      BY <3>1, <1>5, <1>16
  <2>2. ASSUME NEW x \in bonus
        PROVE  /\ x[2] \in DOMAIN asg' \cap DOMAIN roster'[x[1]]
               /\ \E d \in roster'[x[1]][x[2]] : Covers(asg'[x[2]], d)
    <3>1. /\ x[2] \in DOMAIN asg \cap DOMAIN roster[x[1]] /\ x[2] # r
          /\ \E d \in roster[x[1]][x[2]] : Covers(asg[x[2]], d)
          /\ x[1] \in Periods /\ x = <<x[1], x[2]>>
      BY <1>1, <1>9 DEF IInv, PayrollInv, FactsInTenure, PayrollTypes, EntriesKnown
    <3>2. CASE x[2] # s
      BY <3>1, <3>2, <1>5, <1>15
    <3>3. CASE x[2] = s /\ x[1] \in edit
      <4>1. s \in DOMAIN roster'[x[1]] /\ roster'[x[1]][s] # {}
        BY <3>1, <3>3, <1>2 DEF BonusHasDay
      <4>2. roster'[x[1]][s] = RowDays(x[1], reopened)
        BY <3>1, <3>3, <4>1, <1>15
      <4>3. \A d \in RowDays(x[1], reopened) : Covers(reopened, d)
        BY <3>1, RowDaysFit
      <4> QED
        BY <3>3, <4>1, <4>2, <4>3, <1>1, <1>5
    <3>4. CASE x[2] = s /\ x[1] \notin edit
      <4>1. s \in DOMAIN roster'[x[1]] /\ roster'[x[1]][s] = roster[x[1]][s]
        BY <3>1, <3>4, <1>15
      <4>2. roster[x[1]][s] \subseteq Days
        BY <3>1, <3>4, <1>8 DEF Rosters
      <4> QED
        BY <3>1, <3>4, <4>1, <4>2, <1>1, <1>5, <1>16
    <3> QED
      BY <3>2, <3>3, <3>4
  <2> QED
    BY <2>1, <2>2, <1>2 DEF FactsInTenure, entries
<1>19. ASSUME NEW p \in Periods, NEW a \in Assignments, NEW d \in DaysOf[p],
              ~NoWriter({p}), Allowed(p, a, d)
       PROVE  Allowed(p, a, d)'
  <2>1. /\ a \in DOMAIN roster[p] /\ d \in roster[p][a] /\ a \in DOMAIN asg
        /\ asg[a].branch = BranchOf[p] /\ d \in Days /\ Covers(asg[a], d)
    BY <1>8, <1>19 DEF Allowed
  <2>2. p \notin ps
    BY <1>2, <1>19 DEF NoWriter
  <2>3. a # r
    <3> SUFFICES ASSUME a = r PROVE FALSE
      OBVIOUS
    <3>1. 2 * d <= req[r].at
      BY <2>1, <2>2, <1>7, <1>12
    <3>2. req[r].at < 2 * d
      BY <2>1, <1>1 DEF Covers
    <3> QED
      BY <3>1, <3>2, <2>1, <1>6
  <2>4. a \in DOMAIN roster'[p] /\ d \in roster'[p][a]
    BY <2>1, <2>2, <2>3, <1>11, <1>15
  <2>5. a \in DOMAIN asg' /\ Covers(asg'[a], d)
    BY <2>1, <2>3, <1>5, <1>16
  <2> QED
    BY <2>4, <2>5, <1>1 DEF Allowed, Terminated
<1>20. PayrollInv' /\ EntryStep
  <2>1. Rosters(roster)'
    BY <1>14 DEF IsRecaptured, Rosters
  <2> QED
    BY <1>2, <1>17, <1>18, <1>19, <2>1, BoundaryPayroll DEF IInv
<1>21. HistoryStep
  <2>1. \A a \in DOMAIN asg \ {r, s} : BoundaryMoveLegal(a)
    BY <1>5 DEF BoundaryMoveLegal
  <2>2. \A a \in {s} : BoundaryMoveLegal(a)
    BY <1>1, <1>4, <1>5, <1>6 DEF BoundaryMoveLegal
  <2>3. \A a \in {r} : asg[a].from > now
    BY <1>1
  <2> QED
    BY <2>1, <2>2, <2>3, <1>5 DEF HistoryStep
<1>22. ASSUME NEW p \in Periods, NEW a \in Assignments, NEW d \in Gained(a, p)
       PROVE  a = s /\ p \in ps /\ BranchOf[p] = asg[s].branch /\ Covers(reopened, d)
  <2>1. /\ d \in DaysOf[p] /\ d \in Days /\ a \in DOMAIN asg' /\ asg'[a].branch = BranchOf[p]
        /\ Covers(asg'[a], d) /\ ~(a \in DOMAIN asg /\ Covers(asg[a], d))
    BY <1>8 DEF Gained
  <2>2. a = s
    BY <2>1, <1>5
  <2>3. Covers(reopened, d) /\ ~Covers(asg[s], d) /\ BranchOf[p] = asg[s].branch
    BY <2>1, <2>2, <1>1, <1>4, <1>5
  <2>4. p \in ps
    <3> SUFFICES ASSUME p \notin ps PROVE FALSE
      OBVIOUS
    <3>1. 2 * d <= req[r].at
      BY <2>1, <2>3, <1>7, <1>12
    <3> QED
      BY <2>1, <2>3, <3>1, <1>1, <1>4, <1>6 DEF Covers
  <2> QED
    BY <2>2, <2>3, <2>4
<1>23. SubmittedStep
  <2> SUFFICES ASSUME NEW p \in Periods, pstat[p] \in {"InReview", "Locked"}
               PROVE  roster'[p] = roster[p] /\ \A a \in DOMAIN asg : Gained(a, p) = {}
    BY DEF SubmittedStep
  <2>1. p \notin ps /\ r \notin DOMAIN roster[p]
    BY <1>10
  <2>2. DOMAIN asg \subseteq Assignments
    BY DEF IInv, TenureInv, TenureTypes
  <2> QED
    BY <2>1, <2>2, <1>11, <1>15, <1>22
<1>24. GainedStep
  <2> SUFFICES ASSUME NEW p \in Periods, NEW a \in Assignments,
                      pstat[p] \in EditableStatuses, active,
                      NEW d \in Gained(a, p), hire <= d
               PROVE  a \in DOMAIN roster'[p] /\ d \in roster'[p][a]
    BY DEF GainedStep
  <2>1. a = s /\ p \in edit /\ BranchOf[p] = asg[s].branch /\ Covers(reopened, d)
    BY <1>11, <1>22
  <2>2. d \in DaysOf[p]
    BY DEF Gained
  <2>3. d \in RowDays(p, reopened) /\ HasRow(p, s, reopened)
    BY <2>1, <2>2, <1>1 DEF RowDays, HasRow, EligibleDays
  <2> QED
    BY <2>1, <2>3, <1>15
<1> QED
  BY <1>20, <1>21, <1>23, <1>24 DEF StepFine

\* Rescheduled: days change hands only in periods that nobody holds or has
\* submitted, and only if no entry is left behind.
LEMMA ReschedulePayroll ==
    ASSUME IInv, Reschedule
    PROVE  PayrollInv' /\ StepFine
<1> DEFINE r == op.r
           s == req[r].source
           at == op.at
           was == req[r].at
           lo == Lesser(was, at)
           hi == Greater(was, at)
           ps == BoundaryPeriods(BranchesOf(r), lo, hi)
           edit == EditableOf(ps)
           ended == [asg[s] EXCEPT !.to = at]
           begun == [asg[r] EXCEPT !.from = at]
           once == Recaptured(roster, s, ended, edit)
<1>1. /\ r \in DOMAIN req
      /\ s \in DOMAIN asg /\ r \in DOMAIN asg /\ s # r /\ ~Terminated
      /\ asg[s].to = was /\ asg[s].from < was /\ was > now /\ asg[s].end = "Transferred"
      /\ asg[r].from = was /\ asg[r].to = Never /\ asg[r].branch = req[r].target
      /\ at > now /\ at > asg[s].from /\ at \in Instants /\ was \in Instants
      /\ asg' = [asg EXCEPT ![s].to = at, ![r].from = at]
      /\ UNCHANGED <<now, hire, active, termDate>>
  BY RescheduleEffect, AheadEffect DEF IInv
<1>2. /\ MovedBoundary(r, at)[s] = ended /\ MovedBoundary(r, at)[r] = begun
  BY <1>1 DEF MovedBoundary
<1>3. /\ NoWriter(ps) /\ AllEditable(ps)
      /\ PayrollCovered(s, ended) /\ PayrollCovered(r, begun)
      /\ roster' = Recaptured(once, r, begun, edit)
      /\ BonusHasDay(s, roster', edit) /\ BonusHasDay(r, roster', edit)
      /\ UNCHANGED <<pstat, entries, writer>>
  <2>1. /\ NoWriter(ps) /\ AllEditable(ps)
        /\ PayrollCovered(s, MovedBoundary(r, at)[s])
        /\ PayrollCovered(r, MovedBoundary(r, at)[r])
        /\ roster' = Recaptured(Recaptured(roster, s, MovedBoundary(r, at)[s], edit),
                                r, MovedBoundary(r, at)[r], edit)
        /\ BonusHasDay(s, roster', edit) /\ BonusHasDay(r, roster', edit)
        /\ UNCHANGED <<pstat, entries, writer>>
    BY DEF Reschedule, Commit
  <2> QED
    BY <2>1, <1>2
<1>4. asg[s] \in Windows /\ asg[r] \in Windows
  BY <1>1 DEF IInv, TenureInv, TenureTypes
<1>5. /\ ended.branch = asg[s].branch /\ ended.from = asg[s].from
      /\ ended.to = at /\ ended.end = "Transferred"
      /\ begun.branch = asg[r].branch /\ begun.from = at
      /\ begun.to = Never /\ begun.end = asg[r].end
  BY <1>1, <1>4 DEF Windows
<1>6. /\ DOMAIN asg' = DOMAIN asg /\ asg'[s] = ended /\ asg'[r] = begun
      /\ \A a \in DOMAIN asg \ {r, s} : asg'[a] = asg[a]
  BY <1>1
<1>7. /\ was \in Nat /\ at \in Nat /\ now \in Nat /\ Never \in Nat
      /\ was < Never /\ at < Never
      /\ asg[s].from \in Nat
      /\ \A d \in Days : d \in Nat \ {0} /\ 2 * d < Never
  BY <1>1, Numbers DEF IInv, TenureInv
<1>8. lo \in Nat /\ hi \in Nat /\ lo <= was /\ lo <= at /\ was <= hi /\ at <= hi
      /\ (lo = was \/ lo = at) /\ (hi = was \/ hi = at)
  BY <1>7 DEF Lesser, Greater
<1>9. asg[s].branch \in BranchesOf(r) /\ asg[r].branch \in BranchesOf(r)
  BY <1>1 DEF BranchesOf
<1>10. /\ Rosters(roster)
       /\ \A p \in Periods : /\ \A a \in DOMAIN roster[p] : a \in DOMAIN asg
                                                           /\ asg[a].branch = BranchOf[p]
                             /\ DaysOf[p] \subseteq Days
  BY TenureAssumption DEF IInv, PayrollInv, PayrollTypes, RostersFit, Rosters
<1>11. \A p \in Periods : pstat[p] \in {"InReview", "Locked"} => p \notin ps
  BY <1>3 DEF AllEditable, EditableStatuses
<1>12. edit \subseteq ps /\ \A p \in ps : pstat[p] \in EditableStatuses => p \in edit
  BY DEF EditableOf
<1>13. \A p \in Periods : BranchOf[p] \in BranchesOf(r) /\ p \notin ps =>
          \A d \in DaysOf[p] : ~(lo < 2 * d /\ 2 * d - 2 < hi)
  BY OutsideBoundary
<1> HIDE DEF r, s, at, was, lo, hi, ps, edit, ended, begun, once
<1>14. IsRecaptured(once, roster, s, ended, edit)
  BY <1>10, RecapturedFits DEF once
<1>15. IsRecaptured(roster', once, r, begun, edit)
  <2>1. Rosters(once)
    BY <1>14 DEF IsRecaptured
  <2>2. IsRecaptured(Recaptured(once, r, begun, edit), once, r, begun, edit)
    BY <2>1, RecapturedFits
  <2> QED
    BY <2>2, <1>3
<1>16. ASSUME NEW p \in Periods
       PROVE  /\ \A b \in DOMAIN roster[p] \ {r, s} : /\ b \in DOMAIN roster'[p]
                                                      /\ roster'[p][b] = roster[p][b]
              /\ DOMAIN roster'[p] \subseteq DOMAIN roster[p] \cup {r, s}
              /\ p \notin edit => roster'[p] = roster[p]
              /\ s \in DOMAIN roster'[p] => BranchOf[p] = asg[s].branch
              /\ r \in DOMAIN roster'[p] => BranchOf[p] = asg[r].branch
              /\ p \in edit /\ BranchOf[p] = asg[s].branch =>
                    /\ HasRow(p, s, ended) => s \in DOMAIN roster'[p]
                    /\ s \in DOMAIN roster'[p] => roster'[p][s] = RowDays(p, ended)
              /\ p \in edit /\ BranchOf[p] = asg[r].branch =>
                    /\ HasRow(p, r, begun) => r \in DOMAIN roster'[p]
                    /\ r \in DOMAIN roster'[p] => roster'[p][r] = RowDays(p, begun)
  <2>1. /\ \A b \in DOMAIN roster[p] \ {s} : b \in DOMAIN once[p] /\ once[p][b] = roster[p][b]
        /\ DOMAIN once[p] \subseteq DOMAIN roster[p] \cup {s}
        /\ p \notin edit => once[p] = roster[p]
        /\ once[p] # roster[p] => BranchOf[p] = asg[s].branch
        /\ p \in edit /\ BranchOf[p] = asg[s].branch =>
              /\ HasRow(p, s, ended) => s \in DOMAIN once[p]
              /\ s \in DOMAIN once[p] => once[p][s] = RowDays(p, ended)
    BY <1>5, <1>14 DEF IsRecaptured
  <2>2. /\ \A b \in DOMAIN once[p] \ {r} : b \in DOMAIN roster'[p]
                                           /\ roster'[p][b] = once[p][b]
        /\ DOMAIN roster'[p] \subseteq DOMAIN once[p] \cup {r}
        /\ p \notin edit => roster'[p] = once[p]
        /\ roster'[p] # once[p] => BranchOf[p] = asg[r].branch
        /\ p \in edit /\ BranchOf[p] = asg[r].branch =>
              /\ HasRow(p, r, begun) => r \in DOMAIN roster'[p]
              /\ r \in DOMAIN roster'[p] => roster'[p][r] = RowDays(p, begun)
    BY <1>5, <1>15 DEF IsRecaptured
  <2>3. \A a \in DOMAIN roster[p] : asg[a].branch = BranchOf[p]
    BY <1>10
  <2>4. s \in DOMAIN roster'[p] => BranchOf[p] = asg[s].branch
    BY <2>1, <2>2, <2>3, <1>1
  <2>5. r \in DOMAIN roster'[p] => BranchOf[p] = asg[r].branch
    BY <2>1, <2>2, <2>3, <1>1
  <2> QED
    BY <2>1, <2>2, <2>4, <2>5, <1>1
<1>17. RostersFit'
  <2> SUFFICES ASSUME NEW p \in Periods, NEW a \in DOMAIN roster'[p]
               PROVE  a \in DOMAIN asg' /\ asg'[a].branch = BranchOf[p]
    BY DEF RostersFit
  <2>1. CASE a \in {r, s}
    BY <2>1, <1>1, <1>5, <1>6, <1>16
  <2>2. CASE a \notin {r, s}
    <3>1. a \in DOMAIN asg /\ asg[a].branch = BranchOf[p]
      BY <2>2, <1>10, <1>16
    <3> QED
      BY <2>2, <3>1, <1>6
  <2> QED
    BY <2>1, <2>2
<1>18. FactsInTenure'
  <2>1. ASSUME NEW x \in source
        PROVE  x[2] \in DOMAIN asg' /\ Covers(asg'[x[2]], x[3])
    <3>1. /\ x[2] \in DOMAIN asg /\ Covers(asg[x[2]], x[3])
          /\ x[1] \in Periods /\ x[3] \in Days /\ x = <<x[1], x[2], x[3]>>
      BY <1>1 DEF IInv, PayrollInv, FactsInTenure, PayrollTypes
    <3>2. /\ x[2] = s => Covers(ended, x[3])
          /\ x[2] = r => Covers(begun, x[3])
      BY <3>1, <1>3 DEF PayrollCovered
    <3> QED
      BY <3>1, <3>2, <1>6
  <2>2. ASSUME NEW x \in bonus
        PROVE  /\ x[2] \in DOMAIN asg' \cap DOMAIN roster'[x[1]]
               /\ \E d \in roster'[x[1]][x[2]] : Covers(asg'[x[2]], d)
    <3>1. /\ x[2] \in DOMAIN asg \cap DOMAIN roster[x[1]]
          /\ \E d \in roster[x[1]][x[2]] : Covers(asg[x[2]], d)
          /\ x[1] \in Periods /\ x = <<x[1], x[2]>>
      BY <1>1 DEF IInv, PayrollInv, FactsInTenure, PayrollTypes
    <3>2. /\ x[2] = s => \E d \in roster[x[1]][x[2]] : Covers(ended, d)
          /\ x[2] = r => \E d \in roster[x[1]][x[2]] : Covers(begun, d)
      BY <3>1, <1>3 DEF PayrollCovered, BonusesCovered
    <3>3. asg[x[2]].branch = BranchOf[x[1]]
      BY <3>1, <1>10
    <3>4. CASE x[1] \notin edit
      BY <3>1, <3>2, <3>4, <1>6, <1>16
    <3>5. CASE x[1] \in edit /\ x[2] = s
      <4>1. s \in DOMAIN roster'[x[1]] /\ roster'[x[1]][s] # {}
        BY <3>1, <3>5, <1>3 DEF BonusHasDay
      <4>2. roster'[x[1]][s] = RowDays(x[1], ended)
        BY <3>1, <3>3, <3>5, <4>1, <1>16
      <4>3. \A d \in RowDays(x[1], ended) : Covers(ended, d)
        BY <3>1, RowDaysFit
      <4> QED
        BY <3>5, <4>1, <4>2, <4>3, <1>1, <1>6
    <3>6. CASE x[1] \in edit /\ x[2] = r
      <4>1. r \in DOMAIN roster'[x[1]] /\ roster'[x[1]][r] # {}
        BY <3>1, <3>6, <1>3 DEF BonusHasDay
      <4>2. roster'[x[1]][r] = RowDays(x[1], begun)
        BY <3>1, <3>3, <3>6, <4>1, <1>16
      <4>3. \A d \in RowDays(x[1], begun) : Covers(begun, d)
        BY <3>1, RowDaysFit
      <4> QED
        BY <3>6, <4>1, <4>2, <4>3, <1>1, <1>6
    <3>7. CASE x[2] \notin {r, s}
      BY <3>1, <3>7, <1>6, <1>16
    <3> QED
      BY <3>4, <3>5, <3>6, <3>7
  <2> QED
    BY <2>1, <2>2, <1>3 DEF FactsInTenure, entries
<1>19. ASSUME NEW p \in Periods, NEW a \in Assignments, NEW d \in DaysOf[p],
              ~NoWriter({p}), Allowed(p, a, d)
       PROVE  Allowed(p, a, d)'
  <2>1. /\ a \in DOMAIN roster[p] /\ d \in roster[p][a] /\ a \in DOMAIN asg
        /\ asg[a].branch = BranchOf[p] /\ d \in Days /\ Covers(asg[a], d)
    BY <1>10, <1>19 DEF Allowed
  <2>2. p \notin ps
    BY <1>3, <1>19 DEF NoWriter
  <2>3. roster'[p] = roster[p]
    BY <2>2, <1>12, <1>16
  <2>4. a \in {r, s} => ~(lo < 2 * d /\ 2 * d - 2 < hi)
    BY <2>1, <2>2, <1>9, <1>13
  <2>5. a \in DOMAIN asg' /\ Covers(asg'[a], d)
    <3>1. CASE a = s
      BY <3>1, <2>1, <2>4, <1>1, <1>5, <1>6, <1>7, <1>8 DEF Covers
    <3>2. CASE a = r
      BY <3>2, <2>1, <2>4, <1>1, <1>5, <1>6, <1>7, <1>8 DEF Covers
    <3>3. CASE a \notin {r, s}
      BY <3>3, <2>1, <1>6
    <3> QED
      BY <3>1, <3>2, <3>3
  <2> QED
    BY <2>1, <2>3, <2>5, <1>1 DEF Allowed, Terminated
<1>20. PayrollInv' /\ EntryStep
  <2>1. Rosters(roster)'
    BY <1>15 DEF IsRecaptured, Rosters
  <2> QED
    BY <1>3, <1>17, <1>18, <1>19, <2>1, BoundaryPayroll DEF IInv
<1>21. HistoryStep
  <2>1. \A a \in DOMAIN asg \ {r, s} : BoundaryMoveLegal(a)
    BY <1>6 DEF BoundaryMoveLegal
  <2>2. \A a \in {s} : BoundaryMoveLegal(a)
    BY <1>1, <1>5, <1>6 DEF BoundaryMoveLegal
  <2>3. \A a \in {r} : BoundaryMoveLegal(a)
    BY <1>1, <1>5, <1>6 DEF BoundaryMoveLegal
  <2> QED
    BY <2>1, <2>2, <2>3, <1>6 DEF HistoryStep
<1>22. ASSUME NEW p \in Periods, NEW a \in Assignments, NEW d \in Gained(a, p)
       PROVE  /\ a \in {r, s} /\ p \in ps /\ BranchOf[p] = asg[a].branch
              /\ Covers(asg'[a], d)
  <2>1. /\ d \in DaysOf[p] /\ d \in Days /\ a \in DOMAIN asg' /\ asg'[a].branch = BranchOf[p]
        /\ Covers(asg'[a], d) /\ ~(a \in DOMAIN asg /\ Covers(asg[a], d))
    BY <1>10 DEF Gained
  <2>2. a \in {r, s} /\ BranchOf[p] = asg[a].branch /\ ~Covers(asg[a], d)
    BY <2>1, <1>5, <1>6
  <2>3. p \in ps
    <3> SUFFICES ASSUME p \notin ps PROVE FALSE
      OBVIOUS
    <3>1. ~(lo < 2 * d /\ 2 * d - 2 < hi)
      BY <2>1, <2>2, <1>9, <1>13
    <3>2. CASE a = s
      BY <3>1, <3>2, <2>1, <2>2, <1>1, <1>5, <1>6, <1>7, <1>8 DEF Covers
    <3>3. CASE a = r
      BY <3>1, <3>3, <2>1, <2>2, <1>1, <1>5, <1>6, <1>7, <1>8 DEF Covers
    <3> QED
      BY <3>2, <3>3, <2>2
  <2> QED
    BY <2>1, <2>2, <2>3
<1>23. SubmittedStep
  <2> SUFFICES ASSUME NEW p \in Periods, pstat[p] \in {"InReview", "Locked"}
               PROVE  roster'[p] = roster[p] /\ \A a \in DOMAIN asg : Gained(a, p) = {}
    BY DEF SubmittedStep
  <2>1. p \notin ps
    BY <1>11
  <2>2. DOMAIN asg \subseteq Assignments
    BY DEF IInv, TenureInv, TenureTypes
  <2> QED
    BY <2>1, <2>2, <1>12, <1>16, <1>22
<1>24. GainedStep
  <2> SUFFICES ASSUME NEW p \in Periods, NEW a \in Assignments,
                      pstat[p] \in EditableStatuses, active,
                      NEW d \in Gained(a, p), hire <= d
               PROVE  a \in DOMAIN roster'[p] /\ d \in roster'[p][a]
    BY DEF GainedStep
  <2>1. /\ a \in {r, s} /\ p \in edit /\ BranchOf[p] = asg[a].branch
        /\ Covers(asg'[a], d) /\ d \in DaysOf[p]
    BY <1>12, <1>22 DEF Gained
  <2>2. d \in RowDays(p, asg'[a]) /\ HasRow(p, a, asg'[a])
    BY <2>1, <1>1 DEF RowDays, HasRow, EligibleDays
  <2> QED
    BY <2>1, <2>2, <1>6, <1>16
<1> QED
  BY <1>20, <1>21, <1>23, <1>24 DEF StepFine

\* Terminated: every window keeps its days up to the termination, the days
\* after it are of periods that nobody holds, and what is deleted was never
\* referred to.
LEMMA TerminatePayroll ==
    ASSUME IInv, Terminate
    PROVE  PayrollInv' /\ StepFine
<1> DEFINE d == op.d
           gone == Disposed(d)
           bs == {asg[a].branch : a \in DOMAIN asg}
                     \cup {req[q].target : q \in {t \in DOMAIN req :
                              req[t].status \in Undecided \cup {"Scheduled"}}}
           ps == BoundaryPeriods(bs, Cutoff(d), Never)
<1>1. /\ d \in Days /\ ~Terminated
      /\ asg' = [a \in DOMAIN asg \ gone |-> CappedWindow(a, d)]
      /\ roster' = [p \in Periods |-> [a \in DOMAIN roster[p] \ gone |-> roster[p][a]]]
      /\ termDate' = d
      /\ UNCHANGED <<now, hire, active, pstat, entries, writer>>
  BY TerminateEffect DEF IInv
<1>2. NoWriter(ps) /\ \A q \in gone : Disposable(q)
  BY DEF Terminate
<1>3. Terminated'
  BY TerminateTenure DEF IInv
<1>4. \A q \in gone : asg[q].from = req[q].at /\ req[q].at >= 2 * d /\ asg[q].from > now
  <2>1. ASSUME NEW q \in gone
        PROVE  asg[q].from = req[q].at /\ req[q].at >= 2 * d /\ asg[q].from > now
    BY <1>1, DisposedAhead DEF IInv, Ahead
  <2> QED
    BY <2>1
<1>5. \A a \in DOMAIN asg : asg[a].branch \in bs
  OBVIOUS
<1>6. /\ Rosters(roster)
      /\ \A p \in Periods : /\ \A a \in DOMAIN roster[p] : a \in DOMAIN asg
                                                          /\ asg[a].branch = BranchOf[p]
                            /\ DaysOf[p] \subseteq Days
  BY TenureAssumption DEF IInv, PayrollInv, PayrollTypes, RostersFit, Rosters
<1>7. /\ d \in Nat \ {0} /\ termDate = 0
      /\ \A e \in Days : e \in Nat \ {0} /\ 2 * e < Never
  BY <1>1, Numbers DEF IInv, TenureInv, Terminated
<1>8. ASSUME NEW p \in Periods, BranchOf[p] \in bs, p \notin ps, NEW e \in DaysOf[p]
      PROVE  e <= d
  <2>1. ~(2 * d < 2 * e /\ 2 * e - 2 < Never)
    BY <1>8, OutsideBoundary DEF Cutoff
  <2> QED
    BY <2>1, <1>6, <1>7, Numbers DEF IInv, TenureInv
<1> HIDE DEF gone, bs, ps
<1>9. \A a \in DOMAIN asg :
         LET w == CappedWindow(a, d)
         IN  /\ w.branch = asg[a].branch /\ w.from = asg[a].from
             /\ w.to <= asg[a].to /\ w.to \in Nat
             /\ w = asg[a] \/ w.end = "Terminated"
             /\ \A e \in Days : e <= d /\ Covers(asg[a], e) => Covers(w, e)
  <2>1. ASSUME NEW a \in DOMAIN asg
        PROVE  LET w == CappedWindow(a, d)
               IN  /\ w \in Windows /\ w.branch = asg[a].branch /\ w.from = asg[a].from
                   /\ w.to <= asg[a].to
                   /\ w = asg[a] \/ w.end = "Terminated"
                   /\ \A e \in Days : e <= d /\ Covers(asg[a], e) => Covers(w, e)
    BY <1>1, CappedFits DEF IInv
  <2>2. \A w \in Windows : w.to \in Nat
    BY TenureAssumption DEF Windows, Instants, Never
  <2> QED
    BY <2>1, <2>2
<1> HIDE DEF d
<1>10. /\ DOMAIN asg' = DOMAIN asg \ gone
       /\ \A a \in DOMAIN asg \ gone :
             /\ asg'[a].branch = asg[a].branch /\ asg'[a].from = asg[a].from
             /\ asg'[a].to <= asg[a].to /\ asg'[a].to \in Nat
             /\ asg'[a] = asg[a] \/ asg'[a].end = "Terminated"
             /\ \A e \in Days : e <= d /\ Covers(asg[a], e) => Covers(asg'[a], e)
  BY <1>1, <1>9
<1>11. \A p \in Periods : /\ DOMAIN roster'[p] = DOMAIN roster[p] \ gone
                          /\ \A a \in DOMAIN roster'[p] : roster'[p][a] = roster[p][a]
  BY <1>1
<1>12. Rosters(roster)'
  <2>1. \A p \in Periods : roster'[p] \in [DOMAIN roster'[p] -> SUBSET DaysOf[p]]
    BY <1>1, <1>6 DEF Rosters
  <2> QED
    BY <1>1, <2>1 DEF Rosters
<1>13. RostersFit'
  BY <1>6, <1>10, <1>11 DEF RostersFit
<1>14. FactsInTenure'
  <2>1. ASSUME NEW x \in source, x[3] <= d
        PROVE  x[2] \in DOMAIN asg' /\ Covers(asg'[x[2]], x[3])
    <3>1. /\ x[2] \in DOMAIN asg /\ Covers(asg[x[2]], x[3]) /\ x[3] \in Days
          /\ x[2] \in touched
      BY <1>1 DEF IInv, PayrollInv, FactsInTenure, PayrollTypes, EntriesKnown
    <3>2. x[2] \notin gone
      BY <3>1, <1>2 DEF Disposable
    <3> QED
      BY <2>1, <3>1, <3>2, <1>10
  <2> QED
    BY <2>1, <1>1, <1>3 DEF FactsInTenure, entries
<1>15. ASSUME NEW p \in Periods, NEW a \in Assignments, NEW e \in DaysOf[p],
              ~NoWriter({p}), Allowed(p, a, e)
       PROVE  Allowed(p, a, e)'
  <2>1. /\ a \in DOMAIN roster[p] /\ e \in roster[p][a] /\ a \in DOMAIN asg
        /\ asg[a].branch = BranchOf[p] /\ e \in Days /\ Covers(asg[a], e)
    BY <1>6, <1>15 DEF Allowed
  <2>2. e <= d
    BY <2>1, <1>2, <1>5, <1>8, <1>15 DEF NoWriter
  <2>3. a \notin gone
    <3>1. a \in gone => asg[a].from >= 2 * d /\ asg[a].from < 2 * e
      BY <2>1, <1>4 DEF Covers
    <3>2. asg[a].from \in Nat
      BY <2>1, Numbers DEF IInv, TenureInv
    <3> QED
      BY <2>1, <2>2, <3>1, <3>2, <1>7
  <2> QED
    BY <2>1, <2>2, <2>3, <1>1, <1>10, <1>11 DEF Allowed
<1>16. PayrollInv' /\ EntryStep
  BY <1>1, <1>12, <1>13, <1>14, <1>15, BoundaryPayroll DEF IInv
<1>17. HistoryStep
  <2>1. \A a \in DOMAIN asg \ DOMAIN asg' : asg[a].from > now
    BY <1>4, <1>10
  <2>2. ASSUME NEW a \in DOMAIN asg \ gone PROVE BoundaryMoveLegal(a)
    <3>1. /\ asg[a].end \in {"none", "Transferred"}
          /\ asg[a].end = "none" => asg[a].to = Never
      BY <1>1, Numbers DEF IInv, TenureInv, WindowFits
    <3>2. termDate' # termDate
      BY <1>1, <1>7
    <3> QED
      BY <3>1, <3>2, <1>10 DEF BoundaryMoveLegal
  <2> QED
    BY <2>1, <2>2, <1>10 DEF HistoryStep
<1>18. \A a \in Assignments, p \in Periods : Gained(a, p) = {}
  <2> SUFFICES ASSUME NEW a \in Assignments, NEW p \in Periods, NEW e \in Gained(a, p)
               PROVE  FALSE
    OBVIOUS
  <2>1. /\ e \in DaysOf[p] /\ e \in Days /\ a \in DOMAIN asg'
        /\ Covers(asg'[a], e) /\ ~(a \in DOMAIN asg /\ Covers(asg[a], e))
    BY <1>6 DEF Gained
  <2>2. a \in DOMAIN asg \ gone /\ asg[a].from \in Nat /\ asg[a].to \in Nat
    BY <2>1, <1>10, Numbers DEF IInv, TenureInv
  <2> QED
    BY <2>1, <2>2, <1>7, <1>10 DEF Covers
<1>19. SubmittedStep
  <2> SUFFICES ASSUME NEW p \in Periods, pstat[p] \in {"InReview", "Locked"}
               PROVE  roster'[p] = roster[p] /\ \A a \in DOMAIN asg : Gained(a, p) = {}
    BY DEF SubmittedStep
  <2>1. \A q \in gone : q \notin DOMAIN roster[p]
    BY <1>2 DEF Disposable, EditableStatuses
  <2>2. roster[p] \in [DOMAIN roster[p] -> SUBSET DaysOf[p]]
    BY <1>6 DEF Rosters
  <2>3. roster'[p] = roster[p]
    BY <2>1, <2>2, <1>1
  <2>4. DOMAIN asg \subseteq Assignments
    BY DEF IInv, TenureInv, TenureTypes
  <2> QED
    BY <2>3, <2>4, <1>18
<1>20. GainedStep
  BY <1>18 DEF GainedStep
<1> QED
  BY <1>16, <1>17, <1>19, <1>20 DEF StepFine

-----------------------------------------------------------------------------
(* Every step                                                              *)

LEMMA InitIInv == Init => IInv
<1> SUFFICES ASSUME Init PROVE IInv
  OBVIOUS
<1>1. DOMAIN asg = {} /\ DOMAIN req = {} /\ \A p \in Periods : roster[p] = <<>>
  <2>1. DOMAIN <<>> = {}
    OBVIOUS
  <2> QED
    BY <2>1 DEF Init
<1>2. TenureTypes
  <2>1. asg \in [DOMAIN asg -> Windows] /\ req \in [DOMAIN req -> Transfers]
    BY <1>1 DEF Init
  <2> QED
    BY <1>1, <2>1, TenureAssumption DEF Init, TenureTypes, Instants, Days
<1>3. TenureInv
  BY <1>1, <1>2 DEF Init, TenureInv, DestinationsFit, SourcesStarted, OneInProgress,
                    OperationFits, OneTenureAtATime, Terminated
<1>4. \A p \in Periods : DOMAIN roster[p] = {}
  <2>1. DOMAIN <<>> = {}
    OBVIOUS
  <2> QED
    BY <1>1, <2>1
<1>5. PayrollTypes
  <2>1. ASSUME NEW p \in Periods
        PROVE  roster[p] \in [DOMAIN roster[p] -> SUBSET DaysOf[p]]
    <3>1. <<>> \in [{} -> SUBSET DaysOf[p]]
      OBVIOUS
    <3> QED
      BY <3>1, <1>1, <1>4
  <2> QED
    BY <2>1, TenureAssumption DEF Init, PayrollTypes, PeriodStatuses, EditableStatuses
<1>6. PayrollInv
  BY <1>4, <1>5 DEF Init, PayrollInv, RostersFit, EntriesKnown, WriterFits, FactsInTenure
<1> QED
  BY <1>3, <1>6 DEF IInv

\* A request that waits for a decision gets one, or another date.
LEMMA DecidedTenure ==
    ASSUME TenureInv, op = Idle, UNCHANGED <<now, people, asg, op>>,
           NEW r \in DOMAIN req, req[r].status \in Undecided, NEW new \in Transfers,
           new.source = req[r].source, new.status \in Undecided \cup {"Cancelled", "Rejected"},
           req' = [req EXCEPT ![r] = new]
    PROVE  TenureInv'
<1>1. r \in Requests /\ r \notin DOMAIN asg
  <2>1. r \in Requests /\ r # 0
    BY DEF TenureInv, TenureTypes, Requests
  <2> QED
    BY <2>1 DEF TenureInv, DestinationsFit, Undecided
<1>2. new.source \in DOMAIN asg /\ asg[new.source].from <= now
  BY DEF TenureInv, SourcesStarted
<1>3. \A q \in DOMAIN req \ {r} : ~InProgress(q)
  <2>1. InProgress(r)
    BY DEF InProgress, EffectiveStatus, Undecided, Finished
  <2> QED
    BY <2>1 DEF TenureInv, OneInProgress
<1>4. req' = With(req, r, new)
  BY DEF With, TenureInv, TenureTypes
<1> QED
  BY <1>1, <1>2, <1>3, <1>4, RequestTenure

LEMMA CreateTransferTenure ==
    ASSUME TenureInv, NEW r \in Requests, NEW b \in Branches,
           NEW at \in Instants \cup {Never},
           NEW t \in {"PendingSourceApproval", "PendingTargetApproval"},
           CreateTransfer(r, b, at, t)
    PROVE  TenureInv'
<1>1. /\ op = Idle /\ DOMAIN req = 1 .. r - 1 /\ NoActiveTransfer
      /\ UNCHANGED <<now, people, asg, op>>
  BY DEF CreateTransfer
<1>2. PICK a \in Current :
         req' = With(req, r, [status |-> t, source |-> a, target |-> b, at |-> at])
  BY DEF CreateTransfer
<1> DEFINE new == [status |-> t, source |-> a, target |-> b, at |-> at]
<1>3. a \in DOMAIN asg /\ asg[a].from <= now /\ a \in Assignments
  BY DEF Current, IsCurrent, TenureInv, TenureTypes
<1>4. new \in Transfers /\ new.status \in Undecided
  BY <1>3 DEF Transfers, Undecided
<1>5. r \notin DOMAIN asg
  <2>1. r \in Nat \ {0} /\ r \notin DOMAIN req
    BY <1>1, TenureAssumption DEF Requests
  <2> QED
    BY <2>1 DEF TenureInv, DestinationsFit
<1>6. \A q \in DOMAIN req \ {r} : ~InProgress(q)
  BY <1>1 DEF NoActiveTransfer, InProgress
<1>7. new.source = a /\ req' = With(req, r, new)
  BY <1>2
<1> HIDE DEF new
<1> QED
  BY <1>1, <1>3, <1>4, <1>5, <1>6, <1>7, RequestTenure

\* Time passes and payroll works: no tenure is touched.
LEMMA PayrollTenure ==
    ASSUME TenureInv, UNCHANGED <<now, people, tenure, op>>
    PROVE  TenureInv'
<1>1. UNCHANGED <<now, hire, termDate, active, asg, req, op>>
  BY DEF people, tenure
<1>2. now \in Nat /\ now' \in Instants /\ hire' \in Days /\ active' \in BOOLEAN
  BY <1>1, Numbers DEF TenureInv, TenureTypes
<1>3. now' >= now
  BY <1>1, <1>2
<1> QED
  BY <1>1, <1>2, <1>3, QuietTenure

LEMMA TickIInv ==
    ASSUME IInv, Tick
    PROVE  IInv' /\ StepFine
<1>1. /\ now' = now + 1 /\ now < 2 * LastDay - 1
      /\ UNCHANGED <<hire, termDate, active, asg, req, pstat, roster, entries, writer, op>>
  BY DEF Tick, people, tenure
<1>2. now' \in Instants /\ now' >= now /\ hire' \in Days /\ active' \in BOOLEAN
  BY <1>1, TenureAssumption DEF IInv, TenureInv, TenureTypes, Instants
<1>3. TenureInv'
  BY <1>1, <1>2, QuietTenure DEF IInv
<1> QED
  BY <1>1, <1>3, QuietPayroll DEF IInv

LEMMA PayrollNextIInv ==
    ASSUME IInv, PayrollNext
    PROVE  IInv' /\ StepFine
<1>1. UNCHANGED <<now, people, tenure, op>>
  BY DEF PayrollNext, Promote, MovePeriod, Authorize, Save, AbandonSave
<1>2. TenureInv'
  BY <1>1, PayrollTenure DEF IInv
<1>3. PayrollInv' /\ StepFine
  <2>1. ASSUME NEW p \in Periods, Promote(p) PROVE PayrollInv' /\ StepFine
    BY <2>1, PromotePayroll DEF IInv
  <2>2. ASSUME NEW p \in Periods, MovePeriod(p) PROVE PayrollInv' /\ StepFine
    BY <2>2, MovePayroll DEF IInv
  <2>3. ASSUME NEW w \in Mutations, Authorize(w) PROVE PayrollInv' /\ StepFine
    BY <2>3, AuthorizePayroll DEF IInv
  <2>4. CASE Save
    BY <2>4, SavePayroll DEF IInv
  <2>5. CASE AbandonSave
    BY <2>5, AbandonPayroll DEF IInv
  <2> QED
    BY <2>1, <2>2, <2>3, <2>4, <2>5 DEF PayrollNext
<1> QED
  BY <1>2, <1>3 DEF IInv

\* What a request of the transfer service does to the requests.
LEMMA RequestNextTenure ==
    ASSUME TenureInv, RequestNext
    PROVE  TenureInv'
<1>1. PICK r \in Requests :
        \/ \E b \in Branches, at \in Instants \cup {Never},
              t \in {"PendingSourceApproval", "PendingTargetApproval"} :
              CreateTransfer(r, b, at, t)
        \/ /\ r \in DOMAIN req
           /\ \/ ApproveSource(r)
              \/ \E v \in {"Approved", "Rejected", "Returned"} : DecideTarget(r, v)
              \/ CancelUnscheduled(r)
              \/ \E at \in Instants : RescheduleUnscheduled(r, at) \/ BeginReschedule(r, at)
              \/ BeginComplete(r)
              \/ BeginCancel(r)
  BY DEF RequestNext
<1>2. ASSUME NEW b \in Branches, NEW at \in Instants \cup {Never},
             NEW t \in {"PendingSourceApproval", "PendingTargetApproval"},
             CreateTransfer(r, b, at, t)
      PROVE  TenureInv'
  BY <1>2, CreateTransferTenure
<1>3. CASE r \in DOMAIN req /\ \/ ApproveSource(r)
                               \/ \E v \in {"Approved", "Rejected", "Returned"} :
                                     DecideTarget(r, v)
                               \/ CancelUnscheduled(r)
  <2>1. PICK v \in {"PendingTargetApproval", "Approved", "Rejected", "Returned", "Cancelled"} :
           /\ op = Idle /\ req[r].status \in Undecided
           /\ req' = [req EXCEPT ![r].status = v]
           /\ UNCHANGED <<now, people, asg, op>>
    BY <1>3 DEF ApproveSource, DecideTarget, CancelUnscheduled, SetStatus, Undecided
  <2> DEFINE new == [req[r] EXCEPT !.status = v]
  <2>2. req[r] \in Transfers
    BY <1>3 DEF TenureInv, TenureTypes
  <2>3. /\ new \in Transfers /\ new.source = req[r].source
        /\ new.status \in Undecided \cup {"Cancelled", "Rejected"}
    BY <2>2 DEF Transfers, Undecided, Finished
  <2>4. req' = [req EXCEPT ![r] = new]
    BY <2>1
  <2> HIDE DEF new
  <2> QED
    BY <1>3, <2>1, <2>3, <2>4, DecidedTenure
<1>4. ASSUME r \in DOMAIN req, NEW at \in Instants, RescheduleUnscheduled(r, at)
      PROVE  TenureInv'
  <2>1. /\ op = Idle /\ req[r].status \in Undecided
        /\ req' = [req EXCEPT ![r].at = at]
        /\ UNCHANGED <<now, people, asg, op>>
    BY <1>4 DEF RescheduleUnscheduled
  <2> DEFINE new == [req[r] EXCEPT !.at = at]
  <2>2. req[r] \in Transfers
    BY <1>4 DEF TenureInv, TenureTypes
  <2>3. /\ new \in Transfers /\ new.source = req[r].source /\ new.status = req[r].status
    BY <2>2 DEF Transfers
  <2>4. req' = [req EXCEPT ![r] = new]
    BY <2>1
  <2> HIDE DEF new
  <2> QED
    BY <1>4, <2>1, <2>3, <2>4, DecidedTenure
<1>5. CASE r \in DOMAIN req /\ \/ \E at \in Instants : BeginReschedule(r, at)
                               \/ BeginComplete(r) \/ BeginCancel(r)
  <2>1. UNCHANGED <<now, people, tenure>>
    BY <1>5 DEF BeginReschedule, BeginComplete, BeginCancel, BeginOperation
  <2>2. UNCHANGED <<now, termDate, asg, req>>
    BY <2>1 DEF people, tenure
  <2>3. DOMAIN asg # {}
    BY <1>5 DEF TenureInv, SourcesStarted
  <2>4. now \in Instants /\ now \in Nat
    BY Numbers DEF TenureInv, TenureTypes
  <2>5. op' \in Operations \cup {Idle} /\ OperationFits'
    <3>1. CASE \E at \in Instants : BeginReschedule(r, at)
      <4>1. PICK at \in Instants : BeginReschedule(r, at)
        BY <3>1
      <4>2. /\ op' = [kind |-> "reschedule", r |-> r, at |-> at]
            /\ req[r].status = "Scheduled" /\ ~Terminated
        BY <4>1 DEF BeginReschedule, BeginOperation
      <4> QED
        BY <1>5, <2>2, <4>2 DEF Operations, Reschedules, OperationFits, Terminated
    <3>2. CASE BeginComplete(r)
      <4>1. /\ op' = [kind |-> "complete", r |-> r, start |-> now]
            /\ req[r].status = "Approved"
        BY <3>2 DEF BeginComplete, BeginOperation
      <4> QED
        BY <1>5, <2>2, <2>4, <4>1 DEF Operations, Completions, OperationFits
    <3>3. CASE BeginCancel(r)
      <4>1. /\ op' = [kind |-> "cancel", r |-> r]
            /\ req[r].status = "Scheduled" /\ ~Terminated
        BY <3>3 DEF BeginCancel, BeginOperation
      <4> QED
        BY <1>5, <2>2, <4>1 DEF Operations, RequestOps, OperationFits, Terminated
    <3> QED
      BY <1>5, <3>1, <3>2, <3>3
  <2> QED
    BY <2>1, <2>3, <2>5, BeginTenure
<1> QED
  BY <1>1, <1>2, <1>3, <1>4, <1>5

\* A request never touches rosters or entries.
LEMMA RequestNextIInv ==
    ASSUME IInv, RequestNext
    PROVE  IInv' /\ StepFine
<1>1. UNCHANGED <<people, asg, pstat, roster, entries, writer>>
  BY DEF RequestNext, CreateTransfer, ApproveSource, DecideTarget, CancelUnscheduled,
         RescheduleUnscheduled, BeginReschedule, BeginComplete, BeginCancel, BeginOperation,
         tenure
<1>2. UNCHANGED <<asg, termDate, pstat, roster, entries, writer>>
  BY <1>1 DEF people
<1> QED
  BY <1>2, RequestNextTenure, QuietPayroll DEF IInv

LEMMA WorkforceNextIInv ==
    ASSUME IInv, WorkforceNext
    PROVE  IInv' /\ StepFine
<1>1. ASSUME NEW from \in {now, now + 1} \cap Instants, CreateDriver(FirstBranch, from)
      PROVE  IInv' /\ StepFine
  <2>1. from \in Instants /\ from >= now
    BY Numbers DEF IInv, TenureInv
  <2> QED
    BY <1>1, <2>1, CreateDriverTenure, CreateDriverPayroll DEF IInv
<1>2. ASSUME UNCHANGED <<now, termDate, tenure, pstat, roster, entries, writer, op>>,
             hire' \in Days, active' \in BOOLEAN
      PROVE  IInv' /\ StepFine
  <2>1. UNCHANGED <<now, termDate, asg, req, pstat, roster, entries, writer, op>>
    BY <1>2 DEF tenure
  <2>2. now' \in Instants /\ now' >= now
    BY <2>1, Numbers DEF IInv, TenureInv, TenureTypes
  <2>3. TenureInv'
    BY <1>2, <2>1, <2>2, QuietTenure DEF IInv
  <2> QED
    BY <2>1, <2>3, QuietPayroll DEF IInv
<1>3. CASE UpdateDriver
  <2>1. /\ UNCHANGED <<now, hire, termDate, tenure, pstat, roster, entries, writer, op>>
        /\ active' = ~active
    BY <1>3 DEF UpdateDriver
  <2>2. hire' \in Days /\ active' \in BOOLEAN
    BY <2>1 DEF IInv, TenureInv, TenureTypes
  <2> QED
    BY <2>1, <2>2, <1>2
<1>4. ASSUME NEW d \in Days, UpdateHireDate(d)
      PROVE  IInv' /\ StepFine
  <2>1. /\ UNCHANGED <<now, termDate, active, tenure, pstat, roster, entries, writer, op>>
        /\ hire' = d
    BY <1>4 DEF UpdateHireDate
  <2>2. hire' \in Days /\ active' \in BOOLEAN
    BY <2>1 DEF IInv, TenureInv, TenureTypes
  <2> QED
    BY <2>1, <2>2, <1>2
<1>5. ASSUME op' \in Operations \cup {Idle}, OperationFits', op' # Idle => DOMAIN asg # {},
             UNCHANGED <<now, people, tenure, pstat, roster, entries, writer>>
      PROVE  IInv' /\ StepFine
  <2>1. TenureInv'
    BY <1>5, BeginTenure DEF IInv
  <2>2. UNCHANGED <<asg, termDate, pstat, roster, entries, writer>>
    BY <1>5 DEF people, tenure
  <2> QED
    BY <2>1, <2>2, QuietPayroll DEF IInv
<1>6. ASSUME NEW d \in Days, BeginTerminate(d)
      PROVE  IInv' /\ StepFine
  <2>1. /\ op' = [kind |-> "terminate", d |-> d] /\ ~Terminated /\ DOMAIN asg # {}
        /\ UNCHANGED <<now, people, tenure, pstat, roster, entries, writer>>
    BY <1>6 DEF BeginTerminate, BeginOperation
  <2>2. op' \in Operations \cup {Idle} /\ OperationFits'
    BY <2>1 DEF Operations, Terminations, OperationFits, Terminated, people
  <2> QED
    BY <2>1, <2>2, <1>5
<1>7. CASE AbandonOperation
  <2>1. /\ op' = Idle
        /\ UNCHANGED <<now, people, tenure, pstat, roster, entries, writer>>
    BY <1>7 DEF AbandonOperation
  <2>2. OperationFits'
    BY <2>1 DEF OperationFits
  <2> QED
    BY <2>1, <2>2, <1>5
<1>8. CASE Complete
  BY <1>8, CompleteTenure, CompletePayroll DEF IInv
<1>9. CASE Cancel
  BY <1>9, CancelTenure, CancelPayroll DEF IInv
<1>10. CASE Reschedule
  BY <1>10, RescheduleTenure, ReschedulePayroll DEF IInv
<1>11. CASE Terminate
  BY <1>11, TerminateTenure, TerminatePayroll DEF IInv
<1> QED
  BY <1>1, <1>3, <1>4, <1>6, <1>7, <1>8, <1>9, <1>10, <1>11 DEF WorkforceNext

LEMMA NextIInv == IInv /\ [Next]_vars => IInv'
<1> SUFFICES ASSUME IInv, [Next]_vars PROVE IInv'
  OBVIOUS
<1>1. CASE Next
  BY <1>1, TickIInv, PayrollNextIInv, RequestNextIInv, WorkforceNextIInv DEF Next
<1>2. CASE UNCHANGED vars
  <2>1. UNCHANGED <<now, people, tenure, op, pstat, roster, entries, writer>>
    BY <1>2 DEF vars
  <2>2. UNCHANGED <<asg, termDate>>
    BY <2>1 DEF people, tenure
  <2> QED
    BY <2>1, <2>2, PayrollTenure, QuietPayroll DEF IInv
<1> QED
  BY <1>1, <1>2

LEMMA StepsAreFine == IInv /\ [Next]_vars => StepFine \/ UNCHANGED vars
  BY TickIInv, PayrollNextIInv, RequestNextIInv, WorkforceNextIInv DEF Next

\* The inductive invariant holds in every reachable state.
THEOREM Invariance == Spec => []IInv
  BY InitIInv, NextIInv, PTL DEF Spec

-----------------------------------------------------------------------------
(* What a reader should know                                               *)

\* A driver belongs to one branch at a time, whatever transfers are completed,
\* rescheduled, cancelled and cut short by a termination (transfer/service.py,
\* transfer/disposal.py, workforce/service.py).
THEOREM TenuresStayApart == Spec => []OneTenureAtATime
<1>1. IInv => OneTenureAtATime
  BY DEF IInv, TenureInv
<1> QED
  BY <1>1, Invariance, PTL

\* No operation on a boundary leaves an entry or a bonus with an assignment
\* that does not cover it (assert_assignment_payroll_covered,
\* recapture_assignment_eligibility, the period locks of lock_boundary_periods).
THEOREM FactsStayInTenure == Spec => []FactsInTenure
<1>1. IInv => FactsInTenure
  BY DEF IInv, PayrollInv
<1> QED
  BY <1>1, Invariance, PTL

\* The handlers never ask the database for a boundary that
\* trg_DriverAssignments_HistoryImmutable refuses to move: the decision
\* instant, read after the locks, is what makes their own checks enough.
THEOREM BoundariesRespectHistory == Spec => HistoryRespected
<1>1. IInv /\ [Next]_vars =>
        [/\ \A a \in DOMAIN asg \ DOMAIN asg' : asg[a].from > now
         /\ \A a \in DOMAIN asg \cap DOMAIN asg' : BoundaryMoveLegal(a)]_asg
  <2>1. UNCHANGED vars => asg' = asg
    BY DEF vars, tenure
  <2> QED
    BY <2>1, StepsAreFine DEF StepFine, HistoryStep
<1> QED
  BY <1>1, Invariance, PTL DEF Spec, HistoryRespected

\* A submitted or paid period keeps its roster, and no existing assignment
\* gains a day in it (lock_boundary_periods in strict mode, Disposable).
THEOREM SubmittedRostersAreKept == Spec => SubmittedRosterKept
<1>1. IInv /\ [Next]_vars =>
        [\A p \in Periods : pstat[p] \in {"InReview", "Locked"} =>
            roster'[p] = roster[p] /\ \A a \in DOMAIN asg : Gained(a, p) = {}]_<<asg, roster>>
  <2>1. UNCHANGED vars => UNCHANGED <<asg, roster>>
    BY DEF vars, tenure
  <2> QED
    BY <2>1, StepsAreFine DEF StepFine, SubmittedStep
<1> QED
  BY <1>1, Invariance, PTL DEF Spec, SubmittedRosterKept

\* A day that a tenure gains is on the roster of its editable period at once
\* (append_driver_assignment_to_editable_periods,
\* recapture_assignment_eligibility).
THEOREM GainedDaysAreOnRosters == Spec => GainedDaysOnRoster
<1>1. IInv /\ [Next]_vars =>
        [\A p \in Periods, a \in Assignments :
            pstat[p] \in EditableStatuses /\ active =>
                \A d \in Gained(a, p) : hire <= d =>
                    a \in DOMAIN roster'[p] /\ d \in roster'[p][a]]_asg
  <2>1. UNCHANGED vars => asg' = asg
    BY DEF vars, tenure
  <2> QED
    BY <2>1, StepsAreFine DEF StepFine, GainedStep
<1> QED
  BY <1>1, Invariance, PTL DEF Spec, GainedDaysOnRoster

\* What a mutation was authorized for is still allowed when it is written:
\* its period row is held, and a boundary moves only past periods that nobody
\* holds (_assert_driver_eligible_for_workdate_via_snapshot, lock_boundary_periods).
THEOREM EntriesStayWithinTenure == Spec => EntryWithinTenure
<1>1. IInv /\ [Next]_vars =>
        [\A x \in source' \ source :
            /\ x[2] \in DOMAIN roster[x[1]] /\ x[3] \in roster[x[1]][x[2]]
            /\ x[2] \in DOMAIN asg /\ Covers(asg[x[2]], x[3])
            /\ Terminated => x[3] <= termDate]_source
  <2>1. UNCHANGED vars => source' = source
    BY DEF vars, entries
  <2> QED
    BY <2>1, StepsAreFine DEF StepFine, EntryStep
<1> QED
  BY <1>1, Invariance, PTL DEF Spec, EntryWithinTenure
===============================================================================
