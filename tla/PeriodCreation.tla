--------------------------- MODULE PeriodCreation ---------------------------
(***************************************************************************)
(* Creating a period in two requests (payroll/period_creation.py): a       *)
(* preview hands out a signed candidate key that says which period would   *)
(* be created in which state of the branch, and a creation presents a key. *)
(* Between the two anything of PayrollWorkflow may happen, and the payroll *)
(* setup timeline of the branch may change.                                *)
(*                                                                         *)
(* The key is the HMAC of its payload, so a key is its payload: the same   *)
(* state of the branch gives the same key.  The preview takes no lock and  *)
(* reads the slots and the calendar in statements of their own; a creation *)
(* runs under the branch lock and is one step here (WorkflowTransactions   *)
(* shows what may come between its checks and its insert).                 *)
(***************************************************************************)
EXTENDS PayrollWorkflow

CONSTANTS
    Clients,        \* who previews and creates, holding one key at a time
    MaxTimeline     \* bound: changes of the payroll setup timeline

ASSUME CreationAssumption == MaxTimeline \in Nat

VARIABLES
    timeline,   \* revision of the published versions and assignments
    reading,    \* the preview a client is served, after its first read
    held,       \* the candidate key a client was offered last
    keyOf,      \* CreationCandidateKeyHash of every period
    answer      \* the last creation request and how it was answered

keyVars == <<timeline, reading, held, keyOf, answer>>
creationVars == <<vars, keyVars>>

Modes == {"OPEN_CREATION", "PREPARED_CREATION"}
NoReading == [mode |-> "none"]
NoKey     == [mode |-> "none"]

CreationInit ==
    /\ Init
    /\ timeline = 0
    /\ reading  = [c \in Clients |-> NoReading]
    /\ held     = [c \in Clients |-> NoKey]
    /\ keyOf    = [p \in Periods |-> NoKey]
    /\ answer   = [key |-> NoKey, result |-> "none"]

\* The slot fingerprint: every period that is not cancelled, with its status.
SlotFingerprint == {<<q, status[q]>> : q \in {r \in Periods : status[r] \notin Inactive}}

\* The day after the last period that is not cancelled.
NextStart == CHOOSE n \in 1 .. MaxPosition + 1 : IsNextPosition(n)

\* A client that previews again gives up the key it holds.
PreviewSlots(c, mode) ==
    /\ reading[c] = NoReading
    /\ reading' = [reading EXCEPT ![c] = [mode |-> mode, slots |-> SlotFingerprint]]
    /\ held' = [held EXCEPT ![c] = NoKey]
    /\ UNCHANGED <<vars, timeline, keyOf, answer>>

\* Also a candidate that cannot be created now is offered, marked as such.
PreviewCandidate(c) ==
    /\ reading[c] # NoReading
    /\ NextStart <= MaxPosition
    /\ held' = [held EXCEPT ![c] = [mode |-> reading[c].mode, slots |-> reading[c].slots,
                                    start |-> NextStart, timeline |-> timeline]]
    /\ reading' = [reading EXCEPT ![c] = NoReading]
    /\ UNCHANGED <<vars, timeline, keyOf, answer>>

\* Publishing a setup version, assigning the branch or withdrawing either.
ChangeTimeline ==
    /\ timeline < MaxTimeline
    /\ timeline' = timeline + 1
    /\ UNCHANGED <<vars, reading, held, keyOf, answer>>

UsedBy(k) == {p \in Periods : keyOf[p] = k}

\* Mutant: the branch state is not compared again.
CurrentSetup(k) == k.timeline = timeline
\* The key says what a preview would say now.
Current(k) ==
    /\ k.slots = SlotFingerprint
    /\ k.start = NextStart
    /\ k.timeline = timeline

\* Mutant: the candidate is compared before the replay is recognized.
ResultStaleFirst(k) ==
    IF ~Current(k) THEN "CANDIDATE_STALE"
    ELSE IF UsedBy(k) # {} THEN "ALREADY_EXISTS"
    ELSE IF ~SlotFree(k.mode) THEN "SLOT_CONFLICT"
    ELSE "CREATED"
\* How a creation with key k is answered; the order of the checks matters.
Result(k) ==
    IF UsedBy(k) # {}
    THEN IF \E p \in UsedBy(k) : status[p] = "Cancelled"
         THEN "CANDIDATE_ALREADY_CANCELLED" ELSE "ALREADY_EXISTS"
    ELSE IF ~Current(k) THEN "CANDIDATE_STALE"
    ELSE IF ~SlotFree(k.mode) THEN "SLOT_CONFLICT"
    ELSE "CREATED"

CreateWithKey(k) ==
    /\ Result(k) = "CREATED"
    /\ \E p \in Periods :
          /\ InsertPeriod(p, k.mode, k.start)
          /\ keyOf' = [keyOf EXCEPT ![p] = k]
    /\ answer' = [key |-> k, result |-> "CREATED"]
    /\ UNCHANGED <<timeline, reading, held>>

AnswerOnly(k) ==
    /\ Result(k) # "CREATED"
    /\ answer' = [key |-> k, result |-> Result(k)]
    /\ UNCHANGED <<vars, timeline, reading, held, keyOf>>

CreationNext ==
    \/ \E c \in Clients :
          \/ \E mode \in Modes : PreviewSlots(c, mode)
          \/ PreviewCandidate(c)
          \/ held[c] # NoKey /\ (CreateWithKey(held[c]) \/ AnswerOnly(held[c]))
    \/ ChangeTimeline
    \/ Operate /\ UNCHANGED keyVars

CreationSpec == CreationInit /\ [][CreationNext]_creationVars

-----------------------------------------------------------------------------
(* Properties                                                              *)

\* A repeated creation is answered as a repetition: a client that lost the
\* first answer never learns that its candidate is stale, only what became
\* of the period it created.
RetryIsRecognized ==
    [][answer' # answer /\ UsedBy(answer'.key) # {} =>
          /\ answer'.result \in {"ALREADY_EXISTS", "CANDIDATE_ALREADY_CANCELLED"}
          /\ UNCHANGED <<status, keyOf>>]_creationVars

\* Keys guard creation so that the branch behaves as PayrollWorkflow says.
WorkflowImplemented == Spec

\* A candidate that a preview would offer as creatable now was not used up
\* by a period that was cancelled since (the refusal of such a key says
\* "Generate a fresh candidate").
FreshCandidateWorks ==
    \A mode \in Modes :
        SlotFree(mode) =>
            ~\E p \in Periods :
                /\ status[p] = "Cancelled"
                /\ keyOf[p] = [mode |-> mode, slots |-> SlotFingerprint,
                               start |-> NextStart, timeline |-> timeline]
=============================================================================
