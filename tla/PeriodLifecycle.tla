--------------------------- MODULE PeriodLifecycle ---------------------------
(***************************************************************************)
(* What the payroll workflow of one branch promises to its users, without  *)
(* review items, evidence, locks or snapshots: a period goes through the   *)
(* lifecycle graph of payroll/schemas/periods.py, at most one period of    *)
(* the branch is open for entry, one is prepared and one is being          *)
(* reviewed or corrected, the content handed in at submission is the one   *)
(* reviewed, and the content paid out is the one that was approved.        *)
(*                                                                         *)
(* PayrollWorkflow (handlers run one at a time) and WorkflowTransactions   *)
(* (handlers run as concurrent transactions) are both shown to implement   *)
(* this specification.                                                     *)
(***************************************************************************)
CONSTANTS
    Periods,    \* identities a period of the branch can have
    Facts       \* what a period can hold: source lines, bonuses, statuses

VARIABLES
    phase,      \* lifecycle status of every period
    packet,     \* content submitted last ({} before the first submission)
    paid        \* content projected into final lines ({} before finalization)

lifecycle == <<phase, packet, paid>>

Phases == {"None", "Draft", "Open", "InReview", "Returned",
           "Approved", "Locked", "Archived", "Cancelled"}

\* No period of the branch is in one of the given phases.
Free(slot) == \A p \in Periods : phase[p] \notin slot

Init ==
    /\ phase  = [p \in Periods |-> "None"]
    /\ packet = [p \in Periods |-> {}]
    /\ paid   = [p \in Periods |-> {}]

\* A period starts open when no period is open or prepared, and prepared
\* when none is prepared.
Create(p) ==
    /\ phase[p] = "None"
    /\ \/ /\ Free({"Open", "Draft"})
          /\ phase' = [phase EXCEPT ![p] = "Open"]
       \/ /\ Free({"Draft"})
          /\ phase' = [phase EXCEPT ![p] = "Draft"]
    /\ UNCHANGED <<packet, paid>>

\* Submission hands a non-empty packet in and may open the prepared period.
Submit(p) ==
    /\ phase[p] = "Open"
    /\ Free({"InReview", "Returned"})
    /\ \E next \in SUBSET {d \in Periods : phase[d] = "Draft"} :
          phase' = [q \in Periods |-> IF q = p THEN "InReview"
                                      ELSE IF q \in next THEN "Open"
                                      ELSE phase[q]]
    /\ \E content \in (SUBSET Facts) \ {{}} :
          packet' = [packet EXCEPT ![p] = content]
    /\ UNCHANGED paid

Resubmit(p) ==
    /\ phase[p] = "Returned"
    /\ phase' = [phase EXCEPT ![p] = "InReview"]
    /\ \E content \in (SUBSET Facts) \ {{}} :
          packet' = [packet EXCEPT ![p] = content]
    /\ UNCHANGED paid

\* Moves that touch the phase of one period and nothing else.
Move(p, from, to) ==
    /\ phase[p] = from
    /\ phase' = [phase EXCEPT ![p] = to]
    /\ UNCHANGED <<packet, paid>>

Approve(p) == Move(p, "InReview", "Approved")
Return(p)  == Move(p, "InReview", "Returned")
Cancel(p)  == Move(p, "Draft", "Cancelled") \/ Move(p, "Open", "Cancelled")
Archive(p) == Move(p, "Locked", "Archived")

\* What is paid is the packet the approval was about.
Finalize(p) ==
    /\ phase[p] = "Approved"
    /\ phase' = [phase EXCEPT ![p] = "Locked"]
    /\ paid'  = [paid EXCEPT ![p] = packet[p]]
    /\ UNCHANGED packet

Next == \E p \in Periods :
    \/ Create(p) \/ Submit(p) \/ Resubmit(p) \/ Approve(p) \/ Return(p)
    \/ Cancel(p) \/ Finalize(p) \/ Archive(p)

Spec == Init /\ [][Next]_lifecycle
==============================================================================
