-------------------------- MODULE MCPeriodCreation --------------------------
(* Candidate keys of one branch.                                           *)
EXTENDS PeriodCreation, TLC

Symmetry == Permutations(Periods) \cup Permutations(Clients)
=============================================================================
