---------------------- MODULE MCWorkflowTransactions ----------------------
(* Two connections serving the requests of one branch.                     *)
EXTENDS WorkflowTransactions, TLC

Symmetry == Permutations(Txns) \cup Permutations(Users)
=============================================================================
