-------------------------- MODULE MCImportBatches ---------------------------
(* Two requests at a time; workers, keys, batches and mappings are          *)
(* interchangeable.                                                         *)
EXTENDS ImportBatches, TLC

Symmetry == Permutations(Workers) \cup Permutations(Keys) \cup Permutations(Batches)
                \cup Permutations(Maps)
=============================================================================
