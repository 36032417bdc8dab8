--------------------------- MODULE MCDriverTenure ---------------------------
(* Two branches: a period of two days in A, one of the second day in B.     *)
EXTENDS DriverTenure

TwoBranches == [p \in {"A1", "B1"} |-> IF p = "A1" THEN "A" ELSE "B"]
TwoDays     == [p \in {"A1", "B1"} |-> IF p = "A1" THEN {1, 2} ELSE {2}]
OneDraft    == [p \in {"A1", "B1"} |-> IF p = "A1" THEN "Open" ELSE "Draft"]
=============================================================================
