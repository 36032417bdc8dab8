------------------------------ MODULE MCAccess ------------------------------
(* An owner, an administrator, and a third account in each situation that  *)
(* it can be in, also as the account of a driver; the owner may be unable  *)
(* to sign in.                                                             *)
EXTENDS AccessSafety, TLC

CONSTANTS u1, u2, u3, drv, emp, admin, clerk

Signed == [active |-> TRUE, login |-> TRUE, staged |-> FALSE, employee |-> None]
Staged == [Signed EXCEPT !.login = FALSE, !.staged = TRUE]
Ended == [Staged EXCEPT !.active = FALSE, !.employee = emp]

\* The third account, its role, who is terminated, and what clerks may do.
Thirds ==
    {<<None, None, {}, {}>>, <<Staged, None, {}, {"pay"}>>,
     <<[Staged EXCEPT !.employee = drv], None, {}, {}>>, <<Ended, None, {emp}, {}>>,
     <<Signed, [role |-> clerk, wide |-> FALSE], {}, {}>>,
     <<Signed, [role |-> admin, wide |-> TRUE], {}, {}>>,
     <<[Signed EXCEPT !.login = FALSE], [role |-> clerk, wide |-> TRUE], {}, {"pay"}>>,
     <<[Signed EXCEPT !.employee = drv], [role |-> Driver, wide |-> FALSE], {}, {}>>}

Start(third, ownerSigns) ==
    [account |-> (u1 :> [Signed EXCEPT !.login = ownerSigns]) @@ (u2 :> Signed) @@ (u3 :> third[1]),
     held |-> (u1 :> [role |-> Owner, wide |-> TRUE]) @@ (u2 :> [role |-> admin, wide |-> TRUE])
              @@ (u3 :> third[2]),
     terminated |-> third[3],
     catalog |-> [r \in Catalog |-> [active |-> TRUE, archived |-> FALSE,
                    perms |-> CASE r = admin -> {"edit"} [] r = clerk -> third[4] [] OTHER -> {}]]]

Starts ==
    {Start(third, FALSE) : third \in Thirds}
    \cup {Start(<<Signed, [role |-> clerk, wide |-> FALSE], {}, {}>>, TRUE)}
Symmetry == Permutations(Sessions)
=============================================================================
