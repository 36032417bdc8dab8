----------------------------- MODULE MCDayEntry -----------------------------
(* Two drivers on two days, a status that may be a full day off and may be *)
(* used once: in the period, by one driver, or once a driver and day.      *)
EXTENDS DayEntry, TLC

NoLimit == [period |-> None, driver |-> None, drivers |-> None, day |-> None]
OneUse == {[NoLimit EXCEPT !.period = 1], [NoLimit EXCEPT !.drivers = 1],
           [NoLimit EXCEPT !.driver = 1, !.day = 1]}
Symmetry == Permutations(Drivers) \cup Permutations(Days) \cup Permutations(Keys)
            \cup Permutations(Clerks)
=============================================================================
