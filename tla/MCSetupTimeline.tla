---------------------------- MODULE MCSetupTimeline ----------------------------
EXTENDS SetupTimeline, TLC

\* Two fixed schedules and a monthly one, over months that end early.
TwoDays   == [frequency |-> "Custom", interval |-> 2, anchor |-> 1]
ThreeDays == [frequency |-> "Custom", interval |-> 3, anchor |-> 3]
Monthly   == [frequency |-> "Month", interval |-> 0, anchor |-> 3]
TheSchedules == {TwoDays, ThreeDays, Monthly}
FixedSchedules == {TwoDays, ThreeDays}
TheMonths == <<1, 4, 6, 9, 12, 15, 18, 21>>

Version(n, day, sched) == [no |-> n, from |-> day, sched |-> sched]
ForGood(s, day) == [id |-> 0, setup |-> s, from |-> day, to |-> Forever]
Steady == <<{Version(1, 1, TwoDays)}, {Version(1, 3, Monthly)}>>
RevisedSetups == <<{Version(1, 1, TwoDays)},
                   {Version(1, 1, TwoDays), Version(2, 3, ThreeDays)}>>
TheStarts == {[versions |-> Steady, assigned |-> <<{}>>],
              [versions |-> Steady, assigned |-> <<{ForGood(1, 1)}>>]}
RevisedStart == {[versions |-> RevisedSetups, assigned |-> <<{}>>]}
Symmetry == Permutations(Txns)
=============================================================================
