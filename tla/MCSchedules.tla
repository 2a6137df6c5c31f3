----------------------------- MODULE MCSchedules -----------------------------
(* Instances of Schedules for TLC. *)
EXTENDS Schedules, TLC

CONSTANTS w1, w2, c1, c2, web, s1, s2, r1, r2, r3

OneProcess == [x \in Worker \union Client |-> web]

\* Key, as ScheduleAssumption has it.
AllKeys == OccurrenceKeys \union ManualKeys

\* Run ids are drawn, schedules are alike, and so are the requests to one process.
Symmetry == Permutations(Run) \union Permutations(Schedule) \union Permutations(Client)
=============================================================================
