--------------------------- MODULE MCJobScheduler ---------------------------
(***************************************************************************)
(* The instances of JobScheduler that TLC checks.  The slots are           *)
(* interchangeable: nothing in the specification chooses among them.       *)
(***************************************************************************)
EXTENDS SchedulerOneTab, TLC

SlotSymmetry == Permutations(Slots)

\* Where no job is of a special kind, tabs and jobs are interchangeable too.
AllSymmetry == Permutations(Slots) \cup Permutations(Tabs) \cup Permutations(Jobs)

=============================================================================
