-------------------------- MODULE MCScheduleService --------------------------
(* ScheduleService for TLC. *)
EXTENDS ScheduleService, TLC

Symmetry == Permutations(Calls) \cup Permutations(Owners)

(* Bound: writes under way at a time. *)
FewSaves == Cardinality(saves) <= 2
=============================================================================
