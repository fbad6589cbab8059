------------------------- MODULE MCActionCoordinator -------------------------
(* Small instances of ActionCoordinator and of its refinement, for TLC. *)
EXTENDS ActionRefinement, TLC

\* Coroutines are interchangeable: nothing names one of them.
TaskSymmetry == Permutations(Tasks)
=============================================================================
