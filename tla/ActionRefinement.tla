--------------------------- MODULE ActionRefinement ---------------------------
(***************************************************************************)
(* ActionCoordinator implements ActionContract: a row that waits for its   *)
(* outcome is still claimed, and the permit is the coroutine that is about *)
(* to enter executor.commit.                                               *)
(***************************************************************************)
EXTENDS ActionCoordinator

\* The phase a row's status stands for.
PhaseOf(s) ==
    CASE s = "absent"     -> "new"
      [] s = "prepared"   -> "offered"
      [] s = "approved"   -> "cleared"
      [] s = "committing" -> "claimed"
      [] s = "outcome_unknown" -> "claimed"
      [] s = "succeeded"  -> "done"
      [] s = "expired"    -> "void"

AtExecutor(a) == \E t \in Tasks : task[t].at = "c_execute" /\ task[t].act = a

Contract == INSTANCE ActionContract WITH
    Values  <- Results,
    NoValue <- NoResult,
    phase   <- [a \in Actions |-> PhaseOf(status[a])],
    permit  <- [a \in Actions |-> AtExecutor(a)],
    effects <- sent,
    value   <- result,
    answers <- [a \in Actions |-> {answer[3] : answer \in told[a]}]

\* Every behaviour of the coordinator, with every fault of its environment, is a
\* behaviour of the contract.
ImplementsContract == Contract!Spec
=============================================================================
