------------------------------ MODULE WorkflowRun ------------------------------
(***************************************************************************)
(* One capability call whose workflow runs a `parallel` or a `foreach` step *)
(* and emits its result: execution/executor.py below GenericRuntime         *)
(* (runtime.py), with the audit span of gateway/audit.py.                   *)
(*                                                                          *)
(* Every branch is a task of its own with a context of its own.  It calls   *)
(* Depth operations one after the other, each from what the one before it   *)
(* left in the context.  asyncio.gather without return_exceptions ends with *)
(* its first failed or cancelled branch and leaves the others running.      *)
(***************************************************************************)
EXTENDS Naturals

CONSTANTS
    Branches,   \* the children of `parallel`, the items of `foreach`, at least one
    Depth       \* operations a branch calls

ASSUME BranchesCall == Depth \in Nat \ {0}

VARIABLES
    kind,       \* which of the two steps the workflow has
    branch,     \* per branch: where it is, and the operations it has called
    steps,      \* per context: whose values its named steps hold
    doomed,     \* branches whose task was cancelled
    interrupted,\* the call was cancelled when gather had already ended
    gather,     \* the future the call waits for
    answer,     \* how the call ended
    result,     \* what every branch emits: whose values
    sent,       \* identifiers of the operations handed to the provider
    seen,       \* the span's operation identifiers
    event       \* the audit events the sink accepted, as sets of operation identifiers

runVars == <<kind, branch, steps, doomed, interrupted, gather, answer, result, sent, seen, event>>

NoBranch == "nobody"

\* foreach runs one workflow for every item, parallel one workflow per child.
OperationId(b, n) == IF kind = "foreach" THEN n ELSE <<b, n>>

\* _ExecutionContext.isolated: a branch has a copy of the steps.
Scope(b) == b

Ended == {"returned", "failed", "cancelled"}

RunInit ==
    /\ kind \in {"parallel", "foreach"}
    /\ branch = [b \in Branches |-> [at |-> "new", calls |-> 0]]
    /\ steps = [b \in Branches |-> [n \in 1..Depth |-> NoBranch]]
    /\ doomed = {} /\ interrupted = FALSE /\ gather = "pending" /\ answer = "none"
    /\ result = [b \in Branches |-> [n \in 1..Depth |-> NoBranch]]
    /\ sent = {} /\ seen = {} /\ event = {}

\* gather's callback: the first branch that fails or is cancelled decides, and
\* otherwise the last one that returns.
Gathered(now) ==
    IF gather # "pending" THEN gather
    ELSE IF \E b \in Branches : now[b].at \in {"failed", "cancelled"}
         THEN CHOOSE a \in {"failed", "cancelled"} : \E b \in Branches : now[b].at = a
    ELSE IF \A b \in Branches : now[b].at = "returned" THEN "returned"
    ELSE "pending"

EndBranch(b, at) ==
    /\ branch' = [branch EXCEPT ![b].at = at]
    /\ gather' = Gathered(branch')

\* _AuditSpan.observe: a finished span has no ear.
SpanObserved(op) == IF answer = "none" THEN seen \cup {op} ELSE seen

\* _call and _PolicyOperationCaller.call up to the provider: the span and then
\* the provider see the operation.
Send(b) ==
    LET n == branch[b].calls + 1 IN
    /\ branch' = [branch EXCEPT ![b] = [at |-> "calling", calls |-> n]]
    /\ sent' = sent \cup {OperationId(b, n)}
    /\ seen' = SpanObserved(OperationId(b, n))
    /\ UNCHANGED gather


\* The branch's first turn.  An argument or the policy may refuse.
Launch(b) ==
    /\ branch[b].at = "new" /\ b \notin doomed
    /\ \/ Send(b)
       \/ EndBranch(b, "failed") /\ UNCHANGED <<sent, seen>>
    /\ UNCHANGED <<kind, steps, doomed, interrupted, answer, result, event>>

\* The provider answers: the value goes into the context, and the next operation
\* is called or the branch emits what the context holds.
Return(b) ==
    /\ branch[b].at = "calling" /\ b \notin doomed
    /\ steps' = [steps EXCEPT ![Scope(b)][branch[b].calls] = b]
    /\ IF branch[b].calls < Depth
       THEN Send(b) /\ UNCHANGED result
       ELSE /\ EndBranch(b, "returned")
            /\ result' = [result EXCEPT ![b] = steps'[Scope(b)]]
            /\ UNCHANGED <<sent, seen>>
    /\ UNCHANGED <<kind, doomed, interrupted, answer, event>>

\* The operation fails, or its value or the next arguments are refused.
Fail(b) ==
    /\ branch[b].at = "calling" /\ b \notin doomed
    /\ EndBranch(b, "failed")
    /\ UNCHANGED <<kind, steps, doomed, interrupted, answer, result, sent, seen, event>>

\* A cancelled task meets the CancelledError at its next turn.
Die(b) ==
    /\ b \in doomed /\ branch[b].at \notin Ended
    /\ EndBranch(b, "cancelled")
    /\ UNCHANGED <<kind, steps, doomed, interrupted, answer, result, sent, seen, event>>

\* A faulty variant: the branches are not told.
CancelAlone ==
    /\ answer = "none" /\ ~interrupted /\ interrupted' = TRUE
    /\ gather' = IF gather = "pending" THEN "cancelled" ELSE gather
    /\ UNCHANGED <<kind, branch, steps, doomed, answer, result, sent, seen, event>>

\* The client leaves: gather passes the cancellation on to its branches, unless
\* it has ended and the call only has to be resumed.
CancelCall ==
    /\ answer = "none" /\ doomed = {} /\ ~interrupted
    /\ IF gather = "pending"
       THEN doomed' = {b \in Branches : branch[b].at \notin Ended} /\ UNCHANGED interrupted
       ELSE interrupted' = TRUE /\ UNCHANGED doomed
    /\ UNCHANGED <<kind, branch, steps, gather, answer, result, sent, seen, event>>

\* _finish_audit_span: the sink takes the event, loses it, or turns the answer
\* into a cancellation.
FinishSpan(outcome) ==
    \/ answer' = outcome /\ event' \in {{seen}, {}}
    \/ answer' = "cancelled" /\ event' = {}

\* _call_outcome after _execute_call, whose policy, schema and size checks may
\* still refuse what the workflow emitted.
Answer ==
    /\ answer = "none" /\ gather # "pending"
    /\ \E outcome \in (IF interrupted THEN {"cancelled"}
                       ELSE IF gather = "returned" THEN {"success", "failed"} ELSE {gather}) :
          FinishSpan(outcome)
    /\ UNCHANGED <<kind, branch, steps, doomed, interrupted, gather, result, sent, seen>>

Done ==
    /\ answer # "none" /\ \A b \in Branches : branch[b].at \in Ended
    /\ UNCHANGED runVars

RunNext ==
    \/ \E b \in Branches : Launch(b) \/ Return(b) \/ Fail(b) \/ Die(b)
    \/ CancelCall \/ Answer \/ Done

RunSpec == RunInit /\ [][RunNext]_runVars

\* Every task, context and future is in a state the executor knows (executor.py:71).
RunTypeOK ==
    /\ kind \in {"parallel", "foreach"}
    /\ branch \in [Branches -> [at : {"new", "calling"} \cup Ended, calls : Nat]]
    /\ steps \in [Branches -> [1..Depth -> Branches \cup {NoBranch}]]
    /\ result \in [Branches -> [1..Depth -> Branches \cup {NoBranch}]]
    /\ doomed \subseteq Branches /\ interrupted \in BOOLEAN
    /\ gather \in {"pending"} \cup Ended
    /\ answer \in {"none", "success", "failed", "cancelled"}

\* A call that answers success has an answer that every branch made from its
\* own values alone, and unless a branch failed - which leaves the others
\* running behind an answered and audited call - the audit event names every
\* operation the provider was handed, then and later (executor.py:236, 256).
AnswerIsAccounted ==
    /\ answer = "success" => \A b \in Branches, n \in 1..Depth : result[b][n] = b
    /\ (\A b \in Branches : branch[b].at # "failed") => \A e \in event : sent \subseteq e
=============================================================================
