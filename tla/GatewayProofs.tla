---------------------------- MODULE GatewayProofs ----------------------------
(***************************************************************************)
(* Theorems about GatewaySessions, for every set of requests and sessions,  *)
(* every capacity, expiry and set of faults.                                *)
(*                                                                         *)
(* The first lemmas say once what each step does to the requests; every    *)
(* invariant after them is then kept by one step per action.  The layers   *)
(* build on each other: types, where a request stands and who holds the    *)
(* lock, who owns a session no client knows, what of it is on disk, and    *)
(* from these the properties of erased, marked, durable and counted        *)
(* sessions and of their tokens.                                           *)
(***************************************************************************)
EXTENDS GatewaySessions, FiniteSetTheorems, TLAPS

USE DEF At, LockFree, VaultOpen, Locked

\* What a request remembers of its own failure.
Outcomes == {"ok", "gone", "failed", "again"}

-----------------------------------------------------------------------------
(* What a step does to the requests                                        *)

\* A request goes on well-typed after its clean-up.
LEMMA SweepIsTyped ==
    ASSUME NEW r \in TaskStates
    PROVE  AfterSweep(r) \in TaskStates
  BY DEF AfterSweep, TaskStates, Steps, IdleTask, CreateSteps, DrainSteps, DeleteSteps,
         CallSteps, CloseSteps

\* Collecting expired records leaves statuses.
LEMMA CollectedIsTyped == mem \in [Sessions -> Statuses] => Collected \in [Sessions -> Statuses]
  BY DEF Collected, Statuses

\* A request that returned is well-typed.
LEMMA IdleIsTyped == IdleTask \in TaskStates
  BY DEF IdleTask, TaskStates, Steps

\* A request begins.
LEMMA BegunIsTyped ==
    ASSUME NEW step \in Steps, NEW op \in {"none", "create", "delete", "call", "stop"}
    PROVE  /\ [IdleTask EXCEPT !.at = step, !.op = op] \in TaskStates
           /\ \A s \in Sessions : [IdleTask EXCEPT !.at = step, !.op = op, !.s = s] \in TaskStates
  BY DEF IdleTask, TaskStates

\* Every await named by the code is one.
LEMMA StepsAreTyped ==
    /\ {"idle", "forget"} \subseteq Steps
    /\ {"drain", "drain_io", "sweep"} \subseteq Steps
    /\ {"login", "create", "insert", "bind", "clean", "undo", "undo_io"} \subseteq Steps
    /\ {"revoke", "revoke_io"} \subseteq Steps
    /\ {"resolve", "resolve_io", "authorize", "wait", "mark", "mark_io"} \subseteq Steps
    /\ {"fatal", "close", "close_io", "checkpoint", "shut"} \subseteq Steps
  BY DEF Steps, DrainSteps, CreateSteps, DeleteSteps, CallSteps, CloseSteps

\* What a step does to the requests: t goes on at a step with what it keeps, or
\* is done, and nobody else moves.
TasksTyped == task \in [Tasks -> TaskStates]

Others(t) == \A u \in Tasks : u # t => task'[u] = task[u]

Moves(t, at, left, out, quit) ==
    /\ task' \in [Tasks -> TaskStates]
    /\ Others(t)
    /\ task'[t].at = at
    /\ task'[t].op = task[t].op
    /\ task'[t].s = task[t].s
    /\ task'[t].left = left
    /\ task'[t].out = out
    /\ task'[t].quit = quit

Goes(t, at) == Moves(t, at, task[t].left, task[t].out, task[t].quit)

Ends(t) == task' \in [Tasks -> TaskStates] /\ Others(t) /\ task'[t] = IdleTask

\* A new request, with nothing collected yet.
Begins(t, at, op, s) ==
    /\ task' \in [Tasks -> TaskStates]
    /\ Others(t)
    /\ task'[t] = [at |-> at, op |-> op, s |-> s, left |-> {}, out |-> "ok", quit |-> FALSE]

LEMMA TaskUpdated ==
    ASSUME TasksTyped, NEW t \in Tasks, NEW r \in TaskStates, task' = [task EXCEPT ![t] = r],
           r.op = task[t].op, r.s = task[t].s
    PROVE  Moves(t, r.at, r.left, r.out, r.quit)
  BY DEF TasksTyped, Moves, Others

\* A step that only moves on.
LEMMA GotoMoves ==
    ASSUME TasksTyped, NEW t \in Tasks, NEW step \in Steps, Goto(t, step)
    PROVE  Goes(t, step)
<1> DEFINE r == [task[t] EXCEPT !.at = step]
<1>1. /\ r \in TaskStates /\ r.op = task[t].op /\ r.s = task[t].s
      /\ r.at = step /\ r.left = task[t].left /\ r.out = task[t].out /\ r.quit = task[t].quit
  BY DEF TasksTyped, TaskStates
<1>2. task' = [task EXCEPT ![t] = r]
  BY DEF Goto
<1> HIDE DEF r
<1> QED
  BY <1>1, <1>2, TaskUpdated DEF Goes

\* A step that moves on with other records to invalidate.
LEMMA LeftMoves ==
    ASSUME TasksTyped, NEW t \in Tasks, NEW step \in Steps, NEW left \in SUBSET Sessions,
           task' = [task EXCEPT ![t].at = step, ![t].left = left]
    PROVE  Moves(t, step, left, task[t].out, task[t].quit)
<1> DEFINE r == [task[t] EXCEPT !.at = step, !.left = left]
<1>1. /\ r \in TaskStates /\ r.op = task[t].op /\ r.s = task[t].s
      /\ r.at = step /\ r.left = left /\ r.out = task[t].out /\ r.quit = task[t].quit
  BY DEF TasksTyped, TaskStates
<1>2. task' = [task EXCEPT ![t] = r]
  OBVIOUS
<1> HIDE DEF r
<1> QED
  BY <1>1, <1>2, TaskUpdated

\* A step that moves on with another outcome.
LEMMA OutMoves ==
    ASSUME TasksTyped, NEW t \in Tasks, NEW step \in Steps, NEW out \in Outcomes,
           task' = [task EXCEPT ![t].at = step, ![t].out = out]
    PROVE  Moves(t, step, task[t].left, out, task[t].quit)
<1> DEFINE r == [task[t] EXCEPT !.at = step, !.out = out]
<1>1. /\ r \in TaskStates /\ r.op = task[t].op /\ r.s = task[t].s
      /\ r.at = step /\ r.left = task[t].left /\ r.out = out /\ r.quit = task[t].quit
  BY DEF TasksTyped, TaskStates, Outcomes
<1>2. task' = [task EXCEPT ![t] = r]
  OBVIOUS
<1> HIDE DEF r
<1> QED
  BY <1>1, <1>2, TaskUpdated

\* A step of a create that its client has left.
LEMMA QuitMoves ==
    ASSUME TasksTyped, NEW t \in Tasks, NEW step \in Steps,
           task' = [task EXCEPT ![t].at = step, ![t].quit = TRUE]
    PROVE  Moves(t, step, task[t].left, task[t].out, TRUE)
<1> DEFINE r == [task[t] EXCEPT !.at = step, !.quit = TRUE]
<1>1. /\ r \in TaskStates /\ r.op = task[t].op /\ r.s = task[t].s
      /\ r.at = step /\ r.left = task[t].left /\ r.out = task[t].out /\ r.quit = TRUE
  BY DEF TasksTyped, TaskStates
<1>2. task' = [task EXCEPT ![t] = r]
  OBVIOUS
<1> HIDE DEF r
<1> QED
  BY <1>1, <1>2, TaskUpdated

LEMMA QuitLeftMoves ==
    ASSUME TasksTyped, NEW t \in Tasks, NEW step \in Steps, NEW left \in SUBSET Sessions,
           task' = [task EXCEPT ![t].at = step, ![t].left = left, ![t].quit = TRUE]
    PROVE  Moves(t, step, left, task[t].out, TRUE)
<1> DEFINE q == [task[t] EXCEPT !.at = step, !.left = left]
           r == [q EXCEPT !.quit = TRUE]
<1>1. /\ q \in TaskStates /\ q.op = task[t].op /\ q.s = task[t].s
      /\ q.at = step /\ q.left = left /\ q.out = task[t].out
  BY DEF TasksTyped, TaskStates
<1>2. task' = [task EXCEPT ![t] = r]
  OBVIOUS
<1> HIDE DEF q
<1>3. /\ r \in TaskStates /\ r.op = q.op /\ r.s = q.s /\ r.at = q.at
      /\ r.left = q.left /\ r.out = q.out /\ r.quit = TRUE
  BY <1>1 DEF TaskStates
<1> HIDE DEF r
<1>4. Moves(t, r.at, r.left, r.out, r.quit)
  BY <1>1, <1>2, <1>3, TaskUpdated
<1> QED
  BY <1>1, <1>3, <1>4, Zenon

\* A step that returns to the client.
LEMMA ReturnEnds ==
    ASSUME TasksTyped, NEW t \in Tasks, Return(t)
    PROVE  Ends(t)
  BY IdleIsTyped DEF TasksTyped, Return, Ends, Others

\* A failed clean-up closes everything, unless its client is gone.
LEMMA FailDrainMoves ==
    ASSUME TasksTyped, NEW t \in Tasks, FailDrain(t)
    PROVE  \/ Moves(t, "fatal", {}, task[t].out, task[t].quit)
           \/ task[t].op = "create" /\ Ends(t)
  BY StepsAreTyped, ReturnEnds, LeftMoves DEF FailDrain

\* The purge, with the records it collected.
LEMMA DrainMoves ==
    ASSUME TasksTyped, NEW t \in Tasks, Drain(t)
    PROVE  \/ /\ ~VaultOpen /\ UNCHANGED <<lock, mem>>
              /\ \/ Moves(t, "fatal", {}, task[t].out, task[t].quit)
                 \/ task[t].op = "create" /\ Ends(t)
           \/ /\ VaultOpen /\ mem' = Collected /\ ExpiredRecords = {}
              /\ Goes(t, "sweep") /\ UNCHANGED lock
           \/ /\ VaultOpen /\ mem' = Collected /\ ExpiredRecords # {} /\ lock' = t
              /\ Moves(t, "drain_io", ExpiredRecords, task[t].out, task[t].quit)
  BY StepsAreTyped, GotoMoves, LeftMoves, FailDrainMoves DEF Drain, ExpiredRecords

\* The deletion of their rows, or its failure.
LEMMA DrainIoMoves ==
    ASSUME TasksTyped, NEW t \in Tasks, DrainIo(t)
    PROVE  \/ disk' = Put(disk, task[t].left, "none") /\ Goes(t, "sweep")
           \/ UNCHANGED disk /\ Moves(t, "fatal", {}, task[t].out, task[t].quit)
           \/ UNCHANGED disk /\ task[t].op = "create" /\ Ends(t)
  BY StepsAreTyped, GotoMoves, FailDrainMoves DEF DrainIo

\* The login, accepted or refused.
LEMMA LoginMoves ==
    ASSUME TasksTyped, NEW t \in Tasks, Login(t)
    PROVE  \/ "service" \notin shut /\ Goes(t, "create")
           \/ Goes(t, "undo") /\ UNCHANGED srcEnds
  BY StepsAreTyped, GotoMoves, ReturnEnds, LeftMoves, OutMoves DEF Login, Outcomes

\* The admission, a refusal for capacity, or any other refusal.
LEMMA AdmitMoves ==
    ASSUME TasksTyped, NEW t \in Tasks, Admit(t)
    PROVE  \/ /\ VaultOpen /\ mem' = [Collected EXCEPT ![task[t].s] = "active"]
              /\ ends' = [ends EXCEPT ![task[t].s] = now + Ttl]
              /\ Moves(t, "insert", ExpiredRecords, task[t].out, task[t].quit) /\ lock' = t
           \/ /\ mem' = [r \in Sessions |-> IF NeedsReauth(r) THEN "reauth" ELSE mem[r]]
              /\ Goes(t, "undo") /\ UNCHANGED <<ends, lock>>
           \/ Goes(t, "undo") /\ UNCHANGED <<mem, ends, lock>>
  BY StepsAreTyped, GotoMoves, ReturnEnds, LeftMoves, OutMoves DEF Admit, Outcomes, ExpiredRecords

\* The insert commits, or fails.
LEMMA InsertMoves ==
    ASSUME TasksTyped, NEW t \in Tasks, Insert(t)
    PROVE  \/ /\ disk' = [disk EXCEPT ![task[t].s] = "active"]
              /\ Goes(t, "bind") /\ UNCHANGED <<lock, mem>>
           \/ /\ mem' = [mem EXCEPT ![task[t].s] = "none"] /\ lock' = NoTask
              /\ Moves(t, "undo", {}, task[t].out, task[t].quit) /\ UNCHANGED disk
  BY StepsAreTyped, GotoMoves, ReturnEnds, LeftMoves, OutMoves DEF Insert, Outcomes

\* The session is delivered, or rolled back.
LEMMA AnswerMoves ==
    ASSUME TasksTyped, NEW t \in Tasks, Answer(t)
    PROVE  \/ /\ now < ends[task[t].s] /\ ~task[t].quit
              /\ delivered' = delivered \cup {task[t].s} /\ Ends(t)
           \/ Moves(t, "undo", {}, task[t].out, task[t].quit) /\ UNCHANGED delivered
  BY StepsAreTyped, GotoMoves, ReturnEnds, LeftMoves, OutMoves DEF Answer, Outcomes

\* The rollback takes the lock, or finds the vault closed.
LEMMA UndoMoves ==
    ASSUME TasksTyped, NEW t \in Tasks, Undo(t)
    PROVE  \/ VaultOpen /\ Goes(t, "undo_io") /\ lock' = t
           \/ Moves(t, "forget", task[t].left, "failed", task[t].quit) /\ UNCHANGED lock
  BY StepsAreTyped, GotoMoves, ReturnEnds, LeftMoves, OutMoves DEF Undo, Outcomes

\* The rollback deletes the row and the record, or fails.
LEMMA UndoIoMoves ==
    ASSUME TasksTyped, NEW t \in Tasks, UndoIo(t)
    PROVE  \/ /\ disk' = [disk EXCEPT ![task[t].s] = "none"]
              /\ mem' = [mem EXCEPT ![task[t].s] = "none"] /\ Goes(t, "forget")
           \/ Moves(t, "forget", task[t].left, "failed", task[t].quit) /\ UNCHANGED <<disk, mem>>
  BY StepsAreTyped, GotoMoves, ReturnEnds, LeftMoves, OutMoves DEF UndoIo, Outcomes

\* A 401 is to be recorded, already was, or concerns no session any more.
LEMMA MarkMoves ==
    ASSUME TasksTyped, NEW t \in Tasks, Mark(t)
    PROVE  \/ VaultOpen /\ Lives(task[t].s) /\ Goes(t, "mark_io") /\ lock' = t /\ UNCHANGED mem
           \/ /\ VaultOpen /\ NeedsReauth(task[t].s) /\ mem' = [mem EXCEPT ![task[t].s] = "reauth"]
              /\ Moves(t, "drain", task[t].left, "failed", task[t].quit) /\ UNCHANGED lock
           \/ Moves(t, "drain", task[t].left, "gone", task[t].quit) /\ UNCHANGED <<mem, lock>>
  BY StepsAreTyped, GotoMoves, ReturnEnds, LeftMoves, OutMoves DEF Mark, Outcomes

\* The requirement is on disk, or could not be written.
LEMMA MarkIoMoves ==
    ASSUME TasksTyped, NEW t \in Tasks, MarkIo(t)
    PROVE  \/ /\ disk' = [disk EXCEPT ![task[t].s] = "reauth"] /\ marked' = marked \cup {task[t].s}
              /\ mem' = IF now > ends[task[t].s] THEN mem ELSE [mem EXCEPT ![task[t].s] = "reauth"]
              /\ Moves(t, "drain", task[t].left,
                       IF now > ends[task[t].s] THEN "gone" ELSE "ok", task[t].quit)
           \/ /\ Moves(t, "drain", task[t].left, "failed", task[t].quit)
              /\ UNCHANGED <<disk, marked, mem>>
  BY StepsAreTyped, GotoMoves, ReturnEnds, LeftMoves, OutMoves DEF MarkIo, Outcomes

\* The fatal close begins.
LEMMA FatalMoves ==
    ASSUME TasksTyped, NEW t \in Tasks, Fatal(t)
    PROVE  Moves(t, "close", task[t].left, "ok", task[t].quit)
  BY StepsAreTyped, GotoMoves, ReturnEnds, LeftMoves, OutMoves DEF Fatal, Outcomes

\* Every row is erased, or the close is tried again or given up.
LEMMA CloseIoMoves ==
    ASSUME TasksTyped, NEW t \in Tasks, CloseIo(t)
    PROVE  \/ /\ disk' = [s \in Sessions |-> "none"] /\ mem' = [s \in Sessions |-> "none"]
              /\ erased' = erased \cup {s \in Sessions : disk[s] # "none"}
              /\ shut' = shut \cup {"vault"} /\ Goes(t, "shut")
           \/ /\ \E step \in {"close", "shut"} : Moves(t, step, task[t].left, "again", task[t].quit)
              /\ UNCHANGED <<disk, mem, erased, shut>>
  BY StepsAreTyped, GotoMoves, ReturnEnds, LeftMoves, OutMoves DEF CloseIo, Outcomes

\* A create draws a fresh session id.
LEMMA CreateMoves ==
    ASSUME TasksTyped, NEW t \in Tasks, fresh \subseteq Sessions, Create(t)
    PROVE  \E s \in fresh : fresh' = fresh \ {s} /\ Begins(t, "drain", "create", s)
  <1>1. PICK s \in fresh : fresh' = fresh \ {s} /\ task' = [task EXCEPT ![t] =
              [IdleTask EXCEPT !.at = "drain", !.op = "create", !.s = s]]
    BY DEF Create
  <1>2. Begins(t, "drain", "create", s)
    BY <1>1, StepsAreTyped, BegunIsTyped DEF Begins, Others, TasksTyped, IdleTask
  <1>3. QED
    BY <1>1, <1>2

\* A delete is for a delivered session.
LEMMA DeleteMoves ==
    ASSUME TasksTyped, NEW t \in Tasks, delivered \subseteq Sessions, Delete(t)
    PROVE  \E s \in delivered : asked' = asked \cup {s} /\ Begins(t, "revoke", "delete", s)
  <1>1. PICK s \in delivered : asked' = asked \cup {s} /\ task' = [task EXCEPT ![t] =
              [IdleTask EXCEPT !.at = "revoke", !.op = "delete", !.s = s]]
    BY DEF Delete
  <1>2. Begins(t, "revoke", "delete", s)
    BY <1>1, StepsAreTyped, BegunIsTyped DEF Begins, Others, TasksTyped, IdleTask
  <1>3. QED
    BY <1>1, <1>2

\* A call is for a delivered session.
LEMMA CallMoves ==
    ASSUME TasksTyped, NEW t \in Tasks, delivered \subseteq Sessions, Call(t)
    PROVE  \E s \in delivered : Begins(t, "resolve", "call", s)
  <1>1. PICK s \in delivered : task' = [task EXCEPT ![t] =
              [IdleTask EXCEPT !.at = "resolve", !.op = "call", !.s = s]]
    BY DEF Call
  <1>2. Begins(t, "resolve", "call", s)
    BY <1>1, StepsAreTyped, BegunIsTyped DEF Begins, Others, TasksTyped, IdleTask
  <1>3. QED
    BY <1>1, <1>2

\* The graceful stop works for no session.
LEMMA StopMoves ==
    ASSUME TasksTyped, NEW t \in Tasks, Stop(t)
    PROVE  Begins(t, "checkpoint", "stop", NoSession)
  BY StepsAreTyped, BegunIsTyped DEF Stop, Begins, Others, TasksTyped, IdleTask

\* After the clean-up the request goes on as its operation and outcome say.
LEMMA SweepMoves ==
    ASSUME TasksTyped, NEW t \in Tasks, Sweep(t)
    PROVE  \/ task[t].op = "create" /\ Moves(t, "login", {}, task[t].out, task[t].quit)
           \/ task[t].op = "call" /\ Moves(t, "forget", {}, task[t].out, task[t].quit)
           \/ task[t].op = "call" /\ Moves(t, "fatal", {}, task[t].out, task[t].quit)
           \/ Ends(t)
  <1> DEFINE r == [task[t] EXCEPT !.left = {}]
  <1>1. /\ task[t] \in TaskStates /\ r \in TaskStates
        /\ r.op = task[t].op /\ r.s = task[t].s /\ r.left = {}
        /\ r.out = task[t].out /\ r.quit = task[t].quit
    BY DEF TasksTyped, TaskStates
  <1>2. task' = [task EXCEPT ![t] = AfterSweep(r)] /\ AfterSweep(r) \in TaskStates
    BY <1>1, SweepIsTyped DEF Sweep
  <1>3. /\ task' \in [Tasks -> TaskStates] /\ Others(t) /\ task'[t] = AfterSweep(r)
    BY <1>2 DEF TasksTyped, Others
  <1>4. \/ r.op = "create" /\ AfterSweep(r) = [r EXCEPT !.at = "login"]
        \/ r.op = "call" /\ AfterSweep(r) = [r EXCEPT !.at = "forget"]
        \/ r.op = "call" /\ AfterSweep(r) = [r EXCEPT !.at = "fatal"]
        \/ AfterSweep(r) = IdleTask
    BY DEF AfterSweep
  <1> HIDE DEF r
  <1>5. QED
    BY <1>1, <1>3, <1>4 DEF Moves, Ends, TaskStates

\* After its own token a delete still purges; a failure closes everything.
LEMMA ForgetMoves ==
    ASSUME TasksTyped, NEW t \in Tasks, Forget(t)
    PROVE  \/ task[t].op = "delete" /\ Goes(t, "drain")
           \/ task[t].op # "delete" /\ Goes(t, "fatal")
           \/ Ends(t)
  <1>1. /\ task[t] \in TaskStates /\ [task[t] EXCEPT !.at = "drain"] \in TaskStates
        /\ [task[t] EXCEPT !.at = "fatal"] \in TaskStates
    BY StepsAreTyped DEF TasksTyped, TaskStates
  <1>2. \/ /\ task[t].op = "delete"
           /\ task' = [task EXCEPT ![t] = [task[t] EXCEPT !.at = "drain"]]
        \/ /\ task[t].op # "delete"
           /\ task' = [task EXCEPT ![t] = [task[t] EXCEPT !.at = "fatal"]]
        \/ task' = [task EXCEPT ![t] = IdleTask]
    BY DEF Forget
  <1>3. QED
    BY <1>1, <1>2, IdleIsTyped DEF TasksTyped, Goes, Moves, Ends, Others, TaskStates

\* The row and the record of the deleted session go, or the delete fails.
LEMMA RevokeIoMoves ==
    ASSUME TasksTyped, NEW t \in Tasks, RevokeIo(t)
    PROVE  \/ /\ disk' = [disk EXCEPT ![task[t].s] = "none"]
              /\ mem' = [mem EXCEPT ![task[t].s] = "none"]
              /\ erased' = erased \cup {task[t].s}
              /\ Goes(t, "drain") \/ Goes(t, "forget")
           \/ Goes(t, "fatal") /\ UNCHANGED <<disk, mem, erased>>
  BY StepsAreTyped, GotoMoves DEF RevokeIo

\* The token is bound; the answer follows, now or after the clean-up.
LEMMA BindMoves ==
    ASSUME TasksTyped, NEW t \in Tasks, Bind(t)
    PROVE  \/ /\ now < ends[task[t].s] /\ ~task[t].quit
              /\ delivered' = delivered \cup {task[t].s} /\ Ends(t)
           \/ Moves(t, "undo", {}, task[t].out, task[t].quit) /\ UNCHANGED delivered
           \/ Goes(t, "clean") /\ UNCHANGED delivered
  BY StepsAreTyped, GotoMoves, LeftMoves, AnswerMoves DEF Bind

\* A client that disconnects leaves its request at these places.
LEMMA CancelMoves ==
    ASSUME TasksTyped, NEW t \in Tasks, Cancel(t)
    PROVE  \/ /\ task[t].at \in {"resolve", "authorize", "wait"} /\ Ends(t)
              /\ UNCHANGED <<mem, lock, late>>
           \/ /\ task[t].at = "resolve_io" /\ Ends(t)
              /\ late' = late \cup {[kind |-> "reauth", s |-> task[t].s]}
              /\ lock' = NoTask /\ UNCHANGED mem
           \/ /\ task[t].at \in {"login", "create"} /\ UNCHANGED <<mem, lock, late>>
              /\ Moves(t, "undo", task[t].left, task[t].out, TRUE)
           \/ /\ task[t].at = "insert" /\ late' = late \cup {[kind |-> "insert", s |-> task[t].s]}
              /\ mem' = [mem EXCEPT ![task[t].s] = "none"] /\ lock' = NoTask
              /\ Moves(t, "undo", {}, task[t].out, TRUE)
           \/ /\ task[t].at = "bind" /\ late' = late
              /\ mem' = [mem EXCEPT ![task[t].s] = "none"] /\ lock' = NoTask
              /\ Moves(t, "undo", {}, task[t].out, TRUE)
           \/ /\ task[t].op = "create" /\ task[t].at \in DrainSteps \cup {"clean"}
              /\ UNCHANGED <<mem, lock, late>>
              /\ Moves(t, task[t].at, task[t].left, task[t].out, TRUE)
  <1>1. ASSUME task' = [task EXCEPT ![t].at = "undo", ![t].quit = TRUE]
        PROVE  Moves(t, "undo", task[t].left, task[t].out, TRUE)
    BY <1>1, StepsAreTyped, QuitMoves
  <1>2. ASSUME task' = [task EXCEPT ![t].at = "undo", ![t].quit = TRUE, ![t].left = {}]
        PROVE  Moves(t, "undo", {}, task[t].out, TRUE)
    <2>1. {} \in SUBSET Sessions /\ "undo" \in Steps
      BY StepsAreTyped
    <2>2. QED
      BY <1>2, <2>1, QuitLeftMoves
  <1>3. ASSUME task' = [task EXCEPT ![t].quit = TRUE]
        PROVE  Moves(t, task[t].at, task[t].left, task[t].out, TRUE)
    BY <1>3 DEF TasksTyped, Moves, Others, TaskStates
  <1>4. QED
    BY <1>1, <1>2, <1>3, ReturnEnds DEF Cancel

\* Only the request that takes the step moves.
LEMMA OneMoves ==
    ASSUME TasksTyped, fresh \subseteq Sessions, delivered \subseteq Sessions,
           NEW t \in Tasks, Request(t) \/ Step(t) \/ Cancel(t)
    PROVE  task' \in [Tasks -> TaskStates] /\ Others(t)
<1> USE DEF Moves, Goes, Ends, Begins
<1>1. CASE Request(t)
  BY <1>1, CreateMoves, DeleteMoves, CallMoves, StopMoves DEF Request
<1>2. CASE DrainStep(t)
  BY <1>2, DrainMoves, DrainIoMoves, SweepMoves DEF DrainStep
<1>3. CASE Login(t) \/ Admit(t) \/ Insert(t) \/ Undo(t) \/ UndoIo(t)
  BY <1>3, LoginMoves, AdmitMoves, InsertMoves, UndoMoves, UndoIoMoves
<1>4. CASE Bind(t) \/ Clean(t) \/ Forget(t)
  BY <1>4, BindMoves, AnswerMoves, ForgetMoves DEF Clean
<1>5. CASE DeleteStep(t)
  BY <1>5, GotoMoves, StepsAreTyped, RevokeIoMoves DEF DeleteStep, Revoke
<1>6. CASE CallStep(t)
  <2>1. CASE Resolve(t) \/ Authorize(t)
    BY <2>1, GotoMoves, ReturnEnds, StepsAreTyped DEF Resolve, Authorize
  <2>2. CASE ResolveIo(t) \/ SourceAnswers(t) \/ SourceRejects(t)
    BY <2>2, GotoMoves, ReturnEnds, StepsAreTyped DEF ResolveIo, SourceAnswers, SourceRejects
  <2>3. CASE Mark(t) \/ MarkIo(t)
    BY <2>3, MarkMoves, MarkIoMoves
  <2>4. QED
    BY <1>6, <2>1, <2>2, <2>3 DEF CallStep
<1>7. CASE CloseStep(t)
  BY <1>7, GotoMoves, ReturnEnds, StepsAreTyped, FatalMoves, CloseIoMoves
     DEF CloseStep, Close, Checkpoint, Shut
<1>8. CASE Cancel(t)
  BY <1>8, CancelMoves
<1>9. QED
  BY <1>1, <1>2, <1>3, <1>4, <1>5, <1>6, <1>7, <1>8 DEF Step, CreateStep

-----------------------------------------------------------------------------
(* Where a request stands                                                  *)

\* The awaits during which a database thread runs and the vault's lock is held.
IoSteps == {"drain_io", "insert", "bind", "undo_io", "revoke_io", "resolve_io",
            "mark_io", "close_io"}

\* Each await belongs to one operation, which works for a session; the lock is
\* held by the request whose thread runs; a dead process has no requests.
PlacedAt(t) ==
    /\ task[t].at \in CreateSteps => task[t].op = "create"
    /\ task[t].at \in DeleteSteps => task[t].op = "delete"
    /\ task[t].at \in CallSteps => task[t].op = "call"
    /\ task[t].at \in DrainSteps \cup {"forget"} => task[t].op \in {"create", "delete", "call"}
    /\ task[t].at \notin {"idle"} \cup CloseSteps => task[t].s \in Sessions
    /\ task[t].at \in IoSteps => lock = t
    /\ ~up => task[t].at = "idle"

Placed == \A t \in Tasks : PlacedAt(t)

\* No request stands anywhere at the start.
LEMMA PlacedInit == Init => Placed
  BY DEF Init, Placed, PlacedAt, IdleTask, CreateSteps, DeleteSteps, CallSteps, DrainSteps,
         CloseSteps, IoSteps

\* The requests that did not move stay placed when the lock was free or t's.
LEMMA OthersPlaced ==
    ASSUME Placed, NEW t \in Tasks, Others(t), UNCHANGED up,
           lock' = lock \/ lock = NoTask \/ lock = t
    PROVE  \A u \in Tasks : u # t => PlacedAt(u)'
  BY Placeholders DEF Placed, PlacedAt, Others

\* Each step leaves every request where its operation may stand.
LEMMA PlacedStep == TypeOK /\ Placed /\ [Next]_vars => Placed'
<1> SUFFICES ASSUME TypeOK, Placed, [Next]_vars PROVE Placed'
  OBVIOUS
<1>0. /\ TasksTyped /\ fresh \subseteq Sessions /\ delivered \subseteq Sessions
      /\ NoTask \notin Tasks /\ NoSession \notin Sessions
      /\ \A t \in Tasks : PlacedAt(t)
  BY Placeholders DEF TasksTyped, TypeOK, Placed
<1> USE <1>0
<1> USE DEF PlacedAt, CreateSteps, DeleteSteps, CallSteps, DrainSteps, CloseSteps, IoSteps
<1> USE DEF processVars, recordVars, historyVars, Others, Begins, Moves, Goes, Ends, IdleTask
<1>1. ASSUME NEW t \in Tasks, Request(t) PROVE \A u \in Tasks : PlacedAt(u)'
  <2>1. CASE Create(t)
    <3>1. PICK s \in fresh : Begins(t, "drain", "create", s)
      BY <2>1, CreateMoves
    <3>2. up' = up /\ up = TRUE /\ lock' = lock
      BY <2>1 DEF Create
    <3>3. PlacedAt(t)'
      BY <3>1, <3>2
    <3>4. QED
      BY <3>1, <3>2, <3>3, OthersPlaced
  <2>2. CASE Delete(t)
    <3>1. PICK s \in delivered : Begins(t, "revoke", "delete", s)
      BY <2>2, DeleteMoves
    <3>2. up' = up /\ up = TRUE /\ lock' = lock
      BY <2>2 DEF Delete
    <3>3. PlacedAt(t)'
      BY <3>1, <3>2
    <3>4. QED
      BY <3>1, <3>2, <3>3, OthersPlaced
  <2>3. CASE Call(t)
    <3>1. PICK s \in delivered : Begins(t, "resolve", "call", s)
      BY <2>3, CallMoves
    <3>2. up' = up /\ up = TRUE /\ lock' = lock
      BY <2>3 DEF Call
    <3>3. PlacedAt(t)'
      BY <3>1, <3>2
    <3>4. QED
      BY <3>1, <3>2, <3>3, OthersPlaced
  <2>4. CASE Stop(t)
    BY <2>4, StopMoves DEF Stop
  <2>5. QED
    BY <1>1, <2>1, <2>2, <2>3, <2>4 DEF Request
<1>2. ASSUME NEW t \in Tasks, DrainStep(t) PROVE \A u \in Tasks : PlacedAt(u)'
  <2>1. CASE Drain(t)
    BY <2>1, DrainMoves DEF Drain
  <2>2. CASE DrainIo(t)
    BY <2>2, DrainIoMoves DEF DrainIo
  <2>3. CASE Sweep(t)
    <3>2. UNCHANGED <<up, lock>> /\ task[t].at = "sweep"
      BY <2>3 DEF Sweep
    <3>1. PlacedAt(t)'
      <4>1. CASE task[t].op = "create" /\ Moves(t, "login", {}, task[t].out, task[t].quit)
        BY <3>2, <4>1
      <4>2. CASE task[t].op = "call" /\ Moves(t, "forget", {}, task[t].out, task[t].quit)
        BY <3>2, <4>2
      <4>3. CASE task[t].op = "call" /\ Moves(t, "fatal", {}, task[t].out, task[t].quit)
        BY <3>2, <4>3
      <4>4. CASE Ends(t)
        BY <3>2, <4>4
      <4>5. QED
        BY <2>3, <4>1, <4>2, <4>3, <4>4, SweepMoves
    <3>3. QED
      BY <2>3, <3>1, <3>2, OneMoves, OthersPlaced DEF Step, DrainStep
  <2>4. QED
    BY <1>2, <2>1, <2>2, <2>3 DEF DrainStep
<1>3. ASSUME NEW t \in Tasks, CreateStep(t) PROVE \A u \in Tasks : PlacedAt(u)'
  <2>1. CASE Login(t)
    BY <2>1, LoginMoves DEF Login
  <2>2. CASE Admit(t)
    <3>1. PlacedAt(t)'
      BY <2>2, AdmitMoves DEF Admit
    <3>2. Others(t) /\ UNCHANGED up /\ (lock' = lock \/ lock = NoTask \/ lock = t)
      BY <2>2, AdmitMoves DEF Admit
    <3>3. QED
      BY <3>1, <3>2, OthersPlaced
  <2>3. CASE Insert(t)
    BY <2>3, InsertMoves DEF Insert
  <2>4. CASE Bind(t)
    <3>2. UNCHANGED up /\ lock = t /\ task[t].at = "bind"
      BY <2>4 DEF Bind
    <3>1. PlacedAt(t)'
      <4>1. CASE Ends(t)
        BY <3>2, <4>1
      <4>2. CASE Moves(t, "undo", {}, task[t].out, task[t].quit)
        BY <3>2, <4>2
      <4>3. CASE Goes(t, "clean")
        BY <3>2, <4>3
      <4>4. QED
        BY <2>4, <4>1, <4>2, <4>3, BindMoves
    <3>3. QED
      BY <2>4, <3>1, <3>2, OneMoves, OthersPlaced DEF Step, CreateStep
  <2>5. CASE Clean(t)
    BY <2>5, AnswerMoves DEF Clean
  <2>6. CASE Undo(t)
    BY <2>6, UndoMoves DEF Undo
  <2>7. CASE UndoIo(t)
    BY <2>7, UndoIoMoves DEF UndoIo
  <2>8. CASE Forget(t)
    BY <2>8, ForgetMoves DEF Forget
  <2>9. QED
    BY <1>3, <2>1, <2>2, <2>3, <2>4, <2>5, <2>6, <2>7, <2>8 DEF CreateStep
<1>4. ASSUME NEW t \in Tasks, DeleteStep(t) PROVE \A u \in Tasks : PlacedAt(u)'
  <2>1. CASE Revoke(t)
    BY <2>1, GotoMoves, StepsAreTyped DEF Revoke
  <2>2. CASE RevokeIo(t)
    BY <2>2, RevokeIoMoves DEF RevokeIo
  <2>3. QED
    BY <1>4, <2>1, <2>2 DEF DeleteStep
<1>5. ASSUME NEW t \in Tasks, CallStep(t) PROVE \A u \in Tasks : PlacedAt(u)'
  <2>1. CASE Resolve(t)
    BY <2>1, GotoMoves, ReturnEnds, StepsAreTyped DEF Resolve
  <2>2. CASE ResolveIo(t)
    BY <2>2, ReturnEnds DEF ResolveIo
  <2>3. CASE Authorize(t)
    BY <2>3, GotoMoves, ReturnEnds, StepsAreTyped DEF Authorize
  <2>4. CASE SourceAnswers(t)
    BY <2>4, ReturnEnds DEF SourceAnswers
  <2>5. CASE SourceRejects(t)
    BY <2>5, GotoMoves, ReturnEnds, StepsAreTyped DEF SourceRejects
  <2>6. CASE Mark(t)
    BY <2>6, MarkMoves DEF Mark
  <2>7. CASE MarkIo(t)
    BY <2>7, MarkIoMoves DEF MarkIo
  <2>8. QED
    BY <1>5, <2>1, <2>2, <2>3, <2>4, <2>5, <2>6, <2>7 DEF CallStep
<1>6. ASSUME NEW t \in Tasks, CloseStep(t) PROVE \A u \in Tasks : PlacedAt(u)'
  <2>1. CASE Fatal(t)
    <3>1. PlacedAt(t)'
      BY <2>1, FatalMoves DEF Fatal
    <3>2. Others(t) /\ UNCHANGED up /\ (lock' = lock \/ lock = NoTask \/ lock = t)
      BY <2>1, FatalMoves DEF Fatal
    <3>3. QED
      BY <3>1, <3>2, OthersPlaced
  <2>2. CASE Close(t)
    BY <2>2, GotoMoves, StepsAreTyped DEF Close
  <2>3. CASE CloseIo(t)
    BY <2>3, CloseIoMoves DEF CloseIo
  <2>4. CASE Checkpoint(t)
    BY <2>4, GotoMoves, StepsAreTyped DEF Checkpoint
  <2>5. CASE Shut(t)
    BY <2>5, ReturnEnds DEF Shut
  <2>6. QED
    BY <1>6, <2>1, <2>2, <2>3, <2>4, <2>5 DEF CloseStep
<1>7. ASSUME NEW t \in Tasks, Cancel(t) PROVE \A u \in Tasks : PlacedAt(u)'
  <2>2. UNCHANGED up /\ (lock' = lock \/ lock = NoTask \/ lock = t)
    BY <1>7 DEF Cancel
  <2>1. PlacedAt(t)'
    <3>1. CASE Ends(t) /\ task[t].at # "idle"
      BY <2>2, <3>1
    <3>2. ASSUME NEW left, Moves(t, "undo", left, task[t].out, TRUE),
                 task[t].at \in {"login", "create", "insert", "bind"}
          PROVE  PlacedAt(t)'
      BY <2>2, <3>2
    <3>3. CASE /\ Moves(t, task[t].at, task[t].left, task[t].out, TRUE) /\ UNCHANGED lock
               /\ task[t].at \in DrainSteps \cup {"clean"}
      BY <2>2, <3>3
    <3>4. QED
      BY <1>7, <3>1, <3>2, <3>3, CancelMoves
  <2>3. QED
    BY <1>7, <2>1, <2>2, OneMoves, OthersPlaced
<1>8. CASE LateWrite
  BY <1>8 DEF LateWrite, Placed
<1>9. CASE Tick
  BY <1>9 DEF Tick, Placed
<1>10. CASE Halt
  BY <1>10 DEF Halt, Placed
<1>11. CASE Start
  BY <1>11 DEF Start, Placed
<1>12. CASE UNCHANGED vars
  BY <1>12 DEF vars, Placed
<1>13. QED
  BY <1>1, <1>2, <1>3, <1>4, <1>5, <1>6, <1>7, <1>8, <1>9, <1>10, <1>11, <1>12
     DEF Next, Step, Placed

-----------------------------------------------------------------------------
(* Types                                                                   *)

\* Every variable has its type at the start.
LEMMA TypeInit == Init => TypeOK
  BY ConstantsOK DEF Init, TypeOK, IdleTask, TaskStates, Steps, Statuses, Never

\* Each step keeps the types.
LEMMA TypeStep == TypeOK /\ Placed /\ [Next]_vars => TypeOK'
<1> SUFFICES ASSUME TypeOK, Placed, [Next]_vars PROVE TypeOK'
  OBVIOUS
<1> USE DEF TypeOK, processVars, recordVars, historyVars
<1>0. TasksTyped /\ fresh \subseteq Sessions /\ delivered \subseteq Sessions
  BY DEF TasksTyped
<1>s. \A t \in Tasks :
          task[t].at \in {"bind", "clean", "revoke_io", "mark_io", "insert", "resolve_io"}
             => task[t].s \in Sessions
  BY DEF Placed, PlacedAt, CloseSteps
<1>1. ASSUME NEW t \in Tasks, Request(t) PROVE TypeOK'
  <2>1. CASE Create(t)
    <3>1. task' \in [Tasks -> TaskStates] /\ fresh' \subseteq Sessions
      BY <2>1, <1>0, CreateMoves DEF Begins
    <3>2. QED
      BY <2>1, <3>1 DEF Create
  <2>2. CASE Delete(t)
    <3>1. task' \in [Tasks -> TaskStates] /\ asked' \subseteq Sessions
      BY <2>2, <1>0, DeleteMoves DEF Begins
    <3>2. QED
      BY <2>2, <3>1 DEF Delete
  <2>3. CASE Call(t)
    BY <2>3, <1>0, CallMoves DEF Begins, Call
  <2>4. CASE Stop(t)
    BY <2>4, <1>0, StopMoves DEF Begins, Stop
  <2>5. QED
    BY <1>1, <2>1, <2>2, <2>3, <2>4 DEF Request
<1>2. ASSUME NEW t \in Tasks, DrainStep(t) PROVE TypeOK'
  <2>1. CASE Drain(t)
    BY <2>1, <1>0, DrainMoves, CollectedIsTyped DEF Drain, Goes, Moves, Ends
  <2>2. CASE DrainIo(t)
    BY <2>2, <1>0, DrainIoMoves DEF DrainIo, Goes, Moves, Ends, Put, Statuses
  <2>3. CASE Sweep(t)
    BY <2>3, <1>0, SweepMoves DEF Sweep, Moves, Ends, Put
  <2>4. QED
    BY <1>2, <2>1, <2>2, <2>3 DEF DrainStep
<1>3. ASSUME NEW t \in Tasks, CreateStep(t) PROVE TypeOK'
  <2>1. CASE Login(t)
    <3>1. srcEnds' \in [Sessions -> Nat]
      BY <2>1, ConstantsOK DEF Login, Never
    <3>2. QED
      BY <2>1, <3>1, <1>0, LoginMoves DEF Login, Goes, Moves
  <2>2. CASE Admit(t)
    <3>1. mem' \in [Sessions -> Statuses]
      BY <2>2, <1>0, AdmitMoves, CollectedIsTyped DEF Statuses
    <3>2. ends' \in [Sessions -> Nat] /\ lock' \in Tasks \cup {NoTask}
      BY <2>2, <1>0, AdmitMoves, ConstantsOK
    <3>3. task' \in [Tasks -> TaskStates]
      BY <2>2, <1>0, AdmitMoves DEF Goes, Moves
    <3>4. QED
      BY <2>2, <3>1, <3>2, <3>3 DEF Admit
  <2>3. CASE Insert(t)
    <3>1. disk' \in [Sessions -> Statuses] /\ mem' \in [Sessions -> Statuses]
      BY <2>3, <1>0, InsertMoves DEF Statuses
    <3>2. QED
      BY <2>3, <3>1, <1>0, InsertMoves DEF Insert, Goes, Moves
  <2>5. CASE Bind(t)
    <3>1. task' \in [Tasks -> TaskStates] /\ Others(t)
      BY <1>0, <1>3, OneMoves DEF Step
    <3>2. delivered' \subseteq Sessions
      <4>1. delivered' = delivered \/ delivered' = delivered \cup {task[t].s}
        BY <2>5, <1>0, BindMoves
      <4>2. QED
        BY <4>1, <1>0, <1>s, <2>5 DEF Bind
    <3>3. QED
      BY <2>5, <3>1, <3>2 DEF Bind
  <2>6. CASE Clean(t)
    BY <2>6, <1>0, <1>s, AnswerMoves DEF Clean, Put, Moves, Ends
  <2>7. CASE Undo(t)
    BY <2>7, <1>0, UndoMoves DEF Undo, Goes, Moves
  <2>8. CASE UndoIo(t)
    BY <2>8, <1>0, UndoIoMoves DEF UndoIo, Goes, Moves, Statuses
  <2>9. CASE Forget(t)
    BY <2>9, <1>0, ForgetMoves DEF Forget, Goes, Moves, Ends
  <2>10. QED
    BY <1>3, <2>1, <2>2, <2>3, <2>5, <2>6, <2>7, <2>8, <2>9 DEF CreateStep
<1>4. ASSUME NEW t \in Tasks, DeleteStep(t) PROVE TypeOK'
  <2>1. CASE Revoke(t)
    BY <2>1, <1>0, GotoMoves, StepsAreTyped DEF Revoke, Goes, Moves
  <2>2. CASE RevokeIo(t)
    BY <2>2, <1>0, <1>s, RevokeIoMoves DEF RevokeIo, Goes, Moves, Statuses
  <2>3. QED
    BY <1>4, <2>1, <2>2 DEF DeleteStep
<1>5. ASSUME NEW t \in Tasks, CallStep(t) PROVE TypeOK'
  <2> USE DEF Goes, Moves, Ends
  <2>1. CASE Resolve(t)
    BY <2>1, <1>0, GotoMoves, ReturnEnds, StepsAreTyped DEF Resolve, Statuses
  <2>2. CASE ResolveIo(t)
    BY <2>2, <1>0, ReturnEnds DEF ResolveIo, Persisted, Statuses
  <2>3. CASE Authorize(t)
    BY <2>3, <1>0, GotoMoves, ReturnEnds, StepsAreTyped DEF Authorize
  <2>4. CASE SourceAnswers(t)
    BY <2>4, <1>0, ReturnEnds DEF SourceAnswers
  <2>5. CASE SourceRejects(t)
    BY <2>5, <1>0, GotoMoves, ReturnEnds, StepsAreTyped DEF SourceRejects
  <2>6. CASE Mark(t)
    BY <2>6, <1>0, MarkMoves DEF Mark, Statuses
  <2>7. CASE MarkIo(t)
    <3>1. task' \in [Tasks -> TaskStates]
      BY <2>7, <1>0, MarkIoMoves DEF Goes, Moves
    <3>2. marked' \subseteq Sessions
      BY <2>7, <1>0, <1>s, MarkIoMoves DEF MarkIo
    <3>3. QED
      BY <2>7, <3>1, <3>2 DEF MarkIo, Statuses
  <2>8. QED
    BY <1>5, <2>1, <2>2, <2>3, <2>4, <2>5, <2>6, <2>7 DEF CallStep
<1>6. ASSUME NEW t \in Tasks, CloseStep(t) PROVE TypeOK'
  <2> USE DEF Goes, Moves, Ends
  <2>1. CASE Fatal(t)
    BY <2>1, <1>0, FatalMoves DEF Fatal
  <2>2. CASE Close(t)
    BY <2>2, <1>0, GotoMoves, StepsAreTyped DEF Close
  <2>3. CASE CloseIo(t)
    <3>1. task' \in [Tasks -> TaskStates]
      BY <2>3, <1>0, CloseIoMoves DEF Goes, Moves
    <3>2. QED
      BY <2>3, <3>1 DEF CloseIo, Statuses
  <2>4. CASE Checkpoint(t)
    BY <2>4, <1>0, GotoMoves, StepsAreTyped DEF Checkpoint, Statuses
  <2>5. CASE Shut(t)
    BY <2>5, <1>0, ReturnEnds DEF Shut
  <2>6. QED
    BY <1>6, <2>1, <2>2, <2>3, <2>4, <2>5 DEF CloseStep
<1>7. ASSUME NEW t \in Tasks, Cancel(t) PROVE TypeOK'
  <2>1. task' \in [Tasks -> TaskStates]
    BY <1>7, <1>0, CancelMoves DEF Moves, Ends
  <2>2. late' \subseteq [kind : {"insert", "reauth"}, s : Sessions]
    <3>1. \/ late' = late
          \/ task[t].s \in Sessions /\ late' = late \cup {[kind |-> "reauth", s |-> task[t].s]}
          \/ task[t].s \in Sessions /\ late' = late \cup {[kind |-> "insert", s |-> task[t].s]}
      BY <1>7, <1>0, <1>s, CancelMoves
    <3>2. QED
      BY <3>1
  <2>3. mem' \in [Sessions -> Statuses] /\ lock' \in Tasks \cup {NoTask}
    BY <1>7, <1>0, CancelMoves DEF Statuses
  <2>4. QED
    BY <1>7, <2>1, <2>2, <2>3 DEF Cancel
<1>8. CASE LateWrite
  BY <1>8 DEF LateWrite, Persisted, Statuses
<1>9. CASE Tick
  BY <1>9, ConstantsOK DEF Tick
<1>10. CASE Halt
  BY <1>10, IdleIsTyped DEF Halt, Statuses
<1>11. CASE Start
  BY <1>11 DEF Start, Statuses
<1>12. CASE UNCHANGED vars
  BY <1>12 DEF vars
<1>13. QED
  BY <1>1, <1>2, <1>3, <1>4, <1>5, <1>6, <1>7, <1>8, <1>9, <1>10, <1>11, <1>12 DEF Next, Step

-----------------------------------------------------------------------------
(* Who owns a session that no client knows yet                             *)

\* A create before its row may exist, until its answer, and until its rollback.
Unwritten(t) ==
    \/ task[t].at \in {"login", "create", "insert"}
    \/ task[t].op = "create" /\ task[t].at \in DrainSteps
Making(t) == Unwritten(t) \/ task[t].at \in {"bind", "clean"}
Owning(t) == Making(t) \/ task[t].at \in {"undo", "undo_io"}

\* A step of t that begins nothing: t is done, or it goes on with the same
\* session and never from the rollback back to the making.
Proceeds(t) ==
    \/ Ends(t)
    \/ /\ Others(t)
       /\ task'[t].s = task[t].s /\ task'[t].op = task[t].op
       /\ Unwritten(t)' => Unwritten(t)
       /\ Making(t)' => Making(t)
       /\ Owning(t)' => Owning(t)

\* No step of a request but its first gives it a session.
LEMMA StepsProceed ==
    ASSUME TasksTyped, Placed, NEW t \in Tasks, Step(t) \/ Cancel(t)
    PROVE  Proceeds(t)
<1> USE DEF Proceeds, Moves, Goes, Unwritten, Making, Owning, DrainSteps
<1>0. PlacedAt(t)
  BY DEF Placed
<1>1. CASE Drain(t)
  BY <1>1, DrainMoves DEF Drain
<1>2. CASE DrainIo(t)
  BY <1>2, DrainIoMoves DEF DrainIo
<1>3. CASE Sweep(t)
  BY <1>3, SweepMoves DEF Sweep
<1>4. CASE Login(t) \/ Admit(t) \/ Insert(t)
  BY <1>4, LoginMoves, AdmitMoves, InsertMoves DEF Login, Admit, Insert
<1>5. CASE Undo(t) \/ UndoIo(t) \/ Forget(t)
  BY <1>5, UndoMoves, UndoIoMoves, ForgetMoves DEF Undo
<1>6. CASE Bind(t) \/ Clean(t)
  BY <1>6, BindMoves, AnswerMoves DEF Bind, Clean
<1>7. CASE DeleteStep(t)
  BY <1>0, <1>7, GotoMoves, StepsAreTyped, RevokeIoMoves
     DEF DeleteStep, Revoke, RevokeIo, PlacedAt, DeleteSteps
<1>8. CASE Resolve(t) \/ Authorize(t)
  BY <1>8, GotoMoves, ReturnEnds, StepsAreTyped DEF Resolve, Authorize
<1>9. CASE ResolveIo(t) \/ SourceAnswers(t) \/ SourceRejects(t)
  BY <1>9, GotoMoves, ReturnEnds, StepsAreTyped DEF ResolveIo, SourceAnswers, SourceRejects
<1>10. CASE Mark(t) \/ MarkIo(t)
  BY <1>0, <1>10, MarkMoves, MarkIoMoves DEF Mark, MarkIo, PlacedAt, CallSteps
<1>11. CASE CloseStep(t)
  BY <1>11, GotoMoves, ReturnEnds, StepsAreTyped, FatalMoves, CloseIoMoves
     DEF CloseStep, Close, Checkpoint, Shut
<1>12. CASE Cancel(t)
  BY <1>12, CancelMoves
<1>13. QED
  BY <1>1, <1>2, <1>3, <1>4, <1>5, <1>6, <1>7, <1>8, <1>9, <1>10, <1>11, <1>12
     DEF Step, DrainStep, CreateStep, CallStep

\* One request owns a session nobody was given; the others work for delivered ones.
Owned ==
    /\ fresh \cap delivered = {}
    /\ \A t \in Tasks : Owning(t) => task[t].s \notin fresh \cup delivered
    /\ \A t, u \in Tasks : Owning(t) /\ Owning(u) /\ task[t].s = task[u].s => t = u
    /\ \A t \in Tasks : task[t].op \in {"delete", "call"} => task[t].s \in delivered

\* Nobody owns a session at the start.
LEMMA OwnedInit == Init => Owned
  BY DEF Init, Owned, Owning, Making, Unwritten, IdleTask, DrainSteps

\* Nothing changes hands in a step that delivers nothing.
LEMMA OwnedKept ==
    ASSUME Owned, NEW t \in Tasks, Proceeds(t), UNCHANGED <<fresh, delivered>>
    PROVE  Owned'
  BY DEF Owned, Proceeds, Ends, Others, Owning, Making, Unwritten, IdleTask, DrainSteps

\* A session passes from the fresh ones to one create and from it to its client.
LEMMA OwnedStep == TypeOK /\ Placed /\ Owned /\ [Next]_vars => Owned'
<1> SUFFICES ASSUME TypeOK, Placed, Owned, [Next]_vars PROVE Owned'
  OBVIOUS
<1>0. TasksTyped /\ fresh \subseteq Sessions /\ delivered \subseteq Sessions
  BY DEF TypeOK, TasksTyped
<1> USE <1>0
<1>1. ASSUME NEW t \in Tasks, Create(t) PROVE Owned'
  <2>1. PICK s \in fresh : fresh' = fresh \ {s} /\ Begins(t, "drain", "create", s)
    BY <1>1, CreateMoves
  <2>2. delivered' = delivered
    BY <1>1 DEF Create
  <2>3. QED
    BY <2>1, <2>2 DEF Owned, Begins, Others, Owning, Making, Unwritten, DrainSteps
<1>2. ASSUME NEW t \in Tasks, NEW s \in delivered, NEW at \in {"revoke", "resolve"},
             NEW op \in {"delete", "call"}, Begins(t, at, op, s), UNCHANGED <<fresh, delivered>>
      PROVE  Owned'
  BY <1>2 DEF Owned, Begins, Others, Owning, Making, Unwritten, DrainSteps
<1>3. ASSUME NEW t \in Tasks, Delete(t) \/ Call(t) PROVE Owned'
  BY <1>2, <1>3, DeleteMoves, CallMoves DEF Delete, Call, historyVars
<1>4. ASSUME NEW t \in Tasks, Stop(t) PROVE Owned'
  <2>1. Begins(t, "checkpoint", "stop", NoSession) /\ UNCHANGED <<fresh, delivered>>
    BY <1>4, StopMoves DEF Stop, historyVars
  <2>2. QED
    BY <2>1 DEF Owned, Begins, Others, Owning, Making, Unwritten, DrainSteps
<1>5. ASSUME NEW t \in Tasks, Bind(t) \/ Clean(t) PROVE Owned'
  <2>1. Proceeds(t) /\ Making(t) /\ fresh' = fresh
    BY <1>5, StepsProceed DEF Step, CreateStep, Bind, Clean, Making
  <2>2. \/ delivered' = delivered
        \/ delivered' = delivered \cup {task[t].s} /\ Ends(t)
    BY <1>5, BindMoves, AnswerMoves DEF Clean
  <2>3. CASE delivered' = delivered
    BY <2>1, <2>3, OwnedKept
  <2>4. CASE delivered' = delivered \cup {task[t].s} /\ Ends(t)
    BY <2>1, <2>4 DEF Owned, Ends, Others, Owning, Making, Unwritten, IdleTask, DrainSteps
  <2>5. QED
    BY <2>2, <2>3, <2>4
<1>6. ASSUME NEW t \in Tasks, Step(t) \/ Cancel(t), ~Bind(t), ~Clean(t) PROVE Owned'
  <2>1. UNCHANGED <<fresh, delivered>>
    BY <1>6 DEF Step, DrainStep, CreateStep, DeleteStep, CallStep, CloseStep, historyVars,
       Drain, DrainIo, Sweep, Login, Admit, Insert, Undo, UndoIo, Forget, Revoke, RevokeIo,
       Resolve, ResolveIo, Authorize, SourceAnswers, SourceRejects, Mark, MarkIo,
       Fatal, Close, CloseIo, Checkpoint, Shut, Cancel
  <2>2. QED
    BY <1>6, <2>1, StepsProceed, OwnedKept
<1>7. CASE LateWrite \/ Tick \/ Start \/ UNCHANGED vars
  <2>1. UNCHANGED <<task, fresh, delivered>>
    BY <1>7 DEF LateWrite, Tick, Start, vars, historyVars
  <2>2. QED
    BY <2>1 DEF Owned, Owning, Making, Unwritten
<1>8. CASE Halt
  BY <1>8 DEF Halt, historyVars, Owned, Owning, Making, Unwritten, IdleTask, DrainSteps
<1>9. QED
  BY <1>1, <1>3, <1>4, <1>5, <1>6, <1>7, <1>8 DEF Next, Request

-----------------------------------------------------------------------------
(* Erased sessions                                                         *)

\* Before its insert a session has no row and is not erased; a late insert is
\* of a session nobody holds, makes or was given.
Unborn ==
    /\ \A s \in fresh : s \notin erased /\ disk[s] = "none"
    /\ \A t \in Tasks : Unwritten(t) => task[t].s \notin erased /\ disk[task[t].s] = "none"
    /\ \A w \in late : w.kind = "insert" =>
          /\ w.s \notin fresh \cup delivered \cup erased
          /\ disk[w.s] = "none"
          /\ \A t \in Tasks : Making(t) => task[t].s # w.s

\* No session has a row at the start.
LEMMA UnbornInit == Init => Unborn
  BY DEF Init, Unborn, Unwritten, Making, IdleTask, DrainSteps

\* No step but an insert writes the row of a session that was not delivered.
WritesDelivered ==
    /\ \A s \in Sessions \ delivered : disk[s] = "none" => disk'[s] = "none"
    /\ \A s \in Sessions \ delivered : s \in erased' => s \in erased \/ disk[s] # "none"

\* Steps that write only rows of delivered sessions leave the others unborn.
LEMMA UnbornKept ==
    ASSUME TypeOK, Placed, Owned, Unborn, NEW t \in Tasks, Proceeds(t), WritesDelivered,
           UNCHANGED <<fresh, delivered, late>>
    PROVE  Unborn'
<1>1. fresh \subseteq Sessions \ delivered
  BY DEF TypeOK, Owned
<1>2. \A u \in Tasks : Unwritten(u) => task[u].s \in Sessions \ delivered
  BY DEF Placed, PlacedAt, CloseSteps, Owned, Owning, Making, Unwritten, DrainSteps
<1>3. \A w \in late : w.kind = "insert" => w.s \in Sessions \ delivered
  BY DEF TypeOK, Unborn
<1>4. \A u \in Tasks : /\ Unwritten(u)' => Unwritten(u) /\ task'[u].s = task[u].s
                       /\ Making(u)' => Making(u) /\ task'[u].s = task[u].s
  BY DEF Proceeds, Ends, Others, Making, Unwritten, IdleTask, DrainSteps
<1>5. \A s \in fresh' : s \notin erased' /\ disk'[s] = "none"
  BY <1>1 DEF Unborn, WritesDelivered
<1>6. \A u \in Tasks : Unwritten(u)' => task'[u].s \notin erased' /\ disk'[task'[u].s] = "none"
  BY <1>2, <1>4 DEF Unborn, WritesDelivered
<1>7. ASSUME NEW w \in late', w.kind = "insert"
      PROVE  /\ w.s \notin fresh' \cup delivered' \cup erased'
             /\ disk'[w.s] = "none"
             /\ \A u \in Tasks : Making(u)' => task'[u].s # w.s
  BY <1>3, <1>4, <1>7 DEF Unborn, WritesDelivered
<1>8. QED
  BY <1>5, <1>6, <1>7 DEF Unborn

\* Each step leaves a session without a row until its insert.
LEMMA UnbornStep == TypeOK /\ Placed /\ Owned /\ Unborn /\ [Next]_vars => Unborn'
<1> SUFFICES ASSUME TypeOK, Placed, Owned, Unborn, [Next]_vars PROVE Unborn'
  OBVIOUS
<1>0. TasksTyped /\ fresh \subseteq Sessions /\ delivered \subseteq Sessions
      /\ \A t \in Tasks : PlacedAt(t)
  BY DEF TypeOK, TasksTyped, Placed
<1> USE <1>0
<1>1. ASSUME NEW t \in Tasks, Create(t) PROVE Unborn'
  <2>1. PICK s \in fresh : fresh' = fresh \ {s} /\ Begins(t, "drain", "create", s)
    BY <1>1, CreateMoves
  <2>2. UNCHANGED <<delivered, erased, late, disk>>
    BY <1>1 DEF Create, recordVars
  <2>3. QED
    BY <2>1, <2>2 DEF Unborn, Begins, Others, Making, Unwritten, DrainSteps
<1>2. ASSUME NEW t \in Tasks, Delete(t) \/ Call(t) \/ Stop(t) PROVE Unborn'
  <2>1. UNCHANGED <<fresh, delivered, erased, late, disk>>
    BY <1>2 DEF Delete, Call, Stop, historyVars, recordVars
  <2>2. Others(t) /\ task'[t].at \in {"revoke", "resolve", "checkpoint"} /\ task'[t].op # "create"
    <3>1. CASE Delete(t)
      <4>1. PICK s \in delivered : Begins(t, "revoke", "delete", s)
        BY <3>1, DeleteMoves
      <4>2. QED
        BY <4>1 DEF Begins
    <3>2. CASE Call(t)
      <4>1. PICK s \in delivered : Begins(t, "resolve", "call", s)
        BY <3>2, CallMoves
      <4>2. QED
        BY <4>1 DEF Begins
    <3>3. CASE Stop(t)
      BY <3>3, StopMoves DEF Begins
    <3>4. QED
      BY <1>2, <3>1, <3>2, <3>3
  <2>3. QED
    BY <2>1, <2>2 DEF Unborn, Others, Making, Unwritten
<1>3. ASSUME NEW t \in Tasks, Bind(t) \/ Clean(t) PROVE Unborn'
  <2>1. Proceeds(t) /\ Making(t) /\ UNCHANGED <<fresh, erased, late, disk>>
    BY <1>3, StepsProceed DEF Step, CreateStep, Bind, Clean, Making, recordVars
  <2>2. delivered' \subseteq delivered \cup {task[t].s}
    BY <1>3, BindMoves, AnswerMoves DEF Clean
  <2>3. QED
    BY <2>1, <2>2 DEF Unborn, Proceeds, Ends, Others, Making, Unwritten, IdleTask, DrainSteps
<1>4. ASSUME NEW t \in Tasks, Insert(t) PROVE Unborn'
  <2>1. Proceeds(t) /\ Making(t) /\ Unwritten(t) /\ ~Unwritten(t)'
    BY <1>4, StepsProceed, InsertMoves
       DEF Step, CreateStep, Insert, Making, Unwritten, Moves, Goes, PlacedAt, CreateSteps,
           DrainSteps
  <2>2. UNCHANGED <<fresh, delivered, erased, late>>
    BY <1>4 DEF Insert, historyVars
  <2>3. \A s \in Sessions : s # task[t].s => disk'[s] = disk[s]
    BY <1>4 DEF Insert, TypeOK
  <2>4. \A u \in Tasks : Unwritten(u) => task[u].s \in Sessions
    BY DEF PlacedAt, CloseSteps, Unwritten, DrainSteps
  <2>5. \A u \in Tasks : /\ Unwritten(u)' => u # t /\ Unwritten(u) /\ task'[u].s = task[u].s
                         /\ Making(u)' => Making(u) /\ task'[u].s = task[u].s
    BY <2>1 DEF Proceeds, Ends, Others, Making, Unwritten, IdleTask, DrainSteps
  <2>6. task[t].s \notin fresh /\ \A u \in Tasks : Unwritten(u) /\ u # t => task[u].s # task[t].s
    BY <2>1 DEF Owned, Owning, Making
  <2>7. \A s \in fresh' : s \notin erased' /\ disk'[s] = "none"
    BY <2>2, <2>3, <2>6 DEF Unborn
  <2>8. \A u \in Tasks : Unwritten(u)' => task'[u].s \notin erased' /\ disk'[task'[u].s] = "none"
    BY <2>2, <2>3, <2>4, <2>5, <2>6 DEF Unborn
  <2>9. ASSUME NEW w \in late', w.kind = "insert"
        PROVE  /\ w.s \notin fresh' \cup delivered' \cup erased'
               /\ disk'[w.s] = "none"
               /\ \A u \in Tasks : Making(u)' => task'[u].s # w.s
    BY <2>1, <2>2, <2>3, <2>5, <2>9 DEF Unborn, TypeOK
  <2>10. QED
    BY <2>7, <2>8, <2>9 DEF Unborn
<1>5. ASSUME NEW t \in Tasks, Cancel(t) PROVE Unborn'
  <2>1. Proceeds(t) /\ UNCHANGED <<fresh, delivered, erased, disk>>
    BY <1>5, StepsProceed DEF Cancel, historyVars
  <2>2. CASE \A w \in late' : w.kind = "insert" => w \in late
    BY <2>1, <2>2 DEF Unborn, Proceeds, Ends, Others, Making, Unwritten, IdleTask, DrainSteps
  <2>3. CASE /\ task[t].at = "insert" /\ late' = late \cup {[kind |-> "insert", s |-> task[t].s]}
             /\ Moves(t, "undo", {}, task[t].out, TRUE)
    <3>1. Unwritten(t) /\ Making(t) /\ ~Making(t)'
      BY <2>3 DEF Unwritten, Making, Moves, PlacedAt, CreateSteps, DrainSteps
    <3>2. \A u \in Tasks : /\ Unwritten(u)' => Unwritten(u) /\ task'[u].s = task[u].s
                           /\ Making(u)' => u # t /\ Making(u) /\ task'[u].s = task[u].s
      BY <2>1, <3>1 DEF Proceeds, Ends, Others, Making, Unwritten, IdleTask, DrainSteps
    <3>3. /\ task[t].s \notin fresh \cup delivered \cup erased /\ disk[task[t].s] = "none"
          /\ \A u \in Tasks : Making(u) /\ u # t => task[u].s # task[t].s
      BY <3>1 DEF Owned, Owning, Unborn
    <3>4. ASSUME NEW w \in late', w.kind = "insert"
          PROVE  /\ w.s \notin fresh' \cup delivered' \cup erased'
                 /\ disk'[w.s] = "none"
                 /\ \A u \in Tasks : Making(u)' => task'[u].s # w.s
      BY <2>1, <2>3, <3>2, <3>3, <3>4 DEF Unborn
    <3>5. QED
      BY <2>1, <3>2, <3>4 DEF Unborn
  <2>4. QED
    <3>1. \/ late' = late \/ late' = late \cup {[kind |-> "reauth", s |-> task[t].s]}
          \/ /\ task[t].at = "insert" /\ late' = late \cup {[kind |-> "insert", s |-> task[t].s]}
             /\ Moves(t, "undo", {}, task[t].out, TRUE)
      BY <1>5, CancelMoves
    <3>2. CASE late' = late \/ late' = late \cup {[kind |-> "reauth", s |-> task[t].s]}
      BY <2>2, <3>2
    <3>3. QED
      BY <2>3, <3>1, <3>2
<1>6. ASSUME NEW t \in Tasks, Step(t), ~Bind(t), ~Clean(t), ~Insert(t) PROVE Unborn'
  <2>1. UNCHANGED <<fresh, delivered, late>>
    BY <1>6 DEF Step, DrainStep, CreateStep, DeleteStep, CallStep, CloseStep, historyVars,
       Drain, DrainIo, Sweep, Login, Admit, Undo, UndoIo, Forget, Revoke, RevokeIo,
       Resolve, ResolveIo, Authorize, SourceAnswers, SourceRejects, Mark, MarkIo,
       Fatal, Close, CloseIo, Checkpoint, Shut
  <2>2. WritesDelivered
    <3>1. CASE UNCHANGED <<disk, erased>>
      BY <3>1 DEF WritesDelivered
    <3>2. CASE DrainIo(t) \/ UndoIo(t) \/ ResolveIo(t)
      BY <3>2 DEF DrainIo, UndoIo, ResolveIo, WritesDelivered, Put, Persisted, TypeOK, historyVars
    <3>3. CASE RevokeIo(t) \/ MarkIo(t)
      <4>1. task[t].s \in delivered
        BY <3>3 DEF Owned, RevokeIo, MarkIo, PlacedAt, DeleteSteps, CallSteps
      <4>2. QED
        BY <3>3, <4>1 DEF RevokeIo, MarkIo, WritesDelivered, TypeOK
    <3>4. CASE CloseIo(t)
      BY <3>4 DEF CloseIo, WritesDelivered
    <3>5. QED
      BY <1>6, <3>1, <3>2, <3>3, <3>4
         DEF Step, DrainStep, CreateStep, DeleteStep, CallStep, CloseStep, historyVars, recordVars,
             Drain, Sweep, Login, Admit, Undo, Forget, Revoke, Resolve, Authorize,
             SourceAnswers, SourceRejects, Mark, Fatal, Close, Checkpoint, Shut
  <2>3. QED
    BY <1>6, <2>1, <2>2, StepsProceed, UnbornKept
<1>7. CASE LateWrite
  <2>1. PICK w \in late :
            /\ late' = late \ {w}
            /\ \/ w.kind = "insert" /\ disk' = [disk EXCEPT ![w.s] = "active"]
               \/ w.kind = "reauth" /\ disk' = Persisted(w.s)
               \/ UNCHANGED disk
    BY <1>7 DEF LateWrite
  <2>2. UNCHANGED <<fresh, delivered, erased, task>>
    BY <1>7 DEF LateWrite, historyVars
  <2>3. \A s \in Sessions : disk[s] = "none" => disk'[s] = "none" \/ (w.kind = "insert" /\ s = w.s)
    BY <2>1 DEF Persisted, TypeOK
  <2>4. \A v \in late' : v.kind = "insert" /\ w.kind = "insert" => v.s # w.s
    BY <2>1 DEF TypeOK
  <2>5. \A u \in Tasks : Unwritten(u) => task[u].s \in Sessions
    BY DEF PlacedAt, CloseSteps, Unwritten, DrainSteps
  <2>6. \A u \in Tasks : (Unwritten(u)' <=> Unwritten(u)) /\ (Making(u)' <=> Making(u))
    BY <2>2 DEF Unwritten, Making
  <2>7. \A s \in fresh' : s \notin erased' /\ disk'[s] = "none"
    BY <2>2, <2>3 DEF Unborn
  <2>8. \A u \in Tasks : Unwritten(u)' => task'[u].s \notin erased' /\ disk'[task'[u].s] = "none"
    BY <2>2, <2>3, <2>5, <2>6 DEF Unborn, Making
  <2>9. ASSUME NEW v \in late', v.kind = "insert"
        PROVE  /\ v.s \notin fresh' \cup delivered' \cup erased'
               /\ disk'[v.s] = "none"
               /\ \A u \in Tasks : Making(u)' => task'[u].s # v.s
    BY <2>1, <2>2, <2>3, <2>4, <2>6, <2>9 DEF Unborn, TypeOK
  <2>10. QED
    BY <2>7, <2>8, <2>9 DEF Unborn
<1>8. CASE Halt
  BY <1>8 DEF Halt, historyVars, Unborn, Making, Unwritten, IdleTask, DrainSteps
<1>9. CASE Start
  <2>1. UNCHANGED <<fresh, delivered, erased, task, late>>
    BY <1>9 DEF Start, historyVars
  <2>2. \A s \in Sessions : disk[s] = "none" => disk'[s] = "none"
    BY <1>9 DEF Start
  <2>3. \A u \in Tasks : Unwritten(u) => task[u].s \in Sessions
    BY DEF PlacedAt, CloseSteps, Unwritten, DrainSteps
  <2>4. QED
    BY <2>1, <2>2, <2>3 DEF Unborn, Making, Unwritten, TypeOK
<1>10. CASE Tick \/ UNCHANGED vars
  <2>1. UNCHANGED <<fresh, delivered, erased, disk, late, task>>
    BY <1>10 DEF Tick, vars, historyVars, recordVars
  <2>2. QED
    BY <2>1 DEF Unborn, Making, Unwritten
<1>11. QED
  BY <1>1, <1>2, <1>3, <1>4, <1>5, <1>6, <1>7, <1>8, <1>9, <1>10 DEF Next, Request

\* The 401 that rewrites a row holds the lock, so its record stays active.
MarkHeld == \A t \in Tasks : task[t].at = "mark_io" => mem[task[t].s] = "active"

\* The index changes only under the lock, or while it is free.
LEMMA IndexIsLocked ==
    ASSUME TypeOK, Placed, NEW t \in Tasks, Request(t) \/ Step(t) \/ Cancel(t)
    PROVE  \A u \in Tasks : u # t /\ task[u].at \in IoSteps => mem' = mem
<1> SUFFICES ASSUME NEW u \in Tasks, u # t, task[u].at \in IoSteps PROVE mem' = mem
  OBVIOUS
<1>1. lock = u /\ lock # NoTask /\ (task[t].at \in IoSteps => lock = t)
  BY Placeholders DEF Placed, PlacedAt
<1>2. task[t].at \notin IoSteps /\ lock # NoTask
  BY <1>1
<1>3. QED
  BY <1>2
     DEF Request, Create, Delete, Call, Stop, Step, DrainStep, CreateStep, DeleteStep, CallStep,
         CloseStep, recordVars, IoSteps,
         Drain, DrainIo, Sweep, Login, Admit, Insert, Bind, Clean, Undo, UndoIo, Forget, Revoke,
         RevokeIo, Resolve, ResolveIo, Authorize, SourceAnswers, SourceRejects, Mark, MarkIo,
         Fatal, Close, CloseIo, Checkpoint, Shut, Cancel

\* A request is sent, or comes to record the requirement, by these steps only.
LEMMA CallEntered ==
    ASSUME TypeOK, Placed, NEW t \in Tasks, Request(t) \/ Step(t) \/ Cancel(t),
           task'[t].at \in {"wait", "mark", "mark_io"}
    PROVE  Authorize(t) \/ SourceRejects(t) \/ Mark(t)
<1> SUFFICES ASSUME ~Authorize(t), ~SourceRejects(t), ~Mark(t) PROVE FALSE
  OBVIOUS
<1>0. TasksTyped /\ fresh \subseteq Sessions /\ delivered \subseteq Sessions
  BY DEF TypeOK, TasksTyped
<1> USE <1>0 DEF Moves, Goes, Ends, IdleTask
<1>1. CASE Request(t)
  <2>1. PICK at \in {"drain", "revoke", "resolve", "checkpoint"} :
            \E op, s : Begins(t, at, op, s)
    BY <1>1, CreateMoves, DeleteMoves, CallMoves, StopMoves DEF Request
  <2>2. QED
    BY <2>1 DEF Begins
<1>2. CASE DrainStep(t)
  BY <1>2, DrainMoves, DrainIoMoves, SweepMoves DEF DrainStep
<1>3. CASE Login(t) \/ Admit(t) \/ Insert(t) \/ Undo(t) \/ UndoIo(t)
  BY <1>3, LoginMoves, AdmitMoves, InsertMoves, UndoMoves, UndoIoMoves
<1>4. CASE Bind(t) \/ Clean(t) \/ Forget(t)
  BY <1>4, BindMoves, AnswerMoves, ForgetMoves DEF Clean
<1>5. CASE DeleteStep(t)
  BY <1>5, GotoMoves, StepsAreTyped, RevokeIoMoves DEF DeleteStep, Revoke
<1>6. CASE Resolve(t) \/ ResolveIo(t) \/ SourceAnswers(t)
  BY <1>6, GotoMoves, ReturnEnds, StepsAreTyped DEF Resolve, ResolveIo, SourceAnswers
<1>7. CASE MarkIo(t)
  BY <1>7, MarkIoMoves
<1>8. CASE CloseStep(t)
  BY <1>8, GotoMoves, ReturnEnds, StepsAreTyped, FatalMoves, CloseIoMoves
     DEF CloseStep, Close, Checkpoint, Shut
<1>9. CASE Cancel(t)
  <2>1. \/ Ends(t)
        \/ \E left : Moves(t, "undo", left, task[t].out, TRUE)
        \/ /\ Moves(t, task[t].at, task[t].left, task[t].out, TRUE)
           /\ task[t].at \in DrainSteps \cup {"clean"}
    BY <1>9, CancelMoves
  <2>2. QED
    BY <2>1 DEF DrainSteps
<1>10. QED
  BY <1>1, <1>2, <1>3, <1>4, <1>5, <1>6, <1>7, <1>8, <1>9 DEF Step, CreateStep, CallStep

\* Each step leaves the record of a 401 being written active.
LEMMA MarkHeldStep == TypeOK /\ Placed /\ MarkHeld /\ [Next]_vars => MarkHeld'
<1> SUFFICES ASSUME TypeOK, Placed, MarkHeld, [Next]_vars PROVE MarkHeld'
  OBVIOUS
<1>0. TasksTyped /\ fresh \subseteq Sessions /\ delivered \subseteq Sessions
  BY DEF TypeOK, TasksTyped
<1>1. ASSUME NEW t \in Tasks, Request(t) \/ Step(t) \/ Cancel(t) PROVE MarkHeld'
  <2>1. Others(t)
    BY <1>0, <1>1, OneMoves
  <2>2. \A u \in Tasks : u # t /\ task[u].at = "mark_io" => mem' = mem
    BY <1>1, IndexIsLocked DEF IoSteps
  <2>3. task'[t].at = "mark_io" => mem'[task'[t].s] = "active"
    <3>1. CASE Mark(t)
      BY <1>0, <3>1, MarkMoves DEF Moves, Goes, Lives
    <3>2. CASE Authorize(t) \/ SourceRejects(t)
      BY <1>0, <3>2, GotoMoves, ReturnEnds, StepsAreTyped
         DEF Authorize, SourceRejects, Moves, Goes, Ends, IdleTask
    <3>3. QED
      BY <1>1, <3>1, <3>2, CallEntered
  <2>4. QED
    BY <2>1, <2>2, <2>3 DEF MarkHeld, Others
<1>2. CASE LateWrite \/ Tick \/ UNCHANGED vars
  BY <1>2 DEF LateWrite, Tick, vars, recordVars, MarkHeld
<1>3. CASE Halt
  BY <1>3 DEF Halt, MarkHeld, IdleTask
<1>4. CASE Start
  BY <1>4 DEF Start, MarkHeld, Placed, PlacedAt
<1>5. QED
  BY <1>1, <1>2, <1>3, <1>4 DEF Next

\* Steps that bring nothing back leave the erased sessions erased.
LEMMA ErasedKept ==
    ASSUME ErasedStaysErased, erased \subseteq Sessions, erased' = erased,
           \A s \in erased : mem[s] = "none" => mem'[s] = "none",
           \A s \in erased : disk[s] = "none" => disk'[s] = "none"
    PROVE  ErasedStaysErased'
  BY DEF ErasedStaysErased

\* Each step leaves the erased sessions erased.
LEMMA ErasedStep ==
    TypeOK /\ Placed /\ Owned /\ Unborn /\ MarkHeld /\ ErasedStaysErased /\ [Next]_vars
        => ErasedStaysErased'
<1> SUFFICES ASSUME TypeOK, Placed, Owned, Unborn, MarkHeld, ErasedStaysErased, [Next]_vars
             PROVE  ErasedStaysErased'
  OBVIOUS
<1>0. /\ TasksTyped /\ fresh \subseteq Sessions /\ delivered \subseteq Sessions
      /\ erased \subseteq Sessions /\ \A t \in Tasks : PlacedAt(t)
      /\ mem \in [Sessions -> Statuses] /\ disk \in [Sessions -> Statuses]
  BY DEF TypeOK, TasksTyped, Placed
<1>c. \A s \in Sessions : mem[s] = "none" => Collected[s] = "none"
  BY DEF Collected, NeedsReauth, Expired
<1>1. ASSUME NEW t \in Tasks, Request(t) PROVE ErasedStaysErased'
  BY <1>0, <1>1, ErasedKept DEF Request, Create, Delete, Call, Stop, recordVars, historyVars
<1>2. ASSUME NEW t \in Tasks, DrainStep(t) PROVE ErasedStaysErased'
  BY <1>0, <1>c, <1>2, ErasedKept DEF DrainStep, Drain, DrainIo, Sweep, Put, recordVars, historyVars
<1>3. ASSUME NEW t \in Tasks, Admit(t) PROVE ErasedStaysErased'
  <2>1. task[t].s \notin erased /\ UNCHANGED <<erased, disk>>
    BY <1>3 DEF Admit, Unborn, Unwritten, historyVars
  <2>2. \A s \in erased : mem[s] = "none" => mem'[s] = "none"
    BY <1>0, <1>c, <1>3, <2>1, AdmitMoves DEF NeedsReauth, Collected
  <2>3. QED
    BY <1>0, <2>1, <2>2, ErasedKept
<1>4. ASSUME NEW t \in Tasks, Insert(t) PROVE ErasedStaysErased'
  <2>1. task[t].s \notin erased /\ UNCHANGED erased
    BY <1>4 DEF Insert, Unborn, Unwritten, historyVars
  <2>2. QED
    BY <1>0, <1>4, <2>1, ErasedKept DEF Insert
<1>5. ASSUME NEW t \in Tasks, Login(t) \/ Bind(t) \/ Clean(t) \/ Undo(t) \/ Forget(t)
      PROVE  ErasedStaysErased'
  BY <1>0, <1>5, ErasedKept DEF Login, Bind, Clean, Undo, Forget, recordVars, historyVars
<1>6. ASSUME NEW t \in Tasks, UndoIo(t) PROVE ErasedStaysErased'
  BY <1>0, <1>6, ErasedKept DEF UndoIo, historyVars
<1>7. ASSUME NEW t \in Tasks, DeleteStep(t) PROVE ErasedStaysErased'
  <2>1. CASE Revoke(t)
    BY <1>0, <2>1, ErasedKept DEF Revoke, recordVars, historyVars
  <2>2. CASE RevokeIo(t)
    <3>1. task[t].s \in Sessions
      BY <1>0, <2>2 DEF RevokeIo, PlacedAt, CloseSteps
    <3>2. \/ /\ disk' = [disk EXCEPT ![task[t].s] = "none"]
             /\ mem' = [mem EXCEPT ![task[t].s] = "none"]
             /\ erased' = erased \cup {task[t].s}
          \/ UNCHANGED <<disk, mem, erased>>
      BY <2>2 DEF RevokeIo
    <3>3. QED
      BY <1>0, <3>1, <3>2 DEF ErasedStaysErased
  <2>3. QED
    BY <1>7, <2>1, <2>2 DEF DeleteStep
<1>8. ASSUME NEW t \in Tasks, Resolve(t) \/ Mark(t) PROVE ErasedStaysErased'
  BY <1>0, <1>8, ErasedKept DEF Resolve, Mark, NeedsReauth, historyVars
<1>9. ASSUME NEW t \in Tasks, ResolveIo(t) PROVE ErasedStaysErased'
  BY <1>0, <1>9, ErasedKept DEF ResolveIo, Persisted, historyVars
<1>10. ASSUME NEW t \in Tasks, Authorize(t) \/ SourceAnswers(t) \/ SourceRejects(t)
       PROVE  ErasedStaysErased'
  BY <1>0, <1>10, ErasedKept DEF Authorize, SourceAnswers, SourceRejects, recordVars, historyVars
<1>11. ASSUME NEW t \in Tasks, MarkIo(t) PROVE ErasedStaysErased'
  <2>1. mem[task[t].s] = "active" /\ task[t].s \notin erased /\ UNCHANGED erased
    BY <1>11 DEF MarkIo, MarkHeld, ErasedStaysErased
  <2>2. QED
    BY <1>0, <1>11, <2>1, ErasedKept DEF MarkIo
<1>12. ASSUME NEW t \in Tasks, CloseStep(t) PROVE ErasedStaysErased'
  <2>1. CASE CloseIo(t)
    BY <1>0, <2>1 DEF CloseIo, ErasedStaysErased
  <2>2. CASE ~CloseIo(t)
    BY <1>0, <1>12, <2>2, ErasedKept
       DEF CloseStep, Fatal, Close, Checkpoint, Shut, recordVars, historyVars
  <2>3. QED
    BY <2>1, <2>2
<1>13. ASSUME NEW t \in Tasks, Cancel(t) PROVE ErasedStaysErased'
  BY <1>0, <1>13, ErasedKept DEF Cancel, historyVars
<1>14. CASE LateWrite
  <2>1. PICK w \in late :
            \/ w.kind = "insert" /\ disk' = [disk EXCEPT ![w.s] = "active"]
            \/ w.kind = "reauth" /\ disk' = Persisted(w.s)
            \/ UNCHANGED disk
    BY <1>14 DEF LateWrite
  <2>2. UNCHANGED <<mem, erased>> /\ (w.kind = "insert" => w.s \notin erased)
    BY <1>14 DEF LateWrite, historyVars, Unborn
  <2>3. QED
    BY <1>0, <2>1, <2>2, ErasedKept DEF Persisted
<1>15. CASE Tick \/ UNCHANGED vars
  BY <1>0, <1>15, ErasedKept DEF Tick, vars, recordVars, historyVars
<1>16. CASE Halt
  BY <1>0, <1>16, ErasedKept DEF Halt, historyVars
<1>17. CASE Start
  BY <1>0, <1>17 DEF Start, historyVars, ErasedStaysErased
<1>18. QED
  BY <1>1, <1>2, <1>3, <1>4, <1>5, <1>6, <1>7, <1>8, <1>9, <1>10, <1>11, <1>12, <1>13, <1>14,
     <1>15, <1>16, <1>17 DEF Next, Step, CreateStep, CallStep

-----------------------------------------------------------------------------
(* Marked sessions                                                         *)

\* The requirement is on disk and the token is gone before it is recorded; a
\* request on its way to record it has seen its token refused or dropped.
Marked ==
    /\ marked \subseteq delivered
    /\ \A s \in marked : auth[s] # "bound" /\ disk[s] # "active"
    /\ \A t \in Tasks : task[t].at \in {"mark", "mark_io"} => auth[task[t].s] # "bound"

\* No session is marked at the start.
LEMMA MarkedInit == Init => Marked
  BY DEF Init, Marked, IdleTask

\* A token is bound only for a session nobody was given, and a row becomes
\* active only for such a one.
LEMMA MarkedKept ==
    ASSUME TypeOK, Placed, Owned, Marked, NEW t \in Tasks, Request(t) \/ Step(t) \/ Cancel(t),
           delivered \subseteq delivered', marked' = marked,
           \A s \in delivered : auth[s] # "bound" => auth'[s] # "bound",
           \A s \in delivered : disk[s] # "active" => disk'[s] # "active"
    PROVE  Marked'
<1>0. TasksTyped /\ fresh \subseteq Sessions /\ delivered \subseteq Sessions
  BY DEF TypeOK, TasksTyped
<1>1. Others(t)
  BY <1>0, OneMoves
<1>2. \A u \in Tasks : task[u].at \in {"mark", "mark_io"} => task[u].s \in delivered
  BY DEF Placed, PlacedAt, CallSteps, Owned
<1>3. ASSUME task'[t].at \in {"mark", "mark_io"} PROVE auth'[task'[t].s] # "bound"
  <2>1. Authorize(t) \/ SourceRejects(t) \/ Mark(t)
    BY <1>3, CallEntered
  <2>2. CASE Mark(t)
    <3>1. task[t].at = "mark" /\ auth' = auth /\ task'[t].s = task[t].s
      BY <1>0, <1>3, <2>2, MarkMoves DEF Mark, Moves, Goes
    <3>2. QED
      BY <3>1 DEF Marked
  <2>3. CASE Authorize(t)
    <3>1. \/ Goes(t, "wait") \/ Ends(t)
          \/ Goes(t, "mark") /\ auth' = [auth EXCEPT ![task[t].s] = "reauth"]
      BY <1>0, <2>3, GotoMoves, ReturnEnds, StepsAreTyped DEF Authorize
    <3>2. task[t].s \in Sessions
      BY <2>3 DEF Authorize, Placed, PlacedAt, CloseSteps
    <3>3. QED
      BY <1>3, <3>1, <3>2 DEF Moves, Goes, Ends, IdleTask, TypeOK
  <2>4. CASE SourceRejects(t)
    <3>1. \/ Ends(t)
          \/ /\ Goes(t, "mark")
             /\ auth' = IF auth[task[t].s] = "bound"
                        THEN [auth EXCEPT ![task[t].s] = "reauth"] ELSE auth
      BY <1>0, <2>4, GotoMoves, ReturnEnds, StepsAreTyped DEF SourceRejects
    <3>2. task[t].s \in Sessions
      BY <2>4 DEF SourceRejects, Placed, PlacedAt, CloseSteps
    <3>3. QED
      BY <1>3, <3>1, <3>2 DEF Moves, Goes, Ends, IdleTask, TypeOK
  <2>5. QED
    BY <2>1, <2>2, <2>3, <2>4
<1>4. QED
  BY <1>1, <1>2, <1>3 DEF Marked, Others

\* Each step leaves a marked session without a bound token or an active row.
LEMMA MarkedStep ==
    TypeOK /\ Placed /\ Owned /\ Unborn /\ Marked /\ [Next]_vars => Marked'
<1> SUFFICES ASSUME TypeOK, Placed, Owned, Unborn, Marked, [Next]_vars PROVE Marked'
  OBVIOUS
<1>0. /\ TasksTyped /\ fresh \subseteq Sessions /\ delivered \subseteq Sessions
      /\ auth \in [Sessions -> {"none", "bound", "reauth"}] /\ disk \in [Sessions -> Statuses]
      /\ \A t \in Tasks : PlacedAt(t)
  BY DEF TypeOK, TasksTyped, Placed
<1>1. ASSUME NEW t \in Tasks, Request(t) PROVE Marked'
  BY <1>0, <1>1, MarkedKept DEF Request, Create, Delete, Call, Stop, recordVars, historyVars
<1>2. ASSUME NEW t \in Tasks, DrainStep(t) PROVE Marked'
  BY <1>0, <1>2, MarkedKept DEF Step, DrainStep, Drain, DrainIo, Sweep, Put, recordVars, historyVars
<1>3. ASSUME NEW t \in Tasks, CreateStep(t) PROVE Marked'
  <2>1. Making(t) => task[t].s \notin delivered
    BY DEF Owned, Owning
  <2>2. CASE Insert(t) \/ Bind(t) \/ Clean(t)
    <3>1. task[t].s \notin delivered
      BY <2>1, <2>2 DEF Insert, Bind, Clean, Making, Unwritten
    <3>2. marked' = marked /\ delivered \subseteq delivered'
      BY <2>2, <1>0, BindMoves, AnswerMoves DEF Insert, Bind, Clean, historyVars
    <3>3. /\ \A s \in delivered : auth[s] # "bound" => auth'[s] # "bound"
          /\ \A s \in delivered : disk[s] # "active" => disk'[s] # "active"
      BY <1>0, <2>2, <3>1 DEF Insert, Bind, Clean, Put, recordVars
    <3>4. QED
      BY <1>3, <3>2, <3>3, MarkedKept DEF Step
  <2>3. CASE Login(t) \/ Admit(t) \/ Undo(t) \/ UndoIo(t) \/ Forget(t)
    <3>1. UNCHANGED <<marked, delivered>>
      BY <2>3 DEF Login, Admit, Undo, UndoIo, Forget, historyVars
    <3>2. /\ \A s \in delivered : auth[s] # "bound" => auth'[s] # "bound"
          /\ \A s \in delivered : disk[s] # "active" => disk'[s] # "active"
      BY <1>0, <2>3 DEF Login, Admit, Undo, UndoIo, Forget, recordVars
    <3>3. QED
      BY <1>3, <3>1, <3>2, MarkedKept DEF Step
  <2>4. QED
    BY <1>3, <2>2, <2>3 DEF CreateStep
<1>4. ASSUME NEW t \in Tasks, DeleteStep(t) PROVE Marked'
  BY <1>0, <1>4, MarkedKept DEF Step, DeleteStep, Revoke, RevokeIo, recordVars, historyVars
<1>5. ASSUME NEW t \in Tasks, CallStep(t), ~MarkIo(t) PROVE Marked'
  <2>1. UNCHANGED <<marked, delivered>>
    BY <1>5 DEF CallStep, Resolve, ResolveIo, Authorize, SourceAnswers, SourceRejects, Mark,
                historyVars
  <2>2. \A s \in delivered : disk[s] # "active" => disk'[s] # "active"
    BY <1>0, <1>5 DEF CallStep, Resolve, ResolveIo, Persisted, Authorize, SourceAnswers,
                      SourceRejects, Mark, recordVars
  <2>3. \A s \in delivered : auth[s] # "bound" => auth'[s] # "bound"
    BY <1>0, <1>5 DEF CallStep, Resolve, ResolveIo, Authorize, SourceAnswers, SourceRejects, Mark
  <2>4. QED
    BY <1>5, <2>1, <2>2, <2>3, MarkedKept DEF Step
<1>6. ASSUME NEW t \in Tasks, MarkIo(t) PROVE Marked'
  <2>1. /\ task[t].at = "mark_io" /\ task[t].s \in delivered /\ auth[task[t].s] # "bound"
        /\ UNCHANGED <<delivered, auth>>
    BY <1>0, <1>6 DEF MarkIo, PlacedAt, CallSteps, Owned, Marked
  <2>2. Others(t) /\ task'[t].at \notin {"mark", "mark_io"}
    BY <1>0, <1>6, MarkIoMoves DEF Moves
  <2>3. /\ marked' \subseteq marked \cup {task[t].s}
        /\ \A s \in Sessions : s # task[t].s => disk'[s] = disk[s]
        /\ (disk'[task[t].s] = disk[task[t].s] /\ marked' = marked) \/ disk'[task[t].s] = "reauth"
    BY <1>0, <1>6, <2>1 DEF MarkIo
  <2>4. QED
    BY <1>0, <2>1, <2>2, <2>3 DEF Marked, Others
<1>7. ASSUME NEW t \in Tasks, CloseStep(t) PROVE Marked'
  BY <1>0, <1>7, MarkedKept DEF Step, CloseStep, Fatal, Close, CloseIo, Checkpoint, Shut,
                                recordVars, historyVars
<1>8. ASSUME NEW t \in Tasks, Cancel(t) PROVE Marked'
  BY <1>0, <1>8, MarkedKept DEF Cancel, historyVars
<1>9. CASE LateWrite
  <2>1. PICK w \in late :
            \/ w.kind = "insert" /\ disk' = [disk EXCEPT ![w.s] = "active"]
            \/ w.kind = "reauth" /\ disk' = Persisted(w.s)
            \/ UNCHANGED disk
    BY <1>9 DEF LateWrite
  <2>2. UNCHANGED <<auth, marked, delivered, task>> /\ (w.kind = "insert" => w.s \notin delivered)
    BY <1>9 DEF LateWrite, historyVars, Unborn
  <2>3. QED
    BY <1>0, <2>1, <2>2 DEF Persisted, Marked
<1>10. CASE Tick \/ UNCHANGED vars
  BY <1>10 DEF Tick, vars, recordVars, historyVars, Marked
<1>11. CASE Halt
  BY <1>0, <1>11 DEF Halt, historyVars, IdleTask, Marked
<1>12. CASE Start
  <2>1. UNCHANGED <<marked, delivered, task>> /\ \A t \in Tasks : task[t].at = "idle"
    BY <1>0, <1>12 DEF Start, historyVars, PlacedAt
  <2>2. \A s \in Sessions : disk[s] # "active" => disk'[s] # "active" /\ auth'[s] # "bound"
    BY <1>12 DEF Start
  <2>3. QED
    BY <1>0, <2>1, <2>2 DEF Marked
<1>13. QED
  BY <1>1, <1>2, <1>3, <1>4, <1>5, <1>6, <1>7, <1>8, <1>9, <1>10, <1>11, <1>12 DEF Next, Step

\* What the code does under "never sends again": it only sends a bound token.
LEMMA SendStep ==
    ASSUME TypeOK, Placed, Marked, [Next]_vars
    PROVE  \A t \in Tasks : task'[t].at = "wait" /\ ~At(t, "wait") => task[t].s \notin marked
<1> SUFFICES ASSUME NEW u \in Tasks, task'[u].at = "wait", task[u].at # "wait"
             PROVE  task[u].s \notin marked
  OBVIOUS
<1>0. TasksTyped /\ fresh \subseteq Sessions /\ delivered \subseteq Sessions
  BY DEF TypeOK, TasksTyped
<1>1. ASSUME NEW t \in Tasks, Request(t) \/ Step(t) \/ Cancel(t) PROVE task[u].s \notin marked
  <2>1. u = t
    BY <1>0, <1>1, OneMoves DEF Others
  <2>2. Authorize(t) \/ SourceRejects(t) \/ Mark(t)
    BY <1>1, <2>1, CallEntered
  <2>3. CASE Authorize(t)
    <3>1. \/ auth[task[t].s] = "bound" \/ Goes(t, "mark") \/ Ends(t)
      BY <1>0, <2>3, GotoMoves, ReturnEnds, StepsAreTyped DEF Authorize
    <3>2. QED
      BY <2>1, <3>1 DEF Marked, Moves, Goes, Ends, IdleTask
  <2>4. CASE SourceRejects(t)
    BY <2>1, <2>4 DEF SourceRejects
  <2>5. CASE Mark(t)
    BY <1>0, <2>1, <2>5, MarkMoves DEF Moves, Goes
  <2>6. QED
    BY <2>2, <2>3, <2>4, <2>5
<1>2. CASE LateWrite \/ Tick \/ Start \/ UNCHANGED vars
  BY <1>2 DEF LateWrite, Tick, Start, vars
<1>3. CASE Halt
  BY <1>3 DEF Halt, IdleTask
<1>4. QED
  BY <1>1, <1>2, <1>3 DEF Next

-----------------------------------------------------------------------------
(* Rows that last                                                          *)

\* A session whose row is missing although nothing erased it in its lifetime.
Lost(s) == disk[s] = "none" /\ s \notin erased /\ now < ends[s]

\* A create about to answer, or to hand its session to the client.
Answering(t) == task[t].at \in {"bind", "clean"}

Durable ==
    /\ \A s \in delivered \ asked : ~Lost(s)
    /\ \A t \in Tasks : Answering(t) => ~Lost(task[t].s)
    /\ \A t \in Tasks : task[t].at = "drain_io" => \A s \in task[t].left : now >= ends[s]
    /\ \A t \in Tasks : task[t].op = "delete" => task[t].s \in asked

\* Nothing is lost at the start.
LEMMA DurableInit == Init => Durable
  BY DEF Init, Durable, Answering, IdleTask

\* What is proved of the rows is what the clients rely on.
LEMMA DurableMeans == TypeOK /\ Durable => SessionsAreDurable
  BY DEF TypeOK, Durable, Lost, SessionsAreDurable, ReliedOn

\* The rows of those who still rely on theirs last through a step.
RowsLast ==
    \A s \in Sessions :
        s \in delivered \ asked \/ (\E t \in Tasks : Answering(t) /\ task[t].s = s) =>
            (~Lost(s) => ~Lost(s)')

\* Only the lock's holder, or a request that finds it free, moves the expiries.
LEMMA ExpiryIsLocked ==
    ASSUME TypeOK, Placed, NEW t \in Tasks, Request(t) \/ Step(t) \/ Cancel(t)
    PROVE  \A u \in Tasks : u # t /\ task[u].at \in IoSteps => ends' = ends
<1> SUFFICES ASSUME NEW u \in Tasks, u # t, task[u].at \in IoSteps PROVE ends' = ends
  OBVIOUS
<1>1. lock # NoTask
  BY Placeholders DEF Placed, PlacedAt
<1>2. QED
  BY <1>1
     DEF Request, Create, Delete, Call, Stop, Step, DrainStep, CreateStep, DeleteStep, CallStep,
         CloseStep, recordVars,
         Drain, DrainIo, Sweep, Login, Admit, Insert, Bind, Clean, Undo, UndoIo, Forget, Revoke,
         RevokeIo, Resolve, ResolveIo, Authorize, SourceAnswers, SourceRejects, Mark, MarkIo,
         Fatal, Close, CloseIo, Checkpoint, Shut, Cancel

\* A request comes to delete rows or to answer by these steps only.
LEMMA AnswerEntered ==
    ASSUME TypeOK, Placed, NEW t \in Tasks, Request(t) \/ Step(t) \/ Cancel(t)
    PROVE  /\ task'[t].at = "drain_io" => Drain(t) \/ (Cancel(t) /\ task[t].at = "drain_io")
           /\ Answering(t)' => Insert(t) \/ (Answering(t) /\ task'[t].s = task[t].s)
           /\ task'[t].at = "insert" => Admit(t)
<1>0. TasksTyped /\ fresh \subseteq Sessions /\ delivered \subseteq Sessions
  BY DEF TypeOK, TasksTyped
<1> SUFFICES ASSUME ~Insert(t), ~Drain(t), ~Admit(t)
             PROVE  /\ task'[t].at = "drain_io" => Cancel(t) /\ task[t].at = "drain_io"
                    /\ Answering(t)' => Answering(t) /\ task'[t].s = task[t].s
                    /\ task'[t].at # "insert"
  <2>1. CASE Insert(t)
    BY <1>0, <2>1, InsertMoves DEF Moves, Goes
  <2>2. CASE Drain(t)
    BY <1>0, <2>2, DrainMoves DEF Moves, Goes, Ends, IdleTask, Answering
  <2>3. CASE Admit(t)
    BY <1>0, <2>3, AdmitMoves DEF Moves, Goes, Answering
  <2>4. QED
    BY <2>1, <2>2, <2>3
<1> USE <1>0 DEF Moves, Goes, Ends, IdleTask, Answering
<1>1. CASE Request(t)
  <2>1. PICK at \in {"drain", "revoke", "resolve", "checkpoint"} :
            \E op, s : Begins(t, at, op, s)
    BY <1>1, CreateMoves, DeleteMoves, CallMoves, StopMoves DEF Request
  <2>2. QED
    BY <2>1 DEF Begins
<1>2. CASE DrainIo(t) \/ Sweep(t)
  BY <1>2, DrainIoMoves, SweepMoves
<1>3. CASE Login(t) \/ Undo(t) \/ UndoIo(t)
  BY <1>3, LoginMoves, UndoMoves, UndoIoMoves
<1>4. CASE Bind(t) \/ Clean(t) \/ Forget(t)
  <2>1. CASE Bind(t)
    <3>1. task[t].at = "bind"
      BY <2>1 DEF Bind
    <3>2. QED
      BY <2>1, <3>1, BindMoves
  <2>2. CASE Clean(t)
    BY <2>2, AnswerMoves DEF Clean
  <2>3. CASE Forget(t)
    BY <2>3, ForgetMoves
  <2>4. QED
    BY <1>4, <2>1, <2>2, <2>3
<1>5. CASE DeleteStep(t)
  BY <1>5, GotoMoves, StepsAreTyped, RevokeIoMoves DEF DeleteStep, Revoke
<1>6. CASE Resolve(t) \/ Authorize(t)
  BY <1>6, GotoMoves, ReturnEnds, StepsAreTyped DEF Resolve, Authorize
<1>7. CASE ResolveIo(t) \/ SourceAnswers(t) \/ SourceRejects(t)
  BY <1>7, GotoMoves, ReturnEnds, StepsAreTyped DEF ResolveIo, SourceAnswers, SourceRejects
<1>8. CASE Mark(t) \/ MarkIo(t)
  BY <1>8, MarkMoves, MarkIoMoves
<1>9. CASE CloseStep(t)
  BY <1>9, GotoMoves, ReturnEnds, StepsAreTyped, FatalMoves, CloseIoMoves
     DEF CloseStep, Close, Checkpoint, Shut
<1>10. CASE Cancel(t)
  <2>1. \/ Ends(t)
        \/ \E left : Moves(t, "undo", left, task[t].out, TRUE)
        \/ /\ Moves(t, task[t].at, task[t].left, task[t].out, TRUE)
           /\ task[t].at \in DrainSteps \cup {"clean"}
    BY <1>10, CancelMoves
  <2>2. QED
    BY <1>10, <2>1 DEF DrainSteps
<1>11. QED
  BY <1>1, <1>2, <1>3, <1>4, <1>5, <1>6, <1>7, <1>8, <1>9, <1>10
     DEF Step, DrainStep, CreateStep, CallStep

\* What the purge collects has expired: a stale record still within its Gateway
\* lifetime is kept to be refused.
LEMMA ExpiredIsPast == TypeOK => \A s \in ExpiredRecords : now >= ends[s]
  BY DEF TypeOK, ExpiredRecords, Expired, Lives, NeedsReauth, SourceStale, Statuses

\* Steps that keep the rows of those who rely on them lose none.
LEMMA DurableKept ==
    ASSUME TypeOK, Placed, Durable, NEW t \in Tasks, Request(t) \/ Step(t) \/ Cancel(t),
           ~Insert(t), ~Drain(t), RowsLast, UNCHANGED <<now, ends, delivered>>,
           asked \subseteq asked', task'[t].op = "delete" => task'[t].s \in asked'
    PROVE  Durable'
<1>0. TasksTyped /\ fresh \subseteq Sessions /\ delivered \subseteq Sessions
      /\ \A u \in Tasks : Answering(u) => task[u].s \in Sessions
  BY DEF TypeOK, TasksTyped, Placed, PlacedAt, CloseSteps, Answering
<1>1. Others(t)
  BY <1>0, OneMoves
<1>2. \A s \in delivered' \ asked' : ~Lost(s)'
  BY <1>0 DEF Durable, RowsLast
<1>3. \A u \in Tasks : Answering(u)' => Answering(u) /\ task'[u].s = task[u].s
  BY <1>1, AnswerEntered DEF Others, Answering
<1>4. \A u \in Tasks : Answering(u)' => ~Lost(task[u].s)'
  BY <1>0, <1>3 DEF Durable, RowsLast
<1>5. \A u \in Tasks : task'[u].at = "drain_io" =>
          task[u].at = "drain_io" /\ task'[u].left = task[u].left
  <2>1. ASSUME task'[t].at = "drain_io"
        PROVE  task[t].at = "drain_io" /\ task'[t].left = task[t].left
    <3>1. Cancel(t) /\ task[t].at = "drain_io"
      BY <2>1, AnswerEntered
    <3>2. QED
      BY <1>0, <3>1, <2>1, CancelMoves DEF Moves, Ends, IdleTask
  <2>2. QED
    BY <1>1, <2>1 DEF Others
<1>6. \A u \in Tasks : task'[u].at = "drain_io" => \A s \in task'[u].left : now' >= ends'[s]
  BY <1>5 DEF Durable
<1>7. \A u \in Tasks : task'[u].op = "delete" => task'[u].s \in asked'
  BY <1>1 DEF Durable, Others
<1>8. QED
  BY <1>2, <1>4, <1>6, <1>7 DEF Durable

\* Each step keeps the row of every session its client relies on.
LEMMA DurableStep ==
    TypeOK /\ Placed /\ Owned /\ Durable /\ [Next]_vars => Durable'
<1> SUFFICES ASSUME TypeOK, Placed, Owned, Durable, [Next]_vars PROVE Durable'
  OBVIOUS
<1>0. /\ TasksTyped /\ fresh \subseteq Sessions /\ delivered \subseteq Sessions
      /\ now \in Nat /\ ends \in [Sessions -> Nat] /\ disk \in [Sessions -> Statuses]
      /\ \A t \in Tasks : PlacedAt(t)
  BY DEF TypeOK, TasksTyped, Placed
<1>1. ASSUME NEW t \in Tasks, Step(t) \/ Cancel(t) \/ Create(t) \/ Call(t) \/ Stop(t)
      PROVE  asked' = asked /\ (task'[t].op = "delete" => task'[t].s \in asked')
  <2>1. asked' = asked
    BY <1>1 DEF Create, Call, Stop, Step, DrainStep, CreateStep, DeleteStep, CallStep, CloseStep,
       historyVars, Drain, DrainIo, Sweep, Login, Admit, Insert, Bind, Clean, Undo, UndoIo, Forget,
       Revoke, RevokeIo, Resolve, ResolveIo, Authorize, SourceAnswers, SourceRejects, Mark, MarkIo,
       Fatal, Close, CloseIo, Checkpoint, Shut, Cancel
  <2>2. CASE Step(t) \/ Cancel(t)
    BY <2>1, <2>2, <1>0, StepsProceed DEF Proceeds, Ends, IdleTask, Durable
  <2>3. CASE Create(t) \/ Call(t) \/ Stop(t)
    <3>1. PICK op \in {"create", "call", "stop"} : \E at, s : Begins(t, at, op, s)
      BY <2>3, <1>0, CreateMoves, CallMoves, StopMoves
    <3>2. QED
      BY <2>1, <3>1 DEF Begins
  <2>4. QED
    BY <1>1, <2>2, <2>3
<1>2. ASSUME NEW t \in Tasks, Step(t) \/ Cancel(t) \/ Create(t) \/ Call(t) \/ Stop(t),
             ~Insert(t), ~Drain(t), RowsLast, UNCHANGED <<now, ends, delivered>>
      PROVE  Durable'
  BY <1>1, <1>2, DurableKept DEF Request
<1>3. UNCHANGED <<now, disk, ends, erased>> => RowsLast
  BY DEF RowsLast, Lost
<1>4. ASSUME NEW t \in Tasks, Create(t) \/ Call(t) \/ Stop(t), ~Insert(t), ~Drain(t) PROVE Durable'
  BY <1>2, <1>3, <1>4 DEF Create, Call, Stop, recordVars, historyVars
<1>5. ASSUME NEW t \in Tasks, Delete(t) PROVE Durable'
  <2>1. PICK s \in delivered : asked' = asked \cup {s} /\ Begins(t, "revoke", "delete", s)
    BY <1>0, <1>5, DeleteMoves
  <2>2. UNCHANGED <<now, disk, ends, erased, delivered>>
    BY <1>5 DEF Delete, recordVars, historyVars
  <2>3. QED
    BY <2>1, <2>2 DEF Begins, Others, Durable, Lost, Answering
<1>6. ASSUME NEW t \in Tasks, Drain(t) PROVE Durable'
  <2>1. UNCHANGED <<now, disk, ends, erased, delivered, asked>>
    BY <1>6 DEF Drain, historyVars
  <2>2. Others(t) /\ task'[t].op \in {task[t].op, "none"} /\ ~Answering(t)'
        /\ (task'[t].op # "none" => task'[t].s = task[t].s)
        /\ (task'[t].at = "drain_io" => task'[t].left = ExpiredRecords)
    BY <1>0, <1>6, DrainMoves DEF Moves, Goes, Ends, IdleTask, Answering
  <2>3. \A s \in ExpiredRecords : now >= ends[s]
    BY ExpiredIsPast
  <2>4. QED
    BY <2>1, <2>2, <2>3 DEF Others, Durable, Lost, Answering
<1>7. ASSUME NEW t \in Tasks, DrainIo(t) PROVE Durable'
  <2>1. RowsLast /\ UNCHANGED <<now, ends, delivered>>
    BY <1>0, <1>7 DEF DrainIo, Put, Durable, RowsLast, Lost, historyVars
  <2>2. QED
    BY <1>2, <1>7, <2>1 DEF Step, DrainStep, DrainIo, Drain, Insert
<1>8. ASSUME NEW t \in Tasks, Admit(t) PROVE Durable'
  <2>1. /\ UNCHANGED <<now, disk, erased, delivered, asked>> /\ task[t].at = "create"
        /\ ends' = ends \/ ends' = [ends EXCEPT ![task[t].s] = now + Ttl]
    BY <1>8 DEF Admit, historyVars
  <2>2. /\ task[t].s \notin delivered
        /\ \A u \in Tasks : Answering(u) => task[u].s \in Sessions /\ task[u].s # task[t].s
    BY <1>0, <2>1 DEF Owned, Owning, Making, Unwritten, Answering, PlacedAt, CloseSteps
  <2>3. /\ Others(t) /\ task'[t].op = task[t].op /\ task'[t].s = task[t].s
        /\ task'[t].at \in {"insert", "undo"} /\ ~Answering(t)'
    BY <1>0, <1>8, AdmitMoves DEF Moves, Goes, Answering
  <2>4. \A u \in Tasks : task[u].at # "drain_io" \/ ends' = ends
    BY <1>8, <2>1, ExpiryIsLocked DEF IoSteps, Step, CreateStep
  <2>5. /\ \A s \in delivered' \ asked' : ~Lost(s)'
        /\ \A u \in Tasks : Answering(u)' => ~Lost(task[u].s)'
    BY <1>0, <2>1, <2>2, <2>3 DEF Others, Durable, Lost, Answering
  <2>6. \A u \in Tasks : task'[u].at = "drain_io" => \A s \in task'[u].left : now' >= ends'[s]
    BY <2>1, <2>3, <2>4 DEF Others, Durable
  <2>7. \A u \in Tasks : task'[u].op = "delete" => task'[u].s \in asked'
    BY <2>1, <2>3 DEF Others, Durable
  <2>8. QED
    BY <2>5, <2>6, <2>7 DEF Durable, Lost
<1>9. ASSUME NEW t \in Tasks, Insert(t) PROVE Durable'
  <2>1. /\ UNCHANGED <<now, ends, erased, delivered, asked>> /\ task[t].at = "insert"
        /\ \A s \in Sessions : s # task[t].s => disk'[s] = disk[s]
        /\ task[t].s \in Sessions
    BY <1>0, <1>9 DEF Insert, historyVars, PlacedAt, CloseSteps
  <2>2. /\ task[t].s \notin delivered
        /\ \A u \in Tasks : Answering(u) => task[u].s \in Sessions /\ task[u].s # task[t].s
    BY <1>0, <2>1 DEF Owned, Owning, Making, Unwritten, Answering, PlacedAt, CloseSteps
  <2>3. /\ Others(t) /\ task'[t].op = task[t].op /\ task'[t].s = task[t].s
        /\ task'[t].at # "drain_io" /\ (Answering(t)' => disk'[task[t].s] = "active")
    BY <1>0, <1>9, <2>1, InsertMoves DEF Moves, Goes, Answering
  <2>4. /\ \A s \in delivered' \ asked' : ~Lost(s)'
        /\ \A u \in Tasks : Answering(u)' => ~Lost(task[u].s)'
    BY <1>0, <2>1, <2>2, <2>3 DEF Others, Durable, Lost, Answering
  <2>5. QED
    BY <2>1, <2>3, <2>4 DEF Others, Durable, Lost
<1>10. ASSUME NEW t \in Tasks, Bind(t) \/ Clean(t) PROVE Durable'
  <2>1. /\ UNCHANGED <<now, disk, ends, erased, asked>> /\ Answering(t)
    BY <1>10 DEF Bind, Clean, recordVars, Answering
  <2>2. delivered' \subseteq delivered \cup {task[t].s}
    BY <1>0, <1>10, BindMoves, AnswerMoves DEF Clean
  <2>3. Proceeds(t) /\ task'[t].at # "drain_io"
        /\ (Answering(t)' => task'[t].s = task[t].s)
    <3>1. Step(t) /\ ~Insert(t) /\ ~Drain(t) /\ ~(Cancel(t) /\ task[t].at = "drain_io")
      BY <1>10 DEF Step, CreateStep, Bind, Clean, Insert, Drain
    <3>2. QED
      BY <1>0, <3>1, StepsProceed, AnswerEntered
  <2>4. \A u \in Tasks : Answering(u)' => Answering(u) /\ task'[u].s = task[u].s
    BY <2>1, <2>3 DEF Proceeds, Ends, Others, Answering
  <2>5. QED
    BY <2>1, <2>2, <2>3, <2>4 DEF Proceeds, Ends, Others, Durable, Lost, IdleTask
<1>11. ASSUME NEW t \in Tasks, UndoIo(t) PROVE Durable'
  <2>1. task[t].s \notin delivered /\ \A u \in Tasks : Answering(u) => task[u].s # task[t].s
    BY <1>11 DEF UndoIo, Owned, Owning, Making, Answering
  <2>2. RowsLast /\ UNCHANGED <<now, ends, delivered>>
    BY <1>0, <1>11, <2>1 DEF UndoIo, RowsLast, Lost, historyVars
  <2>3. QED
    BY <1>2, <1>11, <2>2 DEF Step, CreateStep, UndoIo, Drain, Insert
<1>12. ASSUME NEW t \in Tasks, RevokeIo(t) PROVE Durable'
  <2>1. RowsLast /\ UNCHANGED <<now, ends, delivered>>
    BY <1>0, <1>12 DEF RevokeIo, RowsLast, Lost
  <2>2. QED
    BY <1>2, <1>12, <2>1 DEF Step, DeleteStep, RevokeIo, Drain, Insert
<1>13. ASSUME NEW t \in Tasks, ResolveIo(t) \/ MarkIo(t) PROVE Durable'
  <2>1. RowsLast /\ UNCHANGED <<now, ends, delivered>>
    BY <1>0, <1>13 DEF ResolveIo, MarkIo, Persisted, RowsLast, Lost, historyVars
  <2>2. QED
    BY <1>2, <1>13, <2>1 DEF Step, CallStep, ResolveIo, MarkIo, Drain, Insert
<1>14. ASSUME NEW t \in Tasks, CloseIo(t) PROVE Durable'
  <2>1. RowsLast /\ UNCHANGED <<now, ends, delivered>>
    BY <1>0, <1>14 DEF CloseIo, RowsLast, Lost
  <2>2. QED
    BY <1>2, <1>14, <2>1 DEF Step, CloseStep, CloseIo, Drain, Insert
<1>15. ASSUME NEW t \in Tasks, Step(t) \/ Cancel(t), ~Drain(t), ~DrainIo(t), ~Admit(t), ~Insert(t),
              ~Bind(t), ~Clean(t), ~UndoIo(t), ~RevokeIo(t), ~ResolveIo(t), ~MarkIo(t), ~CloseIo(t)
       PROVE  Durable'
  <2>1. UNCHANGED <<now, disk, ends, erased, delivered>>
    BY <1>15 DEF Step, DrainStep, CreateStep, DeleteStep, CallStep, CloseStep, recordVars,
       historyVars, Sweep, Login, Undo, Forget, Revoke, Resolve, Authorize, SourceAnswers,
       SourceRejects, Mark, Fatal, Close, Checkpoint, Shut, Cancel
  <2>2. QED
    BY <1>2, <1>3, <1>15, <2>1
<1>16. CASE LateWrite
  <2>1. UNCHANGED <<now, ends, erased, delivered, asked, task>>
    BY <1>16 DEF LateWrite, historyVars
  <2>2. \A s \in Sessions : disk[s] # "none" => disk'[s] # "none"
    BY <1>0, <1>16 DEF LateWrite, Persisted
  <2>3. \A u \in Tasks : Answering(u) => task[u].s \in Sessions
    BY <1>0 DEF PlacedAt, CloseSteps, Answering
  <2>4. QED
    BY <1>0, <2>1, <2>2, <2>3 DEF Durable, Lost, Answering
<1>17. CASE Tick
  <2>1. UNCHANGED <<disk, ends, erased, delivered, asked, task>> /\ now' = now + 1
    BY <1>17 DEF Tick, recordVars, historyVars
  <2>2. \A u \in Tasks : Answering(u) => task[u].s \in Sessions
    BY <1>0 DEF PlacedAt, CloseSteps, Answering
  <2>3. \A u \in Tasks : task[u].left \subseteq Sessions
    BY <1>0 DEF TasksTyped, TaskStates
  <2>4. QED
    BY <1>0, <2>1, <2>2, <2>3 DEF Durable, Lost, Answering
<1>18. CASE Halt
  BY <1>18 DEF Halt, historyVars, Durable, Lost, Answering, IdleTask
<1>19. CASE Start
  <2>1. UNCHANGED <<now, ends, erased, delivered, asked, task>>
        /\ \A u \in Tasks : task[u].at = "idle"
    BY <1>0, <1>19 DEF Start, historyVars, PlacedAt
  <2>2. \A s \in Sessions : disk[s] # "none" /\ now < ends[s] => disk'[s] # "none"
    BY <1>19 DEF Start
  <2>3. QED
    BY <1>0, <2>1, <2>2 DEF Durable, Lost, Answering
<1>20. CASE UNCHANGED vars
  BY <1>20 DEF vars, recordVars, historyVars, Durable, Lost, Answering
<1>21. QED
  BY <1>4, <1>5, <1>6, <1>7, <1>8, <1>9, <1>10, <1>11, <1>12, <1>13, <1>14, <1>15, <1>16, <1>17,
     <1>18, <1>19, <1>20 DEF Next, Request, Create, Call, Stop, Insert, Drain

-----------------------------------------------------------------------------
(* Capacity                                                                *)

\* A session its client holds or is about to be given.
Held(s) ==
    \/ s \in delivered
    \/ \E t \in Tasks : task[t].at \in {"insert", "bind", "clean"} /\ task[t].s = s

\* It takes a place: by its record, or by a row the next process will restore.
Counts(s) == mem[s] # "none" \/ (disk[s] # "none" /\ now < ends[s])

Counted == {s \in Sessions : Held(s) /\ Counts(s)}

Capacity == Cardinality(Counted) <= MaxSessions

\* While the vault is open no row of a held session is without its record, so
\* the records the admission counts are all there is to count.
Indexed ==
    /\ up /\ VaultOpen => \A s \in Sessions :
          Held(s) /\ disk[s] # "none" /\ now < ends[s] => mem[s] # "none"
    /\ \A t \in Tasks : task[t].at = "insert" => mem[task[t].s] = "active"

\* The store is empty at the start.
LEMMA CapacityInit == Init => Capacity /\ Indexed
<1> SUFFICES ASSUME Init PROVE Capacity /\ Indexed
  OBVIOUS
<1>1. Counted = {}
  BY DEF Init, Counted, Counts
<1>2. Capacity
  BY <1>1, FS_EmptySet, ConstantsOK DEF Capacity
<1>3. Indexed
  BY DEF Init, Indexed, IdleTask
<1>4. QED
  BY <1>2, <1>3

\* The sessions that count can be counted.
LEMMA CountedIsFinite == IsFiniteSet(Counted) /\ Cardinality(Counted) \in Nat
  BY ConstantsOK, FS_Subset, FS_CardinalityType DEF Counted

\* What is counted includes every delivered session with a record.
LEMMA CapacityMeans == TypeOK /\ Capacity => WithinCapacity
<1> SUFFICES ASSUME TypeOK, Capacity PROVE WithinCapacity
  OBVIOUS
<1>1. {s \in delivered : mem[s] # "none"} \subseteq Counted
  BY DEF TypeOK, Counted, Held, Counts
<1>2. /\ Cardinality({s \in delivered : mem[s] # "none"}) <= Cardinality(Counted)
      /\ Cardinality({s \in delivered : mem[s] # "none"}) \in Nat
  BY <1>1, CountedIsFinite, FS_Subset, FS_CardinalityType
<1>3. QED
  BY <1>2, CountedIsFinite, ConstantsOK DEF Capacity, WithinCapacity

\* A step that lets nobody new in.
LEMMA CapacityKept ==
    ASSUME Capacity, \A s \in Sessions : Held(s)' /\ Counts(s)' => Held(s) /\ Counts(s)
    PROVE  Capacity'
<1>1. Counted' \subseteq Counted
  BY DEF Counted
<1>2. Cardinality(Counted') <= Cardinality(Counted) /\ Cardinality(Counted') \in Nat
  BY <1>1, CountedIsFinite, FS_Subset, FS_CardinalityType
<1>3. QED
  BY <1>2, CountedIsFinite, ConstantsOK DEF Capacity

\* Only an admission gives somebody a session to hold.
LEMMA HeldKept ==
    ASSUME TypeOK, Placed, NEW t \in Tasks, Request(t) \/ Step(t) \/ Cancel(t), ~Admit(t),
           NEW s \in Sessions, Held(s)'
    PROVE  Held(s)
<1>0. TasksTyped /\ fresh \subseteq Sessions /\ delivered \subseteq Sessions
  BY DEF TypeOK, TasksTyped
<1>1. Others(t)
  BY <1>0, OneMoves
<1>2. task'[t].at \in {"insert", "bind", "clean"} =>
          task[t].at \in {"insert", "bind", "clean"} /\ task'[t].s = task[t].s
  <2>1. CASE Insert(t)
    BY <1>0, <2>1, InsertMoves DEF Insert, Moves, Goes
  <2>2. CASE ~Insert(t)
    BY <2>2, AnswerEntered DEF Answering
  <2>3. QED
    BY <2>1, <2>2
<1>3. CASE Bind(t) \/ Clean(t)
  <2>1. task[t].at \in {"bind", "clean"} /\ delivered' \subseteq delivered \cup {task[t].s}
    BY <1>0, <1>3, BindMoves, AnswerMoves DEF Bind, Clean
  <2>2. QED
    BY <1>1, <1>2, <2>1 DEF Held, Others
<1>4. CASE ~Bind(t) /\ ~Clean(t)
  <2>1. delivered' = delivered
    BY <1>4 DEF Request, Create, Delete, Call, Stop, Step, DrainStep, CreateStep, DeleteStep,
       CallStep, CloseStep, historyVars, Drain, DrainIo, Sweep, Login, Admit, Insert, Undo, UndoIo,
       Forget, Revoke, RevokeIo, Resolve, ResolveIo, Authorize, SourceAnswers, SourceRejects, Mark,
       MarkIo, Fatal, Close, CloseIo, Checkpoint, Shut, Cancel
  <2>2. QED
    BY <1>1, <1>2, <2>1 DEF Held, Others
<1>5. QED
  BY <1>3, <1>4

\* A session whose create gave up is held by nobody.
LEMMA HeldNoMore ==
    ASSUME Owned, NEW t \in Tasks, task[t].at \in {"insert", "bind"}, NEW s, s = task[t].s,
           Others(t), task'[t].at = "undo", delivered' = delivered
    PROVE  ~Held(s)'
  BY DEF Owned, Owning, Making, Unwritten, Others, Held

\* No record or row appears for a held session that had no record, and an open
\* vault drops a record only with its row or after its lifetime.
Steady ==
    \A s \in Sessions : Held(s)' =>
        /\ mem'[s] # "none" => mem[s] # "none"
        /\ disk[s] = "none" /\ disk'[s] # "none" => mem[s] # "none"
        /\ VaultOpen' /\ mem[s] # "none" /\ mem'[s] = "none" =>
              disk'[s] = "none" \/ ~(now < ends[s])

\* Steps that add no record keep the capacity.
LEMMA CountsKept ==
    ASSUME TypeOK, Placed, Capacity, Indexed, NEW t \in Tasks, Request(t) \/ Step(t) \/ Cancel(t),
           ~Admit(t), Steady
    PROVE  Capacity' /\ Indexed'
<1>0. TasksTyped /\ fresh \subseteq Sessions /\ delivered \subseteq Sessions
  BY DEF TypeOK, TasksTyped
<1>1. UNCHANGED <<now, up, ends>> /\ (VaultOpen' => VaultOpen)
  BY DEF Request, Create, Delete, Call, Stop, Step, DrainStep, CreateStep, DeleteStep, CallStep,
         CloseStep, processVars, recordVars, Drain, DrainIo, Sweep, Login, Admit, Insert, Bind,
         Clean, Undo, UndoIo, Forget, Revoke, RevokeIo, Resolve, ResolveIo, Authorize,
         SourceAnswers,
         SourceRejects, Mark, MarkIo, Fatal, Close, CloseIo, Checkpoint, Shut, Cancel
<1>2. \A s \in Sessions : Held(s)' => Held(s)
  BY HeldKept
<1>3. \A s \in Sessions : Held(s)' /\ Counts(s)' => Counts(s)
  BY <1>1 DEF Steady, Counts
<1>4. Capacity'
  BY <1>2, <1>3, CapacityKept
<1>5. up' /\ VaultOpen' => \A s \in Sessions :
          Held(s)' /\ disk'[s] # "none" /\ now' < ends'[s] => mem'[s] # "none"
  BY <1>1, <1>2 DEF Steady, Indexed
<1>6. \A u \in Tasks : task'[u].at = "insert" => mem'[task'[u].s] = "active"
  <2>1. task'[t].at # "insert"
    BY AnswerEntered
  <2>2. \A u \in Tasks : u # t /\ task[u].at = "insert" => mem' = mem
    BY IndexIsLocked DEF IoSteps
  <2>3. Others(t)
    BY <1>0, OneMoves
  <2>4. QED
    BY <2>1, <2>2, <2>3 DEF Indexed, Others
<1>7. QED
  BY <1>4, <1>5, <1>6 DEF Indexed, Held

\* Each step keeps the capacity, the admission because it counts first.
LEMMA CapacityStep ==
    TypeOK /\ Placed /\ Owned /\ Unborn /\ MarkHeld /\ Capacity /\ Indexed /\ [Next]_vars
        => Capacity' /\ Indexed'
<1> SUFFICES ASSUME TypeOK, Placed, Owned, Unborn, MarkHeld, Capacity, Indexed, [Next]_vars
             PROVE  Capacity' /\ Indexed'
  OBVIOUS
<1>0. /\ TasksTyped /\ fresh \subseteq Sessions /\ delivered \subseteq Sessions
      /\ now \in Nat /\ ends \in [Sessions -> Nat]
      /\ mem \in [Sessions -> Statuses] /\ disk \in [Sessions -> Statuses]
      /\ \A t \in Tasks : PlacedAt(t)
  BY DEF TypeOK, TasksTyped, Placed
<1>1. UNCHANGED <<mem, disk>> => Steady
  BY DEF Steady
<1>2. ASSUME NEW t \in Tasks, Request(t) PROVE Capacity' /\ Indexed'
  <2>1. UNCHANGED <<mem, disk>> /\ ~Admit(t)
    BY <1>2 DEF Request, Create, Delete, Call, Stop, Admit, recordVars
  <2>2. QED
    BY <1>1, <1>2, <2>1, CountsKept
<1>3. ASSUME NEW t \in Tasks, Drain(t) \/ Resolve(t) \/ Mark(t) PROVE Steady
  <2>1. CASE Drain(t)
    <3>1. disk' = disk /\ (mem' = mem \/ mem' = Collected)
      BY <2>1 DEF Drain
    <3>2. \A s \in Sessions : /\ Collected[s] # "none" => mem[s] # "none"
                              /\ mem[s] # "none" /\ Collected[s] = "none" => ~(now < ends[s])
      BY <1>0 DEF Collected, Expired, NeedsReauth, Lives, SourceStale, Statuses
    <3>3. QED
      BY <3>1, <3>2 DEF Steady
  <2>2. CASE Resolve(t) \/ Mark(t)
    BY <1>0, <2>2 DEF Resolve, Mark, NeedsReauth, Steady
  <2>3. QED
    BY <1>3, <2>1, <2>2
<1>4. ASSUME NEW t \in Tasks, DrainIo(t) \/ UndoIo(t) \/ RevokeIo(t) \/ ResolveIo(t) \/ CloseIo(t)
      PROVE Steady
  BY <1>0, <1>4 DEF DrainIo, UndoIo, RevokeIo, ResolveIo, CloseIo, Put, Persisted, Steady
<1>5. ASSUME NEW t \in Tasks, MarkIo(t) PROVE Steady
  <2>1. mem[task[t].s] = "active"
    BY <1>5 DEF MarkIo, MarkHeld
  <2>2. QED
    BY <1>0, <1>5, <2>1 DEF MarkIo, Steady
<1>6. ASSUME NEW t \in Tasks, Insert(t) PROVE Steady
  <2>1. mem[task[t].s] = "active" /\ delivered' = delivered /\ task[t].at = "insert"
    BY <1>6 DEF Insert, Indexed, historyVars
  <2>2. CASE disk' = [disk EXCEPT ![task[t].s] = "active"] /\ mem' = mem
    BY <1>0, <2>1, <2>2 DEF Steady
  <2>3. CASE /\ mem' = [mem EXCEPT ![task[t].s] = "none"] /\ disk' = disk
             /\ Moves(t, "undo", {}, task[t].out, task[t].quit)
    <3>1. \A s \in Sessions : Held(s)' => s # task[t].s
      BY <2>1, <2>3, HeldNoMore DEF Moves
    <3>2. QED
      BY <1>0, <2>3, <3>1 DEF Steady
  <2>4. QED
    BY <1>0, <1>6, <2>2, <2>3, InsertMoves
<1>7. ASSUME NEW t \in Tasks, Cancel(t) PROVE Steady
  <2>1. disk' = disk /\ delivered' = delivered
    BY <1>7 DEF Cancel, historyVars
  <2>2. CASE /\ task[t].at \in {"insert", "bind"} /\ mem' = [mem EXCEPT ![task[t].s] = "none"]
             /\ Moves(t, "undo", {}, task[t].out, TRUE)
    <3>1. \A s \in Sessions : Held(s)' => s # task[t].s
      BY <2>1, <2>2, HeldNoMore DEF Moves
    <3>2. QED
      BY <1>0, <2>1, <2>2, <3>1 DEF Steady
  <2>3. CASE mem' = mem
    BY <1>1, <2>1, <2>3
  <2>4. QED
    BY <1>0, <1>7, <2>2, <2>3, CancelMoves
<1>8. ASSUME NEW t \in Tasks, Step(t), ~Admit(t) PROVE Steady
  <2>1. CASE Checkpoint(t)
    BY <1>0, <2>1 DEF Checkpoint, Steady
  <2>2. CASE UNCHANGED <<mem, disk>>
    BY <1>1, <2>2
  <2>3. QED
    BY <1>3, <1>4, <1>5, <1>6, <1>8, <2>1, <2>2
       DEF Step, DrainStep, CreateStep, DeleteStep, CallStep, CloseStep, recordVars, Sweep, Login,
           Bind, Clean, Undo, Forget, Revoke, Authorize, SourceAnswers, SourceRejects, Fatal,
           Close, Shut
<1>9. ASSUME NEW t \in Tasks, Step(t) \/ Cancel(t), ~Admit(t) PROVE Capacity' /\ Indexed'
  BY <1>7, <1>8, <1>9, CountsKept
<1>10. ASSUME NEW t \in Tasks, Admit(t) PROVE Capacity' /\ Indexed'
  <2> DEFINE kept == {r \in Sessions : Collected[r] # "none"}
             new == task[t].s
  <2>1. /\ UNCHANGED <<now, up, shut, disk, delivered>>
        /\ task[t].at = "create" /\ new \in Sessions /\ up
    BY <1>0, <1>10 DEF Admit, processVars, historyVars, PlacedAt, CloseSteps
  <2>2. \A r \in Sessions : /\ Collected[r] # "none" => mem[r] # "none"
                            /\ mem[r] # "none" /\ Collected[r] = "none" => ~(now < ends[r])
    BY <1>0 DEF Collected, Expired, NeedsReauth, Lives, SourceStale, Statuses
  <2>3. Others(t) /\ task'[t].s = new /\ task'[t].at \in {"insert", "undo"}
    BY <1>0, <1>10, AdmitMoves DEF Moves, Goes
  <2>4. \A s \in Sessions : Held(s)' => Held(s) \/ (s = new /\ task'[t].at = "insert")
    BY <2>1, <2>3 DEF Held, Others
  <2>5. \A u \in Tasks : u # t => task[u].at # "insert"
    <3>1. lock = NoTask
      BY <1>10 DEF Admit
    <3>2. QED
      BY <1>0, <3>1, Placeholders DEF PlacedAt, IoSteps
  <2>6. CASE /\ VaultOpen /\ Cardinality(kept) < MaxSessions
             /\ mem' = [Collected EXCEPT ![new] = "active"]
             /\ ends' = [ends EXCEPT ![new] = now + Ttl]
    <3>1. \A s \in Sessions : s # new /\ Held(s)' /\ Counts(s)' => s \in kept
      BY <1>0, <2>1, <2>2, <2>4, <2>6 DEF Counts, Indexed
    <3>2. Counted' \subseteq kept \cup {new}
      BY <3>1 DEF Counted
    <3>3. IsFiniteSet(kept) /\ Cardinality(kept) \in Nat
      BY ConstantsOK, FS_Subset, FS_CardinalityType
    <3>4. /\ IsFiniteSet(kept \cup {new}) /\ Cardinality(kept \cup {new}) \in Nat
          /\ Cardinality(kept \cup {new}) <= Cardinality(kept) + 1
      <4> HIDE DEF kept, new
      <4>1. /\ IsFiniteSet(kept \cup {new})
            /\ Cardinality(kept \cup {new})
                 = IF new \in kept THEN Cardinality(kept) ELSE Cardinality(kept) + 1
        BY <3>3, FS_AddElement
      <4>2. QED
        BY <3>3, <4>1
    <3>5. Cardinality(Counted') <= Cardinality(kept \cup {new}) /\ Cardinality(Counted') \in Nat
      BY <3>2, <3>4, FS_Subset, FS_CardinalityType
    <3>6. Capacity'
      BY <2>6, <3>3, <3>4, <3>5, ConstantsOK DEF Capacity
    <3>7. \A s \in Sessions : Held(s)' /\ disk'[s] # "none" /\ now' < ends'[s] => mem'[s] # "none"
      BY <1>0, <2>1, <2>2, <2>4, <2>6, CollectedIsTyped DEF Indexed
    <3>8. mem'[new] = "active"
      BY <1>0, <2>1, <2>6, CollectedIsTyped
    <3>9. \A u \in Tasks : task'[u].at = "insert" => mem'[task'[u].s] = "active"
      BY <2>3, <2>5, <3>8 DEF Others
    <3>10. QED
      BY <3>6, <3>7, <3>9 DEF Indexed
  <2>7. CASE /\ \/ mem' = mem
                \/ mem' = [r \in Sessions |-> IF NeedsReauth(r) THEN "reauth" ELSE mem[r]]
             /\ task'[t].at = "undo" /\ ends' = ends
    <3>1. \A s \in Sessions : mem'[s] # "none" <=> mem[s] # "none"
      BY <1>0, <2>7 DEF NeedsReauth
    <3>2. Capacity'
      BY <2>1, <2>4, <2>7, <3>1, CapacityKept DEF Counts
    <3>3. \A u \in Tasks : task'[u].at # "insert"
      BY <2>3, <2>5, <2>7 DEF Others
    <3>4. QED
      BY <2>1, <2>4, <2>7, <3>1, <3>2, <3>3 DEF Indexed
  <2>8. QED
    <3>1. \/ /\ VaultOpen /\ Cardinality(kept) < MaxSessions
             /\ mem' = [Collected EXCEPT ![new] = "active"]
             /\ ends' = [ends EXCEPT ![new] = now + Ttl]
          \/ /\ \/ mem' = mem
                \/ mem' = [r \in Sessions |-> IF NeedsReauth(r) THEN "reauth" ELSE mem[r]]
             /\ Goto(t, "undo") /\ ends' = ends
      BY <1>10 DEF Admit
    <3>2. Goto(t, "undo") => task'[t].at = "undo"
      BY <1>0, GotoMoves, StepsAreTyped DEF Goes, Moves
    <3>3. QED
      BY <2>6, <2>7, <3>1, <3>2
<1>11. CASE LateWrite
  <2>1. PICK w \in late :
            \/ w.kind = "insert" /\ disk' = [disk EXCEPT ![w.s] = "active"]
            \/ w.kind = "reauth" /\ disk' = Persisted(w.s)
            \/ UNCHANGED disk
    BY <1>11 DEF LateWrite
  <2>2. UNCHANGED <<now, up, shut, mem, ends, delivered, task>>
    BY <1>11 DEF LateWrite, processVars, historyVars
  <2>3. \A s \in Sessions : Held(s)' <=> Held(s)
    BY <2>2 DEF Held
  <2>4. w.kind = "insert" => ~Held(w.s)
    BY DEF Unborn, Held, Making, Unwritten
  <2>5. \A s \in Sessions : Held(s) => (disk'[s] # "none" <=> disk[s] # "none")
    BY <1>0, <2>1, <2>4 DEF Persisted
  <2>6. Capacity'
    BY <2>2, <2>3, <2>5, CapacityKept DEF Counts
  <2>7. QED
    BY <2>2, <2>3, <2>5, <2>6 DEF Indexed
<1>12. CASE Tick
  <2>1. UNCHANGED <<up, shut, mem, disk, ends, delivered, task>> /\ now' = now + 1
    BY <1>12 DEF Tick, processVars, recordVars, historyVars
  <2>2. \A s \in Sessions : (Held(s)' <=> Held(s)) /\ (now' < ends'[s] => now < ends[s])
    BY <1>0, <2>1 DEF Held
  <2>3. Capacity'
    BY <2>1, <2>2, CapacityKept DEF Counts
  <2>4. QED
    BY <2>1, <2>2, <2>3 DEF Indexed
<1>13. CASE Halt
  <2>1. UNCHANGED <<now, disk, ends, delivered>> /\ up' = FALSE
        /\ mem' = [s \in Sessions |-> "none"] /\ task' = [u \in Tasks |-> IdleTask]
    BY <1>13 DEF Halt, historyVars
  <2>2. \A s \in Sessions : Held(s)' => Held(s)
    BY <2>1 DEF Held, IdleTask
  <2>3. Capacity'
    BY <2>1, <2>2, CapacityKept DEF Counts
  <2>4. QED
    BY <2>1, <2>3 DEF Indexed, IdleTask
<1>14. CASE Start
  <2>1. UNCHANGED <<now, ends, delivered, task>> /\ mem' = disk'
        /\ \A u \in Tasks : task[u].at = "idle"
    BY <1>0, <1>14 DEF Start, historyVars, PlacedAt
  <2>2. \A s \in Sessions : /\ Held(s)' <=> Held(s)
                            /\ disk'[s] # "none" => disk[s] # "none" /\ now < ends[s]
    BY <1>14, <2>1 DEF Held, Start
  <2>3. Capacity'
    BY <2>1, <2>2, CapacityKept DEF Counts
  <2>4. QED
    BY <2>1, <2>3 DEF Indexed
<1>15. CASE UNCHANGED vars
  <2>1. UNCHANGED <<now, up, shut, mem, disk, ends, delivered, task>>
    BY <1>15 DEF vars, processVars, recordVars, historyVars
  <2>2. \A s \in Sessions : Held(s)' <=> Held(s)
    BY <2>1 DEF Held
  <2>3. Capacity'
    BY <2>1, <2>2, CapacityKept DEF Counts
  <2>4. QED
    BY <2>1, <2>2, <2>3 DEF Indexed
<1>16. QED
  BY <1>2, <1>9, <1>10, <1>11, <1>12, <1>13, <1>14, <1>15 DEF Next

-----------------------------------------------------------------------------
(* Tokens                                                                  *)

\* Somebody closes everything, or has.
Closing == "strategy" \in shut \/ \E t \in Tasks : task[t].at \in CloseSteps

\* A token that would still be sent although its record is gone in its lifetime.
Orphan(s) == auth[s] = "bound" /\ mem[s] = "none" /\ now < ends[s]

\* A request that will drop its session's token, or close everything.
Dropping(t) ==
    \/ task[t].at \in {"undo", "undo_io"}
    \/ task[t].at = "forget" /\ task[t].op \in {"create", "delete"}

\* Each orphan has somebody to see to it, and a token is bound to a live record.
NoOrphan ==
    /\ \A s \in Sessions : Orphan(s) =>
          Closing \/ \E t \in Tasks : Dropping(t) /\ task[t].s = s
    /\ \A t \in Tasks : task[t].at = "bind" => mem[task[t].s] = "active"

\* Who will drop it attends to it.
LEMMA NoOrphanMeans == TypeOK /\ NoOrphan => NoLiveOrphanToken
  BY DEF TypeOK, NoOrphan, Orphan, NoLiveOrphanToken, Attended, Closing, Dropping, CloseSteps

\* At first there is no token.
LEMMA NoOrphanInit == Init => NoOrphan
  BY DEF Init, NoOrphan, Orphan, IdleTask

\* A close that has begun runs until the strategy is closed.
LEMMA ClosingLasts ==
    ASSUME TypeOK, Placed, NEW t \in Tasks, Request(t) \/ Step(t) \/ Cancel(t), Closing
    PROVE  Closing'
<1>0. TasksTyped /\ fresh \subseteq Sessions /\ delivered \subseteq Sessions
  BY DEF TypeOK, TasksTyped
<1>1. Others(t)
  BY <1>0, OneMoves
<1>2. shut \subseteq shut'
  BY DEF Request, Create, Delete, Call, Stop, Step, DrainStep, CreateStep, DeleteStep, CallStep,
         CloseStep, processVars, Drain, DrainIo, Sweep, Login, Admit, Insert, Bind, Clean, Undo,
         UndoIo, Forget, Revoke, RevokeIo, Resolve, ResolveIo, Authorize, SourceAnswers,
         SourceRejects, Mark, MarkIo, Fatal, Close, CloseIo, Checkpoint, Shut, Cancel
<1>3. ASSUME task[t].at \in CloseSteps PROVE Closing'
  <2>1. CloseStep(t)
    BY <1>3 DEF CloseSteps, Request, Create, Delete, Call, Stop, Step, DrainStep, CreateStep,
       DeleteStep, CallStep, DrainSteps, Drain, DrainIo, Sweep, Login, Admit, Insert, Bind, Clean,
       Undo, UndoIo, Forget, Revoke, RevokeIo, Resolve, ResolveIo, Authorize, SourceAnswers,
       SourceRejects, Mark, MarkIo, Cancel
  <2>2. CASE Shut(t)
    BY <2>2 DEF Shut, Closing
  <2>3. CASE ~Shut(t)
    <3>1. task'[t].at \in CloseSteps
      BY <1>0, <2>1, <2>3, GotoMoves, StepsAreTyped, FatalMoves, CloseIoMoves
         DEF CloseStep, Close, Checkpoint, CloseSteps, Moves, Goes
    <3>2. QED
      BY <3>1 DEF Closing
  <2>4. QED
    BY <2>2, <2>3
<1>4. QED
  BY <1>1, <1>2, <1>3 DEF Closing, Others

\* A request on its way to drop a token drops it, or closes everything.
LEMMA DroppingLasts ==
    ASSUME TypeOK, Placed, NEW t \in Tasks, Request(t) \/ Step(t) \/ Cancel(t), Dropping(t)
    PROVE  \/ Dropping(t)' /\ task'[t].s = task[t].s
           \/ auth' = [auth EXCEPT ![task[t].s] = "none"]
           \/ Closing'
<1>0. TasksTyped /\ fresh \subseteq Sessions /\ delivered \subseteq Sessions
  BY DEF TypeOK, TasksTyped
<1>1. Undo(t) \/ UndoIo(t) \/ Forget(t)
  BY DEF Dropping, CloseSteps, Request, Create, Delete, Call, Stop, Step, DrainStep, CreateStep,
     DeleteStep, CallStep, CloseStep, DrainSteps, Drain, DrainIo, Sweep, Login, Admit, Insert, Bind,
     Clean, Revoke, RevokeIo, Resolve, ResolveIo, Authorize, SourceAnswers,
     SourceRejects, Mark, MarkIo, Fatal, Close, CloseIo, Checkpoint, Shut, Cancel
<1>2. CASE Undo(t) \/ UndoIo(t)
  <2>1. task[t].op = "create"
    BY <1>2 DEF Undo, UndoIo, Placed, PlacedAt, CreateSteps
  <2>2. QED
    BY <1>0, <1>2, <2>1, UndoMoves, UndoIoMoves DEF Moves, Goes, Dropping
<1>3. CASE Forget(t)
  BY <1>3 DEF Forget
<1>4. QED
  BY <1>1, <1>2, <1>3

\* A step that makes no orphan but one it will see to.
LEMMA NoOrphanKept ==
    ASSUME TypeOK, Placed, Indexed, NoOrphan, NEW t \in Tasks, Request(t) \/ Step(t) \/ Cancel(t),
           \A s \in Sessions : Orphan(s)' =>
               Orphan(s) \/ Closing' \/ (Dropping(t)' /\ task'[t].s = s)
    PROVE  NoOrphan'
<1>0. TasksTyped /\ fresh \subseteq Sessions /\ delivered \subseteq Sessions
  BY DEF TypeOK, TasksTyped
<1>1. Others(t)
  BY <1>0, OneMoves
<1>2. ASSUME NEW s \in Sessions, Orphan(s)'
      PROVE  Closing' \/ \E u \in Tasks : Dropping(u)' /\ task'[u].s = s
  <2>1. CASE Closing' \/ (Dropping(t)' /\ task'[t].s = s)
    BY <2>1
  <2>2. CASE Orphan(s)
    <3>1. CASE Closing
      BY <3>1, ClosingLasts
    <3>2. ASSUME NEW u \in Tasks, Dropping(u), task[u].s = s
          PROVE  Closing' \/ \E v \in Tasks : Dropping(v)' /\ task'[v].s = s
      <4>1. CASE u # t
        BY <1>1, <3>2, <4>1 DEF Others, Dropping
      <4>2. CASE u = t
        <5>1. auth' # [auth EXCEPT ![s] = "none"]
          BY <1>2 DEF Orphan, TypeOK
        <5>2. QED
          BY <3>2, <4>2, <5>1, DroppingLasts
      <4>3. QED
        BY <4>1, <4>2
    <3>3. QED
      BY <2>2, <3>1, <3>2 DEF NoOrphan
  <2>3. QED
    BY <1>2, <2>1, <2>2
<1>3. \A u \in Tasks : task'[u].at = "bind" => mem'[task'[u].s] = "active"
  <2>1. ASSUME task'[t].at = "bind" PROVE Insert(t)
    <3>1. CASE task[t].at = "bind"
      <4>1. Bind(t) \/ Cancel(t)
        BY <3>1 DEF DrainSteps, Request, Create, Delete, Call, Stop, Step, DrainStep, CreateStep,
           DeleteStep, CallStep, CloseStep, Drain, DrainIo, Sweep, Login, Admit, Insert, Clean,
           Undo, UndoIo, Forget, Revoke, RevokeIo, Resolve, ResolveIo, Authorize, SourceAnswers,
           SourceRejects, Mark, MarkIo, Fatal, Close, CloseIo, Checkpoint, Shut
      <4>2. CASE Bind(t)
        BY <1>0, <2>1, <3>1, <4>2, BindMoves DEF Moves, Goes, Ends, IdleTask
      <4>3. CASE Cancel(t)
        <5>1. task'[t].at = "undo" \/ Ends(t) \/ task[t].at \in DrainSteps \cup {"clean"}
          BY <1>0, <4>3, CancelMoves DEF Moves
        <5>2. ~Ends(t)
          BY <1>0, <2>1 DEF Ends, Goes, IdleTask
        <5>3. QED
          BY <1>0, <2>1, <3>1, <4>3, <5>1, <5>2, CancelMoves DEF Moves, DrainSteps, Ends
      <4>4. QED
        BY <4>1, <4>2, <4>3
    <3>2. CASE task[t].at = "clean"
      <4>1. Clean(t) \/ Cancel(t)
        BY <3>2 DEF DrainSteps, Request, Create, Delete, Call, Stop, Step, DrainStep, CreateStep,
           DeleteStep, CallStep, CloseStep, Drain, DrainIo, Sweep, Login, Admit, Insert, Bind, Undo,
           UndoIo, Forget, Revoke, RevokeIo, Resolve, ResolveIo, Authorize, SourceAnswers,
           SourceRejects, Mark, MarkIo, Fatal, Close, CloseIo, Checkpoint, Shut
      <4>2. CASE Clean(t)
        BY <1>0, <2>1, <3>2, <4>2, AnswerMoves DEF Clean, Moves, Ends, IdleTask
      <4>3. CASE Cancel(t)
        <5>1. task'[t].at = "undo" \/ Ends(t) \/ task[t].at \in DrainSteps \cup {"clean"}
          BY <1>0, <4>3, CancelMoves DEF Moves
        <5>2. ~Ends(t)
          BY <1>0, <2>1 DEF Ends, Goes, IdleTask
        <5>3. QED
          BY <1>0, <2>1, <3>2, <4>3, <5>1, <5>2, CancelMoves DEF Moves, DrainSteps, Ends
      <4>4. QED
        BY <4>1, <4>2, <4>3
    <3>3. QED
      BY <2>1, <3>1, <3>2, AnswerEntered DEF Answering
  <2>2. Insert(t) /\ task'[t].at = "bind" =>
           mem' = mem /\ task[t].at = "insert" /\ task'[t].s = task[t].s
    BY <1>0, InsertMoves DEF Insert, Moves, Goes
  <2>3. \A u \in Tasks : u # t /\ task[u].at = "bind" => mem' = mem
    BY IndexIsLocked DEF IoSteps
  <2>4. QED
    BY <1>1, <2>1, <2>2, <2>3 DEF NoOrphan, Indexed, Others
<1>4. QED
  BY <1>2, <1>3 DEF NoOrphan

\* Each step leaves no token behind that nobody will drop.
LEMMA NoOrphanStep ==
    TypeOK /\ Placed /\ Indexed /\ NoOrphan /\ [Next]_vars => NoOrphan'
<1> SUFFICES ASSUME TypeOK, Placed, Indexed, NoOrphan, [Next]_vars PROVE NoOrphan'
  OBVIOUS
<1>0. /\ TasksTyped /\ fresh \subseteq Sessions /\ delivered \subseteq Sessions
      /\ now \in Nat /\ ends \in [Sessions -> Nat] /\ mem \in [Sessions -> Statuses]
      /\ auth \in [Sessions -> {"none", "bound", "reauth"}]
      /\ \A t \in Tasks : PlacedAt(t)
  BY DEF TypeOK, TasksTyped, Placed
<1>1. ASSUME NEW t \in Tasks, Request(t) \/ Step(t) \/ Cancel(t),
             \A s \in Sessions : auth'[s] = "bound" /\ mem'[s] = "none" =>
                 auth[s] = "bound" /\ (mem[s] = "none" \/ ~(now < ends[s])),
             UNCHANGED <<now, ends>>
      PROVE  NoOrphan'
  BY <1>0, <1>1, NoOrphanKept DEF Orphan
<1>2. ASSUME NEW t \in Tasks, Request(t) PROVE NoOrphan'
  BY <1>1, <1>2 DEF Request, Create, Delete, Call, Stop, recordVars
<1>3. \A s \in Sessions : mem[s] # "none" /\ Collected[s] = "none" => ~(now < ends[s])
  BY <1>0 DEF Collected, Expired, NeedsReauth, Lives, SourceStale, Statuses
<1>4. ASSUME NEW t \in Tasks, DrainStep(t) PROVE NoOrphan'
  <2>1. UNCHANGED <<now, ends>> /\ (mem' = mem \/ mem' = Collected)
        /\ \A s \in Sessions : auth'[s] = "bound" => auth[s] = "bound"
    BY <1>0, <1>4 DEF DrainStep, Drain, DrainIo, Sweep, Put, recordVars
  <2>2. QED
    BY <1>1, <1>3, <1>4, <2>1 DEF Step
<1>5. ASSUME NEW t \in Tasks, Login(t) \/ Undo(t) \/ Forget(t) PROVE NoOrphan'
  <2>1. UNCHANGED <<now, ends, mem>> /\ \A s \in Sessions : auth'[s] = "bound" => auth[s] = "bound"
    BY <1>0, <1>5 DEF Login, Undo, Forget, recordVars
  <2>2. QED
    BY <1>1, <1>5, <2>1 DEF Step, CreateStep
<1>6. ASSUME NEW t \in Tasks, Admit(t) PROVE NoOrphan'
  <2>1. /\ UNCHANGED <<now, auth>> /\ task[t].s \in Sessions
        /\ \/ /\ mem' = [Collected EXCEPT ![task[t].s] = "active"]
              /\ ends' = [ends EXCEPT ![task[t].s] = now + Ttl]
           \/ /\ \/ mem' = mem
                 \/ mem' = [r \in Sessions |-> IF NeedsReauth(r) THEN "reauth" ELSE mem[r]]
              /\ ends' = ends
    BY <1>0, <1>6 DEF Admit, PlacedAt, CloseSteps
  <2>2. \A s \in Sessions : Orphan(s)' => Orphan(s)
    BY <1>0, <1>3, <2>1, CollectedIsTyped DEF Orphan
  <2>3. QED
    BY <1>6, <2>2, NoOrphanKept DEF Step, CreateStep
<1>7. ASSUME NEW t \in Tasks, Insert(t) \/ UndoIo(t) \/ RevokeIo(t) \/ Cancel(t) PROVE NoOrphan'
  <2>1. UNCHANGED <<now, ends, auth>>
    BY <1>7 DEF Insert, UndoIo, RevokeIo, Cancel, recordVars
  <2>2. \/ mem' = mem
        \/ /\ mem' = [mem EXCEPT ![task[t].s] = "none"]
           /\ task'[t].s = task[t].s
           /\ Dropping(t)' \/ mem[task[t].s] = "none"
    <3>1. CASE Insert(t)
      BY <1>0, <3>1, InsertMoves DEF Moves, Dropping
    <3>2. CASE UndoIo(t)
      BY <1>0, <3>2, UndoIoMoves DEF UndoIo, Moves, Goes, Dropping, PlacedAt, CreateSteps
    <3>3. CASE RevokeIo(t)
      <4>1. task[t].op = "delete"
        BY <1>0, <3>3 DEF RevokeIo, PlacedAt, DeleteSteps
      <4>2. \/ mem' = mem
            \/ /\ mem' = [mem EXCEPT ![task[t].s] = "none"]
               /\ \/ mem[task[t].s] = "none" /\ Goto(t, "drain")
                  \/ Goto(t, "forget")
        BY <3>3 DEF RevokeIo
      <4>3. QED
        BY <1>0, <4>1, <4>2, GotoMoves, StepsAreTyped DEF Moves, Goes, Dropping
    <3>4. CASE Cancel(t)
      <4>1. mem' = mem \/ (mem' = [mem EXCEPT ![task[t].s] = "none"]
                           /\ Moves(t, "undo", {}, task[t].out, TRUE))
        BY <1>0, <3>4, CancelMoves
      <4>2. QED
        BY <4>1 DEF Moves, Dropping
    <3>5. QED
      BY <1>7, <3>1, <3>2, <3>3, <3>4
  <2>3. \A s \in Sessions : Orphan(s)' => Orphan(s) \/ (Dropping(t)' /\ task'[t].s = s)
    BY <1>0, <2>1, <2>2 DEF Orphan
  <2>4. QED
    BY <1>7, <2>3, NoOrphanKept DEF Step, CreateStep, DeleteStep
<1>8. ASSUME NEW t \in Tasks, Bind(t) \/ Clean(t) PROVE NoOrphan'
  <2>1. UNCHANGED <<now, ends, mem>>
    BY <1>8 DEF Bind, Clean, recordVars
  <2>2. \A s \in Sessions : auth'[s] = "bound" => auth[s] = "bound" \/ mem[s] = "active"
    BY <1>0, <1>8 DEF Bind, Clean, Put, NoOrphan
  <2>3. QED
    BY <1>1, <1>8, <2>1, <2>2 DEF Step, CreateStep
<1>9. ASSUME NEW t \in Tasks, CallStep(t) \/ Revoke(t) PROVE NoOrphan'
  <2>1. UNCHANGED <<now, ends>>
    BY <1>9 DEF Revoke, CallStep, Resolve, ResolveIo, Authorize, SourceAnswers, SourceRejects, Mark,
       MarkIo, recordVars
  <2>2. \A s \in Sessions : mem'[s] = "none" => mem[s] = "none"
    BY <1>0, <1>9 DEF Revoke, CallStep, Resolve, ResolveIo, Authorize, SourceAnswers, SourceRejects,
       Mark, MarkIo, recordVars
  <2>3. \A s \in Sessions : auth'[s] = "bound" => auth[s] = "bound"
    BY <1>0, <1>9 DEF Revoke, CallStep, Resolve, ResolveIo, Authorize, SourceAnswers, SourceRejects,
       Mark, MarkIo
  <2>4. QED
    BY <1>1, <1>9, <2>1, <2>2, <2>3 DEF Step, DeleteStep
<1>10. ASSUME NEW t \in Tasks, CloseStep(t) PROVE NoOrphan'
  <2>1. task[t].at \in CloseSteps
    BY <1>10 DEF CloseSteps, CloseStep, Fatal, Close, CloseIo, Checkpoint, Shut
  <2>2. Closing /\ Step(t)
    BY <1>10, <2>1 DEF Closing, Step
  <2>3. Closing'
    BY <1>0, <2>2, ClosingLasts
  <2>4. QED
    BY <2>2, <2>3, NoOrphanKept
<1>11. CASE LateWrite \/ Tick \/ UNCHANGED vars
  <2>1. UNCHANGED <<shut, mem, auth, ends, task>> /\ (now' = now \/ now' = now + 1)
    BY <1>11 DEF LateWrite, Tick, vars, processVars, recordVars
  <2>2. \A s \in Sessions : Orphan(s)' => Orphan(s)
    BY <1>0, <2>1 DEF Orphan
  <2>3. QED
    BY <2>1, <2>2 DEF NoOrphan, Closing, Dropping
<1>12. CASE Halt
  BY <1>12 DEF Halt, NoOrphan, Orphan, IdleTask
<1>13. CASE Start
  <2>1. \A s \in Sessions : ~Orphan(s)'
    BY <1>13 DEF Start, Orphan
  <2>2. \A t \in Tasks : task'[t].at = "idle"
    BY <1>0, <1>13 DEF Start, PlacedAt
  <2>3. QED
    BY <2>1, <2>2 DEF NoOrphan
<1>14. QED
  BY <1>2, <1>4, <1>5, <1>6, <1>7, <1>8, <1>9, <1>10, <1>11, <1>12, <1>13
     DEF Next, Step, CreateStep, DeleteStep

-----------------------------------------------------------------------------
(* Records with their tokens                                               *)

\* A create whose session has no record yet.
Unmade(t) ==
    \/ task[t].at \in {"login", "create"}
    \/ task[t].op = "create" /\ task[t].at \in DrainSteps

\* A session that will not be admitted any more: it was, or never will be.
Made(s) == s \notin fresh /\ \A t \in Tasks : Unmade(t) => task[t].s # s

\* Records belong to admitted sessions, what is collected has expired, and a
\* closed vault has no records.
Recorded ==
    /\ \A s \in Sessions : mem[s] # "none" => Made(s)
    /\ \A t \in Tasks : \A s \in task[t].left : Made(s) /\ now >= ends[s]
    /\ \A t \in Tasks : task[t].at = "forget" => Made(task[t].s)
    /\ ~VaultOpen => \A s \in Sessions : mem[s] = "none"

\* Nothing is recorded at the start.
LEMMA RecordedInit == Init => Recorded
  BY DEF Init, Recorded, IdleTask

\* Where a create has no record yet, it had none before.
LEMMA UnmadeBefore ==
    ASSUME TasksTyped, Placed, NEW t \in Tasks, Step(t) \/ Cancel(t), Unmade(t)'
    PROVE  Unmade(t) /\ task'[t].s = task[t].s
<1>1. Unwritten(t) /\ task'[t].s = task[t].s
  BY StepsProceed DEF Proceeds, Ends, IdleTask, Unwritten, Unmade, DrainSteps
<1>2. ASSUME task[t].at = "insert" PROVE FALSE
  <2>1. Insert(t) \/ Cancel(t)
    BY <1>2 DEF Step, DrainStep, CreateStep, DeleteStep, CallStep, CloseStep, Drain, DrainIo, Sweep,
       Login, Admit, Bind, Clean, Undo, UndoIo, Forget, Revoke, RevokeIo, Resolve, ResolveIo,
       Authorize, SourceAnswers, SourceRejects, Mark, MarkIo, Fatal, Close, CloseIo, Checkpoint,
       Shut
  <2>2. CASE Insert(t)
    BY <2>2, InsertMoves DEF Moves, Goes, Unmade, DrainSteps
  <2>3. CASE Cancel(t)
    <3>1. Moves(t, "undo", {}, task[t].out, TRUE)
      BY <1>2, <2>3, CancelMoves DEF DrainSteps
    <3>2. QED
      BY <3>1 DEF Moves, Unmade, DrainSteps
  <2>4. QED
    BY <2>1, <2>2, <2>3
<1>3. QED
  BY <1>1, <1>2 DEF Unmade, Unwritten

\* A session stays admitted.
LEMMA MadeLasts ==
    ASSUME TypeOK, Placed, NEW t \in Tasks, Request(t) \/ Step(t) \/ Cancel(t),
           NEW s \in Sessions, Made(s)
    PROVE  Made(s)'
<1>0. TasksTyped /\ fresh \subseteq Sessions /\ delivered \subseteq Sessions
  BY DEF TypeOK, TasksTyped
<1>1. CASE Create(t)
  <2>1. PICK r \in fresh : fresh' = fresh \ {r} /\ Begins(t, "drain", "create", r)
    BY <1>0, <1>1, CreateMoves
  <2>2. r # s /\ task'[t].s = r /\ Others(t)
    BY <2>1 DEF Begins, Made
  <2>3. QED
    BY <2>1, <2>2 DEF Others, Made, Unmade
<1>2. CASE Delete(t) \/ Call(t) \/ Stop(t)
  <2>1. fresh' = fresh
    BY <1>2 DEF Delete, Call, Stop, historyVars
  <2>2. \E op, r : \E at \in {"revoke", "resolve", "checkpoint"} : Begins(t, at, op, r)
    BY <1>0, <1>2, DeleteMoves, CallMoves, StopMoves
  <2>3. QED
    BY <2>1, <2>2 DEF Begins, Others, Made, Unmade, DrainSteps
<1>3. CASE Step(t) \/ Cancel(t)
  <2>1. Others(t) /\ (Unmade(t)' => Unmade(t) /\ task'[t].s = task[t].s)
    BY <1>0, <1>3, OneMoves, UnmadeBefore
  <2>2. fresh' = fresh
    BY <1>3 DEF Step, DrainStep, CreateStep, DeleteStep, CallStep, CloseStep, historyVars,
       Drain, DrainIo, Sweep, Login, Admit, Insert, Bind, Clean, Undo, UndoIo, Forget, Revoke,
       RevokeIo, Resolve, ResolveIo, Authorize, SourceAnswers, SourceRejects, Mark, MarkIo,
       Fatal, Close, CloseIo, Checkpoint, Shut, Cancel
  <2>3. QED
    BY <2>1, <2>2 DEF Others, Made, Unmade
<1>4. QED
  BY <1>1, <1>2, <1>3 DEF Request

\* The session of a create that was admitted or gave up, or of another request.
LEMMA OwnIsMade ==
    ASSUME Owned, NEW t \in Tasks, ~Unmade(t), Owning(t) \/ task[t].op \in {"delete", "call"}
    PROVE  Made(task[t].s)
  BY DEF Owned, Made, Unmade, Owning, Making, Unwritten

\* Records and expiries appear with the admission of the request's own session.
LEMMA RecordsFrom ==
    ASSUME TypeOK, Placed, MarkHeld, NEW t \in Tasks, Request(t) \/ Step(t) \/ Cancel(t)
    PROVE  /\ now' = now
           /\ \A s \in Sessions : mem'[s] # "none" =>
                 \/ mem[s] # "none"
                 \/ Admit(t) /\ task'[t].at = "insert" /\ s = task[t].s
           /\ \A s \in Sessions : mem'[s] = "active" =>
                 \/ mem[s] = "active"
                 \/ Admit(t) /\ task'[t].at = "insert" /\ s = task[t].s
           /\ \A s \in Sessions : ends'[s] = ends[s] \/ (Unmade(t) /\ s = task[t].s)
           /\ \A s \in Sessions : srcEnds'[s] = srcEnds[s] \/ (Unmade(t) /\ s = task[t].s)
<1>0. /\ TasksTyped /\ mem \in [Sessions -> Statuses]
      /\ ends \in [Sessions -> Nat] /\ srcEnds \in [Sessions -> Nat]
  BY DEF TypeOK, TasksTyped
<1>1. \A s \in Sessions : Collected[s] = "none" \/ Collected[s] = mem[s]
                          \/ (Collected[s] = "reauth" /\ mem[s] # "none")
  BY DEF Collected, NeedsReauth
<1>2. CASE Drain(t)
  BY <1>0, <1>1, <1>2 DEF Drain
<1>3. CASE Admit(t)
  <2>1. Unmade(t) /\ UNCHANGED <<now, srcEnds>>
    BY <1>3 DEF Admit, Unmade
  <2>2. \/ /\ mem' = [Collected EXCEPT ![task[t].s] = "active"]
           /\ ends' = [ends EXCEPT ![task[t].s] = now + Ttl]
           /\ task'[t].at = "insert"
        \/ /\ mem' = [r \in Sessions |-> IF NeedsReauth(r) THEN "reauth" ELSE mem[r]]
           /\ ends' = ends
        \/ UNCHANGED <<mem, ends>>
    BY <1>0, <1>3, AdmitMoves DEF Moves
  <2>3. QED
    BY <1>0, <1>1, <1>3, <2>1, <2>2, CollectedIsTyped DEF NeedsReauth
<1>4. CASE Login(t)
  BY <1>0, <1>4 DEF Login, Unmade
<1>5. CASE ~Drain(t) /\ ~Admit(t) /\ ~Login(t)
  <2>1. UNCHANGED <<now, ends, srcEnds>>
    BY <1>5 DEF Request, Create, Delete, Call, Stop, Step, DrainStep, CreateStep, DeleteStep,
       CallStep, CloseStep, recordVars, DrainIo, Sweep, Insert, Bind, Clean, Undo,
       UndoIo, Forget, Revoke, RevokeIo, Resolve, ResolveIo, Authorize, SourceAnswers,
       SourceRejects, Mark, MarkIo, Fatal, Close, CloseIo, Checkpoint, Shut, Cancel
  <2>2. \/ mem' = mem
        \/ mem' = [mem EXCEPT ![task[t].s] = "none"]
        \/ mem' = [mem EXCEPT ![task[t].s] = "reauth"] /\ NeedsReauth(task[t].s)
        \/ mem' = [mem EXCEPT ![task[t].s] = "reauth"] /\ task[t].at = "mark_io"
        \/ mem' = [s \in Sessions |-> "none"]
    BY <1>5 DEF Request, Create, Delete, Call, Stop, Step, DrainStep, CreateStep, DeleteStep,
       CallStep, CloseStep, recordVars, DrainIo, Sweep, Insert, Bind, Clean, Undo,
       UndoIo, Forget, Revoke, RevokeIo, Resolve, ResolveIo, Authorize, SourceAnswers,
       SourceRejects, Mark, MarkIo, Fatal, Close, CloseIo, Checkpoint, Shut, Cancel
  <2>3. QED
    BY <1>0, <2>1, <2>2 DEF NeedsReauth, MarkHeld
<1>6. QED
  BY <1>2, <1>3, <1>4, <1>5

\* What a request sets out to invalidate was just collected.
LEMMA LeftFrom ==
    ASSUME TypeOK, Placed, NEW t \in Tasks, Request(t) \/ Step(t) \/ Cancel(t)
    PROVE  task'[t].left \subseteq task[t].left \cup ExpiredRecords
<1>0. TasksTyped /\ fresh \subseteq Sessions /\ delivered \subseteq Sessions
  BY DEF TypeOK, TasksTyped
<1> USE <1>0 DEF Moves, Goes, Ends, IdleTask
<1>1. CASE Request(t)
  <2>1. \E at, op, s : Begins(t, at, op, s)
    BY <1>1, CreateMoves, DeleteMoves, CallMoves, StopMoves DEF Request
  <2>2. QED
    BY <2>1 DEF Begins
<1>2. CASE DrainStep(t)
  BY <1>2, DrainMoves, DrainIoMoves, SweepMoves DEF DrainStep
<1>3. CASE Login(t) \/ Admit(t) \/ Insert(t) \/ Undo(t) \/ UndoIo(t)
  BY <1>3, LoginMoves, AdmitMoves, InsertMoves, UndoMoves, UndoIoMoves
<1>4. CASE Bind(t) \/ Clean(t) \/ Forget(t)
  BY <1>4, BindMoves, AnswerMoves, ForgetMoves DEF Clean
<1>5. CASE DeleteStep(t)
  BY <1>5, GotoMoves, StepsAreTyped, RevokeIoMoves DEF DeleteStep, Revoke
<1>6. CASE Resolve(t) \/ Authorize(t)
  BY <1>6, GotoMoves, ReturnEnds, StepsAreTyped DEF Resolve, Authorize
<1>7. CASE ResolveIo(t) \/ SourceAnswers(t) \/ SourceRejects(t)
  BY <1>7, GotoMoves, ReturnEnds, StepsAreTyped DEF ResolveIo, SourceAnswers, SourceRejects
<1>8. CASE Mark(t) \/ MarkIo(t)
  BY <1>8, MarkMoves, MarkIoMoves
<1>9. CASE CloseStep(t)
  BY <1>9, GotoMoves, ReturnEnds, StepsAreTyped, FatalMoves, CloseIoMoves
     DEF CloseStep, Close, Checkpoint, Shut
<1>10. CASE Cancel(t)
  <2>1. \/ Ends(t)
        \/ \E at : \E left \in {{}, task[t].left} : Moves(t, at, left, task[t].out, TRUE)
    BY <1>10, CancelMoves
  <2>2. QED
    BY <2>1
<1>11. QED
  BY <1>1, <1>2, <1>3, <1>4, <1>5, <1>6, <1>7, <1>8, <1>9, <1>10
     DEF Step, CreateStep, CallStep

\* A request comes to forget its own token by these steps.
LEMMA ForgetEntered ==
    ASSUME TypeOK, Placed, NEW t \in Tasks, Request(t) \/ Step(t) \/ Cancel(t),
           task'[t].at = "forget"
    PROVE  /\ Undo(t) \/ UndoIo(t) \/ RevokeIo(t) \/ Sweep(t)
           /\ task'[t].s = task[t].s /\ task'[t].op = task[t].op
           /\ task'[t].op \in {"create", "delete", "call"}
           /\ Sweep(t) => task[t].op = "call" /\ task'[t].out = task[t].out
           /\ Undo(t) \/ UndoIo(t) => task[t].op = "create" /\ Owning(t) /\ ~Unmade(t)
           /\ RevokeIo(t) => task[t].op = "delete"
<1>0. TasksTyped /\ fresh \subseteq Sessions /\ delivered \subseteq Sessions
  BY DEF TypeOK, TasksTyped
<1> USE <1>0 DEF Moves, Goes, Ends, IdleTask
<1>1. CASE Request(t)
  <2>1. PICK at \in {"drain", "revoke", "resolve", "checkpoint"} :
            \E op, s : Begins(t, at, op, s)
    BY <1>1, CreateMoves, DeleteMoves, CallMoves, StopMoves DEF Request
  <2>2. QED
    BY <2>1 DEF Begins
<1>2. CASE Drain(t) \/ DrainIo(t)
  BY <1>2, DrainMoves, DrainIoMoves
<1>3. CASE Login(t) \/ Admit(t) \/ Insert(t)
  BY <1>3, LoginMoves, AdmitMoves, InsertMoves
<1>4. CASE Bind(t) \/ Clean(t) \/ Forget(t)
  BY <1>4, BindMoves, AnswerMoves, ForgetMoves DEF Clean
<1>5. CASE Revoke(t)
  BY <1>5, GotoMoves, StepsAreTyped DEF Revoke
<1>6. CASE Resolve(t) \/ Authorize(t)
  BY <1>6, GotoMoves, ReturnEnds, StepsAreTyped DEF Resolve, Authorize
<1>7. CASE ResolveIo(t) \/ SourceAnswers(t) \/ SourceRejects(t)
  BY <1>7, GotoMoves, ReturnEnds, StepsAreTyped DEF ResolveIo, SourceAnswers, SourceRejects
<1>8. CASE Mark(t) \/ MarkIo(t)
  BY <1>8, MarkMoves, MarkIoMoves
<1>9. CASE CloseStep(t)
  BY <1>9, GotoMoves, ReturnEnds, StepsAreTyped, FatalMoves, CloseIoMoves
     DEF CloseStep, Close, Checkpoint, Shut
<1>10. CASE Cancel(t)
  <2>1. \/ Ends(t)
        \/ \E left : Moves(t, "undo", left, task[t].out, TRUE)
        \/ /\ Moves(t, task[t].at, task[t].left, task[t].out, TRUE)
           /\ task[t].at \in DrainSteps \cup {"clean"}
    BY <1>10, CancelMoves
  <2>2. QED
    BY <1>10, <2>1 DEF DrainSteps
<1>11. CASE Undo(t) \/ UndoIo(t)
  <2>1. task[t].op = "create" /\ task[t].at \in {"undo", "undo_io"}
    BY <1>11 DEF Undo, UndoIo, Placed, PlacedAt, CreateSteps
  <2>2. task'[t].s = task[t].s /\ task'[t].op = task[t].op
    BY <1>11, UndoMoves, UndoIoMoves
  <2>3. QED
    BY <1>11, <2>1, <2>2 DEF Undo, UndoIo, RevokeIo, Sweep, Owning, Unmade, DrainSteps
<1>12. CASE RevokeIo(t)
  <2>1. task[t].op = "delete" /\ task[t].at = "revoke_io"
    BY <1>12 DEF RevokeIo, Placed, PlacedAt, DeleteSteps
  <2>2. task'[t].s = task[t].s /\ task'[t].op = task[t].op
    BY <1>12, RevokeIoMoves
  <2>3. QED
    BY <1>12, <2>1, <2>2 DEF Undo, UndoIo, RevokeIo, Sweep
<1>13. CASE Sweep(t)
  <2>1. task[t].op = "call" /\ Moves(t, "forget", {}, task[t].out, task[t].quit)
    BY <1>13, SweepMoves
  <2>2. QED
    BY <1>13, <2>1 DEF Undo, UndoIo, RevokeIo, Sweep
<1>14. QED
  BY <1>1, <1>2, <1>3, <1>4, <1>5, <1>6, <1>7, <1>8, <1>9, <1>10, <1>11, <1>12, <1>13
     DEF Step, DrainStep, CreateStep, DeleteStep, CallStep

\* Each step records only what it admits, and a closed vault stays empty.
LEMMA RecordedStep ==
    TypeOK /\ Placed /\ Owned /\ Unborn /\ MarkHeld /\ Recorded /\ [Next]_vars => Recorded'
<1> SUFFICES ASSUME TypeOK, Placed, Owned, Unborn, MarkHeld, Recorded, [Next]_vars PROVE Recorded'
  OBVIOUS
<1>0. TasksTyped /\ fresh \subseteq Sessions /\ delivered \subseteq Sessions
      /\ \A u \in Tasks : task[u].left \subseteq Sessions
  BY DEF TypeOK, TasksTyped, TaskStates
<1>1. ASSUME NEW t \in Tasks, Request(t) \/ Step(t) \/ Cancel(t) PROVE Recorded'
  <2>1. Others(t) /\ now' = now
    BY <1>0, <1>1, OneMoves, RecordsFrom
  <2>2. \A s \in Sessions : Made(s) => Made(s)' /\ ends'[s] = ends[s]
    BY <1>1, MadeLasts, RecordsFrom DEF Made
  <2>3. ASSUME Admit(t), task'[t].at = "insert"
        PROVE  (\A s \in Sessions : s = task[t].s => Made(s)') /\ VaultOpen'
    <3>1. fresh' = fresh /\ Owning(t) /\ task'[t].s = task[t].s /\ ~Unmade(t)'
      BY <1>0, <2>3, AdmitMoves
         DEF Admit, historyVars, Owning, Making, Unwritten, Moves, Goes, Unmade, DrainSteps
    <3>2. VaultOpen'
      BY <1>0, <2>3, AdmitMoves DEF Admit, processVars, Moves, Goes
    <3>3. QED
      BY <2>1, <3>1, <3>2 DEF Owned, Made, Unmade, Others, Owning, Making, Unwritten
  <2>4. \A s \in Sessions : mem'[s] # "none" => Made(s)'
    <3>1. \A s \in Sessions : mem'[s] # "none" =>
              mem[s] # "none" \/ (Admit(t) /\ task'[t].at = "insert" /\ s = task[t].s)
      BY <1>1, RecordsFrom
    <3>2. QED
      BY <2>2, <2>3, <3>1 DEF Recorded
  <2>5. \A u \in Tasks : \A s \in task'[u].left : Made(s)' /\ now' >= ends'[s]
    <3>1. \A s \in ExpiredRecords : s \in Sessions /\ Made(s) /\ now >= ends[s]
      BY ExpiredIsPast DEF ExpiredRecords, Expired, Recorded
    <3>2. \A u \in Tasks : \A s \in task[u].left : s \in Sessions /\ Made(s) /\ now >= ends[s]
      BY <1>0 DEF Recorded
    <3>3. task'[t].left \subseteq task[t].left \cup ExpiredRecords
      BY <1>1, LeftFrom
    <3>4. \A u \in Tasks : \A s \in task'[u].left : s \in task[u].left \cup ExpiredRecords
      BY <2>1, <3>3 DEF Others
    <3>5. QED
      BY <2>1, <2>2, <3>1, <3>2, <3>4
  <2>6. ASSUME NEW u \in Tasks, task'[u].at = "forget", NEW s, s = task'[u].s PROVE Made(s)'
    <3>1. CASE u = t
      <4>1. s = task[t].s /\ Made(s)
        <5>1. ~Unmade(t) /\ (Owning(t) \/ task[t].op \in {"delete", "call"})
          BY <1>1, <2>6, <3>1, ForgetEntered DEF RevokeIo, Sweep, Unmade
        <5>2. QED
          BY <1>1, <2>6, <3>1, <5>1, ForgetEntered, OwnIsMade
      <4>2. s \in Sessions
        BY <1>0, <1>1, <2>6, <3>1, ForgetEntered DEF Undo, UndoIo, RevokeIo, Sweep, Placed,
           PlacedAt, CloseSteps
      <4>3. QED
        BY <2>2, <4>1, <4>2
    <3>2. CASE u # t
      <4>1. task'[u] = task[u] /\ s \in Sessions /\ Made(s)
        BY <2>1, <2>6, <3>2 DEF Others, Placed, PlacedAt, CloseSteps, Recorded
      <4>2. QED
        BY <2>2, <4>1
    <3>3. QED
      BY <3>1, <3>2
  <2>7. ASSUME ~VaultOpen' PROVE \A s \in Sessions : mem'[s] = "none"
    <3>1. CASE CloseIo(t) \/ Checkpoint(t)
      BY <2>7, <3>1 DEF CloseIo, Checkpoint, Recorded
    <3>2. CASE ~CloseIo(t) /\ ~Checkpoint(t)
      <4>1. shut' = shut \/ shut' = shut \cup {"service"} \/ shut' = shut \cup {"strategy"}
        BY <1>1, <2>7, <3>2 DEF Request, Create, Delete, Call, Stop, Step, DrainStep, CreateStep,
           DeleteStep, CallStep, CloseStep, processVars, Drain, DrainIo, Sweep, Login, Admit,
           Insert, Bind, Clean, Undo, UndoIo, Forget, Revoke, RevokeIo, Resolve, ResolveIo,
           Authorize, SourceAnswers, SourceRejects, Mark, MarkIo, Fatal, Close, Shut, Cancel
      <4>2. QED
        BY <1>1, <2>3, <2>7, <4>1, RecordsFrom DEF Recorded
    <3>3. QED
      BY <3>1, <3>2
  <2>8. \A u \in Tasks : task'[u].at = "forget" => Made(task[u].s)'
    BY <2>6
  <2>9. QED
    BY <2>4, <2>5, <2>7, <2>8 DEF Recorded
<1>2. CASE LateWrite \/ Tick \/ UNCHANGED vars
  <2>1. UNCHANGED <<shut, mem, ends, fresh, task>> /\ (now' = now \/ now' = now + 1)
    BY <1>2 DEF LateWrite, Tick, vars, processVars, recordVars, historyVars
  <2>2. now' >= now /\ now \in Nat /\ now' \in Nat /\ ends \in [Sessions -> Nat]
    BY <2>1 DEF TypeOK
  <2>3. \A u \in Tasks : \A s \in task[u].left : now' >= ends[s]
    BY <1>0, <2>2 DEF Recorded
  <2>4. QED
    BY <2>1, <2>3 DEF Recorded, Made, Unmade
<1>3. CASE Halt
  BY <1>3 DEF Halt, historyVars, Recorded, IdleTask
<1>4. CASE Start
  <2>1. UNCHANGED <<now, ends, fresh, task>> /\ VaultOpen'
    BY <1>4 DEF Start, historyVars
  <2>2. \A u \in Tasks : task[u].at = "idle"
    BY <1>4 DEF Start, Placed, PlacedAt
  <2>3. \A s \in Sessions : mem'[s] # "none" => Made(s)
    BY <1>4, <2>2 DEF Start, Unborn, Made, Unmade, DrainSteps
  <2>4. QED
    BY <2>1, <2>2, <2>3 DEF Recorded, Made, Unmade
<1>5. QED
  BY <1>1, <1>2, <1>3, <1>4 DEF Next

\* A request that will bind the token of its session, refuse the session, or
\* close everything.
Repairing(t) ==
    \/ task[t].at \in {"insert", "bind", "mark", "mark_io"}
    \/ task[t].op = "call" /\ task[t].at \in DrainSteps /\ task[t].out = "failed"

\* A request that found its session dead, or put an end to it.
Settled(t) ==
    \/ task[t].at = "forget" /\ (task[t].op = "delete" \/ task[t].out # "failed")
    \/ task[t].op = "call" /\ task[t].at \in DrainSteps /\ task[t].out # "failed"

Tokened ==
    /\ \A t \in Tasks : Settled(t) => ~Lives(task[t].s)
    /\ \A s \in Sessions : Lives(s) =>
          auth[s] = "bound" \/ Closing \/ \E t \in Tasks : Repairing(t) /\ task[t].s = s

\* At first there is no record.
LEMMA TokenedInit == Init => Tokened
  BY DEF Init, Tokened, Settled, Lives, IdleTask, DrainSteps

\* Who will see to a record without a token attends to it.
LEMMA TokenedMeans == TypeOK /\ Tokened => LiveRecordHasToken
  BY DEF TypeOK, Tokened, LiveRecordHasToken, Attended, Closing, Repairing, CloseSteps, DrainSteps

\* A session resolves that did before, or that was just admitted.
LEMMA LivesFrom ==
    ASSUME TypeOK, Placed, MarkHeld, Recorded, NEW t \in Tasks, Request(t) \/ Step(t) \/ Cancel(t),
           NEW s \in Sessions, Lives(s)'
    PROVE  Lives(s) \/ (Admit(t) /\ task'[t].at = "insert" /\ s = task[t].s)
<1>1. CASE Made(s)
  BY <1>1, RecordsFrom DEF Lives, SourceStale, Made
<1>2. CASE ~Made(s)
  BY <1>2, RecordsFrom DEF Lives, Recorded, TypeOK, Statuses
<1>3. QED
  BY <1>1, <1>2

\* A request comes to a clean-up after a call by these steps.
LEMMA CallDrains ==
    ASSUME TypeOK, Placed, NEW t \in Tasks, Request(t) \/ Step(t) \/ Cancel(t),
           task'[t].op = "call", task'[t].at \in DrainSteps
    PROVE  /\ Mark(t) \/ MarkIo(t) \/ Drain(t) \/ DrainIo(t)
           /\ task'[t].s = task[t].s /\ task[t].op = "call"
           /\ Drain(t) \/ DrainIo(t) => task'[t].out = task[t].out
<1>0. TasksTyped /\ fresh \subseteq Sessions /\ delivered \subseteq Sessions
  BY DEF TypeOK, TasksTyped
<1> USE <1>0 DEF Moves, Goes, Ends, IdleTask, DrainSteps
<1>1. CASE Request(t)
  <2>1. \/ \E s : Begins(t, "drain", "create", s)
        \/ \E op, s : \E at \in {"revoke", "resolve", "checkpoint"} : Begins(t, at, op, s)
    BY <1>1, CreateMoves, DeleteMoves, CallMoves, StopMoves DEF Request
  <2>2. CASE \E s : Begins(t, "drain", "create", s)
    BY <2>2 DEF Begins
  <2>3. CASE \E op, s : \E at \in {"revoke", "resolve", "checkpoint"} : Begins(t, at, op, s)
    <3>1. task'[t].at \notin DrainSteps
      BY <2>3 DEF Begins
    <3>2. QED
      BY <3>1
  <2>4. QED
    BY <2>1, <2>2, <2>3
<1>2. CASE Sweep(t)
  BY <1>2, SweepMoves
<1>3. CASE Login(t) \/ Admit(t) \/ Insert(t) \/ Undo(t) \/ UndoIo(t)
  BY <1>3, LoginMoves, AdmitMoves, InsertMoves, UndoMoves, UndoIoMoves
<1>4. CASE Bind(t) \/ Clean(t) \/ Forget(t)
  BY <1>4, BindMoves, AnswerMoves, ForgetMoves DEF Clean
<1>5. CASE Revoke(t)
  BY <1>5, GotoMoves, StepsAreTyped DEF Revoke
<1>6. CASE RevokeIo(t)
  BY <1>6, RevokeIoMoves DEF RevokeIo, Placed, PlacedAt, DeleteSteps
<1>7. CASE Resolve(t) \/ Authorize(t)
  BY <1>7, GotoMoves, ReturnEnds, StepsAreTyped DEF Resolve, Authorize
<1>8. CASE ResolveIo(t) \/ SourceAnswers(t) \/ SourceRejects(t)
  BY <1>8, GotoMoves, ReturnEnds, StepsAreTyped DEF ResolveIo, SourceAnswers, SourceRejects
<1>9. CASE CloseStep(t)
  BY <1>9, GotoMoves, ReturnEnds, StepsAreTyped, FatalMoves, CloseIoMoves
     DEF CloseStep, Close, Checkpoint, Shut
<1>10. CASE Cancel(t)
  <2>1. \/ Ends(t)
        \/ \E left : Moves(t, "undo", left, task[t].out, TRUE)
        \/ task[t].op = "create" /\ Moves(t, task[t].at, task[t].left, task[t].out, TRUE)
    BY <1>10, CancelMoves
  <2>2. QED
    BY <2>1
<1>11. CASE Mark(t) \/ MarkIo(t)
  <2>1. task'[t].s = task[t].s /\ task'[t].op = task[t].op /\ task[t].at \in {"mark", "mark_io"}
    BY <1>11, MarkMoves, MarkIoMoves DEF Mark, MarkIo
  <2>2. QED
    BY <1>11, <2>1 DEF Drain, DrainIo
<1>12. CASE Drain(t) \/ DrainIo(t)
  BY <1>12, DrainMoves, DrainIoMoves
<1>13. QED
  BY <1>1, <1>2, <1>3, <1>4, <1>5, <1>6, <1>7, <1>8, <1>9, <1>10, <1>11, <1>12
     DEF Step, DrainStep, CreateStep, DeleteStep, CallStep

\* A request that settles its session has one.
LEMMA SettledPlace ==
    ASSUME TypeOK, Placed, NEW t \in Tasks, Request(t) \/ Step(t) \/ Cancel(t), Settled(t)'
    PROVE  task'[t].s \in Sessions
<1>1. CASE task'[t].at = "forget"
  BY <1>1, ForgetEntered DEF Undo, UndoIo, RevokeIo, Sweep, Placed, PlacedAt, CloseSteps
<1>2. CASE task'[t].at # "forget"
  BY <1>2, CallDrains DEF Settled, Mark, MarkIo, Drain, DrainIo, Placed, PlacedAt, CloseSteps
<1>3. QED
  BY <1>1, <1>2

\* A request settles its session when the session is dead.
LEMMA SettledEntered ==
    ASSUME TypeOK, Placed, MarkHeld, Recorded, Tokened,
           NEW t \in Tasks, Request(t) \/ Step(t) \/ Cancel(t), Settled(t)',
           NEW s \in Sessions, s = task'[t].s
    PROVE  ~Lives(s)'
<1>0. /\ TasksTyped /\ now \in Nat /\ mem \in [Sessions -> Statuses] /\ ends \in [Sessions -> Nat]
      /\ PlacedAt(t)
  BY DEF TypeOK, TasksTyped, Placed
<1>1. task'[t].at # "insert" /\ (~Lives(s) => ~Lives(s)')
  BY LivesFrom DEF Settled, DrainSteps
<1>2. CASE task'[t].at = "forget"
  <2>1. s = task[t].s /\ (task'[t].op = "delete" \/ task'[t].out # "failed")
    BY <1>2, ForgetEntered DEF Settled, DrainSteps
  <2>2. CASE Undo(t)
    <3>1. task'[t].op = "create" /\ task'[t].out = "failed"
      BY <1>0, <1>2, <2>2, ForgetEntered, UndoMoves DEF Moves, Goes
    <3>2. QED
      BY <2>1, <3>1
  <2>3. CASE UndoIo(t)
    <3>1. task'[t].op = "create" /\ (task'[t].out = "failed" \/ mem'[s] = "none")
      BY <1>0, <1>2, <2>1, <2>3, ForgetEntered, UndoIoMoves DEF Moves, Goes
    <3>2. QED
      BY <2>1, <3>1 DEF Lives
  <2>4. CASE RevokeIo(t)
    <3>1. mem'[s] = "none"
      BY <1>0, <1>2, <2>1, <2>4, RevokeIoMoves DEF Moves, Goes
    <3>2. QED
      BY <3>1 DEF Lives
  <2>5. CASE Sweep(t)
    <3>1. task[t].op = "call" /\ task[t].out # "failed" /\ task[t].at = "sweep"
      BY <1>2, <2>1, <2>5, ForgetEntered DEF Sweep
    <3>2. ~Lives(s)
      BY <2>1, <3>1 DEF Tokened, Settled, DrainSteps
    <3>3. QED
      BY <1>1, <3>2
  <2>6. QED
    BY <1>2, <2>2, <2>3, <2>4, <2>5, ForgetEntered
<1>3. CASE task'[t].at # "forget"
  <2>1. /\ task'[t].op = "call" /\ task'[t].at \in DrainSteps /\ task'[t].out # "failed"
        /\ s = task[t].s /\ task[t].op = "call"
    BY <1>3, CallDrains DEF Settled
  <2>2. CASE Mark(t)
    <3>1. ASSUME Lives(s) PROVE FALSE
      <4>1. VaultOpen
        BY <3>1 DEF Recorded, Lives
      <4>2. \/ Goto(t, "mark_io")
            \/ task' = [task EXCEPT ![t].at = "drain", ![t].out = "failed"]
        BY <2>1, <2>2, <3>1, <4>1 DEF Mark
      <4>3. Goes(t, "mark_io") \/ Moves(t, "drain", task[t].left, "failed", task[t].quit)
        BY <1>0, <4>2, GotoMoves, OutMoves, StepsAreTyped DEF Outcomes
      <4>4. QED
        BY <2>1, <4>3 DEF Moves, Goes, DrainSteps
    <3>2. QED
      BY <1>1, <3>1
  <2>3. CASE MarkIo(t)
    <3>1. UNCHANGED <<now, ends>> /\ (now > ends[s] \/ mem'[s] = "reauth")
      BY <1>0, <2>1, <2>3, MarkIoMoves DEF MarkIo, Moves
    <3>2. QED
      BY <1>0, <3>1 DEF Lives
  <2>4. CASE Drain(t) \/ DrainIo(t)
    <3>1. task[t].out # "failed" /\ task[t].at \in DrainSteps
      BY <2>1, <2>4, CallDrains DEF Drain, DrainIo, DrainSteps
    <3>2. ~Lives(s)
      BY <2>1, <3>1 DEF Tokened, Settled
    <3>3. QED
      BY <1>1, <3>2
  <2>5. QED
    BY <2>1, <2>2, <2>3, <2>4, CallDrains
<1>4. QED
  BY <1>2, <1>3

\* The token of a session that resolves stays bound, or the session is on its way
\* to be refused.
LEMMA BoundLasts ==
    ASSUME TypeOK, Placed, Recorded, Tokened,
           NEW t \in Tasks, Request(t) \/ Step(t) \/ Cancel(t),
           NEW s \in Sessions, Lives(s), auth[s] = "bound"
    PROVE  auth'[s] = "bound" \/ Closing' \/ (Repairing(t)' /\ task'[t].s = s)
<1>0. /\ TasksTyped /\ now \in Nat /\ ends \in [Sessions -> Nat]
      /\ auth \in [Sessions -> {"none", "bound", "reauth"}] /\ PlacedAt(t)
  BY DEF TypeOK, TasksTyped, Placed
<1>1. CASE Sweep(t) \/ Clean(t)
  <2>1. s \notin task[t].left
    BY <1>0 DEF Recorded, Lives
  <2>2. QED
    BY <1>1, <2>1 DEF Sweep, Clean, Put
<1>2. CASE Bind(t)
  BY <1>0, <1>2 DEF Bind
<1>3. CASE Forget(t)
  <2>1. CASE s = task[t].s
    <3>1. task[t].op # "delete" /\ task[t].out = "failed"
      BY <1>3, <2>1 DEF Forget, Tokened, Settled
    <3>2. Goto(t, "fatal")
      BY <1>3, <3>1 DEF Forget, Goto
    <3>3. QED
      BY <1>0, <3>2, GotoMoves, StepsAreTyped DEF Goes, Moves, Closing, CloseSteps
  <2>2. CASE s # task[t].s
    BY <1>3, <2>2 DEF Forget
  <2>3. QED
    BY <2>1, <2>2
<1>4. CASE Authorize(t)
  BY <1>0, <1>4 DEF Authorize, Lives
<1>5. CASE SourceRejects(t)
  <2>1. auth' = auth \/ (auth' = [auth EXCEPT ![task[t].s] = "reauth"] /\ Goto(t, "mark"))
    BY <1>5 DEF SourceRejects
  <2>2. Goto(t, "mark") => task'[t].at = "mark" /\ task'[t].s = task[t].s
    BY <1>0, GotoMoves, StepsAreTyped DEF Goes, Moves
  <2>3. QED
    BY <1>0, <2>1, <2>2 DEF Repairing
<1>6. CASE Shut(t)
  BY <1>6 DEF Shut, Closing
<1>7. CASE auth' = auth
  BY <1>7
<1>8. QED
  BY <1>1, <1>2, <1>3, <1>4, <1>5, <1>6, <1>7
     DEF Request, Create, Delete, Call, Stop, Step, DrainStep, CreateStep, DeleteStep, CallStep,
         CloseStep, Drain, DrainIo, Login, Admit, Insert, Undo, UndoIo, Revoke, RevokeIo, Resolve,
         ResolveIo, SourceAnswers, Mark, MarkIo, Fatal, Close, CloseIo, Checkpoint, Cancel

\* A request that will see to a record without a token gets there, or goes on.
LEMMA RepairingLasts ==
    ASSUME TypeOK, Placed, Recorded,
           NEW t \in Tasks, Request(t) \/ Step(t) \/ Cancel(t),
           NEW s \in Sessions, Lives(s), Repairing(t), task[t].s = s
    PROVE  \/ auth'[s] = "bound" \/ ~Lives(s)' \/ Closing'
           \/ Repairing(t)' /\ task'[t].s = s
<1>0. /\ TasksTyped /\ now \in Nat /\ mem \in [Sessions -> Statuses] /\ ends \in [Sessions -> Nat]
      /\ auth \in [Sessions -> {"none", "bound", "reauth"}] /\ PlacedAt(t)
  BY DEF TypeOK, TasksTyped, Placed
<1>1. CASE Insert(t)
  <2>1. \/ Goes(t, "bind")
        \/ mem'[s] = "none"
    BY <1>0, <1>1, InsertMoves
  <2>2. QED
    BY <2>1 DEF Goes, Moves, Repairing, Lives
<1>2. CASE Bind(t)
  BY <1>0, <1>2 DEF Bind, Closing, processVars
<1>3. CASE Mark(t)
  <2>1. VaultOpen
    BY DEF Recorded, Lives
  <2>2. \/ Goto(t, "mark_io")
        \/ task' = [task EXCEPT ![t].at = "drain", ![t].out = "failed"]
    BY <1>3, <2>1 DEF Mark
  <2>3. task[t].op = "call"
    BY <1>0, <1>3 DEF Mark, PlacedAt, CallSteps
  <2>4. Goes(t, "mark_io") \/ Moves(t, "drain", task[t].left, "failed", task[t].quit)
    BY <1>0, <2>2, GotoMoves, OutMoves, StepsAreTyped DEF Outcomes
  <2>5. QED
    BY <2>3, <2>4 DEF Moves, Goes, DrainSteps, Repairing
<1>4. CASE MarkIo(t)
  <2>1. task[t].op = "call" /\ UNCHANGED <<now, ends>>
    BY <1>0, <1>4 DEF MarkIo, PlacedAt, CallSteps
  <2>2. \/ now > ends[s] \/ mem'[s] = "reauth"
        \/ Moves(t, "drain", task[t].left, "failed", task[t].quit)
    BY <1>0, <1>4, MarkIoMoves
  <2>3. QED
    BY <1>0, <2>1, <2>2 DEF Moves, DrainSteps, Repairing, Lives
<1>5. CASE Drain(t) \/ DrainIo(t)
  <2>1. task[t].op = "call" /\ task[t].out = "failed"
    BY <1>5 DEF Repairing, Drain, DrainIo
  <2>2. \E left : \E at \in DrainSteps \cup {"fatal"} : Moves(t, at, left, task[t].out, task[t].quit)
    BY <1>0, <1>5, <2>1, DrainMoves, DrainIoMoves DEF Goes, DrainSteps
  <2>3. QED
    BY <2>1, <2>2 DEF Moves, Repairing, Closing, CloseSteps
<1>6. CASE Sweep(t)
  <2>1. task[t].op = "call" /\ task[t].out = "failed" /\ task[t] \in TaskStates
    BY <1>0, <1>6 DEF Repairing, Sweep, TasksTyped
  <2>2. task'[t] = AfterSweep([task[t] EXCEPT !.left = {}])
    BY <1>0, <1>6 DEF Sweep, TasksTyped
  <2>3. task'[t].at = "fatal"
    BY <2>1, <2>2 DEF AfterSweep, TaskStates
  <2>4. QED
    BY <2>3 DEF Closing, CloseSteps
<1>7. CASE Cancel(t)
  <2>1. mem'[s] = "none"
    BY <1>0, <1>7, CancelMoves DEF Repairing, DrainSteps
  <2>2. QED
    BY <2>1 DEF Lives
<1>8. QED
  BY <1>1, <1>2, <1>3, <1>4, <1>5, <1>6, <1>7
     DEF Repairing, DrainSteps, Request, Create, Delete, Call, Stop, Step, DrainStep, CreateStep,
         DeleteStep, CallStep, CloseStep, Login, Admit, Clean, Undo, UndoIo, Forget, Revoke,
         RevokeIo, Resolve, ResolveIo, Authorize, SourceAnswers, SourceRejects, Fatal, Close,
         CloseIo, Checkpoint, Shut

\* Each step leaves a record that resolves its token, or somebody who sees to it.
LEMMA TokenedStep ==
    TypeOK /\ Placed /\ Owned /\ MarkHeld /\ Recorded /\ Tokened /\ [Next]_vars => Tokened'
<1> SUFFICES ASSUME TypeOK, Placed, Owned, MarkHeld, Recorded, Tokened, [Next]_vars
             PROVE  Tokened'
  OBVIOUS
<1>0. TasksTyped /\ fresh \subseteq Sessions /\ delivered \subseteq Sessions
      /\ now \in Nat /\ ends \in [Sessions -> Nat] /\ srcEnds \in [Sessions -> Nat]
      /\ mem \in [Sessions -> Statuses]
  BY DEF TypeOK, TasksTyped
<1>1. \A u \in Tasks : Settled(u) => task[u].s \in Sessions
  BY DEF Settled, DrainSteps, Placed, PlacedAt, CloseSteps
<1>2. ASSUME NEW t \in Tasks, Request(t) \/ Step(t) \/ Cancel(t) PROVE Tokened'
  <2>1. Others(t)
    BY <1>0, <1>2, OneMoves
  <2>2. ASSUME NEW u \in Tasks, Settled(u)', NEW s, s = task'[u].s PROVE ~Lives(s)'
    <3>1. CASE u # t
      <4>1. task'[u] = task[u] /\ Settled(u)
        BY <2>1, <2>2, <3>1 DEF Others, Settled
      <4>2. s \in Sessions /\ ~Lives(s)
        BY <1>1, <2>2, <4>1 DEF Tokened
      <4>3. ASSUME Admit(t), s = task[t].s PROVE FALSE
        <5>1. Unmade(t)
          BY <4>3 DEF Admit, Unmade
        <5>2. ~Made(s)
          BY <4>3, <5>1 DEF Made
        <5>3. CASE task[u].at = "forget"
          BY <2>2, <4>1, <5>2, <5>3 DEF Recorded
        <5>4. CASE task[u].op = "call" /\ task[u].at \in DrainSteps
          BY <2>2, <4>1, <5>2, <5>4, OwnIsMade DEF Unmade, DrainSteps
        <5>5. QED
          BY <4>1, <5>3, <5>4 DEF Settled
      <4>4. QED
        BY <1>2, <4>2, <4>3, LivesFrom
    <3>2. CASE u = t
      <4>1. s \in Sessions
        BY <1>2, <2>2, <3>2, SettledPlace
      <4>2. QED
        BY <1>2, <2>2, <3>2, <4>1, SettledEntered
    <3>3. QED
      BY <3>1, <3>2
  <2>3. ASSUME NEW s \in Sessions, Lives(s)'
        PROVE  auth'[s] = "bound" \/ Closing' \/ \E u \in Tasks : Repairing(u)' /\ task'[u].s = s
    <3>1. CASE ~Lives(s)
      <4>1. Admit(t) /\ task'[t].at = "insert" /\ s = task[t].s
        BY <1>2, <2>3, <3>1, LivesFrom
      <4>2. task'[t].s = task[t].s
        BY <1>0, <4>1, AdmitMoves DEF Moves, Goes
      <4>3. QED
        BY <4>1, <4>2 DEF Repairing
    <3>2. CASE Lives(s) /\ auth[s] = "bound"
      BY <1>2, <3>2, BoundLasts
    <3>3. CASE Closing
      BY <1>2, <3>3, ClosingLasts
    <3>4. ASSUME Lives(s), NEW u \in Tasks, Repairing(u), task[u].s = s
          PROVE  auth'[s] = "bound" \/ Closing' \/ \E v \in Tasks : Repairing(v)' /\ task'[v].s = s
      <4>1. CASE u # t
        BY <2>1, <3>4, <4>1 DEF Others, Repairing
      <4>2. CASE u = t
        BY <1>2, <2>3, <3>4, <4>2, RepairingLasts
      <4>3. QED
        BY <4>1, <4>2
    <3>5. QED
      BY <3>1, <3>2, <3>3, <3>4 DEF Tokened
  <2>4. \A u \in Tasks : Settled(u)' => ~Lives(task[u].s)'
    BY <2>2
  <2>5. QED
    BY <2>3, <2>4 DEF Tokened
<1>3. CASE LateWrite \/ Tick \/ UNCHANGED vars
  <2>1. UNCHANGED <<shut, mem, auth, ends, srcEnds, task>> /\ (now' = now \/ now' = now + 1)
    BY <1>3 DEF LateWrite, Tick, vars, processVars, recordVars
  <2>2. \A s \in Sessions : Lives(s)' => Lives(s)
    BY <1>0, <2>1 DEF Lives, SourceStale
  <2>3. QED
    BY <1>1, <2>1, <2>2 DEF Tokened, Settled, Closing, Repairing
<1>4. CASE Halt
  BY <1>4 DEF Halt, Tokened, Settled, Lives, IdleTask, DrainSteps
<1>5. CASE Start
  <2>1. \A s \in Sessions : Lives(s)' => auth'[s] = "bound"
    BY <1>5 DEF Start, Lives
  <2>2. \A u \in Tasks : task'[u].at = "idle"
    BY <1>5 DEF Start, Placed, PlacedAt
  <2>3. QED
    BY <2>1, <2>2 DEF Tokened, Settled, DrainSteps
<1>6. QED
  BY <1>2, <1>3, <1>4, <1>5 DEF Next

-----------------------------------------------------------------------------
(* The theorems                                                            *)

\* Types, where requests stand, who owns what, and the properties themselves.
IInv == /\ TypeOK /\ Placed /\ Owned /\ Unborn /\ MarkHeld
        /\ ErasedStaysErased /\ Marked /\ Durable /\ Capacity /\ Indexed /\ NoOrphan
        /\ Recorded /\ Tokened

\* The invariant of the session lifecycle is inductive: each layer is kept by
\* every step of the code from the layers before it.
THEOREM Invariance == Spec => []IInv
<1>1. Init => IInv
  <2>1. Init => MarkHeld /\ ErasedStaysErased
    BY DEF Init, MarkHeld, ErasedStaysErased, IdleTask
  <2>2. QED
    BY <2>1, TypeInit, PlacedInit, OwnedInit, UnbornInit, MarkedInit, DurableInit, CapacityInit,
       NoOrphanInit, RecordedInit, TokenedInit
       DEF IInv
<1>2. IInv /\ [Next]_vars => IInv'
  BY TypeStep, PlacedStep, OwnedStep, UnbornStep, MarkHeldStep, ErasedStep, MarkedStep,
     DurableStep, CapacityStep, NoOrphanStep, RecordedStep, TokenedStep DEF IInv
<1>3. QED
  BY <1>1, <1>2, PTL DEF Spec

\* Every request, record, row and token keeps its type: the index, the table and
\* the strategy hold known sessions with the statuses the code gives them, and a
\* request stands at an await of the code.
THEOREM TypeCorrect == Spec => []TypeOK
  BY Invariance, PTL DEF IInv

\* A session erased by its client's delete or by the fatal close stays out of the
\* index and the table, whatever late thread, 401 or restart follows.
THEOREM ErasureIsFinal == Spec => []ErasedStaysErased
  BY Invariance, PTL DEF IInv

\* Purge, rollback, delete and restart take no row from a client that still relies
\* on it: only the fatal close does.
THEOREM RowsAreDurable == Spec => []SessionsAreDurable
<1>1. IInv => SessionsAreDurable
  BY DurableMeans DEF IInv
<1>2. QED
  BY Invariance, <1>1, PTL

\* The store never holds more delivered sessions than its capacity, across
\* concurrent creates, their rollbacks and late rows, and restarts.
THEOREM CapacityIsKept == Spec => []WithinCapacity
<1>1. IInv => WithinCapacity
  BY CapacityMeans DEF IInv
<1>2. QED
  BY Invariance, <1>1, PTL

\* Whatever is cancelled, rolled back, deleted or closed between two awaits, no
\* token outlives its record: one still usable has a request about to drop it.
THEOREM NoTokenIsLeft == Spec => []NoLiveOrphanToken
<1>1. IInv => NoLiveOrphanToken
  BY NoOrphanMeans DEF IInv
<1>2. QED
  BY Invariance, <1>1, PTL

\* A record that resolves has its token, or a request about to bind it, to refuse
\* the session or to close everything: no accepted bearer is sent on without one.
THEOREM LiveRecordsHaveTokens == Spec => []LiveRecordHasToken
<1>1. IInv => LiveRecordHasToken
  BY TokenedMeans DEF IInv
<1>2. QED
  BY Invariance, <1>1, PTL

\* No request is sent with the token of a session whose requirement a 401 put on
\* disk, by this process or a later one.
THEOREM NeverSentAgain == Spec => MarkedNeverSendsAgain
<1>1. IInv /\ [Next]_vars =>
         [\A t \in Tasks : task'[t].at = "wait" /\ ~At(t, "wait") => task[t].s \notin marked]_vars
  BY SendStep DEF IInv
<1>2. QED
  BY Invariance, <1>1, PTL DEF Spec, MarkedNeverSendsAgain

==============================================================================
