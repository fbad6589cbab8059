---------------------------- MODULE OperatorProofs ----------------------------
(***************************************************************************)
(* Theorems about OperatorApproval, for any number of requests, Actions and *)
(* decisions, any capacities and any lifetime.                              *)
(***************************************************************************)
EXTENDS OperatorApproval, FiniteSetTheorems, TLAPS

ActionStates == {"none", "prepared", "approved", "committed"}
RowStates == {"none", "approved", "consumed", "revoked", "expired"}
TaskStates ==
    {"idle", "session", "binding", "issue", "start", "state", "verify", "approve", "finish", "close"}

Settled == {"approved", "committed"}

\* Past the await that records the start; past the one that spends the decision.
Announced == {"state", "verify", "approve", "finish"}
Spending == {"approve", "finish"}

RowsTyped ==
    /\ row \in [Decisions -> [status : RowStates, h : Handles \cup {NoHandle}, until : Nat]]
    /\ \A d \in Decided : row[d].h \in Handles

TasksTyped ==
    task \in [Tasks -> [at : TaskStates, by : {"agent", "operator"},
                       h : Handles \cup {NoHandle}, d : Decisions \cup {NoDecision}]]

Typed ==
    /\ now \in Nat
    /\ action \in [Handles -> ActionStates]
    /\ ends \in [Handles -> Nat]
    /\ pending \subseteq Handles
    /\ told \subseteq Decisions
    /\ RowsTyped /\ TasksTyped

\* A request has an Action and a decision, and knows what its earlier steps left.
Knows(t) ==
    LET h == task[t].h
        d == task[t].d
    IN  /\ task[t].at # "idle" => h \in Handles /\ d \in Decisions
        /\ task[t].at \in Announced => Recorded("started", h, d)
        /\ task[t].at \in Spending => row[d].status = "consumed" /\ row[d].h = h
        /\ task[t].at = "finish" => action[h] \in Settled

\* Nobody else is between the two transactions that spend a decision on its Action.
OneSpends ==
    \A t, u \in Tasks :
        task[t].at = "approve" /\ task[u].at = "approve" /\ task[t].d = task[u].d => t = u

\* The two invariants, of one Action and of one answer.
Rests(h) ==
    action[h] \in Settled =>
        \E d \in Decisions : /\ row[d].status = "consumed" /\ row[d].h = h
                             /\ Recorded("started", h, d)

Holds(d) ==
    LET h == row[d].h
    IN  /\ row[d].status = "consumed"
        /\ action[h] \in Settled
        /\ Recorded("started", h, d) /\ Recorded("success", h, d)

Inductive ==
    /\ Typed
    /\ \A t \in Tasks : Knows(t)
    /\ OneSpends
    /\ \A h \in Handles : Rests(h)
    /\ \A d \in told : Holds(d)

-----------------------------------------------------------------------------
(* What no step undoes                                                     *)

\* The ends of decisions, the approvals of Actions and the events of the journal.
RowsEnd ==
    \A d \in Decisions : row[d].status \in {"consumed", "revoked", "expired"} => row'[d] = row[d]

Lasts ==
    /\ RowsEnd
    /\ \A h \in Handles : action[h] \in Settled => action'[h] \in Settled
    /\ journal \subseteq journal'

LEMMA KnowledgeLasts ==
    ASSUME Inductive, Lasts, NEW t \in Tasks, UNCHANGED task[t]
    PROVE  Knows(t)'
  BY DEF Inductive, Lasts, RowsEnd, Knows, Recorded, Announced, Spending

LEMMA RestLasts ==
    ASSUME Inductive, Lasts, NEW h \in Handles, action'[h] \in Settled => action[h] \in Settled
    PROVE  Rests(h)'
<1> SUFFICES ASSUME action'[h] \in Settled
             PROVE  \E d \in Decisions : /\ row'[d].status = "consumed" /\ row'[d].h = h
                                         /\ Recorded("started", h, d)'
  BY DEF Rests
<1>1. PICK d \in Decisions : /\ row[d].status = "consumed" /\ row[d].h = h
                             /\ Recorded("started", h, d)
  BY DEF Inductive, Rests
<1>2. row'[d] = row[d] /\ Recorded("started", h, d)'
  BY <1>1 DEF Lasts, RowsEnd, Recorded
<1> QED
  BY <1>1, <1>2

LEMMA AnswerLasts ==
    ASSUME Inductive, Lasts, NEW d \in told
    PROVE  Holds(d)'
<1>1. d \in Decisions /\ row[d].status = "consumed" /\ Holds(d)
  BY DEF Inductive, Typed, Holds
<1>2. row'[d] = row[d]
  BY <1>1 DEF Lasts, RowsEnd
<1>3. action[row[d].h] \in Settled => action'[row[d].h] \in Settled
  <2>1. row[d].h \in Handles
    BY <1>1 DEF Inductive, Typed, RowsTyped, Decided
  <2> QED
    BY <2>1 DEF Lasts
<1> QED
  BY <1>1, <1>2, <1>3 DEF Holds, Lasts, Recorded

-----------------------------------------------------------------------------
(* The steps of the rows                                                   *)

LEMMA SweepTyped ==
    ASSUME RowsTyped
    PROVE  /\ Swept \in [Decisions -> [status : RowStates, h : Handles \cup {NoHandle}, until : Nat]]
           /\ \A d \in Decisions : /\ Swept[d].h = row[d].h
                                   /\ Swept[d] = row[d] \/ row[d].status = "approved"
                                   /\ row[d].status = "none" <=> Swept[d].status = "none"
  BY DEF RowsTyped, Swept, Lapsed, RowStates

LEMMA IssueKeeps ==
    ASSUME RowsTyped, now \in Nat, NEW d \in Decisions, NEW h \in Handles, NEW lifetime \in 1..Ttl,
           IssueRow(d, h, lifetime)
    PROVE  RowsTyped' /\ RowsEnd
<1>1. now + lifetime \in Nat
  BY LifetimesAreFinite
<1>2. row[d].status = "none"
  BY DEF IssueRow, Decided
<1> DEFINE new == [status |-> "approved", h |-> h, until |-> now + lifetime]
<1>3. new \in [status : RowStates, h : Handles \cup {NoHandle}, until : Nat]
  BY <1>1 DEF RowStates
<1>4. row' = [Swept EXCEPT ![d] = new]
  BY DEF IssueRow
<1>5. new.h = h
  OBVIOUS
<1> HIDE DEF new
<1>6. row' \in [Decisions -> [status : RowStates, h : Handles \cup {NoHandle}, until : Nat]]
  BY <1>3, <1>4, SweepTyped
<1>7. ASSUME NEW e \in Decisions, row'[e].status # "none" PROVE row'[e].h \in Handles
  BY <1>4, <1>5, <1>7, SweepTyped DEF RowsTyped, Decided
<1>8. RowsEnd
  BY <1>2, <1>4, SweepTyped DEF RowsEnd
<1> QED
  BY <1>6, <1>7, <1>8 DEF RowsTyped, Decided

\* Every other step of a row ends an approved decision.
LEMMA EndKeeps ==
    ASSUME RowsTyped, NEW d \in Decisions, row[d].status = "approved",
           NEW end \in {"consumed", "revoked", "expired"},
           row' = [row EXCEPT ![d].status = end]
    PROVE  RowsTyped' /\ RowsEnd
  BY DEF RowsTyped, RowsEnd, Decided, RowStates

LEMMA VerifyKeeps ==
    ASSUME RowsTyped, NEW d \in Decisions, NEW h, Consume(d, h) \/ Reject(d, h)
    PROVE  RowsTyped' /\ RowsEnd
<1>1. CASE UNCHANGED row
  BY <1>1 DEF RowsTyped, RowsEnd, Decided
<1>2. CASE row[d].status = "approved" /\ row' = [row EXCEPT ![d].status = "consumed"]
  BY <1>2, EndKeeps
<1>3. CASE row[d].status = "approved" /\ row' = [row EXCEPT ![d].status = "expired"]
  BY <1>3, EndKeeps
<1> QED
  BY <1>1, <1>2, <1>3 DEF Consume, Reject

-----------------------------------------------------------------------------
(* The steps of the requests                                               *)

\* t moves and keeps its knowledge, and the other requests stand.
Moved(t) ==
    /\ TasksTyped'
    /\ \A u \in Tasks \ {t} : task'[u] = task[u]
    /\ Knows(t)'
    /\ OneSpends'

LEMMA PresentedMoves ==
    ASSUME Inductive, NEW t \in Tasks, NEW at \in {"session", "start"},
           NEW by \in {"agent", "operator"}, NEW h \in Handles, NEW d \in Decisions,
           task' = [task EXCEPT ![t] = [at |-> at, by |-> by, h |-> h, d |-> d]]
    PROVE  Moved(t)
<1> DEFINE new == [at |-> at, by |-> by, h |-> h, d |-> d]
<1>1. new \in [at : TaskStates, by : {"agent", "operator"},
               h : Handles \cup {NoHandle}, d : Decisions \cup {NoDecision}]
  BY DEF TaskStates
<1>2. task'[t] = new /\ \A u \in Tasks \ {t} : task'[u] = task[u]
  BY DEF Inductive, Typed, TasksTyped
<1>3. TasksTyped'
  BY <1>1 DEF Inductive, Typed, TasksTyped
<1>4. Knows(t)'
  BY <1>2 DEF Knows, Announced, Spending
<1>5. OneSpends'
  BY <1>2 DEF Inductive, OneSpends
<1> QED
  BY <1>2, <1>3, <1>4, <1>5 DEF Moved

LEMMA LeaveMoves ==
    ASSUME Inductive, NEW t \in Tasks, task' = [task EXCEPT ![t] = NoRequest]
    PROVE  Moved(t)
<1>1. NoRequest.at = "idle" /\ NoRequest \in [at : TaskStates, by : {"agent", "operator"},
                        h : Handles \cup {NoHandle}, d : Decisions \cup {NoDecision}]
  BY DEF NoRequest, TaskStates
<1>2. task'[t] = NoRequest /\ \A u \in Tasks \ {t} : task'[u] = task[u]
  BY DEF Inductive, Typed, TasksTyped
<1>3. TasksTyped'
  BY <1>1 DEF Inductive, Typed, TasksTyped
<1>4. Knows(t)'
  BY <1>1, <1>2 DEF Knows, Announced, Spending
<1>5. OneSpends'
  BY <1>1, <1>2 DEF Inductive, OneSpends
<1> QED
  BY <1>2, <1>3, <1>4, <1>5 DEF Moved

LEMMA GotoEffect ==
    ASSUME Inductive, NEW t \in Tasks, NEW step \in TaskStates, Goto(t, step)
    PROVE  /\ TasksTyped'
           /\ task'[t].at = step /\ task'[t].h = task[t].h /\ task'[t].d = task[t].d
           /\ \A u \in Tasks \ {t} : task'[u] = task[u]
  BY DEF Inductive, Typed, TasksTyped, Goto

LEMMA GotoMoves ==
    ASSUME Inductive, Lasts, NEW t \in Tasks, NEW step \in TaskStates, Goto(t, step),
           step # "approve", ~Awaits(t, "idle"),
           step \in Announced => task[t].at \in Announced \/ Recorded("started", task[t].h, task[t].d)',
           step = "finish" => task[t].at = "approve" /\ action'[task[t].h] \in Settled
    PROVE  Moved(t)
<1>1. /\ task'[t].at = step /\ task'[t].h = task[t].h /\ task'[t].d = task[t].d
      /\ \A u \in Tasks \ {t} : task'[u] = task[u]
      /\ TasksTyped'
  BY GotoEffect
<1> DEFINE h == task[t].h
           d == task[t].d
<1>2. h \in Handles /\ d \in Decisions /\ Knows(t)
  BY DEF Inductive, Knows, Awaits
<1>3. step \in Announced => Recorded("started", h, d)'
  BY <1>1, <1>2 DEF Knows, Lasts, Recorded
<1>4. step = "finish" => row'[d].status = "consumed" /\ row'[d].h = h
  <2> SUFFICES ASSUME step = "finish" PROVE row'[d].status = "consumed" /\ row'[d].h = h
    OBVIOUS
  <2>1. row[d].status = "consumed" /\ row[d].h = h
    BY <1>2 DEF Knows, Spending
  <2> QED
    BY <1>2, <2>1 DEF Lasts, RowsEnd
<1>5. Knows(t)'
  BY <1>1, <1>2, <1>3, <1>4 DEF Knows, Announced, Spending, Recorded
<1>6. OneSpends'
  BY <1>1 DEF Inductive, OneSpends
<1> QED
  BY <1>1, <1>5, <1>6 DEF Moved

\* What a step has to show.
LEMMA Preserved ==
    ASSUME Inductive, Typed', Lasts,
           \/ UNCHANGED task
           \/ \E t \in Tasks : Moved(t),
           \A h \in Handles : action'[h] \in Settled => action[h] \in Settled \/ Rests(h)',
           \A d \in told' : d \in told \/ Holds(d)'
    PROVE  Inductive'
<1>1. (\A t \in Tasks : Knows(t))' /\ OneSpends'
  <2>1. CASE UNCHANGED task
    BY <2>1, KnowledgeLasts DEF Inductive, OneSpends
  <2>2. CASE \E t \in Tasks : Moved(t)
    BY <2>2, KnowledgeLasts DEF Moved
  <2> QED
    BY <2>1, <2>2
<1>2. (\A h \in Handles : Rests(h))'
  BY RestLasts
<1>3. (\A d \in told : Holds(d))'
  BY AnswerLasts
<1> QED
  BY <1>1, <1>2, <1>3 DEF Inductive

-----------------------------------------------------------------------------
(* The steps                                                               *)

LEMMA FailsMoves ==
    ASSUME Inductive, NEW t \in Tasks, Fails(t)
    PROVE  Moved(t) /\ pending' \subseteq Handles /\ told' = told
  BY LeaveMoves DEF Fails, Inductive, Typed

\* A step that leaves the decisions, the Actions and the journal alone.
LEMMA QuietKeeps ==
    ASSUME Inductive, UNCHANGED <<now, action, ends, row, journal, told>>,
           pending' \subseteq Handles, UNCHANGED task \/ \E t \in Tasks : Moved(t)
    PROVE  Inductive' /\ RowsEnd
<1>1. Lasts /\ RowsEnd
  BY DEF Lasts, RowsEnd
<1>2. TasksTyped'
  BY DEF Moved, Inductive, Typed, TasksTyped
<1>3. Typed'
  BY <1>2 DEF Inductive, Typed, RowsTyped, Decided
<1> QED
  BY <1>1, <1>3, Preserved

\* A step of the rows alone, and of a request.
LEMMA RowsKeep ==
    ASSUME Inductive, UNCHANGED <<now, action, ends, journal, told>>, RowsTyped', RowsEnd,
           pending' \subseteq Handles, UNCHANGED task \/ \E t \in Tasks : Moved(t)
    PROVE  Inductive'
<1>1. Lasts
  BY DEF Lasts
<1>2. TasksTyped'
  BY DEF Moved, Inductive, Typed, TasksTyped
<1>3. Typed'
  BY <1>2 DEF Inductive, Typed
<1> QED
  BY <1>1, <1>3, Preserved

LEMMA LookupKeeps ==
    ASSUME Inductive, NEW t \in Tasks, Lookup(t)
    PROVE  Inductive' /\ RowsEnd
<1>1. Observed \subseteq Handles
  BY DEF Observed, Inductive, Typed
<1>2. UNCHANGED task \/ Moved(t)
  BY <1>1, PresentedMoves DEF Lookup
<1> QED
  BY <1>1, <1>2, QuietKeeps DEF Lookup

LEMMA PresentKeeps ==
    ASSUME Inductive, NEW t \in Tasks, Present(t)
    PROVE  Inductive' /\ RowsEnd
<1>1. Moved(t)
  BY PresentedMoves DEF Present, Decided
<1>2. pending' \subseteq Handles
  BY DEF Present, storeVars, Inductive, Typed
<1> QED
  BY <1>1, <1>2, QuietKeeps DEF Present, storeVars

\* The steps that only read the stores.
LEMMA ReadKeeps ==
    ASSUME Inductive, NEW t \in Tasks,
           ResolveSession(t) \/ Bind(t) \/ State(t) \/ Close(t) \/ Busy(t)
    PROVE  Inductive' /\ RowsEnd
<1>1. /\ UNCHANGED <<now, action, ends, row, journal>>
      /\ \/ Fails(t)
         \/ /\ UNCHANGED <<pending, told>> /\ ~Awaits(t, "idle")
            /\ \/ \E step \in {"binding", "issue", "close"} : Goto(t, step)
               \/ Awaits(t, "state") /\ Goto(t, "verify")
  BY DEF ResolveSession, Bind, State, Close, Busy, Awaits, storeVars
<1>2. CASE Fails(t)
  BY <1>1, <1>2, FailsMoves, QuietKeeps
<1>3. ASSUME UNCHANGED <<pending, told>>, ~Awaits(t, "idle"),
             NEW step \in {"binding", "issue", "close", "verify"}, Goto(t, step),
             step = "verify" => Awaits(t, "state")
      PROVE  Inductive' /\ RowsEnd
  <2>1. Lasts
    BY <1>1 DEF Lasts, RowsEnd
  <2>2. step \in TaskStates /\ step # "approve" /\ step # "finish"
        /\ (step \in Announced => task[t].at \in Announced)
    BY <1>3 DEF TaskStates, Announced, Awaits
  <2>3. Moved(t)
    BY <1>3, <2>1, <2>2, GotoMoves
  <2>4. pending' \subseteq Handles
    BY <1>3 DEF Inductive, Typed
  <2> QED
    BY <1>1, <1>3, <2>3, <2>4, QuietKeeps
<1> QED
  BY <1>1, <1>2, <1>3

LEMMA IssueStepKeeps ==
    ASSUME Inductive, NEW t \in Tasks, Issue(t)
    PROVE  Inductive' /\ RowsEnd
<1>1. CASE Fails(t) /\ UNCHANGED row
  BY <1>1, FailsMoves, QuietKeeps DEF Issue
<1>2. ASSUME NEW lifetime \in 1..Ttl, IssueRow(task[t].d, task[t].h, lifetime),
             Goto(t, "start"), UNCHANGED <<pending, told>>
      PROVE  Inductive' /\ RowsEnd
  <2>1. ~Awaits(t, "idle") /\ task[t].h \in Handles /\ task[t].d \in Decisions
    BY DEF Issue, Awaits, Inductive, Knows
  <2>2. RowsTyped' /\ RowsEnd
    BY <1>2, <2>1, IssueKeeps DEF Inductive, Typed
  <2>3. Lasts
    BY <2>2 DEF Issue, Lasts
  <2>4. Moved(t)
    BY <1>2, <2>1, <2>3, GotoMoves DEF TaskStates, Announced
  <2>5. pending' \subseteq Handles
    BY <1>2 DEF Inductive, Typed
  <2> QED
    BY <1>2, <2>2, <2>4, <2>5, RowsKeep DEF Issue
<1> QED
  BY <1>1, <1>2 DEF Issue

\* The journal gets an event, or not.
LEMMA RecordLasts ==
    ASSUME Inductive, NEW t \in Tasks, NEW kind, Record(kind, t) \/ UNCHANGED journal,
           UNCHANGED <<action, row>>
    PROVE  Lasts /\ RowsEnd
  BY DEF Lasts, RowsEnd, Record

LEMMA StartSpanKeeps ==
    ASSUME Inductive, NEW t \in Tasks, StartSpan(t)
    PROVE  Inductive' /\ RowsEnd
<1>1. CASE Fails(t) /\ UNCHANGED journal
  BY <1>1, FailsMoves, QuietKeeps DEF StartSpan
<1>2. CASE Record("started", t) /\ Goto(t, "state") /\ UNCHANGED <<pending, told>>
  <2>1. ~Awaits(t, "idle")
    BY DEF StartSpan, Awaits
  <2>2. Lasts /\ RowsEnd
    BY <1>2, RecordLasts DEF StartSpan
  <2>3. "state" \in TaskStates
    BY DEF TaskStates
  <2>4. task'[t].h = task[t].h /\ task'[t].d = task[t].d
    BY <1>2, <2>3, GotoEffect
  <2>5. Recorded("started", task[t].h, task[t].d)'
    BY <1>2, <2>4 DEF Record, Recorded
  <2>6. Moved(t)
    BY <1>2, <2>1, <2>2, <2>3, <2>5, GotoMoves
  <2>7. Typed'
    BY <1>2, <2>6 DEF StartSpan, Moved, Inductive, Typed, RowsTyped, Decided
  <2> QED
    BY <1>2, <2>2, <2>6, <2>7, Preserved DEF StartSpan
<1> QED
  BY <1>1, <1>2 DEF StartSpan

\* A decision is approved until the transaction that spends it: no other request
\* is past that transaction with the same one.
LEMMA SpendMoves ==
    ASSUME Inductive, Lasts, NEW t \in Tasks, Awaits(t, "verify"),
           Consume(task[t].d, task[t].h), Goto(t, "approve")
    PROVE  Moved(t)
<1> DEFINE h == task[t].h
           d == task[t].d
<1>1. h \in Handles /\ d \in Decisions /\ Recorded("started", h, d)
  BY DEF Inductive, Knows, Awaits, Announced
<1>2. /\ task'[t].at = "approve" /\ task'[t].h = h /\ task'[t].d = d
      /\ \A u \in Tasks \ {t} : task'[u] = task[u]
      /\ TasksTyped'
  BY GotoEffect DEF TaskStates
<1>3. row'[d].status = "consumed" /\ row'[d].h = h /\ row[d].status = "approved"
  BY <1>1 DEF Consume, Inductive, Typed, RowsTyped
<1>4. Recorded("started", h, d)'
  BY <1>1, <1>2 DEF Lasts, Recorded
<1>5. Knows(t)'
  BY <1>1, <1>2, <1>3, <1>4 DEF Knows
<1>6. \A u \in Tasks : task[u].at = "approve" => task[u].d # d
  BY <1>3 DEF Inductive, Knows, Spending
<1>7. OneSpends'
  BY <1>2, <1>6 DEF Inductive, OneSpends
<1> QED
  BY <1>2, <1>5, <1>7 DEF Moved

LEMMA VerifyStepKeeps ==
    ASSUME Inductive, NEW t \in Tasks, Verify(t)
    PROVE  Inductive' /\ RowsEnd
<1>1. task[t].h \in Handles /\ task[t].d \in Decisions /\ ~Awaits(t, "idle")
  BY DEF Verify, Awaits, Inductive, Knows
<1>2. RowsTyped' /\ RowsEnd
  BY <1>1, VerifyKeeps DEF Verify, Inductive, Typed
<1>3. Lasts
  BY <1>2 DEF Verify, Lasts
<1>4. Moved(t)
  <2>1. CASE Consume(task[t].d, task[t].h) /\ Goto(t, "approve")
    BY <1>3, <2>1, SpendMoves DEF Verify
  <2>2. CASE Goto(t, "close")
    BY <1>1, <1>3, <2>2, GotoMoves DEF TaskStates, Announced
  <2> QED
    BY <2>1, <2>2 DEF Verify
<1>5. pending' \subseteq Handles
  BY DEF Verify, Inductive, Typed
<1> QED
  BY <1>2, <1>4, <1>5, RowsKeep DEF Verify

\* The Action whose row is approved has its decision and its event.
LEMMA ApprovedRests ==
    ASSUME Inductive, Lasts, NEW t \in Tasks, Awaits(t, "approve"),
           action' = [action EXCEPT ![task[t].h] = "approved"],
           NEW h \in Handles, action'[h] \in Settled
    PROVE  action[h] \in Settled \/ Rests(h)'
<1>1. CASE h # task[t].h
  BY <1>1 DEF Inductive, Typed
<1>2. CASE h = task[t].h
  <2>1. PICK d \in Decisions : d = task[t].d
    BY DEF Inductive, Knows, Awaits
  <2>2. row[d].status = "consumed" /\ row[d].h = h /\ Recorded("started", h, d)
    BY <1>2, <2>1 DEF Inductive, Knows, Awaits, Spending, Announced
  <2>3. row'[d].status = "consumed" /\ row'[d].h = h /\ Recorded("started", h, d)'
    BY <2>2 DEF Lasts, RowsEnd, Recorded
  <2> QED
    BY <2>3 DEF Rests
<1> QED
  BY <1>1, <1>2

LEMMA ApproveKeeps ==
    ASSUME Inductive, NEW t \in Tasks, Approve(t)
    PROVE  Inductive' /\ RowsEnd
<1>1. ~Awaits(t, "idle") /\ task[t].h \in Handles
  BY DEF Approve, Awaits, Inductive, Knows
<1>2. pending' \subseteq Handles
  BY DEF Approve, Inductive, Typed
<1>3. CASE Goto(t, "close") /\ UNCHANGED action
  <2>1. Lasts
    BY <1>3 DEF Approve, Lasts, RowsEnd
  <2>2. Moved(t)
    BY <1>1, <1>3, <2>1, GotoMoves DEF TaskStates, Announced
  <2> QED
    BY <1>2, <1>3, <2>2, QuietKeeps DEF Approve
<1>4. CASE action' = [action EXCEPT ![task[t].h] = "approved"] /\ Goto(t, "finish")
  <2>1. Lasts /\ RowsEnd
    BY <1>4 DEF Approve, Lasts, RowsEnd, Settled, Inductive, Typed
  <2>2. action' \in [Handles -> ActionStates] /\ action'[task[t].h] \in Settled
    BY <1>1, <1>4 DEF Inductive, Typed, ActionStates, Settled
  <2>3. "finish" \in TaskStates /\ task[t].at = "approve" /\ task[t].at \in Announced
    BY DEF TaskStates, Announced, Approve, Awaits
  <2>4. task'[t].h = task[t].h
    BY <1>4, <2>3, GotoEffect
  <2>5. Moved(t)
    BY <1>1, <1>4, <2>1, <2>2, <2>3, <2>4, GotoMoves
  <2>6. Typed'
    BY <1>2, <2>2, <2>5 DEF Approve, Moved, Inductive, Typed, RowsTyped, Decided
  <2>7. \A h \in Handles : action'[h] \in Settled => action[h] \in Settled \/ Rests(h)'
    BY <1>4, <2>1, ApprovedRests DEF Approve
  <2> QED
    BY <2>1, <2>5, <2>6, <2>7, Preserved DEF Approve
<1> QED
  BY <1>3, <1>4 DEF Approve

\* The answer "approved" is true when it is given.
LEMMA AnsweredHolds ==
    ASSUME Inductive, Lasts, NEW t \in Tasks, Awaits(t, "finish"), Record("success", t)
    PROVE  task[t].d \in Decisions /\ \A d \in Decisions : d = task[t].d => Holds(d)'
<1>1. /\ task[t].h \in Handles /\ task[t].d \in Decisions
      /\ Recorded("started", task[t].h, task[t].d)
      /\ row[task[t].d].status = "consumed" /\ row[task[t].d].h = task[t].h
      /\ action[task[t].h] \in Settled
  BY DEF Inductive, Knows, Awaits, Announced, Spending
<1>2. ASSUME NEW d \in Decisions, d = task[t].d
      PROVE  Holds(d)'
  <2>1. row'[d] = row[d]
    BY <1>1, <1>2 DEF Lasts, RowsEnd
  <2>2. PICK h \in Handles : h = task[t].h
    BY <1>1
  <2>3. row'[d].h = h /\ row'[d].status = "consumed" /\ action'[h] \in Settled
    BY <1>1, <1>2, <2>1, <2>2 DEF Lasts
  <2>4. [kind |-> "started", h |-> h, d |-> d] \in journal'
    BY <1>1, <1>2, <2>2 DEF Lasts, Recorded
  <2>5. [kind |-> "success", h |-> h, d |-> d] \in journal'
    BY <1>2, <2>2 DEF Record
  <2> QED
    BY <2>3, <2>4, <2>5 DEF Holds, Recorded
<1> QED
  BY <1>1, <1>2

LEMMA FinishKeeps ==
    ASSUME Inductive, NEW t \in Tasks, Finish(t)
    PROVE  Inductive' /\ RowsEnd
<1>1. CASE Fails(t) /\ UNCHANGED journal
  BY <1>1, FailsMoves, QuietKeeps DEF Finish
<1>2. CASE Record("success", t) /\ Succeeds(t)
  <2>1. Lasts /\ RowsEnd
    BY <1>2, RecordLasts DEF Finish
  <2>2. Moved(t) /\ pending' \subseteq Handles /\ told' = told \cup {task[t].d}
    BY <1>2, LeaveMoves DEF Succeeds, Inductive, Typed
  <2>3. task[t].d \in Decisions /\ \A d \in told' : d \in told \/ Holds(d)'
    BY <1>2, <2>1, <2>2, AnsweredHolds DEF Finish
  <2>4. Typed'
    BY <2>2, <2>3 DEF Finish, Moved, Inductive, Typed, RowsTyped, Decided
  <2> QED
    BY <2>1, <2>2, <2>3, <2>4, Preserved DEF Finish
<1> QED
  BY <1>1, <1>2 DEF Finish

LEMMA CancelKeeps ==
    ASSUME Inductive, NEW t \in Tasks, CancelApprove(t)
    PROVE  Inductive' /\ RowsEnd
<1> DEFINE h == task[t].h
           d == task[t].d
<1>1. h \in Handles /\ d \in Decisions
  BY DEF CancelApprove, Awaits, Inductive, Knows
<1>2. Moved(t)
  BY LeaveMoves DEF CancelApprove
<1>3. RowsTyped' /\ RowsEnd
  <2>1. CASE UNCHANGED row
    BY <2>1 DEF Inductive, Typed, RowsTyped, Decided, RowsEnd
  <2>2. CASE \E lifetime \in 1..Ttl : IssueRow(d, h, lifetime)
    BY <1>1, <2>2, IssueKeeps DEF Inductive, Typed
  <2>3. CASE Consume(d, h) \/ Reject(d, h)
    BY <1>1, <2>3, VerifyKeeps DEF Inductive, Typed
  <2> QED
    BY <2>1, <2>2, <2>3 DEF CancelApprove
<1>4. \/ UNCHANGED action
      \/ Awaits(t, "approve") /\ action' = [action EXCEPT ![h] = "approved"]
  BY DEF CancelApprove
<1>5. action' \in [Handles -> ActionStates]
  BY <1>1, <1>4 DEF Inductive, Typed, ActionStates
<1>6. journal \subseteq journal'
  BY DEF CancelApprove, Record
<1>7. \A g \in Handles : action[g] \in Settled => action'[g] \in Settled
  BY <1>4 DEF Inductive, Typed, Settled
<1>8. Lasts
  BY <1>3, <1>6, <1>7 DEF Lasts
<1>9. \A g \in Handles : action'[g] \in Settled => action[g] \in Settled \/ Rests(g)'
  BY <1>4, <1>8, ApprovedRests
<1>10. Typed'
  BY <1>2, <1>3, <1>5 DEF CancelApprove, Moved, Inductive, Typed
<1> QED
  BY <1>2, <1>3, <1>8, <1>9, <1>10, Preserved DEF CancelApprove

-----------------------------------------------------------------------------
(* The surroundings                                                        *)

LEMMA PrepareKeeps ==
    ASSUME Inductive, PrepareAction
    PROVE  Inductive' /\ RowsEnd
<1>1. PICK h \in Handles :
        /\ action[h] = "none"
        /\ action' = [action EXCEPT ![h] = "prepared"]
        /\ ends' = [ends EXCEPT ![h] = now + Ttl]
        /\ pending' \in {Observed, Observed \cup {h}}
  BY DEF PrepareAction
<1>2. Lasts /\ RowsEnd
  BY <1>1 DEF PrepareAction, Lasts, RowsEnd, Settled, Inductive, Typed
<1>3. now + Ttl \in Nat
  BY LifetimesAreFinite DEF Inductive, Typed
<1>4. ends' \in [Handles -> Nat] /\ action' \in [Handles -> ActionStates]
  BY <1>1, <1>3 DEF Inductive, Typed, ActionStates
<1>5. pending' \subseteq Handles
  BY <1>1 DEF Observed, Inductive, Typed
<1>6. Typed'
  BY <1>4, <1>5 DEF PrepareAction, Inductive, Typed, RowsTyped, Decided, TasksTyped
<1>7. \A g \in Handles : action'[g] \in Settled => action[g] \in Settled
  BY <1>1 DEF Settled, Inductive, Typed
<1> QED
  BY <1>2, <1>6, <1>7, Preserved DEF PrepareAction

LEMMA CommitKeeps ==
    ASSUME Inductive, Commit
    PROVE  Inductive' /\ RowsEnd
<1>1. PICK h \in Handles : action[h] = "approved" /\ action' = [action EXCEPT ![h] = "committed"]
  BY DEF Commit
<1>2. Lasts /\ RowsEnd
  BY <1>1 DEF Commit, Lasts, RowsEnd, Settled, Inductive, Typed
<1>3. action' \in [Handles -> ActionStates]
  BY <1>1 DEF Inductive, Typed, ActionStates
<1>4. Typed'
  BY <1>3 DEF Commit, Inductive, Typed, RowsTyped, Decided, TasksTyped
<1>5. \A g \in Handles : action'[g] \in Settled => action[g] \in Settled
  BY <1>1 DEF Settled, Inductive, Typed
<1> QED
  BY <1>2, <1>4, <1>5, Preserved DEF Commit

\* The decisions that others make and take back.
LEMMA OthersKeep ==
    ASSUME Inductive, IssueOutside \/ Revoke
    PROVE  Inductive' /\ RowsEnd
<1>1. RowsTyped' /\ RowsEnd
  <2>1. CASE IssueOutside
    BY <2>1, IssueKeeps DEF IssueOutside, Inductive, Typed
  <2>2. CASE Revoke
    BY <2>2, EndKeeps DEF Revoke, Inductive, Typed
  <2> QED
    BY <2>1, <2>2
<1>2. pending' \subseteq Handles
  BY DEF IssueOutside, Revoke, Inductive, Typed
<1> QED
  BY <1>1, <1>2, RowsKeep DEF IssueOutside, Revoke

LEMMA TickKeeps ==
    ASSUME Inductive, Tick
    PROVE  Inductive' /\ RowsEnd
<1>1. Lasts /\ RowsEnd
  BY DEF Tick, storeVars, Lasts, RowsEnd
<1>2. Typed'
  BY DEF Tick, storeVars, Inductive, Typed, RowsTyped, Decided, TasksTyped
<1> QED
  BY <1>1, <1>2, Preserved DEF Tick, storeVars

-----------------------------------------------------------------------------
(* The invariant                                                           *)

LEMMA InitInductive == ApprovalInit => Inductive
<1> SUFFICES ASSUME ApprovalInit PROVE Inductive
  OBVIOUS
<1>1. Typed
  <2>1. RowsTyped
    BY DEF ApprovalInit, RowsTyped, Decided, Fresh, RowStates
  <2>2. TasksTyped
    BY DEF ApprovalInit, TasksTyped, NoRequest, TaskStates
  <2> QED
    BY <2>1, <2>2 DEF ApprovalInit, Typed, ActionStates
<1>2. \A t \in Tasks : task[t].at = "idle"
  BY DEF ApprovalInit, NoRequest
<1>3. (\A t \in Tasks : Knows(t)) /\ OneSpends
  BY <1>2 DEF Knows, OneSpends, Announced, Spending
<1>4. (\A h \in Handles : Rests(h)) /\ \A d \in told : Holds(d)
  BY DEF ApprovalInit, Rests, Settled
<1> QED
  BY <1>1, <1>3, <1>4 DEF Inductive

LEMMA StepKeeps == Inductive /\ [ApprovalNext]_approvalVars => Inductive' /\ RowsEnd
<1> SUFFICES ASSUME Inductive, [ApprovalNext]_approvalVars PROVE Inductive' /\ RowsEnd
  OBVIOUS
<1>1. ASSUME NEW t \in Tasks, Lookup(t) \/ Present(t) \/ Step(t) \/ CancelApprove(t)
      PROVE  Inductive' /\ RowsEnd
  BY <1>1, LookupKeeps, PresentKeeps, ReadKeeps, IssueStepKeeps, StartSpanKeeps, VerifyStepKeeps,
     ApproveKeeps, FinishKeeps, CancelKeeps DEF Step
<1>2. CASE Logout
  <2>1. pending' \subseteq Handles
    BY <1>2 DEF Logout, Inductive, Typed
  <2> QED
    BY <1>2, <2>1, QuietKeeps DEF Logout
<1>3. CASE UNCHANGED approvalVars
  <2>1. pending' \subseteq Handles
    BY <1>3 DEF approvalVars, storeVars, Inductive, Typed
  <2> QED
    BY <1>3, <2>1, QuietKeeps DEF approvalVars, storeVars
<1> QED
  BY <1>1, <1>2, <1>3, PrepareKeeps, CommitKeeps, OthersKeep, TickKeeps DEF ApprovalNext

LEMMA Invariance == ApprovalSpec => []Inductive
<1> QED
  BY InitInductive, StepKeeps, PTL DEF ApprovalSpec

-----------------------------------------------------------------------------
(* The theorems                                                            *)

\* Whatever requests, revocations and expiries meet and wherever a request is
\* cancelled, an approved Action has a decision of its own that was spent on it, and
\* the journal holds the start of that approval (approve, coordinator.py).
THEOREM ApprovalsAreDecided == ApprovalSpec => []ApprovalIsDecided
<1>1. Inductive => ApprovalIsDecided
  BY DEF Inductive, ApprovalIsDecided, Rests, Settled
<1> QED
  BY <1>1, Invariance, PTL

\* The answer "approved" (OperatorApprovalService.approve, operator.py) is never
\* given for an Action that is not approved, and stays true.
THEOREM AnswersAreTrue == ApprovalSpec => []AnswerIsTrue
<1>1. Inductive => AnswerIsTrue
  BY DEF Inductive, AnswerIsTrue, Holds, Settled
<1> QED
  BY <1>1, Invariance, PTL

\* SQLiteApprovalAuthority: however many requests, revocations and sweeps work on a
\* decision at a time, it is spent at most once, and no end of it is written over.
THEOREM DecisionsEndOnce == ApprovalSpec => DecisionEndsOnce
<1> DEFINE Spends(d) == {t \in Tasks : task'[t].at = "approve" /\ task'[t].d = d}
           A == \A d \in Decisions :
                   /\ row[d].status \in {"consumed", "revoked", "expired"} => row'[d] = row[d]
                   /\ Cardinality(Spends(d)) <= 1
<1>1. Inductive /\ [ApprovalNext]_approvalVars => A
  <2> SUFFICES ASSUME Inductive, [ApprovalNext]_approvalVars, NEW d \in Decisions
               PROVE  /\ row[d].status \in {"consumed", "revoked", "expired"} => row'[d] = row[d]
                      /\ Cardinality(Spends(d)) <= 1
    OBVIOUS
  <2>1. RowsEnd /\ OneSpends'
    BY StepKeeps DEF Inductive
  <2>2. CASE Spends(d) = {}
    <3>1. Cardinality(Spends(d)) = 0
      BY <2>2, FS_EmptySet
    <3> QED
      BY <2>1, <3>1 DEF RowsEnd
  <2>3. CASE Spends(d) # {}
    <3>1. PICK t \in Tasks : t \in Spends(d)
      BY <2>3
    <3>2. Spends(d) = {t}
      BY <2>1, <3>1 DEF OneSpends
    <3> HIDE DEF Spends
    <3>3. Cardinality(Spends(d)) = 1
      BY <3>2, FS_Singleton
    <3> QED
      BY <2>1, <3>3 DEF RowsEnd
  <2> QED
    BY <2>2, <2>3
<1>2. Inductive /\ [ApprovalNext]_approvalVars => [A]_approvalVars
  BY <1>1
<1>3. QED
  BY <1>2, Invariance, PTL DEF ApprovalSpec, DecisionEndsOnce

=============================================================================
