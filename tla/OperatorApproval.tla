--------------------------- MODULE OperatorApproval ---------------------------
(***************************************************************************)
(* Approving a prepared Action: ProductionOperatorApprovalService          *)
(* (gateway/operator.py) and the Agent's own approve call, over            *)
(* SQLiteApprovalAuthority (actions/sqlite_approval.py), the approve path  *)
(* of the coordinator and the required SQLiteActionAuditSink               *)
(* (actions/sqlite_audit.py).                                              *)
(*                                                                         *)
(* The registry of observed Actions, the session, the Action's row, the    *)
(* decision's row and the journal are five stores without a common lock.   *)
(* A task is one approve request; its `at` is the await it is parked at,   *)
(* and each step is everything up to the next one.  The database           *)
(* transactions are single steps, and survive the caller's cancellation.   *)
(***************************************************************************)
EXTENDS Naturals, FiniteSets

CONSTANTS
    Tasks,         \* concurrent approve requests, of operators and of Agents
    Handles,       \* prepared Actions that need approval
    Decisions,     \* decision ids, each with the approval handle issued for it
    MaxPending,    \* max_pending_actions of the registry
    MaxDecisions,  \* max_decisions of the authority
    Ttl,           \* expires_in_seconds of an Action, in clock ticks
    MaxTime        \* bound on the clock

ASSUME LifetimesAreFinite == Ttl \in Nat

NoHandle   == "no handle"
NoDecision == "no decision"

VARIABLES
    now,      \* the clock
    action,   \* status of every Action
    ends,     \* expires_at of every Action
    live,     \* Actions whose Gateway session still resolves
    pending,  \* the operator service's registry of observed Actions
    row,      \* the authority's decision records
    journal,  \* started and success events of approvals the sink committed
    told,     \* decisions whose request was answered "approved"
    task      \* every request: its await, and its local variables

storeVars == <<action, ends, live, pending, row, journal>>
approvalVars == <<now, storeVars, told, task>>

Fresh == [status |-> "none", h |-> NoHandle, until |-> 0]
NoRequest == [at |-> "idle", by |-> "agent", h |-> NoHandle, d |-> NoDecision]

ApprovalInit ==
    /\ now = 0
    /\ action = [h \in Handles |-> "none"]
    /\ ends = [h \in Handles |-> 0]
    /\ live = {}
    /\ pending = {}
    /\ row = [d \in Decisions |-> Fresh]
    /\ journal = {}
    /\ told = {}
    /\ task = [t \in Tasks |-> NoRequest]

Awaits(t, step) == task[t].at = step
Goto(t, step) == task' = [task EXCEPT ![t].at = step]
Unexpired(h) == now < ends[h]

\* The Action's store resolves the handle, whatever its status.
Resolves(h) == action[h] # "none" /\ Unexpired(h)

Awaiting(h) == Resolves(h) /\ action[h] = "prepared"

\* The registry without the observations whose Action has expired.
Observed == {h \in pending : Unexpired(h)}

-----------------------------------------------------------------------------
(* The stores' transactions                                                *)

Lapsed(d) == row[d].status = "approved" /\ row[d].until <= now

\* The rows after _expire.
Swept == [d \in Decisions |-> IF Lapsed(d) THEN [row[d] EXCEPT !.status = "expired"] ELSE row[d]]

Decided == {d \in Decisions : row[d].status # "none"}

\* _issue_sync: the sweep and the new row commit together or not at all; expired,
\* consumed and revoked decisions count against the capacity for ever.
IssueRow(d, h, lifetime) ==
    /\ d \notin Decided
    /\ Cardinality(Decided) < MaxDecisions
    /\ now + lifetime <= ends[h]
    /\ row' = [Swept EXCEPT ![d] = [status |-> "approved", h |-> h, until |-> now + lifetime]]

\* A faulty variant: the status of the decision is not looked at again in the
\* transaction that consumes it.
ConsumeStale(d, h) ==
    /\ row[d].h = h /\ now < row[d].until
    /\ row' = [row EXCEPT ![d].status = "consumed"]

\* _verify_sync of an approval that is good.
Consume(d, h) ==
    /\ row[d].status = "approved" /\ now < row[d].until
    /\ row[d].h = h /\ Unexpired(h)
    /\ row' = [row EXCEPT ![d].status = "consumed"]

\* _verify_sync of one that is not: an expired approval is recorded as such,
\* whatever Action it is presented for.
Reject(d, h) ==
    \/ /\ row[d].status = "approved"
       /\ row[d].until <= now \/ ~Unexpired(row[d].h)
       /\ row' = [row EXCEPT ![d].status = "expired"]
    \/ /\ row[d].status # "approved" \/ (row[d].h # h /\ now < row[d].until)
       /\ UNCHANGED row

\* _append_sync: one more event at the end of the chain.  A full journal, or one
\* whose chain does not verify, refuses like a busy database.
Record(kind, t) == journal' = journal \cup {[kind |-> kind, h |-> task[t].h, d |-> task[t].d]}

-----------------------------------------------------------------------------
(* The answers                                                             *)

\* A faulty variant: a failed approval is answered like a successful one.
FailsSilently(t) ==
    /\ pending' = IF task[t].by = "operator" THEN pending \ {task[t].h} ELSE pending
    /\ told' = told \cup {task[t].d}
    /\ task' = [task EXCEPT ![t] = NoRequest]

\* The request fails.  The operator service forgets the observation, so a failure
\* that is over in a moment ends the operator's chance to approve the Action.
Fails(t) ==
    /\ pending' = IF task[t].by = "operator" THEN pending \ {task[t].h} ELSE pending
    /\ task' = [task EXCEPT ![t] = NoRequest]
    /\ UNCHANGED told

Succeeds(t) ==
    /\ pending' = IF task[t].by = "operator" THEN pending \ {task[t].h} ELSE pending
    /\ told' = told \cup {task[t].d}
    /\ task' = [task EXCEPT ![t] = NoRequest]

\* A database is busy or unreadable: the request fails where it stands.
Busy(t) ==
    /\ task[t].at \notin {"idle", "close"}
    /\ IF task[t].at \in {"state", "verify", "approve"}
       THEN Goto(t, "close") /\ UNCHANGED <<pending, told>>
       ELSE Fails(t)
    /\ UNCHANGED <<now, action, ends, live, row, journal>>

-----------------------------------------------------------------------------
(* approve of the operator service                                         *)

\* An Action that was not observed, or is expired, is answered as not found.
Lookup(t) ==
    /\ Awaits(t, "idle")
    /\ pending' = Observed
    /\ \/ \E h \in Observed, d \in Decisions :
             task' = [task EXCEPT ![t] =
                         [at |-> "session", by |-> "operator", h |-> h, d |-> d]]
       \/ UNCHANGED task
    /\ UNCHANGED <<now, action, ends, live, row, journal, told>>

ResolveSession(t) ==
    /\ Awaits(t, "session")
    /\ \/ task[t].h \in live /\ Goto(t, "binding") /\ UNCHANGED <<pending, told>>
       \/ task[t].h \notin live /\ Fails(t)
    /\ UNCHANGED <<now, action, ends, live, row, journal>>

\* approval_binding_for_trusted_host
Bind(t) ==
    /\ Awaits(t, "binding")
    /\ \/ Awaiting(task[t].h) /\ Goto(t, "issue") /\ UNCHANGED <<pending, told>>
       \/ ~Awaiting(task[t].h) /\ Fails(t)
    /\ UNCHANGED <<now, action, ends, live, row, journal>>

\* The operator chooses a lifetime; one too long for the Action, a decision id
\* already used or a full table fails.
Issue(t) ==
    LET h == task[t].h
        d == task[t].d
    IN  /\ Awaits(t, "issue")
        /\ \/ /\ \E lifetime \in 1..Ttl : IssueRow(d, h, lifetime)
              /\ Goto(t, "start")
              /\ UNCHANGED <<pending, told>>
           \/ Fails(t) /\ UNCHANGED row
        /\ UNCHANGED <<now, action, ends, live, journal>>

-----------------------------------------------------------------------------
(* approve of the coordinator                                              *)

\* An Agent presents an approval handle it was given for an Action.
Present(t) ==
    /\ Awaits(t, "idle")
    /\ \E h \in Handles, d \in Decided :
          task' = [task EXCEPT ![t] = [at |-> "start", by |-> "agent", h |-> h, d |-> d]]
    /\ UNCHANGED <<now, storeVars, told>>

\* A faulty variant: the approval goes on when the sink is full.
StartUnaudited(t) ==
    /\ Awaits(t, "start")
    /\ Record("started", t) \/ UNCHANGED journal
    /\ Goto(t, "state")
    /\ UNCHANGED <<now, action, ends, live, pending, row, told>>

\* The handle resolves, and start_action_audit_span records the start, in
\* required mode.
StartSpan(t) ==
    /\ Awaits(t, "start")
    /\ \/ Resolves(task[t].h) /\ Record("started", t) /\ Goto(t, "state") /\ UNCHANGED <<pending, told>>
       \/ Fails(t) /\ UNCHANGED journal
    /\ UNCHANGED <<now, action, ends, live, row>>

State(t) ==
    /\ Awaits(t, "state")
    /\ Goto(t, IF Awaiting(task[t].h) THEN "verify" ELSE "close")
    /\ UNCHANGED <<now, storeVars, told>>

Verify(t) ==
    LET h == task[t].h
        d == task[t].d
    IN  /\ Awaits(t, "verify")
        /\ \/ Consume(d, h) /\ Goto(t, "approve")
           \/ Reject(d, h) /\ Goto(t, "close")
        /\ UNCHANGED <<now, action, ends, live, pending, journal, told>>

\* transition(PREPARED, APPROVED): the approval is spent even when it fails.
Approve(t) ==
    LET h == task[t].h
    IN  /\ Awaits(t, "approve")
        /\ \/ /\ Awaiting(h)
              /\ action' = [action EXCEPT ![h] = "approved"]
              /\ Goto(t, "finish")
           \/ ~Awaiting(h) /\ Goto(t, "close") /\ UNCHANGED action
        /\ UNCHANGED <<now, ends, live, pending, row, journal, told>>

\* span.finish: without its completion event the approval is answered as a
\* failure, although the Action is approved.
Finish(t) ==
    /\ Awaits(t, "finish")
    /\ \/ Record("success", t) /\ Succeeds(t)
       \/ Fails(t) /\ UNCHANGED journal
    /\ UNCHANGED <<now, action, ends, live, row>>

\* The error is recorded if the sink takes it, and raised in any case.
Close(t) ==
    /\ Awaits(t, "close")
    /\ Fails(t)
    /\ UNCHANGED <<now, action, ends, live, row, journal>>

\* A cancelled request leaves what its thread was doing done or not, and the
\* observation where it was.
CancelApprove(t) ==
    LET h == task[t].h
        d == task[t].d
    IN  /\ ~Awaits(t, "idle")
        /\ task' = [task EXCEPT ![t] = NoRequest]
        /\ \/ Awaits(t, "issue") /\ \E lifetime \in 1..Ttl : IssueRow(d, h, lifetime)
           \/ Awaits(t, "verify") /\ (Consume(d, h) \/ Reject(d, h))
           \/ UNCHANGED row
        /\ \/ Awaits(t, "approve") /\ Awaiting(h) /\ action' = [action EXCEPT ![h] = "approved"]
           \/ UNCHANGED action
        /\ \/ Awaits(t, "start") /\ Record("started", t)
           \/ Awaits(t, "finish") /\ Record("success", t)
           \/ UNCHANGED journal
        /\ UNCHANGED <<now, ends, live, pending, told>>

-----------------------------------------------------------------------------
(* The surroundings                                                        *)

\* A client prepares an Action and the MCP server shows it to the registry; when
\* that is full the client gets an error for an Action that exists.
PrepareAction ==
    /\ \E h \in Handles :
          /\ action[h] = "none"
          /\ action' = [action EXCEPT ![h] = "prepared"]
          /\ ends' = [ends EXCEPT ![h] = now + Ttl]
          /\ live' = live \cup {h}
          /\ pending' = IF Cardinality(Observed) < MaxPending THEN Observed \cup {h} ELSE Observed
    /\ UNCHANGED <<now, row, journal, told, task>>

\* The session that prepared the Action ends.
Logout ==
    /\ \E h \in live : live' = live \ {h}
    /\ UNCHANGED <<now, action, ends, pending, row, journal, told, task>>

\* An approved Action is committed.
Commit ==
    /\ \E h \in Handles :
          /\ Resolves(h) /\ action[h] = "approved"
          /\ action' = [action EXCEPT ![h] = "committed"]
    /\ UNCHANGED <<now, ends, live, pending, row, journal, told, task>>

\* An approver outside the Gateway issues an approval to hand it to the Agent.
IssueOutside ==
    /\ \E d \in Decisions, h \in Handles, lifetime \in 1..Ttl :
          action[h] # "none" /\ IssueRow(d, h, lifetime)
    /\ UNCHANGED <<now, action, ends, live, pending, journal, told, task>>

\* revoke looks at the status alone: an approval past its expiry that nobody
\* swept is recorded as revoked.
Revoke ==
    /\ \E d \in Decisions :
          /\ row[d].status = "approved"
          /\ row' = [row EXCEPT ![d].status = "revoked"]
    /\ UNCHANGED <<now, action, ends, live, pending, journal, told, task>>

Tick ==
    /\ now < MaxTime
    /\ now' = now + 1
    /\ UNCHANGED <<storeVars, told, task>>

Step(t) ==
    \/ ResolveSession(t) \/ Bind(t) \/ Issue(t) \/ StartSpan(t)
    \/ State(t) \/ Verify(t) \/ Approve(t) \/ Finish(t) \/ Close(t) \/ Busy(t)

ApprovalNext ==
    \/ \E t \in Tasks : Lookup(t) \/ Present(t) \/ Step(t) \/ CancelApprove(t)
    \/ PrepareAction \/ Logout \/ Commit \/ IssueOutside \/ Revoke \/ Tick

ApprovalSpec == ApprovalInit /\ [][ApprovalNext]_approvalVars

-----------------------------------------------------------------------------
(* Correctness                                                             *)

Recorded(kind, h, d) == [kind |-> kind, h |-> h, d |-> d] \in journal

\* Every approved Action rests on a decision made for this very Action, spent on
\* it and never revoked, and the journal announced that approval beforehand.
ApprovalIsDecided ==
    \A h \in Handles : action[h] \in {"approved", "committed"} =>
        \E d \in Decisions : /\ row[d].status = "consumed" /\ row[d].h = h
                             /\ Recorded("started", h, d)

\* Who is told "approved" can rely on it: the Action is approved, its decision is
\* spent, and the journal holds both ends of the approval.
AnswerIsTrue ==
    \A d \in told :
        LET h == row[d].h
        IN  /\ row[d].status = "consumed"
            /\ action[h] \in {"approved", "committed"}
            /\ Recorded("started", h, d) /\ Recorded("success", h, d)

\* A decision is made once and ends once, whatever several requests, a
\* revocation and its expiry do to it at the same time; and the requests that
\* spend a decision are never two.
DecisionEndsOnce ==
    [][\A d \in Decisions :
          /\ row[d].status \in {"consumed", "revoked", "expired"} => row'[d] = row[d]
          /\ Cardinality({t \in Tasks : task'[t].at = "approve" /\ task'[t].d = d}) <= 1]_approvalVars

=============================================================================
