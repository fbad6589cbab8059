-------------------------- MODULE ActionCoordinator --------------------------
(***************************************************************************)
(* The prepared-Action lifecycle of acc_runtime.actions: prepare, approve, *)
(* commit and status of ActionCoordinator (coordinator.py) over one shared *)
(* durable store (sqlite_store.py), the approval authority, the required   *)
(* audit sink and the business source that executes the mutation.          *)
(*                                                                         *)
(* Every coroutine is a task that advances from one await to the next, so  *)
(* any number of requests of any principals interleave at each of them.  A *)
(* task's step is the await it is parked at; the step's action performs    *)
(* what the code does between that await and the next one.                 *)
(***************************************************************************)
EXTENDS Naturals, FiniteSets

CONSTANTS
    Tasks,          \* concurrent coroutines, in one worker process or several
    Principals,     \* (principal id, gateway session) bindings
    Actions,        \* handles a store may generate
    Grants,         \* approval handles a trusted host may issue
    NeedsApproval,  \* handles of capabilities with approval_required
    Recoverable,    \* handles with source_key idempotency and a status query
    Guarded,        \* handles of capabilities with a local_development_state_guard
    MaxActions,     \* capacity of the store
    Ttl,            \* expires_in_seconds, in clock ticks
    MaxTime,        \* bound on the clock
    AuditRequired,  \* action_audit_mode = "required"
    Faults          \* the faults of the environment a run allows

FaultKinds == {"cancel", "crash", "lock", "audit", "source"}

ASSUME ConstantsOK ==
    /\ NeedsApproval \subseteq Actions
    /\ Recoverable \subseteq Actions
    /\ Guarded \subseteq Actions \ Recoverable
    /\ MaxActions \in Nat
    /\ Ttl \in Nat \ {0}
    /\ MaxTime \in Nat
    /\ AuditRequired \in BOOLEAN
    /\ Faults \subseteq FaultKinds

\* Placeholders of fields that hold nothing yet.
NoOne    == "no one"
NoAct    == "no action"
NoGrant  == "no grant"
NoResult == "no result"

ASSUME Placeholders ==
    /\ NoOne \notin Principals
    /\ NoAct \notin Actions
    /\ NoGrant \notin Grants

VARIABLES
    now,      \* the store's clock
    status,   \* status of every handle's row; "absent" when there is no row
    owner,    \* the principal binding of the row
    expires,  \* expires_at of the row
    sealed,   \* idempotent_terminal of the row's sealed preview
    result,   \* result_payload of the row
    late,     \* store writes whose caller was cancelled, still in a thread
    grant,    \* the approval authority: state of every approval handle
    sent,     \* mutation requests handed to the transport, per handle
    source,   \* what became of the handle's mutation at the source
    journal,  \* commit events the audit sink accepted, per handle
    known,    \* handles that some client received
    told,     \* results reported to clients: <<principal, operation, result>>
    task      \* every coroutine: its await, and its local variables

rowVars    == <<status, owner, expires, sealed, result>>
storeVars  == <<rowVars, late>>
sourceVars == <<sent, source>>
clientVars == <<known, told>>
vars == <<now, storeVars, grant, sourceVars, journal, clientVars, task>>

Statuses == {"absent", "prepared", "approved", "committing", "succeeded",
             "outcome_unknown", "expired"}

\* _ALLOWED_TRANSITIONS, without the FAILED target no caller requests.
AllowedTransitions ==
    {<<"prepared", "approved">>, <<"approved", "committing">>,
     <<"committing", "succeeded">>, <<"committing", "outcome_unknown">>,
     <<"outcome_unknown", "succeeded">>}

\* What a caller may be told: the sealed result of a terminal preview, a fresh
\* preview that a guarded commit found terminal, the source's receipt, or what
\* its ledger shows, which may differ between reads.
LedgerReads == {"ledger", "ledger later"}
Results == {"sealed", "fresh", "receipt"} \cup LedgerReads
Answers == Results \cup {NoResult}

\* The awaits of the four operations.
PrepareSteps == {"p_audit", "p_preview", "p_create", "p_clear", "p_report"}
ApproveSteps == {"a_resolve", "a_audit", "a_check", "a_verify", "a_write", "a_report"}
CommitSteps  == {"c_resolve", "c_audit", "c_check", "c_claim", "c_execute", "c_wait",
                 "c_record", "c_mark", "c_look", "c_report"}
StatusSteps  == {"s_resolve", "s_audit", "s_check", "s_query", "s_write", "s_again",
                 "s_report"}
Steps == {"idle"} \cup PrepareSteps \cup ApproveSteps \cup CommitSteps \cup StatusSteps

TaskStates ==
    [at : Steps, who : Principals \cup {NoOne}, act : Actions \cup {NoAct},
     key : Grants \cup {NoGrant}, out : Answers]

LateWrites == [act : Actions, from : Statuses, to : Statuses, out : Answers]

GrantStates == [state : {"none", "issued", "consumed", "dead"},
                for : Actions \cup {NoAct}]

RowsOK ==
    /\ status \in [Actions -> Statuses]
    /\ owner \in [Actions -> Principals \cup {NoOne}]
    /\ expires \in [Actions -> Nat]
    /\ sealed \in [Actions -> BOOLEAN]
    /\ result \in [Actions -> Answers]

\* Every variable has its type.
TypeOK ==
    /\ now \in Nat
    /\ RowsOK
    /\ late \subseteq LateWrites
    /\ grant \in [Grants -> GrantStates]
    /\ sent \in [Actions -> Nat]
    /\ source \in [Actions -> {"clean", "inflight", "applied", "lost"}]
    /\ journal \in [Actions -> SUBSET {"started", "reported"}]
    /\ known \subseteq Actions
    /\ told \in [Actions -> SUBSET (Principals \X {"commit", "status"} \X Results)]
    /\ task \in [Tasks -> TaskStates]

IdleTask == [at |-> "idle", who |-> NoOne, act |-> NoAct, key |-> NoGrant, out |-> NoResult]

Init ==
    /\ now = 0
    /\ status = [a \in Actions |-> "absent"]
    /\ owner = [a \in Actions |-> NoOne]
    /\ expires = [a \in Actions |-> 0]
    /\ sealed = [a \in Actions |-> FALSE]
    /\ result = [a \in Actions |-> NoResult]
    /\ late = {}
    /\ grant = [g \in Grants |-> [state |-> "none", for |-> NoAct]]
    /\ sent = [a \in Actions |-> 0]
    /\ source = [a \in Actions |-> "clean"]
    /\ journal = [a \in Actions |-> {}]
    /\ known = {}
    /\ told = [a \in Actions |-> {}]
    /\ task = [t \in Tasks |-> IdleTask]

-----------------------------------------------------------------------------
(* Moving a task *)

\* The task awaits its next call.
Goto(t, step) == task' = [task EXCEPT ![t].at = step]

\* The task awaits its next call and remembers the answer it will report.
GotoWith(t, step, answer) == task' = [task EXCEPT ![t].at = step, ![t].out = answer]

\* The request returns to its client, with an answer or an error.
Return(t) == task' = [task EXCEPT ![t] = IdleTask]

-----------------------------------------------------------------------------
(* The Action Store: one call is one BEGIN IMMEDIATE transaction *)

Overdue(a) == now >= expires[a] \/ status[a] = "expired"

\* A faulty variant: any caller that knows the handle is bound to the row.
BoundToAnyone(p, a) == status[a] # "absent"

\* The row exists and the caller's principal, session and Pack are its own.
BoundTo(p, a) == status[a] # "absent" /\ owner[a] = p

\* A resolve that returns the row.
Reads(t) == LET a == task[t].act IN
    /\ BoundTo(task[t].who, a)
    /\ ~Overdue(a)
    /\ UNCHANGED storeVars

\* An overdue row is written as expired before the call raises.
ReadExpires(t) == LET a == task[t].act IN
    /\ BoundTo(task[t].who, a)
    /\ Overdue(a)
    /\ status' = [status EXCEPT ![a] = "expired"]
    /\ UNCHANGED <<owner, expires, sealed, result, late>>

\* A resolve that raises: database locked, binding mismatch or overdue row.
ReadRefused(t) ==
    \/ /\ "lock" \in Faults \/ ~BoundTo(task[t].who, task[t].act)
       /\ UNCHANGED storeVars
    \/ ReadExpires(t)

\* A faulty variant: the update is not conditional on the expected status.
SwapBlind(a, from, to, answer) ==
    /\ ~Overdue(a)
    /\ <<from, to>> \in AllowedTransitions
    /\ status' = [status EXCEPT ![a] = to]
    /\ result' = [result EXCEPT ![a] = IF to = "succeeded" THEN answer ELSE @]
    /\ UNCHANGED <<owner, expires, sealed>>

\* The compare-and-swap of transition(): only success carries a result.
Swap(a, from, to, answer) ==
    /\ ~Overdue(a)
    /\ status[a] = from
    /\ <<from, to>> \in AllowedTransitions
    /\ status' = [status EXCEPT ![a] = to]
    /\ result' = [result EXCEPT ![a] = IF to = "succeeded" THEN answer ELSE @]
    /\ UNCHANGED <<owner, expires, sealed>>

\* A transition that is applied and returns the new state.
Writes(t, from, to, answer) ==
    /\ BoundTo(task[t].who, task[t].act)
    /\ Swap(task[t].act, from, to, answer)
    /\ UNCHANGED late

\* A transition that raises: refused as a resolve, or the row has moved on.
Conflicts(t, from) ==
    /\ BoundTo(task[t].who, task[t].act)
    /\ ~Overdue(task[t].act)
    /\ status[task[t].act] # from
    /\ UNCHANGED storeVars

WriteRefused(t, from) == ReadRefused(t) \/ Conflicts(t, from)

\* The number of rows: expired ones stay in the table and count.
Rows == Cardinality({a \in Actions : status[a] # "absent"})

\* create() first expires every overdue row.
AfterSweep(a) == IF status[a] # "absent" /\ Overdue(a) THEN "expired" ELSE status[a]

-----------------------------------------------------------------------------
(* The audit sink *)

\* A faulty variant: a failing sink never stops an operation.
AuditStartsAnyway(t, next) ==
    /\ Goto(t, next)
    /\ \/ journal' = IF next = "c_check"
                     THEN [journal EXCEPT ![task[t].act] = @ \cup {"started"}]
                     ELSE journal
       \/ "audit" \in Faults /\ UNCHANGED journal

\* emit() of a started event: a failing sink stops the operation only when the
\* deployment requires audit. Only the events of commits are kept.
AuditStarts(t, next) ==
    \/ /\ Goto(t, next)
       /\ journal' = IF next = "c_check"
                     THEN [journal EXCEPT ![task[t].act] = @ \cup {"started"}]
                     ELSE journal
    \/ /\ "audit" \in Faults
       /\ IF AuditRequired THEN Return(t) ELSE Goto(t, next)
       /\ UNCHANGED journal

-----------------------------------------------------------------------------
(* prepare *)

\* A client calls prepare; its handle exists only once the row is created.
PrepareCalled(t, p) ==
    /\ task[t].at = "idle"
    /\ task' = [task EXCEPT ![t] = [IdleTask EXCEPT !.at = "p_audit", !.who = p]]
    /\ UNCHANGED <<now, storeVars, grant, sourceVars, journal, clientVars>>

PrepareAudit(t) ==
    /\ task[t].at = "p_audit"
    /\ AuditStarts(t, "p_preview")
    /\ UNCHANGED <<now, storeVars, grant, sourceVars, clientVars>>

\* Authorization, input validation and the read-only preview; each may refuse.
PreparePreview(t) ==
    /\ task[t].at = "p_preview"
    /\ Goto(t, "p_create") \/ Return(t)
    /\ UNCHANGED <<now, storeVars, grant, sourceVars, journal, clientVars>>

\* The insert of create(), under a fresh handle and after the expiry sweep. The
\* compiler gives no capability both a guard and a server-serialized predicate.
InsertRow(a, p, terminal) ==
    /\ status[a] = "absent"
    /\ terminal => a \notin Guarded
    /\ Rows < MaxActions
    /\ status' = [b \in Actions |-> IF b = a THEN "prepared" ELSE AfterSweep(b)]
    /\ owner' = [owner EXCEPT ![a] = p]
    /\ expires' = [expires EXCEPT ![a] = now + Ttl]
    /\ sealed' = [sealed EXCEPT ![a] = terminal]
    /\ UNCHANGED <<result, late>>

\* A capability that needs no approval goes on to a second store call.
PrepareCreate(t, a) ==
    /\ task[t].at = "p_create"
    /\ \E terminal \in BOOLEAN : InsertRow(a, task[t].who, terminal)
    /\ task' = [task EXCEPT ![t].act = a,
                            ![t].at = IF a \in NeedsApproval THEN "p_report" ELSE "p_clear"]
    /\ UNCHANGED <<now, grant, sourceVars, journal, clientVars>>

\* The store is full or locked; the transaction rolls the sweep back with it.
PrepareCreateRefused(t) ==
    /\ task[t].at = "p_create"
    /\ "lock" \in Faults \/ Rows >= MaxActions
    /\ Return(t)
    /\ UNCHANGED <<now, storeVars, grant, sourceVars, journal, clientVars>>

PrepareClear(t) ==
    /\ task[t].at = "p_clear"
    /\ \/ Writes(t, "prepared", "approved", NoResult) /\ Goto(t, "p_report")
       \/ WriteRefused(t, "prepared") /\ Return(t)
    /\ UNCHANGED <<now, grant, sourceVars, journal, clientVars>>

\* A required completion event that cannot be written loses the handle.
PrepareReport(t) ==
    /\ task[t].at = "p_report"
    /\ Return(t)
    /\ \/ known' = known \cup {task[t].act}
       \/ "audit" \in Faults /\ AuditRequired /\ UNCHANGED known
    /\ UNCHANGED <<now, storeVars, grant, sourceVars, journal, told>>

Prepare(t) ==
    \/ PrepareAudit(t) \/ PreparePreview(t) \/ PrepareCreateRefused(t)
    \/ PrepareClear(t) \/ PrepareReport(t)
    \/ \E a \in Actions : PrepareCreate(t, a)

-----------------------------------------------------------------------------
(* The approval authority *)

\* A trusted host issues an approval for the binding it read while the Action
\* was awaiting approval; the Action may have moved on since.
IssueGrant(g, a) ==
    /\ grant[g].state = "none"
    /\ a \in known \cap NeedsApproval
    /\ grant' = [grant EXCEPT ![g] = [state |-> "issued", for |-> a]]
    /\ UNCHANGED <<now, storeVars, sourceVars, journal, clientVars, task>>

\* The approval is revoked or expires before anyone uses it.
GrantLapses(g) ==
    /\ grant[g].state = "issued"
    /\ grant' = [grant EXCEPT ![g].state = "dead"]
    /\ UNCHANGED <<now, storeVars, sourceVars, journal, clientVars, task>>

\* A faulty variant: an approval is good for any Action.
AcceptsAnyBinding(g, a) == grant[g].state = "issued"

\* verify() accepts an issued approval once, for the Action it was issued for.
Accepts(g, a) == grant[g].state = "issued" /\ grant[g].for = a

-----------------------------------------------------------------------------
(* approve, commit and status of a handle the client holds *)

\* The client passes a known handle; approve also passes an approval handle.
Called(t, p, a, g, first) ==
    /\ task[t].at = "idle"
    /\ a \in known
    /\ task' = [task EXCEPT ![t] =
                  [at |-> first, who |-> p, act |-> a, key |-> g, out |-> NoResult]]
    /\ UNCHANGED <<now, storeVars, grant, sourceVars, journal, clientVars>>

ApproveCalled(t, p, a, g) == Called(t, p, a, g, "a_resolve")
CommitCalled(t, p, a)     == Called(t, p, a, NoGrant, "c_resolve")
StatusCalled(t, p, a)     == Called(t, p, a, NoGrant, "s_resolve")

\* The resolve before the audit span: its failure reaches the client unaudited.
Resolve(t, first, next) ==
    /\ task[t].at = first
    /\ \/ Reads(t) /\ Goto(t, next)
       \/ ReadRefused(t) /\ Return(t)
    /\ UNCHANGED <<now, grant, sourceVars, journal, clientVars>>

StartAudit(t, first, next) ==
    /\ task[t].at = first
    /\ AuditStarts(t, next)
    /\ UNCHANGED <<now, storeVars, grant, sourceVars, clientVars>>

ApproveResolve(t) == Resolve(t, "a_resolve", "a_audit")
CommitResolve(t)  == Resolve(t, "c_resolve", "c_audit")
StatusResolve(t)  == Resolve(t, "s_resolve", "s_audit")
ApproveAudit(t)   == StartAudit(t, "a_audit", "a_check")
CommitAudit(t)    == StartAudit(t, "c_audit", "c_check")
StatusAudit(t)    == StartAudit(t, "s_audit", "s_check")

-----------------------------------------------------------------------------
(* approve *)

\* The second resolve, authorization and the two refusals of _approve.
ApproveCheck(t) == LET a == task[t].act IN
    /\ task[t].at = "a_check"
    /\ \/ /\ Reads(t)
          /\ a \in NeedsApproval
          /\ status[a] = "prepared"
          /\ Goto(t, "a_verify")
       \/ Reads(t) /\ Return(t)
       \/ ReadRefused(t) /\ Return(t)
    /\ UNCHANGED <<now, grant, sourceVars, journal, clientVars>>

\* verify() consumes the approval; the in-memory authority also burns an
\* approval presented for another Action.
ApproveVerify(t) == LET g == task[t].key a == task[t].act IN
    /\ task[t].at = "a_verify"
    /\ \/ /\ Accepts(g, a)
          /\ grant' = [grant EXCEPT ![g].state = "consumed"]
          /\ Goto(t, "a_write")
       \/ /\ ~Accepts(g, a)
          /\ grant' = [grant EXCEPT ![g].state = IF @ = "issued" THEN "dead" ELSE @]
          /\ Return(t)
       \/ /\ "lock" \in Faults \/ ~Accepts(g, a)
          /\ UNCHANGED grant
          /\ Return(t)
    /\ UNCHANGED <<now, storeVars, sourceVars, journal, clientVars>>

ApproveWrite(t) ==
    /\ task[t].at = "a_write"
    /\ \/ Writes(t, "prepared", "approved", NoResult) /\ Goto(t, "a_report")
       \/ WriteRefused(t, "prepared") /\ Return(t)
    /\ UNCHANGED <<now, grant, sourceVars, journal, clientVars>>

ApproveReport(t) ==
    /\ task[t].at = "a_report"
    /\ Return(t)
    /\ UNCHANGED <<now, storeVars, grant, sourceVars, journal, clientVars>>

Approve(t) ==
    \/ ApproveResolve(t) \/ ApproveAudit(t) \/ ApproveCheck(t)
    \/ ApproveVerify(t) \/ ApproveWrite(t) \/ ApproveReport(t)

-----------------------------------------------------------------------------
(* commit *)

\* The second resolve and authorization: replay, claim, or refuse.
CommitCheck(t) == LET a == task[t].act IN
    /\ task[t].at = "c_check"
    /\ \/ Reads(t) /\ status[a] = "succeeded" /\ GotoWith(t, "c_report", result[a])
       \/ Reads(t) /\ status[a] = "approved" /\ Goto(t, "c_claim")
       \/ Reads(t) /\ Goto(t, "c_look")
       \/ ReadRefused(t) /\ Goto(t, "c_look")
    /\ UNCHANGED <<now, grant, sourceVars, journal, clientVars>>

\* APPROVED -> COMMITTING: the only way into the executor.
CommitClaim(t) ==
    /\ task[t].at = "c_claim"
    /\ \/ Writes(t, "approved", "committing", NoResult) /\ Goto(t, "c_execute")
       \/ WriteRefused(t, "approved") /\ Goto(t, "c_look")
    /\ UNCHANGED <<now, grant, sourceVars, journal, clientVars>>

\* The executor sends the single mutation operation, answers from the sealed
\* terminal preview without sending anything, or fails before it sends. A guarded
\* commit reads the preview again: a terminal one is its answer and nothing is
\* sent, one that is not what was prepared is a conflict.
CommitExecute(t) == LET a == task[t].act IN
    /\ task[t].at = "c_execute"
    /\ \/ /\ sealed[a]
          /\ GotoWith(t, "c_record", "sealed")
          /\ UNCHANGED sourceVars
       \/ /\ a \in Guarded
          /\ GotoWith(t, "c_record", "fresh")
          /\ UNCHANGED sourceVars
       \/ /\ ~sealed[a]
          /\ sent' = [sent EXCEPT ![a] = @ + 1]
          /\ source' = [source EXCEPT ![a] = "inflight"]
          /\ Goto(t, "c_wait")
       \/ /\ "source" \in Faults \/ a \in Guarded
          /\ Goto(t, "c_mark")
          /\ UNCHANGED sourceVars
    /\ UNCHANGED <<now, storeVars, grant, journal, clientVars>>

\* A faulty variant: no timeout, the committer waits for a success.
CommitReplyWithoutTimeout(t) == LET a == task[t].act IN
    /\ task[t].at = "c_wait"
    /\ source[a] = "applied" /\ GotoWith(t, "c_record", "receipt")
    /\ UNCHANGED <<now, storeVars, grant, sourceVars, journal, clientVars>>

\* A faulty variant: a failed request is sent again.
CommitReplyResends(t) == LET a == task[t].act IN
    /\ task[t].at = "c_wait"
    /\ \/ source[a] = "applied" /\ GotoWith(t, "c_record", "receipt")
       \/ "source" \in Faults /\ Goto(t, "c_execute")
    /\ UNCHANGED <<now, storeVars, grant, sourceVars, journal, clientVars>>

\* The reply: a success proves that the source applied the mutation; a
\* rejection, a timeout or an invalid response proves nothing.
CommitReply(t) == LET a == task[t].act IN
    /\ task[t].at = "c_wait"
    /\ \/ source[a] = "applied" /\ GotoWith(t, "c_record", "receipt")
       \/ "source" \in Faults /\ Goto(t, "c_mark")
    /\ UNCHANGED <<now, storeVars, grant, sourceVars, journal, clientVars>>

\* COMMITTING -> SUCCEEDED with the result; failing that, the outcome is unknown.
CommitRecord(t) ==
    /\ task[t].at = "c_record"
    /\ \/ Writes(t, "committing", "succeeded", task[t].out) /\ Goto(t, "c_report")
       \/ WriteRefused(t, "committing") /\ Goto(t, "c_mark")
    /\ UNCHANGED <<now, grant, sourceVars, journal, clientVars>>

\* A faulty variant: the mark overwrites whatever the row says.
CommitMarkForced(t) == LET a == task[t].act IN
    /\ task[t].at = "c_mark"
    /\ status' = [status EXCEPT ![a] = IF Overdue(a) THEN "expired" ELSE "outcome_unknown"]
    /\ UNCHANGED <<owner, expires, sealed, result, late>>
    /\ Goto(t, "c_look")
    /\ UNCHANGED <<now, grant, sourceVars, journal, clientVars>>

\* A faulty variant: a failed commit is not marked.
CommitMarkForgotten(t) ==
    /\ task[t].at = "c_mark"
    /\ Goto(t, "c_look")
    /\ UNCHANGED <<now, storeVars, grant, sourceVars, journal, clientVars>>

\* _mark_outcome_unknown swallows its own failure.
CommitMark(t) ==
    /\ task[t].at = "c_mark"
    /\ \/ Writes(t, "committing", "outcome_unknown", NoResult)
       \/ WriteRefused(t, "committing")
    /\ Goto(t, "c_look")
    /\ UNCHANGED <<now, grant, sourceVars, journal, clientVars>>

\* The status an unsuccessful commit puts in its audit event; then it raises.
CommitLook(t) ==
    /\ task[t].at = "c_look"
    /\ Reads(t) \/ ReadRefused(t)
    /\ Return(t)
    /\ UNCHANGED <<now, grant, sourceVars, journal, clientVars>>

\* What a client is told: its own request's answer, through that operation.
Tells(t, operation) == LET a == task[t].act IN
    told' = [told EXCEPT ![a] =
               IF task[t].out = NoResult THEN @
               ELSE @ \cup {<<task[t].who, operation, task[t].out>>}]

\* The completion event; when it is required and fails the answer is withheld.
CommitReport(t) ==
    /\ task[t].at = "c_report"
    /\ \/ /\ journal' = [journal EXCEPT ![task[t].act] = @ \cup {"reported"}]
          /\ Tells(t, "commit")
       \/ /\ "audit" \in Faults
          /\ UNCHANGED journal
          /\ IF AuditRequired THEN UNCHANGED told ELSE Tells(t, "commit")
    /\ Return(t)
    /\ UNCHANGED <<now, storeVars, grant, sourceVars, known>>

Commit(t) ==
    \/ CommitResolve(t) \/ CommitAudit(t) \/ CommitCheck(t) \/ CommitClaim(t)
    \/ CommitExecute(t) \/ CommitReply(t) \/ CommitRecord(t) \/ CommitMark(t)
    \/ CommitLook(t) \/ CommitReport(t)

-----------------------------------------------------------------------------
(* status *)

\* The second resolve, then the authorization, which may refuse: an unknown
\* outcome is looked up at the source.
StatusCheck(t) == LET a == task[t].act IN
    /\ task[t].at = "s_check"
    /\ \/ Reads(t) /\ status[a] = "outcome_unknown" /\ Goto(t, "s_query")
       \/ Reads(t) /\ status[a] = "succeeded" /\ GotoWith(t, "s_report", result[a])
       \/ Reads(t) /\ status[a] \notin {"outcome_unknown", "succeeded"} /\ Goto(t, "s_report")
       \/ (Reads(t) \/ ReadRefused(t)) /\ Return(t)
    /\ UNCHANGED <<now, grant, sourceVars, journal, clientVars>>

\* A faulty variant: any answer of the ledger counts as success.
StatusQueryTrusting(t) == LET a == task[t].act IN
    /\ task[t].at = "s_query"
    /\ \/ /\ a \in Recoverable
          /\ \E answer \in LedgerReads : GotoWith(t, "s_write", answer)
       \/ Goto(t, "s_report")
    /\ UNCHANGED <<now, storeVars, grant, sourceVars, journal, clientVars>>

\* resolve_unknown_outcome: a read of the source's ledger, which proves only
\* that the mutation was applied; anything else leaves the outcome unknown, and
\* a result that cannot be recorded is raised.
StatusQuery(t) == LET a == task[t].act IN
    /\ task[t].at = "s_query"
    /\ \/ /\ a \in Recoverable
          /\ source[a] = "applied"
          /\ \E answer \in LedgerReads : GotoWith(t, "s_write", answer)
       \/ /\ a \notin Recoverable \/ source[a] # "applied" \/ "source" \in Faults
          /\ Goto(t, "s_report")
       \/ /\ a \in Recoverable /\ "source" \in Faults
          /\ Return(t)
    /\ UNCHANGED <<now, storeVars, grant, sourceVars, journal, clientVars>>

\* A faulty variant: whoever loses the race reports its own reading.
StatusWriteKeepsOwn(t) ==
    /\ task[t].at = "s_write"
    /\ \/ Writes(t, "outcome_unknown", "succeeded", task[t].out)
       \/ WriteRefused(t, "outcome_unknown")
    /\ Goto(t, "s_report")
    /\ UNCHANGED <<now, grant, sourceVars, journal, clientVars>>

\* OUTCOME_UNKNOWN -> SUCCEEDED; a conflict (or a locked database) re-resolves.
StatusWrite(t) ==
    /\ task[t].at = "s_write"
    /\ \/ Writes(t, "outcome_unknown", "succeeded", task[t].out) /\ Goto(t, "s_report")
       \/ Conflicts(t, "outcome_unknown") /\ Goto(t, "s_again")
       \/ "lock" \in Faults /\ UNCHANGED storeVars /\ Goto(t, "s_again")
       \/ ReadExpires(t) /\ Return(t)
    /\ UNCHANGED <<now, grant, sourceVars, journal, clientVars>>

\* Only the durable result of whoever won the write is accepted.
StatusAgain(t) == LET a == task[t].act IN
    /\ task[t].at = "s_again"
    /\ \/ Reads(t) /\ status[a] = "succeeded" /\ GotoWith(t, "s_report", result[a])
       \/ Reads(t) /\ status[a] # "succeeded" /\ Return(t)
       \/ ReadRefused(t) /\ Return(t)
    /\ UNCHANGED <<now, grant, sourceVars, journal, clientVars>>

StatusReport(t) ==
    /\ task[t].at = "s_report"
    /\ \/ Tells(t, "status")
       \/ "audit" \in Faults /\ AuditRequired /\ UNCHANGED told
    /\ Return(t)
    /\ UNCHANGED <<now, storeVars, grant, sourceVars, journal, known>>

Status(t) ==
    \/ StatusResolve(t) \/ StatusAudit(t) \/ StatusCheck(t) \/ StatusQuery(t)
    \/ StatusWrite(t) \/ StatusAgain(t) \/ StatusReport(t)

-----------------------------------------------------------------------------
(* The environment: source, clock, cancellation, crashes *)

\* The source receives the request and applies it, before or after the caller
\* stopped waiting for the reply.
SourceApplies(a) ==
    /\ source[a] = "inflight"
    /\ source' = [source EXCEPT ![a] = "applied"]
    /\ UNCHANGED <<now, storeVars, grant, sent, journal, clientVars, task>>

\* The request is lost on the way or rejected.
SourceLoses(a) ==
    /\ "source" \in Faults
    /\ source[a] = "inflight"
    /\ source' = [source EXCEPT ![a] = "lost"]
    /\ UNCHANGED <<now, storeVars, grant, sent, journal, clientVars, task>>

Tick ==
    /\ now < MaxTime
    /\ now' = now + 1
    /\ UNCHANGED <<storeVars, grant, sourceVars, journal, clientVars, task>>

\* The status write the task is waiting for, if it waits for one.
Pending(t) ==
    LET w(from, to) == {[act |-> task[t].act, from |-> from, to |-> to, out |-> task[t].out]}
    IN  CASE task[t].at \in {"p_clear", "a_write"} -> w("prepared", "approved")
          [] task[t].at = "c_claim"  -> w("approved", "committing")
          [] task[t].at = "c_record" -> w("committing", "succeeded")
          [] task[t].at = "c_mark"   -> w("committing", "outcome_unknown")
          [] task[t].at = "s_write"  -> w("outcome_unknown", "succeeded")
          [] OTHER -> {}

\* Where CancelledError leads: once the executor has started, the outcome is
\* marked unknown; an earlier or later failure of commit looks up the status.
AfterCancel(step) ==
    CASE step \in {"c_execute", "c_wait", "c_record"} -> "c_mark"
      [] step \in {"c_check", "c_claim", "c_mark"} -> "c_look"
      [] OTHER -> "idle"

\* The caller stops waiting. A store write it was awaiting keeps running in its
\* thread, unless the thread had not picked it up.
Cancel(t) == LET next == AfterCancel(task[t].at) IN
    /\ "cancel" \in Faults
    /\ task[t].at # "idle"
    /\ late' = late \cup Pending(t) \/ UNCHANGED late
    /\ IF next = "idle" THEN Return(t) ELSE Goto(t, next)
    /\ UNCHANGED <<now, rowVars, grant, sourceVars, journal, clientVars>>

\* Cancelled while an insert or an approval check runs: no later step can tell
\* when it took effect, only that it did.
CancelAfterInsert(t, a) ==
    /\ "cancel" \in Faults
    /\ task[t].at = "p_create"
    /\ \E terminal \in BOOLEAN : InsertRow(a, task[t].who, terminal)
    /\ Return(t)
    /\ UNCHANGED <<now, grant, sourceVars, journal, clientVars>>

CancelAfterVerify(t) ==
    /\ "cancel" \in Faults
    /\ task[t].at = "a_verify"
    /\ Accepts(task[t].key, task[t].act)
    /\ grant' = [grant EXCEPT ![task[t].key].state = "consumed"]
    /\ Return(t)
    /\ UNCHANGED <<now, storeVars, sourceVars, journal, clientVars>>

\* The transaction of an abandoned write runs: it swaps, finds the row overdue
\* and expires it, or finds that the row has moved on.
LateWrite(w) ==
    /\ w \in late
    /\ late' = late \ {w}
    /\ \/ Swap(w.act, w.from, w.to, w.out)
       \/ /\ status[w.act] # "absent"
          /\ Overdue(w.act)
          /\ status' = [status EXCEPT ![w.act] = "expired"]
          /\ UNCHANGED <<owner, expires, sealed, result>>
       \/ /\ ~Overdue(w.act)
          /\ status[w.act] # w.from
          /\ UNCHANGED rowVars
    /\ UNCHANGED <<now, grant, sourceVars, journal, clientVars, task>>

\* The worker process dies at any await; rows, approvals and the request on the
\* wire survive it.
Crash(t) ==
    /\ "crash" \in Faults
    /\ task[t].at # "idle"
    /\ Return(t)
    /\ UNCHANGED <<now, storeVars, grant, sourceVars, journal, clientVars>>

\* A crashed process takes its threads along.
CrashLosesWrite(w) ==
    /\ "crash" \in Faults
    /\ w \in late
    /\ late' = late \ {w}
    /\ UNCHANGED <<now, rowVars, grant, sourceVars, journal, clientVars, task>>

-----------------------------------------------------------------------------

\* A request that is under way takes its next step.
Advance(t) == Prepare(t) \/ Approve(t) \/ Commit(t) \/ Status(t)

Client(t) == \E p \in Principals :
    \/ PrepareCalled(t, p)
    \/ \E a \in Actions :
         CommitCalled(t, p, a) \/ StatusCalled(t, p, a)
           \/ \E g \in Grants : ApproveCalled(t, p, a, g)

Interrupt(t) ==
    \/ Cancel(t) \/ CancelAfterVerify(t) \/ Crash(t)
    \/ \E a \in Actions : CancelAfterInsert(t, a)

Host == \E g \in Grants :
    GrantLapses(g) \/ \E a \in Actions : IssueGrant(g, a)

Source(a) == SourceApplies(a) \/ SourceLoses(a)

Next ==
    \/ \E t \in Tasks : Client(t) \/ Advance(t) \/ Interrupt(t)
    \/ Host
    \/ \E a \in Actions : Source(a)
    \/ \E w \in late : LateWrite(w) \/ CrashLosesWrite(w)
    \/ Tick

Spec == Init /\ [][Next]_vars

\* The event loop resumes every coroutine, an abandoned thread finishes, and
\* the source answers or loses each request. Clients owe nothing.
Fairness ==
    /\ \A t \in Tasks : WF_vars(Advance(t))
    /\ \A a \in Actions : WF_vars(Source(a))

FairSpec == Spec /\ Fairness

-----------------------------------------------------------------------------
(* Correctness *)

\* A prepared Action is sent to its source at most once, however many commits
\* race for it, time out, are cancelled, crash or are retried: only the caller
\* that wins APPROVED -> COMMITTING reaches executor.commit.
AtMostOneMutation == \A a \in Actions : sent[a] <= 1

\* A mutation that needs approval is sent, and its row has passed PREPARED, only
\* if an approval issued for that very Action was consumed for it: verify()
\* checks the binding and consumes before _approve writes APPROVED.
ApprovalPrecedesMutation ==
    \A a \in NeedsApproval :
        sent[a] > 0 \/ status[a] \notin {"absent", "prepared", "expired"}
            => \E g \in Grants : grant[g] = [state |-> "consumed", for |-> a]

\* SUCCEEDED is never a guess. The result says what happened: a receipt or a
\* ledger entry, that the source applied this very mutation; a terminal preview,
\* sealed by prepare or read again by a guarded commit, that nothing was sent at
\* all and nothing ever will be. It holds across timeouts whose request arrives
\* later and across status() recoveries.
SuccessIsReal ==
    \A a \in Actions : status[a] = "succeeded" =>
        \/ result[a] \in {"receipt"} \cup LedgerReads /\ source[a] = "applied" /\ ~sealed[a]
        \/ result[a] = "sealed" /\ sealed[a] /\ sent[a] = 0
        \/ result[a] = "fresh" /\ a \in Guarded /\ ~sealed[a] /\ sent[a] = 0

\* Every result any caller was ever told, by a commit, a replay or a status
\* recovery, is the one durable result of the row: racing recoveries do not
\* hand out two different answers.
AnswersAgree ==
    \A a \in Actions : \A answer \in told[a] : answer[3] = result[a]

\* A result is told only to the principal and session that prepared the Action,
\* although other principals may call with the same handle.
OnlyOwnerIsTold ==
    \A a \in Actions : \A answer \in told[a] : answer[1] = owner[a]

\* With required audit, nothing is sent before the commit's started event is
\* recorded and no commit answers before its completion event is, although the
\* sink may fail between the two.
RequiredAuditBrackets ==
    AuditRequired =>
        \A a \in Actions :
            /\ sent[a] > 0 => "started" \in journal[a]
            /\ (\E answer \in told[a] : answer[2] = "commit") => "reported" \in journal[a]

\* Expiry is final and the only way back is forward: a row's status moves along
\* the transition table or becomes expired, and an expired row never revives,
\* also when an abandoned write runs late.
StatusFollowsTable ==
    [][\A a \in Actions : status'[a] # status[a] =>
          \/ <<status[a], status'[a]>> \in AllowedTransitions
          \/ status[a] = "absent" /\ status'[a] = "prepared"
          \/ status[a] # "absent" /\ status'[a] = "expired"]_vars

\* The durable result is written once, by the write that makes the row succeed.
ResultIsWrittenOnce ==
    [][\A a \in Actions : result'[a] # result[a] =>
          result[a] = NoResult /\ status'[a] = "succeeded"]_vars

\* The request leaves only while its row is claimed, or after the row expired
\* under the claim; never after the outcome was written as unknown or succeeded.
SentWhileClaimed ==
    [][\A a \in Actions : sent'[a] # sent[a] => status[a] \in {"committing", "expired"}]_vars

\* Every request returns to its client: a lost reply, a locked database or a
\* failing audit sink never parks a coroutine for good.
RequestsReturn == \A t \in Tasks : task[t].at # "idle" ~> task[t].at = "idle"

\* As long as no write fails and nothing expires, a mutation that was sent ends
\* up recorded: succeeded, or unknown when its reply was lost or rejected.
MutationsSettle ==
    \A a \in Actions : sent[a] > 0 ~> status[a] \in {"succeeded", "outcome_unknown"}

\* Some coroutine is responsible for the claim on a row.
Claimed(a) ==
    \E t \in Tasks :
        task[t].act = a /\ task[t].at \in {"c_execute", "c_wait", "c_record", "c_mark"}

\* What source-key-action-outcome-recovery.md says of a commit that was cancelled or
\* whose result could not be recorded: once nobody works on it any more, it leaves the
\* Action in OUTCOME_UNKNOWN, from which status() can recover it.
CommitLeavesUnknown ==
    \A a \in Actions : (status[a] = "committing" \/ sent[a] > 0) /\ ~Claimed(a) =>
        status[a] \in {"succeeded", "outcome_unknown"}

=============================================================================
