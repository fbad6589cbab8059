--------------------------- MODULE GatewaySessions ---------------------------
(***************************************************************************)
(* The durable Gateway session lifecycle of acc_runtime.gateway:           *)
(* GatewaySessionService (service.py) over SQLiteGatewaySessionVault       *)
(* (sqlite_vault.py), its in-memory index (sessions.py) and the source     *)
(* tokens held by PasswordBearerAuthStrategy for gateway_session           *)
(* credentials, with the 401 coordination of runtime.py.                   *)
(*                                                                         *)
(* One session is recorded three times: in memory, on disk and as a source *)
(* token.  No lock spans the three, so every request is a task that moves  *)
(* from one await to the next and the requests interleave there.  The      *)
(* vault's lock is held while a statement runs in a database thread.       *)
(***************************************************************************)
EXTENDS Naturals, FiniteSets

CONSTANTS
    Tasks,        \* concurrent requests of the Gateway process
    Sessions,     \* session ids the generator may produce, each once
    MaxSessions,  \* capacity of the store
    Ttl,          \* ttl_seconds, in clock ticks
    Lifetime,     \* ticks from a login to the source token's refresh boundary
    MaxTime,      \* bound on the clock
    Faults        \* the faults of the environment a run allows

FaultKinds == {"cancel", "crash", "lock", "reject"}

ASSUME ConstantsOK ==
    /\ MaxSessions \in Nat \ {0}
    /\ Ttl \in Nat \ {0}
    /\ Lifetime \in Nat \ {0}
    /\ MaxTime \in Nat
    /\ Faults \subseteq FaultKinds
    /\ IsFiniteSet(Sessions)

\* Nobody holds the vault's lock; a task works for no session.
NoTask == "no task"
NoSession == "no session"

ASSUME Placeholders == NoTask \notin Tasks /\ NoSession \notin Sessions

VARIABLES
    now,        \* the clock shared by store, strategy and service
    up,         \* the process has started and restored its sessions
    shut,       \* closed parts of the process: service, vault, strategy
    lock,       \* holder of the vault's lock
    mem,        \* status of each session in the in-memory index
    disk,       \* status sealed in each session's durable row
    auth,       \* the strategy's state of each session's source token
    ends,       \* gateway_expires_at
    srcEnds,    \* source_refresh_at
    late,       \* database threads whose caller was cancelled
    fresh,      \* session ids not generated yet
    delivered,  \* sessions whose token reached a client
    asked,      \* sessions some client asked to delete
    erased,     \* sessions whose deletion, or the fatal one, was committed
    marked,     \* sessions whose reauth_required was committed after a 401
    task        \* every request: its await, and its local variables

processVars == <<up, shut>>
recordVars  == <<mem, disk, ends, srcEnds>>
historyVars == <<fresh, delivered, asked, erased, marked>>
vars == <<now, processVars, lock, recordVars, auth, late, historyVars, task>>

\* A source that announces no expiry sets a boundary the clock never reaches.
Never == MaxTime + 1

DrainSteps  == {"drain", "drain_io", "sweep"}
CreateSteps == {"login", "create", "insert", "bind", "clean", "undo", "undo_io"}
DeleteSteps == {"revoke", "revoke_io"}
CallSteps   == {"resolve", "resolve_io", "authorize", "wait", "mark", "mark_io"}
CloseSteps  == {"fatal", "close", "close_io", "checkpoint", "shut"}
Steps == {"idle", "forget"} \cup DrainSteps \cup CreateSteps \cup DeleteSteps
             \cup CallSteps \cup CloseSteps

TaskStates ==
    [at : Steps, op : {"none", "create", "delete", "call", "stop"},
     s : Sessions \cup {NoSession}, left : SUBSET Sessions,
     out : {"ok", "gone", "failed", "again"}, quit : BOOLEAN]

Statuses == {"none", "active", "reauth"}

\* Every variable has its type.
TypeOK ==
    /\ now \in 0..MaxTime
    /\ up \in BOOLEAN
    /\ shut \subseteq {"service", "vault", "strategy"}
    /\ lock \in Tasks \cup {NoTask}
    /\ mem \in [Sessions -> Statuses]
    /\ disk \in [Sessions -> Statuses]
    /\ auth \in [Sessions -> {"none", "bound", "reauth"}]
    /\ ends \in [Sessions -> Nat]
    /\ srcEnds \in [Sessions -> Nat]
    /\ late \subseteq [kind : {"insert", "reauth"}, s : Sessions]
    /\ fresh \subseteq Sessions
    /\ delivered \subseteq Sessions
    /\ asked \subseteq Sessions
    /\ erased \subseteq Sessions
    /\ marked \subseteq Sessions
    /\ task \in [Tasks -> TaskStates]

IdleTask == [at |-> "idle", op |-> "none", s |-> NoSession, left |-> {},
             out |-> "ok", quit |-> FALSE]

Init ==
    /\ now = 0
    /\ up = TRUE
    /\ shut = {}
    /\ lock = NoTask
    /\ mem = [s \in Sessions |-> "none"]
    /\ disk = [s \in Sessions |-> "none"]
    /\ auth = [s \in Sessions |-> "none"]
    /\ ends = [s \in Sessions |-> 0]
    /\ srcEnds = [s \in Sessions |-> Never]
    /\ late = {}
    /\ fresh = Sessions
    /\ delivered = {}
    /\ asked = {}
    /\ erased = {}
    /\ marked = {}
    /\ task = [t \in Tasks |-> IdleTask]

At(t, step) == task[t].at = step
Goto(t, step) == task' = [task EXCEPT ![t].at = step]
Return(t) == task' = [task EXCEPT ![t] = IdleTask]

\* f with the value v at every member of S.
Put(f, S, v) == [s \in Sessions |-> IF s \in S THEN v ELSE f[s]]

LockFree == lock = NoTask
VaultOpen == "vault" \notin shut
Locked == "lock" \in Faults

-----------------------------------------------------------------------------
(* What the clock makes of a record.                                       *)

SourceStale(s) == srcEnds[s] <= now

\* The record resolves.
Lives(s) == mem[s] = "active" /\ now < ends[s] /\ ~SourceStale(s)

\* The record is refused as reauth_required, until the Gateway expiry passed.
NeedsReauth(s) ==
    /\ mem[s] # "none"
    /\ now <= ends[s]
    /\ mem[s] = "reauth" \/ SourceStale(s)

\* The record is removed by the next purge.
Expired(s) == mem[s] # "none" /\ ~Lives(s) /\ ~NeedsReauth(s)

ExpiredRecords == {s \in Sessions : Expired(s)}

\* Collecting the expired records also marks the stale ones, in memory only.
Collected ==
    [s \in Sessions |->
        IF Expired(s) THEN "none" ELSE IF NeedsReauth(s) THEN "reauth" ELSE mem[s]]

-----------------------------------------------------------------------------
(* Removing expired records, at the head of a create and at the end of a   *)
(* delete or a 401.  Both halves run shielded from the caller's            *)
(* cancellation.                                                           *)

\* Where a request goes on after its clean-up.
AfterSweep(r) ==
    CASE r.op = "create" /\ ~r.quit -> [r EXCEPT !.at = "login"]
      [] r.op = "call" /\ r.out = "ok" -> [r EXCEPT !.at = "forget"]
      [] r.op = "call" /\ r.out = "failed" -> [r EXCEPT !.at = "fatal"]
      [] OTHER -> IdleTask

\* A clean-up that fails closes everything, except at the head of a create
\* whose client is gone: that one returns before it looks at the failure.
FailDrain(t) ==
    IF task[t].op = "create" /\ task[t].quit
    THEN Return(t)
    ELSE task' = [task EXCEPT ![t].at = "fatal", ![t].left = {}]

Drain(t) ==
    /\ At(t, "drain") /\ LockFree
    /\ \/ /\ ~VaultOpen
          /\ FailDrain(t)
          /\ UNCHANGED <<lock, mem>>
       \/ /\ VaultOpen
          /\ mem' = Collected
          /\ IF ExpiredRecords = {}
             THEN Goto(t, "sweep") /\ UNCHANGED lock
             ELSE /\ task' = [task EXCEPT ![t].at = "drain_io", ![t].left = ExpiredRecords]
                  /\ lock' = t
    /\ UNCHANGED <<now, processVars, disk, ends, srcEnds, auth, late, historyVars>>

\* When the rows cannot be deleted the collected records are lost: nobody
\* invalidates their tokens but a fatal close.
DrainIo(t) ==
    /\ At(t, "drain_io")
    /\ lock' = NoTask
    /\ \/ /\ disk' = Put(disk, task[t].left, "none")
          /\ Goto(t, "sweep")
       \/ /\ Locked
          /\ FailDrain(t)
          /\ UNCHANGED disk
    /\ UNCHANGED <<now, processVars, mem, ends, srcEnds, auth, late, historyVars>>

Sweep(t) ==
    /\ At(t, "sweep")
    /\ auth' = Put(auth, task[t].left, "none")
    /\ task' = [task EXCEPT ![t] = AfterSweep([@ EXCEPT !.left = {}])]
    /\ UNCHANGED <<now, processVars, lock, recordVars, late, historyVars>>

-----------------------------------------------------------------------------
(* Creating a session: one login at the source, the record, its row, the   *)
(* binding of the source token, and the answer; or the rollback.           *)

Create(t) ==
    /\ At(t, "idle") /\ up /\ "service" \notin shut
    /\ \E s \in fresh :
          /\ fresh' = fresh \ {s}
          /\ task' = [task EXCEPT ![t] =
                [IdleTask EXCEPT !.at = "drain", !.op = "create", !.s = s]]
    /\ UNCHANGED <<now, processVars, lock, recordVars, auth, late,
                   delivered, asked, erased, marked>>

\* authenticate_once: the source accepts the login, with or without an expiry,
\* or refuses it; the service may have closed meanwhile.
Login(t) ==
    /\ At(t, "login")
    /\ \/ /\ "service" \notin shut
          /\ \E boundary \in {now + Lifetime, Never} :
                srcEnds' = [srcEnds EXCEPT ![task[t].s] = boundary]
          /\ Goto(t, "create")
       \/ Goto(t, "undo") /\ UNCHANGED srcEnds
    /\ UNCHANGED <<now, processVars, lock, mem, disk, ends, auth, late, historyVars>>

\* A faulty variant: the capacity check admits one session too many.
AdmitOneMore(t) ==
    LET s == task[t].s
        kept == {r \in Sessions : Collected[r] # "none"}
    IN  /\ At(t, "create") /\ LockFree
        /\ VaultOpen /\ ~SourceStale(s) /\ Cardinality(kept) <= MaxSessions
        /\ mem' = [Collected EXCEPT ![s] = "active"]
        /\ ends' = [ends EXCEPT ![s] = now + Ttl]
        /\ task' = [task EXCEPT ![t].at = "insert", ![t].left = ExpiredRecords]
        /\ lock' = t
        /\ UNCHANGED <<now, processVars, disk, srcEnds, auth, late, historyVars>>

\* Records that do not count against the capacity are removed only when the
\* new one is admitted; a refusal for capacity still marks the stale ones.
Admit(t) ==
    LET s == task[t].s
        kept == {r \in Sessions : Collected[r] # "none"}
    IN  /\ At(t, "create") /\ LockFree
        /\ \/ /\ VaultOpen /\ ~SourceStale(s) /\ Cardinality(kept) < MaxSessions
              /\ mem' = [Collected EXCEPT ![s] = "active"]
              /\ ends' = [ends EXCEPT ![s] = now + Ttl]
              /\ task' = [task EXCEPT ![t].at = "insert", ![t].left = ExpiredRecords]
              /\ lock' = t
           \/ /\ VaultOpen /\ ~SourceStale(s) /\ Cardinality(kept) >= MaxSessions
              /\ mem' = [r \in Sessions |-> IF NeedsReauth(r) THEN "reauth" ELSE mem[r]]
              /\ Goto(t, "undo")
              /\ UNCHANGED <<ends, lock>>
           \/ /\ ~VaultOpen \/ SourceStale(s)
              /\ Goto(t, "undo")
              /\ UNCHANGED <<mem, ends, lock>>
        /\ UNCHANGED <<now, processVars, disk, srcEnds, auth, late, historyVars>>

\* The insert commits, or fails and takes the record out of memory again.  The
\* records the admission removed are then forgotten with their tokens.
Insert(t) ==
    LET s == task[t].s
    IN  /\ At(t, "insert")
        /\ \/ /\ disk' = [disk EXCEPT ![s] = "active"]
              /\ Goto(t, "bind")
              /\ UNCHANGED <<lock, mem>>
           \/ /\ Locked
              /\ mem' = [mem EXCEPT ![s] = "none"]
              /\ lock' = NoTask
              /\ task' = [task EXCEPT ![t].at = "undo", ![t].left = {}]
              /\ UNCHANGED disk
        /\ UNCHANGED <<now, processVars, ends, srcEnds, auth, late, historyVars>>

\* A session is delivered while some lifetime remains to it, else rolled back.
Answer(t) ==
    LET s == task[t].s
    IN  \/ /\ now < ends[s] /\ ~SourceStale(s) /\ ~task[t].quit
           /\ delivered' = delivered \cup {s}
           /\ Return(t)
        \/ /\ now >= ends[s] \/ SourceStale(s) \/ task[t].quit
           /\ task' = [task EXCEPT ![t].at = "undo", ![t].left = {}]
           /\ UNCHANGED delivered

\* The coroutine resumes from the insert: it releases the vault and binds the
\* token without a further await, then invalidates the records it replaced.  A
\* closed strategy refuses the token, and the session is rolled back.
Bind(t) ==
    /\ At(t, "bind")
    /\ lock' = NoTask
    /\ \/ /\ "strategy" \notin shut
          /\ auth' = [auth EXCEPT ![task[t].s] = "bound"]
          /\ IF task[t].left = {} THEN Answer(t) ELSE Goto(t, "clean") /\ UNCHANGED delivered
       \/ /\ "strategy" \in shut
          /\ task' = [task EXCEPT ![t].at = "undo", ![t].left = {}]
          /\ UNCHANGED <<auth, delivered>>
    /\ UNCHANGED <<now, processVars, recordVars, late, fresh, asked, erased, marked>>

Clean(t) ==
    /\ At(t, "clean")
    /\ auth' = Put(auth, task[t].left, "none")
    /\ Answer(t)
    /\ UNCHANGED <<now, processVars, lock, recordVars, late, fresh, asked, erased, marked>>

\* _rollback: delete the row, then the record, then the token.
Undo(t) ==
    /\ At(t, "undo") /\ LockFree
    /\ \/ VaultOpen /\ Goto(t, "undo_io") /\ lock' = t
       \/ /\ ~VaultOpen
          /\ task' = [task EXCEPT ![t].at = "forget", ![t].out = "failed"]
          /\ UNCHANGED lock
    /\ UNCHANGED <<now, processVars, recordVars, auth, late, historyVars>>

UndoIo(t) ==
    LET s == task[t].s
    IN  /\ At(t, "undo_io")
        /\ lock' = NoTask
        /\ \/ /\ disk' = [disk EXCEPT ![s] = "none"]
              /\ mem' = [mem EXCEPT ![s] = "none"]
              /\ Goto(t, "forget")
           \/ /\ Locked
              /\ task' = [task EXCEPT ![t].at = "forget", ![t].out = "failed"]
              /\ UNCHANGED <<disk, mem>>
        /\ UNCHANGED <<now, processVars, ends, srcEnds, auth, late, historyVars>>

\* invalidate of the session's own token, at the end of a rollback, a delete
\* and a 401.
Forget(t) ==
    /\ At(t, "forget")
    /\ auth' = [auth EXCEPT ![task[t].s] = "none"]
    /\ task' = [task EXCEPT ![t] =
          IF @.op = "delete" THEN [@ EXCEPT !.at = "drain"]
          ELSE IF @.out = "failed" THEN [@ EXCEPT !.at = "fatal"]
          ELSE IdleTask]
    /\ UNCHANGED <<now, processVars, lock, recordVars, late, historyVars>>

-----------------------------------------------------------------------------
(* Deleting a session: the row, the record, the token.                     *)

Delete(t) ==
    /\ At(t, "idle") /\ up
    /\ \E s \in delivered :
          /\ asked' = asked \cup {s}
          /\ task' = [task EXCEPT ![t] =
                [IdleTask EXCEPT !.at = "revoke", !.op = "delete", !.s = s]]
    /\ UNCHANGED <<now, processVars, lock, recordVars, auth, late,
                   fresh, delivered, erased, marked>>

Revoke(t) ==
    /\ At(t, "revoke") /\ LockFree
    /\ \/ VaultOpen /\ Goto(t, "revoke_io") /\ lock' = t
       \/ ~VaultOpen /\ Goto(t, "fatal") /\ UNCHANGED lock
    /\ UNCHANGED <<now, processVars, recordVars, auth, late, historyVars>>

\* A faulty variant: the removed record's token is not invalidated.
RevokeIoKeepsToken(t) ==
    LET s == task[t].s
    IN  /\ At(t, "revoke_io")
        /\ lock' = NoTask
        /\ disk' = [disk EXCEPT ![s] = "none"]
        /\ mem' = [mem EXCEPT ![s] = "none"]
        /\ erased' = erased \cup {s}
        /\ Goto(t, "drain")
        /\ UNCHANGED <<now, processVars, ends, srcEnds, auth, late,
                       fresh, delivered, asked, marked>>

\* Only the request that removed the record invalidates its token.
RevokeIo(t) ==
    LET s == task[t].s
    IN  /\ At(t, "revoke_io")
        /\ lock' = NoTask
        /\ \/ /\ disk' = [disk EXCEPT ![s] = "none"]
              /\ mem' = [mem EXCEPT ![s] = "none"]
              /\ erased' = erased \cup {s}
              /\ Goto(t, IF mem[s] = "none" THEN "drain" ELSE "forget")
           \/ /\ Locked
              /\ Goto(t, "fatal")
              /\ UNCHANGED <<disk, mem, erased>>
        /\ UNCHANGED <<now, processVars, ends, srcEnds, auth, late,
                       fresh, delivered, asked, marked>>

-----------------------------------------------------------------------------
(* A capability call: the bearer is resolved, the source token authorises  *)
(* the request, and a 401 turns the session into reauth_required.          *)

Call(t) ==
    /\ At(t, "idle") /\ up
    /\ \E s \in delivered :
          task' = [task EXCEPT ![t] =
              [IdleTask EXCEPT !.at = "resolve", !.op = "call", !.s = s]]
    /\ UNCHANGED <<now, processVars, lock, recordVars, auth, late, historyVars>>

\* verify_token resolves the bearer and the Principal resolver resolves the
\* session again; both apply the same rule, so one resolution stands for both.
Resolve(t) ==
    LET s == task[t].s
    IN  /\ At(t, "resolve") /\ LockFree
        /\ \/ VaultOpen /\ Lives(s) /\ Goto(t, "authorize") /\ UNCHANGED <<mem, lock>>
           \/ /\ VaultOpen /\ NeedsReauth(s)
              /\ mem' = [mem EXCEPT ![s] = "reauth"]
              /\ Goto(t, "resolve_io")
              /\ lock' = t
           \/ /\ ~VaultOpen \/ ~(Lives(s) \/ NeedsReauth(s))
              /\ Return(t)
              /\ UNCHANGED <<mem, lock>>
        /\ UNCHANGED <<now, processVars, disk, ends, srcEnds, auth, late, historyVars>>

\* A faulty variant: the requirement is upserted.
PersistedAnyway(s) == [disk EXCEPT ![s] = "reauth"]

\* The reauth requirement is persisted where a row exists; the call is refused.
Persisted(s) == [disk EXCEPT ![s] = IF @ = "none" THEN @ ELSE "reauth"]

ResolveIo(t) ==
    /\ At(t, "resolve_io")
    /\ lock' = NoTask
    /\ \/ disk' = Persisted(task[t].s)
       \/ Locked /\ UNCHANGED disk
    /\ Return(t)
    /\ UNCHANGED <<now, processVars, mem, ends, srcEnds, auth, late, historyVars>>

\* The token leaves for the source only while it is bound and not stale; else
\* the state becomes a terminal reauthentication requirement, and the refusal
\* is coordinated like a 401.
Authorize(t) ==
    LET s == task[t].s
    IN  /\ At(t, "authorize")
        /\ \/ /\ "strategy" \notin shut /\ auth[s] = "bound" /\ ~SourceStale(s)
              /\ Goto(t, "wait")
              /\ UNCHANGED auth
           \/ /\ "strategy" \notin shut /\ (auth[s] # "bound" \/ SourceStale(s))
              /\ auth' = [auth EXCEPT ![s] = "reauth"]
              /\ Goto(t, "mark")
           \/ "strategy" \in shut /\ Return(t) /\ UNCHANGED auth
        /\ UNCHANGED <<now, processVars, lock, recordVars, late, historyVars>>

SourceAnswers(t) ==
    /\ At(t, "wait")
    /\ Return(t)
    /\ UNCHANGED <<now, processVars, lock, recordVars, auth, late, historyVars>>

\* A 401.  The credentials of a gateway_session cannot be renewed, so the
\* failed token is dropped and the call is not replayed.
SourceRejects(t) ==
    LET s == task[t].s
    IN  /\ "reject" \in Faults
        /\ At(t, "wait")
        /\ \/ "strategy" \in shut /\ Return(t) /\ UNCHANGED auth
           \/ /\ "strategy" \notin shut
              /\ auth' = IF auth[s] = "bound" THEN [auth EXCEPT ![s] = "reauth"] ELSE auth
              /\ Goto(t, "mark")
        /\ UNCHANGED <<now, processVars, lock, recordVars, late, historyVars>>

\* Only a session that is unknown or expired is a local failure; every other
\* failure of the vault, a record that is already reauth_required included,
\* is fatal once the expired records were drained.
Mark(t) ==
    LET s == task[t].s
    IN  /\ At(t, "mark") /\ LockFree
        /\ \/ VaultOpen /\ Lives(s) /\ Goto(t, "mark_io") /\ lock' = t /\ UNCHANGED mem
           \/ /\ VaultOpen /\ NeedsReauth(s)
              /\ mem' = [mem EXCEPT ![s] = "reauth"]
              /\ task' = [task EXCEPT ![t].at = "drain", ![t].out = "failed"]
              /\ UNCHANGED lock
           \/ /\ ~VaultOpen \/ ~(Lives(s) \/ NeedsReauth(s))
              /\ task' = [task EXCEPT ![t].at = "drain", ![t].out = "gone"]
              /\ UNCHANGED <<mem, lock>>
        /\ UNCHANGED <<now, processVars, disk, ends, srcEnds, auth, late, historyVars>>

\* A faulty variant: the requirement is recorded in memory only.
MarkIoInMemory(t) ==
    LET s == task[t].s
    IN  /\ At(t, "mark_io")
        /\ lock' = NoTask
        /\ marked' = marked \cup {s}
        /\ mem' = [mem EXCEPT ![s] = "reauth"]
        /\ Goto(t, "drain")
        /\ UNCHANGED <<now, processVars, disk, ends, srcEnds, auth, late,
                       fresh, delivered, asked, erased>>

\* The row is rewritten before the record; the record may expire in between.
MarkIo(t) ==
    LET s == task[t].s
    IN  /\ At(t, "mark_io")
        /\ lock' = NoTask
        /\ \/ /\ disk' = [disk EXCEPT ![s] = "reauth"]
              /\ marked' = marked \cup {s}
              /\ mem' = IF now > ends[s] THEN mem ELSE [mem EXCEPT ![s] = "reauth"]
              /\ task' = [task EXCEPT ![t].at = "drain",
                                      ![t].out = IF now > ends[s] THEN "gone" ELSE "ok"]
           \/ /\ Locked
              /\ task' = [task EXCEPT ![t].at = "drain", ![t].out = "failed"]
              /\ UNCHANGED <<disk, marked, mem>>
        /\ UNCHANGED <<now, processVars, ends, srcEnds, auth, late,
                       fresh, delivered, asked, erased>>

-----------------------------------------------------------------------------
(* Closing.  The fatal close erases every session and is tried twice; the  *)
(* graceful one keeps the rows for the next process.                       *)

Fatal(t) ==
    /\ At(t, "fatal")
    /\ shut' = shut \cup {"service"}
    /\ task' = [task EXCEPT ![t].at = "close", ![t].out = "ok"]
    /\ UNCHANGED <<now, up, lock, recordVars, auth, late, historyVars>>

Close(t) ==
    /\ At(t, "close") /\ LockFree
    /\ \/ VaultOpen /\ Goto(t, "close_io") /\ lock' = t
       \/ ~VaultOpen /\ Goto(t, "shut") /\ UNCHANGED lock
    /\ UNCHANGED <<now, processVars, recordVars, auth, late, historyVars>>

\* A faulty variant: a failing close is tried again without end.
CloseIoForever(t) ==
    /\ At(t, "close_io")
    /\ lock' = NoTask
    /\ \/ /\ disk' = [s \in Sessions |-> "none"]
          /\ mem' = [s \in Sessions |-> "none"]
          /\ erased' = erased \cup {s \in Sessions : disk[s] # "none"}
          /\ shut' = shut \cup {"vault"}
          /\ Goto(t, "shut")
       \/ /\ Locked
          /\ Goto(t, "close")
          /\ UNCHANGED <<disk, mem, erased, shut>>
    /\ UNCHANGED <<now, up, ends, srcEnds, auth, late, fresh, delivered, asked, marked>>

\* Every row and record goes, whoever made it; a failure is retried once.
CloseIo(t) ==
    /\ At(t, "close_io")
    /\ lock' = NoTask
    /\ \/ /\ disk' = [s \in Sessions |-> "none"]
          /\ mem' = [s \in Sessions |-> "none"]
          /\ erased' = erased \cup {s \in Sessions : disk[s] # "none"}
          /\ shut' = shut \cup {"vault"}
          /\ Goto(t, "shut")
       \/ /\ Locked
          /\ task' = [task EXCEPT ![t].at = IF task[t].out = "ok" THEN "close" ELSE "shut",
                                  ![t].out = "again"]
          /\ UNCHANGED <<disk, mem, erased, shut>>
    /\ UNCHANGED <<now, up, ends, srcEnds, auth, late, fresh, delivered, asked, marked>>

\* aclose of the strategy erases every token, also those of records removed.
Shut(t) ==
    /\ At(t, "shut")
    /\ auth' = [s \in Sessions |-> "none"]
    /\ shut' = shut \cup {"strategy"}
    /\ Return(t)
    /\ UNCHANGED <<now, up, lock, recordVars, late, historyVars>>

\* The lifespan ends: aclose closes the service, then checkpoints the vault.
Stop(t) ==
    /\ At(t, "idle") /\ up /\ "service" \notin shut
    /\ shut' = shut \cup {"service"}
    /\ task' = [task EXCEPT ![t] = [IdleTask EXCEPT !.at = "checkpoint", !.op = "stop"]]
    /\ UNCHANGED <<now, up, lock, recordVars, auth, late, historyVars>>

\* A faulty variant: the graceful stop revokes the rows like the fatal close.
CheckpointErases(t) ==
    /\ At(t, "checkpoint") /\ LockFree
    /\ mem' = [s \in Sessions |-> "none"]
    /\ disk' = [s \in Sessions |-> "none"]
    /\ shut' = shut \cup {"vault"}
    /\ Goto(t, "shut")
    /\ UNCHANGED <<now, up, lock, ends, srcEnds, auth, late, historyVars>>

\* checkpoint_close empties the memory and leaves the rows.
Checkpoint(t) ==
    /\ At(t, "checkpoint") /\ LockFree
    /\ mem' = IF VaultOpen THEN [s \in Sessions |-> "none"] ELSE mem
    /\ shut' = shut \cup {"vault"}
    /\ Goto(t, "shut")
    /\ UNCHANGED <<now, up, lock, disk, ends, srcEnds, auth, late, historyVars>>

-----------------------------------------------------------------------------
(* The environment.                                                        *)

\* The client disconnects.  The clean-ups run on; a login and the insert of its
\* row are abandoned, the latter with its transaction still in a thread.
Cancel(t) ==
    LET s == task[t].s
    IN  /\ "cancel" \in Faults
        /\ \/ /\ task[t].at \in {"resolve", "authorize", "wait"}
              /\ Return(t)
              /\ UNCHANGED <<mem, lock, late>>
           \/ /\ At(t, "resolve_io")
              /\ late' = late \cup {[kind |-> "reauth", s |-> s]}
              /\ lock' = NoTask
              /\ Return(t)
              /\ UNCHANGED mem
           \/ /\ task[t].at \in {"login", "create"}
              /\ task' = [task EXCEPT ![t].at = "undo", ![t].quit = TRUE]
              /\ UNCHANGED <<mem, lock, late>>
           \/ /\ task[t].at \in {"insert", "bind"}
              /\ late' = IF At(t, "insert")
                         THEN late \cup {[kind |-> "insert", s |-> s]} ELSE late
              /\ mem' = [mem EXCEPT ![s] = "none"]
              /\ lock' = NoTask
              /\ task' = [task EXCEPT ![t].at = "undo", ![t].quit = TRUE, ![t].left = {}]
           \/ /\ task[t].op = "create" /\ task[t].at \in DrainSteps \cup {"clean"}
              /\ task' = [task EXCEPT ![t].quit = TRUE]
              /\ UNCHANGED <<mem, lock, late>>
        /\ UNCHANGED <<now, processVars, disk, ends, srcEnds, auth, historyVars>>

\* An abandoned thread commits, or fails without anybody noticing.
LateWrite ==
    /\ \E w \in late :
          /\ late' = late \ {w}
          /\ \/ w.kind = "insert" /\ disk' = [disk EXCEPT ![w.s] = "active"]
             \/ w.kind = "reauth" /\ disk' = Persisted(w.s)
             \/ UNCHANGED disk
    /\ UNCHANGED <<now, processVars, lock, mem, ends, srcEnds, auth, historyVars, task>>

Tick ==
    /\ now < MaxTime
    /\ now' = now + 1
    /\ UNCHANGED <<processVars, lock, recordVars, auth, late, historyVars, task>>

\* The process ends: by a crash, or after its resources were closed.
Halt ==
    /\ up
    /\ "crash" \in Faults \/ "strategy" \in shut
    /\ up' = FALSE
    /\ lock' = NoTask
    /\ mem' = [s \in Sessions |-> "none"]
    /\ auth' = [s \in Sessions |-> "none"]
    /\ late' = {}
    /\ task' = [t \in Tasks |-> IdleTask]
    /\ UNCHANGED <<now, shut, disk, ends, srcEnds, historyVars>>

\* A faulty variant: the records are restored without their tokens.
StartWithoutTokens ==
    LET kept == {s \in Sessions : disk[s] # "none" /\ now < ends[s]}
    IN  /\ ~up
        /\ up' = TRUE
        /\ shut' = {}
        /\ disk' = [s \in Sessions |-> IF s \in kept THEN disk[s] ELSE "none"]
        /\ mem' = disk'
        /\ UNCHANGED <<now, lock, auth, ends, srcEnds, late, historyVars, task>>

\* A process restores the unexpired rows and binds the tokens of the active
\* ones before it accepts a request.
Start ==
    LET kept == {s \in Sessions : disk[s] # "none" /\ now < ends[s]}
    IN  /\ ~up
        /\ up' = TRUE
        /\ shut' = {}
        /\ disk' = [s \in Sessions |-> IF s \in kept THEN disk[s] ELSE "none"]
        /\ mem' = disk'
        /\ auth' = [s \in Sessions |-> IF disk'[s] = "active" THEN "bound" ELSE "none"]
        /\ UNCHANGED <<now, lock, ends, srcEnds, late, historyVars, task>>

-----------------------------------------------------------------------------
DrainStep(t) == Drain(t) \/ DrainIo(t) \/ Sweep(t)
CreateStep(t) ==
    \/ Login(t) \/ Admit(t) \/ Insert(t) \/ Bind(t) \/ Clean(t)
    \/ Undo(t) \/ UndoIo(t) \/ Forget(t)
DeleteStep(t) == Revoke(t) \/ RevokeIo(t)
CallStep(t) ==
    \/ Resolve(t) \/ ResolveIo(t) \/ Authorize(t) \/ SourceAnswers(t)
    \/ SourceRejects(t) \/ Mark(t) \/ MarkIo(t)
CloseStep(t) == Fatal(t) \/ Close(t) \/ CloseIo(t) \/ Checkpoint(t) \/ Shut(t)

\* The step the event loop resumes a request for.
Step(t) == DrainStep(t) \/ CreateStep(t) \/ DeleteStep(t) \/ CallStep(t) \/ CloseStep(t)

Request(t) == Create(t) \/ Delete(t) \/ Call(t) \/ Stop(t)

Next ==
    \/ \E t \in Tasks : Request(t) \/ Step(t) \/ Cancel(t)
    \/ LateWrite \/ Tick \/ Halt \/ Start

\* The event loop resumes every request, the vault's lock serves its waiters
\* in order, and the source answers or times out.
Fairness == \A t \in Tasks : SF_vars(Step(t))

Spec == Init /\ [][Next]_vars /\ Fairness

-----------------------------------------------------------------------------
(* Properties.                                                             *)

\* A token the client still relies on: it was delivered, nobody asked to delete
\* it and its Gateway lifetime has not passed.
ReliedOn(s) == s \in delivered \ asked /\ now < ends[s]

\* A session whose deletion was committed, by its own client or by the fatal
\* close, never comes back: not by a late thread, not by a restart.
ErasedStaysErased == \A s \in erased : mem[s] = "none" /\ disk[s] = "none"

\* A delivered session survives every crash and graceful restart until it
\* expires; only a fatal close may take it away.
SessionsAreDurable == \A s \in Sessions : ReliedOn(s) => disk[s] # "none" \/ s \in erased

\* Somebody still has to clean up after the session, or is closing everything.
Attended(s) ==
    \/ "strategy" \in shut
    \/ \E t \in Tasks : ~At(t, "idle") /\ (task[t].s = s \/ s \in task[t].left
                           \/ task[t].at \in CloseSteps)

\* A source token outlives its session record only when the session expired:
\* a deleted, rolled back or rejected session leaves no usable token behind.
NoLiveOrphanToken ==
    \A s \in Sessions : auth[s] = "bound" /\ mem[s] = "none" => Attended(s) \/ now >= ends[s]

\* A record that resolves has its source token: an accepted bearer is never
\* sent on without one.
LiveRecordHasToken ==
    \A s \in Sessions : Lives(s) /\ up => auth[s] = "bound" \/ Attended(s)

\* The clients never hold more sessions of one process than its capacity, also
\* after it restored those of its predecessor.
WithinCapacity == Cardinality({s \in delivered : mem[s] # "none"}) <= MaxSessions

\* Once the reauthentication requirement of a 401 is on disk, no request is
\* sent with that session's token again, in this process or the next one.
MarkedNeverSendsAgain ==
    [][\A t \in Tasks : task'[t].at = "wait" /\ ~At(t, "wait") =>
          task[t].s \notin marked]_vars

\* Every request returns to its client, also when the vault fails under it.
RequestsReturn == \A t \in Tasks : ~At(t, "idle") ~> At(t, "idle")

\* What service.py says of a 401: it does not disturb any other user, hence
\* with a healthy database a session whose own token the source still accepts
\* lasts until its client deletes it.
SourceUnauthorizedStaysLocal ==
    \A s \in Sessions :
        ReliedOn(s) /\ auth[s] = "bound" /\ ~SourceStale(s) => disk[s] # "none"

\* What service.py says of the rollback: a caller's cancellation cannot leave
\* ghost state, hence a session nobody received leaves no row behind.
NoGhostRow ==
    \A s \in Sessions : disk[s] # "none" /\ up => s \in delivered \/ Attended(s)

=============================================================================
