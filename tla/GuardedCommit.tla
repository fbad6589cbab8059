----------------------------- MODULE GuardedCommit -----------------------------
(***************************************************************************)
(* Commits of Actions whose source has no precondition of its own:         *)
(* InMemoryActionResourceLock (actions/resource_lock.py) and the guarded    *)
(* commit of RuntimeActionWorkflowExecutor (actions/runtime_executor.py).   *)
(*                                                                         *)
(* A commit takes the lock of its resource, reads the resource's state     *)
(* again, and sends its mutation only when the state is the prepared one.   *)
(* The locks live in a bounded table; the last user of a lock takes it out. *)
(* The table's own lock is never held across an await, so its bodies are    *)
(* single steps, together with the await they end in.                      *)
(***************************************************************************)
EXTENDS Naturals, Sequences, FiniteSets

CONSTANTS
    Calls,       \* concurrent commits of one runtime, each of one prepared Action
    Keys,        \* resources
    Entries,     \* identities of lock table entries, reused once nobody uses one
    MaxEntries,  \* max_entries
    Foreign      \* writers outside this runtime change the resources

NoEntry == "no entry"
Nobody  == "nobody"

ASSUME ConstantsOK ==
    /\ IsFiniteSet(Calls)
    /\ MaxEntries \in Nat \ {0}
    /\ Foreign \in BOOLEAN
    /\ NoEntry \notin Entries
    /\ Nobody \notin Calls

VARIABLES
    table,   \* the entry of each key, or NoEntry
    entry,   \* every entry: its count of users, its lock and the lock's waiters
    source,  \* the state of each resource at the source
    raced,   \* commits whose resource somebody else touched after their fresh read
    late,    \* resources with abandoned mutations still on their way
    call     \* every commit: its await, and its local variables

vars == <<table, entry, source, raced, late, call>>

\* Two allowed states and a terminal one, the state every mutation leads to.
Allowed  == {"draft", "ready"}
Terminal == {"done"}
States   == Allowed \cup Terminal

HoldSteps == {"read", "mutate"}
UseSteps  == {"wait"} \cup HoldSteps

CallStates ==
    [at : {"idle"} \cup UseSteps, key : Keys, on : Entries \cup {NoEntry},
     prepared : States]

FreeEntry == [users |-> 0, owner |-> Nobody, woken |-> Nobody, queue |-> <<>>]

At(c, step) == call[c].at = step
Uses(c, e)  == call[c].on = e
UsersOf(e)  == {c \in Calls : Uses(c, e)}
Holds(c)    == call[c].at \in HoldSteps

Init ==
    /\ table = [k \in Keys |-> NoEntry]
    /\ entry = [e \in Entries |-> FreeEntry]
    /\ source = [k \in Keys |-> "draft"]
    /\ raced = {}
    /\ late = {}
    /\ call \in [Calls -> [at : {"idle"}, key : Keys, on : {NoEntry}, prepared : {"draft"}]]

-----------------------------------------------------------------------------
(* The asyncio lock of an entry                                            *)

\* The waiters without c, who is one of them.
Without(q, c) ==
    LET i == CHOOSE i \in 1..Len(q) : q[i] = c
    IN  [j \in 1..(Len(q) - 1) |-> IF j < i THEN q[j] ELSE q[j + 1]]

\* The first waiter's future is set; it takes the lock when it resumes.
Wake(r) == IF r.woken = Nobody /\ r.queue # <<>> THEN [r EXCEPT !.woken = Head(r.queue)] ELSE r

\* acquire: at once when nobody holds the lock and nobody waits for it, else at
\* the end of the queue.
Contended(r) == r.owner # Nobody \/ r.queue # <<>>
Acquire(r, c) ==
    IF Contended(r) THEN [r EXCEPT !.queue = Append(@, c)] ELSE [r EXCEPT !.owner = c]

\* The woken waiter takes the lock.
Taken(r, c) == [r EXCEPT !.owner = c, !.woken = Nobody, !.queue = Without(@, c)]

\* A faulty variant: a waiter that is cancelled after its wake-up wakes nobody.
LeftQuietly(r, c) ==
    [r EXCEPT !.queue = Without(@, c), !.woken = IF @ = c THEN Nobody ELSE @]

\* release, and what cancelling a waiter does: a woken one wakes the next.
Released(r) == Wake([r EXCEPT !.owner = Nobody])
Left(r, c) ==
    LET rest == [r EXCEPT !.queue = Without(@, c), !.woken = IF @ = c THEN Nobody ELSE @]
    IN  IF r.owner = Nobody THEN Wake(rest) ELSE rest

-----------------------------------------------------------------------------
(* hold                                                                    *)

\* Entries in the table.
Tabled == {k \in Keys : table[k] # NoEntry}

\* A faulty variant: a new lock replaces the one of the same key while it is
\* only waited for or held, as if the key were looked up before the table lock.
EnterAnew(c) ==
    LET k == call[c].key
    IN  /\ At(c, "idle")
        /\ Cardinality(Tabled \ {k}) < MaxEntries
        /\ \E e \in Entries :
              /\ UsersOf(e) = {} /\ \A j \in Keys : table[j] # e
              /\ table' = [table EXCEPT ![k] = e]
              /\ entry' = [entry EXCEPT ![e] = Acquire([FreeEntry EXCEPT !.users = 1], c)]
              /\ call' = [call EXCEPT ![c].at = "read", ![c].on = e]
        /\ UNCHANGED <<source, raced, late>>

\* The head of hold: the entry of the key, or a new one while the table has
\* room; the lock if it is free.  A full table refuses the commit, which is no
\* step.
Enter(c) ==
    LET k == call[c].key
        Join(e, r) ==
            /\ table' = [table EXCEPT ![k] = e]
            /\ entry' = [entry EXCEPT ![e] = Acquire([r EXCEPT !.users = @ + 1], c)]
            /\ call' = [call EXCEPT ![c].at = IF Contended(r) THEN "wait" ELSE "read",
                                    ![c].on = e]
    IN  /\ At(c, "idle")
        /\ \/ table[k] # NoEntry /\ Join(table[k], entry[table[k]])
           \/ /\ table[k] = NoEntry /\ Cardinality(Tabled) < MaxEntries
              /\ \E e \in Entries :
                    /\ UsersOf(e) = {} /\ \A j \in Keys : table[j] # e
                    /\ Join(e, FreeEntry)
        /\ UNCHANGED <<source, raced, late>>

\* The woken waiter resumes.
Resume(c) ==
    LET e == call[c].on
    IN  /\ At(c, "wait") /\ entry[e].woken = c
        /\ entry' = [entry EXCEPT ![e] = Taken(@, c)]
        /\ call' = [call EXCEPT ![c].at = "read"]
        /\ UNCHANGED <<table, source, raced, late>>

\* A faulty variant: the entry leaves the table with its first user.
LeaveDropsEntry(c, r) ==
    LET e == call[c].on
        left == [r EXCEPT !.users = @ - 1]
    IN  /\ entry' = [entry EXCEPT ![e] = left]
        /\ table' = [table EXCEPT ![call[c].key] = NoEntry]
        /\ call' = [call EXCEPT ![c] = [@ EXCEPT !.at = "idle", !.on = NoEntry]]

\* A faulty variant: a commit that fails keeps the lock's user count.
LeaveKeepsCount(c, r) ==
    /\ entry' = [entry EXCEPT ![call[c].on] = r]
    /\ UNCHANGED table
    /\ call' = [call EXCEPT ![c] = [@ EXCEPT !.at = "idle", !.on = NoEntry]]

\* The end of hold, with the lock as the caller leaves it: the last user takes
\* the entry out of the table.
Leave(c, r) ==
    LET e == call[c].on
        left == [r EXCEPT !.users = @ - 1]
    IN  /\ entry' = [entry EXCEPT ![e] = IF left.users = 0 THEN FreeEntry ELSE left]
        /\ table' = IF left.users = 0 THEN [table EXCEPT ![call[c].key] = NoEntry] ELSE table
        /\ call' = [call EXCEPT ![c] = [@ EXCEPT !.at = "idle", !.on = NoEntry]]

-----------------------------------------------------------------------------
(* The guarded commit, under the lock                                      *)

\* A faulty variant: the state read again is not compared with the prepared one.
ReadAnyAllowed(c) ==
    LET now == source[call[c].key]
    IN  /\ At(c, "read")
        /\ \/ now \in Allowed /\ call' = [call EXCEPT ![c].at = "mutate"]
                              /\ UNCHANGED <<table, entry>>
           \/ now \notin Allowed /\ Leave(c, Released(entry[call[c].on]))
        /\ raced' = raced \ {c}
        /\ UNCHANGED <<source, late>>

\* The fresh preview and _validate_local_development_recheck: a terminal state
\* is the result, another state than the prepared one is a conflict.
Read(c) ==
    LET now == source[call[c].key]
    IN  /\ At(c, "read")
        /\ \/ /\ now \in Allowed /\ now = call[c].prepared
              /\ call' = [call EXCEPT ![c].at = "mutate"]
              /\ UNCHANGED <<table, entry>>
           \/ /\ now \in Terminal \/ now # call[c].prepared
              /\ Leave(c, Released(entry[call[c].on]))
        /\ raced' = raced \ {c}
        /\ UNCHANGED <<source, late>>

\* The source applies the mutation, refuses it, or answers too late to be heard.
Mutate(c) ==
    LET k == call[c].key
    IN  /\ At(c, "mutate")
        /\ \/ source' \in {source, [source EXCEPT ![k] = "done"]} /\ UNCHANGED late
           \/ late' = late \cup {k} /\ UNCHANGED source
        /\ Leave(c, Released(entry[call[c].on]))
        /\ UNCHANGED raced

\* The commit is cancelled at an await; a mutation may have left already.
Cancel(c) ==
    LET e == call[c].on
    IN  /\ ~At(c, "idle")
        /\ late' = IF At(c, "mutate") THEN late \cup {call[c].key} ELSE late
        /\ Leave(c, IF Holds(c) THEN Released(entry[e]) ELSE Left(entry[e], c))
        /\ UNCHANGED <<source, raced>>

-----------------------------------------------------------------------------
(* The source and the clients                                              *)

\* The commits that are sending their mutation of k.
Sending(k) == {c \in Calls : At(c, "mutate") /\ call[c].key = k}

\* An abandoned mutation reaches the source, or is lost on its way.
Arrive ==
    /\ \E k \in late :
          /\ late' = late \ {k}
          /\ source' \in {source, [source EXCEPT ![k] = "done"]}
          /\ raced' = raced \cup Sending(k)
    /\ UNCHANGED <<table, entry, call>>

\* Somebody else changes a resource: another system, or a commit of another
\* capability, whose lock has another key.
ForeignWrite ==
    /\ Foreign
    /\ \E k \in Keys, s \in Allowed :
          /\ source[k] # s
          /\ source' = [source EXCEPT ![k] = s]
          /\ raced' = raced \cup Sending(k)
    /\ UNCHANGED <<table, entry, late, call>>

\* A client prepares a new Action: the preview shows the state of its resource.
Prepare(c) ==
    /\ At(c, "idle")
    /\ \E k \in Keys :
          /\ source[k] \in Allowed
          /\ call' = [call EXCEPT ![c].key = k, ![c].prepared = source[k]]
    /\ UNCHANGED <<table, entry, source, raced, late>>

Next ==
    \/ \E c \in Calls : Prepare(c) \/ Enter(c) \/ Resume(c) \/ Read(c) \/ Mutate(c) \/ Cancel(c)
    \/ Arrive \/ ForeignWrite

Spec == Init /\ [][Next]_vars

-----------------------------------------------------------------------------
(* Correctness                                                             *)

\* Every variable has its type.
TypeOK ==
    /\ table \in [Keys -> Entries \cup {NoEntry}]
    /\ entry \in [Entries -> [users : Nat, owner : Calls \cup {Nobody},
                              woken : Calls \cup {Nobody}, queue : Seq(Calls)]]
    /\ source \in [Keys -> States]
    /\ raced \subseteq Calls
    /\ late \subseteq Keys
    /\ call \in [Calls -> CallStates]

\* Two commits of one resource are never both between their fresh read and the
\* answer to their mutation, whoever comes, waits, fails or leaves meanwhile.
Exclusion ==
    \A c, d \in Calls : Holds(c) /\ Holds(d) /\ call[c].key = call[d].key => c = d

\* The table holds exactly the locks that somebody uses, each under its key with
\* the exact count: no entry leaks, so the table is full only of locks in use.
TableIsInUse ==
    \A k \in Keys :
        LET users == {c \in Calls : call[c].at \in UseSteps /\ call[c].key = k}
        IN  /\ users = {} <=> table[k] = NoEntry
            /\ users # {} => /\ entry[table[k]].users = Cardinality(users)
                             /\ \A c \in users : call[c].on = table[k]

\* A mutation is applied only to the state its preview showed, unless somebody
\* outside this runtime, or an abandoned request, touched the resource between
\* the fresh read and the mutation.
AppliesToPrepared ==
    [][\A c \in Calls : At(c, "mutate") /\ source'[call[c].key] # source[call[c].key] =>
          source[call[c].key] = call[c].prepared \/ c \in raced]_vars

\* A lock nobody holds has woken its first waiter, whoever was cancelled and in
\* whichever order: no commit waits for ever beside a free lock.
WaitersAreWoken ==
    \A e \in Entries :
        /\ entry[e].woken # Nobody => entry[e].owner = Nobody /\ At(entry[e].woken, "wait")
        /\ entry[e].owner = Nobody /\ entry[e].queue # <<>> => entry[e].woken = Head(entry[e].queue)

=============================================================================
