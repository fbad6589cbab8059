---------------------------- MODULE GuardedProofs ----------------------------
(***************************************************************************)
(* Theorems about GuardedCommit, for every set of commits, resources and   *)
(* entries and every size of the lock table.                               *)
(***************************************************************************)
EXTENDS GuardedCommit, FiniteSetTheorems, TLAPS

EntryStates == [users : Nat, owner : Calls \cup {Nobody},
                woken : Calls \cup {Nobody}, queue : Seq(Calls)]

WaitersOf(e) == {c \in Calls : At(c, "wait") /\ call[c].on = e}
HoldersOf(e) == {c \in Calls : Holds(c) /\ call[c].on = e}

\* A queue holds everybody once, and holds the commits W.
Distinct(q)  == \A i, j \in 1..Len(q) : q[i] = q[j] => i = j
Queues(q, W) == \A c \in Calls : c \in W <=> \E i \in 1..Len(q) : q[i] = c

\* A lock whose waiters are W and whose holders are H: the queue holds every waiter
\* once, the owner is the only holder, and a free lock has woken its first waiter.
LockFits(r, W, H) ==
    /\ r \in EntryStates
    /\ Distinct(r.queue)
    /\ Queues(r.queue, W)
    /\ H = IF r.owner = Nobody THEN {} ELSE {r.owner}
    /\ r.woken # Nobody => r.owner = Nobody /\ r.woken \in W
    /\ r.owner = Nobody /\ r.queue # <<>> => r.woken = Head(r.queue)

Locks == \A e \in Entries : LockFits(entry[e], WaitersOf(e), HoldersOf(e))

\* The count of an entry is exact.
Counts == \A e \in Entries : entry[e].users = Cardinality(UsersOf(e))

\* Commits, table and entries refer to each other.
Links ==
    /\ \A c \in Calls : At(c, "idle") <=> call[c].on = NoEntry
    /\ \A c \in Calls : call[c].on # NoEntry => table[call[c].key] = call[c].on
    /\ \A j, k \in Keys : table[j] = table[k] /\ table[j] # NoEntry => j = k
    /\ \A k \in Keys : table[k] # NoEntry => \E c \in Calls : call[c].on = table[k]

\* What a commit is about to change is what it read, unless somebody raced it.
Fresh ==
    \A c \in Calls : At(c, "mutate") => source[call[c].key] = call[c].prepared \/ c \in raced

Inductive == TypeOK /\ Locks /\ Counts /\ Links /\ Fresh

USE DEF At, Uses, Holds, HoldSteps, UseSteps

-----------------------------------------------------------------------------
(* The lock of one entry                                                   *)

LEMMA FreeFits == LockFits(FreeEntry, {}, {})
  BY DEF FreeEntry, LockFits, EntryStates, Distinct, Queues

\* The user count is not the lock's business.
LEMMA CountFits ==
    ASSUME NEW r, NEW W, NEW H, LockFits(r, W, H), NEW n \in Nat
    PROVE  LockFits([r EXCEPT !.users = n], W, H)
  BY DEF LockFits, EntryStates

\* Taking a waiter out of a queue that holds everybody once.
LEMMA WithoutOne ==
    ASSUME NEW q \in Seq(Calls), NEW W \in SUBSET Calls, NEW c \in W,
           Distinct(q), Queues(q, W)
    PROVE  /\ Without(q, c) \in Seq(Calls)
           /\ Distinct(Without(q, c)) /\ Queues(Without(q, c), W \ {c})
           /\ Head(q) # c => Without(q, c) # <<>> /\ Head(Without(q, c)) = Head(q)
<1> DEFINE m == CHOOSE i \in 1..Len(q) : q[i] = c
           w == [j \in 1..(Len(q) - 1) |-> IF j < m THEN q[j] ELSE q[j + 1]]
<1>1. m \in 1..Len(q) /\ q[m] = c
  BY DEF Queues
<1>2. Without(q, c) = w
  BY DEF Without
<1> HIDE DEF m
<1>3. Len(q) \in Nat /\ Len(q) - 1 \in Nat
  BY <1>1
<1>4. w \in Seq(Calls) /\ Len(w) = Len(q) - 1
  BY <1>1, <1>3
<1>5. \A i, j \in 1..Len(w) : w[i] = w[j] => i = j
  BY <1>1, <1>3, <1>4 DEF Distinct
<1>6. ASSUME NEW d \in Calls PROVE d \in W \ {c} <=> \E i \in 1..Len(w) : w[i] = d
  <2>1. ASSUME NEW i \in 1..Len(w), w[i] = d PROVE d # c /\ \E j \in 1..Len(q) : q[j] = d
    <3>1. CASE i < m
      BY <1>1, <1>3, <1>4, <2>1, <3>1 DEF Distinct
    <3>2. CASE ~(i < m)
      <4>1. w[i] = q[i + 1] /\ i + 1 \in 1..Len(q) /\ i + 1 # m
        BY <1>1, <1>3, <1>4, <2>1, <3>2
      <4>2. QED
        BY <4>1, <1>1, <2>1 DEF Distinct
    <3>3. QED
      BY <3>1, <3>2
  <2>2. ASSUME d # c, NEW i \in 1..Len(q), q[i] = d PROVE \E j \in 1..Len(w) : w[j] = d
    <3>1. CASE i < m
      <4>1. i \in 1..Len(w) /\ w[i] = q[i]
        BY <1>1, <1>3, <1>4, <3>1
      <4>2. QED
        BY <4>1, <2>2
    <3>2. CASE ~(i < m)
      <4>1. i # m
        BY <1>1, <2>2
      <4>2. i - 1 \in 1..Len(w) /\ w[i - 1] = q[i]
        BY <1>1, <1>3, <1>4, <3>2, <4>1
      <4>3. QED
        BY <4>2, <2>2
    <3>3. QED
      BY <3>1, <3>2
  <2>3. QED
    BY <2>1, <2>2 DEF Queues
<1>7. m # 1 => 1 \in 1..Len(w) /\ w[1] = q[1]
  BY <1>1, <1>3, <1>4
<1> HIDE DEF w
<1>8. Distinct(w) /\ Queues(w, W \ {c})
  BY <1>5, <1>6 DEF Distinct, Queues
<1>9. ASSUME Head(q) # c PROVE w # <<>> /\ Head(w) = Head(q)
  <2>1. m # 1
    BY <1>1, <1>9
  <2>2. w # <<>> /\ Head(w) = w[1] /\ Head(q) = q[1]
    BY <1>1, <1>4, <1>7, <2>1
  <2>3. QED
    BY <1>7, <2>1, <2>2
<1> QED
  BY <1>2, <1>4, <1>8, <1>9

\* Waking the first waiter of a free lock.
LEMMA WakeFits ==
    ASSUME NEW r \in EntryStates, NEW W \in SUBSET Calls,
           Distinct(r.queue), Queues(r.queue, W),
           r.owner = Nobody,
           r.woken # Nobody => r.woken \in W /\ r.woken = Head(r.queue)
    PROVE  LockFits(Wake(r), W, {})
<1>1. CASE r.woken = Nobody /\ r.queue # <<>>
  <2>1. Head(r.queue) \in Calls /\ Head(r.queue) \in W
    <3>1. 1 \in 1..Len(r.queue) /\ Head(r.queue) = r.queue[1]
      BY <1>1 DEF EntryStates
    <3>2. r.queue[1] \in Calls
      BY <3>1 DEF EntryStates
    <3>3. QED
      BY <3>1, <3>2 DEF Distinct, Queues
  <2>2. Wake(r) = [r EXCEPT !.woken = Head(r.queue)]
    BY <1>1 DEF Wake
  <2> DEFINE h == Head(r.queue)
  <2> HIDE DEF h
  <2>3. Wake(r) = [r EXCEPT !.woken = h] /\ h \in Calls /\ h \in W /\ h = Head(r.queue)
    BY <2>1, <2>2 DEF h
  <2>4. QED
    BY <2>3 DEF LockFits, EntryStates
<1>2. CASE ~(r.woken = Nobody /\ r.queue # <<>>)
  <2>1. Wake(r) = r
    BY <1>2 DEF Wake
  <2>2. QED
    BY <1>2, <2>1 DEF LockFits
<1> QED
  BY <1>1, <1>2

\* A newcomer takes a free lock nobody waits for, or queues up.
LEMMA AcquireFits ==
    ASSUME NEW r, NEW W \in SUBSET Calls, NEW H \in SUBSET Calls, LockFits(r, W, H),
           NEW c \in Calls, c \notin W
    PROVE  /\ Contended(r) => LockFits(Acquire(r, c), W \cup {c}, H)
           /\ ~Contended(r) => W = {} /\ H = {} /\ LockFits(Acquire(r, c), {}, {c})
<1> USE ConstantsOK
<1>1. ASSUME Contended(r) PROVE LockFits(Acquire(r, c), W \cup {c}, H)
  <2> DEFINE q == Append(r.queue, c)
  <2>1. Acquire(r, c) = [r EXCEPT !.queue = q]
    BY <1>1 DEF Acquire
  <2>2. /\ r.queue \in Seq(Calls) /\ q \in Seq(Calls)
        /\ Len(q) = Len(r.queue) + 1 /\ Len(r.queue) \in Nat
        /\ q[Len(r.queue) + 1] = c
        /\ \A i \in 1..Len(r.queue) : q[i] = r.queue[i]
    BY DEF LockFits, EntryStates
  <2> HIDE DEF q
  <2>3. \A i \in 1..Len(r.queue) : r.queue[i] # c
    BY DEF LockFits, Distinct, Queues
  <2>4. Distinct(q)
    <3> SUFFICES ASSUME NEW i \in 1..Len(q), NEW j \in 1..Len(q), q[i] = q[j] PROVE i = j
      BY DEF Distinct
    <3>1. i \in 1..Len(r.queue) \/ i = Len(r.queue) + 1
      BY <2>2
    <3>2. j \in 1..Len(r.queue) \/ j = Len(r.queue) + 1
      BY <2>2
    <3>3. QED
      BY <2>2, <2>3, <3>1, <3>2 DEF LockFits, Distinct, Queues
  <2>5. Queues(q, W \cup {c})
    <3>1. ASSUME NEW d \in Calls, d \in W PROVE \E i \in 1..Len(q) : q[i] = d
      <4>1. PICK i \in 1..Len(r.queue) : r.queue[i] = d
        BY <3>1 DEF LockFits, Distinct, Queues
      <4>2. i \in 1..Len(q) /\ q[i] = d
        BY <2>2, <4>1
      <4>3. QED
        BY <4>2
    <3>2. \E i \in 1..Len(q) : q[i] = c
      BY <2>2
    <3>3. ASSUME NEW d \in Calls, NEW i \in 1..Len(q), q[i] = d PROVE d \in W \cup {c}
      <4>1. i \in 1..Len(r.queue) \/ i = Len(r.queue) + 1
        BY <2>2
      <4>2. QED
        BY <2>2, <3>3, <4>1 DEF LockFits, Distinct, Queues
    <3>4. QED
      BY <3>1, <3>2, <3>3 DEF Queues
  <2>6. r.owner = Nobody => r.queue # <<>>
    BY <1>1 DEF Contended
  <2>7. r.queue # <<>> => Head(q) = Head(r.queue)
    BY <2>2 
  <2> DEFINE s == [r EXCEPT !.queue = q]
  <2>8. /\ s \in EntryStates /\ s.queue = q /\ s.owner = r.owner /\ s.woken = r.woken
    BY <2>2 DEF LockFits, EntryStates
  <2> HIDE DEF s
  <2>9. LockFits(s, W \cup {c}, H)
    BY <2>4, <2>5, <2>6, <2>7, <2>8 DEF LockFits
  <2>10. QED
    BY <2>1, <2>9 DEF s
<1>2. ASSUME ~Contended(r)
      PROVE  W = {} /\ H = {} /\ LockFits(Acquire(r, c), {}, {c})
  <2>1. r.owner = Nobody /\ r.queue = <<>>
    BY <1>2 DEF Contended
  <2>2. W = {} /\ H = {} /\ r.woken = Nobody
    BY <2>1 DEF LockFits, Distinct, Queues
  <2>3. Acquire(r, c) = [r EXCEPT !.owner = c]
    BY <1>2 DEF Acquire
  <2>4. QED
    BY <2>1, <2>2, <2>3 DEF LockFits, EntryStates
<1> QED
  BY <1>1, <1>2

LEMMA ReleasedFits ==
    ASSUME NEW r, NEW W \in SUBSET Calls, NEW H, LockFits(r, W, H), NEW c \in H
    PROVE  H = {c} /\ LockFits(Released(r), W, {})
<1> DEFINE s == [r EXCEPT !.owner = Nobody]
<1>1. H = {c} /\ r.owner = c /\ r.owner # Nobody
  BY DEF LockFits
<1>2. s \in EntryStates /\ s.owner = Nobody /\ s.queue = r.queue /\ s.woken = Nobody
  BY <1>1 DEF LockFits, EntryStates
<1>3. Released(r) = Wake(s)
  BY DEF Released
<1> HIDE DEF s
<1>4. Distinct(s.queue) /\ Queues(s.queue, W)
  BY <1>2 DEF LockFits
<1>5. LockFits(Wake(s), W, {})
  BY <1>2, <1>4, WakeFits
<1> QED
  BY <1>1, <1>3, <1>5

\* The queue without one of the waiters.
LEMMA WithoutFits ==
    ASSUME NEW r, NEW W \in SUBSET Calls, NEW H, LockFits(r, W, H), NEW c \in W
    PROVE  /\ Without(r.queue, c) \in Seq(Calls)
           /\ Distinct(Without(r.queue, c)) /\ Queues(Without(r.queue, c), W \ {c})
           /\ Head(r.queue) # c => /\ Without(r.queue, c) # <<>>
                                   /\ Head(Without(r.queue, c)) = Head(r.queue)
<1>1. r.queue \in Seq(Calls) /\ Distinct(r.queue) /\ Queues(r.queue, W)
  BY DEF LockFits, EntryStates
<1> QED
  BY <1>1, WithoutOne

LEMMA LeftFits ==
    ASSUME NEW r, NEW W \in SUBSET Calls, NEW H, LockFits(r, W, H), NEW c \in W
    PROVE  LockFits(Left(r, c), W \ {c}, H)
<1> USE ConstantsOK
<1> DEFINE q == Without(r.queue, c)
           k == IF r.woken = c THEN Nobody ELSE r.woken
           rest == [r EXCEPT !.queue = q, !.woken = k]
<1>2. /\ q \in Seq(Calls)
      /\ Distinct(q) /\ Queues(q, W \ {c})
      /\ Head(r.queue) # c => q # <<>> /\ Head(q) = Head(r.queue)
  BY WithoutFits
<1> HIDE DEF q
<1>3. rest = [r EXCEPT !.queue = q, !.woken = IF @ = c THEN Nobody ELSE @]
  BY DEF LockFits, EntryStates
<1>4. k \in Calls \cup {Nobody} /\ (k # Nobody => k = r.woken /\ k # c)
  BY DEF LockFits, EntryStates
<1> HIDE DEF k
<1>5. rest \in EntryStates /\ rest.queue = q /\ rest.woken = k /\ rest.owner = r.owner
  BY <1>2, <1>4 DEF LockFits, EntryStates
<1>6. Left(r, c) = IF r.owner = Nobody THEN Wake(rest) ELSE rest
  BY <1>3 DEF Left, q
<1> HIDE DEF rest
<1>7. k # Nobody => k \in W \ {c} /\ r.owner = Nobody /\ k = Head(q)
  <2> SUFFICES ASSUME k # Nobody PROVE k \in W \ {c} /\ r.owner = Nobody /\ k = Head(q)
    OBVIOUS
  <2>1. k = r.woken /\ k # c /\ r.owner = Nobody /\ k \in W
    BY <1>4 DEF LockFits
  <2>2. r.queue # <<>>
    BY DEF LockFits, Distinct, Queues
  <2>3. r.woken = Head(r.queue)
    BY <2>1, <2>2 DEF LockFits
  <2>4. QED
    BY <1>2, <2>1, <2>3
<1>8. CASE r.owner = Nobody
  <2>1. LockFits(Wake(rest), W \ {c}, {})
    BY <1>2, <1>5, <1>7, <1>8, WakeFits
  <2>2. H = {}
    BY <1>8 DEF LockFits
  <2>3. QED
    BY <1>6, <1>8, <2>1, <2>2
<1>9. CASE r.owner # Nobody
  <2>1. k = Nobody
    BY <1>7, <1>9
  <2>2. LockFits(rest, W \ {c}, H)
    BY <1>2, <1>5, <1>9, <2>1 DEF LockFits
  <2>3. QED
    BY <1>6, <1>9, <2>2
<1> QED
  BY <1>8, <1>9

\* The woken waiter takes the lock.
LEMMA ResumeFits ==
    ASSUME NEW r, NEW W \in SUBSET Calls, NEW H, LockFits(r, W, H),
           NEW c \in W, r.woken = c
    PROVE  H = {} /\ LockFits(Taken(r, c), W \ {c}, {c})
<1> USE ConstantsOK
<1>1. c # Nobody /\ H = {}
  BY DEF LockFits
<1> DEFINE q == Without(r.queue, c)
           s == Taken(r, c)
<1>3. /\ q \in Seq(Calls)
      /\ Distinct(q) /\ Queues(q, W \ {c})
  BY WithoutFits
<1>4. s = [r EXCEPT !.owner = c, !.woken = Nobody, !.queue = q]
  BY DEF Taken
<1> HIDE DEF q, s
<1>5. s \in EntryStates /\ s.queue = q /\ s.woken = Nobody /\ s.owner = c
  BY <1>3, <1>4 DEF LockFits, EntryStates
<1>6. LockFits(s, W \ {c}, {c})
  BY <1>1, <1>3, <1>5 DEF LockFits
<1> QED
  BY <1>1, <1>6 DEF s

-----------------------------------------------------------------------------
(* The commits, the table and the entries                                  *)

LEMMA FiniteUsers ==
    ASSUME NEW S \in SUBSET Calls
    PROVE  IsFiniteSet(S) /\ Cardinality(S) \in Nat
  BY ConstantsOK, FS_Subset, FS_CardinalityType

LEMMA InitInductive == Init => Inductive
<1> SUFFICES ASSUME Init PROVE Inductive
  OBVIOUS
<1> USE ConstantsOK
<1>1. \A c \in Calls : call[c].at = "idle" /\ call[c].on = NoEntry
  BY DEF Init
<1>2. TypeOK
  <2>1. FreeEntry \in EntryStates
    BY FreeFits DEF LockFits
  <2>2. entry \in [Entries -> EntryStates]
    BY <2>1 DEF Init
  <2>3. call \in [Calls -> CallStates]
    BY DEF Init, CallStates, States, Allowed
  <2>4. QED
    BY <2>2, <2>3 DEF Init, TypeOK, EntryStates, States, Allowed
<1>3. ASSUME NEW e \in Entries
      PROVE  WaitersOf(e) = {} /\ HoldersOf(e) = {} /\ UsersOf(e) = {} /\ entry[e] = FreeEntry
  BY <1>1, <1>3 DEF Init, WaitersOf, HoldersOf, UsersOf
<1>4. Locks /\ Counts
  <2>1. Cardinality({}) = 0 /\ FreeEntry.users = 0
    BY FS_EmptySet DEF FreeEntry
  <2>2. QED
    BY <1>3, <2>1, FreeFits DEF Locks, Counts
<1>5. Links /\ Fresh
  BY <1>1 DEF Init, Links, Fresh
<1> QED
  BY <1>2, <1>4, <1>5 DEF Inductive

LEMMA CallUpdated ==
    ASSUME TypeOK, NEW c \in Calls, NEW q \in CallStates, call' = [call EXCEPT ![c] = q]
    PROVE  /\ call'[c] = q /\ \A d \in Calls \ {c} : call'[d] = call[d]
           /\ call' \in [Calls -> CallStates]
BY DEF TypeOK

\* An entry nobody uses belongs to no key.
LEMMA UnusedIsFree ==
    ASSUME Links, NEW e \in Entries, UsersOf(e) = {}, NEW k \in Keys
    PROVE  table[k] # e
  BY ConstantsOK DEF Links, UsersOf

\* A commit that ends, with the lock left to the others.
LEMMA LeaveKeeps ==
    ASSUME TypeOK, Locks, Counts, Links, NEW c \in Calls, ~At(c, "idle"), NEW r, Leave(c, r),
           NEW e \in Entries, call[c].on = e, r.users = entry[e].users,
           LockFits(r, WaitersOf(e) \ {c}, HoldersOf(e) \ {c})
    PROVE  /\ Locks' /\ Counts' /\ Links'
           /\ call' \in [Calls -> CallStates]
           /\ table' \in [Keys -> Entries \cup {NoEntry}]
           /\ entry' \in [Entries -> EntryStates]
           /\ At(c, "idle")' /\ \A d \in Calls \ {c} : call'[d] = call[d]
<1> USE ConstantsOK
<1> DEFINE k == call[c].key
           n == r.users - 1
           left == [r EXCEPT !.users = n]
<1>1. k \in Keys /\ table[k] = e
  BY DEF TypeOK, CallStates, Links
<1>2. /\ call'[c].at = "idle" /\ call'[c].on = NoEntry
      /\ \A d \in Calls \ {c} : call'[d] = call[d]
      /\ call' \in [Calls -> CallStates]
  <2> DEFINE q == [call[c] EXCEPT !.at = "idle", !.on = NoEntry]
  <2>1. q \in CallStates /\ q.at = "idle" /\ q.on = NoEntry
    BY DEF TypeOK, CallStates
  <2>2. call' = [call EXCEPT ![c] = q]
    BY DEF Leave
  <2> HIDE DEF q
  <2>3. QED
    BY <2>1, <2>2, CallUpdated
<1>3. /\ entry' = [entry EXCEPT ![e] = IF n = 0 THEN FreeEntry ELSE left]
      /\ table' = IF n = 0 THEN [table EXCEPT ![k] = NoEntry] ELSE table
  <2>1. [r EXCEPT !.users = @ - 1] = left /\ left.users = n
    BY DEF LockFits, EntryStates
  <2>2. QED
    BY <2>1 DEF Leave
<1>4. \A x \in Entries : /\ WaitersOf(x)' = WaitersOf(x) \ {c}
                         /\ HoldersOf(x)' = HoldersOf(x) \ {c}
                         /\ UsersOf(x)' = UsersOf(x) \ {c}
  BY <1>2 DEF WaitersOf, HoldersOf, UsersOf
<1>5. \A x \in Entries \ {e} : /\ c \notin WaitersOf(x) /\ c \notin HoldersOf(x)
                               /\ c \notin UsersOf(x) /\ entry'[x] = entry[x]
  BY <1>1, <1>3 DEF WaitersOf, HoldersOf, UsersOf, TypeOK
<1>6. /\ n = Cardinality(UsersOf(e) \ {c}) /\ n \in Nat
      /\ n = 0 <=> UsersOf(e) \ {c} = {}
  <2>1. c \in UsersOf(e) /\ UsersOf(e) \in SUBSET Calls
    BY DEF UsersOf
  <2>2. r.users = Cardinality(UsersOf(e))
    BY <1>1 DEF Counts
  <2>3. Cardinality(UsersOf(e) \ {c}) = Cardinality(UsersOf(e)) - 1
    BY <2>1, FiniteUsers, FS_RemoveElement
  <2>4. QED
    BY <2>1, <2>2, <2>3, FiniteUsers, FS_EmptySet
<1> HIDE DEF n
<1>7. LockFits(left, WaitersOf(e) \ {c}, HoldersOf(e) \ {c}) /\ left.users = n
  <2>1. LockFits([r EXCEPT !.users = n], WaitersOf(e) \ {c}, HoldersOf(e) \ {c})
    BY <1>6, CountFits
  <2>2. QED
    BY <2>1 DEF LockFits, EntryStates
<1>8. n = 0 => WaitersOf(e) \ {c} = {} /\ HoldersOf(e) \ {c} = {}
  BY <1>6 DEF WaitersOf, HoldersOf, UsersOf
<1>9. entry'[e] = IF n = 0 THEN FreeEntry ELSE left
  BY <1>1, <1>3 DEF TypeOK
<1> HIDE DEF left
<1>10. LockFits(entry'[e], WaitersOf(e)', HoldersOf(e)') /\ entry'[e].users = n
  <2>1. CASE n = 0
    <3>1. entry'[e] = FreeEntry /\ WaitersOf(e)' = {} /\ HoldersOf(e)' = {}
      BY <1>4, <1>8, <1>9, <2>1
    <3>2. QED
      BY <2>1, <3>1, FreeFits DEF FreeEntry
  <2>2. CASE n # 0
    BY <1>1, <1>4, <1>7, <1>9, <2>2
  <2>3. QED
    BY <2>1, <2>2
<1>11. Locks' /\ Counts'
  <2>1. ASSUME NEW x \in Entries
        PROVE  LockFits(entry'[x], WaitersOf(x)', HoldersOf(x)')
               /\ entry'[x].users = Cardinality(UsersOf(x)')
    <3>1. CASE x = e
      BY <1>4, <1>6, <1>10, <3>1
    <3>2. CASE x # e
      <4>1. c \notin WaitersOf(x) /\ c \notin HoldersOf(x) /\ c \notin UsersOf(x)
        BY <1>5, <3>2
      <4>2. /\ WaitersOf(x)' = WaitersOf(x) /\ HoldersOf(x)' = HoldersOf(x)
            /\ UsersOf(x)' = UsersOf(x)
        BY <1>4, <4>1
      <4>3. entry'[x] = entry[x]
        BY <1>5, <3>2
      <4>4. QED
        BY <4>2, <4>3 DEF Locks, Counts
    <3>3. QED
      BY <3>1, <3>2
  <2>2. QED
    BY <2>1 DEF Locks, Counts
<1>12. entry' \in [Entries -> EntryStates]
  <2>1. FreeEntry \in EntryStates /\ left \in EntryStates
    BY <1>7, FreeFits DEF LockFits
  <2>2. QED
    BY <1>3, <2>1 DEF TypeOK, EntryStates
<1>13. table' \in [Keys -> Entries \cup {NoEntry}]
  BY <1>3 DEF TypeOK
<1>14. Links'
  <2>1. \A d \in Calls : At(d, "idle")' <=> call'[d].on = NoEntry
    BY <1>2 DEF Links
  <2>2. ASSUME NEW d \in Calls, call'[d].on # NoEntry
        PROVE  d # c /\ call'[d] = call[d] /\ table'[call[d].key] = call[d].on
    <3>1. d # c /\ call'[d] = call[d] /\ table[call[d].key] = call[d].on /\ call[d].key \in Keys
      BY <1>2, <2>2 DEF Links, TypeOK, CallStates
    <3>2. n = 0 => call[d].key # k
      BY <1>1, <1>6, <3>1 DEF UsersOf
    <3>3. QED
      BY <1>3, <3>1, <3>2 DEF TypeOK
  <2>3. \A i, j \in Keys : table'[i] = table'[j] /\ table'[i] # NoEntry => i = j
    BY <1>3, <1>1 DEF Links, TypeOK
  <2>4. ASSUME NEW j \in Keys, table'[j] # NoEntry PROVE \E d \in Calls : call'[d].on = table'[j]
    <3>1. table'[j] = table[j] /\ (n = 0 => j # k)
      BY <1>1, <1>3, <2>4 DEF TypeOK
    <3>2. CASE j = k
      <4>1. PICK d \in UsersOf(e) \ {c} : TRUE
        BY <1>6, <3>1, <3>2
      <4>2. QED
        BY <1>1, <1>2, <3>1, <3>2, <4>1 DEF UsersOf
    <3>3. CASE j # k
      <4>1. PICK d \in Calls : call[d].on = table[j]
        BY <2>4, <3>1 DEF Links
      <4>2. d # c
        BY <1>1, <2>4, <3>1, <3>3, <4>1 DEF Links
      <4>3. QED
        BY <1>2, <3>1, <4>1, <4>2
    <3>4. QED
      BY <3>2, <3>3
  <2>5. QED
    BY <2>1, <2>2, <2>3, <2>4 DEF Links
<1> QED
  BY <1>2, <1>11, <1>12, <1>13, <1>14

\* Locks, Counts and Links of a step that moves one commit and its entry.
LEMMA EntersKeeps ==
    ASSUME TypeOK, Locks, Counts, Links, NEW c \in Calls, Enter(c)
    PROVE  /\ Locks' /\ Counts' /\ Links'
           /\ call' \in [Calls -> CallStates]
           /\ table' \in [Keys -> Entries \cup {NoEntry}]
           /\ entry' \in [Entries -> EntryStates]
           /\ ~At(c, "mutate")' /\ \A d \in Calls \ {c} : call'[d] = call[d]
<1> USE ConstantsOK
<1> DEFINE k == call[c].key
<1>1. PICK e, r :
        /\ e \in Entries
        /\ table' = [table EXCEPT ![k] = e]
        /\ entry' = [entry EXCEPT ![e] = Acquire([r EXCEPT !.users = @ + 1], c)]
        /\ call' = [call EXCEPT ![c].at = IF Contended(r) THEN "wait" ELSE "read", ![c].on = e]
        /\ \/ table[k] = e /\ r = entry[e]
           \/ /\ table[k] = NoEntry /\ UsersOf(e) = {} /\ (\A j \in Keys : table[j] # e)
              /\ r = FreeEntry
  <2>1. k \in Keys
    BY DEF TypeOK, CallStates
  <2>2. CASE table[k] # NoEntry
    BY <2>1, <2>2 DEF Enter, TypeOK
  <2>3. CASE table[k] = NoEntry
    BY <2>1, <2>3 DEF Enter
  <2>4. QED
    BY <2>2, <2>3
<1> e \in Entries
  BY <1>1
<1>2. At(c, "idle") /\ call[c].on = NoEntry /\ k \in Keys
  BY DEF Enter, Links, TypeOK, CallStates
<1>3. LockFits(r, WaitersOf(e), HoldersOf(e)) /\ r.users = Cardinality(UsersOf(e))
  <2>1. CASE r = entry[e]
    BY <2>1 DEF Locks, Counts
  <2>2. CASE UsersOf(e) = {} /\ r = FreeEntry
    <3>1. WaitersOf(e) = {} /\ HoldersOf(e) = {}
      BY <2>2 DEF WaitersOf, HoldersOf, UsersOf
    <3>2. QED
      BY <2>2, <3>1, FreeFits, FS_EmptySet DEF FreeEntry
  <2>3. QED
    BY <1>1, <2>1, <2>2
<1> DEFINE n == r.users + 1
           s == [r EXCEPT !.users = n]
<1>4. n \in Nat /\ n = Cardinality(UsersOf(e) \cup {c})
  <2>1. c \notin UsersOf(e) /\ UsersOf(e) \in SUBSET Calls
    BY <1>2 DEF UsersOf
  <2>2. QED
    BY <1>3, <2>1, FiniteUsers, FS_AddElement
<1>5. [r EXCEPT !.users = @ + 1] = s /\ s.users = n /\ s.queue = r.queue /\ s.owner = r.owner
  BY <1>3 DEF LockFits, EntryStates
<1> HIDE DEF n
<1>6. LockFits(s, WaitersOf(e), HoldersOf(e)) /\ (Contended(s) <=> Contended(r))
  BY <1>3, <1>4, <1>5, CountFits DEF Contended
<1> HIDE DEF s
<1>7. entry' = [entry EXCEPT ![e] = Acquire(s, c)]
  BY <1>1, <1>5
<1>8. Acquire(s, c).users = n
  BY <1>5, <1>6 DEF Acquire, LockFits, EntryStates
<1>9. /\ call'[c].at = (IF Contended(r) THEN "wait" ELSE "read") /\ call'[c].on = e
      /\ call'[c].key = k
      /\ \A d \in Calls \ {c} : call'[d] = call[d]
      /\ call' \in [Calls -> CallStates]
  <2> DEFINE a == IF Contended(r) THEN "wait" ELSE "read"
  <2>1. a \in {"wait", "read"}
    OBVIOUS
  <2>2. call' = [call EXCEPT ![c].at = a, ![c].on = e]
    BY <1>1
  <2> HIDE DEF a
  <2>3. /\ call'[c] = [call[c] EXCEPT !.at = a, !.on = e]
        /\ \A d \in Calls \ {c} : call'[d] = call[d]
        /\ DOMAIN call' = Calls
    BY <2>2 DEF TypeOK
  <2>4. call[c] \in CallStates
    BY DEF TypeOK
  <2>5. /\ call'[c].at = a /\ call'[c].on = e /\ call'[c].key = k
        /\ call'[c] \in CallStates
    BY <2>1, <2>3, <2>4 DEF CallStates
  <2>6. call' \in [Calls -> CallStates]
    BY <2>2, <2>3, <2>5 DEF TypeOK
  <2>7. QED
    BY <2>3, <2>5, <2>6 DEF a
<1>10. /\ UsersOf(e)' = UsersOf(e) \cup {c}
       /\ WaitersOf(e)' = IF Contended(r) THEN WaitersOf(e) \cup {c} ELSE WaitersOf(e)
       /\ HoldersOf(e)' = IF Contended(r) THEN HoldersOf(e) ELSE HoldersOf(e) \cup {c}
  BY <1>2, <1>9 DEF UsersOf, WaitersOf, HoldersOf
<1>11. LockFits(Acquire(s, c), WaitersOf(e)', HoldersOf(e)')
  <2>1. /\ WaitersOf(e) \in SUBSET Calls /\ HoldersOf(e) \in SUBSET Calls
        /\ c \notin WaitersOf(e)
    BY <1>2 DEF WaitersOf, HoldersOf
  <2>2. CASE Contended(r)
    <3>1. LockFits(Acquire(s, c), WaitersOf(e) \cup {c}, HoldersOf(e))
      BY <1>6, <2>1, <2>2, AcquireFits
    <3>2. WaitersOf(e)' = WaitersOf(e) \cup {c} /\ HoldersOf(e)' = HoldersOf(e)
      BY <1>10, <2>2
    <3>3. QED
      BY <3>1, <3>2
  <2>3. CASE ~Contended(r)
    <3>1. /\ WaitersOf(e) = {} /\ HoldersOf(e) = {}
          /\ LockFits(Acquire(s, c), {}, {c})
      BY <1>6, <2>1, <2>3, AcquireFits
    <3>2. WaitersOf(e)' = {} /\ HoldersOf(e)' = {c}
      BY <1>10, <2>3, <3>1
    <3>3. QED
      BY <3>1, <3>2
  <2>4. QED
    BY <2>2, <2>3
<1>12. ASSUME NEW x \in Entries
       PROVE  LockFits(entry'[x], WaitersOf(x)', HoldersOf(x)')
              /\ entry'[x].users = Cardinality(UsersOf(x)')
  <2>1. CASE x = e
    <3>1. entry'[e] = Acquire(s, c)
      BY <1>7 DEF TypeOK
    <3>2. QED
      BY <1>4, <1>8, <1>10, <1>11, <2>1, <3>1
  <2>2. CASE x # e
    <3>1. /\ WaitersOf(x)' = WaitersOf(x) /\ HoldersOf(x)' = HoldersOf(x)
          /\ UsersOf(x)' = UsersOf(x)
      BY <1>2, <1>9, <2>2 DEF UsersOf, WaitersOf, HoldersOf
    <3>2. entry'[x] = entry[x]
      BY <1>7, <2>2 DEF TypeOK
    <3>3. QED
      BY <3>1, <3>2 DEF Locks, Counts
  <2>3. QED
    BY <2>1, <2>2
<1>13. Locks' /\ Counts'
  BY <1>12 DEF Locks, Counts
<1>14. entry' \in [Entries -> EntryStates]
  <2>1. Acquire(s, c) \in EntryStates
    BY <1>11 DEF LockFits
  <2>2. QED
    BY <1>7, <2>1 DEF TypeOK, EntryStates
<1>15. table' \in [Keys -> Entries \cup {NoEntry}]
  BY <1>1 DEF TypeOK
<1>16. table'[k] = e /\ \A j \in Keys \ {k} : table'[j] = table[j] /\ table[j] # e
  BY <1>1, <1>2 DEF TypeOK, Links
<1>17. Links'
  <2>1. \A d \in Calls : At(d, "idle")' <=> call'[d].on = NoEntry
    BY <1>9 DEF Links
  <2>2. ASSUME NEW d \in Calls, call'[d].on # NoEntry
        PROVE  table'[call'[d].key] = call'[d].on
    <3>1. CASE d = c
      BY <1>9, <1>16, <3>1
    <3>2. CASE d # c
      <4>1. /\ call'[d] = call[d] /\ call[d].key \in Keys
            /\ table[call[d].key] = call[d].on
        BY <1>9, <2>2, <3>2 DEF Links, TypeOK, CallStates
      <4>2. call[d].key = k => table[k] = e
        BY <1>1, <2>2, <4>1
      <4>3. QED
        BY <1>16, <4>1, <4>2
    <3>3. QED
      BY <3>1, <3>2
  <2>3. \A i, j \in Keys : table'[i] = table'[j] /\ table'[i] # NoEntry => i = j
    BY <1>16 DEF Links
  <2>4. ASSUME NEW j \in Keys, table'[j] # NoEntry PROVE \E d \in Calls : call'[d].on = table'[j]
    <3>1. CASE j = k
      BY <1>9, <1>16, <3>1
    <3>2. CASE j # k
      <4>1. PICK d \in Calls : call[d].on = table[j]
        BY <1>16, <2>4, <3>2 DEF Links
      <4>2. d # c /\ call'[d] = call[d]
        BY <1>2, <1>9, <1>16, <2>4, <3>2, <4>1
      <4>3. QED
        BY <1>16, <3>2, <4>1, <4>2
    <3>3. QED
      BY <3>1, <3>2
  <2>5. QED
    BY <2>1, <2>2, <2>3, <2>4 DEF Links
<1> QED
  BY <1>9, <1>13, <1>14, <1>15, <1>17

LEMMA ResumesKeeps ==
    ASSUME TypeOK, Locks, Counts, Links, NEW c \in Calls, Resume(c)
    PROVE  /\ Locks' /\ Counts' /\ Links'
           /\ call' \in [Calls -> CallStates]
           /\ entry' \in [Entries -> EntryStates]
           /\ ~At(c, "mutate")' /\ \A d \in Calls \ {c} : call'[d] = call[d]
<1> USE ConstantsOK
<1>1. PICK e \in Entries : call[c].on = e
  BY DEF Resume, Links, TypeOK, CallStates
<1> DEFINE s == Taken(entry[e], c)
<1>2. At(c, "wait") /\ entry[e].woken = c /\ entry' = [entry EXCEPT ![e] = s]
  BY <1>1 DEF Resume
<1>3. c \in WaitersOf(e) /\ WaitersOf(e) \in SUBSET Calls
  BY <1>1, <1>2 DEF WaitersOf
<1>4. LockFits(entry[e], WaitersOf(e), HoldersOf(e))
  BY DEF Locks
<1>5. HoldersOf(e) = {} /\ LockFits(s, WaitersOf(e) \ {c}, {c})
  <2> DEFINE r == entry[e]
             W == WaitersOf(e)
             H == HoldersOf(e)
  <2>1. LockFits(r, W, H) /\ W \in SUBSET Calls /\ c \in W /\ r.woken = c
    BY <1>2, <1>3, <1>4
  <2> HIDE DEF r, W, H
  <2>2. H = {} /\ LockFits(Taken(r, c), W \ {c}, {c})
    BY <2>1, ResumeFits
  <2>3. QED
    BY <2>2 DEF r, W, H
<1>6. s.users = entry[e].users
  BY <1>4 DEF Taken,  LockFits, EntryStates
<1> HIDE DEF s
<1>7. /\ call'[c].at = "read" /\ call'[c].on = e /\ call'[c].key = call[c].key
      /\ \A d \in Calls \ {c} : call'[d] = call[d]
      /\ call' \in [Calls -> CallStates]
  <2> DEFINE q == [call[c] EXCEPT !.at = "read"]
  <2>1. q \in CallStates /\ q.at = "read" /\ q.on = e /\ q.key = call[c].key
    BY <1>1 DEF TypeOK, CallStates
  <2>2. call' = [call EXCEPT ![c] = q]
    BY DEF Resume
  <2> HIDE DEF q
  <2>3. QED
    BY <2>1, <2>2, CallUpdated
<1>8. /\ WaitersOf(e)' = WaitersOf(e) \ {c} /\ HoldersOf(e)' = {c}
      /\ UsersOf(e)' = UsersOf(e)
  BY <1>1, <1>2, <1>5, <1>7 DEF WaitersOf, HoldersOf, UsersOf
<1>9. ASSUME NEW x \in Entries
      PROVE  LockFits(entry'[x], WaitersOf(x)', HoldersOf(x)')
             /\ entry'[x].users = Cardinality(UsersOf(x)')
  <2>1. CASE x = e
    <3>1. entry'[e] = s
      BY <1>2 DEF TypeOK
    <3>2. s.users = Cardinality(UsersOf(e))
      BY <1>6 DEF Counts
    <3>3. QED
      BY <1>5, <1>8, <2>1, <3>1, <3>2
  <2>2. CASE x # e
    <3>1. /\ WaitersOf(x)' = WaitersOf(x) /\ HoldersOf(x)' = HoldersOf(x)
          /\ UsersOf(x)' = UsersOf(x)
      BY <1>1, <1>7, <2>2 DEF UsersOf, WaitersOf, HoldersOf
    <3>2. entry'[x] = entry[x]
      BY <1>2, <2>2 DEF TypeOK
    <3>3. QED
      BY <3>1, <3>2 DEF Locks, Counts
  <2>3. QED
    BY <2>1, <2>2
<1>10. Locks' /\ Counts'
  BY <1>9 DEF Locks, Counts
<1>11. entry' \in [Entries -> EntryStates]
  <2>1. s \in EntryStates
    BY <1>5 DEF LockFits
  <2>2. QED
    BY <1>2, <2>1 DEF TypeOK, EntryStates
<1>12. Links'
  <2>1. table' = table /\ \A d \in Calls : call'[d].on = call[d].on /\ call'[d].key = call[d].key
    BY <1>1, <1>7 DEF Resume
  <2>2. \A d \in Calls : At(d, "idle")' <=> At(d, "idle")
    BY <1>2, <1>7
  <2>3. QED
    BY <2>1, <2>2 DEF Links
<1> QED
  BY <1>7, <1>10, <1>11, <1>12

\* A step that leaves the locks alone: only the resources a commit is for, or its
\* place under the lock, change.
LEMMA LocksStay ==
    ASSUME TypeOK, Locks, Counts, Links, UNCHANGED <<table, entry>>,
           call' \in [Calls -> CallStates],
           \A d \in Calls : /\ call'[d].on = call[d].on
                            /\ At(d, "idle")' <=> At(d, "idle")
                            /\ At(d, "wait")' <=> At(d, "wait")
                            /\ Holds(d)' <=> Holds(d)
                            /\ At(d, "idle") \/ call'[d].key = call[d].key
    PROVE  Locks' /\ Counts' /\ Links'
<1>1. \A e \in Entries : /\ WaitersOf(e)' = WaitersOf(e) /\ HoldersOf(e)' = HoldersOf(e)
                         /\ UsersOf(e)' = UsersOf(e)
  BY DEF WaitersOf, HoldersOf, UsersOf
<1>2. Locks' /\ Counts'
  BY <1>1 DEF Locks, Counts
<1>3. Links'
  BY DEF Links
<1> QED
  BY <1>2, <1>3

-----------------------------------------------------------------------------
(* The steps                                                               *)

\* A commit is under at most one lock's protection with its resource.
LEMMA OneHolder == TypeOK /\ Locks /\ Links => Exclusion
<1> SUFFICES ASSUME TypeOK, Locks, Links, NEW c \in Calls, NEW d \in Calls,
                    Holds(c), Holds(d), call[c].key = call[d].key
             PROVE  c = d
  BY DEF Exclusion
<1>1. PICK e \in Entries : call[c].on = e /\ call[d].on = e
  BY DEF Links, TypeOK, CallStates
<1>2. c \in HoldersOf(e) /\ d \in HoldersOf(e)
  BY <1>1 DEF HoldersOf
<1>3. LockFits(entry[e], WaitersOf(e), HoldersOf(e))
  BY DEF Locks
<1> QED
  BY <1>2, <1>3 DEF LockFits

\* A holder ends its commit and lets the lock go.
LEMMA EndKeeps ==
    ASSUME TypeOK, Locks, Counts, Links, NEW c \in Calls, Holds(c),
           Leave(c, Released(entry[call[c].on]))
    PROVE  /\ Locks' /\ Counts' /\ Links'
           /\ call' \in [Calls -> CallStates]
           /\ table' \in [Keys -> Entries \cup {NoEntry}]
           /\ entry' \in [Entries -> EntryStates]
           /\ At(c, "idle")' /\ \A d \in Calls \ {c} : call'[d] = call[d]
<1>1. PICK e \in Entries : call[c].on = e
  BY DEF Links, TypeOK, CallStates
<1> DEFINE r == entry[e]
           W == WaitersOf(e)
           H == HoldersOf(e)
<1>2. LockFits(r, W, H) /\ W \in SUBSET Calls /\ c \in H /\ c \notin W
  BY <1>1 DEF Locks, WaitersOf, HoldersOf
<1> HIDE DEF r, W, H
<1>3. H = {c} /\ LockFits(Released(r), W, {})
  BY <1>2, ReleasedFits
<1>4. W \ {c} = W /\ H \ {c} = {}
  BY <1>2, <1>3
<1>5. Released(r).users = r.users
  BY <1>2 DEF Released, Wake, LockFits, EntryStates
<1>6. /\ LockFits(Released(entry[e]), WaitersOf(e) \ {c}, HoldersOf(e) \ {c})
      /\ Released(entry[e]).users = entry[e].users
  BY <1>3, <1>4, <1>5 DEF r, W, H
<1>7. Leave(c, Released(entry[e])) /\ ~At(c, "idle")
  BY <1>1
<1> QED
  BY <1>1, <1>6, <1>7, LeaveKeeps

\* A waiter ends its commit and leaves the queue.
LEMMA GiveUpKeeps ==
    ASSUME TypeOK, Locks, Counts, Links, NEW c \in Calls, At(c, "wait"),
           Leave(c, Left(entry[call[c].on], c))
    PROVE  /\ Locks' /\ Counts' /\ Links'
           /\ call' \in [Calls -> CallStates]
           /\ table' \in [Keys -> Entries \cup {NoEntry}]
           /\ entry' \in [Entries -> EntryStates]
           /\ At(c, "idle")' /\ \A d \in Calls \ {c} : call'[d] = call[d]
<1>1. PICK e \in Entries : call[c].on = e
  BY DEF Links, TypeOK, CallStates
<1> DEFINE r == entry[e]
           W == WaitersOf(e)
           H == HoldersOf(e)
<1>2. LockFits(r, W, H) /\ W \in SUBSET Calls /\ c \notin H /\ c \in W
  BY <1>1 DEF Locks, WaitersOf, HoldersOf
<1> HIDE DEF r, W, H
<1>3. LockFits(Left(r, c), W \ {c}, H)
  BY <1>2, LeftFits
<1>4. H \ {c} = H
  BY <1>2
<1>5. Left(r, c).users = r.users
  BY <1>2 DEF Left, Wake, LockFits, EntryStates
<1>6. /\ LockFits(Left(entry[e], c), WaitersOf(e) \ {c}, HoldersOf(e) \ {c})
      /\ Left(entry[e], c).users = entry[e].users
  BY <1>3, <1>4, <1>5 DEF r, W, H
<1>7. Leave(c, Left(entry[e], c)) /\ ~At(c, "idle")
  BY <1>1
<1> QED
  BY <1>1, <1>6, <1>7, LeaveKeeps

LEMMA PrepareKeeps == ASSUME Inductive, NEW c \in Calls, Prepare(c) PROVE Inductive'
<1> USE DEF Inductive
<1>1. PICK k \in Keys : source[k] \in Allowed
                        /\ call' = [call EXCEPT ![c].key = k, ![c].prepared = source[k]]
  BY DEF Prepare
<1>2. /\ call' \in [Calls -> CallStates]
      /\ call'[c].at = call[c].at /\ call'[c].on = call[c].on
      /\ \A d \in Calls \ {c} : call'[d] = call[d]
  BY <1>1 DEF TypeOK, CallStates, States
<1>3. Locks' /\ Counts' /\ Links'
  BY <1>2, LocksStay DEF Prepare
<1>4. TypeOK'
  BY <1>2 DEF Prepare, TypeOK
<1>5. Fresh'
  BY <1>2 DEF Prepare, Fresh
<1> QED
  BY <1>3, <1>4, <1>5

LEMMA EnterKeeps == ASSUME Inductive, NEW c \in Calls, Enter(c) PROVE Inductive'
<1>1. /\ Locks' /\ Counts' /\ Links'
      /\ call' \in [Calls -> CallStates]
      /\ table' \in [Keys -> Entries \cup {NoEntry}]
      /\ entry' \in [Entries -> EntryStates]
      /\ ~At(c, "mutate")' /\ \A d \in Calls \ {c} : call'[d] = call[d]
  BY EntersKeeps DEF Inductive
<1>2. UNCHANGED <<source, raced, late>>
  BY DEF Enter
<1> QED
  BY <1>1, <1>2 DEF Inductive, TypeOK, EntryStates, Fresh

LEMMA ResumeKeeps == ASSUME Inductive, NEW c \in Calls, Resume(c) PROVE Inductive'
<1>1. /\ Locks' /\ Counts' /\ Links'
      /\ call' \in [Calls -> CallStates]
      /\ entry' \in [Entries -> EntryStates]
      /\ ~At(c, "mutate")' /\ \A d \in Calls \ {c} : call'[d] = call[d]
  BY ResumesKeeps DEF Inductive
<1>2. UNCHANGED <<table, source, raced, late>>
  BY DEF Resume
<1> QED
  BY <1>1, <1>2 DEF Inductive, TypeOK, EntryStates, Fresh

LEMMA ReadKeeps == ASSUME Inductive, NEW c \in Calls, Read(c) PROVE Inductive'
<1>0. Holds(c) /\ At(c, "read") /\ raced' = raced \ {c} /\ UNCHANGED <<source, late>>
  BY DEF Read
<1>1. CASE source[call[c].key] = call[c].prepared
           /\ call' = [call EXCEPT ![c].at = "mutate"] /\ UNCHANGED <<table, entry>>
  <2>1. /\ call' \in [Calls -> CallStates]
        /\ call'[c].at = "mutate" /\ call'[c].on = call[c].on
        /\ call'[c].key = call[c].key /\ call'[c].prepared = call[c].prepared
        /\ \A d \in Calls \ {c} : call'[d] = call[d]
    BY <1>1 DEF Inductive, TypeOK, CallStates
  <2>2. Locks' /\ Counts' /\ Links'
    BY <1>0, <1>1, <2>1, LocksStay DEF Inductive
  <2>3. TypeOK' /\ Fresh'
    BY <1>0, <1>1, <2>1 DEF Inductive, TypeOK, Fresh
  <2>4. QED
    BY <2>2, <2>3 DEF Inductive
<1>2. CASE Leave(c, Released(entry[call[c].on]))
  <2>1. /\ Locks' /\ Counts' /\ Links'
        /\ call' \in [Calls -> CallStates]
        /\ table' \in [Keys -> Entries \cup {NoEntry}]
        /\ entry' \in [Entries -> EntryStates]
        /\ At(c, "idle")' /\ \A d \in Calls \ {c} : call'[d] = call[d]
    BY <1>0, <1>2, EndKeeps DEF Inductive
  <2>2. TypeOK' /\ Fresh'
    BY <1>0, <2>1 DEF Inductive, TypeOK, EntryStates, Fresh
  <2>3. QED
    BY <2>1, <2>2 DEF Inductive
<1> QED
  BY <1>1, <1>2 DEF Read

LEMMA MutateKeeps == ASSUME Inductive, NEW c \in Calls, Mutate(c) PROVE Inductive'
<1>1. Holds(c) /\ Leave(c, Released(entry[call[c].on])) /\ UNCHANGED raced
  BY DEF Mutate
<1>2. /\ Locks' /\ Counts' /\ Links'
      /\ call' \in [Calls -> CallStates]
      /\ table' \in [Keys -> Entries \cup {NoEntry}]
      /\ entry' \in [Entries -> EntryStates]
      /\ At(c, "idle")' /\ \A d \in Calls \ {c} : call'[d] = call[d]
  BY <1>1, EndKeeps DEF Inductive
<1>3. /\ source' \in [Keys -> States] /\ late' \subseteq Keys
      /\ \A k \in Keys \ {call[c].key} : source'[k] = source[k]
  BY DEF Mutate, Inductive, TypeOK, CallStates, States, Terminal
<1>4. TypeOK'
  BY <1>1, <1>2, <1>3 DEF Inductive, TypeOK, EntryStates
<1>5. Fresh'
  <2> SUFFICES ASSUME NEW d \in Calls, At(d, "mutate")'
               PROVE  source'[call'[d].key] = call'[d].prepared \/ d \in raced'
    BY DEF Fresh
  <2>1. d # c /\ call'[d] = call[d] /\ Holds(d) /\ call[d].key \in Keys
    BY <1>2 DEF Inductive, TypeOK, CallStates
  <2>2. call[d].key # call[c].key
    BY <1>1, <2>1, OneHolder DEF Inductive, Exclusion
  <2>3. QED
    BY <1>1, <1>3, <2>1, <2>2 DEF Inductive, Fresh
<1> QED
  BY <1>2, <1>4, <1>5 DEF Inductive

LEMMA CancelKeeps == ASSUME Inductive, NEW c \in Calls, Cancel(c) PROVE Inductive'
<1>0. /\ UNCHANGED <<source, raced>> /\ late' \subseteq Keys
      /\ At(c, "wait") \/ Holds(c)
  BY DEF Cancel, Inductive, TypeOK, CallStates
<1>1. /\ Locks' /\ Counts' /\ Links'
      /\ call' \in [Calls -> CallStates]
      /\ table' \in [Keys -> Entries \cup {NoEntry}]
      /\ entry' \in [Entries -> EntryStates]
      /\ At(c, "idle")' /\ \A d \in Calls \ {c} : call'[d] = call[d]
  <2>1. CASE Holds(c)
    <3>1. Leave(c, Released(entry[call[c].on]))
      BY <2>1 DEF Cancel
    <3>2. QED
      BY <2>1, <3>1, EndKeeps DEF Inductive
  <2>2. CASE At(c, "wait")
    <3>1. Leave(c, Left(entry[call[c].on], c))
      BY <2>2 DEF Cancel
    <3>2. QED
      BY <2>2, <3>1, GiveUpKeeps DEF Inductive
  <2>3. QED
    BY <1>0, <2>1, <2>2
<1> QED
  BY <1>0, <1>1 DEF Inductive, TypeOK, EntryStates, Fresh

\* Whoever changes a resource from outside races the commits that are sending.
LEMMA OutsideKeeps ==
    ASSUME Inductive, NEW k \in Keys, UNCHANGED <<table, entry, call>>,
           source' \in [Keys -> States], \A j \in Keys \ {k} : source'[j] = source[j],
           raced' = raced \cup Sending(k), late' \subseteq Keys
    PROVE  Inductive'
<1>1. Locks' /\ Counts' /\ Links'
  BY LocksStay DEF Inductive, TypeOK
<1>2. TypeOK'
  BY DEF Inductive, TypeOK, Sending
<1>3. Fresh'
  BY DEF Inductive, TypeOK, CallStates, Fresh, Sending
<1> QED
  BY <1>1, <1>2, <1>3 DEF Inductive

LEMMA StepInductive == Inductive /\ [Next]_vars => Inductive'
<1> SUFFICES ASSUME Inductive, [Next]_vars PROVE Inductive'
  OBVIOUS
<1>1. ASSUME NEW c \in Calls,
             Prepare(c) \/ Enter(c) \/ Resume(c) \/ Read(c) \/ Mutate(c) \/ Cancel(c)
      PROVE  Inductive'
  BY <1>1, PrepareKeeps, EnterKeeps, ResumeKeeps, ReadKeeps, MutateKeeps, CancelKeeps
<1>2. CASE Arrive
  <2>1. PICK k \in late : /\ late' = late \ {k}
                          /\ source' \in {source, [source EXCEPT ![k] = "done"]}
                          /\ raced' = raced \cup Sending(k)
    BY <1>2 DEF Arrive
  <2>2. /\ k \in Keys /\ late' \subseteq Keys /\ source' \in [Keys -> States]
        /\ \A j \in Keys \ {k} : source'[j] = source[j]
    BY <2>1 DEF Inductive, TypeOK, States, Terminal
  <2>3. QED
    BY <1>2, <2>1, <2>2, OutsideKeeps DEF Arrive
<1>3. CASE ForeignWrite
  <2>1. PICK k \in Keys, s \in Allowed : source' = [source EXCEPT ![k] = s]
                                         /\ raced' = raced \cup Sending(k)
    BY <1>3 DEF ForeignWrite
  <2>2. /\ late' \subseteq Keys /\ source' \in [Keys -> States]
        /\ \A j \in Keys \ {k} : source'[j] = source[j]
    BY <1>3, <2>1 DEF ForeignWrite, Inductive, TypeOK, States
  <2>3. QED
    BY <1>3, <2>1, <2>2, OutsideKeeps DEF ForeignWrite
<1>4. CASE UNCHANGED vars
  <2>1. Locks' /\ Counts' /\ Links'
    BY <1>4, LocksStay DEF vars, Inductive, TypeOK
  <2>2. QED
    BY <1>4, <2>1 DEF vars, Inductive, TypeOK, Fresh
<1> QED
  BY <1>1, <1>2, <1>3, <1>4 DEF Next

-----------------------------------------------------------------------------
(* Theorems                                                                *)

LEMMA AlwaysInductive == Spec => []Inductive
  BY InitInductive, StepInductive, PTL DEF Spec

\* The type of every variable, of any number of commits and locks.
THEOREM TypeCorrectness == Spec => []TypeOK
<1>1. Inductive => TypeOK
  BY DEF Inductive
<1> QED
  BY <1>1, AlwaysInductive, PTL

\* InMemoryActionResourceLock.hold excludes: for any number of commits, resources and
\* table sizes, no two commits of a resource are both between the fresh read and the
\* mutation, although entries are dropped and their identities used again.
THEOREM CommitsExclude == Spec => []Exclusion
<1>1. Inductive => Exclusion
  BY OneHolder DEF Inductive
<1> QED
  BY <1>1, AlwaysInductive, PTL

\* The finally block of hold keeps the table to the locks in use, with exact counts.
THEOREM TableHoldsUsedLocks == Spec => []TableIsInUse
<1>1. ASSUME Inductive, NEW k \in Keys
      PROVE  LET users == {c \in Calls : call[c].at \in UseSteps /\ call[c].key = k}
             IN  /\ users = {} <=> table[k] = NoEntry
                 /\ users # {} => /\ entry[table[k]].users = Cardinality(users)
                                  /\ \A c \in users : call[c].on = table[k]
  <2> DEFINE users == {c \in Calls : call[c].at \in UseSteps /\ call[c].key = k}
  <2>1. \A c \in users : call[c].on = table[k] /\ call[c].on \in Entries
    BY <1>1, ConstantsOK DEF Inductive, TypeOK, CallStates, Links
  <2>2. ASSUME table[k] # NoEntry PROVE users = UsersOf(table[k]) /\ users # {}
    <3>1. PICK c \in Calls : call[c].on = table[k]
      BY <1>1, <2>2 DEF Inductive, Links
    <3>2. \A d \in Calls : call[d].on = table[k] => d \in users
      BY <1>1, <2>2 DEF Inductive, TypeOK, CallStates, Links
    <3>3. users = UsersOf(table[k])
      BY <2>1, <3>2 DEF UsersOf
    <3>4. QED
      BY <3>1, <3>2, <3>3
  <2>3. users # {} => table[k] # NoEntry /\ table[k] \in Entries
    BY <2>1, ConstantsOK
  <2>4. users # {} => entry[table[k]].users = Cardinality(users)
    BY <1>1, <2>2, <2>3 DEF Inductive, Counts
  <2>5. QED
    BY <2>1, <2>2, <2>3, <2>4
<1>2. Inductive => TableIsInUse
  BY <1>1 DEF TableIsInUse
<1> QED
  BY <1>2, AlwaysInductive, PTL

\* asyncio.Lock never strands a waiter: whichever commits are cancelled while they
\* wait, are woken or hold, a free lock has woken the first of those that remain.
THEOREM NoWaiterIsStranded == Spec => []WaitersAreWoken
<1>1. Inductive => WaitersAreWoken
  BY DEF Inductive, Locks, LockFits, WaitersOf, WaitersAreWoken
<1> QED
  BY <1>1, AlwaysInductive, PTL

\* The commit recheck of _commit_local_development: a mutation changes only the
\* state its preview showed, for any interleaving of commits, cancellations,
\* abandoned requests and foreign writes that does not fall into its own gap.
THEOREM MutationsFitPreviews == Spec => AppliesToPrepared
<1> DEFINE A == \A c \in Calls : At(c, "mutate") /\ source'[call[c].key] # source[call[c].key] =>
                    source[call[c].key] = call[c].prepared \/ c \in raced
<1>1. Inductive => A
  BY DEF Inductive, Fresh
<1>2. Inductive /\ [Next]_vars => [A]_vars
  BY <1>1
<1> QED
  BY <1>2, AlwaysInductive, PTL DEF Spec, AppliesToPrepared

=============================================================================
