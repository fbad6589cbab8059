----------------------------- MODULE DomainProofs -----------------------------
(***************************************************************************)
(* Theorems about the two impact analyses and the review of domains, for   *)
(* every number of domains, every dependency graph without a cycle, every  *)
(* difference or binding, and every number of commands and edits.          *)
(***************************************************************************)
EXTENDS UsageImpact, DomainImpact, DomainReview, FiniteSetTheorems, TLAPS

-----------------------------------------------------------------------------
(* What a domain depends on *)

\* The direct dependencies are among all of them.
LEMMA AboveHolds ==
    ASSUME NEW V, NEW g \in [V -> SUBSET V], NEW d \in V
    PROVE  g[d] \subseteq Above(g, d) /\ Above(g, d) \subseteq V
BY DEF Above

\* What a dependency depends on is among them.
LEMMA AboveClosed ==
    ASSUME NEW V, NEW g \in [V -> SUBSET V], NEW d \in V
    PROVE  Closed(g, Above(g, d))
<1> SUFFICES ASSUME NEW y \in Above(g, d), NEW z \in g[y]
             PROVE  z \in Above(g, d)
  BY DEF Closed
<1>1. y \in V /\ z \in V
  BY DEF Above
<1>2. ASSUME NEW S \in SUBSET DOMAIN g, g[d] \subseteq S, Closed(g, S)
      PROVE  z \in S
  BY <1>2 DEF Above, Closed
<1> QED
  BY <1>1, <1>2 DEF Above

\* And nothing else is: they are in every closed set that has the direct ones.
LEMMA AboveLeast ==
    ASSUME NEW V, NEW g \in [V -> SUBSET V], NEW d \in V,
           NEW S \in SUBSET V, g[d] \subseteq S, Closed(g, S)
    PROVE  Above(g, d) \subseteq S
BY DEF Above

LEMMA AboveTransitive ==
    ASSUME NEW V, NEW g \in [V -> SUBSET V], NEW d \in V, NEW x \in g[d]
    PROVE  Above(g, x) \subseteq Above(g, d)
<1>1. x \in V /\ x \in Above(g, d) /\ Above(g, d) \in SUBSET V
  BY AboveHolds
<1>2. g[x] \subseteq Above(g, d)
  BY <1>1, AboveClosed DEF Closed
<1> QED
  BY <1>1, <1>2, AboveClosed, AboveLeast

-----------------------------------------------------------------------------
(* Worklists *)

\* Induction on the naturals, for a set in the place of a predicate.
LEMMA Counting ==
    ASSUME NEW S, 0 \in S, \A n \in Nat : n \in S => n + 1 \in S
    PROVE  Nat \subseteq S
<1> SUFFICES ASSUME Nat \ S # {} PROVE FALSE
  OBVIOUS
<1>1. IsWellFoundedOn(OpToRel(<, Nat), Nat)
  BY NatLessThanWellFounded
<1>2. PICK x \in Nat \ S : \A y \in Nat \ S : ~ (<<y, x>> \in OpToRel(<, Nat))
  BY <1>1, WFMin
<1>3. \A y \in Nat \ S : ~ (y < x)
  BY <1>2 DEF OpToRel
<1>4. x # 0 /\ x - 1 \in Nat /\ x - 1 < x
  OBVIOUS
<1>5. x - 1 \in S
  BY <1>3, <1>4
<1> QED
  BY <1>4, <1>5

\* A set of naturals has a least element.
LEMMA LeastOf ==
    ASSUME NEW S \in SUBSET Nat, S # {}
    PROVE  \E x \in S : \A y \in S : x <= y
<1>1. IsWellFoundedOn(OpToRel(<, Nat), Nat)
  BY NatLessThanWellFounded
<1>2. PICK x \in S : \A y \in S : ~ (<<y, x>> \in OpToRel(<, Nat))
  BY <1>1, WFMin
<1>3. \A y \in S : ~ (y < x)
  BY <1>2 DEF OpToRel
<1>4. \A y \in S : x <= y
  BY <1>3
<1> QED
  BY <1>4

\* And a finite one a greatest.
LEMMA GreatestOf ==
    ASSUME NEW n \in Nat, NEW S \in SUBSET (0 .. n), S # {}
    PROVE  \E x \in S : \A y \in S : y <= x
<1> DEFINE D == {n - y : y \in S}
<1>0. \A y \in S : n - y \in Nat
  OBVIOUS
<1>1. D \subseteq Nat /\ D # {}
  BY <1>0
<1>2. PICK m \in D : \A y \in D : m <= y
  <2> HIDE DEF D
  <2> QED
    BY <1>1, LeastOf
<1>3. PICK x \in S : m = n - x
  BY <1>2
<1>4. \A y \in S : n - x <= n - y
  BY <1>2, <1>3
<1>5. \A y \in S : y <= x
  BY <1>4
<1> QED
  BY <1>5

\* The numbers of a finite set can be put in order.
LEMMA RisingExists ==
    ASSUME NEW n \in Nat, NEW S \in SUBSET (0 .. n)
    PROVE  \E q \in [1 .. Cardinality(S) -> S] : \A i, j \in DOMAIN q : i < j => q[i] < q[j]
<1> DEFINE Rising(k, T) == \E q \in [1 .. k -> T] : \A i, j \in 1 .. k : i < j => q[i] < q[j]
           Sizes == {k \in Nat : \A T \in SUBSET (0 .. n) : Cardinality(T) = k => Rising(k, T)}
<1>1. \A T \in SUBSET (0 .. n) : IsFiniteSet(T)
  <2>1. IsFiniteSet(0 .. n)
    BY FS_Interval
  <2> QED
    BY <2>1, FS_Subset
<1>2. 0 \in Sizes
  <2>1. \A T : Rising(0, T)
    <3> TAKE T
    <3> WITNESS [i \in 1 .. 0 |-> i] \in [1 .. 0 -> T]
    <3> QED
      OBVIOUS
  <2> QED
    BY <2>1
<1>3. ASSUME NEW k \in Nat, k \in Sizes
      PROVE  k + 1 \in Sizes
  <2> SUFFICES ASSUME NEW T \in SUBSET (0 .. n), Cardinality(T) = k + 1
               PROVE  Rising(k + 1, T)
    OBVIOUS
  <2>1. T # {}
    BY FS_EmptySet
  <2>2. PICK m \in T : \A y \in T : y <= m
    BY <2>1, GreatestOf
  <2>3. Cardinality(T \ {m}) = k
    <3>1. Cardinality(T \ {m}) = Cardinality(T) - 1
      BY <1>1, FS_RemoveElement
    <3> QED
      BY <3>1
  <2>4. Rising(k, T \ {m})
    BY <1>3, <2>3
  <2>5. PICK q \in [1 .. k -> T \ {m}] : \A i, j \in 1 .. k : i < j => q[i] < q[j]
    BY <2>4
  <2> DEFINE r == [i \in 1 .. k + 1 |-> IF i = k + 1 THEN m ELSE q[i]]
  <2>6. r \in [1 .. k + 1 -> T]
    OBVIOUS
  <2>7. ASSUME NEW i \in 1 .. k + 1, NEW j \in 1 .. k + 1, i < j
        PROVE  r[i] < r[j]
    <3>1. i \in 1 .. k /\ r[i] = q[i] /\ q[i] \in T \ {m}
      BY <2>7
    <3>2. CASE j = k + 1
      <4>1. r[j] = m
        BY <3>2
      <4>2. q[i] <= m /\ q[i] # m
        BY <2>2, <3>1
      <4>3. q[i] \in 0 .. n /\ m \in 0 .. n
        BY <3>1
      <4> HIDE DEF r
      <4> QED
        BY <3>1, <4>1, <4>2, <4>3
    <3>3. CASE j # k + 1
      BY <2>5, <2>7, <3>1, <3>3
    <3> QED
      BY <3>2, <3>3
  <2> HIDE DEF r
  <2> QED
    BY <2>6, <2>7
<1>4. Cardinality(S) \in Nat
  BY <1>1, FS_CardinalityType
<1>5. Nat \subseteq Sizes
  <2> HIDE DEF Sizes
  <2> QED
    BY <1>2, <1>3, Counting
<1>6. Rising(Cardinality(S), S)
  BY <1>4, <1>5
<1>7. PICK q \in [1 .. Cardinality(S) -> S] :
          \A i, j \in 1 .. Cardinality(S) : i < j => q[i] < q[j]
  BY <1>6
<1>8. DOMAIN q = 1 .. Cardinality(S)
  OBVIOUS
<1> QED
  BY <1>7, <1>8

\* The elements of a worklist.
Queued(q) == {q[i] : i \in DOMAIN q}

\* sorted() leaves nothing out and adds nothing.
LEMMA AscendingQueues ==
    ASSUME NEW n \in Nat, NEW S \in SUBSET (1 .. n)
    PROVE  Ascending(S) \in Seq(1 .. n) /\ Queued(Ascending(S)) = S
<1> DEFINE c == Cardinality(S)
           q == Ascending(S)
<1>1. S \in SUBSET (0 .. n)
  OBVIOUS
<1>2. IsFiniteSet(S) /\ c \in Nat
  <2>1. IsFiniteSet(1 .. n)
    BY FS_Interval
  <2> QED
    BY <2>1, FS_Subset, FS_CardinalityType
<1>3. q \in [1 .. c -> S] /\ \A i, j \in DOMAIN q : i < j => q[i] < q[j]
  BY <1>1, RisingExists DEF Ascending
<1> HIDE DEF q
<1>4. \A i, j \in 1 .. c : i # j => q[i] # q[j]
  <2> SUFFICES ASSUME NEW i \in 1 .. c, NEW j \in 1 .. c, i # j
               PROVE  q[i] # q[j]
    OBVIOUS
  <2>1. i < j \/ j < i
    BY <1>2
  <2>2. q[i] \in 0 .. n /\ q[j] \in 0 .. n
    <3>1. q[i] \in S /\ q[j] \in S
      BY <1>3
    <3> QED
      BY <1>1, <3>1
  <2> QED
    BY <1>3, <2>1, <2>2
<1>5. q \in Injection(1 .. c, S)
  BY <1>3, <1>4 DEF Injection, IsInjective
<1>6. Cardinality(1 .. c) = c
  BY <1>2, FS_Interval
<1>7. q \in Surjection(1 .. c, S)
  BY <1>2, <1>5, <1>6, FS_Injection
<1>8. Queued(q) = S
  BY <1>3, <1>7 DEF Surjection, Queued
<1>9. q \in Seq(1 .. n)
  <2>1. q \in [1 .. c -> 1 .. n]
    BY <1>3
  <2> QED
    BY <1>2, <2>1
<1> QED
  BY <1>8, <1>9 DEF q

\* A worklist without its head, and with more at its end.
LEMMA HeadAndTail ==
    ASSUME NEW V, NEW q \in Seq(V), q # <<>>
    PROVE  /\ Head(q) \in V /\ Tail(q) \in Seq(V)
           /\ Queued(q) = {Head(q)} \cup Queued(Tail(q))
<1>1. Head(q) = q[1] /\ Tail(q) \in Seq(V) /\ Len(q) \in Nat /\ Len(q) # 0
      /\ Len(Tail(q)) = Len(q) - 1
      /\ \A i \in 1 .. Len(q) - 1 : Tail(q)[i] = q[i + 1]
  OBVIOUS
<1>2. DOMAIN q = 1 .. Len(q) /\ DOMAIN Tail(q) = 1 .. Len(q) - 1
  BY <1>1
<1>3. q[1] \in V
  BY <1>1
<1>4. \A i \in 1 .. Len(q) : i = 1 \/ (i - 1 \in 1 .. Len(q) - 1 /\ Tail(q)[i - 1] = q[i])
  BY <1>1
<1>5. \A i \in 1 .. Len(q) - 1 : i + 1 \in 1 .. Len(q)
  BY <1>1
<1>6. \A x : x \in Queued(q) <=> x = q[1] \/ x \in Queued(Tail(q))
  <2> TAKE x
  <2>1. ASSUME NEW i \in 1 .. Len(q), x = q[i]
        PROVE  x = q[1] \/ x \in Queued(Tail(q))
    BY <1>2, <1>4, <2>1 DEF Queued
  <2>2. ASSUME NEW i \in 1 .. Len(q) - 1, x = Tail(q)[i]
        PROVE  x \in Queued(q)
    BY <1>1, <1>2, <1>5, <2>2 DEF Queued
  <2>3. 1 \in 1 .. Len(q)
    BY <1>1
  <2>4. q[1] \in Queued(q)
    BY <1>2, <2>3 DEF Queued
  <2> QED
    BY <1>2, <2>1, <2>2, <2>4 DEF Queued
<1> QED
  BY <1>1, <1>3, <1>6

LEMMA Extended ==
    ASSUME NEW V, NEW p \in Seq(V), NEW q \in Seq(V), NEW r, r = p \o q
    PROVE  r \in Seq(V) /\ \A x : x \in Queued(r) <=> x \in Queued(p) \/ x \in Queued(q)
<1>1. /\ p \o q \in Seq(V) /\ Len(p \o q) = Len(p) + Len(q)
      /\ Len(p) \in Nat /\ Len(q) \in Nat
      /\ \A i \in 1 .. Len(p) : (p \o q)[i] = p[i]
      /\ \A i \in 1 .. Len(q) : (p \o q)[Len(p) + i] = q[i]
  OBVIOUS
<1>2. DOMAIN (p \o q) = 1 .. Len(p) + Len(q) /\ DOMAIN p = 1 .. Len(p) /\ DOMAIN q = 1 .. Len(q)
  BY <1>1
<1>3. \A i \in 1 .. Len(p) + Len(q) :
          i \in 1 .. Len(p) \/ (i - Len(p) \in 1 .. Len(q) /\ (p \o q)[i] = q[i - Len(p)])
  <2> TAKE i \in 1 .. Len(p) + Len(q)
  <2>1. i \in 1 .. Len(p) \/ i - Len(p) \in 1 .. Len(q)
    BY <1>1
  <2>2. i = Len(p) + (i - Len(p))
    BY <1>1
  <2> QED
    BY <1>1, <2>1, <2>2
<1>4. /\ \A i \in 1 .. Len(p) : i \in 1 .. Len(p) + Len(q)
      /\ \A i \in 1 .. Len(q) : Len(p) + i \in 1 .. Len(p) + Len(q)
  BY <1>1
<1>5. \A x : x \in Queued(p \o q) <=> x \in Queued(p) \/ x \in Queued(q)
  <2> TAKE x
  <2>1. ASSUME NEW i \in 1 .. Len(p) + Len(q), x = (p \o q)[i]
        PROVE  x \in Queued(p) \/ x \in Queued(q)
    BY <1>1, <1>2, <1>3, <2>1 DEF Queued
  <2>2. ASSUME NEW i \in 1 .. Len(p), x = p[i]
        PROVE  x \in Queued(p \o q)
    BY <1>1, <1>2, <1>4, <2>2 DEF Queued
  <2>3. ASSUME NEW i \in 1 .. Len(q), x = q[i]
        PROVE  x \in Queued(p \o q)
    BY <1>1, <1>2, <1>4, <2>3 DEF Queued
  <2> QED
    BY <1>2, <2>1, <2>2, <2>3 DEF Queued
<1> QED
  BY <1>1, <1>5

-----------------------------------------------------------------------------
(* The impact analysis of a Usage project *)

ImpactTyped ==
    /\ deps \in [Ids -> SUBSET Ids]
    /\ status \in [Ids -> Unaffected .. Blocked]
    /\ upstream \in [Ids -> SUBSET Ids]
    /\ worklist \in Seq(Ids)

\* No status is made up, no upstream domain is unaffected, and what has been handled has
\* reached its dependents.
ImpactGrounded ==
    \A d \in Ids :
        /\ DirectStatus(d) <= status[d]
        /\ \E x \in Above(deps, d) \cup {d} : DirectStatus(x) = status[d]
        /\ \A x \in upstream[d] : x \in Above(deps, d) /\ status[x] # Unaffected

ImpactPassedOn ==
    \A d \in Ids : \A x \in deps[d] :
        \/ x \in Queued(worklist) \/ status[x] = Unaffected
        \/ (status[x] <= status[d] /\ x \in upstream[d])

ImpactInv == ImpactTyped /\ ImpactGrounded /\ ImpactPassedOn


LEMMA DirectTyped ==
    ASSUME NEW d \in Ids
    PROVE  DirectStatus(d) \in Unaffected .. Blocked
BY DEF DirectStatus, AtLeast, OfReason, OfTool, Unaffected, Revalidate, Regenerate, Blocked

LEMMA ImpactStarts ==
    ASSUME ImpactInit
    PROVE  ImpactInv
<1>1. worklist \in Seq(Ids) /\ Queued(worklist) = Ids
  BY DomainsAreCounted DEF ImpactInit, Queued, Ids
<1>2. ImpactTyped
  BY <1>1, DirectTyped DEF ImpactInit, ImpactTyped
<1>3. ImpactGrounded
  BY DirectTyped DEF ImpactInit, ImpactGrounded, Unaffected, Blocked
<1>4. ImpactPassedOn
  BY <1>1 DEF ImpactInit, ImpactPassedOn
<1> QED
  BY <1>2, <1>3, <1>4 DEF ImpactInv

\* What has no status has nothing to pass on.
LEMMA SkipKeeps ==
    ASSUME ImpactInv, Skip
    PROVE  ImpactInv'
<1>1. /\ Head(worklist) \in Ids /\ worklist' \in Seq(Ids)
      /\ Queued(worklist) = {Head(worklist)} \cup Queued(worklist')
  BY HeadAndTail DEF ImpactInv, ImpactTyped, Skip
<1>2. UNCHANGED <<deps, reason, shared, status, upstream>> /\ status[Head(worklist)] = Unaffected
  BY DEF Skip
<1>3. ImpactTyped'
  BY <1>1, <1>2 DEF ImpactInv, ImpactTyped
<1>4. ImpactGrounded'
  BY <1>2 DEF ImpactInv, ImpactGrounded, DirectStatus
<1>5. ImpactPassedOn'
  BY <1>1, <1>2 DEF ImpactInv, ImpactPassedOn
<1> QED
  BY <1>3, <1>4, <1>5 DEF ImpactInv

\* The head reaches its dependents; those that rise come back into the worklist.
LEMMA RaiseKeeps ==
    ASSUME ImpactInv, Raise
    PROVE  ImpactInv'
<1> DEFINE changed == Head(worklist)
           raised  == [d \in Ids |-> IF changed \in deps[d] THEN AtLeast(status[d], status[changed])
                                                            ELSE status[d]]
<1>1. /\ changed \in Ids /\ Tail(worklist) \in Seq(Ids)
      /\ Queued(worklist) = {changed} \cup Queued(Tail(worklist))
  BY HeadAndTail DEF ImpactInv, ImpactTyped, Raise
<1>2. /\ UNCHANGED <<deps, reason, shared>> /\ status[changed] # Unaffected
      /\ status' = raised
      /\ upstream' = [d \in Ids |-> IF changed \in deps[d]
                                    THEN upstream[d] \cup {changed} \cup upstream[changed]
                                    ELSE upstream[d]]
      /\ worklist' = Tail(worklist) \o Ascending(Again(changed, raised))
  BY DEF Raise
<1> HIDE DEF changed
<1>3. Again(changed, raised) = {d \in Ids : changed \in deps[d] /\ raised[d] # status[d]}
  BY DEF Again
<1> DEFINE again == Ascending(Again(changed, raised))
<1>4. again \in Seq(Ids) /\ Queued(again) = Again(changed, raised)
  <2>1. Again(changed, raised) \in SUBSET (1 .. NDomains)
    BY <1>3 DEF Ids
  <2> QED
    BY <2>1, DomainsAreCounted, AscendingQueues DEF Ids
<1>5. worklist' \in Seq(Ids) /\ Queued(worklist') = Queued(Tail(worklist)) \cup Again(changed, raised)
  <2>1. worklist' = Tail(worklist) \o again
    BY <1>2
  <2>2. Tail(worklist) \in Seq(Ids) /\ again \in Seq(Ids)
    BY <1>1, <1>4
  <2> HIDE DEF again, raised
  <2>3. \A x : x \in Queued(worklist') <=> x \in Queued(Tail(worklist)) \/ x \in Queued(again)
    BY <2>1, <2>2, Extended
  <2>4. worklist' \in Seq(Ids)
    BY <2>1, <2>2
  <2> QED
    BY <1>4, <2>3, <2>4
<1>6. status \in [Ids -> Unaffected .. Blocked] /\ upstream \in [Ids -> SUBSET Ids]
      /\ deps \in [Ids -> SUBSET Ids]
  BY DEF ImpactInv, ImpactTyped
<1>7. \A d \in Ids : status'[d] \in {status[d], status[changed]} /\ status[d] <= status'[d]
  <2> SUFFICES ASSUME NEW d \in Ids
               PROVE  status'[d] \in {status[d], status[changed]} /\ status[d] <= status'[d]
    OBVIOUS
  <2>1. status[d] \in 0 .. 3 /\ status[changed] \in 0 .. 3
    BY <1>1, <1>6 DEF Unaffected, Blocked
  <2>2. status'[d] = IF changed \in deps[d] THEN AtLeast(status[d], status[changed]) ELSE status[d]
    BY <1>2
  <2> QED
    BY <2>1, <2>2 DEF AtLeast
<1>8. \A d \in Ids : changed \in deps[d] => status[changed] <= status'[d]
  BY <1>1, <1>2, <1>6 DEF AtLeast, Unaffected, Blocked
<1>9. status'[changed] = status[changed]
  BY <1>1, <1>7
<1>10. \A d \in Ids : status'[d] # status[d] => changed \in deps[d] /\ d \in Queued(worklist')
  BY <1>2, <1>3, <1>5, <1>6
<1>11. ImpactTyped'
  BY <1>1, <1>2, <1>5, <1>6 DEF ImpactTyped, AtLeast
<1>12. ImpactGrounded'
  <2> SUFFICES ASSUME NEW d \in Ids
               PROVE  /\ DirectStatus(d)' <= status'[d]
                      /\ \E x \in Above(deps, d) \cup {d} : DirectStatus(x)' = status'[d]
                      /\ \A x \in upstream'[d] : x \in Above(deps, d) /\ status'[x] # Unaffected
    BY <1>2 DEF ImpactGrounded
  <2>1. \A x : DirectStatus(x)' = DirectStatus(x)
    BY <1>2 DEF DirectStatus
  <2>2. DirectStatus(d)' <= status'[d]
    <3>1. DirectStatus(d) <= status[d] /\ DirectStatus(d) \in 0 .. 3
      BY DirectTyped DEF ImpactInv, ImpactGrounded, Unaffected, Blocked
    <3>2. status[d] \in 0 .. 3 /\ status'[d] \in 0 .. 3
      BY <1>6, <1>11 DEF ImpactTyped, Unaffected, Blocked
    <3> QED
      BY <1>7, <2>1, <3>1, <3>2
  <2>3. changed \in deps[d] => changed \in Above(deps, d) /\ Above(deps, changed) \subseteq Above(deps, d)
    BY <1>6, AboveHolds, AboveTransitive
  <2>4. \E x \in Above(deps, d) \cup {d} : DirectStatus(x) = status'[d]
    <3>1. CASE status'[d] = status[d]
      BY <3>1 DEF ImpactInv, ImpactGrounded
    <3>2. CASE status'[d] # status[d]
      <4>1. changed \in deps[d] /\ status'[d] = status[changed]
        BY <1>7, <1>10, <3>2
      <4>2. PICK x \in Above(deps, changed) \cup {changed} : DirectStatus(x) = status[changed]
        BY <1>1 DEF ImpactInv, ImpactGrounded
      <4> QED
        BY <2>3, <4>1, <4>2
    <3> QED
      BY <3>1, <3>2
  <2>5. \A x \in upstream'[d] : x \in Above(deps, d) /\ status[x] # Unaffected
    <3>1. \A x \in upstream[d] : x \in Above(deps, d) /\ status[x] # Unaffected
      BY DEF ImpactInv, ImpactGrounded
    <3>2. \A x \in upstream[changed] : x \in Above(deps, changed) /\ status[x] # Unaffected
      BY <1>1 DEF ImpactInv, ImpactGrounded
    <3> QED
      BY <1>2, <2>3, <3>1, <3>2
  <2>6. \A x \in upstream'[d] : x \in Ids /\ status'[x] # Unaffected
    <3> SUFFICES ASSUME NEW x \in upstream'[d]
                 PROVE  x \in Ids /\ status'[x] # Unaffected
      OBVIOUS
    <3>1. x \in Ids
      BY <1>6, <2>5, AboveHolds
    <3>2. status[x] # Unaffected /\ status[x] <= status'[x] /\ status[x] \in Unaffected .. Blocked
          /\ status'[x] \in {status[x], status[changed]}
      BY <1>6, <1>7, <2>5, <3>1
    <3> QED
      BY <1>2, <3>1, <3>2
  <2> QED
    BY <2>1, <2>2, <2>4, <2>5, <2>6
<1>13. ImpactPassedOn'
  <2> SUFFICES ASSUME NEW d \in Ids, NEW x \in deps[d], x \notin Queued(worklist'),
                      status'[x] # Unaffected
               PROVE  status'[x] <= status'[d] /\ x \in upstream'[d]
    BY <1>2 DEF ImpactPassedOn
  <2>1. x \in Ids /\ status'[x] = status[x]
    BY <1>6, <1>10
  <2>2. upstream[d] \subseteq upstream'[d]
    BY <1>2
  <2>3. CASE x = changed
    BY <1>2, <1>8, <2>1, <2>3
  <2>4. CASE x # changed
    <3>1. x \notin Queued(worklist)
      BY <1>1, <1>5, <2>4
    <3>2. status[x] <= status[d] /\ x \in upstream[d]
      BY <2>1, <3>1 DEF ImpactInv, ImpactPassedOn
    <3>3. status[d] <= status'[d] /\ status[x] \in Nat /\ status[d] \in Nat /\ status'[d] \in Nat
      BY <1>1, <1>6, <1>7, <2>1 DEF Unaffected, Blocked
    <3> QED
      BY <2>1, <2>2, <3>2, <3>3
  <2> QED
    BY <2>3, <2>4
<1> QED
  BY <1>11, <1>12, <1>13 DEF ImpactInv

\* What has the status of all it depends on at least, is closed under dependencies.
LEMMA PassedOnIsClosed ==
    ASSUME ImpactInv
    PROVE  ImpactIsClosed
<1> SUFFICES ASSUME worklist = <<>>, NEW d \in Ids
             PROVE  /\ \A x \in Above(deps, d) \cup {d} : DirectStatus(x) <= status[d]
                    /\ \E x \in Above(deps, d) \cup {d} : DirectStatus(x) = status[d]
                    /\ {x \in deps[d] : status[x] # Unaffected} \subseteq upstream[d]
                    /\ \A x \in upstream[d] : x \in Above(deps, d) /\ status[x] # Unaffected
  BY DEF ImpactIsClosed
<1>1. deps \in [Ids -> SUBSET Ids] /\ status \in [Ids -> Unaffected .. Blocked]
  BY DEF ImpactInv, ImpactTyped
<1>2. Queued(worklist) = {}
  BY DEF Queued
<1>3. \A y \in Ids : \A x \in deps[y] :
          status[x] = Unaffected \/ (status[x] <= status[y] /\ x \in upstream[y])
  BY <1>2 DEF ImpactInv, ImpactPassedOn
<1> DEFINE S == {x \in Ids : status[x] <= status[d]}
<1>4. \A y \in Ids : \A x \in deps[y] : x \in Ids /\ status[x] <= status[y]
  <2> SUFFICES ASSUME NEW y \in Ids, NEW x \in deps[y]
               PROVE  x \in Ids /\ status[x] <= status[y]
    OBVIOUS
  <2>1. x \in Ids
    BY <1>1
  <2>2. status[x] \in 0 .. 3 /\ status[y] \in 0 .. 3
    BY <1>1, <2>1 DEF Unaffected, Blocked
  <2> QED
    BY <1>3, <2>1, <2>2 DEF Unaffected
<1>5. \A x \in Ids : status[x] \in Nat
  BY <1>1 DEF Unaffected, Blocked
<1>6. deps[d] \subseteq S /\ S \in SUBSET Ids
  BY <1>4
<1>7. Closed(deps, S)
  BY <1>4, <1>5 DEF Closed
<1>8. Above(deps, d) \subseteq S
  <2> HIDE DEF S
  <2> QED
    BY <1>1, <1>6, <1>7, AboveLeast
<1>9. \A x \in Above(deps, d) \cup {d} : DirectStatus(x) <= status[d]
  <2> SUFFICES ASSUME NEW x \in Above(deps, d) \cup {d}
               PROVE  DirectStatus(x) <= status[d]
    OBVIOUS
  <2>1. x \in Ids /\ status[x] <= status[d]
    BY <1>5, <1>8
  <2>2. DirectStatus(x) <= status[x] /\ DirectStatus(x) \in 0 .. 3
    BY <2>1, DirectTyped DEF ImpactInv, ImpactGrounded, Unaffected, Blocked
  <2> QED
    BY <1>5, <2>1, <2>2
<1> QED
  BY <1>3, <1>9 DEF ImpactInv, ImpactGrounded

\* Whatever the order in which the worklist takes the domains up, a domain ends as stale
\* as the stalest it depends on at any distance, and with the upstream that says why.
THEOREM ImpactsAreClosed == ImpactSpec => []ImpactIsClosed
<1>1. ImpactInit => ImpactInv
  BY ImpactStarts
<1>2. ImpactInv /\ [ImpactNext]_impactVars => ImpactInv'
  <2> SUFFICES ASSUME ImpactInv, [ImpactNext]_impactVars
               PROVE  ImpactInv'
    OBVIOUS
  <2>1. CASE UNCHANGED impactVars
    <3>1. UNCHANGED <<deps, reason, shared, status, upstream, worklist>>
      BY <2>1 DEF impactVars
    <3>2. \A d : DirectStatus(d)' = DirectStatus(d)
      BY <3>1 DEF DirectStatus
    <3> QED
      BY <3>1, <3>2 DEF ImpactInv, ImpactTyped, ImpactGrounded, ImpactPassedOn
  <2>2. CASE Skip
    BY <2>2, SkipKeeps
  <2>3. CASE Raise
    BY <2>3, RaiseKeeps
  <2> QED
    BY <2>1, <2>2, <2>3 DEF ImpactNext, Reported
<1>3. ImpactInv => ImpactIsClosed
  BY PassedOnIsClosed
<1> QED
  BY <1>1, <1>2, <1>3, PTL DEF ImpactSpec
-----------------------------------------------------------------------------
(* The impact analysis of the domain map *)

Axes == [of : MappedIds, through : {"claim", "dependency"}]
AxesOf(d) == {axis.of : axis \in impacts[d].axes}
Reach(d) == Above(graph, d) \cup {d}

ReachTyped ==
    /\ graph \in [MappedIds -> SUBSET MappedIds] /\ Acyclic(graph)
    /\ hit \in [MappedIds -> Bindings]
    /\ impacts \in [MappedIds -> [direct : BOOLEAN, upstream : SUBSET MappedIds,
                                  evidence : SUBSET MappedIds, candidates : SUBSET Candidates,
                                  axes : SUBSET Axes]]
    /\ agenda \in Seq(MappedIds)

\* A domain carries only what reaches it, and carries something once it is affected.
ReachGrounded ==
    /\ Queued(agenda) \subseteq Affected(impacts)
    /\ \A d \in MappedIds :
          /\ impacts[d].direct <=> d \in Changed
          /\ d \in Changed => d \in impacts[d].evidence
          /\ impacts[d].evidence \subseteq Reach(d) \cap Changed
          /\ d \in Affected(impacts) => impacts[d].evidence # {}
          /\ impacts[d].upstream \subseteq Above(graph, d) \cap Affected(impacts)
          /\ SecurityRelevant(hit[d]) => d \in AxesOf(d)
          /\ \A axis \in impacts[d].axes :
                /\ axis.of \in Reach(d) /\ SecurityRelevant(hit[axis.of])
                /\ axis.through = "claim" <=> axis.of = d

\* What has been handled has reached its dependents.
ReachPassedOn ==
    \A d \in MappedIds : \A x \in graph[d] :
        \/ x \in Queued(agenda)
        \/ x \notin Affected(impacts)
        \/ /\ x \in impacts[d].upstream
           /\ impacts[x].upstream \subseteq impacts[d].upstream
           /\ impacts[x].evidence \subseteq impacts[d].evidence
           /\ AxesOf(x) \subseteq AxesOf(d)

ReachInv == ReachTyped /\ ReachGrounded /\ ReachPassedOn


\* What evidence does to the domain it is bound to.
LEMMA DirectImpactTyped ==
    ASSUME NEW d \in MappedIds
    PROVE  /\ DirectImpact(d) \in [direct : BOOLEAN, upstream : SUBSET MappedIds,
                                   evidence : SUBSET MappedIds, candidates : SUBSET Candidates,
                                   axes : SUBSET Axes]
           /\ DirectImpact(d) # Untouched <=> d \in Changed
           /\ DirectImpact(d).direct <=> d \in Changed
           /\ DirectImpact(d).upstream = {}
           /\ DirectImpact(d).evidence = {x \in {d} : x \in Changed}
           /\ SecurityRelevant(hit[d]) => d \in Changed
           /\ \A axis \in DirectImpact(d).axes :
                 SecurityRelevant(hit[d]) /\ axis.of = d /\ axis.through = "claim"
           /\ SecurityRelevant(hit[d]) => [of |-> d, through |-> "claim"] \in DirectImpact(d).axes
<1> DEFINE axes == IF SecurityRelevant(hit[d]) THEN {[of |-> d, through |-> "claim"]} ELSE {}
<1>1. CASE hit[d] = "none"
  <2>1. DirectImpact(d) = Untouched /\ d \notin Changed /\ ~ SecurityRelevant(hit[d])
    BY <1>1 DEF DirectImpact, Changed, SecurityRelevant
  <2> QED
    BY <2>1 DEF Untouched
<1>2. CASE hit[d] # "none"
  <2>1. PICK c \in SUBSET Candidates :
            DirectImpact(d) = [direct |-> TRUE, upstream |-> {}, evidence |-> {d}, candidates |-> c,
                               axes |-> axes]
    BY <1>2 DEF DirectImpact, Candidates
  <2>2. axes \in SUBSET Axes /\ (SecurityRelevant(hit[d]) => [of |-> d, through |-> "claim"] \in axes)
        /\ \A axis \in axes : SecurityRelevant(hit[d]) /\ axis.of = d /\ axis.through = "claim"
    BY DEF Axes
  <2>3. d \in Changed
    BY <1>2 DEF Changed
  <2> HIDE DEF axes
  <2>4. /\ DirectImpact(d).direct = TRUE /\ DirectImpact(d).upstream = {}
        /\ DirectImpact(d).evidence = {d} /\ DirectImpact(d).axes = axes
    BY <2>1
  <2>5. DirectImpact(d) # Untouched
    BY <2>4 DEF Untouched
  <2>6. DirectImpact(d) \in [direct : BOOLEAN, upstream : SUBSET MappedIds,
                             evidence : SUBSET MappedIds, candidates : SUBSET Candidates,
                             axes : SUBSET Axes]
    BY <2>1, <2>2
  <2> QED
    BY <2>2, <2>3, <2>4, <2>5, <2>6
<1> QED
  BY <1>1, <1>2

LEMMA ReachStarts ==
    ASSUME ReachInit
    PROVE  ReachInv
<1>1. /\ graph \in [MappedIds -> SUBSET MappedIds] /\ Acyclic(graph)
      /\ hit \in [MappedIds -> Bindings]
      /\ impacts = [d \in MappedIds |-> DirectImpact(d)]
      /\ agenda = Ascending(Affected(impacts))
  BY DEF ReachInit
<1>2. agenda \in Seq(MappedIds) /\ Queued(agenda) = Affected(impacts)
  <2>1. Affected(impacts) \in SUBSET (1 .. NMapped)
    BY DEF Affected, MappedIds
  <2> QED
    BY <1>1, <2>1, MappedAreCounted, AscendingQueues DEF MappedIds
<1>3. ReachTyped
  BY <1>1, <1>2, DirectImpactTyped DEF ReachTyped
<1>4. \A d \in MappedIds : SecurityRelevant(hit[d]) => d \in AxesOf(d)
  <2> SUFFICES ASSUME NEW d \in MappedIds, SecurityRelevant(hit[d])
               PROVE  \E axis \in impacts[d].axes : axis.of = d
    BY DEF AxesOf
  <2>1. [of |-> d, through |-> "claim"] \in impacts[d].axes
    BY <1>1, DirectImpactTyped
  <2> QED
    BY <2>1
<1>5. ReachGrounded
  <2> SUFFICES ASSUME NEW d \in MappedIds
               PROVE  /\ impacts[d].direct <=> d \in Changed
                      /\ d \in Changed => d \in impacts[d].evidence
                      /\ impacts[d].evidence \subseteq Reach(d) \cap Changed
                      /\ d \in Affected(impacts) => impacts[d].evidence # {}
                      /\ impacts[d].upstream \subseteq Above(graph, d) \cap Affected(impacts)
                      /\ SecurityRelevant(hit[d]) => d \in AxesOf(d)
                      /\ \A axis \in impacts[d].axes :
                            /\ axis.of \in Reach(d) /\ SecurityRelevant(hit[axis.of])
                            /\ axis.through = "claim" <=> axis.of = d
    BY <1>2 DEF ReachGrounded
  <2>1. impacts[d] = DirectImpact(d)
    BY <1>1
  <2>2. d \in Affected(impacts) => d \in Changed
    BY <2>1, DirectImpactTyped DEF Affected
  <2>3. \A axis \in impacts[d].axes :
            axis.of = d /\ SecurityRelevant(hit[d]) /\ axis.through = "claim"
    BY <2>1, DirectImpactTyped
  <2>4. \A axis \in impacts[d].axes :
            /\ axis.of \in Reach(d) /\ SecurityRelevant(hit[axis.of])
            /\ axis.through = "claim" <=> axis.of = d
    BY <2>3 DEF Reach
  <2>5. impacts[d].direct <=> d \in Changed
    BY <2>1, DirectImpactTyped
  <2>6. impacts[d].upstream = {} /\ impacts[d].evidence = {x \in {d} : x \in Changed}
    BY <2>1, DirectImpactTyped
  <2>7. impacts[d].evidence \subseteq Reach(d) \cap Changed
    BY <2>6 DEF Reach
  <2> QED
    BY <1>4, <2>2, <2>4, <2>5, <2>6, <2>7
<1>6. ReachPassedOn
  BY <1>1, <1>2 DEF ReachPassedOn
<1> QED
  BY <1>3, <1>5, <1>6 DEF ReachInv

\* The head reaches its dependents; those that change come back into the worklist.
LEMMA PropagateKeeps ==
    ASSUME ReachInv, Propagate
    PROVE  ReachInv'
<1> DEFINE changed == Head(agenda)
           found == [d \in MappedIds |->
                        IF changed \in graph[d] THEN Inherit(d, changed) ELSE impacts[d]]
<1>1. /\ changed \in MappedIds /\ Tail(agenda) \in Seq(MappedIds)
      /\ Queued(agenda) = {changed} \cup Queued(Tail(agenda))
  BY HeadAndTail DEF ReachInv, ReachTyped, Propagate
<1>2. /\ UNCHANGED <<graph, hit>> /\ impacts' = found
      /\ agenda' = Tail(agenda) \o Ascending(Grown(found))
  BY DEF Propagate
<1>3. Grown(found) = {d \in MappedIds : found[d] # impacts[d]}
  BY DEF Grown
<1>4. /\ graph \in [MappedIds -> SUBSET MappedIds] /\ Acyclic(graph)
      /\ impacts \in [MappedIds -> [direct : BOOLEAN, upstream : SUBSET MappedIds,
                                    evidence : SUBSET MappedIds, candidates : SUBSET Candidates,
                                    axes : SUBSET Axes]]
  BY DEF ReachInv, ReachTyped
<1> HIDE DEF changed
<1> DEFINE again == Ascending(Grown(found))
<1>5. again \in Seq(MappedIds) /\ Queued(again) = Grown(found)
  <2>1. Grown(found) \in SUBSET (1 .. NMapped)
    BY <1>3 DEF MappedIds
  <2> QED
    BY <2>1, MappedAreCounted, AscendingQueues DEF MappedIds
<1>6. /\ agenda' \in Seq(MappedIds)
      /\ \A x : x \in Queued(agenda') <=> x \in Queued(Tail(agenda)) \/ x \in Grown(found)
  <2>1. agenda' = Tail(agenda) \o again
    BY <1>2
  <2>2. Tail(agenda) \in Seq(MappedIds) /\ again \in Seq(MappedIds)
    BY <1>1, <1>5
  <2> HIDE DEF again, found
  <2>3. \A x : x \in Queued(agenda') <=> x \in Queued(Tail(agenda)) \/ x \in Queued(again)
    BY <2>1, <2>2, Extended
  <2>4. agenda' \in Seq(MappedIds)
    BY <2>1, <2>2
  <2> QED
    BY <1>5, <2>3, <2>4
<1> HIDE DEF again
\* What a dependent of the head carries now.
<1>7. ASSUME NEW d \in MappedIds, changed \in graph[d]
      PROVE  /\ impacts'[d] \in [direct : BOOLEAN, upstream : SUBSET MappedIds,
                                 evidence : SUBSET MappedIds, candidates : SUBSET Candidates,
                                 axes : SUBSET Axes]
             /\ impacts'[d].direct = impacts[d].direct
             /\ impacts'[d].upstream = impacts[d].upstream \cup {changed} \cup impacts[changed].upstream
             /\ impacts'[d].evidence = impacts[d].evidence \cup impacts[changed].evidence
             /\ impacts'[d].axes = impacts[d].axes \cup
                    {[of |-> axis.of, through |-> "dependency"] : axis \in impacts[changed].axes}
  <2>1. impacts'[d] = Inherit(d, changed)
    BY <1>2, <1>7
  <2>2. /\ impacts[d] \in [direct : BOOLEAN, upstream : SUBSET MappedIds,
                           evidence : SUBSET MappedIds, candidates : SUBSET Candidates,
                           axes : SUBSET Axes]
        /\ impacts[changed] \in [direct : BOOLEAN, upstream : SUBSET MappedIds,
                                 evidence : SUBSET MappedIds, candidates : SUBSET Candidates,
                                 axes : SUBSET Axes]
    BY <1>1, <1>4
  <2> DEFINE taken == {[of |-> axis.of, through |-> "dependency"] : axis \in impacts[changed].axes}
  <2>3. taken \in SUBSET Axes
    BY <2>2 DEF Axes
  <2>4. Inherit(d, changed) =
            [impacts[d] EXCEPT
                !.candidates = IF impacts[d] = Untouched THEN Candidates ELSE @,
                !.upstream   = @ \cup {changed} \cup impacts[changed].upstream,
                !.evidence   = @ \cup impacts[changed].evidence,
                !.axes       = @ \cup taken]
    BY DEF Inherit
  <2> HIDE DEF taken
  <2>5. PICK c \in SUBSET Candidates :
            Inherit(d, changed) =
                [direct     |-> impacts[d].direct,
                 upstream   |-> impacts[d].upstream \cup {changed} \cup impacts[changed].upstream,
                 evidence   |-> impacts[d].evidence \cup impacts[changed].evidence,
                 candidates |-> c,
                 axes       |-> impacts[d].axes \cup taken]
    BY <2>2, <2>4
  <2>6. /\ impacts'[d].direct = impacts[d].direct
        /\ impacts'[d].upstream = impacts[d].upstream \cup {changed} \cup impacts[changed].upstream
        /\ impacts'[d].evidence = impacts[d].evidence \cup impacts[changed].evidence
        /\ impacts'[d].axes = impacts[d].axes \cup taken
    BY <2>1, <2>5
  <2>7. impacts'[d] \in [direct : BOOLEAN, upstream : SUBSET MappedIds,
                         evidence : SUBSET MappedIds, candidates : SUBSET Candidates,
                         axes : SUBSET Axes]
    BY <1>1, <2>1, <2>2, <2>3, <2>5
  <2> QED
    BY <2>6, <2>7 DEF taken
<1>8. \A d \in MappedIds : changed \notin graph[d] => impacts'[d] = impacts[d]
  BY <1>2
<1>9. changed \notin Above(graph, changed) /\ changed \notin graph[changed]
  BY <1>1, <1>4, AboveHolds DEF Acyclic
<1>10. impacts'[changed] = impacts[changed]
  BY <1>1, <1>8, <1>9
<1>11. ReachTyped'
  <2>1. DOMAIN impacts' = MappedIds /\ impacts' = [d \in MappedIds |-> impacts'[d]]
    BY <1>2
  <2>2. \A d \in MappedIds : impacts'[d] \in [direct : BOOLEAN, upstream : SUBSET MappedIds,
                                 evidence : SUBSET MappedIds, candidates : SUBSET Candidates,
                                 axes : SUBSET Axes]
    BY <1>4, <1>7, <1>8
  <2>3. Acyclic(graph)' /\ graph' = graph /\ hit' = hit
    BY <1>2, <1>4
  <2> QED
    BY <1>4, <1>6, <2>1, <2>2, <2>3 DEF ReachInv, ReachTyped
\* Everything that was carried is carried on.
<1>12. \A d \in MappedIds :
           /\ impacts[d].upstream \subseteq impacts'[d].upstream
           /\ impacts[d].evidence \subseteq impacts'[d].evidence
           /\ impacts[d].axes \subseteq impacts'[d].axes
           /\ impacts'[d].direct = impacts[d].direct
  BY <1>7, <1>8
<1>13. changed \in Affected(impacts)
  BY <1>1 DEF ReachInv, ReachGrounded
<1>14. \A d \in MappedIds : d \in Affected(impacts) => d \in Affected(impacts')
  <2> SUFFICES ASSUME NEW d \in MappedIds, d \in Affected(impacts)
               PROVE  impacts'[d] # Untouched
    BY DEF Affected
  <2>1. impacts[d].evidence # {}
    BY DEF ReachInv, ReachGrounded
  <2>2. impacts'[d].evidence # {}
    BY <1>12, <2>1
  <2> QED
    BY <2>2 DEF Untouched
<1>15. \A d \in MappedIds : impacts'[d] # impacts[d] => d \in Queued(agenda')
  BY <1>2, <1>3, <1>6
<1>16. ReachGrounded'
  <2>1. Queued(agenda') \subseteq Affected(impacts')
    <3> SUFFICES ASSUME NEW x \in Queued(agenda')
                 PROVE  x \in Affected(impacts')
      OBVIOUS
    <3>1. CASE x \in Queued(Tail(agenda))
      <4>1. x \in Affected(impacts)
        BY <1>1, <3>1 DEF ReachInv, ReachGrounded
      <4> QED
        BY <1>14, <4>1 DEF Affected
    <3>2. CASE x \in Grown(found)
      <4>1. x \in MappedIds /\ impacts'[x] # impacts[x]
        BY <1>2, <1>3, <3>2
      <4>2. changed \in graph[x]
        BY <1>8, <4>1
      <4>3. changed \in impacts'[x].upstream
        BY <1>7, <4>1, <4>2
      <4> QED
        BY <4>1, <4>3 DEF Affected, Untouched
    <3> QED
      BY <1>6, <3>1, <3>2
  <2>2. ASSUME NEW d \in MappedIds
        PROVE  /\ impacts'[d].direct <=> d \in Changed
               /\ d \in Changed => d \in impacts'[d].evidence
               /\ impacts'[d].evidence \subseteq Reach(d) \cap Changed
               /\ d \in Affected(impacts') => impacts'[d].evidence # {}
               /\ impacts'[d].upstream \subseteq Above(graph, d) \cap Affected(impacts')
               /\ SecurityRelevant(hit[d]) => d \in {axis.of : axis \in impacts'[d].axes}
               /\ \A axis \in impacts'[d].axes :
                     /\ axis.of \in Reach(d) /\ SecurityRelevant(hit[axis.of])
                     /\ axis.through = "claim" <=> axis.of = d
    <3>1. /\ impacts[d].direct <=> d \in Changed
          /\ d \in Changed => d \in impacts[d].evidence
          /\ impacts[d].evidence \subseteq Reach(d) \cap Changed
          /\ d \in Affected(impacts) => impacts[d].evidence # {}
          /\ impacts[d].upstream \subseteq Above(graph, d) \cap Affected(impacts)
          /\ SecurityRelevant(hit[d]) => d \in {axis.of : axis \in impacts[d].axes}
          /\ \A axis \in impacts[d].axes :
                /\ axis.of \in Reach(d) /\ SecurityRelevant(hit[axis.of])
                /\ axis.through = "claim" <=> axis.of = d
      BY DEF ReachInv, ReachGrounded, AxesOf
    <3>2. impacts[d].upstream \subseteq Affected(impacts')
      <4>1. Above(graph, d) \subseteq MappedIds
        BY <1>4, AboveHolds
      <4> QED
        BY <1>14, <3>1, <4>1
    <3>3. CASE changed \notin graph[d]
      <4>1. impacts'[d] = impacts[d]
        BY <1>8, <3>3
      <4>2. d \in Affected(impacts') => d \in Affected(impacts)
        BY <4>1 DEF Affected
      <4> QED
        BY <3>1, <3>2, <4>1, <4>2
    <3>4. CASE changed \in graph[d]
      <4>1. changed \in Above(graph, d) /\ Above(graph, changed) \subseteq Above(graph, d)
        BY <1>4, <3>4, AboveHolds, AboveTransitive
      <4>2. d \notin Above(graph, d)
        BY <1>4 DEF Acyclic
      <4>3. /\ impacts[changed].evidence \subseteq Reach(changed) \cap Changed
            /\ impacts[changed].evidence # {}
            /\ impacts[changed].upstream \subseteq Above(graph, changed) \cap Affected(impacts)
            /\ \A axis \in impacts[changed].axes :
                  axis.of \in Reach(changed) /\ SecurityRelevant(hit[axis.of])
        BY <1>1, <1>13 DEF ReachInv, ReachGrounded
      <4>4. impacts'[d].evidence \subseteq Reach(d) \cap Changed /\ impacts'[d].evidence # {}
        BY <1>7, <3>1, <3>4, <4>1, <4>3 DEF Reach
      <4>5. impacts'[d].upstream \subseteq Above(graph, d) \cap Affected(impacts')
        <5>1. impacts[changed].upstream \subseteq Affected(impacts')
          <6>1. Above(graph, changed) \subseteq MappedIds
            BY <1>1, <1>4, AboveHolds
          <6> QED
            BY <1>14, <4>3, <6>1
        <5>2. changed \in Affected(impacts')
          BY <1>1, <1>13, <1>14
        <5> QED
          BY <1>7, <3>1, <3>2, <3>4, <4>1, <4>3, <5>1, <5>2
      <4>6. ASSUME NEW axis \in impacts'[d].axes
            PROVE  /\ axis.of \in Reach(d) /\ SecurityRelevant(hit[axis.of])
                   /\ axis.through = "claim" <=> axis.of = d
        <5>1. CASE axis \in impacts[d].axes
          BY <3>1, <5>1
        <5>2. ASSUME NEW a \in impacts[changed].axes, axis = [of |-> a.of, through |-> "dependency"]
              PROVE  /\ axis.of \in Reach(d) /\ SecurityRelevant(hit[axis.of])
                     /\ axis.through = "claim" <=> axis.of = d
          <6>1. axis.of = a.of /\ axis.through = "dependency"
            BY <5>2
          <6>2. a.of \in Above(graph, d) /\ SecurityRelevant(hit[a.of])
            BY <4>1, <4>3 DEF Reach
          <6> QED
            BY <4>2, <6>1, <6>2 DEF Reach
        <5> QED
          BY <1>7, <3>4, <5>1, <5>2
      <4>7. SecurityRelevant(hit[d]) => d \in {axis.of : axis \in impacts'[d].axes}
        BY <1>12, <3>1
      <4>8. (impacts'[d].direct <=> d \in Changed) /\ (d \in Changed => d \in impacts'[d].evidence)
        BY <1>12, <3>1
      <4> QED
        BY <4>4, <4>5, <4>6, <4>7, <4>8
    <3> QED
      BY <3>3, <3>4
  <2>3. Changed' = Changed /\ hit' = hit /\ graph' = graph
    BY <1>2 DEF Changed
  <2> QED
    BY <2>1, <2>2, <2>3 DEF ReachGrounded, AxesOf, Reach
<1>17. ReachPassedOn'
  <2> SUFFICES ASSUME NEW d \in MappedIds, NEW x \in graph[d], x \notin Queued(agenda'),
                      x \in Affected(impacts')
               PROVE  /\ x \in impacts'[d].upstream
                      /\ impacts'[x].upstream \subseteq impacts'[d].upstream
                      /\ impacts'[x].evidence \subseteq impacts'[d].evidence
                      /\ {axis.of : axis \in impacts'[x].axes} \subseteq {axis.of : axis \in impacts'[d].axes}
    BY <1>2 DEF ReachPassedOn, AxesOf
  <2>1. x \in MappedIds /\ impacts'[x] = impacts[x]
    BY <1>4, <1>15
  <2>2. CASE x = changed
    <3>1. /\ impacts'[d].upstream = impacts[d].upstream \cup {changed} \cup impacts[changed].upstream
          /\ impacts'[d].evidence = impacts[d].evidence \cup impacts[changed].evidence
          /\ impacts'[d].axes = impacts[d].axes \cup
                {[of |-> axis.of, through |-> "dependency"] : axis \in impacts[changed].axes}
      BY <1>7, <2>2
    <3>2. ASSUME NEW a \in impacts[changed].axes
          PROVE  \E axis \in impacts'[d].axes : axis.of = a.of
      <4>1. [of |-> a.of, through |-> "dependency"] \in impacts'[d].axes
        BY <3>1
      <4> QED
        BY <4>1
    <3> QED
      BY <2>1, <2>2, <3>1, <3>2
  <2>3. CASE x # changed
    <3>1. x \notin Queued(agenda)
      BY <1>1, <1>6, <2>3
    <3>2. x \in Affected(impacts)
      BY <2>1 DEF Affected
    <3>3. /\ x \in impacts[d].upstream
          /\ impacts[x].upstream \subseteq impacts[d].upstream
          /\ impacts[x].evidence \subseteq impacts[d].evidence
          /\ {axis.of : axis \in impacts[x].axes} \subseteq {axis.of : axis \in impacts[d].axes}
      BY <3>1, <3>2 DEF ReachInv, ReachPassedOn, AxesOf
    <3> QED
      BY <1>12, <2>1, <3>3
  <2> QED
    BY <2>2, <2>3
<1> QED
  BY <1>11, <1>16, <1>17 DEF ReachInv

\* With nothing left to handle, what a domain carries is what everything it depends on
\* carries, and its own.
LEMMA PassedOnIsExact ==
    ASSUME ReachInv
    PROVE  ImpactIsExact
<1> SUFFICES ASSUME agenda = <<>>, NEW d \in MappedIds
             PROVE  /\ d \in Affected(impacts) <=> Reach(d) \cap Changed # {}
                    /\ impacts[d].direct <=> d \in Changed
                    /\ impacts[d].evidence = Reach(d) \cap Changed
                    /\ impacts[d].upstream = Above(graph, d) \cap Affected(impacts)
                    /\ {axis.of : axis \in impacts[d].axes} = {x \in Reach(d) : SecurityRelevant(hit[x])}
                    /\ \A axis \in impacts[d].axes : axis.through = "claim" <=> axis.of = d
  BY DEF ImpactIsExact, Reach
<1>1. graph \in [MappedIds -> SUBSET MappedIds]
  BY DEF ReachInv, ReachTyped
<1>2. Queued(agenda) = {}
  BY DEF Queued
<1>3. \A y \in MappedIds : \A x \in graph[y] :
          x \notin Affected(impacts)
          \/ /\ x \in impacts[y].upstream
             /\ impacts[x].upstream \subseteq impacts[y].upstream
             /\ impacts[x].evidence \subseteq impacts[y].evidence
             /\ AxesOf(x) \subseteq AxesOf(y)
  BY <1>2 DEF ReachInv, ReachPassedOn
<1>4. \A x \in MappedIds : x \notin Affected(impacts) =>
          impacts[x].upstream = {} /\ impacts[x].evidence = {} /\ AxesOf(x) = {}
  BY DEF Affected, Untouched, AxesOf
<1> DEFINE S == {x \in MappedIds : /\ x \in Affected(impacts) => x \in impacts[d].upstream
                                   /\ impacts[x].upstream \subseteq impacts[d].upstream
                                   /\ impacts[x].evidence \subseteq impacts[d].evidence
                                   /\ AxesOf(x) \subseteq AxesOf(d)}
<1>5. \A y \in MappedIds : \A x \in graph[y] :
          /\ x \in MappedIds
          /\ x \in Affected(impacts) => x \in impacts[y].upstream
          /\ impacts[x].upstream \subseteq impacts[y].upstream
          /\ impacts[x].evidence \subseteq impacts[y].evidence
          /\ AxesOf(x) \subseteq AxesOf(y)
  <2> SUFFICES ASSUME NEW y \in MappedIds, NEW x \in graph[y]
               PROVE  /\ x \in MappedIds
                      /\ x \in Affected(impacts) => x \in impacts[y].upstream
                      /\ impacts[x].upstream \subseteq impacts[y].upstream
                      /\ impacts[x].evidence \subseteq impacts[y].evidence
                      /\ AxesOf(x) \subseteq AxesOf(y)
    OBVIOUS
  <2>1. x \in MappedIds
    BY <1>1
  <2>2. CASE x \in Affected(impacts)
    BY <1>3, <2>1, <2>2
  <2>3. CASE x \notin Affected(impacts)
    BY <1>4, <2>1, <2>3
  <2> QED
    BY <2>2, <2>3, <2>1
<1>6. graph[d] \subseteq S /\ S \in SUBSET MappedIds
  BY <1>5
<1>7. Closed(graph, S)
  <2> SUFFICES ASSUME NEW y \in S, NEW x \in graph[y]
               PROVE  x \in S
    BY DEF Closed
  <2>1. y \in MappedIds
    OBVIOUS
  <2> QED
    BY <1>5, <2>1
<1>8. Above(graph, d) \subseteq S
  <2> HIDE DEF S
  <2> QED
    BY <1>1, <1>6, <1>7, AboveLeast
<1>9. \A x \in Reach(d) : impacts[x].evidence \subseteq impacts[d].evidence /\ AxesOf(x) \subseteq AxesOf(d)
  BY <1>8 DEF Reach
<1>10. Reach(d) \subseteq MappedIds
  BY <1>1, AboveHolds DEF Reach
<1>11. impacts[d].evidence = Reach(d) \cap Changed
  <2>1. \A x \in Reach(d) \cap Changed : x \in impacts[x].evidence
    BY <1>10 DEF ReachInv, ReachGrounded
  <2>2. impacts[d].evidence \subseteq Reach(d) \cap Changed
    BY DEF ReachInv, ReachGrounded
  <2> QED
    BY <1>9, <2>1, <2>2
<1>12. impacts[d].upstream = Above(graph, d) \cap Affected(impacts)
  <2>1. impacts[d].upstream \subseteq Above(graph, d) \cap Affected(impacts)
    BY DEF ReachInv, ReachGrounded
  <2> QED
    BY <1>8, <2>1
<1>13. AxesOf(d) = {x \in Reach(d) : SecurityRelevant(hit[x])}
  <2>1. \A x \in Reach(d) : SecurityRelevant(hit[x]) => x \in AxesOf(x)
    BY <1>10 DEF ReachInv, ReachGrounded
  <2>2. \A x \in AxesOf(d) : x \in Reach(d) /\ SecurityRelevant(hit[x])
    BY DEF AxesOf, ReachInv, ReachGrounded
  <2> QED
    BY <1>9, <2>1, <2>2
<1>14. d \in Affected(impacts) <=> impacts[d].evidence # {}
  <2>1. d \in Affected(impacts) => impacts[d].evidence # {}
    BY DEF ReachInv, ReachGrounded
  <2> QED
    BY <1>4, <2>1
<1> QED
  BY <1>11, <1>12, <1>13, <1>14 DEF AxesOf, ReachInv, ReachGrounded

\* The report of a domain impact analysis is exact, whatever the map and the bindings: a
\* domain is affected just when changed evidence binds it or something it depends on.
THEOREM ImpactsAreExact == ReachSpec => []ImpactIsExact
<1>1. ReachInit => ReachInv
  BY ReachStarts
<1>2. ReachInv /\ [ReachNext]_reachVars => ReachInv'
  <2> SUFFICES ASSUME ReachInv, [ReachNext]_reachVars
               PROVE  ReachInv'
    OBVIOUS
  <2>1. CASE UNCHANGED reachVars
    <3>1. UNCHANGED <<graph, hit, impacts, agenda>>
      BY <2>1 DEF reachVars
    <3>2. Changed' = Changed /\ (\A d : Reach(d)' = Reach(d)) /\ (\A d : AxesOf(d)' = AxesOf(d))
      BY <3>1 DEF Changed, Reach, AxesOf
    <3> QED
      BY <3>1, <3>2 DEF ReachInv, ReachTyped, ReachGrounded, ReachPassedOn
  <2>2. CASE Propagate
    BY <2>2, PropagateKeeps
  <2> QED
    BY <2>1, <2>2 DEF ReachNext, Finished
<1>3. ReachInv => ImpactIsExact
  BY PassedOnIsExact
<1> QED
  BY <1>1, <1>2, <1>3, PTL DEF ReachSpec
-----------------------------------------------------------------------------
(* The review of domains *)

\* What a request is, apart from the contents of the decision it refers to.
IsRequest(q) ==
    /\ q = [domain |-> q.domain, previous |-> q.previous, change |-> q.change,
            status |-> q.status]
    /\ q.domain \in ReviewedIds

IsWriter(w) ==
    \/ w.at \in {"idle", "refused"} /\ w = [at |-> w.at]
    \/ /\ w.at \in {"open", "link"}
       /\ w = [at |-> w.at, todo |-> w.todo, since |-> w.since] /\ w.since \in 0 .. edited
       /\ w.at = "link" => w.todo # {}
       /\ \A q \in w.todo : IsRequest(q) /\ q.status = "proposed"
    \/ /\ w.at \in {"done", "failed", "killed"}
       /\ w = [at |-> w.at, since |-> w.since] /\ w.since \in 0 .. edited

\* The commands that have a temporary file open.
Linking == {c \in Commands : writer[c].at = "link"}

ReviewTyped ==
    /\ edited \in Nat /\ strays \in Nat
    /\ \A q \in requests : IsRequest(q)
    /\ writer = [c \in Commands |-> writer[c]]
    /\ \A c \in Commands : IsWriter(writer[c])
    /\ Cardinality(Linking) <= strays

\* Nobody edited the project since the commands began, and none was stopped.
Resting(c) == writer[c].at \in {"idle", "refused"}
Working(c) == writer[c].at \in {"open", "link", "done"} /\ writer[c].since = edited

DomainsFit ==
    \A d \in ReviewedIds :
        (\A r \in Written(d) : DecisionValid(d, files[d][r])) /\ EntryValid(d) /\ Ready(d)

\* Then they found the project valid, and whatever they have written, and are about to
\* write, keeps it so; but for the temporary files they have open.
WritesFit ==
    (\A c \in Commands : Resting(c) \/ Working(c)) /\ (\E c \in Commands : Working(c)) =>
        /\ DomainsFit
        /\ \A q \in requests : q.change.registered => RequestValid(q)
        /\ \A c \in Commands : writer[c].at \in {"open", "link"} =>
              \A q \in writer[c].todo : q.change.registered => RequestValid(q)
        /\ strays = Cardinality(Linking)

ReviewInv == ReviewTyped /\ WritesFit

LEMMA ReviewStarts ==
    ASSUME ReviewInit
    PROVE  ReviewInv
<1>1. /\ requests = {} /\ strays = 0 /\ edited = 0
      /\ writer = [c \in Commands |-> [at |-> "idle"]]
  BY DEF ReviewInit
<1>2. Linking = {} /\ Cardinality(Linking) = 0
  BY <1>1, FS_EmptySet DEF Linking
<1>3. ReviewTyped
  BY <1>1, <1>2 DEF ReviewTyped, IsWriter
<1>4. WritesFit
  BY <1>1 DEF WritesFit, Working
<1> QED
  BY <1>3, <1>4 DEF ReviewInv

\* A command that works takes its requests from those it was given.
LEMMA CurrentIsDue ==
    ASSUME ReviewTyped, NEW c \in Commands, writer[c].at \in {"open", "link"}, writer[c].todo # {}
    PROVE  Current(c) \in writer[c].todo
<1> DEFINE todo == writer[c].todo
           ids  == {q.domain : q \in todo}
<1>1. \A q \in todo : q.domain \in Nat
  BY DEF ReviewTyped, IsWriter, IsRequest, ReviewedIds
<1>2. ids \in SUBSET Nat /\ ids # {}
  BY <1>1
<1>3. PICK n \in ids : \A m \in ids : n <= m
  <2> HIDE DEF ids
  <2> QED
    BY <1>2, LeastOf
<1>4. \E q \in todo : \A p \in todo : q.domain <= p.domain
  BY <1>3
<1> QED
  BY <1>4 DEF Current

\* Which commands have a temporary file open after a step of one of them.
LEMMA LinkingCounts ==
    ASSUME ReviewTyped, NEW c \in Commands, NEW w, writer' = [writer EXCEPT ![c] = w]
    PROVE  /\ IsFiniteSet(Linking) /\ Cardinality(Linking) \in Nat /\ Cardinality(Linking)' \in Nat
           /\ w.at = "link" /\ writer[c].at # "link" => Cardinality(Linking)' = Cardinality(Linking) + 1
           /\ w.at # "link" /\ writer[c].at = "link" => Cardinality(Linking)' = Cardinality(Linking) - 1
           /\ (w.at = "link" <=> writer[c].at = "link") => Cardinality(Linking)' = Cardinality(Linking)
<1>1. IsFiniteSet(Linking)
  <2>1. Linking \in SUBSET Commands
    BY DEF Linking
  <2> QED
    BY <2>1, ReviewersAreFinite, FS_Subset
<1>2. \A x \in Commands : writer'[x] = IF x = c THEN w ELSE writer[x]
  BY DEF ReviewTyped
<1>3. Linking' = IF w.at = "link" THEN Linking \cup {c} ELSE Linking \ {c}
  BY <1>2 DEF Linking
<1>4. c \in Linking <=> writer[c].at = "link"
  BY DEF Linking
<1>5. Cardinality(Linking \cup {c}) = IF c \in Linking THEN Cardinality(Linking) ELSE Cardinality(Linking) + 1
  BY <1>1, FS_AddElement
<1>6. Cardinality(Linking \ {c}) = IF c \in Linking THEN Cardinality(Linking) - 1 ELSE Cardinality(Linking)
  BY <1>1, FS_RemoveElement
<1>7. Cardinality(Linking) \in Nat
  BY <1>1, FS_CardinalityType
<1>8. IsFiniteSet(Linking \cup {c}) /\ IsFiniteSet(Linking \ {c})
  BY <1>1, FS_AddElement, FS_RemoveElement
<1>9. Cardinality(Linking \cup {c}) \in Nat /\ Cardinality(Linking \ {c}) \in Nat
  BY <1>8, FS_CardinalityType
<1> QED
  BY <1>1, <1>3, <1>4, <1>5, <1>6, <1>7, <1>9

\* What a step of a command needs to keep the state well typed.
LEMMA CommandTyped ==
    ASSUME ReviewTyped, NEW c \in Commands, NEW w, writer' = [writer EXCEPT ![c] = w],
           IsWriter(w), edited' = edited, \A q \in requests' : IsRequest(q),
           strays' \in Int, strays' - Cardinality(Linking)' >= strays - Cardinality(Linking)
    PROVE  ReviewTyped'
<1>1. Cardinality(Linking) \in Nat /\ Cardinality(Linking)' \in Nat
  BY LinkingCounts
<1>2. Cardinality(Linking) <= strays /\ strays \in Nat
  BY DEF ReviewTyped
<1>3. Cardinality(Linking)' <= strays' /\ strays' \in Nat
  BY <1>1, <1>2
<1>4. writer' = [x \in Commands |-> writer'[x]] /\ \A x \in Commands : writer'[x] \in {w, writer[x]}
  BY DEF ReviewTyped
<1>5. \A x \in Commands : IsWriter(writer'[x])
  BY <1>4 DEF ReviewTyped
<1>6. \A x : IsWriter(x)' <=> IsWriter(x)
  BY DEF IsWriter
<1> QED
  BY <1>3, <1>4, <1>5 DEF ReviewTyped, IsWriter

\* The author's edits: no command that was working has seen the new project.
LEMMA EditKeeps ==
    ASSUME ReviewInv, AuthorEdits, \A q \in requests' : IsRequest(q),
           strays' = strays \/ (strays' = 0 /\ Linking = {})
    PROVE  ReviewInv'
<1>1. edited' = edited + 1 /\ writer' = writer /\ edited \in Nat
  BY DEF AuthorEdits, ReviewInv, ReviewTyped
<1>2. Linking' = Linking
  BY <1>1 DEF Linking
<1>3. \A c \in Commands : IsWriter(writer[c])
  BY DEF ReviewInv, ReviewTyped
<1>4. \A c \in Commands : IsWriter(writer[c])'
  BY <1>1, <1>3 DEF IsWriter
<1>5. strays' \in Nat /\ Cardinality(Linking)' <= strays'
  BY <1>2, FS_EmptySet DEF ReviewInv, ReviewTyped
<1>6. ReviewTyped'
  BY <1>1, <1>4, <1>5 DEF ReviewInv, ReviewTyped
<1>7. \A c \in Commands : ~ Working(c)'
  <2> SUFFICES ASSUME NEW c \in Commands, writer[c].at \in {"open", "link", "done"}
               PROVE  writer[c].since # edited + 1
    BY <1>1 DEF Working
  <2>1. writer[c].since \in 0 .. edited
    BY <1>3 DEF IsWriter
  <2> QED
    BY <1>1, <2>1
<1>8. WritesFit'
  BY <1>7 DEF WritesFit
<1> QED
  BY <1>6, <1>8 DEF ReviewInv

\* Requests keep their form when their status is changed.
LEMMA StatusChanged ==
    ASSUME NEW q, IsRequest(q), NEW status_
    PROVE  /\ IsRequest([q EXCEPT !.status = status_])
           /\ [q EXCEPT !.status = status_].status = status_
           /\ [[q EXCEPT !.status = status_] EXCEPT !.status = q.status] = q
<1>1. q = [domain |-> q.domain, previous |-> q.previous, change |-> q.change, status |-> q.status]
  BY DEF IsRequest
<1>2. [q EXCEPT !.status = status_] =
          [domain |-> q.domain, previous |-> q.previous, change |-> q.change, status |-> status_]
  BY <1>1
<1> QED
  BY <1>1, <1>2 DEF IsRequest

\* What the author may do to the requests on file.
LEMMA AuthorKeeps ==
    ASSUME ReviewInv,
           \/ \E d \in ReviewedIds :
                 \/ Scan(d) \/ \E g \in Digests : UpdateEvidence(d, g)
                 \/ \E r \in Revisions, s \in Statuses :
                       Activate(d, r, s) \/ \E y \in BOOLEAN : WriteDecision(d, r, s, y)
           \/ \E q \in requests : Apply(q) \/ \E s \in {"confirmed", "superseded"} : Settle(q, s)
           \/ Sweep
    PROVE  ReviewInv'
<1>1. \A q \in requests : IsRequest(q)
  BY DEF ReviewInv, ReviewTyped
<1>2. ASSUME AuthorEdits, requests' = requests, strays' = strays
      PROVE  ReviewInv'
  BY <1>1, <1>2, EditKeeps
<1>3. ASSUME NEW d \in ReviewedIds,
             \/ Scan(d) \/ \E g \in Digests : UpdateEvidence(d, g)
             \/ \E r \in Revisions, s \in Statuses :
                   Activate(d, r, s) \/ \E y \in BOOLEAN : WriteDecision(d, r, s, y)
      PROVE  ReviewInv'
  BY <1>2, <1>3 DEF Scan, UpdateEvidence, Activate, WriteDecision
<1>4. ASSUME NEW q \in requests, NEW s, AuthorEdits, strays' = strays,
             requests' = (requests \ {q}) \cup {[q EXCEPT !.status = s]}
      PROVE  ReviewInv'
  <2>1. IsRequest([q EXCEPT !.status = s])
    BY <1>1, StatusChanged
  <2>2. \A p \in requests' : IsRequest(p)
    BY <1>1, <1>4, <2>1
  <2> QED
    BY <1>4, <2>2, EditKeeps
<1>5. ASSUME NEW q \in requests, Apply(q) \/ \E s \in {"confirmed", "superseded"} : Settle(q, s)
      PROVE  ReviewInv'
  BY <1>4, <1>5 DEF Apply, Settle
<1>6. ASSUME Sweep
      PROVE  ReviewInv'
  <2>1. AuthorEdits /\ strays' = 0 /\ requests' = requests /\ Linking = {}
    BY <1>6 DEF Sweep, Linking
  <2> QED
    BY <1>1, <2>1, EditKeeps
<1> QED
  BY <1>3, <1>5, <1>6

-----------------------------------------------------------------------------
(* The steps of a command *)

\* The part of the project that no command writes decides the same afterwards.
LEMMA ProjectStays ==
    ASSUME UNCHANGED <<needs, scanned, digests, files, map>>
    PROVE  (DomainsFit' <=> DomainsFit) /\ \A q : RequestValid(q)' <=> RequestValid(q)
<1>1. \A d, x : Exact(d, x)' <=> Exact(d, x)
  BY DEF Exact
<1>2. \A d : /\ Active(d)' = Active(d) /\ (Verified(d)' <=> Verified(d)) /\ Written(d)' = Written(d)
  BY <1>1 DEF Active, Verified, Written, Exact
<1>3. \A d : LatestRevision(d)' = LatestRevision(d)
  BY <1>2 DEF LatestRevision, Written
<1>4. \A d : Considered(d)' = Considered(d)
  BY <1>2, <1>3 DEF Considered
<1>5. \A d, x : Resolved(d, x)' <=> Resolved(d, x)
  BY <1>2, <1>4 DEF Resolved
<1>6. \A d : Ready(d)' <=> Ready(d)
  BY <1>4, <1>5 DEF Ready
<1>7. \A d, x : DecisionValid(d, x)' <=> DecisionValid(d, x)
  BY <1>1 DEF DecisionValid, BindsDependencies
<1>8. \A d : EntryValid(d)' <=> EntryValid(d)
  BY <1>1 DEF EntryValid
<1>9. DomainsFit' <=> DomainsFit
  BY <1>2, <1>6, <1>7, <1>8 DEF DomainsFit
<1>10. \A q : RequestValid(q)' <=> RequestValid(q)
  BY <1>1 DEF RequestValid, Recommended
<1> QED
  BY <1>9, <1>10

\* A command that was stopped says nothing of the project.
LEMMA StoppedKeeps ==
    ASSUME ReviewInv, NEW c \in Commands, NEW w, writer' = [writer EXCEPT ![c] = w],
           writer[c].at \in {"open", "link"},
           w = [at |-> w.at, since |-> writer[c].since], w.at \in {"failed", "killed"},
           edited' = edited, \A q \in requests' : IsRequest(q),
           strays' \in Int, strays' - Cardinality(Linking)' >= strays - Cardinality(Linking)
    PROVE  ReviewInv'
<1>1. IsWriter(writer[c])
  BY DEF ReviewInv, ReviewTyped
<1>2. w.since = writer[c].since /\ writer[c].since \in 0 .. edited
  BY <1>1 DEF IsWriter
<1>3. IsWriter(w)
  BY <1>2 DEF IsWriter
<1>4. ReviewTyped'
  BY <1>3, CommandTyped DEF ReviewInv
<1>5. writer'[c] = w
  BY DEF ReviewInv, ReviewTyped
<1>6. ~ Resting(c)' /\ ~ Working(c)'
  BY <1>5 DEF Resting, Working
<1>7. WritesFit'
  BY <1>6 DEF WritesFit
<1> QED
  BY <1>4, <1>7 DEF ReviewInv

\* A command that goes on writes what it was given, and closes what it opened.
LEMMA GoingOnKeeps ==
    ASSUME ReviewInv, NEW c \in Commands, NEW w, writer' = [writer EXCEPT ![c] = w],
           writer[c].at \in {"open", "link"}, w.at \in {"open", "link", "done"},
           w.since = writer[c].since, IsWriter(w),
           w.at \in {"open", "link"} => w.todo \subseteq writer[c].todo,
           UNCHANGED <<needs, scanned, digests, files, map, edited>>,
           \A q \in requests' : q \in requests \/ q \in writer[c].todo,
           strays' = strays + (IF w.at = "link" THEN 1 ELSE 0)
                            - (IF writer[c].at = "link" THEN 1 ELSE 0)
    PROVE  ReviewInv'
<1>1. IsWriter(writer[c]) /\ \A q \in requests : IsRequest(q)
  BY DEF ReviewInv, ReviewTyped
<1>2. strays \in Nat /\ strays' \in Int
  BY DEF ReviewInv, ReviewTyped
<1>3. /\ Cardinality(Linking) \in Nat /\ Cardinality(Linking)' \in Nat
      /\ strays' - Cardinality(Linking)' = strays - Cardinality(Linking)
  <2>1. /\ Cardinality(Linking) \in Nat /\ Cardinality(Linking)' \in Nat
        /\ w.at = "link" /\ writer[c].at # "link" => Cardinality(Linking)' = Cardinality(Linking) + 1
        /\ w.at # "link" /\ writer[c].at = "link" => Cardinality(Linking)' = Cardinality(Linking) - 1
        /\ (w.at = "link" <=> writer[c].at = "link") => Cardinality(Linking)' = Cardinality(Linking)
    BY LinkingCounts DEF ReviewInv
  <2> DEFINE n == Cardinality(Linking)
             m == Cardinality(Linking)'
  <2>2. CASE w.at = "link" /\ writer[c].at = "link"
    <3>1. m = n /\ strays' = strays + 1 - 1
      BY <2>1, <2>2
    <3> QED
      BY <1>2, <2>1, <3>1
  <2>3. CASE w.at = "link" /\ writer[c].at # "link"
    <3>1. m = n + 1 /\ strays' = strays + 1 - 0
      BY <2>1, <2>3
    <3> QED
      BY <1>2, <2>1, <3>1
  <2>4. CASE w.at # "link" /\ writer[c].at = "link"
    <3>1. m = n - 1 /\ strays' = strays + 0 - 1
      BY <2>1, <2>4
    <3> QED
      BY <1>2, <2>1, <3>1
  <2>5. CASE w.at # "link" /\ writer[c].at # "link"
    <3>1. m = n /\ strays' = strays + 0 - 0
      BY <2>1, <2>5
    <3> QED
      BY <1>2, <2>1, <3>1
  <2> QED
    BY <2>2, <2>3, <2>4, <2>5
<1>4. \A q \in requests' : IsRequest(q)
  BY <1>1 DEF IsWriter
<1>5. ReviewTyped'
  <2>1. strays' - Cardinality(Linking)' >= strays - Cardinality(Linking)
    BY <1>2, <1>3
  <2> QED
    BY <1>2, <1>4, <2>1, CommandTyped DEF ReviewInv
<1>6. \A x \in Commands : writer'[x] = IF x = c THEN w ELSE writer[x]
  BY DEF ReviewInv, ReviewTyped
<1>7. \A x \in Commands : (Resting(x)' <=> Resting(x)) /\ (Working(x)' <=> Working(x))
  BY <1>6 DEF Resting, Working
<1>8. WritesFit'
  <2> SUFFICES ASSUME \A x \in Commands : Resting(x) \/ Working(x),
                      \E x \in Commands : Working(x)
               PROVE  /\ DomainsFit'
                      /\ \A q \in requests' : q.change.registered => RequestValid(q)'
                      /\ \A x \in Commands : writer'[x].at \in {"open", "link"} =>
                            \A q \in writer'[x].todo : q.change.registered => RequestValid(q)'
                      /\ strays' = Cardinality(Linking)'
    BY <1>7 DEF WritesFit
  <2>1. /\ DomainsFit /\ strays = Cardinality(Linking)
        /\ \A q \in requests : q.change.registered => RequestValid(q)
        /\ \A x \in Commands : writer[x].at \in {"open", "link"} =>
              \A q \in writer[x].todo : q.change.registered => RequestValid(q)
    BY DEF ReviewInv, WritesFit
  <2>2. strays' = Cardinality(Linking)'
    BY <1>2, <1>3, <2>1
  <2>3. \A q \in requests' : q.change.registered => RequestValid(q)
    BY <2>1
  <2>4. \A x \in Commands : writer'[x].at \in {"open", "link"} =>
            \A q \in writer'[x].todo : q.change.registered => RequestValid(q)
    BY <1>6, <2>1
  <2> QED
    BY <2>1, <2>2, <2>3, <2>4, ProjectStays
<1> QED
  BY <1>5, <1>8 DEF ReviewInv

\* A valid project has no temporary file, so nobody is at one; and what the analysis
\* proposes is what the validation asks of a request.
LEMMA StartKeeps ==
    ASSUME ReviewInv, NEW c \in Commands, NEW e \in Changes, Start(c, e)
    PROVE  ReviewInv'
<1> DEFINE w == IF Valid THEN [at |-> "open", todo |-> Proposals(e), since |-> edited]
                ELSE [at |-> "refused"]
<1>1. /\ writer[c].at = "idle" /\ writer' = [writer EXCEPT ![c] = w]
      /\ UNCHANGED <<needs, scanned, digests, files, map, requests, strays, edited>>
  BY DEF Start, documents
<1>2. /\ edited \in Nat /\ strays \in Nat /\ \A q \in requests : IsRequest(q)
      /\ \A x \in Commands : writer'[x] = IF x = c THEN w ELSE writer[x]
  BY <1>1 DEF ReviewInv, ReviewTyped
<1>3. \A q \in Proposals(e) :
          /\ IsRequest(q) /\ q.status = "proposed" /\ q.change = e
          /\ q.previous = map[q.domain].active /\ Known(e) /\ Active(q.domain) # None
  BY DEF Proposals, IsRequest
<1>4. IsWriter(w)
  <2>1. CASE Valid
    <3>1. w = [at |-> "open", todo |-> Proposals(e), since |-> edited]
      BY <2>1
    <3> HIDE DEF w
    <3>2. w.at = "open" /\ w.todo = Proposals(e) /\ w.since = edited
      BY <3>1
    <3> QED
      BY <1>2, <1>3, <3>1, <3>2 DEF IsWriter
  <2>2. CASE ~ Valid
    BY <2>2 DEF IsWriter
  <2> QED
    BY <2>1, <2>2
<1>5. w.at # "link"
  OBVIOUS
<1> HIDE DEF w
<1>6. Cardinality(Linking)' = Cardinality(Linking) /\ Cardinality(Linking) \in Nat
  <2>1. ReviewTyped
    BY DEF ReviewInv
  <2> QED
    BY <1>1, <1>5, <2>1, LinkingCounts
<1>7. ReviewTyped'
  <2>1. ReviewTyped /\ strays' \in Int /\ strays' - Cardinality(Linking)' >= strays - Cardinality(Linking)
    BY <1>1, <1>2, <1>6 DEF ReviewInv
  <2> QED
    BY <1>1, <1>2, <1>4, <2>1, CommandTyped
\* If other commands work undisturbed, they have found the project valid already.
<1>8. ASSUME \A x \in Commands : Resting(x)' \/ Working(x)',
             \E x \in Commands \ {c} : Working(x)'
      PROVE  /\ DomainsFit /\ strays = Cardinality(Linking)
             /\ \A q \in requests : q.change.registered => RequestValid(q)
             /\ \A x \in Commands : writer[x].at \in {"open", "link"} =>
                   \A q \in writer[x].todo : q.change.registered => RequestValid(q)
  <2>1. \A x \in Commands \ {c} : (Resting(x)' <=> Resting(x)) /\ (Working(x)' <=> Working(x))
    BY <1>1, <1>2 DEF Resting, Working
  <2>2. Resting(c)
    BY <1>1 DEF Resting
  <2> QED
    BY <1>8, <2>1, <2>2 DEF ReviewInv, WritesFit
<1>9. WritesFit'
  <2> SUFFICES ASSUME \A x \in Commands : Resting(x)' \/ Working(x)',
                      NEW y \in Commands, Working(y)'
               PROVE  /\ DomainsFit
                      /\ \A q \in requests : q.change.registered => RequestValid(q)
                      /\ \A x \in Commands : writer'[x].at \in {"open", "link"} =>
                            \A q \in writer'[x].todo : q.change.registered => RequestValid(q)
                      /\ strays = Cardinality(Linking)
    BY <1>1, <1>6, ProjectStays DEF WritesFit
  <2>1. CASE ~ Valid
    <3>1. w = [at |-> "refused"]
      BY <2>1 DEF w
    <3>2. y # c
      BY <1>2, <3>1 DEF Working
    <3>3. \A x \in Commands : writer'[x].at \in {"open", "link"} => writer'[x] = writer[x]
      BY <1>2, <3>1
    <3> QED
      BY <1>8, <3>2, <3>3
  <2>2. CASE Valid
    <3>1. w.at = "open" /\ w.todo = Proposals(e)
      BY <2>2 DEF w
    <3>2. DomainsFit /\ strays = 0 /\ \A q \in requests : RequestValid(q)
      BY <2>2 DEF Valid, DocumentsValid, DomainsFit
    <3>3. \A q \in Proposals(e) : q.change.registered => RequestValid(q)
      <4> SUFFICES ASSUME NEW q \in Proposals(e), q.change.registered
                   PROVE  RequestValid(q)
        OBVIOUS
      <4>1. Exact(q.domain, q.previous)
        BY <1>3 DEF Active
      <4>2. digests[q.change.of] \in {Old, New}
        BY <1>3 DEF Known
      <4> QED
        BY <1>3, <4>1, <4>2 DEF RequestValid
    <3>4. Linking = {}
      <4> SUFFICES ASSUME NEW z \in Commands, writer[z].at = "link"
                   PROVE  FALSE
        BY DEF Linking
      <4>1. z # c /\ writer'[z] = writer[z]
        BY <1>1, <1>2
      <4>2. Working(z)'
        BY <4>1 DEF Resting
      <4>3. Cardinality(Linking) = 0 /\ z \in Linking
        BY <1>8, <3>2, <4>1, <4>2 DEF Linking
      <4>4. IsFiniteSet(Linking)
        <5>1. Linking \in SUBSET Commands
          BY DEF Linking
        <5> QED
          BY <5>1, ReviewersAreFinite, FS_Subset
      <4> QED
        BY <4>3, <4>4, FS_EmptySet
    <3>5. strays = Cardinality(Linking)
      BY <3>2, <3>4, FS_EmptySet
    <3>6. ASSUME NEW x \in Commands, x # c, writer'[x].at \in {"open", "link"}
          PROVE  \A q \in writer'[x].todo : q.change.registered => RequestValid(q)
      <4>1. writer'[x] = writer[x]
        BY <1>2, <3>6
      <4>2. Working(x)'
        BY <3>6 DEF Resting
      <4> QED
        BY <1>8, <3>6, <4>1, <4>2
    <3>7. \A x \in Commands : writer'[x].at \in {"open", "link"} =>
              \A q \in writer'[x].todo : q.change.registered => RequestValid(q)
      BY <1>2, <3>1, <3>3, <3>6
    <3> QED
      BY <3>2, <3>5, <3>7
  <2> QED
    BY <2>1, <2>2
<1> QED
  BY <1>7, <1>9 DEF ReviewInv

\* A command that is through with a request.
LEMMA PassKeeps ==
    ASSUME ReviewInv, NEW c \in Commands, Pass(c), writer[c].at \in {"open", "link"},
           UNCHANGED <<needs, scanned, digests, files, map, edited>>,
           \A q \in requests' : q \in requests \/ q \in writer[c].todo,
           strays' = strays - (IF writer[c].at = "link" THEN 1 ELSE 0)
    PROVE  ReviewInv'
<1> DEFINE w == [at |-> "open", todo |-> writer[c].todo \ {Current(c)}, since |-> writer[c].since]
<1>1. IsWriter(writer[c]) /\ strays \in Nat
  BY DEF ReviewInv, ReviewTyped
<1>2. /\ writer[c] = [at |-> writer[c].at, todo |-> writer[c].todo, since |-> writer[c].since]
      /\ writer[c].since \in 0 .. edited
      /\ \A q \in writer[c].todo : IsRequest(q) /\ q.status = "proposed"
  BY <1>1 DEF IsWriter
<1>4. writer' = [writer EXCEPT ![c] = w]
  BY DEF Pass
<1>5. w.at = "open" /\ w.since = writer[c].since /\ w.todo \subseteq writer[c].todo
  OBVIOUS
<1>6. IsWriter(w)
  BY <1>2 DEF IsWriter
<1>7. strays' = strays + (IF w.at = "link" THEN 1 ELSE 0) - (IF writer[c].at = "link" THEN 1 ELSE 0)
  BY <1>1
<1> HIDE DEF w
<1> QED
  BY <1>4, <1>5, <1>6, <1>7, GoingOnKeeps

\* A command that is stopped.
LEMMA StopKeeps ==
    ASSUME ReviewInv, NEW c \in Commands, NEW how \in {"failed", "killed"}, Stop(c, how),
           writer[c].at \in {"open", "link"}, edited' = edited,
           \A q \in requests' : q \in requests \/ q \in writer[c].todo,
           \/ strays' \in {strays, strays + 1}
           \/ writer[c].at = "link" /\ strays' = strays - 1
    PROVE  ReviewInv'
<1> DEFINE w == [at |-> how, since |-> writer[c].since]
<1>1. ReviewTyped /\ strays \in Nat /\ IsWriter(writer[c]) /\ \A q \in requests : IsRequest(q)
  BY DEF ReviewInv, ReviewTyped
<1>2. writer' = [writer EXCEPT ![c] = w]
  BY DEF Stop
<1>3. \A q \in requests' : IsRequest(q)
  BY <1>1 DEF IsWriter
<1>4. w.at = how /\ w = [at |-> w.at, since |-> writer[c].since] /\ w.at # "link"
  OBVIOUS
<1> HIDE DEF w
<1>5. /\ Cardinality(Linking) \in Nat /\ Cardinality(Linking)' \in Nat
      /\ writer[c].at = "link" => Cardinality(Linking)' = Cardinality(Linking) - 1
      /\ writer[c].at # "link" => Cardinality(Linking)' = Cardinality(Linking)
  BY <1>1, <1>2, <1>4, LinkingCounts
<1>6. strays' \in Int /\ strays' - Cardinality(Linking)' >= strays - Cardinality(Linking)
  BY <1>1, <1>5
<1> QED
  BY <1>2, <1>3, <1>4, <1>6, StoppedKeeps

LEMMA CommandKeeps ==
    ASSUME ReviewInv, NEW c \in Commands,
           Found(c) \/ Open(c) \/ OpenFails(c) \/ Link(c) \/ Report(c) \/ Kill(c)
    PROVE  ReviewInv'
<1>1. IsWriter(writer[c]) /\ strays \in Nat /\ ReviewTyped
  BY DEF ReviewInv, ReviewTyped
<1>2. ASSUME Found(c)
      PROVE  ReviewInv'
  <2>1. /\ writer[c].at = "open" /\ (Pass(c) \/ Stop(c, "failed"))
        /\ UNCHANGED <<needs, scanned, digests, files, map, requests, strays, edited>>
    BY <1>2 DEF Found, Writing, documents
  <2> QED
    BY <1>1, <2>1, PassKeeps, StopKeeps
<1>3. ASSUME Open(c)
      PROVE  ReviewInv'
  <2> DEFINE w == [at |-> "link", todo |-> writer[c].todo, since |-> writer[c].since]
  <2>1. /\ writer[c].at = "open" /\ writer[c].todo # {} /\ strays' = strays + 1
        /\ writer' = [writer EXCEPT ![c] = w]
        /\ UNCHANGED <<needs, scanned, digests, files, map, requests, edited>>
    BY <1>3 DEF Open, Writing
  <2>2. /\ writer[c] = [at |-> "open", todo |-> writer[c].todo, since |-> writer[c].since]
        /\ writer[c].since \in 0 .. edited
        /\ \A q \in writer[c].todo : IsRequest(q) /\ q.status = "proposed"
    BY <1>1, <2>1 DEF IsWriter
  <2>4. w.at = "link" /\ w.since = writer[c].since /\ w.todo = writer[c].todo
    OBVIOUS
  <2>5. IsWriter(w)
    BY <2>1, <2>2 DEF IsWriter
  <2>6. strays' = strays + (IF w.at = "link" THEN 1 ELSE 0) - (IF writer[c].at = "link" THEN 1 ELSE 0)
    BY <1>1, <2>1
  <2> HIDE DEF w
  <2> QED
    BY <2>1, <2>4, <2>5, <2>6, GoingOnKeeps
<1>4. ASSUME OpenFails(c)
      PROVE  ReviewInv'
  <2>1. /\ writer[c].at = "open" /\ Stop(c, "failed") /\ strays' = strays + 1
        /\ UNCHANGED <<requests, edited>>
    BY <1>4 DEF OpenFails, Writing
  <2> QED
    BY <2>1, StopKeeps
<1>5. ASSUME Link(c)
      PROVE  ReviewInv'
  <2>1. /\ writer[c].at = "link" /\ (Pass(c) \/ Stop(c, "failed")) /\ strays' = strays - 1
        /\ requests' = Linked(Current(c))
        /\ UNCHANGED <<needs, scanned, digests, files, map, edited>>
    BY <1>5 DEF Link
  <2>2. writer[c].todo # {}
    BY <1>1, <2>1 DEF IsWriter
  <2>3. Current(c) \in writer[c].todo
    BY <1>1, <2>1, <2>2, CurrentIsDue
  <2>4. \A q \in requests' : q \in requests \/ q \in writer[c].todo
    BY <2>1, <2>3 DEF Linked
  <2> QED
    BY <1>1, <2>1, <2>4, PassKeeps, StopKeeps
<1>6. ASSUME Report(c)
      PROVE  ReviewInv'
  <2> DEFINE w == [at |-> "done", since |-> writer[c].since]
  <2>1. /\ writer[c].at = "open" /\ writer' = [writer EXCEPT ![c] = w]
        /\ UNCHANGED <<needs, scanned, digests, files, map, requests, strays, edited>>
    BY <1>6 DEF Report, Stop, documents
  <2>2. writer[c].since \in 0 .. edited
    BY <1>1, <2>1 DEF IsWriter
  <2>3. IsWriter(w) /\ w.at = "done" /\ w.since = writer[c].since
    BY <2>2 DEF IsWriter
  <2>4. strays' = strays + (IF w.at = "link" THEN 1 ELSE 0) - (IF writer[c].at = "link" THEN 1 ELSE 0)
    BY <1>1, <2>1
  <2> HIDE DEF w
  <2> QED
    BY <2>1, <2>3, <2>4, GoingOnKeeps
<1>7. ASSUME Kill(c)
      PROVE  ReviewInv'
  <2>1. /\ writer[c].at \in {"open", "link"} /\ Stop(c, "killed")
        /\ UNCHANGED <<requests, strays, edited>>
    BY <1>7 DEF Kill, documents
  <2> QED
    BY <2>1, StopKeeps
<1> QED
  BY <1>2, <1>3, <1>4, <1>5, <1>6, <1>7

LEMMA ReviewKeeps ==
    ASSUME ReviewInv, [ReviewNext]_reviewVars
    PROVE  ReviewInv'
<1>1. CASE UNCHANGED reviewVars
  <2>1. UNCHANGED <<needs, scanned, digests, files, map, requests, strays, writer, edited>>
    BY <1>1 DEF reviewVars, documents
  <2>2. Linking' = Linking /\ \A c : (Resting(c)' <=> Resting(c)) /\ (Working(c)' <=> Working(c))
    BY <2>1 DEF Linking, Resting, Working
  <2>3. ReviewTyped'
    BY <2>1, <2>2 DEF ReviewInv, ReviewTyped, IsWriter
  <2>4. WritesFit'
    BY <2>1, <2>2, ProjectStays DEF ReviewInv, WritesFit
  <2> QED
    BY <2>3, <2>4 DEF ReviewInv
<1>2. CASE \E c \in Commands :
              \/ \E e \in Changes : Start(c, e)
              \/ Found(c) \/ Open(c) \/ OpenFails(c) \/ Link(c) \/ Report(c) \/ Kill(c)
  BY <1>2, StartKeeps, CommandKeeps
<1>3. CASE \/ \E d \in ReviewedIds :
                 \/ Scan(d) \/ \E g \in Digests : UpdateEvidence(d, g)
                 \/ \E r \in Revisions, s \in Statuses :
                       Activate(d, r, s) \/ \E y \in BOOLEAN : WriteDecision(d, r, s, y)
           \/ \E q \in requests : Apply(q) \/ \E s \in {"confirmed", "superseded"} : Settle(q, s)
           \/ Sweep
  BY <1>3, AuthorKeeps
<1> QED
  BY <1>1, <1>2, <1>3 DEF ReviewNext, Rest

\* Commands that run to their end in a project that nobody edits meanwhile leave it as
\* valid as they found it, however many run at once and whatever they write.
THEOREM WritesKeepValid == ReviewSpec => []WriteKeepsValid
<1>1. ReviewInit => ReviewInv
  BY ReviewStarts
<1>2. ReviewInv /\ [ReviewNext]_reviewVars => ReviewInv'
  BY ReviewKeeps
<1>3. ReviewInv => WriteKeepsValid
  <2> SUFFICES ASSUME ReviewInv, NEW c \in Commands, writer[c].at = "done",
                      \A x \in Commands : writer[x].at \in {"idle", "refused"} \/ Undisturbed(x)
               PROVE  /\ \A q \in requests : q.change.registered => RequestValid(q)
                      /\ (\A q \in requests : q.change.registered) => Valid
    BY DEF WriteKeepsValid
  <2>1. \A x \in Commands : (Resting(x) \/ Working(x)) /\ writer[x].at # "link"
    BY DEF Resting, Working, Undisturbed
  <2>2. Working(c)
    BY <2>1 DEF Resting
  <2>3. /\ DomainsFit /\ strays = Cardinality(Linking)
        /\ \A q \in requests : q.change.registered => RequestValid(q)
    BY <2>1, <2>2 DEF ReviewInv, WritesFit
  <2>4. Linking = {}
    BY <2>1 DEF Linking
  <2>5. strays = 0
    BY <2>3, <2>4, FS_EmptySet
  <2> QED
    BY <2>3, <2>5 DEF Valid, DocumentsValid, DomainsFit
<1> QED
  BY <1>1, <1>2, <1>3, PTL DEF ReviewSpec

\* A change request that was confirmed, applied or superseded is never proposed again,
\* and none disappears, whatever the author and the commands do.
THEOREM SettledRemains == ReviewSpec => SettledStaysSettled
<1>1. ReviewInit => ReviewInv
  BY ReviewStarts
<1>2. ReviewInv /\ [ReviewNext]_reviewVars => ReviewInv'
  BY ReviewKeeps
<1>3. ReviewInv /\ [ReviewNext]_reviewVars => [SettledRemain]_reviewVars
  <2> SUFFICES ASSUME ReviewInv, ReviewNext
               PROVE  SettledRemain
    OBVIOUS
  <2>1. \A q \in requests : IsRequest(q)
    BY DEF ReviewInv, ReviewTyped
  <2>2. \A q \in requests : [q EXCEPT !.status = q.status] = q
    BY <2>1 DEF IsRequest
  <2>3. ASSUME requests \subseteq requests'
        PROVE  SettledRemain
    BY <2>2, <2>3 DEF SettledRemain
  <2>4. ASSUME NEW q \in requests, NEW s, s # "proposed",
               requests' = (requests \ {q}) \cup {[q EXCEPT !.status = s]}
        PROVE  SettledRemain
    <3> DEFINE settled == [q EXCEPT !.status = s]
    <3>1. settled \in requests' /\ settled.status = s /\ [settled EXCEPT !.status = q.status] = q
      BY <2>1, <2>4, StatusChanged
    <3> HIDE DEF settled
    <3> SUFFICES ASSUME NEW o \in requests
                 PROVE  \E p \in requests' :
                            /\ [p EXCEPT !.status = o.status] = o
                            /\ o.status # "proposed" => p.status # "proposed"
      BY DEF SettledRemain
    <3>2. CASE o = q
      BY <2>4, <3>1, <3>2
    <3>3. CASE o # q
      <4>1. o \in requests'
        BY <2>4, <3>3
      <4> QED
        BY <2>2, <4>1
    <3> QED
      BY <3>2, <3>3
  <2>5. ASSUME NEW q \in requests, Apply(q) \/ \E s \in {"confirmed", "superseded"} : Settle(q, s)
        PROVE  SettledRemain
    BY <2>4, <2>5 DEF Apply, Settle
  <2>6. ASSUME NEW c \in Commands, Link(c)
        PROVE  SettledRemain
    BY <2>3, <2>6 DEF Link, Linked
  <2>7. ASSUME requests' = requests
        PROVE  SettledRemain
    BY <2>3, <2>7
  <2>8. \/ requests' = requests
        \/ \E q \in requests : Apply(q) \/ \E s \in {"confirmed", "superseded"} : Settle(q, s)
        \/ \E c \in Commands : Link(c)
    BY DEF ReviewNext, Scan, UpdateEvidence, WriteDecision, Activate, Sweep, Start, Found, Open,
           OpenFails, Report, Kill, Rest, documents, reviewVars
  <2> QED
    BY <2>5, <2>6, <2>7, <2>8
<1> QED
  BY <1>1, <1>2, <1>3, PTL DEF ReviewSpec, SettledStaysSettled
=============================================================================
