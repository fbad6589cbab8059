---------------------------- MODULE WorkflowProofs ----------------------------
(***************************************************************************)
(* Theorems about WorkflowRun, for any number of branches and operations,   *)
(* and about CapabilityScopes, for any capability, however its workflows    *)
(* are nested, any ceiling and any permissions.                             *)
(***************************************************************************)
EXTENDS WorkflowRun, CapabilityScopes, FiniteSetTheorems, TLAPS

\* A branch keeps its own values in its context until it emits them.
Own ==
    \A b \in Branches :
        /\ branch[b].at = "calling" =>
              /\ branch[b].calls \in 1..Depth
              /\ \A n \in 1..(branch[b].calls - 1) : steps[b][n] = b
        /\ branch[b].at = "new" => branch[b].calls = 0
        /\ branch[b].at = "returned" => \A n \in 1..Depth : result[b][n] = b

\* What the end of gather tells of the branches.
Ends ==
    /\ gather = "returned" => \A b \in Branches : branch[b].at = "returned"
    /\ gather = "cancelled" => \E b \in Branches : branch[b].at = "cancelled"
    /\ gather = "failed" => \E b \in Branches : branch[b].at = "failed"
    /\ answer # "none" => gather # "pending"
    /\ answer = "success" => gather = "returned"

\* A cancellation reaches every branch that has not ended.
Doom ==
    /\ \A b \in Branches : branch[b].at = "cancelled" => b \in doomed
    /\ doomed # {} => \A b \in Branches : b \in doomed \/ branch[b].at \in Ended

NoneFailed == \A b \in Branches : branch[b].at # "failed"

\* The span misses nothing unless a branch failed.
Heard ==
    /\ event \subseteq {seen}
    /\ answer = "none" => event = {}
    /\ answer = "none" \/ NoneFailed => seen = sent

Inductive == RunTypeOK /\ Own /\ Ends /\ Doom /\ Heard

-----------------------------------------------------------------------------
(* The steps that several actions share                                    *)

\* The future ends as one of its branches did.
LEMMA GatheredEnds ==
    ASSUME RunTypeOK, NEW now \in [Branches -> [at : {"new", "calling"} \cup Ended, calls : Nat]]
    PROVE  /\ Gathered(now) \in {"pending"} \cup Ended
           /\ gather # "pending" => Gathered(now) = gather
           /\ gather = "pending" =>
                /\ Gathered(now) = "returned" => \A b \in Branches : now[b].at = "returned"
                /\ Gathered(now) = "cancelled" => \E b \in Branches : now[b].at = "cancelled"
                /\ Gathered(now) = "failed" => \E b \in Branches : now[b].at = "failed"
<1> DEFINE Some == \E b \in Branches : now[b].at \in {"failed", "cancelled"}
           first == CHOOSE a \in {"failed", "cancelled"} : \E b \in Branches : now[b].at = a
<1>1. Some => /\ first \in {"failed", "cancelled"}
              /\ \E b \in Branches : now[b].at = first
  OBVIOUS
<1>2. Gathered(now) = IF gather # "pending" THEN gather
                      ELSE IF Some THEN first
                      ELSE IF \A b \in Branches : now[b].at = "returned" THEN "returned"
                      ELSE "pending"
  BY DEF Gathered
<1> HIDE DEF Some, first
<1>3. QED
  BY <1>1, <1>2 DEF RunTypeOK, Ended

\* A branch that ends leaves the invariant to what ends with it.
LEMMA EndBranchKeeps ==
    ASSUME RunTypeOK, Ends, NEW b \in Branches, NEW at \in Ended, EndBranch(b, at),
           branch[b].at \notin Ended, UNCHANGED answer
    PROVE  /\ branch' \in [Branches -> [at : {"new", "calling"} \cup Ended, calls : Nat]]
           /\ branch'[b].at = at
           /\ \A c \in Branches \ {b} : branch'[c] = branch[c]
           /\ gather' \in {"pending"} \cup Ended
           /\ Ends'
<1>1. /\ branch' \in [Branches -> [at : {"new", "calling"} \cup Ended, calls : Nat]]
      /\ branch'[b].at = at
      /\ \A c \in Branches \ {b} : branch'[c] = branch[c]
  BY DEF EndBranch, RunTypeOK
<1>2. gather' = Gathered(branch')
  BY DEF EndBranch
<1>3. gather' \in {"pending"} \cup Ended
  BY <1>1, <1>2, GatheredEnds
<1>4. Ends'
  <2>1. CASE gather = "pending"
    BY <1>1, <1>2, <2>1, GatheredEnds DEF Ends
  <2>2. CASE gather # "pending"
    <3>1. gather' = gather
      BY <1>1, <1>2, <2>2, GatheredEnds
    <3>2. gather # "returned"
      BY DEF Ends, Ended
    <3>3. \A c \in Branches : branch[c].at \in Ended => branch'[c].at = branch[c].at
      BY <1>1
    <3>4. QED
      BY <3>1, <3>2, <3>3 DEF Ends, Ended
  <2>3. QED
    BY <2>1, <2>2
<1>5. QED
  BY <1>1, <1>3, <1>4

\* A branch that may send has not been cancelled, so that the span hears it
\* unless some branch failed.
LEMMA SendKeeps ==
    ASSUME Inductive, NEW b \in Branches, branch[b].at \in {"new", "calling"}, b \notin doomed,
           Send(b), UNCHANGED <<doomed, answer, event>>
    PROVE  /\ branch' \in [Branches -> [at : {"new", "calling"} \cup Ended, calls : Nat]]
           /\ branch'[b] = [at |-> "calling", calls |-> branch[b].calls + 1]
           /\ \A c \in Branches \ {b} : branch'[c] = branch[c]
           /\ gather' \in {"pending"} \cup Ended
           /\ Ends' /\ Doom' /\ Heard'
<1>1. /\ branch' \in [Branches -> [at : {"new", "calling"} \cup Ended, calls : Nat]]
      /\ branch'[b] = [at |-> "calling", calls |-> branch[b].calls + 1]
      /\ \A c \in Branches \ {b} : branch'[c] = branch[c]
  BY DEF Send, Inductive, RunTypeOK
<1>2. gather' = gather /\ gather \in {"pending"} \cup Ended
  BY DEF Send, Inductive, RunTypeOK
<1>3. branch[b].at \notin Ended /\ doomed = {}
  BY DEF Inductive, Doom, Ended
<1>4. Doom'
  BY <1>1, <1>3 DEF Inductive, Doom
<1>5. Ends'
  <2>1. gather # "returned"
    BY <1>3 DEF Inductive, Ends, Ended
  <2>2. \A c \in Branches : branch[c].at \in Ended => branch'[c].at = branch[c].at
    BY <1>1, <1>3
  <2>3. QED
    BY <1>2, <2>1, <2>2 DEF Inductive, Ends, Ended
<1>6. Heard'
  <2>1. CASE answer = "none"
    BY <2>1 DEF Inductive, Heard, Send, SpanObserved
  <2>2. CASE answer # "none"
    <3>1. seen' = seen
      BY <2>2 DEF Send, SpanObserved
    <3>2. ~NoneFailed
      BY <1>2, <1>3, <2>2 DEF Inductive, Ends, Doom, Ended, NoneFailed
    <3>3. ~NoneFailed'
      BY <1>1, <1>3, <3>2 DEF NoneFailed, Ended
    <3>4. QED
      BY <2>2, <3>1, <3>3 DEF Inductive, Heard
  <2>3. QED
    BY <2>1, <2>2
<1>7. QED
  BY <1>1, <1>2, <1>4, <1>5, <1>6

-----------------------------------------------------------------------------
(* The steps                                                               *)

LEMMA InitHolds == RunInit => Inductive
<1> SUFFICES ASSUME RunInit PROVE Inductive
  OBVIOUS
<1>1. RunTypeOK
  BY BranchesCall DEF RunInit, RunTypeOK, Ended
<1>2. Own /\ Ends /\ Doom /\ Heard
  BY DEF RunInit, Own, Ends, Doom, Heard
<1>3. QED
  BY <1>1, <1>2 DEF Inductive

\* A branch that fails or dies changes nothing but the future.
LEMMA EndKeeps ==
    ASSUME Inductive, NEW b \in Branches, NEW at \in {"failed", "cancelled"}, EndBranch(b, at),
           branch[b].at \notin Ended, at = "cancelled" => b \in doomed,
           UNCHANGED <<kind, steps, doomed, interrupted, answer, result, sent, seen, event>>
    PROVE  Inductive'
<1>1. /\ branch' \in [Branches -> [at : {"new", "calling"} \cup Ended, calls : Nat]]
      /\ branch'[b].at = at
      /\ \A c \in Branches \ {b} : branch'[c] = branch[c]
      /\ gather' \in {"pending"} \cup Ended
      /\ Ends'
  BY EndBranchKeeps DEF Inductive, Ended
<1>2. RunTypeOK'
  BY <1>1 DEF Inductive, RunTypeOK
<1>3. Own'
  BY <1>1 DEF Inductive, Own
<1>4. Doom'
  BY <1>1 DEF Inductive, Doom, Ended
<1>5. Heard'
  <2>1. NoneFailed' => NoneFailed
    BY <1>1 DEF NoneFailed, Ended
  <2>2. QED
    BY <2>1 DEF Inductive, Heard
<1>6. QED
  BY <1>1, <1>2, <1>3, <1>4, <1>5 DEF Inductive

LEMMA LaunchKeeps ==
    ASSUME Inductive, NEW b \in Branches, Launch(b)
    PROVE  Inductive'
<1>1. CASE Send(b)
  <2>1. /\ branch' \in [Branches -> [at : {"new", "calling"} \cup Ended, calls : Nat]]
        /\ branch'[b] = [at |-> "calling", calls |-> branch[b].calls + 1]
        /\ \A c \in Branches \ {b} : branch'[c] = branch[c]
        /\ gather' \in {"pending"} \cup Ended
        /\ Ends' /\ Doom' /\ Heard'
    BY <1>1, SendKeeps DEF Launch
  <2>2. RunTypeOK'
    BY <2>1 DEF Launch, Inductive, RunTypeOK
  <2>3. Own'
    <3>1. branch'[b].at = "calling" /\ branch'[b].calls = 1
      BY <2>1 DEF Launch, Inductive, Own
    <3>2. UNCHANGED <<steps, result>>
      BY DEF Launch
    <3>3. QED
      BY BranchesCall, <2>1, <3>1, <3>2 DEF Inductive, Own
  <2>4. QED
    BY <2>1, <2>2, <2>3 DEF Inductive
<1>2. CASE EndBranch(b, "failed") /\ UNCHANGED <<sent, seen>>
  BY <1>2, EndKeeps DEF Launch, Ended
<1>3. QED
  BY <1>1, <1>2 DEF Launch

LEMMA ReturnKeeps ==
    ASSUME Inductive, NEW b \in Branches, Return(b)
    PROVE  Inductive'
<1> DEFINE k == branch[b].calls
<1>1. /\ k \in 1..Depth /\ branch[b].at = "calling" /\ b \notin doomed
      /\ \A n \in 1..(k - 1) : steps[b][n] = b
  BY DEF Return, Inductive, Own
<1>2. /\ steps' \in [Branches -> [1..Depth -> Branches \cup {NoBranch}]]
      /\ \A n \in 1..k : steps'[b][n] = b
      /\ \A c \in Branches \ {b} : steps'[c] = steps[c]
  <2>1. steps' = [steps EXCEPT ![b] = [steps[b] EXCEPT ![k] = b]]
    BY DEF Return, Scope
  <2>2. [steps[b] EXCEPT ![k] = b] \in [1..Depth -> Branches \cup {NoBranch}]
    BY <1>1 DEF Inductive, RunTypeOK
  <2>3. \A n \in 1..k : [steps[b] EXCEPT ![k] = b][n] = b
    BY BranchesCall, <1>1 DEF Inductive, RunTypeOK
  <2>4. QED
    BY <2>1, <2>2, <2>3 DEF Inductive, RunTypeOK
<1>3. CASE k < Depth
  <2>1. Send(b) /\ UNCHANGED <<kind, doomed, interrupted, answer, result, event>>
    BY <1>3 DEF Return
  <2>2. /\ branch' \in [Branches -> [at : {"new", "calling"} \cup Ended, calls : Nat]]
        /\ branch'[b] = [at |-> "calling", calls |-> k + 1]
        /\ \A c \in Branches \ {b} : branch'[c] = branch[c]
        /\ gather' \in {"pending"} \cup Ended
        /\ Ends' /\ Doom' /\ Heard'
    BY <1>1, <2>1, SendKeeps
  <2>3. RunTypeOK'
    BY <1>2, <2>1, <2>2 DEF Inductive, RunTypeOK
  <2>4. Own'
    <3>1. k + 1 \in 1..Depth /\ 1..((k + 1) - 1) = 1..k
      BY BranchesCall, <1>1, <1>3
    <3>2. branch'[b].at = "calling" /\ branch'[b].calls = k + 1
      BY <2>2
    <3>3. \A n \in 1..(branch'[b].calls - 1) : steps'[b][n] = b
      BY <1>2, <3>1, <3>2
    <3>4. QED
      BY <1>2, <2>1, <2>2, <3>1, <3>2, <3>3 DEF Inductive, Own
  <2>5. QED
    BY <2>2, <2>3, <2>4 DEF Inductive
<1>4. CASE ~(k < Depth)
  <2>1. /\ EndBranch(b, "returned")
        /\ result' = [result EXCEPT ![b] = steps'[b]]
        /\ UNCHANGED <<kind, doomed, interrupted, answer, sent, seen, event>>
    BY <1>4 DEF Return, Scope
  <2>2. /\ branch' \in [Branches -> [at : {"new", "calling"} \cup Ended, calls : Nat]]
        /\ branch'[b].at = "returned"
        /\ \A c \in Branches \ {b} : branch'[c] = branch[c]
        /\ gather' \in {"pending"} \cup Ended
        /\ Ends'
    BY <1>1, <2>1, EndBranchKeeps DEF Inductive, Ended
  <2>3. /\ result' \in [Branches -> [1..Depth -> Branches \cup {NoBranch}]]
        /\ result'[b] = steps'[b]
        /\ \A c \in Branches \ {b} : result'[c] = result[c]
    BY <1>2, <2>1 DEF Inductive, RunTypeOK
  <2>4. RunTypeOK'
    BY <1>2, <2>1, <2>2, <2>3 DEF Inductive, RunTypeOK
  <2>5. Own'
    <3>1. k = Depth
      BY BranchesCall, <1>1, <1>4
    <3>2. \A n \in 1..Depth : result'[b][n] = b
      BY <1>2, <2>3, <3>1
    <3>3. QED
      BY <1>2, <2>2, <2>3, <3>2 DEF Inductive, Own
  <2>6. Doom'
    BY <2>1, <2>2 DEF Inductive, Doom, Ended
  <2>7. Heard'
    <3>1. NoneFailed' => NoneFailed
      BY <1>1, <2>2 DEF NoneFailed
    <3>2. QED
      BY <2>1, <3>1 DEF Inductive, Heard
  <2>8. QED
    BY <2>2, <2>4, <2>5, <2>6, <2>7 DEF Inductive
<1>5. QED
  BY <1>3, <1>4

LEMMA CancelKeeps ==
    ASSUME Inductive, CancelCall
    PROVE  Inductive'
<1>1. UNCHANGED <<kind, branch, steps, gather, answer, result, sent, seen, event>>
  BY DEF CancelCall
<1>2. RunTypeOK'
  BY <1>1 DEF CancelCall, Inductive, RunTypeOK
<1>3. Own' /\ Ends' /\ Heard'
  BY <1>1 DEF Inductive, Own, Ends, Heard, NoneFailed
<1>4. Doom'
  <2>1. \A b \in Branches : branch[b].at # "cancelled"
    BY DEF CancelCall, Inductive, Doom
  <2>2. \/ doomed' = {b \in Branches : branch[b].at \notin Ended}
        \/ doomed' = {}
    BY DEF CancelCall
  <2>3. QED
    BY <1>1, <2>1, <2>2 DEF Doom
<1>5. QED
  BY <1>2, <1>3, <1>4 DEF Inductive

LEMMA AnswerKeeps ==
    ASSUME Inductive, Answer
    PROVE  Inductive'
<1>1. UNCHANGED <<kind, branch, steps, doomed, interrupted, gather, result, sent, seen>>
  BY DEF Answer
<1>2. /\ answer = "none" /\ gather # "pending"
      /\ answer' \in {"success", "failed", "cancelled"}
      /\ answer' = "success" => gather = "returned"
      /\ event' \subseteq {seen}
  BY DEF Answer, FinishSpan, Inductive, RunTypeOK, Ended
<1>3. RunTypeOK'
  BY <1>1, <1>2 DEF Inductive, RunTypeOK
<1>4. Own' /\ Doom'
  BY <1>1 DEF Inductive, Own, Doom
<1>5. Ends'
  BY <1>1, <1>2 DEF Inductive, Ends
<1>6. Heard'
  BY <1>1, <1>2 DEF Inductive, Heard
<1>7. QED
  BY <1>3, <1>4, <1>5, <1>6 DEF Inductive

LEMMA NextKeeps == Inductive /\ [RunNext]_runVars => Inductive'
<1> SUFFICES ASSUME Inductive, [RunNext]_runVars PROVE Inductive'
  OBVIOUS
<1>1. ASSUME NEW b \in Branches, Launch(b) PROVE Inductive'
  BY <1>1, LaunchKeeps
<1>2. ASSUME NEW b \in Branches, Return(b) PROVE Inductive'
  BY <1>2, ReturnKeeps
<1>3. ASSUME NEW b \in Branches, Fail(b) PROVE Inductive'
  BY <1>3, EndKeeps DEF Fail, Ended
<1>4. ASSUME NEW b \in Branches, Die(b) PROVE Inductive'
  BY <1>4, EndKeeps DEF Die
<1>5. ASSUME CancelCall PROVE Inductive'
  BY <1>5, CancelKeeps
<1>6. ASSUME Answer PROVE Inductive'
  BY <1>6, AnswerKeeps
<1>7. ASSUME UNCHANGED runVars PROVE Inductive'
  BY <1>7 DEF runVars, Inductive, RunTypeOK, Own, Ends, Doom, Heard, NoneFailed
<1>8. QED
  BY <1>1, <1>2, <1>3, <1>4, <1>5, <1>6, <1>7 DEF RunNext, Done

LEMMA Invariance == RunSpec => []Inductive
<1>1. RunInit => Inductive
  BY InitHolds
<1>2. Inductive /\ [RunNext]_runVars => Inductive'
  BY NextKeeps
<1>3. QED
  BY <1>1, <1>2, PTL DEF RunSpec

-----------------------------------------------------------------------------
(* The theorems                                                            *)

\* Every task, context and future is in a state the executor knows
\* (_ExecutionContext, executor.py:71).
THEOREM RunsAreTyped == RunSpec => []RunTypeOK
<1>1. Inductive => RunTypeOK
  BY DEF Inductive
<1>2. QED
  BY <1>1, Invariance, PTL

\* However many branches run and whoever fails or cancels, an answer is made of
\* each branch's own values, and unless a branch failed the audit event names
\* every operation that was executed (asyncio.gather, executor.py:236 and 256).
THEOREM AnswersAreAccounted == RunSpec => []AnswerIsAccounted
<1>1. Inductive => AnswerIsAccounted
  <2> SUFFICES ASSUME Inductive PROVE AnswerIsAccounted
    OBVIOUS
  <2>1. answer = "success" => \A b \in Branches, n \in 1..Depth : result[b][n] = b
    BY DEF Inductive, Ends, Own
  <2>2. NoneFailed => \A e \in event : sent \subseteq e
    BY DEF Inductive, Heard
  <2>3. QED
    BY <2>1, <2>2 DEF AnswerIsAccounted, NoneFailed
<1>2. QED
  BY <1>1, Invariance, PTL

-----------------------------------------------------------------------------
(* Induction and recursion over nested workflows                            *)

\* Induction on the naturals, for a set in the place of a predicate.
LEMMA Counting ==
    ASSUME NEW S, 0 \in S, \A n \in Nat : n \in S => n + 1 \in S
    PROVE  Nat \subseteq S
<1> SUFFICES ASSUME Nat \ S # {} PROVE FALSE
  OBVIOUS
<1>1. IsWellFoundedOn(OpToRel(<, Nat), Nat)
  BY NatLessThanWellFounded
<1>2. PICK x \in Nat \ S : \A y \in Nat \ S : ~ (<<y, x>> \in OpToRel(<, Nat))
  BY <1>1, WFMin
<1>3. \A y \in Nat \ S : ~ (y < x)
  BY <1>2 DEF OpToRel
<1>4. x # 0 /\ x - 1 \in Nat /\ x - 1 < x
  OBVIOUS
<1>5. x - 1 \in S
  BY <1>3, <1>4
<1> QED
  BY <1>4, <1>5

\* What holds of a workflow when it holds of all the smaller ones holds of every workflow.
LEMMA NestedInduction ==
    ASSUME NEW S,
           \A w \in Workflows :
              (\A v \in Workflows : Size[v] < Size[w] => v \in S) => w \in S
    PROVE  Workflows \subseteq S
<1> DEFINE Below == {n \in Nat : \A w \in Workflows : Size[w] < n => w \in S}
<1>1. Size \in [Workflows -> Nat]
  BY WorkflowsAreNested
<1>2. 0 \in Below
  BY <1>1
<1>3. ASSUME NEW n \in Nat, n \in Below PROVE n + 1 \in Below
  <2>1. ASSUME NEW w \in Workflows, Size[w] < n + 1 PROVE w \in S
    <3>1. \A v \in Workflows : Size[v] < Size[w] => v \in S
      BY <1>1, <1>3, <2>1
    <3> QED
      BY <3>1
  <2> QED
    BY <2>1
<1>4. Nat \subseteq Below
  <2> HIDE DEF Below
  <2> QED
    BY <1>2, <1>3, Counting
<1>5. ASSUME NEW w \in Workflows PROVE w \in S
  <2>1. Size[w] + 1 \in Nat /\ Size[w] < Size[w] + 1
    BY <1>1
  <2> QED
    BY <1>4, <2>1
<1> QED
  BY <1>5

\* What G says of a workflow rests on the smaller ones.
RestsOnSmaller(G, V) ==
    /\ G \in [Workflows -> [[Workflows -> V] -> V]]
    /\ \A w \in Workflows : \A h, k \in [Workflows -> V] :
          (\A v \in Workflows : Size[v] < Size[w] => h[v] = k[v]) => G[w][h] = G[w][k]

\* A function may be defined by what it is on smaller workflows.
LEMMA NestedRecursion ==
    ASSUME NEW V, V # {}, NEW G, RestsOnSmaller(G, V)
    PROVE  \E f \in [Workflows -> V] : \A w \in Workflows : f[w] = G[w][f]
<1> USE DEF RestsOnSmaller
<1> DEFINE Approximates(f, n) == \A w \in Workflows : Size[w] < n => f[w] = G[w][f]
           Reached == {n \in Nat : \E f \in [Workflows -> V] : Approximates(f, n)}
<1>1. Size \in [Workflows -> Nat]
  BY WorkflowsAreNested
<1>2. 0 \in Reached
  <2>1. PICK v : v \in V
    OBVIOUS
  <2>2. [w \in Workflows |-> v] \in [Workflows -> V]
    BY <2>1
  <2>3. \A w \in Workflows : ~(Size[w] < 0)
    BY <1>1
  <2> QED
    BY <2>2, <2>3
<1>3. ASSUME NEW n \in Nat, n \in Reached PROVE n + 1 \in Reached
  <2>1. PICK f \in [Workflows -> V] : Approximates(f, n)
    BY <1>3
  <2> DEFINE g == [w \in Workflows |-> G[w][f]]
  <2>2. g \in [Workflows -> V]
    OBVIOUS
  <2>3. ASSUME NEW w \in Workflows, Size[w] < n + 1 PROVE g[w] = G[w][g]
    <3>1. \A v \in Workflows : Size[v] < Size[w] => f[v] = g[v]
      BY <1>1, <2>1, <2>3
    <3>2. G[w][f] = G[w][g]
      <4> HIDE DEF g
      <4> QED
        BY <3>1, <2>2
    <3> QED
      BY <3>2
  <2>4. Approximates(g, n + 1)
    BY <2>3
  <2> HIDE DEF g, Approximates
  <2> QED
    BY <2>2, <2>4
<1>4. Nat \subseteq Reached
  <2> HIDE DEF Reached
  <2> QED
    BY <1>2, <1>3, Counting
<1>5. ASSUME NEW m \in Nat, NEW n \in Nat,
             NEW f \in [Workflows -> V], NEW g \in [Workflows -> V],
             Approximates(f, m), Approximates(g, n),
             NEW w \in Workflows, Size[w] < m, Size[w] < n
      PROVE  f[w] = g[w]
  <2> DEFINE Same == {v \in Workflows : Size[v] < m /\ Size[v] < n => f[v] = g[v]}
  <2>1. ASSUME NEW u \in Workflows, \A v \in Workflows : Size[v] < Size[u] => v \in Same
        PROVE  u \in Same
    <3> SUFFICES ASSUME Size[u] < m, Size[u] < n PROVE f[u] = g[u]
      OBVIOUS
    <3>1. \A v \in Workflows : Size[v] < Size[u] => f[v] = g[v]
      BY <1>1, <2>1
    <3>2. G[u][f] = G[u][g]
      BY <3>1
    <3> QED
      BY <1>5, <3>2
  <2>2. Workflows \subseteq Same
    <3> HIDE DEF Same
    <3> QED
      BY <2>1, NestedInduction
  <2> QED
    BY <1>5, <2>2
<1> DEFINE F == [n \in Nat |-> CHOOSE f \in [Workflows -> V] : Approximates(f, n)]
           limit == [w \in Workflows |-> F[Size[w] + 1][w]]
<1>6. \A n \in Nat : F[n] \in [Workflows -> V] /\ Approximates(F[n], n)
  <2> SUFFICES ASSUME NEW n \in Nat
               PROVE  F[n] \in [Workflows -> V] /\ Approximates(F[n], n)
    OBVIOUS
  <2>1. \E f \in [Workflows -> V] : Approximates(f, n)
    BY <1>4
  <2> HIDE DEF Approximates
  <2> QED
    BY <2>1
<1> HIDE DEF F
<1>7. limit \in [Workflows -> V]
  BY <1>1, <1>6
<1>8. ASSUME NEW w \in Workflows PROVE limit[w] = G[w][limit]
  <2> DEFINE n == Size[w] + 1
  <2>1. n \in Nat /\ Size[w] < n
    BY <1>1
  <2>2. ASSUME NEW v \in Workflows, Size[v] < Size[w] PROVE limit[v] = F[n][v]
    <3>1. Size[v] + 1 \in Nat /\ Size[v] < Size[v] + 1 /\ Size[v] < n
      BY <1>1, <2>1, <2>2
    <3>2. F[Size[v] + 1][v] = F[n][v]
      <4> DEFINE k == Size[v] + 1
      <4>1. /\ F[k] \in [Workflows -> V] /\ Approximates(F[k], k)
            /\ F[n] \in [Workflows -> V] /\ Approximates(F[n], n)
        BY <1>6, <2>1, <3>1
      <4>2. k \in Nat /\ n \in Nat /\ Size[v] < k /\ Size[v] < n
        BY <2>1, <3>1
      <4> HIDE DEF n, k, Approximates, RestsOnSmaller, limit
      <4>3. F[k][v] = F[n][v]
        BY <1>5, <2>2, <4>1, <4>2
      <4> QED
        BY <4>3 DEF k
    <3> QED
      BY <3>2
  <2>3. G[w][limit] = G[w][F[n]]
    <3> HIDE DEF limit, n
    <3> QED
      BY <1>6, <1>7, <2>1, <2>2
  <2>4. F[n][w] = G[w][F[n]]
    BY <1>6, <2>1
  <2> QED
    BY <2>3, <2>4
<1> HIDE DEF limit
<1> QED
  BY <1>7, <1>8

\* What a workflow that goes on is made of.
LEMMA Nested ==
    ASSUME NEW w \in Workflows, w # <<>>
    PROVE  /\ IsStep(Head(w)) /\ Tail(w) \in Workflows /\ Size[Tail(w)] < Size[w]
           /\ Head(w).action = "branch" =>
                 /\ Head(w).then \in Workflows /\ Size[Head(w).then] < Size[w]
                 /\ Head(w).otherwise \in Workflows /\ Size[Head(w).otherwise] < Size[w]
           /\ Head(w).action = "parallel" =>
                 Head(w).children \in Workflows /\ Size[Head(w).children] < Size[w]
           /\ Head(w).action = "foreach" =>
                 Head(w).workflow \in Workflows /\ Size[Head(w).workflow] < Size[w]
BY WorkflowsAreNested DEF Bodies

\* The calls in the workflows, the places they have, and what the compiler says of scopes.
CallsOf == {Head(w) : w \in {v \in Workflows \ {<<>>} : Head(v).action = "call"}}
Sites == [call : CallsOf, contained : BOOLEAN]
Requires == [alternatives : SUBSET SUBSET OperationScopes, always : SUBSET OperationScopes,
             feasible : SUBSET OperationScopes, structural : SUBSET OperationScopes]

\* The call sites of a workflow.
LEMMA CallSitesDefined ==
    /\ CallSites \in [Workflows -> SUBSET Sites]
    /\ \A w \in Workflows :
          CallSites[w] = IF w = <<>> THEN {}
                         ELSE SitesOf(Head(w), CallSites) \cup CallSites[Tail(w)]
<1> DEFINE V == SUBSET Sites
           Body(h, w) == IF w = <<>> THEN {} ELSE SitesOf(Head(w), h) \cup h[Tail(w)]
           G == [w \in Workflows |-> [h \in [Workflows -> V] |-> Body(h, w)]]
<1>1. ASSUME NEW w \in Workflows, NEW h,
             \A v \in Workflows : Size[v] < Size[w] => h[v] \in V
      PROVE  Body(h, w) \in V
  <2>1. CASE w = <<>>
    BY <2>1
  <2>2. CASE w # <<>>
    <3>1. SitesOf(Head(w), h) \in SUBSET Sites
      <4>1. CASE Head(w).action = "call"
        BY <2>2, <4>1 DEF SitesOf, Sites, CallsOf
      <4>2. \A site \in Sites : [call |-> site.call, contained |-> TRUE] \in Sites
        BY DEF Sites
      <4>3. \A sites \in SUBSET Sites : Contained(sites) \in SUBSET Sites
        BY <4>2 DEF Contained
      <4> QED
        BY <1>1, <2>2, <4>1, <4>3, Nested DEF SitesOf, IsStep
    <3> QED
      BY <1>1, <2>2, <3>1, Nested
  <2> QED
    BY <2>1, <2>2
<1>2. ASSUME NEW w \in Workflows, NEW h, NEW k,
             \A v \in Workflows : Size[v] < Size[w] => h[v] = k[v]
      PROVE  Body(h, w) = Body(k, w)
  <2>1. CASE w = <<>>
    BY <2>1
  <2>2. CASE w # <<>>
    BY <1>2, <2>2, Nested DEF SitesOf
  <2> QED
    BY <2>1, <2>2
<1>3. V # {}
  OBVIOUS
<1> HIDE DEF V, Body
<1>4. G \in [Workflows -> [[Workflows -> V] -> V]]
  BY <1>1
<1>5. RestsOnSmaller(G, V)
  BY <1>2, <1>4 DEF RestsOnSmaller
<1>6. PICK f \in [Workflows -> V] : \A w \in Workflows : f[w] = G[w][f]
  <2> HIDE DEF G
  <2> QED
    BY <1>3, <1>5, NestedRecursion
<1>7. f = [w \in Workflows |-> Body(f, w)]
  BY <1>6
<1>8. CallSites = [w \in Workflows |-> Body(CallSites, w)]
  BY <1>7 DEF CallSites, Body
<1>9. Workflows \subseteq {w \in Workflows : CallSites[w] \in V}
  <2> DEFINE S == {w \in Workflows : CallSites[w] \in V}
  <2>1. ASSUME NEW w \in Workflows, \A v \in Workflows : Size[v] < Size[w] => v \in S
        PROVE  w \in S
    BY <1>1, <1>8, <2>1
  <2>2. Workflows \subseteq S
    <3> HIDE DEF S
    <3> QED
      BY <2>1, NestedInduction
  <2> QED
    BY <2>2
<1> QED
  BY <1>8, <1>9 DEF V, Body

\* The mutations on the paths of a workflow.
LEMMA MutationPathCountsDefined ==
    /\ MutationPathCounts \in [Workflows -> SUBSET Nat]
    /\ \A w \in Workflows :
          MutationPathCounts[w] = IF w = <<>> THEN {0}
                     ELSE SumCounts(CountsOf(Head(w), MutationPathCounts),
                                       MutationPathCounts[Tail(w)])
<1> DEFINE V == SUBSET Nat
           Body(h, w) == IF w = <<>> THEN {0}
                     ELSE SumCounts(CountsOf(Head(w), h), h[Tail(w)])
           G == [w \in Workflows |-> [h \in [Workflows -> V] |-> Body(h, w)]]
<1>1. ASSUME NEW w \in Workflows, NEW h,
             \A v \in Workflows : Size[v] < Size[w] => h[v] \in V
      PROVE  Body(h, w) \in V
  <2>1. CASE w = <<>>
    BY <2>1
  <2>2. CASE w # <<>>
    <3>1. CountsOf(Head(w), h) \in SUBSET Nat
      <4>1. CASE Head(w).action = "foreach"
        <5>1. \A n \in h[Head(w).workflow] : n \in Nat /\ n * Head(w).most \in Nat
          BY <1>1, <2>2, <4>1, Nested DEF IsStep
        <5> QED
          BY <4>1, <5>1 DEF CountsOf
      <4> QED
        BY <1>1, <2>2, <4>1, Nested DEF CountsOf, IsStep
    <3>2. h[Tail(w)] \in SUBSET Nat
      BY <1>1, <2>2, Nested
    <3> QED
      BY <2>2, <3>1, <3>2 DEF SumCounts
  <2> QED
    BY <2>1, <2>2
<1>2. ASSUME NEW w \in Workflows, NEW h, NEW k,
             \A v \in Workflows : Size[v] < Size[w] => h[v] = k[v]
      PROVE  Body(h, w) = Body(k, w)
  <2>1. CASE w = <<>>
    BY <2>1
  <2>2. CASE w # <<>>
    BY <1>2, <2>2, Nested DEF CountsOf
  <2> QED
    BY <2>1, <2>2
<1>3. V # {}
  OBVIOUS
<1> HIDE DEF V, Body
<1>4. G \in [Workflows -> [[Workflows -> V] -> V]]
  BY <1>1
<1>5. RestsOnSmaller(G, V)
  BY <1>2, <1>4 DEF RestsOnSmaller
<1>6. PICK f \in [Workflows -> V] : \A w \in Workflows : f[w] = G[w][f]
  <2> HIDE DEF G
  <2> QED
    BY <1>3, <1>5, NestedRecursion
<1>7. f = [w \in Workflows |-> Body(f, w)]
  BY <1>6
<1>8. MutationPathCounts = [w \in Workflows |-> Body(MutationPathCounts, w)]
  BY <1>7 DEF MutationPathCounts, Body
<1>9. Workflows \subseteq {w \in Workflows : MutationPathCounts[w] \in V}
  <2> DEFINE S == {w \in Workflows : MutationPathCounts[w] \in V}
  <2>1. ASSUME NEW w \in Workflows, \A v \in Workflows : Size[v] < Size[w] => v \in S
        PROVE  w \in S
    BY <1>1, <1>8, <2>1
  <2>2. Workflows \subseteq S
    <3> HIDE DEF S
    <3> QED
      BY <2>1, NestedInduction
  <2> QED
    BY <2>2
<1> QED
  BY <1>8, <1>9 DEF V, Body

\* What a workflow needs.
LEMMA AnalyzeStepsDefined ==
    /\ AnalyzeSteps \in [Workflows -> Requires]
    /\ \A w \in Workflows :
          AnalyzeSteps[w] = IF w = <<>> THEN NoNeeds
               ELSE CombineRequired(AnalyzeStep(Head(w), AnalyzeSteps), AnalyzeSteps[Tail(w)])
<1> DEFINE V == Requires
           Body(h, w) == IF w = <<>> THEN NoNeeds
               ELSE CombineRequired(AnalyzeStep(Head(w), h), h[Tail(w)])
           G == [w \in Workflows |-> [h \in [Workflows -> V] |-> Body(h, w)]]
<1>1. ASSUME NEW w \in Workflows, NEW h,
             \A v \in Workflows : Size[v] < Size[w] => h[v] \in V
      PROVE  Body(h, w) \in V
  <2>1. CASE w = <<>>
    BY <2>1 DEF NoNeeds, Needs, Requires
  <2>2. CASE w # <<>>
    <3>1. AnalyzeStep(Head(w), h) \in Requires
      <4>1. CASE Head(w).action = "foreach"
        <5>1. h[Head(w).workflow] \in Requires
          BY <1>1, <2>2, <4>1, Nested
        <5> QED
          BY <4>1, <5>1 DEF AnalyzeStep, AnalyzeForeach, MinimalAntichain, Needs, Requires
      <4>2. CASE Head(w).action = "branch"
        <5>1. h[Head(w).then] \in Requires /\ h[Head(w).otherwise] \in Requires
          BY <1>1, <2>2, <4>2, Nested
        <5> QED
          BY <4>2, <5>1 DEF AnalyzeStep, AnalyzeBranch, MinimalAntichain, Needs, Requires
      <4> QED
        BY <1>1, <2>2, <4>1, <4>2, Nested DEF AnalyzeStep, NoNeeds, Needs, Requires, IsStep
    <3>2. h[Tail(w)] \in Requires
      BY <1>1, <2>2, Nested
    <3> QED
      BY <2>2, <3>1, <3>2 DEF CombineRequired, Together, MinimalAntichain, Needs, Requires
  <2> QED
    BY <2>1, <2>2
<1>2. ASSUME NEW w \in Workflows, NEW h, NEW k,
             \A v \in Workflows : Size[v] < Size[w] => h[v] = k[v]
      PROVE  Body(h, w) = Body(k, w)
  <2>1. CASE w = <<>>
    BY <2>1
  <2>2. CASE w # <<>>
    BY <1>2, <2>2, Nested DEF AnalyzeStep
  <2> QED
    BY <2>1, <2>2
<1>3. NoNeeds \in V
  BY DEF NoNeeds, Needs, Requires
<1> HIDE DEF V, Body
<1>4. G \in [Workflows -> [[Workflows -> V] -> V]]
  BY <1>1
<1>5. RestsOnSmaller(G, V)
  BY <1>2, <1>4 DEF RestsOnSmaller
<1>6. PICK f \in [Workflows -> V] : \A w \in Workflows : f[w] = G[w][f]
  <2> HIDE DEF G
  <2> QED
    BY <1>3, <1>5, NestedRecursion
<1>7. f = [w \in Workflows |-> Body(f, w)]
  BY <1>6
<1>8. AnalyzeSteps = [w \in Workflows |-> Body(AnalyzeSteps, w)]
  BY <1>7 DEF AnalyzeSteps, Body
<1>9. Workflows \subseteq {w \in Workflows : AnalyzeSteps[w] \in V}
  <2> DEFINE S == {w \in Workflows : AnalyzeSteps[w] \in V}
  <2>1. ASSUME NEW w \in Workflows, \A v \in Workflows : Size[v] < Size[w] => v \in S
        PROVE  w \in S
    BY <1>1, <1>8, <2>1
  <2>2. Workflows \subseteq S
    <3> HIDE DEF S
    <3> QED
      BY <2>1, NestedInduction
  <2> QED
    BY <2>2
<1> QED
  BY <1>8, <1>9 DEF V, Body

\* The runs of a workflow.
LEMMA RunsDefined ==
    /\ Runs \in [Workflows -> SUBSET SUBSET SUBSET OperationScopes]
    /\ \A w \in Workflows :
          Runs[w] = IF w = <<>> THEN {{}} ELSE Together(RunsOf(Head(w), Runs), Runs[Tail(w)])
<1> DEFINE V == SUBSET SUBSET SUBSET OperationScopes
           Body(h, w) == IF w = <<>> THEN {{}} ELSE Together(RunsOf(Head(w), h), h[Tail(w)])
           G == [w \in Workflows |-> [h \in [Workflows -> V] |-> Body(h, w)]]
<1>1. ASSUME NEW w \in Workflows, NEW h,
             \A v \in Workflows : Size[v] < Size[w] => h[v] \in V
      PROVE  Body(h, w) \in V
  <2>1. CASE w = <<>>
    BY <2>1
  <2>2. CASE w # <<>>
    <3>1. RunsOf(Head(w), h) \in SUBSET SUBSET SUBSET OperationScopes
      BY <1>1, <2>2, Nested DEF RunsOf, IsStep
    <3>2. h[Tail(w)] \in SUBSET SUBSET SUBSET OperationScopes
      BY <1>1, <2>2, Nested
    <3> QED
      BY <2>2, <3>1, <3>2 DEF Together
  <2> QED
    BY <2>1, <2>2
<1>2. ASSUME NEW w \in Workflows, NEW h, NEW k,
             \A v \in Workflows : Size[v] < Size[w] => h[v] = k[v]
      PROVE  Body(h, w) = Body(k, w)
  <2>1. CASE w = <<>>
    BY <2>1
  <2>2. CASE w # <<>>
    BY <1>2, <2>2, Nested DEF RunsOf
  <2> QED
    BY <2>1, <2>2
<1>3. V # {}
  OBVIOUS
<1> HIDE DEF V, Body
<1>4. G \in [Workflows -> [[Workflows -> V] -> V]]
  BY <1>1
<1>5. RestsOnSmaller(G, V)
  BY <1>2, <1>4 DEF RestsOnSmaller
<1>6. PICK f \in [Workflows -> V] : \A w \in Workflows : f[w] = G[w][f]
  <2> HIDE DEF G
  <2> QED
    BY <1>3, <1>5, NestedRecursion
<1>7. f = [w \in Workflows |-> Body(f, w)]
  BY <1>6
<1>8. Runs = [w \in Workflows |-> Body(Runs, w)]
  BY <1>7 DEF Runs, Body
<1>9. Workflows \subseteq {w \in Workflows : Runs[w] \in V}
  <2> DEFINE S == {w \in Workflows : Runs[w] \in V}
  <2>1. ASSUME NEW w \in Workflows, \A v \in Workflows : Size[v] < Size[w] => v \in S
        PROVE  w \in S
    BY <1>1, <1>8, <2>1
  <2>2. Workflows \subseteq S
    <3> HIDE DEF S
    <3> QED
      BY <2>1, NestedInduction
  <2> QED
    BY <2>2
<1> QED
  BY <1>8, <1>9 DEF V, Body

-----------------------------------------------------------------------------
(* The mutations of a workflow                                              *)

\* A workflow has a path, and a path has a number of mutations.
LEMMA CountsAreNatural ==
    \A w \in Workflows : MutationPathCounts[w] \subseteq Nat /\ MutationPathCounts[w] # {}
<1> DEFINE S == {w \in Workflows : MutationPathCounts[w] # {}}
<1>1. ASSUME NEW w \in Workflows, \A v \in Workflows : Size[v] < Size[w] => v \in S
      PROVE  w \in S
  <2>1. CASE w = <<>>
    BY <2>1, MutationPathCountsDefined
  <2>2. CASE w # <<>>
    <3>1. CountsOf(Head(w), MutationPathCounts) # {}
      BY <1>1, <2>2, Nested DEF CountsOf, IsStep
    <3>2. MutationPathCounts[Tail(w)] # {}
      BY <1>1, <2>2, Nested
    <3>3. MutationPathCounts[w]
             = SumCounts(CountsOf(Head(w), MutationPathCounts), MutationPathCounts[Tail(w)])
      BY <2>2, MutationPathCountsDefined
    <3>4. \A left, right : left # {} /\ right # {} => SumCounts(left, right) # {}
      BY DEF SumCounts
    <3> QED
      BY <3>1, <3>2, <3>3, <3>4
  <2> QED
    BY <2>1, <2>2
<1>2. Workflows \subseteq S
  <2> HIDE DEF S
  <2> QED
    BY <1>1, NestedInduction
<1> QED
  BY <1>2, MutationPathCountsDefined

\* Two sets of counts whose sums are all one have it in one of them.
LEMMA SumOfCounts ==
    ASSUME NEW A \in SUBSET Nat, A # {}, NEW B \in SUBSET Nat, B # {}
    PROVE  /\ SumCounts(A, B) = {0} => A = {0} /\ B = {0}
           /\ SumCounts(A, B) = {1} => (A = {1} /\ B = {0}) \/ (A = {0} /\ B = {1})
<1>1. \A a \in A, b \in B : a + b \in SumCounts(A, B)
  BY DEF SumCounts
<1>2. PICK a \in A, b \in B : TRUE
  OBVIOUS
<1>3. ASSUME SumCounts(A, B) = {0} PROVE A = {0} /\ B = {0}
  <2>1. \A x \in A, y \in B : x + y = 0
    BY <1>1, <1>3
  <2>2. \A x \in A, y \in B : x = 0 /\ y = 0
    BY <2>1
  <2> QED
    BY <2>2
<1>4. ASSUME SumCounts(A, B) = {1} PROVE (A = {1} /\ B = {0}) \/ (A = {0} /\ B = {1})
  <2>1. \A x \in A, y \in B : x + y = 1
    BY <1>1, <1>4
  <2>2. \A x \in A : x = 1 - b
    BY <2>1
  <2>3. \A y \in B : y = 1 - a
    BY <2>1
  <2>4. A = {a} /\ B = {b}
    BY <2>2, <2>3
  <2>5. a + b = 1
    BY <2>1
  <2>6. a \in Nat /\ b \in Nat
    OBVIOUS
  <2>7. (a = 1 /\ b = 0) \/ (a = 0 /\ b = 1)
    BY <2>5, <2>6
  <2> QED
    BY <2>4, <2>7
<1> QED
  BY <1>3, <1>4

\* What is inside a step that runs its calls at once is contained.
LEMMA SitesOfParts ==
    ASSUME NEW w \in Workflows, w # <<>>
    PROVE  /\ CallSites[Tail(w)] \subseteq CallSites[w]
           /\ Head(w).action = "call" => [call |-> Head(w), contained |-> FALSE] \in CallSites[w]
           /\ Head(w).action = "branch" =>
                 CallSites[Head(w).then] \cup CallSites[Head(w).otherwise] \subseteq CallSites[w]
           /\ Head(w).action = "parallel" =>
                 \A site \in CallSites[Head(w).children] :
                    [call |-> site.call, contained |-> TRUE] \in CallSites[w]
           /\ Head(w).action = "foreach" =>
                 \A site \in CallSites[Head(w).workflow] :
                    [call |-> site.call, contained |-> TRUE] \in CallSites[w]
<1>1. CallSites[w] = SitesOf(Head(w), CallSites) \cup CallSites[Tail(w)]
  BY CallSitesDefined
<1>2. ASSUME NEW body, NEW site \in CallSites[body]
      PROVE  [call |-> site.call, contained |-> TRUE] \in Contained(CallSites[body])
  BY DEF Contained
<1>3. CASE Head(w).action = "parallel"
  BY <1>1, <1>2, <1>3, Nested DEF SitesOf
<1>4. CASE Head(w).action = "foreach"
  BY <1>1, <1>2, <1>4, Nested DEF SitesOf
<1> QED
  BY <1>1, <1>3, <1>4 DEF SitesOf

\* A call of the workflow, however deep, is a mutation.
Mutates(w) == \E site \in CallSites[w] : site.call.mutates

\* A workflow that mutates nowhere has no path with a mutation.
LEMMA NoMutation ==
    \A w \in Workflows : ~Mutates(w) => MutationPathCounts[w] = {0}
<1> DEFINE S == {w \in Workflows : ~Mutates(w) => MutationPathCounts[w] = {0}}
<1>1. ASSUME NEW w \in Workflows, \A v \in Workflows : Size[v] < Size[w] => v \in S
      PROVE  w \in S
  <2> SUFFICES ASSUME ~Mutates(w) PROVE MutationPathCounts[w] = {0}
    OBVIOUS
  <2>1. CASE w = <<>>
    BY <2>1, MutationPathCountsDefined
  <2>2. CASE w # <<>>
    <3>1. MutationPathCounts[w]
             = SumCounts(CountsOf(Head(w), MutationPathCounts), MutationPathCounts[Tail(w)])
      BY <2>2, MutationPathCountsDefined
    <3>2. /\ Head(w).action = "call" => ~Head(w).mutates
          /\ ~Mutates(Tail(w))
          /\ Head(w).action = "branch" => ~Mutates(Head(w).then) /\ ~Mutates(Head(w).otherwise)
          /\ Head(w).action = "parallel" => ~Mutates(Head(w).children)
          /\ Head(w).action = "foreach" => ~Mutates(Head(w).workflow)
      <4>1. \A c, b : [call |-> c, contained |-> b] \in CallSites[w] => ~c.mutates
        BY DEF Mutates
      <4>2. \A v : Mutates(v) => \E site \in CallSites[v] : site.call.mutates
        BY DEF Mutates
      <4>3. \A v : CallSites[v] \subseteq CallSites[w] => ~Mutates(v)
        BY DEF Mutates
      <4> QED
        BY <2>2, <4>1, <4>2, <4>3, SitesOfParts
    <3>3. MutationPathCounts[Tail(w)] = {0}
      BY <1>1, <2>2, <3>2, Nested
    <3>4. CountsOf(Head(w), MutationPathCounts) = {0}
      <4>1. CASE Head(w).action = "foreach"
        <5>1. MutationPathCounts[Head(w).workflow] = {0} /\ 0 * Head(w).most = 0
          BY <1>1, <2>2, <3>2, <4>1, Nested DEF IsStep
        <5> QED
          BY <4>1, <5>1 DEF CountsOf
      <4> QED
        BY <1>1, <2>2, <3>2, <4>1, Nested DEF CountsOf, IsStep
    <3> QED
      BY <3>1, <3>3, <3>4 DEF SumCounts
  <2> QED
    BY <2>1, <2>2
<1>2. Workflows \subseteq S
  <2> HIDE DEF S
  <2> QED
    BY <1>1, NestedInduction
<1> QED
  BY <1>2

-----------------------------------------------------------------------------
(* The scopes of a workflow                                                 *)

\* A set of naturals has a least element.
LEMMA LeastNatural ==
    ASSUME NEW S \in SUBSET Nat, S # {}
    PROVE  \E x \in S : \A y \in S : x <= y
<1>1. IsWellFoundedOn(OpToRel(<, Nat), Nat)
  BY NatLessThanWellFounded
<1>2. PICK x \in S : \A y \in S : ~ (<<y, x>> \in OpToRel(<, Nat))
  BY <1>1, WFMin
<1>3. \A y \in S : ~ (y < x)
  BY <1>2 DEF OpToRel
<1> QED
  BY <1>3

\* Every candidate has a minimal one inside.
LEMMA MinimalIsInside ==
    ASSUME NEW candidates \in SUBSET SUBSET OperationScopes, NEW c \in candidates
    PROVE  /\ MinimalAntichain(candidates) \subseteq candidates
           /\ \E s \in MinimalAntichain(candidates) : s \subseteq c
<1> DEFINE inside == {s \in candidates : s \subseteq c}
           sizes == {Cardinality(s) : s \in inside}
<1>1. \A s \in candidates : IsFiniteSet(s) /\ Cardinality(s) \in Nat
  BY WorkflowsAreNested, FS_Subset, FS_CardinalityType
<1>2. sizes \in SUBSET Nat /\ sizes # {}
  BY <1>1
<1>3. PICK s \in inside : \A t \in inside : Cardinality(s) <= Cardinality(t)
  <2>1. PICK least \in sizes : \A n \in sizes : least <= n
    <3> HIDE DEF sizes
    <3> QED
      BY <1>2, LeastNatural
  <2> QED
    BY <2>1
<1>4. ASSUME NEW t \in candidates, t \subseteq s PROVE t = s
  <2>1. t \in inside /\ Cardinality(s) <= Cardinality(t)
    BY <1>3, <1>4
  <2>2. Cardinality(t) <= Cardinality(s) /\ (Cardinality(t) = Cardinality(s) => t = s)
    BY <1>1, <1>4, FS_Subset
  <2> QED
    BY <1>1, <2>1, <2>2
<1> QED
  BY <1>3, <1>4 DEF MinimalAntichain

\* The needs of the compiler, one inside the other.
IsOrdered(needs) ==
    /\ needs.alternatives # {}
    /\ needs.always \subseteq needs.feasible /\ needs.feasible \subseteq needs.structural
    /\ \A a \in needs.alternatives : needs.always \subseteq a /\ a \subseteq needs.structural

\* What runs need, and what the compiler says they need.
Agrees(needs, runs) ==
    /\ runs # {}
    /\ UNION UNION runs = needs.feasible
    /\ \A a \in needs.alternatives : \E r \in runs : UNION r \subseteq a
    /\ \A r \in runs : \E a \in needs.alternatives : a \subseteq UNION r

\* The runs of a workflow, each as the scopes of the calls it meets.
RunSets == SUBSET SUBSET SUBSET OperationScopes

\* Steps one after the other.
LEMMA CombineAgrees ==
    ASSUME NEW left \in Requires, NEW right \in Requires, IsOrdered(left), IsOrdered(right)
    PROVE  /\ IsOrdered(CombineRequired(left, right))
           /\ \A p \in RunSets, q \in RunSets :
                 Agrees(left, p) /\ Agrees(right, q) =>
                     Agrees(CombineRequired(left, right), Together(p, q))
<1> DEFINE all == Together(left.alternatives, right.alternatives)
           some == MinimalAntichain(all)
<1>1. all \in SUBSET SUBSET OperationScopes
  BY DEF Together, Requires
<1>2. /\ CombineRequired(left, right).alternatives = some
      /\ CombineRequired(left, right).always = left.always \cup right.always
      /\ CombineRequired(left, right).feasible = left.feasible \cup right.feasible
      /\ CombineRequired(left, right).structural = left.structural \cup right.structural
  BY DEF CombineRequired, Needs
<1>3. \A s \in some : \E a \in left.alternatives, b \in right.alternatives : s = a \cup b
  BY DEF MinimalAntichain, Together
<1>4. \A a \in left.alternatives, b \in right.alternatives : \E s \in some : s \subseteq a \cup b
  <2> SUFFICES ASSUME NEW a \in left.alternatives, NEW b \in right.alternatives
               PROVE  \E s \in some : s \subseteq a \cup b
    OBVIOUS
  <2>1. a \cup b \in all
    BY DEF Together
  <2> HIDE DEF all
  <2> QED
    BY <1>1, <2>1, MinimalIsInside
<1> HIDE DEF all, some
<1>5. IsOrdered(CombineRequired(left, right))
  <2>1. some # {}
    BY <1>4 DEF IsOrdered
  <2>2. ASSUME NEW s \in some
        PROVE  /\ left.always \cup right.always \subseteq s
               /\ s \subseteq left.structural \cup right.structural
    <3>1. PICK a \in left.alternatives, b \in right.alternatives : s = a \cup b
      BY <1>3
    <3> QED
      BY <3>1 DEF IsOrdered
  <2>3. /\ left.always \cup right.always \subseteq left.feasible \cup right.feasible
        /\ left.feasible \cup right.feasible \subseteq left.structural \cup right.structural
    BY DEF IsOrdered
  <2> QED
    BY <1>2, <2>1, <2>2, <2>3 DEF IsOrdered
<1>6. ASSUME NEW p \in RunSets, NEW q \in RunSets, Agrees(left, p), Agrees(right, q)
      PROVE  Agrees(CombineRequired(left, right), Together(p, q))
  <2>1. Together(p, q) # {}
    <3>1. PICK r \in p, t \in q : TRUE
      BY <1>6 DEF Agrees
    <3>2. r \cup t \in Together(p, q)
      BY DEF Together
    <3> QED
      BY <3>2
  <2>2. UNION UNION Together(p, q) = left.feasible \cup right.feasible
    <3>1. PICK r \in p, t \in q : TRUE
      BY <1>6 DEF Agrees
    <3>2. UNION UNION Together(p, q) \subseteq (UNION UNION p) \cup (UNION UNION q)
      BY DEF Together
    <3>3. \A x \in p : x \cup t \in Together(p, q)
      BY DEF Together
    <3>4. \A y \in q : r \cup y \in Together(p, q)
      BY DEF Together
    <3>5. UNION UNION p \subseteq UNION UNION Together(p, q)
      BY <3>3
    <3>6. UNION UNION q \subseteq UNION UNION Together(p, q)
      BY <3>4
    <3>7. UNION UNION p = left.feasible /\ UNION UNION q = right.feasible
      BY <1>6 DEF Agrees
    <3> QED
      BY <3>2, <3>5, <3>6, <3>7
  <2>3. ASSUME NEW s \in some
        PROVE  \E r \in Together(p, q) : UNION r \subseteq s
    <3>1. PICK a \in left.alternatives, b \in right.alternatives : s = a \cup b
      BY <1>3
    <3>2. PICK x \in p : UNION x \subseteq a
      BY <1>6 DEF Agrees
    <3>3. PICK y \in q : UNION y \subseteq b
      BY <1>6 DEF Agrees
    <3>4. x \cup y \in Together(p, q) /\ UNION (x \cup y) \subseteq s
      BY <3>1, <3>2, <3>3 DEF Together
    <3> QED
      BY <3>4
  <2>4. ASSUME NEW r \in Together(p, q)
        PROVE  \E s \in some : s \subseteq UNION r
    <3>1. PICK x \in p, y \in q : r = x \cup y
      BY DEF Together
    <3>2. PICK a \in left.alternatives : a \subseteq UNION x
      BY <1>6 DEF Agrees
    <3>3. PICK b \in right.alternatives : b \subseteq UNION y
      BY <1>6 DEF Agrees
    <3>4. PICK s \in some : s \subseteq a \cup b
      BY <1>4
    <3> QED
      BY <3>1, <3>2, <3>3, <3>4
  <2> QED
    BY <1>2, <2>1, <2>2, <2>3, <2>4 DEF Agrees
<1> QED
  BY <1>5, <1>6

\* One of two bodies.
LEMMA BranchAgrees ==
    ASSUME NEW yes \in Requires, NEW no \in Requires, IsOrdered(yes), IsOrdered(no)
    PROVE  /\ IsOrdered(AnalyzeBranch(yes, no))
           /\ \A p \in RunSets, q \in RunSets :
                 Agrees(yes, p) /\ Agrees(no, q) => Agrees(AnalyzeBranch(yes, no), p \cup q)
<1> DEFINE all == yes.alternatives \cup no.alternatives
           some == MinimalAntichain(all)
<1>1. all \in SUBSET SUBSET OperationScopes
  BY DEF Requires
<1>2. /\ AnalyzeBranch(yes, no).alternatives = some
      /\ AnalyzeBranch(yes, no).always = yes.always \cap no.always
      /\ AnalyzeBranch(yes, no).feasible = yes.feasible \cup no.feasible
      /\ AnalyzeBranch(yes, no).structural = yes.structural \cup no.structural
  BY DEF AnalyzeBranch, Needs
<1>3. some \subseteq all
  BY DEF MinimalAntichain
<1>4. \A a \in all : \E s \in some : s \subseteq a
  <2> HIDE DEF all
  <2> QED
    BY <1>1, MinimalIsInside
<1>5. /\ yes.alternatives \subseteq all /\ no.alternatives \subseteq all
      /\ \A s \in some : s \in yes.alternatives \/ s \in no.alternatives
  BY <1>3
<1> HIDE DEF all, some
<1>6. IsOrdered(AnalyzeBranch(yes, no))
  BY <1>2, <1>4, <1>5 DEF IsOrdered
<1>7. ASSUME NEW p \in RunSets, NEW q \in RunSets, Agrees(yes, p), Agrees(no, q)
      PROVE  Agrees(AnalyzeBranch(yes, no), p \cup q)
  <2>1. UNION UNION (p \cup q) = (UNION UNION p) \cup (UNION UNION q)
    OBVIOUS
  <2>2. \A s \in some : \E r \in p \cup q : UNION r \subseteq s
    BY <1>5, <1>7 DEF Agrees
  <2>3. ASSUME NEW r \in p \cup q PROVE \E s \in some : s \subseteq UNION r
    <3>0. \/ \E a \in yes.alternatives : a \subseteq UNION r
          \/ \E a \in no.alternatives : a \subseteq UNION r
      <4>1. CASE r \in p
        BY <1>7, <4>1 DEF Agrees
      <4>2. CASE r \in q
        BY <1>7, <4>2 DEF Agrees
      <4> QED
        BY <4>1, <4>2
    <3>1. PICK a \in all : a \subseteq UNION r
      BY <1>5, <3>0
    <3>2. PICK s \in some : s \subseteq a
      BY <1>4
    <3> QED
      BY <3>1, <3>2
  <2>4. p \cup q # {} /\ UNION UNION (p \cup q) = yes.feasible \cup no.feasible
    BY <1>7, <2>1 DEF Agrees
  <2> QED
    BY <1>2, <2>2, <2>3, <2>4 DEF Agrees
<1> QED
  BY <1>6, <1>7

\* The items of a list.
RunsOfItems(items, runs) ==
    (IF 0 \in items THEN {{}} ELSE {}) \cup (IF items = {0} THEN {} ELSE runs)

\* _analyze_foreach: a list that only the run knows may have no item, a literal list has its own.
LEMMA ForeachAgrees ==
    ASSUME NEW body \in Requires, IsOrdered(body), NEW items, IsLiteral(items) \/ 0 \in items
    PROVE  /\ IsOrdered(AnalyzeForeach(items, body))
           /\ \A p \in RunSets :
                 Agrees(body, p) => Agrees(AnalyzeForeach(items, body), RunsOfItems(items, p))
<1>1. CASE items = {0}
  <2>1. AnalyzeForeach(items, body) = Needs({{}}, {}, {}, body.structural)
    BY <1>1 DEF AnalyzeForeach
  <2>2. \A p : RunsOfItems(items, p) = {{}}
    BY <1>1 DEF RunsOfItems
  <2>3. IsOrdered(AnalyzeForeach(items, body))
    <3> DEFINE needs == Needs({{}}, {}, {}, body.structural)
    <3>1. /\ needs.alternatives = {{}} /\ needs.always = {} /\ needs.feasible = {}
          /\ needs.structural = body.structural
      BY DEF Needs
    <3> HIDE DEF needs
    <3>2. IsOrdered(needs)
      BY <3>1 DEF IsOrdered
    <3> QED
      BY <2>1, <3>2 DEF needs
  <2>4. UNION UNION {{}} = {} /\ UNION {} = {}
    OBVIOUS
  <2>5. Agrees(AnalyzeForeach(items, body), {{}})
    BY <2>1, <2>4 DEF Needs, Agrees
  <2> QED
    BY <2>2, <2>3, <2>5
<1>2. CASE items # {0} /\ IsLiteral(items)
  <2>1. AnalyzeForeach(items, body) = body
    BY <1>2 DEF AnalyzeForeach
  <2>2. \A p : RunsOfItems(items, p) = p
    BY <1>2 DEF RunsOfItems, IsLiteral
  <2> QED
    BY <2>1, <2>2
<1>3. CASE items # {0} /\ ~IsLiteral(items)
  <2> DEFINE all == {{}} \cup body.alternatives
             some == MinimalAntichain(all)
  <2>1. AnalyzeForeach(items, body) = Needs(some, {}, body.feasible, body.structural)
    BY <1>3 DEF AnalyzeForeach
  <2>2. \A p : RunsOfItems(items, p) = {{}} \cup p
    BY <1>3 DEF RunsOfItems
  <2>3. some = {{}}
    BY DEF MinimalAntichain
  <2> HIDE DEF some
  <2>4. IsOrdered(AnalyzeForeach(items, body))
    <3> DEFINE needs == Needs({{}}, {}, body.feasible, body.structural)
    <3>1. /\ needs.alternatives = {{}} /\ needs.always = {} /\ needs.feasible = body.feasible
          /\ needs.structural = body.structural
      BY DEF Needs
    <3> HIDE DEF needs
    <3>2. IsOrdered(needs)
      BY <3>1 DEF IsOrdered
    <3> QED
      BY <2>1, <2>3, <3>2 DEF needs
  <2>5. ASSUME NEW p \in RunSets, Agrees(body, p)
        PROVE  Agrees(AnalyzeForeach(items, body), RunsOfItems(items, p))
    <3>1. UNION UNION ({{}} \cup p) = UNION UNION p
      OBVIOUS
    <3>2. {} \in {{}} \cup p /\ UNION {} = {}
      OBVIOUS
    <3>3. \A a \in {{}} : \E r \in {{}} \cup p : UNION r \subseteq a
      BY <3>2
    <3>4. \A r \in {{}} \cup p : \E a \in {{}} : a \subseteq UNION r
      OBVIOUS
    <3>5. {{}} \cup p # {} /\ UNION UNION ({{}} \cup p) = body.feasible
      BY <2>5, <3>1 DEF Agrees
    <3>6. Agrees(AnalyzeForeach(items, body), {{}} \cup p)
      <4>1. /\ AnalyzeForeach(items, body).alternatives = {{}}
            /\ AnalyzeForeach(items, body).feasible = body.feasible
        BY <2>1, <2>3 DEF Needs
      <4> QED
        BY <3>3, <3>4, <3>5, <4>1 DEF Agrees
    <3> QED
      BY <2>2, <3>6
  <2> QED
    BY <2>4, <2>5
<1> QED
  BY <1>1, <1>2, <1>3

\* What _analyze_steps (scope/analysis.py) says of a workflow is what its runs need, however
\* deep branches, parallel steps and lists are nested.
THEOREM AnalysisAgrees ==
    \A w \in Workflows : IsOrdered(AnalyzeSteps[w]) /\ Agrees(AnalyzeSteps[w], Runs[w])
<1> DEFINE S == {w \in Workflows : IsOrdered(AnalyzeSteps[w]) /\ Agrees(AnalyzeSteps[w], Runs[w])}
<1>0. IsOrdered(NoNeeds) /\ Agrees(NoNeeds, {{}})
  BY DEF NoNeeds, Needs, IsOrdered, Agrees
<1>1. ASSUME NEW w \in Workflows, \A v \in Workflows : Size[v] < Size[w] => v \in S
      PROVE  w \in S
  <2>1. CASE w = <<>>
    <3>1. AnalyzeSteps[w] = NoNeeds /\ Runs[w] = {{}}
      BY <2>1, AnalyzeStepsDefined, RunsDefined
    <3> QED
      BY <1>0, <3>1
  <2>2. CASE w # <<>>
    <3> DEFINE needs == AnalyzeStep(Head(w), AnalyzeSteps)
               runs == RunsOf(Head(w), Runs)
    <3>1. /\ AnalyzeSteps[w] = CombineRequired(needs, AnalyzeSteps[Tail(w)])
          /\ Runs[w] = Together(runs, Runs[Tail(w)])
      BY <2>2, AnalyzeStepsDefined, RunsDefined
    <3>2. \A v \in Workflows : AnalyzeSteps[v] \in Requires /\ Runs[v] \in RunSets
      BY AnalyzeStepsDefined, RunsDefined DEF RunSets
    <3>3. needs \in Requires /\ runs \in RunSets /\ IsOrdered(needs) /\ Agrees(needs, runs)
      <4>1. CASE Head(w).action = "call"
        <5>1. Head(w).scopes \in SUBSET OperationScopes
          BY <2>2, <4>1, Nested DEF IsStep
        <5>2. needs = Needs({Head(w).scopes}, Head(w).scopes, Head(w).scopes, Head(w).scopes)
          BY <4>1 DEF AnalyzeStep
        <5>3. runs = {{Head(w).scopes}}
          BY <4>1 DEF RunsOf
        <5>4. needs \in Requires /\ runs \in RunSets
          BY <5>1, <5>2, <5>3 DEF Needs, Requires, RunSets
        <5>5. IsOrdered(needs)
          BY <5>2 DEF Needs, IsOrdered
        <5>6. UNION UNION runs = Head(w).scopes /\ UNION {Head(w).scopes} = Head(w).scopes
          BY <5>3
        <5>7. Agrees(needs, runs)
          BY <5>2, <5>3, <5>6 DEF Needs, Agrees
        <5> QED
          BY <5>4, <5>5, <5>7
      <4>2. CASE Head(w).action = "branch"
        <5>1. /\ Head(w).then \in S /\ Head(w).otherwise \in S
          BY <1>1, <2>2, <4>2, Nested
        <5>2. needs = AnalyzeBranch(AnalyzeSteps[Head(w).then], AnalyzeSteps[Head(w).otherwise])
          BY <4>2 DEF AnalyzeStep
        <5>3. runs = Runs[Head(w).then] \cup Runs[Head(w).otherwise]
          BY <4>2 DEF RunsOf
        <5>4. needs \in Requires /\ runs \in RunSets
          BY <3>2, <5>1, <5>2, <5>3 DEF AnalyzeBranch, MinimalAntichain, Needs, Requires, RunSets
        <5>5. IsOrdered(needs) /\ Agrees(needs, runs)
          BY <3>2, <5>1, <5>2, <5>3, BranchAgrees
        <5> QED
          BY <5>4, <5>5
      <4>3. CASE Head(w).action = "parallel"
        BY <1>1, <2>2, <3>2, <4>3, Nested DEF AnalyzeStep, RunsOf
      <4>4. CASE Head(w).action = "foreach"
        <5>1. Head(w).workflow \in S /\ (IsLiteral(Head(w).items) \/ 0 \in Head(w).items)
          BY <1>1, <2>2, <4>4, Nested DEF IsStep
        <5>2. needs = AnalyzeForeach(Head(w).items, AnalyzeSteps[Head(w).workflow])
          BY <4>4 DEF AnalyzeStep
        <5>3. runs = RunsOfItems(Head(w).items, Runs[Head(w).workflow])
          BY <4>4 DEF RunsOf, RunsOfItems
        <5>4. needs \in Requires
          BY <3>2, <5>1, <5>2 DEF AnalyzeForeach, MinimalAntichain, Needs, Requires
        <5>5. runs \in RunSets
          BY <3>2, <5>1, <5>3 DEF RunsOfItems, RunSets
        <5>6. IsOrdered(needs) /\ Agrees(needs, runs)
          BY <3>2, <5>1, <5>2, <5>3, ForeachAgrees
        <5> QED
          BY <5>4, <5>5, <5>6
      <4>5. CASE Head(w).action = "emit"
        <5>1. needs = NoNeeds /\ runs = {{}}
          BY <4>5 DEF AnalyzeStep, RunsOf
        <5>2. NoNeeds \in Requires /\ {{}} \in RunSets
          BY DEF NoNeeds, Needs, Requires, RunSets
        <5> QED
          BY <1>0, <5>1, <5>2
      <4> QED
        BY <2>2, <4>1, <4>2, <4>3, <4>4, <4>5, Nested DEF IsStep
    <3>4. Tail(w) \in S
      BY <1>1, <2>2, Nested
    <3> HIDE DEF needs, runs
    <3> QED
      BY <3>1, <3>2, <3>3, <3>4, CombineAgrees
  <2> QED
    BY <2>1, <2>2
<1>2. Workflows \subseteq S
  <2> HIDE DEF S
  <2> QED
    BY <1>1, NestedInduction
<1> QED
  BY <1>2

\* The proof of an Action has the scopes of every call that a run meets.
LEMMA SitesCoverRuns ==
    \A w \in Workflows : \A run \in Runs[w] : \A scopes \in run :
       \E site \in CallSites[w] : site.call.scopes = scopes
<1> DEFINE Covers(v) == \A run \in Runs[v] : \A scopes \in run :
                           \E site \in CallSites[v] : site.call.scopes = scopes
           S == {w \in Workflows : Covers(w)}
<1>1. ASSUME NEW w \in Workflows, \A v \in Workflows : Size[v] < Size[w] => v \in S
      PROVE  Covers(w)
  <2> SUFFICES ASSUME NEW run \in Runs[w], NEW scopes \in run
               PROVE  \E site \in CallSites[w] : site.call.scopes = scopes
    OBVIOUS
  <2>1. w # <<>>
    BY RunsDefined
  <2>2. PICK now \in RunsOf(Head(w), Runs), later \in Runs[Tail(w)] : run = now \cup later
    BY <2>1, RunsDefined DEF Together
  <2>3. CASE scopes \in later
    <3>1. PICK site \in CallSites[Tail(w)] : site.call.scopes = scopes
      BY <1>1, <2>1, <2>3, Nested
    <3> QED
      BY <2>1, <3>1, SitesOfParts
  <2>4. CASE scopes \in now
    <3>1. CASE Head(w).action = "call"
      <4>1. scopes = Head(w).scopes
        BY <2>2, <2>4, <3>1 DEF RunsOf
      <4>2. [call |-> Head(w), contained |-> FALSE] \in CallSites[w]
        BY <2>1, <3>1, SitesOfParts
      <4> QED
        BY <4>1, <4>2
    <3>2. CASE Head(w).action = "branch"
      <4>1. now \in Runs[Head(w).then] \/ now \in Runs[Head(w).otherwise]
        BY <2>2, <3>2 DEF RunsOf
      <4>2. Covers(Head(w).then) /\ Covers(Head(w).otherwise)
        BY <1>1, <2>1, <3>2, Nested
      <4> QED
        BY <2>1, <2>4, <3>2, <4>1, <4>2, SitesOfParts
    <3>3. CASE Head(w).action = "parallel"
      <4>1. PICK site \in CallSites[Head(w).children] : site.call.scopes = scopes
        BY <1>1, <2>1, <2>2, <2>4, <3>3, Nested DEF RunsOf
      <4>2. [call |-> site.call, contained |-> TRUE] \in CallSites[w]
        BY <2>1, <3>3, SitesOfParts
      <4> QED
        BY <4>1, <4>2
    <3>4. CASE Head(w).action = "foreach"
      <4>1. now \in Runs[Head(w).workflow]
        BY <2>2, <2>4, <3>4 DEF RunsOf
      <4>2. PICK site \in CallSites[Head(w).workflow] : site.call.scopes = scopes
        BY <1>1, <2>1, <2>4, <3>4, <4>1, Nested
      <4>3. [call |-> site.call, contained |-> TRUE] \in CallSites[w]
        BY <2>1, <3>4, SitesOfParts
      <4> QED
        BY <4>2, <4>3
    <3>5. CASE Head(w).action = "emit"
      BY <2>2, <2>4, <3>5 DEF RunsOf
    <3> QED
      BY <2>1, <3>1, <3>2, <3>3, <3>4, <3>5, Nested DEF IsStep
  <2> QED
    BY <2>2, <2>3, <2>4
<1>2. Workflows \subseteq S
  <2>1. ASSUME NEW w \in Workflows, \A v \in Workflows : Size[v] < Size[w] => v \in S
        PROVE  w \in S
    BY <1>1, <2>1
  <2> HIDE DEF S
  <2> QED
    BY <2>1, NestedInduction
<1> QED
  BY <1>2

-----------------------------------------------------------------------------
(* The status of a capability                                               *)

\* What the policy of a capability asks of every call.
ByPolicy(c) == Needs({c.policy}, c.policy, c.policy, c.policy)

\* It is ordered, and the run that it stands for meets the policy alone.
LEMMA PolicyAgrees ==
    ASSUME NEW c \in Capabilities
    PROVE  ByPolicy(c) \in Requires /\ IsOrdered(ByPolicy(c)) /\ Agrees(ByPolicy(c), {{c.policy}})
<1>1. c.policy \in SUBSET OperationScopes
  BY CapabilitiesAreDeclared
<1>2. UNION UNION {{c.policy}} = c.policy /\ UNION {c.policy} = c.policy
  OBVIOUS
<1> QED
  BY <1>1, <1>2 DEF ByPolicy, Needs, Requires, IsOrdered, Agrees

\* A capability has the scopes and workflows of the project.
LEMMA Declared ==
    ASSUME NEW c \in Capabilities
    PROVE  /\ c.policy \in SUBSET OperationScopes
           /\ IsAction(c) =>
                 c.preview \in Workflows /\ c.commit \in Workflows /\ c.query \in Workflows
           /\ ~IsAction(c) => c.workflow \in Workflows
BY CapabilitiesAreDeclared DEF IsAction

\* What the compiler writes is what the runtime accepts.
LEMMA RequirementsAreOrdered ==
    ASSUME NEW c \in Capabilities
    PROVE  IsOrdered(Requirements(c)) /\ c.policy \subseteq Requirements(c).always
<1>1. CASE IsAction(c)
  BY <1>1 DEF Requirements, Needs, IsOrdered
<1>2. CASE ~IsAction(c)
  <2>1. Requirements(c) = CombineRequired(AnalyzeSteps[c.workflow], ByPolicy(c))
    BY <1>2 DEF Requirements, ByPolicy
  <2>2. AnalyzeSteps[c.workflow] \in Requires /\ IsOrdered(AnalyzeSteps[c.workflow])
    BY <1>2, Declared, AnalyzeStepsDefined, AnalysisAgrees
  <2>3. c.policy \subseteq Requirements(c).always
    BY <2>1 DEF CombineRequired, ByPolicy, Needs
  <2> QED
    BY <2>1, <2>2, <2>3, PolicyAgrees, CombineAgrees
<1> QED
  BY <1>1, <1>2

\* _dimension (callability.py) gives a read capability the status that its runs deserve: it is
\* callable when none of them may be denied, and denied when none can complete.
THEOREM ReadStatus ==
    ASSUME NEW c \in Capabilities, ~IsAction(c), NEW A
    PROVE  /\ Status(c, A) = "callable" <=>
                 c.policy \subseteq A /\ ~Deniable(c.workflow, c.policy, A)
           /\ Status(c, A) = "denied" <=>
                 ~(c.policy \subseteq A /\ Completable(c.workflow, c.policy, A))
<1> DEFINE needs == Requirements(c)
           runs == Runs[c.workflow]
           all == Together(runs, {{c.policy}})
<1>1. IsOrdered(needs)
  BY RequirementsAreOrdered
<1>2. Agrees(needs, all)
  <2>1. needs = CombineRequired(AnalyzeSteps[c.workflow], ByPolicy(c))
    BY DEF Requirements, ByPolicy
  <2>2. /\ AnalyzeSteps[c.workflow] \in Requires /\ IsOrdered(AnalyzeSteps[c.workflow])
        /\ Agrees(AnalyzeSteps[c.workflow], runs) /\ runs \in RunSets
    BY Declared, AnalyzeStepsDefined, RunsDefined, AnalysisAgrees DEF RunSets
  <2>3. {{c.policy}} \in RunSets
    BY Declared DEF RunSets
  <2> HIDE DEF needs, runs
  <2> QED
    BY <2>1, <2>2, <2>3, PolicyAgrees, CombineAgrees
<1>3. runs # {} /\ \A run \in all : \E r \in runs : run = r \cup {c.policy}
  <2>1. runs # {}
    BY Declared, AnalysisAgrees DEF Agrees
  <2> QED
    BY <2>1 DEF Together
<1>4. \A r \in runs : r \cup {c.policy} \in all
  BY DEF Together
<1> HIDE DEF needs, runs, all
<1>5. needs.feasible \subseteq A <=> \A run \in all : UNION run \subseteq A
  BY <1>2 DEF Agrees
<1>6. (\E a \in needs.alternatives : a \subseteq A) <=> (\E run \in all : UNION run \subseteq A)
  <2>1. ASSUME NEW a \in needs.alternatives, a \subseteq A
        PROVE  \E run \in all : UNION run \subseteq A
    BY <1>2, <2>1 DEF Agrees
  <2>2. ASSUME NEW run \in all, UNION run \subseteq A
        PROVE  \E a \in needs.alternatives : a \subseteq A
    BY <1>2, <2>2 DEF Agrees
  <2> QED
    BY <2>1, <2>2
<1>7. \A r \in runs : UNION (r \cup {c.policy}) \subseteq A <=>
                         c.policy \subseteq A /\ \A scopes \in r : c.policy \cup scopes \subseteq A
  OBVIOUS
<1>8. (\A run \in all : UNION run \subseteq A) <=>
         c.policy \subseteq A /\ ~Deniable(c.workflow, c.policy, A)
  <2>1. (\A run \in all : UNION run \subseteq A)
           <=> \A r \in runs : UNION (r \cup {c.policy}) \subseteq A
    BY <1>3, <1>4
  <2>2. ~Deniable(c.workflow, c.policy, A)
           <=> \A r \in runs : \A scopes \in r : c.policy \cup scopes \subseteq A
    BY DEF Deniable, runs
  <2> QED
    BY <1>3, <1>7, <2>1, <2>2
<1>9. (\E run \in all : UNION run \subseteq A) <=>
         c.policy \subseteq A /\ Completable(c.workflow, c.policy, A)
  <2>1. (\E run \in all : UNION run \subseteq A)
           <=> \E r \in runs : UNION (r \cup {c.policy}) \subseteq A
    BY <1>3, <1>4
  <2>2. Completable(c.workflow, c.policy, A)
           <=> \E r \in runs : \A scopes \in r : c.policy \cup scopes \subseteq A
    BY DEF Completable, runs
  <2> QED
    BY <1>3, <1>7, <2>1, <2>2
<1>10. needs.always \cup needs.feasible \subseteq A <=> needs.feasible \subseteq A
  BY <1>1 DEF IsOrdered
<1>11. (\A run \in all : UNION run \subseteq A) => (\E run \in all : UNION run \subseteq A)
  BY <1>2 DEF Agrees
<1>12. Status(c, A) = IF needs.feasible \subseteq A THEN "callable"
                      ELSE IF \E a \in needs.alternatives : a \subseteq A THEN "conditional"
                      ELSE "denied"
  BY <1>10 DEF Status, needs
<1> QED
  BY <1>5, <1>6, <1>8, <1>9, <1>11, <1>12

\* An Action has all or nothing.
LEMMA ActionStatus ==
    ASSUME NEW c \in Capabilities, IsAction(c), NEW A
    PROVE  Status(c, A) = IF ProofScopes(c) \cup c.policy \subseteq A THEN "callable" ELSE "denied"
BY DEF Status, Requirements, Needs

\* An Action whose proof is within the scopes meets nothing it may not call.
LEMMA ProofCoversRuns ==
    ASSUME NEW c \in Capabilities, IsAction(c), NEW A,
           ProofScopes(c) \cup c.policy \subseteq A,
           NEW w \in {c.preview, c.commit, c.query}
    PROVE  ~Deniable(w, c.policy, A)
<1> SUFFICES ASSUME NEW run \in Runs[w], NEW scopes \in run
             PROVE  c.policy \cup scopes \subseteq A
  BY DEF Deniable
<1>1. PICK site \in CallSites[w] : site.call.scopes = scopes
  BY Declared, SitesCoverRuns
<1>2. site \in CallSites[c.preview] \cup CallSites[c.commit] \cup CallSites[c.query]
  OBVIOUS
<1>3. scopes \subseteq ProofScopes(c)
  BY <1>1, <1>2 DEF ProofScopes
<1> QED
  BY <1>3

-----------------------------------------------------------------------------
(* What takes the place of a workflow after its first step                  *)

\* Nothing of what is left mutates, or one workflow of it does, and does so once.
NoneIn(frames) == \A i \in DOMAIN frames : MutationPathCounts[frames[i]] = {0}
OneIn(frames) ==
    \E i \in DOMAIN frames :
        /\ MutationPathCounts[frames[i]] = {1}
        /\ \A j \in DOMAIN frames \ {i} : MutationPathCounts[frames[j]] = {0}

\* No step that runs its calls at once has a mutation inside.
IsClean(w) == \A site \in CallSites[w] : site.call.mutates => ~site.contained

\* How the stack looks when other workflows take the place of the innermost one.
LEMMA Replaced ==
    ASSUME NEW frames \in Seq(Workflows), frames # <<>>, NEW new \in Seq(Workflows)
    PROVE  /\ new \o Tail(frames) \in Seq(Workflows)
           /\ DOMAIN (new \o Tail(frames)) = 1 .. Len(new) + Len(frames) - 1
           /\ \A i \in 1 .. Len(new) : (new \o Tail(frames))[i] = new[i]
           /\ \A i \in Len(new) + 1 .. Len(new) + Len(frames) - 1 :
                 (new \o Tail(frames))[i] = frames[i - Len(new) + 1]
           /\ Len(new) \in Nat /\ Len(frames) \in Nat \ {0}
           /\ DOMAIN new = 1 .. Len(new) /\ DOMAIN frames = 1 .. Len(frames)
           /\ Head(frames) = frames[1] /\ frames[1] \in Workflows
OBVIOUS

\* What is on it then is new or was there.
LEMMA ReplacedElements ==
    ASSUME NEW frames \in Seq(Workflows), frames # <<>>, NEW new \in Seq(Workflows)
    PROVE  /\ \A i \in DOMAIN (new \o Tail(frames)) :
                 \/ \E j \in DOMAIN new : (new \o Tail(frames))[i] = new[j]
                 \/ \E j \in DOMAIN frames \ {1} : (new \o Tail(frames))[i] = frames[j]
           /\ \A j \in DOMAIN new : \E i \in DOMAIN (new \o Tail(frames)) :
                 (new \o Tail(frames))[i] = new[j]
           /\ \A j \in DOMAIN frames \ {1} : \E i \in DOMAIN (new \o Tail(frames)) :
                 (new \o Tail(frames))[i] = frames[j]
<1> DEFINE next == new \o Tail(frames)
           n == Len(new)
           m == Len(frames)
<1>1. /\ DOMAIN next = 1 .. n + m - 1 /\ DOMAIN new = 1 .. n /\ DOMAIN frames = 1 .. m
      /\ n \in Nat /\ m \in Nat \ {0}
      /\ \A i \in 1 .. n : next[i] = new[i]
      /\ \A i \in n + 1 .. n + m - 1 : next[i] = frames[i - n + 1]
  BY Replaced
<1> HIDE DEF next, n, m
<1>2. \A i \in DOMAIN next : \/ i \in DOMAIN new
                             \/ i \in n + 1 .. n + m - 1 /\ i - n + 1 \in DOMAIN frames \ {1}
  BY <1>1
<1>3. \A j \in DOMAIN new : j \in DOMAIN next
  BY <1>1
<1>4. \A j \in DOMAIN frames \ {1} : /\ j + n - 1 \in DOMAIN next
                                     /\ j + n - 1 \in n + 1 .. n + m - 1
                                     /\ (j + n - 1) - n + 1 = j
  BY <1>1
<1>5. \A i \in DOMAIN next : \/ \E j \in DOMAIN new : next[i] = new[j]
                             \/ \E j \in DOMAIN frames \ {1} : next[i] = frames[j]
  BY <1>1, <1>2
<1>6. \A j \in DOMAIN new : \E i \in DOMAIN next : next[i] = new[j]
  BY <1>1, <1>3
<1>7. \A j \in DOMAIN frames \ {1} : \E i \in DOMAIN next : next[i] = frames[j]
  <2> SUFFICES ASSUME NEW j \in DOMAIN frames \ {1}
               PROVE  next[j + n - 1] = frames[j]
    BY <1>4
  <2>1. next[j + n - 1] = frames[(j + n - 1) - n + 1]
    BY <1>1, <1>4
  <2> QED
    BY <1>4, <2>1
<1> QED
  BY <1>5, <1>6, <1>7 DEF next

\* The one mutation is in what takes the place of the workflow that had it.
LEMMA OneReplaced ==
    ASSUME NEW frames \in Seq(Workflows), frames # <<>>, NEW new \in Seq(Workflows), OneIn(frames)
    PROVE  /\ MutationPathCounts[Head(frames)] \in {{0}, {1}}
           /\ MutationPathCounts[Head(frames)] = {0} /\ NoneIn(new) => OneIn(new \o Tail(frames))
           /\ MutationPathCounts[Head(frames)] = {1} /\ OneIn(new) => OneIn(new \o Tail(frames))
           /\ MutationPathCounts[Head(frames)] = {1} /\ NoneIn(new) => NoneIn(new \o Tail(frames))
<1> DEFINE next == new \o Tail(frames)
           n == Len(new)
           m == Len(frames)
           C(w) == MutationPathCounts[w]
<1>1. /\ DOMAIN next = 1 .. n + m - 1 /\ DOMAIN new = 1 .. n /\ DOMAIN frames = 1 .. m
      /\ n \in Nat /\ m \in Nat \ {0} /\ Head(frames) = frames[1]
      /\ \A i \in 1 .. n : next[i] = new[i]
      /\ \A i \in n + 1 .. n + m - 1 : next[i] = frames[i - n + 1]
  BY Replaced
<1>2. PICK k \in 1 .. m : /\ C(frames[k]) = {1}
                          /\ \A j \in 1 .. m \ {k} : C(frames[j]) = {0}
  BY <1>1 DEF OneIn
<1> HIDE DEF next, n, m, C
<1>0. {0} # {1}
  OBVIOUS
<1>3. C(frames[1]) \in {{0}, {1}}
  BY <1>1, <1>2
<1>4. ASSUME C(frames[1]) = {0}, NoneIn(new) PROVE OneIn(next)
  <2>1. k # 1
    BY <1>0, <1>2, <1>4
  <2> DEFINE i == k + n - 1
  <2>2. i \in DOMAIN next /\ i \in n + 1 .. n + m - 1 /\ i - n + 1 = k
    BY <1>1, <2>1
  <2>3. C(next[i]) = {1}
    BY <1>1, <1>2, <2>2
  <2>4. ASSUME NEW j \in DOMAIN next, j # i PROVE C(next[j]) = {0}
    <3>1. CASE j \in 1 .. n
      <4>1. next[j] = new[j] /\ j \in DOMAIN new
        BY <1>1, <3>1
      <4> QED
        BY <1>4, <4>1 DEF NoneIn, C
    <3>2. CASE j \in n + 1 .. n + m - 1
      <4>1. j - n + 1 \in 1 .. m /\ j - n + 1 # k
        <5>1. j \in Int /\ k \in Int /\ n \in Int /\ j # k + n - 1
          BY <1>1, <2>4, <3>2
        <5>2. j >= n + 1 /\ j <= n + m - 1 /\ m \in Int
          BY <1>1, <3>2
        <5> QED
          BY <5>1, <5>2
      <4>2. next[j] = frames[j - n + 1]
        BY <1>1, <3>2
      <4>3. C(frames[j - n + 1]) = {0}
        BY <1>2, <4>1
      <4> QED
        BY <4>2, <4>3
    <3>3. j \in 1 .. n \/ j \in n + 1 .. n + m - 1
      BY <1>1, <2>4
    <3> QED
      BY <3>1, <3>2, <3>3
  <2> QED
    BY <2>2, <2>3, <2>4 DEF OneIn, C
<1>5. ASSUME C(frames[1]) = {1} PROVE \A j \in n + 1 .. n + m - 1 : C(next[j]) = {0}
  <2>1. k = 1
    <3>1. 1 \in 1 .. m
      BY <1>1
    <3>2. ASSUME k # 1 PROVE FALSE
      <4>1. C(frames[1]) = {0}
        BY <1>2, <3>1, <3>2
      <4> QED
        BY <1>0, <1>5, <4>1
    <3> QED
      BY <3>2
  <2> SUFFICES ASSUME NEW j \in n + 1 .. n + m - 1 PROVE C(next[j]) = {0}
    OBVIOUS
  <2>2. j - n + 1 \in 1 .. m /\ j - n + 1 # 1
    BY <1>1
  <2> QED
    BY <1>1, <1>2, <2>1, <2>2
<1>6. ASSUME C(frames[1]) = {1}, OneIn(new) PROVE OneIn(next)
  <2>1. PICK i \in 1 .. n : C(new[i]) = {1} /\ \A j \in 1 .. n \ {i} : C(new[j]) = {0}
    BY <1>1, <1>6 DEF OneIn, C
  <2>2. i \in DOMAIN next /\ C(next[i]) = {1}
    BY <1>1, <2>1
  <2>3. ASSUME NEW j \in DOMAIN next, j # i PROVE C(next[j]) = {0}
    <3>1. CASE j \in 1 .. n
      BY <1>1, <2>1, <2>3, <3>1
    <3>2. CASE j \in n + 1 .. n + m - 1
      BY <1>5, <1>6, <3>2
    <3> QED
      BY <1>1, <2>3, <3>1, <3>2
  <2> QED
    BY <2>2, <2>3 DEF OneIn, C
<1>7. ASSUME C(frames[1]) = {1}, NoneIn(new) PROVE NoneIn(next)
  <2>1. ASSUME NEW j \in DOMAIN next PROVE C(next[j]) = {0}
    <3>1. CASE j \in 1 .. n
      BY <1>1, <1>7, <3>1 DEF NoneIn, C
    <3>2. CASE j \in n + 1 .. n + m - 1
      BY <1>5, <1>7, <3>2
    <3> QED
      BY <1>1, <2>1, <3>1, <3>2
  <2> QED
    BY <2>1 DEF NoneIn, C
<1> QED
  BY <1>1, <1>3, <1>4, <1>6, <1>7 DEF C, next

\* Workflows without a mutation in the place of another leave none.
LEMMA NoneReplaced ==
    ASSUME NEW frames \in Seq(Workflows), frames # <<>>, NEW new \in Seq(Workflows),
           NoneIn(frames), NoneIn(new)
    PROVE  NoneIn(new \o Tail(frames)) /\ MutationPathCounts[Head(frames)] = {0}
<1>1. NoneIn(new \o Tail(frames))
  BY ReplacedElements DEF NoneIn
<1> QED
  BY <1>1, Replaced DEF NoneIn

-----------------------------------------------------------------------------
(* A workflow and its parts                                                 *)

\* What a step without a contained mutation unfolds to has none either.
LEMMA CleanParts ==
    ASSUME NEW w \in Workflows, w # <<>>, IsClean(w)
    PROVE  /\ IsClean(Tail(w))
           /\ \A body \in Bodies(Head(w)) :
                 /\ body \in Workflows /\ IsClean(body)
                 /\ Head(w).action \in {"parallel", "foreach"} => ~Mutates(body)
<1>1. \A c, b : [call |-> c, contained |-> b] \in CallSites[w] => (c.mutates => ~b)
  BY DEF IsClean
<1>2. \A v : CallSites[v] \subseteq CallSites[w] => IsClean(v)
  BY DEF IsClean
<1>3. \A v : ~Mutates(v) => IsClean(v)
  BY DEF Mutates, IsClean
<1>4. IsClean(Tail(w))
  BY <1>2, SitesOfParts
<1>5. CASE Head(w).action = "branch"
  <2>1. Bodies(Head(w)) = {Head(w).then, Head(w).otherwise}
    BY <1>5 DEF Bodies
  <2> QED
    BY <1>2, <1>4, <1>5, <2>1, SitesOfParts, Nested
<1>6. CASE Head(w).action = "parallel"
  <2>1. Bodies(Head(w)) = {Head(w).children}
    BY <1>6 DEF Bodies
  <2>2. ~Mutates(Head(w).children)
    BY <1>1, <1>6, SitesOfParts DEF Mutates
  <2> QED
    BY <1>3, <1>4, <1>6, <2>1, <2>2, Nested
<1>7. CASE Head(w).action = "foreach"
  <2>1. Bodies(Head(w)) = {Head(w).workflow}
    BY <1>7 DEF Bodies
  <2>2. ~Mutates(Head(w).workflow)
    BY <1>1, <1>7, SitesOfParts DEF Mutates
  <2> QED
    BY <1>3, <1>4, <1>7, <2>1, <2>2, Nested
<1>8. CASE Head(w).action \in {"call", "emit"}
  <2>1. Bodies(Head(w)) = {}
    BY <1>8 DEF Bodies
  <2> QED
    BY <1>4, <2>1
<1> QED
  BY <1>5, <1>6, <1>7, <1>8, Nested DEF IsStep

\* Where the mutation of a workflow is.
LEMMA CountsOfParts ==
    ASSUME NEW w \in Workflows, w # <<>>, IsClean(w), NEW m \in {0, 1},
           MutationPathCounts[w] = {m}
    PROVE  /\ Head(w).action = "emit" \/ (Head(w).action = "call" /\ ~Head(w).mutates) =>
                 MutationPathCounts[Tail(w)] = {m}
           /\ Head(w).action = "call" /\ Head(w).mutates =>
                 m = 1 /\ MutationPathCounts[Tail(w)] = {0}
           /\ Head(w).action = "branch" =>
                 \A body \in Bodies(Head(w)) :
                    \/ MutationPathCounts[body] = {m} /\ MutationPathCounts[Tail(w)] = {0}
                    \/ MutationPathCounts[body] = {0} /\ MutationPathCounts[Tail(w)] = {m}
           /\ Head(w).action \in {"parallel", "foreach"} =>
                 /\ MutationPathCounts[Tail(w)] = {m}
                 /\ \A body \in Bodies(Head(w)) : MutationPathCounts[body] = {0}
<1> DEFINE A == CountsOf(Head(w), MutationPathCounts)
           B == MutationPathCounts[Tail(w)]
<1>1. SumCounts(A, B) = {m}
  BY MutationPathCountsDefined
<1>2. B \in SUBSET Nat /\ B # {}
  BY CountsAreNatural, Nested
<1>3. \A n : SumCounts({0}, B) = B
  <2>1. \A n \in B : 0 + n = n
    BY <1>2
  <2> QED
    BY <2>1 DEF SumCounts
<1>4. \A body \in Bodies(Head(w)) : body \in Workflows
  BY WorkflowsAreNested
<1>5. CASE Head(w).action = "emit" \/ (Head(w).action = "call" /\ ~Head(w).mutates)
  <2>1. A = {0}
    BY <1>5 DEF CountsOf
  <2> QED
    BY <1>1, <1>3, <1>5, <2>1
<1>6. CASE Head(w).action = "call" /\ Head(w).mutates
  <2>1. A = {1}
    BY <1>6 DEF CountsOf
  <2> HIDE DEF A, B
  <2>2. (m = 0 => A = {0} /\ B = {0}) /\ (m = 1 => (A = {1} /\ B = {0}) \/ (A = {0} /\ B = {1}))
    <3>1. A \in SUBSET Nat /\ A # {}
      BY <2>1
    <3> QED
      BY <1>1, <1>2, <3>1, SumOfCounts
  <2>3. m = 1 /\ B = {0}
    BY <2>1, <2>2
  <2> QED
    BY <1>6, <2>3 DEF B
<1>7. CASE Head(w).action = "branch"
  <2>1. A = MutationPathCounts[Head(w).then] \cup MutationPathCounts[Head(w).otherwise]
    BY <1>7 DEF CountsOf
  <2>2. Bodies(Head(w)) = {Head(w).then, Head(w).otherwise}
    BY <1>7 DEF Bodies
  <2>3. \A body \in Bodies(Head(w)) :
           MutationPathCounts[body] \subseteq A /\ MutationPathCounts[body] # {}
    BY <1>4, <2>1, <2>2, CountsAreNatural
  <2>4. A \in SUBSET Nat /\ A # {}
    BY <1>4, <2>1, <2>2, CountsAreNatural
  <2> HIDE DEF A, B
  <2>5. (m = 0 => A = {0} /\ B = {0}) /\ (m = 1 => (A = {1} /\ B = {0}) \/ (A = {0} /\ B = {1}))
    BY <1>1, <1>2, <2>4, SumOfCounts
  <2>6. (A = {m} /\ B = {0}) \/ (A = {0} /\ B = {m})
    BY <2>5
  <2>7. \A body \in Bodies(Head(w)) : MutationPathCounts[body] = A
    <3>1. \E n : A = {n}
      BY <2>6
    <3> QED
      BY <2>3, <3>1
  <2> QED
    BY <1>7, <2>6, <2>7 DEF B
<1>8. CASE Head(w).action \in {"parallel", "foreach"}
  <2>1. \A body \in Bodies(Head(w)) : MutationPathCounts[body] = {0}
    BY <1>4, <1>8, CleanParts, NoMutation
  <2>2. A = {0}
    <3>1. CASE Head(w).action = "parallel"
      BY <2>1, <3>1 DEF CountsOf, Bodies
    <3>2. CASE Head(w).action = "foreach"
      <4>1. MutationPathCounts[Head(w).workflow] = {0} /\ 0 * Head(w).most = 0
        BY <2>1, <3>2, Nested DEF Bodies, IsStep
      <4> QED
        BY <3>2, <4>1 DEF CountsOf
    <3> QED
      BY <1>8, <3>1, <3>2
  <2> QED
    BY <1>1, <1>3, <1>8, <2>1, <2>2
<1> QED
  BY <1>5, <1>6, <1>7, <1>8

\* A workflow whose runs meet nothing that is forbidden has parts whose runs do not.
LEMMA DeniableParts ==
    ASSUME NEW w \in Workflows, w # <<>>, NEW policy, NEW A, ~Deniable(w, policy, A)
    PROVE  /\ ~Deniable(Tail(w), policy, A)
           /\ Head(w).action = "call" => policy \cup Head(w).scopes \subseteq A
           /\ Head(w).action \in {"branch", "parallel"} =>
                 \A body \in Bodies(Head(w)) : ~Deniable(body, policy, A)
           /\ Head(w).action = "foreach" /\ Head(w).items # {0} =>
                 ~Deniable(Head(w).workflow, policy, A)
<1> DEFINE now == RunsOf(Head(w), Runs)
           later == Runs[Tail(w)]
<1>1. Runs[w] = Together(now, later)
  BY RunsDefined
<1>2. \A v \in Workflows : Runs[v] # {}
  BY AnalysisAgrees DEF Agrees
<1>3. now # {} /\ later # {}
  BY <1>2, Nested DEF RunsOf, IsStep
<1> HIDE DEF now, later
<1>4. \A x \in now, y \in later : x \cup y \in Runs[w]
  BY <1>1 DEF Together
<1>5. \A run \in Runs[w] : \A scopes \in run : policy \cup scopes \subseteq A
  BY DEF Deniable
<1>6. ASSUME NEW x \in now, NEW scopes \in x PROVE policy \cup scopes \subseteq A
  <2>1. PICK y \in later : TRUE
    BY <1>3
  <2>2. x \cup y \in Runs[w] /\ scopes \in x \cup y
    BY <1>4
  <2> QED
    BY <1>5, <2>2
<1>7. ASSUME NEW y \in later, NEW scopes \in y PROVE policy \cup scopes \subseteq A
  <2>1. PICK x \in now : TRUE
    BY <1>3
  <2>2. x \cup y \in Runs[w] /\ scopes \in x \cup y
    BY <1>4
  <2> QED
    BY <1>5, <2>2
<1>8. \A v : Runs[v] \subseteq now => ~Deniable(v, policy, A)
  BY <1>6 DEF Deniable
<1>9. ~Deniable(Tail(w), policy, A)
  BY <1>7 DEF Deniable, later
<1>10. ASSUME Head(w).action = "call" PROVE policy \cup Head(w).scopes \subseteq A
  <2>1. {Head(w).scopes} \in now
    BY <1>10 DEF now, RunsOf
  <2> QED
    BY <1>6, <2>1
<1>11. ASSUME Head(w).action = "branch"
       PROVE  \A body \in Bodies(Head(w)) : ~Deniable(body, policy, A)
  <2>1. now = Runs[Head(w).then] \cup Runs[Head(w).otherwise]
    BY <1>11 DEF now, RunsOf
  <2> QED
    BY <1>8, <1>11, <2>1 DEF Bodies
<1>12. ASSUME Head(w).action = "parallel"
       PROVE  \A body \in Bodies(Head(w)) : ~Deniable(body, policy, A)
  <2>1. now = Runs[Head(w).children]
    BY <1>12 DEF now, RunsOf
  <2> QED
    BY <1>8, <1>12, <2>1 DEF Bodies
<1>13. ASSUME Head(w).action = "foreach", Head(w).items # {0}
       PROVE  ~Deniable(Head(w).workflow, policy, A)
  <2>1. Runs[Head(w).workflow] \subseteq now
    BY <1>13 DEF now, RunsOf
  <2> QED
    BY <1>8, <2>1
<1> QED
  BY <1>9, <1>10, <1>11, <1>12, <1>13

\* A workflow whose parts can complete can complete.
LEMMA CompletableParts ==
    ASSUME NEW w \in Workflows, w # <<>>, NEW policy, NEW A,
           Completable(Tail(w), policy, A),
           \/ Head(w).action = "emit"
           \/ Head(w).action = "call" /\ policy \cup Head(w).scopes \subseteq A
           \/ \E body \in Bodies(Head(w)) :
                 /\ Completable(body, policy, A)
                 /\ Head(w).action = "foreach" => Head(w).items # {0}
           \/ Head(w).action = "foreach" /\ 0 \in Head(w).items
    PROVE  Completable(w, policy, A)
<1> DEFINE now == RunsOf(Head(w), Runs)
           Free(run) == \A scopes \in run : policy \cup scopes \subseteq A
<1>1. Runs[w] = Together(now, Runs[Tail(w)])
  BY RunsDefined
<1>2. PICK y \in Runs[Tail(w)] : Free(y)
  BY DEF Completable
<1>3. \E x \in now : Free(x)
  <2>1. CASE Head(w).action = "emit"
    BY <2>1 DEF RunsOf
  <2>2. CASE Head(w).action = "call" /\ policy \cup Head(w).scopes \subseteq A
    <3>1. {Head(w).scopes} \in now
      BY <2>2 DEF RunsOf
    <3> QED
      BY <2>2, <3>1
  <2>3. ASSUME NEW body \in Bodies(Head(w)), Completable(body, policy, A),
               Head(w).action = "foreach" => Head(w).items # {0}
        PROVE  \E x \in now : Free(x)
    <3>1. Runs[body] \subseteq now
      <4>1. CASE Head(w).action = "branch"
        BY <2>3, <4>1 DEF RunsOf, Bodies
      <4>2. CASE Head(w).action = "parallel"
        BY <2>3, <4>2 DEF RunsOf, Bodies
      <4>3. CASE Head(w).action = "foreach"
        BY <2>3, <4>3 DEF RunsOf, Bodies
      <4>4. Head(w).action \in {"branch", "parallel", "foreach"}
        BY <2>3 DEF Bodies
      <4> QED
        BY <4>1, <4>2, <4>3, <4>4
    <3> QED
      BY <2>3, <3>1 DEF Completable
  <2>4. CASE Head(w).action = "foreach" /\ 0 \in Head(w).items
    <3>1. {} \in now
      BY <2>4 DEF RunsOf
    <3> QED
      BY <3>1
  <2> QED
    BY <2>1, <2>2, <2>3, <2>4
<1>4. PICK x \in now : Free(x)
  BY <1>3
<1>5. x \cup y \in Runs[w] /\ Free(x \cup y)
  BY <1>1, <1>2, <1>4 DEF Together
<1> QED
  BY <1>5 DEF Completable

-----------------------------------------------------------------------------
(* The inductive invariant of a call                                        *)

\* The capability compiles, the phase is one of its kind and only a phase with a workflow has steps.
ScopesTypeOK ==
    /\ capability \in Capabilities /\ Compiles(capability)
    /\ phase \in IF IsAction(capability)
                 THEN {"called", "preview", "prepared", "recheck", "commit", "query",
                       "completed", "denied", "failed"}
                 ELSE {"called", "run", "completed", "denied", "failed"}
    /\ todo \in Seq(Workflows)
    /\ phase \notin {"run", "preview", "recheck", "commit", "query"} => todo = <<>>
    /\ mutations \in {0, 1}

\* What a commit may still meet: the one mutation of the Action, and then none.
Counted ==
    /\ phase = "commit" => /\ IF mutations = 0 THEN OneIn(todo) ELSE NoneIn(todo)
                           /\ \A i \in DOMAIN todo : IsClean(todo[i])
    /\ mutations = 1 =>
          IsAction(capability) /\ phase \notin {"called", "preview", "prepared", "recheck"}
    /\ phase = "query" => mutations = 1

\* Whether what is left may be denied, and whether it may complete.
MayDeny(w)     == Deniable(w, capability.policy, Effective)
MayComplete(w) == Completable(w, capability.policy, Effective)

\* The workflow that the call begins with cannot complete.
Blocked ==
    ~MayComplete(IF IsAction(capability) THEN capability.preview ELSE capability.workflow)

\* A call goes on with the scopes it was asked for; with all of them no workflow that is left
\* may be denied, and a call that cannot get through its first workflow never does.
Foretold ==
    /\ phase \notin {"called", "denied", "failed"} => Authorized
    /\ mutations = 1 => capability.policy \subseteq Effective
    /\ EffectiveStatus = "callable" =>
          /\ phase # "denied"
          /\ \A i \in DOMAIN todo : ~MayDeny(todo[i])
    /\ Blocked =>
          /\ phase \in {"called", "run", "preview", "denied", "failed"}
          /\ phase \in {"run", "preview"} => \E i \in DOMAIN todo : ~MayComplete(todo[i])

\* The inductive invariant of a call.
ScopesInductive == ScopesTypeOK /\ Counted /\ Foretold

\* No step changes the capability, the ceiling or the permissions, nor what follows from them.
LEMMA InputsStay ==
    ASSUME Inputs
    PROVE  /\ capability' = capability /\ Effective' = Effective
           /\ EffectiveStatus' = EffectiveStatus /\ Authorized' = Authorized
           /\ \A w : (MayDeny(w))' = MayDeny(w) /\ (MayComplete(w))' = MayComplete(w)
           /\ Blocked' = Blocked
BY DEF Inputs, Effective, MapEffectiveScopes, EffectiveStatus, Authorized, MayDeny, MayComplete,
       Blocked

\* A callable capability has the scopes it is asked for, and none of its workflows may be denied.
LEMMA WhenCallable ==
    ASSUME capability \in Capabilities, EffectiveStatus = "callable"
    PROVE  /\ Authorized /\ capability.policy \subseteq Effective
           /\ ~IsAction(capability) => ~MayDeny(capability.workflow)
           /\ IsAction(capability) =>
                 \A w \in {capability.preview, capability.commit, capability.query} : ~MayDeny(w)
<1>1. CASE IsAction(capability)
  <2>1. ProofScopes(capability) \cup capability.policy \subseteq Effective
    BY <1>1, ActionStatus DEF EffectiveStatus
  <2> QED
    BY <1>1, <2>1, ProofCoversRuns DEF Authorized, MayDeny
<1>2. CASE ~IsAction(capability)
  BY <1>2, ReadStatus DEF EffectiveStatus, Authorized, MayDeny
<1> QED
  BY <1>1, <1>2

\* A read that is denied, and yet begins, has a workflow that cannot complete.
LEMMA WhenDenied ==
    ASSUME capability \in Capabilities, EffectiveStatus = "denied",
           ~IsAction(capability), Authorized
    PROVE  ~MayComplete(capability.workflow)
BY ReadStatus DEF EffectiveStatus, Authorized, MayComplete

\* What takes the place of the innermost workflow, and what it tells.
Unfolds(new) ==
    LET w == Head(todo)
    IN  /\ new \in Seq(Workflows)
        /\ \A j \in DOMAIN new : /\ IsClean(w) => IsClean(new[j])
                                 /\ ~MayDeny(w) => ~MayDeny(new[j])
        /\ ~MayComplete(w) => \E j \in DOMAIN new : ~MayComplete(new[j])
        /\ \/ /\ mutations' = mutations
              /\ IsClean(w) /\ MutationPathCounts[w] = {0} => NoneIn(new)
              /\ IsClean(w) /\ MutationPathCounts[w] = {1} => OneIn(new)
           \/ /\ mutations' = mutations + 1 /\ phase = "commit"
              /\ capability.policy \subseteq Effective
              /\ IsClean(w) => MutationPathCounts[w] # {0}
              /\ IsClean(w) /\ MutationPathCounts[w] = {1} => NoneIn(new)

\* A step that unfolds the innermost workflow keeps the invariant.
LEMMA GoesOn ==
    ASSUME ScopesInductive, InWorkflow, NEW new, Unfolds(new), Go(new)
    PROVE  ScopesInductive'
<1> DEFINE next == new \o Tail(todo)
           w == Head(todo)
<1>1. /\ todo \in Seq(Workflows) /\ todo # <<>> /\ new \in Seq(Workflows)
      /\ capability \in Capabilities
  BY DEF ScopesInductive, ScopesTypeOK, InWorkflow, Unfolds
<1>2. todo' = next /\ phase' = phase /\ Inputs
  BY DEF Go
<1>3. /\ next \in Seq(Workflows) /\ w = todo[1] /\ 1 \in DOMAIN todo
  BY <1>1, Replaced
<1>4. /\ \A i \in DOMAIN next : \/ \E j \in DOMAIN new : next[i] = new[j]
                                \/ \E j \in DOMAIN todo \ {1} : next[i] = todo[j]
      /\ \A j \in DOMAIN new : \E i \in DOMAIN next : next[i] = new[j]
      /\ \A j \in DOMAIN todo \ {1} : \E i \in DOMAIN next : next[i] = todo[j]
  BY <1>1, ReplacedElements
<1>5. /\ OneIn(todo) =>
            /\ MutationPathCounts[w] \in {{0}, {1}}
            /\ MutationPathCounts[w] = {0} /\ NoneIn(new) => OneIn(next)
            /\ MutationPathCounts[w] = {1} /\ OneIn(new) => OneIn(next)
            /\ MutationPathCounts[w] = {1} /\ NoneIn(new) => NoneIn(next)
      /\ NoneIn(todo) => MutationPathCounts[w] = {0} /\ (NoneIn(new) => NoneIn(next))
  <2>1. ASSUME NoneIn(todo) PROVE MutationPathCounts[w] = {0} /\ (NoneIn(new) => NoneIn(next))
    BY <1>1, <1>3, <2>1, NoneReplaced DEF NoneIn
  <2> QED
    BY <1>1, <2>1, OneReplaced
<1> HIDE DEF next, w
<1>6. phase \in {"run", "preview", "recheck", "commit", "query"}
  BY DEF InWorkflow
<1>7. phase = "commit" => IsClean(w)
  BY <1>3 DEF ScopesInductive, Counted
<1>8. mutations' \in {0, 1} /\ (mutations' # mutations => phase = "commit" /\ mutations = 0)
  <2>1. CASE mutations' = mutations
    BY <2>1 DEF ScopesInductive, ScopesTypeOK
  <2>2. CASE mutations' = mutations + 1 /\ phase = "commit" /\ MutationPathCounts[w] # {0}
    <3>1. mutations = 0
      BY <1>5, <2>2 DEF ScopesInductive, ScopesTypeOK, Counted
    <3> QED
      BY <2>2, <3>1
  <2> QED
    BY <1>7, <2>1, <2>2 DEF Unfolds, w
<1>9. ScopesTypeOK'
  BY <1>2, <1>3, <1>6, <1>8, InputsStay DEF ScopesInductive, ScopesTypeOK
<1>10. Counted'
  <2>1. ASSUME phase = "commit"
        PROVE  /\ IF mutations' = 0 THEN OneIn(next) ELSE NoneIn(next)
               /\ \A i \in DOMAIN next : IsClean(next[i])
    <3>1. \A i \in DOMAIN next : IsClean(next[i])
      BY <1>4, <1>7, <2>1 DEF ScopesInductive, Counted, Unfolds, w
    <3>2. CASE mutations = 0 /\ mutations' = mutations
      <4>1. /\ MutationPathCounts[w] = {0} => NoneIn(new)
            /\ MutationPathCounts[w] = {1} => OneIn(new)
        BY <1>7, <2>1, <3>2 DEF Unfolds, w
      <4>2. OneIn(todo)
        BY <2>1, <3>2 DEF ScopesInductive, Counted
      <4> QED
        BY <1>5, <3>1, <3>2, <4>1, <4>2
    <3>3. CASE mutations = 0 /\ mutations' # mutations
      <4>1. MutationPathCounts[w] # {0} /\ (MutationPathCounts[w] = {1} => NoneIn(new))
        BY <1>7, <2>1, <3>3 DEF Unfolds, w
      <4>2. OneIn(todo)
        BY <2>1, <3>3 DEF ScopesInductive, Counted
      <4> QED
        BY <1>5, <3>1, <3>3, <4>1, <4>2
    <3>4. CASE mutations # 0
      <4>1. mutations = 1 /\ mutations' = mutations /\ NoneIn(todo)
        BY <1>8, <2>1, <3>4 DEF ScopesInductive, ScopesTypeOK, Counted
      <4>2. MutationPathCounts[w] = {0} => NoneIn(new)
        BY <1>7, <2>1, <4>1 DEF Unfolds, w
      <4> QED
        BY <1>5, <3>1, <4>1, <4>2
    <3> QED
      BY <3>2, <3>3, <3>4
  <2>2. mutations' = 1 =>
           IsAction(capability) /\ phase \notin {"called", "preview", "prepared", "recheck"}
    BY <1>8 DEF ScopesInductive, ScopesTypeOK, Counted
  <2>3. phase = "query" => mutations' = 1
    BY <1>8 DEF ScopesInductive, Counted
  <2>4. (phase' = phase) /\ (todo' = next) /\ (capability' = capability)
    BY <1>2, InputsStay
  <2> QED
    BY <2>1, <2>2, <2>3, <2>4 DEF Counted, OneIn, NoneIn
<1>11. Foretold'
  <2>1. mutations' = 1 => capability.policy \subseteq Effective
    BY DEF ScopesInductive, Foretold, Unfolds
  <2>2. EffectiveStatus = "callable" => \A i \in DOMAIN next : ~MayDeny(next[i])
    <3> SUFFICES ASSUME EffectiveStatus = "callable", NEW i \in DOMAIN next
                 PROVE  ~MayDeny(next[i])
      OBVIOUS
    <3>1. \A j \in DOMAIN todo : ~MayDeny(todo[j])
      BY DEF ScopesInductive, Foretold
    <3>2. \A j \in DOMAIN new : ~MayDeny(new[j])
      BY <1>3, <3>1 DEF Unfolds, w
    <3> QED
      BY <1>4, <3>1, <3>2
  <2>3. Blocked => /\ phase \in {"run", "preview"}
                   /\ \E i \in DOMAIN next : ~MayComplete(next[i])
    <3> SUFFICES ASSUME Blocked
                 PROVE  /\ phase \in {"run", "preview"}
                        /\ \E i \in DOMAIN next : ~MayComplete(next[i])
      OBVIOUS
    <3>0. phase \in {"run", "preview"}
      BY <1>6 DEF ScopesInductive, Foretold
    <3>1. PICK j \in DOMAIN todo : ~MayComplete(todo[j])
      BY <3>0 DEF ScopesInductive, Foretold
    <3>2. CASE j = 1
      <4>1. \E k \in DOMAIN new : ~MayComplete(new[k])
        BY <1>3, <3>1, <3>2 DEF Unfolds, w
      <4> QED
        BY <1>4, <3>0, <4>1
    <3>3. CASE j # 1
      BY <1>4, <3>0, <3>1, <3>3
    <3> QED
      BY <3>2, <3>3
  <2>4. phase \notin {"called", "denied", "failed", "completed"} /\ Authorized
    BY <1>6 DEF ScopesInductive, Foretold
  <2>5. (phase' = phase) /\ (todo' = next)
    BY <1>2
  <2> QED
    BY <1>2, <2>1, <2>2, <2>3, <2>4, <2>5, InputsStay DEF Foretold
<1> QED
  BY <1>9, <1>10, <1>11 DEF ScopesInductive

\* The counts of a workflow that mutates once are not those of one that never does.
LEMMA ZeroIsNotOne == {0} # {1}
<1>1. 0 \in {0} /\ ~(0 \in {1})
  OBVIOUS
<1> QED
  BY <1>1

\* What a step finds: the innermost workflow, and one mutation at most, of an Action.
LEMMA HeadOfTodo ==
    ASSUME ScopesInductive, InWorkflow
    PROVE  /\ todo \in Seq(Workflows) /\ todo # <<>> /\ Head(todo) \in Workflows
           /\ capability \in Capabilities /\ mutations \in {0, 1}
           /\ mutations = 1 => IsAction(capability)
BY Replaced DEF ScopesInductive, ScopesTypeOK, Counted, InWorkflow

\* A workflow that is over.
LEMMA LeavePreserves ==
    ASSUME ScopesInductive, LeaveWorkflow
    PROVE  ScopesInductive'
<1>1. /\ InWorkflow /\ Head(todo) = <<>> /\ Head(todo) \in Workflows
      /\ Go(<<>>) /\ mutations' = mutations
  BY HeadOfTodo DEF LeaveWorkflow
<1>2. /\ Runs[Head(todo)] = {{}}
      /\ MutationPathCounts[Head(todo)] = {0}
  BY <1>1, RunsDefined, MutationPathCountsDefined
<1>3. MayComplete(Head(todo))
  BY <1>2 DEF MayComplete, Completable
<1>4. <<>> \in Seq(Workflows) /\ \A i \in DOMAIN <<>> : FALSE
  OBVIOUS
<1>5. NoneIn(<<>>)
  BY <1>4 DEF NoneIn
<1>6. MutationPathCounts[Head(todo)] # {1}
  BY <1>2, ZeroIsNotOne
<1>7. Unfolds(<<>>)
  BY <1>1, <1>2, <1>3, <1>4, <1>5, <1>6 DEF Unfolds
<1> QED
  BY <1>1, <1>7, GoesOn

\* A step that leaves nothing but the steps after it.
LEMMA SingleFrame ==
    ASSUME NEW v \in Workflows
    PROVE  /\ <<v>> \in Seq(Workflows) /\ DOMAIN <<v>> = {1} /\ <<v>>[1] = v
           /\ MutationPathCounts[v] = {0} => NoneIn(<<v>>)
           /\ MutationPathCounts[v] = {1} => OneIn(<<v>>)
<1>1. <<v>> \in Seq(Workflows) /\ DOMAIN <<v>> = {1} /\ <<v>>[1] = v
  OBVIOUS
<1> QED
  BY <1>1 DEF NoneIn, OneIn

\* A step that calls nothing.
LEMMA EmitPreserves ==
    ASSUME ScopesInductive, EmitStep
    PROVE  ScopesInductive'
<1> DEFINE w == Head(todo)
<1>1. /\ InWorkflow /\ w \in Workflows /\ w # <<>> /\ Head(w).action = "emit"
      /\ Go(<<Tail(w)>>) /\ mutations' = mutations
  BY HeadOfTodo DEF EmitStep, AtStep, StepsAfter
<1>2. Tail(w) \in Workflows
  BY <1>1, Nested
<1>3. IsClean(w) => /\ IsClean(Tail(w))
                    /\ MutationPathCounts[w] = {0} => MutationPathCounts[Tail(w)] = {0}
                    /\ MutationPathCounts[w] = {1} => MutationPathCounts[Tail(w)] = {1}
  BY <1>1, CleanParts, CountsOfParts
<1>4. ~MayDeny(w) => ~MayDeny(Tail(w))
  BY <1>1, DeniableParts DEF MayDeny
<1>5. ~MayComplete(w) => ~MayComplete(Tail(w))
  BY <1>1, CompletableParts DEF MayComplete
<1> DEFINE new == <<Tail(w)>>
<1>6. /\ new \in Seq(Workflows) /\ DOMAIN new = {1} /\ new[1] = Tail(w)
      /\ MutationPathCounts[Tail(w)] = {0} => NoneIn(new)
      /\ MutationPathCounts[Tail(w)] = {1} => OneIn(new)
  BY <1>2, SingleFrame
<1> HIDE DEF w, new
<1>7. Unfolds(new)
  BY <1>1, <1>3, <1>4, <1>5, <1>6 DEF Unfolds, w
<1> QED
  BY <1>1, <1>7, GoesOn DEF new

\* A step that ends the call.
LEMMA EndPreserves ==
    ASSUME ScopesInductive, NEW outcome \in {"denied", "failed"}, End(outcome),
           outcome = "denied" => EffectiveStatus # "callable"
    PROVE  ScopesInductive'
<1>1. /\ phase' = outcome /\ todo' = <<>> /\ mutations' = mutations /\ Inputs
  BY DEF End, Begin
<1>2. <<>> \in Seq(Workflows) /\ DOMAIN <<>> = {}
  OBVIOUS
<1>3. ScopesTypeOK'
  BY <1>1, <1>2, InputsStay DEF ScopesInductive, ScopesTypeOK
<1>4. Counted'
  BY <1>1, InputsStay DEF ScopesInductive, Counted
<1>5. Foretold'
  BY <1>1, <1>2, InputsStay DEF ScopesInductive, Foretold
<1> QED
  BY <1>3, <1>4, <1>5 DEF ScopesInductive

\* A call: refused, denied, or the one mutation of its commit.
LEMMA CallPreserves ==
    ASSUME ScopesInductive, CallStep
    PROVE  ScopesInductive'
<1> DEFINE w == Head(todo)
           step == Head(w)
<1>1. InWorkflow /\ w \in Workflows /\ w # <<>> /\ step.action = "call"
  BY HeadOfTodo DEF CallStep, AtStep
<1>2. CASE step.mutates /\ phase # "commit"
  <2>1. End("failed")
    BY <1>2 DEF CallStep
  <2> QED
    BY <2>1, EndPreserves
<1>3. CASE /\ ~(step.mutates /\ phase # "commit")
           /\ ~(capability.policy \cup step.scopes \subseteq Effective)
  <2>1. End("denied")
    BY <1>3 DEF CallStep
  <2>2. MayDeny(w)
    BY <1>1, <1>3, DeniableParts DEF MayDeny
  <2>3. w = todo[1] /\ 1 \in DOMAIN todo
    BY HeadOfTodo, <1>1
  <2>4. EffectiveStatus # "callable"
    BY <2>2, <2>3 DEF ScopesInductive, Foretold
  <2> QED
    BY <2>1, <2>4, EndPreserves
<1>4. CASE /\ ~(step.mutates /\ phase # "commit")
           /\ capability.policy \cup step.scopes \subseteq Effective
  <2>1. /\ Go(<<Tail(w)>>)
        /\ mutations' = mutations + (IF step.mutates THEN 1 ELSE 0)
    BY <1>4 DEF CallStep, StepsAfter
  <2>2. Tail(w) \in Workflows /\ step.mutates \in BOOLEAN
    BY <1>1, Nested DEF IsStep
  <2>3. IsClean(w) =>
           /\ IsClean(Tail(w))
           /\ MutationPathCounts[w] = {0} =>
                 ~step.mutates /\ MutationPathCounts[Tail(w)] = {0}
           /\ MutationPathCounts[w] = {1} /\ ~step.mutates => MutationPathCounts[Tail(w)] = {1}
           /\ MutationPathCounts[w] = {1} /\ step.mutates => MutationPathCounts[Tail(w)] = {0}
    BY <1>1, <2>2, CleanParts, CountsOfParts
  <2>4. ~MayDeny(w) => ~MayDeny(Tail(w))
    BY <1>1, DeniableParts DEF MayDeny
  <2>5. ~MayComplete(w) => ~MayComplete(Tail(w))
    BY <1>1, <1>4, CompletableParts DEF MayComplete
  <2>6. mutations \in {0, 1}
    BY <1>1, HeadOfTodo
  <2> HIDE DEF w
  <2>7. CASE ~step.mutates
    <3>1. mutations' = mutations
      BY <2>1, <2>6, <2>7
    <3>2. Unfolds(<<Tail(w)>>)
      BY <2>2, <2>3, <2>4, <2>5, <2>7, <3>1, SingleFrame DEF Unfolds, w
    <3> QED
      BY <1>1, <2>1, <3>2, GoesOn
  <2>8. CASE step.mutates
    <3>1. mutations' = mutations + 1 /\ phase = "commit" /\ capability.policy \subseteq Effective
      BY <1>4, <2>1, <2>8
    <3>2. Unfolds(<<Tail(w)>>)
      BY <2>2, <2>3, <2>4, <2>5, <2>8, <3>1, SingleFrame DEF Unfolds, w
    <3> QED
      BY <1>1, <2>1, <3>2, GoesOn
  <2> QED
    BY <2>7, <2>8
<1> QED
  BY <1>2, <1>3, <1>4

\* One of the bodies of a step, and then the steps after it.
LEMMA BodyPreserves ==
    ASSUME ScopesInductive, InWorkflow, Head(todo) # <<>>,
           Head(Head(todo)).action \in {"branch", "parallel"},
           NEW body \in Bodies(Head(Head(todo))), Go(<<body, Tail(Head(todo))>>),
           mutations' = mutations
    PROVE  ScopesInductive'
<1> DEFINE w == Head(todo)
           rest == Tail(w)
           new == <<body, rest>>
<1>1. /\ w \in Workflows /\ w # <<>> /\ Head(w).action \in {"branch", "parallel"}
      /\ body \in Bodies(Head(w)) /\ Go(new)
  BY HeadOfTodo
<1>2. body \in Workflows /\ rest \in Workflows
  BY <1>1, WorkflowsAreNested
<1>3. new \in Seq(Workflows) /\ DOMAIN new = {1, 2} /\ new[1] = body /\ new[2] = rest
  BY <1>2
<1>4. IsClean(w) =>
         /\ IsClean(body) /\ IsClean(rest)
         /\ MutationPathCounts[w] = {0} =>
               MutationPathCounts[body] = {0} /\ MutationPathCounts[rest] = {0}
         /\ MutationPathCounts[w] = {1} =>
               \/ MutationPathCounts[body] = {1} /\ MutationPathCounts[rest] = {0}
               \/ MutationPathCounts[body] = {0} /\ MutationPathCounts[rest] = {1}
  BY <1>1, CleanParts, CountsOfParts
<1>5. ~MayDeny(w) => ~MayDeny(body) /\ ~MayDeny(rest)
  BY <1>1, DeniableParts DEF MayDeny
<1>6. ~MayComplete(w) => ~MayComplete(body) \/ ~MayComplete(rest)
  BY <1>1, CompletableParts DEF MayComplete
<1> HIDE DEF w, rest, new
<1>7. IsClean(w) => /\ MutationPathCounts[w] = {0} => NoneIn(new)
                    /\ MutationPathCounts[w] = {1} => OneIn(new)
  BY <1>3, <1>4 DEF NoneIn, OneIn
<1>8. Unfolds(new)
  BY <1>3, <1>4, <1>5, <1>6, <1>7 DEF Unfolds, w
<1> QED
  BY <1>1, <1>8, GoesOn

\* A branch goes on with one of its bodies, whichever the data choose.
LEMMA BranchPreserves ==
    ASSUME ScopesInductive, BranchStep
    PROVE  ScopesInductive'
BY BodyPreserves DEF BranchStep, AtStep, StepsAfter

\* A parallel step goes on with its children, which hold no mutation.
LEMMA ParallelPreserves ==
    ASSUME ScopesInductive, ParallelStep
    PROVE  ScopesInductive'
<1>1. Head(Head(todo)).children \in Bodies(Head(Head(todo)))
  BY DEF ParallelStep, AtStep, Bodies
<1> QED
  BY <1>1, BodyPreserves DEF ParallelStep, AtStep, StepsAfter

\* A foreach goes on with a body per item: a literal list has as many as it says.
LEMMA ForeachPreserves ==
    ASSUME ScopesInductive, ForeachStep
    PROVE  ScopesInductive'
<1> DEFINE w == Head(todo)
           step == Head(w)
           rest == Tail(w)
           body == step.workflow
<1>1. InWorkflow /\ w \in Workflows /\ w # <<>> /\ step.action = "foreach"
  BY HeadOfTodo DEF ForeachStep, AtStep
<1>2. PICK n \in step.items :
         IF n > step.most THEN End("failed")
         ELSE Go(Append([i \in 1..n |-> body], rest)) /\ mutations' = mutations
  BY DEF ForeachStep, StepsAfter
<1>3. n \in Nat /\ body \in Workflows /\ rest \in Workflows
  BY <1>1, Nested DEF IsStep
<1>4. CASE n > step.most
  BY <1>2, <1>4, EndPreserves
<1>5. CASE ~(n > step.most)
  <2> DEFINE new == Append([i \in 1..n |-> body], rest)
  <2>1. /\ new \in Seq(Workflows) /\ DOMAIN new = 1 .. n + 1
        /\ \A i \in 1 .. n : new[i] = body
        /\ new[n + 1] = rest
    BY <1>3
  <2>2. Go(new) /\ mutations' = mutations
    BY <1>2, <1>5
  <2>3. body \in Bodies(step)
    BY <1>1 DEF Bodies
  <2>4. IsClean(w) =>
           /\ IsClean(body) /\ IsClean(rest) /\ MutationPathCounts[body] = {0}
           /\ MutationPathCounts[w] = {0} => MutationPathCounts[rest] = {0}
           /\ MutationPathCounts[w] = {1} => MutationPathCounts[rest] = {1}
    <3>1. IsClean(w) => IsClean(body) /\ IsClean(rest) /\ ~Mutates(body)
      BY <1>1, <2>3, CleanParts
    <3>2. IsClean(w) => MutationPathCounts[body] = {0}
      BY <1>3, <3>1, NoMutation
    <3> QED
      BY <1>1, <3>1, <3>2, CountsOfParts
  <2>5. ~MayDeny(w) => ~MayDeny(rest) /\ (n = 0 \/ ~MayDeny(body))
    BY <1>1, <1>3, DeniableParts DEF MayDeny
  <2>6. ~MayComplete(w) => ~MayComplete(rest) \/ (n # 0 /\ ~MayComplete(body))
    <3>1. n = 0 => 0 \in step.items
      OBVIOUS
    <3>2. n # 0 => step.items # {0}
      BY <1>3
    <3> QED
      BY <1>1, <2>3, <3>1, <3>2, CompletableParts DEF MayComplete
  <2> HIDE DEF w, rest, body, new
  <2>7. \A i \in DOMAIN new : (i = n + 1 /\ new[i] = rest) \/ (i # n + 1 /\ n # 0 /\ new[i] = body)
    <3>1. \A i \in 1 .. n + 1 : i = n + 1 \/ (i \in 1 .. n /\ i # n + 1 /\ n # 0)
      BY <1>3
    <3> QED
      BY <2>1, <3>1
  <2>8. n + 1 \in DOMAIN new /\ (n # 0 => 1 \in DOMAIN new /\ new[1] = body)
    BY <1>3, <2>1
  <2>9. IsClean(w) => /\ MutationPathCounts[w] = {0} => NoneIn(new)
                      /\ MutationPathCounts[w] = {1} => OneIn(new)
    BY <2>1, <2>4, <2>7, <2>8 DEF NoneIn, OneIn
  <2>10. \A j \in DOMAIN new : /\ IsClean(w) => IsClean(new[j])
                               /\ ~MayDeny(w) => ~MayDeny(new[j])
    BY <2>4, <2>5, <2>7
  <2>11. ~MayComplete(w) => \E j \in DOMAIN new : ~MayComplete(new[j])
    BY <2>1, <2>6, <2>8
  <2>12. Unfolds(new)
    BY <2>1, <2>2, <2>9, <2>10, <2>11 DEF Unfolds, w
  <2> QED
    BY <1>1, <2>2, <2>12, GoesOn
<1> QED
  BY <1>4, <1>5

\* The call of a capability that compiles, before its first step.
LEMMA ScopesInitially == ScopesInit => ScopesInductive
<1> SUFFICES ASSUME ScopesInit PROVE ScopesInductive
  OBVIOUS
<1>1. <<>> \in Seq(Workflows) /\ DOMAIN <<>> = {}
  OBVIOUS
<1>2. ScopesTypeOK
  BY <1>1 DEF ScopesInit, ScopesTypeOK
<1>3. Counted
  BY DEF ScopesInit, Counted
<1>4. Foretold
  BY <1>1 DEF ScopesInit, Foretold
<1> QED
  BY <1>2, <1>3, <1>4 DEF ScopesInductive

\* A call that has nothing left completes, unless it cannot.
LEMMA DonePreserves ==
    ASSUME ScopesInductive, Authorized, ~Blocked, End("completed")
    PROVE  ScopesInductive'
<1>1. /\ phase' = "completed" /\ todo' = <<>> /\ mutations' = mutations /\ Inputs
      /\ <<>> \in Seq(Workflows) /\ DOMAIN <<>> = {}
  BY DEF End, Begin
<1>2. ScopesTypeOK'
  BY <1>1, InputsStay DEF ScopesInductive, ScopesTypeOK
<1>3. Counted'
  BY <1>1, InputsStay DEF ScopesInductive, Counted
<1>4. Foretold'
  BY <1>1, InputsStay DEF ScopesInductive, Foretold
<1> QED
  BY <1>2, <1>3, <1>4 DEF ScopesInductive

\* A workflow that the call begins with: of a read, a preview or a status query.
LEMMA BeginPreserves ==
    ASSUME ScopesInductive, Authorized, NEW next, NEW w \in Workflows, Begin(next, <<w>>),
           \/ next = "run" /\ ~IsAction(capability) /\ w = capability.workflow
           \/ next = "preview" /\ IsAction(capability) /\ w = capability.preview /\ mutations = 0
           \/ next = "recheck" /\ IsAction(capability) /\ w = capability.preview /\ mutations = 0
           \/ next = "commit" /\ IsAction(capability) /\ w = capability.commit /\ mutations = 0
           \/ next = "query" /\ IsAction(capability) /\ w = capability.query /\ mutations = 1,
           next \in {"recheck", "commit", "query"} => ~Blocked
    PROVE  ScopesInductive'
<1>1. /\ phase' = next /\ todo' = <<w>> /\ mutations' = mutations /\ Inputs
      /\ capability \in Capabilities /\ Compiles(capability) /\ mutations \in {0, 1}
  BY DEF Begin, ScopesInductive, ScopesTypeOK
<1>2. <<w>> \in Seq(Workflows) /\ DOMAIN <<w>> = {1} /\ <<w>>[1] = w
  OBVIOUS
<1>3. ScopesTypeOK'
  BY <1>1, <1>2, InputsStay DEF ScopesTypeOK
<1>4. next = "commit" => IsClean(w) /\ OneIn(<<w>>)
  <2> SUFFICES ASSUME next = "commit" PROVE IsClean(w) /\ OneIn(<<w>>)
    OBVIOUS
  <2>1. w = capability.commit /\ IsAction(capability)
    OBVIOUS
  <2>2. IsClean(w) /\ MutationPathCounts[w] = {1}
    BY <1>1, <2>1 DEF Compiles, SingleMode, IsClean
  <2> QED
    BY <2>2, SingleFrame
<1>5. Counted'
  <2>1. next = "commit" => /\ mutations = 0 /\ OneIn(<<w>>)
                           /\ \A i \in DOMAIN <<w>> : IsClean(<<w>>[i])
    BY <1>2, <1>4
  <2>2. mutations = 1 => next = "query" /\ IsAction(capability)
    BY DEF ScopesInductive, Counted
  <2>3. next # "completed" /\ (next = "query" => mutations = 1)
    OBVIOUS
  <2>4. (OneIn(todo))' = OneIn(<<w>>) /\ todo' = <<w>> /\ mutations' = mutations /\ phase' = next
    BY <1>1 DEF OneIn
  <2>5. IsAction(capability)' = IsAction(capability)
    BY <1>1, InputsStay
  <2> QED
    BY <1>1, <2>1, <2>2, <2>3, <2>4, <2>5 DEF Counted, IsClean
<1>6. EffectiveStatus = "callable" => ~MayDeny(w)
  BY <1>1, WhenCallable
<1>7. Blocked => next \in {"run", "preview"} /\ ~MayComplete(w)
  BY DEF Blocked
<1>8. Foretold'
  <2>1. mutations = 1 => capability.policy \subseteq Effective
    BY DEF ScopesInductive, Foretold
  <2>2. EffectiveStatus = "callable" => \A i \in DOMAIN <<w>> : ~MayDeny(<<w>>[i])
    BY <1>2, <1>6
  <2>3. Blocked => /\ next \in {"run", "preview"}
                   /\ \E i \in DOMAIN <<w>> : ~MayComplete(<<w>>[i])
    BY <1>2, <1>7
  <2>4. next \notin {"denied", "completed"}
    OBVIOUS
  <2> QED
    BY <1>1, <2>1, <2>2, <2>3, <2>4, InputsStay DEF Foretold
<1> QED
  BY <1>3, <1>5, <1>8 DEF ScopesInductive

\* Every step of the call, in the order of ScopesNext.
LEMMA ScopesStep == ScopesInductive /\ [ScopesNext]_scopeVars => ScopesInductive'
<1> SUFFICES ASSUME ScopesInductive, [ScopesNext]_scopeVars PROVE ScopesInductive'
  OBVIOUS
<1>0. /\ capability \in Capabilities
      /\ IsAction(capability) => capability.preview \in Workflows /\ capability.commit \in Workflows
                                 /\ capability.query \in Workflows
      /\ ~IsAction(capability) => capability.workflow \in Workflows
      /\ <<>> \in Seq(Workflows) /\ DOMAIN <<>> = {}
      /\ mutations \in {0, 1}
  BY Declared DEF ScopesInductive, ScopesTypeOK
<1>1. CASE RefuseCall
  <2>1. EffectiveStatus # "callable"
    BY <1>0, <1>1, WhenCallable DEF RefuseCall
  <2> QED
    BY <1>1, <2>1, EndPreserves DEF RefuseCall
<1>2. CASE RunRead
  BY <1>0, <1>2, BeginPreserves DEF RunRead
<1>3. CASE Preview
  <2>1. mutations = 0
    BY <1>0, <1>3 DEF Preview, ScopesInductive, Counted
  <2> QED
    BY <1>0, <1>3, <2>1, BeginPreserves DEF Preview
<1>4. CASE Seal
  <2>1. /\ phase = "preview" /\ phase' = "prepared" /\ todo' = <<>> /\ mutations' = mutations
        /\ Inputs /\ IsAction(capability) /\ ~Blocked
    BY <1>0, <1>4 DEF Seal, Begin, ScopesInductive, ScopesTypeOK, Foretold
  <2>2. ScopesTypeOK'
    BY <1>0, <2>1, InputsStay DEF ScopesInductive, ScopesTypeOK
  <2>3. Counted'
    BY <2>1, InputsStay DEF ScopesInductive, Counted
  <2>4. Foretold'
    BY <1>0, <2>1, InputsStay DEF ScopesInductive, Foretold
  <2> QED
    BY <2>2, <2>3, <2>4 DEF ScopesInductive
<1>5. CASE StartCommit
  <2>1. mutations = 0 /\ IsAction(capability) /\ Authorized /\ ~Blocked
    BY <1>0, <1>5 DEF StartCommit, ScopesInductive, Counted, Foretold, ScopesTypeOK
  <2>2. CASE End("completed")
    BY <2>1, <2>2, DonePreserves
  <2>3. CASE Begin("recheck", <<capability.preview>>) \/ Begin("commit", <<capability.commit>>)
    BY <1>0, <2>1, <2>3, BeginPreserves
  <2> QED
    BY <1>5, <2>2, <2>3 DEF StartCommit
<1>6. CASE Rechecked
  <2>1. mutations = 0 /\ IsAction(capability) /\ Authorized /\ ~Blocked
    BY <1>0, <1>6 DEF Rechecked, ScopesInductive, Counted, Foretold, ScopesTypeOK
  <2>2. CASE End("completed")
    BY <2>1, <2>2, DonePreserves
  <2>3. CASE Begin("commit", <<capability.commit>>)
    BY <1>0, <2>1, <2>3, BeginPreserves
  <2> QED
    BY <1>6, <2>2, <2>3 DEF Rechecked
<1>7. CASE Resolve
  <2>1. IsAction(capability) /\ Authorized /\ ~Blocked
    BY <1>7 DEF Resolve, ScopesInductive, ScopesTypeOK, Foretold
  <2>2. CASE mutations = 1
    BY <1>0, <1>7, <2>1, <2>2, BeginPreserves DEF Resolve
  <2>3. CASE mutations # 1
    BY <1>7, <2>3, EndPreserves DEF Resolve
  <2> QED
    BY <2>2, <2>3
<1>8. CASE Complete
  <2>1. phase \in {"run", "query"} /\ todo = <<>> /\ End("completed")
    BY <1>8 DEF Complete
  <2>2. Authorized /\ ~Blocked
    BY <1>0, <2>1 DEF ScopesInductive, Foretold
  <2> QED
    BY <2>1, <2>2, DonePreserves
<1>9. CASE FailStep
  BY <1>9, EndPreserves DEF FailStep
<1>10. CASE CallEnded \/ UNCHANGED scopeVars
  <2>1. UNCHANGED scopeVars
    BY <1>10 DEF CallEnded
  <2>2. Inputs /\ phase' = phase /\ todo' = todo /\ mutations' = mutations
    BY <2>1 DEF scopeVars, Inputs
  <2>3. ScopesTypeOK'
    BY <2>2, InputsStay DEF ScopesInductive, ScopesTypeOK
  <2>4. Counted'
    BY <2>2, InputsStay DEF ScopesInductive, Counted, OneIn, NoneIn, IsClean
  <2>5. Foretold'
    BY <2>2, InputsStay DEF ScopesInductive, Foretold
  <2> QED
    BY <2>3, <2>4, <2>5 DEF ScopesInductive
<1> QED
  BY <1>1, <1>2, <1>3, <1>4, <1>5, <1>6, <1>7, <1>8, <1>9, <1>10, CallPreserves, BranchPreserves,
     ParallelPreserves, ForeachPreserves, EmitPreserves, LeavePreserves DEF ScopesNext

\* Along every call, of any capability and under any ceiling and permissions, what is left to
\* run holds the one mutation of a commit that has not sent it, and fits the status that was
\* reported (coordinator.py, runtime_executor.py, executor.py, callability.py).
THEOREM CallsAreForetold == ScopesSpec => []ScopesInductive
<1> QED
  BY ScopesInitially, ScopesStep, PTL DEF ScopesSpec

\* The mutation that is ahead of a commit is behind it when nothing is left.
LEMMA ForetoldSingle == ScopesInductive => SingleMutation
<1> SUFFICES ASSUME ScopesInductive PROVE SingleMutation
  OBVIOUS
<1>1. mutations \in {0, 1}
  BY DEF ScopesInductive, ScopesTypeOK
<1>2. mutations = 1 =>
         IsAction(capability) /\ phase \notin {"called", "run", "preview", "prepared", "recheck"}
  BY DEF ScopesInductive, ScopesTypeOK, Counted
<1>3. ASSUME phase = "commit", todo = <<>> PROVE mutations = 1
  <2>1. ~OneIn(todo)
    BY <1>3 DEF OneIn
  <2> QED
    BY <1>1, <1>3, <2>1 DEF ScopesInductive, Counted
<1> QED
  BY <1>1, <1>2, <1>3 DEF SingleMutation

\* An Action whose commit the compiler proved sends one mutation in every commit that runs its
\* workflow to the end and never two, for any nesting of branches and lists; a commit that
\* answers with a preview sends none (compiler/actions.py, executor.py, runtime_executor.py).
THEOREM ActionsMutateOnce == ScopesSpec => []SingleMutation
<1> QED
  BY CallsAreForetold, ForetoldSingle, PTL

\* Deployment and user restrict a call independently of each other.
LEMMA DimensionsAgree ==
    ASSUME capability \in Capabilities
    PROVE  /\ EffectiveStatus = "callable" <=>
                 DeploymentStatus = "callable" /\ UserStatus \in {"callable", "unknown"}
           /\ "denied" \in {DeploymentStatus, UserStatus} => EffectiveStatus = "denied"
<1> DEFINE needs == Requirements(capability)
           Mapped == UNION {ScopeMapping[p] : p \in permissions.scopes \cap DOMAIN ScopeMapping}
           Covered(A) == needs.always \cup needs.feasible \subseteq A
           Possible(A) == \E a \in needs.alternatives : a \subseteq A
<1>1. /\ needs.alternatives # {}
      /\ needs.always \subseteq needs.structural /\ needs.feasible \subseteq needs.structural
      /\ \A a \in needs.alternatives : a \subseteq needs.structural
  BY RequirementsAreOrdered DEF IsOrdered
<1>2. \A A : Status(capability, A) = IF Covered(A) THEN "callable"
                                     ELSE IF Possible(A) THEN "conditional" ELSE "denied"
  BY DEF Status
<1>3. CASE permissions.known
  <2>1. /\ Effective = ceiling \cap Mapped
        /\ UserStatus = Status(capability, needs.structural \cap Mapped)
    BY <1>3 DEF Effective, UserStatus, MapEffectiveScopes
  <2> HIDE DEF needs, Mapped
  <2>2. Covered(ceiling \cap Mapped) <=> Covered(ceiling) /\ Covered(needs.structural \cap Mapped)
    BY <1>1
  <2>3. Possible(ceiling \cap Mapped) => Possible(ceiling) /\ Possible(needs.structural \cap Mapped)
    BY <1>1
  <2> HIDE DEF Covered, Possible
  <2>4. /\ EffectiveStatus = Status(capability, ceiling \cap Mapped)
        /\ DeploymentStatus = Status(capability, ceiling)
    BY <2>1 DEF EffectiveStatus, DeploymentStatus
  <2> QED
    BY <1>2, <2>1, <2>2, <2>3, <2>4
<1>4. CASE ~permissions.known
  <2>1. Effective = ceiling /\ UserStatus = "unknown"
    BY <1>4 DEF Effective, UserStatus, MapEffectiveScopes
  <2> QED
    BY <2>1 DEF EffectiveStatus, DeploymentStatus
<1> QED
  BY <1>3, <1>4

\* What is left of the workflows says how the call may end.
LEMMA ForetoldStatus == ScopesInductive => StatusForetellsRun
<1> SUFFICES ASSUME ScopesInductive PROVE StatusForetellsRun
  OBVIOUS
<1>0. capability \in Capabilities
  BY DEF ScopesInductive, ScopesTypeOK
<1>1. Accepted(capability)
  BY <1>0, RequirementsAreOrdered DEF IsOrdered, Accepted
<1>2. EffectiveStatus = "callable" => phase # "denied"
  BY DEF ScopesInductive, Foretold
<1>3. ASSUME EffectiveStatus = "denied", phase = "completed" PROVE Unasked
  <2>1. Authorized /\ ~Blocked /\ mutations \in {0, 1}
    BY <1>3 DEF ScopesInductive, ScopesTypeOK, Foretold
  <2>2. IsAction(capability)
    BY <1>0, <1>3, <2>1, WhenDenied DEF Blocked
  <2>3. ~(capability.policy \subseteq Effective)
    <3>1. ProofScopes(capability) \subseteq Effective
      BY <2>1, <2>2 DEF Authorized
    <3>2. ~(ProofScopes(capability) \cup capability.policy \subseteq Effective)
      BY <1>0, <1>3, <2>2, ActionStatus DEF EffectiveStatus
    <3> QED
      BY <3>1, <3>2
  <2>4. mutations = 0
    BY <2>1, <2>3 DEF ScopesInductive, Foretold
  <2>5. PICK run \in Runs[capability.preview] :
           \A scopes \in run : capability.policy \cup scopes \subseteq Effective
    BY <2>1, <2>2 DEF Blocked, MayComplete, Completable
  <2>6. run = {}
    BY <2>3, <2>5
  <2> QED
    BY <2>2, <2>4, <2>5, <2>6 DEF Unasked
<1>4. ASSUME EffectiveStatus = "conditional"
      PROVE  /\ Completable(capability.workflow, capability.policy, Effective)
             /\ Deniable(capability.workflow, capability.policy, Effective)
  <2>1. ~IsAction(capability)
    BY <1>0, <1>4, ActionStatus DEF EffectiveStatus
  <2> QED
    BY <1>0, <1>4, <2>1, ReadStatus DEF EffectiveStatus
<1> QED
  BY <1>0, <1>1, <1>2, <1>3, <1>4, DimensionsAgree DEF StatusForetellsRun

\* What `acc run` and the runtime report of a capability is what its calls then do: callable is
\* never denied for a scope, denied never completes, and conditional can do both
\* (scope/analysis.py, callability.py, context.py, executor.py).
THEOREM StatusIsTrue == ScopesSpec => []StatusForetellsRun
<1> QED
  BY CallsAreForetold, ForetoldStatus, PTL
=============================================================================
