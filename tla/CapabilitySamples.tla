-------------------------- MODULE CapabilitySamples --------------------------
(***************************************************************************)
(* Small capabilities for CapabilityScopes, and the scopes under which they *)
(* are called.                                                              *)
(***************************************************************************)
EXTENDS Integers, Sequences, FiniteSetsExt, TLC

Read(scopes)  == [action |-> "call", scopes |-> scopes, mutates |-> FALSE]
Write(scopes) == [action |-> "call", scopes |-> scopes, mutates |-> TRUE]
Emit == [action |-> "emit"]

Branch(yes, no)  == [action |-> "branch", then |-> yes, otherwise |-> no]
Parallel(body)   == [action |-> "parallel", children |-> body]
Foreach(n, body) == [action |-> "foreach", items |-> n, most |-> 2, workflow |-> body]

\* Lists of no, one and too many items, and one that only the run knows.
Lengths == {{0}, {1}, {3}, 0..2}

Bodies == {<<Read({"a"})>>, <<Read({"b"})>>, <<Emit>>}
Flat == {Branch(yes, no) : yes, no \in Bodies}
        \cup {Foreach(n, body) : n \in Lengths, body \in Bodies}
        \cup {Parallel(body) : body \in Bodies}
Nested == {Branch(<<step>>, body) : step \in Flat, body \in {<<Emit>>, <<Read({"b"})>>}}
          \cup {Foreach(n, <<step>>) : n \in {{1}, 0..2}, step \in Flat}
          \cup {Parallel(<<step, Read({"b"})>>) : step \in Flat}
\* It calls nothing.
Plain == [kind |-> "read", policy |-> {}, workflow |-> <<Emit>>]
Reads ==
    {Plain} \cup
    {[kind |-> "read", policy |-> policy, workflow |-> workflow] :
        policy \in {{}, {"c"}},
        workflow \in {<<step>> : step \in Nested} \cup {<<Read({"a"}), step>> : step \in Flat}
                     \cup {<<Emit, Write({"a"})>>}}

\* Commits that mutate once, once on some paths, twice, or in a container.
Write1 == <<Write({"a"})>>
Write2 == <<Write({"b"})>>
Commits ==
    {Write1, Write1 \o Write2, <<Read({"b"})>> \o Write1,
     <<Branch(Write1, Write2)>>, <<Branch(Write1, <<Emit>>)>>,
     <<Branch(Write1, <<Branch(Write2, <<Read({"b"})>> \o Write1)>>)>>,
     <<Branch(Write1 \o Write2, Write1)>>, <<Branch(<<Emit>>, Write1)>> \o Write1,
     <<Foreach({1}, Write1)>>, <<Parallel(Write1)>>,
     <<Foreach(0..2, <<Read({"b"})>>)>> \o Write1}
Actions ==
    {[kind |-> "action", policy |-> policy, preview |-> preview, commit |-> commit, query |-> query] :
        policy \in {{}, {"c"}}, commit \in Commits,
        preview \in {<<Read({"a"})>>, <<Branch(<<Read({"a"})>>, <<Emit>>)>>, Write1},
        query \in {<<>>, <<Read({"b"})>>}}

Inside(step) ==
    CASE step.action = "branch"   -> {step.then, step.otherwise}
      [] step.action = "parallel" -> {step.children}
      [] step.action = "foreach"  -> {step.workflow}
      [] OTHER                    -> {}

RECURSIVE Parts(_)
Parts(w) ==
    IF w = <<>> THEN {w}
    ELSE {w} \cup UNION {Parts(inner) : inner \in Inside(Head(w)) \cup {Tail(w)}}

RECURSIVE StepsIn(_)
StepsIn(w) ==
    IF w = <<>> THEN 0
    ELSE 1 + StepsIn(Tail(w)) + FoldSet(LAMBDA body, n : n + StepsIn(body), 0, Inside(Head(w)))

Remainders ==
    UNION ({Parts(c.workflow) : c \in Reads}
           \cup {Parts(c.preview) \cup Parts(c.commit) \cup Parts(c.query) : c \in Actions})
StepCounts == [w \in Remainders |-> StepsIn(w)]

Scopes == {"a", "b", "c"}
Limits == {{}, {"a"}, {"a", "b"}, {"b", "c"}, Scopes}
Mapped == ("x" :> {"a"}) @@ ("y" :> {"b", "c"})
Users ==
    {[known |-> FALSE, scopes |-> {}]}
    \cup {[known |-> TRUE, scopes |-> s] : s \in {{}, {"x"}, {"y"}, {"x", "y", "z"}}}
===============================================================================
