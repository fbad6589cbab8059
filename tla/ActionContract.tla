--------------------------- MODULE ActionContract ---------------------------
(***************************************************************************)
(* What the Action runtime promises about one mutation, without requests,  *)
(* rows, faults or clocks: an Action is offered, cleared, claimed, and its *)
(* claim carries at most one permit, which is spent on at most one effect. *)
(* An Action is done with one value, the only one anybody is ever told.    *)
(***************************************************************************)
EXTENDS Naturals

CONSTANTS Actions, Values, NoValue

VARIABLES
    phase,    \* how far every Action has come
    permit,   \* somebody may still cause the Action's effect
    effects,  \* how often its effect was caused
    value,    \* what it was done with
    answers   \* the values told to anybody

vars == <<phase, permit, effects, value, answers>>

Phases == {"new", "offered", "cleared", "claimed", "done", "void"}

TypeOK ==
    /\ phase \in [Actions -> Phases]
    /\ permit \in [Actions -> BOOLEAN]
    /\ effects \in [Actions -> Nat]
    /\ value \in [Actions -> Values \cup {NoValue}]
    /\ answers \in [Actions -> SUBSET Values]

Init ==
    /\ phase = [a \in Actions |-> "new"]
    /\ permit = [a \in Actions |-> FALSE]
    /\ effects = [a \in Actions |-> 0]
    /\ value = [a \in Actions |-> NoValue]
    /\ answers = [a \in Actions |-> {}]

\* A new Action is offered; overdue ones may be voided by the same step.
Offer(a, overdue) ==
    /\ phase[a] = "new"
    /\ \A b \in overdue : phase[b] # "new"
    /\ phase' = [b \in Actions |-> IF b = a THEN "offered"
                                   ELSE IF b \in overdue THEN "void" ELSE phase[b]]
    /\ UNCHANGED <<permit, effects, value, answers>>

Clear(a) ==
    /\ phase[a] = "offered"
    /\ phase' = [phase EXCEPT ![a] = "cleared"]
    /\ UNCHANGED <<permit, effects, value, answers>>

\* The claim's permit may be lost together with whoever made the claim.
Claim(a) ==
    /\ phase[a] = "cleared"
    /\ phase' = [phase EXCEPT ![a] = "claimed"]
    /\ \E held \in BOOLEAN : permit' = [permit EXCEPT ![a] = held]
    /\ UNCHANGED <<effects, value, answers>>

Spend(a) ==
    /\ permit[a]
    /\ permit' = [permit EXCEPT ![a] = FALSE]
    /\ effects' = [effects EXCEPT ![a] = @ + 1]
    /\ UNCHANGED <<phase, value, answers>>

Forgo(a) ==
    /\ permit[a]
    /\ permit' = [permit EXCEPT ![a] = FALSE]
    /\ UNCHANGED <<phase, effects, value, answers>>

\* A claim is settled only when its permit is gone, and with one value.
Settle(a, v) ==
    /\ phase[a] = "claimed"
    /\ ~permit[a]
    /\ value[a] = NoValue
    /\ phase' = [phase EXCEPT ![a] = "done"]
    /\ value' = [value EXCEPT ![a] = v]
    /\ UNCHANGED <<permit, effects, answers>>

Void(a) ==
    /\ phase[a] # "new"
    /\ phase' = [phase EXCEPT ![a] = "void"]
    /\ UNCHANGED <<permit, effects, value, answers>>

Answer(a) ==
    /\ value[a] # NoValue
    /\ answers' = [answers EXCEPT ![a] = @ \cup {value[a]}]
    /\ UNCHANGED <<phase, permit, effects, value>>

Next ==
    \E a \in Actions :
        \/ \E overdue \in SUBSET Actions : Offer(a, overdue)
        \/ Clear(a) \/ Claim(a) \/ Spend(a) \/ Forgo(a) \/ Void(a) \/ Answer(a)
        \/ \E v \in Values : Settle(a, v)

Spec == Init /\ [][Next]_vars

-----------------------------------------------------------------------------

\* The contract's own consequence: a permit and an effect exclude each other and
\* neither exists before the claim, so an Action has at most one effect.
OneEffect == \A a \in Actions : effects[a] <= 1

\* Why OneEffect holds; it is inductive.
PermitOrEffect ==
    \A a \in Actions :
        /\ phase[a] \in {"new", "offered", "cleared"} => ~permit[a] /\ effects[a] = 0
        /\ permit[a] => effects[a] = 0
        /\ effects[a] <= 1

\* Nobody is told anything but the value the Action was done with.
OneAnswer == \A a \in Actions : answers[a] \subseteq {value[a]} \ {NoValue}

=============================================================================
