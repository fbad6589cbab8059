----------------------------- MODULE DomainImpact -----------------------------
(***************************************************************************)
(* analyze_domain_impact (acc_core/domains/impact.py): which domains of a  *)
(* domain map a change of evidence reaches, on which candidates, through   *)
(* which upstream domains and with which security axes.  Changed evidence  *)
(* hits a domain directly where a binding ties it to the domain, and then  *)
(* one worklist carries it to the dependents; a step handles the domain at *)
(* the head of the list.                                                   *)
(*                                                                         *)
(* One piece of evidence belongs to each domain, so that a domain id also  *)
(* names the evidence, its security axis and whether it changed.           *)
(***************************************************************************)
EXTENDS DependencyGraph

CONSTANTS
    NMapped,   \* domain ids are 1..NMapped, in their sorted order
    Bindings   \* what may tie the changed evidence to a domain, or "none"

ASSUME MappedAreCounted == NMapped \in Nat

MappedIds == 1 .. NMapped
Candidates == {"first", "second"}  \* candidate_ids of a domain

VARIABLES
    graph,     \* dependency_domain_ids of every domain
    hit,       \* the binding that the changed evidence of the domain has
    impacts,   \* _MutableDomainImpact of every domain reached so far
    agenda     \* the domains still to be handled

reachVars == <<graph, hit, impacts, agenda>>

Untouched == [direct |-> FALSE, upstream |-> {}, evidence |-> {}, candidates |-> {}, axes |-> {}]
Affected(found) == {d \in MappedIds : found[d] # Untouched}

\* _claim_evidence and _build_bindings: evidence of the domain itself, or of an active
\* decision's snapshot only, names no candidate; a claim, an interaction, a route's or an
\* accepted capability's operation names one.  It is security relevant for the claims of
\* _SECURITY_CLAIM_AXES and for whatever binds an action.
NamesCandidate(b) == b \notin {"domain evidence", "snapshot"}
SecurityRelevant(b) ==
    b \in {"security claim", "action contract claim", "action operation",
           "action interaction", "action route"}

\* _direct_impacts for one domain: evidence that names no candidate concerns them all.
DirectImpact(d) ==
    IF hit[d] = "none" THEN Untouched
    ELSE [direct     |-> TRUE,
          upstream   |-> {},
          evidence   |-> {d},
          candidates |-> IF NamesCandidate(hit[d]) THEN {"first"} ELSE Candidates,
          axes       |-> IF SecurityRelevant(hit[d]) THEN {[of |-> d, through |-> "claim"]} ELSE {}]

ReachInit ==
    /\ graph \in [MappedIds -> SUBSET MappedIds] /\ Acyclic(graph)
    /\ hit \in [MappedIds -> Bindings]
    /\ impacts = [d \in MappedIds |-> DirectImpact(d)]
    /\ agenda = Ascending(Affected(impacts))

\* What a dependent takes over: the axes once as "dependency:<axis>", however far they
\* come, and all its candidates where nothing hit it before.
Inherit(dependent, changed) ==
    LET was  == impacts[dependent]
        from == impacts[changed]
    IN  [was EXCEPT
            !.candidates = IF was = Untouched THEN Candidates ELSE @,
            !.upstream   = @ \cup {changed} \cup from.upstream,
            !.evidence   = @ \cup from.evidence,
            !.axes       = @ \cup {[of |-> axis.of, through |-> "dependency"] : axis \in from.axes}]

\* A faulty variant: a dependent is looked at again only when it was not known before.
CreatedOnly(found) == Affected(found) \ Affected(impacts)

\* Dependents that go back into the worklist: new ones, and those that grew.
Grown(found) == {d \in MappedIds : found[d] # impacts[d]}

\* _propagate_dependencies: one turn of its loop.
Propagate ==
    /\ agenda # <<>>
    /\ LET changed == Head(agenda)
           found == [d \in MappedIds |->
                        IF changed \in graph[d] THEN Inherit(d, changed) ELSE impacts[d]]
       IN  /\ impacts' = found
           /\ agenda' = Tail(agenda) \o Ascending(Grown(found))
    /\ UNCHANGED <<graph, hit>>

\* The report is complete.
Finished == agenda = <<>> /\ UNCHANGED reachVars

ReachNext == Propagate \/ Finished

ReachSpec == ReachInit /\ [][ReachNext]_reachVars

-----------------------------------------------------------------------------
Changed == {d \in MappedIds : hit[d] # "none"}

\* When the worklist is empty the report is the closure of the graph and nothing else,
\* in whatever order the domains came up: a domain is affected if and only if changed
\* evidence binds it or something it depends on; it names all that evidence and every
\* affected domain it depends on; and its impact is security relevant if and only if
\* some security relevant evidence reaches it, at any distance.
ImpactIsExact ==
    agenda = <<>> =>
        \A d \in MappedIds :
            LET reach == Above(graph, d) \cup {d} IN
            /\ d \in Affected(impacts) <=> reach \cap Changed # {}
            /\ impacts[d].direct <=> d \in Changed
            /\ impacts[d].evidence = reach \cap Changed
            /\ impacts[d].upstream = Above(graph, d) \cap Affected(impacts)
            /\ {axis.of : axis \in impacts[d].axes} = {x \in reach : SecurityRelevant(hit[x])}
            /\ \A axis \in impacts[d].axes : axis.through = "claim" <=> axis.of = d
=============================================================================
