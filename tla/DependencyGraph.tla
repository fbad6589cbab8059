---------------------------- MODULE DependencyGraph ----------------------------
(***************************************************************************)
(* The dependency_domain_ids of a set of domains, as a function from the   *)
(* domain ids, which are numbers in their sorted order: what the two impact *)
(* analyses and the review of domains say about such a graph.               *)
(***************************************************************************)
EXTENDS Naturals, FiniteSets, Sequences

\* Nothing in S depends on anything outside.
Closed(deps, S) == \A y \in S : deps[y] \subseteq S

\* All that d depends on, through any number of dependencies: what is in every closed
\* set that has the dependencies of d.
Above(deps, d) ==
    {x \in DOMAIN deps :
        \A S \in SUBSET DOMAIN deps : deps[d] \subseteq S /\ Closed(deps, S) => x \in S}

\* The domain index and the domain map refuse a dependency graph with a cycle.
Acyclic(deps) == \A d \in DOMAIN deps : d \notin Above(deps, d)

\* sorted() of a set of domain ids.
Ascending(S) ==
    CHOOSE q \in [1 .. Cardinality(S) -> S] : \A i, j \in DOMAIN q : i < j => q[i] < q[j]
=============================================================================
