------------------------------ MODULE UsageImpact ------------------------------
(***************************************************************************)
(* analyze_usage_impact (acc_core/usage/impact.py): which domains of a     *)
(* Usage project are stale after a change, over the dependency graph of    *)
(* the domain index.  The analysis is one worklist; a step handles the     *)
(* domain at its head.  What differs between the two snapshots is given,   *)
(* per domain, as the strongest reason the comparison finds.               *)
(***************************************************************************)
EXTENDS DependencyGraph

CONSTANTS
    NDomains,  \* domain ids are 1..NDomains, in their sorted order
    Reasons    \* differences a domain may show

ASSUME DomainsAreCounted == NDomains \in Nat

Ids == 1 .. NDomains

VARIABLES
    deps,      \* dependency_domain_ids of every domain
    reason,    \* how a domain's own references changed
    shared,    \* whether the pack, tool, source or test digest changed
    status,    \* impact status found so far
    upstream,  \* upstream_domain_ids found so far
    worklist   \* the domains still to be handled

impactVars == <<deps, reason, shared, status, upstream, worklist>>

\* UsageImpactStatus by precedence.
Unaffected == 0
Revalidate == 1
Regenerate == 2
Blocked    == 3

AtLeast(a, b) == IF a >= b THEN a ELSE b

\* _classify_tool_schema
OfTool(r) ==
    CASE r = "output added"            -> Revalidate
      [] r = "input or output changed" -> Regenerate
      [] r = "schema not understood"   -> Blocked
      [] OTHER                         -> Unaffected

\* _direct_status without the digests all domains share.
OfReason(r) ==
    CASE r \in {"graph invalid", "contract missing", "capability missing", "tool missing",
                "evidence changed", "proof changed"} -> Blocked
      [] r = "contract changed" -> Regenerate
      [] OTHER                  -> OfTool(r)

DirectStatus(d) ==
    IF reason[d] = "graph invalid" THEN Blocked
    ELSE AtLeast(OfReason(reason[d]), IF shared THEN Revalidate ELSE Unaffected)

ImpactInit ==
    /\ deps \in [Ids -> SUBSET Ids] /\ Acyclic(deps)
    /\ reason \in [Ids -> Reasons]
    /\ shared \in BOOLEAN
    /\ status = [d \in Ids |-> DirectStatus(d)]
    /\ upstream = [d \in Ids |-> {}]
    /\ worklist = [d \in Ids |-> d]

\* A faulty variant: a dependent whose status rises is not looked at again.
RaisedOnce(changed, raised) == {}

\* Dependents that go back into the worklist.
Again(changed, raised) == {d \in Ids : changed \in deps[d] /\ raised[d] # status[d]}

Skip ==
    /\ worklist # <<>> /\ status[Head(worklist)] = Unaffected
    /\ worklist' = Tail(worklist)
    /\ UNCHANGED <<deps, reason, shared, status, upstream>>

\* The dependents get the status if it is higher, and the domain with the upstream
\* it has so far.
Raise ==
    /\ worklist # <<>> /\ status[Head(worklist)] # Unaffected
    /\ LET changed == Head(worklist)
           raised  == [d \in Ids |-> IF changed \in deps[d] THEN AtLeast(status[d], status[changed])
                                                            ELSE status[d]]
       IN  /\ status' = raised
           /\ upstream' = [d \in Ids |-> IF changed \in deps[d]
                                         THEN upstream[d] \cup {changed} \cup upstream[changed]
                                         ELSE upstream[d]]
           /\ worklist' = Tail(worklist) \o Ascending(Again(changed, raised))
    /\ UNCHANGED <<deps, reason, shared>>

\* The report is complete.
Reported == worklist = <<>> /\ UNCHANGED impactVars

ImpactNext == Skip \/ Raise \/ Reported

ImpactSpec == ImpactInit /\ [][ImpactNext]_impactVars

-----------------------------------------------------------------------------
\* When the worklist is empty a domain is as stale as the stalest thing it depends
\* on, directly or not, whatever the order of the ids; its upstream names every
\* affected direct dependency and nothing that is unaffected or not a dependency.
ImpactIsClosed ==
    worklist = <<>> =>
        \A d \in Ids :
            /\ \A x \in Above(deps, d) \cup {d} : DirectStatus(x) <= status[d]
            /\ \E x \in Above(deps, d) \cup {d} : DirectStatus(x) = status[d]
            /\ {x \in deps[d] : status[x] # Unaffected} \subseteq upstream[d]
            /\ \A x \in upstream[d] : x \in Above(deps, d) /\ status[x] # Unaffected
=============================================================================
