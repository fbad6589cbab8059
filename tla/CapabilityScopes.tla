--------------------------- MODULE CapabilityScopes ---------------------------
(***************************************************************************)
(* What the compiler says of a capability (which scopes its paths need, and *)
(* that an Action sends one mutation), what `acc run` and the runtime say   *)
(* of it under a deployment's ceiling and a user's permissions, and the run *)
(* of its workflow, which they foretell.                                    *)
(*                                                                         *)
(* A workflow is a sequence of steps.  A call has the scopes of its         *)
(* operation, a foreach the lengths its list may have (a literal list has   *)
(* one), and every step that calls nothing is an "emit".                    *)
(***************************************************************************)
EXTENDS Integers, FiniteSets, Sequences

CONSTANTS
    Capabilities,   \* what a project may declare
    Ceilings,       \* scopes that the deployment grants at most
    Permissions,    \* what the source may say of a user's permissions
    ScopeMapping,   \* from a source's permission to scopes
    OperationScopes,\* the scopes that operations may require
    Workflows,      \* every workflow in a capability, and what remains of it after a step
    Size            \* how many steps a workflow has, those of its bodies included

\* The workflows inside a step.
Bodies(step) ==
    CASE step.action = "branch"   -> {step.then, step.otherwise}
      [] step.action = "parallel" -> {step.children}
      [] step.action = "foreach"  -> {step.workflow}
      [] OTHER                    -> {}

\* A literal list has one length, and one that only a run knows may be empty.
IsLiteral(items) == \E n \in items : items = {n}

IsStep(step) ==
    /\ step.action \in {"call", "branch", "parallel", "foreach", "emit"}
    /\ step.action = "call" => step.scopes \in SUBSET OperationScopes /\ step.mutates \in BOOLEAN
    /\ step.action = "foreach" =>
          /\ step.most \in Nat /\ step.items \in (SUBSET Nat) \ {{}}
          /\ IsLiteral(step.items) \/ 0 \in step.items

ASSUME WorkflowsAreNested ==
    /\ IsFiniteSet(OperationScopes)
    /\ Size \in [Workflows -> Nat]
    /\ \A w \in Workflows \ {<<>>} :
          /\ IsStep(Head(w))
          /\ \A inner \in Bodies(Head(w)) \cup {Tail(w)} :
                inner \in Workflows /\ Size[inner] < Size[w]

ASSUME CapabilitiesAreDeclared ==
    \A c \in Capabilities :
       /\ c.policy \in SUBSET OperationScopes
       /\ IF c.kind = "action" THEN {c.preview, c.commit, c.query} \subseteq Workflows
                               ELSE c.workflow \in Workflows

VARIABLES
    capability,     \* the one that is called
    ceiling,        \* deployment_scope_ceiling
    permissions,    \* source_scopes of the Principal
    phase,          \* where the run is
    todo,           \* what is left of the workflows it is in, the innermost first
    mutations       \* mutations handed to the provider

scopeVars == <<capability, ceiling, permissions, phase, todo, mutations>>

-----------------------------------------------------------------------------
(* acc-core scope/analysis.py                                               *)

Needs(alternatives, always, feasible, structural) ==
    [alternatives |-> alternatives, always |-> always,
     feasible |-> feasible, structural |-> structural]

NoNeeds == Needs({{}}, {}, {}, {})

MinimalAntichain(candidates) ==
    {s \in candidates : \A t \in candidates : t \subseteq s => t = s}

\* One of the left and one of the right.
Together(left, right) == {a \cup b : a \in left, b \in right}

CombineRequired(left, right) ==
    Needs(MinimalAntichain(Together(left.alternatives, right.alternatives)),
          left.always \cup right.always, left.feasible \cup right.feasible,
          left.structural \cup right.structural)

AnalyzeBranch(yes, no) ==
    Needs(MinimalAntichain(yes.alternatives \cup no.alternatives), yes.always \cap no.always,
          yes.feasible \cup no.feasible, yes.structural \cup no.structural)

\* A faulty variant: a list that only a run knows is taken to have an item.
ForeachHasItem(items, body) ==
    IF items = {0} THEN Needs({{}}, {}, {}, body.structural) ELSE body

AnalyzeForeach(items, body) ==
    IF items = {0} THEN Needs({{}}, {}, {}, body.structural)
    ELSE IF IsLiteral(items) THEN body
    ELSE Needs(MinimalAntichain({{}} \cup body.alternatives), {}, body.feasible, body.structural)

AnalyzeStep(step, analyze) ==
    CASE step.action = "call" -> Needs({step.scopes}, step.scopes, step.scopes, step.scopes)
      [] step.action = "branch" -> AnalyzeBranch(analyze[step.then], analyze[step.otherwise])
      [] step.action = "parallel" -> analyze[step.children]
      [] step.action = "foreach" -> AnalyzeForeach(step.items, analyze[step.workflow])
      [] OTHER -> NoNeeds

AnalyzeSteps[w \in Workflows] ==
    IF w = <<>> THEN NoNeeds
    ELSE CombineRequired(AnalyzeStep(Head(w), AnalyzeSteps), AnalyzeSteps[Tail(w)])

-----------------------------------------------------------------------------
(* acc-core compiler/actions.py                                             *)

\* The calls of a workflow, and whether each is inside a parallel or foreach step.
Contained(sites) == {[call |-> site.call, contained |-> TRUE] : site \in sites}

SitesOf(step, sites) ==
    CASE step.action = "call" -> {[call |-> step, contained |-> FALSE]}
      [] step.action = "branch" -> sites[step.then] \cup sites[step.otherwise]
      [] step.action = "parallel" -> Contained(sites[step.children])
      [] step.action = "foreach" -> Contained(sites[step.workflow])
      [] OTHER -> {}

CallSites[w \in Workflows] ==
    IF w = <<>> THEN {} ELSE SitesOf(Head(w), CallSites) \cup CallSites[Tail(w)]

SumCounts(left, right) == {m + n : m \in left, n \in right}

\* How many mutations the paths of a workflow have.
CountsOf(step, counts) ==
    CASE step.action = "call" -> IF step.mutates THEN {1} ELSE {0}
      [] step.action = "branch" -> counts[step.then] \cup counts[step.otherwise]
      [] step.action = "parallel" -> counts[step.children]
      [] step.action = "foreach" ->
            {0} \cup UNION {{n, n * step.most} : n \in counts[step.workflow]}
      [] OTHER -> {0}

MutationPathCounts[w \in Workflows] ==
    IF w = <<>> THEN {0}
    ELSE SumCounts(CountsOf(Head(w), MutationPathCounts), MutationPathCounts[Tail(w)])

IsAction(c) == c.kind = "action"

\* A faulty variant: some path with one mutation is enough.
SomePathMutates(c) == 1 \in MutationPathCounts[c.commit]

SingleMode(c) == MutationPathCounts[c.commit] = {1}

\* prove_action_capability; a read capability is not asked what it calls.
Compiles(c) ==
    IsAction(c) => /\ \A site \in CallSites[c.preview] : ~site.call.mutates
                   /\ \A site \in CallSites[c.commit] : site.call.mutates => ~site.contained
                   /\ SingleMode(c)

\* An Action needs the scopes of every operation it names, its status query included.
ProofScopes(c) ==
    UNION {site.call.scopes :
              site \in CallSites[c.preview] \cup CallSites[c.commit] \cup CallSites[c.query]}

\* The scope_requirements in the IR.
Requirements(c) ==
    IF IsAction(c)
    THEN LET all == ProofScopes(c) \cup c.policy IN Needs({all}, all, all, all)
    ELSE CombineRequired(AnalyzeSteps[c.workflow], Needs({c.policy}, c.policy, c.policy, c.policy))

-----------------------------------------------------------------------------
(* callability.py and context.py                                            *)

\* _validate_requirement of what the compiler wrote.
Accepted(c) ==
    LET needs == Requirements(c)
    IN  /\ needs.alternatives # {}
        /\ c.policy \subseteq needs.always
        /\ needs.always \cup needs.feasible \subseteq needs.structural
        /\ \A alternative \in needs.alternatives : needs.always \subseteq alternative

Status(c, available) ==
    LET needs == Requirements(c)
    IN  IF needs.always \cup needs.feasible \subseteq available THEN "callable"
        ELSE IF \E alternative \in needs.alternatives : alternative \subseteq available
             THEN "conditional" ELSE "denied"

\* Permissions that are unavailable, in a stdio deployment, restrict nothing.
MapEffectiveScopes(granted) ==
    IF permissions.known
    THEN granted \cap UNION {ScopeMapping[p] : p \in permissions.scopes \cap DOMAIN ScopeMapping}
    ELSE granted

Effective        == MapEffectiveScopes(ceiling)
DeploymentStatus == Status(capability, ceiling)
EffectiveStatus  == Status(capability, Effective)

\* The user's own permissions, as far as the Pack refers to them.
UserStatus ==
    IF permissions.known
    THEN Status(capability, MapEffectiveScopes(Requirements(capability).structural))
    ELSE "unknown"

-----------------------------------------------------------------------------
(* runtime.py, execution/executor.py, actions/coordinator.py and            *)
(* actions/runtime_executor.py: the run                                     *)

ScopesInit ==
    /\ capability \in {c \in Capabilities : Compiles(c)}
    /\ ceiling \in Ceilings
    /\ permissions \in Permissions
    /\ phase = "called" /\ todo = <<>> /\ mutations = 0

Inputs == UNCHANGED <<capability, ceiling, permissions>>

\* call_with_context asks for the policy's scopes, the coordinator for the proof's.
Authorized ==
    (IF IsAction(capability) THEN ProofScopes(capability) ELSE capability.policy)
        \subseteq Effective

Begin(next, workflows) == phase' = next /\ todo' = workflows /\ Inputs /\ UNCHANGED mutations
End(outcome) == Begin(outcome, <<>>)

RefuseCall == phase \in {"called", "prepared"} /\ ~Authorized /\ End("denied")
RunRead ==
    phase = "called" /\ ~IsAction(capability) /\ Authorized /\ Begin("run", <<capability.workflow>>)
Preview ==
    /\ phase = "called" /\ IsAction(capability) /\ Authorized
    /\ Begin("preview", <<capability.preview>>)
Seal == phase = "preview" /\ todo = <<>> /\ Begin("prepared", <<>>)

\* The preview may find the business record in its final state only in a preview that names
\* the read of that state, and a guard takes the state from a call that it always makes.
KnowsState(c) == CallSites[c.preview] # {}
Guardable(c)  == \E i \in DOMAIN c.preview : c.preview[i].action = "call"

\* A guarded Action reads its preview again first.  A preview of the final state is the
\* answer, and nothing is sent.
StartCommit ==
    /\ phase = "prepared" /\ Authorized
    /\ \/ Guardable(capability) /\ Begin("recheck", <<capability.preview>>)
       \/ Begin("commit", <<capability.commit>>)
       \/ KnowsState(capability) /\ End("completed")
Rechecked ==
    /\ phase = "recheck" /\ todo = <<>>
    /\ Begin("commit", <<capability.commit>>) \/ End("completed")

\* The commit's workflow has ended; the status query says what became of it.
Resolve ==
    /\ phase = "commit" /\ todo = <<>>
    /\ IF mutations = 1 THEN Begin("query", <<capability.query>>) ELSE End("failed")
Complete == phase \in {"run", "query"} /\ todo = <<>> /\ End("completed")

InWorkflow ==
    phase \in {"run", "preview", "recheck", "commit", "query"} /\ todo # <<>>
AtStep(action) == InWorkflow /\ Head(todo) # <<>> /\ Head(Head(todo)).action = action

\* What takes the place of the innermost workflow.
Go(workflows) == todo' = workflows \o Tail(todo) /\ Inputs /\ UNCHANGED phase
StepsAfter == Tail(Head(todo))

\* A mutation outside a commit is refused, and one within a commit is counted.
CallStep ==
    /\ AtStep("call")
    /\ LET step == Head(Head(todo))
       IN  IF step.mutates /\ phase # "commit" THEN End("failed")
           ELSE IF ~(capability.policy \cup step.scopes \subseteq Effective) THEN End("denied")
           ELSE Go(<<StepsAfter>>) /\ mutations' = mutations + (IF step.mutates THEN 1 ELSE 0)

BranchStep ==
    /\ AtStep("branch")
    /\ \E chosen \in Bodies(Head(Head(todo))) : Go(<<chosen, StepsAfter>>) /\ UNCHANGED mutations

\* The steps run at once.  One that is denied ends the run, wherever the others are, and
\* none is a mutation, so one order stands for all.
ParallelStep ==
    /\ AtStep("parallel")
    /\ Go(<<Head(Head(todo)).children, StepsAfter>>) /\ UNCHANGED mutations

\* So do the items; a list that is too long fails.
ForeachStep ==
    /\ AtStep("foreach")
    /\ LET step == Head(Head(todo))
       IN  \E n \in step.items :
              IF n > step.most THEN End("failed")
              ELSE Go(Append([i \in 1..n |-> step.workflow], StepsAfter)) /\ UNCHANGED mutations

EmitStep == AtStep("emit") /\ Go(<<StepsAfter>>) /\ UNCHANGED mutations

\* A workflow has no more steps: the step it is in goes on.
LeaveWorkflow == InWorkflow /\ Head(todo) = <<>> /\ Go(<<>>) /\ UNCHANGED mutations

\* A source, a schema or an assertion fails.
FailStep == InWorkflow /\ End("failed")

CallEnded == phase \in {"completed", "denied", "failed"} /\ UNCHANGED scopeVars

ScopesNext ==
    \/ RefuseCall \/ RunRead \/ Preview \/ Seal \/ StartCommit \/ Rechecked \/ Resolve \/ Complete
    \/ CallStep \/ BranchStep \/ ParallelStep \/ ForeachStep \/ EmitStep \/ LeaveWorkflow
    \/ FailStep \/ CallEnded

ScopesSpec == ScopesInit /\ [][ScopesNext]_scopeVars

-----------------------------------------------------------------------------
(* Properties                                                               *)

\* The scopes of the calls that a run of a workflow meets, for every choice the data can
\* make, the items of a list all alike.
RunsOf(step, runs) ==
    CASE step.action = "call" -> {{step.scopes}}
      [] step.action = "branch" -> runs[step.then] \cup runs[step.otherwise]
      [] step.action = "parallel" -> runs[step.children]
      [] step.action = "foreach" ->
            (IF 0 \in step.items THEN {{}} ELSE {})
                \cup (IF step.items = {0} THEN {} ELSE runs[step.workflow])
      [] OTHER -> {{}}

Runs[w \in Workflows] ==
    IF w = <<>> THEN {{}} ELSE Together(RunsOf(Head(w), Runs), Runs[Tail(w)])

\* Some run meets only operations it may call, or one it may not.
Completable(w, policy, available) ==
    \E run \in Runs[w] : \A scopes \in run : policy \cup scopes \subseteq available
Deniable(w, policy, available) ==
    \E run \in Runs[w] : \E scopes \in run : ~(policy \cup scopes \subseteq available)

\* Nobody asks for the policy's scopes of an Action whose preview meets the final state
\* without a call: the coordinator asks for those of the operations only.
Unasked == IsAction(capability) /\ mutations = 0 /\ {} \in Runs[capability.preview]

\* What the report says before a run, the run does: the runtime accepts what the compiler
\* found; a callable capability is never denied for its scopes and a denied one never
\* completes, whatever the data, unless it was never asked for them; a conditional one can
\* do either; and deployment and user together explain the effective status.
StatusForetellsRun ==
    /\ Accepted(capability)
    /\ EffectiveStatus = "callable" => phase # "denied"
    /\ EffectiveStatus = "denied" /\ phase = "completed" => Unasked
    /\ EffectiveStatus = "conditional" =>
          /\ Completable(capability.workflow, capability.policy, Effective)
          /\ Deniable(capability.workflow, capability.policy, Effective)
    /\ EffectiveStatus = "callable" <=>
          DeploymentStatus = "callable" /\ UserStatus \in {"callable", "unknown"}
    /\ "denied" \in {DeploymentStatus, UserStatus} => EffectiveStatus = "denied"

\* An Action that compiles sends one mutation in every commit that runs its workflow to
\* the end, and never a second one, whichever branches the data choose; nothing else sends
\* any, the commit that answers with a preview of the final state included.
SingleMutation ==
    /\ mutations <= 1
    /\ mutations = 1 =>
          IsAction(capability) /\ phase \notin {"called", "run", "preview", "prepared", "recheck"}
    /\ phase = "commit" /\ todo = <<>> => mutations = 1

===============================================================================
