# Verification of the Agent Capability Compiler

The repository compiles a project of capabilities into an Agent Pack (`acc-core`) and
serves Packs to agents over MCP (`acc-runtime`). This directory holds TLA+ models of the
parts of it where order, failure and concurrency decide whether it is correct, the TLC
configurations that check them, and TLAPS proofs. Names in the models are the source's
names where TLA+ allows it; every definition's source lines are in `PROJECT.json`
(`map`), the list of hazards with the properties that cover them under `hazards`.
Paths below are relative to `src/packages/acc-runtime/src/acc_runtime/` unless they
begin with `acc-core`.

## 1. Inventory

### Components with state and concurrency

| Component | State | Operations | Hard behaviour | What makes it correct |
|---|---|---|---|---|
| Action coordinator (`actions/coordinator.py`) | none of its own between calls; each request is a coroutine | prepare, approve, commit, status, each with an audit span | interleaving at every await, cancellation, lost replies, recovery | a mutation is sent at most once; success is never guessed; a result reaches only its owner |
| Action stores (`actions/sqlite_store.py`, `actions/store.py`) | one row per prepared Action: status, binding, expiry, sealed preview, result | create, resolve, transition, expiry sweep, capacity | a thread that outlives its cancelled caller; several processes on one file; expiry inside every operation | rows move only along the transition table; compare-and-swap; expiry is final |
| Approval authorities (`actions/approval.py`, `actions/sqlite_approval.py`) | state of every approval handle, decision records | issue, verify (consumes), revoke | two processes verify one approval; revoke or expiry against verify | an approval is good once, for one Action |
| Action audit (`actions/audit.py`, `actions/sqlite_audit.py`) | open spans; a MAC chain of events | started, completed, append | a sink that fails between two events; an append whose caller is cancelled | required audit brackets every mutation and precedes every approval |
| Action executor (`actions/runtime_executor.py`) | none | preview, commit, ledger query | timeouts after the request left | one request per claim |
| Local resource lock (`actions/resource_lock.py`) | bounded table of locks with user counts | hold | last user leaves as a newcomer arrives; cancelled waiter | mutual exclusion per key; no leaked entry |
| Gateway sessions (`gateway/service.py`, `sessions.py`, `sqlite_vault.py`) | every session three times: memory, row, source token | create, resolve, delete, reauth after 401, drain, close, restore | no lock spans the three; rollback, cancellation, crash between them | the three agree again once nobody cleans up; deletion is final; delivery is durable |
| Gateway bearer and 401 coordination (`gateway/auth.py`, `runtime.py`) | none | resolve bearer, translate a source 401 | state read before the source call is stale after it | a refused session is not used again |
| Bearer strategy (`auth/strategies.py`) | bound token, generation, table of shared logins | authorize, on_unauthorized, bind_state, invalidate, aclose | one login shared by many waiters that may leave; late 401s | one login at a time, only when needed |
| HTTP provider (`providers/http.py`) | none | read (replayed once after a 401), mutation (never replayed) | 401s of calls that share a token | a refused token is not sent again |
| Operator approval (`gateway/operator.py`) | bounded registry of pending Actions | observe, list, approve | registry, session, Action, decision and journal are read and written one after the other, without a common lock | an approved Action rests on one journalled decision of its own |
| Guarded commit (`actions/runtime_executor.py`) | none; it holds the resource's lock | fresh preview, recheck, commit | writers outside the runtime; requests that outlive a cancelled commit | a mutation applies to the state that was previewed |
| Workflow executor and generic runtime (`execution/executor.py`, `runtime.py`) | the contexts and tasks of one run | parallel, foreach, sequential steps | a branch fails or is cancelled while its siblings go on | an answer is made of every branch's own values |
| Gateway audit (`gateway/audit.py`) | the span of one call | observe an operation, finish | the span is finished before abandoned branches end | the event names every operation that was executed |
| Usage release (`acc-core` usage/, `acc-core` cli/usage.py, `acc-testkit` usage/) | the documents of a project, a signed artifact, a package | edit, verify, finalize, sign, check, build | separate processes read a project file by file while its author edits it | what is packaged was executed together, under a decision that stands |
| Usage overlay (`usage/overlay.py`) | the mounted package and its hash | mount, attach, answer | the package is replaced and the server's tools change while it is mounted | what it answers fits the tools the server lists |
| Usage impact (`acc-core` usage/impact.py) | a worklist over the dependency graph | analyse | the order in which a graph is worked off | a domain is as stale as the stalest it depends on |
| Domain impact (`acc-core` domains/impact.py) | a worklist over the dependency graph | analyse | a domain that was handled gets more from another path | a domain is affected exactly when something it depends on is |
| Schema fidelity (`acc-core` contracts/fidelity.py, schema_relation.py) | the pairs of schemas met so far | compare an operation's schemas with its source's evidence | one comparison per combination of keywords; recursive definitions | a schema that is proven to be contained is |
| Capability scopes (`acc-core` scope/analysis.py, compiler/actions.py; `callability.py`, `context.py`) | the deployment's ceiling, a Principal's scopes | analyse a capability, report its status, run it | the data choose branches, items and failures after the status was reported | a status foretells every run; an Action mutates once |
| Domain review (`acc-core` domains/analyze.py, validation/project.py, cli/domains.py) | decisions, map entries, change requests | validate, recommend, propose requests | the author and several commands edit one directory without a lock | a proposal is valid; what was dealt with is not proposed again |

How they interact: an MCP call enters through the Gateway, which resolves the bearer to
a Principal bound to a session. Reads run in the workflow executor and reach the source
through the HTTP provider, which asks the bearer strategy for a token; a 401 goes back
through the strategy and, for a Gateway session, to the session service. Mutations go to
the Action coordinator, which calls store, approval authority, audit sink and executor,
each by `await`. Stores and the vault run their SQLite transactions in worker threads
(`asyncio.to_thread`), so cancelling the caller does not stop a transaction.

### Sequential components

Most of the compiler (`acc-core` compiler, contracts, models, validation), coverage,
quality, interactions, intents, evidence, evals, packaging and most of the command
line are deterministic functions of one project directory. The
loader, policy enforcer, deployment and MCP server validate
immutable data and dispatch. The adapter SDK is a stateless protocol. The testkit is not
part of the product, except that a Usage release rests on the proofs its evaluator
issues. `PROJECT.json` lists each with its reason.

## 2. Modules

| Module | Lines of code it stands for | Role |
|---|---|---|
| `ActionCoordinator` | coordinator, durable store, approvals, audit span, executor | detailed specification |
| `ActionContract` | what the Action runtime promises | abstract specification |
| `ActionRefinement` | | maps the detailed state to the contract |
| `MCActionCoordinator` | | symmetry for TLC |
| `ActionProofs` | | theorems about `ActionCoordinator`: its rows, what it answers, that it implements `ActionContract` |
| `GatewaySessions` | session service, vault, index, bearer and 401 path | detailed specification |
| `MCGatewaySessions` | | symmetry for TLC |
| `GatewayProofs` | | theorems about `GatewaySessions` |
| `BearerAuth` | bearer strategy with environment credentials, provider replay | detailed specification |
| `BearerProofs` | | theorems about `BearerAuth` |
| `GuardedCommit` | resource lock, guarded commit | detailed specification |
| `GuardedProofs` | | theorems about `GuardedCommit` |
| `OperatorApproval` | operator service, SQLite approval authority, approve path, audit sink | detailed specification, composes four components |
| `OperatorProofs` | | theorems about `OperatorApproval` |
| `UsageRelease` | Usage documents, evaluator, artifact, commands, package, overlay | detailed specification |
| `UsageProofs` | | theorems about `UsageRelease` |
| `DependencyGraph` | what the analyses below say of a dependency graph | reachability by its definition, and the sorted order of ids |
| `UsageImpact` | impact analysis of a Usage project | algorithm and its reference definition |
| `DomainImpact` | impact analysis of the domain map | algorithm and its reference definition |
| `DomainReview` | domain documents, their validation and readiness, `acc domains status`, `acc domains impact --write` | detailed specification |
| `DomainProofs` | | theorems about `UsageImpact`, `DomainImpact` and `DomainReview` |
| `WorkflowRun` | parallel and foreach steps, audit span of a call | detailed specification |
| `WorkflowProofs` | | theorems about `WorkflowRun` and `CapabilityScopes` |
| `SchemaRelation` | schema fidelity and the subset relation it asks | algorithm and its reference definition |
| `SchemaFamilies` | | families of schemas and values for TLC |
| `CapabilityScopes` | scope analysis, single-mutation proof, callability, the checks of a call | algorithms and the run they foretell |
| `CapabilitySamples` | | capabilities and scopes for TLC |
| `MCIndependentParts` | | small instances of the nine parts above that share no state with the rest |

Definitions introduced by "A faulty variant" are plausible bugs of the definition that
follows them. No specification uses them; substituting one for its definition must break
the property it is listed with in `PROJECT.json` (`mutants`), which shows that the
property depends on that code.

### ActionCoordinator

A task is a coroutine. Its `at` is the await it is parked at, and the action with that
guard does everything the code does up to the next await: `c_claim`, for example, is
`store.transition(APPROVED, COMMITTING)` in `_commit`, and `CommitClaim` ends at
`c_execute` or, when the store raises, at `c_look` (`_resolved_status_or_none`). A store
call is one `BEGIN IMMEDIATE` transaction and therefore one step, including the expiry it
writes before it raises. Several worker processes over one database are just more tasks.

| State | Code |
|---|---|
| `status`, `owner`, `expires`, `sealed`, `result` | columns of `prepared_actions` |
| `late` | transitions in a worker thread whose awaiting coroutine was cancelled |
| `grant` | approval handles: none, issued, consumed, dead (revoked, expired, burnt) |
| `sent`, `source` | requests handed to the transport; what became of them at the source |
| `journal` | commit events the required audit sink accepted |
| `known`, `told` | handles and results that reached a client |

`Guarded` are the Actions whose capability has a `local_development_state_guard`: their
commit reads the preview again under the resource's lock. If that fresh preview is terminal
although the sealed one was not, the executor returns its value and sends nothing
(`runtime_executor.py:318`), so an Action can end SUCCEEDED in three ways, which
`SuccessIsReal` tells apart. Why the read fits the mutation is `GuardedCommit`'s question.

Abstractions. A result is one of five values: the sealed result of a terminal preview, the
fresh one of a guarded commit, the source's receipt, or one of two ledger reads that
differ; properties only compare them. Authorisation, schema checks and encryption either refuse (a nondeterministic
return) or do nothing. The in-memory store has the same table without threads. The
events of prepare, approve and status are only gates; those of commit are recorded.
`FAILED` is in the code's table but no caller requests it. A failing operation's own
completion event cannot change its answer and is left out.

### ActionContract and the refinement

The contract knows an Action as new, offered, cleared, claimed, done or void. A claim may
carry one permit, the permit is spent on at most one effect, a claim is settled with one
value once no permit is left, and nobody is told another value. `ActionRefinement` maps
COMMITTING and OUTCOME_UNKNOWN to claimed, and the permit to a coroutine parked in front
of the executor: that a crash or a cancelled claim merely loses the permit is what makes
the coordinator safe.

### GatewaySessions

Requests are tasks as above. `mem`, `disk` and `auth` are the three records of a session;
`lock` is the vault's `asyncio.Lock`, held while a statement runs in a thread and released
at once when its holder is cancelled; `late` are the abandoned statements. Memory-only
bodies under the lock are one step. `FailDrain` is the failed clean-up of expired sessions:
it closes everything, except at the head of a create whose client is gone, which returns
before it looks at the failure. `shut` records which parts `close`, `checkpoint_close`
and `aclose` have closed. `Halt` and `Start` are the process's end and the startup that
restores rows and binds tokens before the first request. `Fatal` .. `Shut` is
`_close_resources`: vault close tried twice, then the strategy.

Abstractions. One resolution stands for the verifier's and the Principal resolver's,
which apply one rule. `invalidate` does not fail. Startup is one step. The clock is
monotonic, although the vault's default `time.time` may be set back. A Gateway without
vault is not modelled. `asked`, `erased`, `marked` and `delivered` are history for the
properties.

### BearerAuth

One Principal's token with renewable credentials. Bodies under the strategy's lock never
await, so the lock is never contended and each body is one step. A flight is an
`_InFlight` with its login task. `Authorize` takes the bound token, joins a running
login, takes a finished one's outcome at once (awaiting a done future does not yield), or
launches one. `Resume` is a waiter that wakes; `Release` is `_release_waiter`.
`_cleanup_completed_flight` removes a flight without waiters, which `LoginIsAwaited`
shows never to be in the table, and has no action.

`Answerable` states the one scheduling fact used: a request's answer takes at least a
turn of the event loop, in which every waiter woken by the login that brought its token
has resumed. With a transport that never yields, the first waiter could see its 401
before the second one leaves the flight.

### GuardedCommit

A call is one commit of a prepared Action. `hold` of the resource lock is `Enter`: it
finds or makes the entry of the key (the entry is counted before the lock is awaited) and
takes the lock or queues. `entry` has the entry's user count and the asyncio lock: its
owner, the waiter whose future is set, and the queue. `Resume` is a woken waiter; `Cancel`
is cancellation at any of the awaits, with what asyncio's lock does when it hits a waiter
or a woken one. `Read` is the fresh preview with its recheck, `Mutate` the request.
`Arrive` is the request of a cancelled commit that arrives later, `ForeignWrite` a writer
outside the runtime. The asyncio lock is modelled from its documented behaviour and marked
external. Entry identities are used again once nobody uses them, as memory is.

`raced` is history: the commits whose resource somebody who does not take the lock touched
in the gap between their own read and write. That gap cannot be closed without a source
precondition; the property is that there is no other.

### OperatorApproval

A task is one approve request, by an operator (`Lookup` .. `Bind`, `Issue`) or by an Agent
that has an approval handle; both then go through the coordinator's approve path
(`StartSpan` .. `Close`). Between any two steps the Action may be committed by its Agent,
expire or lose its session, its decision may be revoked, expire or be issued elsewhere, a
database may be busy and the request cancelled. What a cancelled request's thread was writing
is written or not: `CancelApprove` takes that step. A refused request reuses its task.

Abstractions. An Action is a handle; the digests by which operators name Actions are one
to one with handles. The MACs of rows and chain are data, and so is the order of the
chain: an append is one transaction that verifies the whole chain first.

### UsageRelease

Every process reads the project's files one after the other (`LoadOrder`), and every file
is edited by one replacement, so a load mixes versions. `project` is what is on disk;
`report` is what a process has loaded. The runner verifies a domain, finalizes its release
and signs an artifact over a report and a bundle; a command (`acc usage release --check`,
then `acc usage build`) loads the project, trusts the artifact, loads again and writes the
package. The overlay mounts the package and checks the listed tools at every request.

A digest is the value it is the digest of; therefore `Release`, `Decision` and `Bundle`
contain the documents they name by digest. The digests of pack, IR, tool schema, test
report and source snapshot, which all documents repeat together, are one `base`. Live
proofs (weak references in `acc_testkit`) end with their process. `executed` and `begun`
are history for the properties, `edits` counts against its bound.

### UsageImpact

One step handles the domain at the head of the worklist, as one turn of the loop does.
`Skip` drops an unaffected domain, `Raise` passes a status on to the dependents. `Above`
(of `DependencyGraph`) and `ImpactIsClosed` are the reference definition: reachability in
the dependency graph, which the domain index keeps acyclic. `Above` says it without
recursion, by the sets that are closed under dependencies, so that it can be proved about. The comparison of two snapshots is data: per domain, the strongest reason found.

### DomainImpact

Evidence hits a domain through a binding, which decides whether one candidate or all are
concerned and whether a security axis is touched. `DirectImpact` is what `_direct_impacts` finds
for one domain, `Propagate` one turn of the loop of `_propagate_dependencies`. Unlike the
analysis of `UsageImpact`, this one takes a domain up again whenever it has grown (`Grown`),
and therefore `ImpactIsExact` can be an equivalence: evidence, upstream domains and axes of
a domain are those of everything below it in the graph, no more and no less. One piece of
evidence per domain stands for any number, because the code only forms unions of them.

### DomainReview

The state is the project directory: the ledger (`scanned`), evidence (`digests`),
`domain-decisions/` (`files`), `domain-map.yaml` (`needs` and `map`) and
`domain-change-requests/` (`requests`). `Valid` is `validate_project`'s `report.ok` as far
as domains are concerned: `DocumentsValid` is what the documents must bind of each other,
`Ready` the errors that `analyze_domain_readiness` adds for every domain. The author's
actions (`Scan` .. `Sweep`) are external: an edit writes what the author has just read.
Commands are processes. `Start` validates and analyses; `Found`, `Open`, `OpenFails`, `Link`
are the steps of `_write_change_requests` for one request, whose file is created under a
temporary name and linked; `Report` ends the command, `Kill` the process at any of them.

Abstractions. A digest is the value it is the digest of. Every domain has one candidate and
one registered piece of evidence; `Unregistered` says which also have an operation with
evidence of its own. Policies, goals, confirmations and the axes of a claim are data. A
validation reads the directory at once.

### WorkflowRun

A branch calls `Depth` operations, each from what the one before it left in its context,
and then emits. `gather` is the future of `asyncio.gather`: the first failed or cancelled
branch decides it, and the others are left running. `Launch` hands the first operation to the
provider, which the span observes (`SpanObserved`); `Return` stores its value and hands over the next; `Die` is a cancelled
branch; `Answer` is what the runtime does once `gather` ends, including the audit event.
`foreach` numbers operations alike in every branch, because every item runs the same
workflow.

### SchemaRelation

`Compare` is `_compare` of the code: the trivial cases, then `CompareDicts` with its order
of references, unsupported keywords, combinations, listed values and the assertions of one
level. `visited` is threaded through the comparisons in the code's order, because a pair of
dicts that was met before is proven. A dict is known by its identity in Python and by its
place (`at`) here; the two roots are on different sides of a pair, so places need no document.
`Analyze` is the fidelity check of one of an operation's schemas: what it sends must be a
subset of what the source takes, what it receives a subset of what it declares.

`Valid` is the reference: the meaning of a schema, which is what the `jsonschema` validator
implements. `FiniteRelation` uses it too, as the code does.

Abstractions. `type`, `required` and `enum` are sets, so two lists in another order are the
same text. Bounds are counted in halves, so that an integer has a non-integer neighbour;
a string is its length. Pointers, messages and the diagnostics about provenance are left
out; a diagnostic's severity is that of the worst finding.

The relation is not sound for every pair. `Untyped`, `Siblings`, `Namesakes`, `Revisit` and
`Constants` describe the five shapes of section 6 in which it proves what is false, each as a
condition on the two schemas, and `ProvenIsSubset` promises containment for every pair that
has none of them (`Excepted`). The family `Shapes` holds pairs of all five.

### CapabilityScopes

Two functions of the compiler, and the runs they speak of. `Requirements` is what the IR
says of a capability's scopes: for a read `analyze_capability_scope_requirements`, for an
Action the union of what all its operations need. `Compiles` is the part of
`prove_action_capability` about mutations: `MutationPathCounts` collects the numbers of
mutations of all paths, and they must be {1}. `Status` is `_dimension` of callability.py;
`DeploymentStatus`, `UserStatus` and `EffectiveStatus` are its three dimensions.

A workflow is a sequence of steps, and `Workflows` has, with every workflow of a capability,
those inside its steps and what remains of each after its first step. `Size` counts steps, so
that a workflow is larger than those it is made of: `WorkflowsAreNested` says this, and
`CapabilitiesAreDeclared` that the capabilities are built of `Workflows`. What the code
computes by recursion over a workflow is a recursive function of `Workflows`.

The actions are a call. `RefuseCall`, `RunRead`, `Preview` and `StartCommit` authorise it.
A commit need not run its workflow: `StartCommit` ends at once when the preview was of the
final state, which only a preview with a call can know (`KnowsState`), and a guarded Action
(`Guardable`) first runs its preview again, after which `Rechecked` commits or, at the final
state, ends.
`todo` is the stack of `_run_workflow`'s activations, each as the steps it still has:
`CallStep`, `BranchStep`, `ParallelStep`, `ForeachStep` and `EmitStep` execute the first step
of the innermost workflow, with a choice where the code asks the data, and `LeaveWorkflow`
returns from it.

`Runs` is the reference: the scopes of the calls that a run of a workflow may meet.
`Completable` and `Deniable` say whether some run can end well and whether some can be denied.
`Unasked` is the one case in which a status does not foretell the run: the coordinator asks
only for the scopes of an Action's proof, which are its operations' and not its policy's
(`actions/coordinator.py:776`, `acc-core` compiler/actions.py:974); the policy's are asked for
at each call. An Action that is answered by a preview that called nothing is therefore
completed for a Principal without the policy's scopes, whose status was `denied`. Nothing was
read or sent for it.

Abstractions. Branches and items that run at once run here one after another, since a
denial ends the call in any order and only calls outside them mutate. The list of a
foreach is the set of lengths it may have; a literal list has one. The steps that call
nothing are one kind, "emit". A Pack has one
capability, so that the scopes it refers to are those of that capability. The steps between
an Action's preview and its commit are `ActionCoordinator`'s, and limits on effects and
risks, tenants and bindings are left out.

### MCIndependentParts

The variable `part`, chosen at the start, says which of the nine components runs; the
others rest: the modules this one extends stay in one of their initial states, and the
variables of `SchemaRelation`, which is recursive and is instantiated, have the value
`Rests`. One run therefore explores the nine state spaces side by side. They are not composed: they
share no state, and no property relates two of them. A property of a part that rests is
checked in the initial state only. The commits' calls and the approvals' tasks are
symmetric; the permutations exchange two of each at once, which is enough because only one
of the two parts moves.

## 3. Runs

| Run | Configuration | Shows |
|---|---|---|
| `action_faults` | 2 coroutines, room for 1 row, 2 Actions of which one needs approval and can be recovered and the other is guarded, all faults | at most one mutation (`AtMostOneMutation`); SUCCEEDED only for what the source applied, or for a final state that a preview found while nothing was sent (`SuccessIsReal`); one result, told to everyone (`AnswersAgree`); required audit brackets it (`RequiredAuditBrackets`); rows follow the table (`StatusFollowsTable`); the contract is implemented (`ImplementsContract`): a claim is needed to send, and an outcome is written once |
| `action_isolation` | 2 principals, 3 handles, room for 2 rows, 1 approval | results reach only the owner; an approval serves only its Action |
| `action_liveness` | lost replies, failing required audit | `RequestsReturn`; `MutationsSettle`: what was sent ends succeeded or unknown |
| `action_outcome` | 1 coroutine, cancellation, expiry | violates `CommitLeavesUnknown` (section 6) |
| `gateway_faults` | 2 requests, 2 sessions, capacity 1; cancellation, crashes, 401s | tokens do not outlive deleted sessions (`NoLiveOrphanToken`), live records have tokens, clients never hold more sessions than the capacity, erased stays erased, delivered stays durable, a session marked for reauthentication sends nothing (`MarkedNeverSendsAgain`) |
| `gateway_returns` | 2 requests, 1 session, every fault, a failing vault included | every request returns, the doubly failing fatal close included (`NoLiveOrphanToken` under these faults is the theorem `NoTokenIsLeft`) |
| `gateway_unauthorized` | one source 401 | violates `SourceUnauthorizedStaysLocal` (section 6) |
| `gateway_ghost` | cancellation | violates `NoGhostRow` (section 6) |
| `bearer_auth` | 3 calls, 2 logins | one login, awaited and needed; refused tokens not sent; every call returns |
| `independent_parts`, commit | 3 commits, 2 resources, table of 1 | one commit of a resource at a time (`Exclusion`), the table holds what is used (`TableIsInUse`), no waiter is stranded (`WaitersAreWoken`), mutations fit previews (`AppliesToPrepared`) |
| `independent_parts`, approval | 2 requests, 2 Actions, 1 decision | an approved Action rests on its own unrevoked, journalled decision (`ApprovalIsDecided`); "approved" can be relied on (`AnswerIsTrue`); a decision ends once (`DecisionEndsOnce`) |
| `independent_parts`, release | 1 domain, 2 baselines, 2 texts, 2 edits, 1 process | what is packaged was executed together (`PackagedWasExecuted`), what is answered fits the tools (`GuidanceFitsTools`), decisions stand (`DecisionIsCurrent`) |
| `independent_parts`, impact | every acyclic graph of 3 domains, every change of each | `ImpactIsClosed` |
| `independent_parts`, reach | every acyclic graph of 3 domains, every binding of each | `ImpactIsExact` |
| `independent_parts`, review | 2 domains, 2 commands, 2 revisions, 3 edits or commands | a command leaves a valid project valid (`WriteKeepsValid`); a request that was dealt with stays so (`SettledStaysSettled`) |
| `independent_parts`, workflow | 3 branches of 2 operations | `AnswerIsAccounted` |
| `independent_parts`, schemas | families of numbers, strings, objects, arrays, unions, recursive trees, and the five shapes; every pair of a family, in both directions | outside the five shapes what is proven is contained (`ProvenIsSubset`) |
| `independent_parts`, scopes | 291 reads and 132 Actions; 5 ceilings over 3 scopes, 5 users | a status foretells every run that asks for its scopes (`StatusForetellsRun`), an Action that compiles sends one mutation in every commit that runs its workflow to the end, and none elsewhere (`SingleMutation`) |
| `domain_guide` | 2 domains | violates `ReadyIsRecommended` (section 6) |
| `usage_build` | 2 published domains, no edit | violates `CheckedIsBuilt` (section 6) |

Bounds. Two coroutines suffice for every race in the Action code, because each is
between a pair: two commits, two recoveries, a late thread and a newcomer (abandoned
threads are not tasks, so a third actor is there). `MaxTime` = `Ttl` lets a row expire at
every await. With room for one row a behaviour of `action_faults` prepares one of its two
Actions, so that both kinds meet every fault; two Actions with rows are in
`action_isolation`. Two sessions let one be harmed by the other; capacity 1 makes each create
meet a full store; `Lifetime` < `Ttl` lets a source boundary pass before the Gateway
expiry, and `MaxTime` = `Ttl` lets both. A failing vault is left out of
`gateway_faults`, whose state space it would double, and is in `gateway_returns`. Three
calls let a third join a login that two
others share and leave; two logins let an old token's 401 arrive under a new one.

In `independent_parts` three commits let a waiter be cancelled between another's release
and a third one's arrival; a table of one entry with two keys makes an entry be dropped,
refused and used again. One decision and a registry of one make requests compete for both.
With two edits the author can change a document and what binds it between two reads of one
load; one process at a time suffices because processes meet only through the files. The theorems of
section 4 have none of these bounds. Three domains are the smallest graph in which a finding
reaches a domain after that domain was handled. Two domains are a dependency, two commands
a race for one request, and three steps an author who settles a request between the two;
two revisions suffice because only the active one and its successor are ever compared. With three branches two are still running
when the first one fails.

The families of schemas hold, for every keyword the code handles, schemas with and
without it, at bounds that are equal and bounds that are one half apart, and `CheckedValues`
the values on either side of each. The family `Shapes` has pairs of the five shapes of
section 6, and `ProvenIsSubset` excepts exactly those: without any one of the five
conditions in `Excepted` the run ends in a counterexample of that shape, and none of them
is a condition on what the relation answers.

The sample capabilities put every kind of step into every other one, two deep, with lists
of no, one, too many and an unknown number of items; a third level repeats what the second
does, because each rule looks only at the result of the level below, and the theorems of
section 4 hold for any depth. The ceilings and users grant none, some and all of the scopes
an operation or a policy asks for, and one user has a permission that maps to no scope.
Commits mutate once,
on some paths, twice, or in a container, so that most of them do not compile.

Cancelled threads. An insert or an approval check whose caller is cancelled has the same
effect now or later, so it is one step; a transition can be overtaken and waits in `late`.

Fairness. `WF` on a coroutine's next step: the event loop resumes it, and store threads
finish. `WF` on the source: it answers, or the request times out (both are one of the
reply's outcomes). `SF` on a Gateway request's step: the vault's lock is FIFO, so a
request that is enabled again and again gets it. `WF` on a login: it succeeds, fails or
times out. Nothing is assumed of clients, the clock, crashes, approvals or 401s.
`MutationsSettle` is checked without cancellation, database failure and expiry, since
`action_outcome` shows what these do to it.

## 4. Theorems

A theorem holds for every value of the constants that satisfies the named assumptions of
its module. There are few, and each only says what the constants are: the numbers are
numbers, the sets of sessions, Actions and approvals that are counted are finite
(`ConstantsOK` of four modules, `ReviewersAreFinite`), the placeholders are not members of
the sets they stand beside (`Placeholders`), a lifetime and a number of domains are natural
numbers (`LifetimesAreFinite`, `DomainsAreCounted`, `MappedAreCounted`), a branch calls at least
one operation (`BranchesCall`), a project has a baseline and a text (`ProjectsExist`), a
workflow is larger than those it is made of and a capability has the workflows and scopes of
the project (`WorkflowsAreNested`, `CapabilitiesAreDeclared`). TLC evaluates them in every run of their modules. No theorem has any other hypothesis.

Every proof has the same plan: an invariant stronger than the property, kept by every step.
What follows says which, and why the property alone is not inductive.

### The Action coordinator (`ActionProofs`)

For every set of tasks, principals, handles and approvals, every capacity, expiry and set
of faults.

* `TypeCorrect`. `TypeOK` is strengthened by what a coroutine knows at each step (its
  principal, and its handle once there is one).
* `RowsFollowTable` (`StatusFollowsTable`). Every action is a `RowStep`: it leaves the rows
  alone, expires one, inserts one after the sweep, or swaps one along the table; abandoned
  writes are swaps too.
* `AtMostOne` (`AtMostOneMutation`). `sent[a] <= 1` is not inductive. The inductive invariant
  says that a row that never reached COMMITTING has sent nothing and has no coroutine at the
  executor; that at most one coroutine is at `c_execute` for an Action; and that while one is,
  nothing was sent. It rests on the fact that the only entry to `c_execute` is a swap from
  APPROVED, and that no row returns to APPROVED, which follows from the table.
* `SuccessReal` (`SuccessIsReal`, with the guarded commit that ends without sending anything),
  `AnswersAgreed` (`AnswersAgree`), `OwnersOnly`
  (`OnlyOwnerIsTold`), `AuditBrackets` (`RequiredAuditBrackets`), `ApprovalFirst`
  (`ApprovalPrecedesMutation`), `ResultOnce` (`ResultIsWrittenOnce`). A property of a
  coroutine's answer depends on what the coroutine learnt several awaits ago, so the
  invariant (`Known`) says for every await what its coroutine knows there (an approval was
  consumed, the source applied the request, this is the durable result), for every row and
  abandoned write what its contents prove, and for every answer why it is right. It is
  inductive because such knowledge lasts (`Lasting`): nothing un-consumes an approval,
  un-applies a mutation or changes a result. `ResultIsWrittenOnce` follows from the
  refinement, too, so no run checks it on its own.
* `Implements` (`ImplementsContract`), `SentClaimed` (`SentWhileClaimed`, which no run checks
  on its own either). `HolderInv`: a claim has one holder, a coroutine past its claim or an
  abandoned write, and only they write the outcome. With it every step of the coordinator is
  a step of the contract under `ActionRefinement`'s mapping, or a stutter.

### The Gateway's sessions (`GatewayProofs`)

For every set of requests, capacity, expiry and set of faults, and every finite set of
sessions (their tokens have a fixed length). The first lemmas say once what each step does
to the requests, and the layers of the invariant, each kept by every action with the help of
those before it, are:

* `TypeOK` and `Placed`: a request at an await belongs to the operation that has it, and a
  request whose thread runs holds the vault's lock, so only one does.
* `Owned`: a session that no client was given has at most one request that makes it or rolls
  it back; deletes and calls work for delivered ones. Without it a rollback could not be
  told from a theft.
* `Unborn`: before its insert a session has no row, and an abandoned insert is of a session
  that nobody makes, holds or was given. It is what a late thread needs to be harmless.
* On these stand `MarkHeld`, `Marked`, `Durable`, `Capacity` with `Indexed`, and `NoOrphan`.
  `Capacity` counts more than the property: rows the next process will restore count too,
  and `Indexed` says that while the vault is open the records, which are all that the
  admission counts, already cover them. `NoOrphan` names who will drop a token that outlived
  its record.
* `Recorded` and `Tokened`: a session is recorded at most once in its life (`Made`), and a
  record that resolves and has no token has a request on its way that will bind it, refuse
  the session or close everything (`Repairing`). The converse part, that a request which
  found its session dead is right for good (`Settled`), is what keeps a late 401 or a drain
  from taking the token of a session that lives.

The theorems: `TypeCorrect`, `ErasureIsFinal` (`ErasedStaysErased`), `RowsAreDurable`
(`SessionsAreDurable`), `CapacityIsKept` (`WithinCapacity`), `NoTokenIsLeft`
(`NoLiveOrphanToken`), `NeverSentAgain` (`MarkedNeverSendsAgain`) and `LiveRecordsHaveTokens`
(`LiveRecordHasToken`).

### The bearer strategy (`BearerProofs`)

For every number of calls, flights and logins.

* `TypeCorrect`, with: a waiter knows its flight, a finished login brought a token.
* `SingleFlight` (`OneLogin`), from `TableOwnsLogin`: only the flight in the table has a
  running login. Removing a flight cancels its login in the same step, and a new one starts
  only where the table is empty.
* `LoginsAreNeeded` (`NoNeedlessLogin`), with `LatestOrGone`: while open, the latest token is
  bound, or it is gone because of its boundary or a 401.
* `LoginsAreAwaited` (`LoginIsAwaited`), from `Counted`: the flight in the table counts
  exactly the calls that wait for it, and there is one; the table is empty once the strategy
  is closed. The count is a cardinality, so every step is argued by one waiter more or less.
* `RefusedStaysUnsent` (`RefusedIsNotSent`), from `Fresh`: the refused tokens are older than
  the bound one and than the one a waiter is about to be given. The last part needs
  `Answerable`: a token whose login was only just answered cannot have been refused while
  somebody still waits for it.

### The guarded commit (`GuardedProofs`)

For every set of commits, resources and entries and every table size. The invariant relates
three views of a lock: the calls' own awaits, the entry's count, owner and queue (`LockFits`:
the queue holds every waiter once, a free lock has woken its first waiter), and the table
(`Links`). Only together are they inductive: the count is exact because the calls are, and an
entry may be dropped because its count is.

* `TypeCorrectness`, `CommitsExclude` (`Exclusion`), `TableHoldsUsedLocks` (`TableIsInUse`),
  `NoWaiterIsStranded` (`WaitersAreWoken`), `MutationsFitPreviews` (`AppliesToPrepared`).

### The operator's approval (`OperatorProofs`)

For every set of requests, Actions and decisions, all capacities and every lifetime. The
invariant says what a request knows at each await (`Knows`): its decision's start is in the
journal, then its decision is spent on its Action, then the Action is approved. `OneSpends`:
of two requests with one decision only one can be between the transaction that spends the
decision and the one that approves the Action. The two properties of an approved Action and
of an answer (`Rests`, `Holds`) follow from it, because nothing un-spends a decision,
un-approves an Action or takes an event out of the journal (`Lasts`), neither the foreign
steps nor what a cancelled request's thread still writes.

* `ApprovalsAreDecided` (`ApprovalIsDecided`), `AnswersAreTrue` (`AnswerIsTrue`),
  `DecisionsEndOnce` (`DecisionEndsOnce`).

### The Usage release (`UsageProofs`)

For all domains, baselines, texts, edits and processes. What was executed is passed along
runner, bundle, artifact, command, package and overlay; each hand-over is a comparison that
the code makes. Decisions need more: `ProjectNumbered` says a decision's revision is its
place, and `CommandNumbered` that a command has loaded at least the decisions that existed
when it was started.

* `PackagesWereExecuted` (`PackagedWasExecuted`), `GuidanceIsForTheTools`
  (`GuidanceFitsTools`), `DecisionsAreCurrent` (`DecisionIsCurrent`).

### The workflow run and the capability (`WorkflowProofs`)

For any number of branches: a branch keeps its own values (`Own`), the future tells the truth
about the branches (`Ends`), and a cancellation reaches all that have not ended (`Doom`).

* `RunsAreTyped` (its `TypeOK`), `AnswersAreAccounted` (`AnswerIsAccounted`).

For any capability of any project, however deep its workflows are nested, any ceiling, any
mapping and any permissions. What the compiler computes by recursion is first shown to be
defined. `NestedInduction` is an induction on `Size` with a set in the place of the
predicate. From it `NestedRecursion`: if the value on a workflow rests on the values on
smaller ones only, a function with those values exists, as the limit of functions that are
right up to a size. `CallSitesDefined`, `MutationPathCountsDefined`, `AnalyzeStepsDefined` and
`RunsDefined` apply it. Then what the functions say, again by induction:

* `AnalysisAgrees`: the scopes of `AnalyzeSteps` agree with `Runs`. `feasible` is what the
  runs meet together; every run needs one of `alternatives` at least, and each alternative is
  enough for some run; `always` is in every alternative. Dropping the alternatives that
  contain another one (`MinimalAntichain`) loses no run, because a finite set of scopes has a
  smallest alternative inside it (`MinimalIsInside`). `CombineAgrees`, `BranchAgrees` and
  `ForeachAgrees` are the steps; the last needs that a list that is not literal may be empty.
* `ReadStatus`: a read is callable just when none of its runs may be denied, and denied just
  when none can complete, for any scopes. `ActionStatus` and `ProofCoversRuns` say it of an
  Action, whose proof names every call that its runs meet.

Neither `SingleMutation` nor `StatusForetellsRun` speaks of the steps that are left, so
neither is inductive. `Counted` says of the stack `todo` that in a commit just one workflow
on it mutates, and does so once, until the mutation is sent, and none after (`OneIn`,
`NoneIn`), and that no workflow on it has a mutation inside a parallel or foreach step
(`IsClean`): without the latter a list of two items could send twice. `Foretold` says that no
workflow on the stack may be denied when the status is callable, and that one cannot
complete when it is denied. The latter needs `Blocked`: a call
whose first workflow meets a denied operation in every run never gets past it, so that an
Action is not even prepared, and no preview of the final state completes it. `GoesOn` shows both for any step that puts other workflows in the
place of the innermost one, provided that they tell the same as it did (`Unfolds`).

* `CallsAreForetold` (the invariant), `ActionsMutateOnce` (`SingleMutation`), `StatusIsTrue`
  (`StatusForetellsRun`).

### Domains (`DomainProofs`)

For every number of domains and every graph without a cycle. The first lemmas are about
`DependencyGraph`: what a domain depends on contains its dependencies, is closed and is the
least such set (`AboveHolds`, `AboveClosed`, `AboveLeast`), and a finite set of ids can be
sorted, so that `Ascending` is a sequence of just its members (`AscendingQueues`). The last
is an induction with a set in the place of the predicate, `Counting`, which follows from the
well-foundedness of the naturals.

* `ImpactsAreClosed` (`ImpactIsClosed`) and `ImpactsAreExact` (`ImpactIsExact`). The
  properties only speak of the empty worklist. The invariants have two halves. Grounded:
  what a domain was given came from something it depends on (`ImpactGrounded`,
  `ReachGrounded`). Passed on: along every edge of the graph either the upper domain is still
  in the worklist, or is unaffected, or the lower one has all it has (`ImpactPassedOn`,
  `ReachPassedOn`). A domain that grows goes back into the worklist, which is exactly what
  the second half needs. With an empty worklist the edges compose: the domains that have at
  most what d has are closed under dependencies, so `AboveLeast` applies.
* `WritesKeepValid` (`WriteKeepsValid`), from `WritesFit`: as long as no one edited and no
  command was stopped since the working commands started, every decision, entry and
  readiness is as they found it, every request on file and every one still to be written is
  valid, and there are as many temporary files as commands at `link`.
* `SettledRemains` (`SettledStaysSettled`): a file that exists is never written over
  (`Linked`), and the author only moves a request forward.

### Only model-checked

Liveness under fairness and ENABLED, which are out of the prover's reach (`RequestsReturn`,
`MutationsSettle`, `CallsReturn`). `ProvenIsSubset`: `SchemaRelation` is recursive in the
structure of two schemas, with references that may lead back to a pair that was met before;
its operators are RECURSIVE, which the SMT backend does not take. What it promises is limited
by the five exceptions. The divergences of section
6 are counterexamples. The other invariants and action properties of the runs are all
theorems.

## 5. Not modelled, and why

Encryption, MACs, the validation of payloads, file permissions and JSON are data to the properties above.
Request parsing, headers and reports have no state. `close` of the stores and of the
coordinator, the in-memory variants' lack of threads, and operations whose result is only
shown (`list` of the operator service) are left out. A workflow's sequential steps are
functions of one context, and the tasks of nested parallel steps are not modelled.

The components with status `not_modelled` in `PROJECT.json` are functions from documents to
documents: parsing, validation, compilation, coverage and quality analyses, packing. What
they get wrong they get wrong deterministically on one input, which their tests reach; a
model of them would be the code again.

## Plan

1. Done: `ActionCoordinator`, its contract, refinement and theorems; `GatewaySessions`,
   `BearerAuth`, `GuardedCommit`, `UsageRelease` and `WorkflowRun` with theirs;
   `OperatorApproval`, `UsageImpact`, `DomainImpact` and `DomainReview` with theirs;
   `CapabilityScopes` with its theorems; `SchemaRelation`.
2. `SessionContract`: a session is new, live, refused or gone, and gone is final;
   `GatewaySessions` to be shown to implement it in the absence of its two divergences.

## 6. Divergences found

All five are places where the code does something other than what one of its documents
or docstrings says. `docs/architecture/source-key-action-outcome-recovery.md:15-16`:
"After commit begins, transport failure, cancellation, or failure to durably record the
result leaves the Action in OUTCOME_UNKNOWN."

* `action_outcome`: `_commit` awaits the claim outside the `try` that marks the outcome
  unknown (`coordinator.py:537`). Cancelled there, the claim's thread still commits, and
  the row stays COMMITTING with no coroutine responsible: commit refuses it and status
  does not recover it. It is safe (nothing was sent) but stuck until it expires. Without
  cancellation (`Faults = {}`) the same property fails in another way:
  `_transition_sync` expires an overdue row before it looks at the target
  (`sqlite_store.py:354`). If `expires_at` passes while the mutation is under way, neither
  the result nor OUTCOME_UNKNOWN can be written. The row ends EXPIRED although the mutation
  was sent, and status() cannot recover it.
* `gateway_unauthorized`: `service.py:358` says of `mark_reauth_required` "Fail closed for
  one source 401 without disturbing any other user." The vault first resolves the session
  (`sqlite_vault.py:222`) and raises when it is already reauth_required; the service treats
  that as fatal. Two concurrent calls of one session that meet its 401 close the Gateway
  and delete every session.
* `gateway_ghost`: `service.py:291` says of `_rollback` that "caller cancellation cannot
  leave ghost state." The cancelled insert's thread may commit after the rollback's
  DELETE (`sqlite_vault.py:157`). The row survives until a restart finds it expired; a
  restart before that restores it as an active session nobody holds a token for.
* `usage_build`: `skills/acc-usage-engineer/guides/05-build.md:18` has a domain's release
  checked and, at line 24, the package built from the same artifact. `acc usage build`
  passes the one bundle of that domain on (`acc-core` cli/usage.py:689), while the packager
  wants one for every published domain (`acc-core` usage/packaging.py:653). In a project
  with two published domains the check answers `trusted_artifact` and the build of the
  unchanged project always refuses.
* `domain_guide`: `docs/architecture/adr/008-ai-domain-guided-discovery.md:23` has the
  command recommend the next domain whose dependencies are ready once the current one is
  completed. Validation reports an error for every domain, decided or not, with a
  dependency that is not completed (`acc-core` domains/analyze.py:255), and
  `acc domains status` refuses an invalid project. As long as any domain waits for
  another, there is no recommendation.

Three more were met in `DomainReview` and have no run. Every decision on file, of whatever
revision, is validated against the present ledger, evidence and active dependencies
(`DecisionValid`), so that the history which ADR 008 item 6 wants kept makes the project
invalid after the first change. The analysis follows evidence that only an operation
carries, but validation does not know it: a request written for it makes the project
invalid, which is why `WriteKeepsValid` excepts it. A command that is killed, or whose write
fails, leaves a temporary file without a suffix, which validation refuses (`strays`).

Five are about `acc-core` contracts/schema_relation.py, whose line 1 promises "Sound,
conservative subset checks for the supported JSON Schema vocabulary.", and have no run of
their own. In each the relation is proven for two schemas of which the first accepts a value
that the second rejects, so that the operation gets no diagnostic. `ProvenIsSubset` names each
as an exception, and the family `Shapes` holds pairs that would violate it without:

* Untyped: properties, `required` and items are compared only if one of the schemas names the
  type object or array (line 575): `{items: {type: string}}` in `{required: [a]}`.
* Siblings: assertions beside an `allOf` of the right schema are not compared (410):
  `{type: integer}` in `{allOf: [{type: [integer, string]}], minimum: 1}`.
* Namesakes: equal references are proven without being resolved, each in its own document
  (477), and `$defs` counts as an annotation.
* Revisit: a pair of definitions found in conflict is taken for proven when it is met again
  (481), and one proven branch of an `allOf` on the left proves the whole.
* Constants: `{const: true}` in `{const: 1}`, which are equal in Python (477).
