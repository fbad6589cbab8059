--------------------------- MODULE MCIndependentParts ---------------------------
(***************************************************************************)
(* Small instances of parts of the system that share nothing: the guarded   *)
(* commit, the operator's approval, the Usage release, the two impact       *)
(* analyses, the review of domains, the workflow run, the scopes of a       *)
(* capability and the relation of schemas.  A behaviour is one of the part  *)
(* that `part` says; the other parts rest, those whose modules this one     *)
(* extends in an initial state.                                             *)
(***************************************************************************)
EXTENDS GuardedCommit, OperatorApproval, UsageRelease, UsageImpact, DomainImpact, DomainReview,
        WorkflowRun, CapabilityScopes, TLC

VARIABLES
    part,
    declared, evidence, direction, severity

Samples  == INSTANCE SchemaFamilies
Schemas  == INSTANCE SchemaRelation WITH
                Families <- Samples!CheckedFamilies, Values <- Samples!CheckedValues,
                source <- evidence
Projects == INSTANCE CapabilitySamples

SamplePlain        == Projects!Plain
SampleCapabilities == Projects!Reads \cup Projects!Actions
SampleScopes       == Projects!Scopes
SampleCeilings     == Projects!Limits
SamplePermissions  == Projects!Users
SampleMapping      == Projects!Mapped
SampleWorkflows    == Projects!Remainders
SampleSize         == Projects!StepCounts

schemaVars == <<declared, evidence, direction, severity>>

Rests == "rests"

SchemasRest == declared = Rests /\ evidence = Rests /\ direction = Rests /\ severity = Rests

\* Where the other parts stay, if they have a choice.
Usual(S) == CHOOSE x \in S : TRUE

CommitInit ==
    Init /\ (part # "commit" => \A c \in Calls : call[c].key = Usual(Keys))

AnalysisInit ==
    /\ part # "impact" =>
          deps = [d \in Ids |-> {}] /\ reason = [d \in Ids |-> Usual(Reasons)] /\ shared = FALSE
    /\ ImpactInit

ReachingInit ==
    /\ part # "reach" =>
          graph = [d \in MappedIds |-> {}] /\ hit = [d \in MappedIds |-> Usual(Bindings \ {"none"})]
    /\ ReachInit

ReviewingInit ==
    ReviewInit /\ (part # "review" => needs = [d \in ReviewedIds |-> {}] /\ scanned = {})

WorkflowInit ==
    RunInit /\ (part # "workflow" => kind = "parallel")

\* One that calls nothing is not called.
CallingInit ==
    IF part = "scopes" THEN ScopesInit
    ELSE /\ capability = SamplePlain /\ ceiling = {} /\ permissions = Usual(Permissions)
         /\ phase = "called" /\ todo = <<>> /\ mutations = 0

PartsInit ==
    /\ part \in {"commit", "approval", "release", "impact", "reach", "review", "workflow",
                "schemas", "scopes"}
    /\ CommitInit /\ ApprovalInit /\ ReleaseInit /\ WorkflowInit
    /\ AnalysisInit /\ ReachingInit /\ ReviewingInit /\ CallingInit
    /\ IF part = "schemas" THEN Schemas!Init ELSE SchemasRest

\* The other parts of the one that moves.
domainVars  == <<reachVars, reviewVars>>
usageVars   == <<releaseVars, impactVars>>
executeVars == <<runVars, schemaVars, scopeVars>>
actionVars  == <<vars, approvalVars>>

Committing == part = "commit"
Approving  == part = "approval"
Releasing  == part = "release"
Analysing  == part = "impact"
Reaching   == part = "reach"
Reviewing  == part = "review"
Running    == part = "workflow"
Comparing  == part = "schemas"
Calling    == part = "scopes"

OnlyCommits  == UNCHANGED <<part, approvalVars, usageVars, domainVars, executeVars>>
OnlyApproves == UNCHANGED <<part, vars, usageVars, domainVars, executeVars>>
OnlyReleases == UNCHANGED <<part, actionVars, impactVars, domainVars, executeVars>>
OnlyAnalyses == UNCHANGED <<part, actionVars, releaseVars, domainVars, executeVars>>
OnlyReaches  == UNCHANGED <<part, actionVars, usageVars, reviewVars, executeVars>>
OnlyReviews  == UNCHANGED <<part, actionVars, usageVars, reachVars, executeVars>>
OnlyRuns     == UNCHANGED <<part, actionVars, usageVars, domainVars, schemaVars, scopeVars>>
OnlyCompares == UNCHANGED <<part, actionVars, usageVars, domainVars, runVars, scopeVars>>
OnlyCalls    == UNCHANGED <<part, actionVars, usageVars, domainVars, runVars, schemaVars>>

CommitPrepare == Committing /\ (\E c \in Calls : Prepare(c)) /\ OnlyCommits
CommitEnter   == Committing /\ (\E c \in Calls : Enter(c)) /\ OnlyCommits
CommitResume  == Committing /\ (\E c \in Calls : Resume(c)) /\ OnlyCommits
CommitRead    == Committing /\ (\E c \in Calls : Read(c)) /\ OnlyCommits
CommitMutate  == Committing /\ (\E c \in Calls : Mutate(c)) /\ OnlyCommits
CommitCancel  == Committing /\ (\E c \in Calls : Cancel(c)) /\ OnlyCommits
CommitArrive  == Committing /\ Arrive /\ OnlyCommits
CommitForeign == Committing /\ ForeignWrite /\ OnlyCommits

ApprovalLookup         == Approving /\ (\E t \in Tasks : Lookup(t)) /\ OnlyApproves
ApprovalPresent        == Approving /\ (\E t \in Tasks : Present(t)) /\ OnlyApproves
ApprovalResolveSession == Approving /\ (\E t \in Tasks : ResolveSession(t)) /\ OnlyApproves
ApprovalBind           == Approving /\ (\E t \in Tasks : Bind(t)) /\ OnlyApproves
ApprovalIssue          == Approving /\ (\E t \in Tasks : Issue(t)) /\ OnlyApproves
ApprovalStartSpan      == Approving /\ (\E t \in Tasks : StartSpan(t)) /\ OnlyApproves
ApprovalState          == Approving /\ (\E t \in Tasks : State(t)) /\ OnlyApproves
ApprovalVerify         == Approving /\ (\E t \in Tasks : Verify(t)) /\ OnlyApproves
ApprovalApprove        == Approving /\ (\E t \in Tasks : Approve(t)) /\ OnlyApproves
ApprovalFinish         == Approving /\ (\E t \in Tasks : Finish(t)) /\ OnlyApproves
ApprovalClose          == Approving /\ (\E t \in Tasks : Close(t)) /\ OnlyApproves
ApprovalBusy           == Approving /\ (\E t \in Tasks : Busy(t)) /\ OnlyApproves
ApprovalCancel         == Approving /\ (\E t \in Tasks : CancelApprove(t)) /\ OnlyApproves
ApprovalPrepare        == Approving /\ PrepareAction /\ OnlyApproves
ApprovalLogout         == Approving /\ Logout /\ OnlyApproves
ApprovalCommit         == Approving /\ Commit /\ OnlyApproves
ApprovalIssueOutside   == Approving /\ IssueOutside /\ OnlyApproves
ApprovalRevoke         == Approving /\ Revoke /\ OnlyApproves
ApprovalTick           == Approving /\ Tick /\ OnlyApproves

ReleaseAccept       == Releasing /\ (\E b \in Baselines : Accept(b)) /\ OnlyReleases
ReleaseReindex      == Releasing /\ (\E p \in SUBSET Domains : Reindex(p)) /\ OnlyReleases
ReleaseEditContract == Releasing /\ (\E d \in Domains, t \in Texts : EditContract(d, t)) /\ OnlyReleases
ReleaseEditScenario == Releasing /\ (\E d \in Domains, t \in Texts : EditScenario(d, t)) /\ OnlyReleases
ReleaseDecide       == Releasing /\ (\E d \in Domains, y \in BOOLEAN : Decide(d, y)) /\ OnlyReleases
ReleaseDraft        == Releasing /\ (\E d \in Domains : DraftRelease(d)) /\ OnlyReleases
ReleaseStartRunner  == Releasing /\ (\E d \in Domains : StartRunner(d)) /\ OnlyReleases
ReleaseRunnerReads  == Releasing /\ RunnerReads /\ OnlyReleases
ReleaseStopRunner   == Releasing /\ StopRunner /\ OnlyReleases
ReleaseExecute      == Releasing /\ Execute /\ OnlyReleases
ReleaseFinalize     == Releasing /\ Finalize /\ OnlyReleases
ReleaseLoadAgain    == Releasing /\ LoadAgain /\ OnlyReleases
ReleaseSign         == Releasing /\ Sign /\ OnlyReleases
ReleaseExpire       == Releasing /\ Expire /\ OnlyReleases
ReleaseStartCommand == Releasing /\ (\E d \in Domains : StartCommand(d)) /\ OnlyReleases
ReleaseCommandReads == Releasing /\ CommandReads /\ OnlyReleases
ReleaseStopCommand  == Releasing /\ StopCommand /\ OnlyReleases
ReleaseTrust        == Releasing /\ Trust /\ OnlyReleases
ReleaseBuild        == Releasing /\ Build /\ OnlyReleases
ReleaseRefuse       == Releasing /\ Refuse /\ OnlyReleases
ReleaseMount        == Releasing /\ Mount /\ OnlyReleases
ReleaseAttach       == Releasing /\ Attach /\ OnlyReleases
ReleaseStopOverlay  == Releasing /\ StopOverlay /\ OnlyReleases
ReleaseUpgrade      == Releasing /\ (\E b \in Baselines : Upgrade(b)) /\ OnlyReleases

ImpactSkip      == Analysing /\ Skip /\ OnlyAnalyses
ImpactPropagate == Analysing /\ Raise /\ OnlyAnalyses
ImpactDone      == Analysing /\ Reported /\ OnlyAnalyses

ReachPropagate == Reaching /\ Propagate /\ OnlyReaches
ReachDone      == Reaching /\ Finished /\ OnlyReaches

ReviewScan      == Reviewing /\ (\E d \in ReviewedIds : Scan(d)) /\ OnlyReviews
ReviewUpdate    == Reviewing /\ (\E d \in ReviewedIds, g \in Digests : UpdateEvidence(d, g)) /\ OnlyReviews
ReviewDecide    == Reviewing /\ (\E d \in ReviewedIds, r \in Revisions, s \in Statuses, y \in BOOLEAN :
                                   WriteDecision(d, r, s, y)) /\ OnlyReviews
ReviewActivate  == Reviewing /\ (\E d \in ReviewedIds, r \in Revisions, s \in Statuses :
                                   Activate(d, r, s)) /\ OnlyReviews
ReviewSettle    == Reviewing /\ (\E q \in requests, s \in {"confirmed", "superseded"} : Settle(q, s)) /\ OnlyReviews
ReviewApply     == Reviewing /\ (\E q \in requests : Apply(q)) /\ OnlyReviews
ReviewSweep     == Reviewing /\ Sweep /\ OnlyReviews
ReviewStart     == Reviewing /\ (\E c \in Commands, e \in Changes : Start(c, e)) /\ OnlyReviews
ReviewFound     == Reviewing /\ (\E c \in Commands : Found(c)) /\ OnlyReviews
ReviewOpen      == Reviewing /\ (\E c \in Commands : Open(c)) /\ OnlyReviews
ReviewOpenFails == Reviewing /\ (\E c \in Commands : OpenFails(c)) /\ OnlyReviews
ReviewLink      == Reviewing /\ (\E c \in Commands : Link(c)) /\ OnlyReviews
ReviewAnswer    == Reviewing /\ (\E c \in Commands : Report(c)) /\ OnlyReviews
ReviewKill      == Reviewing /\ (\E c \in Commands : Kill(c)) /\ OnlyReviews
ReviewRest      == Reviewing /\ Rest /\ OnlyReviews

WorkflowLaunch == Running /\ (\E b \in Branches : Launch(b)) /\ OnlyRuns
WorkflowReturn == Running /\ (\E b \in Branches : Return(b)) /\ OnlyRuns
WorkflowFail   == Running /\ (\E b \in Branches : Fail(b)) /\ OnlyRuns
WorkflowDie    == Running /\ (\E b \in Branches : Die(b)) /\ OnlyRuns
WorkflowCancel == Running /\ CancelCall /\ OnlyRuns
WorkflowAnswer == Running /\ Answer /\ OnlyRuns
WorkflowDone   == Running /\ Done /\ OnlyRuns

SchemasAnalyze == Comparing /\ Schemas!Analyze /\ OnlyCompares
SchemasDone    == Comparing /\ Schemas!Done /\ OnlyCompares

ScopesRefuse   == Calling /\ RefuseCall /\ OnlyCalls
ScopesRun      == Calling /\ RunRead /\ OnlyCalls
ScopesPrepare  == Calling /\ Preview /\ OnlyCalls
ScopesSeal     == Calling /\ Seal /\ OnlyCalls
ScopesCommit   == Calling /\ StartCommit /\ OnlyCalls
ScopesRecheck  == Calling /\ Rechecked /\ OnlyCalls
ScopesResolve  == Calling /\ Resolve /\ OnlyCalls
ScopesComplete == Calling /\ Complete /\ OnlyCalls
ScopesCall     == Calling /\ CallStep /\ OnlyCalls
ScopesBranch   == Calling /\ BranchStep /\ OnlyCalls
ScopesParallel == Calling /\ ParallelStep /\ OnlyCalls
ScopesForeach  == Calling /\ ForeachStep /\ OnlyCalls
ScopesEmit     == Calling /\ EmitStep /\ OnlyCalls
ScopesLeave    == Calling /\ LeaveWorkflow /\ OnlyCalls
ScopesFail     == Calling /\ FailStep /\ OnlyCalls
ScopesDone     == Calling /\ CallEnded /\ OnlyCalls

PartsNext ==
    \/ CommitPrepare \/ CommitEnter \/ CommitResume \/ CommitRead \/ CommitMutate
    \/ CommitCancel \/ CommitArrive \/ CommitForeign
    \/ ApprovalLookup \/ ApprovalPresent \/ ApprovalResolveSession
    \/ ApprovalBind \/ ApprovalIssue \/ ApprovalStartSpan
    \/ ApprovalState \/ ApprovalVerify \/ ApprovalApprove
    \/ ApprovalFinish \/ ApprovalClose \/ ApprovalBusy
    \/ ApprovalCancel \/ ApprovalPrepare \/ ApprovalLogout
    \/ ApprovalCommit \/ ApprovalIssueOutside \/ ApprovalRevoke
    \/ ApprovalTick
    \/ ReleaseAccept \/ ReleaseReindex \/ ReleaseEditContract
    \/ ReleaseEditScenario \/ ReleaseDecide \/ ReleaseDraft
    \/ ReleaseStartRunner \/ ReleaseRunnerReads \/ ReleaseStopRunner
    \/ ReleaseExecute \/ ReleaseFinalize \/ ReleaseLoadAgain
    \/ ReleaseSign \/ ReleaseExpire
    \/ ReleaseStartCommand \/ ReleaseCommandReads \/ ReleaseStopCommand
    \/ ReleaseTrust \/ ReleaseBuild \/ ReleaseRefuse
    \/ ReleaseMount \/ ReleaseAttach \/ ReleaseStopOverlay \/ ReleaseUpgrade
    \/ ImpactSkip \/ ImpactPropagate \/ ImpactDone
    \/ ReachPropagate \/ ReachDone
    \/ ReviewScan \/ ReviewUpdate \/ ReviewDecide \/ ReviewActivate
    \/ ReviewSettle \/ ReviewApply \/ ReviewSweep
    \/ ReviewStart \/ ReviewFound \/ ReviewOpen \/ ReviewOpenFails
    \/ ReviewLink \/ ReviewAnswer \/ ReviewKill \/ ReviewRest
    \/ WorkflowLaunch \/ WorkflowReturn \/ WorkflowFail \/ WorkflowDie
    \/ WorkflowCancel \/ WorkflowAnswer \/ WorkflowDone
    \/ SchemasAnalyze \/ SchemasDone
    \/ ScopesRefuse \/ ScopesRun \/ ScopesPrepare \/ ScopesSeal \/ ScopesCommit \/ ScopesRecheck
    \/ ScopesResolve \/ ScopesComplete \/ ScopesCall \/ ScopesBranch \/ ScopesParallel
    \/ ScopesForeach \/ ScopesEmit \/ ScopesLeave \/ ScopesFail \/ ScopesDone

PartsSpec == PartsInit /\ [][PartsNext]_<<part, actionVars, usageVars, domainVars, executeVars>>

\* The calls move in one part and the tasks in another: exchanging two of each at once
\* generates half as many permutations, to the same effect.
Swaps(S) == {p \in Permutations(S) : Cardinality({x \in S : p[x] # x}) = 2}
PartsSymmetry == {p @@ q : p \in Swaps(Calls), q \in Swaps(Tasks)}

\* SchemaRelation says what it means.
ProvenIsSubset == part = "schemas" => Schemas!ProvenIsSubset
=============================================================================
