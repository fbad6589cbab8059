----------------------------- MODULE UsageRelease -----------------------------
(***************************************************************************)
(* The life of an Agent Usage release (acc_core/usage, acc_testkit/usage,  *)
(* acc_core/cli/usage.py, acc_runtime/usage/overlay.py): a project of      *)
(* documents that an author keeps editing, a runner that executes the      *)
(* scenarios and signs a verification artifact, the `acc usage release`    *)
(* and `acc usage build` commands, the package they write, and the MCP     *)
(* overlay that serves it beside a server's tools.                         *)
(*                                                                         *)
(* They are separate processes without a lock: every file is one read or   *)
(* one os.replace, and documents change between any two of them.  A digest *)
(* is the value it is the digest of.  A baseline stands for the accepted   *)
(* MCP release with the source snapshot (pack, IR, tool schema, test       *)
(* report and snapshot digests, which every document repeats together).    *)
(***************************************************************************)
EXTENDS Naturals, Sequences

CONSTANTS
    Domains,    \* business domains of the project
    Baselines,  \* accepted MCP releases
    Texts,      \* contents a contract or a scenario may be given
    MaxEdits,   \* bound on the edits of the project
    MaxRunning, \* bound on the runners and commands that run at a time
    Resigns     \* whether a runner may load the project again before it signs

ASSUME ProjectsExist == Baselines # {} /\ Texts # {}

Nothing == [none |-> TRUE]

VARIABLES
    project,   \* the documents on disk
    edits,     \* number of edits made
    runner,    \* the process that verifies a domain
    executed,  \* what scenarios have been executed and passed for
    artifact,  \* the signed verification artifact on disk
    command,   \* the `acc usage release` or `build` process
    package,   \* the .accusage file on disk
    overlay,   \* the MCP overlay process
    tools      \* the baseline whose tools the delegated server lists

releaseVars == <<project, edits, runner, executed, artifact, command, package, overlay, tools>>

-----------------------------------------------------------------------------
(* The project                                                             *)

Last(s) == s[Len(s)]
Contract(base, text) == [base |-> base, text |-> text]

\* One decision file per revision; its digest covers the revision.  Only an accepting
\* decision names the contract.
Decision(accepted, contract, revision) ==
    [accepted |-> accepted, contract |-> IF accepted THEN contract ELSE Nothing, revision |-> revision]

\* A release document, "released" and with the verification flags its author claims.
Release(base, contract, decision) ==
    [base |-> base, contract |-> contract, decision |-> decision]

\* The files are read one after the other in this order.
LoadOrder == <<"accepted", "index", "contract", "scenario", "decisions", "release">>
Files == {"accepted", "index", "contract", "scenario", "decisions", "release"}

\* A project that is complete and published, and that nothing has verified yet.
InitialProject(base, text) ==
    LET c == Contract(base, text)
        d == Decision(TRUE, c, 1)
    IN  [accepted  |-> base,
         index     |-> [base |-> base, published |-> Domains],
         contract  |-> [x \in Domains |-> c],
         scenario  |-> [x \in Domains |-> text],
         decisions |-> [x \in Domains |-> <<d>>],
         release   |-> [x \in Domains |-> Release(base, c, d)]]

\* The latest accepted decision, withdrawn or not; Latest would be faulty like this.
LatestAccepted(r, d) ==
    LET ds == SelectSeq(r.decisions[d], LAMBDA x : x.accepted)
    IN  IF ds = <<>> THEN Last(r.decisions[d]) ELSE Last(ds)

\* The decision of the highest revision.
Latest(r, d) == Last(r.decisions[d])

\* What a published domain needs.  Scenario contents are bound by no document.
PublishedOk(r, d) ==
    /\ Latest(r, d).accepted
    /\ Latest(r, d).contract = r.contract[d]
    /\ r.release[d] = Release(r.accepted, r.contract[d], Latest(r, d))

\* UsageProjectReport.ok
ProjectOk(r) ==
    /\ r.index.base = r.accepted
    /\ \A d \in Domains : r.contract[d].base = r.accepted
    /\ \A d \in r.index.published : PublishedOk(r, d)

-----------------------------------------------------------------------------
(* Processes                                                               *)

\* A process of the runner or the command line: where it is, the domain it is for,
\* the project as far as it is loaded, where the load leads; and the bundle, and for
\* `acc usage build` the project it was trusted for and how many decisions the domain
\* had when the command was started.
Idle ==
    [at |-> "idle", d |-> Nothing, next |-> 1, report |-> [f \in Files |-> Nothing],
     then |-> "idle", bundle |-> Nothing, trusted |-> Nothing, begun |-> 0]

\* No overlay serves a package.
Detached == [at |-> "detached", content |-> Nothing, sha |-> Nothing]

CanStart == Len(SelectSeq(<<runner, command>>, LAMBDA p : p # Idle)) < MaxRunning

\* A process that starts to load the project.
Loading(p, d, then) ==
    [p EXCEPT !.at = "loading", !.d = d, !.next = 1, !.report = [f \in Files |-> Nothing],
              !.then = then]

\* The process after it has read the next file.
Loaded(p) ==
    [p EXCEPT !.report[LoadOrder[p.next]] = project[LoadOrder[p.next]],
              !.next = @ + 1,
              !.at = IF p.next = Len(LoadOrder) THEN p.then ELSE "loading"]

ReleaseInit ==
    /\ project = InitialProject(CHOOSE b \in Baselines : TRUE, CHOOSE t \in Texts : TRUE)
    /\ edits = 0
    /\ runner = Idle
    /\ executed = {}
    /\ artifact = Nothing
    /\ command = Idle
    /\ package = Nothing
    /\ overlay = Detached
    /\ tools = project.accepted

projectUnchanged == UNCHANGED <<project, edits>>
runnerUnchanged  == UNCHANGED <<runner, executed, artifact>>
commandUnchanged == UNCHANGED <<command, package>>
overlayUnchanged == UNCHANGED <<overlay, tools>>
othersOfCommand  == projectUnchanged /\ runnerUnchanged /\ overlayUnchanged
othersOfRunner   == projectUnchanged /\ commandUnchanged /\ overlayUnchanged
othersOfOverlay  == projectUnchanged /\ runnerUnchanged /\ commandUnchanged

-----------------------------------------------------------------------------
(* The author                                                              *)

Edited(p) ==
    /\ edits < MaxEdits /\ p # project
    /\ project' = p /\ edits' = edits + 1
    /\ runnerUnchanged /\ commandUnchanged /\ overlayUnchanged

Accept(base) == Edited([project EXCEPT !.accepted = base])

Reindex(published) ==
    Edited([project EXCEPT !.index = [base |-> project.accepted, published |-> published]])

EditContract(d, text) == Edited([project EXCEPT !.contract[d] = Contract(project.accepted, text)])

EditScenario(d, text) == Edited([project EXCEPT !.scenario[d] = text])

Decide(d, accepted) ==
    Edited([project EXCEPT !.decisions[d] =
                Append(@, Decision(accepted, project.contract[d], Len(@) + 1))])

DraftRelease(d) ==
    Edited([project EXCEPT !.release[d] =
                Release(project.accepted, project.contract[d], Latest(project, d))])

Edit ==
    \/ \E base \in Baselines : Accept(base)
    \/ \E published \in SUBSET Domains : Reindex(published)
    \/ \E d \in Domains, text \in Texts : EditContract(d, text) \/ EditScenario(d, text)
    \/ \E d \in Domains, accepted \in BOOLEAN : Decide(d, accepted)
    \/ \E d \in Domains : DraftRelease(d)

-----------------------------------------------------------------------------
(* The runner                                                              *)

StartRunner(d) ==
    /\ runner = Idle /\ CanStart
    /\ runner' = Loading(Idle, d, "loaded")
    /\ UNCHANGED <<executed, artifact>> /\ othersOfRunner

RunnerReads ==
    /\ runner.at = "loading"
    /\ runner' = Loaded(runner)
    /\ UNCHANGED <<executed, artifact>> /\ othersOfRunner

\* The process ends: its report, proofs and bundle, which only live objects
\* stand for, are gone.
StopRunner ==
    /\ runner # Idle
    /\ runner' = Idle
    /\ UNCHANGED <<executed, artifact>> /\ othersOfRunner

\* A runner picks the latest accepted decision.
Chosen(r, d) == LatestAccepted(r, d)

\* verify_release up to its scenarios: a valid project, the accepted pack, and an
\* analysis of the contract, which is for the same baseline then.
Verifiable ==
    /\ ProjectOk(runner.report)
    /\ Chosen(runner.report, runner.d).accepted

\* What one verification executed.
Closure(d, contract, scenario) ==
    [d |-> d, contract |-> contract, scenario |-> scenario, tools |-> tools]

\* The headless and the real MCP scenarios; the real ones run against the tools
\* the server lists at that time.
Execute ==
    /\ runner.at = "loaded" /\ Verifiable
    /\ LET d == runner.d
           r == runner.report
       IN  /\ tools = r.contract[d].base
           /\ executed' = executed \cup {Closure(d, r.contract[d], r.scenario[d])}
    /\ runner' = [runner EXCEPT !.at = "executed"]
    /\ UNCHANGED artifact /\ othersOfRunner

\* _artifact_context: the decision accepts exactly this contract.
Accepts(decision, contract) == decision.accepted /\ decision.contract = contract

Bundle(r, d) ==
    [d |-> d, base |-> r.contract[d].base, release |-> r.release[d], contract |-> r.contract[d],
     scenario |-> r.scenario[d], decision |-> Chosen(r, d)]

\* finalize_verified_usage_release: the domain is published, its release document
\* is for exactly what was executed, and every axis has its report.
Finalize ==
    /\ runner.at = "executed"
    /\ LET d == runner.d
           r == runner.report
       IN  /\ d \in r.index.published
           /\ Accepts(Chosen(r, d), r.contract[d])
           /\ r.release[d] = Release(r.contract[d].base, r.contract[d], Chosen(r, d))
           /\ runner' = [runner EXCEPT !.at = "finalized", !.bundle = Bundle(r, d)]
    /\ UNCHANGED <<executed, artifact>> /\ othersOfRunner

\* A runner may load the project anew to sign: nothing ties the report it signs
\* to the one its bundle was finalized for.
LoadAgain ==
    /\ Resigns
    /\ runner.at = "finalized"
    /\ runner' = Loading(runner, runner.d, "finalized")
    /\ UNCHANGED <<executed, artifact>> /\ othersOfRunner

\* write_usage_verification_artifact
Sign ==
    /\ runner.at = "finalized" /\ ProjectOk(runner.report)
    /\ artifact' = [report |-> runner.report, bundle |-> runner.bundle]
    /\ runner' = Idle
    /\ UNCHANGED executed /\ othersOfRunner

\* The artifact is no longer valid, or its key is no longer trusted.
Expire ==
    /\ artifact # Nothing
    /\ artifact' = Nothing
    /\ UNCHANGED <<runner, executed>> /\ othersOfRunner

-----------------------------------------------------------------------------
(* acc usage release, acc usage build                                      *)

StartCommand(d) ==
    /\ command = Idle /\ CanStart
    /\ command' = Loading([Idle EXCEPT !.begun = Len(project.decisions[d])], d, "checking")
    /\ UNCHANGED package /\ othersOfCommand

CommandReads ==
    /\ command.at = "loading"
    /\ command' = Loaded(command)
    /\ UNCHANGED package /\ othersOfCommand

\* A refused command, or one that is killed: a package is replaced as a whole.
StopCommand ==
    /\ command # Idle
    /\ command' = Idle
    /\ UNCHANGED package /\ othersOfCommand

\* The process keeps the bundle, and what it was trusted for.
Trusting(p, bundle) == [p EXCEPT !.trusted = p.report, !.bundle = bundle]

\* load_usage_verification_artifact
ArtifactFits(a, r, d) ==
    /\ a # Nothing /\ a.report = r
    /\ a.bundle.d = d /\ a.bundle.base = r.accepted

\* _verified_usage_bundle.  `acc usage release` answers "trusted_artifact" here and
\* ends; `acc usage build` loads the project once more.
Trust ==
    /\ command.at = "checking"
    /\ ProjectOk(command.report) /\ ArtifactFits(artifact, command.report, command.d)
    /\ command' = Loading(Trusting(command, artifact.bundle), command.d, "packing")
    /\ UNCHANGED package /\ othersOfCommand

\* A faulty variant: the scenarios are not compared.
BundlesMatchButScenarios(r, bundle) ==
    /\ r.index.published = {bundle.d}
    /\ [bundle EXCEPT !.scenario = r.scenario[bundle.d]]
         = [Bundle(r, bundle.d) EXCEPT !.decision = Latest(r, bundle.d)]

\* _manifest_from_report: one live bundle for each published domain, equal to the
\* project's documents.
BundlesMatch(r, bundle) ==
    /\ r.index.published = {bundle.d}
    /\ bundle = [Bundle(r, bundle.d) EXCEPT !.decision = Latest(r, bundle.d)]

Packable == ProjectOk(command.report) /\ BundlesMatch(command.report, command.bundle)

\* build_usage_package: the package holds the documents of the second load.
Build ==
    /\ command.at = "packing" /\ Packable
    /\ package' = [Bundle(command.report, command.d) EXCEPT !.decision = Latest(command.report, command.d)]
    /\ command' = Idle
    /\ othersOfCommand

Refuse ==
    /\ command.at = "packing" /\ ~Packable
    /\ command' = [command EXCEPT !.at = "refused"]
    /\ UNCHANGED package /\ othersOfCommand

-----------------------------------------------------------------------------
(* The overlay                                                             *)

\* verify_usage_package reads the members, and then the file again for its hash.
Mount ==
    /\ overlay = Detached /\ package # Nothing
    /\ overlay' = [at |-> "verified", content |-> package, sha |-> Nothing]
    /\ UNCHANGED tools /\ othersOfOverlay

Attach ==
    /\ overlay.at = "verified" /\ overlay.content.base = tools
    /\ overlay' = [at |-> "mounted", content |-> overlay.content, sha |-> package]
    /\ UNCHANGED tools /\ othersOfOverlay

StopOverlay ==
    /\ overlay # Detached
    /\ overlay' = Detached
    /\ UNCHANGED tools /\ othersOfOverlay

\* The delegated server comes to list the tools of another release.
Upgrade(base) ==
    /\ tools # base
    /\ tools' = base
    /\ UNCHANGED overlay /\ othersOfOverlay

\* A faulty variant: the tools are compared when the overlay is attached only.
AnswersUnchecked == overlay.at = "mounted" /\ overlay.sha = package

\* _assert_integrity: a request of a client is answered now.
Answers ==
    /\ overlay.at = "mounted"
    /\ overlay.sha = package
    /\ overlay.content.base = tools

-----------------------------------------------------------------------------
ReleaseNext ==
    \/ Edit
    \/ \E d \in Domains : StartRunner(d)
    \/ RunnerReads \/ StopRunner \/ Execute \/ Finalize \/ LoadAgain \/ Sign \/ Expire
    \/ \E d \in Domains : StartCommand(d)
    \/ CommandReads \/ StopCommand \/ Trust \/ Build \/ Refuse
    \/ Mount \/ Attach \/ StopOverlay
    \/ \E base \in Baselines : Upgrade(base)

ReleaseSpec == ReleaseInit /\ [][ReleaseNext]_releaseVars

-----------------------------------------------------------------------------
(* Properties                                                              *)

ExecutedFor(c, served) ==
    \E x \in executed : /\ x.d = c.d /\ x.contract = c.contract
                        /\ x.scenario = c.scenario /\ x.tools = served

\* The package on disk holds a contract and scenarios which one runner executed
\* together, and passed, against the tools of the package's own baseline: whatever
\* the author edited while the runner, the signing and the build were reading, and
\* however their loads mix the versions.
PackagedWasExecuted == package # Nothing => ExecutedFor(package, package.base)

\* Whatever the overlay answers a client was executed against the very tools the
\* server lists at that time, through every upgrade of the server and every package
\* that replaced the one it mounted.
GuidanceFitsTools == Answers => ExecutedFor(overlay.content, tools)

\* A package never carries a decision that had been withdrawn or superseded when its
\* build command was started, nor one that does not accept.
DecisionIsCurrent ==
    [][package' # package => /\ package'.decision.accepted
                             /\ package'.decision.revision >= command.begun]_releaseVars

\* The build guide (skills/acc-usage-engineer/guides/05-build.md) follows a passed
\* release check of a domain by its build: a build whose artifact was trusted is
\* refused only if the project changed since.
CheckedIsBuilt == command.at = "refused" => command.report # command.trusted
=============================================================================
