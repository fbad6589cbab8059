----------------------------- MODULE UsageProofs -----------------------------
(***************************************************************************)
(* Theorems about UsageRelease, for any number of domains, baselines,      *)
(* texts and edits.                                                        *)
(***************************************************************************)
EXTENDS UsageRelease, TLAPS

\* A record with the fields of a process.
Process(p) ==
    p = [at |-> p.at, d |-> p.d, next |-> p.next, report |-> p.report, then |-> p.then,
         bundle |-> p.bundle, trusted |-> p.trusted, begun |-> p.begun]

\* Where a load leads.
Paths ==
    /\ Process(runner) /\ Process(command)
    /\ runner.at = "loading" => runner.then \in {"loaded", "finalized"}
    /\ command.at = "loading" => command.then \in {"checking", "packing"}

\* A process is, or will be once it has loaded, at a step.
Towards(p, step) == p.at = step \/ (p.at = "loading" /\ p.then = step)

Executed(c) == ExecutedFor(c, c.base)

\* Whoever holds a bundle, from the runner to the overlay, holds what was executed.
RunnerHolds ==
    /\ runner.at = "executed" =>
          LET r == runner.report
              d == runner.d
          IN  [d |-> d, contract |-> r.contract[d], scenario |-> r.scenario[d],
               tools |-> r.contract[d].base] \in executed
    /\ Towards(runner, "finalized") => Executed(runner.bundle)
    /\ artifact # Nothing => Executed(artifact.bundle)

CommandHolds ==
    /\ Towards(command, "packing") => Executed(command.bundle) /\ command.bundle.d = command.d
    /\ package # Nothing => Executed(package)

OverlayHolds == overlay.at # "detached" => Executed(overlay.content)

Inductive == Paths /\ RunnerHolds /\ CommandHolds /\ OverlayHolds

-----------------------------------------------------------------------------
(* Processes                                                               *)

LEMMA IdleProcess == Process(Idle) /\ Idle.at = "idle" /\ Idle.begun = 0
  BY DEF Process, Idle

LEMMA BegunProcess ==
    ASSUME NEW n, NEW p, p = [Idle EXCEPT !.begun = n]
    PROVE  Process(p) /\ p.begun = n
<1>1. p = [at |-> "idle", d |-> Nothing, next |-> 1, report |-> [f \in Files |-> Nothing],
           then |-> "idle", bundle |-> Nothing, trusted |-> Nothing, begun |-> n]
  BY DEF Idle
<1> QED
  BY <1>1 DEF Process

LEMMA LoadingProcess ==
    ASSUME NEW p, Process(p), NEW d, NEW then, NEW q, q = Loading(p, d, then)
    PROVE  /\ Process(q) /\ q.at = "loading" /\ q.then = then /\ q.d = d /\ q.next = 1
           /\ q.bundle = p.bundle /\ q.begun = p.begun /\ DOMAIN q.report = Files
<1>1. q = [at |-> "loading", d |-> d, next |-> 1, report |-> [f \in Files |-> Nothing],
           then |-> then, bundle |-> p.bundle, trusted |-> p.trusted, begun |-> p.begun]
  BY DEF Process, Loading
<1> QED
  BY <1>1 DEF Process

LEMMA LoadedProcess ==
    ASSUME NEW p, Process(p), NEW q, q = Loaded(p)
    PROVE  /\ Process(q) /\ q.then = p.then /\ q.d = p.d /\ q.next = p.next + 1
           /\ q.at = IF p.next = Len(LoadOrder) THEN p.then ELSE "loading"
           /\ q.report = [p.report EXCEPT ![LoadOrder[p.next]] = project[LoadOrder[p.next]]]
           /\ q.bundle = p.bundle /\ q.begun = p.begun
<1> DEFINE n == p.next + 1
           a == IF p.next = Len(LoadOrder) THEN p.then ELSE "loading"
           r == [p.report EXCEPT ![LoadOrder[p.next]] = project[LoadOrder[p.next]]]
<1>1. q = [p EXCEPT !.report = r, !.next = n, !.at = a]
  BY DEF Process, Loaded
<1> HIDE DEF n, a, r
<1>2. q = [at |-> a, d |-> p.d, next |-> n, report |-> r, then |-> p.then,
           bundle |-> p.bundle, trusted |-> p.trusted, begun |-> p.begun]
  BY <1>1 DEF Process
<1>3. /\ Process(q) /\ q.then = p.then /\ q.d = p.d /\ q.next = n /\ q.at = a /\ q.report = r
      /\ q.bundle = p.bundle /\ q.begun = p.begun
  BY <1>2 DEF Process
<1> QED
  BY <1>3 DEF n, a, r

\* What every process keeps while it reads a further file.
LEMMA ReadingProcess ==
    ASSUME NEW p, Process(p), NEW q, q = Loaded(p)
    PROVE  /\ Process(q) /\ q.at \in {"loading", p.then}
           /\ q.then = p.then /\ q.bundle = p.bundle /\ q.d = p.d
<1>1. /\ Process(q) /\ q.then = p.then /\ q.bundle = p.bundle /\ q.d = p.d
      /\ q.at = IF p.next = Len(LoadOrder) THEN p.then ELSE "loading"
  BY LoadedProcess
<1> QED
  BY <1>1, Zenon

LEMMA TrustingProcess ==
    ASSUME NEW p, Process(p), NEW b, NEW q, q = Trusting(p, b)
    PROVE  Process(q) /\ q.bundle = b /\ q.begun = p.begun
<1>1. q = [at |-> p.at, d |-> p.d, next |-> p.next, report |-> p.report, then |-> p.then,
           bundle |-> b, trusted |-> p.report, begun |-> p.begun]
  BY DEF Process, Trusting
<1> QED
  BY <1>1 DEF Process

\* What was executed stays executed.
LEMMA ExecutedStays ==
    ASSUME executed \subseteq executed', NEW c, ExecutedFor(c, c.base)
    PROVE  ExecutedFor(c, c.base)'
  BY DEF ExecutedFor

-----------------------------------------------------------------------------
LEMMA InitInductive == ReleaseInit => Inductive
  BY IdleProcess DEF ReleaseInit, Inductive, Paths, RunnerHolds, CommandHolds, OverlayHolds, Towards,
                     Detached

\* Steps of the author and of the server disturb nobody's bundle.
LEMMA OutsideKeeps ==
    ASSUME Inductive, UNCHANGED <<runner, executed, artifact, command, package, overlay>>
    PROVE  Inductive'
  BY DEF Inductive, Paths, RunnerHolds, CommandHolds, OverlayHolds, Towards, Executed, ExecutedFor,
         Process

LEMMA RunnerKeeps ==
    ASSUME Inductive,
           \/ \E d \in Domains : StartRunner(d)
           \/ RunnerReads \/ StopRunner \/ Execute \/ Finalize \/ LoadAgain \/ Sign \/ Expire
    PROVE  Inductive'
<1>0. executed \subseteq executed' /\ UNCHANGED <<command, package, overlay>>
  BY DEF StartRunner, RunnerReads, StopRunner, Execute, Finalize, LoadAgain, Sign, Expire,
         othersOfRunner, commandUnchanged, overlayUnchanged
<1>1. CommandHolds' /\ OverlayHolds'
  BY <1>0 DEF Inductive, CommandHolds, OverlayHolds, Towards, Executed, ExecutedFor
<1>2. SUFFICES /\ Process(runner)'
               /\ (runner.at = "loading" => runner.then \in {"loaded", "finalized"})'
               /\ RunnerHolds'
  BY <1>0, <1>1 DEF Inductive, Paths, Process
<1>3. Process(runner) /\ RunnerHolds
      /\ (runner.at = "loading" => runner.then \in {"loaded", "finalized"})
  BY DEF Inductive, Paths
<1>4. ASSUME NEW d \in Domains, StartRunner(d)
      PROVE  /\ Process(runner)'
             /\ (runner.at = "loading" => runner.then \in {"loaded", "finalized"})'
             /\ RunnerHolds'
  <2>1. /\ Process(runner') /\ runner'.at = "loading" /\ runner'.then = "loaded"
        /\ UNCHANGED <<executed, artifact>>
    BY <1>4, IdleProcess, LoadingProcess DEF StartRunner
  <2>2. QED
    BY <1>3, <2>1 DEF RunnerHolds, Towards, Executed, ExecutedFor, Process
<1>5. ASSUME RunnerReads
      PROVE  /\ Process(runner)'
             /\ (runner.at = "loading" => runner.then \in {"loaded", "finalized"})'
             /\ RunnerHolds'
  <2>1. /\ Process(runner') /\ runner.at = "loading"
        /\ runner'.then = runner.then /\ runner'.bundle = runner.bundle
        /\ runner'.at \in {"loading", runner.then}
        /\ UNCHANGED <<executed, artifact>>
    BY <1>3, <1>5, LoadedProcess DEF RunnerReads
  <2>2. QED
    BY <1>3, <2>1 DEF RunnerHolds, Towards, Executed, ExecutedFor, Process
<1>6. ASSUME StopRunner
      PROVE  /\ Process(runner)'
             /\ (runner.at = "loading" => runner.then \in {"loaded", "finalized"})'
             /\ RunnerHolds'
  <2>1. /\ Process(runner') /\ runner'.at = "idle" /\ UNCHANGED <<executed, artifact>>
    BY <1>6, IdleProcess DEF StopRunner
  <2>2. QED
    BY <1>3, <2>1 DEF RunnerHolds, Towards, Executed, ExecutedFor, Process
<1>7. ASSUME Execute
      PROVE  /\ Process(runner)'
             /\ (runner.at = "loading" => runner.then \in {"loaded", "finalized"})'
             /\ RunnerHolds'
  <2> DEFINE d == runner.d
             r == runner.report
             x == [d |-> d, contract |-> r.contract[d], scenario |-> r.scenario[d],
                   tools |-> r.contract[d].base]
  <2>1. /\ runner' = [runner EXCEPT !.at = "executed"] /\ UNCHANGED artifact
        /\ executed' = executed \cup {x}
    BY <1>7 DEF Execute, Closure
  <2>2. /\ Process(runner') /\ runner'.at = "executed"
        /\ runner'.d = runner.d /\ runner'.report = runner.report
    BY <1>3, <2>1 DEF Process
  <2>3. artifact # Nothing => Executed(artifact.bundle)'
    BY <1>0, <1>3, <2>1 DEF RunnerHolds, Executed, ExecutedFor
  <2>4. x \in executed'
    BY <2>1
  <2>5. QED
    BY <2>1, <2>2, <2>3, <2>4 DEF RunnerHolds, Towards, Process
<1>8. ASSUME Finalize
      PROVE  /\ Process(runner)'
             /\ (runner.at = "loading" => runner.then \in {"loaded", "finalized"})'
             /\ RunnerHolds'
  <2> DEFINE d == runner.d
             r == runner.report
             b == Bundle(r, d)
  <2>1. /\ runner' = [runner EXCEPT !.at = "finalized", !.bundle = b]
        /\ runner.at = "executed" /\ UNCHANGED <<executed, artifact>>
    BY <1>8 DEF Finalize
  <2>2. /\ b.d = d /\ b.contract = r.contract[d] /\ b.scenario = r.scenario[d]
        /\ b.base = r.contract[d].base
    BY DEF Bundle
  <2> HIDE DEF b
  <2>3. Executed(b)
    <3> DEFINE x == [d |-> d, contract |-> r.contract[d], scenario |-> r.scenario[d],
                     tools |-> r.contract[d].base]
    <3>1. x \in executed
      BY <1>3, <2>1 DEF RunnerHolds
    <3>2. x.d = b.d /\ x.contract = b.contract /\ x.scenario = b.scenario /\ x.tools = b.base
      BY <2>2
    <3>3. QED
      BY <3>1, <3>2 DEF Executed, ExecutedFor
  <2>4. Process(runner') /\ runner'.at = "finalized" /\ runner'.bundle = b
    BY <1>3, <2>1 DEF Process
  <2>5. QED
    BY <1>3, <2>1, <2>3, <2>4 DEF RunnerHolds, Towards, Executed, ExecutedFor, Process
<1>9. ASSUME LoadAgain
      PROVE  /\ Process(runner)'
             /\ (runner.at = "loading" => runner.then \in {"loaded", "finalized"})'
             /\ RunnerHolds'
  <2>1. /\ Process(runner') /\ runner'.at = "loading" /\ runner'.then = "finalized"
        /\ runner'.bundle = runner.bundle /\ runner.at = "finalized"
        /\ UNCHANGED <<executed, artifact>>
    BY <1>3, <1>9, LoadingProcess DEF LoadAgain
  <2>2. QED
    BY <1>3, <2>1 DEF RunnerHolds, Towards, Executed, ExecutedFor, Process
<1>10. ASSUME Sign
       PROVE  /\ Process(runner)'
              /\ (runner.at = "loading" => runner.then \in {"loaded", "finalized"})'
              /\ RunnerHolds'
  <2>1. /\ Process(runner') /\ runner'.at = "idle" /\ runner.at = "finalized"
        /\ artifact'.bundle = runner.bundle /\ UNCHANGED executed
    BY <1>10, IdleProcess DEF Sign
  <2>2. QED
    BY <1>3, <2>1 DEF RunnerHolds, Towards, Executed, ExecutedFor, Process
<1>11. ASSUME Expire
       PROVE  /\ Process(runner)'
              /\ (runner.at = "loading" => runner.then \in {"loaded", "finalized"})'
              /\ RunnerHolds'
  BY <1>3, <1>11 DEF Expire, RunnerHolds, Towards, Executed, ExecutedFor, Process
<1> QED
  BY <1>4, <1>5, <1>6, <1>7, <1>8, <1>9, <1>10, <1>11

LEMMA CommandKeeps ==
    ASSUME Inductive,
           \/ \E d \in Domains : StartCommand(d)
           \/ CommandReads \/ StopCommand \/ Trust \/ Build \/ Refuse
    PROVE  Inductive'
<1>0. UNCHANGED <<runner, executed, artifact, overlay>>
  BY DEF StartCommand, CommandReads, StopCommand, Trust, Build, Refuse,
         othersOfCommand, runnerUnchanged, overlayUnchanged
<1>1. RunnerHolds' /\ OverlayHolds'
  BY <1>0 DEF Inductive, RunnerHolds, OverlayHolds, Towards, Executed, ExecutedFor
<1>2. SUFFICES /\ Process(command)'
               /\ (command.at = "loading" => command.then \in {"checking", "packing"})'
               /\ CommandHolds'
  BY <1>0, <1>1 DEF Inductive, Paths, Process
<1>3. Process(command) /\ CommandHolds
      /\ (command.at = "loading" => command.then \in {"checking", "packing"})
  BY DEF Inductive, Paths
<1> USE DEF CommandHolds, Towards, Executed, ExecutedFor
<1>4. ASSUME NEW d \in Domains, StartCommand(d)
      PROVE  /\ Process(command)'
             /\ (command.at = "loading" => command.then \in {"checking", "packing"})'
             /\ CommandHolds'
  <2> DEFINE p == [Idle EXCEPT !.begun = Len(project.decisions[d])]
  <2>1. Process(p)
    BY BegunProcess
  <2>2. command' = Loading(p, d, "checking") /\ UNCHANGED package
    BY <1>4 DEF StartCommand
  <2> HIDE DEF p
  <2>3. Process(command') /\ command'.at = "loading" /\ command'.then = "checking"
    BY <2>1, <2>2, LoadingProcess
  <2>4. QED
    BY <1>0, <1>3, <2>2, <2>3
<1>5. ASSUME CommandReads
      PROVE  /\ Process(command)'
             /\ (command.at = "loading" => command.then \in {"checking", "packing"})'
             /\ CommandHolds'
  <2>1. command.at = "loading" /\ command' = Loaded(command) /\ UNCHANGED package
    BY <1>5 DEF CommandReads
  <2>2. /\ Process(command') /\ command'.at \in {"loading", command.then}
        /\ command'.then = command.then /\ command'.bundle = command.bundle
        /\ command'.d = command.d
    BY <1>3, <2>1, ReadingProcess, Zenon
  <2>3. QED
    BY <1>0, <1>3, <2>1, <2>2
<1>6. ASSUME StopCommand
      PROVE  /\ Process(command)'
             /\ (command.at = "loading" => command.then \in {"checking", "packing"})'
             /\ CommandHolds'
  BY <1>0, <1>3, <1>6, IdleProcess DEF StopCommand
<1>7. ASSUME Trust
      PROVE  /\ Process(command)'
             /\ (command.at = "loading" => command.then \in {"checking", "packing"})'
             /\ CommandHolds'
  <2> DEFINE p == Trusting(command, artifact.bundle)
  <2>1. Process(p) /\ p.bundle = artifact.bundle
    BY <1>3, TrustingProcess
  <2>2. /\ command' = Loading(p, command.d, "packing") /\ UNCHANGED package
        /\ artifact # Nothing /\ artifact.bundle.d = command.d
    BY <1>7 DEF Trust, ArtifactFits
  <2> HIDE DEF p
  <2>3. /\ Process(command') /\ command'.at = "loading" /\ command'.then = "packing"
        /\ command'.d = command.d /\ command'.bundle = p.bundle
    BY <2>1, <2>2, LoadingProcess
  <2>4. Executed(artifact.bundle)
    BY <2>2 DEF Inductive, RunnerHolds
  <2>5. QED
    BY <1>0, <1>3, <2>1, <2>2, <2>3, <2>4
<1>8. ASSUME Build
      PROVE  /\ Process(command)'
             /\ (command.at = "loading" => command.then \in {"checking", "packing"})'
             /\ CommandHolds'
  <2> DEFINE b == command.bundle
             r == command.report
             d == command.d
             k == [Bundle(r, d) EXCEPT !.decision = Latest(r, d)]
  <2>1. /\ package' = k /\ command' = Idle /\ b = k /\ Executed(b)
    <3>1. command.at = "packing" /\ BundlesMatch(r, b) /\ package' = k /\ command' = Idle
      BY <1>8 DEF Build, Packable
    <3>2. Executed(b) /\ b.d = d
      BY <1>3, <3>1
    <3>3. b = k
      BY <3>1, <3>2 DEF BundlesMatch
    <3>4. QED
      BY <3>1, <3>2, <3>3
  <2> HIDE DEF k
  <2>2. QED
    BY <1>0, <2>1, IdleProcess
<1>9. ASSUME Refuse
      PROVE  /\ Process(command)'
             /\ (command.at = "loading" => command.then \in {"checking", "packing"})'
             /\ CommandHolds'
  <2>1. command' = [command EXCEPT !.at = "refused"] /\ UNCHANGED package
    BY <1>9 DEF Refuse
  <2>2. Process(command') /\ command'.at = "refused"
    BY <1>3, <2>1 DEF Process
  <2>3. QED
    BY <1>0, <1>3, <2>1, <2>2
<1> QED
  BY <1>4, <1>5, <1>6, <1>7, <1>8, <1>9

LEMMA OverlayKeeps ==
    ASSUME Inductive, Mount \/ Attach \/ StopOverlay
    PROVE  Inductive'
<1>0. UNCHANGED <<runner, executed, artifact, command, package>>
  BY DEF Mount, Attach, StopOverlay, othersOfOverlay, runnerUnchanged, commandUnchanged
<1>1. Paths' /\ RunnerHolds' /\ CommandHolds'
  BY <1>0 DEF Inductive, Paths, Process, RunnerHolds, CommandHolds, Towards, Executed, ExecutedFor
<1>2. OverlayHolds'
  BY <1>0 DEF Inductive, OverlayHolds, CommandHolds, Executed, ExecutedFor, Mount, Attach,
              StopOverlay, Detached
<1> QED
  BY <1>1, <1>2 DEF Inductive

LEMMA EditIsOutside ==
    Edit => UNCHANGED <<runner, executed, artifact, command, package, overlay>>
  BY DEF Edit, Accept, Reindex, EditContract, EditScenario, Decide, DraftRelease, Edited,
         runnerUnchanged, commandUnchanged, overlayUnchanged

LEMMA StepInductive == Inductive /\ [ReleaseNext]_releaseVars => Inductive'
<1> SUFFICES ASSUME Inductive, [ReleaseNext]_releaseVars PROVE Inductive'
  OBVIOUS
<1>1. CASE Edit
  BY <1>1, EditIsOutside, OutsideKeeps
<1>2. ASSUME NEW base \in Baselines, Upgrade(base) PROVE Inductive'
  BY <1>2, OutsideKeeps DEF Upgrade, othersOfOverlay, runnerUnchanged, commandUnchanged
<1>3. CASE UNCHANGED releaseVars
  BY <1>3, OutsideKeeps DEF releaseVars
<1> QED
  BY <1>1, <1>2, <1>3, RunnerKeeps, CommandKeeps, OverlayKeeps DEF ReleaseNext

LEMMA AlwaysInductive == ReleaseSpec => []Inductive
  BY InitInductive, StepInductive, PTL DEF ReleaseSpec

\* finalize_verified_usage_release, write_usage_verification_artifact and
\* build_usage_package: whatever is edited while they read, a package on disk holds
\* what one runner executed together, for any number of domains, edits and runs.
THEOREM PackagesWereExecuted == ReleaseSpec => []PackagedWasExecuted
<1>1. Inductive => PackagedWasExecuted
  BY DEF Inductive, CommandHolds, Executed, PackagedWasExecuted
<1> QED
  BY <1>1, AlwaysInductive, PTL

\* _assert_integrity of the overlay: what a client is told was executed against the
\* tools that the server lists when it is told, through every upgrade and rebuild.
THEOREM GuidanceIsForTheTools == ReleaseSpec => []GuidanceFitsTools
<1>1. Inductive => GuidanceFitsTools
  BY DEF Inductive, OverlayHolds, Executed, GuidanceFitsTools, Answers
<1> QED
  BY <1>1, AlwaysInductive, PTL

-----------------------------------------------------------------------------
(* Decisions                                                               *)

ContractStates == [base : Baselines, text : Texts]
DecisionStates == [accepted : BOOLEAN, contract : ContractStates \cup {Nothing}, revision : Nat]

\* Every domain has a decision, and the latest is numbered by their count.
Numbered(ds) ==
    /\ ds \in [Domains -> Seq(DecisionStates)]
    /\ \A d \in Domains : ds[d] # <<>> /\ Last(ds[d]).revision = Len(ds[d])

ProjectNumbered ==
    /\ project = [accepted |-> project.accepted, index |-> project.index,
                  contract |-> project.contract, scenario |-> project.scenario,
                  decisions |-> project.decisions, release |-> project.release]
    /\ project.accepted \in Baselines
    /\ project.contract \in [Domains -> ContractStates]
    /\ Numbered(project.decisions)

\* A command that has read the decisions of its domain has read as many as there
\* were when it was started, or more.
HasDecisions(p) == (p.at = "loading" /\ p.next > 5) \/ p.at \in {"checking", "packing"}

CommandNumbered ==
    command.at \in {"loading", "checking", "packing"} =>
        /\ command.d \in Domains
        /\ command.begun \in Nat /\ command.begun <= Len(project.decisions[command.d])
        /\ command.at = "loading" => command.next \in 1..6
        /\ DOMAIN command.report = Files
        /\ HasDecisions(command) => /\ Numbered(command.report.decisions)
                                    /\ command.begun <= Len(command.report.decisions[command.d])

Current == ProjectNumbered /\ CommandNumbered

LEMMA InitCurrent ==
    ASSUME ReleaseInit
    PROVE  Current
<1> DEFINE b == CHOOSE x \in Baselines : TRUE
           t == CHOOSE x \in Texts : TRUE
           c == Contract(b, t)
           d == Decision(TRUE, c, 1)
<1>1. b \in Baselines /\ t \in Texts
  BY ProjectsExist
<1> HIDE DEF b, t
<1>2. c \in ContractStates /\ d = [accepted |-> TRUE, contract |-> c, revision |-> 1]
  <2>1. c \in ContractStates
    BY <1>1 DEF Contract, ContractStates
  <2> HIDE DEF c
  <2>2. d = [accepted |-> TRUE, contract |-> c, revision |-> 1]
    BY DEF Decision
  <2>3. QED
    BY <2>1, <2>2
<1>3. project = InitialProject(b, t)
  BY DEF ReleaseInit, b, t
<1>4. /\ project = [accepted |-> project.accepted, index |-> project.index,
                    contract |-> project.contract, scenario |-> project.scenario,
                    decisions |-> project.decisions, release |-> project.release]
      /\ project.accepted = b /\ project.contract = [x \in Domains |-> c]
      /\ project.decisions = [x \in Domains |-> <<d>>]
  BY <1>3 DEF InitialProject
<1> HIDE DEF c, d
<1>5. d \in DecisionStates /\ d.revision = 1
  BY <1>2 DEF DecisionStates
<1>6. <<d>> \in Seq(DecisionStates) /\ <<d>> # <<>> /\ Last(<<d>>) = d /\ Len(<<d>>) = 1
  BY <1>5 DEF Last
<1>7. ProjectNumbered
  BY <1>1, <1>2, <1>4, <1>5, <1>6 DEF ProjectNumbered, Numbered
<1>8. CommandNumbered
  BY IdleProcess DEF ReleaseInit, CommandNumbered
<1> QED
  BY <1>7, <1>8 DEF Current

\* The author only adds decisions.
LEMMA EditCurrent ==
    ASSUME Current, Edit
    PROVE  Current'
<1>0. command' = command /\ ProjectNumbered /\ CommandNumbered
  BY EditIsOutside DEF Current
<1>1. ProjectNumbered' /\ \A d \in Domains : Len(project.decisions[d]) <= Len(project'.decisions[d])
  <2>1. \A d \in Domains : Len(project.decisions[d]) \in Nat
    BY <1>0 DEF ProjectNumbered, Numbered
  <2>2. ASSUME NEW base \in Baselines, Accept(base)
        PROVE  ProjectNumbered' /\ project'.decisions = project.decisions
    BY <1>0, <2>2 DEF Accept, Edited, ProjectNumbered
  <2>3. ASSUME NEW published \in SUBSET Domains, Reindex(published)
        PROVE  ProjectNumbered' /\ project'.decisions = project.decisions
    BY <1>0, <2>3 DEF Reindex, Edited, ProjectNumbered
  <2>4. ASSUME NEW d \in Domains, NEW text \in Texts, EditContract(d, text)
        PROVE  ProjectNumbered' /\ project'.decisions = project.decisions
    <3>1. Contract(project.accepted, text) \in ContractStates
      BY <1>0 DEF ProjectNumbered, Contract, ContractStates
    <3> DEFINE k == Contract(project.accepted, text)
    <3> HIDE DEF k
    <3>2. project' = [project EXCEPT !.contract[d] = k]
      BY <2>4 DEF EditContract, Edited, k
    <3>3. k \in ContractStates
      BY <3>1 DEF k
    <3>4. QED
      BY <1>0, <3>2, <3>3 DEF ProjectNumbered
  <2>5. ASSUME NEW d \in Domains, NEW text \in Texts, EditScenario(d, text)
        PROVE  ProjectNumbered' /\ project'.decisions = project.decisions
    BY <1>0, <2>5 DEF EditScenario, Edited, ProjectNumbered
  <2>6. ASSUME NEW d \in Domains, DraftRelease(d)
        PROVE  ProjectNumbered' /\ project'.decisions = project.decisions
    <3> DEFINE k == Release(project.accepted, project.contract[d], Latest(project, d))
    <3>1. project' = [project EXCEPT !.release[d] = k]
      BY <2>6 DEF DraftRelease, Edited
    <3> HIDE DEF k
    <3>2. QED
      BY <1>0, <3>1 DEF ProjectNumbered
  <2>7. ASSUME NEW d \in Domains, NEW accepted \in BOOLEAN, Decide(d, accepted)
        PROVE  /\ ProjectNumbered'
               /\ \A x \in Domains : Len(project.decisions[x]) <= Len(project'.decisions[x])
    <3> DEFINE ds == project.decisions[d]
               n == Len(ds) + 1
               x == Decision(accepted, project.contract[d], n)
    <3>1. ds \in Seq(DecisionStates) /\ Len(ds) \in Nat /\ n \in Nat
      BY <1>0 DEF ProjectNumbered, Numbered
    <3>2. project' = [project EXCEPT !.decisions[d] = Append(ds, x)]
      BY <2>7 DEF Decide, Edited
    <3>3. x \in DecisionStates /\ x.revision = n
      <4>1. project.contract[d] \in ContractStates
        BY <1>0 DEF ProjectNumbered
      <4>2. QED
        BY <3>1, <4>1 DEF Decision, DecisionStates
    <3> HIDE DEF x
    <3> DEFINE all == [project.decisions EXCEPT ![d] = Append(ds, x)]
    <3>4. /\ Append(ds, x) \in Seq(DecisionStates) /\ Len(Append(ds, x)) = n
          /\ Last(Append(ds, x)) = x /\ Append(ds, x) # <<>>
      BY <3>1, <3>3 DEF Last
    <3>5. Numbered(all) /\ \A y \in Domains : Len(project.decisions[y]) <= Len(all[y])
      BY <1>0, <2>1, <3>3, <3>4 DEF ProjectNumbered, Numbered
    <3>6. project' = [project EXCEPT !.decisions = all]
      BY <3>2
    <3> HIDE DEF all
    <3>7. project' = [accepted |-> project.accepted, index |-> project.index,
                      contract |-> project.contract, scenario |-> project.scenario,
                      decisions |-> all, release |-> project.release]
      BY <1>0, <3>6 DEF ProjectNumbered
    <3>8. QED
      BY <1>0, <3>5, <3>7 DEF ProjectNumbered
  <2>8. QED
    BY <2>1, <2>2, <2>3, <2>4, <2>5, <2>6, <2>7 DEF Edit
<1>2. CommandNumbered'
  <2> SUFFICES ASSUME command.at \in {"loading", "checking", "packing"}
               PROVE  command.begun <= Len(project'.decisions[command.d])
    BY <1>0 DEF CommandNumbered, HasDecisions
  <2>1. /\ command.d \in Domains /\ command.begun \in Nat
        /\ command.begun <= Len(project.decisions[command.d])
    BY <1>0 DEF CommandNumbered
  <2>2. Len(project.decisions[command.d]) \in Nat /\ Len(project'.decisions[command.d]) \in Nat
    BY <1>0, <1>1, <2>1 DEF ProjectNumbered, Numbered
  <2>3. Len(project.decisions[command.d]) <= Len(project'.decisions[command.d])
    BY <1>1, <2>1
  <2>4. QED
    BY <2>1, <2>2, <2>3
<1> QED
  BY <1>1, <1>2 DEF Current

LEMMA CommandCurrent ==
    ASSUME Inductive, Current,
           \/ \E d \in Domains : StartCommand(d)
           \/ CommandReads \/ StopCommand \/ Trust \/ Build \/ Refuse
    PROVE  Current'
<1>0. Process(command) /\ ProjectNumbered /\ CommandNumbered /\ UNCHANGED project
  BY DEF Inductive, Paths, Current, StartCommand, CommandReads, StopCommand, Trust, Build,
         Refuse, othersOfCommand, projectUnchanged
<1>1. ProjectNumbered'
  BY <1>0 DEF ProjectNumbered
<1>2. \A d \in Domains : Len(project.decisions[d]) \in Nat
  BY <1>0 DEF ProjectNumbered, Numbered
<1>3. ASSUME NEW d \in Domains, StartCommand(d) PROVE CommandNumbered'
  <2> DEFINE n == Len(project.decisions[d])
             p == [Idle EXCEPT !.begun = n]
  <2>1. Process(p) /\ p.begun = n
    BY BegunProcess
  <2>2. command' = Loading(p, d, "checking")
    BY <1>3 DEF StartCommand
  <2>3. n \in Nat
    BY <1>2
  <2> HIDE DEF p
  <2>4. /\ command'.at = "loading" /\ command'.d = d /\ command'.next = 1
        /\ command'.begun = n /\ DOMAIN command'.report = Files
    BY <2>1, <2>2, LoadingProcess
  <2>5. QED
    BY <1>0, <2>3, <2>4 DEF CommandNumbered, HasDecisions
<1>4. ASSUME CommandReads PROVE CommandNumbered'
  <2> DEFINE f == LoadOrder[command.next]
  <2>1. command.at = "loading" /\ command' = Loaded(command)
    BY <1>4 DEF CommandReads
  <2>2. /\ command'.then = command.then /\ command'.d = command.d
        /\ command'.begun = command.begun /\ command'.next = command.next + 1
        /\ command'.at = IF command.next = Len(LoadOrder) THEN command.then ELSE "loading"
        /\ command'.report = [command.report EXCEPT ![f] = project[f]]
    BY <1>0, <2>1, LoadedProcess
  <2>3. /\ command.d \in Domains /\ command.begun \in Nat
        /\ command.begun <= Len(project.decisions[command.d])
        /\ command.next \in 1..6 /\ DOMAIN command.report = Files
    BY <1>0, <2>1 DEF CommandNumbered
  <2>4. DOMAIN command'.report = Files /\ Len(LoadOrder) = 6
    <3>1. DOMAIN command'.report = DOMAIN command.report
      BY <2>2
    <3>2. Len(LoadOrder) = 6
      BY DEF LoadOrder
    <3>3. QED
      BY <2>3, <3>1, <3>2
  <2>5. command'.at = "loading" => command'.next \in 1..6
    BY <2>1, <2>2, <2>3, <2>4 DEF Inductive, Paths
  <2>6. ASSUME HasDecisions(command')
        PROVE  /\ Numbered(command'.report.decisions)
               /\ command.begun <= Len(command'.report.decisions[command.d])
    <3>1. command.next = 5 \/ command.next = 6
      BY <2>2, <2>3, <2>4, <2>6 DEF HasDecisions, Inductive, Paths
    <3>2. CASE command.next = 5
      <4>1. f = "decisions" /\ "decisions" \in Files
        BY <3>2 DEF LoadOrder, Files
      <4>2. command'.report.decisions = project.decisions
        BY <2>2, <2>3, <4>1
      <4>3. QED
        BY <1>0, <2>3, <4>2 DEF ProjectNumbered
    <3>3. CASE command.next = 6
      <4>1. f = "release" /\ "decisions" \in Files
        BY <3>3 DEF LoadOrder, Files
      <4>2. command'.report.decisions = command.report.decisions
        BY <2>2, <2>3, <4>1
      <4>3. QED
        BY <1>0, <2>1, <3>3, <4>2 DEF CommandNumbered, HasDecisions
    <3>4. QED
      BY <3>1, <3>2, <3>3
  <2>7. QED
    BY <1>0, <2>2, <2>3, <2>4, <2>5, <2>6 DEF CommandNumbered
<1>5. ASSUME StopCommand \/ Build \/ Refuse PROVE CommandNumbered'
  <2>1. command'.at \in {"idle", "refused"}
    BY <1>0, <1>5, IdleProcess DEF StopCommand, Build, Refuse, Process
  <2>2. QED
    BY <2>1 DEF CommandNumbered
<1>6. ASSUME Trust PROVE CommandNumbered'
  <2> DEFINE p == Trusting(command, artifact.bundle)
  <2>1. Process(p) /\ p.begun = command.begun
    BY <1>0, TrustingProcess
  <2>2. command' = Loading(p, command.d, "packing") /\ command.at = "checking"
    BY <1>6 DEF Trust
  <2> HIDE DEF p
  <2>3. /\ command'.at = "loading" /\ command'.d = command.d /\ command'.next = 1
        /\ command'.begun = command.begun /\ DOMAIN command'.report = Files
    BY <2>1, <2>2, LoadingProcess
  <2>4. QED
    BY <1>0, <2>2, <2>3 DEF CommandNumbered, HasDecisions
<1> QED
  BY <1>1, <1>3, <1>4, <1>5, <1>6 DEF Current

LEMMA StepCurrent == Inductive /\ Current /\ [ReleaseNext]_releaseVars => Current'
<1> SUFFICES ASSUME Inductive, Current, [ReleaseNext]_releaseVars PROVE Current'
  OBVIOUS
<1>1. CASE UNCHANGED <<project, command>>
  BY <1>1 DEF Current, ProjectNumbered, CommandNumbered, HasDecisions
<1>2. CASE Edit
  BY <1>2, EditCurrent
<1>3. ASSUME \/ \E d \in Domains : StartRunner(d)
             \/ RunnerReads \/ StopRunner \/ Execute \/ Finalize \/ LoadAgain \/ Sign \/ Expire
      PROVE  UNCHANGED <<project, command>>
  BY <1>3 DEF StartRunner, RunnerReads, StopRunner, Execute, Finalize, LoadAgain, Sign, Expire,
              othersOfRunner, projectUnchanged, commandUnchanged
<1>4. ASSUME Mount \/ Attach \/ StopOverlay \/ \E base \in Baselines : Upgrade(base)
      PROVE  UNCHANGED <<project, command>>
  BY <1>4 DEF Mount, Attach, StopOverlay, Upgrade, othersOfOverlay, projectUnchanged,
              commandUnchanged
<1>5. CASE UNCHANGED releaseVars
  BY <1>1, <1>5 DEF releaseVars
<1> QED
  BY <1>1, <1>2, <1>3, <1>4, <1>5, CommandCurrent DEF ReleaseNext

\* A package is written by a build, with the latest decision of its second load.
LEMMA OnlyBuildWrites ==
    ASSUME [ReleaseNext]_releaseVars, package' # package
    PROVE  Build
  BY DEF ReleaseNext, releaseVars, Edit, Accept, Reindex, EditContract, EditScenario, Decide, DraftRelease,
         Edited, StartRunner, RunnerReads, StopRunner, Execute, Finalize, LoadAgain, Sign, Expire,
         StartCommand, CommandReads, StopCommand, Trust, Refuse, Mount, Attach, StopOverlay,
         Upgrade, othersOfRunner, othersOfOverlay, commandUnchanged

LEMMA BuildIsCurrent ==
    ASSUME Inductive, Current, Build
    PROVE  package'.decision.accepted /\ package'.decision.revision >= command.begun
<1> DEFINE r == command.report
           d == command.d
<1>1. /\ command.at = "packing" /\ ProjectOk(r) /\ BundlesMatch(r, command.bundle)
      /\ package'.decision = Latest(r, d)
  BY DEF Build, Packable, Bundle
<1>2. command.bundle.d = d
  BY <1>1 DEF Inductive, CommandHolds, Towards
<1>3. r.index.published = {d}
  BY <1>1, <1>2 DEF BundlesMatch
<1>4. Latest(r, d).accepted
  BY <1>1, <1>3 DEF ProjectOk, PublishedOk
<1>5. Latest(r, d).revision >= command.begun
  <2>1. /\ d \in Domains /\ command.begun \in Nat /\ Numbered(r.decisions)
        /\ command.begun <= Len(r.decisions[d])
    BY <1>1 DEF Current, CommandNumbered, HasDecisions, Inductive, CommandHolds, Towards
  <2>2. Latest(r, d).revision = Len(r.decisions[d]) /\ Len(r.decisions[d]) \in Nat
    BY <2>1 DEF Numbered, Latest
  <2>3. QED
    BY <2>1, <2>2
<1> QED
  BY <1>1, <1>4, <1>5

\* _manifest_from_report binds the latest decision: a package never carries one that
\* had been withdrawn or superseded when its command was started, however many
\* decisions are made while the command loads the project twice.
THEOREM DecisionsAreCurrent == ReleaseSpec => DecisionIsCurrent
<1> DEFINE A == package' # package => /\ package'.decision.accepted
                                      /\ package'.decision.revision >= command.begun
<1>1. ReleaseInit => Current
  BY InitCurrent
<1>2. ReleaseSpec => [](Inductive /\ Current)
  BY <1>1, InitInductive, StepInductive, StepCurrent, PTL DEF ReleaseSpec
<1>3. Inductive /\ Current /\ [ReleaseNext]_releaseVars => [A]_releaseVars
  BY OnlyBuildWrites, BuildIsCurrent
<1> QED
  BY <1>2, <1>3, PTL DEF ReleaseSpec, DecisionIsCurrent

=============================================================================
