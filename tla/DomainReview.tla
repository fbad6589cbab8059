----------------------------- MODULE DomainReview -----------------------------
(***************************************************************************)
(* The guided discovery of domains (acc_core/domains, acc_core/cli/        *)
(* domains.py and the domain part of acc_core/validation/project.py): the  *)
(* documents of a project that its author keeps editing, what makes them   *)
(* valid, what `acc domains status` recommends, and `acc domains impact    *)
(* --write`, which turns changed evidence into change requests.            *)
(*                                                                         *)
(* Commands are separate processes without a lock.  Each first validates   *)
(* the whole project, taken here as read at once, and then works on that   *)
(* report while others go on.  A digest is the value it is the digest of;  *)
(* every domain has one candidate and one registered piece of evidence.    *)
(***************************************************************************)
EXTENDS DependencyGraph

CONSTANTS
    NReviewed,    \* domain ids are 1..NReviewed, in their sorted order
    Commands,     \* `acc domains impact --write` processes
    MaxRevision,  \* bound on the revisions of a decision
    MaxSteps,     \* bound on the author's edits and the commands started
    Statuses,     \* statuses an edit gives a decision or an entry
    Unregistered  \* domains with an operation whose evidence is not under evidence/

ASSUME ReviewersAreFinite == NReviewed \in Nat /\ IsFiniteSet(Commands)

ReviewedIds == 1 .. NReviewed
None == [none |-> TRUE]
Revisions == 1 .. MaxRevision

\* Digests of a piece of evidence: those a change names as old and new, and another one.
Old     == 0
New     == 1
Digests == 0 .. 2

VARIABLES
    needs,     \* dependency_domain_ids in domain-map.yaml
    scanned,   \* candidates closed by a deep scan: the content of the ledger
    digests,   \* digest of every domain's evidence under evidence/
    files,     \* domain-decisions/, by domain and revision
    map,       \* status and active_decision_ref of every domain in the map
    requests,  \* domain-change-requests/
    strays,    \* temporary files in that directory
    writer,    \* what every command is doing
    edited     \* number of edits made

documents == <<needs, scanned, digests, files, map, requests, strays>>
reviewVars == <<documents, writer, edited>>

-----------------------------------------------------------------------------
(* Validation                                                              *)

\* A reference to a decision is exact when the file still has the digest it names; the
\* digest leaves out the confirmation, which every completed decision has.
Ref(d, r) == [revision |-> r, digest |-> files[d][r]]
Exact(d, ref) == ref # None /\ ref.revision \in Revisions /\ files[d][ref.revision] = ref.digest

\* _active_decisions
Active(d) == IF Exact(d, map[d].active) THEN map[d].active.digest ELSE None

\* _verified_completed_domain_ids
Verified(d) == Active(d) # None /\ Active(d).status = "completed"

\* The dependencies a decision names: those of the map, each by its active, completed
\* decision.
BindsDependencies(d, decision) ==
    /\ DOMAIN decision.deps = needs[d]
    /\ \A x \in needs[d] :
          /\ Exact(x, decision.deps[x])
          /\ decision.deps[x] = map[x].active
          /\ decision.deps[x].digest.status = "completed"

\* Every decision on file, of whatever revision and status, binds the present ledger,
\* evidence and dependencies.
DecisionValid(d, decision) ==
    /\ decision.ledger = scanned
    /\ decision.evidence = digests[d]
    /\ BindsDependencies(d, decision)

\* The entry agrees with the decision it refers to, and that is not superseded.
EntryValid(d) ==
    map[d].active = None \/
    /\ Exact(d, map[d].active)
    /\ map[d].status = "completed" => map[d].active.digest.status = "completed"
    /\ map[d].status = "stale" => map[d].active.digest.status \in {"completed", "stale"}
    /\ \A r \in Revisions :
          r > map[d].active.revision /\ files[d][r] # None => files[d][r].status # "completed"

\* The decision that build_change_request recommends: the next revision, stale.
Recommended(q) ==
    [revision |-> q.previous.revision + 1, digest |-> [q.previous.digest EXCEPT !.status = "stale"]]

\* A change request refers to the decision it wants changed, which is the active one
\* until the request is dealt with, to the decision that took its place once it is
\* applied, and to registered evidence with the digest it had or got.
RequestValid(q) ==
    /\ Exact(q.domain, q.previous)
    /\ q.status \in {"proposed", "confirmed"} => q.previous = map[q.domain].active
    /\ q.status = "applied" => Exact(q.domain, Recommended(q))
    /\ q.change.registered /\ digests[q.change.of] \in {Old, New}

Written(d) == {r \in Revisions : files[d][r] # None}
LatestRevision(d)  == CHOOSE r \in Written(d) : \A s \in Written(d) : s <= r

\* The decision that analyze_domain_readiness looks at.
Considered(d) ==
    IF map[d].active # None THEN Active(d)
    ELSE IF Written(d) = {} THEN None ELSE files[d][LatestRevision(d)]

\* _dependency_readiness: a dependency is resolved by its completed active decision, which
\* the decision of the dependent, if there is one, must name.
Resolved(d, x) ==
    /\ Verified(x)
    /\ Considered(d) # None =>
          x \in DOMAIN Considered(d).deps /\ Considered(d).deps[x] = map[x].active

\* analyze_domain_readiness, the diagnostics that are errors.
Ready(d) ==
    /\ \A x \in needs[d] : Resolved(d, x)
    /\ Considered(d) # None => (Considered(d).accepted => d \in scanned) /\ Considered(d).ledger = scanned

\* What validate_project demands of the documents themselves.
DocumentsValid ==
    /\ \A d \in ReviewedIds : \A r \in Written(d) : DecisionValid(d, files[d][r])
    /\ \A d \in ReviewedIds : EntryValid(d)
    /\ \A q \in requests : RequestValid(q)
    /\ strays = 0

\* report.ok: _document_paths refuses an unknown file, and readiness adds its errors.
Valid == DocumentsValid /\ \A d \in ReviewedIds : Ready(d)

-----------------------------------------------------------------------------
(* acc domains status                                                      *)

\* The domains it may recommend, and whether it answers at all.
Selectable == {d \in ReviewedIds : ~Verified(d) /\ \A x \in needs[d] : Verified(x)}
StatusAnswers == Valid

-----------------------------------------------------------------------------
(* The author                                                              *)

Undecided == [r \in Revisions |-> None]

\* A global scan has just made the map and the ledger, or every domain is completed.
ReviewInit ==
    /\ needs \in [ReviewedIds -> SUBSET ReviewedIds] /\ Acyclic(needs)
    /\ digests = [d \in ReviewedIds |-> Old]
    /\ requests = {} /\ strays = 0 /\ edited = 0
    /\ writer = [c \in Commands |-> [at |-> "idle"]]
    /\ \/ /\ scanned = {}
          /\ files = [d \in ReviewedIds |-> Undecided]
          /\ map = [d \in ReviewedIds |-> [status |-> "in_progress", active |-> None]]
       \/ LET First[d \in ReviewedIds] ==
                  [status |-> "completed", accepted |-> TRUE, ledger |-> ReviewedIds, evidence |-> Old,
                   deps |-> [x \in needs[d] |-> [revision |-> 1, digest |-> First[x]]]]
          IN  /\ scanned = ReviewedIds
              /\ files = [d \in ReviewedIds |-> [Undecided EXCEPT ![1] = First[d]]]
              /\ map = [d \in ReviewedIds |-> [status |-> "completed",
                                            active |-> [revision |-> 1, digest |-> First[d]]]]

Started == {c \in Commands : writer[c].at # "idle"}
WithinBound == edited + Cardinality(Started) < MaxSteps

AuthorEdits == WithinBound /\ edited' = edited + 1 /\ UNCHANGED <<needs, writer>>

\* The deep scan of a domain closes its candidate, in the ledger of all domains.
Scan(d) ==
    /\ AuthorEdits /\ d \notin scanned
    /\ scanned' = scanned \cup {d}
    /\ UNCHANGED <<digests, files, map, requests, strays>>

UpdateEvidence(d, digest) ==
    /\ AuthorEdits /\ digest # digests[d]
    /\ digests' = [digests EXCEPT ![d] = digest]
    /\ UNCHANGED <<scanned, files, map, requests, strays>>

\* The author writes a next revision, or writes one again, from what there is.
WriteDecision(d, r, status, accepted) ==
    /\ AuthorEdits /\ \A s \in Revisions : s < r => files[d][s] # None
    /\ files' = [files EXCEPT ![d][r] =
           [status |-> status, accepted |-> accepted, ledger |-> scanned, evidence |-> digests[d],
            deps |-> [x \in {y \in needs[d] : map[y].active # None} |-> map[x].active]]]
    /\ UNCHANGED <<scanned, digests, map, requests, strays>>

Activate(d, r, status) ==
    /\ AuthorEdits /\ files[d][r] # None
    /\ map' = [map EXCEPT ![d] = [status |-> status, active |-> Ref(d, r)]]
    /\ UNCHANGED <<scanned, digests, files, requests, strays>>

\* A proposed request is confirmed, or a request is superseded.
Settle(q, status) ==
    /\ AuthorEdits /\ q.status \in {"proposed", "confirmed"}
    /\ status = "confirmed" => q.status = "proposed"
    /\ requests' = (requests \ {q}) \cup {[q EXCEPT !.status = status]}
    /\ UNCHANGED <<scanned, digests, files, map, strays>>

\* A confirmed request is applied, and the decision it recommends written.
Apply(q) ==
    /\ AuthorEdits /\ q.status = "confirmed" /\ Recommended(q).revision \in Revisions
    /\ files' = [files EXCEPT ![q.domain][Recommended(q).revision] = Recommended(q).digest]
    /\ requests' = (requests \ {q}) \cup {[q EXCEPT !.status = "applied"]}
    /\ UNCHANGED <<scanned, digests, map, strays>>

\* The author removes temporary files that no command is using.
Sweep ==
    /\ AuthorEdits /\ strays > 0 /\ \A c \in Commands : writer[c].at # "link"
    /\ strays' = 0
    /\ UNCHANGED <<scanned, digests, files, map, requests>>

-----------------------------------------------------------------------------
(* acc domains impact --write                                              *)

\* A change of one piece of evidence: of a registered one, or of the one that only an
\* operation carries.
Changes == [of : ReviewedIds, registered : BOOLEAN]

\* The digest by which the change is recognised, in the evidence graph of the report.
Known(e) ==
    IF e.registered THEN digests[e.of] \in {Old, New}
    ELSE e.of \in Unregistered /\ Active(e.of) # None /\ Active(e.of).accepted

\* A faulty variant: the request is about the latest decision, as `show` reports it.
ProposalsToLatest(e) ==
    {[domain |-> d, previous |-> Ref(d, LatestRevision(d)), change |-> e, status |-> "proposed"] :
        d \in {x \in ReviewedIds : Known(e) /\ e.of \in Above(needs, x) \cup {x} /\ Active(x) # None}}

\* analyze_project_domain_impact and build_change_request: a request for every affected
\* domain that has an active decision.
Proposals(e) ==
    {[domain |-> d, previous |-> map[d].active, change |-> e, status |-> "proposed"] :
        d \in {x \in ReviewedIds : Known(e) /\ e.of \in Above(needs, x) \cup {x} /\ Active(x) # None}}

\* _domain_report and the analysis.  An invalid project is refused.
Start(c, e) ==
    /\ writer[c].at = "idle" /\ WithinBound
    /\ writer' = [writer EXCEPT ![c] =
           IF Valid THEN [at |-> "open", todo |-> Proposals(e), since |-> edited]
           ELSE [at |-> "refused"]]
    /\ UNCHANGED <<documents, edited>>

\* _write_change_requests takes the requests in the order of the domains.
Current(c) == CHOOSE q \in writer[c].todo : \A p \in writer[c].todo : q.domain <= p.domain

\* What the target file of a request holds: the file is named after the request's id,
\* which covers all of it but its status.
OnFile(q) == {p \in requests : [p EXCEPT !.status = q.status] = q}

Stop(c, how) == writer' = [writer EXCEPT ![c] = [at |-> how, since |-> @.since]]
Pass(c)      == writer' = [writer EXCEPT ![c] = [at |-> "open", todo |-> @.todo \ {Current(c)}, since |-> @.since]]

Writing(c) == writer[c].at = "open" /\ writer[c].todo # {}

\* The target exists: it must hold the same request.
Found(c) ==
    /\ Writing(c) /\ OnFile(Current(c)) # {}
    /\ IF OnFile(Current(c)) = {Current(c)} THEN Pass(c) ELSE Stop(c, "failed")
    /\ UNCHANGED <<documents, edited>>

\* A temporary file takes the request.
Open(c) ==
    /\ Writing(c) /\ OnFile(Current(c)) = {}
    /\ writer' = [writer EXCEPT ![c] = [at |-> "link", todo |-> @.todo, since |-> @.since]]
    /\ strays' = strays + 1
    /\ UNCHANGED <<needs, scanned, digests, files, map, requests, edited>>

\* Writing it fails: temporary_path is not set yet, and nothing removes the file.
OpenFails(c) ==
    /\ Writing(c) /\ OnFile(Current(c)) = {}
    /\ Stop(c, "failed")
    /\ strays' = strays + 1
    /\ UNCHANGED <<needs, scanned, digests, files, map, requests, edited>>

\* A faulty variant: os.replace.
Replaced(q) == (requests \ OnFile(q)) \cup {q}

\* os.link leaves a file alone that is there already.
Linked(q) == IF OnFile(q) = {} THEN requests \cup {q} ELSE requests

\* The file gets its name, unless another command or the author was first with another
\* content, and the temporary one goes.
Link(c) ==
    /\ writer[c].at = "link"
    /\ requests' = Linked(Current(c))
    /\ IF OnFile(Current(c)) \subseteq {Current(c)} THEN Pass(c) ELSE Stop(c, "failed")
    /\ strays' = strays - 1
    /\ UNCHANGED <<needs, scanned, digests, files, map, edited>>

Report(c) ==
    /\ writer[c].at = "open" /\ writer[c].todo = {}
    /\ Stop(c, "done")
    /\ UNCHANGED <<documents, edited>>

\* The process is killed.
Kill(c) ==
    /\ writer[c].at \in {"open", "link"}
    /\ Stop(c, "killed")
    /\ UNCHANGED <<documents, edited>>

Rest == UNCHANGED reviewVars

ReviewNext ==
    \/ \E d \in ReviewedIds :
          \/ Scan(d) \/ \E g \in Digests : UpdateEvidence(d, g)
          \/ \E r \in Revisions :
                \/ \E s \in Statuses \cap {"ready_for_review", "completed", "stale"}, y \in BOOLEAN : WriteDecision(d, r, s, y)
                \/ \E s \in Statuses \cap {"in_progress", "completed", "stale"} : Activate(d, r, s)
    \/ \E q \in requests : Apply(q) \/ \E s \in {"confirmed", "superseded"} : Settle(q, s)
    \/ Sweep
    \/ \E c \in Commands :
          \/ \E e \in Changes : Start(c, e)
          \/ Found(c) \/ Open(c) \/ OpenFails(c) \/ Link(c) \/ Report(c) \/ Kill(c)
    \/ Rest

ReviewSpec == ReviewInit /\ [][ReviewNext]_reviewVars

-----------------------------------------------------------------------------
(* Properties                                                              *)

Undisturbed(c) == writer[c].at = "done" /\ writer[c].since = edited

\* A command that runs to its end leaves the project it found valid as valid as it was,
\* whatever it wrote: the requests that the analysis derives satisfy the validation of
\* requests, and no temporary file stays.  The exception is evidence that only an
\* operation carries: the analysis follows it, the validation does not know it.
WriteKeepsValid ==
    /\ \E c \in Commands : writer[c].at = "done"
    /\ \A c \in Commands : writer[c].at \in {"idle", "refused"} \/ Undisturbed(c)
    => /\ \A q \in requests : q.change.registered => RequestValid(q)
       /\ (\A q \in requests : q.change.registered) => Valid

SettledRemain ==
    \A q \in requests : \E p \in requests' :
        /\ [p EXCEPT !.status = q.status] = q
        /\ q.status # "proposed" => p.status # "proposed"

\* A request that somebody dealt with is never proposed again, whichever commands run.
SettledStaysSettled == [][SettledRemain]_reviewVars

\* What adr/008-ai-domain-guided-discovery.md says of the order of the domains: when
\* every document is in order and a domain has all its dependencies completed, the
\* command recommends it.
ReadyIsRecommended ==
    /\ DocumentsValid /\ \A d \in ReviewedIds : Considered(d) # None => Ready(d)
    /\ Selectable # {}
    => StatusAnswers
=============================================================================
