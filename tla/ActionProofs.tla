---------------------------- MODULE ActionProofs ----------------------------
(***************************************************************************)
(* Theorems about ActionCoordinator, for every number of coroutines,       *)
(* principals, handles and approvals, every expiry and every set of faults:*)
(* that a mutation is sent once; then that a success is real, that there   *)
(* is one result and only the owner is told it, that approval and required *)
(* audit come before the mutation; and that it implements ActionContract.  *)
(* The invariant `Known` says what every coroutine knows at its await and  *)
(* what never stops being true, and `HolderInv` that the claim on a row    *)
(* has one holder, whose outcome he writes or a write that he abandoned.   *)
(***************************************************************************)
EXTENDS ActionRefinement, TLAPS

\* A coroutine knows its principal from its first step and its handle from the
\* step after create(), or from the call that passed it.
HandleFree == {"idle", "p_audit", "p_preview", "p_create"}

TaskOK ==
    \A t \in Tasks :
        /\ task[t].at # "idle" => task[t].who \in Principals
        /\ task[t].at \notin HandleFree => task[t].act \in Actions
        /\ task[t].at \in ApproveSteps => task[t].key \in Grants

Typed == TypeOK /\ TaskOK

TasksOK == task \in [Tasks -> TaskStates] /\ TaskOK

-----------------------------------------------------------------------------
(* Moving a task keeps the tasks well typed *)

LEMMA GotoTyped ==
    ASSUME TasksOK, NEW t \in Tasks, NEW step \in Steps \ {"idle"}, Goto(t, step),
           task[t].at # "idle",
           step \notin HandleFree => task[t].act \in Actions,
           step \in ApproveSteps => task[t].key \in Grants
    PROVE  TasksOK'
BY DEF TasksOK, TaskOK, TaskStates, Goto

LEMMA GotoWithTyped ==
    ASSUME TasksOK, NEW t \in Tasks, NEW step \in Steps \ {"idle"},
           NEW answer \in Answers, GotoWith(t, step, answer),
           task[t].at # "idle",
           step \notin HandleFree => task[t].act \in Actions,
           step \in ApproveSteps => task[t].key \in Grants
    PROVE  TasksOK'
BY DEF TasksOK, TaskOK, TaskStates, GotoWith

LEMMA ReturnTyped ==
    ASSUME TasksOK, NEW t \in Tasks, Return(t)
    PROVE  TasksOK'
BY DEF TasksOK, TaskOK, TaskStates, Return, IdleTask, Steps, HandleFree, Answers,
       ApproveSteps

-----------------------------------------------------------------------------
(* What a step may do to the rows *)

\* Every step leaves the rows alone, expires one, inserts one after the sweep,
\* or swaps one along the table.
RowStep ==
    \/ UNCHANGED rowVars
    \/ \E a \in Actions :
         /\ status[a] # "absent" /\ Overdue(a)
         /\ status' = [status EXCEPT ![a] = "expired"]
         /\ UNCHANGED <<owner, expires, sealed, result>>
    \/ \E a \in Actions, p \in Principals, terminal \in BOOLEAN : InsertRow(a, p, terminal)
    \/ \E a \in Actions, from \in Statuses, to \in Statuses, answer \in Answers :
         Swap(a, from, to, answer)

LEMMA ReadsRows ==
    ASSUME NEW t, Reads(t)
    PROVE  RowStep /\ UNCHANGED late
BY DEF Reads, RowStep, storeVars

LEMMA RefusedRows ==
    ASSUME NEW t, task[t].act \in Actions, ReadRefused(t)
    PROVE  RowStep /\ UNCHANGED late
BY DEF ReadRefused, ReadExpires, BoundTo, RowStep, storeVars

LEMMA WritesRows ==
    ASSUME NEW t, task[t].act \in Actions,
           NEW from \in Statuses, NEW to \in Statuses, NEW answer \in Answers,
           Writes(t, from, to, answer)
    PROVE  RowStep /\ UNCHANGED late
BY DEF Writes, RowStep

LEMMA WriteRefusedRows ==
    ASSUME NEW t, task[t].act \in Actions, NEW from, WriteRefused(t, from)
    PROVE  RowStep /\ UNCHANGED late
BY RefusedRows DEF WriteRefused, Conflicts, RowStep, storeVars

LEMMA RowStepTyped ==
    ASSUME RowsOK, now \in Nat, RowStep
    PROVE  RowsOK'
<1> USE DEF RowsOK
<1>1. CASE UNCHANGED rowVars
  BY <1>1 DEF rowVars
<1>2. ASSUME NEW a \in Actions,
             status' = [status EXCEPT ![a] = "expired"],
             UNCHANGED <<owner, expires, sealed, result>>
      PROVE  RowsOK'
  BY <1>2 DEF Statuses
<1>3. ASSUME NEW a \in Actions, NEW p \in Principals, NEW terminal \in BOOLEAN,
             InsertRow(a, p, terminal)
      PROVE  RowsOK'
  BY <1>3, ConstantsOK DEF InsertRow, AfterSweep, Statuses
<1>4. ASSUME NEW a \in Actions, NEW from \in Statuses, NEW to \in Statuses,
             NEW answer \in Answers, Swap(a, from, to, answer)
      PROVE  RowsOK'
  BY <1>4 DEF Swap
<1> QED
  BY <1>1, <1>2, <1>3, <1>4 DEF RowStep

-----------------------------------------------------------------------------
(* Every step is a RowStep and keeps the state well typed *)

\* An action that only calls the store and moves its task.
LEMMA StoreCallTyped ==
    ASSUME Typed, RowStep, TasksOK',
           UNCHANGED <<late, now, grant, sourceVars, journal, clientVars>>
    PROVE  RowStep /\ Typed'
BY RowStepTyped DEF Typed, TypeOK, TasksOK, TaskOK, sourceVars, clientVars

\* An action that leaves the rows alone.
LEMMA RowsAlone == ASSUME UNCHANGED rowVars PROVE RowStep
BY DEF RowStep

LEMMA PrepareTyped ==
    ASSUME Typed, NEW t \in Tasks, Prepare(t)
    PROVE  RowStep /\ Typed'
<1> USE DEF Steps, PrepareSteps, ApproveSteps, HandleFree
<1>0. TasksOK /\ RowsOK
  BY DEF Typed, TypeOK, TasksOK
<1>1. CASE PrepareAudit(t)
  <2>1. TasksOK'
    BY <1>0, <1>1, GotoTyped, ReturnTyped DEF PrepareAudit, AuditStarts
  <2>2. journal' = journal
    BY <1>1 DEF PrepareAudit, AuditStarts
  <2>3. QED
    BY <1>1, <2>1, <2>2, RowsAlone, StoreCallTyped DEF PrepareAudit, storeVars, rowVars
<1>2. CASE PreparePreview(t)
  <2>1. TasksOK'
    BY <1>0, <1>2, GotoTyped, ReturnTyped DEF PreparePreview
  <2>2. QED
    BY <1>2, <2>1, RowsAlone, StoreCallTyped DEF PreparePreview, storeVars
<1>3. CASE PrepareCreateRefused(t)
  <2>1. TasksOK'
    BY <1>0, <1>3, ReturnTyped DEF PrepareCreateRefused
  <2>2. QED
    BY <1>3, <2>1, RowsAlone, StoreCallTyped DEF PrepareCreateRefused, storeVars
<1>4. CASE PrepareClear(t)
  <2>1. TasksOK'
    BY <1>0, <1>4, GotoTyped, ReturnTyped DEF PrepareClear, TasksOK, TaskOK
  <2>2. RowStep /\ UNCHANGED late
    BY <1>0, <1>4, WritesRows, WriteRefusedRows
    DEF PrepareClear, TasksOK, TaskOK, Statuses, Answers
  <2>3. QED
    BY <1>4, <2>1, <2>2, StoreCallTyped DEF PrepareClear
<1>5. CASE PrepareReport(t)
  <2>1. TasksOK'
    BY <1>0, <1>5, ReturnTyped DEF PrepareReport
  <2>2. task[t].act \in Actions
    BY <1>0, <1>5 DEF PrepareReport, TasksOK, TaskOK
  <2>3. known' \subseteq Actions
    BY <1>5, <2>2 DEF PrepareReport, Typed, TypeOK
  <2>4. QED
    BY <1>0, <1>5, <2>1, <2>3, RowsAlone, RowStepTyped
    DEF PrepareReport, Typed, TypeOK, TasksOK, storeVars, sourceVars
<1>6. ASSUME NEW a \in Actions, PrepareCreate(t, a)
      PROVE  RowStep /\ Typed'
  <2>1. task[t].who \in Principals
    BY <1>0, <1>6 DEF PrepareCreate, TasksOK, TaskOK
  <2>2. TasksOK'
    BY <1>0, <1>6, <2>1 DEF PrepareCreate, TasksOK, TaskOK, TaskStates
  <2>3. RowStep /\ UNCHANGED late
    BY <1>6, <2>1 DEF PrepareCreate, RowStep, InsertRow
  <2>4. QED
    BY <1>6, <2>2, <2>3, StoreCallTyped DEF PrepareCreate
<1> QED
  BY <1>1, <1>2, <1>3, <1>4, <1>5, <1>6 DEF Prepare

\* The resolves and the audit spans that approve, commit and status share.
LEMMA ResolveTyped ==
    ASSUME Typed, NEW t \in Tasks,
           NEW first \in Steps \ HandleFree, NEW next \in Steps \ HandleFree,
           next \in ApproveSteps => first \in ApproveSteps,
           Resolve(t, first, next)
    PROVE  RowStep /\ Typed'
<1>0. TasksOK /\ task[t].act \in Actions /\ next # "idle" /\ first # "idle"
  BY DEF Typed, TypeOK, TasksOK, TaskOK, Resolve, HandleFree
<1>1. TasksOK'
  BY <1>0, GotoTyped, ReturnTyped DEF Resolve, TasksOK, TaskOK
<1>2. RowStep /\ UNCHANGED late
  BY <1>0, ReadsRows, RefusedRows DEF Resolve
<1> QED
  BY <1>1, <1>2, StoreCallTyped DEF Resolve

LEMMA StartAuditTyped ==
    ASSUME Typed, NEW t \in Tasks,
           NEW first \in Steps \ HandleFree, NEW next \in Steps \ HandleFree,
           next \in ApproveSteps => first \in ApproveSteps,
           StartAudit(t, first, next)
    PROVE  RowStep /\ Typed'
<1>0. TasksOK /\ task[t].act \in Actions /\ next # "idle" /\ first # "idle"
  BY DEF Typed, TypeOK, TasksOK, TaskOK, StartAudit, HandleFree
<1>1. TasksOK'
  BY <1>0, GotoTyped, ReturnTyped DEF StartAudit, AuditStarts, TasksOK, TaskOK
<1>2. journal' \in [Actions -> SUBSET {"started", "reported"}]
  BY <1>0 DEF StartAudit, AuditStarts, Typed, TypeOK
<1>3. RowStep /\ RowsOK'
  BY RowsAlone, RowStepTyped DEF StartAudit, storeVars, Typed, TypeOK
<1> QED
  BY <1>1, <1>2, <1>3
  DEF StartAudit, Typed, TypeOK, TasksOK, storeVars, sourceVars, clientVars

LEMMA ApproveTyped ==
    ASSUME Typed, NEW t \in Tasks, Approve(t)
    PROVE  RowStep /\ Typed'
<1> USE DEF Steps, PrepareSteps, ApproveSteps, HandleFree
<1>0. TasksOK /\ RowsOK
  BY DEF Typed, TypeOK, TasksOK
<1>1. CASE ApproveResolve(t)
  BY <1>1, ResolveTyped DEF ApproveResolve
<1>2. CASE ApproveAudit(t)
  BY <1>2, StartAuditTyped DEF ApproveAudit
<1>3. CASE ApproveCheck(t)
  <2>0. task[t].act \in Actions /\ task[t].key \in Grants
    BY <1>0, <1>3 DEF ApproveCheck, TasksOK, TaskOK
  <2>1. TasksOK'
    BY <1>0, <1>3, <2>0, GotoTyped, ReturnTyped DEF ApproveCheck
  <2>2. RowStep /\ UNCHANGED late
    BY <1>3, <2>0, ReadsRows, RefusedRows DEF ApproveCheck
  <2>3. QED
    BY <1>3, <2>1, <2>2, StoreCallTyped DEF ApproveCheck
<1>4. CASE ApproveVerify(t)
  <2>0. task[t].act \in Actions /\ task[t].key \in Grants
    BY <1>0, <1>4 DEF ApproveVerify, TasksOK, TaskOK
  <2>1. TasksOK'
    BY <1>0, <1>4, <2>0, GotoTyped, ReturnTyped DEF ApproveVerify
  <2>2. grant' \in [Grants -> GrantStates]
    BY <1>4, <2>0 DEF ApproveVerify, Typed, TypeOK, GrantStates
  <2>3. QED
    BY <1>0, <1>4, <2>1, <2>2, RowsAlone, RowStepTyped
    DEF ApproveVerify, Typed, TypeOK, TasksOK, storeVars, sourceVars, clientVars
<1>5. CASE ApproveWrite(t)
  <2>0. task[t].act \in Actions /\ task[t].key \in Grants
    BY <1>0, <1>5 DEF ApproveWrite, TasksOK, TaskOK
  <2>1. TasksOK'
    BY <1>0, <1>5, <2>0, GotoTyped, ReturnTyped DEF ApproveWrite
  <2>2. RowStep /\ UNCHANGED late
    BY <1>5, <2>0, WritesRows, WriteRefusedRows DEF ApproveWrite, Statuses, Answers
  <2>3. QED
    BY <1>5, <2>1, <2>2, StoreCallTyped DEF ApproveWrite
<1>6. CASE ApproveReport(t)
  <2>1. TasksOK'
    BY <1>0, <1>6, ReturnTyped DEF ApproveReport
  <2>2. QED
    BY <1>6, <2>1, RowsAlone, StoreCallTyped DEF ApproveReport, storeVars
<1> QED
  BY <1>1, <1>2, <1>3, <1>4, <1>5, <1>6 DEF Approve

\* Telling a client the answer its own request holds.
LEMMA TellsTyped ==
    ASSUME Typed, NEW t \in Tasks, task[t].at # "idle", task[t].act \in Actions,
           NEW operation \in {"commit", "status"}, Tells(t, operation)
    PROVE  told' \in [Actions -> SUBSET (Principals \X {"commit", "status"} \X Results)]
<1>1. task[t].who \in Principals /\ task[t].out \in Results \cup {NoResult}
  BY DEF Typed, TypeOK, TaskOK, TaskStates, Answers
<1>2. CASE task[t].out = NoResult
  BY <1>2 DEF Tells, Typed, TypeOK
<1>3. CASE task[t].out # NoResult
  <2>1. <<task[t].who, operation, task[t].out>>
            \in Principals \X {"commit", "status"} \X Results
    BY <1>1, <1>3
  <2>2. QED
    BY <1>3, <2>1 DEF Tells, Typed, TypeOK
<1> QED
  BY <1>2, <1>3

LEMMA CommitTyped ==
    ASSUME Typed, NEW t \in Tasks, Commit(t)
    PROVE  RowStep /\ Typed'
<1> USE DEF Steps, PrepareSteps, ApproveSteps, CommitSteps, HandleFree
<1>0. TasksOK /\ RowsOK
  BY DEF Typed, TypeOK, TasksOK
<1>1. CASE CommitResolve(t)
  BY <1>1, ResolveTyped DEF CommitResolve
<1>2. CASE CommitAudit(t)
  BY <1>2, StartAuditTyped DEF CommitAudit
<1>3. CASE CommitCheck(t)
  <2>0. task[t].act \in Actions /\ result[task[t].act] \in Answers
    BY <1>0, <1>3 DEF CommitCheck, TasksOK, TaskOK, RowsOK
  <2>1. TasksOK'
    BY <1>0, <1>3, <2>0, GotoTyped, GotoWithTyped, ReturnTyped DEF CommitCheck
  <2>2. RowStep /\ UNCHANGED late
    BY <1>0, <1>3, <2>0, ReadsRows, RefusedRows DEF CommitCheck
  <2>3. QED
    BY <1>3, <2>1, <2>2, StoreCallTyped DEF CommitCheck
<1>4. CASE CommitClaim(t)
  <2>0. task[t].act \in Actions /\ result[task[t].act] \in Answers
    BY <1>0, <1>4 DEF CommitClaim, TasksOK, TaskOK, RowsOK
  <2>1. TasksOK'
    BY <1>0, <1>4, <2>0, GotoTyped, ReturnTyped DEF CommitClaim
  <2>2. RowStep /\ UNCHANGED late
    BY <1>0, <1>4, <2>0, WritesRows, WriteRefusedRows DEF CommitClaim, Statuses, Answers
  <2>3. QED
    BY <1>4, <2>1, <2>2, StoreCallTyped DEF CommitClaim
<1>5. CASE CommitExecute(t)
  <2>0. task[t].act \in Actions /\ {"sealed", "fresh"} \subseteq Answers
    BY <1>0, <1>5 DEF CommitExecute, TasksOK, TaskOK, Answers, Results
  <2>1. TasksOK'
    BY <1>0, <1>5, <2>0, GotoTyped, GotoWithTyped DEF CommitExecute
  <2>2. /\ sent' \in [Actions -> Nat]
        /\ source' \in [Actions -> {"clean", "inflight", "applied", "lost"}]
    BY <1>5, <2>0 DEF CommitExecute, sourceVars, Typed, TypeOK
  <2>3. QED
    BY <1>0, <1>5, <2>1, <2>2, RowsAlone, RowStepTyped
    DEF CommitExecute, Typed, TypeOK, TasksOK, storeVars, clientVars
<1>6. CASE CommitReply(t)
  <2>0. task[t].act \in Actions /\ "receipt" \in Answers
    BY <1>0, <1>6 DEF CommitReply, TasksOK, TaskOK, Answers, Results
  <2>1. TasksOK'
    BY <1>0, <1>6, <2>0, GotoTyped, GotoWithTyped DEF CommitReply
  <2>2. QED
    BY <1>6, <2>1, RowsAlone, StoreCallTyped DEF CommitReply, storeVars
<1>7. CASE CommitRecord(t)
  <2>0. task[t].act \in Actions /\ result[task[t].act] \in Answers
    BY <1>0, <1>7 DEF CommitRecord, TasksOK, TaskOK, RowsOK
  <2>1. TasksOK'
    BY <1>0, <1>7, <2>0, GotoTyped, ReturnTyped DEF CommitRecord
  <2>2. RowStep /\ UNCHANGED late
    BY <1>0, <1>7, <2>0, WritesRows, WriteRefusedRows DEF CommitRecord, Statuses, Answers, TasksOK, TaskStates
  <2>3. QED
    BY <1>7, <2>1, <2>2, StoreCallTyped DEF CommitRecord
<1>8. CASE CommitMark(t)
  <2>0. task[t].act \in Actions /\ result[task[t].act] \in Answers
    BY <1>0, <1>8 DEF CommitMark, TasksOK, TaskOK, RowsOK
  <2>1. TasksOK'
    BY <1>0, <1>8, <2>0, GotoTyped, ReturnTyped DEF CommitMark
  <2>2. RowStep /\ UNCHANGED late
    BY <1>0, <1>8, <2>0, WritesRows, WriteRefusedRows DEF CommitMark, Statuses, Answers
  <2>3. QED
    BY <1>8, <2>1, <2>2, StoreCallTyped DEF CommitMark
<1>9. CASE CommitLook(t)
  <2>0. task[t].act \in Actions /\ result[task[t].act] \in Answers
    BY <1>0, <1>9 DEF CommitLook, TasksOK, TaskOK, RowsOK
  <2>1. TasksOK'
    BY <1>0, <1>9, <2>0, GotoTyped, ReturnTyped DEF CommitLook
  <2>2. RowStep /\ UNCHANGED late
    BY <1>0, <1>9, <2>0, ReadsRows, RefusedRows DEF CommitLook
  <2>3. QED
    BY <1>9, <2>1, <2>2, StoreCallTyped DEF CommitLook
<1>10. CASE CommitReport(t)
  <2>0. task[t].act \in Actions
    BY <1>0, <1>10 DEF CommitReport, TasksOK, TaskOK
  <2>1. TasksOK'
    BY <1>0, <1>10, ReturnTyped DEF CommitReport
  <2>2. told' = told \/ Tells(t, "commit")
    BY <1>10 DEF CommitReport
  <2>3. told' \in [Actions -> SUBSET (Principals \X {"commit", "status"} \X Results)]
    BY <1>0, <1>10, <2>0, <2>2, TellsTyped DEF CommitReport, Typed, TypeOK
  <2>4. journal' \in [Actions -> SUBSET {"started", "reported"}]
    BY <1>10, <2>0 DEF CommitReport, Typed, TypeOK
  <2>5. QED
    BY <1>0, <1>10, <2>1, <2>3, <2>4, RowsAlone, RowStepTyped
    DEF CommitReport, Typed, TypeOK, TasksOK, storeVars, sourceVars
<1> QED
  BY <1>1, <1>2, <1>3, <1>4, <1>5, <1>6, <1>7, <1>8, <1>9, <1>10 DEF Commit

LEMMA StatusTyped ==
    ASSUME Typed, NEW t \in Tasks, Status(t)
    PROVE  RowStep /\ Typed'
<1> USE DEF Steps, PrepareSteps, ApproveSteps, StatusSteps, HandleFree
<1>0. TasksOK /\ RowsOK
  BY DEF Typed, TypeOK, TasksOK
<1>1. CASE StatusResolve(t)
  BY <1>1, ResolveTyped DEF StatusResolve
<1>2. CASE StatusAudit(t)
  BY <1>2, StartAuditTyped DEF StatusAudit
<1>3. CASE StatusCheck(t)
  <2>0. task[t].act \in Actions /\ result[task[t].act] \in Answers
    BY <1>0, <1>3 DEF StatusCheck, TasksOK, TaskOK, RowsOK
  <2>1. TasksOK'
    BY <1>0, <1>3, <2>0, GotoTyped, GotoWithTyped, ReturnTyped DEF StatusCheck
  <2>2. RowStep /\ UNCHANGED late
    BY <1>0, <1>3, <2>0, ReadsRows, RefusedRows DEF StatusCheck
  <2>3. QED
    BY <1>3, <2>1, <2>2, StoreCallTyped DEF StatusCheck
<1>4. CASE StatusQuery(t)
  <2>0. task[t].act \in Actions /\ LedgerReads \subseteq Answers
    BY <1>0, <1>4 DEF StatusQuery, TasksOK, TaskOK, Answers, Results
  <2>1. TasksOK'
    BY <1>0, <1>4, <2>0, GotoTyped, GotoWithTyped, ReturnTyped DEF StatusQuery
  <2>2. QED
    BY <1>4, <2>1, RowsAlone, StoreCallTyped DEF StatusQuery, storeVars
<1>5. CASE StatusWrite(t)
  <2>0. task[t].act \in Actions
    BY <1>0, <1>5 DEF StatusWrite, TasksOK, TaskOK
  <2>1. TasksOK'
    BY <1>0, <1>5, <2>0, GotoTyped, ReturnTyped DEF StatusWrite
  <2>2. RowStep /\ UNCHANGED late
    BY <1>0, <1>5, <2>0, WritesRows, WriteRefusedRows, RefusedRows, RowsAlone
    DEF StatusWrite, ReadRefused, WriteRefused, storeVars, Statuses, TasksOK, TaskStates
  <2>3. QED
    BY <1>5, <2>1, <2>2, StoreCallTyped DEF StatusWrite
<1>6. CASE StatusAgain(t)
  <2>0. task[t].act \in Actions /\ result[task[t].act] \in Answers
    BY <1>0, <1>6 DEF StatusAgain, TasksOK, TaskOK, RowsOK
  <2>1. TasksOK'
    BY <1>0, <1>6, <2>0, GotoTyped, GotoWithTyped, ReturnTyped DEF StatusAgain
  <2>2. RowStep /\ UNCHANGED late
    BY <1>0, <1>6, <2>0, ReadsRows, RefusedRows DEF StatusAgain
  <2>3. QED
    BY <1>6, <2>1, <2>2, StoreCallTyped DEF StatusAgain
<1>7. CASE StatusReport(t)
  <2>0. task[t].act \in Actions
    BY <1>0, <1>7 DEF StatusReport, TasksOK, TaskOK
  <2>1. TasksOK'
    BY <1>0, <1>7, ReturnTyped DEF StatusReport
  <2>2. told' \in [Actions -> SUBSET (Principals \X {"commit", "status"} \X Results)]
    BY <1>0, <1>7, <2>0, TellsTyped DEF StatusReport, Typed, TypeOK
  <2>3. QED
    BY <1>0, <1>7, <2>1, <2>2, RowsAlone, RowStepTyped
    DEF StatusReport, Typed, TypeOK, TasksOK, storeVars, sourceVars
<1> QED
  BY <1>1, <1>2, <1>3, <1>4, <1>5, <1>6, <1>7 DEF Status

LEMMA ClientTyped ==
    ASSUME Typed, NEW t \in Tasks, Client(t)
    PROVE  RowStep /\ Typed'
<1> USE DEF Steps, PrepareSteps, ApproveSteps, CommitSteps, StatusSteps, HandleFree
<1>1. ASSUME NEW p \in Principals, PrepareCalled(t, p)
      PROVE  RowStep /\ Typed'
  <2>1. TasksOK'
    BY <1>1 DEF PrepareCalled, Typed, TypeOK, TasksOK, TaskOK, TaskStates, IdleTask, Answers
  <2>2. QED
    BY <1>1, <2>1, RowsAlone, StoreCallTyped DEF PrepareCalled, storeVars
<1>2. ASSUME NEW p \in Principals, NEW a \in Actions, NEW g \in Grants \cup {NoGrant},
             NEW first \in {"a_resolve", "c_resolve", "s_resolve"},
             first \in ApproveSteps => g \in Grants,
             Called(t, p, a, g, first)
      PROVE  RowStep /\ Typed'
  <2>1. TasksOK'
    BY <1>2 DEF Called, Typed, TypeOK, TasksOK, TaskOK, TaskStates, Answers
  <2>2. QED
    BY <1>2, <2>1, RowsAlone, StoreCallTyped DEF Called, storeVars
<1> QED
  BY <1>1, <1>2 DEF Client, ApproveCalled, CommitCalled, StatusCalled

LEMMA PendingTyped ==
    ASSUME TasksOK, NEW t \in Tasks
    PROVE  Pending(t) \subseteq LateWrites
<1>1. task[t].out \in Answers
  BY DEF TasksOK, TaskStates
<1>2. task[t].at \in {"p_clear", "a_write", "c_claim", "c_record", "c_mark", "s_write"}
          => task[t].act \in Actions
  BY DEF TasksOK, TaskOK, HandleFree
<1> QED
  BY <1>1, <1>2 DEF Pending, LateWrites, Statuses

LEMMA InterruptTyped ==
    ASSUME Typed, NEW t \in Tasks, Interrupt(t)
    PROVE  RowStep /\ Typed'
<1> USE DEF Steps, PrepareSteps, ApproveSteps, CommitSteps, HandleFree
<1>0. TasksOK /\ RowsOK
  BY DEF Typed, TypeOK, TasksOK
<1>1. CASE Cancel(t)
  <2>1. TasksOK'
    <3>1. CASE AfterCancel(task[t].at) = "idle"
      BY <1>0, <1>1, <3>1, ReturnTyped DEF Cancel
    <3>2. CASE AfterCancel(task[t].at) # "idle"
      <4>1. /\ AfterCancel(task[t].at) \in {"c_mark", "c_look"}
            /\ task[t].at \in CommitSteps
        BY <3>2 DEF AfterCancel
      <4>2. task[t].act \in Actions
        BY <1>0, <4>1 DEF TasksOK, TaskOK
      <4>3. QED
        BY <1>0, <1>1, <3>2, <4>1, <4>2, GotoTyped DEF Cancel
    <3> QED
      BY <3>1, <3>2
  <2>2. late' \subseteq LateWrites
    BY <1>0, <1>1, PendingTyped DEF Cancel, Typed, TypeOK
  <2>3. QED
    BY <1>0, <1>1, <2>1, <2>2, RowsAlone, RowStepTyped
    DEF Cancel, Typed, TypeOK, TasksOK, sourceVars, clientVars
<1>2. CASE CancelAfterVerify(t)
  <2>1. TasksOK'
    BY <1>0, <1>2, ReturnTyped DEF CancelAfterVerify
  <2>2. grant' \in [Grants -> GrantStates]
    <3> DEFINE r(g) == [grant[g] EXCEPT !.state = "consumed"]
    <3>1. \A g \in Grants : r(g) \in GrantStates
      BY <1>0 DEF Typed, TypeOK, GrantStates
    <3>2. grant' = [grant EXCEPT ![task[t].key] = r(task[t].key)]
      BY <1>2 DEF CancelAfterVerify
    <3>3. grant \in [Grants -> GrantStates]
      BY <1>0 DEF Typed, TypeOK
    <3> HIDE DEF r
    <3>4. QED
      BY <3>1, <3>2, <3>3
  <2>3. QED
    BY <1>0, <1>2, <2>1, <2>2, RowsAlone, RowStepTyped
    DEF CancelAfterVerify, Typed, TypeOK, TasksOK, storeVars, sourceVars, clientVars
<1>3. CASE Crash(t)
  <2>1. TasksOK'
    BY <1>0, <1>3, ReturnTyped DEF Crash
  <2>2. QED
    BY <1>3, <2>1, RowsAlone, StoreCallTyped DEF Crash, storeVars
<1>4. ASSUME NEW a \in Actions, CancelAfterInsert(t, a)
      PROVE  RowStep /\ Typed'
  <2>1. TasksOK'
    BY <1>0, <1>4, ReturnTyped DEF CancelAfterInsert
  <2>2. RowStep /\ UNCHANGED late
    BY <1>0, <1>4 DEF CancelAfterInsert, RowStep, InsertRow, TasksOK, TaskOK
  <2>3. QED
    BY <1>4, <2>1, <2>2, StoreCallTyped DEF CancelAfterInsert
<1> QED
  BY <1>1, <1>2, <1>3, <1>4 DEF Interrupt

LEMMA EnvironmentTyped ==
    ASSUME Typed,
           \/ Host
           \/ \E a \in Actions : Source(a)
           \/ \E w \in late : LateWrite(w) \/ CrashLosesWrite(w)
           \/ Tick
    PROVE  RowStep /\ Typed'
<1>0. TasksOK /\ RowsOK
  BY DEF Typed, TypeOK, TasksOK
<1>1. CASE Host
  <2>1. grant' \in [Grants -> GrantStates]
    BY <1>1 DEF Host, GrantLapses, IssueGrant, Typed, TypeOK, GrantStates
  <2>2. QED
    BY <1>0, <1>1, <2>1, RowsAlone, RowStepTyped
    DEF Host, GrantLapses, IssueGrant, Typed, TypeOK, TaskOK, storeVars, sourceVars, clientVars
<1>2. ASSUME NEW a \in Actions, Source(a)
      PROVE  RowStep /\ Typed'
  BY <1>0, <1>2, RowsAlone, RowStepTyped
  DEF Source, SourceApplies, SourceLoses, Typed, TypeOK, TaskOK, storeVars, clientVars
<1>3. ASSUME NEW w \in late, LateWrite(w)
      PROVE  RowStep /\ Typed'
  <2>1. w \in LateWrites
    BY <1>3 DEF Typed, TypeOK
  <2>2. /\ w.act \in Actions
        /\ w.from \in Statuses
        /\ w.to \in Statuses
        /\ w.out \in Answers
    BY <2>1 DEF LateWrites
  <2>3. RowStep
    BY <1>3, <2>2 DEF LateWrite, RowStep
  <2>4. QED
    BY <1>0, <1>3, <2>3, RowStepTyped
    DEF LateWrite, Typed, TypeOK, TaskOK, sourceVars, clientVars
<1>4. ASSUME NEW w \in late, CrashLosesWrite(w)
      PROVE  RowStep /\ Typed'
  BY <1>0, <1>4, RowsAlone, RowStepTyped
  DEF CrashLosesWrite, Typed, TypeOK, TaskOK, sourceVars, clientVars
<1>5. CASE Tick
  <2>1. RowsOK'
    BY <1>0, <1>5 DEF Tick, RowsOK, storeVars, rowVars
  <2>2. QED
    BY <1>5, <2>1, RowsAlone
    DEF Tick, Typed, TypeOK, TaskOK, storeVars, sourceVars, clientVars
<1> QED
  BY <1>1, <1>2, <1>3, <1>4, <1>5

\* Typed is inductive, and every step is a RowStep.
LEMMA StepTyped ==
    ASSUME Typed, [Next]_vars
    PROVE  RowStep /\ Typed'
<1>1. CASE UNCHANGED vars
  BY <1>1, RowsAlone
  DEF vars, Typed, TypeOK, RowsOK, TaskOK, storeVars, rowVars, sourceVars, clientVars
<1>2. CASE Next
  BY <1>2, ClientTyped, PrepareTyped, ApproveTyped, CommitTyped, StatusTyped,
     InterruptTyped, EnvironmentTyped
  DEF Next, Advance
<1> QED
  BY <1>1, <1>2

LEMMA InitTyped == Init => Typed
BY DEF Init, Typed, TypeOK, RowsOK, TaskOK, Statuses, Answers, GrantStates, TaskStates,
       IdleTask, Steps, HandleFree, ApproveSteps

LEMMA AlwaysTyped == Spec => []Typed
<1>1. Typed /\ [Next]_vars => Typed'
  BY StepTyped
<1> QED
  BY InitTyped, <1>1, PTL DEF Spec

-----------------------------------------------------------------------------
(* Theorems *)

\* Every variable keeps its type: in particular no cancelled, crashed or refused
\* call leaves a row with a status outside the table, and what a client is told
\* is always a result, never the absence of one (commit and status raise, or
\* report no result, when _bound_row carries none).
THEOREM TypeCorrect == Spec => []TypeOK
<1>1. Typed => TypeOK
  BY DEF Typed
<1> QED
  BY AlwaysTyped, <1>1, PTL

\* Rows only move along the transition table or expire, and nothing revives an
\* expired row: _transition_sync refuses every other update, whichever thread or
\* process runs it and however late.
THEOREM RowsFollowTable == Spec => StatusFollowsTable
<1> DEFINE Moves(a) == status'[a] # status[a] =>
               \/ <<status[a], status'[a]>> \in AllowedTransitions
               \/ status[a] = "absent" /\ status'[a] = "prepared"
               \/ status[a] # "absent" /\ status'[a] = "expired"
<1>1. ASSUME Typed, RowStep, NEW a \in Actions
      PROVE  Moves(a)
  <2>0. status \in [Actions -> Statuses]
    BY <1>1 DEF Typed, TypeOK, RowsOK
  <2>1. CASE UNCHANGED rowVars
    BY <2>1 DEF rowVars
  <2>2. ASSUME NEW b \in Actions, status[b] # "absent",
               status' = [status EXCEPT ![b] = "expired"]
        PROVE  Moves(a)
    BY <2>0, <2>2
  <2>3. ASSUME NEW b \in Actions, NEW p \in Principals, NEW terminal \in BOOLEAN,
               InsertRow(b, p, terminal)
        PROVE  Moves(a)
    BY <2>0, <2>3 DEF InsertRow, AfterSweep
  <2>4. ASSUME NEW b \in Actions, NEW from \in Statuses, NEW to \in Statuses,
               NEW answer \in Answers, Swap(b, from, to, answer)
        PROVE  Moves(a)
    BY <2>0, <2>4 DEF Swap
  <2> QED
    BY <1>1, <2>1, <2>2, <2>3, <2>4 DEF RowStep
<1>2. Typed /\ [Next]_vars => [\A a \in Actions : Moves(a)]_vars
  BY <1>1, StepTyped
<1> QED
  BY AlwaysTyped, <1>2, PTL DEF Spec, StatusFollowsTable

-----------------------------------------------------------------------------
(* At most one mutation *)

\* The statuses a row has before anyone claimed it.
Early == {"absent", "prepared", "approved"}

\* Coroutine t has won the claim on a and is about to enter executor.commit.
Executing(t, a) == task[t].at = "c_execute" /\ task[t].act = a

\* What makes AtMostOneMutation inductive: the request leaves from c_execute only,
\* one coroutine at a time is there for a row, and only after the row has left the
\* statuses from which it can be claimed.
MutationInv ==
    \A a \in Actions :
        /\ sent[a] <= 1
        /\ status[a] \in Early => sent[a] = 0 /\ \A t \in Tasks : ~Executing(t, a)
        /\ \A t \in Tasks : Executing(t, a) => sent[a] = 0
        /\ \A t, u \in Tasks : Executing(t, a) /\ Executing(u, a) => t = u

\* A step sends nothing and brings nobody to the executor, or it is the claim,
\* or it is the sending.
Quiet ==
    /\ sent' = sent
    /\ \A t \in Tasks, a \in Actions : Executing(t, a)' => Executing(t, a)

Claims(t) == LET a == task[t].act IN
    /\ a \in Actions
    /\ status[a] = "approved"
    /\ status' = [status EXCEPT ![a] = "committing"]
    /\ sent' = sent
    /\ Goto(t, "c_execute")

Sends(t) == LET a == task[t].act IN
    /\ a \in Actions
    /\ Executing(t, a)
    /\ sent' = [sent EXCEPT ![a] = @ + 1]
    /\ status' = status
    /\ Goto(t, "c_wait")

\* Once a row has left the early statuses it never has one again.
LEMMA EarlyOnce ==
    ASSUME Typed, RowStep, NEW a \in Actions, status'[a] \in Early
    PROVE  status[a] \in Early
<1>0. status \in [Actions -> Statuses]
  BY DEF Typed, TypeOK, RowsOK
<1>1. CASE UNCHANGED rowVars
  BY <1>1 DEF rowVars
<1>2. ASSUME NEW b \in Actions, status' = [status EXCEPT ![b] = "expired"]
      PROVE  status[a] \in Early
  BY <1>0, <1>2 DEF Early
<1>3. ASSUME NEW b \in Actions, NEW p \in Principals, NEW terminal \in BOOLEAN,
             InsertRow(b, p, terminal)
      PROVE  status[a] \in Early
  BY <1>0, <1>3 DEF InsertRow, AfterSweep, Early
<1>4. ASSUME NEW b \in Actions, NEW from \in Statuses, NEW to \in Statuses,
             NEW answer \in Answers, Swap(b, from, to, answer)
      PROVE  status[a] \in Early
  BY <1>0, <1>4 DEF Swap, AllowedTransitions, Early
<1> QED
  BY <1>1, <1>2, <1>3, <1>4 DEF RowStep

LEMMA MovesQuietly ==
    ASSUME TasksOK, NEW t \in Tasks, sent' = sent,
           \/ Return(t)
           \/ \E step \in Steps \ {"c_execute"} : Goto(t, step)
           \/ \E step \in Steps \ {"c_execute"}, answer \in Answers : GotoWith(t, step, answer)
    PROVE  Quiet
<1>0. task \in [Tasks -> TaskStates]
  BY DEF TasksOK
<1>1. CASE Return(t)
  BY <1>0, <1>1 DEF Quiet, Executing, Return, IdleTask
<1>2. ASSUME NEW step \in Steps \ {"c_execute"}, Goto(t, step)
      PROVE  Quiet
  BY <1>0, <1>2 DEF Quiet, Executing, TaskStates, Goto
<1>3. ASSUME NEW step \in Steps \ {"c_execute"}, NEW answer \in Answers,
             GotoWith(t, step, answer)
      PROVE  Quiet
  <2>1. \A u \in Tasks : u # t => task'[u] = task[u]
    BY <1>0, <1>3 DEF GotoWith
  <2>2. task'[t].at = step
    <3> DEFINE r == [task[t] EXCEPT !.at = step, !.out = answer]
    <3>1. r.at = step
      BY <1>0 DEF TaskStates
    <3>2. task' = [task EXCEPT ![t] = r]
      BY <1>3 DEF GotoWith
    <3> HIDE DEF r
    <3>3. QED
      BY <1>0, <3>1, <3>2
  <2> QED
    BY <2>1, <2>2 DEF Quiet, Executing
<1> QED
  BY <1>1, <1>2, <1>3

LEMMA MutationStep ==
    ASSUME Typed, [Next]_vars
    PROVE  Quiet \/ \E t \in Tasks : Claims(t) \/ Sends(t)
<1> USE DEF Steps, PrepareSteps, ApproveSteps, CommitSteps, StatusSteps
<1>0. TasksOK /\ RowsOK
  BY DEF Typed, TypeOK, TasksOK
<1>1. CASE UNCHANGED task /\ UNCHANGED sent
  BY <1>1 DEF Quiet, Executing
<1>2. ASSUME NEW t \in Tasks, Client(t)
      PROVE  Quiet
  <2>1. ASSUME NEW p \in Principals, PrepareCalled(t, p)
        PROVE  Quiet
    BY <1>0, <2>1 DEF PrepareCalled, Quiet, Executing, TasksOK, sourceVars, IdleTask
  <2>2. ASSUME NEW p, NEW a, NEW g, NEW first \in Steps \ {"c_execute"},
               Called(t, p, a, g, first)
        PROVE  Quiet
    BY <1>0, <2>2 DEF Called, Quiet, Executing, TasksOK, sourceVars
  <2> QED
    BY <1>2, <2>1, <2>2 DEF Client, ApproveCalled, CommitCalled, StatusCalled
<1>3. ASSUME NEW t \in Tasks, Prepare(t)
      PROVE  Quiet
  <2>1. ASSUME NEW a \in Actions, PrepareCreate(t, a)
        PROVE  Quiet
    BY <1>0, <2>1 DEF PrepareCreate, Quiet, Executing, TasksOK, TaskStates, sourceVars
  <2> QED
    BY <1>0, <1>3, <2>1, MovesQuietly
    DEF Prepare, PrepareAudit, PreparePreview, PrepareCreateRefused, PrepareClear,
        PrepareReport, AuditStarts, sourceVars
<1>4. ASSUME NEW t \in Tasks, Approve(t)
      PROVE  Quiet
  BY <1>0, <1>4, MovesQuietly
  DEF Approve, ApproveResolve, ApproveAudit, ApproveCheck, ApproveVerify, ApproveWrite,
      ApproveReport, Resolve, StartAudit, AuditStarts, sourceVars
<1>5. ASSUME NEW t \in Tasks, Commit(t)
      PROVE  Quiet \/ Claims(t) \/ Sends(t)
  <2>0. task[t].act \in Actions
    BY <1>0, <1>5
    DEF TasksOK, TaskOK, HandleFree, Commit, CommitResolve, CommitAudit, CommitCheck,
        CommitClaim, CommitExecute, CommitReply, CommitRecord, CommitMark, CommitLook,
        CommitReport, Resolve, StartAudit
  <2>1. CASE CommitResolve(t) \/ CommitAudit(t)
    BY <1>0, <2>1, MovesQuietly
    DEF CommitResolve, CommitAudit, Resolve, StartAudit, AuditStarts, sourceVars
  <2>2. CASE CommitCheck(t)
    BY <1>0, <2>0, <2>2, MovesQuietly DEF CommitCheck, RowsOK, sourceVars
  <2>3. CASE CommitClaim(t)
    BY <1>0, <2>0, <2>3, MovesQuietly DEF CommitClaim, Writes, Swap, Claims, sourceVars
  <2>4. CASE CommitExecute(t)
    BY <1>0, <2>0, <2>4, MovesQuietly
    DEF CommitExecute, Sends, Executing, Answers, Results, sourceVars, storeVars, rowVars
  <2>5. CASE CommitReply(t)
    BY <1>0, <2>5, MovesQuietly DEF CommitReply, Answers, Results, sourceVars
  <2>6. CASE CommitRecord(t) \/ CommitMark(t) \/ CommitLook(t) \/ CommitReport(t)
    BY <1>0, <2>6, MovesQuietly
    DEF CommitRecord, CommitMark, CommitLook, CommitReport, sourceVars
  <2> QED
    BY <1>5, <2>1, <2>2, <2>3, <2>4, <2>5, <2>6 DEF Commit
<1>6. ASSUME NEW t \in Tasks, Status(t)
      PROVE  Quiet
  <2>0. StatusCheck(t) \/ StatusAgain(t) => task[t].act \in Actions
    BY <1>0 DEF TasksOK, TaskOK, HandleFree, StatusCheck, StatusAgain
  <2>1. CASE StatusCheck(t) \/ StatusAgain(t)
    BY <1>0, <2>0, <2>1, MovesQuietly DEF StatusCheck, StatusAgain, RowsOK, sourceVars
  <2>2. CASE StatusResolve(t) \/ StatusAudit(t)
    BY <1>0, <2>2, MovesQuietly
    DEF StatusResolve, StatusAudit, Resolve, StartAudit, AuditStarts, sourceVars
  <2>3. CASE StatusQuery(t) \/ StatusWrite(t) \/ StatusReport(t)
    BY <1>0, <2>3, MovesQuietly
    DEF StatusQuery, StatusWrite, StatusReport, Answers, Results, sourceVars
  <2> QED
    BY <1>6, <2>1, <2>2, <2>3 DEF Status
<1>7. ASSUME NEW t \in Tasks, Interrupt(t)
      PROVE  Quiet
  <2>1. AfterCancel(task[t].at) \in {"idle", "c_mark", "c_look"}
    BY DEF AfterCancel
  <2> QED
    BY <1>0, <1>7, <2>1, MovesQuietly
    DEF Interrupt, Cancel, CancelAfterVerify, Crash, CancelAfterInsert, sourceVars
<1> QED
  BY <1>1, <1>2, <1>3, <1>4, <1>5, <1>6, <1>7
  DEF Next, Advance, Host, GrantLapses, IssueGrant, Source, SourceApplies, SourceLoses,
      LateWrite, CrashLosesWrite, Tick, vars, sourceVars

LEMMA MutationInvHolds ==
    ASSUME Typed, MutationInv, [Next]_vars
    PROVE  MutationInv'
<1>0. sent \in [Actions -> Nat] /\ status \in [Actions -> Statuses]
      /\ task \in [Tasks -> TaskStates]
  BY DEF Typed, TypeOK, RowsOK
<1>1. \A a \in Actions : status'[a] \in Early => status[a] \in Early
  BY StepTyped, EarlyOnce
<1>2. CASE Quiet
  BY <1>1, <1>2 DEF Quiet, MutationInv, Executing
<1>3. ASSUME NEW t \in Tasks, Claims(t)
      PROVE  MutationInv'
  <2>0. PICK c \in Actions : c = task[t].act
    BY <1>3 DEF Claims
  <2>1. /\ status[c] \in Early
        /\ status'[c] \notin Early
        /\ sent' = sent
    BY <1>0, <1>3, <2>0 DEF Claims, Early
  <2>2. \A u \in Tasks, a \in Actions :
            Executing(u, a)' => Executing(u, a) \/ (u = t /\ a = c)
    BY <1>0, <1>3, <2>0 DEF Claims, Goto, Executing, TaskStates
  <2> QED
    BY <1>1, <2>1, <2>2 DEF MutationInv
<1>4. ASSUME NEW t \in Tasks, Sends(t)
      PROVE  MutationInv'
  <2>0. PICK c \in Actions : c = task[t].act
    BY <1>4 DEF Sends
  <2>1. /\ Executing(t, c)
        /\ sent' = [sent EXCEPT ![c] = @ + 1]
        /\ status' = status
    BY <1>4, <2>0 DEF Sends
  <2>2. sent[c] = 0 /\ status[c] \notin Early
    BY <2>1 DEF MutationInv
  <2>3. \A u \in Tasks, a \in Actions : Executing(u, a)' => Executing(u, a) /\ u # t
    BY <1>0, <1>4 DEF Sends, Goto, Executing, TaskStates
  <2>4. \A u \in Tasks : ~Executing(u, c)'
    BY <2>1, <2>3 DEF MutationInv
  <2>5. \A a \in Actions : sent'[a] = IF a = c THEN 1 ELSE sent[a]
    BY <1>0, <2>1, <2>2
  <2> QED
    BY <2>1, <2>2, <2>3, <2>4, <2>5 DEF MutationInv
<1> QED
  BY <1>2, <1>3, <1>4, MutationStep

\* However many commits race for an Action, are cancelled, time out, crash or are
\* repeated, in one process or several, its mutation leaves the runtime at most
\* once: _commit reaches executor.commit only past its APPROVED -> COMMITTING swap.
THEOREM AtMostOne == Spec => []AtMostOneMutation
<1>1. Init => MutationInv
  BY DEF Init, MutationInv, Executing, IdleTask, Early
<1>2. Typed /\ MutationInv /\ [Next]_vars => MutationInv'
  BY MutationInvHolds
<1>3. MutationInv => AtMostOneMutation
  BY DEF MutationInv, AtMostOneMutation
<1> QED
  BY AlwaysTyped, <1>1, <1>2, <1>3, PTL DEF Spec

-----------------------------------------------------------------------------
(* What the coordinator answers *)


\* An approval of the Action was consumed, if it needs one.
Cleared(a) ==
    a \in NeedsApproval => \E g \in Grants : grant[g] = [state |-> "consumed", for |-> a]

\* Nobody has sent the mutation and nobody will: the row's claim is used up.
Unsent(a) ==
    /\ sent[a] = 0
    /\ status[a] \notin Early
    /\ \A t \in Tasks : ~Executing(t, a)

\* The answer is what became of the Action.
Fits(a, answer) ==
    \/ answer \in {"receipt"} \cup LedgerReads /\ source[a] = "applied" /\ ~sealed[a]
    \/ answer = "sealed" /\ sealed[a]
    \/ answer = "fresh" /\ a \in Guarded /\ ~sealed[a] /\ Unsent(a)

Started(a) == AuditRequired => "started" \in journal[a]

RowsTrue ==
    \A a \in Actions :
        /\ status[a] \notin {"succeeded", "expired"} => result[a] = NoResult
        /\ status[a] = "succeeded" => Fits(a, result[a])
        /\ status[a] \notin {"absent", "prepared", "expired"} => Cleared(a)

SentTrue ==
    \A a \in Actions :
        /\ sent[a] > 0 => Cleared(a) /\ Started(a)
        /\ source[a] # "clean" => sent[a] > 0
        /\ sealed[a] => sent[a] = 0 /\ a \notin Guarded

ToldTrue ==
    \A a \in Actions : \A answer \in told[a] :
        /\ status[a] # "absent" /\ answer[1] = owner[a]
        /\ answer[3] # NoResult /\ answer[3] = result[a]
        /\ AuditRequired /\ answer[2] = "commit" => "reported" \in journal[a]

\* An abandoned write does what its caller had the right to.
WriteTrue(w) ==
    /\ status[w.act] # "absent"
    /\ w.from = "prepared" => Cleared(w.act)
    /\ w.to = "succeeded" => Fits(w.act, w.out)

LateTrue == \A w \in late : WriteTrue(w)

\* The awaits before the first resolve or the insert.
Unbound == {"idle", "p_audit", "p_preview", "p_create", "a_resolve", "c_resolve", "s_resolve"}

\* The awaits of commit and status before they have an answer.
Blank == {"c_resolve", "c_audit", "c_check", "s_resolve", "s_audit", "s_check", "s_query"}

\* What a coroutine with the local variables r knows.
Knows(r) ==
    /\ r.at \notin Unbound => BoundTo(r.who, r.act)
    /\ r.at \in Blank => r.out = NoResult
    /\ r.at \in {"c_check", "c_claim", "c_execute"} => Started(r.act)
    /\ r.at \in {"p_clear", "a_write", "c_execute"} => Cleared(r.act)
    /\ r.at \in {"c_record", "s_write"} => Fits(r.act, r.out)
    /\ r.at \in {"c_report", "s_report"} => r.out \in {NoResult, result[r.act]}

TasksTrue == \A t \in Tasks : Knows(task[t])

Truth == RowsTrue /\ SentTrue /\ ToldTrue /\ LateTrue /\ TasksTrue

Known == Typed /\ MutationInv /\ Truth

-----------------------------------------------------------------------------
(* What never stops being true *)

RowsLast ==
    \A a \in Actions :
        /\ status[a] # "absent" =>
              status'[a] # "absent" /\ owner'[a] = owner[a] /\ sealed'[a] = sealed[a]
        /\ result[a] # NoResult => result'[a] = result[a]

OutsideLasts ==
    /\ \A a \in Actions :
          /\ source[a] = "applied" => source'[a] = "applied"
          /\ journal[a] \subseteq journal'[a]
    /\ \A g \in Grants : grant[g].state = "consumed" => grant'[g] = grant[g]

UnsentLasts == \A a \in Actions : Unsent(a) => Unsent(a)'

LEMMA RowsPersist ==
    ASSUME Typed, RowsTrue, RowStep
    PROVE  RowsLast
<1>0. RowsOK
  BY DEF Typed, TypeOK
<1>1. CASE UNCHANGED rowVars
  BY <1>1 DEF rowVars, RowsLast
<1>2. ASSUME NEW b \in Actions, status[b] # "absent",
             status' = [status EXCEPT ![b] = "expired"],
             UNCHANGED <<owner, expires, sealed, result>>
      PROVE  RowsLast
  BY <1>0, <1>2 DEF RowsOK, RowsLast
<1>3. ASSUME NEW b \in Actions, NEW p \in Principals, NEW terminal \in BOOLEAN,
             InsertRow(b, p, terminal)
      PROVE  RowsLast
  BY <1>0, <1>3 DEF RowsOK, RowsLast, InsertRow, AfterSweep
<1>4. ASSUME NEW b \in Actions, NEW from \in Statuses, NEW to \in Statuses,
             NEW answer \in Answers, Swap(b, from, to, answer)
      PROVE  RowsLast
  <2>1. /\ status[b] # "absent" /\ to # "absent"
        /\ to = "succeeded" => result[b] = NoResult
    BY <1>4 DEF Swap, AllowedTransitions, RowsTrue
  <2>2. QED
    BY <1>0, <1>4, <2>1 DEF RowsOK, RowsLast, Swap
<1> QED
  BY <1>1, <1>2, <1>3, <1>4 DEF RowStep

LEMMA AuditLasts ==
    ASSUME Typed, NEW t \in Tasks, NEW next, AuditStarts(t, next)
    PROVE  \A a \in Actions : journal[a] \subseteq journal'[a]
BY DEF AuditStarts, Typed, TypeOK

LEMMA OutsidePersists ==
    ASSUME Typed, MutationInv, SentTrue, [Next]_vars
    PROVE  OutsideLasts
<1> USE DEF OutsideLasts
<1>0. /\ source \in [Actions -> {"clean", "inflight", "applied", "lost"}]
      /\ journal \in [Actions -> SUBSET {"started", "reported"}]
      /\ grant \in [Grants -> GrantStates]
  BY DEF Typed, TypeOK
<1>1. CASE UNCHANGED <<source, journal, grant>>
  BY <1>1
<1>2. ASSUME NEW t \in Tasks, Client(t)
      PROVE  UNCHANGED <<source, journal, grant>>
  BY <1>2 DEF Client, PrepareCalled, ApproveCalled, CommitCalled, StatusCalled, Called, sourceVars
<1>3. ASSUME NEW t \in Tasks, Prepare(t)
      PROVE  OutsideLasts
  BY <1>1, <1>3, AuditLasts
  DEF Prepare, PrepareAudit, PreparePreview, PrepareCreate, PrepareCreateRefused, PrepareClear,
      PrepareReport, sourceVars
<1>4. ASSUME NEW t \in Tasks, Approve(t)
      PROVE  OutsideLasts
  <2>1. CASE ApproveVerify(t)
    BY <1>0, <2>1 DEF ApproveVerify, Accepts, GrantStates, sourceVars
  <2>2. CASE ApproveAudit(t)
    BY <2>2, AuditLasts DEF ApproveAudit, StartAudit, sourceVars
  <2>3. QED
    BY <1>1, <1>4, <2>1, <2>2
    DEF Approve, ApproveResolve, ApproveCheck, ApproveWrite, ApproveReport, Resolve, sourceVars
<1>5. ASSUME NEW t \in Tasks, Commit(t)
      PROVE  OutsideLasts
  <2>1. CASE CommitExecute(t)
    <3>1. task[t].act \in Actions => source[task[t].act] = "clean"
      BY <2>1 DEF CommitExecute, MutationInv, SentTrue, Executing
    <3>2. UNCHANGED <<journal, grant>>
      BY <2>1 DEF CommitExecute
    <3>3. source' = source \/ source' = [source EXCEPT ![task[t].act] = "inflight"]
      BY <2>1 DEF CommitExecute, sourceVars
    <3>4. QED
      BY <1>0, <3>1, <3>2, <3>3
  <2>2. CASE CommitAudit(t)
    BY <2>2, AuditLasts DEF CommitAudit, StartAudit, sourceVars
  <2>3. CASE CommitReport(t)
    BY <1>0, <2>3 DEF CommitReport, sourceVars
  <2>4. QED
    BY <1>1, <1>5, <2>1, <2>2, <2>3
    DEF Commit, CommitResolve, CommitCheck, CommitClaim, CommitReply, CommitRecord,
        CommitMark, CommitLook, Resolve, sourceVars
<1>6. ASSUME NEW t \in Tasks, Status(t)
      PROVE  OutsideLasts
  <2>1. CASE StatusAudit(t)
    BY <2>1, AuditLasts DEF StatusAudit, StartAudit, sourceVars
  <2>2. QED
    BY <1>1, <1>6, <2>1
    DEF Status, StatusResolve, StatusCheck, StatusQuery, StatusWrite, StatusAgain,
        StatusReport, Resolve, sourceVars
<1>7. ASSUME NEW t \in Tasks, Interrupt(t)
      PROVE  OutsideLasts
  <2>1. CASE CancelAfterVerify(t)
    BY <1>0, <2>1 DEF CancelAfterVerify, Accepts, GrantStates, sourceVars
  <2>2. QED
    BY <1>1, <1>7, <2>1 DEF Interrupt, Cancel, Crash, CancelAfterInsert, sourceVars
<1>8. CASE Host
  BY <1>0, <1>8 DEF Host, GrantLapses, IssueGrant, GrantStates, sourceVars
<1>9. ASSUME NEW a \in Actions, Source(a)
      PROVE  OutsideLasts
  BY <1>0, <1>9 DEF Source, SourceApplies, SourceLoses
<1>10. ASSUME NEW w \in late, LateWrite(w) \/ CrashLosesWrite(w)
       PROVE  UNCHANGED <<source, journal, grant>>
  BY <1>10 DEF LateWrite, CrashLosesWrite, sourceVars
<1>11. CASE Tick \/ UNCHANGED vars
  BY <1>1, <1>11 DEF Tick, vars, sourceVars
<1> QED
  BY <1>1, <1>2, <1>3, <1>4, <1>5, <1>6, <1>7, <1>8, <1>9, <1>10, <1>11 DEF Next, Advance

\* A row is claimed once, and only its claimant sends: whoever used the claim up
\* without sending leaves nobody who could.
LEMMA UnsentPersists ==
    ASSUME Typed, MutationInv, [Next]_vars
    PROVE  UnsentLasts
<1>0. sent \in [Actions -> Nat] /\ task \in [Tasks -> TaskStates]
  BY DEF Typed, TypeOK
<1>1. SUFFICES ASSUME NEW a \in Actions, Unsent(a)
               PROVE  Unsent(a)'
  BY DEF UnsentLasts
<1>2. status'[a] \notin Early
  BY <1>1, StepTyped, EarlyOnce DEF Unsent
<1>3. CASE Quiet
  BY <1>1, <1>2, <1>3 DEF Quiet, Unsent
<1>4. ASSUME NEW t \in Tasks, Claims(t)
      PROVE  Unsent(a)'
  <2>1. task[t].act # a
    BY <1>1, <1>4 DEF Claims, Unsent, Early
  <2>2. \A u \in Tasks : ~Executing(u, a)'
    BY <1>0, <1>1, <1>4, <2>1 DEF Claims, Goto, Unsent, Executing, TaskStates
  <2>3. sent'[a] = 0
    BY <1>1, <1>4 DEF Claims, Unsent
  <2>4. QED
    BY <1>2, <2>2, <2>3 DEF Unsent
<1>5. ASSUME NEW t \in Tasks, Sends(t)
      PROVE  Unsent(a)'
  <2>1. task[t].act # a
    BY <1>1, <1>5 DEF Sends, Unsent
  <2>2. \A u \in Tasks : ~Executing(u, a)'
    BY <1>0, <1>1, <1>5, <2>1 DEF Sends, Goto, Unsent, Executing, TaskStates
  <2>3. sent'[a] = 0
    BY <1>0, <1>1, <1>5, <2>1 DEF Sends, Unsent
  <2>4. QED
    BY <1>2, <2>2, <2>3 DEF Unsent
<1>6. QED
  BY <1>3, <1>4, <1>5, MutationStep

Lasting == RowsLast /\ OutsideLasts /\ UnsentLasts

LEMMA ClearedLasts ==
    ASSUME Lasting, NEW a, Cleared(a)
    PROVE  Cleared(a)'
BY DEF Lasting, OutsideLasts, Cleared

LEMMA FitsLasts ==
    ASSUME Lasting, NEW a \in Actions, NEW answer, status[a] # "absent", Fits(a, answer)
    PROVE  Fits(a, answer)'
BY DEF Lasting, RowsLast, OutsideLasts, UnsentLasts, Fits

LEMMA KnowledgeLasts ==
    ASSUME Lasting, NEW t, task'[t] = task[t], task[t].act \in Actions \/ task[t].at \in HandleFree,
           Knows(task[t])
    PROVE  Knows(task[t])'
<1> DEFINE r == task[t]
           a == task[t].act
<1>1. CASE r.at \in HandleFree
  BY <1>1 DEF Knows, HandleFree, Unbound, Blank
<1>2. CASE a \in Actions
  <2>1. r.at \notin Unbound => BoundTo(r.who, a)'
    BY <1>2 DEF Knows, Lasting, RowsLast, BoundTo
  <2>2. r.at \in {"c_check", "c_claim", "c_execute"} => Started(a)'
    BY <1>2 DEF Knows, Lasting, OutsideLasts, Started
  <2>3. r.at \in {"p_clear", "a_write", "c_execute"} => Cleared(a)'
    BY ClearedLasts DEF Knows
  <2>4. r.at \in {"c_record", "s_write"} => Fits(a, r.out)'
    BY <1>2, FitsLasts DEF Knows, Unbound, BoundTo
  <2>5. r.at \in {"c_report", "s_report"} => r.out \in {NoResult, result'[a]}
    BY <1>2 DEF Knows, Lasting, RowsLast
  <2>6. QED
    BY <1>2, <2>1, <2>2, <2>3, <2>4, <2>5 DEF Knows
<1>3. QED
  BY <1>1, <1>2

-----------------------------------------------------------------------------
(* The rows stay true *)

\* A step that approves a row or makes it succeed has the right to.
Justified ==
    \A a \in Actions :
        /\ status[a] = "prepared" /\ status'[a] \notin {"prepared", "expired"} => Cleared(a)
        /\ status'[a] = "succeeded" => status[a] = "succeeded" \/ Fits(a, result'[a])

LEMMA SuccessFills ==
    ASSUME NEW a, NEW answer, Fits(a, answer)
    PROVE  answer # NoResult
BY DEF Fits, LedgerReads, NoResult

\* Rows without a success have no result, also after the step.
LEMMA EmptyUntilSuccess ==
    ASSUME Typed, RowsTrue, RowStep, NEW a \in Actions, status'[a] \notin {"succeeded", "expired"}
    PROVE  result'[a] = NoResult
<1>0. RowsOK
  BY DEF Typed, TypeOK
<1>1. CASE UNCHANGED rowVars
  BY <1>1 DEF rowVars, RowsTrue
<1>2. ASSUME NEW b \in Actions, status' = [status EXCEPT ![b] = "expired"], UNCHANGED result
      PROVE  result'[a] = NoResult
  BY <1>0, <1>2 DEF RowsOK, RowsTrue
<1>3. ASSUME NEW b \in Actions, NEW p \in Principals, NEW terminal \in BOOLEAN,
             InsertRow(b, p, terminal)
      PROVE  result'[a] = NoResult
  BY <1>0, <1>3 DEF RowsOK, RowsTrue, InsertRow, AfterSweep
<1>4. ASSUME NEW b \in Actions, NEW from \in Statuses, NEW to \in Statuses,
             NEW answer \in Answers, Swap(b, from, to, answer)
      PROVE  result'[a] = NoResult
  BY <1>0, <1>4 DEF RowsOK, RowsTrue, Swap, AllowedTransitions
<1> QED
  BY <1>1, <1>2, <1>3, <1>4 DEF RowStep

\* A row that is past PREPARED was past it, or was PREPARED.
LEMMA PastPrepared ==
    ASSUME Typed, RowStep, NEW a \in Actions,
           status'[a] \notin {"absent", "prepared", "expired"}
    PROVE  status[a] \notin {"absent", "expired"}
<1>0. RowsOK
  BY DEF Typed, TypeOK
<1>1. CASE UNCHANGED rowVars
  BY <1>1 DEF rowVars
<1>2. ASSUME NEW b \in Actions, status' = [status EXCEPT ![b] = "expired"]
      PROVE  status[a] \notin {"absent", "expired"}
  BY <1>0, <1>2 DEF RowsOK
<1>3. ASSUME NEW b \in Actions, NEW p \in Principals, NEW terminal \in BOOLEAN,
             InsertRow(b, p, terminal)
      PROVE  status[a] \notin {"absent", "expired"}
  BY <1>0, <1>3 DEF RowsOK, InsertRow, AfterSweep
<1>4. ASSUME NEW b \in Actions, NEW from \in Statuses, NEW to \in Statuses,
             NEW answer \in Answers, Swap(b, from, to, answer)
      PROVE  status[a] \notin {"absent", "expired"}
  BY <1>0, <1>4 DEF RowsOK, Swap, AllowedTransitions
<1> QED
  BY <1>1, <1>2, <1>3, <1>4 DEF RowStep

LEMMA RowsKept ==
    ASSUME Typed, RowsTrue, RowStep, Lasting, Justified
    PROVE  RowsTrue'
<1>1. SUFFICES ASSUME NEW a \in Actions
               PROVE  /\ status'[a] \notin {"succeeded", "expired"} => result'[a] = NoResult
                      /\ status'[a] = "succeeded" => Fits(a, result[a])'
                      /\ status'[a] \notin {"absent", "prepared", "expired"} => Cleared(a)'
  BY DEF RowsTrue
<1>2. ASSUME status'[a] = "succeeded"
      PROVE  Fits(a, result[a])'
  <2>1. status[a] # "absent"
    BY <1>2, PastPrepared
  <2>2. CASE status[a] = "succeeded"
    <3>1. Fits(a, result[a])
      BY <2>2 DEF RowsTrue
    <3>2. result'[a] = result[a]
      BY <3>1, SuccessFills DEF Lasting, RowsLast
    <3>3. Fits(a, result'[a])
      BY <3>1, <3>2
    <3>4. QED
      BY <2>1, <3>3, FitsLasts DEF Lasting, RowsLast, OutsideLasts, UnsentLasts, Fits
  <2>3. CASE Fits(a, result'[a])
    BY <2>1, <2>3 DEF Lasting, RowsLast, OutsideLasts, UnsentLasts, Fits
  <2>4. QED
    BY <1>2, <2>2, <2>3 DEF Justified
<1>3. ASSUME status'[a] \notin {"absent", "prepared", "expired"}
      PROVE  Cleared(a)'
  <2>1. Cleared(a)
    BY <1>3, PastPrepared DEF Justified, RowsTrue
  <2>2. QED
    BY <2>1, ClearedLasts
<1>4. QED
  BY <1>2, <1>3, EmptyUntilSuccess

\* A step that neither approves a row nor makes one succeed.
LEMMA QuietlyJustified ==
    ASSUME Typed,
           \/ UNCHANGED rowVars
           \/ \E a \in Actions : status' = [status EXCEPT ![a] = "expired"]
           \/ \E a \in Actions, p \in Principals, terminal \in BOOLEAN :
                InsertRow(a, p, terminal)
    PROVE  Justified
<1>0. RowsOK
  BY DEF Typed, TypeOK
<1> QED
  BY <1>0 DEF RowsOK, Justified, InsertRow, AfterSweep, rowVars

LEMMA SwapJustified ==
    ASSUME Typed, NEW a \in Actions, NEW from \in Statuses, NEW to \in Statuses, NEW answer,
           Swap(a, from, to, answer),
           from = "prepared" => Cleared(a),
           to = "succeeded" => Fits(a, answer)
    PROVE  Justified
BY DEF Typed, TypeOK, RowsOK, Justified, Swap

LEMMA ReadJustified ==
    ASSUME Typed, NEW t \in Tasks, task[t].act \in Actions, Reads(t) \/ ReadRefused(t)
    PROVE  Justified
BY QuietlyJustified DEF Reads, ReadRefused, ReadExpires, storeVars

LEMMA WriteJustified ==
    ASSUME Typed, NEW t \in Tasks, task[t].act \in Actions,
           NEW from \in Statuses, NEW to \in Statuses, NEW answer,
           Writes(t, from, to, answer) \/ WriteRefused(t, from),
           from = "prepared" => Cleared(task[t].act),
           to = "succeeded" => Fits(task[t].act, answer)
    PROVE  Justified
BY ReadJustified, SwapJustified, QuietlyJustified
DEF Writes, WriteRefused, Conflicts, storeVars

-----------------------------------------------------------------------------
(* What a coroutine knows after its step *)

\* The coroutine is at its next await, with an answer; the others are where they were.
Moved(t, step, answer) ==
    /\ task'[t].at = step
    /\ task'[t].who = task[t].who
    /\ task'[t].act = task[t].act
    /\ task'[t].out = answer
    /\ \A u \in Tasks \ {t} : task'[u] = task[u]

LEMMA GotoMoves ==
    ASSUME Typed, NEW t \in Tasks, NEW step, Goto(t, step)
    PROVE  Moved(t, step, task[t].out)
BY DEF Typed, TypeOK, TaskStates, Goto, Moved

LEMMA GotoWithMoves ==
    ASSUME Typed, NEW t \in Tasks, NEW step, NEW answer, GotoWith(t, step, answer)
    PROVE  Moved(t, step, answer)
BY DEF Typed, TypeOK, TaskStates, GotoWith, Moved

LEMMA OthersKnow ==
    ASSUME Typed, Lasting, TasksTrue, NEW t \in Tasks,
           \A u \in Tasks \ {t} : task'[u] = task[u],
           Knows(task[t])'
    PROVE  TasksTrue'
<1>1. \A u \in Tasks : task[u].act \in Actions \/ task[u].at \in HandleFree
  BY DEF Typed, TaskOK
<1>2. \A u \in Tasks \ {t} : Knows(task[u])'
  BY <1>1, KnowledgeLasts DEF TasksTrue
<1> QED
  BY <1>2 DEF TasksTrue

LEMMA ReturnKnows ==
    ASSUME Typed, Lasting, TasksTrue, NEW t \in Tasks, Return(t)
    PROVE  TasksTrue'
<1>1. \A u \in Tasks \ {t} : task'[u] = task[u]
  BY DEF Return
<1>2. task'[t] = IdleTask
  BY DEF Return, Typed, TypeOK
<1>3. Knows(task[t])'
  BY <1>2 DEF Knows, IdleTask, Unbound, Blank
<1> QED
  BY <1>1, <1>3, OthersKnow

\* What a binding that held before the step still says after it.
LEMMA BoundLasts ==
    ASSUME Lasting, NEW p, NEW a \in Actions, BoundTo(p, a)
    PROVE  BoundTo(p, a)'
BY DEF Lasting, RowsLast, BoundTo

-----------------------------------------------------------------------------
(* The operations *)

\* What a lemma about one operation may use of the state before its step.
Before(t) ==
    /\ Known
    /\ Lasting
    /\ Knows(task[t])

LEMMA StepFromReads ==
    ASSUME NEW t \in Tasks, Before(t), task[t].at \notin HandleFree,
           Reads(t) \/ ReadRefused(t)
    PROVE  Justified
BY ReadJustified DEF Before, Known, Typed, TaskOK

LEMMA PrepareKeeps ==
    ASSUME NEW t \in Tasks, Before(t), Prepare(t)
    PROVE  Justified /\ TasksTrue'
<1> USE DEF Before, Known, Truth
<1>0. task[t].act \in Actions \/ task[t].at \in HandleFree
  BY DEF Typed, TaskOK
<1>1. CASE PrepareAudit(t)
  <2>1. Justified
    BY <1>1, QuietlyJustified DEF PrepareAudit, storeVars
  <2>2. ASSUME Goto(t, "p_preview")
        PROVE  TasksTrue'
    BY <2>2, GotoMoves, OthersKnow DEF Moved, Knows, Unbound, Blank
  <2>3. QED
    BY <1>1, <2>1, <2>2, ReturnKnows DEF PrepareAudit, AuditStarts
<1>2. CASE PreparePreview(t)
  <2>1. Justified
    BY <1>2, QuietlyJustified DEF PreparePreview, storeVars
  <2>2. ASSUME Goto(t, "p_create")
        PROVE  TasksTrue'
    BY <2>2, GotoMoves, OthersKnow DEF Moved, Knows, Unbound, Blank
  <2>3. QED
    BY <1>2, <2>1, <2>2, ReturnKnows DEF PreparePreview
<1>3. CASE PrepareCreateRefused(t) \/ PrepareReport(t)
  BY <1>3, QuietlyJustified, ReturnKnows DEF PrepareCreateRefused, PrepareReport, storeVars
<1>4. CASE PrepareClear(t)
  <2>1. BoundTo(task[t].who, task[t].act) /\ Cleared(task[t].act) /\ task[t].act \in Actions
    BY <1>0, <1>4 DEF PrepareClear, Knows, Unbound, HandleFree
  <2>2. Justified
    BY <1>4, <2>1, WriteJustified DEF PrepareClear, Statuses
  <2>3. ASSUME Goto(t, "p_report")
        PROVE  TasksTrue'
    BY <2>1, <2>3, BoundLasts, GotoMoves, OthersKnow DEF Moved, Knows, Unbound, Blank
  <2>4. QED
    BY <1>4, <2>2, <2>3, ReturnKnows DEF PrepareClear
<1>5. ASSUME NEW a \in Actions, PrepareCreate(t, a)
      PROVE  Justified /\ TasksTrue'
  <2>1. PICK terminal \in BOOLEAN : InsertRow(a, task[t].who, terminal)
    BY <1>5 DEF PrepareCreate
  <2>2. task[t].who \in Principals
    BY <1>5 DEF PrepareCreate, Typed, TaskOK
  <2>3. Justified
    BY <2>1, <2>2, QuietlyJustified
  <2>4. /\ task'[t].at = IF a \in NeedsApproval THEN "p_report" ELSE "p_clear"
        /\ task'[t].act = a
        /\ task'[t].who = task[t].who
        /\ \A u \in Tasks \ {t} : task'[u] = task[u]
    BY <1>5 DEF PrepareCreate, Typed, TypeOK, TaskStates
  <2>5. BoundTo(task[t].who, a)'
    BY <2>1, <2>4 DEF InsertRow, BoundTo, Typed, TypeOK, RowsOK
  <2>6. task'[t].at = "p_clear" => Cleared(a)'
    BY <2>4 DEF Cleared
  <2>7. Knows(task[t])'
    BY <2>4, <2>5, <2>6 DEF Knows, Unbound, Blank
  <2>8. QED
    BY <2>3, <2>4, <2>7, OthersKnow
<1>6. QED
  BY <1>1, <1>2, <1>3, <1>4, <1>5 DEF Prepare

LEMMA ResolveKeeps ==
    ASSUME NEW t \in Tasks, Before(t),
           NEW first \in {"a_resolve", "c_resolve", "s_resolve"},
           NEW next \in {"a_audit", "c_audit", "s_audit"},
           next = "a_audit" <=> first = "a_resolve",
           Resolve(t, first, next)
    PROVE  Justified /\ TasksTrue'
<1> USE DEF Before, Known, Truth
<1>0. PICK a \in Actions, p \in Principals : a = task[t].act /\ p = task[t].who
  BY DEF Typed, TaskOK, Resolve, HandleFree
<1>1. Justified
  BY <1>0, ReadJustified DEF Resolve
<1>2. ASSUME Reads(t), Goto(t, next)
      PROVE  TasksTrue'
  <2>1. BoundTo(p, a)'
    BY <1>0, <1>2, BoundLasts DEF Reads
  <2>2. next \in Blank => task[t].out = NoResult
    BY DEF Resolve, Knows, Blank
  <2>3. QED
    BY <1>0, <1>2, <2>1, <2>2, GotoMoves, OthersKnow DEF Moved, Knows, Unbound, Blank
<1>3. QED
  BY <1>1, <1>2, ReturnKnows DEF Resolve

LEMMA StartAuditKeeps ==
    ASSUME NEW t \in Tasks, Before(t),
           NEW first \in {"a_audit", "c_audit", "s_audit"},
           NEW next \in {"a_check", "c_check", "s_check"},
           next = "c_check" <=> first = "c_audit",
           next = "s_check" <=> first = "s_audit",
           StartAudit(t, first, next)
    PROVE  Justified /\ TasksTrue'
<1> USE DEF Before, Known, Truth
<1>0. PICK a \in Actions, p \in Principals :
        a = task[t].act /\ p = task[t].who /\ BoundTo(p, a)
  BY DEF Typed, TaskOK, StartAudit, HandleFree, Knows, Unbound
<1>1. Justified
  BY QuietlyJustified DEF StartAudit, storeVars
<1>2. ASSUME Goto(t, next), next = "c_check" => Started(a)'
      PROVE  TasksTrue'
  <2>1. next \in Blank => task[t].out = NoResult
    BY DEF StartAudit, Knows, Blank
  <2>2. QED
    BY <1>0, <1>2, <2>1, BoundLasts, GotoMoves, OthersKnow DEF Moved, Knows, Unbound, Blank
<1>3. next = "c_check" /\ journal' = [journal EXCEPT ![a] = @ \cup {"started"}]
        => Started(a)'
  BY <1>0 DEF Started, Typed, TypeOK
<1>4. ~AuditRequired => Started(a)'
  BY DEF Started
<1>5. QED
  BY <1>0, <1>1, <1>2, <1>3, <1>4, ReturnKnows DEF StartAudit, AuditStarts

LEMMA ApproveKeeps ==
    ASSUME NEW t \in Tasks, Before(t), Approve(t)
    PROVE  Justified /\ TasksTrue'
<1> USE DEF Before, Known, Truth
<1>1. CASE ApproveResolve(t)
  BY <1>1, ResolveKeeps DEF ApproveResolve
<1>2. CASE ApproveAudit(t)
  BY <1>2, StartAuditKeeps DEF ApproveAudit
<1>3. CASE ApproveReport(t)
  BY <1>3, QuietlyJustified, ReturnKnows DEF ApproveReport, storeVars
<1>4. CASE ApproveCheck(t) \/ ApproveVerify(t) \/ ApproveWrite(t)
  <2>0. PICK a \in Actions, p \in Principals :
          /\ a = task[t].act
          /\ p = task[t].who
          /\ task[t].key \in Grants
          /\ BoundTo(p, a)
    BY <1>4
    DEF ApproveCheck, ApproveVerify, ApproveWrite, Typed, TaskOK, HandleFree, ApproveSteps,
        Knows, Unbound
  <2>1. Justified
    <3>1. CASE ApproveCheck(t)
      BY <2>0, <3>1, ReadJustified DEF ApproveCheck
    <3>2. CASE ApproveVerify(t)
      BY <3>2, QuietlyJustified DEF ApproveVerify, storeVars
    <3>3. CASE ApproveWrite(t)
      BY <2>0, <3>3, WriteJustified DEF ApproveWrite, Knows, Statuses
    <3>4. QED
      BY <1>4, <3>1, <3>2, <3>3
  <2>2. ASSUME NEW step \in {"a_verify", "a_write", "a_report"}, Goto(t, step),
               step = "a_write" => Cleared(a)'
        PROVE  TasksTrue'
    BY <2>0, <2>2, BoundLasts, GotoMoves, OthersKnow DEF Moved, Knows, Unbound, Blank
  <2>3. ASSUME NEW g \in Grants, Accepts(g, a),
               grant' = [grant EXCEPT ![g].state = "consumed"]
        PROVE  Cleared(a)'
    <3>1. grant[g] = [state |-> "issued", for |-> a]
      BY <2>3 DEF Accepts, Typed, TypeOK, GrantStates
    <3>2. grant'[g] = [state |-> "consumed", for |-> a]
      BY <2>3, <3>1 DEF Typed, TypeOK
    <3>3. QED
      BY <3>2 DEF Cleared
  <2>4. QED
    BY <1>4, <2>0, <2>1, <2>2, <2>3, ReturnKnows DEF ApproveCheck, ApproveVerify, ApproveWrite
<1>5. QED
  BY <1>1, <1>2, <1>3, <1>4 DEF Approve

\* Who holds an answer of the source holds what became of the Action: nothing is
\* sent for a sealed preview.
LEMMA AppliedFits ==
    ASSUME SentTrue, NEW a \in Actions, source[a] = "applied",
           NEW answer \in {"receipt"} \cup LedgerReads
    PROVE  Fits(a, answer)
<1>1. sent[a] > 0
  BY DEF SentTrue
<1>2. ~sealed[a]
  <2>1. CASE sealed[a]
    <3>1. sent[a] = 0
      BY <2>1 DEF SentTrue
    <3>2. QED
      BY <1>1, <3>1
  <2>2. QED
    BY <2>1
<1>3. QED
  BY <1>2 DEF Fits

\* A guarded commit that answers from its fresh preview uses the only claim up.
LEMMA FreshFits ==
    ASSUME Typed, MutationInv, SentTrue, NEW t \in Tasks, CommitExecute(t),
           NEW a \in Actions \cap Guarded, a = task[t].act, sent' = sent,
           task'[t].at = "c_record", \A u \in Tasks \ {t} : task'[u] = task[u]
    PROVE  Fits(a, "fresh")'
<1>1. Executing(t, a)
  BY DEF CommitExecute, Executing
<1>2. UNCHANGED <<status, sealed>>
  BY DEF CommitExecute, storeVars, rowVars
<1>3. sent[a] = 0 /\ status[a] \notin Early /\ ~sealed[a]
  BY <1>1 DEF MutationInv, SentTrue
<1>4. \A u \in Tasks : ~Executing(u, a)'
  <2>1. \A u \in Tasks : Executing(u, a) => u = t
    BY <1>1 DEF MutationInv
  <2>2. QED
    BY <2>1 DEF Executing
<1>5. QED
  BY <1>2, <1>3, <1>4 DEF Fits, Unsent

LEMMA CommitKeeps ==
    ASSUME NEW t \in Tasks, Before(t), Commit(t)
    PROVE  Justified /\ TasksTrue'
<1> USE DEF Before, Known, Truth
<1>1. CASE CommitResolve(t)
  BY <1>1, ResolveKeeps DEF CommitResolve
<1>2. CASE CommitAudit(t)
  BY <1>2, StartAuditKeeps DEF CommitAudit
<1>3. ASSUME ~CommitResolve(t), ~CommitAudit(t)
      PROVE  Justified /\ TasksTrue'
  <2>0. PICK a \in Actions, p \in Principals :
          a = task[t].act /\ p = task[t].who /\ BoundTo(p, a)
    BY <1>3
    DEF Commit, CommitCheck, CommitClaim, CommitExecute, CommitReply, CommitRecord, CommitMark,
        CommitLook, CommitReport, Typed, TaskOK, HandleFree, Knows, Unbound
  <2>1. status[a] # "absent" /\ BoundTo(p, a)'
    BY <2>0, BoundLasts DEF BoundTo
  <2>2. ASSUME NEW step \in {"c_claim", "c_execute", "c_wait", "c_mark", "c_look", "c_report"},
               Goto(t, step),
               step \in {"c_claim", "c_execute"} => Started(a),
               step = "c_execute" => Cleared(a),
               step = "c_report" => task[t].out = result'[a]
        PROVE  TasksTrue'
    <3>1. Moved(t, step, task[t].out)
      BY <2>2, GotoMoves
    <3>2. /\ step \in {"c_claim", "c_execute"} => Started(a)'
          /\ step = "c_execute" => Cleared(a)'
      BY <2>2, ClearedLasts DEF Lasting, OutsideLasts, Started
    <3>3. Knows(task[t])'
      BY <2>0, <2>1, <2>2, <3>1, <3>2 DEF Moved, Knows, Unbound, Blank
    <3>4. QED
      BY <3>1, <3>3, OthersKnow DEF Moved
  <2>3. ASSUME NEW answer, GotoWith(t, "c_record", answer), Fits(a, answer)'
        PROVE  TasksTrue'
    <3>1. Moved(t, "c_record", answer)
      BY <2>3, GotoWithMoves
    <3>2. Knows(task[t])'
      BY <2>0, <2>1, <2>3, <3>1 DEF Moved, Knows, Unbound, Blank
    <3>3. QED
      BY <3>1, <3>2, OthersKnow DEF Moved
  <2>4. ASSUME GotoWith(t, "c_report", result[a]), result[a] # NoResult
        PROVE  TasksTrue'
    <3>1. Moved(t, "c_report", result[a])
      BY <2>4, GotoWithMoves
    <3>2. result'[a] = result[a]
      BY <2>4 DEF Lasting, RowsLast
    <3>3. Knows(task[t])'
      BY <2>0, <2>1, <3>1, <3>2 DEF Moved, Knows, Unbound, Blank
    <3>4. QED
      BY <3>1, <3>3, OthersKnow DEF Moved
  <2>5. CASE CommitCheck(t)
    <3>1. Justified
      BY <2>0, <2>5, ReadJustified DEF CommitCheck
    <3>2. status[a] = "succeeded" => result[a] # NoResult
      BY SuccessFills DEF RowsTrue
    <3>3. Started(a)
      BY <2>0, <2>5 DEF CommitCheck, Knows
    <3>4. QED
      BY <2>0, <2>2, <2>4, <2>5, <3>1, <3>2, <3>3 DEF CommitCheck
  <2>6. CASE CommitClaim(t)
    <3>1. Justified
      BY <2>0, <2>6, WriteJustified DEF CommitClaim, Statuses
    <3>2. Started(a)
      BY <2>0, <2>6 DEF CommitClaim, Knows
    <3>3. status[a] = "approved" => Cleared(a)
      BY DEF RowsTrue
    <3>4. QED
      BY <2>0, <2>2, <2>6, <3>1, <3>2, <3>3 DEF CommitClaim, Writes, Swap
  <2>7. CASE CommitExecute(t)
    <3>1. Justified
      BY <2>7, QuietlyJustified DEF CommitExecute, storeVars
    <3>2. CASE sealed[a] /\ GotoWith(t, "c_record", "sealed")
      <4>1. Fits(a, "sealed")'
        BY <2>7, <3>2 DEF Fits, CommitExecute, storeVars, rowVars
      <4>2. QED
        BY <2>3, <3>1, <3>2, <4>1
    <3>3. CASE a \in Guarded /\ GotoWith(t, "c_record", "fresh") /\ UNCHANGED sourceVars
      <4>1. Fits(a, "fresh")'
        BY <2>0, <2>7, <3>3, GotoWithMoves, FreshFits DEF Moved, sourceVars
      <4>2. QED
        BY <2>3, <3>1, <3>3, <4>1
    <3>4. QED
      BY <2>0, <2>2, <2>7, <3>1, <3>2, <3>3 DEF CommitExecute
  <2>8. CASE CommitReply(t)
    <3>1. Justified
      BY <2>8, QuietlyJustified DEF CommitReply, storeVars
    <3>2. source[a] = "applied" => Fits(a, "receipt")'
      BY <2>1, AppliedFits, FitsLasts
    <3>3. QED
      BY <2>0, <2>2, <2>3, <2>8, <3>1, <3>2 DEF CommitReply
  <2>9. CASE CommitRecord(t)
    <3>1. Fits(a, task[t].out)
      BY <2>0, <2>9 DEF CommitRecord, Knows
    <3>2. Justified
      BY <2>0, <2>9, <3>1, WriteJustified DEF CommitRecord, Statuses
    <3>3. Writes(t, "committing", "succeeded", task[t].out) => task[t].out = result'[a]
      BY <2>0 DEF Writes, Swap, Typed, TypeOK, RowsOK
    <3>4. QED
      BY <2>0, <2>2, <2>9, <3>2, <3>3 DEF CommitRecord
  <2>10. CASE CommitMark(t)
    <3>1. Justified
      BY <2>0, <2>10, WriteJustified DEF CommitMark, Statuses
    <3>2. QED
      BY <2>2, <2>10, <3>1 DEF CommitMark
  <2>11. CASE CommitLook(t)
    BY <2>0, <2>11, ReadJustified, ReturnKnows DEF CommitLook
  <2>12. CASE CommitReport(t)
    BY <2>12, QuietlyJustified, ReturnKnows DEF CommitReport, storeVars
  <2>13. QED
    BY <1>3, <2>5, <2>6, <2>7, <2>8, <2>9, <2>10, <2>11, <2>12 DEF Commit
<1>4. QED
  BY <1>1, <1>2, <1>3

LEMMA StatusKeeps ==
    ASSUME NEW t \in Tasks, Before(t), Status(t)
    PROVE  Justified /\ TasksTrue'
<1> USE DEF Before, Known, Truth
<1>1. CASE StatusResolve(t)
  BY <1>1, ResolveKeeps DEF StatusResolve
<1>2. CASE StatusAudit(t)
  BY <1>2, StartAuditKeeps DEF StatusAudit
<1>3. ASSUME ~StatusResolve(t), ~StatusAudit(t)
      PROVE  Justified /\ TasksTrue'
  <2>0. PICK a \in Actions, p \in Principals :
          a = task[t].act /\ p = task[t].who /\ BoundTo(p, a)
    BY <1>3
    DEF Status, StatusCheck, StatusQuery, StatusWrite, StatusAgain, StatusReport, Typed,
        TaskOK, HandleFree, Knows, Unbound
  <2>1. status[a] # "absent" /\ BoundTo(p, a)'
    BY <2>0, BoundLasts DEF BoundTo
  <2>2. ASSUME NEW step \in {"s_query", "s_again", "s_report"}, Goto(t, step),
               step = "s_query" => task[t].out = NoResult,
               step = "s_report" => task[t].out \in {NoResult, result'[a]}
        PROVE  TasksTrue'
    <3>1. Moved(t, step, task[t].out)
      BY <2>2, GotoMoves
    <3>2. Knows(task[t])'
      BY <2>0, <2>1, <2>2, <3>1 DEF Moved, Knows, Unbound, Blank
    <3>3. QED
      BY <3>1, <3>2, OthersKnow DEF Moved
  <2>3. ASSUME NEW answer, GotoWith(t, "s_write", answer), Fits(a, answer)
        PROVE  TasksTrue'
    <3>1. Moved(t, "s_write", answer)
      BY <2>3, GotoWithMoves
    <3>2. Fits(a, answer)'
      BY <2>1, <2>3, FitsLasts
    <3>3. Knows(task[t])'
      BY <2>0, <2>1, <3>1, <3>2 DEF Moved, Knows, Unbound, Blank
    <3>4. QED
      BY <3>1, <3>3, OthersKnow DEF Moved
  <2>4. ASSUME GotoWith(t, "s_report", result[a]), result[a] # NoResult
        PROVE  TasksTrue'
    <3>1. Moved(t, "s_report", result[a])
      BY <2>4, GotoWithMoves
    <3>2. result'[a] = result[a]
      BY <2>4 DEF Lasting, RowsLast
    <3>3. Knows(task[t])'
      BY <2>0, <2>1, <3>1, <3>2 DEF Moved, Knows, Unbound, Blank
    <3>4. QED
      BY <3>1, <3>3, OthersKnow DEF Moved
  <2>5. status[a] = "succeeded" => result[a] # NoResult
    BY SuccessFills DEF RowsTrue
  <2>6. CASE StatusCheck(t)
    <3>1. Justified
      BY <2>0, <2>6, ReadJustified DEF StatusCheck
    <3>2. task[t].out = NoResult
      BY <2>6 DEF StatusCheck, Knows, Blank
    <3>3. QED
      BY <2>0, <2>2, <2>4, <2>5, <2>6, <3>1, <3>2, ReturnKnows DEF StatusCheck
  <2>7. CASE StatusQuery(t)
    <3>1. Justified
      BY <2>7, QuietlyJustified DEF StatusQuery, storeVars
    <3>2. task[t].out = NoResult
      BY <2>7 DEF StatusQuery, Knows, Blank
    <3>3. source[a] = "applied" => \A answer \in LedgerReads : Fits(a, answer)
      BY AppliedFits
    <3>4. QED
      BY <2>0, <2>2, <2>3, <2>7, <3>1, <3>2, <3>3, ReturnKnows DEF StatusQuery
  <2>8. CASE StatusWrite(t)
    <3>1. Fits(a, task[t].out)
      BY <2>0, <2>8 DEF StatusWrite, Knows
    <3>2. Justified
      BY <2>0, <2>8, <3>1, WriteJustified, QuietlyJustified
      DEF StatusWrite, WriteRefused, ReadRefused, Statuses, storeVars
    <3>3. Writes(t, "outcome_unknown", "succeeded", task[t].out) => task[t].out = result'[a]
      BY <2>0 DEF Writes, Swap, Typed, TypeOK, RowsOK
    <3>4. QED
      BY <2>0, <2>2, <2>8, <3>2, <3>3, ReturnKnows DEF StatusWrite
  <2>9. CASE StatusAgain(t)
    <3>1. Justified
      BY <2>0, <2>9, ReadJustified DEF StatusAgain
    <3>2. QED
      BY <2>0, <2>4, <2>5, <2>9, <3>1, ReturnKnows DEF StatusAgain
  <2>10. CASE StatusReport(t)
    BY <2>10, QuietlyJustified, ReturnKnows DEF StatusReport, storeVars
  <2>11. QED
    BY <1>3, <2>6, <2>7, <2>8, <2>9, <2>10 DEF Status
<1>4. QED
  BY <1>1, <1>2, <1>3

LEMMA ClientKeeps ==
    ASSUME NEW t \in Tasks, Before(t), Client(t)
    PROVE  Justified /\ TasksTrue'
<1> USE DEF Before, Known, Truth
<1>1. ASSUME NEW p \in Principals, PrepareCalled(t, p)
      PROVE  Justified /\ TasksTrue'
  <2>1. task'[t].at = "p_audit" /\ \A u \in Tasks \ {t} : task'[u] = task[u]
    BY <1>1 DEF PrepareCalled, Typed, TypeOK, IdleTask
  <2>2. Knows(task[t])'
    BY <2>1 DEF Knows, Unbound, Blank
  <2>3. QED
    BY <1>1, <2>1, <2>2, OthersKnow, QuietlyJustified DEF PrepareCalled, storeVars
<1>2. ASSUME NEW p, NEW a, NEW g, NEW first \in {"a_resolve", "c_resolve", "s_resolve"},
             Called(t, p, a, g, first)
      PROVE  Justified /\ TasksTrue'
  <2>1. /\ task'[t].at = first
        /\ task'[t].out = NoResult
        /\ \A u \in Tasks \ {t} : task'[u] = task[u]
    BY <1>2 DEF Called, Typed, TypeOK
  <2>2. Knows(task[t])'
    BY <2>1 DEF Knows, Unbound, Blank
  <2>3. QED
    BY <1>2, <2>1, <2>2, OthersKnow, QuietlyJustified DEF Called, storeVars
<1>3. QED
  BY <1>1, <1>2 DEF Client, ApproveCalled, CommitCalled, StatusCalled

LEMMA InterruptKeeps ==
    ASSUME NEW t \in Tasks, Before(t), Interrupt(t)
    PROVE  Justified /\ TasksTrue'
<1> USE DEF Before, Known, Truth
<1>1. CASE Cancel(t)
  <2>1. Justified
    BY <1>1, QuietlyJustified DEF Cancel
  <2>2. CASE AfterCancel(task[t].at) = "idle"
    BY <1>1, <2>1, <2>2, ReturnKnows DEF Cancel
  <2>3. CASE AfterCancel(task[t].at) # "idle"
    <3>1. /\ AfterCancel(task[t].at) \in {"c_mark", "c_look"}
          /\ task[t].at \notin Unbound
          /\ task[t].at \notin HandleFree
      BY <2>3 DEF AfterCancel, Unbound, HandleFree
    <3>2. PICK a \in Actions, p \in Principals :
            a = task[t].act /\ p = task[t].who /\ BoundTo(p, a)
      BY <3>1 DEF Typed, TaskOK, Knows, HandleFree
    <3>3. Moved(t, AfterCancel(task[t].at), task[t].out)
      BY <1>1, <2>3, GotoMoves DEF Cancel
    <3>4. BoundTo(p, a)'
      BY <3>2, BoundLasts
    <3>5. Knows(task[t])'
      BY <3>1, <3>2, <3>3, <3>4 DEF Moved, Knows, Unbound, Blank
    <3>6. QED
      BY <2>1, <3>3, <3>5, OthersKnow DEF Moved
  <2>4. QED
    BY <2>2, <2>3
<1>2. CASE CancelAfterVerify(t) \/ Crash(t)
  BY <1>2, QuietlyJustified, ReturnKnows DEF CancelAfterVerify, Crash, storeVars
<1>3. ASSUME NEW a \in Actions, CancelAfterInsert(t, a)
      PROVE  Justified /\ TasksTrue'
  <2>1. task[t].who \in Principals
    BY <1>3 DEF CancelAfterInsert, Typed, TaskOK
  <2>2. QED
    BY <1>3, <2>1, QuietlyJustified, ReturnKnows DEF CancelAfterInsert
<1>4. QED
  BY <1>1, <1>2, <1>3 DEF Interrupt

LEMMA EnvironmentKeeps ==
    ASSUME Known, Lasting,
           \/ Host
           \/ \E a \in Actions : Source(a)
           \/ \E w \in late : LateWrite(w) \/ CrashLosesWrite(w)
           \/ Tick
           \/ UNCHANGED vars
    PROVE  Justified /\ TasksTrue'
<1> USE DEF Known, Truth
<1>1. TasksTrue'
  <2>1. task' = task
    BY DEF Host, GrantLapses, IssueGrant, Source, SourceApplies, SourceLoses, LateWrite,
           CrashLosesWrite, Tick, vars
  <2>2. \A u \in Tasks : task[u].act \in Actions \/ task[u].at \in HandleFree
    BY DEF Typed, TaskOK
  <2>3. QED
    BY <2>1, <2>2, KnowledgeLasts DEF TasksTrue
<1>2. ASSUME NEW w \in late, LateWrite(w)
      PROVE  Justified
  <2>1. w.act \in Actions /\ w.from \in Statuses /\ w.to \in Statuses
    BY DEF Typed, TypeOK, LateWrites
  <2>2. w.from = "prepared" => Cleared(w.act)
    BY DEF LateTrue, WriteTrue
  <2>3. w.to = "succeeded" => Fits(w.act, w.out)
    BY DEF LateTrue, WriteTrue
  <2>4. CASE Swap(w.act, w.from, w.to, w.out)
    BY <2>1, <2>2, <2>3, <2>4, SwapJustified
  <2>5. QED
    BY <1>2, <2>1, <2>4, QuietlyJustified DEF LateWrite
<1>3. ASSUME UNCHANGED rowVars
      PROVE  Justified
  BY <1>3, QuietlyJustified DEF rowVars
<1>4. QED
  BY <1>1, <1>2, <1>3
  DEF Host, GrantLapses, IssueGrant, Source, SourceApplies, SourceLoses, CrashLosesWrite,
      Tick, storeVars, vars

LEMMA StepLasts ==
    ASSUME Known, [Next]_vars
    PROVE  RowStep /\ Lasting
BY StepTyped, RowsPersist, OutsidePersists, UnsentPersists DEF Known, Truth, Lasting

LEMMA StepKnows ==
    ASSUME Known, [Next]_vars
    PROVE  RowsTrue' /\ TasksTrue'
<1>1. \A t \in Tasks : Before(t)
  BY StepLasts DEF Before, Known, Truth, TasksTrue
<1>2. Justified /\ TasksTrue'
  BY <1>1, StepLasts, ClientKeeps, PrepareKeeps, ApproveKeeps, CommitKeeps, StatusKeeps,
     InterruptKeeps, EnvironmentKeeps
  DEF Next, Advance
<1>3. QED
  BY <1>2, StepLasts, RowsKept DEF Known, Truth

-----------------------------------------------------------------------------
(* Abandoned writes, the source and the clients *)

LEMMA WriteLasts ==
    ASSUME Lasting, NEW w \in LateWrites, WriteTrue(w)
    PROVE  WriteTrue(w)'
<1>0. w.act \in Actions
  BY DEF LateWrites
<1>1. status'[w.act] # "absent"
  BY <1>0 DEF WriteTrue, Lasting, RowsLast
<1>2. w.from = "prepared" => Cleared(w.act)'
  BY <1>0, ClearedLasts DEF WriteTrue
<1>3. w.to = "succeeded" => Fits(w.act, w.out)'
  BY <1>0, FitsLasts DEF WriteTrue
<1>4. QED
  BY <1>1, <1>2, <1>3 DEF WriteTrue

\* A coroutine awaits only writes it has the right to.
LEMMA PendingTrue ==
    ASSUME Typed, NEW t \in Tasks, Knows(task[t]), NEW w \in Pending(t)
    PROVE  WriteTrue(w)
<1> DEFINE a == task[t].act
           write(from, to) == [act |-> a, from |-> from, to |-> to, out |-> task[t].out]
<1>1. CASE task[t].at \in {"p_clear", "a_write"}
  <2>1. w = write("prepared", "approved")
    BY <1>1 DEF Pending
  <2>2. BoundTo(task[t].who, a) /\ Cleared(a)
    BY <1>1 DEF Knows, Unbound
  <2>3. QED
    BY <2>1, <2>2 DEF WriteTrue, BoundTo
<1>2. CASE task[t].at \in {"c_claim", "c_mark"}
  <2>1. w \in {write("approved", "committing"), write("committing", "outcome_unknown")}
    BY <1>2 DEF Pending
  <2>2. BoundTo(task[t].who, a)
    BY <1>2 DEF Knows, Unbound
  <2>3. QED
    BY <2>1, <2>2 DEF WriteTrue, BoundTo
<1>3. CASE task[t].at \in {"c_record", "s_write"}
  <2>1. w \in {write("committing", "succeeded"), write("outcome_unknown", "succeeded")}
    BY <1>3 DEF Pending
  <2>2. BoundTo(task[t].who, a) /\ Fits(a, task[t].out)
    BY <1>3 DEF Knows, Unbound
  <2>3. QED
    BY <2>1, <2>2 DEF WriteTrue, BoundTo
<1>4. QED
  BY <1>1, <1>2, <1>3 DEF Pending

LEMMA StepsOfLate ==
    ASSUME [Next]_vars
    PROVE  late' \subseteq late \/ \E t \in Tasks : late' \subseteq late \cup Pending(t)
<1>1. ASSUME NEW t \in Tasks, Client(t)
      PROVE  late' = late
  BY <1>1 DEF Client, PrepareCalled, ApproveCalled, CommitCalled, StatusCalled, Called,
              storeVars
<1>2. ASSUME NEW t \in Tasks, Prepare(t)
      PROVE  late' = late
  BY <1>2 DEF Prepare, PrepareAudit, PreparePreview, PrepareCreate, PrepareCreateRefused,
              PrepareClear, PrepareReport, InsertRow, Writes, WriteRefused, ReadRefused,
              ReadExpires, Conflicts, storeVars
<1>3. ASSUME NEW t \in Tasks, Approve(t)
      PROVE  late' = late
  BY <1>3 DEF Approve, ApproveResolve, ApproveAudit, ApproveCheck, ApproveVerify,
              ApproveWrite, ApproveReport, Resolve, StartAudit, Reads, Writes, WriteRefused,
              ReadRefused, ReadExpires, Conflicts, storeVars
<1>4. ASSUME NEW t \in Tasks, Commit(t)
      PROVE  late' = late
  BY <1>4 DEF Commit, CommitResolve, CommitAudit, CommitCheck, CommitClaim, CommitExecute,
              CommitReply, CommitRecord, CommitMark, CommitLook, CommitReport, Resolve,
              StartAudit, Reads, Writes, WriteRefused, ReadRefused, ReadExpires, Conflicts,
              storeVars
<1>5. ASSUME NEW t \in Tasks, Status(t)
      PROVE  late' = late
  BY <1>5 DEF Status, StatusResolve, StatusAudit, StatusCheck, StatusQuery, StatusWrite,
              StatusAgain, StatusReport, Resolve, StartAudit, Reads, Writes, ReadRefused,
              ReadExpires, Conflicts, storeVars
<1>6. ASSUME NEW t \in Tasks, Interrupt(t)
      PROVE  late' \subseteq late \cup Pending(t)
  BY <1>6 DEF Interrupt, Cancel, CancelAfterVerify, Crash, CancelAfterInsert, InsertRow,
              storeVars
<1>7. QED
  BY <1>1, <1>2, <1>3, <1>4, <1>5, <1>6
  DEF Next, Advance, Host, GrantLapses, IssueGrant, Source, SourceApplies, SourceLoses,
      LateWrite, CrashLosesWrite, Tick, vars, storeVars

LEMMA StepLate ==
    ASSUME Known, [Next]_vars
    PROVE  LateTrue'
<1>1. ASSUME NEW w \in late' PROVE WriteTrue(w)
  BY StepsOfLate, PendingTrue DEF Known, Truth, LateTrue, TasksTrue
<1>2. late' \subseteq LateWrites
  BY StepTyped DEF Known, Typed, TypeOK
<1>3. QED
  BY <1>1, <1>2, StepLasts, WriteLasts DEF LateTrue

\* A row is sealed as it is inserted, before anything is sent for it, and only
\* if its capability has no guard.
LEMMA SealedBefore ==
    ASSUME Typed, MutationInv, RowStep, NEW a \in Actions, sealed'[a]
    PROVE  sealed[a] \/ (sent[a] = 0 /\ a \notin Guarded)
<1>0. RowsOK
  BY DEF Typed, TypeOK
<1>1. ASSUME NEW b \in Actions, NEW p \in Principals, NEW terminal \in BOOLEAN,
             InsertRow(b, p, terminal)
      PROVE  sealed[a] \/ (sent[a] = 0 /\ a \notin Guarded)
  <2>1. CASE b = a
    BY <1>1, <2>1 DEF InsertRow, MutationInv, Early
  <2>2. CASE b # a
    BY <1>0, <1>1, <2>2 DEF InsertRow, RowsOK
  <2>3. QED
    BY <2>1, <2>2
<1>2. QED
  BY <1>1 DEF RowStep, Swap, rowVars

\* Only the executor sends, and only the source decides.
SourceStep ==
    \/ UNCHANGED sourceVars
    \/ \E t \in Tasks : CommitExecute(t)
    \/ \E a \in Actions : Source(a)

LEMMA StepsOfSource == ASSUME [Next]_vars PROVE SourceStep
<1>1. ASSUME NEW t \in Tasks, Client(t) PROVE UNCHANGED sourceVars
  BY <1>1 DEF Client, PrepareCalled, ApproveCalled, CommitCalled, StatusCalled, Called
<1>2. ASSUME NEW t \in Tasks, Prepare(t) PROVE UNCHANGED sourceVars
  BY <1>2 DEF Prepare, PrepareAudit, PreparePreview, PrepareCreate, PrepareCreateRefused,
              PrepareClear, PrepareReport
<1>3. ASSUME NEW t \in Tasks, Approve(t) PROVE UNCHANGED sourceVars
  BY <1>3 DEF Approve, ApproveResolve, ApproveAudit, ApproveCheck, ApproveVerify,
              ApproveWrite, ApproveReport, Resolve, StartAudit
<1>4. ASSUME NEW t \in Tasks, Commit(t) PROVE UNCHANGED sourceVars \/ CommitExecute(t)
  BY <1>4 DEF Commit, CommitResolve, CommitAudit, CommitCheck, CommitClaim, CommitReply,
              CommitRecord, CommitMark, CommitLook, CommitReport, Resolve, StartAudit
<1>5. ASSUME NEW t \in Tasks, Status(t) PROVE UNCHANGED sourceVars
  BY <1>5 DEF Status, StatusResolve, StatusAudit, StatusCheck, StatusQuery, StatusWrite,
              StatusAgain, StatusReport, Resolve, StartAudit
<1>6. ASSUME NEW t \in Tasks, Interrupt(t) PROVE UNCHANGED sourceVars
  BY <1>6 DEF Interrupt, Cancel, CancelAfterVerify, Crash, CancelAfterInsert
<1>7. CASE Tick \/ Host \/ \E w \in late : LateWrite(w) \/ CrashLosesWrite(w)
  BY <1>7 DEF Tick, Host, GrantLapses, IssueGrant, LateWrite, CrashLosesWrite, SourceStep
<1>8. CASE UNCHANGED vars
  BY <1>8 DEF vars, SourceStep
<1>9. QED
  BY <1>1, <1>2, <1>3, <1>4, <1>5, <1>6, <1>7, <1>8 DEF Next, Advance, SourceStep

LEMMA StepSent ==
    ASSUME Known, [Next]_vars
    PROVE  SentTrue'
<1> USE DEF Known, Truth
<1>0. /\ sent \in [Actions -> Nat]
      /\ source \in [Actions -> {"clean", "inflight", "applied", "lost"}]
  BY DEF Typed, TypeOK
<1>1. SUFFICES ASSUME NEW a \in Actions
               PROVE  /\ sent'[a] > 0 => Cleared(a)' /\ Started(a)'
                      /\ source'[a] # "clean" => sent'[a] > 0
                      /\ sealed'[a] => sent'[a] = 0 /\ a \notin Guarded
  BY DEF SentTrue
<1>2. Lasting /\ RowStep
  BY StepLasts
<1>3. Cleared(a) /\ Started(a) => Cleared(a)' /\ Started(a)'
  BY <1>2, ClearedLasts DEF Lasting, OutsideLasts, Started
<1>4. ASSUME sent'[a] = sent[a], source[a] = "clean" => source'[a] = "clean"
      PROVE  /\ sent'[a] > 0 => Cleared(a)' /\ Started(a)'
             /\ source'[a] # "clean" => sent'[a] > 0
             /\ sealed'[a] => sent'[a] = 0 /\ a \notin Guarded
  BY <1>2, <1>3, <1>4, SealedBefore DEF SentTrue
<1>5. ASSUME NEW t \in Tasks, CommitExecute(t), UNCHANGED sourceVars \/ task[t].act # a
      PROVE  sent'[a] = sent[a] /\ source'[a] = source[a]
  BY <1>0, <1>5 DEF CommitExecute, sourceVars
<1>6. ASSUME NEW t \in Tasks, CommitExecute(t), ~UNCHANGED sourceVars, task[t].act = a
      PROVE  /\ sent'[a] > 0 /\ Cleared(a)' /\ Started(a)'
             /\ ~sealed'[a]
  <2>1. Cleared(a) /\ Started(a)
    BY <1>6 DEF CommitExecute, TasksTrue, Knows
  <2>2. sent' = [sent EXCEPT ![a] = @ + 1] /\ ~sealed[a] /\ sealed' = sealed
    BY <1>6 DEF CommitExecute, storeVars, rowVars
  <2>3. sent'[a] > 0
    BY <1>0, <2>2
  <2>4. QED
    BY <1>3, <2>1, <2>2, <2>3
<1>7. ASSUME NEW b \in Actions, Source(b)
      PROVE  sent'[a] = sent[a] /\ (source[a] = "clean" => source'[a] = "clean")
  BY <1>0, <1>7 DEF Source, SourceApplies, SourceLoses
<1>8. SourceStep
  BY StepsOfSource
<1>9. QED
  BY <1>4, <1>5, <1>6, <1>7, <1>8 DEF SourceStep, sourceVars

\* Only commit and status tell a client a result.
ToldStep == told' = told \/ \E t \in Tasks : CommitReport(t) \/ StatusReport(t)

LEMMA StepsOfTold == ASSUME [Next]_vars PROVE ToldStep
<1>1. ASSUME NEW t \in Tasks, Client(t) PROVE told' = told
  BY <1>1 DEF Client, PrepareCalled, ApproveCalled, CommitCalled, StatusCalled, Called,
              clientVars
<1>2. ASSUME NEW t \in Tasks, Prepare(t) PROVE told' = told
  BY <1>2 DEF Prepare, PrepareAudit, PreparePreview, PrepareCreate, PrepareCreateRefused,
              PrepareClear, PrepareReport, clientVars
<1>3. ASSUME NEW t \in Tasks, Approve(t) PROVE told' = told
  BY <1>3 DEF Approve, ApproveResolve, ApproveAudit, ApproveCheck, ApproveVerify,
              ApproveWrite, ApproveReport, Resolve, StartAudit, clientVars
<1>4. ASSUME NEW t \in Tasks, Commit(t) PROVE told' = told \/ CommitReport(t)
  BY <1>4 DEF Commit, CommitResolve, CommitAudit, CommitCheck, CommitClaim, CommitExecute,
              CommitReply, CommitRecord, CommitMark, CommitLook, Resolve, StartAudit,
              clientVars
<1>5. ASSUME NEW t \in Tasks, Status(t) PROVE told' = told \/ StatusReport(t)
  BY <1>5 DEF Status, StatusResolve, StatusAudit, StatusCheck, StatusQuery, StatusWrite,
              StatusAgain, Resolve, StartAudit, clientVars
<1>6. ASSUME NEW t \in Tasks, Interrupt(t) PROVE told' = told
  BY <1>6 DEF Interrupt, Cancel, CancelAfterVerify, Crash, CancelAfterInsert, clientVars
<1>7. CASE \/ Tick \/ Host \/ \E a \in Actions : Source(a)
           \/ \E w \in late : LateWrite(w) \/ CrashLosesWrite(w)
  BY <1>7 DEF Tick, Host, GrantLapses, IssueGrant, Source, SourceApplies, SourceLoses,
              LateWrite, CrashLosesWrite, clientVars, ToldStep
<1>8. CASE UNCHANGED vars
  BY <1>8 DEF vars, clientVars, ToldStep
<1>9. QED
  BY <1>1, <1>2, <1>3, <1>4, <1>5, <1>6, <1>7, <1>8 DEF Next, Advance, ToldStep

LEMMA StepTold ==
    ASSUME Known, [Next]_vars
    PROVE  ToldTrue'
<1> USE DEF Known, Truth
<1>0. /\ told \in [Actions -> SUBSET (Principals \X {"commit", "status"} \X Results)]
      /\ journal \in [Actions -> SUBSET {"started", "reported"}]
  BY DEF Typed, TypeOK
<1>1. DEFINE Tellable(a, answer) ==
        /\ status'[a] # "absent" /\ answer[1] = owner'[a]
        /\ answer[3] # NoResult /\ answer[3] = result'[a]
        /\ AuditRequired /\ answer[2] = "commit" => "reported" \in journal'[a]
<1>2. Lasting
  BY StepLasts
<1>3. ASSUME NEW a \in Actions, NEW answer \in told[a]
      PROVE  Tellable(a, answer)
  BY <1>2, <1>3 DEF ToldTrue, Lasting, RowsLast, OutsideLasts
<1>4. ASSUME NEW t \in Tasks, CommitReport(t) \/ StatusReport(t),
             NEW a \in Actions, NEW answer \in told'[a]
      PROVE  Tellable(a, answer)
  <2>1. PICK operation \in {"commit", "status"} :
          /\ told' = told \/ Tells(t, operation)
          /\ operation = "commit" /\ AuditRequired /\ told' # told =>
                journal' = [journal EXCEPT ![task[t].act] = @ \cup {"reported"}]
    BY <1>4 DEF CommitReport, StatusReport
  <2>2. /\ task[t].act \in Actions
        /\ BoundTo(task[t].who, task[t].act)
        /\ task[t].out \in {NoResult, result[task[t].act]}
        /\ UNCHANGED rowVars
    BY <1>4 DEF CommitReport, StatusReport, Typed, TaskOK, HandleFree, TasksTrue, Knows,
                Unbound, storeVars
  <2>3. CASE answer \in told[a]
    BY <1>3, <2>3
  <2>4. CASE answer \notin told[a]
    <3>1. /\ told' # told
          /\ Tells(t, operation)
          /\ task[t].out # NoResult
          /\ task[t].act = a
          /\ answer = <<task[t].who, operation, task[t].out>>
      BY <1>0, <1>4, <2>1, <2>4 DEF Tells
    <3>2. status'[a] # "absent" /\ answer[1] = owner'[a]
      BY <2>2, <3>1 DEF BoundTo, rowVars
    <3>3. answer[3] # NoResult /\ answer[3] = result'[a]
      BY <2>2, <3>1 DEF rowVars
    <3>4. AuditRequired /\ answer[2] = "commit" => "reported" \in journal'[a]
      BY <1>0, <2>1, <3>1
    <3>5. QED
      BY <3>2, <3>3, <3>4
  <2>5. QED
    BY <2>3, <2>4
<1>5. \A a \in Actions : \A answer \in told'[a] : Tellable(a, answer)
  BY <1>3, <1>4, StepsOfTold DEF ToldStep
<1>6. QED
  BY <1>5 DEF ToldTrue

LEMMA InitKnown == Init => Known
<1> SUFFICES ASSUME Init PROVE Known
  OBVIOUS
<1>1. Typed
  BY InitTyped
<1>2. MutationInv
  BY DEF Init, MutationInv, Executing, IdleTask, Early
<1>3. RowsTrue /\ SentTrue /\ ToldTrue /\ LateTrue
  BY DEF Init, RowsTrue, SentTrue, ToldTrue, LateTrue
<1>4. TasksTrue
  BY DEF Init, TasksTrue, Knows, IdleTask, Unbound, Blank
<1>5. QED
  BY <1>1, <1>2, <1>3, <1>4 DEF Known, Truth

LEMMA AlwaysKnown == Spec => []Known
<1>1. Known /\ [Next]_vars => Known'
  BY StepTyped, MutationInvHolds, StepKnows, StepLate, StepSent, StepTold DEF Known, Truth
<1>2. QED
  BY InitKnown, <1>1, PTL DEF Spec

-----------------------------------------------------------------------------
(* Theorems *)

\* A success is never a guess: _commit records what executor.commit returned and
\* _status what the source's ledger showed. A receipt and a ledger entry prove that
\* the source applied the mutation; with a terminal preview, sealed by prepare or
\* read again by a guarded commit, nothing was sent.
THEOREM SuccessReal == Spec => []SuccessIsReal
<1>1. Known => SuccessIsReal
  BY DEF Known, Truth, RowsTrue, SentTrue, Fits, Unsent, SuccessIsReal
<1>2. QED
  BY AlwaysKnown, <1>1, PTL

\* No two callers are ever told different results of an Action, whoever commits,
\* replays or recovers it: a status() that loses its write answers with the
\* durable result it reads again.
THEOREM AnswersAgreed == Spec => []AnswersAgree
<1>1. Known => AnswersAgree
  BY DEF Known, Truth, ToldTrue, AnswersAgree
<1>2. QED
  BY AlwaysKnown, <1>1, PTL

\* However often a handle is passed around, its result reaches the principal and
\* session that prepared it and nobody else: every resolve checks the binding.
THEOREM OwnersOnly == Spec => []OnlyOwnerIsTold
<1>1. Known => OnlyOwnerIsTold
  BY DEF Known, Truth, ToldTrue, OnlyOwnerIsTold
<1>2. QED
  BY AlwaysKnown, <1>1, PTL

\* With required audit the sink has the start of every commit before the mutation
\* leaves, and its end before the client has an answer (the span of coordinator.py).
THEOREM AuditBrackets == Spec => []RequiredAuditBrackets
<1>1. Known => RequiredAuditBrackets
  BY DEF Known, Truth, ToldTrue, SentTrue, Started, RequiredAuditBrackets
<1>2. QED
  BY AlwaysKnown, <1>1, PTL

\* No row of a capability with approval_required passes PREPARED, and no mutation
\* of it leaves, without an approval that was consumed for that Action.
THEOREM ApprovalFirst == Spec => []ApprovalPrecedesMutation
<1>1. Known => ApprovalPrecedesMutation
  BY ConstantsOK DEF Known, Truth, RowsTrue, SentTrue, Cleared, ApprovalPrecedesMutation
<1>2. QED
  BY AlwaysKnown, <1>1, PTL

\* The durable result is written once, with the status that says so: only the
\* swap to SUCCEEDED carries result_payload, and nothing leads out of SUCCEEDED
\* but expiry.
THEOREM ResultOnce == Spec => ResultIsWrittenOnce
<1> DEFINE Written(a) == result'[a] # result[a] =>
               result[a] = NoResult /\ status'[a] = "succeeded"
<1>1. ASSUME Known, RowStep, NEW a \in Actions
      PROVE  Written(a)
  <2>0. RowsOK /\ RowsTrue
    BY <1>1 DEF Known, Truth, Typed, TypeOK
  <2>1. CASE UNCHANGED result
    BY <2>1
  <2>2. ASSUME NEW b \in Actions, NEW from \in Statuses, NEW to \in Statuses,
               NEW answer \in Answers, Swap(b, from, to, answer)
        PROVE  Written(a)
    BY <2>0, <2>2 DEF RowsOK, RowsTrue, Swap, AllowedTransitions
  <2>3. QED
    BY <1>1, <2>1, <2>2 DEF RowStep, InsertRow, rowVars
<1>2. Known /\ [Next]_vars => [\A a \in Actions : Written(a)]_vars
  BY <1>1, StepTyped DEF Known
<1>3. QED
  BY AlwaysKnown, <1>2, PTL DEF Spec, ResultIsWrittenOnce

-----------------------------------------------------------------------------
(* The refinement: who holds the claim on a row                            *)

\* The awaits of commit past its claim.
Holds == {"c_execute", "c_wait", "c_record", "c_mark"}

Holding(t, a) == task[t].act = a /\ task[t].at \in Holds

\* The coroutine awaits the write of the outcome.
Settling(t, a) == task[t].act = a /\ task[t].at \in {"c_record", "c_mark"}

\* The outcome of a is in a write whose caller was cancelled.
Abandoned(a) == \E w \in late : w.act = a /\ w.from = "committing"

HolderInv ==
    \A a \in Actions :
        /\ status[a] \in Early => ~Abandoned(a) /\ \A t \in Tasks : ~Holding(t, a)
        /\ \A t, u \in Tasks : Holding(t, a) /\ Holding(u, a) => t = u
        /\ \A t \in Tasks : Executing(t, a) =>
              status[a] \in {"committing", "expired"} /\ ~Abandoned(a)

-----------------------------------------------------------------------------
(* Where an outcome comes from *)

LateFromHolder ==
    \A a \in Actions : Abandoned(a)' => Abandoned(a) \/ \E t \in Tasks : Settling(t, a)

LEMMA LateSource ==
    ASSUME Typed, [Next]_vars
    PROVE  LateFromHolder
<1>1. SUFFICES ASSUME NEW a \in Actions, NEW w \in late', w.act = a, w.from = "committing",
                      w \notin late
               PROVE  \E t \in Tasks : Settling(t, a)
  BY DEF LateFromHolder, Abandoned
<1>2. PICK t \in Tasks : w \in Pending(t)
  BY <1>1, StepsOfLate
<1>3. Settling(t, a)
  <2>1. CASE task[t].at \in {"p_clear", "a_write", "c_claim", "s_write"}
    BY <1>1, <1>2, <2>1 DEF Pending
  <2>2. CASE task[t].at \in {"c_record", "c_mark"}
    BY <1>1, <1>2, <2>2 DEF Pending, Settling
  <2>3. QED
    BY <1>2, <2>1, <2>2 DEF Pending
<1>4. QED
  BY <1>3

\* A committing row stays as it is or expires.
Gentle == \A a \in Actions : status[a] = "committing" => status'[a] \in {"committing", "expired"}

RowFromHolder ==
    \A a \in Actions : status[a] = "committing" =>
        \/ status'[a] \in {"committing", "expired"}
        \/ Abandoned(a)
        \/ \E t \in Tasks : Settling(t, a)

LEMMA GentleRows ==
    ASSUME Typed,
           \/ UNCHANGED rowVars
           \/ \E a \in Actions : status' = [status EXCEPT ![a] = "expired"]
           \/ \E a \in Actions, p \in Principals, terminal \in BOOLEAN :
                InsertRow(a, p, terminal)
    PROVE  Gentle
BY DEF Typed, TypeOK, RowsOK, Gentle, InsertRow, AfterSweep, rowVars

LEMMA GentleSwap ==
    ASSUME Typed, NEW a \in Actions, NEW from, NEW to, NEW answer, Swap(a, from, to, answer),
           from # "committing"
    PROVE  Gentle
BY DEF Typed, TypeOK, RowsOK, Gentle, Swap

LEMMA GentleReads ==
    ASSUME Typed, NEW t \in Tasks, task[t].act \in Actions, Reads(t) \/ ReadRefused(t)
    PROVE  Gentle
BY GentleRows DEF Reads, ReadRefused, ReadExpires, storeVars

LEMMA GentleWrites ==
    ASSUME Typed, NEW t \in Tasks, task[t].act \in Actions, NEW from, NEW to, NEW answer,
           Writes(t, from, to, answer) \/ WriteRefused(t, from), from # "committing"
    PROVE  Gentle
BY GentleReads, GentleSwap, GentleRows DEF Writes, WriteRefused, Conflicts, storeVars

\* The holder's own write changes no other row.
LEMMA HolderWrites ==
    ASSUME Typed, NEW t \in Tasks, task[t].act \in Actions,
           task[t].at \in {"c_record", "c_mark"}, NEW to, NEW answer,
           Writes(t, "committing", to, answer) \/ WriteRefused(t, "committing")
    PROVE  RowFromHolder
<1>1. CASE Writes(t, "committing", to, answer)
  BY <1>1 DEF Writes, Swap, RowFromHolder, Settling, Typed, TypeOK, RowsOK
<1>2. CASE WriteRefused(t, "committing")
  <2>1. Gentle
    BY <1>2, GentleReads, GentleRows DEF WriteRefused, Conflicts, storeVars
  <2>2. QED
    BY <2>1 DEF Gentle, RowFromHolder
<1>3. QED
  BY <1>1, <1>2

LEMMA RowSource ==
    ASSUME Typed, [Next]_vars
    PROVE  RowFromHolder
<1>0. \A t \in Tasks : task[t].at \notin HandleFree => task[t].act \in Actions
  BY DEF Typed, TaskOK
<1>1. ASSUME NEW t \in Tasks, Client(t)
      PROVE  Gentle
  BY <1>1, GentleRows
  DEF Client, PrepareCalled, ApproveCalled, CommitCalled, StatusCalled, Called, storeVars
<1>2. ASSUME NEW t \in Tasks, Prepare(t)
      PROVE  Gentle
  <2>1. ASSUME NEW a \in Actions, PrepareCreate(t, a)
        PROVE  Gentle
    BY <2>1, GentleRows DEF PrepareCreate, Typed, TaskOK
  <2>2. CASE PrepareClear(t)
    BY <1>0, <2>2, GentleWrites DEF PrepareClear, HandleFree
  <2>3. QED
    BY <1>2, <2>1, <2>2, GentleRows
    DEF Prepare, PrepareAudit, PreparePreview, PrepareCreateRefused, PrepareReport, storeVars
<1>3. ASSUME NEW t \in Tasks, Approve(t)
      PROVE  Gentle
  <2>1. CASE ApproveResolve(t) \/ ApproveCheck(t)
    BY <1>0, <2>1, GentleReads DEF ApproveResolve, ApproveCheck, Resolve, HandleFree
  <2>2. CASE ApproveWrite(t)
    BY <1>0, <2>2, GentleWrites DEF ApproveWrite, HandleFree
  <2>3. QED
    BY <1>3, <2>1, <2>2, GentleRows
    DEF Approve, ApproveAudit, StartAudit, ApproveVerify, ApproveReport, storeVars
<1>4. ASSUME NEW t \in Tasks, Commit(t)
      PROVE  Gentle \/ RowFromHolder
  <2>1. CASE CommitResolve(t) \/ CommitCheck(t) \/ CommitLook(t)
    BY <1>0, <2>1, GentleReads DEF CommitResolve, CommitCheck, CommitLook, Resolve, HandleFree
  <2>2. CASE CommitClaim(t)
    BY <1>0, <2>2, GentleWrites DEF CommitClaim, HandleFree
  <2>3. CASE CommitRecord(t) \/ CommitMark(t)
    BY <1>0, <2>3, HolderWrites DEF CommitRecord, CommitMark, HandleFree
  <2>4. QED
    BY <1>4, <2>1, <2>2, <2>3, GentleRows
    DEF Commit, CommitAudit, StartAudit, CommitExecute, CommitReply, CommitReport, storeVars
<1>5. ASSUME NEW t \in Tasks, Status(t)
      PROVE  Gentle
  <2>1. CASE StatusResolve(t) \/ StatusCheck(t) \/ StatusAgain(t)
    BY <1>0, <2>1, GentleReads
    DEF StatusResolve, StatusCheck, StatusAgain, Resolve, HandleFree
  <2>2. CASE StatusWrite(t)
    BY <1>0, <2>2, GentleWrites, GentleRows
    DEF StatusWrite, WriteRefused, ReadRefused, HandleFree, storeVars
  <2>3. QED
    BY <1>5, <2>1, <2>2, GentleRows
    DEF Status, StatusAudit, StartAudit, StatusQuery, StatusReport, storeVars
<1>6. ASSUME NEW t \in Tasks, Interrupt(t)
      PROVE  Gentle
  <2>1. ASSUME NEW a \in Actions, CancelAfterInsert(t, a)
        PROVE  Gentle
    BY <2>1, GentleRows DEF CancelAfterInsert, Typed, TaskOK
  <2>2. QED
    BY <1>6, <2>1, GentleRows DEF Interrupt, Cancel, CancelAfterVerify, Crash, storeVars
<1>7. ASSUME NEW w \in late, LateWrite(w)
      PROVE  RowFromHolder
  <2>0. w.act \in Actions
    BY DEF Typed, TypeOK, LateWrites
  <2>1. CASE w.from = "committing" /\ Swap(w.act, w.from, w.to, w.out)
    BY <2>0, <2>1 DEF Swap, RowFromHolder, Abandoned, Typed, TypeOK, RowsOK
  <2>2. CASE w.from # "committing" /\ Swap(w.act, w.from, w.to, w.out)
    BY <2>0, <2>2, GentleSwap DEF Gentle, RowFromHolder
  <2>3. CASE ~Swap(w.act, w.from, w.to, w.out)
    BY <1>7, <2>0, <2>3, GentleRows DEF LateWrite, Gentle, RowFromHolder
  <2>4. QED
    BY <2>1, <2>2, <2>3
<1>8. CASE \/ Host \/ Tick \/ UNCHANGED vars \/ \E a \in Actions : Source(a)
           \/ \E w \in late : CrashLosesWrite(w)
  BY <1>8, GentleRows
  DEF Host, GrantLapses, IssueGrant, Tick, Source, SourceApplies, SourceLoses,
      CrashLosesWrite, vars, storeVars, Gentle, RowFromHolder
<1>9. Gentle => RowFromHolder
  BY DEF Gentle, RowFromHolder
<1>10. QED
  BY <1>1, <1>2, <1>3, <1>4, <1>5, <1>6, <1>7, <1>8, <1>9 DEF Next, Advance

-----------------------------------------------------------------------------
(* One holder *)

NoNewHolder ==
    \A t \in Tasks, a \in Actions :
        /\ Holding(t, a)' => Holding(t, a)
        /\ Executing(t, a)' => Executing(t, a)

LEMMA MovesHold ==
    ASSUME Typed, NEW t \in Tasks,
           NEW step, step \in Holds => task[t].at \in Holds /\ step # "c_execute",
           Goto(t, step) \/ \E answer : GotoWith(t, step, answer)
    PROVE  NoNewHolder
<1>1. PICK answer : Moved(t, step, answer)
  BY GotoMoves, GotoWithMoves
<1>2. QED
  BY <1>1 DEF Moved, NoNewHolder, Holding, Executing, Holds

LEMMA ReturnHolds ==
    ASSUME Typed, NEW t \in Tasks, Return(t)
    PROVE  NoNewHolder
<1>1. task'[t] = IdleTask /\ \A u \in Tasks \ {t} : task'[u] = task[u]
  BY DEF Typed, TypeOK, Return
<1>2. QED
  BY <1>1 DEF NoNewHolder, Holding, Executing, Holds, IdleTask

LEMMA HolderMoves ==
    ASSUME Typed, [Next]_vars
    PROVE  NoNewHolder \/ \E t \in Tasks : Claims(t)
<1> USE DEF Holds
<1>0. \A t \in Tasks : task[t].at \notin HandleFree => task[t].act \in Actions
  BY DEF Typed, TaskOK
<1>1. CASE task' = task
  BY <1>1 DEF NoNewHolder, Holding, Executing
<1>2. ASSUME NEW t \in Tasks, Client(t)
      PROVE  NoNewHolder
  <2>1. ASSUME NEW p \in Principals, PrepareCalled(t, p)
        PROVE  NoNewHolder
    BY <2>1 DEF PrepareCalled, NoNewHolder, Holding, Executing, Typed, TypeOK, IdleTask
  <2>2. ASSUME NEW p, NEW a, NEW g, NEW first \in {"a_resolve", "c_resolve", "s_resolve"},
               Called(t, p, a, g, first)
        PROVE  NoNewHolder
    BY <2>2 DEF Called, NoNewHolder, Holding, Executing, Typed, TypeOK
  <2>3. QED
    BY <1>2, <2>1, <2>2 DEF Client, ApproveCalled, CommitCalled, StatusCalled
<1>3. ASSUME NEW t \in Tasks, Prepare(t)
      PROVE  NoNewHolder
  <2>1. ASSUME NEW a \in Actions, PrepareCreate(t, a)
        PROVE  NoNewHolder
    <3>1. /\ task'[t].at \in {"p_report", "p_clear"}
          /\ \A u \in Tasks \ {t} : task'[u] = task[u]
      BY <2>1 DEF PrepareCreate, Typed, TypeOK, TaskStates
    <3>2. QED
      BY <3>1 DEF NoNewHolder, Holding, Executing
  <2>2. QED
    BY <1>3, <2>1, MovesHold, ReturnHolds
    DEF Prepare, PrepareAudit, PreparePreview, PrepareCreateRefused, PrepareClear,
        PrepareReport, AuditStarts
<1>4. ASSUME NEW t \in Tasks, Approve(t)
      PROVE  NoNewHolder
  BY <1>4, MovesHold, ReturnHolds
  DEF Approve, ApproveResolve, ApproveAudit, ApproveCheck, ApproveVerify, ApproveWrite,
      ApproveReport, Resolve, StartAudit, AuditStarts
<1>5. ASSUME NEW t \in Tasks, Commit(t)
      PROVE  NoNewHolder \/ Claims(t)
  <2>1. CASE CommitClaim(t)
    BY <1>0, <2>1, MovesHold DEF CommitClaim, Writes, Swap, Claims, sourceVars, HandleFree
  <2>2. CASE CommitExecute(t)
    BY <2>2, MovesHold DEF CommitExecute
  <2>3. CASE CommitReply(t)
    BY <2>3, MovesHold DEF CommitReply
  <2>4. CASE CommitRecord(t) \/ CommitMark(t)
    BY <2>4, MovesHold DEF CommitRecord, CommitMark
  <2>5. CASE CommitLook(t) \/ CommitReport(t)
    BY <2>5, ReturnHolds DEF CommitLook, CommitReport
  <2>6. CASE CommitResolve(t) \/ CommitAudit(t)
    BY <2>6, MovesHold, ReturnHolds
    DEF CommitResolve, CommitAudit, Resolve, StartAudit, AuditStarts
  <2>7. CASE CommitCheck(t)
    BY <2>7, MovesHold DEF CommitCheck
  <2>8. QED
    BY <1>5, <2>1, <2>2, <2>3, <2>4, <2>5, <2>6, <2>7 DEF Commit
<1>6. ASSUME NEW t \in Tasks, Status(t)
      PROVE  NoNewHolder
  BY <1>6, MovesHold, ReturnHolds
  DEF Status, StatusResolve, StatusAudit, StatusCheck, StatusQuery, StatusWrite, StatusAgain,
      StatusReport, Resolve, StartAudit, AuditStarts
<1>7. ASSUME NEW t \in Tasks, Interrupt(t)
      PROVE  NoNewHolder
  <2>1. CASE Cancel(t)
    <3>1. /\ AfterCancel(task[t].at) \in {"idle", "c_mark", "c_look"}
          /\ AfterCancel(task[t].at) = "c_mark" => task[t].at \in Holds
      BY DEF AfterCancel
    <3>2. QED
      BY <2>1, <3>1, MovesHold, ReturnHolds DEF Cancel
  <2>2. QED
    BY <1>7, <2>1, ReturnHolds DEF Interrupt, CancelAfterVerify, Crash, CancelAfterInsert
<1>8. QED
  BY <1>1, <1>2, <1>3, <1>4, <1>5, <1>6, <1>7
  DEF Next, Advance, Host, GrantLapses, IssueGrant, Source, SourceApplies, SourceLoses,
      LateWrite, CrashLosesWrite, Tick, vars

LEMMA HolderInvHolds ==
    ASSUME Typed, HolderInv, [Next]_vars
    PROVE  HolderInv'
<1>0. /\ status \in [Actions -> Statuses]
      /\ status' \in [Actions -> Statuses]
      /\ \A a \in Actions : status'[a] \in Early => status[a] \in Early
      /\ \A a \in Actions : status[a] = "expired" => status'[a] = "expired"
  <2>1. RowStep
    BY StepTyped
  <2>2. \A a \in Actions : status[a] = "expired" => status'[a] = "expired"
    BY <2>1
    DEF RowStep, InsertRow, AfterSweep, Swap, AllowedTransitions, rowVars, Typed, TypeOK,
        RowsOK
  <2>3. QED
    BY <2>1, <2>2, StepTyped, EarlyOnce DEF Typed, TypeOK, RowsOK
<1>1. LateFromHolder /\ RowFromHolder
  BY LateSource, RowSource
<1>2. \A t \in Tasks, a \in Actions : Settling(t, a) => Holding(t, a) /\ ~Executing(t, a)
  BY DEF Settling, Holding, Holds, Executing
<1>3. \A t \in Tasks, a \in Actions : Executing(t, a) => Holding(t, a)
  BY DEF Holding, Holds, Executing
<1>4. CASE NoNewHolder
  <2>1. SUFFICES ASSUME NEW a \in Actions
                 PROVE  /\ status'[a] \in Early =>
                             ~Abandoned(a)' /\ \A t \in Tasks : ~Holding(t, a)'
                        /\ \A t, u \in Tasks : Holding(t, a)' /\ Holding(u, a)' => t = u
                        /\ \A t \in Tasks : Executing(t, a)' =>
                             status'[a] \in {"committing", "expired"} /\ ~Abandoned(a)'
    BY DEF HolderInv
  <2>2. status'[a] \in Early => ~Abandoned(a)' /\ \A t \in Tasks : ~Holding(t, a)'
    BY <1>0, <1>1, <1>2, <1>4 DEF HolderInv, NoNewHolder, LateFromHolder
  <2>3. \A t, u \in Tasks : Holding(t, a)' /\ Holding(u, a)' => t = u
    BY <1>4 DEF HolderInv, NoNewHolder
  <2>4. ASSUME NEW t \in Tasks, Executing(t, a)'
        PROVE  status'[a] \in {"committing", "expired"} /\ ~Abandoned(a)'
    <3>1. /\ Executing(t, a)
          /\ status[a] \in {"committing", "expired"}
          /\ ~Abandoned(a)
      BY <1>4, <2>4 DEF HolderInv, NoNewHolder
    <3>2. \A u \in Tasks : ~Settling(u, a)
      BY <1>2, <1>3, <3>1 DEF HolderInv
    <3>3. QED
      BY <1>0, <1>1, <3>1, <3>2 DEF LateFromHolder, RowFromHolder
  <2>5. QED
    BY <2>2, <2>3, <2>4
<1>5. ASSUME NEW c \in Tasks, Claims(c)
      PROVE  HolderInv'
  <2>0. PICK b \in Actions : b = task[c].act
    BY <1>5 DEF Claims
  <2>1. /\ status[b] \in Early
        /\ status' = [status EXCEPT ![b] = "committing"]
        /\ Moved(c, "c_execute", task[c].out)
    BY <1>5, <2>0, GotoMoves DEF Claims, Early
  <2>2. ~Abandoned(b)' /\ \A u \in Tasks : ~Holding(u, b)
    BY <1>1, <1>2, <2>1 DEF HolderInv, LateFromHolder
  <2>3. \A t \in Tasks, a \in Actions :
          /\ Holding(t, a)' => Holding(t, a) \/ (t = c /\ a = b)
          /\ Executing(t, a)' => Executing(t, a) \/ (t = c /\ a = b)
    BY <2>0, <2>1 DEF Moved, Holding, Executing
  <2>4. \A a \in Actions \ {b} : status'[a] = status[a]
    BY <1>0, <2>1
  <2>5. status'[b] = "committing"
    BY <1>0, <2>1
  <2>6. ASSUME NEW a \in Actions \ {b}, Abandoned(a)', ~Abandoned(a)
        PROVE  \E u \in Tasks : Holding(u, a) /\ ~Executing(u, a)
    BY <1>1, <1>2, <2>6 DEF LateFromHolder
  <2>7. \A a \in Actions \ {b} :
          status'[a] \in Early => ~Abandoned(a)' /\ \A t \in Tasks : ~Holding(t, a)'
    BY <2>3, <2>4, <2>6 DEF HolderInv
  <2>8. \A a \in Actions, t \in Tasks, u \in Tasks :
          Holding(t, a)' /\ Holding(u, a)' => t = u
    BY <2>2, <2>3 DEF HolderInv
  <2>9. \A a \in Actions, t \in Tasks : Executing(t, a)' =>
          status'[a] \in {"committing", "expired"} /\ ~Abandoned(a)'
    BY <1>3, <2>2, <2>3, <2>4, <2>5, <2>6 DEF HolderInv
  <2>10. QED
    BY <2>5, <2>7, <2>8, <2>9 DEF HolderInv, Early
<1>6. QED
  BY <1>4, <1>5, HolderMoves

LEMMA InitHolders == Init => HolderInv
BY DEF Init, HolderInv, Abandoned, Holding, Holds, Executing, IdleTask

LEMMA AlwaysHeld == Spec => [](Known /\ HolderInv)
<1>1. Known /\ HolderInv /\ [Next]_vars => HolderInv'
  BY HolderInvHolds DEF Known
<1>2. QED
  BY InitHolders, AlwaysKnown, <1>1, PTL DEF Spec

-----------------------------------------------------------------------------
(* The contract's state after a step *)

\* The permits of the contract stay where they are.
StillExecuting == \A t \in Tasks, a \in Actions : Executing(t, a)' <=> Executing(t, a)

Others(t) == \A u \in Tasks \ {t} : task'[u] = task[u]

LEMMA SamePermits ==
    ASSUME StillExecuting
    PROVE  [a \in Actions |-> AtExecutor(a)]' = [a \in Actions |-> AtExecutor(a)]
BY DEF StillExecuting, AtExecutor, Executing

LEMMA PermitsBoolean == [a \in Actions |-> AtExecutor(a)] \in [Actions -> BOOLEAN]
<1>1. \A a \in Actions : AtExecutor(a) \in BOOLEAN
  BY DEF AtExecutor
<1>2. QED
  BY <1>1

LEMMA NoPermit ==
    ASSUME NEW b \in Actions, ~AtExecutor(b)
    PROVE  [[a \in Actions |-> AtExecutor(a)] EXCEPT ![b] = FALSE]
             = [a \in Actions |-> AtExecutor(a)]
<1> DEFINE permit == [a \in Actions |-> AtExecutor(a)]
<1>1. permit \in [Actions -> BOOLEAN]
  BY PermitsBoolean
<1>2. ~permit[b]
  OBVIOUS
<1> HIDE DEF permit
<1>3. [permit EXCEPT ![b] = FALSE] = permit
  BY <1>1, <1>2
<1>4. QED
  BY <1>3 DEF permit

\* A step of the rows that moves no permit, tells nobody and sends nothing.
LEMMA RowsImplement ==
    ASSUME Known, RowsTrue', HolderInv, RowStep, RowFromHolder, StillExecuting,
           told' = told, sent' = sent
    PROVE  [Contract!Next]_(Contract!vars)
<1> USE DEF Contract!Next, Contract!vars
<1>0. RowsOK /\ RowsTrue
  BY DEF Known, Typed, TypeOK, Truth
<1>1. [a \in Actions |-> AtExecutor(a)]' = [a \in Actions |-> AtExecutor(a)]
  BY SamePermits
<1>2. CASE UNCHANGED rowVars
  BY <1>1, <1>2 DEF rowVars
<1>3. ASSUME NEW b \in Actions, status[b] # "absent",
             status' = [status EXCEPT ![b] = "expired"],
             UNCHANGED <<owner, expires, sealed, result>>
      PROVE  Contract!Void(b)
  BY <1>0, <1>1, <1>3 DEF Contract!Void, PhaseOf, RowsOK, Statuses
<1>4. ASSUME NEW b \in Actions, NEW p \in Principals, NEW terminal \in BOOLEAN,
             InsertRow(b, p, terminal)
      PROVE  \E overdue \in SUBSET Actions : Contract!Offer(b, overdue)
  <2>1. DEFINE overdue == {a \in Actions : status[a] # "absent" /\ Overdue(a)}
  <2>2. Contract!Offer(b, overdue)
    BY <1>0, <1>1, <1>4 DEF Contract!Offer, InsertRow, AfterSweep, PhaseOf, RowsOK, Statuses
  <2>3. QED
    BY <2>2
<1>5. ASSUME NEW b \in Actions, NEW from \in Statuses, NEW to \in Statuses,
             NEW answer \in Answers, Swap(b, from, to, answer)
      PROVE  [Contract!Next]_(Contract!vars)
  <2>0. /\ status[b] = from
        /\ status' = [status EXCEPT ![b] = to]
        /\ <<from, to>> \in AllowedTransitions
    BY <1>5 DEF Swap
  <2>1. to # "succeeded" => result' = result
    BY <1>0, <1>5 DEF Swap, RowsOK
  <2>2. CASE to = "approved"
    <3>1. Contract!Clear(b)
      BY <1>0, <1>1, <2>0, <2>1, <2>2
      DEF Contract!Clear, PhaseOf, RowsOK, Statuses, AllowedTransitions
    <3>2. QED
      BY <3>1
  <2>3. CASE to = "committing"
    <3>1. ~AtExecutor(b)
      BY <2>0, <2>3 DEF HolderInv, AllowedTransitions, AtExecutor, Executing, Holding, Holds,
                        Early
    <3>2. [[a \in Actions |-> AtExecutor(a)] EXCEPT ![b] = FALSE]
            = [a \in Actions |-> AtExecutor(a)]
      BY <3>1, NoPermit
    <3>3. Contract!Claim(b)
      BY <1>0, <1>1, <2>0, <2>1, <2>3, <3>2
      DEF Contract!Claim, PhaseOf, RowsOK, Statuses, AllowedTransitions
    <3>4. QED
      BY <3>3
  <2>4. CASE to = "outcome_unknown"
    <3>1. status[b] = "committing" /\ status'[b] = "outcome_unknown"
      BY <1>0, <2>0, <2>4 DEF RowsOK, AllowedTransitions
    <3>2. \A a \in Actions : PhaseOf(status'[a]) = PhaseOf(status[a])
      BY <1>0, <2>0, <3>1 DEF PhaseOf, RowsOK
    <3>3. UNCHANGED [a \in Actions |-> PhaseOf(status[a])]
      BY <3>2
    <3>4. QED
      BY <1>1, <2>1, <2>4, <3>3
  <2>5. CASE to = "succeeded"
    <3>1. ~AtExecutor(b)
      <4>1. CASE from = "outcome_unknown"
        BY <2>0, <4>1 DEF HolderInv, AtExecutor, Executing
      <4>2. CASE from = "committing"
        <5>1. status'[b] = "succeeded"
          BY <1>0, <2>0, <2>5 DEF RowsOK
        <5>2. Abandoned(b) \/ \E t \in Tasks : Settling(t, b)
          BY <2>0, <4>2, <5>1 DEF RowFromHolder
        <5>3. QED
          BY <5>2 DEF HolderInv, AtExecutor, Executing, Settling, Holding, Holds
      <4>3. QED
        BY <2>0, <2>5, <4>1, <4>2 DEF AllowedTransitions
    <3>2. result[b] = NoResult
      BY <1>0, <2>0, <2>5 DEF RowsTrue, AllowedTransitions
    <3>3. result' = [result EXCEPT ![b] = answer]
      BY <1>5, <2>5 DEF Swap
    <3>4. answer \in Results
      <4>1. Fits(b, result[b])'
        BY <1>0, <2>0, <2>5 DEF RowsTrue, RowsOK
      <4>2. result'[b] \in Results
        BY <4>1 DEF Fits, Results
      <4>3. QED
        BY <1>0, <3>3, <4>2 DEF RowsOK
    <3>5. Contract!Settle(b, answer)
      BY <1>0, <1>1, <2>0, <2>5, <3>1, <3>2, <3>3
      DEF Contract!Settle, PhaseOf, RowsOK, Statuses, AllowedTransitions
    <3>6. QED
      BY <3>4, <3>5
  <2>6. QED
    BY <2>0, <2>2, <2>3, <2>4, <2>5 DEF AllowedTransitions
<1>6. QED
  BY <1>2, <1>3, <1>4, <1>5 DEF RowStep

\* The one coroutine at the executor leaves it.
LEMMA PermitGone ==
    ASSUME HolderInv, NEW t \in Tasks, NEW b \in Actions, Executing(t, b), Others(t),
           task'[t].at # "c_execute"
    PROVE  /\ AtExecutor(b)
           /\ [a \in Actions |-> AtExecutor(a)]'
                = [[a \in Actions |-> AtExecutor(a)] EXCEPT ![b] = FALSE]
<1>1. \A u \in Tasks : Executing(u, b) => u = t
  BY DEF HolderInv, Executing, Holding, Holds
<1>2. ~AtExecutor(b)'
  BY <1>1 DEF Others, AtExecutor, Executing
<1>3. \A a \in Actions \ {b} : AtExecutor(a)' = AtExecutor(a)
  <2>1. \A a \in Actions \ {b} : AtExecutor(a)' <=> AtExecutor(a)
    BY DEF Others, AtExecutor, Executing
  <2>2. QED
    BY <2>1 DEF AtExecutor
<1>4. AtExecutor(b)
  BY DEF AtExecutor, Executing
<1>5. [a \in Actions |-> AtExecutor(a)]'
        = [[a \in Actions |-> AtExecutor(a)] EXCEPT ![b] = FALSE]
  <2>1. AtExecutor(b)' = FALSE
    BY <1>2 DEF AtExecutor
  <2>2. \A a \in Actions : AtExecutor(a)' = IF a = b THEN FALSE ELSE AtExecutor(a)
    BY <1>3, <2>1
  <2>3. QED
    BY <2>2
<1>6. QED
  BY <1>4, <1>5

LEMMA ForgoImplements ==
    ASSUME HolderInv, NEW t \in Tasks, NEW b \in Actions, Executing(t, b), Others(t),
           task'[t].at # "c_execute", UNCHANGED <<rowVars, sent, told>>
    PROVE  Contract!Forgo(b)
<1>1. /\ AtExecutor(b)
      /\ [a \in Actions |-> AtExecutor(a)]'
           = [[a \in Actions |-> AtExecutor(a)] EXCEPT ![b] = FALSE]
  BY PermitGone
<1>2. QED
  BY <1>1 DEF Contract!Forgo, rowVars

LEMMA SpendImplements ==
    ASSUME HolderInv, NEW t \in Tasks, NEW b \in Actions, Executing(t, b), Others(t),
           task'[t].at # "c_execute", UNCHANGED <<rowVars, told>>,
           sent' = [sent EXCEPT ![b] = @ + 1]
    PROVE  Contract!Spend(b)
<1>1. /\ AtExecutor(b)
      /\ [a \in Actions |-> AtExecutor(a)]'
           = [[a \in Actions |-> AtExecutor(a)] EXCEPT ![b] = FALSE]
  BY PermitGone
<1>2. QED
  BY <1>1 DEF Contract!Spend, rowVars

LEMMA ExecuteImplements ==
    ASSUME Typed, HolderInv, NEW t \in Tasks, CommitExecute(t)
    PROVE  Contract!Next
<1>1. PICK b \in Actions : b = task[t].act /\ Executing(t, b)
  BY DEF CommitExecute, Executing, Typed, TaskOK, HandleFree
<1>2. PICK step \in {"c_record", "c_wait", "c_mark"}, answer \in {"sealed", "fresh", task[t].out} :
        Moved(t, step, answer)
  BY GotoMoves, GotoWithMoves DEF CommitExecute
<1>3. Others(t) /\ task'[t].at # "c_execute"
  BY <1>2 DEF Moved, Others
<1>4. \/ sent' = sent
      \/ sent' = [sent EXCEPT ![b] = @ + 1]
  BY <1>1 DEF CommitExecute, sourceVars
<1>5. UNCHANGED <<rowVars, told>>
  BY DEF CommitExecute, storeVars, clientVars
<1>6. Contract!Forgo(b) \/ Contract!Spend(b)
  BY <1>1, <1>3, <1>4, <1>5, ForgoImplements, SpendImplements
<1>7. QED
  BY <1>6 DEF Contract!Next

\* Cancelled or crashed on the way into the executor.
LEMMA InterruptImplements ==
    ASSUME Typed, HolderInv, NEW t \in Tasks, task[t].at = "c_execute", Interrupt(t)
    PROVE  Contract!Next
<1>1. PICK b \in Actions : b = task[t].act /\ Executing(t, b)
  BY DEF Executing, Typed, TaskOK, HandleFree
<1>2. Others(t) /\ task'[t].at # "c_execute"
  <2>1. CASE Return(t)
    BY <2>1 DEF Return, Others, IdleTask, Typed, TypeOK
  <2>2. CASE Goto(t, "c_mark")
    BY <2>2, GotoMoves DEF Moved, Others
  <2>3. QED
    BY <2>1, <2>2
    DEF Interrupt, Cancel, AfterCancel, CancelAfterVerify, Crash, CancelAfterInsert
<1>3. UNCHANGED <<rowVars, sent, told>>
  BY DEF Interrupt, Cancel, CancelAfterVerify, Crash, CancelAfterInsert, storeVars,
         sourceVars, clientVars
<1>4. Contract!Forgo(b)
  BY <1>1, <1>2, <1>3, ForgoImplements
<1>5. QED
  BY <1>4 DEF Contract!Next

LEMMA ClaimImplements ==
    ASSUME Typed, RowStep, NEW t \in Tasks, Claims(t), told' = told
    PROVE  Contract!Next
<1>0. RowsOK
  BY DEF Typed, TypeOK
<1>1. PICK b \in Actions : b = task[t].act
  BY DEF Claims
<1>2. /\ status[b] = "approved"
      /\ status' = [status EXCEPT ![b] = "committing"]
      /\ sent' = sent
      /\ Moved(t, "c_execute", task[t].out)
  BY <1>1, GotoMoves DEF Claims
<1>3. result' = result
  <2>1. ASSUME NEW c \in Actions, NEW from \in Statuses, NEW to \in Statuses,
               NEW answer \in Answers, Swap(c, from, to, answer)
        PROVE  to # "succeeded"
    BY <1>0, <1>2, <2>1 DEF Swap, AllowedTransitions, RowsOK
  <2>2. ASSUME NEW c \in Actions, NEW from \in Statuses, NEW to \in Statuses,
               NEW answer \in Answers, Swap(c, from, to, answer)
        PROVE  result' = result
    BY <1>0, <2>1, <2>2 DEF Swap, RowsOK
  <2>3. QED
    BY <2>2 DEF RowStep, InsertRow, rowVars
<1>4. /\ AtExecutor(b)'
      /\ \A a \in Actions \ {b} : AtExecutor(a)' <=> AtExecutor(a)
  <2>1. task[t].at # "c_execute" \/ task[t].act = b
    BY <1>1
  <2>2. QED
    BY <1>1, <1>2, <2>1 DEF Moved, AtExecutor
<1>5. [a \in Actions |-> AtExecutor(a)]'
        = [[a \in Actions |-> AtExecutor(a)] EXCEPT ![b] = TRUE]
  BY <1>4 DEF AtExecutor
<1>6. [a \in Actions |-> PhaseOf(status[a])]'
        = [[a \in Actions |-> PhaseOf(status[a])] EXCEPT ![b] = "claimed"]
  <2>1. \A a \in Actions : status'[a] = IF a = b THEN "committing" ELSE status[a]
    BY <1>0, <1>2 DEF RowsOK
  <2>2. PhaseOf("committing") = "claimed"
    BY DEF PhaseOf
  <2>3. \A a \in Actions : PhaseOf(status'[a]) = IF a = b THEN "claimed" ELSE PhaseOf(status[a])
    BY <2>1, <2>2
  <2>4. QED
    BY <2>3
<1>7. PhaseOf(status[b]) = "cleared"
  BY <1>2 DEF PhaseOf
<1>8. Contract!Claim(b)
  BY <1>2, <1>3, <1>5, <1>6, <1>7 DEF Contract!Claim
<1>9. QED
  BY <1>8 DEF Contract!Next

LEMMA AnswerImplements ==
    ASSUME Known, NEW t \in Tasks, CommitReport(t) \/ StatusReport(t)
    PROVE  [Contract!Next]_(Contract!vars)
<1> DEFINE values(heard) == [a \in Actions |-> {answer[3] : answer \in heard[a]}]
<1>0. told \in [Actions -> SUBSET (Principals \X {"commit", "status"} \X Results)]
  BY DEF Known, Typed, TypeOK
<1>1. PICK b \in Actions : b = task[t].act
  BY DEF CommitReport, StatusReport, Known, Typed, TaskOK, HandleFree
<1>2. /\ task[t].out \in {NoResult, result[b]}
      /\ UNCHANGED rowVars
      /\ sent' = sent
  BY <1>1 DEF CommitReport, StatusReport, Known, Truth, TasksTrue, Knows, storeVars, sourceVars
<1>3. [a \in Actions |-> AtExecutor(a)]' = [a \in Actions |-> AtExecutor(a)]
  <2>1. task'[t] = IdleTask /\ \A u \in Tasks \ {t} : task'[u] = task[u]
    BY DEF CommitReport, StatusReport, Return, Known, Typed, TypeOK
  <2>2. task[t].at # "c_execute"
    BY DEF CommitReport, StatusReport
  <2>3. StillExecuting
    BY <2>1, <2>2 DEF StillExecuting, Executing, IdleTask
  <2>4. QED
    BY <2>3, SamePermits
<1>4. CASE told' = told
  BY <1>2, <1>3, <1>4 DEF Contract!vars, rowVars
<1>5. CASE told' # told
  <2>1. PICK operation \in {"commit", "status"} : Tells(t, operation)
    BY <1>5 DEF CommitReport, StatusReport
  <2>2. /\ task[t].out = result[b] /\ result[b] # NoResult
        /\ told' = [told EXCEPT ![b] = @ \cup {<<task[t].who, operation, result[b]>>}]
    <3>1. task[t].out # NoResult
      BY <1>0, <1>1, <1>5, <2>1 DEF Tells
    <3>2. QED
      BY <1>1, <1>2, <2>1, <3>1 DEF Tells
  <2>3. values(told') = [values(told) EXCEPT ![b] = @ \cup {result[b]}]
    <3>1. \A a \in Actions :
            told'[a] = IF a = b THEN told[a] \cup {<<task[t].who, operation, result[b]>>}
                                ELSE told[a]
      BY <1>0, <2>2
    <3>2. {answer[3] : answer \in told'[b]} = {answer[3] : answer \in told[b]} \cup {result[b]}
      <4>1. PICK new : new = <<task[t].who, operation, result[b]>>
        OBVIOUS
      <4>2. new[3] = result[b]
        BY <4>1
      <4>3. told'[b] = told[b] \cup {new}
        BY <3>1, <4>1
      <4>4. QED
        BY <4>2, <4>3
    <3>3. QED
      BY <3>1, <3>2
  <2>4. Contract!Answer(b)
    BY <1>2, <1>3, <2>2, <2>3 DEF Contract!Answer, rowVars
  <2>5. QED
    BY <2>4 DEF Contract!Next
<1>6. QED
  BY <1>4, <1>5

\* Every other step leaves whoever is at the executor there.
LEMMA OthersExecute ==
    ASSUME Typed, NoNewHolder, NEW t \in Tasks, task[t].at # "c_execute", Others(t)
    PROVE  StillExecuting
BY DEF NoNewHolder, StillExecuting, Executing, Others

LEMMA OneMoves ==
    ASSUME Typed, NEW t \in Tasks,
           Return(t) \/ (\E step : Goto(t, step)) \/ \E step, answer : GotoWith(t, step, answer)
    PROVE  Others(t)
BY DEF Typed, TypeOK, Return, Goto, GotoWith, Others

LEMMA ClientMovesOne ==
    ASSUME Typed, NEW t \in Tasks, Client(t)
    PROVE  task[t].at # "c_execute" /\ Others(t)
BY DEF Typed, TypeOK, Client, PrepareCalled, ApproveCalled, CommitCalled, StatusCalled, Called,
       Others

LEMMA PrepareMovesOne ==
    ASSUME Typed, NEW t \in Tasks, Prepare(t)
    PROVE  task[t].at # "c_execute" /\ Others(t)
<1>1. ASSUME NEW a \in Actions, PrepareCreate(t, a)
      PROVE  task[t].at # "c_execute" /\ Others(t)
  BY <1>1 DEF PrepareCreate, Others, Typed, TypeOK
<1>2. QED
  BY <1>1, OneMoves
  DEF Prepare, PrepareAudit, PreparePreview, PrepareCreateRefused, PrepareClear,
      PrepareReport, AuditStarts

LEMMA ApproveMovesOne ==
    ASSUME Typed, NEW t \in Tasks, Approve(t)
    PROVE  task[t].at # "c_execute" /\ Others(t)
BY OneMoves
DEF Approve, ApproveResolve, ApproveAudit, ApproveCheck, ApproveVerify, ApproveWrite,
    ApproveReport, Resolve, StartAudit, AuditStarts

LEMMA CommitMovesOne ==
    ASSUME Typed, NEW t \in Tasks, Commit(t), ~CommitExecute(t)
    PROVE  task[t].at # "c_execute" /\ Others(t)
BY OneMoves
DEF Commit, CommitResolve, CommitAudit, CommitCheck, CommitClaim, CommitReply, CommitRecord,
    CommitMark, CommitLook, CommitReport, Resolve, StartAudit, AuditStarts

LEMMA StatusMovesOne ==
    ASSUME Typed, NEW t \in Tasks, Status(t)
    PROVE  task[t].at # "c_execute" /\ Others(t)
BY OneMoves
DEF Status, StatusResolve, StatusAudit, StatusCheck, StatusQuery, StatusWrite, StatusAgain,
    StatusReport, Resolve, StartAudit, AuditStarts

LEMMA InterruptMovesOne ==
    ASSUME Typed, NEW t \in Tasks, Interrupt(t)
    PROVE  Others(t)
BY OneMoves DEF Interrupt, Cancel, CancelAfterVerify, Crash, CancelAfterInsert

LEMMA QuietlyExecuting ==
    ASSUME Typed, [Next]_vars, NoNewHolder,
           \A t \in Tasks : ~CommitExecute(t) /\ ~(Interrupt(t) /\ task[t].at = "c_execute")
    PROVE  StillExecuting
<1>1. CASE task' = task
  BY <1>1 DEF StillExecuting, Executing
<1>2. CASE \E t \in Tasks : Client(t) \/ Advance(t) \/ Interrupt(t)
  BY <1>2, OthersExecute, ClientMovesOne, PrepareMovesOne, ApproveMovesOne, CommitMovesOne,
     StatusMovesOne, InterruptMovesOne
  DEF Advance
<1>3. QED
  BY <1>1, <1>2
  DEF Next, Host, GrantLapses, IssueGrant, Source, SourceApplies, SourceLoses, LateWrite,
      CrashLosesWrite, Tick, vars

LEMMA StepImplements ==
    ASSUME Known, HolderInv, [Next]_vars
    PROVE  [Contract!Next]_(Contract!vars)
<1>0. Typed /\ RowStep
  BY StepTyped DEF Known
<1>1. CASE \E t \in Tasks : CommitExecute(t)
  BY <1>0, <1>1, ExecuteImplements
<1>2. CASE \E t \in Tasks : CommitReport(t) \/ StatusReport(t)
  BY <1>2, AnswerImplements
<1>3. CASE \E t \in Tasks : Interrupt(t) /\ task[t].at = "c_execute"
  BY <1>0, <1>3, InterruptImplements
<1>4. CASE \A t \in Tasks :
             /\ ~CommitExecute(t) /\ ~CommitReport(t) /\ ~StatusReport(t)
             /\ ~(Interrupt(t) /\ task[t].at = "c_execute")
  <2>1. told' = told
    BY <1>4, StepsOfTold DEF ToldStep
  <2>2. sent' = sent
    BY <1>4, StepsOfSource DEF SourceStep, sourceVars, Source, SourceApplies, SourceLoses
  <2>3. CASE \E t \in Tasks : Claims(t)
    BY <1>0, <2>1, <2>3, ClaimImplements
  <2>4. CASE NoNewHolder
    <3>1. StillExecuting
      BY <1>0, <1>4, <2>4, QuietlyExecuting
    <3>2. RowFromHolder /\ RowsTrue'
      BY <1>0, RowSource, StepKnows
    <3>3. QED
      BY <1>0, <2>1, <2>2, <3>1, <3>2, RowsImplement
  <2>5. QED
    BY <1>0, <2>3, <2>4, HolderMoves
<1>5. QED
  BY <1>1, <1>2, <1>3, <1>4

LEMMA InitImplements == Init => Contract!Init
BY DEF Init, Contract!Init, PhaseOf, AtExecutor, IdleTask

-----------------------------------------------------------------------------
(* Theorems *)

\* The coordinator keeps the contract, whatever is cancelled, crashes, is lost or
\* late: an Action is claimed once, the claim sends at most once, its outcome is
\* settled only when nobody may send any more, and with one value for everybody.
THEOREM Implements == Spec => ImplementsContract
<1>1. Init => Contract!Init
  BY InitImplements
<1>2. Known /\ HolderInv /\ [Next]_vars => [Contract!Next]_(Contract!vars)
  BY StepImplements
<1>3. QED
  BY <1>1, <1>2, AlwaysHeld, PTL DEF Spec, ImplementsContract, Contract!Spec

\* The request leaves only while its row is claimed, or after the row expired under
\* the claim: no other coroutine and no abandoned write of _transition can have
\* settled the row of the coroutine that is about to send.
THEOREM SentClaimed == Spec => SentWhileClaimed
<1> DEFINE Rightly == \A a \in Actions : sent'[a] # sent[a] => status[a] \in {"committing", "expired"}
<1>1. ASSUME Known, HolderInv, [Next]_vars
      PROVE  Rightly
  <2>1. ASSUME NEW t \in Tasks, CommitExecute(t)
        PROVE  Rightly
    <3>1. sent \in [Actions -> Nat]
      BY <1>1 DEF Known, Typed, TypeOK
    <3>2. PICK b \in Actions : b = task[t].act /\ Executing(t, b)
      BY <1>1, <2>1 DEF CommitExecute, Executing, Known, Typed, TaskOK, HandleFree
    <3>3. status[b] \in {"committing", "expired"}
      BY <1>1, <3>2 DEF HolderInv
    <3>4. \A a \in Actions \ {b} : sent'[a] = sent[a]
      BY <2>1, <3>1, <3>2 DEF CommitExecute, sourceVars
    <3>5. QED
      BY <3>3, <3>4
  <2>2. SourceStep
    BY <1>1, StepsOfSource
  <2>3. QED
    BY <2>1, <2>2 DEF SourceStep, sourceVars, Source, SourceApplies, SourceLoses
<1>2. Known /\ HolderInv /\ [Next]_vars => [Rightly]_vars
  BY <1>1
<1>3. QED
  BY AlwaysHeld, <1>2, PTL DEF Spec, SentWhileClaimed
=============================================================================
