------------------------- MODULE TaskWorkflowProofs -------------------------
(***************************************************************************)
(* Machine-checked proofs about TaskWorkflow, for every number of tasks,   *)
(* runs, requests, aborts, repair rounds, crashes and lapses.              *)
(***************************************************************************)
EXTENDS TaskWorkflow, FiniteSetTheorems, TLAPS

(* A handler past its reads knows the task it acts on. *)
Targets ==
    /\ \A r \in Request :
          post[r].step \in {"resume", "commit", "recommit", "enqueue"}
              => post[r].task \in Task
    /\ \A a \in Abort :
          abort[a].step \in {"mark", "marked"} => abort[a].task \in Task

TypeInv == TypeOK /\ Targets

-----------------------------------------------------------------------------
(* Every phase stands for a status (statusForPhase, task-state.ts:35-41). *)
LEMMA StatusForPhaseType ==
    ASSUME NEW p \in Phase
    PROVE  statusForPhase(p) \in Status
BY DEF Phase, Status, statusForPhase

(* The moves of the worker are between phases of the table. *)
LEMMA PhaseStepType ==
    ASSUME NEW s \in DOMAIN PhaseStep
    PROVE  PhaseStep[s].from \in Phase /\ PhaseStep[s].to \in Phase
BY DEF PhaseStep, Phase

(* After a move outside an attempt the worker still holds its lease. *)
LEMMA FollowingType ==
    ASSUME NEW s \in DOMAIN PhaseStep, NEW c \in BOOLEAN, NEW m
    PROVE  Following(s, c, m) \in Critical
BY DEF PhaseStep, Following, Critical, Stage

(* What each kind of write changes in the record it is given.              *)
LEMMA AtWrites ==
    ASSUME NEW p \in PostState, NEW s \in PostStep
    PROVE  /\ At(p, s) \in PostState
           /\ At(p, s).step = s /\ At(p, s).task = p.task
BY WorkflowConstants DEF PostState, PostStep, At

LEMMA ResumingWrites ==
    ASSUME NEW p \in PostState, NEW t \in Task, NEW n \in Run
    PROVE  /\ Resuming(p, t, n) \in PostState
           /\ Resuming(p, t, n).step = "resume" /\ Resuming(p, t, n).task = t
BY DEF PostState, PostStep, Resuming

LEMMA MintingWrites ==
    ASSUME NEW p \in PostState, NEW t \in Task
    PROVE  /\ Minting(p, t) \in PostState
           /\ Minting(p, t).step = "commit" /\ Minting(p, t).task = t
BY DEF PostState, PostStep, Minting

LEMMA AbortWrites ==
    ASSUME NEW s \in {"new", "mark", "marked", "done"},
           NEW t \in Task \cup {None}, NEW n \in Run
    PROVE  /\ Aborting(s, t, n) \in AbortState
           /\ Aborting(s, t, n).step = s /\ Aborting(s, t, n).task = t
BY DEF AbortState, Aborting

LEMMA RequeuedRow ==
    ASSUME NEW row \in TaskRow, NEW c \in BOOLEAN
    PROVE  /\ Requeued(row, c) \in TaskRow
           /\ Requeued(row, c).status = "QUEUED"
           /\ Requeued(row, c).phase = "DOMAIN_GUARD"
           /\ Requeued(row, c).aborted = row.aborted
           /\ Requeued(row, c).createdAt = row.createdAt
BY DEF TaskRow, Status, Phase, Requeued

LEMMA CancelledRow ==
    ASSUME NEW row \in TaskRow, NEW s \in Status
    PROVE  /\ Cancelled(row, s) \in TaskRow
           /\ Cancelled(row, s).status = s
           /\ Cancelled(row, s).aborted = TRUE
           /\ Cancelled(row, s).createdAt = row.createdAt
BY DEF TaskRow, Cancelled

LEMMA MovedRow ==
    ASSUME NEW row \in TaskRow, NEW to \in Phase
    PROVE  /\ Moved(row, to) \in TaskRow
           /\ Moved(row, to).status = statusForPhase(to)
           /\ Moved(row, to).phase = to
           /\ Moved(row, to).createdAt = row.createdAt
BY StatusForPhaseType DEF TaskRow, Moved

LEMMA CountedRow ==
    ASSUME NEW row \in TaskRow, NEW n \in Run
    PROVE  /\ Counted(row, n) \in TaskRow
           /\ Counted(row, n).status = row.status
           /\ Counted(row, n).phase = row.phase
           /\ Counted(row, n).aborted = row.aborted
           /\ Counted(row, n).createdAt = row.createdAt
BY DEF TaskRow, Counted

LEMMA LoadedType ==
    ASSUME NEW w \in WorkerState, NEW row \in TaskRow
    PROVE  Loaded(w, row) \in WorkerState
BY DEF WorkerState, TaskRow, Loaded

LEMMA RefusedType ==
    ASSUME NEW w \in WorkerState
    PROVE  Refused(w) \in WorkerState
BY DEF WorkerState, Refused

LEMMA StalledType ==
    ASSUME NEW w \in WorkerState
    PROVE  Stalled(w) \in WorkerState
BY DEF WorkerState, Stalled

LEMMA NextAttemptType ==
    ASSUME NEW w \in WorkerState
    PROVE  NextAttempt(w) \in WorkerState
<1> DEFINE u == [w EXCEPT !.attempt = @ + 1]
<1>1. "CODE" \in Phase
  BY DEF Phase
<1>2. u \in WorkerState
  BY DEF WorkerState
<1>3. NextAttempt(w) = [u EXCEPT !.from = "CODE"]
  BY DEF NextAttempt
<1> HIDE DEF u
<1> QED BY <1>1, <1>2, <1>3 DEF WorkerState

LEMMA FailedInType ==
    ASSUME NEW w \in WorkerState, NEW p \in Phase
    PROVE  FailedIn(w, p) \in WorkerState
BY DEF WorkerState, FailedIn

(* A row created by a handler is a row. *)
LEMMA NewRowType ==
    ASSUME NEW status \in Status, NEW phase \in Phase,
           NEW complete \in BOOLEAN, NEW mode \in {"AUTO", "PLAN"}
    PROVE  /\ NewRow(status, phase, complete, mode) \in TaskRow
           /\ NewRow(status, phase, complete, mode).status = status
           /\ NewRow(status, phase, complete, mode).phase = phase
           /\ NewRow(status, phase, complete, mode).createdAt > 0
<1>1. Cardinality({t \in Task : Created(t)}) \in Nat
  <2>1. IsFiniteSet({t \in Task : Created(t)})
    BY WorkflowConstants, FS_Subset
  <2> QED BY <2>1, FS_CardinalityType
<1>2. 1 + Cardinality({t \in Task : Created(t)}) \in Nat
  BY <1>1
<1>3. 0 \in Run
  BY WorkflowConstants
<1> QED BY <1>1, <1>2, <1>3 DEF NewRow, TaskRow

LEMMA TypeInit == Init => TypeInv
<1> SUFFICES ASSUME Init PROVE TypeInv
  OBVIOUS
<1>1. NoRow \in TaskRow /\ IdleWorker \in WorkerState
  BY WorkflowConstants DEF NoRow, TaskRow, IdleWorker, WorkerState, Status, Phase
<1>2. \A k \in Key : NewPost(k) \in PostState /\ NewPost(k).step = "new"
  BY WorkflowConstants DEF NewPost, PostState, PostStep
<1>3. Aborting("new", None, 0) \in AbortState
  BY WorkflowConstants, AbortWrites
<1>4. post \in [Request -> PostState] /\ \A r \in Request : post[r].step = "new"
  BY <1>2 DEF Init
<1>5. abort \in [Abort -> AbortState] /\ \A a \in Abort : abort[a].step = "new"
  BY <1>3 DEF Init, Aborting
<1>6. pc \in [Job -> JobState]
  BY DEF Init, JobState
<1>7. Targets
  BY <1>4, <1>5 DEF Targets
<1> QED
  BY <1>1, <1>4, <1>5, <1>6, <1>7 DEF Init, TypeInv, TypeOK

-----------------------------------------------------------------------------
(* A step of a POST keeps its target, and leaves the other POSTs alone.    *)
LEMMA PostMoves ==
    ASSUME TypeInv, NEW r \in Request, NEW s \in PostStep,
           s \in {"resume", "commit", "recommit", "enqueue"} => post[r].task \in Task,
           post' = [post EXCEPT ![r] = At(@, s)], abort' = abort
    PROVE  /\ post' \in [Request -> PostState]
           /\ Targets'
BY AtWrites DEF TypeInv, TypeOK, Targets

(* A worker goes on to a step that is a job state. *)
LEMMA JobMoves ==
    ASSUME TypeInv, NEW j \in Job, NEW s \in JobState,
           pc' = [pc EXCEPT ![j] = s]
    PROVE  pc' \in [Job -> JobState]
BY DEF TypeInv, TypeOK

LEMMA TransitionedType ==
    ASSUME TypeInv, NEW t \in Task, NEW to \in Phase
    PROVE  Transitioned(t, to) \in [Task -> TaskRow]
<1>1. task[t] \in TaskRow
  BY DEF TypeInv, TypeOK
<1>2. Moved(task[t], to) \in TaskRow
  BY <1>1, MovedRow
<1> QED BY <1>2 DEF TypeInv, TypeOK, Transitioned

LEMMA CriticalJobStates == Critical \subseteq JobState
BY DEF JobState, Active

(* recordAttempt sends the worker on, or to failTask, and records a number. *)
LEMMA RecordTypes ==
    ASSUME TypeInv, NEW j \in Job, NEW s \in Critical, RecordAttempt(j, s)
    PROVE  /\ pc' \in [Job -> JobState]
           /\ evidence' \in [Task -> SUBSET Nat]
<1>1. Iteration(j) \in Nat
  <2>1. worker[j] \in WorkerState
    BY DEF TypeInv, TypeOK
  <2>2. worker[j].offset \in Nat /\ worker[j].attempt \in Nat
    BY <2>1, WorkflowConstants DEF WorkerState
  <2> QED BY <2>2 DEF Iteration
<1>2. evidence' \in [Task -> SUBSET Nat]
  BY <1>1 DEF RecordAttempt, TypeInv, TypeOK
<1>3. "fail" \in JobState /\ s \in JobState
  BY CriticalJobStates DEF Critical
<1>4. pc' \in [Job -> JobState]
  BY <1>3 DEF RecordAttempt, TypeInv, TypeOK
<1> QED BY <1>2, <1>4

LEMMA TypeNext == TypeInv /\ [Next]_vars => TypeInv'
<1> SUFFICES ASSUME TypeInv, [Next]_vars
             PROVE  TypeInv'
  OBVIOUS
<1> USE WorkflowConstants DEF TypeInv, TypeOK
<1>0. ASSUME NEW r \in Request, PostReplay(r)
      PROVE  TypeInv'
  BY <1>0, PostMoves, AtWrites DEF PostReplay, PostStep, Targets
<1>1. ASSUME NEW r \in Request, PostFindWaiting(r)
      PROVE  TypeInv'
  <2>1. CASE \E st \in {"done", "active"} : post' = [post EXCEPT ![r] = At(@, st)]
    BY <1>1, <2>1, PostMoves DEF PostFindWaiting, PostStep
  <2>2. ASSUME NEW t \in Task,
               post' = [post EXCEPT ![r] = Resuming(@, t, task[t].iterations)]
        PROVE  TypeInv'
    <3>1. task[t].iterations \in Run
      BY DEF TaskRow
    <3>2. post' \in [Request -> PostState]
      BY <2>2, <3>1, ResumingWrites
    <3>3. Resuming(post[r], t, task[t].iterations).task = t
      BY <3>1, ResumingWrites
    <3>4. Targets'
      BY <1>1, <2>2, <3>3 DEF PostFindWaiting, Targets
    <3> QED BY <1>1, <3>2, <3>4 DEF PostFindWaiting
  <2> QED BY <1>1, <2>1, <2>2 DEF PostFindWaiting, Having
<1>2. ASSUME NEW r \in Request, PostFindActive(r)
      PROVE  TypeInv'
  BY <1>2, PostMoves, AtWrites DEF PostFindActive, PostStep, Targets
<1>3. ASSUME NEW r \in Request, PostAcquire(r)
      PROVE  TypeInv'
  <2>1. CASE post' = [post EXCEPT ![r] = At(@, "done")] /\ UNCHANGED lease
    BY <1>3, <2>1, PostMoves DEF PostAcquire, LeaseFree, PostStep
  <2>2. ASSUME NEW t \in Task, lease' = t, post' = [post EXCEPT ![r] = Minting(@, t)]
        PROVE  TypeInv'
    <3>1. post' \in [Request -> PostState]
      BY <2>2, MintingWrites
    <3>2. Targets'
      BY <1>3, <2>2, MintingWrites DEF PostAcquire, LeaseFree, Targets
    <3> QED BY <1>3, <2>2, <3>1, <3>2 DEF PostAcquire, LeaseFree
  <2> QED BY <1>3, <2>1, <2>2 DEF PostAcquire, LeaseFree
<1>4. ASSUME NEW r \in Request, PostReject(r)
      PROVE  TypeInv'
  <2>1. NewRow("COMPLETED", "REJECTED", TRUE, "AUTO") \in TaskRow
    BY NewRowType DEF Status, Phase
  <2>2. task' \in [Task -> TaskRow]
    BY <1>4, <2>1 DEF PostReject
  <2>3. post[r].key \in Key
    BY DEF PostState
  <2>4. post' \in [Request -> PostState] /\ Targets'
    BY <1>4, PostMoves DEF PostReject, PostStep
  <2> QED BY <1>4, <2>2, <2>3, <2>4 DEF PostReject
<1>5. ASSUME NEW r \in Request, PostCommit(r)
      PROVE  TypeInv'
  <2>1. ASSUME NEW c \in BOOLEAN, NEW m \in {"AUTO", "PLAN"}
        PROVE  NewRow("QUEUED", "DOMAIN_GUARD", c, m) \in TaskRow
    BY NewRowType DEF Status, Phase
  <2>2. task' \in [Task -> TaskRow]
    BY <1>5, <2>1 DEF PostCommit
  <2>3. post[r].key \in Key
    BY DEF PostState
  <2>4. post[r].task \in Task
    BY <1>5 DEF PostCommit, Targets
  <2>5. post' \in [Request -> PostState] /\ Targets'
    BY <1>5, <2>4, PostMoves DEF PostCommit, PostStep
  <2> QED BY <1>5, <2>2, <2>3, <2>5 DEF PostCommit
<1>6. ASSUME NEW r \in Request, ResumeAcquire(r)
      PROVE  TypeInv'
  BY <1>6, PostMoves, AtWrites DEF ResumeAcquire, LeaseFree, PostStep, Targets
<1>7. ASSUME NEW r \in Request, ResumeCommit(r)
      PROVE  TypeInv'
  <2>1. post[r].task \in Task
    BY <1>7 DEF ResumeCommit, Targets
  <2>2. task' \in [Task -> TaskRow]
    BY <1>7, <2>1, RequeuedRow DEF ResumeCommit
  <2>3. post[r].key \in Key
    BY DEF PostState
  <2>4. post' \in [Request -> PostState] /\ Targets'
    BY <1>7, <2>1, PostMoves DEF ResumeCommit, PostStep
  <2> QED BY <1>7, <2>2, <2>3, <2>4 DEF ResumeCommit
<1>8. ASSUME NEW r \in Request, PostTxFails(r)
      PROVE  TypeInv'
  BY <1>8, PostMoves, AtWrites DEF PostTxFails, PostStep, Targets, Released
<1>9. ASSUME NEW r \in Request, PostEnqueue(r)
      PROVE  TypeInv'
  BY <1>9, PostMoves, AtWrites DEF PostEnqueue, PostStep, Targets, JobState, Job
<1>10. ASSUME NEW r \in Request, PostLost(r)
       PROVE  TypeInv'
  <2>1. "done" \in PostStep
    BY DEF PostStep
  <2>2. post' \in [Request -> PostState] /\ Targets'
    BY <1>10, <2>1, PostMoves DEF PostLost
  <2> QED BY <1>10, <2>2 DEF PostLost
<1>11. ASSUME NEW a \in Abort, AbortFind(a)
      PROVE  TypeInv'
  <2>1. ASSUME NEW s \in {"mark", "done"}, NEW t \in Task \cup {None},
               s = "mark" => t \in Task,
               abort' = [abort EXCEPT ![a] = Aborting(s, t, 0)]
        PROVE  TypeInv'
    <3>1. abort' \in [Abort -> AbortState]
      BY <2>1, AbortWrites
    <3>2. Targets'
      BY <1>11, <2>1, AbortWrites DEF AbortFind, Targets
    <3> QED BY <1>11, <3>1, <3>2 DEF AbortFind
  <2> QED BY <1>11, <2>1 DEF AbortFind, Having
<1>12. ASSUME NEW a \in Abort, AbortMark(a)
      PROVE  TypeInv'
  <2> DEFINE t == abort[a].task
  <2>1. t \in Task
    BY <1>12 DEF AbortMark, Targets
  <2>2. task[t].iterations \in Run
    BY <2>1 DEF TaskRow
  <2>3. task' \in [Task -> TaskRow]
    BY <1>12, <2>1, CancelledRow DEF AbortMark, Status
  <2>4. abort' \in [Abort -> AbortState]
    BY <1>12, <2>1, <2>2, AbortWrites DEF AbortMark
  <2>5. Aborting("marked", t, task[t].iterations).task = t
    BY DEF Aborting
  <2>6. Targets'
    BY <1>12, <2>1, <2>5 DEF AbortMark, Targets
  <2> QED BY <1>12, <2>3, <2>4, <2>6 DEF AbortMark
<1>13. ASSUME NEW j \in Job, Deliver(j)
      PROVE  TypeInv'
  BY <1>13, LoadedType
     DEF Deliver, WorkerOnly, Targets, Job, JobState, Active, Critical, Stage
<1>14. ASSUME NEW j \in Job, TakeLease(j)
      PROVE  TypeInv'
  BY <1>14 DEF TakeLease, WorkerOnly, Targets, Job, JobState, Active, Critical, Stage
<1>15. ASSUME NEW j \in Job, LeaseBusy(j)
      PROVE  TypeInv'
  BY <1>15, RefusedType
     DEF LeaseBusy, WorkerOnly, Targets, Job, JobState, Active, Critical, Stage
<1>16. ASSUME NEW j \in Job, Move(j)
      PROVE  TypeInv'
  <2>1. pc[j] \in DOMAIN PhaseStep /\ j[1] \in Task
    BY <1>16 DEF Move, Job
  <2>2. task' \in [Task -> TaskRow]
    BY <1>16, <2>1, PhaseStepType, TransitionedType DEF Move
  <2>3. Following(pc[j], worker[j].complete, task[j[1]].mode) \in Critical
    BY <2>1, FollowingType DEF WorkerState
  <2>4. pc' \in [Job -> JobState]
    <3>1. "fail" \in JobState
      BY DEF JobState, Active, Critical
    <3> QED BY <1>16, <2>3, <3>1, CriticalJobStates, JobMoves DEF Move
  <2> QED BY <1>16, <2>2, <2>4 DEF Move, WorkerOnly, Targets
<1>17. ASSUME NEW j \in Job, StepThrows(j)
      PROVE  TypeInv'
  BY <1>17 DEF StepThrows, WorkerOnly, Targets, Job, JobState, Active, Critical, Stage
<1>18. ASSUME NEW j \in Job, CheckActive(j)
      PROVE  TypeInv'
  BY <1>18 DEF CheckActive, WorkerOnly, Targets, Job, JobState, Active, Critical, Stage
<1>19. ASSUME NEW j \in Job, BeginAttempt(j)
      PROVE  TypeInv'
  BY <1>19, CountedRow
     DEF BeginAttempt, WorkerOnly, Targets, Job, JobState, Active, Critical, Stage
<1>20. ASSUME NEW j \in Job, StagePasses(j)
      PROVE  TypeInv'
  <2>1. CASE pc[j] \in Stage \ {"derive"}
    <3>1. pc[j] \in DOMAIN PhaseStep /\ j[1] \in Task
      BY <2>1 DEF PhaseStep, Stage, Job
    <3>2. task' \in [Task -> TaskRow]
      <4>1. PhaseStep[pc[j]].to \in Phase
        BY <3>1, PhaseStepType
      <4>2. task' = Transitioned(j[1], PhaseStep[pc[j]].to)
        BY <1>20, <2>1 DEF StagePasses
      <4> QED BY <3>1, <4>1, <4>2, TransitionedType
    <3>3. Following(pc[j], TRUE, "AUTO") \in Critical
      BY <3>1, FollowingType
    <3>4. pc' \in [Job -> JobState]
      BY <1>20, <2>1, <3>3, CriticalJobStates, JobMoves DEF StagePasses
    <3> QED BY <1>20, <2>1, <3>2, <3>4 DEF StagePasses, WorkerOnly, Targets
  <2>2. CASE pc[j] = "derive"
    <3>1. pc' \in [Job -> JobState] /\ evidence' \in [Task -> SUBSET Nat]
      BY <1>20, <2>2, RecordTypes DEF StagePasses, Stage, Critical
    <3> QED BY <1>20, <2>2, <3>1 DEF StagePasses, WorkerOnly, Targets, Stage
  <2> QED BY <1>20, <2>1, <2>2 DEF StagePasses
<1>21. ASSUME NEW j \in Job, StageNeedsRepair(j)
      PROVE  TypeInv'
  <2>1. pc' \in [Job -> JobState] /\ evidence' \in [Task -> SUBSET Nat]
    BY <1>21, RecordTypes DEF StageNeedsRepair, Critical
  <2>2. StagePhase[pc[j]] \in Phase
    BY <1>21 DEF StageNeedsRepair, Stage, StagePhase, Phase
  <2>3. worker' \in [Job -> WorkerState]
    BY <1>21, <2>2, FailedInType DEF StageNeedsRepair
  <2> QED BY <1>21, <2>1, <2>3 DEF StageNeedsRepair, WorkerOnly, Targets
<1>22. ASSUME NEW j \in Job, StageThrows(j)
      PROVE  TypeInv'
  <2>1. pc' \in [Job -> JobState] /\ evidence' \in [Task -> SUBSET Nat]
    BY <1>22, RecordTypes DEF StageThrows, Critical
  <2> QED BY <1>22, <2>1 DEF StageThrows, WorkerOnly, Targets
<1>23. ASSUME NEW j \in Job, Repair(j)
      PROVE  TypeInv'
  <2>1. j[1] \in Task
    BY DEF Job
  <2>2. task' \in [Task -> TaskRow]
    <3>1. "CODE" \in Phase /\ "NEEDS_USER" \in Phase
      BY DEF Phase
    <3> QED BY <1>23, <2>1, <3>1, TransitionedType DEF Repair
  <2>3. worker' \in [Job -> WorkerState]
    BY <1>23, NextAttemptType DEF Repair
  <2>4. pc' \in [Job -> JobState]
    BY <1>23 DEF Repair, LoopHead, JobState, Active, Critical
  <2> QED BY <1>23, <2>2, <2>3, <2>4 DEF Repair, WorkerOnly, Targets
<1>24. ASSUME NEW j \in Job, Confirm(j)
      PROVE  TypeInv'
  BY <1>24 DEF Confirm, WorkerOnly, Targets, Job, JobState, Active, Critical, Stage
<1>25. ASSUME NEW j \in Job, PublishRevision(j)
      PROVE  TypeInv'
  BY <1>25
     DEF PublishRevision, WorkerOnly, Targets, Job, JobState, Active, Critical,
         Stage
<1>26. ASSUME NEW j \in Job, Announce(j)
      PROVE  TypeInv'
  BY <1>26 DEF Announce, WorkerOnly, Targets, Job, JobState, Active, Critical, Stage
<1>27. ASSUME NEW j \in Job, FailTask(j)
      PROVE  TypeInv'
  <2>1. j[1] \in Task
    BY DEF Job
  <2>2. task' \in [Task -> TaskRow]
    <3>1. "FAILED" \in Phase /\ "ABORTED" \in Status
      BY DEF Phase, Status
    <3>2. CASE task' = [task EXCEPT ![j[1]] = Cancelled(@, "ABORTED")]
      BY <2>1, <3>1, <3>2, CancelledRow
    <3>3. CASE task' = Transitioned(j[1], "FAILED")
      BY <2>1, <3>1, <3>3, TransitionedType
    <3> QED BY <1>27, <3>2, <3>3 DEF FailTask
  <2>3. pc' \in [Job -> JobState]
    BY <1>27 DEF FailTask, JobState, Active, Critical
  <2> QED BY <1>27, <2>2, <2>3 DEF FailTask, WorkerOnly, Targets
<1>28. ASSUME NEW j \in Job, Release(j)
      PROVE  TypeInv'
  BY <1>28
     DEF Release, WorkerOnly, Targets, Job, JobState, Active, Critical, Stage,
         Released
<1>29. ASSUME NEW j \in Job, Acknowledge(j)
      PROVE  TypeInv'
  BY <1>29 DEF Acknowledge, WorkerOnly, Targets, Job, JobState, Active, Critical, Stage
<1>30. ASSUME NEW j \in Job, Crash(j)
      PROVE  TypeInv'
  BY <1>30, StalledType
     DEF Crash, WorkerOnly, Targets, Job, JobState, Active, Critical, Stage
<1>31. CASE LeaseLapses
  BY <1>31 DEF LeaseLapses, Targets
<1>32. CASE UNCHANGED vars
  BY <1>32 DEF vars, Targets
<1>33. QED
  BY <1>0, <1>1, <1>2, <1>3, <1>4, <1>5, <1>6, <1>7, <1>8, <1>9, <1>10, <1>11, <1>12, <1>13,
     <1>14, <1>15, <1>16, <1>17, <1>18, <1>19, <1>20, <1>21, <1>22, <1>23, <1>24,
     <1>25, <1>26, <1>27, <1>28, <1>29, <1>30, <1>31, <1>32
     DEF Next, HandlePost, HandleAbort, Work

(* Every variable keeps its type in every execution, whatever the number   *)
(* of tasks, requests, crashes and lapses.                                 *)
THEOREM TypeCorrect == Spec => []TypeOK
<1>1. TypeInv => TypeOK
  BY DEF TypeInv
<1> QED BY TypeInit, TypeNext, <1>1, PTL DEF Spec

-----------------------------------------------------------------------------
(* Status and phase of a row agree after each kind of write.               *)
LEMMA WritesAgree ==
    ASSUME TypeInv, NEW t \in Task
    PROVE  /\ \A to \in Phase : RowAgrees(Moved(task[t], to))
           /\ \A c \in BOOLEAN : RowAgrees(Requeued(task[t], c))
           /\ \A s \in {"ABORTING", "ABORTED"} : RowAgrees(Cancelled(task[t], s))
           /\ \A n \in Run : RowAgrees(task[t]) => RowAgrees(Counted(task[t], n))
<1>1. task[t] \in TaskRow
  BY DEF TypeInv, TypeOK
<1>2. \A to \in Phase : RowAgrees(Moved(task[t], to))
  BY <1>1, MovedRow DEF RowAgrees
<1>3. \A c \in BOOLEAN : RowAgrees(Requeued(task[t], c))
  BY <1>1, RequeuedRow DEF RowAgrees
<1>4. \A s \in {"ABORTING", "ABORTED"} : RowAgrees(Cancelled(task[t], s))
  <2> TAKE s \in {"ABORTING", "ABORTED"}
  <2>1. s \in Status
    BY DEF Status
  <2>2. Cancelled(task[t], s).status = s /\ Cancelled(task[t], s).aborted
    BY <1>1, <2>1, CancelledRow, Zenon
  <2> QED BY <2>2, Zenon DEF RowAgrees
<1>5. \A n \in Run : RowAgrees(task[t]) => RowAgrees(Counted(task[t], n))
  BY <1>1, CountedRow DEF RowAgrees
<1> QED BY <1>2, <1>3, <1>4, <1>5

LEMMA StatusInit == Init => StatusAgrees
BY DEF Init, NoRow, StatusAgrees, RowAgrees

LEMMA StatusNext == TypeInv /\ StatusAgrees /\ [Next]_vars => StatusAgrees'
<1> SUFFICES ASSUME TypeInv, StatusAgrees, [Next]_vars
             PROVE  StatusAgrees'
  OBVIOUS
<1>1. ASSUME NEW t \in Task, NEW row, RowAgrees(row),
             task' = [task EXCEPT ![t] = row]
      PROVE  StatusAgrees'
  BY <1>1 DEF StatusAgrees, TypeInv, TypeOK
<1>2. CASE UNCHANGED task
  BY <1>2 DEF StatusAgrees
<1>3. ASSUME NEW t \in Task, NEW to \in Phase, task' = Transitioned(t, to)
      PROVE  StatusAgrees'
  BY <1>1, <1>3, WritesAgree DEF Transitioned
<1>4. ASSUME NEW r \in Request, PostReject(r)
      PROVE  StatusAgrees'
  <2>1. RowAgrees(NewRow("COMPLETED", "REJECTED", TRUE, "AUTO"))
    BY DEF NewRow, RowAgrees, statusForPhase
  <2> QED BY <1>1, <1>4, <2>1 DEF PostReject
<1>5. ASSUME NEW r \in Request, PostCommit(r)
      PROVE  StatusAgrees'
  <2>1. \A c, m : RowAgrees(NewRow("QUEUED", "DOMAIN_GUARD", c, m))
    BY DEF NewRow, RowAgrees
  <2>2. post[r].task \in Task
    BY <1>5 DEF PostCommit, TypeInv, Targets
  <2> QED BY <1>1, <1>5, <2>1, <2>2 DEF PostCommit
<1>6. ASSUME NEW r \in Request, ResumeCommit(r)
      PROVE  StatusAgrees'
  <2>1. post[r].task \in Task
    BY <1>6 DEF ResumeCommit, TypeInv, Targets
  <2> QED BY <1>1, <1>6, <2>1, WritesAgree DEF ResumeCommit
<1>7. ASSUME NEW a \in Abort, AbortMark(a)
      PROVE  StatusAgrees'
  <2>1. abort[a].task \in Task
    BY <1>7 DEF AbortMark, TypeInv, Targets
  <2> QED BY <1>1, <1>7, <2>1, WritesAgree DEF AbortMark
<1>8. ASSUME NEW j \in Job, Move(j)
      PROVE  StatusAgrees'
  <2>1. j[1] \in Task /\ PhaseStep[pc[j]].to \in Phase
    BY <1>8, PhaseStepType DEF Move, Job
  <2> QED BY <1>2, <1>3, <1>8, <2>1 DEF Move
<1>9. ASSUME NEW j \in Job, BeginAttempt(j)
      PROVE  StatusAgrees'
  <2>1. j[1] \in Task /\ Iteration(j) \in Run
    BY <1>9 DEF BeginAttempt, Job
  <2>2. RowAgrees(Counted(task[j[1]], Iteration(j)))
    BY <2>1, WritesAgree DEF StatusAgrees
  <2> QED BY <1>1, <1>9, <2>1, <2>2 DEF BeginAttempt
<1>10. ASSUME NEW j \in Job, StagePasses(j)
       PROVE  StatusAgrees'
  <2>1. CASE pc[j] \in Stage \ {"derive"}
    <3>1. j[1] \in Task /\ PhaseStep[pc[j]].to \in Phase
      BY <2>1, PhaseStepType DEF PhaseStep, Stage, Job
    <3> QED BY <1>3, <1>10, <2>1, <3>1 DEF StagePasses
  <2> QED BY <1>2, <1>10, <2>1 DEF StagePasses
<1>11. ASSUME NEW j \in Job, Repair(j)
       PROVE  StatusAgrees'
  <2>1. j[1] \in Task /\ "CODE" \in Phase /\ "NEEDS_USER" \in Phase
    BY DEF Job, Phase
  <2> QED BY <1>2, <1>3, <1>11, <2>1 DEF Repair
<1>12. ASSUME NEW j \in Job, FailTask(j)
       PROVE  StatusAgrees'
  <2>1. j[1] \in Task /\ "FAILED" \in Phase
    BY DEF Job, Phase
  <2>2. RowAgrees(Cancelled(task[j[1]], "ABORTED"))
    BY <2>1, WritesAgree
  <2> QED BY <1>1, <1>3, <1>12, <2>1, <2>2 DEF FailTask
<1>13. ASSUME NEW r \in Request,
              \/ PostReplay(r) \/ PostFindWaiting(r) \/ PostFindActive(r) \/ PostAcquire(r)
              \/ ResumeAcquire(r) \/ PostTxFails(r) \/ PostEnqueue(r) \/ PostLost(r)
       PROVE  StatusAgrees'
  BY <1>2, <1>13 DEF PostReplay, PostFindWaiting, PostFindActive, PostAcquire, LeaseFree, ResumeAcquire,
                     PostTxFails, PostEnqueue, PostLost
<1>14. ASSUME NEW j \in Job,
              \/ Deliver(j) \/ TakeLease(j) \/ LeaseBusy(j) \/ StepThrows(j)
              \/ CheckActive(j) \/ StageNeedsRepair(j) \/ StageThrows(j)
              \/ Confirm(j) \/ PublishRevision(j) \/ Announce(j) \/ Release(j)
              \/ Acknowledge(j) \/ Crash(j)
       PROVE  StatusAgrees'
  BY <1>2, <1>14 DEF Deliver, TakeLease, LeaseBusy, StepThrows, CheckActive,
                     StageNeedsRepair, StageThrows, Confirm, PublishRevision,
                     Announce, Release, Acknowledge, Crash
<1>15. CASE LeaseLapses \/ (\E a \in Abort : AbortFind(a)) \/ UNCHANGED vars
  BY <1>2, <1>15 DEF LeaseLapses, AbortFind, vars
<1> QED
  BY <1>4, <1>5, <1>6, <1>7, <1>8, <1>9, <1>10, <1>11, <1>12, <1>13, <1>14, <1>15
     DEF Next, HandlePost, HandleAbort, Work

(* Five handlers write status and phase and only one of them compares      *)
(* before it writes; still the two columns never disagree.                 *)
THEOREM StatusAgreement == Spec => []StatusAgrees
BY TypeInit, TypeNext, StatusInit, StatusNext, PTL DEF Spec

-----------------------------------------------------------------------------
(* The lease serialises the writers.  SingleWriter is inductive: a lease   *)
(* is acquired only when it is free, and then nobody is a holder.          *)
LEMMA FreeLease ==
    ASSUME TypeInv, SingleWriter, Undisturbed, lease = None
    PROVE  /\ \A r \in Request : ~HandlerHolds(r)
           /\ \A j \in Job : ~JobHolds(j)
BY WorkflowConstants DEF SingleWriter, TypeInv, Targets, HandlerHolds, Job

(* A job that moves on under its lease, or that stops being a holder.      *)
LEMMA JobKeepsWriter ==
    ASSUME TypeInv, SingleWriter, NEW j \in Job, NEW s,
           pc' = [pc EXCEPT ![j] = s],
           s \in Critical \cup {"waiting", "lease"} => JobHolds(j),
           UNCHANGED <<lease, post, crashes, lapses>>
    PROVE  SingleWriter'
<1> SUFFICES ASSUME Undisturbed'
             PROVE  SingleWriter'
  BY DEF SingleWriter
<1>1. Undisturbed
  BY DEF Undisturbed
<1>2. \A r \in Request : HandlerHolds(r)' = HandlerHolds(r)
  BY DEF HandlerHolds
<1>3. \A k \in Job : JobHolds(k)' => JobHolds(k)
  BY DEF JobHolds, TypeInv, TypeOK
<1> QED BY <1>1, <1>2, <1>3 DEF SingleWriter

(* A handler takes a free lease for its task. *)
LEMMA AcquireKeepsWriter ==
    ASSUME TypeInv, SingleWriter, NEW r \in Request, NEW p,
           lease = None, lease' = p.task,
           post' = [post EXCEPT ![r] = p],
           UNCHANGED <<pc, crashes, lapses>>
    PROVE  SingleWriter'
<1> SUFFICES ASSUME Undisturbed'
             PROVE  SingleWriter'
  BY DEF SingleWriter
<1>1. Undisturbed
  BY DEF Undisturbed
<1>2. /\ \A s \in Request : ~HandlerHolds(s)
      /\ \A j \in Job : ~JobHolds(j)
  BY <1>1, FreeLease
<1>3. \A j \in Job : ~JobHolds(j)'
  BY <1>2 DEF JobHolds
<1>4. \A s \in Request : HandlerHolds(s)' => s = r /\ post'[s].task = lease'
  BY <1>2 DEF HandlerHolds, TypeInv, TypeOK
<1> QED BY <1>3, <1>4 DEF SingleWriter

(* A handler moves between two of its steps, both before its acquire or    *)
(* both after it, or is done and keeps the lease as it is.                 *)
LEMMA PostKeepsWriter ==
    ASSUME TypeInv, SingleWriter, NEW r \in Request, NEW p,
           post' = [post EXCEPT ![r] = p],
           p.step \in {"commit", "recommit", "enqueue"}
               => HandlerHolds(r) /\ p.task = post[r].task,
           UNCHANGED <<lease, pc, crashes, lapses>>
    PROVE  SingleWriter'
<1> SUFFICES ASSUME Undisturbed'
             PROVE  SingleWriter'
  BY DEF SingleWriter
<1>1. Undisturbed
  BY DEF Undisturbed
<1>2. \A j \in Job : JobHolds(j)' = JobHolds(j)
  BY DEF JobHolds
<1>3. \A s \in Request :
         HandlerHolds(s)' => HandlerHolds(s) /\ post'[s].task = post[s].task
  BY DEF HandlerHolds, TypeInv, TypeOK
<1> QED BY <1>1, <1>2, <1>3 DEF SingleWriter

(* Whoever gives the lease up was its only holder, so nobody is one now.   *)
LEMMA LastHolder ==
    ASSUME TypeInv, SingleWriter, Undisturbed
    PROVE  /\ \A r \in Request : HandlerHolds(r) =>
                 /\ lease = post[r].task
                 /\ \A s \in Request : s # r => ~HandlerHolds(s)
                 /\ \A j \in Job : ~JobHolds(j)
           /\ \A j \in Job : JobHolds(j) =>
                 /\ lease = j[1]
                 /\ \A k \in Job : k # j => ~JobHolds(k)
                 /\ \A r \in Request : ~HandlerHolds(r)
BY DEF SingleWriter

LEMMA WriterInit == Init => SingleWriter
<1> SUFFICES ASSUME Init PROVE SingleWriter
  OBVIOUS
<1>1. \A r \in Request : post[r].step = "new"
  BY DEF Init, NewPost
<1>2. \A j \in Job : pc[j] = "absent"
  BY DEF Init
<1> QED
  BY <1>1, <1>2 DEF SingleWriter, HandlerHolds, JobHolds, Critical, Stage

LEMMA WriterNext == TypeInv /\ SingleWriter /\ [Next]_vars => SingleWriter'
<1> SUFFICES ASSUME TypeInv, SingleWriter, [Next]_vars
             PROVE  SingleWriter'
  OBVIOUS
<1>0. ASSUME NEW r \in Request, PostReplay(r)
      PROVE  SingleWriter'
  <2>1. \A s \in {"done", "find"} : At(post[r], s).step = s
    BY AtWrites DEF TypeInv, TypeOK, PostStep
  <2> QED BY <1>0, <2>1, PostKeepsWriter DEF PostReplay
<1>1. ASSUME NEW r \in Request, PostFindWaiting(r)
      PROVE  SingleWriter'
  <2>1. \A s \in {"done", "active"} : At(post[r], s).step = s
    BY AtWrites DEF TypeInv, TypeOK, PostStep
  <2>2. \A t \in Task : Resuming(post[r], t, task[t].iterations).step = "resume"
    BY ResumingWrites DEF TypeInv, TypeOK, TaskRow
  <2> QED BY <1>1, <2>1, <2>2, PostKeepsWriter DEF PostFindWaiting, Having
<1>2. ASSUME NEW r \in Request, PostFindActive(r)
      PROVE  SingleWriter'
  <2>1. \A s \in {"done", "create"} : At(post[r], s).step = s
    BY AtWrites DEF TypeInv, TypeOK, PostStep
  <2> QED BY <1>2, <2>1, PostKeepsWriter DEF PostFindActive
<1>3. ASSUME NEW r \in Request, PostAcquire(r)
      PROVE  SingleWriter'
  <2>1. At(post[r], "done").step = "done"
    BY AtWrites DEF TypeInv, TypeOK, PostStep
  <2>2. \A t \in Task : Minting(post[r], t).task = t
    BY MintingWrites DEF TypeInv, TypeOK
  <2> QED BY <1>3, <2>1, <2>2, PostKeepsWriter, AcquireKeepsWriter DEF PostAcquire, LeaseFree
<1>4. ASSUME NEW r \in Request, ResumeAcquire(r)
      PROVE  SingleWriter'
  <2>1. At(post[r], "done").step = "done"
    BY AtWrites DEF TypeInv, TypeOK, PostStep
  <2>2. At(post[r], "recommit").task = post[r].task
    BY AtWrites DEF TypeInv, TypeOK, PostStep
  <2> QED BY <1>4, <2>1, <2>2, PostKeepsWriter, AcquireKeepsWriter DEF ResumeAcquire, LeaseFree
<1>5. ASSUME NEW r \in Request, PostReject(r)
      PROVE  SingleWriter'
  <2>1. At(post[r], "done").step = "done"
    BY AtWrites DEF TypeInv, TypeOK, PostStep
  <2> QED BY <1>5, <2>1, PostKeepsWriter DEF PostReject
<1>6. ASSUME NEW r \in Request, PostCommit(r) \/ ResumeCommit(r)
      PROVE  SingleWriter'
  <2>1. At(post[r], "enqueue").task = post[r].task
    BY AtWrites DEF TypeInv, TypeOK, PostStep
  <2>2. HandlerHolds(r)
    BY <1>6 DEF PostCommit, ResumeCommit, HandlerHolds
  <2> QED BY <1>6, <2>1, <2>2, PostKeepsWriter DEF PostCommit, ResumeCommit
<1>7. ASSUME NEW r \in Request, PostTxFails(r)
      PROVE  SingleWriter'
  <2> SUFFICES ASSUME Undisturbed'
               PROVE  SingleWriter'
    BY DEF SingleWriter
  <2>1. Undisturbed /\ HandlerHolds(r)
    BY <1>7 DEF PostTxFails, Undisturbed, HandlerHolds
  <2>2. At(post[r], "done").step = "done"
    BY AtWrites DEF TypeInv, TypeOK, PostStep
  <2>3. \A s \in Request : ~HandlerHolds(s)'
    BY <1>7, <2>1, <2>2, LastHolder DEF PostTxFails, HandlerHolds, TypeInv, TypeOK
  <2>4. \A j \in Job : ~JobHolds(j)'
    BY <1>7, <2>1, LastHolder DEF PostTxFails, JobHolds
  <2> QED BY <2>3, <2>4 DEF SingleWriter
<1>8. ASSUME NEW r \in Request, PostEnqueue(r)
      PROVE  SingleWriter'
  <2> DEFINE j == <<post[r].task, post[r].run>>
  <2> SUFFICES ASSUME Undisturbed'
               PROVE  SingleWriter'
    BY DEF SingleWriter
  <2>1. Undisturbed /\ HandlerHolds(r)
    BY <1>8 DEF PostEnqueue, Undisturbed, HandlerHolds
  <2>2. At(post[r], "done").step = "done"
    BY AtWrites DEF TypeInv, TypeOK, PostStep
  <2>3. \A s \in Request : ~HandlerHolds(s)'
    BY <1>8, <2>1, <2>2, LastHolder DEF PostEnqueue, HandlerHolds, TypeInv, TypeOK
  <2>4. \A k \in Job : JobHolds(k)' => k = j
    BY <1>8, <2>1, LastHolder DEF PostEnqueue, JobHolds, TypeInv, TypeOK
  <2>5. lease' = j[1]
    BY <1>8, <2>1, LastHolder DEF PostEnqueue
  <2> QED BY <2>3, <2>4, <2>5 DEF SingleWriter
<1>9. ASSUME NEW r \in Request, PostLost(r)
      PROVE  SingleWriter'
  BY <1>9 DEF PostLost, SingleWriter, Undisturbed, TypeInv, TypeOK
<1>10. ASSUME NEW a \in Abort, AbortFind(a) \/ AbortMark(a)
       PROVE  SingleWriter'
  BY <1>10 DEF AbortFind, AbortMark, SingleWriter, Undisturbed, HandlerHolds, JobHolds
<1>11. ASSUME NEW j \in Job, Release(j)
       PROVE  SingleWriter'
  <2> SUFFICES ASSUME Undisturbed'
               PROVE  SingleWriter'
    BY DEF SingleWriter
  <2>1. Undisturbed /\ JobHolds(j)
    BY <1>11 DEF Release, WorkerOnly, Undisturbed, JobHolds, Critical
  <2>2. \A r \in Request : ~HandlerHolds(r)'
    BY <1>11, <2>1, LastHolder DEF Release, WorkerOnly, HandlerHolds
  <2>3. \A k \in Job : ~JobHolds(k)'
    BY <1>11, <2>1, LastHolder
       DEF Release, JobHolds, TypeInv, TypeOK, Critical, Stage
  <2> QED BY <2>2, <2>3 DEF SingleWriter
<1>12. ASSUME NEW j \in Job, TakeLease(j) \/ LeaseBusy(j)
       PROVE  SingleWriter'
  <2> SUFFICES ASSUME Undisturbed'
               PROVE  SingleWriter'
    BY DEF SingleWriter
  <2>1. Undisturbed /\ JobHolds(j)
    BY <1>12 DEF TakeLease, LeaseBusy, WorkerOnly, Undisturbed, JobHolds
  <2>2. lease = j[1] /\ TakeLease(j)
    BY <1>12, <2>1, LastHolder DEF LeaseBusy, LeaseTaken
  <2> QED BY <2>1, <2>2, JobKeepsWriter DEF TakeLease, WorkerOnly
<1>13. ASSUME NEW j \in Job,
              \/ Move(j) \/ StepThrows(j) \/ CheckActive(j) \/ BeginAttempt(j)
              \/ StagePasses(j) \/ StageNeedsRepair(j) \/ StageThrows(j)
              \/ Repair(j) \/ Confirm(j) \/ PublishRevision(j) \/ Announce(j)
              \/ FailTask(j)
       PROVE  SingleWriter'
  <2>1. UNCHANGED <<lease, post, crashes, lapses>>
    BY <1>13 DEF Move, StepThrows, CheckActive, BeginAttempt, StagePasses,
                 StageNeedsRepair, StageThrows, Repair, Confirm, PublishRevision,
                 Announce, FailTask, WorkerOnly
  <2>2. pc[j] \in Critical
    BY <1>13 DEF Move, StepThrows, CheckActive, BeginAttempt, StagePasses,
                 StageNeedsRepair, StageThrows, Repair, Confirm, PublishRevision,
                 Announce, FailTask, Critical, Stage, PhaseStep
  <2>3. \E s : pc' = [pc EXCEPT ![j] = s]
    BY <1>13 DEF Move, StepThrows, CheckActive, BeginAttempt, StagePasses,
                 StageNeedsRepair, StageThrows, Repair, Confirm, PublishRevision,
                 Announce, FailTask, RecordAttempt
  <2> QED BY <2>1, <2>2, <2>3, JobKeepsWriter DEF JobHolds
<1>14. ASSUME NEW j \in Job, Deliver(j) \/ Acknowledge(j)
       PROVE  SingleWriter'
  <2>1. \E s : /\ pc' = [pc EXCEPT ![j] = s]
               /\ s \in Critical \cup {"waiting", "lease"} => JobHolds(j)
    BY <1>14 DEF Deliver, Acknowledge, JobHolds, Critical, Stage
  <2> QED BY <1>14, <2>1, JobKeepsWriter DEF Deliver, Acknowledge, WorkerOnly
<1>15. CASE LeaseLapses \/ \E j \in Job : Crash(j)
  BY <1>15 DEF LeaseLapses, Crash, SingleWriter, Undisturbed, TypeInv, TypeOK
<1>16. CASE UNCHANGED vars
  BY <1>16 DEF vars, SingleWriter, Undisturbed, HandlerHolds, JobHolds
<1> QED
  BY <1>0, <1>1, <1>2, <1>3, <1>4, <1>5, <1>6, <1>7, <1>8, <1>9, <1>10, <1>11, <1>12,
     <1>13, <1>14, <1>15, <1>16
     DEF Next, HandlePost, HandleAbort, Work

(* While no lease has run out and no process has stopped, whoever may      *)
(* write to the conversation holds its lease, and nobody else may write.   *)
THEOREM MutualExclusion == Spec => []SingleWriter
BY TypeInit, TypeNext, WriterInit, WriterNext, PTL DEF Spec

-----------------------------------------------------------------------------
(* OneOpenTask and LeaseLeak need to know the state of the task at the     *)
(* moments the lease changes hands: what is given up is never open, what   *)
(* is left behind or handed to the queue is QUEUED or ABORTING.            *)
IsOpen(t) == t \in Having({"QUEUED", "RUNNING"})
Parked(t) == Created(t) /\ task[t].status \in {"QUEUED", "ABORTING"}
Unheld == (\A r \in Request : ~HandlerHolds(r)) /\ (\A j \in Job : ~JobHolds(j))

Handover ==
    /\ \A r \in Request : post[r].step = "commit" => ~Created(post[r].task)
    /\ \A r \in Request : post[r].step = "recommit" => ~IsOpen(post[r].task)
    /\ \A r \in Request : post[r].step = "enqueue" => Parked(post[r].task)
    /\ \A j \in Job : pc[j] = "waiting" => Parked(j[1])
    /\ \A j \in Job : pc[j] \in {"announce", "release"} => ~IsOpen(j[1])
    /\ \A t \in Task : lease = t /\ Unheld => Parked(t)

LeaseInv == Undisturbed => Handover /\ \A t \in Task : IsOpen(t) => lease = t

(* A handler that resumes a task has seen its row. *)
Known ==
    \A r \in Request :
        post[r].step \in {"resume", "recommit"} => Created(post[r].task)

LEMMA LeaseInvImplies == LeaseInv => OneOpenTask /\ LeaseLeak
BY DEF LeaseInv, Handover, OneOpenTask, LeaseLeak, IsOpen, Parked, Unheld, Having

LEMMA LeaseInit == Init => LeaseInv
<1> SUFFICES ASSUME Init PROVE LeaseInv
  OBVIOUS
<1>1. \A r \in Request : post[r].step = "new"
  BY DEF Init, NewPost
<1>2. \A j \in Job : pc[j] = "absent"
  BY DEF Init
<1>3. \A t \in Task : ~Created(t)
  BY DEF Init, NoRow, Created
<1>4. lease \notin Task
  BY WorkflowConstants DEF Init
<1> QED
  BY <1>1, <1>2, <1>3, <1>4 DEF LeaseInv, Handover, IsOpen, Having

(* Rows are never deleted while the conversation lives. *)
LEMMA CreatedStays ==
    ASSUME TypeInv, [Next]_vars, NEW t \in Task, Created(t)
    PROVE  Created(t)'
<1> DEFINE Kept(row, old) == row.createdAt = old.createdAt
<1>1. ASSUME NEW u \in Task, NEW row, row.createdAt > 0 \/ Kept(row, task[u]),
             task' = [task EXCEPT ![u] = row]
      PROVE  Created(t)'
  BY <1>1 DEF Created, TypeInv, TypeOK
<1>2. CASE UNCHANGED task
  BY <1>2 DEF Created
<1>3. ASSUME NEW u \in Task, NEW to \in Phase, task' = Transitioned(u, to)
      PROVE  Created(t)'
  <2>1. Kept(Moved(task[u], to), task[u])
    BY MovedRow DEF TypeInv, TypeOK
  <2> QED BY <1>1, <1>3, <2>1 DEF Transitioned
<1>4. ASSUME NEW r \in Request, PostReject(r) \/ PostCommit(r)
      PROVE  Created(t)'
  <2>1. \A status \in Status, phase \in Phase, c \in BOOLEAN, m \in {"AUTO", "PLAN"} :
           NewRow(status, phase, c, m).createdAt > 0
    BY NewRowType
  <2>2. /\ "COMPLETED" \in Status /\ "REJECTED" \in Phase
        /\ "QUEUED" \in Status /\ "DOMAIN_GUARD" \in Phase
    BY DEF Status, Phase
  <2>3. post[r].step = "commit" => post[r].task \in Task
    BY DEF TypeInv, Targets
  <2> QED BY <1>1, <1>4, <2>1, <2>2, <2>3 DEF PostReject, PostCommit
<1>5. ASSUME NEW r \in Request, ResumeCommit(r)
      PROVE  Created(t)'
  <2>1. post[r].task \in Task
    BY <1>5 DEF ResumeCommit, TypeInv, Targets
  <2>2. \A c \in BOOLEAN : Kept(Requeued(task[post[r].task], c), task[post[r].task])
    BY <2>1, RequeuedRow DEF TypeInv, TypeOK
  <2> QED BY <1>1, <1>5, <2>1, <2>2 DEF ResumeCommit
<1>6. ASSUME NEW u \in Task, NEW s \in Status,
             task' = [task EXCEPT ![u] = Cancelled(@, s)]
      PROVE  Created(t)'
  <2>1. Kept(Cancelled(task[u], s), task[u])
    BY CancelledRow DEF TypeInv, TypeOK
  <2> QED BY <1>1, <1>6, <2>1
<1>7. ASSUME NEW a \in Abort, AbortMark(a)
      PROVE  Created(t)'
  BY <1>6, <1>7 DEF AbortMark, Status, TypeInv, Targets
<1>8. ASSUME NEW j \in Job, Move(j) \/ Repair(j)
      PROVE  Created(t)'
  <2>1. j[1] \in Task /\ "CODE" \in Phase /\ "NEEDS_USER" \in Phase
    BY DEF Job, Phase
  <2>2. pc[j] \in DOMAIN PhaseStep => PhaseStep[pc[j]].to \in Phase
    BY PhaseStepType
  <2>3. CASE Move(j)
    BY <1>2, <1>3, <2>1, <2>2, <2>3 DEF Move
  <2>4. CASE Repair(j)
    BY <1>2, <1>3, <2>1, <2>4 DEF Repair
  <2> QED BY <1>8, <2>3, <2>4
<1>9. ASSUME NEW j \in Job, BeginAttempt(j)
      PROVE  Created(t)'
  <2>1. j[1] \in Task /\ Kept(Counted(task[j[1]], Iteration(j)), task[j[1]])
    BY <1>9, CountedRow DEF BeginAttempt, Job, TypeInv, TypeOK
  <2> QED BY <1>1, <1>9, <2>1 DEF BeginAttempt
<1>10. ASSUME NEW j \in Job, StagePasses(j)
       PROVE  Created(t)'
  <2>1. CASE pc[j] \in Stage \ {"derive"}
    <3>1. j[1] \in Task /\ PhaseStep[pc[j]].to \in Phase
      BY <2>1, PhaseStepType DEF PhaseStep, Stage, Job
    <3> QED BY <1>3, <1>10, <2>1, <3>1 DEF StagePasses
  <2> QED BY <1>2, <1>10, <2>1 DEF StagePasses
<1>11. ASSUME NEW j \in Job, FailTask(j)
       PROVE  Created(t)'
  <2>1. j[1] \in Task /\ "FAILED" \in Phase /\ "ABORTED" \in Status
    BY DEF Job, Phase, Status
  <2> QED BY <1>3, <1>6, <1>11, <2>1 DEF FailTask
<1>12. ASSUME NEW r \in Request,
              \/ PostReplay(r) \/ PostFindWaiting(r) \/ PostFindActive(r) \/ PostAcquire(r)
              \/ ResumeAcquire(r) \/ PostTxFails(r) \/ PostEnqueue(r) \/ PostLost(r)
       PROVE  Created(t)'
  BY <1>2, <1>12 DEF PostReplay, PostFindWaiting, PostFindActive, PostAcquire, LeaseFree, ResumeAcquire,
                     PostTxFails, PostEnqueue, PostLost
<1>13. ASSUME NEW j \in Job,
              \/ Deliver(j) \/ TakeLease(j) \/ LeaseBusy(j) \/ StepThrows(j)
              \/ CheckActive(j) \/ StageNeedsRepair(j) \/ StageThrows(j)
              \/ Confirm(j) \/ PublishRevision(j) \/ Announce(j) \/ Release(j)
              \/ Acknowledge(j) \/ Crash(j)
       PROVE  Created(t)'
  BY <1>2, <1>13 DEF Deliver, TakeLease, LeaseBusy, StepThrows, CheckActive,
                     StageNeedsRepair, StageThrows, Confirm, PublishRevision,
                     Announce, Release, Acknowledge, Crash
<1>14. CASE LeaseLapses \/ (\E a \in Abort : AbortFind(a)) \/ UNCHANGED vars
  BY <1>2, <1>14 DEF LeaseLapses, AbortFind, vars
<1> QED
  BY <1>4, <1>5, <1>7, <1>8, <1>9, <1>10, <1>11, <1>12, <1>13, <1>14
     DEF Next, HandlePost, HandleAbort, Work

LEMMA KnownInit == Init => Known
BY DEF Init, NewPost, Known

LEMMA KnownNext == TypeInv /\ Known /\ [Next]_vars => Known'
<1> SUFFICES ASSUME TypeInv, Known, [Next]_vars,
                    NEW r \in Request, post'[r].step \in {"resume", "recommit"}
             PROVE  \E t \in Task : post'[r].task = t /\ Created(t)'
  BY DEF Known, Created
<1>1. SUFFICES ASSUME post'[r] # post[r]
               PROVE  \E t \in Task : post'[r].task = t /\ Created(t)
  BY CreatedStays DEF Known, TypeInv, Targets
<1>2. \A p \in Request, s \in PostStep : At(post[p], s).step = s
  BY AtWrites DEF TypeInv, TypeOK
<1>3. CASE PostFindWaiting(r)
  <2>1. \A t \in Task : Resuming(post[r], t, task[t].iterations).task = t
    BY ResumingWrites DEF TypeInv, TypeOK, TaskRow
  <2> QED BY <1>2, <1>3, <2>1
          DEF PostFindWaiting, Having, PostStep, TypeInv, TypeOK
<1>4. CASE ResumeAcquire(r)
  <2>1. At(post[r], "recommit").task = post[r].task
    BY AtWrites DEF TypeInv, TypeOK, PostStep
  <2> QED BY <1>2, <1>4, <2>1
          DEF ResumeAcquire, LeaseFree, PostStep, Known, TypeInv, TypeOK, Targets
<1>5. CASE PostAcquire(r)
  <2>1. \A t \in Task : Minting(post[r], t).step = "commit"
    BY MintingWrites DEF TypeInv, TypeOK
  <2> QED BY <1>2, <1>5, <2>1 DEF PostAcquire, LeaseFree, PostStep, TypeInv, TypeOK
<1>6. CASE \/ PostReplay(r) \/ PostFindActive(r) \/ PostReject(r) \/ PostCommit(r) \/ ResumeCommit(r)
           \/ PostTxFails(r) \/ PostEnqueue(r) \/ PostLost(r)
  BY <1>2, <1>6 DEF PostReplay, PostFindActive, PostReject, PostCommit, ResumeCommit,
                    PostTxFails, PostEnqueue, PostLost, PostStep, TypeInv, TypeOK
<1>7. \A p \in Request : p # r => ~HandlePost(p) /\ ~PostLost(p)
  BY <1>1 DEF HandlePost, PostReplay, PostFindWaiting, PostFindActive, PostAcquire, PostReject,
              PostCommit, ResumeAcquire, ResumeCommit, PostTxFails, PostEnqueue,
              PostLost, TypeInv, TypeOK
<1>8. \A a \in Abort : ~HandleAbort(a)
  BY <1>1 DEF HandleAbort, AbortFind, AbortMark
<1>9. \A j \in Job : ~Work(j) /\ ~Crash(j)
  BY <1>1 DEF Work, Crash, WorkerOnly, Deliver, TakeLease, LeaseBusy, Move,
              StepThrows, CheckActive, BeginAttempt, StagePasses, StageNeedsRepair,
              StageThrows, Repair, Confirm, PublishRevision, Announce, FailTask,
              Release, Acknowledge
<1> QED
  BY <1>1, <1>3, <1>4, <1>5, <1>6, <1>7, <1>8, <1>9
     DEF Next, HandlePost, LeaseLapses, vars

(* A POST moves between steps at which it does not hold the lease. *)
LEMMA PostKeepsLease ==
    ASSUME TypeInv, LeaseInv, NEW r \in Request, NEW p,
           ~HandlerHolds(r), post' = [post EXCEPT ![r] = p],
           p.step \notin {"commit", "recommit", "enqueue"},
           UNCHANGED <<task, lease, pc, crashes, lapses>>
    PROVE  LeaseInv'
<1> SUFFICES ASSUME Undisturbed'
             PROVE  LeaseInv'
  BY DEF LeaseInv
<1>1. Undisturbed /\ Handover
  BY DEF Undisturbed, LeaseInv
<1>2. \A t \in Task : /\ IsOpen(t)' = IsOpen(t) /\ Parked(t)' = Parked(t)
                      /\ Created(t)' = Created(t)
  BY DEF IsOpen, Parked, Having, Created
<1>3. \A s \in Request :
         /\ post'[s].step \in {"commit", "recommit", "enqueue"} => post'[s] = post[s]
         /\ HandlerHolds(s)' = HandlerHolds(s)
  BY DEF HandlerHolds, TypeInv, TypeOK
<1>4. Unheld' = Unheld
  BY <1>3 DEF Unheld, JobHolds
<1>5. Handover'
  <2>1. \A s \in Request :
           post[s].step \in {"resume", "commit", "recommit", "enqueue"}
              => post[s].task \in Task
    BY DEF TypeInv, Targets
  <2> QED BY <1>1, <1>2, <1>3, <1>4, <2>1 DEF Handover, Job, Created
<1> QED BY <1>1, <1>2, <1>5 DEF LeaseInv

(* A handler acquires a free lease: no task is open then. *)
LEMMA AcquireKeepsLease ==
    ASSUME TypeInv, SingleWriter, LeaseInv, NEW r \in Request, NEW p,
           lease = None, lease' = p.task, p.task \in Task,
           post' = [post EXCEPT ![r] = p],
           \/ p.step = "commit" /\ ~Created(p.task)
           \/ p.step = "recommit",
           UNCHANGED <<task, pc, crashes, lapses>>
    PROVE  LeaseInv'
<1> SUFFICES ASSUME Undisturbed'
             PROVE  LeaseInv'
  BY DEF LeaseInv
<1>1. Undisturbed
  BY DEF Undisturbed
<1>2. /\ \A s \in Request : ~HandlerHolds(s)
      /\ \A j \in Job : ~JobHolds(j)
  BY <1>1, FreeLease
<1>3. \A t \in Task : ~IsOpen(t)
  BY <1>1, WorkflowConstants DEF LeaseInv
<1>4. \A t \in Task : ~IsOpen(t)'
  BY <1>3 DEF IsOpen, Having, Created
<1>5. \A s \in Request : post'[s].step \in {"commit", "recommit", "enqueue"}
         => s = r /\ post'[s] = p
  BY <1>2 DEF HandlerHolds, TypeInv, TypeOK
<1>6. HandlerHolds(r)'
  BY DEF HandlerHolds, TypeInv, TypeOK
<1>7. \A j \in Job : pc'[j] # "waiting" /\ pc'[j] \notin {"announce", "release"}
  BY <1>2 DEF JobHolds, Critical
<1>8. Handover'
  BY <1>4, <1>5, <1>6, <1>7 DEF Handover, Unheld, Created
<1> QED BY <1>4, <1>8 DEF LeaseInv

(* A worker under its lease writes to its own task only, and has closed it *)
(* when it is about to give the lease up.                                  *)
LEMMA JobKeepsLease ==
    ASSUME TypeInv, SingleWriter, LeaseInv, NEW j \in Job, NEW s \in Critical,
           JobHolds(j), pc' = [pc EXCEPT ![j] = s],
           \A t \in Task : t # j[1] => task'[t] = task[t],
           s \in {"announce", "release"} => ~IsOpen(j[1])',
           UNCHANGED <<lease, post, crashes, lapses>>
    PROVE  LeaseInv'
<1> SUFFICES ASSUME Undisturbed'
             PROVE  LeaseInv'
  BY DEF LeaseInv
<1>1. Undisturbed
  BY DEF Undisturbed
<1>2. /\ lease = j[1]
      /\ \A k \in Job : k # j => ~JobHolds(k)
      /\ \A r \in Request : ~HandlerHolds(r)
  BY <1>1, LastHolder
<1>3. \A k \in Job : k # j => pc'[k] \notin {"waiting", "announce", "release"}
  BY <1>2 DEF JobHolds, Critical, TypeInv, TypeOK
<1>4. pc'[j] = s
  BY DEF TypeInv, TypeOK
<1>5. \A t \in Task : t # j[1] => IsOpen(t)' = IsOpen(t)
  BY DEF IsOpen, Having, Created
<1>6. JobHolds(j)'
  BY <1>4 DEF JobHolds
<1>7. s # "waiting"
  BY DEF Critical, Stage
<1>8. Handover'
  BY <1>2, <1>3, <1>4, <1>6, <1>7 DEF Handover, Unheld, HandlerHolds
<1> QED BY <1>1, <1>2, <1>5, <1>8 DEF LeaseInv

(* A handler that holds the lease commits the row it will enqueue. *)
LEMMA CommitKeepsLease ==
    ASSUME TypeInv, SingleWriter, LeaseInv, NEW r \in Request, NEW t \in Task,
           HandlerHolds(r), post[r].task = t,
           post' = [post EXCEPT ![r] = At(@, "enqueue")],
           \A u \in Task : u # t => task'[u] = task[u],
           Parked(t)',
           UNCHANGED <<lease, pc, crashes, lapses>>
    PROVE  LeaseInv'
<1> SUFFICES ASSUME Undisturbed'
             PROVE  LeaseInv'
  BY DEF LeaseInv
<1>1. Undisturbed
  BY DEF Undisturbed
<1>2. /\ lease = t
      /\ \A s \in Request : s # r => ~HandlerHolds(s)
      /\ \A j \in Job : ~JobHolds(j)
  BY <1>1, LastHolder
<1>3. post'[r].step = "enqueue" /\ post'[r].task = t
  BY AtWrites DEF TypeInv, TypeOK, PostStep
<1>4. \A s \in Request : post'[s].step \in {"commit", "recommit", "enqueue"} => s = r
  BY <1>2 DEF HandlerHolds, TypeInv, TypeOK
<1>5. \A j \in Job : pc'[j] \notin {"waiting", "announce", "release"}
  BY <1>2 DEF JobHolds, Critical
<1>6. \A u \in Task : IsOpen(u)' => lease' = u
  <2>1. \A u \in Task : u # t => IsOpen(u)' = IsOpen(u)
    BY DEF IsOpen, Having, Created
  <2> QED BY <1>1, <1>2, <2>1 DEF LeaseInv
<1>7. HandlerHolds(r)'
  BY <1>3 DEF HandlerHolds
<1>8. Handover'
  BY <1>3, <1>4, <1>5, <1>7 DEF Handover, Unheld
<1> QED BY <1>6, <1>8 DEF LeaseInv

LEMMA LeaseNext ==
    TypeInv /\ Known /\ SingleWriter /\ LeaseInv /\ [Next]_vars => LeaseInv'
<1> SUFFICES ASSUME TypeInv, Known, SingleWriter, LeaseInv, [Next]_vars
             PROVE  LeaseInv'
  OBVIOUS
<1>0. ASSUME NEW r \in Request, PostReplay(r)
      PROVE  LeaseInv'
  <2>1. \A s \in {"done", "find"} : At(post[r], s).step = s
    BY AtWrites DEF TypeInv, TypeOK, PostStep
  <2>2. ~HandlerHolds(r)
    BY <1>0 DEF PostReplay, HandlerHolds
  <2> QED BY <1>0, <2>1, <2>2, PostKeepsLease DEF PostReplay
<1>1. ASSUME NEW r \in Request, PostFindWaiting(r)
      PROVE  LeaseInv'
  <2>1. \A s \in {"done", "active"} : At(post[r], s).step = s
    BY AtWrites DEF TypeInv, TypeOK, PostStep
  <2>2. \A t \in Task : Resuming(post[r], t, task[t].iterations).step = "resume"
    BY ResumingWrites DEF TypeInv, TypeOK, TaskRow
  <2>3. ~HandlerHolds(r)
    BY <1>1 DEF PostFindWaiting, HandlerHolds
  <2> QED BY <1>1, <2>1, <2>2, <2>3, PostKeepsLease DEF PostFindWaiting, Having
<1>2. ASSUME NEW r \in Request, PostFindActive(r)
      PROVE  LeaseInv'
  <2>1. \A s \in {"done", "create"} : At(post[r], s).step = s
    BY AtWrites DEF TypeInv, TypeOK, PostStep
  <2>2. ~HandlerHolds(r)
    BY <1>2 DEF PostFindActive, HandlerHolds
  <2> QED BY <1>2, <2>1, <2>2, PostKeepsLease DEF PostFindActive
<1>3. ASSUME NEW r \in Request, PostAcquire(r)
      PROVE  LeaseInv'
  <2>1. At(post[r], "done").step = "done"
    BY AtWrites DEF TypeInv, TypeOK, PostStep
  <2>2. \A t \in Task : Minting(post[r], t).task = t /\ Minting(post[r], t).step = "commit"
    BY MintingWrites DEF TypeInv, TypeOK
  <2>3. ~HandlerHolds(r)
    BY <1>3 DEF PostAcquire, LeaseFree, HandlerHolds
  <2>4. CASE post' = [post EXCEPT ![r] = At(@, "done")] /\ UNCHANGED lease
    BY <1>3, <2>1, <2>3, <2>4, PostKeepsLease DEF PostAcquire, LeaseFree
  <2>5. ASSUME NEW t \in Task, lease = None, lease' = t, ~Created(t),
               post' = [post EXCEPT ![r] = Minting(@, t)]
        PROVE  LeaseInv'
    BY <1>3, <2>2, <2>5, AcquireKeepsLease DEF PostAcquire, LeaseFree
  <2> QED BY <1>3, <2>4, <2>5 DEF PostAcquire, LeaseFree
<1>4. ASSUME NEW r \in Request, ResumeAcquire(r)
      PROVE  LeaseInv'
  <2>1. At(post[r], "done").step = "done"
    BY AtWrites DEF TypeInv, TypeOK, PostStep
  <2>2. /\ At(post[r], "recommit").task = post[r].task
        /\ At(post[r], "recommit").step = "recommit"
    BY AtWrites DEF TypeInv, TypeOK, PostStep
  <2>3. ~HandlerHolds(r) /\ post[r].task \in Task
    BY <1>4 DEF ResumeAcquire, LeaseFree, HandlerHolds, TypeInv, Targets
  <2> QED
    BY <1>4, <2>1, <2>2, <2>3, PostKeepsLease, AcquireKeepsLease DEF ResumeAcquire, LeaseFree
<1>5. ASSUME NEW r \in Request, PostReject(r)
      PROVE  LeaseInv'
  <2> SUFFICES ASSUME Undisturbed'
               PROVE  LeaseInv'
    BY DEF LeaseInv
  <2>1. PICK t \in Task :
           /\ ~Created(t) /\ t \notin Minted
           /\ task' = [task EXCEPT ![t] = NewRow("COMPLETED", "REJECTED", TRUE, "AUTO")]
    BY <1>5 DEF PostReject
  <2>2. Undisturbed /\ Handover
    BY <1>5 DEF PostReject, Undisturbed, LeaseInv
  <2>3. NewRow("COMPLETED", "REJECTED", TRUE, "AUTO").status = "COMPLETED"
    BY DEF NewRow
  <2>4. \A u \in Task : u # t => task'[u] = task[u]
    BY <2>1 DEF TypeInv, TypeOK
  <2>5. \A u \in Task : (IsOpen(u)' => IsOpen(u)) /\ (Parked(u) => Parked(u)')
    BY <2>1, <2>3, <2>4 DEF IsOpen, Parked, Having, Created, TypeInv, TypeOK
  <2>6. At(post[r], "done").step = "done"
    BY AtWrites DEF TypeInv, TypeOK, PostStep
  <2>7. /\ \A s \in Request :
             /\ post'[s].step \in {"commit", "recommit", "enqueue"} => post'[s] = post[s]
             /\ HandlerHolds(s)' = HandlerHolds(s)
        /\ Unheld' = Unheld
    BY <1>5, <2>6 DEF PostReject, HandlerHolds, JobHolds, Unheld, TypeInv, TypeOK
  <2>8. \A s \in Request : post'[s].step = "commit" => ~Created(post[s].task)'
    <3> SUFFICES ASSUME NEW s \in Request, post'[s].step = "commit"
                 PROVE  ~Created(post[s].task)'
      OBVIOUS
    <3>1. post'[s] = post[s] /\ ~Created(post[s].task)
      BY <2>2, <2>7 DEF Handover
    <3>2. post[s].task \in Task /\ post[s].task # t
      BY <2>1, <3>1 DEF Minted, TypeInv, Targets
    <3>3. task'[post[s].task] = task[post[s].task]
      BY <2>4, <3>2
    <3> QED BY <3>1, <3>3 DEF Created
  <2>9. Handover'
    BY <1>5, <2>2, <2>5, <2>7, <2>8 DEF Handover, PostReject, TypeInv, Targets, Job
  <2> QED BY <1>5, <2>2, <2>5, <2>9 DEF LeaseInv, PostReject
<1>6. ASSUME NEW r \in Request, PostCommit(r)
      PROVE  LeaseInv'
  <2>1. HandlerHolds(r) /\ post[r].task \in Task
    BY <1>6 DEF PostCommit, HandlerHolds, TypeInv, Targets
  <2>2. PICK c \in BOOLEAN, m \in {"AUTO", "PLAN"} :
           task' = [task EXCEPT ![post[r].task] = NewRow("QUEUED", "DOMAIN_GUARD", c, m)]
    BY <1>6 DEF PostCommit
  <2>3. /\ NewRow("QUEUED", "DOMAIN_GUARD", c, m).status = "QUEUED"
        /\ NewRow("QUEUED", "DOMAIN_GUARD", c, m).createdAt > 0
    BY NewRowType DEF Status, Phase
  <2>4. \A t \in Task : post[r].task = t => Parked(t)'
    BY <2>2, <2>3 DEF Parked, Created, TypeInv, TypeOK
  <2>5. \A u \in Task : u # post[r].task => task'[u] = task[u]
    BY <2>2 DEF TypeInv, TypeOK
  <2> QED BY <1>6, <2>1, <2>4, <2>5, CommitKeepsLease DEF PostCommit
<1>7. ASSUME NEW r \in Request, ResumeCommit(r)
      PROVE  LeaseInv'
  <2> SUFFICES ASSUME Undisturbed'
               PROVE  LeaseInv'
    BY DEF LeaseInv
  <2>1. HandlerHolds(r) /\ post[r].task \in Task
    BY <1>7 DEF ResumeCommit, HandlerHolds, TypeInv, Targets
  <2>2. Created(post[r].task)
    BY <1>7 DEF ResumeCommit, Known
  <2>3. PICK c \in BOOLEAN :
           task' = [task EXCEPT ![post[r].task] = Requeued(@, c)]
    BY <1>7 DEF ResumeCommit
  <2>4. /\ Requeued(task[post[r].task], c).status = "QUEUED"
        /\ Requeued(task[post[r].task], c).createdAt = task[post[r].task].createdAt
    BY <2>1, RequeuedRow DEF TypeInv, TypeOK
  <2>5. \A t \in Task : post[r].task = t => Parked(t)'
    BY <2>1, <2>2, <2>3, <2>4 DEF Parked, Created, TypeInv, TypeOK
  <2>6. \A u \in Task : u # post[r].task => task'[u] = task[u]
    BY <2>3 DEF TypeInv, TypeOK
  <2> QED BY <1>7, <2>1, <2>5, <2>6, CommitKeepsLease DEF ResumeCommit
<1>8. ASSUME NEW r \in Request, PostTxFails(r)
      PROVE  LeaseInv'
  <2> SUFFICES ASSUME Undisturbed'
               PROVE  LeaseInv'
    BY DEF LeaseInv
  <2>1. Undisturbed /\ Handover /\ HandlerHolds(r) /\ post[r].task \in Task
    BY <1>8 DEF PostTxFails, Undisturbed, LeaseInv, HandlerHolds, TypeInv, Targets
  <2>2. ~IsOpen(post[r].task)
    BY <1>8, <2>1 DEF PostTxFails, Handover, IsOpen, Having
  <2>3. lease = post[r].task /\ lease' = None
    BY <1>8, <2>1, LastHolder DEF PostTxFails, Released
  <2>4. \A t \in Task : ~IsOpen(t)'
    BY <1>8, <2>1, <2>2, <2>3 DEF LeaseInv, PostTxFails, IsOpen, Having, Created
  <2>5. At(post[r], "done").step = "done"
    BY AtWrites DEF TypeInv, TypeOK, PostStep
  <2>6. \A s \in Request :
           post'[s].step \in {"commit", "recommit", "enqueue"}
              => post'[s] = post[s] /\ post[s].task \in Task
    BY <1>8, <2>5 DEF PostTxFails, TypeInv, TypeOK, Targets
  <2>7. Handover'
    BY <1>8, <2>1, <2>3, <2>4, <2>6, WorkflowConstants
       DEF Handover, PostTxFails, Parked, Created, Job
  <2> QED BY <2>4, <2>7 DEF LeaseInv
<1>9. ASSUME NEW r \in Request, PostEnqueue(r)
      PROVE  LeaseInv'
  <2> DEFINE j == <<post[r].task, post[r].run>>
  <2> SUFFICES ASSUME Undisturbed'
               PROVE  LeaseInv'
    BY DEF LeaseInv
  <2>1. Undisturbed /\ Handover /\ HandlerHolds(r)
    BY <1>9 DEF PostEnqueue, Undisturbed, LeaseInv, HandlerHolds
  <2>2. Parked(post[r].task) /\ lease = post[r].task
    BY <1>9, <2>1, LastHolder DEF PostEnqueue, Handover
  <2>3. At(post[r], "done").step = "done"
    BY AtWrites DEF TypeInv, TypeOK, PostStep
  <2>4. \A s \in Request :
           post'[s].step \in {"commit", "recommit", "enqueue"}
              => post'[s] = post[s] /\ post[s].task \in Task
    BY <1>9, <2>3 DEF PostEnqueue, TypeInv, TypeOK, Targets
  <2>5. ASSUME NEW k \in Job
        PROVE  pc'[k] = pc[k] \/ (k = j /\ pc'[k] = "waiting")
    <3>1. PICK i : i = j /\ pc' = [pc EXCEPT ![i] = IF @ = "absent" THEN "waiting" ELSE @]
      BY <1>9 DEF PostEnqueue
    <3>2. CASE k = i
      BY <3>1, <3>2 DEF TypeInv, TypeOK
    <3>3. CASE k # i
      BY <3>1, <3>3 DEF TypeInv, TypeOK
    <3> QED BY <3>2, <3>3
  <2>6. \A t \in Task : /\ IsOpen(t)' = IsOpen(t) /\ Parked(t)' = Parked(t)
                        /\ Created(t)' = Created(t)
    BY <1>9 DEF PostEnqueue, IsOpen, Parked, Having, Created
  <2>7. Handover'
    BY <1>9, <2>1, <2>2, <2>4, <2>5, <2>6 DEF Handover, PostEnqueue, Job
  <2> QED BY <1>9, <2>1, <2>6, <2>7 DEF LeaseInv, PostEnqueue
<1>10. ASSUME NEW r \in Request, PostLost(r)
       PROVE  LeaseInv'
  BY <1>10 DEF PostLost, LeaseInv, Undisturbed, TypeInv, TypeOK
<1>11. ASSUME NEW a \in Abort, AbortFind(a)
       PROVE  LeaseInv'
  BY <1>11 DEF AbortFind, LeaseInv, Undisturbed, Handover, IsOpen, Parked, Unheld,
               HandlerHolds, JobHolds, Having, Created
<1>12. ASSUME NEW a \in Abort, AbortMark(a)
       PROVE  LeaseInv'
  <2> SUFFICES ASSUME Undisturbed'
               PROVE  LeaseInv'
    BY DEF LeaseInv
  <2>1. Undisturbed /\ Handover
    BY <1>12 DEF AbortMark, Undisturbed, LeaseInv
  <2>2. abort[a].task \in Task
    BY <1>12 DEF AbortMark, TypeInv, Targets
  <2>3. LET row == Cancelled(task[abort[a].task], "ABORTING") IN
        /\ row.status = "ABORTING"
        /\ row.createdAt = task[abort[a].task].createdAt
    BY <2>2, CancelledRow DEF TypeInv, TypeOK, Status
  <2>4. \A t \in Task : /\ IsOpen(t)' => IsOpen(t)
                        /\ Parked(t) => Parked(t)'
                        /\ Created(t)' = Created(t)
    BY <1>12, <2>2, <2>3 DEF AbortMark, IsOpen, Parked, Having, Created, TypeInv, TypeOK
  <2>5. Unheld' = Unheld
    BY <1>12 DEF AbortMark, Unheld, HandlerHolds, JobHolds
  <2>6. UNCHANGED <<post, pc, lease>>
    BY <1>12 DEF AbortMark
  <2>7. Handover'
    BY <2>1, <2>4, <2>5, <2>6 DEF Handover, TypeInv, Targets, Job
  <2> QED BY <2>1, <2>4, <2>6, <2>7 DEF LeaseInv
<1>13. ASSUME NEW j \in Job, Deliver(j) \/ Acknowledge(j)
       PROVE  LeaseInv'
  <2> SUFFICES ASSUME Undisturbed'
               PROVE  LeaseInv'
    BY DEF LeaseInv
  <2>1. Undisturbed /\ Handover
    BY <1>13 DEF Deliver, Acknowledge, WorkerOnly, Undisturbed, LeaseInv
  <2>2. UNCHANGED <<task, lease, post>>
    BY <1>13 DEF Deliver, Acknowledge, WorkerOnly
  <2>3. \A t \in Task : IsOpen(t)' = IsOpen(t) /\ Parked(t)' = Parked(t)
    BY <2>2 DEF IsOpen, Parked, Having, Created
  <2>4. /\ \A k \in Job : k # j => pc'[k] = pc[k]
        /\ pc'[j] \notin {"waiting", "announce", "release"}
    BY <1>13 DEF Deliver, Acknowledge, TypeInv, TypeOK
  <2>5. ASSUME NEW t \in Task, lease' = t, Unheld'
        PROVE  Parked(t)'
    <3>1. \A r \in Request : ~HandlerHolds(r)
      BY <2>2, <2>5 DEF Unheld, HandlerHolds
    <3>2. \A k \in Job : k # j => ~JobHolds(k)
      BY <2>4, <2>5 DEF Unheld, JobHolds
    <3>3. CASE JobHolds(j)
      <4>1. lease = j[1] /\ Deliver(j)
        BY <1>13, <2>1, <3>3, LastHolder DEF Acknowledge, JobHolds, Critical, Stage
      <4> QED BY <2>1, <2>2, <2>3, <2>5, <4>1 DEF Handover, Deliver
    <3>4. CASE ~JobHolds(j)
      BY <2>1, <2>2, <2>3, <2>5, <3>1, <3>2, <3>4 DEF Handover, Unheld
    <3> QED BY <3>3, <3>4
  <2>6. Handover'
    BY <2>1, <2>2, <2>3, <2>4, <2>5 DEF Handover, Job, Created, TypeInv, Targets
  <2> QED BY <2>1, <2>2, <2>3, <2>6 DEF LeaseInv
<1>14. ASSUME NEW j \in Job, TakeLease(j) \/ LeaseBusy(j)
       PROVE  LeaseInv'
  <2> SUFFICES ASSUME Undisturbed'
               PROVE  LeaseInv'
    BY DEF LeaseInv
  <2>1. Undisturbed /\ JobHolds(j)
    BY <1>14 DEF TakeLease, LeaseBusy, WorkerOnly, Undisturbed, JobHolds
  <2>2. lease = j[1] /\ TakeLease(j)
    BY <1>14, <2>1, LastHolder DEF LeaseBusy, LeaseTaken
  <2>3. "analyze" \in Critical
    BY DEF Critical
  <2> QED BY <2>1, <2>2, <2>3, JobKeepsLease DEF TakeLease, WorkerOnly
<1>15. ASSUME NEW j \in Job, Release(j)
       PROVE  LeaseInv'
  <2> SUFFICES ASSUME Undisturbed'
               PROVE  LeaseInv'
    BY DEF LeaseInv
  <2>1. Undisturbed /\ Handover /\ JobHolds(j)
    BY <1>15 DEF Release, WorkerOnly, Undisturbed, LeaseInv, JobHolds, Critical
  <2>2. lease = j[1] /\ lease' = None /\ ~IsOpen(j[1])
    BY <1>15, <2>1, LastHolder DEF Release, Released, Handover
  <2>3. UNCHANGED <<task, post>>
    BY <1>15 DEF Release, WorkerOnly
  <2>4. \A t \in Task : IsOpen(t)' = IsOpen(t) /\ ~IsOpen(t)
    BY <2>1, <2>2, <2>3 DEF LeaseInv, IsOpen, Having, Created
  <2>5. /\ \A k \in Job : k # j => pc'[k] = pc[k]
        /\ pc'[j] = "ack"
    BY <1>15 DEF Release, TypeInv, TypeOK
  <2>6. \A t \in Task : Parked(t)' = Parked(t)
    BY <2>3 DEF Parked, Created
  <2>7. Handover'
    BY <2>1, <2>2, <2>3, <2>4, <2>5, <2>6, WorkflowConstants
       DEF Handover, Job, Created, TypeInv, Targets
  <2> QED BY <2>4, <2>7 DEF LeaseInv
<1>16. CASE LeaseLapses \/ \E j \in Job : Crash(j)
  BY <1>16 DEF LeaseLapses, Crash, LeaseInv, Undisturbed, TypeInv, TypeOK
<1>17. CASE UNCHANGED vars
  BY <1>17 DEF vars, LeaseInv, Undisturbed, Handover, IsOpen, Parked, Unheld,
               HandlerHolds, JobHolds, Having, Created
<1>19. ASSUME NEW j \in Job, Move(j)
       PROVE  LeaseInv'
  <2> DEFINE to == PhaseStep[pc[j]].to
             next == Following(pc[j], worker[j].complete, task[j[1]].mode)
  <2>1. pc[j] \in DOMAIN PhaseStep \ Stage /\ j[1] \in Task
    BY <1>19 DEF Move, Job
  <2>2. JobHolds(j)
    BY <2>1 DEF JobHolds, PhaseStep, Critical, Stage
  <2>3. to \in Phase /\ next \in Critical /\ "fail" \in Critical
    BY <2>1, PhaseStepType, FollowingType DEF TypeInv, TypeOK, WorkerState, Critical
  <2>4. CASE UNCHANGED task /\ pc' = [pc EXCEPT ![j] = "fail"]
    BY <1>19, <2>2, <2>3, <2>4, JobKeepsLease DEF Move, WorkerOnly
  <2>5. CASE task' = Transitioned(j[1], to) /\ pc' = [pc EXCEPT ![j] = next]
    <3>1. Moved(task[j[1]], to).status = statusForPhase(to)
      BY <2>1, <2>3, MovedRow DEF TypeInv, TypeOK
    <3>2. task'[j[1]].status = statusForPhase(to)
      BY <2>1, <2>5, <3>1 DEF Transitioned, TypeInv, TypeOK
    <3>3. next \in {"announce", "release"} => pc[j] \in {"clarify", "answer", "complete"}
      BY <2>1 DEF PhaseStep, Stage, Following
    <3>4. pc[j] \in {"clarify", "answer", "complete"}
             => statusForPhase(to) \in {"WAITING_USER", "COMPLETED"}
      BY DEF PhaseStep, statusForPhase
    <3>5. next \in {"announce", "release"} => ~IsOpen(j[1])'
      BY <2>1, <3>2, <3>3, <3>4 DEF IsOpen, Having
    <3>6. \A t \in Task : t # j[1] => task'[t] = task[t]
      BY <2>5 DEF Transitioned, TypeInv, TypeOK
    <3> HIDE DEF next, to
    <3> QED BY <1>19, <2>2, <2>3, <2>5, <3>5, <3>6, JobKeepsLease DEF Move, WorkerOnly
  <2> QED BY <1>19, <2>4, <2>5 DEF Move
<1>20. ASSUME NEW j \in Job,
              StepThrows(j) \/ CheckActive(j) \/ Confirm(j) \/ PublishRevision(j)
       PROVE  LeaseInv'
  <2>1. JobHolds(j) /\ UNCHANGED <<task, lease, post, crashes, lapses>>
    BY <1>20 DEF StepThrows, CheckActive, Confirm, PublishRevision, WorkerOnly,
                 JobHolds, Critical
  <2>2. \E s \in {"fail", "cancel", "count", "publish", "package"} :
           pc' = [pc EXCEPT ![j] = s]
    BY <1>20 DEF StepThrows, CheckActive, Confirm, PublishRevision
  <2>3. {"fail", "cancel", "count", "publish", "package"} \subseteq Critical
    BY DEF Critical
  <2> QED BY <2>1, <2>2, <2>3, JobKeepsLease
<1>21. ASSUME NEW j \in Job, BeginAttempt(j)
       PROVE  LeaseInv'
  <2>1. JobHolds(j) /\ "generate" \in Critical
    BY <1>21 DEF BeginAttempt, JobHolds, Critical, Stage
  <2>2. \A t \in Task : t # j[1] => task'[t] = task[t]
    BY <1>21 DEF BeginAttempt, TypeInv, TypeOK
  <2> QED BY <1>21, <2>1, <2>2, JobKeepsLease DEF BeginAttempt, WorkerOnly
<1>22. ASSUME NEW j \in Job, StageNeedsRepair(j) \/ StageThrows(j)
       PROVE  LeaseInv'
  <2>1. JobHolds(j) /\ UNCHANGED <<task, lease, post, crashes, lapses>>
    BY <1>22 DEF StageNeedsRepair, StageThrows, WorkerOnly, JobHolds, Critical
  <2>2. \E s \in {"fail", "repair"} : pc' = [pc EXCEPT ![j] = s]
    BY <1>22 DEF StageNeedsRepair, StageThrows, RecordAttempt
  <2>3. {"fail", "repair"} \subseteq Critical
    BY DEF Critical
  <2> QED BY <2>1, <2>2, <2>3, JobKeepsLease
<1>23. ASSUME NEW j \in Job, StagePasses(j)
       PROVE  LeaseInv'
  <2>1. JobHolds(j)
    BY <1>23 DEF StagePasses, JobHolds, Critical, Stage
  <2>2. CASE pc[j] \in Stage \ {"derive"}
    <3>1. \A t \in Task : t # j[1] => task'[t] = task[t]
      BY <1>23, <2>2 DEF StagePasses, Transitioned, TypeInv, TypeOK
    <3>2. Following(pc[j], TRUE, "AUTO") \in Critical \ {"announce", "release"}
      BY <2>2 DEF Stage, Following, Critical
    <3> QED BY <1>23, <2>1, <2>2, <3>1, <3>2, JobKeepsLease DEF StagePasses, WorkerOnly
  <2>3. CASE pc[j] = "derive"
    <3>1. \E s \in {"fail", "confirm"} : pc' = [pc EXCEPT ![j] = s]
      BY <1>23, <2>3 DEF StagePasses, RecordAttempt
    <3>2. {"fail", "confirm"} \subseteq Critical
      BY DEF Critical
    <3>3. UNCHANGED <<task, lease, post, crashes, lapses>>
      BY <1>23, <2>3 DEF StagePasses, WorkerOnly
    <3> QED BY <2>1, <3>1, <3>2, <3>3, JobKeepsLease
  <2> QED BY <1>23, <2>2, <2>3 DEF StagePasses
<1>24. ASSUME NEW j \in Job, Repair(j)
       PROVE  LeaseInv'
  <2>1. JobHolds(j) /\ j[1] \in Task /\ UNCHANGED <<lease, post, crashes, lapses>>
    BY <1>24 DEF Repair, WorkerOnly, JobHolds, Critical, Job
  <2>2. {"fail", "check", "spent", "release"} \subseteq Critical /\ "NEEDS_USER" \in Phase
    BY DEF Critical, Phase
  <2>3. \A t \in Task : t # j[1] => task'[t] = task[t]
    BY <1>24 DEF Repair, Transitioned, TypeInv, TypeOK
  <2>4. CASE \E s \in {"fail", "check", "spent"} : pc' = [pc EXCEPT ![j] = s]
    BY <2>1, <2>2, <2>3, <2>4, JobKeepsLease
  <2>5. CASE pc' = [pc EXCEPT ![j] = "release"] /\ task' = Transitioned(j[1], "NEEDS_USER")
    <3>1. Moved(task[j[1]], "NEEDS_USER").status = "NEEDS_USER"
      BY <2>1, <2>2, MovedRow DEF statusForPhase, TypeInv, TypeOK
    <3>2. ~IsOpen(j[1])'
      BY <2>1, <2>5, <3>1 DEF Transitioned, IsOpen, Having, TypeInv, TypeOK
    <3> QED BY <2>1, <2>2, <2>3, <2>5, <3>2, JobKeepsLease
  <2> QED BY <1>24, <2>4, <2>5 DEF Repair, LoopHead
<1>25. ASSUME NEW j \in Job, Announce(j)
       PROVE  LeaseInv'
  <2> SUFFICES ASSUME Undisturbed'
               PROVE  LeaseInv'
    BY DEF LeaseInv
  <2>1. JobHolds(j) /\ "release" \in Critical
    BY <1>25 DEF Announce, JobHolds, Critical
  <2>2. ~IsOpen(j[1])
    BY <1>25 DEF Announce, WorkerOnly, Undisturbed, LeaseInv, Handover
  <2>3. ~IsOpen(j[1])'
    BY <1>25, <2>2 DEF Announce, IsOpen, Having, Created
  <2> QED BY <1>25, <2>1, <2>3, JobKeepsLease DEF Announce, WorkerOnly
<1>26. ASSUME NEW j \in Job, FailTask(j)
       PROVE  LeaseInv'
  <2>1. JobHolds(j) /\ "release" \in Critical /\ j[1] \in Task
    BY <1>26 DEF FailTask, JobHolds, Critical, Job
  <2>2. \A t \in Task : t # j[1] => task'[t] = task[t]
    BY <1>26 DEF FailTask, Transitioned, TypeInv, TypeOK
  <2>3. "ABORTED" \in Status /\ "FAILED" \in Phase
    BY DEF Status, Phase
  <2>4. /\ Cancelled(task[j[1]], "ABORTED").status = "ABORTED"
        /\ Moved(task[j[1]], "FAILED").status = "FAILED"
    <3>1. Cancelled(task[j[1]], "ABORTED").status = "ABORTED"
      BY <2>1, <2>3, CancelledRow DEF TypeInv, TypeOK
    <3>2. Moved(task[j[1]], "FAILED").status = statusForPhase("FAILED")
      BY <2>1, <2>3, MovedRow DEF TypeInv, TypeOK
    <3> QED BY <3>1, <3>2 DEF statusForPhase
  <2>5. ~IsOpen(j[1])'
    BY <1>26, <2>1, <2>4
       DEF FailTask, Transitioned, IsOpen, Having, TypeInv, TypeOK
  <2> QED BY <1>26, <2>1, <2>2, <2>5, JobKeepsLease DEF FailTask, WorkerOnly
<1>27. QED
  BY <1>0, <1>1, <1>2, <1>3, <1>4, <1>5, <1>6, <1>7, <1>8, <1>9, <1>10, <1>11, <1>12,
     <1>13, <1>14, <1>15, <1>16, <1>17, <1>19, <1>20, <1>21, <1>22, <1>23, <1>24,
     <1>25, <1>26
     DEF Next, HandlePost, HandleAbort, Work

(* While no lease has run out and no process has stopped, an open task     *)
(* holds the lease of its conversation, so two tasks are never open side   *)
(* by side.                                                                *)
THEOREM OpenTaskHoldsLease == Spec => []OneOpenTask
BY TypeInit, TypeNext, WriterInit, WriterNext, KnownInit, KnownNext, LeaseInit,
   LeaseNext, LeaseInvImplies, PTL DEF Spec

(* Likewise a lease that nobody works under belongs to a task that was     *)
(* queued in vain or aborted before its worker came to it.                 *)
THEOREM LeaseIsGivenUp == Spec => []LeaseLeak
BY TypeInit, TypeNext, WriterInit, WriterNext, KnownInit, KnownNext, LeaseInit,
   LeaseNext, LeaseInvImplies, PTL DEF Spec

(* One writer and one open task at a time, both under the lease.           *)
THEOREM OnlyOneAtATime == Spec => []OneAtATime
<1>1. SingleWriter /\ OneOpenTask => OneAtATime
  BY DEF OneAtATime
<1> QED BY MutualExclusion, OpenTaskHoldsLease, <1>1, PTL

-----------------------------------------------------------------------------
(* What follows is about runs of one task: without crashes at most one of  *)
(* its jobs can still move it, although leases lapse and resumptions race. *)
(* A job is engaged from its enqueue on, until it has stopped at the end   *)
(* of its budget or is through.                                            *)
Engages(s, w) ==
    /\ s \in Critical \cup {"waiting", "lease"}
    /\ s = "release" => w.attempt # MaxAutoIterations
Engaged(j) == Engages(pc[j], worker[j])
Idle(t) == \A j \in Job : j[1] = t => ~Engaged(j)
Waiting == {"WAITING_USER", "NEEDS_USER"}

(* Steps before the row is written, before the first attempt is counted,   *)
(* and behind the commit of a revision.                                    *)
Unread == {"waiting", "lease", "analyze", "clarify"}
Counting == {"lease", "analyze", "clarify", "retrieve", "plan", "answer", "code", "check", "count"}
Behind == {"package", "candidate", "complete", "announce", "fail", "release"}

(* A job at step s with locals w, its row, evidence and revisions.         *)
JobFits(j, s, w, row, ev, pb) ==
    /\ Engages(s, w) =>
          /\ row.status # "NEEDS_USER"
          /\ row.status = "WAITING_USER" => s \in {"announce", "fail", "release"}
          /\ pb = 1 => s \in Behind
    /\ s \in Unread => row.iterations = j[2]
    /\ s \in Counting => w.offset + w.attempt = row.iterations + 1
    /\ s \in Stage \cup {"repair"} => w.offset + w.attempt = row.iterations
    /\ s \in Stage => \A e \in ev : e < row.iterations

RowFits(row, ev, pb) ==
    /\ \A e \in ev : e <= row.iterations
    /\ pb \in {0, 1}
    /\ pb = 1 => row.status \notin Waiting

TaskFits(t) ==
    /\ RowFits(task[t], evidence[t], published[t])
    /\ task[t].status = "WAITING_USER" => pc[<<t, task[t].iterations>>] # "absent"
    /\ ~Created(t) => /\ task[t].iterations = 0 /\ evidence[t] = {} /\ published[t] = 0
                      /\ \A j \in Job : j[1] = t => pc[j] = "absent"

(* A request that resumes under a job id nobody knows finds the task as it *)
(* was read: nothing else can have moved it.                               *)
Fresh(p) ==
    /\ task[p.task].iterations = p.run
    /\ Idle(p.task)
    /\ published[p.task] = 0
    /\ p.step = "enqueue" => task[p.task].status \notin Waiting

PostFits(p) ==
    /\ p.step \in {"new", "find", "active", "create", "commit"} => p.run = 0
    /\ p.step = "commit" => ~Created(p.task)
    /\ p.step \in {"resume", "recommit", "enqueue"} =>
          /\ Created(p.task)
          /\ pc[<<p.task, p.run>>] = "absent" => Fresh(p)

AbortFits(a) ==
    LET t == abort[a].task IN
    /\ abort[a].step \in {"mark", "marked"} => Created(t)
    /\ abort[a].step = "marked" =>
          /\ task[t].aborted
          /\ \/ task[t].iterations <= abort[a].seen
             \/ /\ task[t].iterations <= abort[a].seen + 1
                /\ \A j \in Job : j[1] = t => pc[j] # "count"

Sole ==
    /\ \A i, j \in Job : i[1] = j[1] /\ Engaged(i) /\ Engaged(j) => i = j
    /\ \A r, s \in Request :
          post[r].step = "commit" /\ post[s].task = post[r].task => s = r

RunFits ==
    /\ Sole
    /\ \A j \in Job :
          JobFits(j, pc[j], worker[j], task[j[1]], evidence[j[1]], published[j[1]])
    /\ \A t \in Task : TaskFits(t)
    /\ \A r \in Request : PostFits(post[r])
    /\ \A a \in Abort : AbortFits(a)

RunInv == crashes = 0 => RunFits

LEMMA RunInit == Init => RunInv
<1> SUFFICES ASSUME Init PROVE RunFits
  BY DEF RunInv
<1>1. \A j \in Job : pc[j] = "absent" /\ ~Engaged(j)
  BY DEF Init, Engaged, Engages, Critical, Stage
<1>2. \A r \in Request : post[r].step = "new" /\ post[r].run = 0
  BY DEF Init, NewPost
<1>3. \A a \in Abort : abort[a].step = "new"
  BY DEF Init
<1>4. \A t \in Task : /\ task[t].iterations = 0 /\ evidence[t] = {} /\ published[t] = 0
                      /\ task[t].status = "QUEUED"
  BY DEF Init, NoRow
<1>5. \A j \in Job : JobFits(j, pc[j], worker[j], task[j[1]], evidence[j[1]], published[j[1]])
  BY <1>1 DEF JobFits, Engages, Critical, Stage, Unread, Counting
<1>6. \A t \in Task : TaskFits(t)
  BY <1>1, <1>4 DEF TaskFits, RowFits, Waiting
<1>7. \A r \in Request : PostFits(post[r])
  BY <1>2 DEF PostFits
<1> QED
  BY <1>1, <1>2, <1>3, <1>5, <1>6, <1>7 DEF RunFits, Sole, AbortFits

(* The steps at which a job's numbers matter are steps it is engaged at. *)
LEMMA NumbersNeedJob ==
    ASSUME NEW s, NEW w, s \in Unread \cup Counting \cup Stage \cup {"repair", "commit"}
    PROVE  Engages(s, w)
BY DEF Unread, Counting, Stage, Engages, Critical

(* An engaged job moves its task: what is written must fit the job and the *)
(* row; everybody else is out of its way.                                  *)
LEMMA JobStep ==
    ASSUME TypeInv, RunFits, NEW j \in Job, Engaged(j),
           NEW s, s # "absent", NEW w, NEW row, NEW ev, NEW pb,
           pc' = [pc EXCEPT ![j] = s], worker' = [worker EXCEPT ![j] = w],
           task' = [task EXCEPT ![j[1]] = row],
           evidence' = [evidence EXCEPT ![j[1]] = ev],
           published' = [published EXCEPT ![j[1]] = pb],
           UNCHANGED <<post, abort>>,
           row.createdAt = task[j[1]].createdAt,
           JobFits(j, s, w, row, ev, pb), RowFits(row, ev, pb),
           row.status = "WAITING_USER" =>
              /\ row.iterations = task[j[1]].iterations
              /\ row.iterations = j[2] \/ task[j[1]].status = "WAITING_USER",
           task[j[1]].aborted =>
              /\ row.aborted /\ s # "count"
              /\ \/ row.iterations = task[j[1]].iterations
                 \/ /\ pc[j] = "count"
                    /\ row.iterations = task[j[1]].iterations + 1
    PROVE  RunFits'
<1> DEFINE t == j[1]
<1>1. t \in Task /\ j[2] \in Run /\ j = <<t, j[2]>>
  BY DEF Job
<1>2. /\ \A u \in Task \ {t} : /\ task'[u] = task[u] /\ evidence'[u] = evidence[u]
                               /\ published'[u] = published[u]
      /\ task'[t] = row /\ evidence'[t] = ev /\ published'[t] = pb
  BY <1>1 DEF TypeInv, TypeOK
<1>3. /\ \A i \in Job \ {j} : pc'[i] = pc[i] /\ worker'[i] = worker[i]
      /\ pc'[j] = s /\ worker'[j] = w
  BY DEF TypeInv, TypeOK
<1>4. \A u \in Task : Created(u)' = Created(u)
  BY <1>1, <1>2 DEF Created
<1>5. Created(t)
  BY <1>1 DEF RunFits, TaskFits, Engaged, Engages, Critical, Stage
<1>6. \A i \in Job : i[1] = t /\ i # j => ~Engaged(i) /\ ~Engaged(i)'
  BY <1>3 DEF RunFits, Sole, Engaged
<1>7. \A u \in Task \ {t} : Idle(u) => Idle(u)'
  BY <1>3 DEF Idle, Engaged
<1>8. ~Idle(t)
  BY DEF Idle
<1>9. \A i \in Job : pc[i] # "absent" => pc'[i] # "absent"
  BY <1>3
<1>10. Sole'
  <2>1. \A i \in Job : Engaged(i)' => i = j \/ Engaged(i)
    BY <1>3 DEF Engaged
  <2> QED BY <1>6, <2>1 DEF RunFits, Sole
<1>11. ASSUME NEW i \in Job
       PROVE  JobFits(i, pc[i], worker[i], task[i[1]], evidence[i[1]], published[i[1]])'
  <2>1. CASE i = j
    BY <1>1, <1>2, <1>3, <2>1
  <2>2. CASE i # j /\ i[1] = t
    <3>1. ~Engages(pc'[i], worker'[i])
      BY <1>6, <2>2 DEF Engaged
    <3> QED BY <3>1, NumbersNeedJob DEF JobFits
  <2>3. CASE i[1] # t
    <3>1. i[1] \in Task /\ i # j
      BY <2>3 DEF Job
    <3> QED BY <1>2, <1>3, <2>3, <3>1 DEF RunFits
  <2> QED BY <2>1, <2>2, <2>3
<1>12. ASSUME NEW u \in Task
       PROVE  TaskFits(u)'
  <2>1. CASE u = t
    <3>1. row.status = "WAITING_USER" => pc'[<<t, row.iterations>>] # "absent"
      <4>1. ASSUME row.status = "WAITING_USER", task[t].status = "WAITING_USER"
            PROVE  pc'[<<t, row.iterations>>] # "absent"
        <5>1. <<t, task[t].iterations>> \in Job
          BY <1>1 DEF Job, TypeInv, TypeOK, TaskRow
        <5> QED BY <1>1, <1>9, <4>1, <5>1 DEF RunFits, TaskFits
      <4> QED BY <1>1, <1>3, <4>1
    <3> QED BY <1>2, <1>4, <1>5, <2>1, <3>1 DEF TaskFits
  <2>2. CASE u # t
    <3>1. task[u].status = "WAITING_USER" => pc'[<<u, task[u].iterations>>] # "absent"
      <4>1. <<u, task[u].iterations>> \in Job
        BY DEF Job, TypeInv, TypeOK, TaskRow
      <4> QED BY <1>9, <4>1 DEF RunFits, TaskFits
    <3>2. \A i \in Job : i[1] = u => pc'[i] = pc[i]
      BY <1>3, <2>2
    <3> QED BY <1>2, <1>4, <2>2, <3>1, <3>2 DEF RunFits, TaskFits
  <2> QED BY <2>1, <2>2
<1>13. ASSUME NEW r \in Request
       PROVE  PostFits(post[r])'
  <2> DEFINE p == post[r]
  <2>1. p \in PostState /\ PostFits(p)
    BY DEF TypeInv, TypeOK, RunFits
  <2>2. CASE p.step \in {"resume", "recommit", "enqueue"}
    <3>1. p.task \in Task /\ <<p.task, p.run>> \in Job
      BY <2>1, <2>2 DEF TypeInv, Targets, Job, PostState
    <3>2. pc'[<<p.task, p.run>>] = "absent" => Fresh(p) /\ p.task # t
      BY <1>8, <1>9, <2>1, <2>2, <3>1 DEF PostFits, Fresh
    <3>3. Fresh(p) /\ p.task # t => Fresh(p)'
      BY <1>2, <1>7, <3>1 DEF Fresh
    <3> QED BY <1>4, <2>1, <2>2, <3>1, <3>2, <3>3 DEF PostFits
  <2>3. CASE p.step \notin {"resume", "recommit", "enqueue"}
    <3>1. p.step = "commit" => p.task \in Task
      BY DEF TypeInv, Targets
    <3> QED BY <1>4, <2>1, <2>3, <3>1 DEF PostFits
  <2> QED BY <2>2, <2>3
<1>14. ASSUME NEW a \in Abort
       PROVE  AbortFits(a)'
  <2> DEFINE u == abort[a].task
  <2>1. AbortFits(a) /\ abort[a] \in AbortState
    BY DEF RunFits, TypeInv, TypeOK
  <2>2. abort[a].step \in {"mark", "marked"} => u \in Task
    BY DEF TypeInv, Targets
  <2>3. CASE abort[a].step = "marked"
    <3>1. CASE u = t
      <4>1. task[t].iterations \in Nat /\ abort[a].seen \in Nat
        BY <1>1, <2>1, WorkflowConstants DEF TypeInv, TypeOK, TaskRow, AbortState
      <4>2. \A i \in Job : i[1] = t => pc'[i] # "count"
        <5>1. \A i \in Job : i[1] = t /\ i # j => pc'[i] # "count"
          BY <1>6, NumbersNeedJob DEF Engaged, Counting
        <5> QED BY <1>3, <2>1, <2>3, <3>1, <5>1 DEF AbortFits
      <4>3. task[t].aborted /\ Created(t)
        BY <2>1, <2>3, <3>1 DEF AbortFits
      <4>4. row.iterations <= abort[a].seen + 1
        <5>1. CASE pc[j] = "count"
          BY <2>1, <2>3, <3>1, <4>1, <4>3, <5>1 DEF AbortFits
        <5>2. CASE pc[j] # "count"
          BY <2>1, <2>3, <3>1, <4>1, <4>3, <5>2 DEF AbortFits
        <5> QED BY <5>1, <5>2
      <4> QED BY <1>2, <1>4, <1>1, <2>3, <3>1, <4>2, <4>3, <4>4 DEF AbortFits
    <3>2. CASE u # t
      <4>1. \A i \in Job : i[1] = u => pc'[i] = pc[i]
        BY <1>3, <3>2
      <4> QED BY <1>2, <1>4, <2>1, <2>2, <2>3, <3>2, <4>1 DEF AbortFits
    <3> QED BY <3>1, <3>2
  <2>4. CASE abort[a].step # "marked"
    BY <1>4, <2>1, <2>2, <2>4 DEF AbortFits
  <2> QED BY <2>3, <2>4
<1> QED
  BY <1>10, <1>11, <1>12, <1>13, <1>14 DEF RunFits

(* A job that is through leaves everything as it is. *)
LEMMA JobEnds ==
    ASSUME TypeInv, RunFits, NEW j \in Job, NEW s,
           s \in {"ack", "completed", "dead"}, pc[j] # "absent",
           pc' = [pc EXCEPT ![j] = s],
           worker' \in [Job -> WorkerState],
           \A i \in Job : i # j => worker'[i] = worker[i],
           UNCHANGED <<task, evidence, published, post, abort>>
    PROVE  RunFits'
<1>1. /\ \A i \in Job \ {j} : pc'[i] = pc[i] /\ worker'[i] = worker[i]
      /\ pc'[j] = s
  BY DEF TypeInv, TypeOK
<1>2. ~Engages(pc'[j], worker'[j])
  BY <1>1 DEF Engages, Critical, Stage
<1>3. \A i \in Job : Engaged(i)' => i # j /\ Engaged(i)
  BY <1>1, <1>2 DEF Engaged
<1>4. Sole'
  BY <1>3 DEF RunFits, Sole
<1>5. ASSUME NEW i \in Job
      PROVE  JobFits(i, pc[i], worker[i], task[i[1]], evidence[i[1]], published[i[1]])'
  <2>1. CASE i = j
    BY <1>2, <2>1, NumbersNeedJob DEF JobFits
  <2>2. CASE i # j
    BY <1>1, <2>2 DEF RunFits
  <2> QED BY <2>1, <2>2
<1>6. \A i \in Job : pc'[i] = "absent" <=> pc[i] = "absent"
  BY <1>1
<1>7. \A u \in Task : Idle(u) => Idle(u)'
  BY <1>3 DEF Idle
<1>8. ASSUME NEW u \in Task
      PROVE  TaskFits(u)'
  <2>1. <<u, task[u].iterations>> \in Job
    BY DEF Job, TypeInv, TypeOK, TaskRow
  <2> QED BY <1>6, <2>1 DEF RunFits, TaskFits, Created
<1>9. ASSUME NEW r \in Request
      PROVE  PostFits(post[r])'
  <2> DEFINE p == post[r]
  <2>1. p \in PostState /\ PostFits(p)
    BY DEF TypeInv, TypeOK, RunFits
  <2>2. CASE p.step \in {"resume", "recommit", "enqueue"}
    <3>1. p.task \in Task /\ <<p.task, p.run>> \in Job
      BY <2>1, <2>2 DEF TypeInv, Targets, Job, PostState
    <3> QED BY <1>6, <1>7, <2>1, <2>2, <3>1 DEF PostFits, Fresh, Created
  <2>3. CASE p.step \notin {"resume", "recommit", "enqueue"}
    BY <2>1, <2>3 DEF PostFits, Created
  <2> QED BY <2>2, <2>3
<1>10. ASSUME NEW a \in Abort
       PROVE  AbortFits(a)'
  <2>1. \A i \in Job : pc[i] # "count" => pc'[i] # "count"
    BY <1>1
  <2> QED BY <2>1 DEF RunFits, AbortFits, Created
<1> QED
  BY <1>4, <1>5, <1>8, <1>9, <1>10 DEF RunFits

(* A step of one POST that neither writes the row nor adds a job. *)
LEMMA PostStepFits ==
    ASSUME TypeInv, RunFits, NEW r \in Request, NEW q,
           post' = [post EXCEPT ![r] = q], PostFits(q),
           \A s \in Request : s # r =>
              /\ post[s].step = "commit" => post[s].task # q.task
              /\ q.step = "commit" => post[s].task # q.task,
           UNCHANGED <<task, pc, worker, evidence, published, abort>>
    PROVE  RunFits'
<1>1. post'[r] = q /\ \A s \in Request : s # r => post'[s] = post[s]
  BY DEF TypeInv, TypeOK
<1>2. Sole'
  BY <1>1 DEF RunFits, Sole, Engaged
<1>3. \A i \in Job :
         JobFits(i, pc[i], worker[i], task[i[1]], evidence[i[1]], published[i[1]])'
  BY DEF RunFits
<1>4. \A u \in Task : TaskFits(u)'
  BY DEF RunFits, TaskFits, Created
<1>5. ASSUME NEW s \in Request
      PROVE  PostFits(post[s])'
  <2>1. PostFits(post'[s])
    BY <1>1 DEF RunFits
  <2> QED BY <2>1 DEF PostFits, Fresh, Idle, Engaged, Created
<1>6. \A a \in Abort : AbortFits(a)'
  BY DEF RunFits, AbortFits, Created
<1> QED
  BY <1>2, <1>3, <1>4, <1>5, <1>6 DEF RunFits

(* A handler writes to the row of a task that exists: it neither counts an *)
(* attempt nor leaves the task waiting, and clears no abort.               *)
LEMMA RowRewritten ==
    ASSUME TypeInv, RunFits, NEW t \in Task, Created(t), NEW row \in TaskRow,
           task' = [task EXCEPT ![t] = row],
           row.createdAt = task[t].createdAt,
           row.iterations = task[t].iterations,
           row.status \notin Waiting,
           task[t].aborted => row.aborted,
           \A s \in Request : \/ post'[s] = post[s]
                              \/ /\ post[s].step = "recommit"
                                 /\ post[s].task = t
                                 /\ post'[s] = At(post[s], "enqueue"),
           \A a \in Abort : \/ abort'[a] = abort[a]
                            \/ /\ row.aborted
                               /\ abort'[a] = Aborting("marked", t, row.iterations),
           UNCHANGED <<pc, worker, evidence, published>>
    PROVE  RunFits'
<1>1. task'[t] = row /\ \A u \in Task : u # t => task'[u] = task[u]
  BY DEF TypeInv, TypeOK
<1>2. \A u \in Task : Created(u)' = Created(u)
  BY <1>1 DEF Created
<1>3. \A u \in Task : task'[u].iterations = task[u].iterations
  BY <1>1
<1>4. ASSUME NEW s \in Request
      PROVE  /\ post'[s].task = post[s].task /\ post'[s].run = post[s].run
             /\ \/ post'[s].step = post[s].step
                \/ post'[s].step = "enqueue" /\ post[s].task = t /\ post[s].step = "recommit"
  <2>1. CASE post'[s] = post[s]
    BY <2>1
  <2>2. CASE post[s].step = "recommit" /\ post[s].task = t /\ post'[s] = At(post[s], "enqueue")
    <3>1. post[s] \in PostState
      BY DEF TypeInv, TypeOK
    <3> QED BY <2>2, <3>1 DEF At, PostState
  <2> QED BY <2>1, <2>2
<1>5. Sole'
  BY <1>4 DEF RunFits, Sole, Engaged
<1>6. ASSUME NEW i \in Job
      PROVE  JobFits(i, pc[i], worker[i], task[i[1]], evidence[i[1]], published[i[1]])'
  <2>1. JobFits(i, pc[i], worker[i], task[i[1]], evidence[i[1]], published[i[1]])
        /\ i[1] \in Task
    BY DEF RunFits, Job
  <2> QED BY <1>1, <2>1 DEF JobFits, Waiting
<1>7. ASSUME NEW u \in Task
      PROVE  TaskFits(u)'
  <2>1. TaskFits(u)
    BY DEF RunFits
  <2> QED BY <1>1, <1>2, <1>3, <2>1 DEF TaskFits, RowFits, Waiting
<1>8. ASSUME NEW s \in Request
      PROVE  PostFits(post[s])'
  <2> DEFINE p == post[s]  q == post'[s]
  <2>1. PostFits(p)
    BY DEF RunFits
  <2>2. CASE p.step \in {"resume", "recommit", "enqueue"}
    <3>1. p.task \in Task
      BY <2>2 DEF TypeInv, Targets
    <3>2. q.step \in {"resume", "recommit", "enqueue"} /\ q.task = p.task /\ q.run = p.run
      BY <1>4, <2>2
    <3>3. q.step = "enqueue" => p.task = t \/ p.step = "enqueue"
      BY <1>4
    <3>4. ASSUME pc[<<p.task, p.run>>] = "absent"
          PROVE  /\ task'[p.task].iterations = p.run /\ Idle(p.task)
                 /\ published[p.task] = 0
                 /\ q.step = "enqueue" => task'[p.task].status \notin Waiting
      BY <1>1, <1>3, <2>1, <2>2, <3>1, <3>3, <3>4 DEF PostFits, Fresh
    <3> QED BY <1>2, <2>1, <2>2, <3>1, <3>2, <3>4 DEF PostFits, Fresh, Idle, Engaged
  <2>3. CASE p.step \notin {"resume", "recommit", "enqueue"}
    <3>1. q.step = p.step /\ q.task = p.task /\ q.run = p.run
      BY <1>4, <2>3
    <3>2. p.step = "commit" => p.task \in Task
      BY DEF TypeInv, Targets
    <3> QED BY <1>2, <2>1, <2>3, <3>1, <3>2 DEF PostFits
  <2> QED BY <2>2, <2>3
<1>9. ASSUME NEW a \in Abort
      PROVE  AbortFits(a)'
  <2>1. CASE abort'[a] = abort[a]
    <3>1. abort[a].step \in {"mark", "marked"} => abort[a].task \in Task
      BY DEF TypeInv, Targets
    <3> QED BY <1>1, <1>2, <1>3, <2>1, <3>1 DEF RunFits, AbortFits
  <2>2. CASE row.aborted /\ abort'[a] = Aborting("marked", t, row.iterations)
    <3>1. row.iterations \in Nat
      BY WorkflowConstants DEF TaskRow
    <3> QED BY <1>1, <1>2, <2>2, <3>1 DEF AbortFits, Aborting
  <2> QED BY <2>1, <2>2
<1> QED
  BY <1>5, <1>6, <1>7, <1>8, <1>9 DEF RunFits

(* No run counts more attempts than its budget, no job is refused or found *)
(* stalled more often than its policy allows, and the attempt loop is not  *)
(* left without a result.                                                  *)
Budgeted(s, w) ==
    /\ w.attempt \in 1..MaxAutoIterations
    /\ s # "spent"
    /\ w.tries <= JobAttempts /\ w.stalls <= MaxStalledCount + 1
    /\ s \in Active \cup {"waiting", "absent"} =>
          w.tries < JobAttempts /\ w.stalls <= MaxStalledCount
BudgetInv == \A j \in Job : Budgeted(pc[j], worker[j])

(* What holds of a job and its row, spelled out for one step of the job. *)
LEMMA JobNow ==
    ASSUME TypeInv, RunFits, NEW j \in Job
    PROVE  /\ j[1] \in Task /\ j[2] \in Run
           /\ worker[j] \in WorkerState /\ task[j[1]] \in TaskRow
           /\ worker[j].attempt \in Nat /\ worker[j].offset \in Nat
           /\ task[j[1]].iterations \in Nat
           /\ evidence[j[1]] \subseteq Nat
           /\ JobFits(j, pc[j], worker[j], task[j[1]], evidence[j[1]], published[j[1]])
           /\ RowFits(task[j[1]], evidence[j[1]], published[j[1]])
<1>1. j[1] \in Task /\ j[2] \in Run
  BY DEF Job
<1>2. worker[j] \in WorkerState /\ task[j[1]] \in TaskRow /\ evidence[j[1]] \in SUBSET Nat
  BY <1>1 DEF TypeInv, TypeOK
<1>3. /\ JobFits(j, pc[j], worker[j], task[j[1]], evidence[j[1]], published[j[1]])
      /\ RowFits(task[j[1]], evidence[j[1]], published[j[1]])
  BY <1>1 DEF RunFits, TaskFits
<1> QED BY <1>1, <1>2, <1>3, WorkflowConstants DEF WorkerState, TaskRow

(* An engaged job that writes nothing, or only its row's phase and status. *)
LEMMA JobGoes ==
    ASSUME TypeInv, RunFits, NEW j \in Job, Engaged(j), NEW s, s # "absent",
           pc' = [pc EXCEPT ![j] = s],
           UNCHANGED <<worker, task, evidence, published, post, abort>>,
           JobFits(j, s, worker[j], task[j[1]], evidence[j[1]], published[j[1]]),
           task[j[1]].aborted => s # "count"
    PROVE  RunFits'
<1>1. RowFits(task[j[1]], evidence[j[1]], published[j[1]])
  BY JobNow
<1>2. /\ worker' = [worker EXCEPT ![j] = worker[j]]
      /\ task' = [task EXCEPT ![j[1]] = task[j[1]]]
      /\ evidence' = [evidence EXCEPT ![j[1]] = evidence[j[1]]]
      /\ published' = [published EXCEPT ![j[1]] = published[j[1]]]
  BY DEF TypeInv, TypeOK
<1> DEFINE row == task[j[1]]
<1>3. /\ task' = [task EXCEPT ![j[1]] = row] /\ row.createdAt = task[j[1]].createdAt
      /\ JobFits(j, s, worker[j], row, evidence[j[1]], published[j[1]])
      /\ RowFits(row, evidence[j[1]], published[j[1]])
      /\ row.iterations = task[j[1]].iterations
      /\ row.status = "WAITING_USER" => task[j[1]].status = "WAITING_USER"
      /\ task[j[1]].aborted => row.aborted /\ s # "count"
  BY <1>1, <1>2
<1> HIDE DEF row
<1> QED BY <1>2, <1>3, JobStep

LEMMA JobRewrites ==
    ASSUME TypeInv, RunFits, NEW j \in Job, Engaged(j), NEW s, s # "absent", s # "count",
           NEW row,
           pc' = [pc EXCEPT ![j] = s],
           task' = [task EXCEPT ![j[1]] = row],
           UNCHANGED <<worker, evidence, published, post, abort>>,
           JobFits(j, s, worker[j], row, evidence[j[1]], published[j[1]]),
           published[j[1]] = 1 => row.status \notin Waiting,
           row.createdAt = task[j[1]].createdAt,
           row.iterations = task[j[1]].iterations,
           row.status = "WAITING_USER" => row.iterations = j[2],
           task[j[1]].aborted => row.aborted
    PROVE  RunFits'
<1>1. RowFits(row, evidence[j[1]], published[j[1]])
  <2>1. RowFits(task[j[1]], evidence[j[1]], published[j[1]])
    BY JobNow
  <2> QED BY <2>1 DEF RowFits
<1>2. /\ worker' = [worker EXCEPT ![j] = worker[j]]
      /\ evidence' = [evidence EXCEPT ![j[1]] = evidence[j[1]]]
      /\ published' = [published EXCEPT ![j[1]] = published[j[1]]]
  BY DEF TypeInv, TypeOK
<1> QED BY <1>1, <1>2, JobStep

(* A move along the phase table: only clarify makes the task wait, and the *)
(* job it waits under is the one that asks.                                *)
LEMMA MoveFits ==
    ASSUME TypeInv, RunFits, NEW j \in Job, Engaged(j),
           pc[j] \in DOMAIN PhaseStep \ {"derive"},
           NEW c \in BOOLEAN, NEW m,
           pc' = [pc EXCEPT ![j] = Following(pc[j], c, m)],
           task' = Transitioned(j[1], PhaseStep[pc[j]].to),
           UNCHANGED <<worker, evidence, published, post, abort>>
    PROVE  RunFits'
<1> DEFINE t == j[1]  s == pc[j]  next == Following(s, c, m)
           row == Moved(task[t], PhaseStep[s].to)
<1>1. /\ task[t] \in TaskRow /\ worker[j].attempt \in Nat /\ worker[j].offset \in Nat
      /\ JobFits(j, s, worker[j], task[t], evidence[t], published[t])
  BY JobNow
<1>2. /\ row.status = statusForPhase(PhaseStep[s].to)
      /\ row.createdAt = task[t].createdAt /\ row.iterations = task[t].iterations
      /\ row.aborted = task[t].aborted
  BY <1>1, PhaseStepType, MovedRow DEF Moved, TaskRow
<1>3. row.status = "WAITING_USER" => s = "clarify" /\ next = "announce"
  BY <1>2 DEF PhaseStep, statusForPhase, Following
<1>4. row.status # "NEEDS_USER"
  BY <1>2 DEF PhaseStep, statusForPhase
<1>5. /\ next \notin {"absent", "count", "waiting", "lease", "analyze"}
      /\ next = "clarify" => s = "analyze"
      /\ next \in {"retrieve", "plan", "answer", "code", "check"}
            => s \in {"analyze", "retrieve", "plan", "code"}
      /\ next \in Stage => s \in Stage
      /\ next # "repair"
      /\ s \in Behind => next \in Behind
  BY DEF PhaseStep, Following, Stage, Behind
<1>6. Engages(s, worker[j]) /\ s \in DOMAIN PhaseStep
  BY DEF Engaged
<1>7. published[t] = 1 => s \in Behind
  BY <1>1, <1>6 DEF JobFits
<1>8. published[t] = 1 => row.status \notin Waiting
  BY <1>3, <1>4, <1>7 DEF Waiting, Behind
<1>9. row.status = "WAITING_USER" => row.iterations = j[2]
  BY <1>1, <1>2, <1>3 DEF JobFits, Unread
<1>10. JobFits(j, next, worker[j], row, evidence[t], published[t])
  <2>1. next \in Unread => task[t].iterations = j[2]
    BY <1>1, <1>5 DEF JobFits, Unread
  <2>2. next \in Counting => s \in Counting
    BY <1>5, <1>6 DEF Counting
  <2> QED BY <1>1, <1>2, <1>3, <1>4, <1>5, <1>7, <2>1, <2>2 DEF JobFits
<1>11. /\ task' = [task EXCEPT ![t] = row]
       /\ next # "absent" /\ next # "count"
  BY <1>5 DEF Transitioned
<1> HIDE DEF next, row, s, t
<1> QED BY <1>2, <1>8, <1>9, <1>10, <1>11, JobRewrites DEF next, s, t

(* The steps at which JobFits asks something of the numbers. *)
LEMMA Unnumbered ==
    ASSUME NEW j, NEW s, NEW w, NEW row, NEW ev, NEW pb,
           s \notin Unread \cup Counting \cup Stage \cup {"repair"},
           Engages(s, w) => /\ row.status # "NEEDS_USER"
                            /\ row.status = "WAITING_USER" => s \in {"announce", "fail", "release"}
                            /\ pb = 1 => s \in Behind
    PROVE  JobFits(j, s, w, row, ev, pb)
BY DEF JobFits

(* Giving up: a job may go to failTask from wherever it is. *)
LEMMA FailFits ==
    ASSUME TypeInv, RunFits, NEW j \in Job, Engaged(j), NEW s \in {"fail", "cancel", "confirm"},
           s # "fail" => pc[j] \in {"check", "confirm", "derive"}
    PROVE  JobFits(j, s, worker[j], task[j[1]], evidence[j[1]], published[j[1]])
<1>1. JobFits(j, pc[j], worker[j], task[j[1]], evidence[j[1]], published[j[1]])
  BY JobNow
<1>2. s \notin Unread \cup Counting \cup Stage \cup {"repair"}
  BY DEF Unread, Counting, Stage
<1>3. /\ task[j[1]].status # "NEEDS_USER"
      /\ s # "fail" => task[j[1]].status # "WAITING_USER" /\ published[j[1]] # 1
  BY <1>1 DEF JobFits, Engaged, Behind
<1> QED BY <1>2, <1>3, Unnumbered DEF Behind

(* An attempt is recorded under the number it was counted as. *)
LEMMA RecordFits ==
    ASSUME TypeInv, RunFits, NEW j \in Job, pc[j] \in Stage,
           NEW s \in {"confirm", "repair", "fail"}, RecordAttempt(j, s),
           NEW w \in WorkerState, w.offset = worker[j].offset, w.attempt = worker[j].attempt,
           worker' = [worker EXCEPT ![j] = w],
           UNCHANGED <<task, published, post, abort>>
    PROVE  RunFits'
<1> DEFINE t == j[1]  n == Iteration(j)
<1>1. /\ t \in Task /\ evidence[t] \subseteq Nat /\ task[t].iterations \in Nat
      /\ JobFits(j, pc[j], worker[j], task[t], evidence[t], published[t])
      /\ RowFits(task[t], evidence[t], published[t])
  BY JobNow
<1>2. Engages(pc[j], worker[j]) /\ pc[j] \notin Behind \cup {"announce", "fail", "release"}
  BY DEF Stage, Engages, Critical, Behind
<1>3. n = task[t].iterations /\ n \notin evidence[t]
  BY <1>1 DEF JobFits, Iteration
<1>4. /\ pc' = [pc EXCEPT ![j] = s]
      /\ evidence' = [evidence EXCEPT ![t] = @ \cup {n}]
  BY <1>3 DEF RecordAttempt
<1> DEFINE ev == evidence[t] \cup {n}  row == task[t]  pb == published[t]
<1>5. row.status \notin Waiting /\ pb # 1
  BY <1>1, <1>2 DEF JobFits, Waiting
<1>6. RowFits(row, ev, pb)
  BY <1>1, <1>3 DEF RowFits
<1>7. JobFits(j, s, w, row, ev, pb)
  <2>1. s \notin Unread \cup Counting \cup Stage
    BY DEF Unread, Counting, Stage
  <2>2. w.offset + w.attempt = row.iterations
    BY <1>3 DEF Iteration
  <2> QED BY <1>5, <2>1, <2>2 DEF JobFits, Waiting
<1>8. /\ task' = [task EXCEPT ![t] = row]
      /\ evidence' = [evidence EXCEPT ![t] = ev]
      /\ published' = [published EXCEPT ![t] = pb]
  BY <1>4 DEF TypeInv, TypeOK
<1>9. row.status # "WAITING_USER" /\ s # "absent" /\ s # "count"
  BY <1>5 DEF Waiting
<1>10. Engaged(j)
  BY <1>2 DEF Engaged
<1>11. row.createdAt = task[j[1]].createdAt /\ row.iterations = task[j[1]].iterations
       /\ (task[j[1]].aborted => row.aborted)
  OBVIOUS
<1> HIDE DEF ev, row, pb, n
<1> QED BY <1>4, <1>6, <1>7, <1>8, <1>9, <1>10, <1>11, JobStep

(* The end of a failed attempt: the next one of the same run, or, when its *)
(* budget is spent, the question to the user by a job that is through.     *)
LEMMA RepairFits ==
    ASSUME TypeInv, BudgetInv, RunFits, NEW j \in Job, Repair(j)
    PROVE  RunFits'
<1> DEFINE t == j[1]  from == worker[j].from
           retry == RetryAllowed(worker[j].attempt, MaxAutoIterations)
           w == worker'[j]
<1>1. /\ t \in Task /\ task[t] \in TaskRow /\ worker[j] \in WorkerState
      /\ worker[j].attempt \in Nat /\ worker[j].offset \in Nat /\ task[t].iterations \in Nat
      /\ JobFits(j, "repair", worker[j], task[t], evidence[t], published[t])
      /\ RowFits(task[t], evidence[t], published[t])
  BY JobNow DEF Repair
<1>2. Engages("repair", worker[j]) /\ Engaged(j)
  BY DEF Engages, Critical, Engaged, Repair
<1>3. task[t].status \notin Waiting /\ published[t] # 1
      /\ worker[j].offset + worker[j].attempt = task[t].iterations
  BY <1>1, <1>2 DEF JobFits, Waiting, Behind
<1>4. /\ worker' = [worker EXCEPT ![j] = w]
      /\ UNCHANGED <<evidence, published, post, abort>>
      /\ evidence' = [evidence EXCEPT ![t] = evidence[t]]
      /\ published' = [published EXCEPT ![t] = published[t]]
  BY DEF Repair, WorkerOnly, TypeInv, TypeOK
<1>5. NextAttempt(worker[j]).offset = worker[j].offset
      /\ NextAttempt(worker[j]).attempt = worker[j].attempt + 1
  BY <1>1 DEF NextAttempt, WorkerState
<1>6. /\ retry => LoopHead(NextAttempt(worker[j])) = "check"
      /\ ~retry => worker[j].attempt = MaxAutoIterations
  BY <1>1, <1>5, WorkflowConstants DEF RetryAllowed, LoopHead, BudgetInv, Budgeted
<1>7. \/ /\ retry /\ w = NextAttempt(worker[j]) /\ pc' = [pc EXCEPT ![j] = "check"]
         /\ task' = task \/ task' = Transitioned(t, "CODE")
      \/ /\ ~retry /\ w = worker[j] /\ pc' = [pc EXCEPT ![j] = "release"]
         /\ task' = Transitioned(t, "NEEDS_USER")
      \/ w = worker[j] /\ pc' = [pc EXCEPT ![j] = "fail"] /\ task' = task
  BY <1>6 DEF Repair, TypeInv, TypeOK
<1>8. task = [task EXCEPT ![t] = task[t]]
  BY DEF TypeInv, TypeOK
<1> HIDE DEF w, retry
<1>9. ASSUME NEW s \in {"check", "release", "fail"}, NEW row,
             pc' = [pc EXCEPT ![j] = s], task' = [task EXCEPT ![t] = row],
             row.createdAt = task[t].createdAt, row.iterations = task[t].iterations,
             row.aborted = task[t].aborted, row.status # "WAITING_USER",
             row.status = "NEEDS_USER" => s = "release" /\ w.attempt = MaxAutoIterations,
             s = "check" => w.offset + w.attempt = task[t].iterations + 1
      PROVE  RunFits'
  <2>1. RowFits(row, evidence[t], published[t])
    BY <1>1, <1>3, <1>9 DEF RowFits
  <2>2. JobFits(j, s, w, row, evidence[t], published[t])
    <3>1. s \notin Unread \cup Stage \cup {"repair"} /\ (s \in Counting => s = "check")
      BY DEF Unread, Counting, Stage
    <3>2. row.status = "NEEDS_USER" => ~Engages(s, w)
      BY <1>9 DEF Engages
    <3> QED BY <1>3, <1>9, <3>1, <3>2 DEF JobFits
  <2>3. s # "absent" /\ s # "count"
    OBVIOUS
  <2> QED BY <1>2, <1>4, <1>9, <2>1, <2>2, <2>3, JobStep
<1>10. Moved(task[t], "CODE").status = "RUNNING" /\ Moved(task[t], "NEEDS_USER").status = "NEEDS_USER"
  BY <1>1, MovedRow DEF Phase, statusForPhase
<1>11. \A to : /\ Moved(task[t], to).createdAt = task[t].createdAt
               /\ Moved(task[t], to).iterations = task[t].iterations
               /\ Moved(task[t], to).aborted = task[t].aborted
  BY <1>1 DEF Moved, TaskRow
<1>12. w = NextAttempt(worker[j]) => w.offset + w.attempt = task[t].iterations + 1
  BY <1>1, <1>3, <1>5
<1>13. CASE w = worker[j] /\ pc' = [pc EXCEPT ![j] = "fail"] /\ task' = task
  BY <1>3, <1>8, <1>9, <1>13 DEF Waiting
<1>14. CASE /\ w = NextAttempt(worker[j]) /\ pc' = [pc EXCEPT ![j] = "check"]
            /\ task' = task
  BY <1>3, <1>8, <1>9, <1>12, <1>14 DEF Waiting
<1>15. CASE /\ w = NextAttempt(worker[j]) /\ pc' = [pc EXCEPT ![j] = "check"]
            /\ task' = Transitioned(t, "CODE")
  BY <1>9, <1>10, <1>11, <1>12, <1>15 DEF Transitioned
<1>16. CASE /\ ~retry /\ w = worker[j] /\ pc' = [pc EXCEPT ![j] = "release"]
            /\ task' = Transitioned(t, "NEEDS_USER")
  BY <1>6, <1>9, <1>10, <1>11, <1>16 DEF Transitioned
<1> QED BY <1>7, <1>13, <1>14, <1>15, <1>16

LEMMA RunWork ==
    ASSUME TypeInv, BudgetInv, RunFits, NEW j \in Job, Work(j)
    PROVE  RunFits'
<1> DEFINE t == j[1]  s == pc[j]
<1>1. /\ t \in Task /\ j[2] \in Run /\ task[t] \in TaskRow /\ worker[j] \in WorkerState
      /\ worker[j].attempt \in Nat /\ worker[j].offset \in Nat /\ task[t].iterations \in Nat
      /\ evidence[t] \subseteq Nat
      /\ JobFits(j, s, worker[j], task[t], evidence[t], published[t])
      /\ RowFits(task[t], evidence[t], published[t])
  BY JobNow
<1>2. Engages(s, worker[j]) => Engaged(j)
  BY DEF Engaged
<1>3. CASE Deliver(j)
  <2>1. s = "waiting" /\ Engages(s, worker[j])
    BY <1>3 DEF Deliver, Engages
  <2>2. task[t].iterations = j[2] /\ published[t] # 1
    BY <1>1, <2>1 DEF JobFits, Unread, Behind
  <2>3. Loaded(worker[j], task[t]) \in WorkerState
        /\ Loaded(worker[j], task[t]).attempt = 1
        /\ Loaded(worker[j], task[t]).offset = task[t].iterations
    BY <1>1, LoadedType DEF Loaded, WorkerState
  <2>4. worker' = [worker EXCEPT ![j] = Loaded(worker[j], task[t])]
        /\ UNCHANGED <<task, evidence, published, post, abort>>
    BY <1>3 DEF Deliver, WorkerOnly
  <2>5. CASE task[t].status = "QUEUED"
    <3> DEFINE w == Loaded(worker[j], task[t])  row == task[t]
    <3>1. pc' = [pc EXCEPT ![j] = "lease"]
      BY <1>3, <2>5 DEF Deliver
    <3>2. JobFits(j, "lease", w, row, evidence[t], published[t])
      BY <1>1, <2>2, <2>3, <2>5 DEF JobFits, Stage
    <3>3. /\ task' = [task EXCEPT ![t] = row]
          /\ evidence' = [evidence EXCEPT ![t] = evidence[t]]
          /\ published' = [published EXCEPT ![t] = published[t]]
      BY <2>4 DEF TypeInv, TypeOK
    <3>4. row.status # "WAITING_USER" /\ row.createdAt = task[t].createdAt
          /\ row.iterations = task[t].iterations /\ (task[t].aborted => row.aborted)
          /\ RowFits(row, evidence[t], published[t])
      BY <1>1, <2>5
    <3> HIDE DEF w, row
    <3> QED BY <1>2, <2>1, <2>4, <3>1, <3>2, <3>3, <3>4, JobStep DEF w
  <2>6. CASE task[t].status # "QUEUED"
    <3>1. pc' = [pc EXCEPT ![j] = "ack"]
      BY <1>3, <2>6 DEF Deliver
    <3>2. worker' \in [Job -> WorkerState] /\ \A i \in Job : i # j => worker'[i] = worker[i]
      BY <2>3, <2>4 DEF TypeInv, TypeOK
    <3> QED BY <2>1, <2>4, <3>1, <3>2, JobEnds
  <2> QED BY <2>5, <2>6
<1>4. CASE TakeLease(j)
  <2>1. s = "lease" /\ Engages(s, worker[j]) /\ pc' = [pc EXCEPT ![j] = "analyze"]
        /\ UNCHANGED <<worker, task, evidence, published, post, abort>>
    BY <1>4 DEF TakeLease, Engages, WorkerOnly
  <2>2. JobFits(j, "analyze", worker[j], task[t], evidence[t], published[t])
    BY <1>1, <2>1 DEF JobFits, Unread, Counting, Stage, Behind, Engages, Critical
  <2> QED BY <1>2, <2>1, <2>2, JobGoes
<1>5. CASE LeaseBusy(j)
  <2>1. s = "lease" /\ Engages(s, worker[j])
        /\ worker' = [worker EXCEPT ![j] = Refused(worker[j])]
        /\ UNCHANGED <<task, evidence, published, post, abort>>
    BY <1>5 DEF LeaseBusy, Engages, WorkerOnly
  <2>2. Refused(worker[j]) \in WorkerState
    BY <1>1, RefusedType
  <2>3. CASE pc' = [pc EXCEPT ![j] = "waiting"]
    <3> DEFINE w == Refused(worker[j])  row == task[t]
    <3>1. JobFits(j, "waiting", w, row, evidence[t], published[t])
      BY <1>1, <2>1 DEF JobFits, Unread, Counting, Stage, Behind, Engages
    <3>2. /\ task' = [task EXCEPT ![t] = row]
          /\ evidence' = [evidence EXCEPT ![t] = evidence[t]]
          /\ published' = [published EXCEPT ![t] = published[t]]
      BY <2>1 DEF TypeInv, TypeOK
    <3>3. row.status # "WAITING_USER" /\ row.createdAt = task[t].createdAt
          /\ row.iterations = task[t].iterations /\ (task[t].aborted => row.aborted)
          /\ RowFits(row, evidence[t], published[t])
      BY <1>1, <2>1 DEF JobFits
    <3> HIDE DEF w, row
    <3> QED BY <1>2, <2>1, <2>3, <3>1, <3>2, <3>3, JobStep DEF w
  <2>4. CASE pc' = [pc EXCEPT ![j] = "dead"]
    <3>1. worker' \in [Job -> WorkerState] /\ \A i \in Job : i # j => worker'[i] = worker[i]
      BY <2>1, <2>2 DEF TypeInv, TypeOK
    <3> QED BY <2>1, <2>4, <3>1, JobEnds
  <2> QED BY <1>5, <2>3, <2>4 DEF LeaseBusy
<1>6. ASSUME s \in Critical \ {"release"}, NEW u \in {"fail", "cancel"},
             u = "cancel" => s \in {"check", "confirm"},
             pc' = [pc EXCEPT ![j] = u],
             UNCHANGED <<worker, task, evidence, published, post, abort>>
      PROVE  RunFits'
  <2>1. Engaged(j)
    BY <1>2, <1>6 DEF Engages
  <2>2. JobFits(j, u, worker[j], task[t], evidence[t], published[t])
    BY <1>6, <2>1, FailFits
  <2> QED BY <1>6, <2>1, <2>2, JobGoes
<1>7. CASE Move(j)
  <2>1. s \in DOMAIN PhaseStep \ Stage /\ s \in Critical \ {"release"}
        /\ UNCHANGED <<worker, evidence, published, post, abort>>
    BY <1>7 DEF Move, PhaseStep, Critical, Stage, WorkerOnly
  <2>2. CASE pc' = [pc EXCEPT ![j] = "fail"] /\ task' = task
    BY <1>6, <2>1, <2>2
  <2>3. CASE /\ task' = Transitioned(t, PhaseStep[s].to)
             /\ pc' = [pc EXCEPT ![j] = Following(s, worker[j].complete, task[t].mode)]
    <3>1. worker[j].complete \in BOOLEAN
      BY <1>1 DEF WorkerState
    <3>2. Engaged(j) /\ s # "derive"
      BY <1>2, <2>1 DEF Engages, Stage
    <3> QED BY <2>1, <2>3, <3>1, <3>2, MoveFits
  <2> QED BY <1>7, <2>2, <2>3 DEF Move
<1>8. CASE StepThrows(j)
  <2>1. s \in Critical \ {"release"} /\ pc' = [pc EXCEPT ![j] = "fail"]
        /\ UNCHANGED <<worker, task, evidence, published, post, abort>>
    BY <1>8 DEF StepThrows, WorkerOnly
  <2> QED BY <1>6, <2>1
<1>9. CASE CheckActive(j)
  <2>1. s = "check" /\ UNCHANGED <<worker, task, evidence, published, post, abort>>
    BY <1>9 DEF CheckActive, WorkerOnly
  <2>2. s \in Critical \ {"release"} /\ Engages(s, worker[j])
    BY <2>1 DEF Critical, Engages
  <2>3. CASE TaskAborted(t)
    <3>1. pc' = [pc EXCEPT ![j] = "cancel"]
      BY <1>9, <2>3 DEF CheckActive
    <3> QED BY <1>6, <2>1, <2>2, <3>1
  <2>4. CASE ~TaskAborted(t)
    <3>1. pc' = [pc EXCEPT ![j] = "count"] /\ ~task[t].aborted
      BY <1>9, <2>4 DEF CheckActive, TaskAborted
    <3>2. JobFits(j, "count", worker[j], task[t], evidence[t], published[t])
      BY <1>1, <2>1, <2>2 DEF JobFits, Unread, Counting, Stage, Behind
    <3> QED BY <1>2, <2>1, <2>2, <3>1, <3>2, JobGoes
  <2> QED BY <2>3, <2>4
<1>10. CASE BeginAttempt(j)
  <2> DEFINE n == Iteration(j)  row == Counted(task[t], n)
  <2>1. s = "count" /\ n \in Run /\ Engages(s, worker[j])
        /\ task' = [task EXCEPT ![t] = row] /\ pc' = [pc EXCEPT ![j] = "generate"]
        /\ UNCHANGED <<worker, evidence, published, post, abort>>
    BY <1>10 DEF BeginAttempt, WorkerOnly, Engages, Critical
  <2>2. n = task[t].iterations + 1 /\ n = worker[j].offset + worker[j].attempt
    BY <1>1, <2>1 DEF JobFits, Counting, Iteration
  <2>3. /\ row.iterations = n /\ row.status = task[t].status
        /\ row.createdAt = task[t].createdAt /\ row.aborted = task[t].aborted
    BY <1>1 DEF Counted, TaskRow
  <2>4. task[t].status \notin Waiting /\ published[t] # 1
    BY <1>1, <2>1 DEF JobFits, Waiting, Behind
  <2>5. RowFits(row, evidence[t], published[t])
    BY <1>1, <2>2, <2>3, <2>4 DEF RowFits
  <2>6. JobFits(j, "generate", worker[j], row, evidence[t], published[t])
    <3>1. \A e \in evidence[t] : e < n
      BY <1>1, <2>2 DEF RowFits
    <3> QED BY <2>2, <2>3, <2>4, <3>1 DEF JobFits, Unread, Counting, Stage, Waiting
  <2>7. /\ worker' = [worker EXCEPT ![j] = worker[j]]
        /\ evidence' = [evidence EXCEPT ![t] = evidence[t]]
        /\ published' = [published EXCEPT ![t] = published[t]]
    BY <2>1 DEF TypeInv, TypeOK
  <2>8. row.status # "WAITING_USER" /\ row.iterations = task[t].iterations + 1
    BY <2>2, <2>3, <2>4 DEF Waiting
  <2>9. task[t].aborted =>
           /\ row.aborted
           /\ pc[j] = "count" /\ row.iterations = task[t].iterations + 1
    BY <2>1, <2>3, <2>8
  <2> HIDE DEF n, row
  <2>10. "generate" # "absent" /\ "generate" # "count" /\ UNCHANGED <<post, abort>> /\ Engaged(j)
    BY <1>2, <2>1
  <2> QED BY <2>1, <2>3, <2>5, <2>6, <2>7, <2>8, <2>9, <2>10, JobStep
<1>11. s \in Stage => Engages(s, worker[j]) /\ s \in Critical \ {"release"}
  BY DEF Stage, Engages, Critical
<1>12. worker = [worker EXCEPT ![j] = worker[j]]
  BY DEF TypeInv, TypeOK
<1>13. CASE StagePasses(j)
  <2>1. CASE s = "derive"
    <3>1. s \in Stage /\ RecordAttempt(j, "confirm")
          /\ UNCHANGED <<worker, task, published, post, abort>>
      BY <1>13, <2>1 DEF StagePasses, WorkerOnly, Stage
    <3> QED BY <1>1, <1>12, <3>1, RecordFits
  <2>2. CASE s # "derive"
    <3>1. s \in Stage /\ s # "derive" /\ s \in DOMAIN PhaseStep
          /\ task' = Transitioned(t, PhaseStep[s].to)
          /\ pc' = [pc EXCEPT ![j] = Following(s, TRUE, "AUTO")]
          /\ UNCHANGED <<worker, evidence, published, post, abort>>
      BY <1>13, <2>2 DEF StagePasses, WorkerOnly, Stage, PhaseStep
    <3> QED BY <1>2, <1>11, <3>1, MoveFits
  <2> QED BY <2>1, <2>2
<1>14. CASE StageNeedsRepair(j)
  <2> DEFINE w == FailedIn(worker[j], StagePhase[s])
  <2>1. s \in Stage /\ RecordAttempt(j, "repair") /\ worker' = [worker EXCEPT ![j] = w]
        /\ UNCHANGED <<task, published, post, abort>>
    BY <1>14 DEF StageNeedsRepair, WorkerOnly
  <2>2. StagePhase[s] \in Phase
    BY <2>1 DEF Stage, StagePhase, Phase
  <2>3. w \in WorkerState /\ w.offset = worker[j].offset /\ w.attempt = worker[j].attempt
    BY <1>1, <2>2 DEF FailedIn, WorkerState
  <2> HIDE DEF w
  <2> QED BY <2>1, <2>3, RecordFits
<1>15. CASE StageThrows(j)
  <2>1. s \in Stage /\ RecordAttempt(j, "fail")
        /\ UNCHANGED <<worker, task, published, post, abort>>
    BY <1>15 DEF StageThrows, WorkerOnly
  <2> QED BY <1>1, <1>12, <2>1, RecordFits
<1>16. CASE Repair(j)
  BY <1>16, RepairFits
<1>17. CASE Confirm(j)
  <2>1. s = "confirm" /\ UNCHANGED <<worker, task, evidence, published, post, abort>>
    BY <1>17 DEF Confirm, WorkerOnly
  <2>2. s \in Critical \ {"release"} /\ Engages(s, worker[j])
    BY <2>1 DEF Critical, Engages
  <2>3. CASE pc' = [pc EXCEPT ![j] = "cancel"]
    BY <1>6, <2>1, <2>2, <2>3
  <2>4. CASE pc' = [pc EXCEPT ![j] = "publish"]
    <3>1. JobFits(j, "publish", worker[j], task[t], evidence[t], published[t])
      BY <1>1, <2>1, <2>2 DEF JobFits, Unread, Counting, Stage, Behind
    <3> QED BY <1>2, <2>1, <2>2, <2>4, <3>1, JobGoes
  <2> QED BY <1>17, <2>3, <2>4 DEF Confirm
<1>18. CASE PublishRevision(j)
  <2>1. s = "commit" /\ Engages(s, worker[j])
        /\ published' = [published EXCEPT ![t] = published[t] + 1]
        /\ UNCHANGED <<worker, task, evidence, post, abort>>
    BY <1>18 DEF PublishRevision, WorkerOnly, Engages, Critical
  <2>2. published[t] = 0 /\ task[t].status \notin Waiting
    BY <1>1, <2>1 DEF JobFits, RowFits, Waiting, Behind
  <2>3. PICK u \in {"package", "fail"} : pc' = [pc EXCEPT ![j] = u]
    BY <1>18 DEF PublishRevision
  <2> DEFINE row == task[t]  pb == published[t] + 1
  <2>4. RowFits(row, evidence[t], pb)
    BY <1>1, <2>2 DEF RowFits
  <2>5. JobFits(j, u, worker[j], row, evidence[t], pb)
    BY <2>2 DEF JobFits, Unread, Counting, Stage, Behind, Waiting
  <2>6. /\ worker' = [worker EXCEPT ![j] = worker[j]]
        /\ task' = [task EXCEPT ![t] = row]
        /\ evidence' = [evidence EXCEPT ![t] = evidence[t]]
        /\ published' = [published EXCEPT ![t] = pb]
    BY <2>1 DEF TypeInv, TypeOK
  <2>7. row.status # "WAITING_USER" /\ u # "absent" /\ u # "count"
        /\ row.createdAt = task[t].createdAt
        /\ row.iterations = task[t].iterations /\ (task[t].aborted => row.aborted)
    BY <2>2 DEF Waiting
  <2> HIDE DEF row, pb
  <2> QED BY <1>2, <2>1, <2>3, <2>4, <2>5, <2>6, <2>7, JobStep
<1>19. CASE Announce(j)
  <2>1. s = "announce" /\ Engages(s, worker[j]) /\ pc' = [pc EXCEPT ![j] = "release"]
        /\ UNCHANGED <<worker, task, evidence, published, post, abort>>
    BY <1>19 DEF Announce, WorkerOnly, Engages, Critical
  <2>2. JobFits(j, "release", worker[j], task[t], evidence[t], published[t])
    BY <1>1, <2>1 DEF JobFits, Unread, Counting, Stage, Behind
  <2> QED BY <1>2, <2>1, <2>2, JobGoes
<1>20. CASE FailTask(j)
  <2>1. s \in {"cancel", "fail"} /\ Engages(s, worker[j]) /\ pc' = [pc EXCEPT ![j] = "release"]
        /\ UNCHANGED <<worker, evidence, published, post, abort>>
    BY <1>20 DEF FailTask, WorkerOnly, Engages, Critical
  <2>2. \E row \in TaskRow :
           /\ task' = [task EXCEPT ![t] = row]
           /\ row.status \notin Waiting /\ row.createdAt = task[t].createdAt
           /\ row.iterations = task[t].iterations
           /\ task[t].aborted => row.aborted
    <3>1. CASE s = "cancel"
      <4>1. Cancelled(task[t], "ABORTED") \in TaskRow
            /\ task' = [task EXCEPT ![t] = Cancelled(task[t], "ABORTED")]
        BY <1>1, <1>20, <3>1, CancelledRow DEF FailTask, Status
      <4>2. /\ Cancelled(task[t], "ABORTED").status = "ABORTED"
            /\ Cancelled(task[t], "ABORTED").aborted = TRUE
            /\ Cancelled(task[t], "ABORTED").createdAt = task[t].createdAt
            /\ Cancelled(task[t], "ABORTED").iterations = task[t].iterations
        BY <1>1 DEF Cancelled, TaskRow
      <4> QED BY <4>1, <4>2 DEF Waiting
    <3>2. CASE s = "fail"
      <4>1. Moved(task[t], "FAILED") \in TaskRow
            /\ task' = [task EXCEPT ![t] = Moved(task[t], "FAILED")]
        BY <1>1, <1>20, <3>2, MovedRow DEF FailTask, Phase, Transitioned
      <4>2. /\ Moved(task[t], "FAILED").status = "FAILED"
            /\ Moved(task[t], "FAILED").aborted = task[t].aborted
            /\ Moved(task[t], "FAILED").createdAt = task[t].createdAt
            /\ Moved(task[t], "FAILED").iterations = task[t].iterations
        BY <1>1 DEF Moved, TaskRow, statusForPhase
      <4> QED BY <4>1, <4>2 DEF Waiting
    <3> QED BY <2>1, <3>1, <3>2
  <2>3. PICK row \in TaskRow :
           /\ task' = [task EXCEPT ![t] = row]
           /\ row.status \notin Waiting /\ row.createdAt = task[t].createdAt
           /\ row.iterations = task[t].iterations
           /\ task[t].aborted => row.aborted
    BY <2>2
  <2>4. JobFits(j, "release", worker[j], row, evidence[t], published[t])
    BY <2>3 DEF JobFits, Unread, Counting, Stage, Behind, Waiting
  <2>5. row.status # "WAITING_USER"
    BY <2>3 DEF Waiting
  <2> QED BY <1>2, <2>1, <2>3, <2>4, <2>5, JobRewrites
<1>21. CASE Release(j)
  <2>1. s = "release" /\ pc' = [pc EXCEPT ![j] = "ack"]
        /\ UNCHANGED <<worker, task, evidence, published, post, abort>>
    BY <1>21 DEF Release, WorkerOnly
  <2> QED BY <2>1, JobEnds DEF TypeInv, TypeOK
<1>22. CASE Acknowledge(j)
  <2>1. s = "ack" /\ pc' = [pc EXCEPT ![j] = "completed"]
        /\ UNCHANGED <<worker, task, evidence, published, post, abort>>
    BY <1>22 DEF Acknowledge, WorkerOnly
  <2> QED BY <2>1, JobEnds DEF TypeInv, TypeOK
<1> QED
  BY <1>3, <1>4, <1>5, <1>7, <1>8, <1>9, <1>10, <1>13, <1>14, <1>15, <1>16, <1>17,
     <1>18, <1>19, <1>20, <1>21, <1>22 DEF Work

(* What a POST reads and writes, as the two lemmas above want it. *)
LEMMA RunPost ==
    ASSUME TypeInv, RunFits, NEW r \in Request, HandlePost(r)
    PROVE  RunFits'
<1> DEFINE p == post[r]
<1>1. p \in PostState /\ PostFits(p)
  BY DEF TypeInv, TypeOK, RunFits
<1>2. \A s \in PostStep : /\ At(p, s).step = s /\ At(p, s).task = p.task
                          /\ s # "done" => At(p, s).run = p.run
  BY <1>1 DEF At, PostState
<1>3. \A s \in Request : /\ post[s].step = "commit" => post[s].task \in Task /\ ~Created(post[s].task)
                         /\ post[s].step = "commit" /\ s # r => post[s].task # p.task
  BY DEF RunFits, PostFits, Sole, TypeInv, Targets
<1>4. ASSUME NEW s \in PostStep, s \notin {"resume", "commit", "enqueue"},
             s = "recommit" => p.step = "resume",
             s \in {"new", "find", "active", "create"} =>
                p.step \in {"new", "find", "active", "create"},
             post' = [post EXCEPT ![r] = At(p, s)],
             UNCHANGED <<task, pc, worker, evidence, published, abort>>
      PROVE  RunFits'
  <2> DEFINE q == At(p, s)
  <2>1. q.step = s /\ q.task = p.task /\ (s # "done" => q.run = p.run)
    BY <1>2
  <2>2. post' = [post EXCEPT ![r] = q]
    BY <1>4
  <2> HIDE DEF q
  <2>3. PostFits(q)
    <3>1. CASE s = "recommit"
      <4>1. p.step = "resume"
        BY <1>4, <3>1
      <4>2. Fresh(p) => Fresh(q)
        BY <2>1, <3>1 DEF Fresh
      <4> QED BY <1>1, <2>1, <3>1, <4>1, <4>2 DEF PostFits
    <3>2. CASE s # "recommit"
      <4>1. s \in {"new", "find", "active", "create", "done"}
        BY <1>4, <3>2 DEF PostStep
      <4>2. s # "done" => p.run = 0
        BY <1>1, <1>4, <4>1 DEF PostFits
      <4> QED BY <2>1, <4>1, <4>2 DEF PostFits
    <3> QED BY <3>1, <3>2
  <2>4. \A x \in Request : x # r =>
           /\ post[x].step = "commit" => post[x].task # q.task
           /\ q.step = "commit" => post[x].task # q.task
    BY <1>3, <1>4, <2>1
  <2> QED BY <1>4, <2>2, <2>3, <2>4, PostStepFits
<1>15. CASE PostReplay(r)
  <2>1. UNCHANGED <<task, pc, worker, evidence, published, abort>> /\ p.step = "new"
        /\ \/ post' = [post EXCEPT ![r] = At(p, "done")]
           \/ post' = [post EXCEPT ![r] = At(p, "find")]
    BY <1>15 DEF PostReplay
  <2> QED BY <1>4, <2>1 DEF PostStep
<1>5. CASE PostFindWaiting(r)
  <2>1. UNCHANGED <<task, pc, worker, evidence, published, abort>>
    BY <1>5 DEF PostFindWaiting
  <2>3. CASE post' = [post EXCEPT ![r] = At(p, "active")] /\ p.step = "find"
    BY <1>4, <2>1, <2>3 DEF PostStep
  <2>4. ASSUME NEW t \in Having({"WAITING_USER", "NEEDS_USER"}),
               post' = [post EXCEPT ![r] = Resuming(p, t, task[t].iterations)]
        PROVE  RunFits'
    <3> DEFINE q == Resuming(p, t, task[t].iterations)
    <3>1. t \in Task /\ Created(t) /\ task[t].status \in Waiting
          /\ task[t] \in TaskRow /\ task[t].iterations \in Run
      BY DEF Having, Waiting, TypeInv, TypeOK, TaskRow
    <3>2. q.step = "resume" /\ q.task = t /\ q.run = task[t].iterations
      BY <1>1 DEF Resuming, PostState
    <3>3. pc[<<t, task[t].iterations>>] = "absent" => Idle(t)
      <4>1. ASSUME task[t].status = "NEEDS_USER", NEW j \in Job, j[1] = t
            PROVE  ~Engaged(j)
        <5>1. JobFits(j, pc[j], worker[j], task[t], evidence[t], published[t])
          BY <4>1, JobNow
        <5> QED BY <4>1, <5>1 DEF JobFits, Engaged
      <4>2. task[t].status = "WAITING_USER" => pc[<<t, task[t].iterations>>] # "absent"
        BY <3>1 DEF RunFits, TaskFits
      <4> QED BY <3>1, <4>1, <4>2 DEF Idle, Waiting
    <3>4. published[t] = 0
      BY <3>1 DEF RunFits, TaskFits, RowFits
    <3>5. PostFits(q)
      BY <3>1, <3>2, <3>3, <3>4 DEF PostFits, Fresh
    <3>6. post' = [post EXCEPT ![r] = q]
      BY <2>4
    <3> HIDE DEF q
    <3>7. \A x \in Request : x # r =>
             /\ post[x].step = "commit" => post[x].task # q.task
             /\ q.step = "commit" => post[x].task # q.task
      BY <1>3, <3>1, <3>2
    <3> QED BY <2>1, <3>5, <3>6, <3>7, PostStepFits
  <2> QED BY <1>5, <2>3, <2>4 DEF PostFindWaiting
<1>6. CASE PostFindActive(r)
  <2>1. UNCHANGED <<task, pc, worker, evidence, published, abort>> /\ p.step = "active"
        /\ \/ post' = [post EXCEPT ![r] = At(p, "done")]
           \/ post' = [post EXCEPT ![r] = At(p, "create")]
    BY <1>6 DEF PostFindActive
  <2> QED BY <1>4, <2>1 DEF PostStep
<1>7. CASE PostAcquire(r)
  <2>1. UNCHANGED <<task, pc, worker, evidence, published, abort>> /\ p.step = "create"
    BY <1>7 DEF PostAcquire
  <2>2. CASE post' = [post EXCEPT ![r] = At(p, "done")]
    BY <1>4, <2>1, <2>2 DEF PostStep
  <2>3. ASSUME NEW t \in Task, ~Created(t), t \notin Minted,
               post' = [post EXCEPT ![r] = Minting(p, t)]
        PROVE  RunFits'
    <3> DEFINE q == Minting(p, t)
    <3>1. q.step = "commit" /\ q.task = t /\ q.run = p.run
      BY <1>1 DEF Minting, PostState
    <3>2. PostFits(q)
      BY <1>1, <2>1, <2>3, <3>1 DEF PostFits
    <3>3. post' = [post EXCEPT ![r] = q]
      BY <2>3
    <3> HIDE DEF q
    <3>4. \A x \in Request : x # r =>
             /\ post[x].step = "commit" => post[x].task # q.task
             /\ q.step = "commit" => post[x].task # q.task
      BY <2>3, <3>1 DEF Minted
    <3> QED BY <2>1, <3>2, <3>3, <3>4, PostStepFits
  <2> QED BY <1>7, <2>2, <2>3 DEF PostAcquire
<1>8. CASE ResumeAcquire(r)
  <2>1. UNCHANGED <<task, pc, worker, evidence, published, abort>> /\ p.step = "resume"
        /\ \/ post' = [post EXCEPT ![r] = At(p, "done")]
           \/ post' = [post EXCEPT ![r] = At(p, "recommit")]
    BY <1>8 DEF ResumeAcquire
  <2> QED BY <1>4, <2>1 DEF PostStep
<1>9. CASE PostTxFails(r)
  <2>1. UNCHANGED <<task, pc, worker, evidence, published, abort>>
        /\ post' = [post EXCEPT ![r] = At(p, "done")]
    BY <1>9 DEF PostTxFails
  <2> QED BY <1>4, <2>1 DEF PostStep
<1>10. CASE ResumeCommit(r)
  <2> DEFINE t == p.task
  <2>1. p.step = "recommit" /\ post' = [post EXCEPT ![r] = At(p, "enqueue")]
        /\ UNCHANGED <<pc, worker, abort, evidence, published>>
    BY <1>10 DEF ResumeCommit
  <2>2. t \in Task /\ Created(t) /\ task[t] \in TaskRow
    BY <1>1, <2>1 DEF TypeInv, TypeOK, Targets, PostFits
  <2>3. PICK c \in BOOLEAN : task' = [task EXCEPT ![t] = Requeued(task[t], c)]
    BY <1>10 DEF ResumeCommit
  <2> DEFINE row == Requeued(task[t], c)
  <2>4. row \in TaskRow /\ row.status = "QUEUED" /\ row.aborted = task[t].aborted
        /\ row.createdAt = task[t].createdAt
    BY <2>2, RequeuedRow
  <2>5. row.iterations = task[t].iterations
    BY <2>2 DEF Requeued, TaskRow
  <2>6. \A s \in Request : \/ post'[s] = post[s]
                           \/ /\ post[s].step = "recommit" /\ post[s].task = t
                              /\ post'[s] = At(post[s], "enqueue")
    BY <2>1 DEF TypeInv, TypeOK
  <2>7. row.status \notin Waiting
    BY <2>4 DEF Waiting
  <2> HIDE DEF row, t
  <2> QED BY <2>1, <2>2, <2>3, <2>4, <2>5, <2>6, <2>7, RowRewritten DEF row
<1> DEFINE Born(t, row) ==
      /\ task' = [task EXCEPT ![t] = row] /\ row \in TaskRow /\ row.iterations = 0
      /\ row.createdAt > 0 /\ row.status \notin Waiting
<1>11. ASSUME NEW t \in Task, ~Created(t), NEW row, Born(t, row), NEW s \in {"enqueue", "done"},
              post' = [post EXCEPT ![r] = At(p, s)],
              s = "enqueue" => p.task = t /\ p.run = 0,
              \A q \in Request : q # r => ~(post[q].step = "commit" /\ post[q].task = t),
              UNCHANGED <<pc, worker, evidence, published, abort>>
       PROVE  RunFits'
  <2>1. task'[t] = row /\ \A u \in Task : u # t => task'[u] = task[u]
    BY <1>11 DEF TypeInv, TypeOK
  <2>2. Created(t)' /\ \A u \in Task : u # t => Created(u)' = Created(u)
    BY <1>11, <2>1 DEF Created
  <2>3. \A j \in Job : j[1] = t => pc[j] = "absent"
    BY <1>11 DEF RunFits, TaskFits
  <2>4. evidence[t] = {} /\ published[t] = 0
    BY <1>11 DEF RunFits, TaskFits
  <2>5. post'[r] = At(p, s) /\ \A q \in Request : q # r => post'[q] = post[q]
    BY <1>11 DEF TypeInv, TypeOK
  <2>6. At(p, s).step = s /\ At(p, s).task = p.task /\ (s # "done" => At(p, s).run = p.run)
    BY <1>2, <1>11 DEF PostStep
  <2>7. Sole'
    BY <1>11, <2>5, <2>6 DEF RunFits, Sole, Engaged
  <2>8. ASSUME NEW j \in Job
        PROVE  JobFits(j, pc[j], worker[j], task[j[1]], evidence[j[1]], published[j[1]])'
    <3>1. j[1] \in Task
      BY DEF Job
    <3>2. CASE j[1] = t
      <4>1. pc[j] = "absent" /\ ~Engages(pc[j], worker[j])
        BY <2>3, <3>2 DEF Engages, Critical, Stage
      <4> QED BY <1>11, <4>1 DEF JobFits, Unread, Counting, Stage
    <3>3. CASE j[1] # t
      BY <1>11, <2>1, <3>1, <3>3 DEF RunFits
    <3> QED BY <3>2, <3>3
  <2>9. ASSUME NEW u \in Task
        PROVE  TaskFits(u)'
    <3>1. CASE u = t
      BY <1>11, <2>1, <2>2, <2>4, <3>1, WorkflowConstants DEF TaskFits, RowFits, Waiting
    <3>2. CASE u # t
      BY <1>11, <2>1, <2>2, <3>2 DEF RunFits, TaskFits
    <3> QED BY <3>1, <3>2
  <2>10. ASSUME NEW q \in Request
         PROVE  PostFits(post[q])'
    <3>1. CASE q = r /\ s = "done"
      BY <2>5, <2>6, <3>1 DEF PostFits
    <3>2. CASE q = r /\ s = "enqueue"
      <4>1. Idle(t)'
        BY <1>11, <2>3 DEF Idle, Engaged, Engages, Critical, Stage
      <4> QED BY <1>11, <2>1, <2>2, <2>4, <2>5, <2>6, <3>2, <4>1 DEF PostFits, Fresh
    <3>3. CASE q # r
      <4>1. PostFits(post[q]) /\ post'[q] = post[q]
        BY <2>5, <3>3 DEF RunFits
      <4>2. post[q].step \in {"commit", "resume", "recommit", "enqueue"}
               => post[q].task \in Task /\ post[q].task # t
        BY <1>11, <3>3, <4>1 DEF PostFits, TypeInv, Targets
      <4>3. \A u \in Task : u # t => Idle(u)' = Idle(u)
        BY <1>11 DEF Idle, Engaged
      <4> QED BY <1>11, <2>1, <2>2, <4>1, <4>2, <4>3 DEF PostFits, Fresh
    <3> QED BY <1>11, <3>1, <3>2, <3>3
  <2>11. ASSUME NEW a \in Abort
         PROVE  AbortFits(a)'
    <3>1. AbortFits(a) /\ (abort[a].step \in {"mark", "marked"} => abort[a].task \in Task)
      BY DEF RunFits, TypeInv, Targets
    <3> QED BY <1>11, <2>1, <2>2, <3>1 DEF AbortFits
  <2> QED BY <2>7, <2>8, <2>9, <2>10, <2>11 DEF RunFits
<1>12. CASE PostReject(r)
  <2>1. PICK t \in Task : /\ ~Created(t) /\ t \notin Minted
                          /\ task' = [task EXCEPT ![t] = NewRow("COMPLETED", "REJECTED", TRUE, "AUTO")]
    BY <1>12 DEF PostReject
  <2>2. Born(t, NewRow("COMPLETED", "REJECTED", TRUE, "AUTO"))
    <3>1. NewRow("COMPLETED", "REJECTED", TRUE, "AUTO").iterations = 0
      BY DEF NewRow
    <3> QED BY <2>1, <3>1, NewRowType DEF Status, Phase, Waiting
  <2>3. \A q \in Request : post[q].task # t
    BY <2>1 DEF Minted
  <2>4. post' = [post EXCEPT ![r] = At(p, "done")]
        /\ UNCHANGED <<pc, worker, evidence, published, abort>>
    BY <1>12 DEF PostReject
  <2> HIDE DEF Born
  <2> QED BY <1>11, <2>1, <2>2, <2>3, <2>4
<1>13. CASE PostCommit(r)
  <2>1. p.step = "commit" /\ post' = [post EXCEPT ![r] = At(p, "enqueue")]
        /\ UNCHANGED <<pc, worker, evidence, published, abort>>
    BY <1>13 DEF PostCommit
  <2>2. p.task \in Task /\ ~Created(p.task) /\ p.run = 0
    BY <1>1, <1>3, <2>1 DEF PostFits
  <2>3. PICK c \in BOOLEAN, m \in {"AUTO", "PLAN"} :
           task' = [task EXCEPT ![p.task] = NewRow("QUEUED", "DOMAIN_GUARD", c, m)]
    BY <1>13 DEF PostCommit
  <2>4. Born(p.task, NewRow("QUEUED", "DOMAIN_GUARD", c, m))
    <3>1. NewRow("QUEUED", "DOMAIN_GUARD", c, m).iterations = 0
      BY DEF NewRow
    <3> QED BY <2>3, <3>1, NewRowType DEF Status, Phase, Waiting
  <2>5. \A q \in Request : q # r => ~(post[q].step = "commit" /\ post[q].task = p.task)
    BY <1>3
  <2> HIDE DEF Born
  <2> QED BY <1>11, <2>1, <2>2, <2>4, <2>5
<1>14. CASE PostEnqueue(r)
  <2> DEFINE j == <<p.task, p.run>>  t == p.task
  <2>1. p.step = "enqueue" /\ post' = [post EXCEPT ![r] = At(p, "done")]
        /\ pc' = [pc EXCEPT ![j] = IF @ = "absent" THEN "waiting" ELSE @]
        /\ UNCHANGED <<task, worker, evidence, published, abort>>
    BY <1>14 DEF PostEnqueue
  <2>2. t \in Task /\ p.run \in Run /\ j \in Job /\ Created(t)
    BY <1>1, <2>1 DEF TypeInv, Targets, Job, PostState, PostFits
  <2>3. CASE pc[j] # "absent"
    <3>1. UNCHANGED pc
      BY <2>1, <2>3 DEF TypeInv, TypeOK
    <3> QED BY <1>4, <2>1, <3>1 DEF PostStep
  <2>4. CASE pc[j] = "absent"
    <3>1. Fresh(p) /\ task[t].status \notin Waiting
      BY <1>1, <2>1, <2>4 DEF PostFits, Fresh
    <3>2. pc'[j] = "waiting" /\ \A i \in Job : i # j => pc'[i] = pc[i]
      BY <2>1, <2>2, <2>4 DEF TypeInv, TypeOK
    <3>3. post'[r] = At(p, "done") /\ \A q \in Request : q # r => post'[q] = post[q]
      BY <2>1 DEF TypeInv, TypeOK
    <3>4. At(p, "done").step = "done" /\ At(p, "done").task = t
      BY <1>2 DEF PostStep
    <3>5. Sole'
      <4>1. \A i \in Job : Engaged(i)' => i = j \/ Engaged(i)
        BY <2>1, <3>2 DEF Engaged
      <4>2. \A i \in Job : i[1] = t => ~Engaged(i)
        BY <3>1 DEF Fresh, Idle
      <4> QED BY <3>3, <3>4, <4>1, <4>2 DEF RunFits, Sole
    <3>6. ASSUME NEW i \in Job
          PROVE  JobFits(i, pc[i], worker[i], task[i[1]], evidence[i[1]], published[i[1]])'
      <4>1. CASE i = j
        <5>1. task[t].iterations = p.run /\ published[t] = 0
          BY <3>1 DEF Fresh
        <5> QED BY <2>1, <3>1, <3>2, <4>1, <5>1 DEF JobFits, Counting, Stage, Waiting
      <4>2. CASE i # j
        BY <2>1, <3>2, <4>2 DEF RunFits
      <4> QED BY <4>1, <4>2
    <3>7. \A i \in Job : pc'[i] = "absent" => pc[i] = "absent"
      BY <3>2
    <3>8. ASSUME NEW u \in Task
          PROVE  TaskFits(u)'
      <4>1. <<u, task[u].iterations>> \in Job
        BY DEF Job, TypeInv, TypeOK, TaskRow
      <4>2. u = t => Created(u)
        BY <2>2
      <4>3. u # t => \A i \in Job : i[1] = u => pc'[i] = pc[i]
        BY <3>2
      <4> QED BY <2>1, <3>7, <4>1, <4>2, <4>3 DEF RunFits, TaskFits, Created
    <3>9. ASSUME NEW q \in Request
          PROVE  PostFits(post[q])'
      <4>1. CASE q = r
        BY <3>3, <3>4, <4>1 DEF PostFits
      <4>2. CASE q # r /\ post[q].step \in {"resume", "recommit", "enqueue"}
        <5> DEFINE g == post[q]
        <5>1. g.task \in Task /\ <<g.task, g.run>> \in Job /\ g = post'[q] /\ PostFits(g)
          BY <3>3, <4>2 DEF TypeInv, TypeOK, Targets, Job, PostState, RunFits
        <5>2. ASSUME pc'[<<g.task, g.run>>] = "absent"
              PROVE  Fresh(g) /\ Idle(g.task)'
          <6>1. Fresh(g) /\ <<g.task, g.run>> # j
            BY <3>2, <3>7, <4>2, <5>1, <5>2 DEF PostFits
          <6>2. g.task # t
            BY <3>1, <6>1 DEF Fresh
          <6> QED BY <2>1, <3>2, <6>1, <6>2 DEF Fresh, Idle, Engaged
        <5> HIDE DEF g
        <5> QED BY <2>1, <4>2, <5>1, <5>2 DEF PostFits, Fresh, Created, g
      <4>3. CASE q # r /\ post[q].step \notin {"resume", "recommit", "enqueue"}
        <5>1. post'[q] = post[q] /\ PostFits(post[q])
          BY <3>3, <4>3 DEF RunFits
        <5> QED BY <2>1, <4>3, <5>1 DEF PostFits, Created
      <4> QED BY <4>1, <4>2, <4>3
    <3>10. ASSUME NEW a \in Abort
           PROVE  AbortFits(a)'
      <4>1. \A i \in Job : pc[i] # "count" => pc'[i] # "count"
        BY <3>2
      <4> QED BY <2>1, <4>1 DEF RunFits, AbortFits, Created
    <3> QED BY <3>5, <3>6, <3>8, <3>9, <3>10 DEF RunFits
  <2> QED BY <2>3, <2>4
<1> QED
  BY <1>5, <1>6, <1>7, <1>8, <1>9, <1>10, <1>12, <1>13, <1>14, <1>15 DEF HandlePost

LEMMA RunAbort ==
    ASSUME TypeInv, RunFits, NEW a \in Abort, HandleAbort(a)
    PROVE  RunFits'
<1>1. CASE AbortFind(a)
  <2>1. UNCHANGED <<task, pc, worker, post, published, evidence>>
    BY <1>1 DEF AbortFind
  <2>2. \/ abort' = [abort EXCEPT ![a] = Aborting("done", None, 0)]
        \/ \E t \in Task : Created(t) /\ abort' = [abort EXCEPT ![a] = Aborting("mark", t, 0)]
    BY <1>1 DEF AbortFind, Having
  <2>3. \A b \in Abort : \/ abort'[b] = abort[b]
                         \/ abort'[b].step = "done"
                         \/ abort'[b].step = "mark" /\ Created(abort'[b].task)
    BY <2>2 DEF Aborting, TypeInv, TypeOK
  <2>4. ASSUME NEW b \in Abort
        PROVE  AbortFits(b)'
    BY <2>1, <2>3 DEF RunFits, AbortFits, Created
  <2>5. Sole' /\ \A t \in Task : TaskFits(t)'
    BY <2>1 DEF RunFits, Sole, TaskFits, Engaged, Created
  <2>6. \A j \in Job :
           JobFits(j, pc[j], worker[j], task[j[1]], evidence[j[1]], published[j[1]])'
    BY <2>1 DEF RunFits
  <2>7. \A r \in Request : PostFits(post[r])'
    BY <2>1 DEF RunFits, PostFits, Fresh, Idle, Engaged, Created
  <2> QED BY <2>4, <2>5, <2>6, <2>7 DEF RunFits
<1>2. CASE AbortMark(a)
  <2> DEFINE t == abort[a].task  row == Cancelled(task[t], "ABORTING")
  <2>1. abort[a].step = "mark" /\ task' = [task EXCEPT ![t] = row]
        /\ abort' = [abort EXCEPT ![a] = Aborting("marked", t, task[t].iterations)]
        /\ UNCHANGED <<pc, worker, post, published, evidence>>
    BY <1>2 DEF AbortMark
  <2>2. t \in Task /\ Created(t) /\ task[t] \in TaskRow
    BY <2>1 DEF TypeInv, TypeOK, Targets, RunFits, AbortFits
  <2>3. /\ row \in TaskRow /\ row.aborted = TRUE /\ row.createdAt = task[t].createdAt
        /\ row.iterations = task[t].iterations /\ row.status \notin Waiting
    BY <2>2 DEF Cancelled, TaskRow, Status, Waiting
  <2> HIDE DEF t, row
  <2>4. \A b \in Abort : \/ abort'[b] = abort[b]
                         \/ /\ row.aborted
                            /\ abort'[b] = Aborting("marked", t, row.iterations)
    BY <2>1, <2>3 DEF TypeInv, TypeOK
  <2> QED BY <2>1, <2>2, <2>3, <2>4, RowRewritten
<1> QED BY <1>1, <1>2 DEF HandleAbort

(* Crashes are counted, and the invariant says nothing after one. *)
LEMMA NoCrash ==
    ASSUME TypeInv, Next, crashes' = 0
    PROVE  /\ crashes = 0
           /\ \/ \E r \in Request : HandlePost(r)
              \/ \E a \in Abort : HandleAbort(a)
              \/ \E j \in Job : Work(j)
              \/ LeaseLapses
<1>1. crashes \in Nat
  BY DEF TypeInv, TypeOK
<1>2. ASSUME NEW r \in Request, PostLost(r) PROVE FALSE
  BY <1>1, <1>2 DEF PostLost
<1>3. ASSUME NEW j \in Job, Crash(j) PROVE FALSE
  BY <1>1, <1>3 DEF Crash
<1>4. ASSUME NEW r \in Request, HandlePost(r) PROVE crashes' = crashes
  BY <1>4 DEF HandlePost, PostReplay, PostFindWaiting, PostFindActive, PostAcquire, PostReject, PostCommit,
              ResumeAcquire, ResumeCommit, PostTxFails, PostEnqueue
<1>5. ASSUME NEW a \in Abort, HandleAbort(a) PROVE crashes' = crashes
  BY <1>5 DEF HandleAbort, AbortFind, AbortMark
<1>6. ASSUME NEW j \in Job, Work(j) PROVE crashes' = crashes
  BY <1>6 DEF Work, WorkerOnly, Deliver, TakeLease, LeaseBusy, Move, StepThrows, CheckActive,
              BeginAttempt, StagePasses, StageNeedsRepair, StageThrows, Repair, Confirm,
              PublishRevision, Announce, FailTask, Release, Acknowledge
<1>7. LeaseLapses => crashes' = crashes
  BY DEF LeaseLapses
<1>8. \/ \E r \in Request : HandlePost(r)
      \/ \E a \in Abort : HandleAbort(a)
      \/ \E j \in Job : Work(j)
      \/ LeaseLapses
  BY <1>2, <1>3, Zenon DEF Next
<1>9. crashes' = crashes
  BY <1>4, <1>5, <1>6, <1>7, <1>8, Zenon
<1> QED BY <1>8, <1>9

LEMMA RunNext == TypeInv /\ BudgetInv /\ RunInv /\ [Next]_vars => RunInv'
<1> SUFFICES ASSUME TypeInv, BudgetInv, RunInv, [Next]_vars, crashes' = 0
             PROVE  RunFits'
  BY DEF RunInv
<1>1. ASSUME RunFits, UNCHANGED <<task, pc, worker, post, abort, published, evidence>>
      PROVE  RunFits'
  <2>1. Sole' /\ \A t \in Task : TaskFits(t)'
    BY <1>1 DEF RunFits, Sole, TaskFits, Engaged, Created
  <2>2. \A j \in Job :
           JobFits(j, pc[j], worker[j], task[j[1]], evidence[j[1]], published[j[1]])'
    BY <1>1 DEF RunFits
  <2>3. \A r \in Request : PostFits(post[r])'
    BY <1>1 DEF RunFits, PostFits, Fresh, Idle, Engaged, Created
  <2>4. \A a \in Abort : AbortFits(a)'
    BY <1>1 DEF RunFits, AbortFits, Created
  <2> QED BY <2>1, <2>2, <2>3, <2>4 DEF RunFits
<1>2. CASE UNCHANGED vars
  BY <1>1, <1>2 DEF vars, RunInv
<1>3. CASE Next
  <2>1. /\ crashes = 0
        /\ \/ \E r \in Request : HandlePost(r)
           \/ \E a \in Abort : HandleAbort(a)
           \/ \E j \in Job : Work(j)
           \/ LeaseLapses
    BY <1>3, NoCrash
  <2>2. RunFits
    BY <2>1 DEF RunInv
  <2>3. CASE LeaseLapses
    BY <1>1, <2>2, <2>3 DEF LeaseLapses
  <2> QED BY <2>1, <2>2, <2>3, RunPost, RunAbort, RunWork
<1> QED BY <1>2, <1>3

LEMMA BudgetInit == Init => BudgetInv
BY WorkflowConstants DEF Init, BudgetInv, Budgeted, IdleWorker

(* The ranks of the steps, one by one. *)
LEMMA Ranks ==
    /\ StepsLeft["waiting"] = 28 /\ StepsLeft["lease"] = 27 /\ StepsLeft["analyze"] = 26
    /\ StepsLeft["clarify"] = 25 /\ StepsLeft["retrieve"] = 24 /\ StepsLeft["plan"] = 23
    /\ StepsLeft["answer"] = 22 /\ StepsLeft["code"] = 21 /\ StepsLeft["check"] = 20
    /\ StepsLeft["count"] = 19 /\ StepsLeft["generate"] = 18 /\ StepsLeft["execute"] = 17
    /\ StepsLeft["validate"] = 16 /\ StepsLeft["derive"] = 15 /\ StepsLeft["repair"] = 14
    /\ StepsLeft["confirm"] = 13 /\ StepsLeft["publish"] = 12 /\ StepsLeft["commit"] = 11
    /\ StepsLeft["package"] = 10 /\ StepsLeft["candidate"] = 9 /\ StepsLeft["complete"] = 8
    /\ StepsLeft["announce"] = 7 /\ StepsLeft["spent"] = 6 /\ StepsLeft["cancel"] = 5
    /\ StepsLeft["fail"] = 4 /\ StepsLeft["release"] = 3 /\ StepsLeft["ack"] = 2
    /\ StepsLeft["completed"] = 1 /\ StepsLeft["dead"] = 0
BY DEF StepsLeft

(* A move leads forward. *)
LEMMA MoveLeadsOn ==
    ASSUME NEW s \in DOMAIN PhaseStep, NEW c \in BOOLEAN, NEW m
    PROVE  /\ s \in Active /\ Following(s, c, m) \in Active \ {"spent"}
           /\ StepsLeft[Following(s, c, m)] < StepsLeft[s]
<1>1. s \in {"analyze", "clarify", "retrieve", "plan", "answer", "code", "generate", "execute",
             "validate", "publish", "package", "candidate", "complete"}
  BY DEF PhaseStep
<1>2. s \in Active /\ Following(s, c, m) \in Active \ {"spent"}
  BY <1>1 DEF Following, Active, Critical, Stage
<1>3. <<s, Following(s, c, m)>> \in
         {<<"analyze", "retrieve">>, <<"analyze", "clarify">>, <<"clarify", "announce">>,
          <<"retrieve", "plan">>, <<"plan", "answer">>, <<"plan", "code">>,
          <<"answer", "release">>, <<"code", "check">>, <<"generate", "execute">>,
          <<"execute", "validate">>, <<"validate", "derive">>, <<"publish", "commit">>,
          <<"package", "candidate">>, <<"candidate", "complete">>, <<"complete", "announce">>}
  BY <1>1 DEF Following
<1> HIDE DEF Following
<1>4. StepsLeft[Following(s, c, m)] < StepsLeft[s]
  BY <1>3, Ranks
<1> QED BY <1>2, <1>4

(* One step of a job, as its counters and its place see it: nearer its end *)
(* in the same attempt, the next attempt, the beginning of a delivery, a   *)
(* delivery refused, or one cut short.                                     *)
SameCounts(w, x) == x.tries = w.tries /\ x.stalls = w.stalls
Goes(s, w, q, x) ==
    \/ /\ s \in Active /\ q \in (Active \ {"spent"}) \cup {"completed"}
       /\ StepsLeft[q] < StepsLeft[s]
       /\ SameCounts(w, x) /\ x.attempt = w.attempt
    \/ /\ s = "repair" /\ q = "check"
       /\ SameCounts(w, x)
       /\ x.attempt = w.attempt + 1 /\ x.attempt <= MaxAutoIterations
    \/ /\ s = "waiting" /\ q \in {"lease", "ack"}
       /\ SameCounts(w, x) /\ x.attempt = 1
    \/ /\ s = "lease"
       /\ q = IF x.tries < JobAttempts THEN "waiting" ELSE "dead"
       /\ x.tries = w.tries + 1 /\ x.stalls = w.stalls /\ x.attempt = w.attempt
    \/ /\ s \in Active
       /\ q = IF x.stalls <= MaxStalledCount THEN "waiting" ELSE "dead"
       /\ x.tries = w.tries /\ x.stalls = w.stalls + 1 /\ x.attempt = w.attempt

(* A step that leaves the worker's counters alone. *)
LEMMA GoesOn ==
    ASSUME TypeInv, NEW j \in Job, NEW s \in (Active \ {"spent"}) \cup {"completed"},
           pc[j] \in Active, StepsLeft[s] < StepsLeft[pc[j]],
           pc' = [pc EXCEPT ![j] = s], UNCHANGED worker
    PROVE  /\ \A i \in Job : i # j => pc'[i] = pc[i] /\ worker'[i] = worker[i]
           /\ Goes(pc[j], worker[j], pc'[j], worker'[j])
BY DEF TypeInv, TypeOK, Goes, SameCounts

(* recordAttempt leads on, or to failTask. *)
LEMMA RecordLeadsOn ==
    ASSUME TypeInv, NEW j \in Job, pc[j] \in Stage, NEW s \in {"confirm", "repair", "fail"},
           RecordAttempt(j, s)
    PROVE  /\ pc[j] \in Active
           /\ \E q \in Active \ {"spent"} :
                 pc' = [pc EXCEPT ![j] = q] /\ StepsLeft[q] < StepsLeft[pc[j]]
<1>1. pc[j] \in Active /\ {"confirm", "repair", "fail"} \subseteq Active \ {"spent"}
  BY DEF Stage, Critical, Active
<1>2. StepsLeft[s] < StepsLeft[pc[j]] /\ StepsLeft["fail"] < StepsLeft[pc[j]]
  BY Ranks DEF Stage
<1> QED BY <1>1, <1>2 DEF RecordAttempt

LEMMA WorkGoes ==
    ASSUME TypeInv, NEW j \in Job, worker[j].attempt \in 1..MaxAutoIterations,
           Work(j) \/ Crash(j)
    PROVE  /\ \A i \in Job : i # j => pc'[i] = pc[i] /\ worker'[i] = worker[i]
           /\ Goes(pc[j], worker[j], pc'[j], worker'[j])
<1> DEFINE v == worker[j]
           Goal == /\ \A i \in Job : i # j => pc'[i] = pc[i] /\ worker'[i] = worker[i]
                   /\ Goes(pc[j], worker[j], pc'[j], worker'[j])
<1>1. v \in WorkerState /\ task[j[1]] \in TaskRow /\ j[1] \in Task
  BY DEF TypeInv, TypeOK, Job
<1>2. v.tries \in Nat /\ v.stalls \in Nat /\ v.attempt \in Nat
  BY <1>1 DEF WorkerState
<1>3. ASSUME NEW q, NEW x, pc' = [pc EXCEPT ![j] = q], worker' = [worker EXCEPT ![j] = x],
             Goes(pc[j], v, q, x)
      PROVE  Goal
  BY <1>3 DEF TypeInv, TypeOK
<1>4. ASSUME NEW q \in (Active \ {"spent"}) \cup {"completed"},
             pc[j] \in Active, StepsLeft[q] < StepsLeft[pc[j]],
             pc' = [pc EXCEPT ![j] = q], UNCHANGED worker
      PROVE  Goal
  BY <1>4, GoesOn
<1>5. CASE Deliver(j)
  <2> DEFINE x == Loaded(v, task[j[1]])
             q == IF task[j[1]].status = "QUEUED" THEN "lease" ELSE "ack"
  <2>1. SameCounts(v, x) /\ x.attempt = 1
    BY <1>1 DEF Loaded, WorkerState, SameCounts
  <2>2. pc' = [pc EXCEPT ![j] = q] /\ worker' = [worker EXCEPT ![j] = x] /\ pc[j] = "waiting"
    BY <1>5 DEF Deliver
  <2>3. q \in {"lease", "ack"}
    OBVIOUS
  <2> HIDE DEF x, q
  <2>4. Goes(pc[j], v, q, x)
    BY <2>1, <2>2, <2>3 DEF Goes
  <2> QED BY <1>3, <2>2, <2>4
<1>6. CASE LeaseBusy(j)
  <2> DEFINE x == Refused(v)
             q == IF x.tries < JobAttempts THEN "waiting" ELSE "dead"
  <2>1. x.tries = v.tries + 1 /\ x.stalls = v.stalls /\ x.attempt = v.attempt
    BY <1>1 DEF Refused, WorkerState
  <2>2. pc' = [pc EXCEPT ![j] = q] /\ worker' = [worker EXCEPT ![j] = x] /\ pc[j] = "lease"
    BY <1>6 DEF LeaseBusy
  <2> HIDE DEF x
  <2>3. Goes(pc[j], v, q, x)
    BY <2>1, <2>2 DEF Goes
  <2> QED BY <1>3, <2>2, <2>3
<1>7. CASE Crash(j)
  <2> DEFINE x == Stalled(v)
             q == IF x.stalls <= MaxStalledCount THEN "waiting" ELSE "dead"
  <2>1. x.tries = v.tries /\ x.stalls = v.stalls + 1 /\ x.attempt = v.attempt
    BY <1>1 DEF Stalled, WorkerState
  <2>2. pc' = [pc EXCEPT ![j] = q] /\ worker' = [worker EXCEPT ![j] = x] /\ pc[j] \in Active
    BY <1>7 DEF Crash
  <2> HIDE DEF x
  <2>3. Goes(pc[j], v, q, x)
    BY <2>1, <2>2 DEF Goes
  <2> QED BY <1>3, <2>2, <2>3
<1>8. CASE StageNeedsRepair(j)
  <2> DEFINE x == FailedIn(v, StagePhase[pc[j]])
  <2>1. SameCounts(v, x) /\ x.attempt = v.attempt
    BY <1>1 DEF FailedIn, WorkerState, SameCounts
  <2>2. worker' = [worker EXCEPT ![j] = x] /\ pc[j] \in Stage /\ RecordAttempt(j, "repair")
    BY <1>8 DEF StageNeedsRepair
  <2> HIDE DEF x
  <2>3. PICK q \in Active \ {"spent"} :
           pc' = [pc EXCEPT ![j] = q] /\ StepsLeft[q] < StepsLeft[pc[j]]
    BY <2>2, RecordLeadsOn
  <2>4. Goes(pc[j], v, q, x)
    BY <2>1, <2>2, <2>3, RecordLeadsOn DEF Goes
  <2> QED BY <1>3, <2>2, <2>3, <2>4
<1>9. CASE Repair(j)
  <2> DEFINE x == NextAttempt(v)
  <2>1. SameCounts(v, x) /\ x.attempt = v.attempt + 1
    BY <1>1 DEF NextAttempt, WorkerState, SameCounts
  <2>2. pc[j] = "repair" /\ pc[j] \in Active /\ {"fail", "release"} \subseteq Active \ {"spent"}
    BY <1>9 DEF Repair, Active, Critical
  <2>3. CASE pc' = [pc EXCEPT ![j] = "fail"] /\ UNCHANGED worker
    <3>1. StepsLeft["fail"] < StepsLeft[pc[j]]
      BY <2>2, Ranks
    <3> QED BY <1>4, <2>2, <2>3, <3>1
  <2>4. CASE ~RetryAllowed(v.attempt, MaxAutoIterations) /\ ~(pc' = [pc EXCEPT ![j] = "fail"] /\ UNCHANGED worker)
    <3>1. pc' = [pc EXCEPT ![j] = "release"] /\ worker' = [worker EXCEPT ![j] = v]
      BY <1>9, <2>4 DEF Repair
    <3>2. UNCHANGED worker
      BY <3>1 DEF TypeInv, TypeOK
    <3>3. StepsLeft["release"] < StepsLeft[pc[j]]
      BY <2>2, Ranks
    <3> QED BY <1>4, <2>2, <3>1, <3>2, <3>3
  <2>5. CASE RetryAllowed(v.attempt, MaxAutoIterations) /\ ~(pc' = [pc EXCEPT ![j] = "fail"] /\ UNCHANGED worker)
    <3>1. pc' = [pc EXCEPT ![j] = LoopHead(x)] /\ worker' = [worker EXCEPT ![j] = x]
      BY <1>9, <2>5 DEF Repair
    <3>2. x.attempt <= MaxAutoIterations
      BY <1>2, <2>1, <2>5, WorkflowConstants DEF RetryAllowed
    <3>3. LoopHead(x) = "check"
      BY <3>2 DEF LoopHead
    <3> HIDE DEF x
    <3>4. Goes(pc[j], v, "check", x)
      BY <2>1, <2>2, <3>2 DEF Goes
    <3> QED BY <1>3, <3>1, <3>3, <3>4
  <2> QED BY <2>3, <2>4, <2>5
<1>10. CASE Move(j)
  <2> DEFINE q == Following(pc[j], v.complete, task[j[1]].mode)
  <2>1. pc[j] \in DOMAIN PhaseStep /\ v.complete \in BOOLEAN
    BY <1>1, <1>10 DEF Move, WorkerState
  <2>2. /\ pc[j] \in Active /\ q \in Active \ {"spent"} /\ StepsLeft[q] < StepsLeft[pc[j]]
    BY <2>1, MoveLeadsOn
  <2>3. "fail" \in Active \ {"spent"} /\ StepsLeft["fail"] < StepsLeft[pc[j]]
    BY <2>1, Ranks DEF PhaseStep, Active, Critical
  <2>4. pc' = [pc EXCEPT ![j] = q] \/ pc' = [pc EXCEPT ![j] = "fail"]
    BY <1>10 DEF Move
  <2>5. UNCHANGED worker
    BY <1>10 DEF Move
  <2> HIDE DEF q
  <2> QED BY <1>4, <2>2, <2>3, <2>4, <2>5
<1>11. CASE StagePasses(j)
  <2>1. UNCHANGED worker
    BY <1>11 DEF StagePasses
  <2>2. CASE pc[j] = "derive" /\ RecordAttempt(j, "confirm")
    <3>1. pc[j] \in Stage
      BY <2>2 DEF Stage
    <3> QED BY <1>4, <2>1, <2>2, <3>1, RecordLeadsOn
  <2>3. CASE pc[j] \in Stage \ {"derive"} /\ pc' = [pc EXCEPT ![j] = Following(@, TRUE, "AUTO")]
    <3>1. pc[j] \in DOMAIN PhaseStep
      BY <2>3 DEF Stage, PhaseStep
    <3> QED BY <1>4, <2>1, <2>3, <3>1, MoveLeadsOn
  <2> QED BY <1>11, <2>2, <2>3 DEF StagePasses
<1>12. CASE StageThrows(j)
  BY <1>4, <1>12, RecordLeadsOn DEF StageThrows
<1>13. CASE StepThrows(j)
  <2>1. pc[j] \in Critical \ (Stage \cup {"repair", "fail", "cancel", "release"})
        /\ pc' = [pc EXCEPT ![j] = "fail"] /\ UNCHANGED worker
    BY <1>13 DEF StepThrows
  <2>2. pc[j] \in Active /\ "fail" \in Active \ {"spent"}
    BY <2>1 DEF Active, Critical
  <2>3. StepsLeft["fail"] < StepsLeft[pc[j]]
    BY <2>1, Ranks DEF Critical, Stage
  <2> QED BY <1>4, <2>1, <2>2, <2>3
<1>14. CASE \/ TakeLease(j) \/ CheckActive(j) \/ BeginAttempt(j) \/ Confirm(j)
            \/ PublishRevision(j) \/ Announce(j) \/ FailTask(j) \/ Release(j) \/ Acknowledge(j)
  <2>1. UNCHANGED worker
    BY <1>14 DEF TakeLease, CheckActive, BeginAttempt, Confirm, PublishRevision, Announce,
                 FailTask, Release, Acknowledge
  <2>2. \E q \in {"analyze", "cancel", "count", "generate", "publish", "package", "fail",
                  "release", "ack", "completed"} :
           /\ pc' = [pc EXCEPT ![j] = q]
           /\ <<pc[j], q>> \in
                 {<<"lease", "analyze">>, <<"check", "cancel">>, <<"check", "count">>,
                  <<"count", "generate">>, <<"confirm", "cancel">>, <<"confirm", "publish">>,
                  <<"commit", "package">>, <<"commit", "fail">>, <<"announce", "release">>,
                  <<"cancel", "release">>, <<"fail", "release">>, <<"release", "ack">>,
                  <<"ack", "completed">>}
    BY <1>14 DEF TakeLease, CheckActive, BeginAttempt, Confirm, PublishRevision, Announce,
                 FailTask, Release, Acknowledge
  <2>3. PICK q \in {"analyze", "cancel", "count", "generate", "publish", "package", "fail",
                    "release", "ack", "completed"} :
           /\ pc' = [pc EXCEPT ![j] = q]
           /\ <<pc[j], q>> \in
                 {<<"lease", "analyze">>, <<"check", "cancel">>, <<"check", "count">>,
                  <<"count", "generate">>, <<"confirm", "cancel">>, <<"confirm", "publish">>,
                  <<"commit", "package">>, <<"commit", "fail">>, <<"announce", "release">>,
                  <<"cancel", "release">>, <<"fail", "release">>, <<"release", "ack">>,
                  <<"ack", "completed">>}
    BY <2>2
  <2>4. StepsLeft[q] < StepsLeft[pc[j]]
    BY <2>3, Ranks
  <2>5. pc[j] \in Active /\ q \in (Active \ {"spent"}) \cup {"completed"}
    BY <2>3 DEF Active, Critical, Stage
  <2> QED BY <1>4, <2>1, <2>3, <2>4, <2>5
<1> QED
  BY <1>5, <1>6, <1>7, <1>8, <1>9, <1>10, <1>11, <1>12, <1>13, <1>14 DEF Work

(* A step of the system, as one job sees it: it does not move, it is       *)
(* queued, or it goes on.                                                  *)
LEMMA JobSees ==
    ASSUME TypeInv, BudgetInv, [Next]_vars, NEW j \in Job
    PROVE  \/ pc'[j] = pc[j] /\ worker'[j] = worker[j]
           \/ pc[j] = "absent" /\ pc'[j] = "waiting" /\ worker'[j] = worker[j]
           \/ Goes(pc[j], worker[j], pc'[j], worker'[j])
<1>1. ASSUME NEW r \in Request, PostEnqueue(r)
      PROVE  \/ pc'[j] = pc[j] /\ worker'[j] = worker[j]
             \/ pc[j] = "absent" /\ pc'[j] = "waiting" /\ worker'[j] = worker[j]
  BY <1>1 DEF PostEnqueue, TypeInv, TypeOK
<1>2. ASSUME NEW r \in Request, HandlePost(r) \/ PostLost(r), ~PostEnqueue(r)
      PROVE  UNCHANGED <<pc, worker>>
  BY <1>2 DEF HandlePost, PostReplay, PostFindWaiting, PostFindActive, PostAcquire, PostReject,
              PostCommit, ResumeAcquire, ResumeCommit, PostTxFails, PostLost
<1>3. ASSUME NEW a \in Abort, HandleAbort(a) PROVE UNCHANGED <<pc, worker>>
  BY <1>3 DEF HandleAbort, AbortFind, AbortMark
<1>4. ASSUME NEW i \in Job, Work(i) \/ Crash(i)
      PROVE  \/ pc'[j] = pc[j] /\ worker'[j] = worker[j]
             \/ Goes(pc[j], worker[j], pc'[j], worker'[j])
  <2>1. worker[i].attempt \in 1..MaxAutoIterations
    BY DEF BudgetInv, Budgeted
  <2> QED BY <1>4, <2>1, WorkGoes
<1>5. LeaseLapses \/ UNCHANGED vars => UNCHANGED <<pc, worker>>
  BY DEF LeaseLapses, vars
<1> QED BY <1>1, <1>2, <1>3, <1>4, <1>5 DEF Next

(* A step keeps a job within its counts. *)
LEMMA GoesBudgeted ==
    ASSUME NEW s \in JobState, NEW w \in WorkerState, NEW q, NEW x,
           Budgeted(s, w), Goes(s, w, q, x)
    PROVE  Budgeted(q, x)
<1>1. w.tries \in Nat /\ w.stalls \in Nat /\ w.attempt \in Nat
  BY DEF WorkerState
<1>2. "spent" \notin {"waiting", "lease", "ack", "check", "completed", "dead"}
      /\ {"completed", "dead"} \cap (Active \cup {"waiting", "absent"}) = {}
      /\ {"check", "lease", "ack"} \subseteq Active
  BY DEF Active, Critical, Stage
<1>3. 1 \in 1..MaxAutoIterations
  BY WorkflowConstants
<1>4. CASE s \in Active /\ q \in (Active \ {"spent"}) \cup {"completed"}
           /\ SameCounts(w, x) /\ x.attempt = w.attempt
  BY <1>2, <1>4 DEF Budgeted, SameCounts
<1>5. CASE /\ s = "repair" /\ q = "check" /\ SameCounts(w, x)
           /\ x.attempt = w.attempt + 1 /\ x.attempt <= MaxAutoIterations
  <2>1. s \in Active
    BY <1>5 DEF Active, Critical
  <2>2. x.attempt \in 1..MaxAutoIterations
    BY <1>1, <1>5, WorkflowConstants
  <2> QED BY <1>2, <1>5, <2>1, <2>2 DEF Budgeted, SameCounts
<1>6. CASE s = "waiting" /\ q \in {"lease", "ack"} /\ SameCounts(w, x) /\ x.attempt = 1
  BY <1>2, <1>3, <1>6 DEF Budgeted, SameCounts
<1>7. CASE /\ s \in Active
           /\ q = IF x.tries < JobAttempts THEN "waiting" ELSE "dead"
           /\ x.tries = w.tries + 1 /\ x.stalls = w.stalls /\ x.attempt = w.attempt
  <2>1. w.tries < JobAttempts /\ w.stalls <= MaxStalledCount /\ w.attempt \in 1..MaxAutoIterations
    BY <1>7 DEF Budgeted
  <2>2. x.tries <= JobAttempts /\ x.stalls <= MaxStalledCount + 1
    BY <1>1, <1>7, <2>1, WorkflowConstants
  <2>3. q = "dead" \/ x.tries < JobAttempts
    BY <1>7
  <2> QED BY <1>2, <1>7, <2>1, <2>2, <2>3 DEF Budgeted
<1>8. CASE /\ s \in Active
           /\ q = IF x.stalls <= MaxStalledCount THEN "waiting" ELSE "dead"
           /\ x.tries = w.tries /\ x.stalls = w.stalls + 1 /\ x.attempt = w.attempt
  <2>1. w.tries < JobAttempts /\ w.stalls <= MaxStalledCount /\ w.attempt \in 1..MaxAutoIterations
    BY <1>8 DEF Budgeted
  <2>2. x.tries <= JobAttempts /\ x.stalls <= MaxStalledCount + 1
    BY <1>1, <1>8, <2>1, WorkflowConstants
  <2>3. q = "dead" \/ x.stalls <= MaxStalledCount
    BY <1>8
  <2> QED BY <1>2, <1>8, <2>1, <2>2, <2>3 DEF Budgeted
<1>9. "lease" \in Active
  BY DEF Active
<1> QED BY <1>4, <1>5, <1>6, <1>7, <1>8, <1>9 DEF Goes

LEMMA BudgetNext == TypeInv /\ BudgetInv /\ [Next]_vars => BudgetInv'
<1> SUFFICES ASSUME TypeInv, BudgetInv, [Next]_vars, NEW j \in Job
             PROVE  Budgeted(pc'[j], worker'[j])
  BY DEF BudgetInv
<1>1. /\ Budgeted(pc[j], worker[j])
      /\ pc[j] \in JobState /\ worker[j] \in WorkerState
  BY DEF TypeInv, TypeOK, BudgetInv
<1>2. CASE pc'[j] = pc[j] /\ worker'[j] = worker[j]
  BY <1>1, <1>2
<1>3. CASE pc[j] = "absent" /\ pc'[j] = "waiting" /\ worker'[j] = worker[j]
  BY <1>1, <1>3 DEF Budgeted
<1>4. CASE Goes(pc[j], worker[j], pc'[j], worker'[j])
  BY <1>1, <1>4, GoesBudgeted
<1> QED BY <1>2, <1>3, <1>4, JobSees

LEMMA RunInvHolds == Spec => [](TypeInv /\ BudgetInv /\ RunInv)
BY TypeInit, TypeNext, BudgetInit, BudgetNext, RunInit, RunNext, PTL DEF Spec

(* While no process crashes a task commits at most one revision, though    *)
(* leases run out under their holders and resumptions race: the stable job *)
(* ids keep a second job of the same run out (publishRevision, queue.add). *)
THEOREM RevisionCommittedOnce == Spec => []PublishedOnce
<1>1. RunInv => PublishedOnce
  <2> SUFFICES ASSUME RunFits, NEW t \in Task PROVE published[t] <= 1
    BY DEF RunInv, PublishedOnce, NoDuplicateRevision
  <2>1. RowFits(task[t], evidence[t], published[t])
    BY DEF RunFits, TaskFits
  <2>2. published[t] = 0 \/ published[t] = 1
    BY <2>1 DEF RowFits
  <2> QED BY <2>2
<1> QED BY RunInvHolds, <1>1, PTL

(* Nor is an attempt number used twice: whoever is at a stage of an        *)
(* attempt has counted it, and nothing is recorded under its number yet.   *)
THEOREM AttemptsNumberedOnce == Spec => []AttemptNumbersFresh
<1>1. TypeInv /\ RunInv => AttemptNumbersFresh
  <2> SUFFICES ASSUME TypeInv, RunFits, NEW j \in Job, pc[j] \in Stage
               PROVE  Iteration(j) \notin evidence[j[1]]
    BY DEF RunInv, AttemptNumbersFresh
  <2>1. /\ JobFits(j, pc[j], worker[j], task[j[1]], evidence[j[1]], published[j[1]])
        /\ task[j[1]].iterations \in Nat
    BY JobNow
  <2> QED BY <2>1 DEF JobFits, Iteration
<1> QED BY RunInvHolds, <1>1, PTL

(* The attempt loop is never left without a result and without a question *)
(* to the user, and a task that asks for help has had its run's whole      *)
(* budget of attempts (decideRepair against the condition of the loop).    *)
THEOREM BudgetIsUsedUp == Spec => []RepairBudget
<1>1. TypeInv /\ BudgetInv /\ RunInv => RepairBudget
  <2> SUFFICES ASSUME TypeInv, BudgetInv, RunInv, NEW j \in Job
               PROVE  /\ pc[j] # "spent"
                      /\ crashes = 0 /\ pc[j] \in Critical /\ task[j[1]].status = "NEEDS_USER"
                            => worker[j].attempt = MaxAutoIterations
    BY DEF RepairBudget
  <2>1. pc[j] # "spent"
    BY DEF BudgetInv, Budgeted
  <2>2. ASSUME crashes = 0, pc[j] \in Critical, task[j[1]].status = "NEEDS_USER"
        PROVE  worker[j].attempt = MaxAutoIterations
    <3>1. JobFits(j, pc[j], worker[j], task[j[1]], evidence[j[1]], published[j[1]])
      BY <2>2, JobNow DEF RunInv
    <3> QED BY <2>2, <3>1 DEF JobFits, Engages
  <2> QED BY <2>1, <2>2
<1> QED BY RunInvHolds, <1>1, PTL

(* Each step of a job that is within its counts brings it nearer its end.  *)
LEMMA GoesNearer ==
    ASSUME TypeInv, BudgetInv, BudgetInv', NEW j \in Job,
           Goes(pc[j], worker[j], pc'[j], worker'[j])
    PROVE  Nearer(j)
<1> DEFINE s == pc[j]  w == worker[j]  q == pc'[j]  x == worker'[j]
<1>1. /\ s \in JobState /\ w \in WorkerState /\ Budgeted(s, w) /\ Budgeted(q, x)
      /\ Goes(s, w, q, x)
  BY DEF TypeInv, TypeOK, BudgetInv
<1>2. w.tries \in Nat /\ w.stalls \in Nat /\ w.attempt \in Nat
  BY <1>1 DEF WorkerState
<1>3. "waiting" \notin Active /\ "completed" # "waiting" /\ "dead" # "waiting"
  BY DEF Active, Critical, Stage
<1>4. /\ DeliveriesLeft(j) = JobAttempts + MaxStalledCount + 1 - w.tries - w.stalls
      /\ DeliveriesLeft(j)' = JobAttempts + MaxStalledCount + 1 - x.tries - x.stalls
      /\ AttemptsLeft(j) =
            IF s = "waiting" THEN MaxAutoIterations ELSE MaxAutoIterations - w.attempt
      /\ AttemptsLeft(j)' =
            IF q = "waiting" THEN MaxAutoIterations ELSE MaxAutoIterations - x.attempt
  BY DEF DeliveriesLeft, AttemptsLeft
<1> HIDE DEF s, w, q, x
<1>5. x.tries \in Nat /\ x.stalls \in Nat /\ x.attempt \in Nat
  BY <1>1, <1>2 DEF Goes, SameCounts
<1>6. 0 <= DeliveriesLeft(j)' /\ 0 <= AttemptsLeft(j)'
  <2>1. x.attempt <= MaxAutoIterations /\ x.tries <= JobAttempts
        /\ x.stalls <= MaxStalledCount + 1
    BY <1>1, WorkflowConstants DEF Budgeted
  <2> QED BY <1>4, <1>5, <2>1, WorkflowConstants
<1>7. CASE /\ s \in Active /\ q # "waiting" /\ StepsLeft[q] < StepsLeft[s]
           /\ SameCounts(w, x) /\ x.attempt = w.attempt
  BY <1>2, <1>3, <1>4, <1>6, <1>7, WorkflowConstants DEF Nearer, SameCounts, s, q
<1>8. CASE /\ s = "repair" /\ q = "check" /\ SameCounts(w, x) /\ x.attempt = w.attempt + 1
  BY <1>2, <1>4, <1>6, <1>8, WorkflowConstants DEF Nearer, SameCounts
<1>9. CASE s = "waiting" /\ q \in {"lease", "ack"} /\ SameCounts(w, x) /\ x.attempt = 1
  BY <1>2, <1>4, <1>6, <1>9, WorkflowConstants DEF Nearer, SameCounts
<1>10. CASE \/ x.tries = w.tries + 1 /\ x.stalls = w.stalls
            \/ x.tries = w.tries /\ x.stalls = w.stalls + 1
  BY <1>2, <1>4, <1>6, <1>10, WorkflowConstants DEF Nearer
<1> QED BY <1>1, <1>3, <1>7, <1>8, <1>9, <1>10 DEF Goes

(* No job goes on for ever: whatever lease it finds busy, whatever call    *)
(* fails and wherever its process dies, each of its steps uses up one of   *)
(* its deliveries, of its attempts or of the steps of an attempt, and none *)
(* runs below zero (jobPolicy, maxStalledCount, the attempt loop).         *)
THEOREM JobsAreBounded == Spec => JobsWindDown
<1>1. TypeInv /\ BudgetInv /\ BudgetInv' /\ [Next]_vars
         => [\A j \in Job : Moves(j) => Nearer(j)]_vars
  <2> SUFFICES ASSUME TypeInv, BudgetInv, BudgetInv', [Next]_vars, NEW j \in Job, Moves(j)
               PROVE  Nearer(j)
    OBVIOUS
  <2>1. Goes(pc[j], worker[j], pc'[j], worker'[j])
    BY JobSees DEF Moves
  <2> QED BY <2>1, GoesNearer
<1> QED BY RunInvHolds, <1>1, PTL DEF Spec, JobsWindDown

(* An abort lets through at most the attempt that had passed the check     *)
(* when it came (assertTaskActive at the top of the attempt loop).         *)
THEOREM AbortStopsAttempts == Spec => []AbortBoundsAttempts
<1>1. TypeInv /\ RunInv => AbortBoundsAttempts
  <2> SUFFICES ASSUME TypeInv, RunFits, NEW a \in Abort, abort[a].step = "marked"
               PROVE  task[abort[a].task].iterations <= abort[a].seen + 1
    BY DEF RunInv, AbortBoundsAttempts, Undisturbed
  <2>1. /\ abort[a].task \in Task /\ abort[a].seen \in Nat
    BY WorkflowConstants DEF TypeInv, TypeOK, Targets, AbortState
  <2>2. task[abort[a].task].iterations \in Nat
    BY <2>1, WorkflowConstants DEF TypeInv, TypeOK, TaskRow
  <2> QED BY <2>1, <2>2 DEF RunFits, AbortFits
<1> QED BY RunInvHolds, <1>1, PTL
=============================================================================
