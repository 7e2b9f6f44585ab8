---------------------------- MODULE TaskWorkflow ----------------------------
(***************************************************************************)
(* One conversation of CADIR-Agent: the API handlers that submit, resume   *)
(* and abort its tasks, the Redis write lease, the BullMQ queue with its   *)
(* stable job ids, and the workers that drive a task through its phases.   *)
(*                                                                         *)
(* A step is one database transaction, one Redis command or one call to    *)
(* the agent, Runner or object store, so everything the code may have      *)
(* interleaved between two awaits is a behaviour of the model.  A job is   *)
(* the pair <<task, run>> of the job id `${taskId}-${run}`; pc[j] is both  *)
(* the job's BullMQ state and, while it is active, the point its worker    *)
(* has reached.                                                            *)
(***************************************************************************)
EXTENDS TaskPhases, FiniteSets

CONSTANTS
    Task,          \* ids a POST may mint for a new task
    Run,           \* run numbers, i.e. values of Task.iterationCount
    Request,       \* deliveries of POST /messages
    Key,           \* values of the x-idempotency-key header
    Abort,         \* deliveries of POST /abort
    None,          \* no task: the lease is free
    MaxAutoIterations,  \* config TASK_MAX_AUTO_ITERATIONS
    JobAttempts,   \* attempts of jobPolicy
    MaxStalledCount,    \* maxStalledCount of the BullMQ worker
    MaxCrashes,    \* bound: processes that stop without running their finally
    MaxLapses      \* bound: leases that reach their ten minutes

ASSUME WorkflowConstants ==
    /\ Run \subseteq Nat /\ 0 \in Run
    /\ MaxAutoIterations \in Nat \ {0}
    /\ JobAttempts \in Nat \ {0}
    /\ MaxStalledCount \in Nat
    /\ MaxCrashes \in Nat /\ MaxLapses \in Nat
    /\ IsFiniteSet(Task) /\ None \notin Task

VARIABLES
    task,       \* the Task rows
    keys,       \* idempotency keys of committed messages
    lease,      \* conversation:{id}:write: the task whose token it holds
    pc,         \* per job: its BullMQ state, or the worker's next step
    worker,     \* per job: the worker's local variables and job counters
    post,       \* per POST: the handler's next step and what it has read
    abort,      \* per abort request: likewise
    published,  \* history: revisions committed per task
    evidence,   \* per task: the attempts/<iteration> directories written
    crashes, lapses

vars == <<task, keys, lease, pc, worker, post, abort,
          published, evidence, crashes, lapses>>

Job == Task \X Run

(* The steps of process() after the lease is taken and before `finally`.   *)
Stage == {"generate", "execute", "validate", "derive"}
Critical ==
    {"analyze", "clarify", "retrieve", "plan", "answer", "code", "check", "count",
     "confirm", "publish", "commit", "package", "candidate", "complete",
     "announce", "repair", "spent", "fail", "cancel", "release"} \cup Stage
Active == Critical \cup {"lease", "ack"}
JobState == Active \cup {"absent", "waiting", "completed", "dead"}

PostStep == {"new", "find", "active", "create", "commit", "resume", "recommit",
             "enqueue", "done"}

(* What the worker does next: the phase it moves the task from and to, and *)
(* the step that follows.  A stage is a move guarded by its external call. *)
PhaseStep ==
    [analyze   |-> [from |-> "DOMAIN_GUARD", to |-> "ANALYZE"],
     clarify   |-> [from |-> "ANALYZE", to |-> "WAITING_USER"],
     retrieve  |-> [from |-> "ANALYZE", to |-> "RETRIEVE"],
     plan      |-> [from |-> "RETRIEVE", to |-> "PLAN"],
     answer    |-> [from |-> "PLAN", to |-> "COMPLETED"],
     code      |-> [from |-> "PLAN", to |-> "CODE"],
     generate  |-> [from |-> "CODE", to |-> "EXECUTE"],
     execute   |-> [from |-> "EXECUTE", to |-> "VALIDATE"],
     validate  |-> [from |-> "VALIDATE", to |-> "VISUAL_REVIEW"],
     publish   |-> [from |-> "VISUAL_REVIEW", to |-> "PUBLISH"],
     package   |-> [from |-> "PUBLISH", to |-> "CASE_PACKAGE"],
     candidate |-> [from |-> "CASE_PACKAGE", to |-> "CASE_CANDIDATE"],
     complete  |-> [from |-> "CASE_CANDIDATE", to |-> "COMPLETED"]]

Following(step, complete, mode) ==
    CASE step = "analyze"   -> IF complete THEN "retrieve" ELSE "clarify"
      [] step = "plan"      -> IF mode = "PLAN" THEN "answer" ELSE "code"
      [] step = "answer"    -> "release"
      [] step = "retrieve"  -> "plan"
      [] step = "code"      -> "check"
      [] step = "generate"  -> "execute"
      [] step = "execute"   -> "validate"
      [] step = "validate"  -> "derive"
      [] step = "publish"   -> "commit"
      [] step = "package"   -> "candidate"
      [] step = "candidate" -> "complete"
      [] step \in {"clarify", "complete"} -> "announce"

(* The `phase` variable of the attempt loop at each of its stages. *)
StagePhase == [generate |-> "CODE", execute |-> "EXECUTE",
               validate |-> "VALIDATE", derive |-> "VISUAL_REVIEW"]

Created(t)  == task[t].createdAt > 0
Having(S)   == {t \in Task : Created(t) /\ task[t].status \in S}
Newest(t, S) == t \in S /\ \A u \in S : task[u].createdAt <= task[t].createdAt

-----------------------------------------------------------------------------
NoRow == [createdAt |-> 0, status |-> "QUEUED", phase |-> "DOMAIN_GUARD",
          aborted |-> FALSE, iterations |-> 0, complete |-> TRUE,
          mode |-> "AUTO"]
IdleWorker == [tries |-> 0, stalls |-> 0, attempt |-> 1, offset |-> 0,
               complete |-> TRUE, from |-> "CODE"]
NewPost(k) == [step |-> "new", task |-> None, run |-> 0, key |-> k]

Init ==
    /\ task = [t \in Task |-> NoRow]
    /\ keys = {}
    /\ lease = None
    /\ pc = [j \in Job |-> "absent"]
    /\ worker = [j \in Job |-> IdleWorker]
    /\ post \in [Request -> {NewPost(k) : k \in Key}]
    /\ abort = [a \in Abort |-> [step |-> "new", task |-> None, seen |-> 0]]
    /\ published = [t \in Task |-> 0]
    /\ evidence = [t \in Task |-> {}]
    /\ crashes = 0
    /\ lapses = 0

-----------------------------------------------------------------------------
(* What the handlers and the worker write, one operator per kind of write. *)

(* The next step of a POST, and what it has read or minted by then; one    *)
(* that is done keeps no row.                                              *)
At(p, step)        == [p EXCEPT !.step = step, !.run = IF step = "done" THEN 0 ELSE @]
Resuming(p, t, n)  == [p EXCEPT !.step = "resume", !.task = t, !.run = n]
Minting(p, t)      == [p EXCEPT !.step = "commit", !.task = t]
Aborting(step, t, n) == [step |-> step, task |-> t, seen |-> n]

(* Columns of a Task row. *)
RequeuedInPlace(row, complete) ==
    [row EXCEPT !.status = "QUEUED", !.complete = complete]
Requeued(row, complete) ==
    [row EXCEPT !.status = "QUEUED", !.phase = "DOMAIN_GUARD", !.complete = complete]
FlaggedOnly(row, status) == [row EXCEPT !.aborted = TRUE]
Cancelled(row, status) == [row EXCEPT !.status = status, !.aborted = TRUE]
Moved(row, to) == [row EXCEPT !.phase = to, !.status = statusForPhase(to)]
Counted(row, n) == [row EXCEPT !.iterations = n]

(* Counters of a job and local variables of its worker; `phase` begins     *)
(* each round of the loop as CODE.                                         *)
LoadedFromZero(w, row) == [w EXCEPT !.attempt = 1, !.offset = 0,
                                    !.complete = row.complete]
Loaded(w, row) == [w EXCEPT !.attempt = 1, !.offset = row.iterations,
                            !.complete = row.complete]
RefusedUncounted(w) == w
Refused(w) == [w EXCEPT !.tries = @ + 1]
Stalled(w) == [w EXCEPT !.stalls = @ + 1]
FailedIn(w, phase) == [w EXCEPT !.from = phase]
SameAttempt(w) == w
NextAttempt(w) == [w EXCEPT !.attempt = @ + 1, !.from = "CODE"]

-----------------------------------------------------------------------------
(* POST /api/conversations/:id/messages *)

(* A message with the key is there already: it is answered with that. *)
PostReplay(r) ==
    /\ post[r].step = "new"
    /\ post' = [post EXCEPT ![r] = At(@, IF @.key \in keys THEN "done" ELSE "find")]
    /\ UNCHANGED <<task, keys, lease, pc, worker, abort,
                   published, evidence, crashes, lapses>>

(* The search for a task that waits for the user.  The handler keeps the   *)
(* row it read: `run` is that row's iterationCount.                        *)
PostFindWaiting(r) ==
    LET waiting == Having({"WAITING_USER", "NEEDS_USER"}) IN
    /\ post[r].step = "find"
    /\ \/ /\ waiting = {}
          /\ post' = [post EXCEPT ![r] = At(@, "active")]
       \/ \E t \in waiting :
             /\ Newest(t, waiting)
             /\ post' = [post EXCEPT ![r] = Resuming(@, t, task[t].iterations)]
    /\ UNCHANGED <<task, keys, lease, pc, worker, abort,
                   published, evidence, crashes, lapses>>

(* The check for a QUEUED or RUNNING task; then the ownership checks, which *)
(* may refuse the request too (409 or 404).                                 *)
PostFindActive(r) ==
    /\ post[r].step = "active"
    /\ \/ post' = [post EXCEPT ![r] = At(@, "done")]
       \/ /\ Having({"QUEUED", "RUNNING"}) = {}
          /\ post' = [post EXCEPT ![r] = At(@, "create")]
    /\ UNCHANGED <<task, keys, lease, pc, worker, abort,
                   published, evidence, crashes, lapses>>

Minted == {post[r].task : r \in Request}

(* lock.acquire is SET NX. *)
AcquireWithoutNX == TRUE
LeaseFree == lease = None

(* lock.acquire for a new task, whose fresh id is the token. *)
PostAcquire(r) ==
    /\ post[r].step = "create"
    /\ \/ /\ ~LeaseFree
          /\ post' = [post EXCEPT ![r] = At(@, "done")]
          /\ UNCHANGED lease
       \/ /\ LeaseFree
          /\ \E t \in Task :
                /\ ~Created(t) /\ t \notin Minted
                /\ lease' = t
                /\ post' = [post EXCEPT ![r] = Minting(@, t)]
    /\ UNCHANGED <<task, keys, pc, worker, abort,
                   published, evidence, crashes, lapses>>

NewRow(status, phase, complete, mode) ==
    [createdAt |-> 1 + Cardinality({t \in Task : Created(t)}),
     status |-> status, phase |-> phase, aborted |-> FALSE, iterations |-> 0,
     complete |-> complete, mode |-> mode]

(* A request outside the CAD scope takes no lease and no job. *)
PostReject(r) ==
    /\ post[r].step = "create"
    /\ post[r].key \notin keys
    /\ \E t \in Task :
          /\ ~Created(t) /\ t \notin Minted
          /\ task' = [task EXCEPT
                        ![t] = NewRow("COMPLETED", "REJECTED", TRUE, "AUTO")]
    /\ keys' = keys \cup {post[r].key}
    /\ post' = [post EXCEPT ![r] = At(@, "done")]
    /\ UNCHANGED <<lease, pc, worker, abort,
                   published, evidence, crashes, lapses>>

PostCommit(r) ==
    /\ post[r].step = "commit"
    /\ post[r].key \notin keys
    /\ \E complete \in BOOLEAN, mode \in {"AUTO", "PLAN"} :
          task' = [task EXCEPT ![post[r].task] =
                     NewRow("QUEUED", "DOMAIN_GUARD", complete, mode)]
    /\ keys' = keys \cup {post[r].key}
    /\ post' = [post EXCEPT ![r] = At(@, "enqueue")]
    /\ UNCHANGED <<lease, pc, worker, abort,
                   published, evidence, crashes, lapses>>

(* resumeLock.acquire for the task the handler saw waiting. *)
ResumeAcquire(r) ==
    /\ post[r].step = "resume"
    /\ IF LeaseFree
         THEN /\ lease' = post[r].task
              /\ post' = [post EXCEPT ![r] = At(@, "recommit")]
         ELSE /\ post' = [post EXCEPT ![r] = At(@, "done")]
              /\ UNCHANGED lease
    /\ UNCHANGED <<task, keys, pc, worker, abort,
                   published, evidence, crashes, lapses>>

(* The row is updated by id alone, whatever has become of it since; the    *)
(* merged snapshot may or may not be complete now.                         *)
ResumeCommit(r) ==
    LET t == post[r].task IN
    /\ post[r].step = "recommit"
    /\ post[r].key \notin keys
    /\ \E complete \in BOOLEAN :
          task' = [task EXCEPT ![t] = Requeued(@, complete)]
    /\ keys' = keys \cup {post[r].key}
    /\ post' = [post EXCEPT ![r] = At(@, "enqueue")]
    /\ UNCHANGED <<lease, pc, worker, abort,
                   published, evidence, crashes, lapses>>

NeverReleased(t) == lease
Released(t) == IF lease = t THEN None ELSE lease

(* The transaction fails, for one because the key is a duplicate: the      *)
(* handler's catch releases the lease.                                     *)
PostTxFails(r) ==
    /\ post[r].step \in {"commit", "recommit"}
    /\ lease' = Released(post[r].task)
    /\ post' = [post EXCEPT ![r] = At(@, "done")]
    /\ UNCHANGED <<task, keys, pc, worker, abort,
                   published, evidence, crashes, lapses>>

(* taskQueue.add: BullMQ ignores the call when the job id is known to it,  *)
(* finished jobs that are still retained included.                         *)
PostEnqueue(r) ==
    LET j == <<post[r].task, post[r].run>> IN
    /\ post[r].step = "enqueue"
    /\ pc' = [pc EXCEPT ![j] = IF @ = "absent" THEN "waiting" ELSE @]
    /\ post' = [post EXCEPT ![r] = At(@, "done")]
    /\ UNCHANGED <<task, keys, lease, worker, abort,
                   published, evidence, crashes, lapses>>

(* The API process stops, or Redis refuses the add: nothing is undone. *)
PostLost(r) ==
    /\ post[r].step \in {"commit", "recommit", "enqueue"}
    /\ crashes < MaxCrashes
    /\ crashes' = crashes + 1
    /\ post' = [post EXCEPT ![r] = At(@, "done")]
    /\ UNCHANGED <<task, keys, lease, pc, worker, abort,
                   published, evidence, lapses>>

-----------------------------------------------------------------------------
(* POST /api/conversations/:id/abort *)

AbortFind(a) ==
    LET open == Having({"QUEUED", "RUNNING", "WAITING_USER"}) IN
    /\ abort[a].step = "new"
    /\ \/ /\ open = {}
          /\ abort' = [abort EXCEPT ![a] = Aborting("done", None, 0)]
       \/ \E t \in open :
             /\ Newest(t, open)
             /\ abort' = [abort EXCEPT ![a] = Aborting("mark", t, 0)]
    /\ UNCHANGED <<task, keys, lease, pc, worker, post,
                   published, evidence, crashes, lapses>>

AbortMark(a) ==
    LET t == abort[a].task IN
    /\ abort[a].step = "mark"
    /\ task' = [task EXCEPT ![t] = Cancelled(@, "ABORTING")]
    /\ abort' = [abort EXCEPT ![a] = Aborting("marked", t, task[t].iterations)]
    /\ UNCHANGED <<keys, lease, pc, worker, post,
                   published, evidence, crashes, lapses>>

-----------------------------------------------------------------------------
(* TaskWorker.process *)

WorkerOnly == <<keys, post, abort, crashes, lapses>>

(* BullMQ hands the job to a worker, which reads the task and keeps the row. *)
(* A task that is not QUEUED ends the job there, its lease untouched.        *)
Deliver(j) ==
    LET row == task[j[1]] IN
    /\ pc[j] = "waiting"
    /\ pc' = [pc EXCEPT ![j] = IF row.status = "QUEUED" THEN "lease" ELSE "ack"]
    /\ worker' = [worker EXCEPT ![j] = Loaded(@, row)]
    /\ UNCHANGED <<task, lease, published, evidence, WorkerOnly>>

(* renew when the lease already carries the task's token, else acquire. *)
LeaseTaken(t) == lease \in {t, None}

TakeLease(j) ==
    /\ pc[j] = "lease"
    /\ LeaseTaken(j[1])
    /\ lease' = j[1]
    /\ pc' = [pc EXCEPT ![j] = "analyze"]
    /\ UNCHANGED <<task, worker, published, evidence, WorkerOnly>>

(* Otherwise process() throws before its try: the job is retried with a    *)
(* backoff until its attempts are spent, then kept as a dead letter.       *)
LeaseBusy(j) ==
    /\ pc[j] = "lease"
    /\ ~LeaseTaken(j[1])
    /\ worker' = [worker EXCEPT ![j] = Refused(@)]
    /\ pc' = [pc EXCEPT ![j] =
                IF Refused(worker[j]).tries < JobAttempts THEN "waiting" ELSE "dead"]
    /\ UNCHANGED <<task, lease, published, evidence, WorkerOnly>>

(* transitionTask: the table, then the compare-and-set on the phase alone. *)
MayTransition(t, from, to) ==
    /\ to \in phaseTransitions[from]
    /\ task[t].phase = from

Transitioned(t, to) ==
    [task EXCEPT ![t] = Moved(@, to)]

(* A move that is not part of an attempt; a refused one throws. *)
Move(j) ==
    LET step == PhaseStep[pc[j]] t == j[1] IN
    /\ pc[j] \in DOMAIN PhaseStep \ Stage
    /\ IF MayTransition(t, step.from, step.to)
         THEN /\ task' = Transitioned(t, step.to)
              /\ pc' = [pc EXCEPT ![j] =
                          Following(@, worker[j].complete, task[t].mode)]
         ELSE /\ pc' = [pc EXCEPT ![j] = "fail"]
              /\ UNCHANGED task
    /\ UNCHANGED <<lease, worker, published, evidence, WorkerOnly>>

(* A read, a write or an outside call on the way throws. *)
StepThrows(j) ==
    /\ pc[j] \in Critical \ (Stage \cup {"repair", "fail", "cancel", "release"})
    /\ pc' = [pc EXCEPT ![j] = "fail"]
    /\ UNCHANGED <<task, lease, worker, published, evidence, WorkerOnly>>

AbortedByStatus(t) == task[t].status \in {"ABORTING", "ABORTED"}
TaskAborted(t) == task[t].aborted \/ task[t].status \in {"ABORTING", "ABORTED"}

(* The top of the attempt loop: assertTaskActive, then a write of          *)
(* iterationCount that looks at nothing.                                   *)
CheckActive(j) ==
    /\ pc[j] = "check"
    /\ pc' = [pc EXCEPT ![j] = IF TaskAborted(j[1]) THEN "cancel" ELSE "count"]
    /\ UNCHANGED <<task, lease, worker, published, evidence, WorkerOnly>>

Iteration(j) == worker[j].offset + worker[j].attempt

BeginAttempt(j) ==
    /\ pc[j] = "count"
    /\ Iteration(j) \in Run
    /\ task' = [task EXCEPT ![j[1]] = Counted(@, Iteration(j))]
    /\ pc' = [pc EXCEPT ![j] = "generate"]
    /\ UNCHANGED <<lease, worker, published, evidence, WorkerOnly>>

(* recordAttempt: the files it leaves are read-only, so a second record    *)
(* under the same number throws, and the worker falls through to failTask. *)
RecordAttempt(j, next) ==
    IF Iteration(j) \in evidence[j[1]]
      THEN /\ pc' = [pc EXCEPT ![j] = "fail"]
           /\ UNCHANGED evidence
      ELSE /\ pc' = [pc EXCEPT ![j] = next]
           /\ evidence' = [evidence EXCEPT ![j[1]] = @ \cup {Iteration(j)}]

(* A stage whose call succeeds moves the task on.  The last one, derive,   *)
(* moves nothing and records the attempt as passed.                        *)
StagePasses(j) ==
    LET t == j[1] IN
    \/ /\ pc[j] \in Stage \ {"derive"}
       /\ MayTransition(t, PhaseStep[pc[j]].from, PhaseStep[pc[j]].to)
       /\ task' = Transitioned(t, PhaseStep[pc[j]].to)
       /\ pc' = [pc EXCEPT ![j] = Following(@, TRUE, "AUTO")]
       /\ UNCHANGED <<lease, worker, published, evidence, WorkerOnly>>
    \/ /\ pc[j] = "derive"
       /\ RecordAttempt(j, "confirm")
       /\ UNCHANGED <<task, lease, worker, published, WorkerOnly>>

(* A failure of the model under repair: recorded, then decided on. *)
StageNeedsRepair(j) ==
    /\ pc[j] \in Stage
    /\ RecordAttempt(j, "repair")
    /\ worker' = [worker EXCEPT ![j] = FailedIn(@, StagePhase[pc[j]])]
    /\ UNCHANGED <<task, lease, published, WorkerOnly>>

(* Any other failure of a stage, a refused move included. *)
StageThrows(j) ==
    /\ pc[j] \in Stage
    /\ RecordAttempt(j, "fail")
    /\ UNCHANGED <<task, lease, worker, published, WorkerOnly>>

(* The condition of the attempt loop. *)
LoopHead(w) == IF w.attempt <= MaxAutoIterations THEN "check" ELSE "spent"

(* decideRepair and what follows from it: back to CODE and on to the next  *)
(* round of the loop, or the task waits for the user.  Both moves compare  *)
(* and set the phase; one that is refused or fails throws.  A loop that is *)
(* left without a result throws too ("spent", see StepThrows).             *)
Repair(j) ==
    LET t == j[1]
        from == worker[j].from
        retry == RetryAllowed(worker[j].attempt, MaxAutoIterations)
        stay == retry /\ from = "CODE"
        to == IF retry THEN "CODE" ELSE "NEEDS_USER"
        next == IF retry THEN NextAttempt(worker[j]) ELSE worker[j]
    IN
    /\ pc[j] = "repair"
    /\ \/ /\ stay \/ MayTransition(t, from, to)
          /\ task' = IF stay THEN task ELSE Transitioned(t, to)
          /\ worker' = [worker EXCEPT ![j] = next]
          /\ pc' = [pc EXCEPT ![j] = IF retry THEN LoopHead(next) ELSE "release"]
       \/ /\ ~stay
          /\ pc' = [pc EXCEPT ![j] = "fail"]
          /\ UNCHANGED <<task, worker>>
    /\ UNCHANGED <<lease, published, evidence, WorkerOnly>>

(* The last look at the abort flag before publication. *)
Confirm(j) ==
    /\ pc[j] = "confirm"
    /\ pc' = [pc EXCEPT ![j] = IF TaskAborted(j[1]) THEN "cancel" ELSE "publish"]
    /\ UNCHANGED <<task, lease, worker, published, evidence, WorkerOnly>>

(* publishRevision commits; the freeze that follows the commit may throw.  *)
(* The first form takes a failed freeze for a publication to be repeated.  *)
PublishAgain(j) ==
    /\ pc[j] = "commit"
    /\ published' = [published EXCEPT ![j[1]] = @ + 1]
    /\ pc' \in {[pc EXCEPT ![j] = step] : step \in {"package", "commit"}}
    /\ UNCHANGED <<task, lease, worker, evidence, WorkerOnly>>
PublishRevision(j) ==
    /\ pc[j] = "commit"
    /\ published' = [published EXCEPT ![j[1]] = @ + 1]
    /\ pc' \in {[pc EXCEPT ![j] = step] : step \in {"package", "fail"}}
    /\ UNCHANGED <<task, lease, worker, evidence, WorkerOnly>>

(* The question to the user, or the closing message with its events and    *)
(* conversation status.                                                    *)
Announce(j) ==
    /\ pc[j] = "announce"
    /\ pc' = [pc EXCEPT ![j] = "release"]
    /\ UNCHANGED <<task, lease, worker, published, evidence, WorkerOnly>>

(* failTask: TaskAbortedError closes the task as ABORTED and keeps its     *)
(* phase, anything else overwrites status and phase with FAILED.           *)
FailTask(j) ==
    LET t == j[1] IN
    /\ \/ /\ pc[j] = "cancel"
          /\ task' = [task EXCEPT ![t] = Cancelled(@, "ABORTED")]
       \/ /\ pc[j] = "fail"
          /\ task' = Transitioned(t, "FAILED")
    /\ pc' = [pc EXCEPT ![j] = "release"]
    /\ UNCHANGED <<lease, worker, published, evidence, WorkerOnly>>

(* finally: compare-and-delete on the token, which is the task id. *)
Release(j) ==
    /\ pc[j] = "release"
    /\ lease' = Released(j[1])
    /\ pc' = [pc EXCEPT ![j] = "ack"]
    /\ UNCHANGED <<task, worker, published, evidence, WorkerOnly>>

(* BullMQ marks the job completed; its id stays known. *)
Acknowledge(j) ==
    /\ pc[j] = "ack"
    /\ pc' = [pc EXCEPT ![j] = "completed"]
    /\ UNCHANGED <<task, lease, worker, published, evidence, WorkerOnly>>

-----------------------------------------------------------------------------
(* The worker process dies with the job active.  BullMQ finds the job      *)
(* stalled and delivers it again, MaxStalledCount times at most.           *)
Crash(j) ==
    /\ pc[j] \in Active
    /\ crashes < MaxCrashes
    /\ crashes' = crashes + 1
    /\ worker' = [worker EXCEPT ![j] = Stalled(@)]
    /\ pc' = [pc EXCEPT ![j] =
                IF Stalled(worker[j]).stalls <= MaxStalledCount THEN "waiting" ELSE "dead"]
    /\ UNCHANGED <<task, keys, lease, post, abort, published, evidence, lapses>>

(* The lease reaches the end of its ten minutes: nothing extends it while  *)
(* a worker is busy, and nothing deletes it for a job that was dropped.    *)
LeaseLapses ==
    /\ lease # None
    /\ lapses < MaxLapses
    /\ lapses' = lapses + 1
    /\ lease' = None
    /\ UNCHANGED <<task, keys, pc, worker, post, abort,
                   published, evidence, crashes>>

HandlePost(r) ==
    \/ PostReplay(r) \/ PostFindWaiting(r) \/ PostFindActive(r) \/ PostAcquire(r)
    \/ PostReject(r) \/ PostCommit(r) \/ ResumeAcquire(r) \/ ResumeCommit(r)
    \/ PostTxFails(r) \/ PostEnqueue(r)

HandleAbort(a) == AbortFind(a) \/ AbortMark(a)

Work(j) ==
    \/ Deliver(j) \/ TakeLease(j) \/ LeaseBusy(j) \/ Move(j) \/ StepThrows(j)
    \/ CheckActive(j) \/ BeginAttempt(j) \/ StagePasses(j) \/ StageNeedsRepair(j)
    \/ StageThrows(j) \/ Repair(j) \/ Confirm(j) \/ PublishRevision(j)
    \/ Announce(j) \/ FailTask(j) \/ Release(j) \/ Acknowledge(j)

Next ==
    \/ \E r \in Request : HandlePost(r) \/ PostLost(r)
    \/ \E a \in Abort : HandleAbort(a)
    \/ \E j \in Job : Work(j) \/ Crash(j)
    \/ LeaseLapses

Spec == Init /\ [][Next]_vars

(* A job that BullMQ holds is worked on.  Nothing is asked of users, of the *)
(* handlers, of crashes or of the lease's expiry.                           *)
Fairness == \A j \in Job : WF_vars(Work(j))

FairSpec == Spec /\ Fairness

-----------------------------------------------------------------------------
TaskRow ==
    [createdAt : Nat, status : Status, phase : Phase, aborted : BOOLEAN,
     iterations : Run, complete : BOOLEAN, mode : {"AUTO", "PLAN"}]
WorkerState ==
    [tries : Nat, stalls : Nat, attempt : Nat, offset : Run,
     complete : BOOLEAN, from : Phase]
PostState ==
    [step : PostStep, task : Task \cup {None}, run : Run, key : Key]
AbortState ==
    [step : {"new", "mark", "marked", "done"}, task : Task \cup {None}, seen : Run]

TypeOK ==
    /\ task \in [Task -> TaskRow]
    /\ keys \subseteq Key
    /\ lease \in Task \cup {None}
    /\ pc \in [Job -> JobState]
    /\ worker \in [Job -> WorkerState]
    /\ post \in [Request -> PostState]
    /\ abort \in [Abort -> AbortState]
    /\ published \in [Task -> Nat]
    /\ evidence \in [Task -> SUBSET Nat]
    /\ crashes \in Nat /\ lapses \in Nat

(* No lease has run out under its holder and no process has stopped. *)
Undisturbed == crashes = 0 /\ lapses = 0

(* Those who may write to the conversation: a handler between its acquire  *)
(* and its enqueue, and a job from its enqueue until it gives the lease up. *)
HandlerHolds(r) == post[r].step \in {"commit", "recommit", "enqueue"}
JobHolds(j) == pc[j] \in Critical \cup {"waiting", "lease"}

(* Without crashes and lapses the lease serialises the writers of a        *)
(* conversation: whoever may write holds the lease, and nobody else may.   *)
SingleWriter ==
    Undisturbed =>
        /\ \A r \in Request : HandlerHolds(r) =>
              /\ lease = post[r].task
              /\ \A s \in Request : HandlerHolds(s) => s = r
              /\ \A j \in Job : ~JobHolds(j)
        /\ \A j \in Job : JobHolds(j) =>
              /\ lease = j[1]
              /\ \A k \in Job : JobHolds(k) => k = j

(* Then no two tasks of the conversation are ever open side by side.       *)
OneOpenTask ==
    Undisturbed => \A t \in Having({"QUEUED", "RUNNING"}) : lease = t

(* One at a time: one writer to the conversation and one open task, and    *)
(* both are the lease's.                                                   *)
OneAtATime == SingleWriter /\ OneOpenTask

(* A lease nobody works under belongs to a task that was queued in vain or *)
(* aborted while it waited for its worker: a task that has finished, or    *)
(* waits for the user, never keeps the conversation locked.                *)
LeaseLeak ==
    Undisturbed => \A t \in Task :
        \/ lease # t \/ task[t].status \in {"QUEUED", "ABORTING"}
        \/ \E r \in Request : HandlerHolds(r)
        \/ \E j \in Job : JobHolds(j)

(* Status and phase are written by five handlers, and never disagree: a    *)
(* QUEUED task is at the start, an aborted one carries its abortedAt, and  *)
(* every other status is the one its phase stands for.                     *)
RowAgrees(row) ==
    \/ row.status = "QUEUED" /\ row.phase = "DOMAIN_GUARD"
    \/ row.status \in {"ABORTING", "ABORTED"} /\ row.aborted
    \/ row.status = statusForPhase(row.phase)
StatusAgrees == \A t \in Task : RowAgrees(task[t])

(* While no process has crashed, a task commits at most one revision, even *)
(* if leases run out under their holders and resumptions race.             *)
NoDuplicateRevision == \A t \in Task : published[t] <= 1
PublishedOnce == crashes = 0 => NoDuplicateRevision

(* Nor is an attempt number used twice, within a run or across the         *)
(* resumptions of a task: the attempt under way has no record yet.         *)
AttemptNumbersFresh ==
    crashes = 0 => \A j \in Job :
        pc[j] \in Stage => Iteration(j) \notin evidence[j[1]]

(* The attempt loop is never left without a result and without a question  *)
(* (its throw, "ended without a result"), and the user is asked for help   *)
(* only by a run that has used its whole budget of attempts.  After a      *)
(* crash a stalled job may run beside the one that resumed its task, and   *)
(* the second half is lost.                                                *)
RepairBudget ==
    \A j \in Job :
        /\ pc[j] # "spent"
        /\ crashes = 0 /\ pc[j] \in Critical /\ task[j[1]].status = "NEEDS_USER"
              => worker[j].attempt = MaxAutoIterations

(* An abort stops the attempts of its task even though the worker's next   *)
(* move overwrites ABORTING: at most the attempt already let through the   *)
(* check is counted afterwards, also when the task is resumed later.       *)
AbortBoundsAttempts ==
    \A a \in Abort :
        abort[a].step = "marked" /\ Undisturbed =>
            task[abort[a].task].iterations <= abort[a].seen + 1

-----------------------------------------------------------------------------
Live(j) == pc[j] \in Active \cup {"waiting"}

(* A job's way to its end: the deliveries it may still have, the attempts  *)
(* left in this one, and the steps left in this attempt.                   *)
DeliveriesLeft(j) == JobAttempts + MaxStalledCount + 1 - worker[j].tries - worker[j].stalls
AttemptsLeft(j) ==
    IF pc[j] = "waiting" THEN MaxAutoIterations ELSE MaxAutoIterations - worker[j].attempt
StepsLeft ==
    [waiting |-> 28, lease |-> 27, analyze |-> 26, clarify |-> 25, retrieve |-> 24,
     plan |-> 23, answer |-> 22, code |-> 21, check |-> 20, count |-> 19, generate |-> 18,
     execute |-> 17, validate |-> 16, derive |-> 15, repair |-> 14, confirm |-> 13,
     publish |-> 12, commit |-> 11, package |-> 10, candidate |-> 9, complete |-> 8,
     announce |-> 7, spent |-> 6, cancel |-> 5, fail |-> 4, release |-> 3, ack |-> 2,
     completed |-> 1, dead |-> 0]

(* No job goes on for ever: whatever it meets, each of its steps, a crash  *)
(* included, brings it nearer its end.  A busy lease or a stall costs one  *)
(* of its deliveries, a repair one of the attempts of this delivery, and   *)
(* neither runs below zero.                                                *)
Nearer(j) ==
    /\ 0 <= DeliveriesLeft(j)' /\ 0 <= AttemptsLeft(j)'
    /\ \/ DeliveriesLeft(j)' < DeliveriesLeft(j)
       \/ /\ DeliveriesLeft(j)' = DeliveriesLeft(j)
          /\ \/ AttemptsLeft(j)' < AttemptsLeft(j)
             \/ /\ AttemptsLeft(j)' = AttemptsLeft(j)
                /\ StepsLeft[pc'[j]] < StepsLeft[pc[j]]
Moves(j) == pc[j] # "absent" /\ (pc'[j] # pc[j] \/ worker'[j] # worker[j])
JobsWindDown == [][\A j \in Job : Moves(j) => Nearer(j)]_vars

(* An open task whose job is still to be worked on does not stay QUEUED or *)
(* RUNNING: it ends, is aborted or waits for the user, unless a lease ran  *)
(* out or a process stopped.                                               *)
Open(t) == task[t].status \in {"QUEUED", "RUNNING"}
TaskSettles ==
    \A t \in Task :
        Open(t) /\ (\E n \in Run : JobHolds(<<t, n>>))
            ~> ~Open(t) \/ ~Undisturbed

=============================================================================
