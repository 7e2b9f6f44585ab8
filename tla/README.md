# TLA+ models of CADIR-Agent

CADIR-Agent turns a conversation into CAD models: a web page posts messages, an API stores them and
queues tasks, a worker lets an agent write a program, a Runner executes it, and what passes
validation is published as an immutable revision. This directory holds TLA+ modules of that system,
TLC configurations that check them on small instances, and TLAPS proofs of what holds on every
instance. Paths below are relative to the repository; `PROJECT.json` maps every definition to the
lines it models.

    tlc -workers 2 -config workflow_faults.cfg MCTaskWorkflow      # one run
    tlapm TaskWorkflowProofs.tla                                   # one module's proofs

## 1. The system

| Component | State it keeps | Operations | Hard behaviour |
|---|---|---|---|
| Task phase table, repair policy (`domain/task-state.ts`, `services/repair-policy.ts`) | none | allowed successors, status of a phase, retry or ask the user | a limit counted in two places |
| Messages and abort routes (`routes/messages.ts`) | Task and Message rows | submit, replay by idempotency key, resume, reject, abort | several awaits between a check and the write that relies on it |
| Write lease (`services/task-lock.ts`) | one Redis key per conversation, ten minutes | acquire, renew, release by token | expires under a busy holder |
| Queue (`services/task-queue.ts`, BullMQ) | jobs `${taskId}-${run}`, kept for 1 to 30 days | add, deliver, retry, stall, dead letter | a stable id makes `add` a no-op |
| Task worker (`services/task-worker.ts`) | Task row, working copy, sessions | phases, attempt loop, repair, publication, failure | crashes, aborts, retries, sixteen uploads beside a transaction |
| Revisions and workspace tree (`services/workspaces.ts`, `publishRevision`) | `model_revisions`, objects, directories | number, store, commit, freeze | three stores without a common transaction |
| Conversations, uploads, cleanup (`routes/conversations.ts`, `routes/uploads.ts`, `services/conversation-cleanup.ts`) | rows, directories, sessions, objects | create, patch, upload, delete | check-then-act, partial failure, deletion under way |
| Events and SSE (`services/events.ts`, `routes/events.ts`) | `domain_events`, a cursor per connection | insert in a transaction, poll, reconnect | ids are given before they are visible |
| Cases (`routes/case-candidates.ts`, `routes/model-cases.ts`) | candidates, consents, cases, reviews, public objects | submit, approve, reject | overlapping decisions, object copies inside a transaction |
| Internal tools, Runner (`routes/opencode-internal.ts`, `services/runner`) | files of the working copy | write, execute, inspect, derive | two clients on one directory, stale files |
| Web page (`apps/web/src/App.tsx`) | active conversation, timeline, running mark, EventSource | send, stop, switch, delete, handle an event | answers and events in any order |
| Requirement snapshot, domain guard (`services/requirement-snapshot.ts`, `services/domain-guard.ts`) | the snapshot of a Task row | classify a request, extract from the joined messages, merge | overlapping answers merge into snapshots of different age; the first match wins |
| Topology and selections (`services/runner/.../derive.py`, `services/topology.ts`, `routes/revisions.ts`) | maps of revisions, Selection rows | derive, check, inspect, resolve in another revision | indices over parts that are left out, several entities that match |
| Model configurations (`routes/model-configs.ts`, `components/SettingsDialog.tsx`) | one row per provider account with base URL, key and default mark; the list and the form of the page | list, create, update, make default, delete, load models | the mark moves in several statements under a unique index; a form or a read older than the row |
| Authentication (`routes/auth.ts`, `plugins/auth.ts`, `components/AuthScreen.tsx`) | users, sessions, the browser's cookie | bootstrap, login, refresh, logout, check of a session | count-then-create, two uses of one cookie at once |

How they meet. A POST takes the lease of its conversation, commits a task and adds a job; the worker
renews the same lease, drives the task through the phases by compare-and-set on the phase column, and
gives the lease up in a `finally`. Both write domain events in their transactions, which every open
SSE connection polls by id. An abort only writes rows and closes the agent's session: the worker sees
it at the next check. A deletion writes rows, then removes objects and directories whatever a worker
is doing. The agent reaches the working copy through HTTP while the worker waits for its prompt.

What must be right, in one line each: one writer per conversation; a task's status and phase agree;
no task is published twice; revisions are numbered without gaps and never change; what is listed is
stored; the directory a revision starts from is complete; an event is neither skipped nor repeated;
one case per approval, made of what was approved; what is published is what was validated; nothing a
user says is lost and nothing is built that was not said; a selected entity is not taken for another;
whoever has a provider has a default one, with the key that goes with its address; there is one
administrator, and a session is handed over to one other;
the page does not show a finished task as running, or an old timeline as the current one.

## 2. Modules

| Module | Models | Composition |
|---|---|---|
| `TaskPhases` | the phase table and the retry decision | used by `TaskWorkflow` |
| `TaskWorkflow` | handlers, lease, queue and worker of one conversation | core |
| `RevisionHistory` | abstract: an append-only history and its current entry | |
| `RevisionPublication` | runs publishing into a conversation that may be deleted | implements `RevisionHistory` |
| `ModelBuild` | the files of one working copy, agent against worker | |
| `EventStream` | event ids, visibility, polls, connections | |
| `CaseReview` | submission, approval, rejection | |
| `ConversationStorage` | creation, uploads and deletion across four stores | |
| `Workbench` | the page against its server | |
| `RequirementSnapshot` | the guard and the extraction, as operators on phrases | used by `DesignDialogue` |
| `Topology` | deriving, checking and searching a map, as operators on solids | used by `DesignDialogue` |
| `ModelConfigs` | requests on a user's configurations, statement by statement | used by `Account` |
| `Sessions` | bootstrap and sessions | used by `Account` |
| `Account` | the page of one user: sign-in, settings, page load | composes `ModelConfigs` and `Sessions` |
| `DesignDialogue` | what a conversation knows of the design: words, snapshots, revisions, selections | composes `RequirementSnapshot` and `Topology` |
| `MC*` | symmetry sets for TLC | extend their module |
| `*Claims` | statements of docs and comments the code does not keep | extend their module |
| `*Proofs` | theorems about the module they are named after (section 5); `DeliveryProofs` about `EventStream` and `Workbench` | extend their modules |

A step is what happens between two awaits that touch shared state: one transaction, one Redis
command, one call to the agent, the Runner or the object store. The modules share their boundaries:
`TaskWorkflow` has the phases and the lease and treats the inside of an attempt and of publication as
outcomes; `RevisionPublication` starts where a run has the lease (or had it) and takes publication
apart; `ModelBuild` takes the attempt apart; `DesignDialogue` has the data the handlers of
`TaskWorkflow` pass on and reduces those handlers to the steps that read or write it.

### TaskWorkflow

`task` is the Task rows of one conversation (status, phase, whether `abortedAt` is set, iteration
count, mode); `keys` the stored idempotency keys; `lease` the token in Redis; `pc` and `worker` a job
per `<<task, run>>` with its BullMQ state, the next step of `process()`, its locals and its retry and
stall counters; `post` and `abort` the requests under way.

- `PostReplay`, `PostFindWaiting`, `PostFindActive`, `PostAcquire`, `PostCommit`/`PostReject`,
  `PostEnqueue`: the three look-ups, the lease, the transaction and the queue of `POST /messages`.
  `ResumeAcquire`, `ResumeCommit` are the branch for a waiting task, `PostTxFails` the catch,
  `PostLost` a process that dies in between.
- `AbortFind`, `AbortMark`: the abort, which writes by id what it read before.
- `Deliver`, `TakeLease`/`LeaseBusy`: the head of `process()`, with its early return for a task that
  is not QUEUED and the throw on a busy lease.
- `Move` is every phase move outside an attempt (`PhaseStep`, `Following`); `CheckActive`,
  `BeginAttempt`, `StagePasses`, `StageNeedsRepair`, `StageThrows`, `Repair`, `Confirm`,
  `PublishRevision`, `Announce`, `FailTask`, `Release` the attempt loop and what surrounds it;
  `LoopHead` is the loop's own condition (`services/task-worker.ts:167`), which `Repair` comes back to
  and which leads to the throw behind the loop (`pc` is "spent", line 289) when it does not hold;
  `RecordAttempt`, which several of them call, writes the evidence of an attempt and fails on a
  number that has some.
- `Acknowledge`, `Crash`, `LeaseLapses`: BullMQ's completion, retry and stall handling, and expiry.

Abstractions: agent, Runner and validator calls succeed, ask for repair or throw; text analysis
(domain guard, requirement snapshot) is a choice of outcome here and `DesignDialogue`'s subject;
renew-then-acquire is one step;
`failTask`'s own transaction and the first read of `process()` succeed unless the process dies; a
throw of the resume branch outside its catch, which keeps the lease, counts as `PostLost`; the
conversation's own status is left to `RevisionPublication`.

### RevisionPublication, RevisionHistory

A worker is one run and the revision it mints. `Start`..`Abandon` bring it to publication; `ReadFiles`,
`ReadNumber`, `PutObjects`, `Commit`/`CommitFails`, `FreezeCopy`, `FreezeSeal`, `Undo` are
`publishRevision` in order, including that the puts are before its `try` and the freeze is inside it. A
run asks for its own task, never for the conversation: `Start` may follow a deletion, and `Confirm`
gives up only when a deletion has aborted the task (`aborted`); `Convert` and `ListScript` are
`convertFreeCad`, for a task that asks for a script: the object is put beside the others (`scripts`)
and listed in a row of its own (`converted`), and every failure on the way is caught. `Finish` is what
the run leaves on the conversation. `MarkDeleted`..`Tombstone` are DELETE and the cleanup, which
removes the objects, the scripts it has listed and the workspace. The sixteen puts are one step with
partial outcomes, the removal of the workspace is one step. `AppendOnly` maps the rows, ordered by
number, to `RevisionHistory`.

### ModelBuild

A file is known by the source it was made from. `CallWrite`..`AgentRunEnds` are the agent's tools,
`Execute`..`Record` the worker's attempt, `Repair`, `Throw`, `Resume` what follows a failed one,
`Publish`, `Freeze` the reading and the copying of the directory. The agent uses one tool at a time
and only during its prompt; a tool call can outlive the prompt only when its session is aborted, by
this task's abort or by one meant for the task before (`cuts`, `routes/messages.ts:301`). `Resume`
replaces what the models are checked against, as the answer replaces the snapshot. The policy
check of the source and the geometry kernel are choices.

### EventStream

`InsertEvent` takes an id, `CommitEvents`/`RollbackEvents` make it visible or a gap, `Connect`, `Poll`,
`WriteEvent` are the route's loop, `Receive` the page. `Refuse` is an error answer to the EventSource,
which ends it; `PollFails` a poll that rejects after the response was hijacked, which leaves it open
and silent until `ProxyTimeout`, nginx's minute without a byte; `Drop` and `Reopen` are the other ways
a connection ends. `response` tells these apart.

### CaseReview

One action per await of the three routes. The unique indexes on the consent and on the case are
guards; an approval's insert waits for an uncommitted row of the same candidate. A failing approval
keeps the public copies it has made.

### ConversationStorage

Requests named `r` step through the handlers: `CreateWorkspace`, `CreateSession`, `InsertConversation`,
and in the catches `RemoveWorkspace`, `RemoveSession`; `FindToPatch`, `Patch`; `FindToUpload`,
`CountQuota`, `PutUpload`, `CreateUpload`; `FindUpload`, `EraseObject`, `MarkUpload`; `FindToDelete`,
`FlagDeleted`, `DeleteSession`, `ListUploads`, `Clean`, `Tombstone`. The call that makes a session and
the commit that makes the row may fail for their caller and take effect all the same (`unanswered`). A
worker is one more writer of a workspace: `FindToAsk`, `CreateTask` open a task, `CheckTask` is
`process()` and `assertTaskActive`, which see only the task's own abort, `WriteBelow` anything it
writes under the workspace with a recursive `mkdir`, which may make the directory again after a cleanup
(`remade`). `Stops` is an uncaught error or the end of the process. Every file has the size of one unit
of the quota. The cleanup's parallel deletes are one step with partial outcomes. Other writers of the
conversation's status are left out.

### DesignDialogue, RequirementSnapshot, Topology

A message is its words, whether a FreeCAD file is wished for, and its references, which stand for
selections, attachments and a parent revision. Words are sequences of phrases; a phrase is something
the code's patterns match: a size under one of its wordings, `L x W x T`, a part, a feature with or
without a negation, a unit, a verb of change, a forbidden intent. `NamedBy` says which patterns match a
wording, since that of `diameter` also matches inside others. A solid is two sequences of faces and
edges, each with its tags, geometry, measure (in millionths) and what it is drawn with. A request looks
for a waiting task and keeps the snapshot that task has then (`FindWaiting`); a new task is created in
one step (`Create`); an answer takes the lease (`Acquire`), joins the messages (`ReadMessages`,
`ReadFails`), and commits with the snapshot it read first as the base of the merge (`Merged`, `Answer`,
`AnswerFails`): references are the answer's alone, and the FreeCAD wish is the answer's or the one in
the task's column, which no answer writes (`routes/messages.ts:110-113`,
`services/requirement-snapshot.ts:108-111`). `Start`, `Ask`, `Build`, `GivesUp`, `Fails` are what a
worker does with the snapshot, `Inspect` stores a selection; `Resolution` is the answer of
`selection/resolve`, a read. Left out: jobs, aborts, crashes and lapses (`TaskWorkflow`), and whether a
queued job arrives at all; constraints and the number of solids, which are the same in every snapshot;
adjacency and the geometry of an entity.

In `RevisionPublication`, `Listed` and `Readable` are what the listing and the viewer of revisions
read, in `CaseReview` `Published` and `Readable` are the routes of model cases.

### Workbench

`HandleEvent`, `LoadMessages`/`Serve`/`Arrive`/`LoadFails`, `Send` with `Answered`/`Refused`/
`AnswerLost`, `Stop`, `SelectConversation`, `NewConversation`, `DeleteConversation`, `Reload` are the
callbacks of `App.tsx`; `events`, `stored`, `open`, `TaskAdvances`, `TaskEnds`, `Accept` are what the
server shows of `TaskWorkflow`: events and messages. Left out: login and the failure of the initial
requests, conversations kept only in the page (`local-`), renaming and archiving (labels), pages of
more than 100 messages. React's render is atomic with the callback that causes it.

### ModelConfigs, Sessions, Account

`ModelConfigs`: `rows` is what is committed; `tx` what each request has read, decided and written but
not committed: `wrote` names the rows it has written and holds, and `Seen` is the table as its own
transaction sees it. `CountRows`, `Clear`/`ClearRow`, `Create` are POST; `ReadExisting`,
`Clear`/`ClearRow`, `Update` PATCH, which may also take the mark away (`unset`); `ReadExisting`,
`Delete`, `FindReplacement`, `Promote` DELETE. PostgreSQL is external and modelled at READ COMMITTED,
which is what the code leaves it at: a statement takes the committed rows of its moment, `Needs` is
what it must lock (the rows it writes, and the rows whose entry in the index of defaults it runs into),
it waits while another transaction has one of them, meets the row as committed afterwards, and `GiveUp`
is a deadlock or Prisma's five seconds. `GatewayProvider` is the choice the model gateway makes from
the rows (`routes/opencode-internal.ts:194-197`).

`Sessions`: `TakeLock`, `CountUsers`, `CreateAdministrator` are the bootstrap, `VerifyPassword` the
login with the right password, `Authenticate` the check of the cookie that comes with refresh and
logout, `CreateSession` and `EndSession` the transactions behind them. A session is the number of its
creation and stands for both cookies, which are set and cleared by the same answer.

`Account`: the page. `OpenPage`, `ReadConfigs`, `ConfigsAnswer`, `ConfigsFail` load it, `SignIn`,
`SignOut`, `AuthAnswer`, `LoseAuthAnswer` are AuthScreen and the sign-out, `RefreshSession`,
`BootstrapElsewhere` and `UnsetDefault` (PATCH with `isDefault: false`) calls the page does not make and
the API accepts; `AddProvider`, `SaveProvider`,
`MakeDefault`, `DeleteProvider` send a change, `Answer` and `LoseAnswer` are its continuation,
`EditProvider`, `CancelEdit`, `LoadModels`, `ModelsAnswer`, `CloseSettings` the form. `PressReload` is
the browser. An account at a provider is one value that stands for its base URL and for its key, so
that a row with the two apart is visible. The user of the model enters a new base URL together with
its key. Left out: expiry of sessions, wrong passwords, rate limits, audit rows, provider and model
names, the test of a provider, two Models lists at once, and the offline mode of a page that cannot
reach the server.

History variables record what excuses a property: `clashes` (a deletion that was worked on beside
another change, rows with two overlapping updates, a default taken away by name), `doubt` (why the list
of the page may be wrong, rows saved from a form with an old address), `signing.raced` (sessions two
requests were let in with at once). Each excuse is needed: without it TLC shows the loss listed in
section 4.

## 3. Runs

Passing runs, with their bounds. Every action and every disjunct of every next-state relation fires.

| Run | Instance | Shows |
|---|---|---|
| `workflow_faults` | 2 tasks, 2 requests, 1 abort, 1 crash, 1 lapse, 1 attempt | who writes, what the lease says, status against phase, how busy leases and stalls use up deliveries, with faults |
| `workflow_resume` | 1 task, 3 requests, 5 run numbers, 1 abort, 1 lapse, 2 attempts | resumption: one revision, fresh attempt numbers, the repair budget against the bound of the loop, the end of every job, the reach of an abort |
| `workflow_settles` | 1 task, 2 requests, 1 abort, 2 attempts, under fairness | open tasks settle |
| `publication` | 3 runs, 1 overlap, 1 crash, 1 refused operation, a deletion | numbering, freezing, storage (the FreeCAD script too), refinement of `RevisionHistory` |
| `events` | 5 events, batches of 2, 2 drops, refusals or failed polls, 1 reopening, under fairness | no gap, no repeat, delivery |
| `case_review` | 2 revisions, 2 submissions, 2 approvals, 1 rejection | consent, one case, complete public copies, decisions stand |
| `model_build` | 2 sources, 2 attempts, 1 resumption, 1 cut | what is published was validated, recorded and frozen |
| `storage` | 5 requests, 2 conversations, quota of 1, 1 failure or lost answer | four stores stay in step, a worker that builds meanwhile included |
| `workbench` | 2 conversations, 2 messages, 4 events, 1 failure | the page at rest |
| `design_dialogue` | 2 tasks, 3 requests, 6 messages, 3 solids, 1 selection | answers are merged whole, models are built from what was said, picks and selections have one entity |
| `account` | 2 requests, 2 authentication requests, 2 accounts, 3 configurations, 3 sessions, 3 calls, 1 lost answer | the default, keys and addresses, the list of the page, administrators and sessions |

Why the bounds are enough. Two tasks and two requests are the smallest instance in which a lease can be
held by another task, three requests the smallest in which a task is asked about, resumed and resumed
again while one handler sleeps. `JobAttempts` and `MaxStalledCount` are 3 and 2 in the code and 2 and 1
here: a first retry and a first stall occur, and no guard tells a second one from it.
`TASK_MAX_AUTO_ITERATIONS` is 1 where attempts do not matter and 2 where the budget does; five run
numbers are then two runs that use it up, or three of which two are shorter. Three runs
and one overlap allow two that race for a number after a third has published, five events allow a poll
that is cut at its batch size twice, five requests a creation, two uploads, a deletion and one more. In
`design_dialogue` three requests allow a question and two answers to it that overlap; the messages
leave out a size, name one twice, mix units and take a feature back, and the solids keep, lose and
repeat tags, have faces of nearly the same area, one without triangles and an edge of one point: each
branch of extraction, derivation and resolution is taken by some of them. One crash, one lapse and one
refused operation reach every recovery path; more of them in one behaviour are left to the theorems of
section 5, which have no bound at all. In `account` two requests overlap in every pair of operations on
a table with none or two rows, so that the default may be the one deleted, the one left or the one
created; three calls allow two changes and what they are made from (an older load, a Models list, a
lost answer), or a refresh, a refresh or a logout beside it and a reload. The limit on calls counts the
page loads too.

Deadlock is not checked: each of these systems stops when the bounded requests are used up.

Liveness. `workflow_settles` assumes weak fairness of `Work(j)` for every job: BullMQ delivers what it
holds and Node runs a worker's continuation; every external call has a timeout, and a crash is the step
that replaces a worker that never returns. Nothing is assumed of handlers, users, crashes or the lease; a crash or a
lapse excuses `TaskSettles`, and none is in its run.
`events` assumes weak fairness of the route's loop, of the bytes on their way, of the proxy's timeout
(`nginx.conf`) and of the reconnecting EventSource, and nothing of transactions, of drops, refusals and
failed polls or of the page; these are bounded, which is the assumption that the network and the
database hold long enough once. An EventSource that was answered with an error is excepted by name.

That jobs end is no liveness property here: `JobsWindDown` says that every step of a job, a busy lease
and a crash included, makes (deliveries left, attempts left, steps left) smaller, and none of the
three runs below zero. It is checked where leases are busy and workers die (`workflow_faults`) and
where a run has a second attempt (`workflow_resume`), and proved for any bounds.

## 4. Properties and hazards

`PROJECT.json` lists the hazards with the lines where they bite; every property is there for some of
them, and each is broken by a mutation of the code's definitions (also listed). The conditions in the
properties are the honest part: `Undisturbed`, `crashes = 0`, `faults = 0`, `cuts = 0`, `~disordered`,
`~raced`, `clashes`, `doubt` and `signing` say in what circumstances the code keeps the promise, and
outside of them it does not.

One statement of the repository is refuted by a run of its own:

- `claim_queued_has_job`: a WAITING_USER task that the user answers is queued under the job id of its
  first run; BullMQ drops the add, the task stays QUEUED and keeps the lease
  (`routes/messages.ts:149`, `services/task-queue.ts:50-56`).

Further divergences, seen while modelling and kept out of the properties by the conditions above, or
stated by them as what the code does:

- The catch of `publishRevision` covers `freezeWorkingCopy` too, which runs after the commit
  (`services/task-worker.ts:629-641`): a file-system error there deletes the stored artifacts of a
  revision that stays SUCCEEDED and current, although
  `docs/configuration/NON_FUNCTIONAL_BASELINE.md:41` says that successful revisions are retained.
  `ListedIsStored` is claimed as long as no operation was refused.
- All messages of a task are joined and every pattern takes its first match
  (`routes/messages.ts:101-115`): a corrected size never takes effect, nor does a feature taken back
  in a later message, which the merge itself would honour (`requirement-snapshot.test.ts:66`), and an
  answer to "Please confirm one unit system before modeling" (`services/task-worker.ts:927`) leaves
  the units in conflict. The test is of the merge alone and passes; what the route and the merge do
  together contradicts what it and the question intend. No run asserts it as right or as wrong:
  `EveryWordCounts` only says that the snapshot is what all words give by these rules.
- An answer's references replace those of the messages before it, and its FreeCAD wish is in the
  snapshot only, while the next merge starts from the task's column: selections, attachments and parent
  of an earlier message, and the wish of an earlier answer, are lost at the next answer
  (`routes/messages.ts:110-113`, `services/requirement-snapshot.ts:108-111`).
- The read and the extraction between the lease and the transaction of an answer are outside the catch
  that gives the lease up; a failure there keeps it until it expires.
- An execution that exits with zero and writes nothing succeeds on artifacts left by the parent
  revision or an earlier attempt (`executor.py:62-80`).
- Events become visible at commit but carry the id of their insertion; the cursor can pass one that
  is not visible yet, and it is never sent (`routes/events.ts:62`, against `docs/contracts/README.md`).
- After a crash between commit and `add`, a resumption that read the task as waiting can make it run
  and publish again (`routes/messages.ts:129`, against `docs/adr/0003-data-storage-and-delivery.md:17`).
- Two workers may run beside each other once a lease has lapsed; only the unique index on the
  revision number keeps their publications apart.
- COMPLETED and FAILED are terminal in the table, and `failTask` writes over them; a late `Announce`
  failure turns a published task into a failed one.
- A task that is aborted after its last check is published all the same.
- A deletion misses revisions, FreeCAD scripts and uploads that are stored after its listing; nothing
  collects them. Nor does anything collect a script whose artifact row could not be written
  (`services/task-worker.ts:788`).
- A worker that has not noticed the deletion yet, or whose task was opened after it, makes the removed
  workspace again (`services/task-worker.ts:402-408` against the check at line 169): nothing removes
  that directory. `DeletedIsClean` excepts it by name.
- The call that creates a session has a timeout and parses the answer
  (`packages/opencode-cadir/src/client.ts:84-92,147`): when it fails after its effect, the session stays,
  since the catch removes only the workspace (`routes/conversations.ts:28-31`). After a commit whose
  acknowledgement is lost the other catch takes directory and session from a conversation that is
  there. `WholeOrGone` excepts both by name.
- A workspace that is made half-way, the objects put before a put that fails
  (`services/task-worker.ts:572`, before the `try`) and the public copies of an approval that is rolled
  back stay.
- Two uploads counted at once overshoot the quota (`routes/uploads.ts:32-36`).
- An approval and a rejection that overlap overwrite each other's status
  (`routes/case-candidates.ts:102`).
- A poll that fails leaves the response open without a writer until nginx's 60 seconds are over
  (`routes/events.ts:60-72`), and an error answer closes the EventSource for good.
- A task that is aborted while it is queued stays ABORTING, and its lease waits for the ten minutes;
  the task of a job that became a dead letter stays QUEUED (`services/task-worker.ts:82-86`).
- A second delivery after a crash can meet the evidence of its own attempt number.
- A worker that dies behind the last move of a run leaves a stalled job. When the user has answered by
  the time BullMQ delivers it again, the task is QUEUED and the job runs beside the one of the answer:
  the lease's token is the task id, so `renew` lets both in (`services/task-worker.ts:82-86`).
  `PublishedOnce`, `AttemptNumbersFresh` and the second part of `RepairBudget` are claimed without
  crashes.
- A page that opens a new EventSource receives all events again and applies them to its state.
- A page of messages requested before a send removes the optimistic message when it arrives, and a
  task that fails or asks the user does not load the messages again (`App.tsx:211-221`).
- PATCH can write IDLE or ARCHIVED over DELETING (`routes/conversations.ts:107`).
- A DELETE that read a row before it became the default removes it without a replacement, and the
  gateway falls back to the oldest configuration (`routes/model-configs.ts:133-139`).
- PATCH with `isDefault: false` is accepted (`routes/model-configs.ts:16`) and written (line 109): sent
  for the default it leaves the user without one, and the gateway falls back to the oldest
  configuration. The page never sends it. `DefaultKept` excepts it by name.
- Every PATCH writes a base URL (`routes/model-configs.ts:92-107`). Two overlapping updates of a row,
  or a form that shows an old row (after a lost answer, or filled by a Models list with the row as it
  was when the button was pressed, `SettingsDialog.tsx:151-160`) put an old address beside a new key.
- Overlapping changes of configurations can end in an internal error: neither the unique index of
  defaults nor a row deleted in between is caught (`routes/model-configs.ts`).
- The page patches its list with each answer (`App.tsx:513-527`): after answers that cross, a lost
  answer, or a list that arrives after a change it does not contain, it shows what is not stored, and
  after the deletion of the default it marks none, until it is loaded again.
- Two refreshes that are let in with one cookie leave two good sessions, and a logout beside a refresh
  leaves one (`routes/auth.ts:118-123`).

The hazards in `PROJECT.json` without a property are such divergences: `failTask` over COMPLETED, the
crash between commit and `add`, the second delivery after a crash, the task aborted in the queue, failing
puts and a failing freeze, the event that becomes visible late, the deletion that read an old default,
PATCH over a deletion, and words that cannot be taken back. Others have a property that excepts the case
by name, and their notes say so: a parent that is half copied, overlapping reviews, the quota under
concurrent uploads, a session that is used twice at once.

Outside the models:

- `nextCursor` of `GET /messages` is the newest message of the page, not the oldest
  (`routes/messages.ts:56`).
- `docs/configuration/NON_FUNCTIONAL_BASELINE.md:20` gives an upload quota of 2 GiB, the code 1 GiB.

## 5. Proofs

`TaskWorkflowProofs` proves, for all tasks, requests, runs, keys, aborts, attempts, crashes and lapses:

| Theorem | Says |
|---|---|
| `TypeCorrect` | `Spec => []TypeOK` |
| `StatusAgreement` | `Spec => []StatusAgrees` |
| `MutualExclusion` | `Spec => []SingleWriter` |
| `OpenTaskHoldsLease` | `Spec => []OneOpenTask` |
| `OnlyOneAtATime` | `Spec => []OneAtATime`, the conjunction the run `workflow_faults` checks |
| `LeaseIsGivenUp` | `Spec => []LeaseLeak` |
| `RevisionCommittedOnce` | `Spec => []PublishedOnce` |
| `AttemptsNumberedOnce` | `Spec => []AttemptNumbersFresh` |
| `BudgetIsUsedUp` | `Spec => []RepairBudget` |
| `JobsAreBounded` | `Spec => JobsWindDown` |
| `AbortStopsAttempts` | `Spec => []AbortBoundsAttempts` |

Assumptions: `WorkflowConstants` only (run numbers are naturals with 0 among them, `Task` is finite,
limits are naturals; `None` is not a task). The argument:

- `TypeInv` strengthens `TypeOK` by `Targets`: a request past its first step names a task. Without it
  the writes to `task[post[r].task]` could not be typed.
- `StatusAgrees` is inductive over `TypeInv`: each kind of write (a move, a requeue, a cancellation, a
  count) is an operator on rows with a lemma of its own (`MovedRow`, `RequeuedRow`, ...), and
  `WritesAgree` puts them together.
- `SingleWriter` is inductive over `TypeInv`: `FreeLease` (a free lease has no holder) covers the two
  acquisitions, `LastHolder` the releases, `JobKeepsWriter` and `PostKeepsWriter` everything else.
- `OneOpenTask` and `LeaseLeak` are not inductive: both depend on what the task is like at the moment
  the lease changes hands. `LeaseInv` adds `Handover` (what a request is about to commit is new, what
  it is about to queue is QUEUED or aborting, what a worker is about to release is not open) and that
  every open task holds the lease; `Known` says that a request resumes a task that exists. Both
  properties follow (`LeaseInvImplies`).
- `RevisionCommittedOnce` to `BudgetIsUsedUp` and `AbortStopsAttempts` hold although leases lapse, so
  the lease cannot be their reason. It is the job ids:
  `RunInv` says that without crashes at most one job of a task is `Engaged`, that is, queued or at work
  and not at the end of a spent budget (`Sole`), and what the numbers of that job and the row have to do
  with each other at each step (`JobFits`, `RowFits`). A task that waits for the user has a job under
  its current number, so a resumption whose job id is unknown to BullMQ finds a task nobody else can
  move (`Fresh`) and the job it adds is the only engaged one. `JobStep` shows for any step of an
  engaged job that everybody else's part of `RunInv` stays; `RunWork`, `RunPost` and `RunAbort` go
  through the actions. `BudgetInv` bounds the attempts of a run at each of its steps
  (`Budgeted`), whatever happens to rows, leases and processes: whoever comes back to the loop's head
  finds its condition true, "spent" is never reached, and the branch of `Repair` that gives up is taken
  at the bound exactly. For it `WorkGoes` reduces every action of a worker to one of a few ways to move on
  (`Goes`).
- `JobsAreBounded` is the same reduction: each way to move on lowers the rank of the job (`GoesNearer`),
  and `JobSees` shows that nobody else touches it but to queue it.

The other modules are proved about in the same way: an inductive invariant, one step per action of
`Next`, and PTL at the end. `TypeOK` is proved of each of these modules, and so is `OneCandidate` of
`CaseReview`; neither is a property of a run. `WholeOrGone`, `RecordKept` and `OneAtATime` are the
conjunctions the runs check of two properties that are proved one by one.

| Module | Theorems | Properties | Assumptions |
|---|---|---|---|
| `RevisionPublicationProofs` | `TypeCorrect`, `RevisionsAreNumbered`, `DirectoriesAreOwned`, `ListedRevisionsAreStored`, `NoOrphans`, `ParentsAreFrozen`, `PublicationAppends` | all of the run `publication`, the refinement of `RevisionHistory` among them | `PublicationConstants`: finitely many workers |
| `ConversationStorageProofs` | `TypeCorrect`, `Complete`, `FailedCreationIsUndone`, `WholeOrNothing`, `UploadsAreStored`, `DeletionCleans`, `QuotaIsKept` | all of the run `storage` | `StorageConstants`: finitely many requests, `None` is no status |
| `CaseReviewProofs` | `TypeCorrect`, `CandidateIsUnique`, `CaseIsUnique`, `CaseIsApproved`, `DecisionsStand` | all of the run `case_review` | `HandlersAreApart` |
| `ModelBuildProofs` | `TypeCorrect`, `RevisionsAreValidated`, `RevisionsAreRecorded`, `FrozenAsPublished`, `RecordIsKept` | all of the run `model_build` | `BuildConstants` |
| `DeliveryProofs` | `StreamTypeCorrect`, `NothingIsSkipped`, `NothingIsRepeated` | all of the run `events` but its liveness | `StreamConstants` |
| | `TypeCorrect`, `MarkIsTrue`, `EndIsShown` | all of the run `workbench` | `WorkbenchConstants`: `None` is no conversation |
| `DesignDialogueProofs` | `TypeCorrect`, `NoAnswerLost`, `NothingIsGuessed`, `SelectionNotMistaken`, `EveryPickIsFound` | all of the run `design_dialogue` | `DialogueConstants`: finitely many tasks, `None` is no task, phrases name parts and units the patterns know, a solid has sequences of faces and edges |
| `AccountProofs` | `AccountTypeCorrect`, `TheDefaultIsKept`, `OneRequestIsNotRefused`, `KeysFitTheirUrls`, `ThePageShowsWhatIsStored`, `SetupMakesOne`, `SessionsAreHandedOver` | all of the run `account` | `ConfigAssumption`, `SessionAssumption`, `AccountAssumption`: bounds are naturals, `None` is no account, row or item, the two kinds of request are apart |

The inductive invariants, and why the properties need them:

- `NumberInv`: a number that a run has read is at most one above those committed, and a run that has
  not committed has no row. The cardinality of the committed runs is compared with their numbers, so
  each commit adds one to both (`CommitNumbers`) and every other action leaves both (`SameNumbers`).
- `FreezeInv`: a copied directory has a number and a run that is past the copy, so a second run never
  finds the number its own row has. `ObjectInv`: which steps still hold the working directory, and
  that objects are complete from the last put on; a script is stored from its put on, so before its row
  is written, and only for a committed revision. `ParentInv`: without lapses one run is under way,
  and a committed row is either its own or sealed.
- `PublicationAppends` shows that `Log` is a sequence (`LogIsSequence`), that `Commit` appends to it
  and moves the current entry with it (`CommitAppends`), and that every other action stutters.
- `StorageInv`: a name is used by the request that made it alone (`Alone`), and a creation has its
  directory and session from the step that made them (`Prepared`), until a catch takes them away.
  `QuotaInv` bounds what is counted while one upload is between count and row; `StoredInv`, `CleanInv`
  and `UndoneInv` say for each step of an upload, a deletion and an undo what is still there, and which
  failure it has met.
- `ReviewInv`: an approval that has inserted its case is the only one of its candidate to have done
  so. `TooLate` says what a request is after the decision, and is kept by every step.
- `BuildInv`: as long as no abort of another task has reached a prompt, the working copy is the
  worker's alone after the prompt (`Alone`), each step of the worker has established something about
  the files (`Established`), and an abort that comes after the last check changes nothing of it
  (`Published`).
- `StreamInv`: from the page over the wire and the cursor to the fetched rows ids ascend (`Ascending`),
  and no visible row is missing in between (`Gapless`), as long as rows become visible in order; a
  response without a loop keeps both, since nothing is written to it any more. A gap or a repeat would
  need one of the two to break first.
- `ViewInv`: a page that has caught up shows the mark of the latest event or of an answer that is
  awaited (`MarkIsLatest`), and after the end of a task it has either loaded the messages or is about
  to, from no page older than that end (`EndIsLoaded`).
- `Dialogue` = `TypeOK`, `Targets`, `Ownership`, `Words`. A snapshot is `Covered` by words if it holds
  nothing they are silent about; then extraction from those words gives the same whatever it is merged
  into (`Merge`), is covered again (`Own`), and stays so when words are added (`Grows`). `Words` keeps
  the snapshot of every task, and the older one of every request that answers, covered. That the words
  a request has joined are still the words of the task when it commits is `Ownership`: the one request
  past the lease keeps workers and other requests off that task. `BuiltAsSaid` then follows from
  reading the extraction backwards (`Extracted`), and `SurvivorIsNotMistaken` from `AmongThem`: one of
  several matches is never taken.
- `Base` of `Account` = `TypeOK`, `Sound`, `RowInv`, `PageIds`: what a transaction has read and written
  at each of its statements (`WellFormed`), that open transactions hold different rows (`Apart`), that
  the unique index leaves one default at most, and that the page knows only numbers that have been
  given. A lemma per statement (`ClearDoes`, `UpdateDoes`, ...) says what it does to the table,
  `StatementDoes` and `ConfigSteps` put them together, and each property needs only their digest:
  - `KeptInv`: as long as no deletion met another change, one that works is alone and its row is the
    one it read, and there is a default unless it was taken away by name; `AloneInv`: the same of any
    request that met no other, with what its clearing covers; so no index entry and no vanished row can
    refuse it.
  - `FitsInv`: outside of `Excused` rows, what an update without a key is about to write as the address
    is what the row holds.
  - `ListInv` for `ShownIsStored`: `PageInv` (while the list is not in doubt, whoever works on the table
    is awaited by the page), `SetInv` (what is stored and not shown, or the reverse, is in an answer on
    its way), and `SameInv` (as long as answers did not cross, at most one change is under way, and the
    list after its answer is the table).
- `OneInv`: between lock and row a bootstrap is alone and has counted nobody. `HandInv`: a session a
  request was let in with is good until that request's transaction, unless two were let in with it;
  `SuccessionInv` adds `HandedOver` itself, since a session ends by its own successor.
- `EveryPickHasOneEntity` is about a recursive function, the cursor of `derive.py`. That there is one is
  shown by the least place it could not reach (`CursorExists`), that it never goes back likewise
  (`CursorMoves`); so the ranges of two parts lie apart and the first cursor beyond a triangle names the
  part it belongs to (`RangesPartition`). Parts that are not drawn have empty ranges, which is why
  leaving them out of the map loses nothing.

Every invariant and action property of the passing runs is thus a theorem. Only model-checked: liveness
(`TaskSettles`, `Delivered`), which is out of the prover's reach, and the refuted
`QueuedTaskHasJob`. Proved of a model is not proved of the code: that a module says what its lines do,
and that PostgreSQL, Redis and BullMQ behave as section 2 has them, is read and not derived.

## 6. Not modelled, and why

The matching of text by the patterns is abstracted to phrases. Artifacts are a read of what
`ListedIsStored` speaks of; the comparison of checksums, health and the other listings are left out.
The test of a provider and the listing of its models are reads; the forwarding of the model gateway
keeps no state. The object store, the OpenCode agent, the geometry kernel and FreeCAD are external;
their effects are in the modules that call them. Contracts, the OpenCode plugin package, server,
plugins and configuration are schemas, a client and wiring. The case library, the conversations kept
only in the page and the views of the web client hold no shared state.

## 7. Bounds by name

`MaxCrashes`, `MaxLapses`, `MaxFaults`, `MaxDrops`, `MaxReopens`, `MaxEvents`, `MaxLog`, `MaxResumes`,
`MaxCuts`, `MaxSelections`, `MaxLosses`, `MaxCalls`, `MaxConfig`, `MaxSession` bound what the
environment may do and nothing else; the sets `Request`, `Caller`, `Abort`, `Worker`, `Submission`,
`Approval`, `Rejection`, `Message` bound how often a client does something. `Run` bounds the iteration
count. `JobAttempts`, `MaxStalledCount`, `MaxAutoIterations`, `Take` and `Quota` are parameters of the
code.

## 8. Plan

Order of work, most important behaviour first:

1. (done) `TaskPhases`, `TaskWorkflow`, its three runs, its theorems.
2. (done) `RevisionHistory`, `RevisionPublication` with the refinement; `EventStream`; `CaseReview`;
   `ModelBuild`; `ConversationStorage`; `Workbench`.
3. (done) `RequirementSnapshot`, `Topology` and `DesignDialogue`, which composes them.
4. (done) Theorems about the safety properties of every module of these three.
5. (done) `ModelConfigs`, `Sessions` and `Account`, which composes them, and theorems about all of
   their properties.
6. (done) The FreeCAD conversion after publication in `RevisionPublication`.
7. Open: paging as an operator against a reference; an abstract table of configurations, one change at
   a time, that `ModelConfigs` implements while changes do not overlap.
