------------------------------ MODULE ModelBuild ------------------------------
(***************************************************************************)
(* The working copy of one task: how the files under                       *)
(* working/<task>/Model come to be, and which of them a revision is made   *)
(* of.  The agent writes model.py and executes it through its tools while  *)
(* the worker waits for its prompt; then the worker executes, inspects and *)
(* derives, and reads the directory for publication.                       *)
(*                                                                         *)
(* A file is known by the source it was made from.  What a program does is *)
(* open: it writes any of the canonical artifacts, in any order, and ends  *)
(* well or not.                                                            *)
(***************************************************************************)
EXTENDS Naturals

CONSTANTS
    Source,       \* texts of model.py
    None,         \* no file
    MaxAutoIterations,  \* config TASK_MAX_AUTO_ITERATIONS
    MaxResumes,   \* bound: answers of the user to a task that needs help
    MaxCuts       \* bound: aborts of an earlier task that reach this prompt

ASSUME BuildConstants ==
    /\ None \notin Source
    /\ MaxAutoIterations \in Nat \ {0}
    /\ MaxResumes \in Nat /\ MaxCuts \in Nat

(* model.step and model.stl are read by nobody before publication, and are *)
(* one file here.                                                          *)
Artifact == {"json", "exports"}
File == Artifact \cup {"py", "validation", "derived"}
Caller == {"agent", "worker"}

VARIABLES
    parent,    \* the files of the parent revision, all None without one
    fits,      \* sources whose model satisfies the requirement snapshot
    file,      \* the working copy: per file the source it stems from
    frozen,    \* the copy of it under revisions/<number>, or None
    pc,        \* the worker's next step
    attempt,   \* runAttempt
    tool,      \* the source of a write_model call under way, or None
    running,   \* per caller of /internal/execute: the source it runs, or None
    wrote,     \* per caller: the artifacts its execution has written
    held,      \* model.json as the worker's step under way has read it
    recorded,  \* model.py as recorded for the latest attempt
    ran,       \* history: the source the worker executed last
    revision,  \* the files that were published, or None
    aborted,   \* tasks.abortedAt is set
    cuts, resumes

tree == <<parent, fits, file, frozen>>
agent == <<tool, running, wrote>>
notes == <<held, recorded, ran, revision>>
bounds == <<cuts, resumes>>
vars == <<tree, pc, attempt, agent, notes, aborted, bounds>>

Empty == [f \in File |-> None]
Complete(s) == [f \in File |-> s]
Settled == {"asked", "failed", "cancelled", "published"}

Init ==
    /\ parent \in {Empty} \cup {Complete(s) : s \in Source}
    /\ fits \in SUBSET Source
    /\ file = parent
    /\ frozen = None
    /\ pc = "check" /\ attempt = 1
    /\ tool = None
    /\ running = [c \in Caller |-> None]
    /\ wrote = [c \in Caller |-> {}]
    /\ held = None /\ recorded = None /\ ran = None /\ revision = None
    /\ aborted = FALSE /\ cuts = 0 /\ resumes = 0

-----------------------------------------------------------------------------
(* The tools of the agent: POST /internal/opencode/tools/:name.  They look *)
(* at no task status; the agent uses one at a time, during its prompt.     *)
AgentIdle == tool = None /\ running["agent"] = None

CallWrite ==
    /\ pc = "prompt" /\ AgentIdle
    /\ tool' \in Source
    /\ UNCHANGED <<tree, pc, attempt, running, wrote, notes, aborted, bounds>>

WriteModel ==
    /\ tool # None
    /\ file' = [file EXCEPT !["py"] = tool]
    /\ tool' = None
    /\ UNCHANGED <<parent, fits, frozen, pc, attempt, running, wrote, notes,
                   aborted, bounds>>

(* execute_model of the Runner: the source is read, then it runs. *)
StartRun(c) ==
    /\ running' = [running EXCEPT ![c] = file["py"]]
    /\ wrote' = [wrote EXCEPT ![c] = {}]
    /\ UNCHANGED tool

CallExecute ==
    /\ pc = "prompt" /\ AgentIdle
    /\ file["py"] # None
    /\ StartRun("agent")
    /\ UNCHANGED <<tree, pc, attempt, notes, aborted, bounds>>

RunWrites(c, f) ==
    /\ running[c] # None /\ f \notin wrote[c]
    /\ file' = [file EXCEPT ![f] = running[c]]
    /\ wrote' = [wrote EXCEPT ![c] = @ \cup {f}]
    /\ UNCHANGED <<parent, fits, frozen, pc, attempt, tool, running, notes,
                   aborted, bounds>>

(* The process has exited, or was killed at its time limit. *)
RunEnds(c) ==
    /\ running[c] # None
    /\ running' = [running EXCEPT ![c] = None]
    /\ UNCHANGED <<tool, wrote>>

AgentRunEnds ==
    /\ RunEnds("agent")
    /\ UNCHANGED <<tree, pc, attempt, notes, aborted, bounds>>

-----------------------------------------------------------------------------
(* The attempt loop of TaskWorker.process *)

(* The abort of this task: its flag; the session's abort is in EndPrompt.  *)
Abort ==
    /\ pc \notin Settled
    /\ aborted' = TRUE
    /\ UNCHANGED <<tree, pc, attempt, agent, notes, bounds>>

CheckActive ==
    /\ pc = "check"
    /\ pc' = IF aborted THEN "cancelled" ELSE "prompt"
    /\ UNCHANGED <<tree, attempt, agent, notes, aborted, bounds>>

(* The prompt returns when the agent is done, or fails.  An abort of the   *)
(* session ends it at once while the API and the Runner still finish what  *)
(* the agent had called; the session is the conversation's, so the request *)
(* may have been meant for an earlier task (a cut).                        *)
PromptLeft == {IF file["py"] = None THEN "repair" ELSE "execute", "throw"}
EndPromptEarly ==
    /\ pc = "prompt"
    /\ pc' \in PromptLeft
    /\ UNCHANGED <<tree, attempt, agent, notes, aborted, bounds>>
EndPrompt ==
    /\ pc = "prompt"
    /\ \/ (AgentIdle \/ aborted) /\ UNCHANGED cuts
       \/ ~AgentIdle /\ cuts < MaxCuts /\ cuts' = cuts + 1
    /\ pc' \in PromptLeft
    /\ UNCHANGED <<tree, attempt, agent, notes, aborted, resumes>>

Execute ==
    /\ pc = "execute"
    /\ \/ /\ StartRun("worker")
          /\ ran' = file["py"]
          /\ pc' = "executing"
       \/ /\ pc' = "throw"     \* the Runner rejects the source
          /\ UNCHANGED <<agent, ran>>
    /\ UNCHANGED <<tree, attempt, held, recorded, revision, aborted, bounds>>

(* An execution counts as succeeded when the process ends with zero and    *)
(* the three artifacts are in the directory; as failed otherwise.          *)
ArtifactsThere == \A f \in Artifact : file[f] # None

ExecuteEnds ==
    /\ pc = "executing"
    /\ RunEnds("worker")
    /\ \/ pc' \in {"repair", "throw"}
       \/ ArtifactsThere /\ pc' = "inspect"
    /\ UNCHANGED <<tree, attempt, notes, aborted, bounds>>

(* validateModel: strict replay of model.json and its geometry against the *)
(* snapshot; then validation.json, when all of it passes.                  *)
Inspect ==
    /\ pc = "inspect"
    /\ held' = file["json"]
    /\ pc' \in {IF file["json"] \in fits THEN "validate" ELSE "repair", "throw"}
    /\ UNCHANGED <<tree, attempt, agent, recorded, ran, revision, aborted, bounds>>

ReportKept == IF file["validation"] = None THEN held ELSE file["validation"]
Report == held
WriteValidation ==
    /\ pc = "validate"
    /\ file' = [file EXCEPT !["validation"] = Report]
    /\ pc' = "derive"
    /\ UNCHANGED <<parent, fits, frozen, attempt, agent, notes, aborted, bounds>>

(* deriveArtifacts: previews and viewer files, written one after another   *)
(* from model.json as it is read first.  A failure leaves a part of them.  *)
Derive ==
    /\ pc = "derive"
    /\ held' = file["json"]
    /\ pc' = "deriving"
    /\ UNCHANGED <<tree, attempt, agent, recorded, ran, revision, aborted, bounds>>

DeriveEnds ==
    /\ pc = "deriving"
    /\ \/ /\ file' = [file EXCEPT !["derived"] = held]
          /\ pc' = "passed"
       \/ /\ \E some \in {file["derived"], None, held} :
                file' = [file EXCEPT !["derived"] = some]
          /\ pc' \in {"repair", "throw"}
    /\ UNCHANGED <<parent, fits, frozen, attempt, agent, notes, aborted, bounds>>

(* recordAttempt reads model.py again, whatever the outcome. *)
Record ==
    /\ recorded' = file["py"]
    /\ UNCHANGED <<tree, agent, held, ran, revision, aborted, bounds>>

Pass ==
    /\ pc = "passed" /\ Record
    /\ pc' = "confirm"
    /\ UNCHANGED attempt

Again == attempt < MaxAutoIterations
Repair ==
    /\ pc = "repair" /\ Record
    /\ IF Again THEN attempt' = attempt + 1 /\ pc' = "check"
                ELSE UNCHANGED attempt /\ pc' = "asked"

Throw ==
    /\ pc = "throw" /\ Record
    /\ pc' = "failed"
    /\ UNCHANGED attempt

(* The user answers.  The requirement snapshot is replaced, so another set *)
(* of models fits it; prepareWorkingCopy copies the parent the answer      *)
(* names or the former one, over nothing that is there.                    *)
Seeded(p) == [f \in File |-> IF file[f] = None THEN p[f] ELSE file[f]]
Resume ==
    /\ pc = "asked"
    /\ resumes < MaxResumes /\ resumes' = resumes + 1
    /\ \E p \in IF parent = Empty THEN {Empty} ELSE {Complete(s) : s \in Source} :
          parent' = p /\ file' = Seeded(p)
    /\ fits' \in SUBSET Source
    /\ attempt' = 1
    /\ pc' = "check"
    /\ UNCHANGED <<frozen, agent, notes, aborted, cuts>>

Confirm ==
    /\ pc = "confirm"
    /\ pc' = IF aborted THEN "cancelled" ELSE "publish"
    /\ UNCHANGED <<tree, attempt, agent, notes, aborted, bounds>>

(* publishRevision reads the files, stores them, and then freezes the      *)
(* directory as it is by then.                                             *)
Publish ==
    /\ pc = "publish"
    /\ IF \E f \in File : file[f] = None
         THEN pc' = "failed" /\ UNCHANGED revision
         ELSE pc' = "freeze" /\ revision' = file
    /\ UNCHANGED <<tree, attempt, agent, held, recorded, ran, aborted, bounds>>

Freeze ==
    /\ pc = "freeze"
    /\ frozen' = file
    /\ pc' = "published"
    /\ UNCHANGED <<parent, fits, file, attempt, agent, notes, aborted, bounds>>

Next ==
    \/ CallWrite \/ WriteModel \/ CallExecute \/ AgentRunEnds
    \/ \E c \in Caller, f \in Artifact : RunWrites(c, f)
    \/ Abort \/ CheckActive \/ EndPrompt \/ Execute \/ ExecuteEnds \/ Inspect
    \/ WriteValidation \/ Derive \/ DeriveEnds \/ Pass \/ Repair \/ Throw
    \/ Resume \/ Confirm \/ Publish \/ Freeze

Spec == Init /\ [][Next]_vars

-----------------------------------------------------------------------------
Origin == Source \cup {None}
Step == Settled \cup {"check", "prompt", "execute", "executing", "inspect", "validate",
                      "derive", "deriving", "passed", "repair", "throw", "confirm",
                      "publish", "freeze"}

TypeOK ==
    /\ parent \in [File -> Origin] /\ fits \subseteq Source
    /\ file \in [File -> Origin]
    /\ frozen \in [File -> Origin] \cup {None}
    /\ pc \in Step
    /\ attempt \in 1..MaxAutoIterations
    /\ tool \in Origin
    /\ running \in [Caller -> Origin] /\ wrote \in [Caller -> SUBSET Artifact]
    /\ held \in Origin /\ recorded \in Origin /\ ran \in Origin
    /\ revision \in [File -> Source] \cup {None}
    /\ aborted \in BOOLEAN
    /\ cuts \in Nat /\ resumes \in Nat

(* What is published has been validated as it is: the geometry report and  *)
(* the derived files of a revision are those of its model.json, and that   *)
(* model satisfies the requirement, whatever attempts, parents, repairs    *)
(* and aborts came before.                                                 *)
ValidatedIsPublished ==
    revision # None /\ cuts = 0 =>
        /\ revision["validation"] = revision["json"]
        /\ revision["derived"] = revision["json"]
        /\ revision["json"] \in fits

(* The source in a revision is the one recorded for the attempt that       *)
(* passed, and the one the worker executed in it.                          *)
PublishedIsRecorded ==
    revision # None /\ cuts = 0 =>
        revision["py"] = recorded /\ recorded = ran

(* The frozen directory, from which later tasks start, holds the very      *)
(* files that were stored as the artifacts of the revision.                *)
FrozenIsPublished == frozen # None /\ cuts = 0 => frozen = revision

(* From the source the worker executed over the record of its attempt and  *)
(* the revision to the directory that later tasks start from: one work.    *)
RecordKept == PublishedIsRecorded /\ FrozenIsPublished
=============================================================================
