--------------------------- MODULE DesignDialogue ---------------------------
(***************************************************************************)
(* What a conversation knows of the design: the words of each task, the    *)
(* snapshot that is read out of them, the revisions that are built and the *)
(* entities the user has selected in them.                                 *)
(*                                                                         *)
(* The routes and the worker are seen only as far as they read and write   *)
(* these; TaskWorkflow has their phases, jobs, aborts, crashes and lapses. *)
(***************************************************************************)
EXTENDS RequirementSnapshot, Topology, Sequences, SequencesExt

CONSTANTS
    Task,          \* task ids
    Request,       \* POST /messages
    Message,       \* what a user may send: phrases, whether a FreeCAD file is
                   \*   wished for, and references to what is stored
    Solid,         \* what a build may produce
    MaxSelections  \* bound on selection/inspect

Phrase == UNION {ToSet(m.words) : m \in Message}
Reference == UNION {m.refs : m \in Message}

ASSUME DialogueConstants ==
    /\ None \notin Task /\ IsFiniteSet(Task)
    /\ MaxSelections \in Nat
    /\ Message \subseteq [words : Seq(Phrase), freecad : BOOLEAN, refs : SUBSET Reference]
    /\ \A p \in Phrase : /\ p.kind = "part" => p.part \in ToSet(PartOrder)
                         /\ p.kind = "unit" => p.unit \in Unit
    /\ \A s \in Solid, kind \in Kind : PartsOf(s, kind) \in Seq(TopologyPart)

VARIABLES
    task,       \* Task rows: creation order, status, freecadRequested, snapshot
    said,       \* the words of a task's USER messages, joined
    lease,      \* the write lease
    request,    \* each request: what it says, its next step, what it has read
    worker,     \* the snapshot the worker of each task has read
    revision,   \* the solids of the SUCCEEDED revisions
    selection   \* Selection rows

vars == <<task, said, lease, request, worker, revision, selection>>

Waiting == {"WAITING_USER", "NEEDS_USER"}
Open    == {"QUEUED", "RUNNING"}

NoRow == [born |-> 0, status |-> "NONE", freecad |-> FALSE, snapshot |-> NoSnapshot]
Asking(message) == [message |-> message, step |-> "find", task |-> None,
                    hasModel |-> FALSE, previous |-> NoSnapshot, words |-> <<>>]

Init ==
    /\ task = [t \in Task |-> NoRow]
    /\ said = [t \in Task |-> <<>>]
    /\ lease = None
    /\ request \in [Request -> {Asking(m) : m \in Message}]
    /\ worker = [t \in Task |-> None]
    /\ revision = <<>>
    /\ selection = {}

Having(S) == {t \in Task : task[t].status \in S}
LatestOf(S) == CHOOSE t \in S : \A u \in S : task[u].born <= task[t].born

-----------------------------------------------------------------------------
(* POST /messages *)

(* Whether there is a model yet; and the latest task that waits for the    *)
(* user, with the snapshot it has now.                                     *)
FindWaiting(r) ==
    LET t == LatestOf(Having(Waiting)) IN
    /\ request[r].step = "find"
    /\ request' = [request EXCEPT ![r] =
         IF Having(Waiting) = {} THEN [@ EXCEPT !.step = "create", !.hasModel = revision # <<>>]
         ELSE [@ EXCEPT !.step = "acquire", !.task = t, !.previous = task[t].snapshot]]
    /\ UNCHANGED <<task, said, lease, worker, revision, selection>>

Row(status, message) ==
    [born |-> 1 + Cardinality({t \in Task : task[t].born > 0}),
     status |-> status, freecad |-> message.freecad,
     snapshot |-> extractRequirementSnapshot(message.words, message.freecad,
                                             message.refs, NoSnapshot)]

(* A new task: refused while one is open, when a reference is not to       *)
(* something of this conversation, or while another holds the lease;       *)
(* rejected by the guard without a lease, or queued with one.              *)
Create(r) ==
    LET message == request[r].message
        allowed == Allowed(message.words, request[r].hasModel) IN
    /\ request[r].step = "create"
    /\ request' = [request EXCEPT ![r].step = "done"]
    /\ \/ /\ Having(Open) # {} \/ message.refs # {} \/ (allowed /\ lease # None)
          /\ UNCHANGED <<task, said, lease>>
       \/ /\ Having(Open) = {} /\ (allowed => lease = None)
          /\ \E t \in Task :
                /\ task[t].born = 0
                /\ said' = [said EXCEPT ![t] = message.words]
                /\ task' = [task EXCEPT ![t] =
                              Row(IF allowed THEN "QUEUED" ELSE "COMPLETED", message)]
                /\ lease' = IF allowed THEN t ELSE lease
    /\ UNCHANGED <<worker, revision, selection>>

(* An answer takes the lease under the id of the task it answers. *)
FreeOrOwn(t) == lease \in {None, t}
FreeFor(t) == lease = None
Acquire(r) ==
    LET t == request[r].task IN
    /\ request[r].step = "acquire"
    /\ IF FreeFor(t)
         THEN /\ lease' = t
              /\ request' = [request EXCEPT ![r].step = "read"]
         ELSE /\ request' = [request EXCEPT ![r].step = "done"]
              /\ UNCHANGED lease
    /\ UNCHANGED <<task, said, worker, revision, selection>>

(* All messages of the task so far; the answer is joined to them. *)
Joined(r) == said[request[r].task] \o request[r].message.words
ReadMessages(r) ==
    /\ request[r].step = "read"
    /\ request' = [request EXCEPT ![r] = [@ EXCEPT !.step = "commit", !.words = Joined(r)]]
    /\ UNCHANGED <<task, said, lease, worker, revision, selection>>

(* Nothing catches a failure of the read: the lease is left behind. *)
ReadFails(r) ==
    /\ request[r].step = "read"
    /\ request' = [request EXCEPT ![r].step = "done"]
    /\ UNCHANGED <<task, said, lease, worker, revision, selection>>

(* The message and the new snapshot, and the task is queued again, by its  *)
(* id alone.  The FreeCAD wish is this answer's or the one of the message  *)
(* that opened the task, the column of which nothing writes again; the     *)
(* references are this answer's, and nobody checks them.                   *)
Merged(r) ==
    extractRequirementSnapshot(request[r].words,
        request[r].message.freecad \/ task[request[r].task].freecad,
        request[r].message.refs, request[r].previous)
Answer(r) ==
    LET t == request[r].task IN
    /\ request[r].step = "commit"
    /\ said' = [said EXCEPT ![t] = @ \o request[r].message.words]
    /\ task' = [task EXCEPT ![t] = [@ EXCEPT !.status = "QUEUED", !.snapshot = Merged(r)]]
    /\ request' = [request EXCEPT ![r].step = "done"]
    /\ UNCHANGED <<lease, worker, revision, selection>>

Released(t) == IF lease = t THEN None ELSE lease

(* The transaction fails, the key of a duplicate for one: the lease is     *)
(* given up.                                                               *)
AnswerFails(r) ==
    /\ request[r].step = "commit"
    /\ lease' = Released(request[r].task)
    /\ request' = [request EXCEPT ![r].step = "done"]
    /\ UNCHANGED <<task, said, worker, revision, selection>>

-----------------------------------------------------------------------------
(* TaskWorker.process *)

(* The worker of a queued task renews or takes its lease and keeps the     *)
(* snapshot it has read.                                                   *)
Start(t) ==
    /\ task[t].status = "QUEUED"
    /\ worker[t] = None
    /\ lease \in {None, t}
    /\ lease' = t
    /\ worker' = [worker EXCEPT ![t] = task[t].snapshot]
    /\ task' = [task EXCEPT ![t].status = "RUNNING"]
    /\ UNCHANGED <<said, request, revision, selection>>

Ends(t, status) ==
    /\ task' = [task EXCEPT ![t].status = status]
    /\ worker' = [worker EXCEPT ![t] = None]
    /\ lease' = Released(t)
    /\ UNCHANGED <<said, request>>

UnclearOnlyIfMissing(snapshot) == snapshot.missing # {}
Unclear(snapshot) == snapshot.missing # {} \/ snapshot.conflicts

(* It asks the user for what is missing or in conflict. *)
Ask(t) ==
    /\ worker[t] # None
    /\ Unclear(worker[t])
    /\ Ends(t, "WAITING_USER")
    /\ UNCHANGED <<revision, selection>>

MayPublish ==
    \/ UNCHANGED revision
    \/ \E s \in Solid : revision' = Append(revision, s)

(* It builds a solid and publishes it, or ends with a plan and no model.   *)
Build(t) ==
    /\ worker[t] # None
    /\ ~Unclear(worker[t])
    /\ Ends(t, "COMPLETED")
    /\ MayPublish
    /\ UNCHANGED selection

(* The repair budget is used up: the user may say more. *)
GivesUp(t) ==
    /\ worker[t] # None
    /\ ~Unclear(worker[t])
    /\ Ends(t, "NEEDS_USER")
    /\ UNCHANGED <<revision, selection>>

(* A step throws, or finds the task aborted, after the publication even.   *)
Fails(t) ==
    /\ worker[t] # None
    /\ Ends(t, "FAILED")
    /\ IF Unclear(worker[t]) THEN UNCHANGED revision ELSE MayPublish
    /\ UNCHANGED selection

-----------------------------------------------------------------------------
(* The map a viewer of revision n gets. *)
MapOf(n) == DeriveMap(revision[n], n)

(* POST selection/inspect: an entity of the map of that revision. *)
Inspect(n, kind) ==
    /\ Cardinality(selection) < MaxSelections
    /\ Parses(MapOf(n), n)
    /\ \E e \in MapOf(n)[kind] :
          selection' = selection \cup {[revision |-> n, kind |-> kind, ref |-> e.ref]}
    /\ UNCHANGED <<task, said, lease, request, worker, revision>>

(* POST selection/resolve: the selected entity as it is in revision n. *)
Resolution(sel, n) ==
    LET old == CHOOSE e \in Find(MapOf(sel.revision), sel.kind, sel.ref) : TRUE IN
    Resolve(old, MapOf(n)[sel.kind])

Next ==
    \/ \E r \in Request : \/ FindWaiting(r) \/ Create(r) \/ Acquire(r)
                          \/ ReadMessages(r) \/ ReadFails(r) \/ Answer(r) \/ AnswerFails(r)
    \/ \E t \in Task : Start(t) \/ Ask(t) \/ Build(t) \/ GivesUp(t) \/ Fails(t)
    \/ \E n \in DOMAIN revision, kind \in Kind : Inspect(n, kind)

Spec == Init /\ [][Next]_vars

-----------------------------------------------------------------------------
Value == {None} \cup {p.value : p \in {q \in Phrase : q.kind \in {"size", "compact"}}}

Snapshot ==
    [version : Nat, partType : {None} \cup ToSet(PartOrder), unit : Unit,
     dimensions : [Dimension -> Value], features : SUBSET {"hole", "fillet", "chamfer"},
     missing : SUBSET ({"partType"} \cup Dimension), conflicts : BOOLEAN,
     freecad : BOOLEAN, refs : SUBSET Reference]

TaskRow == [born : Nat, freecad : BOOLEAN, snapshot : Snapshot,
            status : Open \cup Waiting \cup {"NONE", "COMPLETED", "FAILED"}]
RequestState ==
    [message : Message, step : {"find", "create", "acquire", "read", "commit", "done"},
     task : Task \cup {None}, hasModel : BOOLEAN, previous : Snapshot, words : Seq(Phrase)]

TypeOK ==
    /\ task \in [Task -> TaskRow]
    /\ said \in [Task -> Seq(Phrase)]
    /\ lease \in Task \cup {None}
    /\ request \in [Request -> RequestState]
    /\ worker \in [Task -> Snapshot \cup {None}]
    /\ revision \in Seq(Solid)
    /\ \A s \in selection :
         /\ s.revision \in DOMAIN revision /\ s.kind \in Kind
         /\ s.ref \in DOMAIN PartsOf(revision[s.revision], s.kind)

(* No word of an answer is lost: whatever requests overlap, and however    *)
(* old the snapshot an answer was merged into, part, unit, sizes, features *)
(* and what is missing or in conflict are what all messages of the task    *)
(* give together, and a FreeCAD file asked for when the task was opened is *)
(* still asked for (messages.ts:93-144).  The version only tells how often *)
(* it was merged.  References, and the FreeCAD wish of an answer, are not  *)
(* words: the next answer replaces them.                                   *)
ReadOut(words) == extractRequirementSnapshot(words, FALSE, {}, NoSnapshot)
EveryWordCounts ==
    \A t \in Task : task[t].born > 0 =>
        /\ [task[t].snapshot EXCEPT !.version = 1, !.freecad = FALSE, !.refs = {}]
              = ReadOut(said[t])
        /\ task[t].freecad => task[t].snapshot.freecad

(* A model is built, and the attempts of one are spent, only when the      *)
(* user has named the part and given every size it needs, in not more      *)
(* than one of the units that could be mixed up (task-worker.ts:92-104).   *)
Given(t, d) ==
    \E i \in DOMAIN said[t] :
        LET p == said[t][i] IN
        \/ p.kind = "size" /\ (d \in NamedBy[p.wording])
        \/ p.kind = "compact" /\ d \in CompactDimension
BuiltAsSaid ==
    \A t \in Task : worker[t] # None /\ ~Unclear(worker[t]) =>
        \E i \in Of(said[t], "part") :
            /\ said[t][i].part = worker[t].partType
            /\ worker[t].partType = "mounting plate" =>
                 \A d \in {"length", "width", "thickness"} : Given(t, d)
            /\ worker[t].partType = "flange" =>
                 \A d \in {"outerDiameter", "thickness"} : Given(t, d)
            /\ \A j, k \in Of(said[t], "unit") :
                 "m" \notin {said[t][j].unit, said[t][k].unit} =>
                     said[t][j].unit = said[t][k].unit

(* What the Runner derives the API accepts, and every triangle and every   *)
(* point of an edge the viewer draws belongs to exactly one listed entity  *)
(* (derive.py:78-168, topology.ts:6-31).                                   *)
EveryPickHasOneEntity ==
    \A n \in DOMAIN revision :
        /\ Parses(MapOf(n), n)
        /\ \A kind \in Kind : \A x \in 0..(Total(revision[n], kind) - 1) :
              Cardinality({e \in MapOf(n)[kind] :
                             x \in e.start..(e.start + e.count - 1)}) = 1

(* A selection is never taken for something else while what was selected   *)
(* is still there: if the other revision has an entity with the same tags, *)
(* geometry and measure, the answer is one like it or AMBIGUOUS            *)
(* (topology.ts:43-68).                                                    *)
Alike(e, f) == e.tags = f.tags /\ e.geometry = f.geometry /\ e.measure = f.measure
SurvivorIsNotMistaken ==
    \A sel \in selection, n \in DOMAIN revision :
        \A old \in Find(MapOf(sel.revision), sel.kind, sel.ref) :
            \A survivor \in {e \in MapOf(n)[sel.kind] : Alike(e, old)} :
                Resolution(sel, n) \in {Recovered(survivor), Unresolved("AMBIGUOUS")}
=============================================================================
