------------------------- MODULE RevisionPublication -------------------------
(***************************************************************************)
(* How a worker's working copy becomes a revision of its conversation, and *)
(* what deleting the conversation does to it.  Three stores take part and  *)
(* share no transaction: PostgreSQL (the revision rows, the conversation), *)
(* the object store (the artifacts) and the workspace directory (working   *)
(* copies and frozen revisions).                                           *)
(*                                                                         *)
(* One worker stands for one run of process() on the conversation and for  *)
(* the revision id it mints.  The write lease keeps runs apart until it    *)
(* lapses; the phase moves are TaskWorkflow's.                             *)
(***************************************************************************)
EXTENDS Naturals, FiniteSets

CONSTANTS
    Worker,     \* runs of process(); a revision is named by its run
    None,       \* no revision
    MaxLapses,  \* bound: runs started while another one is under way
    MaxCrashes, \* bound: runs cut short by the end of their process
    MaxFaults   \* bound: refused file or object-store operations

ASSUME PublicationConstants ==
    /\ IsFiniteSet(Worker) /\ None \notin Worker
    /\ MaxLapses \in Nat /\ MaxCrashes \in Nat /\ MaxFaults \in Nat

VARIABLES
    pc,       \* per run: its next step
    parent,   \* per run: the revision its working copy is to start from
    number,   \* per run: the revision number it has computed
    row,      \* model_revisions: the number of each committed revision, or 0
    current,  \* conversations.currentRevisionId
    objects,  \* per run: how much of revisions/<conversation>/<id>/ is stored
    scripts,  \* runs whose model.freecad.py is stored beside these
    converted,    \* runs whose FREECAD_SCRIPT has its artifact row
    work,     \* runs whose working/<task>/Model exists
    copied,   \* revisions/<number>/Model: its number, and the run it is from
    sealed,   \* numbers whose directory carries `.immutable`
    deleted,  \* conversations.deletedAt is set
    aborted,  \* runs whose next look at their task finds it aborted
    status,   \* conversations.status, as far as these handlers write it
    cleanup,  \* the DELETE handler's next step
    listed,   \* what the handler has still to remove: the objects of these
              \* revisions, and the workspace (None)
    listedScripts,    \* and the scripts of these
    lapses, crashes, faults

conversion == <<scripts, converted>>
store == <<row, current, objects, conversion>>
tree == <<work, copied, sealed>>
deletion == <<deleted, aborted, cleanup, listed, listedScripts>>
bounds == <<lapses, crashes, faults>>
vars == <<pc, parent, number, store, tree, deletion, status, bounds>>

Running == {"seed", "confirm", "read", "number", "put", "commit", "copy",
            "seal", "undo", "convert", "list", "announce", "cancel", "fail"}
Step == Running \cup {"idle", "ended", "lost"}

Committed == {w \in Worker : row[w] # 0}
Latest == IF Committed = {} THEN 0
          ELSE CHOOSE n \in {row[w] : w \in Committed} :
                  \A w \in Committed : row[w] <= n

Init ==
    /\ pc = [w \in Worker |-> "idle"]
    /\ parent = [w \in Worker |-> None]
    /\ number = [w \in Worker |-> 0]
    /\ row = [w \in Worker |-> 0]
    /\ current = None
    /\ objects = [w \in Worker |-> "none"]
    /\ scripts = {} /\ converted = {}
    /\ work = {} /\ copied = {} /\ sealed = {}
    /\ deleted = FALSE /\ aborted = {}
    /\ status = "IDLE"
    /\ cleanup = "idle"
    /\ listed = {} /\ listedScripts = {}
    /\ lapses = 0 /\ crashes = 0 /\ faults = 0

Goto(w, step) == pc' = [pc EXCEPT ![w] = step]

(* An operation the file system or the object store refuses. *)
Faulty == faults < MaxFaults /\ faults' = faults + 1
Sound == UNCHANGED faults

-----------------------------------------------------------------------------
(* TaskWorker.process: the run reads its conversation.  Its snapshot names *)
(* the parent revision, or else the current one is taken.  Whether the     *)
(* conversation is deleted it does not ask: the deletion aborts no task    *)
(* that NEEDS_USER and none whose row a message handler makes after it,    *)
(* and a handler under way queues even an aborted task again.  A second    *)
(* run starts beside the first only when the lease has lapsed under it.    *)
Start(w) ==
    /\ pc[w] = "idle"
    /\ \/ (\A v \in Worker : pc[v] \notin Running) /\ UNCHANGED lapses
       \/ /\ \E v \in Worker : pc[v] \in Running
          /\ lapses < MaxLapses /\ lapses' = lapses + 1
    /\ \E p \in IF current = None THEN {None} ELSE Committed :
          parent' = [parent EXCEPT ![w] = p]
    /\ aborted' \in IF deleted THEN {aborted, aborted \cup {w}} ELSE {aborted}
    /\ Goto(w, "seed")
    /\ UNCHANGED <<number, store, tree, deleted, cleanup, listed, listedScripts, status,
                   crashes, faults>>

HasDirectory(p) == \E d \in copied : d[1] = row[p]

(* prepareWorkingCopy: mkdir creates the directory and what is missing     *)
(* above it; the copy of the parent throws when there is nothing to copy.  *)
Seed(w) ==
    /\ pc[w] = "seed"
    /\ work' = work \cup {w}
    /\ parent' = [parent EXCEPT ![w] = None]
    /\ IF parent[w] = None \/ HasDirectory(parent[w])
         THEN Goto(w, "confirm") ELSE Goto(w, "fail")
    /\ UNCHANGED <<number, store, copied, sealed, deletion, status, bounds>>

(* The agent, the Runner and the validator work on the copy; then the last *)
(* assertTaskActive, which sees an abort that a deletion has written to    *)
(* the row of the task.                                                    *)
Confirm(w) ==
    /\ pc[w] = "confirm"
    /\ aborted' = aborted \ {w}
    /\ Goto(w, IF w \in aborted THEN "cancel" ELSE "read")
    /\ UNCHANGED <<parent, number, store, tree, deleted, cleanup, listed, listedScripts,
                   status, bounds>>

(* The attempts are used up, or something else on the way throws. *)
Abandon(w) ==
    /\ pc[w] = "confirm"
    /\ Goto(w, "fail")
    /\ UNCHANGED <<parent, number, store, tree, deletion, status, bounds>>

-----------------------------------------------------------------------------
(* publishRevision *)

ReadFiles(w) ==
    /\ pc[w] = "read"
    /\ Goto(w, IF w \in work THEN "number" ELSE "fail")
    /\ UNCHANGED <<parent, number, store, tree, deletion, status, bounds>>

(* The number is read outside the transaction that will use it. *)
ReadNumber(w) ==
    /\ pc[w] = "number"
    /\ number' = [number EXCEPT ![w] = Latest + 1]
    /\ Goto(w, "put")
    /\ UNCHANGED <<parent, store, tree, deletion, status, bounds>>

(* Sixteen puts in parallel, before the try: what a failure leaves stays. *)
PutObjects(w) ==
    /\ pc[w] = "put"
    /\ \/ /\ objects' = [objects EXCEPT ![w] = "all"]
          /\ Goto(w, "commit") /\ Sound
       \/ /\ \E some \in {"none", "some"} :
                objects' = [objects EXCEPT ![w] = some]
          /\ Goto(w, "fail") /\ Faulty
    /\ UNCHANGED <<parent, number, row, current, conversion, tree, deletion, status,
                   lapses, crashes>>

(* The unique index on (conversationId, revisionNumber). *)
NumberUnchecked(n) == TRUE
NumberFree(n) == \A v \in Worker : row[v] # n

(* The transaction: the row with its artifacts, the conversation, events.  *)
CommitKeepsCurrent(w) ==
    /\ pc[w] = "commit"
    /\ NumberFree(number[w])
    /\ row' = [row EXCEPT ![w] = number[w]]
    /\ status' = "COMPLETED"
    /\ Goto(w, "copy")
    /\ UNCHANGED <<parent, number, current, objects, conversion, tree, deletion, bounds>>
Commit(w) ==
    /\ pc[w] = "commit"
    /\ NumberFree(number[w])
    /\ row' = [row EXCEPT ![w] = number[w]]
    /\ current' = w
    /\ status' = "COMPLETED"
    /\ Goto(w, "copy")
    /\ UNCHANGED <<parent, number, objects, conversion, tree, deletion, bounds>>

(* It fails, on the unique index or for a reason of its own. *)
CommitConflictIgnored(w) ==
    /\ pc[w] = "commit"
    /\ Goto(w, "copy")
    /\ UNCHANGED <<parent, number, store, tree, deletion, status, bounds>>
CommitFails(w) ==
    /\ pc[w] = "commit"
    /\ Goto(w, "undo")
    /\ UNCHANGED <<parent, number, store, tree, deletion, status, bounds>>

(* freezeWorkingCopy, first half: realpath of the source, and a copy that   *)
(* refuses to write over anything.  A copy that fails half-way leaves what  *)
(* it has written.                                                          *)
CopyWithoutSeal(w) ==
    /\ pc[w] = "copy"
    /\ w \in work
    /\ copied' = copied \cup {<<number[w], w>>}
    /\ Goto(w, "announce")
    /\ UNCHANGED <<parent, number, store, work, sealed, deletion, status, bounds>>
FreezeCopy(w) ==
    LET place == \E d \in copied : d[1] = number[w]
        new == copied \cup {<<number[w], w>>} IN
    /\ pc[w] = "copy"
    /\ \/ /\ w \in work /\ ~place
          /\ copied' = new
          /\ Goto(w, "seal") /\ Sound
       \/ /\ w \notin work \/ place
          /\ Goto(w, "undo") /\ Sound
          /\ UNCHANGED copied
       \/ /\ w \in work /\ ~place
          /\ copied' \in {copied, new}
          /\ Goto(w, "undo") /\ Faulty
    /\ UNCHANGED <<parent, number, store, work, sealed, deletion, status, lapses, crashes>>

(* Second half: the tree is made read-only and the sentinel is created.    *)
(* The snapshot says whether a FreeCAD script is asked for.                *)
FreezeSeal(w) ==
    LET there == <<number[w], w>> \in copied IN
    /\ pc[w] = "seal"
    /\ \/ /\ there /\ number[w] \notin sealed
          /\ sealed' = sealed \cup {number[w]}
          /\ \E step \in {"convert", "announce"} : Goto(w, step)
          /\ Sound
       \/ /\ ~there \/ number[w] \in sealed
          /\ Goto(w, "undo") /\ Sound
          /\ UNCHANGED sealed
       \/ /\ there
          /\ Goto(w, "undo") /\ Faulty
          /\ UNCHANGED sealed
    /\ UNCHANGED <<parent, number, store, work, copied, deletion, status, lapses, crashes>>

(* The catch of publishRevision covers the transaction and the freeze: the *)
(* objects are deleted whichever of the two threw, and deletes that fail   *)
(* are ignored.                                                            *)
UndoNothing(w) ==
    /\ pc[w] = "undo"
    /\ Goto(w, "fail") /\ Sound
    /\ UNCHANGED <<parent, number, store, tree, deletion, status, lapses, crashes>>
Undo(w) ==
    /\ pc[w] = "undo"
    /\ \/ objects' = [objects EXCEPT ![w] = "none"] /\ Sound
       \/ objects' = [objects EXCEPT ![w] = "some"] /\ Faulty
    /\ Goto(w, "fail")
    /\ UNCHANGED <<parent, number, row, current, conversion, tree, deletion, status,
                   lapses, crashes>>

-----------------------------------------------------------------------------
(* convertFreeCad: the frozen model.json goes to the FreeCAD worker and the *)
(* script it answers with to the store.  Whatever fails there is caught,    *)
(* a missing file or a refused put among it, and the task goes on.          *)
Convert(w) ==
    /\ pc[w] = "convert"
    /\ \/ /\ <<number[w], w>> \in copied
          /\ scripts' = scripts \cup {w}
          /\ Goto(w, "list")
       \/ UNCHANGED scripts /\ Goto(w, "announce")
    /\ UNCHANGED <<parent, number, row, current, objects, converted, tree, deletion,
                   status, bounds>>

(* artifact.create; when it fails the object stays. *)
ListScript(w) ==
    /\ pc[w] = "list"
    /\ converted' \in {converted, converted \cup {w}}
    /\ Goto(w, "announce")
    /\ UNCHANGED <<parent, number, row, current, objects, scripts, tree, deletion,
                   status, bounds>>

-----------------------------------------------------------------------------
(* What the run leaves on the conversation when it ends. *)
Outcome == [announce |-> "COMPLETED", cancel |-> "IDLE", fail |-> "FAILED"]
Finish(w) ==
    /\ pc[w] \in DOMAIN Outcome
    /\ status' = Outcome[pc[w]]
    /\ Goto(w, "ended")
    /\ UNCHANGED <<parent, number, store, tree, deletion, bounds>>

Crash(w) ==
    /\ pc[w] \in Running
    /\ crashes < MaxCrashes /\ crashes' = crashes + 1
    /\ Goto(w, "lost")
    /\ UNCHANGED <<parent, number, store, tree, deletion, status, lapses, faults>>

-----------------------------------------------------------------------------
(* DELETE /api/conversations/:id, then cleanupConversationResources *)

MarkStatusOnly ==
    /\ cleanup = "idle"
    /\ status' = "DELETING"
    /\ cleanup' = "list"
    /\ UNCHANGED <<pc, parent, number, store, tree, deleted, aborted, listed,
                   listedScripts, bounds>>

(* The tasks of the runs under way are aborted with it, which those see    *)
(* that have their last assertTaskActive before them.                      *)
MarkDeleted ==
    /\ cleanup = "idle"
    /\ deleted' = TRUE
    /\ aborted' = {w \in Worker : pc[w] \in {"seed", "confirm"}}
    /\ status' = "DELETING"
    /\ cleanup' = "list"
    /\ UNCHANGED <<pc, parent, number, store, tree, listed, listedScripts, bounds>>

(* The artifact rows there are by now. *)
ListObjects ==
    /\ cleanup = "list"
    /\ listed' = Committed \cup {None}
    /\ listedScripts' = converted
    /\ cleanup' = "objects"
    /\ UNCHANGED <<pc, parent, number, store, tree, deleted, aborted, status, bounds>>

DeleteObjects(w) ==
    /\ w \in listed
    /\ listed' = listed \ {w}
    /\ \/ objects' = [objects EXCEPT ![w] = "none"] /\ Sound
       \/ objects[w] # "none" /\ UNCHANGED objects /\ Faulty
    /\ UNCHANGED <<pc, parent, number, row, current, conversion, tree, deleted, aborted, cleanup,
                   listedScripts, status, lapses, crashes>>

DeleteScript(w) ==
    /\ w \in listedScripts
    /\ listedScripts' = listedScripts \ {w}
    /\ \/ scripts' = scripts \ {w} /\ Sound
       \/ w \in scripts /\ UNCHANGED scripts /\ Faulty
    /\ UNCHANGED <<pc, parent, number, row, current, objects, converted, tree, deleted, aborted,
                   cleanup, listed, status, lapses, crashes>>

(* removeWorkspace runs beside the deletes.  A failure is only logged. *)
RemoveWorkspace ==
    /\ None \in listed
    /\ listed' = listed \ {None}
    /\ \/ work' = {} /\ copied' = {} /\ sealed' = {} /\ Sound
       \/ UNCHANGED tree /\ Faulty
    /\ UNCHANGED <<pc, parent, number, store, deleted, aborted, cleanup, listedScripts, status,
                   lapses, crashes>>

Tombstone ==
    /\ cleanup = "objects" /\ listed = {} /\ listedScripts = {}
    /\ status' = "DELETED"
    /\ cleanup' = "done"
    /\ UNCHANGED <<pc, parent, number, store, tree, deleted, aborted, listed,
                   listedScripts, bounds>>

Publishing(w) ==
    \/ ReadFiles(w) \/ ReadNumber(w) \/ PutObjects(w) \/ Commit(w) \/ CommitFails(w)
    \/ FreezeCopy(w) \/ FreezeSeal(w) \/ Undo(w)

Converting(w) == Convert(w) \/ ListScript(w)

Delete ==
    \/ MarkDeleted \/ ListObjects
    \/ \E w \in Worker : DeleteObjects(w) \/ DeleteScript(w)
    \/ RemoveWorkspace \/ Tombstone

Next ==
    \/ \E w \in Worker :
          \/ Start(w) \/ Seed(w) \/ Confirm(w) \/ Abandon(w) \/ Publishing(w)
          \/ Converting(w) \/ Finish(w) \/ Crash(w)
    \/ Delete

Spec == Init /\ [][Next]_vars

-----------------------------------------------------------------------------
Amount == {"none", "some", "all"}

TypeOK ==
    /\ pc \in [Worker -> Step]
    /\ parent \in [Worker -> Worker \cup {None}]
    /\ number \in [Worker -> Nat]
    /\ row \in [Worker -> Nat]
    /\ current \in Worker \cup {None}
    /\ objects \in [Worker -> Amount]
    /\ scripts \subseteq Worker /\ converted \subseteq Worker
    /\ work \subseteq Worker
    /\ copied \subseteq Nat \X Worker
    /\ sealed \subseteq Nat
    /\ deleted \in BOOLEAN /\ aborted \subseteq Worker
    /\ status \in {"IDLE", "COMPLETED", "FAILED", "DELETING", "DELETED"}
    /\ cleanup \in {"idle", "list", "objects", "done"}
    /\ listed \subseteq Worker \cup {None} /\ listedScripts \subseteq Worker
    /\ lapses \in Nat /\ crashes \in Nat /\ faults \in Nat

(* The revisions of a conversation are numbered 1, 2, 3, ... without a gap *)
(* or a repeat, and the current one has the greatest number, although runs *)
(* compute their number outside the transaction and may run side by side.  *)
Total == Cardinality(Committed)
NumbersInOrder ==
    /\ \A w \in Committed : row[w] <= Total
    /\ \A n \in 1..Total : \E w \in Committed : row[w] = n
    /\ \A v, w \in Committed : row[v] = row[w] => v = w
    /\ IF Committed = {} THEN current = None
                         ELSE current \in Committed /\ row[current] = Total

(* A frozen directory belongs to the revision whose number it carries, so  *)
(* a freeze never finds its place taken, and never seals another's files.  *)
FrozenByItsOwner ==
    /\ \A d \in copied : row[d[2]] = d[1]
    /\ \A w \in Worker : pc[w] = "copy" => \A d \in copied : d[1] # number[w]
    /\ \A n \in sealed : \E d \in copied : d[1] = n

(* GET revisions, by number or all: what has succeeded, as long as the     *)
(* conversation is not deleted.                                            *)
Listed == {w \in Committed : ~deleted}

(* GET viewer is READY and GET download gives a link: the files the row    *)
(* names are in the store.                                                 *)
Readable(w) == objects[w] = "all" /\ (w \in converted => w \in scripts)

(* Every revision the API lists for a live conversation can be read in     *)
(* full, as long as no operation was refused.                              *)
ListedIsStored == faults = 0 => \A w \in Listed : Readable(w)

(* The revision a run starts from has been frozen completely, whoever      *)
(* chose it, as long as runs do not overlap and none was cut short.        *)
ParentIsFrozen ==
    ~deleted /\ faults = 0 /\ crashes = 0 /\ lapses = 0 =>
        \A w \in Worker :
            pc[w] = "seed" /\ parent[w] # None => row[parent[w]] \in sealed

(* A run that ends without a revision leaves no object behind, whether it  *)
(* lost the race for its number or was cancelled by a deletion.            *)
NothingOrphaned ==
    faults = 0 => \A w \in Worker :
        pc[w] = "ended" /\ w \notin Committed => objects[w] = "none" /\ w \notin scripts

(* Publication implements the append-only history. *)
Log == [n \in 1..Total |-> CHOOSE w \in Committed : row[w] = n]
Abstract == INSTANCE RevisionHistory WITH Revision <- Worker, history <- Log
AppendOnly == Abstract!Spec
=============================================================================
