------------------------- MODULE ConversationStorage -------------------------
(***************************************************************************)
(* What the conversations and uploads of one user occupy in four stores    *)
(* that share no transaction: rows in PostgreSQL, a directory per          *)
(* workspace, a session per conversation in OpenCode, an object per        *)
(* upload.  Each request is one handler of routes/conversations.ts or      *)
(* routes/uploads.ts, one step per await that touches a store, or a task   *)
(* with the worker that builds in its workspace; requests overlap as they  *)
(* like.  An upload goes by the name of its request, and every file has    *)
(* the size of one unit of the quota.                                      *)
(***************************************************************************)
EXTENDS Naturals, FiniteSets

CONSTANTS
    Conversation,
    Request,
    None,
    Quota,        \* the upload quota of the user, in files
    MaxFaults     \* bound: refused operations and handlers that stop half-way

ASSUME StorageConstants ==
    /\ None \notin Conversation \cup Request
    /\ None \notin {"IDLE", "ARCHIVED", "DELETING", "DELETED", "READY"}
    /\ IsFiniteSet(Request)
    /\ Quota \in Nat /\ MaxFaults \in Nat

VARIABLES
    status,       \* per conversation: conversations.status, or None
    deleted,      \* conversations with deletedAt set
    row,          \* per upload: uploads.status, or None
    directories,  \* conversations whose workspace directory exists
    sessions,     \* conversations whose OpenCode session exists
    objects,      \* uploads whose object is in the store
    step,         \* per request: what it does next
    conv,         \* per request: the conversation it is about
    file,         \* per request: the upload it is about
    found,        \* per request: the uploads a cleanup has listed
    aborted,      \* tasks whose row has been aborted
    unanswered,   \* history: conversations one of whose creating calls took
                  \*   effect although its caller saw it fail
    remade,       \* history: directories a worker made after their removal
    late,         \* history: uploads whose row was created after deletedAt
    raced,        \* history: an upload was counted while another was stored
    faults

rows == <<status, deleted, row>>
outside == <<directories, sessions, objects>>
history == <<late, raced, unanswered, remade>>
vars == <<rows, outside, step, conv, file, found, aborted, history, faults>>

Init ==
    /\ status = [c \in Conversation |-> None]
    /\ deleted = {}
    /\ row = [u \in Request |-> None]
    /\ directories = {} /\ sessions = {} /\ objects = {}
    /\ step = [r \in Request |-> "new"]
    /\ conv = [r \in Request |-> None]
    /\ file = [r \in Request |-> None]
    /\ found = [r \in Request |-> {}]
    /\ aborted = {} /\ unanswered = {} /\ remade = {}
    /\ late = {} /\ raced = FALSE /\ faults = 0

Goto(r, next) == step' = [step EXCEPT ![r] = next]
Live(c) == status[c] # None /\ c \notin deleted
Faulty == faults < MaxFaults /\ faults' = faults + 1
Sound == UNCHANGED faults

-----------------------------------------------------------------------------
(* POST /api/conversations *)

(* createWorkspace.  When it fails half-way, nobody removes what is there. *)
CreateWorkspace(r) ==
    /\ step[r] = "new"
    /\ \E c \in Conversation :
          /\ \A s \in Request : step[s] # "new" => conv[s] # c
          /\ conv' = [conv EXCEPT ![r] = c]
          /\ \/ directories' = directories \cup {c} /\ Goto(r, "session") /\ Sound
             \/ directories' = directories \cup {c} /\ Goto(r, "broken") /\ Faulty
    /\ UNCHANGED <<rows, sessions, objects, file, found, aborted, history>>

(* An HTTP request with a timeout, whose answer is then parsed: when that  *)
(* fails there may be a session all the same.                              *)
CreateSession(r) ==
    /\ step[r] = "session"
    /\ \/ sessions' = sessions \cup {conv[r]} /\ UNCHANGED unanswered
          /\ Goto(r, "insert") /\ Sound
       \/ UNCHANGED <<sessions, unanswered>> /\ Goto(r, "unmake") /\ Faulty
       \/ sessions' = sessions \cup {conv[r]} /\ unanswered' = unanswered \cup {conv[r]}
          /\ Goto(r, "unmake") /\ Faulty
    /\ UNCHANGED <<rows, directories, objects, conv, file, found, aborted, late, raced, remade>>

(* A commit whose acknowledgement is lost has made the row.                *)
InsertConversation(r) ==
    /\ step[r] = "insert"
    /\ \/ status' = [status EXCEPT ![conv[r]] = "IDLE"] /\ UNCHANGED unanswered
          /\ Goto(r, "done") /\ Sound
       \/ UNCHANGED <<status, unanswered>> /\ Goto(r, "undo") /\ Faulty
       \/ status' = [status EXCEPT ![conv[r]] = "IDLE"]
          /\ unanswered' = unanswered \cup {conv[r]}
          /\ Goto(r, "undo") /\ Faulty
    /\ UNCHANGED <<deleted, row, outside, conv, file, found, aborted, late, raced, remade>>

(* The catches: removeWorkspace, and after a failed transaction also the   *)
(* session; that it cannot be deleted is ignored.                          *)
RemoveDirectoryOnly(r) ==
    /\ step[r] \in {"unmake", "undo"}
    /\ directories' = directories \ {conv[r]}
    /\ Goto(r, "undone")
    /\ UNCHANGED <<rows, sessions, objects, conv, file, found, aborted, history, faults>>
RemoveWorkspace(r) ==
    /\ step[r] \in {"unmake", "undo"}
    /\ directories' = directories \ {conv[r]}
    /\ Goto(r, IF step[r] = "undo" THEN "unopen" ELSE "undone")
    /\ UNCHANGED <<rows, sessions, objects, conv, file, found, aborted, history, faults>>

RemoveSession(r) ==
    /\ step[r] = "unopen"
    /\ \/ sessions' = sessions \ {conv[r]} /\ Sound
       \/ UNCHANGED sessions /\ Faulty
    /\ Goto(r, "undone")
    /\ UNCHANGED <<rows, directories, objects, conv, file, found, aborted, history>>

-----------------------------------------------------------------------------
(* The other handlers look the conversation up first. *)
FindLive(r, next) ==
    /\ step[r] = "new"
    /\ \E c \in Conversation : Live(c) /\ conv' = [conv EXCEPT ![r] = c]
    /\ Goto(r, next)
    /\ UNCHANGED <<rows, outside, file, found, aborted, history, faults>>

(* PATCH /api/conversations/:id writes by id what it is asked to: a title, *)
(* or archived.                                                            *)
FindToPatch(r) == FindLive(r, "patch")
Patch(r) ==
    /\ step[r] = "patch"
    /\ \E s \in {"ARCHIVED", "IDLE", status[conv[r]]} :
          status' = [status EXCEPT ![conv[r]] = s]
    /\ Goto(r, "done")
    /\ UNCHANGED <<deleted, row, outside, conv, file, found, aborted, history, faults>>

(* POST .../uploads: the quota counts the rows of the user that are not    *)
(* DELETED, in whatever conversation, before the file is stored.           *)
FindToUpload(r) == FindLive(r, "count")

Counted == {u \in Request : row[u] \notin {None, "DELETED"}}
FitsAtLimit(n) == n <= Quota
Fits(n) == n + 1 <= Quota
Storing == {r \in Request : step[r] \in {"put", "create"}}

CountQuota(r) ==
    /\ step[r] = "count"
    /\ IF Fits(Cardinality(Counted))
         THEN Goto(r, "put") /\ raced' = (raced \/ Storing # {})
         ELSE Goto(r, "done") /\ UNCHANGED raced
    /\ UNCHANGED <<rows, outside, conv, file, found, aborted, late, unanswered, remade, faults>>

PutUpload(r) ==
    /\ step[r] = "put"
    /\ objects' = objects \cup {r}
    /\ Goto(r, "create")
    /\ UNCHANGED <<rows, directories, sessions, conv, file, found, aborted, history, faults>>

CreateUpload(r) ==
    /\ step[r] = "create"
    /\ row' = [row EXCEPT ![r] = "READY"]
    /\ late' = IF conv[r] \in deleted THEN late \cup {r} ELSE late
    /\ Goto(r, "done")
    /\ UNCHANGED <<status, deleted, outside, conv, file, found, aborted, raced, unanswered,
                   remade, faults>>

(* DELETE .../uploads/:uploadId asks neither for the status of the upload  *)
(* nor for deletedAt: the object first, then the row.                      *)
FindUpload(r) ==
    /\ step[r] = "new"
    /\ \E u \in Request :
          /\ row[u] # None
          /\ conv' = [conv EXCEPT ![r] = conv[u]]
          /\ file' = [file EXCEPT ![r] = u]
    /\ Goto(r, "erase")
    /\ UNCHANGED <<rows, outside, found, aborted, history, faults>>

EraseObjectOnly(r) ==
    /\ step[r] = "erase"
    /\ objects' = objects \ {file[r]}
    /\ Goto(r, "done")
    /\ UNCHANGED <<rows, directories, sessions, conv, file, found, aborted, history, faults>>
EraseObject(r) ==
    /\ step[r] = "erase"
    /\ objects' = objects \ {file[r]}
    /\ Goto(r, "mark")
    /\ UNCHANGED <<rows, directories, sessions, conv, file, found, aborted, history, faults>>

MarkUpload(r) ==
    /\ step[r] = "mark"
    /\ row' = [row EXCEPT ![file[r]] = "DELETED"]
    /\ Goto(r, "done")
    /\ UNCHANGED <<status, deleted, outside, conv, file, found, aborted, history, faults>>

-----------------------------------------------------------------------------
(* A task: POST .../messages looks the conversation up and creates the row *)
(* (or reopens it) later.  The worker looks at that row, in process and    *)
(* before every attempt, never at the conversation; then it writes below   *)
(* the workspace: working copy, attempt record and frozen revision each    *)
(* begin with a mkdir that makes the directories above it.                 *)
FindToAsk(r) == FindLive(r, "ask")

CreateTask(r) ==
    /\ step[r] = "ask"
    /\ Goto(r, "check")
    /\ UNCHANGED <<rows, outside, conv, file, found, aborted, history, faults>>

OpenTask(r) == step[r] \in {"check", "build"}

CheckTask(r) ==
    /\ step[r] = "check"
    /\ \/ r \notin aborted /\ Goto(r, "build")
       \/ Goto(r, "done")
    /\ UNCHANGED <<rows, outside, conv, file, found, aborted, history, faults>>

WriteBelow(r) ==
    /\ step[r] = "build"
    /\ directories' = directories \cup {conv[r]}
    /\ remade' = IF conv[r] \in directories THEN remade ELSE remade \cup {conv[r]}
    /\ Goto(r, "check")
    /\ UNCHANGED <<rows, sessions, objects, conv, file, found, aborted, late, raced,
                   unanswered, faults>>

-----------------------------------------------------------------------------
(* DELETE /api/conversations/:id *)
FindToDelete(r) == FindLive(r, "flag")

FlagDeleted(r) ==
    /\ step[r] = "flag"
    /\ status' = [status EXCEPT ![conv[r]] = "DELETING"]
    /\ deleted' = deleted \cup {conv[r]}
    /\ aborted' = aborted \cup {t \in Request : OpenTask(t) /\ conv[t] = conv[r]}
    /\ Goto(r, "close")
    /\ UNCHANGED <<row, outside, conv, file, found, history, faults>>

(* A failure is logged, and the cleanup goes on. *)
DeleteSession(r) ==
    /\ step[r] = "close"
    /\ \/ sessions' = sessions \ {conv[r]} /\ Sound
       \/ UNCHANGED sessions /\ Faulty
    /\ Goto(r, "list")
    /\ UNCHANGED <<rows, directories, objects, conv, file, found, aborted, history>>

LiveUploadsOf(c) == {u \in Request : row[u] # None /\ conv[u] = c /\ Live(c)}
UploadsOf(c) == {u \in Request : row[u] # None /\ conv[u] = c}
ListUploads(r) ==
    /\ step[r] = "list"
    /\ found' = [found EXCEPT ![r] = UploadsOf(conv[r])]
    /\ Goto(r, "clean")
    /\ UNCHANGED <<rows, outside, conv, file, aborted, history, faults>>

(* All of it is tried and settled, whatever fails. *)
Clean(r) ==
    /\ step[r] = "clean"
    /\ \/ /\ objects' = objects \ found[r]
          /\ directories' = directories \ {conv[r]}
          /\ Sound
       \/ /\ \E some \in SUBSET found[r] : objects' = objects \ some
          /\ directories' \in {directories, directories \ {conv[r]}}
          /\ Faulty
    /\ Goto(r, "tombstone")
    /\ UNCHANGED <<rows, sessions, conv, file, found, aborted, history>>

Tombstone(r) ==
    /\ step[r] = "tombstone"
    /\ status' = [status EXCEPT ![conv[r]] = "DELETED"]
    /\ Goto(r, "done")
    /\ UNCHANGED <<deleted, row, outside, conv, file, found, aborted, history, faults>>

-----------------------------------------------------------------------------
(* Any handler may stop at an error it does not catch, or with its process. *)
Over == {"done", "undone", "broken"}
UnderWay(r) == step[r] \notin Over \cup {"new"}
Stops(r) ==
    /\ UnderWay(r)
    /\ Goto(r, "broken") /\ Faulty
    /\ UNCHANGED <<rows, outside, conv, file, found, aborted, history>>

Next == \E r \in Request :
    \/ CreateWorkspace(r) \/ CreateSession(r) \/ InsertConversation(r)
    \/ RemoveWorkspace(r) \/ RemoveSession(r)
    \/ FindToPatch(r) \/ Patch(r)
    \/ FindToUpload(r) \/ CountQuota(r) \/ PutUpload(r) \/ CreateUpload(r)
    \/ FindUpload(r) \/ EraseObject(r) \/ MarkUpload(r)
    \/ FindToAsk(r) \/ CreateTask(r) \/ CheckTask(r) \/ WriteBelow(r)
    \/ FindToDelete(r) \/ FlagDeleted(r) \/ DeleteSession(r) \/ ListUploads(r)
    \/ Clean(r) \/ Tombstone(r)
    \/ Stops(r)

Spec == Init /\ [][Next]_vars

-----------------------------------------------------------------------------
Step == Over \cup {"new", "session", "insert", "unmake", "undo", "unopen", "patch", "count",
                   "put", "create", "erase", "mark", "ask", "check", "build",
                   "flag", "close", "list", "clean", "tombstone"}

TypeOK ==
    /\ status \in [Conversation -> {None, "IDLE", "ARCHIVED", "DELETING", "DELETED"}]
    /\ deleted \subseteq Conversation
    /\ row \in [Request -> {None, "READY", "DELETED"}]
    /\ directories \subseteq Conversation /\ sessions \subseteq Conversation
    /\ objects \subseteq Request
    /\ step \in [Request -> Step]
    /\ conv \in [Request -> Conversation \cup {None}]
    /\ file \in [Request -> Request \cup {None}]
    /\ found \in [Request -> SUBSET Request]
    /\ aborted \subseteq Request
    /\ unanswered \subseteq Conversation /\ remade \subseteq Conversation
    /\ late \subseteq Request /\ raced \in BOOLEAN /\ faults \in Nat

(* A conversation the user can open has its directory and its session,     *)
(* whatever fails: both are there before the row and go after its flag.    *)
(* The exception is the one whose commit was not acknowledged: the catch   *)
(* takes both from a row that is there.                                    *)
LiveIsComplete ==
    \A c \in Conversation : Live(c) /\ c \notin unanswered =>
        c \in directories /\ c \in sessions

(* A conversation that never came to be and whose creation was undone has  *)
(* no directory, and no session but one that was made by a call that       *)
(* failed for its caller, if nothing but the one operation fails.          *)
RefusedLeavesNothing ==
    faults <= 1 => \A r \in Request : step[r] = "undone" /\ status[conv[r]] = None =>
        conv[r] \notin directories /\ conv[r] \notin sessions \ unanswered

(* Directories and sessions agree with the rows at both ends: a            *)
(* conversation that is there has them, and one that never came to be has  *)
(* none, although neither store takes part in a transaction.               *)
WholeOrGone == LiveIsComplete /\ RefusedLeavesNothing

(* A READY upload of a conversation that is not deleted has its object,    *)
(* but for the time its deletion is between object and row.                *)
ReadyIsStored ==
    faults = 0 => \A u \in Request :
        row[u] = "READY" /\ conv[u] \notin deleted =>
            u \in objects \/ \E r \in Request : step[r] = "mark" /\ file[r] = u

(* When a deletion is through without an error and no task of it is under  *)
(* way any more, nothing of the conversation is left but the files whose   *)
(* upload it overtook and the directory, when a worker that had not yet    *)
(* noticed the abort, or whose task was opened after it, has made it again.*)
DeletedIsClean ==
    faults = 0 => \A c \in deleted :
        (\A r \in Request : UnderWay(r) => conv[r] # c) =>
            /\ c \notin sessions
            /\ c \in directories => c \in remade
            /\ \A u \in objects : conv[u] = c => u \in late

(* The quota is only exceeded by uploads that are counted while another    *)
(* one is being stored.                                                    *)
QuotaKept == ~raced => Cardinality(Counted) <= Quota
=============================================================================
