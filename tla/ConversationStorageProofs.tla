---------------------- MODULE ConversationStorageProofs ----------------------
(***************************************************************************)
(* Proofs about ConversationStorage, for any conversations, requests and   *)
(* quota, and any number of failures.                                      *)
(***************************************************************************)
EXTENDS ConversationStorage, FiniteSetTheorems, TLAPS

(* The steps of POST /conversations between its directory and its row, of  *)
(* its catches, and of DELETE after its flag; the others are about a       *)
(* conversation with a row.                                                *)
Making == {"session", "insert"}
Undoing == {"unmake", "undo", "unopen"}
Removing == {"close", "list", "clean", "tombstone"}
Knowing == Removing \cup {"patch", "count", "put", "create", "erase", "mark", "flag",
                          "ask", "check", "build"}

(* A request that has begun is about a conversation, and so is an upload.  *)
Named ==
    \A r \in Request :
        /\ step[r] # "new" => conv[r] \in Conversation
        /\ row[r] # None => step[r] # "new" /\ status[conv[r]] # None
        /\ step[r] \in Knowing => status[conv[r]] # None
        /\ step[r] \in {"erase", "mark"} => file[r] \in Request /\ row[file[r]] # None

(* A conversation is made by one request, which nobody meets before the    *)
(* row is there: in the catches only when the row is there unanswered.     *)
Alone ==
    /\ \A r, s \in Request :
          step[r] # "new" /\ step[s] # "new" /\ conv[s] = conv[r] /\ status[conv[r]] = None
              => s = r
    /\ \A r \in Request : step[r] \in Making => status[conv[r]] = None
    /\ \A r \in Request : step[r] \in Undoing =>
          status[conv[r]] = None \/ conv[r] \in unanswered
    /\ \A c \in Conversation :
          status[c] # None => \E r \in Request : step[r] # "new" /\ conv[r] = c

(* What a request in the middle of POST or DELETE has done so far. *)
Prepared ==
    \A r \in Request :
        /\ step[r] \in Making => conv[r] \in directories
        /\ step[r] = "insert" => conv[r] \in sessions
        /\ step[r] \in Removing => conv[r] \in deleted

StorageInv == TypeOK /\ Named /\ Alone /\ Prepared /\ LiveIsComplete

LEMMA StorageInit == Init => StorageInv
<1> SUFFICES ASSUME Init PROVE StorageInv
  OBVIOUS
<1>1. TypeOK
  BY StorageConstants DEF Init, TypeOK, Step, Over
<1>2. Named /\ Alone
  BY DEF Init, Named, Alone, Making, Undoing, Knowing, Removing
<1>3. Prepared /\ LiveIsComplete
  BY DEF Init, Prepared, LiveIsComplete, Live, Making, Removing
<1> QED BY <1>1, <1>2, <1>3 DEF StorageInv

LEMMA StorageNext == StorageInv /\ [Next]_vars => StorageInv'
<1> SUFFICES ASSUME StorageInv, [Next]_vars PROVE StorageInv'
  OBVIOUS
<1> USE StorageConstants DEF StorageInv, TypeOK, Named, Alone, Prepared,
        LiveIsComplete, Live, Making, Undoing, Removing, Knowing, Step, Over, Goto, Sound, Faulty,
        rows, outside, history
<1>1. ASSUME NEW r \in Request, CreateWorkspace(r) PROVE StorageInv'
  BY <1>1 DEF CreateWorkspace
<1>2. ASSUME NEW r \in Request, CreateSession(r) PROVE StorageInv'
  BY <1>2 DEF CreateSession
<1>3. ASSUME NEW r \in Request, InsertConversation(r) PROVE StorageInv'
  BY <1>3 DEF InsertConversation
<1>4. ASSUME NEW r \in Request, RemoveWorkspace(r) PROVE StorageInv'
  BY <1>4 DEF RemoveWorkspace
<1>4a. ASSUME NEW r \in Request, RemoveSession(r) PROVE StorageInv'
  BY <1>4a DEF RemoveSession
<1>5. ASSUME NEW r \in Request, FindToPatch(r) PROVE StorageInv'
  BY <1>5 DEF FindToPatch, FindLive
<1>6. ASSUME NEW r \in Request, Patch(r) PROVE StorageInv'
  BY <1>6 DEF Patch
<1>7. ASSUME NEW r \in Request, FindToUpload(r) PROVE StorageInv'
  BY <1>7 DEF FindToUpload, FindLive
<1>8. ASSUME NEW r \in Request, CountQuota(r) PROVE StorageInv'
  <2>1. raced' \in BOOLEAN
    BY <1>8 DEF CountQuota
  <2>2. UNCHANGED <<rows, outside, conv, file, found, aborted, late, unanswered, remade, faults>>
    BY <1>8 DEF CountQuota
  <2>3. step[r] = "count" /\ step' \in {[step EXCEPT ![r] = s] : s \in {"put", "done"}}
    BY <1>8 DEF CountQuota
  <2> QED BY <2>1, <2>2, <2>3
<1>9. ASSUME NEW r \in Request, PutUpload(r) PROVE StorageInv'
  BY <1>9 DEF PutUpload
<1>10. ASSUME NEW r \in Request, CreateUpload(r) PROVE StorageInv'
  BY <1>10 DEF CreateUpload
<1>11. ASSUME NEW r \in Request, FindUpload(r) PROVE StorageInv'
  BY <1>11 DEF FindUpload
<1>12. ASSUME NEW r \in Request, EraseObject(r) PROVE StorageInv'
  BY <1>12 DEF EraseObject
<1>13. ASSUME NEW r \in Request, MarkUpload(r) PROVE StorageInv'
  BY <1>13 DEF MarkUpload
<1>13a. ASSUME NEW r \in Request, FindToAsk(r) PROVE StorageInv'
  BY <1>13a DEF FindToAsk, FindLive
<1>13b. ASSUME NEW r \in Request, CreateTask(r) PROVE StorageInv'
  BY <1>13b DEF CreateTask
<1>13c. ASSUME NEW r \in Request, CheckTask(r) PROVE StorageInv'
  BY <1>13c DEF CheckTask
<1>13d. ASSUME NEW r \in Request, WriteBelow(r) PROVE StorageInv'
  BY <1>13d DEF WriteBelow
<1>14. ASSUME NEW r \in Request, FindToDelete(r) PROVE StorageInv'
  BY <1>14 DEF FindToDelete, FindLive
<1>15. ASSUME NEW r \in Request, FlagDeleted(r) PROVE StorageInv'
  BY <1>15 DEF FlagDeleted, OpenTask
<1>16. ASSUME NEW r \in Request, DeleteSession(r) PROVE StorageInv'
  BY <1>16 DEF DeleteSession
<1>17. ASSUME NEW r \in Request, ListUploads(r) PROVE StorageInv'
  BY <1>17 DEF ListUploads, UploadsOf
<1>18. ASSUME NEW r \in Request, Clean(r) PROVE StorageInv'
  BY <1>18 DEF Clean
<1>19. ASSUME NEW r \in Request, Tombstone(r) PROVE StorageInv'
  BY <1>19 DEF Tombstone
<1>20. ASSUME NEW r \in Request, Stops(r) PROVE StorageInv'
  BY <1>20 DEF Stops, UnderWay
<1>21. CASE UNCHANGED vars
  BY <1>21 DEF vars
<1> QED
  BY <1>1, <1>2, <1>3, <1>4, <1>4a, <1>5, <1>6, <1>7, <1>8, <1>9, <1>10, <1>11, <1>12,
     <1>13, <1>13a, <1>13b, <1>13c, <1>13d, <1>14, <1>15, <1>16, <1>17, <1>18, <1>19, <1>20, <1>21 DEF Next

(* A conversation the user can open has its directory and its session,     *)
(* unless the commit of its row was not acknowledged.                      *)
THEOREM Complete == Spec => []LiveIsComplete
<1>1. StorageInv => LiveIsComplete
  BY DEF StorageInv
<1> QED BY StorageInit, StorageNext, <1>1, PTL DEF Spec

(* The type invariant of the model. *)
THEOREM TypeCorrect == Spec => []TypeOK
<1>1. StorageInv => TypeOK
  BY DEF StorageInv
<1> QED BY StorageInit, StorageNext, <1>1, PTL DEF Spec

-----------------------------------------------------------------------------
(* The quota.  While no two uploads are counted at once, the one that is   *)
(* being stored still fits.                                                *)
Fitting ==
    /\ \A r, s \in Storing : r = s
    /\ Storing # {} => Cardinality(Counted) + 1 <= Quota
QuotaInv == ~raced => Fitting /\ Cardinality(Counted) <= Quota

LEMMA CountedFinite == IsFiniteSet(Counted) /\ Cardinality(Counted) \in Nat
<1>1. Counted \subseteq Request
  BY DEF Counted
<1> QED BY <1>1, StorageConstants, FS_Subset, FS_CardinalityType

LEMMA QuotaInit == Init => QuotaInv
<1> SUFFICES ASSUME Init PROVE QuotaInv
  OBVIOUS
<1>1. Counted = {} /\ Storing = {}
  BY DEF Init, Counted, Storing
<1>2. Cardinality(Counted) = 0
  BY <1>1, FS_EmptySet
<1> QED BY <1>1, <1>2, StorageConstants DEF QuotaInv, Fitting

(* Steps that store nothing and count nothing new. *)
LEMMA QuotaShrinks ==
    ASSUME QuotaInv, Storing' \subseteq Storing, Counted' \subseteq Counted,
           raced' = raced
    PROVE  QuotaInv'
<1>1. Cardinality(Counted') \in Nat /\ Cardinality(Counted') <= Cardinality(Counted)
  BY CountedFinite, FS_Subset, FS_CardinalityType
<1>2. Cardinality(Counted)' = Cardinality(Counted')
  OBVIOUS
<1> QED BY <1>1, <1>2, CountedFinite, StorageConstants DEF QuotaInv, Fitting

LEMMA QuotaNext == StorageInv /\ QuotaInv /\ [Next]_vars => QuotaInv'
<1> SUFFICES ASSUME StorageInv, QuotaInv, [Next]_vars PROVE QuotaInv'
  OBVIOUS
<1>types. /\ step \in [Request -> Step]
          /\ row \in [Request -> {None, "READY", "DELETED"}]
          /\ \A r \in Request : step[r] \in {"erase", "mark"} => row[file[r]] # None
  BY DEF StorageInv, TypeOK, Named
<1>1. ASSUME NEW r \in Request, CountQuota(r) PROVE QuotaInv'
  <2>1. Counted' = Counted
    BY <1>1 DEF CountQuota, Counted, rows
  <2>2. CASE Fits(Cardinality(Counted))
    <3>1. step' = [step EXCEPT ![r] = "put"] /\ raced' = (raced \/ Storing # {})
      BY <1>1, <2>2 DEF CountQuota, Goto
    <3>2. Storing' = Storing \cup {r}
      BY <3>1, <1>types DEF Storing
    <3> QED
      BY <2>1, <2>2, <3>1, <3>2, CountedFinite, StorageConstants
         DEF QuotaInv, Fitting, Fits
  <2>3. CASE ~Fits(Cardinality(Counted))
    <3>1. step' = [step EXCEPT ![r] = "done"] /\ raced' = raced
      BY <1>1, <2>3 DEF CountQuota, Goto
    <3>2. Storing' \subseteq Storing
      BY <3>1, <1>types DEF Storing
    <3> QED BY <2>1, <3>1, <3>2, QuotaShrinks
  <2> QED BY <2>2, <2>3
<1>2. ASSUME NEW r \in Request, CreateUpload(r) PROVE QuotaInv'
  <2>1. /\ step[r] = "create" /\ step' = [step EXCEPT ![r] = "done"]
        /\ row' = [row EXCEPT ![r] = "READY"] /\ raced' = raced
    BY <1>2 DEF CreateUpload, Goto
  <2>2. Counted' \subseteq Counted \cup {r} /\ r \in Storing
    BY <2>1, <1>types DEF Counted, Storing
  <2>3. Cardinality(Counted') <= Cardinality(Counted) + 1
    <3>1. /\ IsFiniteSet(Counted \cup {r})
          /\ Cardinality(Counted \cup {r}) <= Cardinality(Counted) + 1
      BY CountedFinite, FS_AddElement
    <3>2. Cardinality(Counted \cup {r}) \in Nat
      BY <3>1, FS_CardinalityType
    <3>3. IsFiniteSet(Counted') /\ Cardinality(Counted') <= Cardinality(Counted \cup {r})
      BY <3>1, <2>2, FS_Subset
    <3>4. Cardinality(Counted') \in Nat
      BY <3>3, FS_CardinalityType
    <3> QED BY <3>1, <3>2, <3>3, <3>4, CountedFinite
  <2>4. Storing' = Storing \ {r}
    BY <2>1, <1>types DEF Storing
  <2>5. Cardinality(Counted') \in Nat
    BY <2>2, CountedFinite, FS_AddElement, FS_Subset, FS_CardinalityType
  <2>6. Cardinality(Counted)' = Cardinality(Counted')
    OBVIOUS
  <2> QED
    BY <2>1, <2>2, <2>3, <2>4, <2>5, <2>6, CountedFinite, StorageConstants
       DEF QuotaInv, Fitting
<1>3. ASSUME NEW r \in Request, MarkUpload(r) PROVE QuotaInv'
  <2>1. Counted' \subseteq Counted
    BY <1>3, <1>types DEF MarkUpload, Counted
  <2>2. Storing' \subseteq Storing /\ raced' = raced
    BY <1>3, <1>types DEF MarkUpload, Storing, Goto, history
  <2> QED BY <2>1, <2>2, QuotaShrinks
<1>4. ASSUME NEW r \in Request, PutUpload(r) PROVE QuotaInv'
  <2>1. Counted' = Counted
    BY <1>4 DEF PutUpload, Counted, rows
  <2>2. Storing' \subseteq Storing /\ raced' = raced
    BY <1>4, <1>types DEF PutUpload, Storing, Goto, history
  <2> QED BY <2>1, <2>2, QuotaShrinks
<1>5. ASSUME NEW r \in Request, NEW s \in Step \ {"put", "create"},
             step' = [step EXCEPT ![r] = s], row' = row, raced' = raced
      PROVE  QuotaInv'
  <2>1. Counted' = Counted /\ Storing' \subseteq Storing
    BY <1>5, <1>types DEF Counted, Storing
  <2> QED BY <2>1, <1>5, QuotaShrinks
<1> USE <1>5 DEF Goto, rows, history, Step, Over
<1>6. ASSUME NEW r \in Request,
             CreateWorkspace(r) \/ CreateSession(r) \/ InsertConversation(r)
                 \/ RemoveWorkspace(r) \/ RemoveSession(r)
      PROVE  QuotaInv'
  BY <1>6 DEF CreateWorkspace, CreateSession, InsertConversation, RemoveWorkspace,
              RemoveSession
<1>6a. ASSUME NEW r \in Request,
             FindToAsk(r) \/ CreateTask(r) \/ CheckTask(r) \/ WriteBelow(r)
      PROVE  QuotaInv'
  BY <1>6a DEF FindToAsk, FindLive, CreateTask, CheckTask, WriteBelow
<1>7. ASSUME NEW r \in Request,
             FindToPatch(r) \/ Patch(r) \/ FindToUpload(r) \/ FindUpload(r) \/ EraseObject(r)
      PROVE  QuotaInv'
  BY <1>7 DEF FindToPatch, FindToUpload, FindLive, Patch, FindUpload, EraseObject
<1>8. ASSUME NEW r \in Request,
             FindToDelete(r) \/ FlagDeleted(r) \/ DeleteSession(r) \/ ListUploads(r)
      PROVE  QuotaInv'
  BY <1>8 DEF FindToDelete, FindLive, FlagDeleted, DeleteSession, ListUploads
<1>9. ASSUME NEW r \in Request, Clean(r) \/ Tombstone(r) \/ Stops(r)
      PROVE  QuotaInv'
  BY <1>9 DEF Clean, Tombstone, Stops
<1>10. CASE UNCHANGED vars
  <2>1. Counted' = Counted /\ Storing' = Storing /\ raced' = raced
    BY <1>10 DEF vars, Counted, Storing
  <2> QED BY <2>1, QuotaShrinks
<1> QED BY <1>1, <1>2, <1>3, <1>4, <1>6, <1>6a, <1>7, <1>8, <1>9, <1>10 DEF Next

(* The quota is exceeded by no request, and no failure, but by uploads     *)
(* that are counted while another one is being stored.                     *)
THEOREM QuotaIsKept == Spec => []QuotaKept
<1>1. QuotaInv => QuotaKept
  BY DEF QuotaInv, QuotaKept
<1> QED BY StorageInit, StorageNext, QuotaInit, QuotaNext, <1>1, PTL DEF Spec

-----------------------------------------------------------------------------
(* Without failures, what is stored and what is in the rows belong         *)
(* together: an object is put before its row, and taken before its row.    *)
StoredInv ==
    faults = 0 =>
        /\ ReadyIsStored
        /\ \A u \in Request :
              /\ step[u] \in {"count", "put", "create"} => row[u] = None
              /\ step[u] = "create" => u \in objects
              /\ u \in objects => step[u] = "create" \/ row[u] # None
        /\ \A r \in Request : step[r] = "clean" =>
              \A u \in found[r] : row[u] # None /\ conv[u] = conv[r]

LEMMA StoredInvInit == Init => StoredInv
BY StorageConstants DEF Init, StoredInv, ReadyIsStored

LEMMA StoredInvNext == StorageInv /\ StoredInv /\ [Next]_vars => StoredInv'
<1> SUFFICES ASSUME StorageInv, StoredInv, [Next]_vars PROVE StoredInv'
  OBVIOUS
<1> USE StorageConstants DEF StorageInv, TypeOK, Named, Alone, Prepared, StoredInv,
        ReadyIsStored, Live, Making, Undoing, Removing, Knowing, Step, Over, Goto, Sound,
        Faulty, rows, outside, history
<1>1. ASSUME NEW r \in Request, CreateWorkspace(r) PROVE StoredInv'
  BY <1>1 DEF CreateWorkspace
<1>2. ASSUME NEW r \in Request, CreateSession(r) PROVE StoredInv'
  BY <1>2 DEF CreateSession
<1>3. ASSUME NEW r \in Request, InsertConversation(r) PROVE StoredInv'
  BY <1>3 DEF InsertConversation
<1>4. ASSUME NEW r \in Request, RemoveWorkspace(r) PROVE StoredInv'
  BY <1>4 DEF RemoveWorkspace
<1>4a. ASSUME NEW r \in Request, RemoveSession(r) PROVE StoredInv'
  BY <1>4a DEF RemoveSession
<1>5. ASSUME NEW r \in Request, FindToPatch(r) PROVE StoredInv'
  BY <1>5 DEF FindToPatch, FindLive
<1>6. ASSUME NEW r \in Request, Patch(r) PROVE StoredInv'
  BY <1>6 DEF Patch
<1>7. ASSUME NEW r \in Request, FindToUpload(r) PROVE StoredInv'
  BY <1>7 DEF FindToUpload, FindLive
<1>8. ASSUME NEW r \in Request, CountQuota(r) PROVE StoredInv'
  BY <1>8 DEF CountQuota
<1>9. ASSUME NEW r \in Request, PutUpload(r) PROVE StoredInv'
  BY <1>9 DEF PutUpload
<1>10. ASSUME NEW r \in Request, CreateUpload(r) PROVE StoredInv'
  BY <1>10 DEF CreateUpload
<1>11. ASSUME NEW r \in Request, FindUpload(r) PROVE StoredInv'
  BY <1>11 DEF FindUpload
<1>12. ASSUME NEW r \in Request, EraseObject(r) PROVE StoredInv'
  BY <1>12 DEF EraseObject
<1>13. ASSUME NEW r \in Request, MarkUpload(r) PROVE StoredInv'
  BY <1>13 DEF MarkUpload
<1>13a. ASSUME NEW r \in Request, FindToAsk(r) PROVE StoredInv'
  BY <1>13a DEF FindToAsk, FindLive
<1>13b. ASSUME NEW r \in Request, CreateTask(r) PROVE StoredInv'
  BY <1>13b DEF CreateTask
<1>13c. ASSUME NEW r \in Request, CheckTask(r) PROVE StoredInv'
  BY <1>13c DEF CheckTask
<1>13d. ASSUME NEW r \in Request, WriteBelow(r) PROVE StoredInv'
  BY <1>13d DEF WriteBelow
<1>14. ASSUME NEW r \in Request, FindToDelete(r) PROVE StoredInv'
  BY <1>14 DEF FindToDelete, FindLive
<1>15. ASSUME NEW r \in Request, FlagDeleted(r) PROVE StoredInv'
  BY <1>15 DEF FlagDeleted, OpenTask
<1>16. ASSUME NEW r \in Request, DeleteSession(r) PROVE StoredInv'
  BY <1>16 DEF DeleteSession
<1>17. ASSUME NEW r \in Request, ListUploads(r) PROVE StoredInv'
  BY <1>17 DEF ListUploads, UploadsOf
<1>18. ASSUME NEW r \in Request, Clean(r) PROVE StoredInv'
  BY <1>18 DEF Clean
<1>19. ASSUME NEW r \in Request, Tombstone(r) PROVE StoredInv'
  BY <1>19 DEF Tombstone
<1>20. ASSUME NEW r \in Request, Stops(r) PROVE StoredInv'
  BY <1>20 DEF Stops, UnderWay
<1>21. CASE UNCHANGED vars
  BY <1>21 DEF vars
<1> QED
  BY <1>1, <1>2, <1>3, <1>4, <1>4a, <1>5, <1>6, <1>7, <1>8, <1>9, <1>10, <1>11,
     <1>12, <1>13, <1>13a, <1>13b, <1>13c, <1>13d, <1>14, <1>15, <1>16, <1>17, <1>18, <1>19, <1>20, <1>21 DEF Next

(* A READY upload of a conversation that is not deleted has its object.    *)
THEOREM UploadsAreStored == Spec => []ReadyIsStored
<1>1. StoredInv => ReadyIsStored
  BY DEF StoredInv, ReadyIsStored
<1> QED BY StorageInit, StorageNext, StoredInvInit, StoredInvNext, <1>1, PTL DEF Spec

-----------------------------------------------------------------------------
(* Without failures, whatever a deleted conversation still has is the next *)
(* thing for some deletion of it to remove.                                *)
Deleting(c, S) == \E r \in Request : step[r] \in S /\ conv[r] = c
CleanInv ==
    faults = 0 =>
        /\ \A c \in deleted :
              /\ status[c] # None
              /\ c \in sessions => Deleting(c, {"close"})
              /\ c \in directories => c \in remade \/ Deleting(c, {"close", "list", "clean"})
        /\ \A u \in objects : conv[u] \in deleted /\ u \notin late =>
              \/ step[u] = "create"
              \/ Deleting(conv[u], {"close", "list"})
              \/ \E r \in Request : step[r] = "clean" /\ u \in found[r]

LEMMA CleanInvInit == Init => CleanInv
BY DEF Init, CleanInv

LEMMA CleanInvNext == StorageInv /\ StoredInv /\ CleanInv /\ [Next]_vars => CleanInv'
<1> SUFFICES ASSUME StorageInv, StoredInv, CleanInv, [Next]_vars PROVE CleanInv'
  OBVIOUS
<1> USE StorageConstants DEF StorageInv, TypeOK, Named, Alone, Prepared, CleanInv, StoredInv,
        Deleting, Live, Making, Undoing, Removing, Knowing, Step, Over, Goto, Sound,
        Faulty, rows, outside, history
<1>1. ASSUME NEW r \in Request, CreateWorkspace(r) PROVE CleanInv'
  <2>1. PICK c \in Conversation :
           /\ \A s \in Request : step[s] # "new" => conv[s] # c
           /\ conv' = [conv EXCEPT ![r] = c]
           /\ directories' = directories \cup {c}
    BY <1>1 DEF CreateWorkspace
  <2>2. faults = 0 => c \notin deleted
    <3>1. status[c] = None
      BY <2>1
    <3> QED BY <3>1
  <2> QED BY <1>1, <2>1, <2>2 DEF CreateWorkspace
<1>2. ASSUME NEW r \in Request, CreateSession(r) PROVE CleanInv'
  BY <1>2 DEF CreateSession
<1>3. ASSUME NEW r \in Request, InsertConversation(r) PROVE CleanInv'
  BY <1>3 DEF InsertConversation
<1>4. ASSUME NEW r \in Request, RemoveWorkspace(r) PROVE CleanInv'
  BY <1>4 DEF RemoveWorkspace
<1>4a. ASSUME NEW r \in Request, RemoveSession(r) PROVE CleanInv'
  BY <1>4a DEF RemoveSession
<1>5. ASSUME NEW r \in Request, FindToPatch(r) PROVE CleanInv'
  BY <1>5 DEF FindToPatch, FindLive
<1>6. ASSUME NEW r \in Request, Patch(r) PROVE CleanInv'
  BY <1>6 DEF Patch
<1>7. ASSUME NEW r \in Request, FindToUpload(r) PROVE CleanInv'
  BY <1>7 DEF FindToUpload, FindLive
<1>8. ASSUME NEW r \in Request, CountQuota(r) PROVE CleanInv'
  BY <1>8 DEF CountQuota
<1>9. ASSUME NEW r \in Request, PutUpload(r) PROVE CleanInv'
  BY <1>9 DEF PutUpload
<1>10. ASSUME NEW r \in Request, CreateUpload(r) PROVE CleanInv'
  BY <1>10 DEF CreateUpload
<1>11. ASSUME NEW r \in Request, FindUpload(r) PROVE CleanInv'
  BY <1>11 DEF FindUpload
<1>12. ASSUME NEW r \in Request, EraseObject(r) PROVE CleanInv'
  BY <1>12 DEF EraseObject
<1>13. ASSUME NEW r \in Request, MarkUpload(r) PROVE CleanInv'
  BY <1>13 DEF MarkUpload
<1>13a. ASSUME NEW r \in Request, FindToAsk(r) PROVE CleanInv'
  BY <1>13a DEF FindToAsk, FindLive
<1>13b. ASSUME NEW r \in Request, CreateTask(r) PROVE CleanInv'
  BY <1>13b DEF CreateTask
<1>13c. ASSUME NEW r \in Request, CheckTask(r) PROVE CleanInv'
  BY <1>13c DEF CheckTask
<1>13d. ASSUME NEW r \in Request, WriteBelow(r) PROVE CleanInv'
  BY <1>13d DEF WriteBelow
<1>14. ASSUME NEW r \in Request, FindToDelete(r) PROVE CleanInv'
  BY <1>14 DEF FindToDelete, FindLive
<1>15. ASSUME NEW r \in Request, FlagDeleted(r) PROVE CleanInv'
  BY <1>15 DEF FlagDeleted, OpenTask
<1>16. ASSUME NEW r \in Request, DeleteSession(r) PROVE CleanInv'
  BY <1>16 DEF DeleteSession
<1>17. ASSUME NEW r \in Request, ListUploads(r) PROVE CleanInv'
  BY <1>17 DEF ListUploads, UploadsOf
<1>18. ASSUME NEW r \in Request, Clean(r) PROVE CleanInv'
  BY <1>18 DEF Clean
<1>19. ASSUME NEW r \in Request, Tombstone(r) PROVE CleanInv'
  BY <1>19 DEF Tombstone
<1>20. ASSUME NEW r \in Request, Stops(r) PROVE CleanInv'
  BY <1>20 DEF Stops, UnderWay
<1>21. CASE UNCHANGED vars
  BY <1>21 DEF vars
<1> QED
  BY <1>1, <1>2, <1>3, <1>4, <1>4a, <1>5, <1>6, <1>7, <1>8, <1>9, <1>10, <1>11,
     <1>12, <1>13, <1>13a, <1>13b, <1>13c, <1>13d, <1>14, <1>15, <1>16, <1>17, <1>18, <1>19, <1>20, <1>21 DEF Next

(* When a deletion is through and no task is under way, only the files     *)
(* whose upload it overtook are left, and a directory a worker made again. *)
THEOREM DeletionCleans == Spec => []DeletedIsClean
<1>1. StorageInv /\ StoredInv /\ CleanInv => DeletedIsClean
  BY DEF StoredInv, CleanInv, DeletedIsClean, Deleting, StorageInv, TypeOK, UnderWay, Over
<1> QED
  BY StorageInit, StorageNext, StoredInvInit, StoredInvNext, CleanInvInit, CleanInvNext,
     <1>1, PTL DEF Spec

-----------------------------------------------------------------------------
(* A creation that is undone counts the failures it has met. *)
UndoneInv ==
    /\ \A c \in sessions : \E r \in Request : step[r] # "new" /\ conv[r] = c
    /\ \A r \in Request :
        /\ step[r] = "session" => conv[r] \notin sessions
        /\ step[r] \in {"undo", "unopen"} => faults >= 1
        /\ step[r] = "unmake" /\ conv[r] \in sessions => conv[r] \in unanswered
        /\ step[r] = "unopen" /\ status[conv[r]] = None => conv[r] \notin directories
        /\ step[r] = "undone" /\ status[conv[r]] = None =>
              /\ conv[r] \notin directories
              /\ conv[r] \in sessions \ unanswered => faults >= 2

LEMMA UndoneInvInit == Init => UndoneInv
BY DEF Init, UndoneInv

LEMMA UndoneInvNext == StorageInv /\ UndoneInv /\ [Next]_vars => UndoneInv'
<1> SUFFICES ASSUME StorageInv, UndoneInv, [Next]_vars PROVE UndoneInv'
  OBVIOUS
<1> USE StorageConstants DEF StorageInv, TypeOK, Named, Alone, Prepared, UndoneInv,
        Live, Making, Undoing, Removing, Knowing, Step, Over, Goto, Sound,
        Faulty, rows, outside, history
<1>1. ASSUME NEW r \in Request, CreateWorkspace(r) PROVE UndoneInv'
  BY <1>1 DEF CreateWorkspace
<1>2. ASSUME NEW r \in Request, CreateSession(r) PROVE UndoneInv'
  BY <1>2 DEF CreateSession
<1>3. ASSUME NEW r \in Request, InsertConversation(r) PROVE UndoneInv'
  BY <1>3 DEF InsertConversation
<1>4. ASSUME NEW r \in Request, RemoveWorkspace(r) PROVE UndoneInv'
  BY <1>4 DEF RemoveWorkspace
<1>4a. ASSUME NEW r \in Request, RemoveSession(r) PROVE UndoneInv'
  BY <1>4a DEF RemoveSession
<1>5. ASSUME NEW r \in Request, FindToPatch(r) PROVE UndoneInv'
  BY <1>5 DEF FindToPatch, FindLive
<1>6. ASSUME NEW r \in Request, Patch(r) PROVE UndoneInv'
  BY <1>6 DEF Patch
<1>7. ASSUME NEW r \in Request, FindToUpload(r) PROVE UndoneInv'
  BY <1>7 DEF FindToUpload, FindLive
<1>8. ASSUME NEW r \in Request, CountQuota(r) PROVE UndoneInv'
  BY <1>8 DEF CountQuota
<1>9. ASSUME NEW r \in Request, PutUpload(r) PROVE UndoneInv'
  BY <1>9 DEF PutUpload
<1>10. ASSUME NEW r \in Request, CreateUpload(r) PROVE UndoneInv'
  BY <1>10 DEF CreateUpload
<1>11. ASSUME NEW r \in Request, FindUpload(r) PROVE UndoneInv'
  BY <1>11 DEF FindUpload
<1>12. ASSUME NEW r \in Request, EraseObject(r) PROVE UndoneInv'
  BY <1>12 DEF EraseObject
<1>13. ASSUME NEW r \in Request, MarkUpload(r) PROVE UndoneInv'
  BY <1>13 DEF MarkUpload
<1>13a. ASSUME NEW r \in Request, FindToAsk(r) PROVE UndoneInv'
  BY <1>13a DEF FindToAsk, FindLive
<1>13b. ASSUME NEW r \in Request, CreateTask(r) PROVE UndoneInv'
  BY <1>13b DEF CreateTask
<1>13c. ASSUME NEW r \in Request, CheckTask(r) PROVE UndoneInv'
  BY <1>13c DEF CheckTask
<1>13d. ASSUME NEW r \in Request, WriteBelow(r) PROVE UndoneInv'
  BY <1>13d DEF WriteBelow
<1>14. ASSUME NEW r \in Request, FindToDelete(r) PROVE UndoneInv'
  BY <1>14 DEF FindToDelete, FindLive
<1>15. ASSUME NEW r \in Request, FlagDeleted(r) PROVE UndoneInv'
  BY <1>15 DEF FlagDeleted, OpenTask
<1>16. ASSUME NEW r \in Request, DeleteSession(r) PROVE UndoneInv'
  BY <1>16 DEF DeleteSession
<1>17. ASSUME NEW r \in Request, ListUploads(r) PROVE UndoneInv'
  BY <1>17 DEF ListUploads, UploadsOf
<1>18. ASSUME NEW r \in Request, Clean(r) PROVE UndoneInv'
  BY <1>18 DEF Clean
<1>19. ASSUME NEW r \in Request, Tombstone(r) PROVE UndoneInv'
  BY <1>19 DEF Tombstone
<1>20. ASSUME NEW r \in Request, Stops(r) PROVE UndoneInv'
  BY <1>20 DEF Stops, UnderWay
<1>21. CASE UNCHANGED vars
  BY <1>21 DEF vars
<1> QED
  BY <1>1, <1>2, <1>3, <1>4, <1>4a, <1>5, <1>6, <1>7, <1>8, <1>9, <1>10, <1>11,
     <1>12, <1>13, <1>13a, <1>13b, <1>13c, <1>13d, <1>14, <1>15, <1>16, <1>17, <1>18, <1>19, <1>20, <1>21 DEF Next

(* A creation that failed and was undone leaves no directory, and no       *)
(* session but one made by a call that failed for its caller.              *)
THEOREM FailedCreationIsUndone == Spec => []RefusedLeavesNothing
<1>1. StorageInv /\ UndoneInv => RefusedLeavesNothing
  BY DEF UndoneInv, RefusedLeavesNothing, StorageInv, TypeOK
<1> QED
  BY StorageInit, StorageNext, UndoneInvInit, UndoneInvNext, <1>1, PTL DEF Spec

(* Directories and sessions agree with the rows, for a conversation that   *)
(* is there and for one that never came to be.                             *)
THEOREM WholeOrNothing == Spec => []WholeOrGone
<1>1. LiveIsComplete /\ RefusedLeavesNothing => WholeOrGone
  BY DEF WholeOrGone
<1> QED BY Complete, FailedCreationIsUndone, <1>1, PTL
=============================================================================
