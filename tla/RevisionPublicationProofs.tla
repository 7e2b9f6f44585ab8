---------------------- MODULE RevisionPublicationProofs ----------------------
(***************************************************************************)
(* Proofs about RevisionPublication, for any number of runs, overlaps,     *)
(* crashes and refused operations.                                         *)
(***************************************************************************)
EXTENDS RevisionPublication, FiniteSetTheorems, SequenceTheorems, TLAPS

-----------------------------------------------------------------------------
(* Numbers.  A run has no row before its commit, and the number it brings  *)
(* there is at most one beyond those that are taken.                       *)
Before == {"idle", "seed", "confirm", "read", "number", "put", "commit"}
Numbered == {"copy", "seal", "convert", "list"}
NumberInv ==
    /\ TypeOK
    /\ NumbersInOrder
    /\ \A w \in Worker :
          /\ pc[w] \in Before => row[w] = 0
          /\ pc[w] \in {"put", "commit"} => number[w] \in 1..(Total + 1)
          /\ pc[w] \in Numbered => row[w] = number[w] /\ row[w] # 0

LEMMA TotalType == IsFiniteSet(Committed) /\ Total \in Nat
<1>1. Committed \subseteq Worker
  BY DEF Committed
<1> QED
  BY <1>1, PublicationConstants, FS_Subset, FS_CardinalityType DEF Total

LEMMA TotalZero == Total = 0 <=> Committed = {}
BY TotalType, FS_EmptySet DEF Total

LEMMA LatestIsTotal ==
    ASSUME TypeOK, NumbersInOrder
    PROVE  Latest = Total
<1>1. CASE Committed = {}
  BY <1>1, TotalZero DEF Latest
<1>2. CASE Committed # {}
  <2> DEFINE P(n) == \A w \in Committed : row[w] <= n
             S == {row[w] : w \in Committed}
  <2>1. Total \in S /\ P(Total)
    BY <1>2, TotalType, TotalZero DEF NumbersInOrder
  <2>2. Latest = CHOOSE n \in S : P(n)
    BY <1>2 DEF Latest
  <2>3. Latest \in S /\ P(Latest)
    BY <2>1, <2>2
  <2>4. \A n \in S : n \in Nat
    BY DEF TypeOK, Committed
  <2> QED BY <2>1, <2>3, <2>4, TotalType
<1> QED BY <1>1, <1>2

LEMMA NumberInit == Init => NumberInv
<1> SUFFICES ASSUME Init PROVE NumberInv
  OBVIOUS
<1>1. TypeOK
  BY PublicationConstants DEF Init, TypeOK, Step, Running, Amount
<1>2. Committed = {}
  BY DEF Init, Committed
<1>3. Total = 0
  BY <1>2, TotalZero
<1>4. NumbersInOrder
  BY <1>2, <1>3 DEF NumbersInOrder, Init
<1> QED BY <1>1, <1>4 DEF NumberInv, Init, Before, Numbered

(* What a commit does to the numbers. *)
LEMMA CommitNumbers ==
    ASSUME NumberInv, NEW w \in Worker, Commit(w)
    PROVE  /\ number[w] = Total + 1
           /\ Committed' = Committed \cup {w}
           /\ Total' = Total + 1
           /\ w \notin Committed
<1>1. /\ row' = [row EXCEPT ![w] = number[w]]
      /\ NumberFree(number[w]) /\ row[w] = 0
      /\ number[w] \in 1..(Total + 1)
  BY DEF Commit, NumberInv, Before
<1>2. \A n \in 1..Total : \E v \in Worker : row[v] = n
  BY DEF NumberInv, NumbersInOrder, Committed
<1>3. number[w] = Total + 1
  BY <1>1, <1>2, TotalType DEF NumberFree
<1>4. Committed' = Committed \cup {w} /\ w \notin Committed
  BY <1>1, <1>3, TotalType DEF Committed, NumberInv, TypeOK
<1>5. Cardinality(Committed \cup {w}) = Total + 1
  BY <1>4, TotalType, FS_AddElement DEF Total
<1> QED BY <1>3, <1>4, <1>5 DEF Total

(* One more row, with the next number, keeps them in order. *)
LEMMA OneMoreNumber ==
    ASSUME NumberInv, NEW w \in Worker, w \notin Committed, Committed' = Committed \cup {w},
           row' = [row EXCEPT ![w] = Total + 1], current' = w, Total' = Total + 1
    PROVE  NumbersInOrder'
<1>1. row'[w] = Total + 1
  BY DEF NumberInv, TypeOK
<1>2. \A v \in Committed : v # w /\ row'[v] = row[v] /\ row[v] \in Nat /\ row[v] <= Total
  BY DEF NumberInv, TypeOK, Committed, NumbersInOrder
<1>3. \A v \in Committed' : row'[v] <= Total'
  BY <1>1, <1>2, TotalType
<1>4. ASSUME NEW n \in 1..Total' PROVE \E v \in Committed' : row'[v] = n
  <2>1. CASE n = Total + 1
    BY <1>1, <2>1
  <2>2. CASE n # Total + 1
    <3>1. n \in 1..Total
      BY <2>2, TotalType
    <3>2. PICK v \in Committed : row[v] = n
      BY <3>1 DEF NumberInv, NumbersInOrder
    <3> QED BY <3>2, <1>2
  <2> QED BY <2>1, <2>2
<1>5. ASSUME NEW u \in Committed', NEW v \in Committed', row'[u] = row'[v] PROVE u = v
  <2>1. CASE u \in Committed /\ v \in Committed
    BY <1>2, <1>5, <2>1 DEF NumberInv, NumbersInOrder
  <2>2. CASE u = w \/ v = w
    BY <1>1, <1>2, <1>5, <2>2, TotalType
  <2> QED BY <2>1, <2>2
<1>6. Committed' # {} /\ current' \in Committed' /\ row'[current'] = Total'
  BY <1>1
<1> QED BY <1>3, <1>4, <1>5, <1>6 DEF NumbersInOrder

(* Steps that leave the rows alone leave the numbers alone. *)
LEMMA SameNumbers ==
    ASSUME NumbersInOrder, row' = row, current' = current
    PROVE  NumbersInOrder' /\ Committed' = Committed /\ Total' = Total
<1>1. Committed' = Committed
  BY DEF Committed
<1>2. Total' = Total
  BY <1>1 DEF Total
<1> QED BY <1>1, <1>2 DEF NumbersInOrder

(* Nor do they disturb the numbers of runs that keep theirs. *)
LEMMA NumbersKept ==
    ASSUME NumberInv, row' = row, current' = current, TypeOK',
           \A w \in Worker :
              /\ pc'[w] \in Before => pc[w] \in Before
              /\ pc'[w] \in {"put", "commit"} =>
                    \/ pc[w] \in {"put", "commit"} /\ number'[w] = number[w]
                    \/ number'[w] = Total + 1
              /\ pc'[w] \in Numbered =>
                    pc[w] \in Numbered /\ number'[w] = number[w]
    PROVE  NumberInv'
BY SameNumbers, TotalType DEF NumberInv

LEMMA NumberNext == NumberInv /\ [Next]_vars => NumberInv'
<1> SUFFICES ASSUME NumberInv, [Next]_vars PROVE NumberInv'
  OBVIOUS
<1> USE PublicationConstants DEF NumberInv, TypeOK, Step, Running, Amount, Before, Numbered,
        Goto, Sound, Faulty, store, conversion, tree, deletion, bounds
<1>1. ASSUME NEW w \in Worker, Start(w) PROVE NumberInv'
  BY <1>1, NumbersKept DEF Start, Committed
<1>2. ASSUME NEW w \in Worker, Seed(w) PROVE NumberInv'
  BY <1>2, NumbersKept DEF Seed, HasDirectory
<1>3. ASSUME NEW w \in Worker, Confirm(w) PROVE NumberInv'
  BY <1>3, NumbersKept DEF Confirm
<1>4. ASSUME NEW w \in Worker, Abandon(w) PROVE NumberInv'
  BY <1>4, NumbersKept DEF Abandon
<1>5. ASSUME NEW w \in Worker, ReadFiles(w) PROVE NumberInv'
  BY <1>5, NumbersKept DEF ReadFiles
<1>6. ASSUME NEW w \in Worker, ReadNumber(w) PROVE NumberInv'
  <2>1. Latest = Total /\ Latest \in Nat
    BY LatestIsTotal, TotalType
  <2> QED BY <1>6, <2>1, NumbersKept DEF ReadNumber
<1>7. ASSUME NEW w \in Worker, PutObjects(w) PROVE NumberInv'
  BY <1>7, NumbersKept DEF PutObjects
<1>8. ASSUME NEW w \in Worker, Commit(w) PROVE NumberInv'
  <2>1. TypeOK'
    BY <1>8 DEF Commit
  <2>2. NumbersInOrder'
    <3>1. row' = [row EXCEPT ![w] = number[w]] /\ current' = w
      BY <1>8 DEF Commit
    <3> QED BY <1>8, <3>1, CommitNumbers, OneMoreNumber
  <2>3. \A v \in Worker : v # w => pc'[v] = pc[v] /\ row'[v] = row[v]
    BY <1>8 DEF Commit
  <2>4. pc'[w] = "copy" /\ row'[w] = number[w] /\ number' = number
    BY <1>8 DEF Commit
  <2>5. number[w] = Total + 1 /\ Total' = Total + 1
    BY <1>8, CommitNumbers
  <2> QED BY <2>1, <2>2, <2>3, <2>4, <2>5, TotalType
<1>9. ASSUME NEW w \in Worker, CommitFails(w) PROVE NumberInv'
  BY <1>9, NumbersKept DEF CommitFails
<1>10. ASSUME NEW w \in Worker, FreezeCopy(w) PROVE NumberInv'
  BY <1>10, NumbersKept DEF FreezeCopy
<1>11. ASSUME NEW w \in Worker, FreezeSeal(w) PROVE NumberInv'
  <2>1. /\ pc[w] = "seal"
        /\ \E s \in {"convert", "announce", "undo"} : pc' = [pc EXCEPT ![w] = s]
        /\ UNCHANGED <<parent, number, row, current, objects, scripts, converted, work,
                       copied, deleted, aborted, cleanup, listed, listedScripts, status,
                       lapses, crashes>>
    BY <1>11 DEF FreezeSeal
  <2>2. sealed' = sealed \/ sealed' = sealed \cup {number[w]}
    BY <1>11 DEF FreezeSeal
  <2>3. faults' = faults \/ faults' = faults + 1
    BY <1>11 DEF FreezeSeal
  <2>4. sealed' \subseteq Nat
    <3>1. number[w] \in Nat
      OBVIOUS
    <3> QED BY <2>2, <3>1
  <2>6. faults' \in Nat
    BY <2>3
  <2>5. TypeOK'
    BY <2>1, <2>4, <2>6
  <2> QED BY <2>1, <2>5, NumbersKept
<1>12. ASSUME NEW w \in Worker, Undo(w) PROVE NumberInv'
  BY <1>12, NumbersKept DEF Undo
<1>13. ASSUME NEW w \in Worker, Finish(w) PROVE NumberInv'
  BY <1>13, NumbersKept DEF Finish, Outcome
<1>14. ASSUME NEW w \in Worker, Crash(w) PROVE NumberInv'
  BY <1>14, NumbersKept DEF Crash, Running
<1>15. ASSUME MarkDeleted PROVE NumberInv'
  BY <1>15, NumbersKept DEF MarkDeleted
<1>16. ASSUME ListObjects PROVE NumberInv'
  <2>1. Committed \subseteq Worker
    BY DEF Committed
  <2> QED BY <1>16, <2>1, NumbersKept DEF ListObjects
<1>17. ASSUME NEW w \in Worker, DeleteObjects(w) PROVE NumberInv'
  BY <1>17, NumbersKept DEF DeleteObjects
<1>18. ASSUME RemoveWorkspace PROVE NumberInv'
  <2>1. /\ UNCHANGED <<pc, parent, number, row, current, objects, scripts, converted,
                        deleted, aborted, cleanup, listedScripts, status, lapses, crashes>>
        /\ listed' = listed \ {None}
    BY <1>18 DEF RemoveWorkspace
  <2>2. \/ work' = {} /\ copied' = {} /\ sealed' = {} /\ faults' = faults
        \/ work' = work /\ copied' = copied /\ sealed' = sealed /\ faults' = faults + 1
    BY <1>18 DEF RemoveWorkspace
  <2>3. work' \subseteq Worker /\ sealed' \subseteq Nat
    BY <2>2
  <2>5. copied' \subseteq Nat \X Worker
    BY <2>2
  <2>6. faults' \in Nat /\ listed' \subseteq Worker \cup {None}
    BY <2>1, <2>2
  <2>4. TypeOK'
    BY <2>1, <2>3, <2>5, <2>6
  <2> QED BY <2>1, <2>4, NumbersKept
<1>19. ASSUME Tombstone PROVE NumberInv'
  BY <1>19, NumbersKept DEF Tombstone
<1>20. ASSUME NEW w \in Worker, Convert(w) PROVE NumberInv'
  BY <1>20, NumbersKept DEF Convert
<1>21. ASSUME NEW w \in Worker, ListScript(w) PROVE NumberInv'
  BY <1>21, NumbersKept DEF ListScript
<1>22. ASSUME NEW w \in Worker, DeleteScript(w) PROVE NumberInv'
  BY <1>22, NumbersKept DEF DeleteScript
<1>23. CASE UNCHANGED vars
  BY <1>23, NumbersKept DEF vars
<1> QED
  BY <1>1, <1>2, <1>3, <1>4, <1>5, <1>6, <1>7, <1>8, <1>9, <1>10, <1>11,
     <1>12, <1>13, <1>14, <1>15, <1>16, <1>17, <1>18, <1>19, <1>20, <1>21, <1>22, <1>23
     DEF Next, Publishing, Converting, Delete

(* The type invariant of the model. *)
THEOREM TypeCorrect == Spec => []TypeOK
<1>1. NumberInv => TypeOK
  BY DEF NumberInv
<1> QED BY NumberInit, NumberNext, <1>1, PTL DEF Spec

(* The revisions of a conversation are numbered 1, 2, 3, ... and the       *)
(* current one is the last, however many runs compute their numbers side   *)
(* by side.                                                                *)
THEOREM RevisionsAreNumbered == Spec => []NumbersInOrder
<1>1. NumberInv => NumbersInOrder
  BY DEF NumberInv
<1> QED BY NumberInit, NumberNext, <1>1, PTL DEF Spec

-----------------------------------------------------------------------------
(* Directories.  Whoever copies into the place of a number has committed   *)
(* that number, and has not been there before.                             *)
FreezeInv ==
    /\ FrozenByItsOwner
    /\ \A d \in copied : d[1] # 0 /\ pc[d[2]] \notin Before \cup {"copy"}
    /\ \A w \in Worker : pc[w] = "seal" => number[w] \notin sealed

LEMMA FreezeInvInit == Init => FreezeInv
BY DEF Init, FreezeInv, FrozenByItsOwner

LEMMA OwnNumber ==
    ASSUME NumberInv, NEW v \in Worker, NEW w \in Worker, row[v] = row[w], row[v] # 0
    PROVE  v = w
BY DEF NumberInv, NumbersInOrder, Committed

LEMMA FreezeInvNext == NumberInv /\ FreezeInv /\ [Next]_vars => FreezeInv'
<1> SUFFICES ASSUME NumberInv, FreezeInv, [Next]_vars PROVE FreezeInv'
  OBVIOUS
<1> USE PublicationConstants DEF NumberInv, TypeOK, Before, Numbered, Running, Goto, Sound, Faulty,
        store, conversion, tree, deletion, bounds, FreezeInv, FrozenByItsOwner
<1>1. ASSUME NEW w \in Worker, Start(w) PROVE FreezeInv'
  BY <1>1, OwnNumber DEF Start, Running
<1>2. ASSUME NEW w \in Worker, Seed(w) PROVE FreezeInv'
  BY <1>2, OwnNumber DEF Seed, HasDirectory
<1>3. ASSUME NEW w \in Worker, Confirm(w) PROVE FreezeInv'
  BY <1>3, OwnNumber DEF Confirm
<1>4. ASSUME NEW w \in Worker, Abandon(w) PROVE FreezeInv'
  BY <1>4, OwnNumber DEF Abandon
<1>5. ASSUME NEW w \in Worker, ReadFiles(w) PROVE FreezeInv'
  BY <1>5, OwnNumber DEF ReadFiles
<1>6. ASSUME NEW w \in Worker, ReadNumber(w) PROVE FreezeInv'
  BY <1>6, OwnNumber DEF ReadNumber
<1>7. ASSUME NEW w \in Worker, PutObjects(w) PROVE FreezeInv'
  BY <1>7, OwnNumber DEF PutObjects
<1>8. ASSUME NEW w \in Worker, Commit(w) PROVE FreezeInv'
  BY <1>8, OwnNumber DEF Commit, NumberFree
<1>9. ASSUME NEW w \in Worker, CommitFails(w) PROVE FreezeInv'
  BY <1>9, OwnNumber DEF CommitFails
<1>10. ASSUME NEW w \in Worker, FreezeCopy(w) PROVE FreezeInv'
  BY <1>10, OwnNumber DEF FreezeCopy
<1>11. ASSUME NEW w \in Worker, FreezeSeal(w) PROVE FreezeInv'
  <2>1. \A v \in Worker : pc[v] = "seal" /\ v # w => number[v] # number[w]
    BY <1>11, OwnNumber DEF FreezeSeal
  <2>2. \/ sealed' = sealed
        \/ /\ <<number[w], w>> \in copied /\ sealed' = sealed \cup {number[w]}
           /\ \E s \in {"convert", "announce"} : pc' = [pc EXCEPT ![w] = s]
    BY <1>11 DEF FreezeSeal
  <2>3. /\ \E s \in {"convert", "announce", "undo"} : pc' = [pc EXCEPT ![w] = s]
        /\ UNCHANGED <<number, row, copied>>
    BY <1>11 DEF FreezeSeal
  <2>4. /\ \A d \in copied' : row'[d[2]] = d[1]
        /\ \A v \in Worker : pc'[v] = "copy" => \A d \in copied' : d[1] # number'[v]
    BY <2>3
  <2>5. \A n \in sealed' : \E d \in copied' : d[1] = n
    <3> SUFFICES ASSUME NEW n \in sealed' PROVE \E d \in copied : d[1] = n
      BY <2>3
    <3>1. CASE n \in sealed
      BY <3>1
    <3>2. CASE n \notin sealed
      <4>1. <<number[w], w>> \in copied /\ n = number[w]
        BY <3>2, <2>2
      <4>2. <<number[w], w>>[1] = n
        BY <4>1
      <4> QED BY <4>1, <4>2
    <3> QED BY <3>1, <3>2
  <2>6. \A d \in copied' : d[1] # 0 /\ pc'[d[2]] \notin Before \cup {"copy"}
    BY <2>3
  <2>7. \A v \in Worker : pc'[v] = "seal" => number'[v] \notin sealed'
    BY <2>1, <2>2, <2>3
  <2> QED BY <2>4, <2>5, <2>6, <2>7
<1>12. ASSUME NEW w \in Worker, Undo(w) PROVE FreezeInv'
  BY <1>12, OwnNumber DEF Undo
<1>13. ASSUME NEW w \in Worker, Finish(w) PROVE FreezeInv'
  BY <1>13, OwnNumber DEF Finish, Outcome
<1>14. ASSUME NEW w \in Worker, Crash(w) PROVE FreezeInv'
  BY <1>14, OwnNumber DEF Crash, Running
<1>15. ASSUME MarkDeleted PROVE FreezeInv'
  BY <1>15, OwnNumber DEF MarkDeleted
<1>16. ASSUME ListObjects PROVE FreezeInv'
  BY <1>16, OwnNumber DEF ListObjects
<1>17. ASSUME NEW w \in Worker, DeleteObjects(w) PROVE FreezeInv'
  BY <1>17, OwnNumber DEF DeleteObjects
<1>18. ASSUME RemoveWorkspace PROVE FreezeInv'
  BY <1>18, OwnNumber DEF RemoveWorkspace
<1>19. ASSUME Tombstone PROVE FreezeInv'
  BY <1>19, OwnNumber DEF Tombstone
<1>20. ASSUME NEW w \in Worker, Convert(w) PROVE FreezeInv'
  BY <1>20, OwnNumber DEF Convert
<1>21. ASSUME NEW w \in Worker, ListScript(w) PROVE FreezeInv'
  BY <1>21, OwnNumber DEF ListScript
<1>22. ASSUME NEW w \in Worker, DeleteScript(w) PROVE FreezeInv'
  BY <1>22, OwnNumber DEF DeleteScript
<1>23. CASE UNCHANGED vars
  BY <1>23, OwnNumber DEF vars
<1> QED
  BY <1>1, <1>2, <1>3, <1>4, <1>5, <1>6, <1>7, <1>8, <1>9, <1>10, <1>11,
     <1>12, <1>13, <1>14, <1>15, <1>16, <1>17, <1>18, <1>19, <1>20, <1>21, <1>22, <1>23
     DEF Next, Publishing, Converting, Delete

(* A frozen directory belongs to the revision whose number it carries.     *)
THEOREM DirectoriesAreOwned == Spec => []FrozenByItsOwner
<1>1. FreezeInv => FrozenByItsOwner
  BY DEF FreezeInv
<1> QED BY NumberInit, NumberNext, FreezeInvInit, FreezeInvNext, <1>1, PTL DEF Spec

-----------------------------------------------------------------------------
(* Objects.  Without refused operations a run undoes its puts exactly when *)
(* it has no row, as long as the directories are there.                    *)
ObjectInv ==
    /\ cleanup # "idle" \/ listed # {} \/ listedScripts # {} => deleted
    /\ \A w \in scripts : row[w] # 0
    /\ ~deleted => \A w \in Worker : w \in converted \/ pc[w] = "list" => w \in scripts
    /\ ~deleted => \A w \in Worker :
          pc[w] \in {"confirm", "read", "number", "put", "commit", "copy"} => w \in work
    /\ faults = 0 => \A w \in Worker :
          /\ row[w] = 0 /\ pc[w] \notin {"commit", "undo", "lost"} => objects[w] = "none"
          /\ ~deleted /\ (row[w] # 0 \/ pc[w] = "commit") => objects[w] = "all"
          /\ ~deleted /\ row[w] # 0 => pc[w] \notin {"undo", "fail", "cancel"}
          /\ ~deleted /\ pc[w] = "seal" => <<number[w], w>> \in copied

LEMMA ObjectInvInit == Init => ObjectInv
BY DEF Init, ObjectInv

LEMMA ObjectInvNext == NumberInv /\ FreezeInv /\ ObjectInv /\ [Next]_vars => ObjectInv'
<1> SUFFICES ASSUME NumberInv, FreezeInv, ObjectInv, [Next]_vars PROVE ObjectInv'
  OBVIOUS
<1> USE PublicationConstants DEF NumberInv, TypeOK, Before, Numbered, Running, Goto, Sound, Faulty,
        store, conversion, tree, deletion, bounds, FreezeInv, FrozenByItsOwner,
        ObjectInv, Committed
<1>1. ASSUME NEW w \in Worker, Start(w) PROVE ObjectInv'
  BY <1>1 DEF Start, Running
<1>2. ASSUME NEW w \in Worker, Seed(w) PROVE ObjectInv'
  BY <1>2 DEF Seed, HasDirectory
<1>3. ASSUME NEW w \in Worker, Confirm(w) PROVE ObjectInv'
  BY <1>3 DEF Confirm
<1>4. ASSUME NEW w \in Worker, Abandon(w) PROVE ObjectInv'
  BY <1>4 DEF Abandon
<1>5. ASSUME NEW w \in Worker, ReadFiles(w) PROVE ObjectInv'
  BY <1>5 DEF ReadFiles
<1>6. ASSUME NEW w \in Worker, ReadNumber(w) PROVE ObjectInv'
  <2>1. /\ pc[w] = "number" /\ pc' = [pc EXCEPT ![w] = "put"]
        /\ \A v \in Worker : v # w => number'[v] = number[v]
        /\ UNCHANGED <<row, objects, scripts, converted, work, copied, deleted, cleanup,
                       listed, listedScripts, faults>>
    BY <1>6 DEF ReadNumber
  <2>2. \A v \in Worker : pc'[v] = IF v = w THEN "put" ELSE pc[v]
    BY <2>1
  <2>3. ~deleted' => \A v \in Worker :
           pc'[v] \in {"confirm", "read", "number", "put", "commit", "copy"} => v \in work'
    BY <2>1, <2>2
  <2>4. faults' = 0 => \A v \in Worker :
           /\ row'[v] = 0 /\ pc'[v] \notin {"commit", "undo", "lost"} => objects'[v] = "none"
           /\ ~deleted' /\ (row'[v] # 0 \/ pc'[v] = "commit") => objects'[v] = "all"
           /\ ~deleted' /\ row'[v] # 0 => pc'[v] \notin {"undo", "fail", "cancel"}
    BY <2>1, <2>2
  <2>5. ~deleted' /\ faults' = 0 => \A v \in Worker :
           pc'[v] = "seal" => <<number'[v], v>> \in copied'
    BY <2>1, <2>2
  <2> QED BY <2>1, <2>2, <2>3, <2>4, <2>5
<1>7. ASSUME NEW w \in Worker, PutObjects(w) PROVE ObjectInv'
  BY <1>7 DEF PutObjects
<1>8. ASSUME NEW w \in Worker, Commit(w) PROVE ObjectInv'
  BY <1>8 DEF Commit, NumberFree
<1>9. ASSUME NEW w \in Worker, CommitFails(w) PROVE ObjectInv'
  BY <1>9 DEF CommitFails
<1>10. ASSUME NEW w \in Worker, FreezeCopy(w) PROVE ObjectInv'
  BY <1>10 DEF FreezeCopy
<1>11. ASSUME NEW w \in Worker, FreezeSeal(w) PROVE ObjectInv'
  BY <1>11 DEF FreezeSeal
<1>12. ASSUME NEW w \in Worker, Undo(w) PROVE ObjectInv'
  BY <1>12 DEF Undo
<1>13. ASSUME NEW w \in Worker, Finish(w) PROVE ObjectInv'
  BY <1>13 DEF Finish, Outcome
<1>14. ASSUME NEW w \in Worker, Crash(w) PROVE ObjectInv'
  BY <1>14 DEF Crash, Running
<1>15. ASSUME MarkDeleted PROVE ObjectInv'
  BY <1>15 DEF MarkDeleted
<1>16. ASSUME ListObjects PROVE ObjectInv'
  BY <1>16 DEF ListObjects
<1>17. ASSUME NEW w \in Worker, DeleteObjects(w) PROVE ObjectInv'
  BY <1>17 DEF DeleteObjects
<1>18. ASSUME RemoveWorkspace PROVE ObjectInv'
  BY <1>18 DEF RemoveWorkspace
<1>19. ASSUME Tombstone PROVE ObjectInv'
  BY <1>19 DEF Tombstone
<1>20. ASSUME NEW w \in Worker, Convert(w) PROVE ObjectInv'
  BY <1>20 DEF Convert
<1>21. ASSUME NEW w \in Worker, ListScript(w) PROVE ObjectInv'
  BY <1>21 DEF ListScript
<1>22. ASSUME NEW w \in Worker, DeleteScript(w) PROVE ObjectInv'
  BY <1>22 DEF DeleteScript
<1>23. CASE UNCHANGED vars
  BY <1>23 DEF vars
<1> QED
  BY <1>1, <1>2, <1>3, <1>4, <1>5, <1>6, <1>7, <1>8, <1>9, <1>10, <1>11,
     <1>12, <1>13, <1>14, <1>15, <1>16, <1>17, <1>18, <1>19, <1>20, <1>21, <1>22, <1>23
     DEF Next, Publishing, Converting, Delete

(* What is listed for a live conversation is stored.                       *)
THEOREM ListedRevisionsAreStored == Spec => []ListedIsStored
<1>1. ObjectInv => ListedIsStored
  BY DEF ObjectInv, ListedIsStored, Listed, Readable, Committed
<1> QED
  BY NumberInit, NumberNext, FreezeInvInit, FreezeInvNext, ObjectInvInit, ObjectInvNext,
     <1>1, PTL DEF Spec

(* A run that ends without a revision leaves no object behind.             *)
THEOREM NoOrphans == Spec => []NothingOrphaned
<1>1. ObjectInv => NothingOrphaned
  BY DEF ObjectInv, NothingOrphaned, Committed
<1> QED
  BY NumberInit, NumberNext, FreezeInvInit, FreezeInvNext, ObjectInvInit, ObjectInvNext,
     <1>1, PTL DEF Spec

-----------------------------------------------------------------------------
(* Parents.  While runs do not overlap and none is cut short, a revision   *)
(* is frozen before the next run starts.                                   *)
ParentInv ==
    ~deleted /\ faults = 0 /\ crashes = 0 /\ lapses = 0 =>
        /\ \A v, w \in Worker : pc[v] \in Running /\ pc[w] \in Running => v = w
        /\ \A w \in Worker : row[w] # 0 => pc[w] \in {"copy", "seal"} \/ row[w] \in sealed
        /\ \A w \in Worker :
              pc[w] = "seed" /\ parent[w] # None => row[parent[w]] \in sealed

LEMMA ParentInvInit == Init => ParentInv
BY DEF Init, ParentInv, Running

LEMMA SealedIsNumber == ASSUME FreezeInv PROVE 0 \notin sealed
BY DEF FreezeInv, FrozenByItsOwner

LEMMA ParentInvNext == NumberInv /\ FreezeInv /\ ObjectInv /\ ParentInv /\ [Next]_vars => ParentInv'
<1> SUFFICES ASSUME NumberInv, FreezeInv, ObjectInv, ParentInv, [Next]_vars PROVE ParentInv'
  OBVIOUS
<1> USE PublicationConstants DEF NumberInv, TypeOK, Before, Numbered, Running, Goto, Sound, Faulty,
        store, conversion, tree, deletion, bounds, FreezeInv, FrozenByItsOwner,
        ObjectInv, ParentInv, Committed
<1>1. ASSUME NEW w \in Worker, Start(w) PROVE ParentInv'
  BY <1>1, SealedIsNumber DEF Start, Running
<1>2. ASSUME NEW w \in Worker, Seed(w) PROVE ParentInv'
  BY <1>2, SealedIsNumber DEF Seed, HasDirectory
<1>3. ASSUME NEW w \in Worker, Confirm(w) PROVE ParentInv'
  BY <1>3, SealedIsNumber DEF Confirm
<1>4. ASSUME NEW w \in Worker, Abandon(w) PROVE ParentInv'
  BY <1>4, SealedIsNumber DEF Abandon
<1>5. ASSUME NEW w \in Worker, ReadFiles(w) PROVE ParentInv'
  BY <1>5, SealedIsNumber DEF ReadFiles
<1>6. ASSUME NEW w \in Worker, ReadNumber(w) PROVE ParentInv'
  BY <1>6, SealedIsNumber DEF ReadNumber
<1>7. ASSUME NEW w \in Worker, PutObjects(w) PROVE ParentInv'
  BY <1>7, SealedIsNumber DEF PutObjects
<1>8. ASSUME NEW w \in Worker, Commit(w) PROVE ParentInv'
  BY <1>8, SealedIsNumber DEF Commit, NumberFree
<1>9. ASSUME NEW w \in Worker, CommitFails(w) PROVE ParentInv'
  BY <1>9, SealedIsNumber DEF CommitFails
<1>10. ASSUME NEW w \in Worker, FreezeCopy(w) PROVE ParentInv'
  BY <1>10, SealedIsNumber DEF FreezeCopy
<1>11. ASSUME NEW w \in Worker, FreezeSeal(w) PROVE ParentInv'
  BY <1>11, SealedIsNumber DEF FreezeSeal
<1>12. ASSUME NEW w \in Worker, Undo(w) PROVE ParentInv'
  BY <1>12, SealedIsNumber DEF Undo
<1>13. ASSUME NEW w \in Worker, Finish(w) PROVE ParentInv'
  BY <1>13, SealedIsNumber DEF Finish, Outcome
<1>14. ASSUME NEW w \in Worker, Crash(w) PROVE ParentInv'
  BY <1>14, SealedIsNumber DEF Crash, Running
<1>15. ASSUME MarkDeleted PROVE ParentInv'
  BY <1>15, SealedIsNumber DEF MarkDeleted
<1>16. ASSUME ListObjects PROVE ParentInv'
  BY <1>16, SealedIsNumber DEF ListObjects
<1>17. ASSUME NEW w \in Worker, DeleteObjects(w) PROVE ParentInv'
  BY <1>17, SealedIsNumber DEF DeleteObjects
<1>18. ASSUME RemoveWorkspace PROVE ParentInv'
  BY <1>18, SealedIsNumber DEF RemoveWorkspace
<1>19. ASSUME Tombstone PROVE ParentInv'
  BY <1>19, SealedIsNumber DEF Tombstone
<1>20. ASSUME NEW w \in Worker, Convert(w) PROVE ParentInv'
  BY <1>20, SealedIsNumber DEF Convert
<1>21. ASSUME NEW w \in Worker, ListScript(w) PROVE ParentInv'
  BY <1>21, SealedIsNumber DEF ListScript
<1>22. ASSUME NEW w \in Worker, DeleteScript(w) PROVE ParentInv'
  BY <1>22, SealedIsNumber DEF DeleteScript
<1>23. CASE UNCHANGED vars
  BY <1>23, SealedIsNumber DEF vars
<1> QED
  BY <1>1, <1>2, <1>3, <1>4, <1>5, <1>6, <1>7, <1>8, <1>9, <1>10, <1>11,
     <1>12, <1>13, <1>14, <1>15, <1>16, <1>17, <1>18, <1>19, <1>20, <1>21, <1>22, <1>23
     DEF Next, Publishing, Converting, Delete

(* The revision a run starts from has been frozen completely.              *)
THEOREM ParentsAreFrozen == Spec => []ParentIsFrozen
<1>1. ParentInv => ParentIsFrozen
  BY DEF ParentInv, ParentIsFrozen
<1> QED
  BY NumberInit, NumberNext, FreezeInvInit, FreezeInvNext, ObjectInvInit, ObjectInvNext,
     ParentInvInit, ParentInvNext, <1>1, PTL DEF Spec

-----------------------------------------------------------------------------
(* The refinement.  The rows, in the order of their numbers, are a history *)
(* without repeats, and a commit appends to it.                            *)
Ordered ==
    /\ Log \in Seq(Worker) /\ Len(Log) = Total
    /\ \A n \in 1..Total : Log[n] \in Committed /\ row[Log[n]] = n

LEMMA LogIsSequence == NumberInv => Ordered
<1> SUFFICES ASSUME NumberInv PROVE Ordered
  OBVIOUS
<1>1. \A n \in 1..Total : \E w \in Committed : row[w] = n
  BY DEF NumberInv, NumbersInOrder
<1>2. \A n \in 1..Total : Log[n] \in Committed /\ row[Log[n]] = n
  BY <1>1 DEF Log
<1>3. Committed \subseteq Worker
  BY DEF Committed
<1>4. Log \in [1..Total -> Worker]
  BY <1>2, <1>3 DEF Log
<1> QED BY <1>2, <1>4, TotalType DEF Ordered

LEMMA LogStays ==
    ASSUME row' = row
    PROVE  Log' = Log
<1>1. Committed' = Committed
  BY DEF Committed
<1> QED BY <1>1 DEF Log, Total

LEMMA CommitAppends ==
    ASSUME NumberInv, NumberInv', NEW w \in Worker, Commit(w)
    PROVE  Log' = Append(Log, w)
<1>1. /\ number[w] = Total + 1 /\ Committed' = Committed \cup {w}
      /\ Total' = Total + 1 /\ w \notin Committed
  BY CommitNumbers
<1>2. row' = [row EXCEPT ![w] = number[w]] /\ row \in [Worker -> Nat]
  BY DEF Commit, NumberInv, TypeOK
<1>3. /\ Log \in Seq(Worker) /\ Len(Log) = Total
      /\ \A n \in 1..Total : Log[n] \in Committed /\ row[Log[n]] = n
  BY LogIsSequence DEF Ordered
<1>4. /\ Log' \in Seq(Worker) /\ Len(Log') = Total'
      /\ \A n \in 1..Total' : Log'[n] \in Committed' /\ row'[Log'[n]] = n
  <2>1. Ordered'
    BY LogIsSequence, PTL
  <2> QED BY <2>1 DEF Ordered
<1>5. /\ Append(Log, w) \in Seq(Worker) /\ Len(Append(Log, w)) = Total + 1
      /\ \A n \in 1..Total : Append(Log, w)[n] = Log[n]
      /\ Append(Log, w)[Total + 1] = w
  BY <1>3, TotalType, AppendProperties
<1>6. \A u, v \in Committed' : row'[u] = row'[v] => u = v
  BY DEF NumberInv, NumbersInOrder
<1>7. ASSUME NEW n \in 1..(Total + 1)
      PROVE  Log'[n] = Append(Log, w)[n]
  <2>1. Log'[n] \in Committed' /\ row'[Log'[n]] = n
    BY <1>1, <1>4
  <2>2. CASE n = Total + 1
    BY <2>1, <2>2, <1>1, <1>2, <1>5, <1>6
  <2>3. CASE n \in 1..Total
    <3>1. Log[n] \in Committed /\ row[Log[n]] = n
      BY <2>3, <1>3
    <3>2. Log[n] \in Committed' /\ row'[Log[n]] = n
      BY <3>1, <1>1, <1>2
    <3> QED BY <2>1, <2>3, <3>2, <1>5, <1>6
  <2>4. n = Total + 1 \/ n \in 1..Total
    BY TotalType
  <2> QED BY <2>2, <2>3, <2>4
<1> QED BY <1>1, <1>4, <1>5, <1>7, SeqEqual

LEMMA AbstractInit == Init => Abstract!Init
<1> SUFFICES ASSUME Init PROVE Abstract!Init
  OBVIOUS
<1>1. NumberInv /\ current = None
  BY NumberInit DEF Init
<1>2. Total = 0
  BY TotalZero DEF Init, Committed
<1>3. Log = <<>>
  BY <1>1, <1>2, LogIsSequence, EmptySeq DEF Ordered
<1> QED BY <1>1, <1>3 DEF Abstract!Init

LEMMA AbstractNext ==
    NumberInv /\ NumberInv' /\ [Next]_vars => [Abstract!Next]_Abstract!vars
<1> SUFFICES ASSUME NumberInv, NumberInv', [Next]_vars
             PROVE  [Abstract!Next]_Abstract!vars
  OBVIOUS
<1>1. ASSUME NEW w \in Worker, Commit(w)
      PROVE  Abstract!Publish(w)
  <2>1. Log' = Append(Log, w) /\ current' = w
    BY <1>1, CommitAppends DEF Commit
  <2>2. \A n \in DOMAIN Log : Log[n] # w
    BY <1>1, CommitNumbers, LogIsSequence DEF Log, Ordered
  <2> QED BY <2>1, <2>2 DEF Abstract!Publish
<1>2. ASSUME row' = row, current' = current
      PROVE  UNCHANGED Abstract!vars
  BY <1>2, LogStays DEF Abstract!vars
<1>3. (\E w \in Worker : Commit(w)) \/ (row' = row /\ current' = current)
  BY DEF Next, Publishing, Converting, Delete, vars, store, conversion, tree, deletion, bounds, Start, Seed, Confirm,
         Abandon, ReadFiles, ReadNumber, PutObjects, CommitFails, FreezeCopy, FreezeSeal, Undo,
         Convert, ListScript, Finish, Crash, MarkDeleted, ListObjects, DeleteObjects,
         DeleteScript, RemoveWorkspace, Tombstone
<1> QED BY <1>1, <1>2, <1>3 DEF Abstract!Next

(* Publication implements the append-only history of revisions.            *)
THEOREM PublicationAppends == Spec => AppendOnly
<1>1. Spec => []NumberInv
  BY NumberInit, NumberNext, PTL DEF Spec
<1> QED
  BY <1>1, AbstractInit, AbstractNext, PTL DEF Spec, AppendOnly, Abstract!Spec
=============================================================================
