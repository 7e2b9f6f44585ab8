---------------------------- MODULE AccountProofs ----------------------------
(***************************************************************************)
(* Proofs about Account, for any number of requests, configurations,       *)
(* accounts, sessions, calls and lost answers.                             *)
(***************************************************************************)
EXTENDS Account, FiniteSetTheorems, WellFoundedInduction, TLAPS

(* A set of numbers that is not empty has a smallest one. *)
LEMMA Smallest ==
    ASSUME NEW S \in SUBSET Nat, S # {}
    PROVE  \E n \in S : \A m \in S : n <= m
<1>1. IsWellFoundedOn(OpToRel(<, Nat), Nat)
  BY NatLessThanWellFounded
<1>2. PICK n \in S : \A m \in S : <<m, n>> \notin OpToRel(<, Nat)
  BY <1>1, WFMin
<1>3. \A m \in S : ~(m < n)
  BY <1>2 DEF OpToRel
<1> QED
  BY <1>3

LEMMA OldestIsOne ==
    ASSUME NEW S \in SUBSET Config, S # {}
    PROVE  Oldest(S) \in S
<1>1. S \in SUBSET Nat
  BY ConfigAssumption DEF Config
<1>2. \E n \in S : \A m \in S : n <= m
  BY <1>1, Smallest
<1> QED
  BY <1>2 DEF Oldest

-----------------------------------------------------------------------------
(* Requests on configurations *)

(* What a request has read, decided and written at each of its steps. *)
WellFormed(t) ==
    /\ t.at \in {"free", "begun", "clear", "delete", "ok", "refused", "gone"} => t.wrote = {}
    /\ t.at = "begun" => t.op # "none"
    /\ t.at \in {"create", "update", "delete"} => t.op = t.at
    /\ t.at \in {"clear", "clearing"} => t.op \in {"create", "update"} /\ t.isDefault
    /\ t.at \in {"find", "promote"} => t.op = "delete" /\ t.wrote = {t.id}
    /\ t.wrote # {} /\ t.op # "delete" => t.isDefault
    /\ t.unset => t.op = "update" /\ ~t.isDefault
    /\ t.op = "create" => t.baseUrl \in Account /\ t.apiKey = t.baseUrl
    /\ t.op = "update" => t.apiKey \in {None, t.baseUrl}
    /\ t.op \in {"update", "delete"} => t.id \in Config
    /\ t.op \in {"update", "delete"} /\ t.at \in {"clear", "clearing", "update", "delete"} =>
         t.existing \in Row
    /\ t.op \in {"create", "update"} /\ t.at = "ok" => t.existing \in Row
    /\ t.at = "promote" => \E c \in Config \ {t.id} : t.todo = {c}

Sound == ConfigTypeOK /\ \A r \in Request : WellFormed(tx[r])

(* What the statements of a request leave as it is. *)
Keeps(u, t) == /\ t.op = u.op /\ t.baseUrl = u.baseUrl /\ t.apiKey = u.apiKey
               /\ t.alone = u.alone /\ t.unset = u.unset

LEMMA Become ==
    ASSUME Sound, NEW r \in Request, NEW t \in Tx, WellFormed(t), Becomes(r, t)
    PROVE  /\ tx' \in [Request -> Tx] /\ \A o \in Request : WellFormed(tx'[o])
           /\ tx'[r] = t /\ \A o \in Request \ {r} : tx'[o] = tx[o]
BY DEF Sound, ConfigTypeOK, Becomes

LEMMA RollbackStep ==
    ASSUME NEW u \in Tx, WellFormed(u), u.at \notin {"free", "ok", "refused", "gone"}
    PROVE  LET t == [u EXCEPT !.at = "refused", !.wrote = {}, !.todo = {}] IN
           t \in Tx /\ WellFormed(t) /\ Keeps(u, t) /\ t.id = u.id /\ t.wrote = {}
           /\ t.existing = u.existing
BY DEF Tx, Moment, WellFormed, Keeps

Ended(u, id, row) ==
    [u EXCEPT !.at = "ok", !.id = id, !.existing = row, !.wrote = {}, !.todo = {}]

LEMMA CommitStep ==
    ASSUME NEW u \in Tx, WellFormed(u), u.at \notin {"free", "ok", "refused", "gone"},
           NEW id \in Nat, NEW row \in Row \cup {None},
           u.op \in {"create", "update"} => row \in Row,
           u.op \in {"update", "delete"} => id = u.id
    PROVE  LET t == Ended(u, id, row) IN
           t \in Tx /\ WellFormed(t) /\ Keeps(u, t) /\ t.id = id /\ t.at = "ok" /\ t.wrote = {}
           /\ t.existing = row
<1> DEFINE t == Ended(u, id, row)
<1>1. t \in Tx
  BY DEF Tx, Moment, Ended
<1>2. /\ t.op = u.op /\ t.baseUrl = u.baseUrl /\ t.apiKey = u.apiKey /\ t.alone = u.alone
      /\ t.unset = u.unset /\ t.isDefault = u.isDefault
      /\ t.id = id /\ t.at = "ok" /\ t.existing = row /\ t.wrote = {}
  BY DEF Tx, Ended
<1> HIDE DEF t
<1>3. WellFormed(t)
  BY <1>2 DEF WellFormed
<1> QED
  BY <1>1, <1>2, <1>3 DEF Keeps, t

LEMMA CountRowsStep ==
    ASSUME NEW u \in Tx, WellFormed(u), NEW m \in BOOLEAN, u.op = "create", u.at = "begun"
    PROVE  LET t == [u EXCEPT !.at = IF m THEN "clear" ELSE "create", !.isDefault = m] IN
           t \in Tx /\ WellFormed(t) /\ Keeps(u, t) /\ t.id = u.id /\ t.wrote = {}
           /\ t.at = (IF m THEN "clear" ELSE "create") /\ t.isDefault = m
BY DEF Tx, Moment, WellFormed, Keeps

LEMMA GoneStep ==
    ASSUME NEW u \in Tx, WellFormed(u), u.at = "begun"
    PROVE  LET t == [u EXCEPT !.at = "gone"] IN
           t \in Tx /\ WellFormed(t) /\ Keeps(u, t) /\ t.id = u.id /\ t.wrote = {} /\ t.at = "gone"
BY DEF Tx, Moment, WellFormed, Keeps

LEMMA ReadStep ==
    ASSUME NEW u \in Tx, WellFormed(u), u.op \in {"update", "delete"}, u.at = "begun",
           NEW row \in Row
    PROVE  LET t == [u EXCEPT !.at = IF u.op = "update" /\ u.isDefault THEN "clear" ELSE u.op,
                              !.existing = row] IN
           t \in Tx /\ WellFormed(t) /\ Keeps(u, t) /\ t.id = u.id /\ t.wrote = {}
           /\ t.at = (IF u.op = "update" /\ u.isDefault THEN "clear" ELSE u.op)
           /\ t.existing = row /\ t.isDefault = u.isDefault
BY DEF Tx, Moment, WellFormed, Keeps

LEMMA ClearStep ==
    ASSUME NEW u \in Tx, WellFormed(u), u.at = "clear", NEW S \in SUBSET Config
    PROVE  LET t == [u EXCEPT !.at = IF S = {} THEN u.op ELSE "clearing", !.todo = S] IN
           t \in Tx /\ WellFormed(t) /\ Keeps(u, t) /\ t.id = u.id /\ t.wrote = {}
           /\ t.at = (IF S = {} THEN u.op ELSE "clearing") /\ t.todo = S
           /\ t.existing = u.existing /\ t.isDefault
BY DEF Tx, Moment, WellFormed, Keeps

LEMMA ClearRowStep ==
    ASSUME NEW u \in Tx, WellFormed(u), u.at = "clearing", NEW c \in u.todo, NEW S
    PROVE  LET t == [u EXCEPT !.at = IF u.todo = {c} THEN u.op ELSE "clearing",
                              !.todo = @ \ {c}, !.wrote = @ \cup ({c} \cap S)] IN
           t \in Tx /\ WellFormed(t) /\ Keeps(u, t) /\ t.id = u.id
           /\ t.wrote = u.wrote \cup ({c} \cap S) /\ t.todo = u.todo \ {c}
           /\ t.at = (IF u.todo = {c} THEN u.op ELSE "clearing")
           /\ t.existing = u.existing /\ t.isDefault
BY DEF Tx, Moment, WellFormed, Keeps

LEMMA RemoveStep ==
    ASSUME NEW u \in Tx, WellFormed(u), u.at = "delete"
    PROVE  LET t == [u EXCEPT !.at = "find", !.wrote = {u.id}] IN
           t \in Tx /\ WellFormed(t) /\ Keeps(u, t) /\ t.id = u.id /\ t.wrote = {u.id}
           /\ t.at = "find" /\ t.existing = u.existing
BY DEF Tx, Moment, WellFormed, Keeps

LEMMA FindStep ==
    ASSUME NEW u \in Tx, WellFormed(u), u.at = "find", NEW c \in Config \ {u.id}
    PROVE  LET t == [u EXCEPT !.at = "promote", !.todo = {c}] IN
           t \in Tx /\ WellFormed(t) /\ Keeps(u, t) /\ t.id = u.id /\ t.wrote = {u.id}
           /\ t.at = "promote" /\ t.todo = {c} /\ t.existing = u.existing
BY DEF Tx, Moment, WellFormed, Keeps

-----------------------------------------------------------------------------
(* What each statement of a request does.  The first group works on its    *)
(* own transaction only; the second commits.                               *)

Apart == /\ \A r, o \in Request : r # o => tx[r].wrote \cap tx[o].wrote = {}
         /\ \A r \in Request : tx[r].wrote \subseteq Stored

Local(r, t) == /\ t \in Tx /\ WellFormed(t) /\ Keeps(tx[r], t) /\ t.id = tx[r].id
               /\ Becomes(r, t) /\ UNCHANGED <<rows, born, clashes>>

(* Why a transaction is rolled back. *)
Met(r) ==
    \/ tx[r].at = "create" /\ tx[r].isDefault /\ ~(Defaults \subseteq tx[r].wrote)
    \/ tx[r].at \in {"update", "delete"} /\ tx[r].id \notin Stored
    \/ tx[r].at = "update" /\ tx[r].isDefault /\ ~(Defaults \subseteq {tx[r].id} \cup tx[r].wrote)
    \/ tx[r].at = "promote" /\ ~(tx[r].todo \subseteq Stored)
    \/ tx[r].at = "promote" /\ ~(Defaults \subseteq {tx[r].id} \cup tx[r].todo)
    \/ \E o \in Request \ {r} : tx[o].wrote # {}

Refused(r, t) == Local(r, t) /\ Working(r) /\ t.at = "refused" /\ t.wrote = {} /\ Met(r)

CountedTo(r, t) ==
    /\ Local(r, t) /\ tx[r].op = "create" /\ tx[r].at = "begun" /\ t.wrote = {}
    /\ \/ (tx[r].isDefault \/ Stored = {}) /\ t.at = "clear" /\ t.isDefault
       \/ ~tx[r].isDefault /\ Stored # {} /\ t.at = "create" /\ ~t.isDefault

ReadTo(r, t) ==
    /\ Local(r, t) /\ tx[r].op \in {"update", "delete"} /\ tx[r].at = "begun" /\ t.wrote = {}
    /\ \/ rows[t.id] = None /\ t.at = "gone"
       \/ /\ rows[t.id] \in Row /\ t.existing = rows[t.id] /\ t.isDefault = tx[r].isDefault
          /\ \/ t.op = "update" /\ t.isDefault /\ t.at = "clear"
             \/ ~(t.op = "update" /\ t.isDefault) /\ t.at = t.op

ClearedTo(r, t) ==
    /\ Local(r, t) /\ tx[r].at = "clear" /\ tx[r].op \in {"create", "update"} /\ t.wrote = {}
    /\ tx[r].isDefault /\ t.isDefault /\ t.existing = tx[r].existing
    /\ t.at = (IF Stored = {} THEN t.op ELSE "clearing") /\ t.todo = Stored

ClearedRowTo(r, t) ==
    /\ Local(r, t) /\ tx[r].at = "clearing" /\ tx[r].op \in {"create", "update"}
    /\ tx[r].isDefault /\ t.isDefault /\ t.existing = tx[r].existing
    /\ \E c \in tx[r].todo :
         /\ \A o \in Request \ {r} : c \notin tx[o].wrote
         /\ t.wrote = tx[r].wrote \cup ({c} \cap Stored)
         /\ t.todo = tx[r].todo \ {c}
         /\ t.at = IF tx[r].todo = {c} THEN t.op ELSE "clearing"

RemovedTo(r, t) ==
    /\ Local(r, t) /\ tx[r].op = "delete" /\ tx[r].at = "delete" /\ t.at = "find"
    /\ rows[t.id] # None /\ tx[r].existing.isDefault /\ t.existing = tx[r].existing
    /\ \A o \in Request \ {r} : t.id \notin tx[o].wrote
    /\ t.wrote = {t.id}

FoundTo(r, t) ==
    /\ Local(r, t) /\ tx[r].op = "delete" /\ tx[r].at = "find" /\ t.at = "promote"
    /\ t.wrote = {t.id} /\ t.existing = tx[r].existing
    /\ \E c \in Stored \ {t.id} : t.todo = {c}

LEMMA StoredRows ==
    ASSUME Sound
    PROVE  /\ Stored \in SUBSET Config /\ Defaults \subseteq Stored
           /\ \A c \in Stored : rows[c] \in Row /\ rows[c] # None
           /\ \A c \in Config : rows[c] # None => c \in Stored
BY DEF Sound, ConfigTypeOK, Stored, Defaults

LEMMA Unlocked ==
    ASSUME NEW r \in Request, NEW c, c \notin LockedByOthers(r)
    PROVE  \A o \in Request \ {r} : c \notin tx[o].wrote
BY DEF LockedByOthers

LEMMA RollbackDoes ==
    ASSUME Sound, NEW r \in Request, Working(r), Met(r), Rollback(r)
    PROVE  \E t : Refused(r, t)
<1> DEFINE t == [tx[r] EXCEPT !.at = "refused", !.wrote = {}, !.todo = {}]
<1>1. tx[r] \in Tx /\ WellFormed(tx[r])
  BY DEF Sound, ConfigTypeOK
<1>2. t \in Tx /\ WellFormed(t) /\ Keeps(tx[r], t) /\ t.id = tx[r].id /\ t.wrote = {}
      /\ t.at = "refused"
  BY <1>1, RollbackStep DEF Working, Tx
<1>3. Becomes(r, t) /\ UNCHANGED <<rows, born, clashes>>
  BY DEF Rollback
<1> HIDE DEF t
<1> QED
  BY <1>2, <1>3 DEF Refused, Local

LEMMA CountRowsDoes ==
    ASSUME Sound, NEW r \in Request, CountRows(r)
    PROVE  \E t : CountedTo(r, t)
<1> DEFINE m == tx[r].isDefault \/ Stored = {}
           t == [tx[r] EXCEPT !.at = IF m THEN "clear" ELSE "create", !.isDefault = m]
<1>1. tx[r] \in Tx /\ WellFormed(tx[r]) /\ tx[r].op = "create" /\ tx[r].at = "begun"
  BY DEF Sound, ConfigTypeOK, CountRows, At
<1>2. m \in BOOLEAN
  BY <1>1 DEF Tx
<1>3. Becomes(r, t) /\ UNCHANGED <<rows, born, clashes>>
  BY DEF CountRows
<1>4. m <=> tx[r].isDefault \/ Stored = {}
  OBVIOUS
<1> HIDE DEF m
<1>5. t \in Tx /\ WellFormed(t) /\ Keeps(tx[r], t) /\ t.id = tx[r].id /\ t.wrote = {}
      /\ t.at = (IF m THEN "clear" ELSE "create") /\ t.isDefault = m
  BY <1>1, <1>2, CountRowsStep
<1> HIDE DEF t
<1> QED
  BY <1>1, <1>2, <1>3, <1>4, <1>5 DEF CountedTo, Local

LEMMA ReadExistingDoes ==
    ASSUME Sound, NEW r \in Request, ReadExisting(r)
    PROVE  \E t : ReadTo(r, t)
<1>1. tx[r] \in Tx /\ WellFormed(tx[r]) /\ tx[r].op \in {"update", "delete"} /\ tx[r].at = "begun"
      /\ tx[r].id \in Config /\ rows[tx[r].id] \in Row \cup {None} /\ tx[r].isDefault \in BOOLEAN
  BY DEF Sound, ConfigTypeOK, ReadExisting, WellFormed, Tx
<1>2. UNCHANGED <<rows, born, clashes>>
  BY DEF ReadExisting
<1>3. CASE rows[tx[r].id] = None
  <2> DEFINE t == [tx[r] EXCEPT !.at = "gone"]
  <2>1. Becomes(r, t)
    BY <1>3 DEF ReadExisting
  <2>2. t \in Tx /\ WellFormed(t) /\ Keeps(tx[r], t) /\ t.id = tx[r].id /\ t.wrote = {}
        /\ t.at = "gone"
    BY <1>1, GoneStep
  <2> HIDE DEF t
  <2> QED
    BY <1>1, <1>2, <1>3, <2>1, <2>2 DEF ReadTo, Local
<1>4. CASE rows[tx[r].id] \in Row /\ rows[tx[r].id] # None
  <2> DEFINE row == rows[tx[r].id]
             t == [tx[r] EXCEPT !.at = IF tx[r].op = "update" /\ tx[r].isDefault
                                         THEN "clear" ELSE tx[r].op,
                                !.existing = row]
  <2>1. Becomes(r, t)
    BY <1>4 DEF ReadExisting
  <2>2. t \in Tx /\ WellFormed(t) /\ Keeps(tx[r], t) /\ t.id = tx[r].id /\ t.wrote = {}
        /\ t.at = (IF tx[r].op = "update" /\ tx[r].isDefault THEN "clear" ELSE tx[r].op)
        /\ t.existing = row /\ t.isDefault = tx[r].isDefault
    BY <1>1, <1>4, ReadStep
  <2> HIDE DEF t
  <2> QED
    BY <1>1, <1>2, <1>4, <2>1, <2>2 DEF ReadTo, Local, Keeps
<1> QED
  BY <1>1, <1>3, <1>4

LEMMA ClearDoes ==
    ASSUME Sound, NEW r \in Request, Clear(r)
    PROVE  \E t : ClearedTo(r, t)
<1> DEFINE t == [tx[r] EXCEPT !.at = IF Stored = {} THEN tx[r].op ELSE "clearing",
                              !.todo = Stored]
<1>1. tx[r] \in Tx /\ WellFormed(tx[r]) /\ tx[r].at = "clear"
      /\ tx[r].op \in {"create", "update"} /\ tx[r].isDefault
  BY DEF Sound, ConfigTypeOK, Clear, WellFormed
<1>2. Becomes(r, t) /\ UNCHANGED <<rows, born, clashes>>
  BY DEF Clear
<1>3. t \in Tx /\ WellFormed(t) /\ Keeps(tx[r], t) /\ t.id = tx[r].id /\ t.wrote = {}
      /\ t.at = (IF Stored = {} THEN tx[r].op ELSE "clearing") /\ t.todo = Stored
      /\ t.existing = tx[r].existing /\ t.isDefault
  BY <1>1, StoredRows, ClearStep
<1> HIDE DEF t
<1> QED
  BY <1>1, <1>2, <1>3 DEF ClearedTo, Local, Keeps

LEMMA ClearRowDoes ==
    ASSUME Sound, NEW r \in Request, ClearRow(r)
    PROVE  \E t : ClearedRowTo(r, t)
<1>1. PICK c \in tx[r].todo \ LockedByOthers(r) :
         Becomes(r, [tx[r] EXCEPT !.at = IF tx[r].todo = {c} THEN tx[r].op ELSE "clearing",
                                  !.todo = @ \ {c}, !.wrote = @ \cup ({c} \cap Stored)])
  BY DEF ClearRow
<1> DEFINE t == [tx[r] EXCEPT !.at = IF tx[r].todo = {c} THEN tx[r].op ELSE "clearing",
                              !.todo = @ \ {c}, !.wrote = @ \cup ({c} \cap Stored)]
<1>a. Becomes(r, t)
  BY <1>1
<1>2. tx[r] \in Tx /\ WellFormed(tx[r]) /\ tx[r].at = "clearing"
      /\ tx[r].op \in {"create", "update"} /\ tx[r].isDefault /\ UNCHANGED <<rows, born, clashes>>
  BY DEF Sound, ConfigTypeOK, ClearRow, WellFormed
<1>3. t \in Tx /\ WellFormed(t) /\ Keeps(tx[r], t) /\ t.id = tx[r].id
      /\ t.wrote = tx[r].wrote \cup ({c} \cap Stored) /\ t.todo = tx[r].todo \ {c}
      /\ t.at = (IF tx[r].todo = {c} THEN tx[r].op ELSE "clearing")
      /\ t.existing = tx[r].existing /\ t.isDefault
  BY <1>2, ClearRowStep
<1>4. \A o \in Request \ {r} : c \notin tx[o].wrote
  BY Unlocked
<1> HIDE DEF t
<1> QED
  BY <1>a, <1>2, <1>3, <1>4 DEF ClearedRowTo, Local, Keeps

(* A row that is left, perhaps without its mark. *)
Left(r, c) ==
    /\ rows'[c] = None <=> rows[c] = None
    /\ rows[c] # None => /\ rows'[c] \in Row
                         /\ rows'[c].baseUrl = rows[c].baseUrl
                         /\ rows'[c].apiKey = rows[c].apiKey
                         /\ rows'[c].isDefault = IF c \in tx[r].wrote THEN FALSE ELSE rows[c].isDefault

(* A commit notes a default that was taken away and has no successor. *)
Noted(r) ==
    /\ clashes' \in [delete : BOOLEAN, updated : SUBSET Config, unset : BOOLEAN]
    /\ clashes'.delete = clashes.delete /\ clashes'.updated = clashes.updated
    /\ ~clashes'.unset /\ Defaults' = {} => ~clashes.unset /\ ~tx[r].unset

Commits(r, t) == /\ t \in Tx /\ WellFormed(t) /\ Keeps(tx[r], t) /\ Becomes(r, t)
                 /\ t.at = "ok" /\ t.wrote = {} /\ t.existing = rows'[t.id]
                 /\ rows' \in [Config -> Row \cup {None}] /\ Noted(r)

CreatedTo(r, t) ==
    /\ Commits(r, t) /\ tx[r].op = "create" /\ tx[r].at = "create"
    /\ t.id = born + 1 /\ t.id \in Config /\ born' = born + 1
    /\ rows'[t.id] = [isDefault |-> tx[r].isDefault, baseUrl |-> t.baseUrl, apiKey |-> t.apiKey]
    /\ rows'[t.id] \in Row
    /\ \A c \in Config \ {t.id} : Left(r, c)
    /\ tx[r].isDefault => Defaults \subseteq tx[r].wrote

UpdatedTo(r, t) ==
    /\ Commits(r, t) /\ tx[r].op = "update" /\ tx[r].at = "update"
    /\ t.id = tx[r].id /\ t.id \in Stored /\ born' = born
    /\ rows'[t.id] \in Row
    /\ rows'[t.id].isDefault =
         IF tx[r].isDefault THEN TRUE ELSE IF tx[r].unset THEN FALSE ELSE rows[t.id].isDefault
    /\ rows'[t.id].baseUrl = IF t.baseUrl = None THEN tx[r].existing.baseUrl ELSE t.baseUrl
    /\ rows'[t.id].apiKey = IF t.apiKey = None THEN rows[t.id].apiKey ELSE t.apiKey
    /\ \A c \in Config \ {t.id} : Left(r, c)
    /\ tx[r].isDefault => Defaults \subseteq {t.id} \cup tx[r].wrote
    /\ ~tx[r].isDefault => tx[r].wrote = {}
    /\ \A o \in Request \ {r} : t.id \notin tx[o].wrote

DeletedTo(r, t) ==
    /\ Commits(r, t) /\ tx[r].op = "delete" /\ t.id = tx[r].id /\ t.id \in Stored /\ born' = born
    /\ \A o \in Request \ {r} : t.id \notin tx[o].wrote
    /\ rows'[t.id] = None
    /\ \/ /\ tx[r].at = "delete" /\ ~tx[r].existing.isDefault
          /\ \A c \in Config \ {t.id} : rows'[c] = rows[c]
       \/ /\ tx[r].at = "find" /\ Stored \subseteq {t.id}
          /\ \A c \in Config \ {t.id} : rows'[c] = rows[c]
       \/ /\ tx[r].at = "promote"
          /\ \E n \in Stored \ {t.id} :
               /\ tx[r].todo = {n}
               /\ rows'[n] \in Row /\ rows'[n].isDefault = TRUE
               /\ rows'[n].baseUrl = rows[n].baseUrl /\ rows'[n].apiKey = rows[n].apiKey
               /\ Defaults \subseteq {n, t.id}
               /\ \A c \in Config \ {t.id, n} : rows'[c] = rows[c]

LEMMA RowFields ==
    ASSUME NEW row \in Row, NEW b \in BOOLEAN
    PROVE  LET new == [row EXCEPT !.isDefault = b] IN
           /\ new \in Row /\ new.isDefault = b /\ new.baseUrl = row.baseUrl
           /\ new.apiKey = row.apiKey /\ new # None
           /\ row.isDefault \in BOOLEAN /\ row.baseUrl \in Account /\ row.apiKey \in Account
           /\ row # None /\ row.baseUrl # None /\ row.apiKey # None
BY ConfigAssumption DEF Row

LEMMA SeenRows ==
    ASSUME Sound, Apart, NEW r \in Request
    PROVE  /\ Seen(r) \in [Config -> Row \cup {None}]
           /\ \A c \in Config : c \notin tx[r].wrote => Seen(r)[c] = rows[c]
           /\ \A c \in Config : c \in tx[r].wrote => c \in Stored
           /\ \A c \in tx[r].wrote :
                Seen(r)[c] = IF tx[r].op = "delete" THEN None
                             ELSE [rows[c] EXCEPT !.isDefault = FALSE]
           /\ tx[r].wrote \subseteq Config
<1>1. tx[r].wrote \subseteq Stored /\ Stored \subseteq Config
  BY StoredRows DEF Apart
<1>2. \A c \in Config : rows[c] \in Row \cup {None}
  BY DEF Sound, ConfigTypeOK
<1>3. \A c \in tx[r].wrote : rows[c] \in Row
  BY <1>1, StoredRows
<1>4. \A c \in tx[r].wrote : [rows[c] EXCEPT !.isDefault = FALSE] \in Row
  BY <1>3, RowFields
<1> QED
  BY <1>1, <1>2, <1>3, <1>4 DEF Seen

LEMMA SeenLeft ==
    ASSUME Sound, Apart, NEW r \in Request, tx[r].op # "delete", NEW c \in Config,
           rows'[c] = Seen(r)[c]
    PROVE  Left(r, c)
<1>1. CASE c \in tx[r].wrote
  <2>1. rows[c] \in Row /\ rows'[c] = [rows[c] EXCEPT !.isDefault = FALSE] /\ c \in Stored
    BY <1>1, SeenRows, StoredRows
  <2> DEFINE new == [rows[c] EXCEPT !.isDefault = FALSE]
  <2>2. /\ new \in Row /\ new.isDefault = FALSE /\ new.baseUrl = rows[c].baseUrl
        /\ new.apiKey = rows[c].apiKey /\ new # None /\ rows[c] # None
    BY <2>1, RowFields
  <2>1a. rows'[c] = new
    BY <2>1
  <2> HIDE DEF new
  <2> QED
    BY <1>1, <2>1a, <2>2 DEF Left
<1>2. CASE c \notin tx[r].wrote
  <2>1. rows'[c] = rows[c] /\ rows[c] \in Row \cup {None}
    BY <1>2, SeenRows DEF Sound, ConfigTypeOK
  <2> QED
    BY <1>2, <2>1 DEF Left
<1> QED
  BY <1>1, <1>2

LEMMA CommitDoes ==
    ASSUME Sound, NEW r \in Request, NEW table \in [Config -> Row \cup {None}], NEW id \in Config,
           Commit(r, table, id), Working(r),
           tx[r].op \in {"create", "update"} => table[id] \in Row,
           tx[r].op \in {"update", "delete"} => id = tx[r].id
    PROVE  \E t : Commits(r, t) /\ t.id = id /\ rows' = table
<1> DEFINE t == Ended(tx[r], id, table[id])
<1>1. /\ tx[r] \in Tx /\ WellFormed(tx[r]) /\ table[id] \in Row \cup {None} /\ id \in Nat
      /\ tx[r].at \notin {"free", "ok", "refused", "gone"}
  BY ConfigAssumption DEF Sound, ConfigTypeOK, Config, Working
<1>2. Becomes(r, t) /\ rows' = table
  BY DEF Commit, Ended
<1>n. Noted(r)
  <2>1. clashes \in [delete : BOOLEAN, updated : SUBSET Config, unset : BOOLEAN]
        /\ tx[r].unset \in BOOLEAN
    BY DEF Sound, ConfigTypeOK, Tx
  <2> DEFINE now == (clashes.unset \/ tx[r].unset) /\ Unmarked(table)
  <2>2. clashes' = [clashes EXCEPT !.unset = now]
    BY DEF Commit
  <2>3. now \in BOOLEAN
    BY <2>1 DEF Unmarked
  <2>4. Defaults' = {} => Unmarked(table)
    BY <1>2 DEF Unmarked, Defaults, Stored
  <2>5. Defaults' = {} /\ ~now => ~clashes.unset /\ ~tx[r].unset
    BY <2>4
  <2> HIDE DEF now
  <2> QED
    BY <2>1, <2>2, <2>3, <2>5 DEF Noted
<1>3. t \in Tx /\ WellFormed(t) /\ Keeps(tx[r], t) /\ t.id = id /\ t.at = "ok" /\ t.wrote = {}
      /\ t.existing = table[id]
  BY <1>1, CommitStep
<1> HIDE DEF t
<1>4. Commits(r, t)
  BY <1>2, <1>3, <1>n DEF Commits
<1> QED
  BY <1>2, <1>3, <1>4

LEMMA NeedsOf ==
    ASSUME NEW r \in Request, Ready(r)
    PROVE  /\ tx[r].at \in {"update", "delete"} => \A o \in Request \ {r} : tx[r].id \notin tx[o].wrote
           /\ tx[r].at = "promote" => \A o \in Request \ {r} : tx[r].todo \cap tx[o].wrote = {}
<1>1. tx[r].at \in {"update", "delete"} => tx[r].id \in Needs(r)
  BY DEF Needs
<1>2. tx[r].at = "promote" => tx[r].todo \subseteq Needs(r)
  BY DEF Needs
<1> QED
  BY <1>1, <1>2 DEF Ready, LockedByOthers

LEMMA CreateDoes ==
    ASSUME Sound, Apart, NEW r \in Request, Create(r)
    PROVE  \E t : Refused(r, t) \/ CreatedTo(r, t)
<1>0. tx[r] \in Tx /\ WellFormed(tx[r]) /\ tx[r].op = "create" /\ tx[r].at = "create" /\ Working(r)
      /\ tx[r].isDefault \in BOOLEAN /\ born \in Nat /\ born + 1 # 0
      /\ tx[r].baseUrl \in Account /\ tx[r].apiKey = tx[r].baseUrl
  BY DEF Sound, ConfigTypeOK, Create, At, Working, WellFormed, Tx
<1>1. CASE tx[r].isDefault /\ Rivals(r, 0) # {}
  BY <1>0, <1>1, RollbackDoes DEF Create, Rivals, Met
<1>2. CASE ~(tx[r].isDefault /\ Rivals(r, 0) # {})
  <2> DEFINE id == born + 1
             row == [isDefault |-> tx[r].isDefault, baseUrl |-> tx[r].baseUrl,
                     apiKey |-> tx[r].apiKey]
             table == [Seen(r) EXCEPT ![id] = row]
  <2>1. born < MaxConfig /\ Commit(r, table, id) /\ born' = id
    BY <1>2 DEF Create
  <2>2. id \in Config
    BY <1>0, <2>1, ConfigAssumption DEF Config
  <2>3. row \in Row
    BY <1>0 DEF Row
  <2>4. Seen(r) \in [Config -> Row \cup {None}]
    BY SeenRows
  <2>5. row = [isDefault |-> tx[r].isDefault, baseUrl |-> tx[r].baseUrl, apiKey |-> tx[r].apiKey]
    OBVIOUS
  <2> HIDE DEF row
  <2>6. table \in [Config -> Row \cup {None}] /\ table[id] = row
        /\ \A c \in Config \ {id} : table[c] = Seen(r)[c]
    BY <2>2, <2>3, <2>4
  <2> HIDE DEF table
  <2>7. PICK t : Commits(r, t) /\ t.id = id /\ rows' = table
    BY <1>0, <2>1, <2>2, <2>3, <2>6, CommitDoes
  <2>8. \A c \in Config \ {id} : Left(r, c)
    BY <1>0, <2>6, <2>7, SeenLeft
  <2>9. tx[r].isDefault => Defaults \subseteq tx[r].wrote
    <3>1. 0 \notin Defaults
      BY ConfigAssumption, StoredRows DEF Config
    <3> QED
      BY <1>2, <3>1 DEF Rivals
  <2>10. t.baseUrl = tx[r].baseUrl /\ t.apiKey = tx[r].apiKey
    BY <2>7 DEF Commits, Keeps
  <2> QED
    BY <1>0, <2>1, <2>2, <2>3, <2>5, <2>6, <2>7, <2>8, <2>9, <2>10 DEF CreatedTo
<1> QED
  BY <1>1, <1>2

LEMMA UpdateDoes ==
    ASSUME Sound, Apart, NEW r \in Request, Update(r)
    PROVE  \E t : Refused(r, t) \/ UpdatedTo(r, t)
<1> DEFINE id == tx[r].id
           current == Seen(r)[id]
<1>0. tx[r] \in Tx /\ WellFormed(tx[r]) /\ tx[r].op = "update" /\ tx[r].at = "update" /\ Working(r)
      /\ tx[r].isDefault \in BOOLEAN /\ id \in Config /\ tx[r].existing \in Row
      /\ tx[r].unset \in BOOLEAN /\ (tx[r].unset => ~tx[r].isDefault)
      /\ tx[r].baseUrl \in Account \cup {None} /\ tx[r].apiKey \in Account \cup {None}
      /\ (~tx[r].isDefault => tx[r].wrote = {})
  BY DEF Sound, ConfigTypeOK, Update, At, Working, WellFormed, Tx
<1>1. CASE current = None \/ (tx[r].isDefault /\ Rivals(r, id) # {})
  <2>1. CASE current = None /\ id \in Stored
    <3>1. rows[id] \in Row /\ rows[id] # None
      BY <2>1, StoredRows
    <3>2. id \in tx[r].wrote
      BY <1>0, <2>1, <3>1, SeenRows
    <3>3. current = [rows[id] EXCEPT !.isDefault = FALSE]
      BY <1>0, <3>2, SeenRows
    <3> QED
      BY <2>1, <3>1, <3>3, RowFields
  <2>2. CASE id \notin Stored \/ (tx[r].isDefault /\ Rivals(r, id) # {})
    <3>1. Met(r)
      BY <1>0, <2>2 DEF Met, Rivals
    <3>2. Rollback(r)
      BY <1>1 DEF Update
    <3> QED
      BY <1>0, <3>1, <3>2, RollbackDoes
  <2> QED
    BY <1>1, <2>1, <2>2
<1>2. CASE ~(current = None \/ (tx[r].isDefault /\ Rivals(r, id) # {}))
  <2> DEFINE row == Updated(tx[r], current)
             table == [Seen(r) EXCEPT ![id] = row]
  <2>1. Commit(r, table, id) /\ born' = born /\ Ready(r)
    BY <1>2 DEF Update
  <2>2. Seen(r) \in [Config -> Row \cup {None}]
    BY SeenRows
  <2>3. current \in Row
    BY <1>0, <1>2, <2>2
  <2>4. rows[id] \in Row /\ id \in Stored /\ current.apiKey = rows[id].apiKey
        /\ (~tx[r].isDefault => current.isDefault = rows[id].isDefault)
    <3>1. CASE id \in tx[r].wrote
      <4>1. rows[id] \in Row /\ id \in Stored /\ tx[r].isDefault
            /\ current = [rows[id] EXCEPT !.isDefault = FALSE]
        BY <1>0, <3>1, SeenRows, StoredRows
      <4> DEFINE new == [rows[id] EXCEPT !.isDefault = FALSE]
      <4>2. new.apiKey = rows[id].apiKey
        BY <4>1, RowFields
      <4>3. current = new
        BY <4>1
      <4> HIDE DEF new, current
      <4> QED
        BY <4>1, <4>2, <4>3
    <3>2. CASE id \notin tx[r].wrote
      <4>1. current = rows[id]
        BY <1>0, <3>2, SeenRows
      <4>2. rows[id] # None
        BY <4>1, <1>2
      <4> QED
        BY <1>0, <2>3, <4>1, <4>2, StoredRows
    <3> QED
      BY <3>1, <3>2
  <2>5. /\ row \in Row
        /\ row.isDefault =
             IF tx[r].isDefault THEN TRUE ELSE IF tx[r].unset THEN FALSE ELSE rows[id].isDefault
        /\ row.baseUrl = IF tx[r].baseUrl = None THEN tx[r].existing.baseUrl ELSE tx[r].baseUrl
        /\ row.apiKey = IF tx[r].apiKey = None THEN rows[id].apiKey ELSE tx[r].apiKey
    <3>1. current.isDefault \in BOOLEAN /\ current.apiKey \in Account
          /\ tx[r].existing.baseUrl \in Account
      BY <1>0, <2>3 DEF Row
    <3>2. (tx[r].isDefault \/ (current.isDefault /\ ~tx[r].unset)) \in BOOLEAN
      BY <1>0, <3>1
    <3>3. (tx[r].isDefault \/ (current.isDefault /\ ~tx[r].unset))
             = (IF tx[r].isDefault THEN TRUE
                ELSE IF tx[r].unset THEN FALSE ELSE rows[id].isDefault)
      BY <1>0, <2>4, <3>1
    <3> QED
      BY <1>0, <2>4, <3>1, <3>2, <3>3 DEF Updated, Row
  <2> HIDE DEF row, current
  <2>6. table \in [Config -> Row \cup {None}] /\ table[id] = row
        /\ \A c \in Config \ {id} : table[c] = Seen(r)[c]
    BY <1>0, <2>2, <2>5
  <2> HIDE DEF table
  <2>7. PICK t : Commits(r, t) /\ t.id = id /\ rows' = table
    BY <1>0, <2>1, <2>5, <2>6, CommitDoes
  <2>8. \A c \in Config \ {id} : Left(r, c)
    BY <1>0, <2>6, <2>7, SeenLeft
  <2>9. tx[r].isDefault => Defaults \subseteq {id} \cup tx[r].wrote
    BY <1>2 DEF Rivals
  <2>10. t.baseUrl = tx[r].baseUrl /\ t.apiKey = tx[r].apiKey
    BY <2>7 DEF Commits, Keeps
  <2>11. \A o \in Request \ {r} : id \notin tx[o].wrote
    BY <1>0, <2>1, NeedsOf
  <2>12. /\ rows'[t.id] \in Row
         /\ rows'[t.id].isDefault =
              IF tx[r].isDefault THEN TRUE ELSE IF tx[r].unset THEN FALSE ELSE rows[t.id].isDefault
         /\ rows'[t.id].baseUrl = IF t.baseUrl = None THEN tx[r].existing.baseUrl ELSE t.baseUrl
         /\ rows'[t.id].apiKey = IF t.apiKey = None THEN rows[t.id].apiKey ELSE t.apiKey
    BY <2>5, <2>6, <2>7, <2>10
  <2> QED
    BY <1>0, <2>1, <2>4, <2>7, <2>8, <2>9, <2>11, <2>12 DEF UpdatedTo
<1> QED
  BY <1>1, <1>2

LEMMA DeleteDoes ==
    ASSUME Sound, Apart, NEW r \in Request, Delete(r)
    PROVE  \E t : Refused(r, t) \/ RemovedTo(r, t) \/ DeletedTo(r, t)
<1> DEFINE id == tx[r].id
<1>0. tx[r] \in Tx /\ WellFormed(tx[r]) /\ tx[r].op = "delete" /\ tx[r].at = "delete" /\ Working(r)
      /\ id \in Config /\ tx[r].existing \in Row /\ Ready(r)
  BY DEF Sound, ConfigTypeOK, Delete, At, Working, WellFormed, Tx
<1>1. \A o \in Request \ {r} : id \notin tx[o].wrote
  BY <1>0, NeedsOf
<1>2. CASE rows[id] = None
  <2>1. Met(r)
    BY <1>0, <1>2 DEF Met, Stored
  <2> QED
    BY <1>0, <1>2, <2>1, RollbackDoes DEF Delete
<1>3. CASE rows[id] # None /\ tx[r].existing.isDefault
  <2> DEFINE t == [tx[r] EXCEPT !.at = "find", !.wrote = {id}]
  <2>1. Becomes(r, t) /\ UNCHANGED <<rows, born, clashes>>
    BY <1>3 DEF Delete
  <2>2. t \in Tx /\ WellFormed(t) /\ Keeps(tx[r], t) /\ t.id = id /\ t.wrote = {id}
        /\ t.at = "find" /\ t.existing = tx[r].existing
    BY <1>0, RemoveStep
  <2> HIDE DEF t
  <2> QED
    BY <1>0, <1>1, <1>3, <2>1, <2>2 DEF RemovedTo, Local
<1>4. CASE rows[id] # None /\ ~tx[r].existing.isDefault
  <2> DEFINE table == [rows EXCEPT ![id] = None]
  <2>1. Commit(r, table, id) /\ born' = born
    BY <1>4 DEF Delete
  <2>2. table \in [Config -> Row \cup {None}] /\ table[id] = None
        /\ \A c \in Config \ {id} : table[c] = rows[c]
    BY <1>0 DEF Sound, ConfigTypeOK
  <2> HIDE DEF table
  <2>3. PICK t : Commits(r, t) /\ t.id = id /\ rows' = table
    BY <1>0, <2>1, <2>2, CommitDoes
  <2>4. id \in Stored
    BY <1>0, <1>4, StoredRows
  <2> QED
    BY <1>0, <1>1, <1>4, <2>1, <2>2, <2>3, <2>4 DEF DeletedTo
<1> QED
  BY <1>2, <1>3, <1>4

LEMMA FindDoes ==
    ASSUME Sound, Apart, NEW r \in Request, FindReplacement(r)
    PROVE  \E t : FoundTo(r, t) \/ DeletedTo(r, t)
<1> DEFINE id == tx[r].id
           left == Stored \ {id}
<1>0. tx[r] \in Tx /\ WellFormed(tx[r]) /\ tx[r].op = "delete" /\ tx[r].at = "find" /\ Working(r)
      /\ id \in Config /\ tx[r].wrote = {id}
  BY DEF Sound, ConfigTypeOK, FindReplacement, At, Working, WellFormed, Tx
<1>1. id \in Stored /\ \A o \in Request \ {r} : id \notin tx[o].wrote
  BY <1>0 DEF Apart
<1>2. CASE left = {}
  <2>1. Commit(r, Seen(r), id) /\ born' = born
    BY <1>2 DEF FindReplacement
  <2>2. /\ Seen(r) \in [Config -> Row \cup {None}] /\ Seen(r)[id] = None
        /\ \A c \in Config \ {id} : Seen(r)[c] = rows[c]
    BY <1>0, SeenRows
  <2>3. PICK t : Commits(r, t) /\ t.id = id /\ rows' = Seen(r)
    BY <1>0, <2>1, <2>2, CommitDoes
  <2> QED
    BY <1>0, <1>1, <1>2, <2>1, <2>2, <2>3 DEF DeletedTo
<1>3. CASE left # {}
  <2> DEFINE c == Oldest(left)
             t == [tx[r] EXCEPT !.at = "promote", !.todo = {c}]
  <2>1. Becomes(r, t) /\ UNCHANGED <<rows, born, clashes>>
    BY <1>3 DEF FindReplacement
  <2>2. c \in left /\ c \in Config \ {id}
    BY <1>3, StoredRows, OldestIsOne
  <2> HIDE DEF c
  <2>3. t \in Tx /\ WellFormed(t) /\ Keeps(tx[r], t) /\ t.id = id /\ t.wrote = {id}
        /\ t.at = "promote" /\ t.todo = {c} /\ t.existing = tx[r].existing
    BY <1>0, <2>2, FindStep
  <2> HIDE DEF t
  <2> QED
    BY <1>0, <2>1, <2>2, <2>3 DEF FoundTo, Local
<1> QED
  BY <1>2, <1>3

LEMMA PromoteDoes ==
    ASSUME Sound, Apart, NEW r \in Request, Promote(r)
    PROVE  \E t : Refused(r, t) \/ DeletedTo(r, t)
<1> DEFINE id == tx[r].id
<1>0. tx[r] \in Tx /\ WellFormed(tx[r]) /\ tx[r].op = "delete" /\ tx[r].at = "promote" /\ Working(r)
      /\ id \in Config /\ tx[r].wrote = {id}
  BY DEF Sound, ConfigTypeOK, Promote, At, Working, WellFormed, Tx
<1>1. id \in Stored /\ \A o \in Request \ {r} : id \notin tx[o].wrote
  BY <1>0 DEF Apart
<1>2. PICK n \in Config \ {id} : tx[r].todo = {n}
  BY <1>0 DEF WellFormed
<1>3. Oldest(tx[r].todo) = n
  BY <1>2, OldestIsOne
<1>4. CASE rows[n] = None \/ Rivals(r, n) # {}
  <2>1. Met(r)
    BY <1>0, <1>2, <1>4 DEF Met, Stored, Rivals
  <2> QED
    BY <1>0, <1>3, <1>4, <2>1, RollbackDoes DEF Promote
<1>5. CASE ~(rows[n] = None \/ Rivals(r, n) # {})
  <2> DEFINE row == [rows[n] EXCEPT !.isDefault = TRUE]
             table == [Seen(r) EXCEPT ![n] = row]
  <2>1. /\ Seen(r) \in [Config -> Row \cup {None}] /\ Seen(r)[id] = None
        /\ \A c \in Config \ {id} : Seen(r)[c] = rows[c]
    BY <1>0, SeenRows
  <2>2. [Seen(r) EXCEPT ![n].isDefault = TRUE] = table
    BY <1>2, <2>1
  <2>3. Commit(r, table, id) /\ born' = born
    BY <1>3, <1>5, <2>2 DEF Promote
  <2>4. /\ row \in Row /\ row.isDefault = TRUE
        /\ row.baseUrl = rows[n].baseUrl /\ row.apiKey = rows[n].apiKey
    BY <1>2, <1>5, StoredRows, RowFields
  <2>5. n \in Stored
    BY <1>2, <1>5, StoredRows
  <2> HIDE DEF row
  <2>6. table \in [Config -> Row \cup {None}] /\ table[n] = row /\ table[id] = None
        /\ \A c \in Config \ {id, n} : table[c] = rows[c]
    BY <1>0, <1>2, <2>1, <2>4
  <2> HIDE DEF table
  <2>7. PICK t : Commits(r, t) /\ t.id = id /\ rows' = table
    BY <1>0, <2>3, <2>6, CommitDoes
  <2>8. Defaults \subseteq {n, id}
    BY <1>0, <1>5 DEF Rivals
  <2> QED
    BY <1>0, <1>1, <1>2, <2>3, <2>4, <2>5, <2>6, <2>7, <2>8 DEF DeletedTo
<1> QED
  BY <1>4, <1>5

LEMMA GiveUpDoes ==
    ASSUME Sound, NEW r \in Request, GiveUp(r)
    PROVE  \E t : Refused(r, t)
<1>1. Met(r)
  BY DEF GiveUp, Ready, LockedByOthers, Met
<1> QED
  BY <1>1, RollbackDoes DEF GiveUp

Worked(r, t) ==
    \/ CountedTo(r, t) \/ ReadTo(r, t) \/ ClearedTo(r, t) \/ ClearedRowTo(r, t)
    \/ RemovedTo(r, t) \/ FoundTo(r, t) \/ Refused(r, t)
    \/ CreatedTo(r, t) \/ UpdatedTo(r, t) \/ DeletedTo(r, t)

LEMMA StatementDoes ==
    ASSUME Sound, Apart, NEW r \in Request, Statement(r)
    PROVE  \E t : Worked(r, t)
BY CountRowsDoes, ReadExistingDoes, ClearDoes, ClearRowDoes, CreateDoes, UpdateDoes, DeleteDoes,
   FindDoes, PromoteDoes, GiveUpDoes
   DEF Statement, Worked

-----------------------------------------------------------------------------
(* The first administrator and the sessions *)

(* What a step of the account is to the sessions. *)
LEMMA AuthSteps ==
    ASSUME [Next]_vars
    PROVE  \/ \E c \in Caller :
                \/ \E op \in {"bootstrap", "login"} : Arrive(c, op, NoSession)
                \/ \E op \in {"logout", "refresh"} : Arrive(c, op, cookie)
                \/ Handle(c)
                \/ auth' = [auth EXCEPT ![c] = Quiet] /\ UNCHANGED <<administrators, session, signing>>
           \/ UNCHANGED authVars
<1>1. CASE \E r \in Request : AddProvider(r) \/ SaveProvider(r) \/ MakeDefault(r) \/ DeleteProvider(r)
  BY <1>1 DEF AddProvider, SaveProvider, MakeDefault, DeleteProvider, Send
<1>2. CASE \E r \in Request : UnsetDefault(r) \/ Served(r) \/ Answer(r) \/ LoseAnswer(r)
  BY <1>2 DEF UnsetDefault, Served, Answer, LoseAnswer, Hangup
<1>3. CASE \/ EditProvider \/ CancelEdit \/ LoadModels \/ ModelsAnswer \/ CloseSettings
           \/ PressReload \/ OpenPage \/ ReadConfigs \/ ConfigsAnswer \/ ConfigsFail
  BY <1>3 DEF EditProvider, CancelEdit, LoadModels, ModelsAnswer, CloseSettings, OnlyForm,
              PressReload, OpenPage, ReadConfigs, ConfigsAnswer, ConfigsFail
<1>4. CASE \E c \in Caller :
             SignIn(c) \/ SignOut(c) \/ RefreshSession(c) \/ BootstrapElsewhere(c)
  BY <1>4 DEF SignIn, SignOut, RefreshSession, BootstrapElsewhere, SendAuth
<1>5. CASE \E c \in Caller : Handled(c) \/ AuthAnswer(c) \/ LoseAuthAnswer(c)
  BY <1>5 DEF Handled, AuthAnswer, LoseAuthAnswer
<1>6. CASE UNCHANGED vars
  BY <1>6 DEF vars
<1> QED
  BY <1>1, <1>2, <1>3, <1>4, <1>5, <1>6 DEF Next

(* Between its lock and its row a bootstrap is alone, and it counted no    *)
(* administrator.                                                          *)
OneInv ==
    /\ administrators <= 1
    /\ \A c, o \in Caller :
         auth[c].at \in {"locked", "counted"} /\ auth[o].at \in {"locked", "counted"} => c = o
    /\ \A c \in Caller : auth[c].at \in {"locked", "counted"} => auth[c].op = "bootstrap"
    /\ \A c \in Caller : auth[c].at = "counted" => administrators = 0

(* A request that was let in has a session that was made, and one no other *)
(* request was let in with is still good when it did not meet another.     *)
LetIn(c, s) == auth[c].at = "verified" /\ auth[c].of = s
HandInv ==
    /\ \A s \in Session : session[s].replaces \in Created \cup {NoSession}
    /\ \A c \in Caller : auth[c].op \in {"bootstrap", "login"} => auth[c].of = NoSession
    /\ \A c \in Caller : auth[c].at = "verified" =>
         auth[c].op # "none" /\ (auth[c].op \in {"refresh", "logout"} => auth[c].of \in Created)
    /\ signing.out \subseteq Created
    /\ \A s \in signing.out : ~Live(s)
    /\ \A s \in Session \ signing.raced :
         /\ \A c, o \in Caller : LetIn(c, s) /\ LetIn(o, s) => c = o
         /\ (\E c \in Caller : LetIn(c, s)) => Live(s)

AuthTypeOK == SessionTypeOK /\ cookie \in Nat

LEMMA AnUnusedSession ==
    ASSUME Created # Session
    PROVE  LET new == CHOOSE s \in Session \ Created : \A t \in Session \ Created : s <= t IN
           new \in Session \ Created
<1>1. Session \ Created # {} /\ Session \ Created \in SUBSET Nat
  BY SessionAssumption DEF Created, Session
<1>2. \E s \in Session \ Created : \A t \in Session \ Created : s <= t
  BY <1>1, Smallest
<1> QED
  BY <1>2

SessionRecord == [state : {"unused", "live", "ended"}, replaces : Nat]

(* What a createSession does to the sessions. *)
LEMMA CreateSessionDoes ==
    ASSUME SessionTypeOK, NEW c \in Caller, CreateSession(c)
    PROVE  \E new \in Session \ Created :
             /\ session' \in [Session -> SessionRecord]
             /\ session'[new].state = "live" /\ session'[new].replaces = auth[c].of
             /\ \A s \in Session \ {new} :
                  /\ session'[s].replaces = session[s].replaces
                  /\ session'[s].state = IF auth[c].op = "refresh" /\ s = auth[c].of
                                           /\ session[s].state = "live"
                                         THEN "ended" ELSE session[s].state
             /\ auth' = [auth EXCEPT ![c] = [@ EXCEPT !.at = "ok", !.made = new]]
<1> DEFINE old == auth[c].of
           new == CHOOSE s \in Session \ Created : \A t \in Session \ Created : s <= t
           before == IF auth[c].op = "refresh" THEN Revoked(old) ELSE session
           record == [state |-> "live", replaces |-> old]
<1>1. new \in Session \ Created
  BY AnUnusedSession DEF CreateSession
<1>2. session' = [before EXCEPT ![new] = record]
  BY DEF CreateSession
<1>a. auth' = [auth EXCEPT ![c].at = "ok", ![c].made = new]
  BY DEF CreateSession
<1>3. session \in [Session -> SessionRecord] /\ old \in Nat
  BY DEF SessionTypeOK, SessionRecord
<1>4. record \in SessionRecord /\ record.state = "live" /\ record.replaces = old
  BY <1>3 DEF SessionRecord
<1>5. /\ before \in [Session -> SessionRecord]
      /\ \A s \in Session :
           /\ before[s].replaces = session[s].replaces
           /\ before[s].state = IF auth[c].op = "refresh" /\ s = old /\ session[s].state = "live"
                                THEN "ended" ELSE session[s].state
  BY <1>3 DEF Revoked, SessionRecord
<1> HIDE DEF before, record, new
<1>b. auth' = [auth EXCEPT ![c] = [@ EXCEPT !.at = "ok", !.made = new]]
  BY <1>a DEF SessionTypeOK
<1>6. /\ session' \in [Session -> SessionRecord] /\ session'[new] = record
      /\ \A s \in Session \ {new} : session'[s] = before[s]
  BY <1>1, <1>2, <1>4, <1>5
<1> QED
  BY <1>1, <1>2, <1>b, <1>4, <1>5, <1>6

LEMMA AuthTypeInit == Init => AuthTypeOK
<1> SUFFICES ASSUME Init PROVE AuthTypeOK
  OBVIOUS
<1>1. PICK users \in {0, 1} : SessionInit(users) /\ cookie = IF users = 0 THEN NoSession ELSE 1
  BY DEF Init
<1> QED
  BY <1>1 DEF SessionInit, AuthTypeOK, SessionTypeOK, Quiet, Unused, NoSession, Session

AuthRecord == [op : {"none", "bootstrap", "login", "refresh", "logout"},
               at : {"free", "arrived", "locked", "counted", "verified", "refused", "ok"},
               of : Nat, made : Nat]

LEMMA AuthRecords ==
    /\ SessionTypeOK <=> /\ administrators \in Nat /\ session \in [Session -> SessionRecord]
                         /\ auth \in [Caller -> AuthRecord]
                         /\ signing \in [out : SUBSET Nat, raced : SUBSET Nat]
    /\ Quiet \in AuthRecord /\ Quiet.at = "free" /\ Quiet.op = "none"
BY DEF SessionTypeOK, AuthRecord, SessionRecord, Quiet, NoSession

LEMMA AuthRecordsNext ==
    SessionTypeOK' <=> /\ administrators' \in Nat /\ session' \in [Session -> SessionRecord]
                       /\ auth' \in [Caller -> AuthRecord]
                       /\ signing' \in [out : SUBSET Nat, raced : SUBSET Nat]
BY DEF SessionTypeOK, AuthRecord, SessionRecord

LEMMA ArriveDoes ==
    ASSUME SessionTypeOK, NEW c \in Caller, NEW op \in {"bootstrap", "login", "refresh", "logout"},
           NEW of \in Nat, Arrive(c, op, of)
    PROVE  \E new \in AuthRecord :
             /\ new.op = op /\ new.at = "arrived" /\ new.of = of
             /\ auth' = [auth EXCEPT ![c] = new] /\ auth[c].at = "free"
             /\ UNCHANGED <<administrators, session, signing>>
<1> DEFINE new == [Quiet EXCEPT !.op = op, !.at = "arrived", !.of = of]
<1>1. new \in AuthRecord /\ new.op = op /\ new.at = "arrived" /\ new.of = of
  BY DEF Quiet, AuthRecord, NoSession
<1>2. auth' = [auth EXCEPT ![c] = new] /\ auth[c].at = "free"
      /\ UNCHANGED <<administrators, session, signing>>
  BY DEF Arrive
<1> HIDE DEF new
<1> QED
  BY <1>1, <1>2

LEMMA CookieStep ==
    ASSUME AuthTypeOK, [Next]_vars
    PROVE  cookie' \in Nat
<1>1. CASE UNCHANGED cookie
  BY <1>1 DEF AuthTypeOK
<1>2. CASE \E c \in Caller : AuthAnswer(c)
  <2>1. PICK c \in Caller : AuthAnswer(c)
    BY <1>2
  <2>2. auth[c].made \in Nat /\ cookie \in Nat /\ NoSession \in Nat
    BY AuthRecords DEF AuthTypeOK, AuthRecord, NoSession
  <2>3. cookie' \in {cookie, NoSession, auth[c].made}
    BY <2>1 DEF AuthAnswer
  <2> QED
    BY <2>2, <2>3
<1> QED
  BY <1>1, <1>2 DEF Next, vars, pageVars, AddProvider, SaveProvider, MakeDefault, DeleteProvider, Send,
     UnsetDefault, Served, Answer, LoseAnswer, Hangup, EditProvider, CancelEdit, LoadModels, ModelsAnswer,
     CloseSettings, OnlyForm, PressReload, OpenPage, ReadConfigs, ConfigsAnswer, ConfigsFail,
     SignIn, SignOut, RefreshSession, BootstrapElsewhere, SendAuth, Handled, LoseAuthAnswer

LEMMA AuthTypeNext ==
    ASSUME AuthTypeOK, [Next]_vars
    PROVE  AuthTypeOK'
<1> USE DEF SessionTypeOK
<1>0. SessionTypeOK
  BY DEF AuthTypeOK
<1>1. ASSUME NEW c \in Caller,
             \/ \E op \in {"bootstrap", "login"} : Arrive(c, op, NoSession)
             \/ \E op \in {"logout", "refresh"} : Arrive(c, op, cookie)
      PROVE  SessionTypeOK'
  <2>1. \E op \in {"bootstrap", "login", "refresh", "logout"}, of \in Nat : Arrive(c, op, of)
    BY <1>1 DEF AuthTypeOK, NoSession
  <2>2. PICK new \in AuthRecord :
          auth' = [auth EXCEPT ![c] = new] /\ UNCHANGED <<administrators, session, signing>>
    BY <1>0, <2>1, ArriveDoes
  <2>3. auth' \in [Caller -> AuthRecord]
    BY <1>0, <2>2, AuthRecords
  <2> HIDE DEF SessionTypeOK
  <2> QED
    BY <1>0, <2>2, <2>3, AuthRecords, AuthRecordsNext
<1>2. ASSUME NEW c \in Caller, Handle(c)
      PROVE  SessionTypeOK'
  <2>1. CASE TakeLock(c)
    BY <1>0, <2>1 DEF TakeLock, Step
  <2>2. CASE CountUsers(c)
    BY <1>0, <2>2 DEF CountUsers, Step
  <2>3. CASE CreateAdministrator(c)
    BY <1>0, <2>3 DEF CreateAdministrator, Step
  <2>4. CASE VerifyPassword(c)
    BY <1>0, <2>4 DEF VerifyPassword, Step
  <2>5. CASE Authenticate(c)
    <3>1. auth[c].of \in Nat
      BY <1>0
    <3>2. signing' = signing \/ signing' = [signing EXCEPT !.raced = @ \cup {auth[c].of}]
      BY <2>5 DEF Authenticate
    <3>3. signing' \in [out : SUBSET Nat, raced : SUBSET Nat]
      BY <1>0, <3>1, <3>2
    <3>4. \E step \in {"verified", "refused"} : auth' = [auth EXCEPT ![c].at = step]
      BY <2>5 DEF Authenticate, Step
    <3> QED
      BY <1>0, <2>5, <3>3, <3>4 DEF Authenticate
  <2>6. CASE CreateSession(c)
    <3>1. PICK new \in Session \ Created :
            /\ session' \in [Session -> SessionRecord]
            /\ auth' = [auth EXCEPT ![c] = [@ EXCEPT !.at = "ok", !.made = new]]
      <4> HIDE DEF SessionTypeOK
      <4> QED
        BY <1>0, <2>6, CreateSessionDoes
    <3>2. new \in Nat /\ UNCHANGED <<administrators, signing>>
      BY <2>6, SessionAssumption DEF CreateSession, Session
    <3> DEFINE u == [auth[c] EXCEPT !.at = "ok", !.made = new]
    <3>3. auth' = [auth EXCEPT ![c] = u]
      BY <3>1
    <3>4. u \in AuthRecord
      BY <1>0, <3>2, AuthRecords DEF AuthRecord
    <3> HIDE DEF u
    <3>5. auth' \in [Caller -> AuthRecord]
      BY <1>0, <3>3, <3>4, AuthRecords
    <3> HIDE DEF SessionTypeOK
    <3> QED
      BY <1>0, <3>1, <3>2, <3>5, AuthRecords, AuthRecordsNext
  <2>7. CASE EndSession(c)
    <3> HIDE DEF SessionTypeOK
    <3>1. auth' \in [Caller -> AuthRecord]
      BY <1>0, <2>7, AuthRecords DEF EndSession, Step, AuthRecord
    <3>2. session' \in [Session -> SessionRecord]
      BY <1>0, <2>7, AuthRecords DEF EndSession, SessionRecord
    <3>3. auth[c].of \in Nat
      BY <1>0, AuthRecords DEF AuthRecord
    <3>4. signing' \in [out : SUBSET Nat, raced : SUBSET Nat]
      BY <1>0, <2>7, <3>3, AuthRecords DEF EndSession
    <3> QED
      BY <1>0, <2>7, <3>1, <3>2, <3>4, AuthRecords, AuthRecordsNext DEF EndSession
  <2> QED
    BY <1>2, <2>1, <2>2, <2>3, <2>4, <2>5, <2>6, <2>7 DEF Handle
<1>3. ASSUME NEW c \in Caller, auth' = [auth EXCEPT ![c] = Quiet],
             UNCHANGED <<administrators, session, signing>>
      PROVE  SessionTypeOK'
  <2>1. auth' \in [Caller -> AuthRecord]
    BY <1>0, <1>3, AuthRecords
  <2> HIDE DEF SessionTypeOK
  <2> QED
    BY <1>0, <1>3, <2>1, AuthRecords, AuthRecordsNext
<1>4. ASSUME UNCHANGED authVars PROVE SessionTypeOK'
  BY <1>0, <1>4 DEF authVars
<1> HIDE DEF SessionTypeOK
<1> QED
  BY <1>1, <1>2, <1>3, <1>4, AuthSteps, CookieStep DEF AuthTypeOK

LEMMA OneInit == Init => OneInv
BY DEF Init, SessionInit, OneInv, Quiet

LEMMA OneNext ==
    ASSUME AuthTypeOK, OneInv, [Next]_vars
    PROVE  OneInv'
<1> USE DEF OneInv, AuthTypeOK, SessionTypeOK
<1>1. ASSUME NEW c \in Caller,
             \/ \E op \in {"bootstrap", "login"} : Arrive(c, op, NoSession)
             \/ \E op \in {"logout", "refresh"} : Arrive(c, op, cookie)
      PROVE  OneInv'
  <2>1. \E op \in {"bootstrap", "login", "refresh", "logout"}, of \in Nat : Arrive(c, op, of)
    BY <1>1 DEF NoSession
  <2>2. PICK new \in AuthRecord :
          /\ auth' = [auth EXCEPT ![c] = new] /\ UNCHANGED <<administrators, session, signing>>
          /\ new.at = "arrived"
    BY <2>1, ArriveDoes
  <2> QED
    BY <2>2
<1>2. ASSUME NEW c \in Caller, Handle(c)
      PROVE  OneInv'
  <2>1. CASE TakeLock(c)
    BY <2>1 DEF TakeLock, Step, Asks, LockFree
  <2>2. CASE CountUsers(c)
    BY <2>2 DEF CountUsers, Step, Asks
  <2>3. CASE CreateAdministrator(c)
    BY <2>3 DEF CreateAdministrator, Step, Asks
  <2>4. CASE VerifyPassword(c)
    BY <2>4 DEF VerifyPassword, Step, Asks
  <2>5. CASE Authenticate(c)
    BY <2>5 DEF Authenticate, Step, Asks
  <2>6. CASE CreateSession(c)
    BY <2>6 DEF CreateSession
  <2>7. CASE EndSession(c)
    BY <2>7 DEF EndSession, Step, Asks
  <2> QED
    BY <1>2, <2>1, <2>2, <2>3, <2>4, <2>5, <2>6, <2>7 DEF Handle
<1>3. ASSUME NEW c \in Caller, auth' = [auth EXCEPT ![c] = Quiet],
             UNCHANGED <<administrators, session, signing>>
      PROVE  OneInv'
  BY <1>3 DEF Quiet
<1>4. CASE UNCHANGED authVars
  BY <1>4 DEF authVars
<1> QED
  BY <1>1, <1>2, <1>3, <1>4, AuthSteps

LEMMA HandInit == Init => HandInv
<1> SUFFICES ASSUME Init PROVE HandInv
  OBVIOUS
<1>1. PICK users \in {0, 1} : SessionInit(users)
  BY DEF Init
<1>2. /\ \A c \in Caller : auth[c].at = "free" /\ auth[c].op = "none"
      /\ \A s \in Session : session[s].replaces = NoSession
      /\ signing.out = {}
  BY <1>1 DEF SessionInit, Quiet, Unused
<1> QED
  BY <1>2 DEF HandInv, LetIn

LEMMA HandNext ==
    ASSUME AuthTypeOK, HandInv, [Next]_vars
    PROVE  HandInv'
<1>0. SessionTypeOK
  BY DEF AuthTypeOK
<1> USE DEF HandInv, LetIn, Live, Created
<1>1. ASSUME NEW c \in Caller,
             \/ \E op \in {"bootstrap", "login"} : Arrive(c, op, NoSession)
             \/ \E op \in {"logout", "refresh"} : Arrive(c, op, cookie)
      PROVE  HandInv'
  <2>1. PICK new \in AuthRecord :
          /\ auth' = [auth EXCEPT ![c] = new] /\ UNCHANGED <<administrators, session, signing>>
          /\ new.at = "arrived" /\ new.op # "none"
          /\ new.op \in {"bootstrap", "login"} => new.of = NoSession
    <3>1. CASE \E op \in {"bootstrap", "login"} : Arrive(c, op, NoSession)
      BY <1>0, <3>1, ArriveDoes DEF NoSession
    <3>2. CASE \E op \in {"logout", "refresh"} : Arrive(c, op, cookie)
      BY <1>0, <3>2, ArriveDoes DEF AuthTypeOK
    <3> QED
      BY <1>1, <3>1, <3>2
  <2> QED
    BY <1>0, <2>1, AuthRecords
<1>2. ASSUME NEW c \in Caller, Handle(c)
      PROVE  HandInv'
  <2>a. auth \in [Caller -> AuthRecord]
    BY <1>0, AuthRecords
  <2>1. CASE TakeLock(c) \/ CountUsers(c)
    BY <2>a, <2>1 DEF TakeLock, CountUsers, Step, Asks, AuthRecord
  <2>3. CASE CreateAdministrator(c) \/ VerifyPassword(c)
    <3>1. NoSession \notin Session
      BY SessionAssumption DEF NoSession, Session
    <3>2. /\ \A o \in Caller : auth'[o].of = auth[o].of /\ auth'[o].op = auth[o].op
          /\ \A o \in Caller \ {c} : auth'[o].at = auth[o].at
          /\ auth[c].op \in {"bootstrap", "login"} /\ UNCHANGED <<session, signing>>
      BY <2>a, <2>3 DEF CreateAdministrator, VerifyPassword, Step, Asks, AuthRecord
    <3> QED
      BY <3>1, <3>2
  <2>5. CASE Authenticate(c)
    <3> DEFINE s == auth[c].of
               step == IF Accepts(s) THEN "verified" ELSE "refused"
    <3>1. /\ \A o \in Caller : auth'[o].of = auth[o].of /\ auth'[o].op = auth[o].op
          /\ \A o \in Caller \ {c} : auth'[o].at = auth[o].at
          /\ auth'[c].at = step /\ auth[c].op \in {"refresh", "logout"}
          /\ UNCHANGED session
      BY <2>a, <2>5 DEF Authenticate, Step, AuthRecord
    <3>2. /\ signing'.out = signing.out /\ signing.raced \subseteq signing'.raced
          /\ (\E o \in Caller \ {c} : LetIn(o, s)) => s \in signing'.raced
      BY <1>0, <2>5, AuthRecords DEF Authenticate
    <3>3. step = "verified" => Live(s) /\ s \in Created
      BY <1>0 DEF Accepts
    <3>4. \A z \in Session, o \in Caller : LetIn(o, z)' =>
             LetIn(o, z) \/ (o = c /\ z = s /\ step = "verified")
      BY <3>1
    <3>5. \A z \in Session : Live(z)' <=> Live(z)
      BY <3>1
    <3>6. Created' = Created
      BY <3>1
    <3>7. \A o \in Caller : auth'[o].at = "verified" =>
             auth'[o].op # "none" /\ (auth'[o].op \in {"refresh", "logout"} => auth'[o].of \in Created')
      BY <3>1, <3>3, <3>6
    <3>9. signing.out \subseteq Session
      OBVIOUS
    <3> HIDE DEF s, step, LetIn, Live, Created
    <3>8. \A z \in Session \ signing'.raced :
             /\ \A o, p \in Caller : LetIn(o, z)' /\ LetIn(p, z)' => o = p
             /\ (\E o \in Caller : LetIn(o, z)') => Live(z)'
      BY <3>2, <3>3, <3>4, <3>5
    <3> QED
      BY <3>1, <3>2, <3>5, <3>6, <3>7, <3>8, <3>9
  <2>6. CASE CreateSession(c)
    <3> DEFINE old == auth[c].of
    <3>1. PICK new \in Session \ Created :
             /\ session' \in [Session -> SessionRecord]
             /\ session'[new].state = "live" /\ session'[new].replaces = old
             /\ \A s \in Session \ {new} :
                  /\ session'[s].replaces = session[s].replaces
                  /\ session'[s].state = IF auth[c].op = "refresh" /\ s = old
                                           /\ session[s].state = "live"
                                         THEN "ended" ELSE session[s].state
             /\ auth' = [auth EXCEPT ![c] = [@ EXCEPT !.at = "ok", !.made = new]]
      BY <1>0, <2>6, CreateSessionDoes
    <3>2. /\ \A o \in Caller : auth'[o].of = auth[o].of /\ auth'[o].op = auth[o].op
          /\ \A o \in Caller \ {c} : auth'[o].at = auth[o].at
          /\ auth'[c].at = "ok"
      BY <2>a, <3>1 DEF AuthRecord
    <3>3. auth[c].at = "verified" /\ auth[c].op # "logout" /\ UNCHANGED signing
      BY <2>6 DEF CreateSession
    <3>4. old \in Created \cup {NoSession}
      BY <2>a, <3>3 DEF AuthRecord
    <3>5. Created' = Created \cup {new}
      BY <3>1
    <3>6. \A s \in Session : Live(s)' => s = new \/ Live(s)
      BY <3>1
    <3>7. \A s \in Session : Live(s) /\ ~Live(s)' => s = old
      BY <3>1
    <3> HIDE DEF Live, Created, LetIn
    <3>8. /\ \A o \in Caller, s \in Session : LetIn(o, s)' => LetIn(o, s) /\ o # c
          /\ LetIn(c, old)
      BY <3>2, <3>3 DEF LetIn
    <3>9. \A s \in Session' : session'[s].replaces \in Created' \cup {NoSession}
      BY <3>1, <3>4, <3>5
    <3>10. /\ \A o \in Caller : auth'[o].op \in {"bootstrap", "login"} => auth'[o].of = NoSession
           /\ \A o \in Caller : auth'[o].at = "verified" =>
                auth'[o].op # "none" /\ (auth'[o].op \in {"refresh", "logout"} => auth'[o].of \in Created')
      BY <3>2, <3>5
    <3>11. signing'.out \subseteq Created' /\ \A s \in signing'.out : ~Live(s)'
      <4>1. new \notin signing.out /\ signing.out \subseteq Session
        BY <3>1 DEF Created
      <4> QED
        BY <3>3, <3>5, <3>6, <4>1
    <3>12. \A s \in Session \ signing.raced :
             /\ \A o, p \in Caller : LetIn(o, s)' /\ LetIn(p, s)' => o = p
             /\ \A o \in Caller : LetIn(o, s)' => Live(s)'
      BY <3>7, <3>8
    <3> QED
      BY <3>3, <3>9, <3>10, <3>11, <3>12
  <2>7. CASE EndSession(c)
    <3> DEFINE s == auth[c].of
    <3>1. /\ \A o \in Caller : auth'[o].of = auth[o].of /\ auth'[o].op = auth[o].op
          /\ \A o \in Caller \ {c} : auth'[o].at = auth[o].at
          /\ auth'[c].at = "ok" /\ auth[c].at = "verified"
      BY <2>a, <2>7 DEF EndSession, Step, Asks, AuthRecord
    <3>2. s \in Created
      BY <2>7 DEF EndSession, Asks
    <3>3. /\ \A z \in Session : session'[z].replaces = session[z].replaces
          /\ \A z \in Session \ {s} : session'[z].state = session[z].state
          /\ session'[s].state = "ended"
      BY <1>0, <2>7, <3>2, AuthRecords DEF EndSession, SessionRecord
    <3>4. signing'.out = signing.out \cup {s} /\ signing'.raced = signing.raced
      BY <1>0, <2>7, AuthRecords DEF EndSession
    <3>5. Created' = Created
      BY <3>2, <3>3
    <3>6. \A z \in Session, o \in Caller : LetIn(o, z)' => LetIn(o, z) /\ o # c
      BY <3>1
    <3>7. LetIn(c, s)
      BY <3>1
    <3>8. \A z \in Session : Live(z)' <=> Live(z) /\ z # s
      BY <3>3
    <3>9. \A o \in Caller : auth'[o].at = "verified" =>
             auth'[o].op # "none" /\ (auth'[o].op \in {"refresh", "logout"} => auth'[o].of \in Created')
      BY <3>1, <3>5
    <3>10. s \in Session /\ signing.out \subseteq Session
      BY <3>2
    <3> HIDE DEF s, LetIn, Live, Created
    <3>11. \A z \in Session \ signing'.raced :
             /\ \A o, p \in Caller : LetIn(o, z)' /\ LetIn(p, z)' => o = p
             /\ (\E o \in Caller : LetIn(o, z)') => Live(z)'
      BY <3>4, <3>6, <3>7, <3>8, <3>10
    <3>12. \A z \in signing'.out : ~Live(z)'
      BY <3>4, <3>8, <3>10
    <3> QED
      BY <3>1, <3>2, <3>3, <3>4, <3>5, <3>9, <3>11, <3>12
  <2> QED
    BY <1>2, <2>1, <2>3, <2>5, <2>6, <2>7 DEF Handle
<1>3. ASSUME NEW c \in Caller, auth' = [auth EXCEPT ![c] = Quiet],
             UNCHANGED <<administrators, session, signing>>
      PROVE  HandInv'
  BY <1>0, <1>3, AuthRecords
<1>4. CASE UNCHANGED authVars
  BY <1>4 DEF authVars
<1> QED
  BY <1>1, <1>2, <1>3, <1>4, AuthSteps

(* The setup makes one administrator, however many bootstraps ask at once: *)
(* the advisory lock, the count and the row under it.                      *)
THEOREM SetupMakesOne == Spec => []OneAdministrator
<1>1. Init => AuthTypeOK /\ OneInv
  BY AuthTypeInit, OneInit
<1>2. AuthTypeOK /\ OneInv /\ [Next]_vars => (AuthTypeOK /\ OneInv)'
  BY AuthTypeNext, OneNext
<1>3. OneInv => OneAdministrator
  BY DEF OneInv, OneAdministrator
<1> QED
  BY <1>1, <1>2, <1>3, PTL DEF Spec

SuccessionInv == AuthTypeOK /\ HandInv /\ HandedOver

LEMMA HandedOverNext ==
    ASSUME SuccessionInv, [Next]_vars
    PROVE  HandedOver'
<1>0. SessionTypeOK /\ auth \in [Caller -> AuthRecord]
  BY AuthRecords DEF SuccessionInv, AuthTypeOK
<1> USE DEF SuccessionInv, HandInv, HandedOver, Successors
<1>1. CASE UNCHANGED <<session, signing>>
  BY <1>1 DEF Live
<1>2. ASSUME NEW c \in Caller, Authenticate(c)
      PROVE  HandedOver'
  <2>1. session' = session /\ signing'.out = signing.out /\ signing.raced \subseteq signing'.raced
    BY <1>0, <1>2, AuthRecords DEF Authenticate
  <2> QED
    BY <2>1 DEF Live
<1>3. ASSUME NEW c \in Caller, CreateSession(c)
      PROVE  HandedOver'
  <2> DEFINE old == auth[c].of
  <2>1. PICK new \in Session \ Created :
             /\ session' \in [Session -> SessionRecord]
             /\ session'[new].state = "live" /\ session'[new].replaces = old
             /\ \A s \in Session \ {new} :
                  /\ session'[s].replaces = session[s].replaces
                  /\ session'[s].state = IF auth[c].op = "refresh" /\ s = old
                                           /\ session[s].state = "live"
                                         THEN "ended" ELSE session[s].state
    BY <1>0, <1>3, CreateSessionDoes
  <2>2. UNCHANGED signing /\ auth[c].at = "verified" /\ auth[c].op # "logout"
    BY <1>3 DEF CreateSession
  <2>3. old \in Session => auth[c].op = "refresh" /\ old \in Created
    <3>1. NoSession \notin Session
      BY SessionAssumption DEF NoSession, Session
    <3> QED
      BY <1>0, <2>2, <3>1 DEF AuthRecord
  <2>4. \A s \in Session : Live(s)' => s = new \/ (Live(s) /\ s # old)
    BY <2>1, <2>3 DEF Live
  <2>5. \A s \in Session : Successors(s)' \subseteq Successors(s) \cup (IF s = old THEN {new} ELSE {})
    BY <2>1
  <2>6. old \in Session \ signing.raced => Live(old)
    BY <2>2 DEF LetIn
  <2>7. new \notin signing.out /\ new # old
    BY <2>1, <2>3 DEF Created
  <2>8. Successors(new) = {}
    <3>1. NoSession # new
      BY <2>1, SessionAssumption DEF NoSession, Session
    <3> QED
      BY <2>1, <3>1
  <2>9. \A s \in signing.out : ~Live(s)
    OBVIOUS
  <2> HIDE DEF old, HandInv, Successors
  <2>10. ASSUME NEW s \in Session \ signing.raced
         PROVE  /\ \A t, u \in Successors(s)' : t = u
                /\ Live(s)' \/ s \in signing.out => Successors(s)' = {}
    <3>1. CASE s = old
      BY <2>4, <2>5, <2>6, <2>7, <2>9, <3>1
    <3>2. CASE s = new
      BY <2>5, <2>7, <2>8, <3>2
    <3>3. CASE s # old /\ s # new
      BY <2>4, <2>5, <3>3
    <3> QED
      BY <3>1, <3>2, <3>3
  <2> QED
    BY <2>2, <2>10
<1>4. ASSUME NEW c \in Caller, EndSession(c)
      PROVE  HandedOver'
  <2> DEFINE s == auth[c].of
  <2>1. auth[c].at = "verified" /\ s \in Created
    BY <1>4 DEF EndSession, Asks
  <2>2. /\ \A z \in Session : session'[z].replaces = session[z].replaces
        /\ \A z \in Session \ {s} : session'[z].state = session[z].state
        /\ session'[s].state = "ended"
    BY <1>0, <1>4, <2>1, AuthRecords DEF EndSession, SessionRecord, Created
  <2>3. signing'.out = signing.out \cup {s} /\ signing'.raced = signing.raced
    BY <1>0, <1>4, AuthRecords DEF EndSession
  <2>4. s \in Session \ signing.raced => Live(s)
    BY <2>1 DEF LetIn
  <2>5. \A z \in Session : Successors(z)' \subseteq Successors(z)
    BY <2>2
  <2>6. \A z \in Session : Live(z)' => Live(z)
    BY <2>2 DEF Live
  <2> HIDE DEF s, HandInv, Successors
  <2> QED
    BY <2>3, <2>4, <2>5, <2>6
<1>5. CASE \E c \in Caller : Handle(c)
  <2>1. PICK c \in Caller : Handle(c)
    BY <1>5
  <2>2. CASE TakeLock(c) \/ CountUsers(c) \/ CreateAdministrator(c) \/ VerifyPassword(c)
    BY <1>1, <2>2 DEF TakeLock, CountUsers, CreateAdministrator, VerifyPassword
  <2> QED
    BY <1>2, <1>3, <1>4, <2>1, <2>2 DEF Handle
<1>6. CASE ~(\E c \in Caller : Handle(c))
  BY <1>1, <1>6, AuthSteps DEF Arrive, authVars
<1> QED
  BY <1>5, <1>6

(* A refresh hands a session over to one other session, and no successor   *)
(* of a session that is still good, or was signed out, is good, unless two *)
(* requests with its cookie were let in at once.                           *)
THEOREM SessionsAreHandedOver == Spec => []HandedOver
<1>1. Init => SuccessionInv
  <2> SUFFICES ASSUME Init PROVE SuccessionInv
    OBVIOUS
  <2>1. PICK users \in {0, 1} : SessionInit(users)
    BY DEF Init
  <2>2. \A s \in Session : Successors(s) = {}
    BY <2>1, SessionAssumption DEF SessionInit, Unused, Successors, NoSession, Session
  <2> QED
    BY <2>2, AuthTypeInit, HandInit DEF SuccessionInv, HandedOver
<1>2. SuccessionInv /\ [Next]_vars => SuccessionInv'
  BY AuthTypeNext, HandNext, HandedOverNext DEF SuccessionInv
<1>3. SuccessionInv => HandedOver
  BY DEF SuccessionInv
<1> QED
  BY <1>1, <1>2, <1>3, PTL DEF Spec

-----------------------------------------------------------------------------
(* What a call of the page sends *)

PageTypeOK ==
    /\ screen \in {"loading", "authenticated", "bootstrap", "login"}
    /\ shown \in Items
    /\ load \in [at : {"none", "asked", "answered", "refused"}, items : Items]
    /\ form \in Form \cup {None} /\ listing \in Form \cup {None}
    /\ awaits \in [Request \cup Caller -> Use]
    /\ calls \in Nat /\ losses \in Nat
    /\ doubt \in [list : BOOLEAN, crossed : BOOLEAN, promoted : BOOLEAN, old : SUBSET Config]

LEMMA TypeParts == TypeOK <=> ConfigTypeOK /\ AuthTypeOK /\ PageTypeOK
BY DEF TypeOK, AuthTypeOK, PageTypeOK

LEMMA TypePartsNext == TypeOK' <=> ConfigTypeOK' /\ AuthTypeOK' /\ PageTypeOK'
BY DEF TypeOK, AuthTypeOK, PageTypeOK

(* A transaction that met another one. *)
NotAlone(u, t) ==
    /\ t \in Tx /\ WellFormed(t)
    /\ t.at = u.at /\ t.id = u.id /\ t.isDefault = u.isDefault /\ t.existing = u.existing
    /\ t.todo = u.todo /\ t.wrote = u.wrote /\ t.op = u.op /\ t.baseUrl = u.baseUrl
    /\ t.apiKey = u.apiKey /\ t.unset = u.unset

LEMMA NotAloneStep ==
    ASSUME NEW u \in Tx, WellFormed(u), NEW b \in BOOLEAN
    PROVE  LET t == [u EXCEPT !.alone = b] IN NotAlone(u, t) /\ t.alone = b
<1> DEFINE t == [u EXCEPT !.alone = b]
<1>1. t \in Tx
  BY DEF Tx
<1>2. /\ t.op = u.op /\ t.baseUrl = u.baseUrl /\ t.apiKey = u.apiKey /\ t.alone = b
      /\ t.at = u.at /\ t.id = u.id /\ t.isDefault = u.isDefault /\ t.existing = u.existing
      /\ t.todo = u.todo /\ t.wrote = u.wrote /\ t.unset = u.unset
  BY DEF Tx
<1> HIDE DEF t
<1>3. WellFormed(t)
  BY <1>2 DEF WellFormed
<1> QED
  BY <1>1, <1>2, <1>3 DEF NotAlone, t

Asked(q) ==
    /\ q \in Tx /\ q.at = "free" /\ q.wrote = {} /\ q.todo = {} /\ q.op # "none"
    /\ q.op = "create" => q.baseUrl \in Account /\ q.apiKey = q.baseUrl
    /\ q.op = "update" => q.apiKey \in {None, q.baseUrl}
    /\ q.op \in {"update", "delete"} => q.id \in Config
    /\ q.unset => q.op = "update" /\ ~q.isDefault

BegunTo(r, q, t) ==
    /\ tx[r].at = "free" /\ t \in Tx /\ WellFormed(t)
    /\ t.at = "begun" /\ t.wrote = {} /\ t.todo = {}
    /\ t.op = q.op /\ t.id = q.id /\ t.isDefault = q.isDefault
    /\ t.baseUrl = q.baseUrl /\ t.apiKey = q.apiKey
    /\ t.alone => \A o \in Request \ {r} : ~Working(o)
    /\ tx' \in [Request -> Tx] /\ tx'[r] = t
    /\ \A o \in Request \ {r} : NotAlone(tx[o], tx'[o]) /\ (tx'[o].alone => tx[o].alone /\ ~Working(o))
                                /\ (~Working(o) => tx'[o].alone = tx[o].alone)
    /\ clashes' \in [delete : BOOLEAN, updated : SUBSET Config, unset : BOOLEAN]
    /\ clashes'.unset = clashes.unset
    /\ ~clashes'.delete => /\ ~clashes.delete
                           /\ \A o \in Request \ {r} : Working(o) => t.op # "delete" /\ tx[o].op # "delete"
    /\ clashes.updated \subseteq clashes'.updated
    /\ t.op = "update" => \A o \in Request \ {r} :
         Working(o) /\ tx[o].op = "update" /\ tx[o].id = t.id => t.id \in clashes'.updated
    /\ UNCHANGED <<rows, born>>

LEMMA BegunStep ==
    ASSUME NEW q, Asked(q), NEW b \in BOOLEAN
    PROVE  LET t == [q EXCEPT !.at = "begun", !.alone = b] IN
           /\ t \in Tx /\ WellFormed(t) /\ t.at = "begun" /\ t.wrote = {} /\ t.todo = {}
           /\ t.op = q.op /\ t.id = q.id /\ t.isDefault = q.isDefault
           /\ t.baseUrl = q.baseUrl /\ t.apiKey = q.apiKey /\ t.alone = b
BY DEF Asked, Tx, Moment, WellFormed

LEMMA BeginDoes ==
    ASSUME Sound, NEW r \in Request, NEW q, Asked(q), Begin(r, q)
    PROVE  \E t : BegunTo(r, q, t)
<1> DEFINE others == {o \in Request \ {r} : Working(o)}
           b == (others = {})
           t == [q EXCEPT !.at = "begun", !.alone = b]
           ops == {q.op} \cup {tx[o].op : o \in others}
           sameRow == {c \in {q.id} : \E o \in others : tx[o].op = "update" /\ tx[o].id = c}
<1>1. /\ tx[r].at = "free"
      /\ tx' = [o \in Request |-> IF o = r THEN t
                                  ELSE IF o \in others THEN [tx[o] EXCEPT !.alone = FALSE] ELSE tx[o]]
      /\ clashes' = [delete |-> clashes.delete \/ (others # {} /\ "delete" \in ops),
                     updated |-> clashes.updated \cup IF q.op = "update" THEN sameRow ELSE {},
                     unset |-> clashes.unset]
      /\ UNCHANGED <<rows, born>>
  BY DEF Begin
<1>2. \A o \in Request \ {r} : o \in others <=> Working(o)
  OBVIOUS
<1>3. b \in BOOLEAN /\ (b <=> others = {})
  OBVIOUS
<1>4. others \subseteq Request \ {r}
  OBVIOUS
<1> HIDE DEF b
<1>5. /\ t \in Tx /\ WellFormed(t) /\ t.at = "begun" /\ t.wrote = {} /\ t.todo = {}
      /\ t.op = q.op /\ t.id = q.id /\ t.isDefault = q.isDefault
      /\ t.baseUrl = q.baseUrl /\ t.apiKey = q.apiKey /\ t.alone = b
  BY <1>3, BegunStep
<1> HIDE DEF t
<1>6. /\ clashes' \in [delete : BOOLEAN, updated : SUBSET Config, unset : BOOLEAN]
      /\ clashes'.unset = clashes.unset
      /\ ~clashes'.delete => /\ ~clashes.delete
                             /\ \A o \in Request \ {r} : Working(o) => t.op # "delete" /\ tx[o].op # "delete"
      /\ clashes.updated \subseteq clashes'.updated
      /\ t.op = "update" => \A o \in Request \ {r} :
           Working(o) /\ tx[o].op = "update" /\ tx[o].id = t.id => t.id \in clashes'.updated
  <2>1. clashes \in [delete : BOOLEAN, updated : SUBSET Config, unset : BOOLEAN]
    BY DEF Sound, ConfigTypeOK
  <2>2. q.op = "update" => sameRow \subseteq Config
    BY DEF Asked
  <2>3. clashes'.delete = (clashes.delete \/ (others # {} /\ "delete" \in ops))
        /\ clashes'.updated = clashes.updated \cup IF q.op = "update" THEN sameRow ELSE {}
    BY <1>1
  <2>3u. clashes'.unset = clashes.unset
    BY <1>1
  <2>4. (clashes.delete \/ (others # {} /\ "delete" \in ops)) \in BOOLEAN
    BY <2>1
  <2>5. clashes' \in [delete : BOOLEAN, updated : SUBSET Config, unset : BOOLEAN]
    BY <1>1, <2>1, <2>2, <2>4
  <2>6. ~clashes'.delete => /\ ~clashes.delete
                            /\ \A o \in Request \ {r} : Working(o) => t.op # "delete" /\ tx[o].op # "delete"
    BY <1>2, <1>5, <2>3
  <2>7. t.op = "update" => \A o \in Request \ {r} :
           Working(o) /\ tx[o].op = "update" /\ tx[o].id = t.id => t.id \in clashes'.updated
    BY <1>2, <1>5, <2>3
  <2>8. clashes.updated \subseteq clashes'.updated
    BY <2>3
  <2> QED
    BY <2>3u, <2>5, <2>6, <2>7, <2>8
<1> HIDE DEF others
<1>7. \A o \in Request \ {r} : /\ NotAlone(tx[o], tx'[o])
                               /\ tx'[o].alone => tx[o].alone /\ ~Working(o)
                               /\ ~Working(o) => tx'[o].alone = tx[o].alone
  <2> TAKE o \in Request \ {r}
  <2>1. tx[o] \in Tx /\ WellFormed(tx[o]) /\ tx[o].alone \in BOOLEAN
    BY DEF Sound, ConfigTypeOK, Tx
  <2>2. CASE Working(o)
    <3> DEFINE v == [tx[o] EXCEPT !.alone = FALSE]
    <3>1. tx'[o] = v
      BY <1>1, <1>2, <2>2
    <3>2. NotAlone(tx[o], v) /\ v.alone = FALSE
      BY <2>1, NotAloneStep
    <3> HIDE DEF v
    <3> QED
      BY <2>2, <3>1, <3>2
  <2>3. CASE ~Working(o)
    <3>1. tx'[o] = tx[o]
      BY <1>1, <1>2, <2>3
    <3> QED
      BY <2>1, <2>3, <3>1 DEF NotAlone
  <2> QED
    BY <2>2, <2>3
<1>8. tx' \in [Request -> Tx] /\ tx'[r] = t
  <2>1. tx'[r] = t
    BY <1>1
  <2>2. \A o \in Request : tx'[o] \in Tx
    BY <1>5, <1>7, <2>1 DEF NotAlone
  <2> QED
    BY <1>1, <2>1, <2>2
<1>9. t.alone => \A o \in Request \ {r} : ~Working(o)
  BY <1>2, <1>3, <1>5
<1> QED
  BY <1>1, <1>5, <1>6, <1>7, <1>8, <1>9 DEF BegunTo

(* What the calls that change a configuration send. *)
SentTo(r, q, t, use, old) ==
    /\ Asked(q) /\ BegunTo(r, q, t)
    /\ SettingsOpen /\ use \in {"submit", "apply"} /\ Call(r, use)
    /\ t.op = "create" => t.isDefault = (Shown = {}) /\ t.id = 0 /\ use = "submit"
    /\ t.op = "update" => t.id \in Shown \/ (form # None /\ t.id = form.id)
    /\ t.op = "delete" => t.id \in Shown
    /\ t.op = "update" /\ t.apiKey = None /\ t.baseUrl # None /\ t.id \in Stored
         /\ rows[t.id].baseUrl # t.baseUrl => t.id \in old
    /\ old \in SUBSET Config
    /\ doubt' = [list |-> doubt.list \/ Loading,
                 crossed |-> doubt.crossed \/ Busy # {},
                 promoted |-> doubt.promoted \/ (t.op = "delete" /\ shown[t.id].isDefault),
                 old |-> doubt.old \cup old]
    /\ UNCHANGED <<authVars, cookie, screen, shown, load, form, listing, losses>>

LEMMA OpenFields ==
    /\ Open \in Tx /\ Open.at = "free" /\ Open.wrote = {} /\ Open.todo = {}
    /\ Open.op = "none" /\ Open.id = 0 /\ Open.isDefault = FALSE /\ Open.unset = FALSE
    /\ Open.baseUrl = None
    /\ Open.apiKey = None /\ Open.alone = TRUE /\ WellFormed(Open)
BY DEF Open, Tx, Moment, WellFormed

LEMMA SendDoes ==
    ASSUME Sound, NEW r \in Request, NEW use \in {"submit", "apply"}, NEW q, NEW old \in SUBSET Config,
           Asked(q), Send(r, use, q, old),
           q.op = "create" => q.isDefault = (Shown = {}) /\ q.id = 0 /\ use = "submit",
           q.op = "update" => q.id \in Shown \/ (form # None /\ q.id = form.id),
           q.op = "delete" => q.id \in Shown,
           q.op = "update" /\ q.apiKey = None /\ q.baseUrl # None /\ q.id \in Stored
             /\ rows[q.id].baseUrl # q.baseUrl => q.id \in old
    PROVE  \E t : SentTo(r, q, t, use, old)
<1>1. PICK t : BegunTo(r, q, t)
  BY BeginDoes DEF Send
<1>2. t.op = q.op /\ t.id = q.id /\ t.isDefault = q.isDefault /\ t.baseUrl = q.baseUrl
      /\ t.apiKey = q.apiKey
  BY <1>1 DEF BegunTo
<1>3. doubt' = [list |-> doubt.list \/ Loading,
                crossed |-> doubt.crossed \/ Busy # {},
                promoted |-> doubt.promoted \/ (t.op = "delete" /\ shown[t.id].isDefault),
                old |-> doubt.old \cup old]
  BY <1>2 DEF Send
<1>4. SettingsOpen /\ Call(r, use)
      /\ UNCHANGED <<authVars, cookie, screen, shown, load, form, listing, losses>>
  BY DEF Send
<1>5. /\ t.op = "create" => t.isDefault = (Shown = {}) /\ t.id = 0 /\ use = "submit"
      /\ t.op = "update" => t.id \in Shown \/ (form # None /\ t.id = form.id)
      /\ t.op = "delete" => t.id \in Shown
  BY <1>2
<1>6. t.op = "update" /\ t.apiKey = None /\ t.baseUrl # None /\ t.id \in Stored
        /\ rows[t.id].baseUrl # t.baseUrl => t.id \in old
  BY <1>2
<1> QED
  BY <1>1, <1>3, <1>4, <1>5, <1>6 DEF SentTo

Sends(r) == AddProvider(r) \/ SaveProvider(r) \/ MakeDefault(r) \/ DeleteProvider(r)

LEMMA CallsDo ==
    ASSUME Sound, PageTypeOK, NEW r \in Request, Sends(r)
    PROVE  \E q, t, use, old : SentTo(r, q, t, use, old)
<1>0. Shown \subseteq Config /\ 0 \in Nat
  BY DEF Shown
<1>1. CASE AddProvider(r)
  <2>1. PICK a \in Account :
          Send(r, "submit", [Open EXCEPT !.op = "create", !.isDefault = (Shown = {}),
                                         !.baseUrl = a, !.apiKey = a], {})
    BY <1>1 DEF AddProvider
  <2> DEFINE first == (Shown = {})
             q == [Open EXCEPT !.op = "create", !.isDefault = first, !.baseUrl = a, !.apiKey = a]
  <2>2. Send(r, "submit", q, {})
    BY <2>1
  <2>3. first \in BOOLEAN /\ (first = (Shown = {}))
    OBVIOUS
  <2> HIDE DEF first
  <2>4. Asked(q) /\ q.op = "create" /\ q.isDefault = first /\ q.id = 0
    BY <2>3 DEF Asked, Open, Tx, Moment
  <2> HIDE DEF q
  <2>5. q.isDefault = (Shown = {})
    BY <2>3, <2>4
  <2> QED
    BY <2>2, <2>4, <2>5, SendDoes
<1>2. CASE SaveProvider(r)
  <2>1. PICK a \in Account \cup {None} :
         LET kept == a = None
             old == {c \in Stored : kept /\ c = form.id /\ rows[c].baseUrl # form.baseUrl} IN
         Send(r, "submit", [Open EXCEPT !.op = "update", !.id = form.id, !.apiKey = a,
                                        !.baseUrl = IF kept THEN form.baseUrl ELSE a], old)
    BY <1>2 DEF SaveProvider
  <2>2. form \in Form /\ form # None /\ form.id \in Config /\ form.id \in Nat /\ form.baseUrl \in Account
    BY <1>2, ConfigAssumption DEF SaveProvider, PageTypeOK, Form, Config
  <2> DEFINE url == IF a = None THEN form.baseUrl ELSE a
             old == {c \in Stored : a = None /\ c = form.id /\ rows[c].baseUrl # form.baseUrl}
             q == [Open EXCEPT !.op = "update", !.id = form.id, !.apiKey = a, !.baseUrl = url]
  <2>3. Send(r, "submit", q, old)
    BY <2>1
  <2>4. url \in Account /\ (a # None => url = a) /\ (a = None => url = form.baseUrl)
    BY <2>2
  <2> HIDE DEF url
  <2>5. Asked(q) /\ q.op = "update" /\ q.id = form.id /\ q.apiKey = a /\ q.baseUrl = url
    BY <2>2, <2>4 DEF Asked, Open, Tx, Moment
  <2> HIDE DEF q
  <2>6. old \in SUBSET Config
    BY StoredRows
  <2>7. q.apiKey = None /\ q.baseUrl # None /\ q.id \in Stored /\ rows[q.id].baseUrl # q.baseUrl
          => q.id \in old
    BY <2>4, <2>5
  <2> HIDE DEF old
  <2> QED
    BY <2>2, <2>3, <2>5, <2>6, <2>7, SendDoes
<1>3. CASE MakeDefault(r)
  <2>1. PICK c \in Shown :
          Send(r, "apply", [Open EXCEPT !.op = "update", !.id = c, !.isDefault = TRUE], {})
    BY <1>3 DEF MakeDefault
  <2>a. c \in Config /\ c \in Nat
    BY <1>0, ConfigAssumption DEF Config
  <2> DEFINE q == [Open EXCEPT !.op = "update", !.id = c, !.isDefault = TRUE]
  <2>2. Send(r, "apply", q, {})
    BY <2>1
  <2>3. Asked(q) /\ q.op = "update" /\ q.id = c /\ q.baseUrl = None
    BY <2>a DEF Asked, Open, Tx, Moment
  <2> HIDE DEF q
  <2> QED
    BY <2>2, <2>3, SendDoes
<1>4. CASE DeleteProvider(r)
  <2>1. PICK c \in Shown : Send(r, "apply", [Open EXCEPT !.op = "delete", !.id = c], {})
    BY <1>4 DEF DeleteProvider
  <2>a. c \in Config /\ c \in Nat
    BY <1>0, ConfigAssumption DEF Config
  <2> DEFINE q == [Open EXCEPT !.op = "delete", !.id = c]
  <2>2. Send(r, "apply", q, {})
    BY <2>1
  <2>3. Asked(q) /\ q.op = "delete" /\ q.id = c
    BY <2>a DEF Asked, Open, Tx, Moment
  <2> HIDE DEF q
  <2> QED
    BY <2>2, <2>3, SendDoes
<1> QED
  BY <1>1, <1>2, <1>3, <1>4 DEF Sends

(* What a call from elsewhere sends. *)
UnsetTo(r, q, t) ==
    /\ Asked(q) /\ BegunTo(r, q, t) /\ Call(r, "nothing")
    /\ t.op = "update" /\ t.id \in Stored /\ t.apiKey = None /\ t.baseUrl = None
    /\ doubt' = [doubt EXCEPT !.list = TRUE]
    /\ UNCHANGED <<authVars, cookie, screen, shown, load, form, listing, losses>>

LEMMA UnsetDoes ==
    ASSUME Sound, NEW r \in Request, UnsetDefault(r)
    PROVE  \E q, t : UnsetTo(r, q, t)
<1>1. PICK c \in Stored : Begin(r, [Open EXCEPT !.op = "update", !.id = c, !.unset = TRUE])
  BY DEF UnsetDefault
<1>2. c \in Config /\ c \in Nat
  BY ConfigAssumption, StoredRows DEF Config
<1> DEFINE q == [Open EXCEPT !.op = "update", !.id = c, !.unset = TRUE]
<1>3. Asked(q) /\ q.op = "update" /\ q.id = c /\ q.baseUrl = None /\ q.apiKey = None
  BY <1>2 DEF Asked, Open, Tx, Moment
<1>4. Begin(r, q)
  BY <1>1
<1> HIDE DEF q
<1>5. PICK t : BegunTo(r, q, t)
  BY <1>3, <1>4, BeginDoes
<1>6. t.op = "update" /\ t.id = c /\ t.apiKey = None /\ t.baseUrl = None
  BY <1>3, <1>5 DEF BegunTo
<1> QED
  BY <1>1, <1>3, <1>5, <1>6 DEF UnsetDefault, UnsetTo

(* What both are to the configurations. *)
StartTo(r, q, t, old) ==
    /\ Asked(q) /\ BegunTo(r, q, t) /\ doubt'.old = doubt.old \cup old
    /\ t.op = "create" => t.id = 0
    /\ t.op \in {"update", "delete"} =>
         t.id \in Shown \/ t.id \in Stored \/ (form # None /\ t.id = form.id)
    /\ t.op = "update" /\ t.apiKey = None /\ t.baseUrl # None /\ t.id \in Stored
         /\ rows[t.id].baseUrl # t.baseUrl => t.id \in old

(* What a step of the account is to the configurations. *)
SentStep == \E r \in Request : \E q, t, use, old : SentTo(r, q, t, use, old)
UnsetStep == \E r \in Request : \E q, t : UnsetTo(r, q, t)
StartStep == \E r \in Request : \E q, t, old : StartTo(r, q, t, old)
WorkStep == \E r \in Request : \E t : Worked(r, t) /\ UNCHANGED <<authVars, pageVars, countVars>>
HangStep == \E r \in Request : Answered(r) /\ (Answer(r) \/ LoseAnswer(r))
IdleStep == UNCHANGED configVars /\ doubt'.old = doubt.old

LEMMA ConfigSteps ==
    ASSUME Sound, Apart, PageTypeOK, [Next]_vars
    PROVE  StartStep \/ WorkStep \/ HangStep \/ IdleStep
<1>1. CASE \E r \in Request : Sends(r)
  <2>1. PICK r \in Request : \E q, t, use, old : SentTo(r, q, t, use, old)
    BY <1>1, CallsDo
  <2>2. PICK q, t, use, old : SentTo(r, q, t, use, old)
    BY <2>1
  <2>3. doubt'.old = doubt.old \cup old
    BY <2>2 DEF SentTo
  <2>4. StartTo(r, q, t, old)
    BY <2>2, <2>3 DEF SentTo, StartTo
  <2> QED
    BY <2>4 DEF StartStep
<1>u. CASE \E r \in Request : UnsetDefault(r)
  <2>1. PICK r \in Request : \E q, t : UnsetTo(r, q, t)
    BY <1>u, UnsetDoes
  <2>2. PICK q, t : UnsetTo(r, q, t)
    BY <2>1
  <2>3. doubt'.old = doubt.old \cup {}
    BY <2>2 DEF UnsetTo, PageTypeOK
  <2>4. StartTo(r, q, t, {})
    BY <2>2, <2>3 DEF UnsetTo, StartTo
  <2> QED
    BY <2>4 DEF StartStep
<1>2. CASE \E r \in Request : Served(r)
  BY <1>2, StatementDoes DEF Served, WorkStep
<1>3. CASE \E r \in Request : Answer(r) \/ LoseAnswer(r)
  BY <1>3 DEF HangStep, Answer, LoseAnswer
<1>4. CASE \/ EditProvider \/ CancelEdit \/ LoadModels \/ ModelsAnswer \/ CloseSettings
           \/ PressReload \/ ReadConfigs
  BY <1>4 DEF EditProvider, CancelEdit, LoadModels, ModelsAnswer, CloseSettings, OnlyForm,
              PressReload, ReadConfigs, IdleStep, countVars
<1>5. CASE OpenPage \/ ConfigsAnswer \/ ConfigsFail
  BY <1>5 DEF OpenPage, ConfigsAnswer, ConfigsFail, IdleStep, PageTypeOK
<1>6. CASE \E c \in Caller :
             SignIn(c) \/ SignOut(c) \/ RefreshSession(c) \/ BootstrapElsewhere(c)
  BY <1>6 DEF SignIn, SignOut, RefreshSession, BootstrapElsewhere, SendAuth, IdleStep
<1>7. CASE \E c \in Caller : Handled(c) \/ AuthAnswer(c) \/ LoseAuthAnswer(c)
  BY <1>7 DEF Handled, AuthAnswer, LoseAuthAnswer, IdleStep, countVars
<1>8. CASE UNCHANGED vars
  BY <1>8 DEF vars, IdleStep, countVars
<1> QED
  BY <1>1, <1>u, <1>2, <1>3, <1>4, <1>5, <1>6, <1>7, <1>8 DEF Next, Sends

-----------------------------------------------------------------------------
(* The rows *)

(* Row locks keep the writes of open transactions apart, numbers are not   *)
(* used twice, and the index holds one default.                            *)
RowInv ==
    /\ Apart
    /\ \A c \in Stored : c <= born
    /\ \A r \in Request : tx[r].id <= born
    /\ \A c, d \in Defaults : c = d

(* What the page knows has been stored once. *)
PageIds ==
    /\ \A c \in Config : shown[c] # None \/ load.items[c] # None => c <= born
    /\ form # None => form.id <= born
    /\ listing # None => listing.id <= born

Base == TypeOK /\ Sound /\ RowInv /\ PageIds

LEMMA BaseHas ==
    ASSUME Base
    PROVE  /\ Sound /\ Apart /\ AuthTypeOK /\ PageTypeOK
           /\ born \in Nat /\ (\A c \in Config : c \in Nat)
           /\ \A r \in Request : tx[r] \in Tx /\ WellFormed(tx[r]) /\ tx[r].id \in Nat
           /\ rows \in [Config -> Row \cup {None}]
BY TypeParts, ConfigAssumption DEF Base, RowInv, Sound, ConfigTypeOK, Tx, Config

(* What the commits do to the table. *)
LEMMA CreatedTable ==
    ASSUME Base, NEW r \in Request, NEW t, CreatedTo(r, t)
    PROVE  /\ Stored' = Stored \cup {t.id} /\ t.id \notin Stored
           /\ Defaults' = IF tx[r].isDefault THEN {t.id} ELSE Defaults
<1>1. t.id = born + 1 /\ t.id \in Config /\ rows'[t.id] \in Row
      /\ rows'[t.id].isDefault = tx[r].isDefault /\ tx[r].isDefault \in BOOLEAN
  BY BaseHas DEF CreatedTo, Tx
<1>2. rows[t.id] = None /\ t.id \notin Stored
  BY <1>1, BaseHas, StoredRows DEF Base, RowInv
<1>3. \A c \in Config \ {t.id} : Left(r, c)
  BY DEF CreatedTo
<1>4. Stored' = Stored \cup {t.id}
  BY <1>1, <1>3, ConfigAssumption DEF Stored, Left
<1>5. CASE tx[r].isDefault
  <2>1. Defaults \subseteq tx[r].wrote /\ tx[r].wrote \subseteq Stored
    BY <1>5, BaseHas DEF CreatedTo, Apart
  <2>2. \A c \in Stored : rows'[c].isDefault = FALSE
    BY <1>2, <1>3, <2>1, StoredRows, BaseHas DEF Left, Defaults, Row
  <2> QED
    BY <1>1, <1>4, <1>5, <2>2 DEF Defaults
<1>6. CASE ~tx[r].isDefault
  <2>1. tx[r].wrote = {}
    BY <1>6, BaseHas DEF CreatedTo, WellFormed
  <2>2. \A c \in Stored : rows'[c].isDefault = rows[c].isDefault
    BY <1>2, <1>3, <2>1, StoredRows, BaseHas DEF Left
  <2> QED
    BY <1>1, <1>2, <1>4, <1>6, <2>2 DEF Defaults
<1> QED
  BY <1>2, <1>4, <1>5, <1>6

LEMMA UpdatedTable ==
    ASSUME Base, NEW r \in Request, NEW t, UpdatedTo(r, t)
    PROVE  /\ Stored' = Stored
           /\ Defaults' = IF tx[r].isDefault THEN {t.id}
                          ELSE IF tx[r].unset THEN Defaults \ {t.id} ELSE Defaults
<1>1. t.id \in Stored /\ t.id \in Config /\ rows'[t.id] \in Row /\ tx[r].isDefault \in BOOLEAN
      /\ rows'[t.id].isDefault =
           IF tx[r].isDefault THEN TRUE ELSE IF tx[r].unset THEN FALSE ELSE rows[t.id].isDefault
  BY BaseHas, StoredRows DEF UpdatedTo, Tx
<1>3. \A c \in Config \ {t.id} : Left(r, c)
  BY DEF UpdatedTo
<1>4. Stored' = Stored
  BY <1>1, <1>3, ConfigAssumption DEF Stored, Left
<1>5. CASE tx[r].isDefault
  <2>1. Defaults \subseteq {t.id} \cup tx[r].wrote
    BY <1>5 DEF UpdatedTo
  <2>2. \A c \in Stored \ {t.id} : rows'[c].isDefault = FALSE
    BY <1>3, <2>1, StoredRows, BaseHas DEF Left, Defaults, Row
  <2> QED
    BY <1>1, <1>4, <1>5, <2>2 DEF Defaults
<1>6. CASE ~tx[r].isDefault
  <2>1. tx[r].wrote = {}
    BY <1>6 DEF UpdatedTo
  <2>2. \A c \in Stored \ {t.id} : rows'[c].isDefault = rows[c].isDefault
    BY <1>1, <1>3, <1>6, <2>1, StoredRows, BaseHas DEF Left
  <2> QED
    BY <1>1, <1>4, <1>6, <2>2 DEF Defaults
<1> QED
  BY <1>4, <1>5, <1>6

LEMMA DeletedTable ==
    ASSUME Base, NEW r \in Request, NEW t, DeletedTo(r, t)
    PROVE  /\ Stored' = Stored \ {t.id} /\ t.id \in Stored
           /\ \A c \in Stored' : rows'[c].baseUrl = rows[c].baseUrl /\ rows'[c].apiKey = rows[c].apiKey
           /\ tx[r].at = "promote" => \E n \in Stored \ {t.id} : Defaults' = {n}
           /\ tx[r].at = "find" => Stored' = {} /\ Defaults' = {}
           /\ tx[r].at \notin {"promote", "find"} =>
                /\ tx[r].at = "delete" /\ ~tx[r].existing.isDefault
                /\ Defaults' = Defaults \ {t.id} /\ \A c \in Stored' : rows'[c] = rows[c]
<1>1. t.id \in Stored /\ t.id \in Config /\ rows'[t.id] = None
  BY BaseHas, StoredRows DEF DeletedTo
<1>2. ASSUME \A c \in Config \ {t.id} : rows'[c] = rows[c]
      PROVE  Stored' = Stored \ {t.id} /\ Defaults' = Defaults \ {t.id}
             /\ \A c \in Stored' : rows'[c] = rows[c]
  <2>1. Stored' = Stored \ {t.id}
    BY <1>1, <1>2 DEF Stored
  <2> QED
    BY <1>1, <1>2, <2>1 DEF Defaults, Stored
<1>3. CASE tx[r].at = "delete" /\ ~tx[r].existing.isDefault
           /\ \A c \in Config \ {t.id} : rows'[c] = rows[c]
  BY <1>1, <1>2, <1>3
<1>4. CASE tx[r].at = "find" /\ Stored \subseteq {t.id} /\ \A c \in Config \ {t.id} : rows'[c] = rows[c]
  BY <1>1, <1>2, <1>4, StoredRows, BaseHas
<1>5. CASE /\ tx[r].at = "promote"
           /\ \E n \in Stored \ {t.id} :
                /\ tx[r].todo = {n}
                /\ rows'[n] \in Row /\ rows'[n].isDefault = TRUE
                /\ rows'[n].baseUrl = rows[n].baseUrl /\ rows'[n].apiKey = rows[n].apiKey
                /\ Defaults \subseteq {n, t.id}
                /\ \A c \in Config \ {t.id, n} : rows'[c] = rows[c]
  <2>1. PICK n \in Stored \ {t.id} :
                /\ rows'[n] \in Row /\ rows'[n].isDefault = TRUE
                /\ rows'[n].baseUrl = rows[n].baseUrl /\ rows'[n].apiKey = rows[n].apiKey
                /\ Defaults \subseteq {n, t.id}
                /\ \A c \in Config \ {t.id, n} : rows'[c] = rows[c]
    BY <1>5
  <2>2. n \in Config /\ rows'[n] # None
    BY <2>1, StoredRows, BaseHas, ConfigAssumption
  <2>3. Stored' = Stored \ {t.id}
    BY <1>1, <2>1, <2>2 DEF Stored
  <2>4. \A c \in Stored' \ {n} : rows'[c] = rows[c] /\ c \notin Defaults /\ c \in Stored
    BY <1>1, <2>1, <2>3, StoredRows, BaseHas
  <2>5. Defaults' = {n}
    BY <2>1, <2>2, <2>3, <2>4 DEF Defaults
  <2>6. \A c \in Stored' : rows'[c].baseUrl = rows[c].baseUrl /\ rows'[c].apiKey = rows[c].apiKey
    BY <2>1, <2>4
  <2> QED
    BY <1>1, <1>5, <2>1, <2>3, <2>5, <2>6
<1> QED
  BY <1>3, <1>4, <1>5 DEF DeletedTo

(* What a worked statement does to its transaction and to the others. *)
LEMMA WorkedTx ==
    ASSUME Sound, Apart, NEW r \in Request, NEW t, Worked(r, t)
    PROVE  /\ Working(r) /\ t \in Tx /\ WellFormed(t) /\ Keeps(tx[r], t)
           /\ tx'[r] = t /\ \A o \in Request \ {r} : tx'[o] = tx[o]
           /\ tx' \in [Request -> Tx] /\ (UNCHANGED clashes \/ Noted(r))
           /\ clashes' \in [delete : BOOLEAN, updated : SUBSET Config, unset : BOOLEAN]
           /\ clashes'.delete = clashes.delete /\ clashes'.updated = clashes.updated
           /\ (t.id = tx[r].id \/ CreatedTo(r, t))
           /\ rows' \in [Config -> Row \cup {None}] /\ born' \in Nat
           /\ (CreatedTo(r, t) \/ born' = born)
           /\ (CreatedTo(r, t) \/ UpdatedTo(r, t) \/ DeletedTo(r, t) \/ rows' = rows)
           /\ t.at # "free"
<1>1. rows \in [Config -> Row \cup {None}] /\ born \in Nat /\ born + 1 \in Nat
      /\ clashes \in [delete : BOOLEAN, updated : SUBSET Config, unset : BOOLEAN]
  BY DEF Sound, ConfigTypeOK
<1>2. ASSUME Local(r, t)
      PROVE  /\ t \in Tx /\ WellFormed(t) /\ Keeps(tx[r], t) /\ Becomes(r, t)
             /\ t.id = tx[r].id /\ UNCHANGED <<rows, born, clashes>>
  BY <1>2 DEF Local
<1>3. ASSUME Commits(r, t)
      PROVE  /\ t \in Tx /\ WellFormed(t) /\ Keeps(tx[r], t) /\ Becomes(r, t)
             /\ Noted(r) /\ rows' \in [Config -> Row \cup {None}] /\ t.at = "ok"
             /\ clashes' \in [delete : BOOLEAN, updated : SUBSET Config, unset : BOOLEAN]
             /\ clashes'.delete = clashes.delete /\ clashes'.updated = clashes.updated
  BY <1>3 DEF Commits, Noted
<1>4. CASE CountedTo(r, t) \/ ReadTo(r, t) \/ ClearedTo(r, t) \/ ClearedRowTo(r, t)
           \/ RemovedTo(r, t) \/ FoundTo(r, t) \/ Refused(r, t)
  <2>1. Local(r, t)
    BY <1>4 DEF CountedTo, ReadTo, ClearedTo, ClearedRowTo, RemovedTo, FoundTo, Refused
  <2>2. Working(r) /\ t.at # "free"
    BY <1>4, <1>2, <2>1 DEF CountedTo, ReadTo, ClearedTo, ClearedRowTo, RemovedTo, FoundTo, Refused,
       Working, Keeps
  <2> QED
    BY <1>1, <1>2, <2>1, <2>2, Become
<1>5. CASE CreatedTo(r, t) \/ UpdatedTo(r, t) \/ DeletedTo(r, t)
  <2>1. Commits(r, t) /\ (born' = born \/ (CreatedTo(r, t) /\ born' = born + 1))
        /\ (t.id = tx[r].id \/ CreatedTo(r, t))
    BY <1>5 DEF CreatedTo, UpdatedTo, DeletedTo
  <2>2. Working(r)
    BY <1>5 DEF CreatedTo, UpdatedTo, DeletedTo, Working
  <2> QED
    BY <1>1, <1>3, <1>5, <2>1, <2>2, Become
<1> QED
  BY <1>4, <1>5 DEF Worked

LEMMA HangTx ==
    ASSUME Sound, PageTypeOK, NEW r \in Request, Answered(r), Answer(r) \/ LoseAnswer(r)
    PROVE  /\ tx'[r] = Open /\ \A o \in Request \ {r} : tx'[o] = tx[o]
           /\ tx' \in [Request -> Tx] /\ \A o \in Request : WellFormed(tx'[o])
           /\ UNCHANGED <<rows, born, clashes, authVars, cookie, screen, load, listing, calls>>
           /\ doubt'.old = doubt.old /\ awaits' = [awaits EXCEPT ![r] = "nothing"]
           /\ ~Working(r)
<1>1. Hangup(r) /\ (doubt' = doubt \/ doubt' = [doubt EXCEPT !.list = TRUE])
  BY DEF Answer, LoseAnswer
<1>2. Becomes(r, Open)
  BY <1>1 DEF Hangup
<1>3. doubt'.old = doubt.old
  BY <1>1 DEF PageTypeOK
<1> QED
  BY <1>1, <1>2, <1>3, OpenFields, Become DEF Hangup, Answered, Working

LEMMA SoundNext ==
    ASSUME Sound, Apart, PageTypeOK, [Next]_vars
    PROVE  Sound'
<1>1. CASE StartStep
  <2>0. PICK r \in Request : \E q, t : BegunTo(r, q, t)
    BY <1>1 DEF StartStep, StartTo
  <2>1. PICK q, t : BegunTo(r, q, t)
    BY <2>0
  <2>2. \A o \in Request : WellFormed(tx'[o])
    BY <2>1 DEF BegunTo, NotAlone
  <2> QED
    BY <2>1, <2>2 DEF BegunTo, Sound, ConfigTypeOK
<1>2. CASE WorkStep
  <2>0. PICK r \in Request : \E t : Worked(r, t)
    BY <1>2 DEF WorkStep
  <2>1. PICK t : Worked(r, t)
    BY <2>0
  <2>2. /\ t \in Tx /\ WellFormed(t)
        /\ tx'[r] = t /\ \A o \in Request \ {r} : tx'[o] = tx[o]
        /\ tx' \in [Request -> Tx]
        /\ clashes' \in [delete : BOOLEAN, updated : SUBSET Config, unset : BOOLEAN]
        /\ rows' \in [Config -> Row \cup {None}] /\ born' \in Nat
    BY <2>1, WorkedTx
  <2> QED
    BY <2>2 DEF Sound, ConfigTypeOK
<1>3. CASE HangStep
  BY <1>3, HangTx DEF HangStep, Sound, ConfigTypeOK
<1>4. CASE IdleStep
  BY <1>4 DEF IdleStep, configVars, Sound, ConfigTypeOK
<1> QED
  BY <1>1, <1>2, <1>3, <1>4, ConfigSteps

LEMMA ApartNext ==
    ASSUME Base, NEW r \in Request, NEW t, Worked(r, t)
    PROVE  Apart'
<1>0. /\ Sound /\ Apart /\ tx'[r] = t /\ \A o \in Request \ {r} : tx'[o] = tx[o]
  BY WorkedTx, BaseHas
<1>1. \A o \in Request \ {r} : tx[o].wrote \cap tx[r].wrote = {} /\ tx[o].wrote \subseteq Stored
  BY <1>0 DEF Apart
<1>2. CASE t.wrote = {} /\ rows' = rows
  BY <1>0, <1>2 DEF Apart, Stored
<1>3. CASE ClearedRowTo(r, t)
  <2>1. rows' = rows
    BY <1>3 DEF ClearedRowTo, Local
  <2>2. PICK c \in tx[r].todo : /\ \A o \in Request \ {r} : c \notin tx[o].wrote
                                /\ t.wrote = tx[r].wrote \cup ({c} \cap Stored)
    BY <1>3 DEF ClearedRowTo
  <2>3. Stored' = Stored
    BY <2>1 DEF Stored
  <2> QED
    BY <1>0, <1>1, <2>2, <2>3 DEF Apart
<1>4. CASE RemovedTo(r, t)
  <2>1. rows' = rows /\ t.id = tx[r].id
    BY <1>4 DEF RemovedTo, Local
  <2>2. Stored' = Stored
    BY <2>1 DEF Stored
  <2>3. t.wrote = {t.id} /\ t.id \in Stored /\ \A o \in Request \ {r} : t.id \notin tx[o].wrote
    <3>1. t.id \in Config
      BY <1>4, <2>1, BaseHas DEF RemovedTo, WellFormed
    <3> QED
      BY <1>4, <3>1 DEF RemovedTo, Stored
  <2> QED
    BY <1>0, <1>1, <2>2, <2>3 DEF Apart
<1>5. CASE FoundTo(r, t)
  <2>1. rows' = rows /\ t.wrote = tx[r].wrote
    BY <1>5, BaseHas DEF FoundTo, Local, WellFormed
  <2>2. Stored' = Stored
    BY <2>1 DEF Stored
  <2> QED
    BY <1>0, <1>1, <2>1, <2>2 DEF Apart
<1>6. CASE CreatedTo(r, t) \/ UpdatedTo(r, t)
  <2>1. t.wrote = {} /\ Stored \subseteq Stored'
    BY <1>6, CreatedTable, UpdatedTable DEF CreatedTo, UpdatedTo, Commits
  <2> QED
    BY <1>0, <1>1, <2>1 DEF Apart
<1>7. CASE DeletedTo(r, t)
  <2>1. t.wrote = {} /\ Stored' = Stored \ {t.id} /\ \A o \in Request \ {r} : t.id \notin tx[o].wrote
    BY <1>7, DeletedTable DEF DeletedTo, Commits
  <2> QED
    BY <1>0, <1>1, <2>1 DEF Apart
<1>8. CASE CountedTo(r, t) \/ ReadTo(r, t) \/ ClearedTo(r, t) \/ Refused(r, t)
  BY <1>2, <1>8 DEF CountedTo, ReadTo, ClearedTo, Refused, Local
<1> QED
  BY <1>3, <1>4, <1>5, <1>6, <1>7, <1>8 DEF Worked

LEMMA RowNext ==
    ASSUME Base, [Next]_vars
    PROVE  RowInv'
<1>0. /\ Sound /\ Apart /\ PageTypeOK /\ born \in Nat
      /\ \A c \in Stored : c <= born
      /\ \A r \in Request : tx[r].id <= born /\ tx[r].id \in Nat
      /\ \A c, d \in Defaults : c = d
      /\ \A c \in Config : c \in Nat
      /\ Stored \subseteq Config
  BY BaseHas, StoredRows DEF Base, RowInv
<1>1. CASE StartStep
  <2>0. PICK r \in Request : \E q, t, old : StartTo(r, q, t, old)
    BY <1>1 DEF StartStep
  <2>1. PICK q, t, old : StartTo(r, q, t, old)
    BY <2>0
  <2>2. /\ tx'[r] = t /\ t.wrote = {} /\ UNCHANGED <<rows, born>>
        /\ t \in Tx /\ t.op \in {"create", "update", "delete"}
        /\ \A o \in Request \ {r} : tx'[o].wrote = tx[o].wrote /\ tx'[o].id = tx[o].id
    <3>1. BegunTo(r, q, t) /\ q.op # "none"
      BY <2>1 DEF StartTo, Asked
    <3> QED
      BY <3>1 DEF BegunTo, NotAlone, Tx
  <2>3. Stored' = Stored /\ Defaults' = Defaults
    BY <2>2 DEF Stored, Defaults
  <2>4. t.id <= born
    <3>1. t.id = 0 \/ t.id \in Shown \/ t.id \in Stored \/ (form # None /\ t.id = form.id)
      BY <2>1, <2>2 DEF StartTo
    <3>2. \A c \in Shown : c <= born
      BY DEF Base, PageIds, Shown
    <3> QED
      BY <1>0, <3>1, <3>2 DEF Base, PageIds
  <2> QED
    BY <1>0, <2>2, <2>3, <2>4 DEF RowInv, Apart
<1>2. CASE WorkStep
  <2>0. PICK r \in Request : \E t : Worked(r, t)
    BY <1>2 DEF WorkStep
  <2>1. PICK t : Worked(r, t)
    BY <2>0
  <2>2. /\ tx'[r] = t /\ \A o \in Request \ {r} : tx'[o] = tx[o]
        /\ (t.id = tx[r].id \/ CreatedTo(r, t))
        /\ (CreatedTo(r, t) \/ born' = born)
        /\ (CreatedTo(r, t) \/ UpdatedTo(r, t) \/ DeletedTo(r, t) \/ rows' = rows)
    BY <1>0, <2>1, WorkedTx
  <2>3. Apart'
    BY <2>1, ApartNext
  <2>4. CASE CreatedTo(r, t)
    <3>1. born' = born + 1 /\ t.id = born + 1
      BY <2>4 DEF CreatedTo
    <3>2. Stored' = Stored \cup {t.id} /\ Defaults' = IF tx[r].isDefault THEN {t.id} ELSE Defaults
      BY <2>4, CreatedTable
    <3>3. \A c \in Stored' : c <= born'
      BY <1>0, <3>1, <3>2
    <3>4. \A o \in Request : tx'[o].id <= born'
      BY <1>0, <2>2, <3>1
    <3> QED
      BY <1>0, <2>3, <3>2, <3>3, <3>4 DEF RowInv
  <2>5. CASE UpdatedTo(r, t)
    <3>1. Stored' = Stored /\ born' = born /\ t.id = tx[r].id
          /\ (Defaults' = {t.id} \/ Defaults' \subseteq Defaults)
      <4>1. \/ Defaults' = {t.id} \/ Defaults' = Defaults \ {t.id} \/ Defaults' = Defaults
        BY <2>5, UpdatedTable
      <4>2. Stored' = Stored /\ born' = born /\ t.id = tx[r].id
        BY <2>5, UpdatedTable DEF UpdatedTo
      <4> QED
        BY <4>1, <4>2
    <3> QED
      BY <1>0, <2>2, <2>3, <3>1 DEF RowInv
  <2>6. CASE DeletedTo(r, t)
    <3>1. /\ Stored' \subseteq Stored /\ born' = born /\ t.id = tx[r].id
          /\ \/ \E n \in Stored : Defaults' = {n}
             \/ Defaults' \subseteq Defaults
      BY <2>6, DeletedTable DEF DeletedTo
    <3> QED
      BY <1>0, <2>2, <2>3, <3>1 DEF RowInv
  <2>7. CASE rows' = rows /\ born' = born /\ t.id = tx[r].id
    BY <1>0, <2>2, <2>3, <2>7 DEF RowInv, Stored, Defaults
  <2> QED
    BY <2>2, <2>4, <2>5, <2>6, <2>7 DEF CreatedTo, UpdatedTo, DeletedTo
<1>3. CASE HangStep
  <2>1. PICK r \in Request : /\ tx'[r] = Open /\ \A o \in Request \ {r} : tx'[o] = tx[o]
                             /\ UNCHANGED <<rows, born>>
    BY <1>0, <1>3, HangTx DEF HangStep
  <2>2. Stored' = Stored /\ Defaults' = Defaults
    BY <2>1 DEF Stored, Defaults
  <2> QED
    BY <1>0, <2>1, <2>2, OpenFields DEF RowInv, Apart
<1>4. CASE IdleStep
  BY <1>0, <1>4 DEF IdleStep, configVars, RowInv, Apart, Stored, Defaults
<1> QED
  BY <1>0, <1>1, <1>2, <1>3, <1>4, ConfigSteps

-----------------------------------------------------------------------------
(* The page *)

LEMMA Publics ==
    ASSUME NEW row \in Row \cup {None}
    PROVE  /\ Public(row) \in Item \cup {None} /\ (Public(row) = None <=> row = None)
           /\ row \in Row => /\ Public(row) \in Item /\ Public(row).baseUrl = row.baseUrl
                             /\ Public(row).isDefault = row.isDefault /\ row # None
BY ConfigAssumption, AccountAssumption DEF Public, Row, Item

LEMMA Lists ==
    ASSUME NEW table \in [Config -> Row \cup {None}]
    PROVE  /\ List(table) \in Items /\ Empty \in Items
           /\ \A c \in Config : List(table)[c] = Public(table[c])
BY Publics DEF List, Items, Empty

(* The list after an answer, for any list and any transaction. *)
After(view, t) ==
    CASE t.op = "create" -> [view EXCEPT ![t.id] = Public(t.existing)]
      [] t.op = "update" ->
           [c \in Config |->
              IF view[c] = None THEN None
              ELSE IF c = t.id THEN Public(t.existing)
              ELSE [view[c] EXCEPT !.isDefault = @ /\ ~t.existing.isDefault]]
      [] OTHER -> [view EXCEPT ![t.id] = None]

LEMMA AfterItems ==
    ASSUME NEW view \in Items, NEW t, t.op \in {"create", "update"} => t.existing \in Row
    PROVE  /\ After(view, t) \in Items
           /\ t.op = "create" => \A c \in Config :
                After(view, t)[c] = IF c = t.id THEN Public(t.existing) ELSE view[c]
           /\ t.op \notin {"create", "update"} => \A c \in Config :
                After(view, t)[c] = IF c = t.id THEN None ELSE view[c]
           /\ t.op = "update" => \A c \in Config :
                /\ view[c] = None => After(view, t)[c] = None
                /\ view[c] # None /\ c = t.id => After(view, t)[c] = Public(t.existing)
                /\ view[c] # None /\ c # t.id =>
                     /\ After(view, t)[c] \in Item /\ After(view, t)[c].baseUrl = view[c].baseUrl
                     /\ After(view, t)[c].isDefault = (view[c].isDefault /\ ~t.existing.isDefault)
<1>1. view \in [Config -> Item \cup {None}]
  BY DEF Items
<1>2. t.op \in {"create", "update"} => Public(t.existing) \in Item
  BY Publics
<1>3. CASE t.op = "create"
  BY <1>1, <1>2, <1>3 DEF After, Items
<1>4. CASE t.op = "update"
  <2> DEFINE b == t.existing.isDefault
             item(c) == [view[c] EXCEPT !.isDefault = @ /\ ~b]
  <2>1. b \in BOOLEAN
    BY <1>4 DEF Row
  <2> HIDE DEF b
  <2>2. \A c \in Config : view[c] # None =>
          item(c) \in Item /\ item(c).baseUrl = view[c].baseUrl
          /\ item(c).isDefault = (view[c].isDefault /\ ~b)
    BY <1>1, <2>1 DEF Item
  <2>3. After(view, t) = [c \in Config |-> IF view[c] = None THEN None
                                      ELSE IF c = t.id THEN Public(t.existing) ELSE item(c)]
    BY <1>4 DEF After, b
  <2> HIDE DEF item
  <2>4. \A c \in Config : After(view, t)[c] = IF view[c] = None THEN None
                                      ELSE IF c = t.id THEN Public(t.existing) ELSE item(c)
    BY <2>3
  <2>5. After(view, t) \in Items
    BY <1>2, <1>4, <2>2, <2>3 DEF Items
  <2> QED
    BY <1>4, <2>2, <2>4, <2>5 DEF b
<1>5. CASE t.op \notin {"create", "update"}
  BY <1>1, <1>5 DEF After, Items
<1> QED
  BY <1>3, <1>4, <1>5

LEMMA AppliedIsAfter ==
    ASSUME NEW r \in Request
    PROVE  Applied(r) = After(shown, tx[r]) /\ Applied(r)' = After(shown', tx'[r])
BY DEF Applied, After

LEMMA AppliedItems ==
    ASSUME Sound, PageTypeOK, NEW r \in Request, tx[r].at = "ok"
    PROVE  /\ Applied(r) = After(shown, tx[r]) /\ shown \in Items
           /\ tx[r].op \in {"create", "update"} => tx[r].existing \in Row
           /\ Applied(r) \in Items
<1>1. shown \in Items /\ WellFormed(tx[r])
  BY DEF Sound, PageTypeOK
<1>2. tx[r].op \in {"create", "update"} => tx[r].existing \in Row
  BY <1>1 DEF WellFormed
<1> QED
  BY <1>1, <1>2, AfterItems, AppliedIsAfter

(* The parts of the page a step may leave alone. *)
LEMMA PageTypeNext ==
    ASSUME Sound, Apart, PageTypeOK, [Next]_vars
    PROVE  PageTypeOK'
<1> USE DEF PageTypeOK
<1>0. /\ rows \in [Config -> Row \cup {None}]
      /\ NoLoad \in [at : {"none", "asked", "answered", "refused"}, items : Items]
      /\ NoLoad.items = Empty /\ Empty \in Items /\ None \in Form \cup {None}
      /\ AllForgotten \in [Request \cup Caller -> Use]
  BY Lists DEF Sound, ConfigTypeOK, NoLoad, Items, Empty, AllForgotten, Use
<1>a. ASSUME NEW x \in Request \cup Caller, NEW use \in Use, awaits' = [awaits EXCEPT ![x] = use]
      PROVE  awaits' \in [Request \cup Caller -> Use]
  BY <1>a
<1>1. ASSUME NEW r \in Request, Sends(r) PROVE PageTypeOK'
  <2>1. PICK q, t, use, old : SentTo(r, q, t, use, old)
    BY <1>1, CallsDo
  <2>2. /\ use \in Use /\ Call(r, use) /\ old \in SUBSET Config
        /\ UNCHANGED <<authVars, cookie, screen, shown, load, form, listing, losses>>
    BY <2>1 DEF SentTo, Use
  <2>3. awaits' \in [Request \cup Caller -> Use] /\ calls' \in Nat
    BY <2>2 DEF Call
  <2> DEFINE newList == doubt.list \/ Loading
             newCrossed == doubt.crossed \/ Busy # {}
             newPromoted == doubt.promoted \/ (t.op = "delete" /\ shown[t.id].isDefault)
  <2>4. doubt' = [list |-> newList, crossed |-> newCrossed, promoted |-> newPromoted,
                  old |-> doubt.old \cup old]
    BY <2>1 DEF SentTo
  <2>5. newList \in BOOLEAN /\ newCrossed \in BOOLEAN /\ newPromoted \in BOOLEAN
    OBVIOUS
  <2> HIDE DEF newList, newCrossed, newPromoted
  <2>6. doubt' \in [list : BOOLEAN, crossed : BOOLEAN, promoted : BOOLEAN, old : SUBSET Config]
    BY <2>2, <2>4, <2>5
  <2> QED
    BY <2>2, <2>3, <2>6
<1>u. ASSUME NEW r \in Request, UnsetDefault(r) PROVE PageTypeOK'
  <2>a. "nothing" \in Use /\ r \in Request \cup Caller
    BY DEF Use
  <2>b. awaits' = [awaits EXCEPT ![r] = "nothing"] /\ calls' = calls + 1
    BY <1>u DEF UnsetDefault, Call
  <2>1. awaits' \in [Request \cup Caller -> Use] /\ calls' \in Nat
    BY <1>a, <2>a, <2>b
  <2>2. doubt' \in [list : BOOLEAN, crossed : BOOLEAN, promoted : BOOLEAN, old : SUBSET Config]
    BY <1>u DEF UnsetDefault
  <2> QED
    BY <1>u, <2>1, <2>2 DEF UnsetDefault
<1>2. CASE \E r \in Request : Served(r)
  BY <1>2 DEF Served, pageVars, countVars
<1>3. ASSUME NEW r \in Request, Answer(r) PROVE PageTypeOK'
  <2>1. shown' \in Items
    BY <1>3, AppliedItems DEF Answer
  <2>2. awaits' \in [Request \cup Caller -> Use]
    BY <1>3 DEF Answer, Hangup, Use
  <2>3. form' \in Form \cup {None} /\ UNCHANGED <<screen, load, listing, calls, losses, doubt>>
    BY <1>3 DEF Answer, Hangup
  <2> QED
    BY <2>1, <2>2, <2>3
<1>4. ASSUME NEW r \in Request, LoseAnswer(r) PROVE PageTypeOK'
  <2>1. losses' \in Nat
    BY <1>4 DEF LoseAnswer
  <2>2. awaits' \in [Request \cup Caller -> Use]
    BY <1>4 DEF LoseAnswer, Hangup, Use
  <2>3. doubt' \in [list : BOOLEAN, crossed : BOOLEAN, promoted : BOOLEAN, old : SUBSET Config]
    BY <1>4 DEF LoseAnswer
  <2> QED
    BY <1>4, <2>1, <2>2, <2>3 DEF LoseAnswer, Hangup
<1>5. CASE EditProvider \/ CancelEdit \/ LoadModels \/ ModelsAnswer
  <2>1. \A c \in Shown : [id |-> c, baseUrl |-> shown[c].baseUrl] \in Form
    BY DEF Shown, Form, Items, Item
  <2>2. form' \in Form \cup {None} /\ listing' \in Form \cup {None}
    BY <1>5, <2>1 DEF EditProvider, CancelEdit, LoadModels, ModelsAnswer, OnlyForm
  <2>3. calls' \in Nat /\ UNCHANGED <<screen, shown, load, awaits, losses, doubt>>
    BY <1>5 DEF EditProvider, CancelEdit, LoadModels, ModelsAnswer, OnlyForm
  <2> QED
    BY <2>2, <2>3
<1>6. CASE CloseSettings
  <2>1. awaits' \in [Request \cup Caller -> Use]
    BY <1>6 DEF CloseSettings, Use
  <2> QED
    BY <1>6, <2>1 DEF CloseSettings, OnlyForm
<1>7. CASE PressReload
  <2>1. /\ screen' = "loading" /\ shown' = Empty /\ load' = NoLoad /\ form' = None /\ listing' = None
        /\ awaits' = AllForgotten /\ calls' \in Nat /\ UNCHANGED <<losses, doubt>>
    BY <1>7 DEF PressReload, Reload
  <2> QED
    BY <1>0, <2>1
<1>8. CASE OpenPage
  <2> DEFINE pending == \E r \in Request : Working(r)
  <2>1. pending \in BOOLEAN
    OBVIOUS
  <2>2. /\ doubt' = [doubt EXCEPT !.list = pending, !.crossed = pending, !.promoted = pending]
        /\ UNCHANGED <<shown, form, listing, awaits, calls, losses>>
    BY <1>8 DEF OpenPage
  <2> HIDE DEF pending
  <2>3. doubt' \in [list : BOOLEAN, crossed : BOOLEAN, promoted : BOOLEAN, old : SUBSET Config]
    BY <2>1, <2>2
  <2>4. screen' \in {"authenticated", "bootstrap", "login"}
        /\ load' \in {[NoLoad EXCEPT !.at = "asked"], NoLoad}
    BY <1>8 DEF OpenPage
  <2>5. load' \in [at : {"none", "asked", "answered", "refused"}, items : Items]
    BY <1>0, <2>4
  <2> QED
    BY <2>2, <2>3, <2>4, <2>5
<1>9. CASE ReadConfigs
  <2>1. load' \in {[at |-> "answered", items |-> List(rows)], [NoLoad EXCEPT !.at = "refused"]}
    BY <1>9 DEF ReadConfigs
  <2>2. List(rows) \in Items
    BY <1>0, Lists
  <2>3. load' \in [at : {"none", "asked", "answered", "refused"}, items : Items]
    BY <1>0, <2>1, <2>2
  <2> QED
    BY <1>9, <2>3 DEF ReadConfigs, countVars
<1>10. CASE ConfigsAnswer
  <2> DEFINE b == doubt.list \/ load.at = "refused"
  <2>1. b \in BOOLEAN
    OBVIOUS
  <2>2. doubt' = [doubt EXCEPT !.list = b]
    BY <1>10 DEF ConfigsAnswer
  <2> HIDE DEF b
  <2>3. doubt' \in [list : BOOLEAN, crossed : BOOLEAN, promoted : BOOLEAN, old : SUBSET Config]
    BY <2>1, <2>2
  <2>4. load' = NoLoad /\ shown' \in Items /\ UNCHANGED <<screen, form, listing, awaits, calls, losses>>
    BY <1>10 DEF ConfigsAnswer
  <2> QED
    BY <1>0, <2>3, <2>4
<1>11. CASE ConfigsFail
  <2>1. doubt' = [doubt EXCEPT !.list = TRUE]
    BY <1>11 DEF ConfigsFail
  <2>2. doubt' \in [list : BOOLEAN, crossed : BOOLEAN, promoted : BOOLEAN, old : SUBSET Config]
    BY <2>1
  <2>3. load' = NoLoad /\ shown' = Empty /\ losses' \in Nat
        /\ UNCHANGED <<screen, form, listing, awaits, calls>>
    BY <1>11 DEF ConfigsFail
  <2> QED
    BY <1>0, <2>2, <2>3
<1>12. ASSUME NEW c \in Caller, SignIn(c) \/ SignOut(c) \/ RefreshSession(c) \/ BootstrapElsewhere(c)
       PROVE  PageTypeOK'
  <2>1. PICK use \in Use : Call(c, use) /\ UNCHANGED <<screen, shown, load, form, listing, losses, doubt>>
    BY <1>12 DEF SignIn, SignOut, RefreshSession, BootstrapElsewhere, SendAuth, Use
  <2> QED
    BY <2>1 DEF Call
<1>13. CASE \E c \in Caller : Handled(c)
  BY <1>13 DEF Handled, pageVars, countVars
<1>14. ASSUME NEW c \in Caller, AuthAnswer(c) \/ LoseAuthAnswer(c) PROVE PageTypeOK'
  <2>1. losses' \in Nat /\ UNCHANGED <<calls, doubt>>
    <3>1. CASE AuthAnswer(c)
      BY <3>1 DEF AuthAnswer, countVars
    <3>2. CASE LoseAuthAnswer(c)
      <4>1. losses' = losses + 1 /\ UNCHANGED <<calls, doubt>>
        BY <3>2 DEF LoseAuthAnswer
      <4>2. losses + 1 \in Nat
        OBVIOUS
      <4> QED
        BY <4>1, <4>2
    <3> QED
      BY <1>14, <3>1, <3>2
  <2>2. \/ Reload /\ awaits' = AllForgotten
        \/ awaits' = [awaits EXCEPT ![c] = "nothing"] /\ UNCHANGED <<screen, shown, load, form, listing>>
    BY <1>14 DEF AuthAnswer, LoseAuthAnswer
  <2>3. CASE Reload /\ awaits' = AllForgotten
    <3>1. /\ screen' = "loading" /\ shown' = Empty /\ load' = NoLoad /\ form' = None /\ listing' = None
          /\ awaits' = AllForgotten
      BY <2>3 DEF Reload
    <3> QED
      BY <1>0, <2>1, <3>1
  <2>4. CASE awaits' = [awaits EXCEPT ![c] = "nothing"] /\ UNCHANGED <<screen, shown, load, form, listing>>
    BY <1>a, <2>1, <2>4 DEF Use
  <2> QED
    BY <2>2, <2>3, <2>4
<1>15. CASE UNCHANGED vars
  BY <1>15 DEF vars, pageVars, countVars
<1> QED
  BY <1>1, <1>u, <1>2, <1>3, <1>4, <1>5, <1>6, <1>7, <1>8, <1>9, <1>10, <1>11, <1>12, <1>13, <1>14,
     <1>15
     DEF Next, Sends

LEMMA PageIdsNext ==
    ASSUME Base, [Next]_vars
    PROVE  PageIds'
<1>0. /\ Sound /\ Apart /\ PageTypeOK /\ born \in Nat
      /\ \A c \in Config : c \in Nat
      /\ \A c \in Config : rows[c] # None => c <= born
      /\ \A r \in Request : tx[r].id <= born /\ tx[r].id \in Nat
      /\ \A c \in Config : shown[c] # None \/ load.items[c] # None => c <= born
      /\ form # None => form.id <= born /\ form.id \in Nat
      /\ listing # None => listing.id <= born /\ listing.id \in Nat
      /\ \A c \in Config : Empty[c] = None
  <2>1. form # None => form.id \in Config
    BY BaseHas DEF PageTypeOK, Form
  <2>2. listing # None => listing.id \in Config
    BY BaseHas DEF PageTypeOK, Form
  <2> QED
    BY <2>1, <2>2, BaseHas, StoredRows DEF Base, RowInv, PageIds, Empty
<1>1. CASE UNCHANGED <<shown, load, form, listing>> /\ born' \in Nat /\ born <= born'
  BY <1>0, <1>1 DEF PageIds
<1>2. CASE \E r \in Request : Sends(r)
  <2>1. UNCHANGED <<shown, load, form, listing, born>>
    BY <1>0, <1>2, CallsDo DEF SentTo, BegunTo
  <2> QED
    BY <1>0, <1>1, <2>1
<1>u. CASE \E r \in Request : UnsetDefault(r)
  <2>1. UNCHANGED <<shown, load, form, listing, born>>
    BY <1>0, <1>u, UnsetDoes DEF UnsetTo, BegunTo
  <2> QED
    BY <1>0, <1>1, <2>1
<1>3. CASE \E r \in Request : Served(r)
  <2>1. UNCHANGED <<shown, load, form, listing>>
    BY <1>3 DEF Served, pageVars
  <2>2. PICK r \in Request : \E t : Worked(r, t)
    BY <1>0, <1>3, StatementDoes DEF Served
  <2>3. born' = born \/ born' = born + 1
    BY <1>0, <2>2, WorkedTx DEF CreatedTo
  <2> QED
    BY <1>0, <1>1, <2>1, <2>3
<1>4. ASSUME NEW r \in Request, Answer(r) PROVE PageIds'
  <2>1. UNCHANGED <<load, listing, born>> /\ form' \in {None, form}
    BY <1>4 DEF Answer, Hangup
  <2>2. \A c \in Config : shown'[c] # None => shown[c] # None \/ c = tx[r].id
    <3>1. CASE shown' = shown
      BY <3>1
    <3>2. CASE tx[r].at = "ok" /\ shown' = Applied(r)
      BY <1>0, <3>2, AppliedItems, AfterItems
    <3> QED
      BY <1>4, <3>1, <3>2 DEF Answer
  <2> QED
    BY <1>0, <2>1, <2>2 DEF PageIds
<1>5. CASE \E r \in Request : LoseAnswer(r)
  BY <1>0, <1>1, <1>5 DEF LoseAnswer, Hangup
<1>6. CASE EditProvider \/ CancelEdit \/ LoadModels \/ ModelsAnswer \/ CloseSettings
  <2>1. UNCHANGED <<shown, load, born>>
    BY <1>6 DEF EditProvider, CancelEdit, LoadModels, ModelsAnswer, CloseSettings, OnlyForm, configVars
  <2>2. \A c \in Shown : LET f == [id |-> c, baseUrl |-> shown[c].baseUrl] IN f.id <= born
    BY <1>0 DEF Shown
  <2>3. /\ form' # None => form'.id <= born
        /\ listing' # None => listing'.id <= born
    BY <1>0, <1>6, <2>2 DEF EditProvider, CancelEdit, LoadModels, ModelsAnswer, CloseSettings
  <2> QED
    BY <1>0, <2>1, <2>3 DEF PageIds
<1>7. ASSUME Reload, born' = born PROVE PageIds'
  <2>1. shown' = Empty /\ load'.items = Empty /\ form' = None /\ listing' = None
    BY <1>7 DEF Reload, NoLoad
  <2> QED
    BY <1>0, <1>7, <2>1 DEF PageIds
<1>8. CASE PressReload
  BY <1>7, <1>8 DEF PressReload, configVars
<1>9. CASE OpenPage \/ ReadConfigs \/ ConfigsAnswer \/ ConfigsFail
  <2>1. UNCHANGED <<form, listing, born>>
    BY <1>9 DEF OpenPage, ReadConfigs, ConfigsAnswer, ConfigsFail, configVars
  <2>2. shown' \in {shown, load.items, Empty}
    BY <1>9 DEF OpenPage, ReadConfigs, ConfigsAnswer, ConfigsFail
  <2>3. load'.items \in {Empty, List(rows)}
    BY <1>9 DEF OpenPage, ReadConfigs, ConfigsAnswer, ConfigsFail, NoLoad
  <2>4. \A c \in Config : List(rows)[c] # None => rows[c] # None
    BY DEF List, Public
  <2> QED
    BY <1>0, <2>1, <2>2, <2>3, <2>4 DEF PageIds
<1>10. CASE \E c \in Caller :
             SignIn(c) \/ SignOut(c) \/ RefreshSession(c) \/ BootstrapElsewhere(c) \/ Handled(c)
  <2>1. UNCHANGED <<shown, load, form, listing, born>>
    BY <1>10 DEF SignIn, SignOut, RefreshSession, BootstrapElsewhere, SendAuth, Handled, pageVars, configVars
  <2> QED
    BY <1>0, <1>1, <2>1
<1>11. CASE \E c \in Caller : AuthAnswer(c) \/ LoseAuthAnswer(c)
  <2>1. born' = born /\ (Reload \/ UNCHANGED <<shown, load, form, listing>>)
    BY <1>11 DEF AuthAnswer, LoseAuthAnswer, configVars
  <2> QED
    BY <1>0, <1>1, <1>7, <2>1
<1>12. CASE UNCHANGED vars
  BY <1>0, <1>1, <1>12 DEF vars, pageVars, configVars
<1> QED
  BY <1>2, <1>u, <1>3, <1>4, <1>5, <1>6, <1>8, <1>9, <1>10, <1>11, <1>12 DEF Next, Sends

LEMMA InitRows ==
    ASSUME Init
    PROVE  /\ rows \in [Config -> Row \cup {None}] /\ born \in Nat
           /\ \A c \in Stored : c <= born /\ rows[c].apiKey = rows[c].baseUrl
           /\ \A c \in Config : rows[c] # None => c <= born
           /\ Stored # {} => Defaults = {1}
           /\ tx = [r \in Request |-> Open] /\ clashes = [delete |-> FALSE, updated |-> {}, unset |-> FALSE]
<1>1. PICK users \in {0, 1}, n \in {0, 2}, a \in Account :
         ConfigInit([c \in 1 .. n |-> [isDefault |-> c = 1, baseUrl |-> a, apiKey |-> a]])
  BY DEF Init
<1> DEFINE row(c) == [isDefault |-> c = 1, baseUrl |-> a, apiKey |-> a]
<1>2. \A c : /\ row(c) \in Row /\ row(c) # None /\ (row(c).isDefault <=> c = 1)
             /\ row(c).apiKey = row(c).baseUrl
  <2> TAKE c
  <2>1. (c = 1) \in BOOLEAN
    OBVIOUS
  <2>2. row(c) \in Row /\ row(c).isDefault = (c = 1) /\ row(c).apiKey = row(c).baseUrl
    BY <2>1 DEF Row
  <2> HIDE DEF row
  <2> QED
    BY <2>2, ConfigAssumption
<1>3. rows = [c \in Config |-> IF c \in 1 .. n THEN row(c) ELSE None]
  BY <1>1 DEF ConfigInit
<1>4. born = n /\ n \in Nat
  BY <1>1, FS_Interval DEF ConfigInit
<1> HIDE DEF row
<1>5. /\ rows \in [Config -> Row \cup {None}]
      /\ \A c \in Stored : c <= born /\ rows[c].apiKey = rows[c].baseUrl
      /\ \A c \in Config : rows[c] # None => c <= born
  BY <1>2, <1>3, <1>4, ConfigAssumption DEF Stored, Config
<1>6. Stored # {} => Defaults = {1}
  <2> SUFFICES ASSUME Stored # {} PROVE Defaults = {1}
    OBVIOUS
  <2>1. n = 2 /\ 1 \in Config
    BY <1>3, ConfigAssumption DEF Stored, Config
  <2>2. 1 \in Stored
    BY <1>2, <1>3, <2>1 DEF Stored
  <2>3. \A c \in Stored : rows[c].isDefault <=> c = 1
    BY <1>2, <1>3 DEF Stored
  <2> QED
    BY <2>2, <2>3 DEF Defaults
<1>7. tx = [r \in Request |-> Open] /\ clashes = [delete |-> FALSE, updated |-> {}, unset |-> FALSE]
  BY <1>1 DEF ConfigInit
<1> QED
  BY <1>4, <1>5, <1>6, <1>7

LEMMA BaseInit == Init => Base
<1> SUFFICES ASSUME Init PROVE Base
  OBVIOUS
<1>1. /\ rows \in [Config -> Row \cup {None}] /\ born \in Nat
      /\ \A c \in Stored : c <= born
      /\ \A c \in Config : rows[c] # None => c <= born
      /\ tx = [r \in Request |-> Open] /\ clashes = [delete |-> FALSE, updated |-> {}, unset |-> FALSE]
  BY InitRows
<1>2. \A c, d \in Defaults : c = d
  BY InitRows DEF Defaults
<1>3. Sound
  BY <1>1, OpenFields DEF Sound, ConfigTypeOK
<1>4. RowInv
  BY <1>1, <1>2, OpenFields DEF RowInv, Apart
<1>5. /\ shown = List(rows) /\ load = NoLoad /\ form = None /\ listing = None
      /\ screen \in {"loading", "authenticated"} /\ calls = 0 /\ losses = 0
      /\ doubt = [list |-> FALSE, crossed |-> FALSE, promoted |-> FALSE, old |-> {}]
      /\ awaits = [x \in Request \cup Caller |-> "nothing"]
  BY DEF Init
<1>6. PageTypeOK
  BY <1>1, <1>5, Lists DEF PageTypeOK, NoLoad, Use
<1>7. PageIds
  BY <1>1, <1>5 DEF PageIds, NoLoad, List, Public, Empty
<1> QED
  BY <1>3, <1>4, <1>6, <1>7, TypeParts, AuthTypeInit DEF Base, Sound

LEMMA BaseNext ==
    ASSUME Base, [Next]_vars
    PROVE  Base'
<1>1. Sound' /\ PageTypeOK' /\ AuthTypeOK' /\ RowInv' /\ PageIds'
  BY BaseHas, SoundNext, PageTypeNext, AuthTypeNext, RowNext, PageIdsNext
<1>2. ConfigTypeOK'
  BY <1>1 DEF Sound
<1> QED
  BY <1>1, <1>2, TypePartsNext DEF Base

LEMMA BaseAlways == Spec => []Base
BY BaseInit, BaseNext, PTL DEF Spec

(* Every variable of the page, of its transactions and of its sessions     *)
(* keeps its type.                                                         *)
THEOREM AccountTypeCorrect == Spec => []TypeOK
<1>1. Base => TypeOK
  BY DEF Base
<1> QED
  BY <1>1, BaseAlways, PTL

-----------------------------------------------------------------------------
(* The default, the refusals and the keys *)

(* While no deletion has met another change, a deletion works alone on the *)
(* row it read, and a configuration that is not to be the default is       *)
(* created beside one that is.                                             *)
KeptInv ==
    ~clashes.delete =>
      /\ Stored # {} /\ ~clashes.unset => Defaults # {}
      /\ \A r, o \in Request : tx[r].op = "delete" /\ Working(r) /\ o # r => ~Working(o)
      /\ \A r \in Request : tx[r].at = "create" /\ ~tx[r].isDefault => Stored # {}
      /\ \A r \in Request : tx[r].at = "delete" => tx[r].existing = rows[tx[r].id]

LEMMA KeptInit == Init => KeptInv
<1> SUFFICES ASSUME Init PROVE KeptInv
  OBVIOUS
<1>1. \A r \in Request : tx[r] = Open
  BY InitRows
<1>2. Stored # {} => Defaults # {}
  BY InitRows
<1> QED
  BY <1>1, <1>2, OpenFields DEF KeptInv, Working

LEMMA KeptNext ==
    ASSUME Base, KeptInv, [Next]_vars
    PROVE  KeptInv'
<1>0. Sound /\ Apart /\ PageTypeOK /\ \A r \in Request : WellFormed(tx[r])
  BY BaseHas
<1>1. CASE StartStep
  <2>0. PICK r \in Request : \E q, t : BegunTo(r, q, t)
    BY <1>1 DEF StartStep, StartTo
  <2>1. PICK q, t : BegunTo(r, q, t)
    BY <2>0
  <2>2. /\ tx'[r] = t /\ t.at = "begun" /\ UNCHANGED <<rows, born>> /\ tx[r].at = "free"
        /\ \A o \in Request \ {r} : tx'[o].at = tx[o].at /\ tx'[o].op = tx[o].op /\ tx'[o].id = tx[o].id
              /\ tx'[o].isDefault = tx[o].isDefault /\ tx'[o].existing = tx[o].existing
        /\ clashes'.unset = clashes.unset
        /\ ~clashes'.delete => /\ ~clashes.delete
                           /\ \A o \in Request \ {r} : Working(o) => t.op # "delete" /\ tx[o].op # "delete"
    BY <2>1 DEF BegunTo, NotAlone
  <2>3. Stored' = Stored /\ Defaults' = Defaults
    BY <2>2 DEF Stored, Defaults
  <2>4. \A o \in Request \ {r} : Working(o)' <=> Working(o)
    BY <2>2 DEF Working
  <2> QED
    BY <2>2, <2>3, <2>4 DEF KeptInv
<1>2. CASE WorkStep
  <2>0. PICK r \in Request : \E t : Worked(r, t)
    BY <1>2 DEF WorkStep
  <2>1. PICK t : Worked(r, t)
    BY <2>0
  <2>2. /\ tx'[r] = t /\ \A o \in Request \ {r} : tx'[o] = tx[o]
        /\ Working(r) /\ t.op = tx[r].op /\ clashes'.delete = clashes.delete /\ WellFormed(t)
        /\ UNCHANGED clashes \/ Noted(r)
    BY <1>0, <2>1, WorkedTx DEF Keeps
  <2> SUFFICES ASSUME ~clashes.delete PROVE KeptInv'
    BY <2>2 DEF KeptInv
  <2>n. ~clashes'.unset /\ Defaults' = {} /\ Noted(r) => ~clashes.unset /\ ~tx[r].unset
    BY DEF Noted
  <2>3. /\ Stored # {} /\ ~clashes.unset => Defaults # {}
        /\ \A p, o \in Request : tx[p].op = "delete" /\ Working(p) /\ o # p => ~Working(o)
        /\ \A p \in Request : tx[p].at = "create" /\ ~tx[p].isDefault => Stored # {}
        /\ \A p \in Request : tx[p].at = "delete" => tx[p].existing = rows[tx[p].id]
    BY DEF KeptInv
  <2>4. \A p, o \in Request : tx'[p].op = "delete" /\ Working(p)' /\ o # p => ~Working(o)'
    BY <2>2, <2>3 DEF Working
  <2>5. \A o \in Request \ {r} : tx[o].at # "delete"
    BY <1>0, <2>2, <2>3 DEF Working, WellFormed
  <2>6. ASSUME tx[r].op = "delete"
        PROVE  \A o \in Request \ {r} : ~Working(o)
    BY <2>2, <2>3, <2>6
  <2>7. CASE CreatedTo(r, t)
    <3>1. t.at = "ok" /\ tx[r].at = "create"
      BY <2>7 DEF CreatedTo, Commits
    <3>2. Stored' # {} /\ (~clashes'.unset => Defaults' # {})
      <4>1. Noted(r) /\ tx[r].isDefault \in BOOLEAN
        BY <1>0, <2>7 DEF CreatedTo, Commits, Sound, ConfigTypeOK, Tx
      <4> QED
        BY <2>3, <2>7, <2>n, <3>1, <4>1, CreatedTable
    <3> QED
      BY <2>2, <2>4, <2>5, <3>1, <3>2 DEF KeptInv
  <2>8. CASE UpdatedTo(r, t)
    <3>1. t.at = "ok"
      BY <2>8 DEF UpdatedTo, Commits
    <3>2. Stored' = Stored /\ (Stored' # {} /\ ~clashes'.unset => Defaults' # {})
      <4>1. Noted(r)
        BY <2>8 DEF UpdatedTo, Commits
      <4> QED
        BY <2>3, <2>8, <2>n, <4>1, UpdatedTable
    <3> QED
      BY <2>2, <2>3, <2>4, <2>5, <3>1, <3>2 DEF KeptInv
  <2>9. CASE DeletedTo(r, t)
    <3>1. t.at = "ok" /\ tx[r].op = "delete" /\ t.id = tx[r].id
      BY <2>9 DEF DeletedTo, Commits
    <3>2. Stored' # {} /\ ~clashes'.unset => Defaults' # {}
      <4>0. Noted(r)
        BY <2>9 DEF DeletedTo, Commits
      <4>1. CASE tx[r].at \in {"promote", "find"}
        BY <2>9, <4>1, DeletedTable
      <4>2. CASE tx[r].at \notin {"promote", "find"}
        <5>1. /\ tx[r].at = "delete" /\ ~tx[r].existing.isDefault
              /\ Defaults' = Defaults \ {t.id} /\ Stored' = Stored \ {t.id}
          BY <2>9, <4>2, DeletedTable
        <5>2. t.id \notin Defaults
          BY <2>3, <3>1, <5>1 DEF Defaults
        <5> QED
          BY <2>3, <2>n, <4>0, <5>1, <5>2
      <4> QED
        BY <4>1, <4>2
    <3>3. \A o \in Request \ {r} : tx[o].at # "create"
      BY <2>6, <3>1 DEF Working
    <3> QED
      BY <2>2, <2>4, <2>5, <3>1, <3>2, <3>3 DEF KeptInv
  <2>10. CASE rows' = rows
    <3>1. Stored' = Stored /\ Defaults' = Defaults
      BY <2>10 DEF Stored, Defaults
    <3>n. Defaults = {} /\ ~clashes'.unset => ~clashes.unset
      BY <2>2, <2>n, <3>1
    <3>2. t.at = "create" /\ ~t.isDefault => Stored # {}
      BY <1>0, <2>1, <2>2, <2>7, StoredRows
         DEF Worked, CountedTo, ReadTo, ClearedTo, ClearedRowTo, RemovedTo, FoundTo, Refused,
             CreatedTo, UpdatedTo, DeletedTo, Commits
    <3>3. t.at = "delete" => t.existing = rows[t.id]
      BY <1>0, <2>1, <2>2
         DEF Worked, CountedTo, ReadTo, ClearedTo, ClearedRowTo, RemovedTo, FoundTo, Refused,
             CreatedTo, UpdatedTo, DeletedTo, Commits
    <3> QED
      BY <2>2, <2>3, <2>4, <2>5, <2>10, <3>1, <3>2, <3>3, <3>n DEF KeptInv
  <2> QED
    BY <1>0, <2>1, <2>7, <2>8, <2>9, <2>10, WorkedTx
<1>3. CASE HangStep
  <2>1. PICK r \in Request : /\ tx'[r] = Open /\ \A o \in Request \ {r} : tx'[o] = tx[o]
                             /\ UNCHANGED <<rows, clashes>>
    BY <1>0, <1>3, HangTx DEF HangStep
  <2>2. Stored' = Stored /\ Defaults' = Defaults
    BY <2>1 DEF Stored, Defaults
  <2> QED
    BY <2>1, <2>2, OpenFields DEF KeptInv, Working
<1>4. CASE IdleStep
  BY <1>4 DEF IdleStep, configVars, KeptInv, Working, Stored, Defaults
<1> QED
  BY <1>0, <1>1, <1>2, <1>3, <1>4, ConfigSteps

(* A user with configurations has a default one for the gateway, unless a  *)
(* deletion and another change were worked on at once, or a request took   *)
(* the mark away and nothing has been made the default since.              *)
THEOREM TheDefaultIsKept == Spec => []DefaultKept
<1>1. Init => KeptInv
  BY KeptInit
<1>2. Base /\ KeptInv /\ [Next]_vars => KeptInv'
  BY KeptNext
<1>3. Base /\ KeptInv => DefaultKept
  <2> SUFFICES ASSUME Base, KeptInv, Stored # {}, ~clashes.delete, ~clashes.unset
               PROVE  GatewayProvider \in Defaults
    BY DEF DefaultKept
  <2>1. Defaults # {} /\ Defaults \in SUBSET Config
    BY BaseHas, StoredRows DEF KeptInv
  <2> QED
    BY <2>1, OldestIsOne DEF GatewayProvider
<1> QED
  BY <1>1, <1>2, <1>3, BaseAlways, PTL DEF Spec

(* A request that has met no other one is not refused: while it works it   *)
(* is the only one, its clearing covers every row, and the row it has read *)
(* is still there.                                                         *)
AloneInv ==
    \A r \in Request : tx[r].alone =>
      LET t == tx[r] IN
      /\ t.at # "refused"
      /\ Working(r) => \A o \in Request \ {r} : ~Working(o)
      /\ t.at = "clearing" => Stored \subseteq t.todo \cup t.wrote
      /\ t.at \in {"create", "update"} /\ t.isDefault => Stored \subseteq t.wrote
      /\ t.op = "update" /\ t.at \in {"clear", "clearing", "update"} => t.id \in Stored
      /\ t.op = "delete" /\ t.at \in {"delete", "find", "promote"} =>
           t.id \in Stored /\ rows[t.id] = t.existing
      /\ t.at \in {"find", "promote"} => t.existing.isDefault
      /\ t.at = "promote" => t.todo \subseteq Stored

LEMMA NotRefusedAlone ==
    ASSUME Base, AloneInv, NEW r \in Request, NEW t, Refused(r, t)
    PROVE  ~tx[r].alone
<1> SUFFICES ASSUME tx[r].alone PROVE FALSE
  OBVIOUS
<1>0. Working(r) /\ Met(r) /\ WellFormed(tx[r]) /\ Defaults \subseteq Stored
  BY BaseHas, StoredRows DEF Refused
<1>1. /\ \A o \in Request \ {r} : ~Working(o)
      /\ tx[r].at \in {"create", "update"} /\ tx[r].isDefault => Stored \subseteq tx[r].wrote
      /\ tx[r].op = "update" /\ tx[r].at = "update" => tx[r].id \in Stored
      /\ tx[r].op = "delete" /\ tx[r].at \in {"delete", "promote"} =>
           tx[r].id \in Stored /\ rows[tx[r].id] = tx[r].existing
      /\ tx[r].at = "promote" => tx[r].existing.isDefault /\ tx[r].todo \subseteq Stored
  BY <1>0 DEF AloneInv
<1>2. \A o \in Request \ {r} : tx[o].wrote = {}
  BY <1>1, BaseHas DEF Working, WellFormed
<1>3. tx[r].at = "promote" => Defaults = {tx[r].id}
  <2>1. tx[r].at = "promote" => tx[r].id \in Defaults
    BY <1>0, <1>1 DEF Defaults, WellFormed
  <2> QED
    BY <2>1 DEF Base, RowInv
<1> QED
  BY <1>0, <1>1, <1>2, <1>3 DEF Met, WellFormed

LEMMA AloneNext ==
    ASSUME Base, AloneInv, [Next]_vars
    PROVE  AloneInv'
<1>0. Sound /\ Apart /\ PageTypeOK /\ \A r \in Request : WellFormed(tx[r])
  BY BaseHas
<1>1. CASE StartStep
  <2>0. PICK r \in Request : \E q, t : BegunTo(r, q, t)
    BY <1>1 DEF StartStep, StartTo
  <2>1. PICK q, t : BegunTo(r, q, t)
    BY <2>0
  <2>2. /\ tx'[r] = t /\ t.at = "begun" /\ UNCHANGED <<rows, born>> /\ tx[r].at = "free"
        /\ t.alone => \A o \in Request \ {r} : ~Working(o)
        /\ \A o \in Request \ {r} :
              tx'[o].at = tx[o].at /\ (tx'[o].alone => tx[o].alone /\ ~Working(o))
    BY <2>1 DEF BegunTo, NotAlone
  <2>4. \A o \in Request \ {r} : Working(o)' <=> Working(o)
    BY <2>2 DEF Working
  <2>5. ASSUME NEW o \in Request \ {r}, tx'[o].alone
        PROVE  tx'[o].at \in {"free", "ok", "gone"} /\ ~Working(o)'
    BY <2>2, <2>4, <2>5 DEF AloneInv, Working
  <2> QED
    BY <2>2, <2>4, <2>5 DEF AloneInv
<1>2. CASE WorkStep
  <2>0. PICK r \in Request : \E t : Worked(r, t)
    BY <1>2 DEF WorkStep
  <2>1. PICK t : Worked(r, t)
    BY <2>0
  <2>2. /\ tx'[r] = t /\ \A o \in Request \ {r} : tx'[o] = tx[o]
        /\ Working(r) /\ t.op = tx[r].op /\ t.alone = tx[r].alone /\ WellFormed(t)
    BY <1>0, <2>1, WorkedTx DEF Keeps
  <2>3. ASSUME NEW o \in Request \ {r}, tx'[o].alone
        PROVE  tx'[o].at \in {"free", "ok", "gone"} /\ ~Working(o)'
    BY <2>2, <2>3 DEF AloneInv, Working
  <2> DEFINE Fine(u, stored, table) ==
        /\ u.at # "refused"
        /\ u.at = "clearing" => stored \subseteq u.todo \cup u.wrote
        /\ u.at \in {"create", "update"} /\ u.isDefault => stored \subseteq u.wrote
        /\ u.op = "update" /\ u.at \in {"clear", "clearing", "update"} => u.id \in stored
        /\ u.op = "delete" /\ u.at \in {"delete", "find", "promote"} =>
             u.id \in stored /\ table[u.id] = u.existing
        /\ u.at \in {"find", "promote"} => u.existing.isDefault
        /\ u.at = "promote" => u.todo \subseteq stored
  <2>4. ASSUME tx[r].alone
        PROVE  Fine(t, Stored', rows')
    <3>1. Fine(tx[r], Stored, rows)
      BY <2>4 DEF AloneInv
    <3>2. CASE Refused(r, t)
      BY <2>4, <3>2, NotRefusedAlone
    <3>3. CASE CreatedTo(r, t) \/ UpdatedTo(r, t) \/ DeletedTo(r, t)
      <4>1. t.at = "ok"
        BY <3>3 DEF CreatedTo, UpdatedTo, DeletedTo, Commits
      <4> QED
        BY <4>1
    <3>4. ASSUME Local(r, t)
          PROVE  Stored' = Stored /\ rows' = rows /\ t.id = tx[r].id
      BY <3>4 DEF Local, Stored
    <3>5. CASE CountedTo(r, t)
      BY <3>5 DEF CountedTo, Local, Keeps
    <3>6. CASE ReadTo(r, t)
      <4>1. rows' = rows /\ Stored' = Stored /\ t.id = tx[r].id /\ t.id \in Config
        BY <1>0, <3>4, <3>6 DEF ReadTo, WellFormed
      <4>2. rows[t.id] \in Row => t.id \in Stored
        BY <4>1, ConfigAssumption DEF Stored
      <4> QED
        BY <2>2, <3>6, <4>1, <4>2 DEF ReadTo
    <3>7. CASE ClearedTo(r, t)
      <4>1. rows' = rows /\ Stored' = Stored /\ t.id = tx[r].id /\ t.op \in {"create", "update"}
        BY <2>2, <3>4, <3>7 DEF ClearedTo
      <4> QED
        BY <2>2, <3>1, <3>7, <4>1 DEF ClearedTo
    <3>8. CASE ClearedRowTo(r, t)
      <4>1. rows' = rows /\ Stored' = Stored /\ t.id = tx[r].id /\ t.op \in {"create", "update"}
        BY <2>2, <3>4, <3>8 DEF ClearedRowTo
      <4>2. PICK c \in tx[r].todo :
              /\ t.wrote = tx[r].wrote \cup ({c} \cap Stored)
              /\ t.todo = tx[r].todo \ {c}
              /\ t.at = IF tx[r].todo = {c} THEN t.op ELSE "clearing"
        BY <3>8 DEF ClearedRowTo
      <4>3. Stored \subseteq tx[r].todo \cup tx[r].wrote
        BY <3>1, <3>8 DEF ClearedRowTo
      <4>4. Stored \subseteq t.todo \cup t.wrote
        BY <4>2, <4>3
      <4>5. t.at # "clearing" => Stored \subseteq t.wrote
        BY <4>1, <4>2, <4>3
      <4>6. t.op = "update" => t.id \in Stored
        BY <2>2, <3>1, <3>8, <4>1 DEF ClearedRowTo
      <4>7. t.at \in {"create", "update", "clearing"}
        BY <4>1, <4>2
      <4> QED
        BY <4>1, <4>4, <4>5, <4>6, <4>7
    <3>9. CASE RemovedTo(r, t)
      <4>1. rows' = rows /\ Stored' = Stored /\ t.id = tx[r].id
        BY <3>4, <3>9 DEF RemovedTo
      <4> QED
        BY <2>2, <3>1, <3>9, <4>1 DEF RemovedTo
    <3>10. CASE FoundTo(r, t)
      <4>1. rows' = rows /\ Stored' = Stored /\ t.id = tx[r].id
        BY <3>4, <3>10 DEF FoundTo
      <4> QED
        BY <2>2, <3>1, <3>10, <4>1 DEF FoundTo
    <3> QED
      BY <2>1, <3>2, <3>3, <3>5, <3>6, <3>7, <3>8, <3>9, <3>10 DEF Worked
  <2>5. tx[r].alone => \A o \in Request \ {r} : ~Working(o)'
    BY <2>2 DEF AloneInv, Working
  <2> QED
    BY <2>2, <2>3, <2>4, <2>5 DEF AloneInv
<1>3. CASE HangStep
  <2>1. PICK r \in Request : /\ tx'[r] = Open /\ \A o \in Request \ {r} : tx'[o] = tx[o]
                             /\ UNCHANGED <<rows, clashes>>
    BY <1>0, <1>3, HangTx DEF HangStep
  <2>2. Stored' = Stored
    BY <2>1 DEF Stored
  <2>3. ~Working(r)' /\ \A o \in Request \ {r} : Working(o)' <=> Working(o)
    BY <2>1, OpenFields DEF Working
  <2> QED
    BY <2>1, <2>2, <2>3, OpenFields DEF AloneInv
<1>4. CASE IdleStep
  BY <1>4 DEF IdleStep, configVars, AloneInv, Working, Stored
<1> QED
  BY <1>0, <1>1, <1>2, <1>3, <1>4, ConfigSteps

(* A change is refused only when another one was worked on meanwhile: one  *)
(* request alone breaks no index and loses no row it has read.             *)
THEOREM OneRequestIsNotRefused == Spec => []RefusedOnlyInConflict
<1>1. Init => AloneInv
  BY InitRows, OpenFields DEF AloneInv, Working
<1>2. Base /\ AloneInv /\ [Next]_vars => AloneInv'
  BY AloneNext
<1>3. AloneInv => RefusedOnlyInConflict
  BY DEF AloneInv, RefusedOnlyInConflict
<1> QED
  BY <1>1, <1>2, <1>3, BaseAlways, PTL DEF Spec

(* Updates of a row that met are known, and what an update without a key   *)
(* will write as the base URL is what the row holds.                       *)
Excused == clashes.updated \cup doubt.old
FitsInv ==
    /\ \A c \in Stored \ Excused : rows[c].apiKey = rows[c].baseUrl
    /\ \A r, o \in Request :
         r # o /\ Working(r) /\ Working(o) /\ tx[r].op = "update" /\ tx[o].op = "update"
           /\ tx[r].id = tx[o].id => tx[r].id \in clashes.updated
    /\ \A r \in Request :
         LET t == tx[r] IN
         t.op = "update" /\ Working(r) /\ t.apiKey = None /\ t.id \in Stored \ Excused =>
           /\ t.baseUrl # None => rows[t.id].baseUrl = t.baseUrl
           /\ t.baseUrl = None /\ t.at # "begun" => rows[t.id].baseUrl = t.existing.baseUrl

(* What the third part says of a transaction and a table. *)
Fits(u, table) ==
    /\ u.baseUrl # None => table[u.id].baseUrl = u.baseUrl
    /\ u.baseUrl = None /\ u.at # "begun" => table[u.id].baseUrl = u.existing.baseUrl

LEMMA FitsNext ==
    ASSUME Base, FitsInv, [Next]_vars
    PROVE  FitsInv'
<1>0. Sound /\ Apart /\ PageTypeOK /\ \A r \in Request : WellFormed(tx[r])
  BY BaseHas
<1>1. CASE StartStep
  <2>0. PICK r \in Request : \E q, t, old : StartTo(r, q, t, old)
    BY <1>1 DEF StartStep
  <2>1. PICK q, t, old : StartTo(r, q, t, old)
    BY <2>0
  <2>2. /\ tx'[r] = t /\ t.at = "begun" /\ UNCHANGED <<rows, born>> /\ tx[r].at = "free"
        /\ \A o \in Request \ {r} : NotAlone(tx[o], tx'[o])
        /\ clashes.updated \subseteq clashes'.updated
        /\ t.op = "update" => \A o \in Request \ {r} :
             Working(o) /\ tx[o].op = "update" /\ tx[o].id = t.id => t.id \in clashes'.updated
    BY <2>1 DEF StartTo, BegunTo
  <2>3. Stored' = Stored
    BY <2>2 DEF Stored
  <2>4. \A o \in Request \ {r} : Working(o)' <=> Working(o)
    BY <2>2 DEF Working, NotAlone
  <2>5. doubt'.old = doubt.old \cup old
    BY <2>1 DEF StartTo
  <2>6. Excused \subseteq Excused' /\ old \subseteq Excused'
    BY <2>2, <2>5 DEF Excused
  <2>7. t.op = "update" /\ t.apiKey = None /\ t.id \in Stored' \ Excused' =>
           (t.baseUrl # None => rows'[t.id].baseUrl = t.baseUrl)
    BY <2>1, <2>2, <2>3, <2>6 DEF StartTo
  <2>8. \A c \in Stored' \ Excused' : rows'[c].apiKey = rows'[c].baseUrl
    BY <2>2, <2>3, <2>6 DEF FitsInv
  <2>9. \A p, o \in Request :
         p # o /\ Working(p)' /\ Working(o)' /\ tx'[p].op = "update" /\ tx'[o].op = "update"
           /\ tx'[p].id = tx'[o].id => tx'[p].id \in clashes'.updated
    BY <2>2, <2>4 DEF FitsInv, NotAlone
  <2>10. ASSUME NEW p \in Request, tx'[p].op = "update", Working(p)', tx'[p].apiKey = None,
                tx'[p].id \in Stored' \ Excused'
         PROVE  Fits(tx'[p], rows')
    <3>1. CASE p = r
      BY <2>2, <2>7, <2>10, <3>1 DEF Fits
    <3>2. CASE p # r
      <4>1. Fits(tx[p], rows)
        BY <2>2, <2>3, <2>4, <2>6, <2>10, <3>2 DEF FitsInv, Fits, NotAlone
      <4> QED
        BY <2>2, <3>2, <4>1 DEF Fits, NotAlone
    <3> QED
      BY <3>1, <3>2
  <2> QED
    BY <2>8, <2>9, <2>10 DEF FitsInv, Fits
<1>2. CASE WorkStep
  <2>0. PICK r \in Request : \E t : Worked(r, t) /\ UNCHANGED <<authVars, pageVars, countVars>>
    BY <1>2 DEF WorkStep
  <2>1. PICK t : Worked(r, t) /\ UNCHANGED <<authVars, pageVars, countVars>>
    BY <2>0
  <2>2. /\ tx'[r] = t /\ \A o \in Request \ {r} : tx'[o] = tx[o]
        /\ Working(r) /\ WellFormed(t) /\ clashes'.updated = clashes.updated /\ doubt' = doubt
        /\ t.op = tx[r].op /\ t.apiKey = tx[r].apiKey /\ t.baseUrl = tx[r].baseUrl
        /\ t.id = tx[r].id \/ CreatedTo(r, t)
    BY <1>0, <2>1, WorkedTx DEF Keeps, countVars
  <2>3. Excused' = Excused
    BY <2>2 DEF Excused
  <2>4. \A p \in Request : Working(p)' => Working(p) /\ (tx'[p].id = tx[p].id)
    BY <2>2 DEF Working, CreatedTo, Commits
  <2>5. \A p, o \in Request :
         p # o /\ Working(p)' /\ Working(o)' /\ tx'[p].op = "update" /\ tx'[o].op = "update"
           /\ tx'[p].id = tx'[o].id => tx'[p].id \in clashes'.updated
    BY <2>2, <2>4 DEF FitsInv
  <2>6. \A p \in Request :
         tx[p].op = "update" /\ Working(p) /\ tx[p].apiKey = None /\ tx[p].id \in Stored \ Excused =>
           Fits(tx[p], rows)
    BY DEF FitsInv, Fits
  <2>7. CASE CreatedTo(r, t)
    <3>1. /\ Stored' = Stored \cup {t.id} /\ t.id \notin Stored /\ t.at = "ok" /\ t.op = "create"
          /\ t.id = born + 1 /\ \A c \in Config \ {t.id} : Left(r, c)
          /\ rows'[t.id] = [isDefault |-> tx[r].isDefault, baseUrl |-> t.baseUrl, apiKey |-> t.apiKey]
      BY <2>2, <2>7, CreatedTable DEF CreatedTo, Commits
    <3>2. \A c \in Stored : rows'[c].baseUrl = rows[c].baseUrl /\ rows'[c].apiKey = rows[c].apiKey
      BY <1>0, <3>1, StoredRows DEF Left
    <3>3. rows'[t.id].apiKey = rows'[t.id].baseUrl
      BY <2>2, <3>1 DEF WellFormed
    <3>4. \A p \in Request : tx[p].id # t.id
      BY <3>1, BaseHas DEF Base, RowInv
    <3>5. \A c \in Stored' \ Excused' : rows'[c].apiKey = rows'[c].baseUrl
      BY <2>3, <3>1, <3>2, <3>3 DEF FitsInv
    <3>6. ASSUME NEW p \in Request, tx'[p].op = "update", Working(p)', tx'[p].apiKey = None,
                 tx'[p].id \in Stored' \ Excused'
          PROVE  Fits(tx'[p], rows')
      <4>1. p # r /\ tx'[p] = tx[p] /\ Working(p) /\ tx[p].id \in Stored \ Excused
        BY <2>2, <2>3, <2>4, <3>1, <3>4, <3>6
      <4> QED
        BY <2>6, <3>2, <3>6, <4>1 DEF Fits
    <3> QED
      BY <2>5, <3>5, <3>6 DEF FitsInv, Fits
  <2>8. CASE UpdatedTo(r, t)
    <3>1. /\ Stored' = Stored /\ t.at = "ok" /\ t.op = "update" /\ tx[r].at = "update"
          /\ t.id = tx[r].id /\ t.id \in Stored /\ \A c \in Config \ {t.id} : Left(r, c)
          /\ rows'[t.id].baseUrl = IF t.baseUrl = None THEN tx[r].existing.baseUrl ELSE t.baseUrl
          /\ rows'[t.id].apiKey = IF t.apiKey = None THEN rows[t.id].apiKey ELSE t.apiKey
      BY <2>2, <2>8, UpdatedTable DEF UpdatedTo, Commits
    <3>2. \A c \in Stored \ {t.id} : rows'[c].baseUrl = rows[c].baseUrl /\ rows'[c].apiKey = rows[c].apiKey
      BY <1>0, <3>1, StoredRows DEF Left
    <3>3. t.id \notin Excused => rows'[t.id].apiKey = rows'[t.id].baseUrl
      <4>1. CASE t.apiKey = None /\ t.id \notin Excused
        <5>1. Fits(tx[r], rows) /\ rows[t.id].apiKey = rows[t.id].baseUrl
          BY <2>2, <2>6, <3>1, <4>1 DEF FitsInv
        <5> QED
          BY <2>2, <3>1, <4>1, <5>1 DEF Fits
      <4>2. CASE t.apiKey # None
        BY <2>2, <3>1, <4>2 DEF WellFormed
      <4> QED
        BY <4>1, <4>2
    <3>4. \A c \in Stored' \ Excused' : rows'[c].apiKey = rows'[c].baseUrl
      BY <2>3, <3>1, <3>2, <3>3 DEF FitsInv
    <3>5. ASSUME NEW p \in Request, tx'[p].op = "update", Working(p)', tx'[p].apiKey = None,
                 tx'[p].id \in Stored' \ Excused'
          PROVE  Fits(tx'[p], rows')
      <4>1. p # r /\ tx'[p] = tx[p] /\ Working(p) /\ tx[p].id \in Stored \ Excused
        BY <2>2, <2>3, <2>4, <3>1, <3>5 DEF Working
      <4>2. tx[p].id # t.id
        BY <2>2, <3>1, <3>5, <4>1 DEF FitsInv, Excused
      <4> QED
        BY <2>6, <3>2, <3>5, <4>1, <4>2 DEF Fits
    <3> QED
      BY <2>5, <3>4, <3>5 DEF FitsInv, Fits
  <2>9. CASE DeletedTo(r, t)
    <3>1. /\ Stored' \subseteq Stored /\ t.at = "ok"
          /\ \A c \in Stored' : rows'[c].baseUrl = rows[c].baseUrl /\ rows'[c].apiKey = rows[c].apiKey
      BY <2>9, DeletedTable DEF DeletedTo, Commits
    <3>2. \A c \in Stored' \ Excused' : rows'[c].apiKey = rows'[c].baseUrl
      BY <2>3, <3>1 DEF FitsInv
    <3>3. ASSUME NEW p \in Request, tx'[p].op = "update", Working(p)', tx'[p].apiKey = None,
                 tx'[p].id \in Stored' \ Excused'
          PROVE  Fits(tx'[p], rows')
      <4>1. p # r /\ tx'[p] = tx[p] /\ Working(p) /\ tx[p].id \in Stored \ Excused
        BY <2>2, <2>3, <2>4, <3>1, <3>3 DEF Working
      <4> QED
        BY <2>6, <3>1, <3>3, <4>1 DEF Fits
    <3> QED
      BY <2>5, <3>2, <3>3 DEF FitsInv, Fits
  <2>10. CASE rows' = rows
    <3>1. Stored' = Stored
      BY <2>10 DEF Stored
    <3>2. \A c \in Stored' \ Excused' : rows'[c].apiKey = rows'[c].baseUrl
      BY <2>3, <2>10, <3>1 DEF FitsInv
    <3>3. t.op = "update" /\ Working(r)' /\ t.at # "begun" /\ tx[r].at # "begun" =>
             t.existing = tx[r].existing
      BY <2>1, <2>2
         DEF Worked, CountedTo, ReadTo, ClearedTo, ClearedRowTo, RemovedTo, FoundTo, Refused,
             CreatedTo, UpdatedTo, DeletedTo, Commits, Working
    <3>4. t.op = "update" /\ Working(r)' /\ tx[r].at = "begun" => t.existing = rows[t.id]
      BY <2>1, <2>2
         DEF Worked, CountedTo, ReadTo, ClearedTo, ClearedRowTo, RemovedTo, FoundTo, Refused,
             CreatedTo, UpdatedTo, DeletedTo, Commits, Working
    <3>5. ASSUME NEW p \in Request, tx'[p].op = "update", Working(p)', tx'[p].apiKey = None,
                 tx'[p].id \in Stored' \ Excused'
          PROVE  Fits(tx'[p], rows')
      <4>1. tx[p].op = "update" /\ Working(p) /\ tx[p].apiKey = None /\ tx[p].id \in Stored \ Excused
            /\ tx'[p].id = tx[p].id
        BY <2>2, <2>3, <2>4, <3>1, <3>5
      <4>2. CASE p # r
        BY <2>2, <2>6, <2>10, <4>1, <4>2
      <4>3. CASE p = r
        BY <2>2, <2>6, <2>10, <3>3, <3>4, <3>5, <4>1, <4>3 DEF Fits
      <4> QED
        BY <4>2, <4>3
    <3> QED
      BY <2>5, <3>2, <3>5 DEF FitsInv, Fits
  <2> QED
    BY <1>0, <2>1, <2>7, <2>8, <2>9, <2>10, WorkedTx
<1>3. CASE HangStep
  <2>1. PICK r \in Request : /\ tx'[r] = Open /\ \A o \in Request \ {r} : tx'[o] = tx[o]
                             /\ UNCHANGED <<rows, clashes>> /\ doubt'.old = doubt.old
    BY <1>0, <1>3, HangTx DEF HangStep
  <2>2. Stored' = Stored /\ Excused' = Excused
    BY <2>1 DEF Stored, Excused
  <2>3. ~Working(r)' /\ \A o \in Request \ {r} : Working(o)' <=> Working(o)
    BY <2>1, OpenFields DEF Working
  <2> QED
    BY <2>1, <2>2, <2>3 DEF FitsInv
<1>4. CASE IdleStep
  BY <1>4 DEF IdleStep, configVars, FitsInv, Working, Stored, Excused
<1> QED
  BY <1>0, <1>1, <1>2, <1>3, <1>4, ConfigSteps

(* A base URL and the key stored with it belong to one account, unless two *)
(* updates of the row met or it was saved from a form with an old URL.     *)
THEOREM KeysFitTheirUrls == Spec => []KeyFitsUrl
<1>1. Init => FitsInv
  BY InitRows, OpenFields DEF FitsInv, Working
<1>2. Base /\ FitsInv /\ [Next]_vars => FitsInv'
  BY FitsNext
<1>3. FitsInv => KeyFitsUrl
  BY DEF FitsInv, KeyFitsUrl, Excused
<1> QED
  BY <1>1, <1>2, <1>3, BaseAlways, PTL DEF Spec

-----------------------------------------------------------------------------
(* What the page shows.  The list is right up to the answers still on the  *)
(* way, as long as it came when no change was worked on and no answer was  *)
(* lost.                                                                   *)
Regime == screen = "authenticated" /\ ~doubt.list

PageInv ==
    /\ \A r \in Busy : screen = "authenticated" /\ tx[r].at # "free" /\ tx[r].op # "none"
    /\ Regime => \A r \in Request : Working(r) => r \in Busy
    /\ Regime /\ Loading => Busy = {} /\ (load.at = "answered" => load.items = List(rows))

(* What a step of the account is to the page. *)
Leaves == UNCHANGED configVars /\ screen' # "authenticated" /\ Busy' = {}

Opens ==
    /\ UNCHANGED <<configVars, awaits>> /\ screen = "loading"
    /\ load'.at = "asked" /\ (~doubt'.list => \A r \in Request : ~Working(r))

Reads ==
    /\ UNCHANGED <<configVars, screen, awaits, doubt>>
    /\ Loading /\ load'.at # "none" /\ (load'.at = "answered" => load'.items = List(rows))

ListArrives ==
    /\ UNCHANGED <<configVars, screen, form, listing, awaits>>
    /\ Loading /\ load'.at = "none"
    /\ ~doubt'.list => ~doubt.list /\ load.at = "answered" /\ shown' = load.items

FromPage(f) == f \in {None, form, listing} \/ f.id \in Shown
FormStep ==
    /\ UNCHANGED <<configVars, screen, shown, load, doubt>>
    /\ Busy' = Busy /\ FromPage(form') /\ FromPage(listing')

AnswerTo(r) ==
    /\ tx'[r] = Open /\ (\A o \in Request \ {r} : tx'[o] = tx[o]) /\ ~Working(r)
    /\ UNCHANGED <<rows, born, screen, load, listing>>
    /\ Busy' = Busy \ {r} /\ form' \in {None, form}
    /\ \/ doubt'.list
       \/ doubt' = doubt /\ shown' = IF tx[r].at = "ok" /\ r \in Busy THEN Applied(r) ELSE shown
AnswerStep == \E r \in Request : AnswerTo(r)

LEMMA BusyNext ==
    ASSUME PageTypeOK, NEW x \in Request \cup Caller, NEW use, awaits' = [awaits EXCEPT ![x] = use]
    PROVE  /\ x \in Caller => Busy' = Busy
           /\ x \in Request /\ use = "nothing" => Busy' = Busy \ {x}
           /\ x \in Request /\ use # "nothing" => Busy' = Busy \cup {x}
<1>1. awaits' = [y \in Request \cup Caller |-> IF y = x THEN use ELSE awaits[y]]
  BY DEF PageTypeOK
<1> QED
  BY <1>1, AccountAssumption DEF Busy

LEMMA AnswerDoes ==
    ASSUME Base, NEW r \in Request, Answer(r) \/ LoseAnswer(r)
    PROVE  AnswerTo(r)
<1>1. Sound /\ PageTypeOK
  BY BaseHas
<1>2. Answered(r)
  BY DEF Answer, LoseAnswer
<1>3. /\ tx'[r] = Open /\ \A o \in Request \ {r} : tx'[o] = tx[o]
      /\ UNCHANGED <<rows, born, screen, load, listing>>
      /\ awaits' = [awaits EXCEPT ![r] = "nothing"] /\ ~Working(r)
  BY <1>1, <1>2, HangTx
<1>4. Busy' = Busy \ {r}
  BY <1>1, <1>3, BusyNext
<1>5. CASE Answer(r)
  BY <1>3, <1>4, <1>5 DEF Answer, AnswerTo, Busy
<1>6. CASE LoseAnswer(r)
  <2>1. doubt'.list
    BY <1>1, <1>6 DEF LoseAnswer, PageTypeOK
  <2> QED
    BY <1>3, <1>4, <1>6, <2>1 DEF LoseAnswer, AnswerTo
<1> QED
  BY <1>5, <1>6

LEMMA PageSteps ==
    ASSUME Base, PageInv, [Next]_vars
    PROVE  SentStep \/ UnsetStep \/ WorkStep \/ AnswerStep \/ Leaves \/ Opens \/ Reads
           \/ ListArrives \/ FormStep
<1>0. Sound /\ Apart /\ PageTypeOK
  BY BaseHas
<1>1. CASE \E r \in Request : Sends(r)
  BY <1>0, <1>1, CallsDo DEF SentStep
<1>u. CASE \E r \in Request : UnsetDefault(r)
  BY <1>0, <1>u, UnsetDoes DEF UnsetStep
<1>2. CASE \E r \in Request : Served(r)
  BY <1>0, <1>2, StatementDoes DEF Served, WorkStep
<1>3. CASE \E r \in Request : Answer(r) \/ LoseAnswer(r)
  BY <1>3, AnswerDoes DEF AnswerStep
<1>4. CASE EditProvider \/ CancelEdit \/ LoadModels \/ ModelsAnswer
  <2>1. UNCHANGED <<configVars, screen, shown, load, doubt, awaits>>
    BY <1>4 DEF EditProvider, CancelEdit, LoadModels, ModelsAnswer, OnlyForm
  <2>2. Busy' = Busy
    BY <2>1 DEF Busy
  <2>3. \A c \in Shown : FromPage([id |-> c, baseUrl |-> shown[c].baseUrl])
    BY DEF FromPage
  <2>4. FromPage(form') /\ FromPage(listing')
    <3>1. FromPage(form) /\ FromPage(listing) /\ FromPage(None)
      BY DEF FromPage
    <3> QED
      BY <1>4, <2>3, <3>1 DEF EditProvider, CancelEdit, LoadModels, ModelsAnswer
  <2> QED
    BY <2>1, <2>2, <2>4 DEF FormStep
<1>5. CASE CloseSettings
  <2>1. Busy' = Busy
    BY <1>0, <1>5 DEF CloseSettings, Busy, PageTypeOK
  <2> QED
    BY <1>5, <2>1 DEF CloseSettings, OnlyForm, FormStep, FromPage
<1>a. Reload /\ awaits' = AllForgotten /\ UNCHANGED configVars => Leaves
  BY DEF Reload, AllForgotten, Leaves, Busy
<1>6. CASE PressReload
  BY <1>6, <1>a DEF PressReload
<1>7. CASE OpenPage
  <2>1. UNCHANGED <<configVars, awaits>> /\ screen = "loading"
    BY <1>7 DEF OpenPage
  <2>2. CASE Accepts(cookie)
    <3>1. load'.at = "asked"
      BY <1>7, <2>2 DEF OpenPage, NoLoad
    <3>2. doubt'.list = (\E r \in Request : Working(r))
      BY <1>0, <1>7 DEF OpenPage, PageTypeOK
    <3> QED
      BY <2>1, <3>1, <3>2 DEF Opens
  <2>3. CASE ~Accepts(cookie)
    <3>1. screen' # "authenticated"
      BY <1>7, <2>3 DEF OpenPage
    <3>2. Busy = {}
      BY <2>1 DEF PageInv
    <3>3. Busy' = {}
      BY <2>1, <3>2 DEF Busy
    <3> QED
      BY <2>1, <3>1, <3>3 DEF Leaves
  <2> QED
    BY <2>2, <2>3
<1>8. CASE ReadConfigs
  BY <1>8 DEF ReadConfigs, Reads, Loading, countVars, NoLoad
<1>9. CASE ConfigsAnswer
  <2>1. doubt'.list = (doubt.list \/ load.at = "refused")
    BY <1>0, <1>9 DEF ConfigsAnswer, PageTypeOK
  <2> QED
    BY <1>9, <2>1 DEF ConfigsAnswer, ListArrives, Loading, NoLoad
<1>10. CASE ConfigsFail
  <2>1. doubt'.list
    BY <1>0, <1>10 DEF ConfigsFail, PageTypeOK
  <2> QED
    BY <1>10, <2>1 DEF ConfigsFail, ListArrives, Loading, NoLoad
<1>11. ASSUME NEW c \in Caller, SignIn(c) \/ SignOut(c) \/ RefreshSession(c) \/ BootstrapElsewhere(c)
       PROVE  FormStep
  <2>1. PICK use : Call(c, use) /\ UNCHANGED <<configVars, screen, shown, load, form, listing, doubt>>
    BY <1>11 DEF SignIn, SignOut, RefreshSession, BootstrapElsewhere, SendAuth
  <2>2. Busy' = Busy
    BY <1>0, <2>1, BusyNext DEF Call
  <2> QED
    BY <2>1, <2>2 DEF FormStep, FromPage
<1>12. CASE UNCHANGED <<configVars, pageVars, doubt>>
  BY <1>12 DEF FormStep, FromPage, pageVars, Busy
<1>13. ASSUME NEW c \in Caller, AuthAnswer(c) \/ LoseAuthAnswer(c)
       PROVE  Leaves \/ FormStep
  <2>1. /\ UNCHANGED <<configVars, doubt>>
        /\ \/ Reload /\ awaits' = AllForgotten
           \/ awaits' = [awaits EXCEPT ![c] = "nothing"] /\ UNCHANGED <<screen, shown, load, form, listing>>
    BY <1>13 DEF AuthAnswer, LoseAuthAnswer, countVars
  <2>2. CASE awaits' = [awaits EXCEPT ![c] = "nothing"] /\ UNCHANGED <<screen, shown, load, form, listing>>
    <3>1. Busy' = Busy
      BY <1>0, <2>2, BusyNext
    <3> QED
      BY <2>1, <2>2, <3>1 DEF FormStep, FromPage
  <2> QED
    BY <1>a, <2>1, <2>2
<1>14. CASE (\E c \in Caller : Handled(c)) \/ UNCHANGED vars
  BY <1>12, <1>14 DEF Handled, vars, countVars
<1> QED
  BY <1>1, <1>u, <1>2, <1>3, <1>4, <1>5, <1>6, <1>7, <1>8, <1>9, <1>10, <1>11, <1>13, <1>14
     DEF Next, Sends

(* A change that is sent, as the page sees it. *)
LEMMA SentPage ==
    ASSUME Base, PageInv, NEW r \in Request, NEW q, NEW t, NEW use, NEW old, SentTo(r, q, t, use, old)
    PROVE  /\ r \notin Busy /\ Busy' = Busy \cup {r} /\ screen' = "authenticated"
           /\ tx'[r] = t /\ t.at = "begun" /\ t.op \in {"create", "update", "delete"}
           /\ \A o \in Request \ {r} :
                /\ tx'[o].at = tx[o].at /\ tx'[o].op = tx[o].op /\ tx'[o].id = tx[o].id
                /\ tx'[o].isDefault = tx[o].isDefault /\ tx'[o].existing = tx[o].existing
           /\ UNCHANGED <<rows, born, screen, shown, load, form, listing>>
           /\ ~doubt'.list => ~doubt.list /\ ~Loading
           /\ ~doubt'.crossed => ~doubt.crossed /\ Busy = {}
           /\ ~doubt'.promoted => ~doubt.promoted /\ (t.op = "delete" => ~shown[t.id].isDefault)
<1>1. BegunTo(r, q, t) /\ Call(r, use) /\ use # "nothing" /\ q.op # "none"
  BY DEF SentTo, Asked
<1>2. tx[r].at = "free" /\ t \in Tx /\ t.op # "none"
  BY <1>1 DEF BegunTo
<1>3. Busy' = Busy \cup {r}
  BY <1>1, BaseHas, BusyNext DEF Call
<1>4. r \notin Busy
  BY <1>2 DEF PageInv
<1>5. screen = "authenticated" /\ UNCHANGED <<screen, shown, load, form, listing>>
  BY DEF SentTo, SettingsOpen
<1>6. doubt' = [list |-> doubt.list \/ Loading,
                crossed |-> doubt.crossed \/ Busy # {},
                promoted |-> doubt.promoted \/ (t.op = "delete" /\ shown[t.id].isDefault),
                old |-> doubt.old \cup old]
  BY DEF SentTo
<1>7. /\ ~doubt'.list => ~doubt.list /\ ~Loading
      /\ ~doubt'.crossed => ~doubt.crossed /\ Busy = {}
      /\ ~doubt'.promoted => ~doubt.promoted /\ (t.op = "delete" => ~shown[t.id].isDefault)
  BY <1>6
<1>8. t.op \in {"create", "update", "delete"}
  BY <1>2 DEF Tx
<1> QED
  BY <1>1, <1>3, <1>4, <1>5, <1>7, <1>8 DEF BegunTo, NotAlone

LEMMA PageNext ==
    ASSUME Base, PageInv, [Next]_vars
    PROVE  PageInv'
<1>0. Sound /\ Apart /\ PageTypeOK
  BY BaseHas
<1>1. CASE SentStep
  <2>0. PICK r \in Request : \E q, t, use, old : SentTo(r, q, t, use, old)
    BY <1>1 DEF SentStep
  <2>1. PICK q, t, use, old : SentTo(r, q, t, use, old)
    BY <2>0
  <2>2. /\ Busy' = Busy \cup {r} /\ UNCHANGED <<rows, screen, load>> /\ screen' = "authenticated"
        /\ tx'[r] = t /\ t.at = "begun" /\ t.op # "none"
        /\ \A o \in Request \ {r} : tx'[o].at = tx[o].at /\ tx'[o].op = tx[o].op
        /\ ~doubt'.list => ~doubt.list /\ ~Loading
    BY <2>1, SentPage
  <2>3. \A o \in Request \ {r} : Working(o)' <=> Working(o)
    BY <2>2 DEF Working
  <2>4. Loading' <=> Loading
    BY <2>2 DEF Loading
  <2>5. Busy \subseteq Request
    BY DEF Busy
  <2> QED
    BY <2>2, <2>3, <2>4, <2>5 DEF PageInv, Regime
<1>u. CASE UnsetStep
  <2>0. PICK r \in Request : \E q, t : UnsetTo(r, q, t)
    BY <1>u DEF UnsetStep
  <2>1. PICK q, t : UnsetTo(r, q, t)
    BY <2>0
  <2>2. doubt'.list /\ screen' = screen /\ BegunTo(r, q, t)
        /\ awaits' = [awaits EXCEPT ![r] = "nothing"]
    BY <1>0, <2>1 DEF UnsetTo, Call, PageTypeOK
  <2>3. Busy' = Busy \ {r} /\ Busy \subseteq Request
    BY <1>0, <2>2, BusyNext DEF Busy
  <2>4. \A o \in Request \ {r} : tx'[o].at = tx[o].at /\ tx'[o].op = tx[o].op
    BY <2>2 DEF BegunTo, NotAlone
  <2>5. ~Regime'
    BY <2>2 DEF Regime
  <2> QED
    BY <2>2, <2>3, <2>4, <2>5 DEF PageInv
<1>2. CASE WorkStep
  <2>0. PICK r \in Request : \E t : Worked(r, t) /\ UNCHANGED <<pageVars, countVars>>
    BY <1>2 DEF WorkStep
  <2>1. PICK t : Worked(r, t) /\ UNCHANGED <<pageVars, countVars>>
    BY <2>0
  <2>2. /\ Working(r) /\ tx'[r] = t /\ (\A o \in Request \ {r} : tx'[o] = tx[o])
        /\ t.op = tx[r].op /\ t.at # "free"
    BY <1>0, <2>1, WorkedTx DEF Keeps
  <2>6. \A o \in Busy : /\ tx'[o].at # "free" /\ tx'[o].op = tx[o].op
                         /\ screen = "authenticated" /\ tx[o].op # "none"
    BY <2>2 DEF PageInv, Busy
  <2>3. Busy' = Busy /\ (Regime' <=> Regime) /\ (Loading' <=> Loading) /\ screen' = screen
    BY <2>1 DEF pageVars, countVars, Busy, Regime, Loading
  <2>4. \A o \in Request : Working(o)' => Working(o)
    BY <2>2 DEF Working
  <2>5. ~(Regime /\ Loading)
    BY <2>2 DEF PageInv
  <2> QED
    BY <2>2, <2>3, <2>4, <2>5, <2>6 DEF PageInv
<1>3. CASE AnswerStep
  <2>1. PICK r \in Request : AnswerTo(r)
    BY <1>3 DEF AnswerStep
  <2>2. \A o \in Request : Working(o)' => Working(o) /\ o # r
    BY <2>1, OpenFields DEF AnswerTo, Working
  <2>3. Regime' => Regime
    BY <2>1 DEF AnswerTo, Regime
  <2>4. Loading' <=> Loading
    BY <2>1 DEF AnswerTo, Loading
  <2>5. Busy \subseteq Request
    BY DEF Busy
  <2> QED
    BY <2>1, <2>2, <2>3, <2>4, <2>5 DEF PageInv, AnswerTo
<1>4. CASE Leaves
  BY <1>4 DEF Leaves, PageInv, Regime
<1>5. ASSUME UNCHANGED <<configVars, awaits>>
      PROVE  Busy' = Busy /\ \A r \in Request : Working(r)' <=> Working(r)
  BY <1>5 DEF configVars, Busy, Working
<1>6. CASE Opens
  <2>1. Busy = {}
    BY <1>6 DEF Opens, PageInv
  <2>2. Busy' = {} /\ \A r \in Request : Working(r)' <=> Working(r)
    BY <1>5, <1>6, <2>1 DEF Opens
  <2> QED
    BY <1>6, <2>2 DEF Opens, PageInv, Regime
<1>7. CASE Reads
  BY <1>5, <1>7 DEF Reads, PageInv, Regime, configVars
<1>8. CASE ListArrives
  BY <1>5, <1>8 DEF ListArrives, PageInv, Regime, Loading, configVars
<1>9. CASE FormStep
  BY <1>9 DEF FormStep, PageInv, Regime, Loading, configVars, Working
<1> QED
  BY <1>1, <1>u, <1>2, <1>3, <1>4, <1>6, <1>7, <1>8, <1>9, PageSteps

(* A list that has come is changed by the answers to what is sent and      *)
(* applied, and by nothing else.                                           *)
Listed == Regime /\ ~Loading
Arrived == Busy = {} /\ Busy' = {} /\ shown' = List(rows) /\ UNCHANGED <<configVars, form, listing>>

LEMMA ListedSteps ==
    ASSUME Base, PageInv, [Next]_vars, Listed'
    PROVE  Arrived \/ (Listed /\ (SentStep \/ WorkStep \/ AnswerStep \/ FormStep))
<1>1. CASE SentStep
  <2>0. PICK r \in Request : \E q, t, use, old : SentTo(r, q, t, use, old)
    BY <1>1 DEF SentStep
  <2>1. PICK q, t, use, old : SentTo(r, q, t, use, old)
    BY <2>0
  <2>2. UNCHANGED <<screen, load>> /\ (~doubt'.list => ~doubt.list /\ ~Loading)
    BY <2>1, SentPage
  <2> QED
    BY <1>1, <2>2 DEF Listed, Regime
<1>u. CASE UnsetStep
  <2>1. doubt'.list
    BY <1>u, BaseHas DEF UnsetStep, UnsetTo, PageTypeOK
  <2> QED
    BY <2>1 DEF Listed, Regime
<1>2. CASE WorkStep
  BY <1>2 DEF WorkStep, pageVars, countVars, Listed, Regime, Loading
<1>3. CASE AnswerStep
  <2>1. Listed
    BY <1>3 DEF AnswerStep, AnswerTo, Listed, Regime, Loading
  <2> QED
    BY <1>3, <2>1
<1>4. CASE Leaves \/ Opens \/ Reads
  BY <1>4 DEF Leaves, Opens, Reads, Listed, Regime, Loading
<1>5. CASE ListArrives
  <2>1. screen = "authenticated" /\ ~doubt.list /\ load.at = "answered" /\ shown' = load.items
        /\ UNCHANGED <<configVars, form, listing>> /\ UNCHANGED awaits
    BY <1>5 DEF ListArrives, Listed, Regime
  <2>2. Busy = {} /\ load.items = List(rows)
    BY <2>1 DEF PageInv, Regime, Loading
  <2>3. Busy' = {}
    BY <2>1, <2>2 DEF Busy
  <2> QED
    BY <2>1, <2>2, <2>3 DEF Arrived
<1>6. CASE FormStep
  BY <1>6 DEF FormStep, Listed, Regime, Loading
<1> QED
  BY <1>1, <1>u, <1>2, <1>3, <1>4, <1>5, <1>6, PageSteps

(* A change of this kind has been made, and its answer is awaited. *)
Made(r, op) == r \in Busy /\ tx[r].op = op /\ tx[r].at = "ok"
Known(c) == c \in Shown \/ c \notin Stored
KnownThen(c) == c \in Shown' \/ c \notin Stored'

(* What is stored and not shown, or shown and not stored, is in an answer  *)
(* on its way.                                                             *)
SetInv ==
    /\ \A c \in Stored \ Shown : \E r \in Request : Made(r, "create") /\ tx[r].id = c
    /\ \A c \in Shown \ Stored : \E r \in Request : Made(r, "delete") /\ tx[r].id = c
    /\ \A r \in Request : Made(r, "create") => tx[r].id \in Stored \ Shown
    /\ \A r, o \in Request : Made(r, "create") /\ Made(o, "create") /\ tx[r].id = tx[o].id => r = o
    /\ \A r \in Request : Made(r, "delete") => tx[r].id \notin Stored
    /\ \A r \in Busy : tx[r].op \in {"update", "delete"} => Known(tx[r].id)
    /\ form # None => Known(form.id)
    /\ listing # None => Known(listing.id)

LEMMA ShownHas ==
    ASSUME Base
    PROVE  /\ Shown \subseteq Config /\ Stored \subseteq Config /\ Busy \subseteq Request
           /\ \A c \in Stored \cup Shown : c \in Nat /\ c <= born
           /\ \A r \in Request : tx[r].id \in Nat /\ tx[r].id <= born
           /\ form # None => form.id \in Nat /\ form.id <= born
           /\ listing # None => listing.id \in Nat /\ listing.id <= born
<1>1. /\ form # None => form.id \in Config
      /\ listing # None => listing.id \in Config
  BY BaseHas DEF PageTypeOK, Form
<1> QED
  BY <1>1, BaseHas, StoredRows DEF Base, RowInv, PageIds, Shown, Busy

LEMMA ListShows ==
    ASSUME Base, shown' = List(rows), UNCHANGED rows
    PROVE  Shown' = Stored' /\ Stored' = Stored
BY BaseHas, Lists, Publics DEF Shown, Stored

(* A statement changes what is stored by at most the row of its request. *)
LEMMA SetWork ==
    ASSUME Base, PageInv, SetInv, Regime, NEW r \in Request, NEW t, Worked(r, t),
           UNCHANGED <<pageVars, countVars>>
    PROVE  SetInv'
<1>0. Sound /\ Apart
  BY BaseHas
<1>1. /\ Working(r) /\ tx'[r] = t /\ (\A o \in Request \ {r} : tx'[o] = tx[o])
      /\ t.op = tx[r].op /\ (t.id = tx[r].id \/ CreatedTo(r, t))
  BY <1>0, WorkedTx DEF Keeps
<1>2. Shown' = Shown /\ Busy' = Busy /\ UNCHANGED <<form, listing>>
  BY DEF pageVars, Shown, Busy
<1>3. r \in Busy /\ tx[r].at # "ok"
  BY <1>1 DEF PageInv, Working
<1>4. \A o \in Request \ {r} : (Made(o, "create")' <=> Made(o, "create"))
                               /\ (Made(o, "delete")' <=> Made(o, "delete"))
  BY <1>1, <1>2 DEF Made
<1>5. ~Made(r, "create") /\ ~Made(r, "delete")
  BY <1>3 DEF Made
<1>6. CASE CreatedTo(r, t)
  <2>1. /\ t.id = born + 1 /\ t.op = "create" /\ t.at = "ok"
        /\ Stored' = Stored \cup {t.id} /\ t.id \notin Stored
    BY <1>1, <1>6, CreatedTable DEF CreatedTo, Commits
  <2>2. /\ t.id \notin Shown /\ \A o \in Request : tx[o].id # t.id
        /\ form # None => form.id # t.id
        /\ listing # None => listing.id # t.id
    BY <2>1, ShownHas, BaseHas
  <2>3. Made(r, "create")' /\ ~Made(r, "delete")' /\ tx'[r].id = t.id
    BY <1>1, <1>2, <1>3, <2>1 DEF Made
  <2>4. \A c \in Stored' \ Shown' : \E o \in Request : Made(o, "create")' /\ tx'[o].id = c
    BY <1>1, <1>2, <1>4, <1>5, <2>1, <2>3 DEF SetInv
  <2>5. \A c \in Shown' \ Stored' : \E o \in Request : Made(o, "delete")' /\ tx'[o].id = c
    BY <1>1, <1>2, <1>4, <1>5, <2>1 DEF SetInv
  <2>6. \A o \in Request : Made(o, "create")' => tx'[o].id \in Stored' \ Shown'
    BY <1>1, <1>2, <1>4, <2>1, <2>2 DEF SetInv
  <2>7. \A o, p \in Request : Made(o, "create")' /\ Made(p, "create")' /\ tx'[o].id = tx'[p].id => o = p
    BY <1>1, <1>4, <2>2 DEF SetInv
  <2>8. \A o \in Request : Made(o, "delete")' => tx'[o].id \notin Stored'
    BY <1>1, <1>4, <2>1, <2>2, <2>3 DEF SetInv
  <2>9. \A c : c # t.id /\ Known(c) => KnownThen(c)
    BY <1>2, <2>1 DEF Known, KnownThen
  <2>10. /\ \A o \in Busy' : tx'[o].op \in {"update", "delete"} => KnownThen(tx'[o].id)
         /\ form' # None => KnownThen(form'.id)
         /\ listing' # None => KnownThen(listing'.id)
    <3>1. \A o \in Busy' : tx'[o].op \in {"update", "delete"} => o # r /\ tx'[o] = tx[o] /\ o \in Busy
      BY <1>1, <1>2, <2>1, ShownHas
    <3>2. \A o \in Busy' : tx'[o].op \in {"update", "delete"} => Known(tx'[o].id) /\ tx'[o].id # t.id
      BY <2>2, <3>1, ShownHas DEF SetInv
    <3>3. /\ form' # None => Known(form'.id) /\ form'.id # t.id
          /\ listing' # None => Known(listing'.id) /\ listing'.id # t.id
      BY <1>2, <2>2 DEF SetInv
    <3> QED
      BY <2>9, <3>2, <3>3
  <2> QED
    BY <2>4, <2>5, <2>6, <2>7, <2>8, <2>10 DEF SetInv, Known, KnownThen
<1>7. CASE DeletedTo(r, t)
  <2>1. /\ t.id = tx[r].id /\ t.op = "delete" /\ t.at = "ok"
        /\ Stored' = Stored \ {t.id} /\ t.id \in Stored
    <3>1. t.id = tx[r].id /\ t.op = "delete" /\ t.at = "ok"
      BY <1>1, <1>7 DEF DeletedTo, Commits
    <3> QED
      BY <1>7, <3>1, DeletedTable
  <2>2. t.id \in Shown
    BY <1>1, <1>3, <2>1 DEF SetInv, Known
  <2>3. Made(r, "delete")' /\ ~Made(r, "create")' /\ tx'[r].id = t.id
    BY <1>1, <1>2, <1>3, <2>1 DEF Made
  <2>4. \A c \in Stored' \ Shown' : \E o \in Request : Made(o, "create")' /\ tx'[o].id = c
    BY <1>1, <1>2, <1>4, <1>5, <2>1 DEF SetInv
  <2>5. \A c \in Shown' \ Stored' : \E o \in Request : Made(o, "delete")' /\ tx'[o].id = c
    BY <1>1, <1>2, <1>4, <1>5, <2>1, <2>3 DEF SetInv
  <2>6. \A o \in Request : Made(o, "create")' => tx'[o].id \in Stored' \ Shown'
    BY <1>1, <1>2, <1>4, <2>1, <2>2, <2>3 DEF SetInv
  <2>7. \A o, p \in Request : Made(o, "create")' /\ Made(p, "create")' /\ tx'[o].id = tx'[p].id => o = p
    BY <1>1, <1>4, <2>3 DEF SetInv
  <2>8. \A o \in Request : Made(o, "delete")' => tx'[o].id \notin Stored'
    BY <1>1, <1>4, <2>1 DEF SetInv
  <2>9. \A c : Known(c) => KnownThen(c)
    BY <1>2, <2>1 DEF Known, KnownThen
  <2>10. /\ \A o \in Busy' : tx'[o].op \in {"update", "delete"} => KnownThen(tx'[o].id)
         /\ form' # None => KnownThen(form'.id)
         /\ listing' # None => KnownThen(listing'.id)
    <3>1. \A o \in Busy' : /\ tx'[o].op = tx[o].op /\ tx'[o].id = tx[o].id /\ o \in Busy
      BY <1>1, <1>2, <2>1, ShownHas
    <3> QED
      BY <1>2, <2>9, <3>1 DEF SetInv
  <2> QED
    BY <2>4, <2>5, <2>6, <2>7, <2>8, <2>10 DEF SetInv, Known, KnownThen
<1>8. CASE Stored' = Stored /\ ~CreatedTo(r, t)
           /\ ~(t.at = "ok" /\ t.op \in {"create", "delete"})
  <2>1. ~Made(r, "create")' /\ ~Made(r, "delete")'
    BY <1>1, <1>8 DEF Made
  <2>2. \A o \in Request : /\ tx'[o].op = tx[o].op /\ tx'[o].id = tx[o].id
                           /\ Made(o, "create")' <=> Made(o, "create")
                           /\ Made(o, "delete")' <=> Made(o, "delete")
    BY <1>1, <1>4, <1>5, <1>8, <2>1
  <2>3. \A c : KnownThen(c) <=> Known(c)
    BY <1>2, <1>8 DEF Known, KnownThen
  <2>4. \A o \in Busy' : tx'[o].op \in {"update", "delete"} => KnownThen(tx'[o].id)
    BY <1>2, <2>2, <2>3, ShownHas DEF SetInv
  <2> QED
    BY <1>2, <1>8, <2>2, <2>3, <2>4 DEF SetInv, Known, KnownThen
<1>9. CASE UpdatedTo(r, t)
  <2>1. Stored' = Stored /\ t.op = "update"
    BY <1>1, <1>9, UpdatedTable DEF UpdatedTo
  <2> QED
    BY <1>8, <1>9, <2>1 DEF CreatedTo, UpdatedTo
<1>10. CASE CountedTo(r, t) \/ ReadTo(r, t) \/ ClearedTo(r, t) \/ ClearedRowTo(r, t)
           \/ RemovedTo(r, t) \/ FoundTo(r, t) \/ Refused(r, t)
  <2>1. rows' = rows
    BY <1>10 DEF CountedTo, ReadTo, ClearedTo, ClearedRowTo, RemovedTo, FoundTo, Refused, Local
  <2>2. t.at # "ok"
    BY <1>1, <1>10 DEF CountedTo, ReadTo, ClearedTo, ClearedRowTo, RemovedTo, FoundTo, Refused
  <2> QED
    BY <1>8, <2>1, <2>2 DEF Stored, CreatedTo, Commits
<1> QED
  BY <1>6, <1>7, <1>9, <1>10 DEF Worked

(* An answer that arrives settles what was made by its request. *)
LEMMA SetAnswer ==
    ASSUME Base, PageInv, SetInv, NEW r \in Request, AnswerTo(r), ~doubt'.list
    PROVE  SetInv'
<1>0. Sound /\ PageTypeOK /\ Busy \subseteq Request /\ Shown \subseteq Config
  BY BaseHas, ShownHas
<1>1. /\ tx'[r] = Open /\ (\A o \in Request \ {r} : tx'[o] = tx[o])
      /\ Busy' = Busy \ {r} /\ UNCHANGED <<rows, listing>> /\ form' \in {None, form}
      /\ shown' = IF tx[r].at = "ok" /\ r \in Busy THEN Applied(r) ELSE shown
  BY DEF AnswerTo
<1>2. Stored' = Stored
  BY <1>1 DEF Stored
<1>3. \A o \in Request : /\ Made(o, "create")' <=> o # r /\ Made(o, "create")
                         /\ Made(o, "delete")' <=> o # r /\ Made(o, "delete")
  BY <1>1 DEF Made
<1>4. Shown' = IF Made(r, "create") THEN Shown \cup {tx[r].id}
               ELSE IF Made(r, "delete") THEN Shown \ {tx[r].id} ELSE Shown
  <2>1. CASE tx[r].at = "ok" /\ r \in Busy
    <3>1. shown' = Applied(r) /\ tx[r].op # "none" /\ tx[r].op \in {"none", "create", "update", "delete"}
      BY <1>0, <1>1, <2>1 DEF PageInv, Sound, ConfigTypeOK, Tx
    <3>2. CASE tx[r].op = "create"
      <4>1. tx[r].id \in Config /\ Public(tx[r].existing) # None
        <5>1. tx[r].id \in Stored
          BY <2>1, <3>2 DEF SetInv, Made
        <5>2. tx[r].existing \in Row
          BY <2>1, <3>2, BaseHas DEF WellFormed
        <5> QED
          BY <5>1, <5>2, Publics, ShownHas, AccountAssumption
      <4>2. \A c \in Config : shown'[c] = IF c = tx[r].id THEN Public(tx[r].existing) ELSE shown[c]
        BY <1>0, <2>1, <3>1, <3>2, AppliedItems, AfterItems
      <4> QED
        BY <2>1, <3>2, <4>1, <4>2 DEF Shown, Made
    <3>3. CASE tx[r].op = "delete"
      <4>1. \A c \in Config : shown'[c] = IF c = tx[r].id THEN None ELSE shown[c]
        BY <1>0, <2>1, <3>1, <3>3, AppliedItems, AfterItems
      <4> QED
        BY <2>1, <3>3, <4>1 DEF Shown, Made
    <3>4. CASE tx[r].op = "update"
      <4>1. \A c \in Config : shown'[c] = None <=> shown[c] = None
        <5>1. Public(tx[r].existing) # None
          BY <2>1, <3>4, BaseHas, Publics, AccountAssumption DEF WellFormed
        <5> QED
          BY <1>0, <2>1, <3>1, <3>4, <5>1, AppliedItems, AfterItems, AccountAssumption
      <4> QED
        BY <3>4, <4>1 DEF Shown, Made
    <3> QED
      BY <3>1, <3>2, <3>3, <3>4
  <2>2. CASE ~(tx[r].at = "ok" /\ r \in Busy)
    BY <1>1, <2>2 DEF Shown, Made
  <2> QED
    BY <2>1, <2>2
<1>5. \A o \in Request : o # r => tx'[o].id = tx[o].id /\ tx'[o].op = tx[o].op
  BY <1>1
<1>6. \A c \in Stored' \ Shown' : \E o \in Request : Made(o, "create")' /\ tx'[o].id = c
  BY <1>2, <1>3, <1>4, <1>5 DEF SetInv, Made
<1>7. \A c \in Shown' \ Stored' : \E o \in Request : Made(o, "delete")' /\ tx'[o].id = c
  BY <1>2, <1>3, <1>4, <1>5 DEF SetInv, Made
<1>8. \A o \in Request : Made(o, "create")' => tx'[o].id \in Stored' \ Shown'
  BY <1>2, <1>3, <1>4, <1>5 DEF SetInv
<1>9. \A o, p \in Request : Made(o, "create")' /\ Made(p, "create")' /\ tx'[o].id = tx'[p].id => o = p
  BY <1>3, <1>5 DEF SetInv
<1>10. \A o \in Request : Made(o, "delete")' => tx'[o].id \notin Stored'
  BY <1>2, <1>3, <1>5 DEF SetInv
<1>11. \A c : Known(c) => KnownThen(c)
  BY <1>2, <1>4 DEF Known, KnownThen, SetInv
<1>12. /\ \A o \in Busy' : tx'[o].op \in {"update", "delete"} => KnownThen(tx'[o].id)
       /\ form' # None => KnownThen(form'.id)
       /\ listing' # None => KnownThen(listing'.id)
  BY <1>0, <1>1, <1>5, <1>11 DEF SetInv
<1> QED
  BY <1>6, <1>7, <1>8, <1>9, <1>10, <1>12 DEF SetInv, Known, KnownThen

LEMMA SetNext ==
    ASSUME Base, PageInv, Listed => SetInv, [Next]_vars, Listed'
    PROVE  SetInv'
<1>1. CASE Arrived
  <2>1. Shown' = Stored' /\ Busy' = {}
    BY <1>1, ListShows DEF Arrived, configVars
  <2> QED
    BY <2>1 DEF SetInv, Made, Known
<1>2. CASE Listed /\ SentStep
  <2>0. PICK r \in Request : \E q, t, use, old : SentTo(r, q, t, use, old)
    BY <1>2 DEF SentStep
  <2>1. PICK q, t, use, old : SentTo(r, q, t, use, old)
    BY <2>0
  <2>2. /\ r \notin Busy /\ Busy' = Busy \cup {r}
        /\ tx'[r] = t /\ t.at = "begun"
        /\ \A o \in Request \ {r} :
             tx'[o].at = tx[o].at /\ tx'[o].op = tx[o].op /\ tx'[o].id = tx[o].id
        /\ UNCHANGED <<rows, shown, form, listing>>
    BY <2>1, SentPage
  <2>3. Stored' = Stored /\ Shown' = Shown
    BY <2>2 DEF Stored, Shown
  <2>4. \A o \in Request : /\ Made(o, "create")' <=> o # r /\ Made(o, "create")
                           /\ Made(o, "delete")' <=> o # r /\ Made(o, "delete")
    BY <2>2 DEF Made
  <2>5. ~Made(r, "create") /\ ~Made(r, "delete")
    BY <2>2 DEF Made
  <2>6. t.op \in {"update", "delete"} => Known(t.id)
    BY <1>2, <2>1 DEF SentTo, SetInv, Known
  <2>7. \A c : Known(c) <=> KnownThen(c)
    BY <2>3 DEF Known, KnownThen
  <2>8. \A o \in Busy' : tx'[o].op \in {"update", "delete"} => KnownThen(tx'[o].id)
    BY <1>2, <2>2, <2>6, <2>7, ShownHas DEF SetInv
  <2>9. /\ form' # None => KnownThen(form'.id)
        /\ listing' # None => KnownThen(listing'.id)
    BY <1>2, <2>2, <2>7 DEF SetInv
  <2>10. \A o \in Request \ {r} : tx'[o].id = tx[o].id
    BY <2>2
  <2>11. /\ \A c \in Stored' \ Shown' : \E o \in Request : Made(o, "create")' /\ tx'[o].id = c
         /\ \A c \in Shown' \ Stored' : \E o \in Request : Made(o, "delete")' /\ tx'[o].id = c
    BY <1>2, <2>3, <2>4, <2>5, <2>10 DEF SetInv
  <2>12. /\ \A o \in Request : Made(o, "create")' => tx'[o].id \in Stored' \ Shown'
         /\ \A o, p \in Request : Made(o, "create")' /\ Made(p, "create")' /\ tx'[o].id = tx'[p].id => o = p
         /\ \A o \in Request : Made(o, "delete")' => tx'[o].id \notin Stored'
    BY <1>2, <2>3, <2>4, <2>10 DEF SetInv
  <2> QED
    BY <2>8, <2>9, <2>11, <2>12 DEF SetInv, Known, KnownThen
<1>3. CASE Listed /\ WorkStep
  BY <1>3, SetWork DEF WorkStep, Listed
<1>4. CASE Listed /\ AnswerStep
  BY <1>4, SetAnswer DEF AnswerStep, Listed, Regime
<1>5. CASE Listed /\ FormStep
  <2>1. /\ Stored' = Stored /\ Shown' = Shown /\ tx' = tx
        /\ \A o \in Request : /\ Made(o, "create")' <=> Made(o, "create")
                              /\ Made(o, "delete")' <=> Made(o, "delete")
    BY <1>5 DEF FormStep, configVars, Stored, Shown, Made
  <2>2. \A c : Known(c) <=> KnownThen(c)
    BY <2>1 DEF Known, KnownThen
  <2>3. \A f : FromPage(f) /\ f # None => Known(f.id)
    BY <1>5 DEF FromPage, SetInv, Known
  <2>4. /\ form' # None => KnownThen(form'.id)
        /\ listing' # None => KnownThen(listing'.id)
    BY <1>5, <2>2, <2>3 DEF FormStep
  <2>5. \A o \in Busy' : tx'[o].op \in {"update", "delete"} => KnownThen(tx'[o].id)
    BY <1>5, <2>1, <2>2 DEF FormStep, SetInv
  <2> QED
    BY <1>5, <2>1, <2>4, <2>5 DEF SetInv, Known, KnownThen
<1> QED
  BY <1>1, <1>2, <1>3, <1>4, <1>5, ListedSteps

(* A list that agrees with a table, up to the mark when a default has been *)
(* deleted.                                                                *)
Same(view, table, marks) ==
    \A c \in Config :
      /\ view[c] = None <=> table[c] = None
      /\ table[c] # None => /\ view[c].baseUrl = table[c].baseUrl
                            /\ marks => view[c].isDefault = table[c].isDefault

(* With one change under way at most, the list agrees with the table once  *)
(* its answer has arrived, and what the request is to do was decided from  *)
(* the table as it is.                                                     *)
View(r) == IF tx[r].at = "ok" THEN Applied(r) ELSE shown
Decided(t) ==
    /\ t.op = "create" /\ t.at \in {"begun", "clear", "clearing", "create"} /\ t.isDefault => Stored = {}
    /\ t.op = "delete" /\ ~doubt.promoted /\ t.at # "ok" =>
         /\ t.id \in Stored => ~rows[t.id].isDefault
         /\ t.at \notin {"find", "promote"}
         /\ t.at = "delete" => t.existing = rows[t.id]

SameInv ==
    /\ \A r, o \in Busy : r = o
    /\ Busy = {} => Same(shown, rows, ~doubt.promoted)
    /\ \A r \in Busy : Same(View(r), rows, ~doubt.promoted) /\ Decided(tx[r])

Uncrossed == Listed /\ ~doubt.crossed

LEMMA SameStored ==
    ASSUME Base, NEW marks, Same(shown, rows, marks)
    PROVE  Shown = Stored
BY DEF Same, Shown, Stored

(* A committed change and its answer do the same to the table and to the list. *)
LEMMA SameCommit ==
    ASSUME Base, Base', PageInv, Regime, SameInv, NEW r \in Request, NEW t, Worked(r, t),
           UNCHANGED <<pageVars, countVars>>, r \in Busy, tx[r].at # "ok",
           CreatedTo(r, t) \/ UpdatedTo(r, t) \/ DeletedTo(r, t)
    PROVE  t.at = "ok" /\ Same(View(r)', rows', ~doubt'.promoted)
<1> DEFINE marks == ~doubt.promoted
<1>0. Sound /\ Apart /\ Sound' /\ PageTypeOK'
  BY BaseHas, PTL
<1>1. /\ tx'[r] = t /\ t.op = tx[r].op /\ WellFormed(tx[r]) /\ UNCHANGED <<shown, doubt>>
  BY <1>0, BaseHas, WorkedTx DEF Keeps, pageVars, countVars
<1>2. t.at = "ok" /\ t.existing = rows'[t.id] /\ t.id \in Config /\ rows' \in [Config -> Row \cup {None}]
  BY BaseHas, StoredRows DEF CreatedTo, UpdatedTo, DeletedTo, Commits
<1>3. Same(shown, rows, marks) /\ Decided(tx[r])
  BY DEF SameInv, View
<1>4. /\ View(r)' = Applied(r)' /\ tx'[r].at = "ok"
      /\ tx'[r].op = t.op /\ tx'[r].id = t.id /\ tx'[r].existing = rows'[t.id]
  BY <1>1, <1>2 DEF View
<1>5. shown' \in Items
  BY <1>0 DEF PageTypeOK
<1>9. Applied(r)' = After(shown, tx'[r]) /\ shown \in Items
  BY <1>1, <1>5, AppliedIsAfter
<1>6. CASE CreatedTo(r, t)
  <2>1. t.op = "create" /\ rows'[t.id] \in Row
    BY <1>1, <1>6 DEF CreatedTo
  <2>2. \A c \in Config : Applied(r)'[c] = IF c = t.id THEN Public(rows'[t.id]) ELSE shown[c]
    BY <1>4, <1>9, <2>1, AfterItems
  <2>3. \A c \in Config \ {t.id} : Left(r, c)
    BY <1>6 DEF CreatedTo
  <2>4. \A c \in Config : c # t.id /\ rows[c] # None => rows'[c].isDefault = rows[c].isDefault
    <3>1. CASE tx[r].isDefault
      BY <1>3, <1>6, <3>1, StoredRows, <1>0 DEF Decided, CreatedTo
    <3>2. CASE ~tx[r].isDefault
      <4>1. tx[r].wrote = {}
        BY <1>1, <1>6, <3>2 DEF CreatedTo, WellFormed
      <4> QED
        BY <2>3, <4>1 DEF Left
    <3> QED
      BY <3>1, <3>2
  <2>5. /\ Public(rows'[t.id]).baseUrl = rows'[t.id].baseUrl
        /\ Public(rows'[t.id]).isDefault = rows'[t.id].isDefault
        /\ Public(rows'[t.id]) # None /\ rows'[t.id] # None
    BY <2>1, Publics, AccountAssumption
  <2>6. Same(Applied(r)', rows', marks)
    BY <1>3, <2>2, <2>3, <2>4, <2>5 DEF Same, Left
  <2> QED
    BY <1>1, <1>2, <1>4, <2>6
<1>7. CASE UpdatedTo(r, t)
  <2>1. t.op = "update" /\ rows'[t.id] \in Row /\ t.id \in Stored
    BY <1>1, <1>7 DEF UpdatedTo
  <2>2. \A c \in Config \ {t.id} : Left(r, c)
    BY <1>7 DEF UpdatedTo
  <2>3. /\ Public(rows'[t.id]).baseUrl = rows'[t.id].baseUrl
        /\ Public(rows'[t.id]).isDefault = rows'[t.id].isDefault
        /\ Public(rows'[t.id]) # None /\ rows'[t.id] # None /\ rows'[t.id].isDefault \in BOOLEAN
    BY <2>1, Publics, AccountAssumption DEF Row
  <2>4. \A c \in Config :
          /\ shown[c] = None => Applied(r)'[c] = None
          /\ shown[c] # None /\ c = t.id => Applied(r)'[c] = Public(rows'[t.id])
          /\ shown[c] # None /\ c # t.id =>
               /\ Applied(r)'[c] # None /\ Applied(r)'[c].baseUrl = shown[c].baseUrl
               /\ Applied(r)'[c].isDefault = (shown[c].isDefault /\ ~rows'[t.id].isDefault)
    BY <1>4, <1>9, <2>1, AfterItems, AccountAssumption
  <2>5. \A c \in Config : c # t.id /\ rows[c] # None => /\ rows'[c] # None
                                                  /\ rows'[c].baseUrl = rows[c].baseUrl
    BY <2>2 DEF Left
  <2>6. \A c \in Config : c # t.id /\ rows[c] # None /\ marks =>
          rows'[c].isDefault = (shown[c].isDefault /\ ~rows'[t.id].isDefault)
    <3> TAKE c \in Config
    <3> SUFFICES ASSUME c # t.id, rows[c] # None, marks
                 PROVE  rows'[c].isDefault = (shown[c].isDefault /\ ~rows'[t.id].isDefault)
      OBVIOUS
    <3>1. rows'[c] \in Row /\ rows'[c].isDefault \in BOOLEAN /\ shown[c].isDefault = rows[c].isDefault
          /\ rows[c].isDefault \in BOOLEAN
      BY <1>0, <1>3, <2>2, StoredRows DEF Same, Left, Row
    <3>2. CASE rows'[t.id].isDefault
      <4>1. t.id \in Defaults' /\ (rows'[c].isDefault => c \in Defaults')
        BY <1>2, <2>3, <2>5, <3>2 DEF Defaults, Stored
      <4>2. \A a, b \in Defaults' : a = b
        BY DEF Base, RowInv
      <4> QED
        BY <3>1, <3>2, <4>1, <4>2
    <3>3. CASE ~rows'[t.id].isDefault
      <4>1. ~tx[r].isDefault /\ tx[r].wrote = {}
        BY <1>7, <3>3 DEF UpdatedTo
      <4>2. rows'[c].isDefault = rows[c].isDefault
        BY <2>2, <4>1 DEF Left
      <4> QED
        BY <3>1, <3>3, <4>2
    <3> QED
      BY <3>2, <3>3, <2>3
  <2>7. \A c \in Config : rows'[c] = None <=> rows[c] = None
    BY <1>2, <2>1, <2>2, <2>3, StoredRows, <1>0 DEF Left
  <2>8. shown[t.id] # None /\ \A c \in Config : shown[c] = None <=> rows[c] = None
    BY <1>0, <1>2, <1>3, <2>1, StoredRows DEF Same
  <2>9. \A c \in Config : rows[c] # None => shown[c].baseUrl = rows[c].baseUrl
    BY <1>3 DEF Same
  <2>10. Same(Applied(r)', rows', marks)
    BY <2>3, <2>4, <2>5, <2>6, <2>7, <2>8, <2>9 DEF Same
  <2> QED
    BY <1>1, <1>2, <1>4, <2>10
<1>8. CASE DeletedTo(r, t)
  <2>1. t.op = "delete" /\ t.id = tx[r].id /\ rows'[t.id] = None
    BY <1>1, <1>8 DEF DeletedTo
  <2>2. \A c \in Config : Applied(r)'[c] = IF c = t.id THEN None ELSE shown[c]
    BY <1>4, <1>9, <2>1, AfterItems
  <2>3. /\ Stored' = Stored \ {t.id} /\ t.id \in Stored
        /\ \A c \in Stored' : rows'[c].baseUrl = rows[c].baseUrl
        /\ tx[r].at \notin {"promote", "find"} => \A c \in Stored' : rows'[c] = rows[c]
    BY <1>8, DeletedTable
  <2>4. \A c \in Config : rows'[c] # None => c \in Stored' /\ c # t.id /\ rows[c] # None
    BY <2>3 DEF Stored
  <2>5. \A c \in Config : c # t.id /\ rows[c] # None => rows'[c] # None
    BY <2>3 DEF Stored
  <2>6. marks => tx[r].at \notin {"promote", "find"}
    BY <1>1, <1>3, <2>1 DEF Decided
  <2>7. Same(Applied(r)', rows', marks)
    BY <1>3, <2>1, <2>2, <2>3, <2>4, <2>5, <2>6 DEF Same
  <2> QED
    BY <1>1, <1>2, <1>4, <2>7
<1> QED
  BY <1>6, <1>7, <1>8

LEMMA SameWork ==
    ASSUME Base, Base', PageInv, Regime, SameInv, NEW r \in Request, NEW t, Worked(r, t),
           UNCHANGED <<pageVars, countVars>>
    PROVE  SameInv'
<1>0. Sound /\ Apart
  BY BaseHas
<1>1. /\ Working(r) /\ tx'[r] = t /\ t.op = tx[r].op /\ UNCHANGED <<shown, doubt>> /\ Busy' = Busy
      /\ WellFormed(tx[r]) /\ WellFormed(t)
  BY <1>0, BaseHas, WorkedTx DEF Keeps, pageVars, countVars, Busy
<1>2. r \in Busy /\ tx[r].at # "ok" /\ (\A o \in Busy : o = r) /\ Busy # {}
  BY <1>1 DEF PageInv, Working, SameInv
<1>3. Same(shown, rows, ~doubt.promoted) /\ Decided(tx[r])
  BY <1>2 DEF SameInv, View
<1>4. CASE CreatedTo(r, t) \/ UpdatedTo(r, t) \/ DeletedTo(r, t)
  <2>1. t.at = "ok" /\ Same(View(r)', rows', ~doubt'.promoted)
    BY <1>2, <1>4, SameCommit
  <2>2. Decided(t)'
    BY <2>1 DEF Decided
  <2> QED
    BY <1>1, <1>2, <2>1, <2>2 DEF SameInv
<1>5. CASE Local(r, t) /\ t.at # "ok"
  <2>1. rows' = rows /\ t.id = tx[r].id
    BY <1>5 DEF Local
  <2>2. View(r)' = shown
    BY <1>1, <1>5 DEF View
  <2>3. Stored' = Stored
    BY <2>1 DEF Stored
  <2>4. t.op = "create" /\ t.at \in {"begun", "clear", "clearing", "create"} /\ t.isDefault => Stored = {}
    <3>1. CASE CountedTo(r, t)
      BY <1>1, <1>3, <3>1 DEF CountedTo, Decided
    <3>2. CASE ReadTo(r, t) \/ RemovedTo(r, t) \/ FoundTo(r, t)
      BY <1>1, <3>2 DEF ReadTo, RemovedTo, FoundTo
    <3>3. CASE ClearedTo(r, t) \/ ClearedRowTo(r, t)
      BY <1>1, <1>3, <3>3 DEF ClearedTo, ClearedRowTo, Decided
    <3>4. CASE Refused(r, t)
      BY <3>4 DEF Refused
    <3>5. CASE CreatedTo(r, t) \/ UpdatedTo(r, t) \/ DeletedTo(r, t)
      BY <1>5, <3>5 DEF CreatedTo, UpdatedTo, DeletedTo, Commits
    <3> QED
      BY <3>1, <3>2, <3>3, <3>4, <3>5 DEF Worked
  <2>5. t.op = "delete" /\ ~doubt.promoted =>
          /\ t.id \in Stored => ~rows[t.id].isDefault
          /\ t.at \notin {"find", "promote"}
          /\ t.at = "delete" => t.existing = rows[t.id]
    <3> SUFFICES ASSUME t.op = "delete", ~doubt.promoted
                 PROVE  /\ t.at \notin {"find", "promote"}
                        /\ t.at = "delete" => t.existing = rows[t.id]
      BY <1>1, <1>2, <1>3, <2>1 DEF Decided
    <3>1. /\ t.id \in Stored => ~rows[t.id].isDefault
          /\ tx[r].at \notin {"find", "promote"}
          /\ tx[r].at = "delete" => tx[r].existing = rows[t.id]
          /\ t.id \in Config
      BY <1>1, <1>2, <1>3, <2>1 DEF Decided, WellFormed
    <3>2. CASE ReadTo(r, t)
      BY <1>1, <3>2 DEF ReadTo
    <3>3. CASE RemovedTo(r, t)
      BY <3>1, <3>3 DEF RemovedTo, Stored
    <3>4. CASE CountedTo(r, t) \/ ClearedTo(r, t) \/ ClearedRowTo(r, t) \/ FoundTo(r, t)
      BY <1>1, <3>1, <3>4 DEF CountedTo, ClearedTo, ClearedRowTo, FoundTo
    <3>5. CASE Refused(r, t)
      BY <3>5 DEF Refused
    <3>6. CASE CreatedTo(r, t) \/ UpdatedTo(r, t) \/ DeletedTo(r, t)
      BY <1>5, <3>6 DEF CreatedTo, UpdatedTo, DeletedTo, Commits
    <3> QED
      BY <3>2, <3>3, <3>4, <3>5, <3>6 DEF Worked
  <2>6. Decided(t)'
    BY <1>1, <2>1, <2>3, <2>4, <2>5 DEF Decided
  <2> QED
    BY <1>1, <1>2, <1>3, <2>1, <2>2, <2>6 DEF SameInv
<1>6. CASE CountedTo(r, t) \/ ReadTo(r, t) \/ ClearedTo(r, t) \/ ClearedRowTo(r, t)
           \/ RemovedTo(r, t) \/ FoundTo(r, t) \/ Refused(r, t)
  <2>1. Local(r, t) /\ t.at # "ok"
    BY <1>1, <1>6 DEF CountedTo, ReadTo, ClearedTo, ClearedRowTo, RemovedTo, FoundTo, Refused
  <2> QED
    BY <1>5, <2>1
<1> QED
  BY <1>4, <1>6 DEF Worked

LEMMA SameNext ==
    ASSUME Base, Base', PageInv, Uncrossed => SameInv, [Next]_vars, Uncrossed'
    PROVE  SameInv'
<1>0. Sound /\ Apart /\ Busy \subseteq Request
  BY BaseHas, ShownHas
<1>1. CASE Arrived
  <2>1. \A c \in Config : shown'[c] = Public(rows[c]) /\ rows[c] \in Row \cup {None}
    BY <1>0, <1>1, Lists, BaseHas DEF Arrived
  <2>2. rows' = rows /\ Busy' = {}
    BY <1>1 DEF Arrived, configVars
  <2>3. Same(shown', rows', ~doubt'.promoted)
    BY <2>1, <2>2, Publics, ConfigAssumption DEF Same
  <2> QED
    BY <2>2, <2>3 DEF SameInv
<1>2. CASE Listed /\ SentStep
  <2>0. PICK r \in Request : \E q, t, use, old : SentTo(r, q, t, use, old)
    BY <1>2 DEF SentStep
  <2>1. PICK q, t, use, old : SentTo(r, q, t, use, old)
    BY <2>0
  <2>2. /\ Busy' = Busy \cup {r} /\ tx'[r] = t /\ t.at = "begun"
        /\ UNCHANGED <<rows, shown>>
        /\ ~doubt'.crossed => ~doubt.crossed /\ Busy = {}
        /\ ~doubt'.promoted => ~doubt.promoted /\ (t.op = "delete" => ~shown[t.id].isDefault)
    BY <2>1, SentPage
  <2>3. Uncrossed /\ Busy = {} /\ Busy' = {r}
    BY <1>2, <2>2 DEF Uncrossed
  <2>4. Same(shown, rows, ~doubt.promoted)
    BY <2>3 DEF SameInv
  <2>5. Same(shown', rows', ~doubt'.promoted)
    BY <2>2, <2>4 DEF Same
  <2>6. Shown = Stored /\ Stored' = Stored
    BY <2>2, <2>4, SameStored DEF Stored
  <2>7. Decided(t)'
    <3>1. t.op = "create" => t.isDefault = (Shown = {})
      BY <2>1 DEF SentTo
    <3>2. t.op = "delete" /\ ~doubt'.promoted /\ t.id \in Stored' => ~rows'[t.id].isDefault
      BY <2>2, <2>4, <2>6, StoredRows, <1>0 DEF Same
    <3> QED
      BY <2>2, <2>6, <3>1, <3>2 DEF Decided
  <2>8. View(r)' = shown'
    BY <2>2 DEF View
  <2> QED
    BY <2>2, <2>3, <2>5, <2>7, <2>8 DEF SameInv
<1>3. CASE Listed /\ WorkStep
  <2>0. PICK r \in Request : \E t : Worked(r, t) /\ UNCHANGED <<pageVars, countVars>>
    BY <1>3 DEF WorkStep
  <2>1. PICK t : Worked(r, t) /\ UNCHANGED <<pageVars, countVars>>
    BY <2>0
  <2>2. Uncrossed /\ Regime
    BY <1>3, <2>1 DEF Uncrossed, Listed, countVars
  <2> QED
    BY <2>1, <2>2, SameWork
<1>4. CASE Listed /\ AnswerStep
  <2>1. PICK r \in Request : AnswerTo(r)
    BY <1>4 DEF AnswerStep
  <2>2. /\ (\A o \in Request \ {r} : tx'[o] = tx[o]) /\ rows' = rows /\ doubt' = doubt
        /\ Busy' = Busy \ {r}
        /\ shown' = IF tx[r].at = "ok" /\ r \in Busy THEN Applied(r) ELSE shown
    BY <2>1 DEF AnswerTo, Uncrossed, Listed, Regime
  <2>3. Uncrossed /\ SameInv
    BY <1>4, <2>2 DEF Uncrossed
  <2>4. CASE r \in Busy
    <3>1. Busy' = {}
      BY <2>2, <2>3, <2>4 DEF SameInv
    <3>2. shown' = View(r)
      BY <2>2, <2>4 DEF View
    <3>3. Same(shown', rows', ~doubt'.promoted)
      BY <2>2, <2>3, <2>4, <3>2 DEF SameInv
    <3> QED
      BY <3>1, <3>3 DEF SameInv
  <2>5. CASE r \notin Busy
    <3>1. Busy' = Busy /\ shown' = shown
      BY <2>2, <2>5
    <3>2. \A o \in Busy : tx'[o] = tx[o] /\ View(o)' = View(o)
      BY <1>0, <2>2, <2>5, <3>1 DEF View, Applied
    <3>3. \A o \in Busy : Decided(tx[o])' <=> Decided(tx[o])
      BY <2>2, <3>2 DEF Decided, Stored
    <3> QED
      BY <2>2, <2>3, <3>1, <3>2, <3>3 DEF SameInv
  <2> QED
    BY <2>4, <2>5
<1>5. CASE Listed /\ FormStep
  <2>1. UNCHANGED <<rows, tx, shown, doubt>> /\ Busy' = Busy
    BY <1>5 DEF FormStep, configVars
  <2>2. Uncrossed /\ SameInv
    BY <1>5, <2>1 DEF Uncrossed
  <2>3. \A o \in Busy : View(o)' = View(o) /\ (Decided(tx[o])' <=> Decided(tx[o]))
    BY <2>1 DEF View, Applied, Decided, Stored
  <2> QED
    BY <2>1, <2>2, <2>3 DEF SameInv
<1> QED
  BY <1>1, <1>2, <1>3, <1>4, <1>5, ListedSteps DEF Uncrossed

ListInv == PageInv /\ (Listed => SetInv) /\ (Uncrossed => SameInv)

LEMMA ListInit == Init => ListInv
<1> SUFFICES ASSUME Init PROVE ListInv
  OBVIOUS
<1>1. /\ Base /\ rows \in [Config -> Row \cup {None}] /\ tx = [r \in Request |-> Open]
      /\ shown = List(rows) /\ form = None /\ listing = None /\ load = NoLoad
      /\ awaits = [x \in Request \cup Caller |-> "nothing"]
  BY BaseInit, InitRows DEF Init
<1>2. Busy = {} /\ ~Loading
  BY <1>1 DEF Busy, Loading, NoLoad
<1>3. \A r \in Request : ~Working(r)
  BY <1>1, OpenFields DEF Working
<1>4. \A c \in Config : shown[c] = Public(rows[c]) /\ rows[c] \in Row \cup {None}
  BY <1>1, Lists
<1>5. Shown = Stored
  BY <1>4, Publics DEF Shown, Stored
<1>6. SetInv
  BY <1>1, <1>2, <1>5 DEF SetInv, Made
<1>7. Same(shown, rows, ~doubt.promoted)
  BY <1>4, Publics, ConfigAssumption DEF Same
<1> QED
  BY <1>2, <1>3, <1>6, <1>7 DEF ListInv, PageInv, SameInv

LEMMA ListNext ==
    ASSUME Base, Base', ListInv, [Next]_vars
    PROVE  ListInv'
BY PageNext, SetNext, SameNext DEF ListInv

LEMMA ListSays ==
    ASSUME Base, ListInv
    PROVE  ShownIsStored
<1> SUFFICES ASSUME AtRest, ~doubt.list
             PROVE  /\ Shown = Stored
                    /\ ~doubt.crossed => \A c \in Stored : shown[c].baseUrl = rows[c].baseUrl
                    /\ ~doubt.crossed /\ ~doubt.promoted => {c \in Shown : shown[c].isDefault} = Defaults
  BY DEF ShownIsStored
<1>1. Listed
  BY DEF AtRest, Listed, Regime
<1>2. Busy = {}
  BY DEF AtRest, ListInv, PageInv, Busy
<1>3. Shown = Stored
  BY <1>1, <1>2 DEF ListInv, SetInv, Made
<1>4. ~doubt.crossed => Same(shown, rows, ~doubt.promoted)
  BY <1>1, <1>2 DEF ListInv, SameInv, Uncrossed
<1>5. \A c \in Stored : c \in Config /\ rows[c] # None
  BY BaseHas, StoredRows
<1> QED
  BY <1>3, <1>4, <1>5 DEF Same, Defaults

(* Once nothing is under way, the page shows the configurations that are   *)
(* stored, as they are stored and with the mark on the default one, unless *)
(* a list overlapped a change, an answer was lost, answers crossed or the  *)
(* default was deleted.                                                    *)
THEOREM ThePageShowsWhatIsStored == Spec => []ShownIsStored
<1>1. Base /\ Base' /\ ListInv /\ [Next]_vars => ListInv'
  BY ListNext
<1>2. Base /\ ListInv => ShownIsStored
  BY ListSays
<1> QED
  BY <1>1, <1>2, ListInit, BaseAlways, PTL DEF Spec
=============================================================================
