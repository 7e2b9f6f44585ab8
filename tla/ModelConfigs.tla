----------------------------- MODULE ModelConfigs -----------------------------
(***************************************************************************)
(* A user's model configurations (routes/model-configs.ts).  A request     *)
(* works in statements, and PostgreSQL runs them at READ COMMITTED: a      *)
(* statement sees the committed rows and what its own transaction wrote, a *)
(* write waits for the row another open transaction has written, and the   *)
(* partial unique index lets one row per user be the default.  A last      *)
(* statement and its COMMIT are one action: nothing of an uncommitted      *)
(* write can be seen.  What a transaction has written before that is known *)
(* by the rows it holds: a deletion has removed them, the other requests   *)
(* have cleared their mark, and nobody else can change them meanwhile.     *)
(***************************************************************************)
EXTENDS Integers, FiniteSets

CONSTANTS
    Request,    \* requests the API works on at once
    MaxConfig,  \* configurations created in a behaviour
    Account,    \* accounts at a provider: each has a base URL and a key
    None

Config == 1 .. MaxConfig  \* in the order of createdAt
Row == [isDefault : BOOLEAN, baseUrl : Account, apiKey : Account]

ASSUME ConfigAssumption == MaxConfig \in Nat /\ None \notin Account \cup Row

VARIABLES
    rows,    \* the committed row of each configuration, None without one
    born,    \* configurations inserted so far
    tx,      \* what each request has read, decided and written
    clashes  \* which requests were worked on at once, and a default taken away on request

configVars == <<rows, born, tx, clashes>>

(* isDefault and unset are what the request says of the mark: true, false, *)
(* or, with neither, nothing.                                              *)
Open == [op |-> "none", at |-> "free", id |-> 0, isDefault |-> FALSE, unset |-> FALSE,
         baseUrl |-> None, apiKey |-> None, existing |-> None,
         todo |-> {}, wrote |-> {}, alone |-> TRUE]

Stored == {c \in Config : rows[c] # None}
Oldest(S) == CHOOSE c \in S : \A d \in S : c <= d
Defaults == {c \in Stored : rows[c].isDefault}

(* The model gateway's choice for a user (routes/opencode-internal.ts). *)
GatewayProvider ==
    IF Stored = {} THEN 0 ELSE IF Defaults # {} THEN Oldest(Defaults) ELSE Oldest(Stored)

ConfigInit(stored) ==
    /\ rows = [c \in Config |-> IF c \in DOMAIN stored THEN stored[c] ELSE None]
    /\ born = Cardinality(DOMAIN stored)
    /\ tx = [r \in Request |-> Open]
    /\ clashes = [delete |-> FALSE, updated |-> {}, unset |-> FALSE]

-----------------------------------------------------------------------------
Working(r) == tx[r].at \notin {"free", "ok", "refused", "gone"}
At(r, op, step) == tx[r].op = op /\ tx[r].at = step
LockedByOthers(r) == UNION {tx[o].wrote : o \in Request \ {r}}

(* Rows that keep c from being the default: those the index holds and this *)
(* transaction has not itself cleared.                                     *)
Rivals(r, c) == Defaults \ ({c} \cup tx[r].wrote)

(* The table as the transaction of r sees it. *)
Seen(r) ==
    [c \in Config |->
        IF c \notin tx[r].wrote THEN rows[c]
        ELSE IF tx[r].op = "delete" THEN None ELSE [rows[c] EXCEPT !.isDefault = FALSE]]

(* What the next statement of r has to lock or to wait for. *)
Needs(r) ==
    LET t == tx[r] IN
    CASE t.at = "clearing" -> t.todo
      [] t.at = "create"   -> IF t.isDefault THEN Rivals(r, 0) ELSE {}
      [] t.at = "update"   -> {t.id} \cup (IF t.isDefault THEN Rivals(r, t.id) ELSE {})
      [] t.at = "delete"   -> {t.id}
      [] t.at = "promote"  -> t.todo \cup Rivals(r, Oldest(t.todo))
      [] OTHER             -> {}

Ready(r) == Needs(r) \cap LockedByOthers(r) = {}

Becomes(r, t) == tx' = [tx EXCEPT ![r] = t]

Rollback(r) ==
    /\ Becomes(r, [tx[r] EXCEPT !.at = "refused", !.wrote = {}, !.todo = {}])
    /\ UNCHANGED <<rows, born, clashes>>

(* The answer returns the row as it was written.  The history notes that a *)
(* request has taken the default away, until there is one again.           *)
Unmarked(table) == \A c \in Config : table[c] = None \/ ~table[c].isDefault
Commit(r, table, id) ==
    /\ rows' = table
    /\ Becomes(r, [tx[r] EXCEPT !.at = "ok", !.id = id, !.existing = table[id],
                                !.wrote = {}, !.todo = {}])
    /\ clashes' = [clashes EXCEPT !.unset = (@ \/ tx[r].unset) /\ Unmarked(table)]

(* The request arrives; the history notes whom it meets. *)
Begin(r, request) ==
    LET others == {o \in Request \ {r} : Working(o)}
        ops == {request.op} \cup {tx[o].op : o \in others}
        sameRow == {c \in {request.id} : \E o \in others : tx[o].op = "update" /\ tx[o].id = c} IN
    /\ tx[r].at = "free"
    /\ tx' = [o \in Request |->
                IF o = r THEN [request EXCEPT !.at = "begun", !.alone = (others = {})]
                ELSE IF o \in others THEN [tx[o] EXCEPT !.alone = FALSE] ELSE tx[o]]
    /\ clashes' = [delete |-> clashes.delete \/ (others # {} /\ "delete" \in ops),
                   updated |-> clashes.updated \cup IF request.op = "update" THEN sameRow ELSE {},
                   unset |-> clashes.unset]
    /\ UNCHANGED <<rows, born>>

-----------------------------------------------------------------------------
(* POST: the first configuration becomes the default whatever was asked. *)
CountRows(r) ==
    LET makeDefault == tx[r].isDefault \/ Stored = {} IN
    /\ At(r, "create", "begun")
    /\ Becomes(r, [tx[r] EXCEPT !.at = IF makeDefault THEN "clear" ELSE "create",
                                !.isDefault = makeDefault])
    /\ UNCHANGED <<rows, born, clashes>>

(* PATCH and DELETE read the row before their transaction begins. *)
ReadExisting(r) ==
    LET t == tx[r] IN
    /\ t.op \in {"update", "delete"} /\ t.at = "begun"
    /\ IF rows[t.id] = None
       THEN Becomes(r, [t EXCEPT !.at = "gone"])
       ELSE Becomes(r, [t EXCEPT !.at = IF t.op = "update" /\ t.isDefault THEN "clear" ELSE t.op,
                                 !.existing = rows[t.id]])
    /\ UNCHANGED <<rows, born, clashes>>

(* A defect: the old default is not cleared. *)
ClearNothing(r) ==
    /\ tx[r].at = "clear"
    /\ Becomes(r, [tx[r] EXCEPT !.at = tx[r].op])
    /\ UNCHANGED <<rows, born, clashes>>

(* updateMany: the statement's snapshot of the user's rows, *)
Clear(r) ==
    /\ tx[r].at = "clear"
    /\ Becomes(r, [tx[r] EXCEPT !.at = IF Stored = {} THEN tx[r].op ELSE "clearing",
                                !.todo = Stored])
    /\ UNCHANGED <<rows, born, clashes>>

(* and each of them as soon as no one else has it; a row deleted since is  *)
(* passed over.                                                            *)
ClearRow(r) ==
    /\ tx[r].at = "clearing"
    /\ \E c \in tx[r].todo \ LockedByOthers(r) :
         Becomes(r, [tx[r] EXCEPT !.at = IF tx[r].todo = {c} THEN tx[r].op ELSE "clearing",
                                  !.todo = @ \ {c}, !.wrote = @ \cup ({c} \cap Stored)])
    /\ UNCHANGED <<rows, born, clashes>>

Create(r) ==
    LET t == tx[r] IN
    /\ At(r, "create", "create") /\ Ready(r)
    /\ IF t.isDefault /\ Rivals(r, 0) # {}
       THEN Rollback(r)
       ELSE /\ born < MaxConfig
            /\ Commit(r, [Seen(r) EXCEPT ![born + 1] = [isDefault |-> t.isDefault,
                            baseUrl |-> t.baseUrl, apiKey |-> t.apiKey]], born + 1)
            /\ born' = born + 1

(* A defect: the new key is not written. *)
UpdatedWithoutKey(t, current) ==
    [isDefault |-> t.isDefault \/ (current.isDefault /\ ~t.unset),
     baseUrl |-> IF t.baseUrl = None THEN t.existing.baseUrl ELSE t.baseUrl,
     apiKey |-> current.apiKey]

(* Every update writes the base URL: the one given, or the one read before *)
(* the transaction; the other fields only when they are given.  A mark     *)
(* taken from the default goes to no other row.                            *)
Updated(t, current) ==
    [isDefault |-> t.isDefault \/ (current.isDefault /\ ~t.unset),
     baseUrl |-> IF t.baseUrl = None THEN t.existing.baseUrl ELSE t.baseUrl,
     apiKey |-> IF t.apiKey = None THEN current.apiKey ELSE t.apiKey]

Update(r) ==
    LET t == tx[r]
        current == Seen(r)[t.id] IN
    /\ At(r, "update", "update") /\ Ready(r)
    /\ IF current = None \/ (t.isDefault /\ Rivals(r, t.id) # {})
       THEN Rollback(r)
       ELSE Commit(r, [Seen(r) EXCEPT ![t.id] = Updated(t, current)], t.id) /\ UNCHANGED born

(* DELETE: what was the default when it was read is replaced by the oldest. *)
Delete(r) ==
    LET t == tx[r] IN
    /\ At(r, "delete", "delete") /\ Ready(r)
    /\ IF rows[t.id] = None THEN Rollback(r)
       ELSE IF t.existing.isDefault
       THEN /\ Becomes(r, [t EXCEPT !.at = "find", !.wrote = {t.id}])
            /\ UNCHANGED <<rows, born, clashes>>
       ELSE Commit(r, [rows EXCEPT ![t.id] = None], t.id) /\ UNCHANGED born

(* A defect: no other configuration becomes the default. *)
ForgetReplacement(r) ==
    /\ At(r, "delete", "find")
    /\ Commit(r, Seen(r), tx[r].id) /\ UNCHANGED born

FindReplacement(r) ==
    LET left == Stored \ {tx[r].id} IN
    /\ At(r, "delete", "find")
    /\ IF left = {} THEN Commit(r, Seen(r), tx[r].id) /\ UNCHANGED born
       ELSE /\ Becomes(r, [tx[r] EXCEPT !.at = "promote", !.todo = {Oldest(left)}])
            /\ UNCHANGED <<rows, born, clashes>>

Promote(r) ==
    LET c == Oldest(tx[r].todo) IN
    /\ At(r, "delete", "promote") /\ Ready(r)
    /\ IF rows[c] = None \/ Rivals(r, c) # {} THEN Rollback(r)
       ELSE Commit(r, [Seen(r) EXCEPT ![c].isDefault = TRUE], tx[r].id) /\ UNCHANGED born

(* A statement that waits is given up: PostgreSQL breaks a deadlock, and   *)
(* Prisma ends a transaction that is open for five seconds.                *)
GiveUp(r) == Working(r) /\ ~Ready(r) /\ Rollback(r)

Statement(r) ==
    \/ CountRows(r) \/ ReadExisting(r)
    \/ Clear(r) \/ ClearRow(r)
    \/ Create(r) \/ Update(r)
    \/ Delete(r) \/ FindReplacement(r) \/ Promote(r)
    \/ GiveUp(r)

-----------------------------------------------------------------------------
Moment == {"free", "begun", "clear", "clearing", "create", "update", "delete", "find",
           "promote", "ok", "refused", "gone"}
Tx == [op : {"none", "create", "update", "delete"}, at : Moment, id : Nat,
       isDefault : BOOLEAN, unset : BOOLEAN,
       baseUrl : Account \cup {None}, apiKey : Account \cup {None},
       existing : Row \cup {None}, todo : SUBSET Config, wrote : SUBSET Config, alone : BOOLEAN]

ConfigTypeOK ==
    /\ rows \in [Config -> Row \cup {None}] /\ born \in Nat
    /\ tx \in [Request -> Tx]
    /\ clashes \in [delete : BOOLEAN, updated : SUBSET Config, unset : BOOLEAN]
=============================================================================
