------------------------------- MODULE Account -------------------------------
(***************************************************************************)
(* The page of one user: AuthScreen, the page load and the sign-out of     *)
(* App.tsx, and the SettingsDialog that lists, adds, changes and deletes   *)
(* model configurations while its calls are worked on (ModelConfigs) and   *)
(* the session it was let in with may end (Sessions).  An answer arrives   *)
(* later than it is given, in any order, or not at all.                    *)
(***************************************************************************)
EXTENDS ModelConfigs, Sessions

CONSTANTS
    MaxCalls,   \* calls a behaviour makes
    MaxLosses   \* answers that never arrive

VARIABLES
    cookie,   \* the session the browser's cookies belong to
    screen,   \* App's authState
    shown,    \* configs: what the page shows of each configuration, or None
    load,     \* loadConfigs: how far it is, and the items of its answer
    form,     \* the configuration in the form and the base URL filled in, or None
    listing,  \* a Models list under way, with what its closure captured, or None
    awaits,   \* what the page does with the answer of each call
    calls,    \* calls made
    losses,   \* answers lost
    doubt     \* why the list may be wrong, and configurations saved from an old form

pageVars == <<cookie, screen, shown, load, form, listing, awaits>>
countVars == <<calls, losses, doubt>>
vars == <<configVars, authVars, pageVars, countVars>>

Item == [isDefault : BOOLEAN, baseUrl : Account]  \* of the page's list

ASSUME AccountAssumption ==
    /\ Request \cap Caller = {} /\ None \notin Item
    /\ MaxCalls \in Nat /\ MaxLosses \in Nat

Public(row) == IF row = None THEN None ELSE [isDefault |-> row.isDefault, baseUrl |-> row.baseUrl]
List(table) == [c \in Config |-> Public(table[c])]
Empty == [c \in Config |-> None]
Shown == {c \in Config : shown[c] # None}
NoLoad == [at |-> "none", items |-> Empty]
Loading == load.at # "none"

(* Either nobody has registered yet, or the page of a registered user has  *)
(* been loaded with the configurations stored by then.                     *)
Init ==
    /\ calls = 0 /\ losses = 0
    /\ doubt = [list |-> FALSE, crossed |-> FALSE, promoted |-> FALSE, old |-> {}]
    /\ load = NoLoad /\ form = None /\ listing = None
    /\ awaits = [x \in Request \cup Caller |-> "nothing"]
    /\ \E users \in {0, 1}, n \in {0, 2}, a \in Account :
         /\ users = 0 => n = 0
         /\ ConfigInit([c \in 1 .. n |-> [isDefault |-> c = 1, baseUrl |-> a, apiKey |-> a]])
         /\ SessionInit(users)
         /\ cookie = IF users = 0 THEN NoSession ELSE 1
    /\ screen = IF cookie = NoSession THEN "loading" ELSE "authenticated"
    /\ shown = List(rows)

-----------------------------------------------------------------------------
Busy == {r \in Request : awaits[r] # "nothing"}
Creating == \E r \in Request : awaits[r] = "submit"
SettingsOpen == screen = "authenticated" /\ Live(cookie)

Call(x, use) ==
    /\ calls < MaxCalls
    /\ calls' = calls + 1
    /\ awaits' = [awaits EXCEPT ![x] = use]

(* A change is sent.  The answers of changes under way together are put    *)
(* into the list in the order they arrive, the answer of a deletion does   *)
(* not name the new default, and the list may still be on its way.         *)
Send(r, use, request, old) ==
    /\ SettingsOpen
    /\ Call(r, use)
    /\ Begin(r, request)
    /\ doubt' = [list |-> doubt.list \/ Loading,
                 crossed |-> doubt.crossed \/ Busy # {},
                 promoted |-> doubt.promoted \/ (request.op = "delete" /\ shown[request.id].isDefault),
                 old |-> doubt.old \cup old]
    /\ UNCHANGED <<authVars, cookie, screen, shown, load, form, listing, losses>>

(* submit, for a new configuration: the first one shown is to be the default. *)
AddProvider(r) ==
    /\ form = None /\ ~Creating
    /\ \E a \in Account :
         Send(r, "submit", [Open EXCEPT !.op = "create", !.isDefault = (Shown = {}),
                                         !.baseUrl = a, !.apiKey = a], {})

(* submit, for the one in the form: the base URL filled in and no key, or  *)
(* another account's base URL and key.                                     *)
SaveProvider(r) ==
    /\ form # None /\ ~Creating
    /\ \E a \in Account \cup {None} :
         LET kept == a = None
             old == {c \in Stored : kept /\ c = form.id /\ rows[c].baseUrl # form.baseUrl} IN
         Send(r, "submit", [Open EXCEPT !.op = "update", !.id = form.id, !.apiKey = a,
                                        !.baseUrl = IF kept THEN form.baseUrl ELSE a], old)

MakeDefault(r) ==
    \E c \in Shown :
        /\ ~shown[c].isDefault
        /\ Send(r, "apply", [Open EXCEPT !.op = "update", !.id = c, !.isDefault = TRUE], {})

DeleteProvider(r) ==
    \E c \in Shown : Send(r, "apply", [Open EXCEPT !.op = "delete", !.id = c], {})

(* Not sent by the page: a call of the API with the browser's cookies that *)
(* says isDefault: false of a configuration.  The page hears nothing of it.*)
UnsetDefault(r) ==
    /\ Live(cookie)
    /\ Call(r, "nothing")
    /\ \E c \in Stored : Begin(r, [Open EXCEPT !.op = "update", !.id = c, !.unset = TRUE])
    /\ doubt' = [doubt EXCEPT !.list = TRUE]
    /\ UNCHANGED <<authVars, cookie, screen, shown, load, form, listing, losses>>

(* A defect: the other items keep their mark. *)
AppliedAlone(r) ==
    LET t == tx[r] IN
    IF t.op = "update" /\ shown[t.id] = None THEN shown
    ELSE [shown EXCEPT ![t.id] = Public(IF t.op = "delete" THEN None ELSE t.existing)]

(* The list after an answer: a new one is appended; a changed one replaces *)
(* its item, and the other items lose the mark when it is the default.     *)
Applied(r) ==
    LET t == tx[r] IN
    CASE t.op = "create" -> [shown EXCEPT ![t.id] = Public(t.existing)]
      [] t.op = "update" ->
           [c \in Config |->
              IF shown[c] = None THEN None
              ELSE IF c = t.id THEN Public(t.existing)
              ELSE [shown[c] EXCEPT !.isDefault = @ /\ ~t.existing.isDefault]]
      [] OTHER -> [shown EXCEPT ![t.id] = None]

Answered(r) == tx[r].at \in {"ok", "refused", "gone"}

Hangup(r) ==
    /\ Becomes(r, Open)
    /\ awaits' = [awaits EXCEPT ![r] = "nothing"]
    /\ UNCHANGED <<rows, born, clashes, authVars, cookie, screen, load, listing, calls>>

(* The continuation of the call; a page that has gone has none. *)
Answer(r) ==
    /\ Answered(r)
    /\ shown' = IF tx[r].at = "ok" /\ awaits[r] # "nothing" THEN Applied(r) ELSE shown
    /\ form' = IF tx[r].at = "ok" /\ awaits[r] = "submit" THEN None ELSE form
    /\ Hangup(r)
    /\ UNCHANGED <<losses, doubt>>

LoseAnswer(r) ==
    /\ Answered(r) /\ awaits[r] # "nothing"
    /\ losses < MaxLosses
    /\ losses' = losses + 1
    /\ doubt' = [doubt EXCEPT !.list = TRUE]
    /\ Hangup(r)
    /\ UNCHANGED <<shown, form>>

-----------------------------------------------------------------------------
(* The form and the Models button: its list comes with what the row showed *)
(* when it was pressed, and fills the form.                                *)
OnlyForm == UNCHANGED <<configVars, authVars, cookie, screen, shown, load, losses, doubt>>

EditProvider ==
    /\ SettingsOpen
    /\ \E c \in Shown : form' = [id |-> c, baseUrl |-> shown[c].baseUrl]
    /\ OnlyForm /\ UNCHANGED <<listing, awaits, calls>>

CancelEdit ==
    /\ form # None /\ form' = None
    /\ OnlyForm /\ UNCHANGED <<listing, awaits, calls>>

LoadModels ==
    /\ SettingsOpen /\ listing = None
    /\ calls < MaxCalls /\ calls' = calls + 1
    /\ \E c \in Shown \cap Stored : listing' = [id |-> c, baseUrl |-> shown[c].baseUrl]
    /\ OnlyForm /\ UNCHANGED <<form, awaits>>

ModelsAnswer ==
    /\ listing # None /\ listing' = None
    /\ form' \in {listing, form}  \* the second when the provider has no list
    /\ OnlyForm /\ UNCHANGED <<awaits, calls>>

(* The dialog is closed: its form is gone, and a submission under way only *)
(* changes the list.                                                       *)
CloseSettings ==
    /\ form # None \/ listing # None \/ Creating
    /\ form' = None /\ listing' = None
    /\ awaits' = [x \in DOMAIN awaits |-> IF awaits[x] = "submit" THEN "apply" ELSE awaits[x]]
    /\ OnlyForm /\ UNCHANGED calls

-----------------------------------------------------------------------------
(* The page is loaded again: the continuations of its calls are gone. *)
Reload ==
    /\ screen' = "loading"
    /\ shown' = Empty /\ load' = NoLoad /\ form' = None /\ listing' = None

AllForgotten == [x \in Request \cup Caller |-> "nothing"]

PressReload ==
    /\ screen # "loading"
    /\ calls < MaxCalls /\ calls' = calls + 1
    /\ Reload /\ awaits' = AllForgotten
    /\ UNCHANGED <<configVars, authVars, cookie, losses, doubt>>

(* /api/me decides between the workbench and AuthScreen, and               *)
(* bootstrap/status between its two forms.                                 *)
OpenPage ==
    LET pending == \E r \in Request : Working(r) IN
    /\ screen = "loading"
    /\ screen' = IF Accepts(cookie) THEN "authenticated"
                 ELSE IF administrators = 0 THEN "bootstrap" ELSE "login"
    /\ load' = IF Accepts(cookie) THEN [NoLoad EXCEPT !.at = "asked"] ELSE NoLoad
    /\ doubt' = [doubt EXCEPT !.list = pending, !.crossed = pending, !.promoted = pending]
    /\ UNCHANGED <<configVars, authVars, cookie, shown, form, listing, awaits, calls, losses>>

ReadConfigs ==
    /\ load.at = "asked"
    /\ load' = IF Accepts(cookie) THEN [at |-> "answered", items |-> List(rows)]
               ELSE [NoLoad EXCEPT !.at = "refused"]
    /\ UNCHANGED <<configVars, authVars, cookie, screen, shown, form, listing, awaits, countVars>>

(* loadConfigs: a list that does not come empties the page's. *)
ConfigsAnswer ==
    /\ load.at \in {"answered", "refused"}
    /\ load' = NoLoad
    /\ shown' = load.items
    /\ doubt' = [doubt EXCEPT !.list = @ \/ load.at = "refused"]
    /\ UNCHANGED <<configVars, authVars, cookie, screen, form, listing, awaits, calls, losses>>

ConfigsFail ==
    /\ Loading /\ load' = NoLoad
    /\ losses < MaxLosses /\ losses' = losses + 1
    /\ shown' = Empty
    /\ doubt' = [doubt EXCEPT !.list = TRUE]
    /\ UNCHANGED <<configVars, authVars, cookie, screen, form, listing, awaits, calls>>

-----------------------------------------------------------------------------
SendAuth(c, use, op, of) ==
    /\ Call(c, use)
    /\ Arrive(c, op, of)
    /\ UNCHANGED <<configVars, cookie, screen, shown, load, form, listing, losses, doubt>>

SignIn(c) ==
    /\ screen \in {"bootstrap", "login"}
    /\ \A o \in Caller : awaits[o] # "sign in"
    /\ SendAuth(c, "sign in", screen, NoSession)

SignOut(c) == screen = "authenticated" /\ SendAuth(c, "sign out", "logout", cookie)

(* Not called by the page: a script that uses the browser's cookies. *)
RefreshSession(c) == cookie # NoSession /\ SendAuth(c, "cookie", "refresh", cookie)

(* Somebody else finds the setup open too. *)
BootstrapElsewhere(c) == administrators = 0 /\ SendAuth(c, "nothing", "bootstrap", NoSession)

(* Set-Cookie and clearCookie take effect with the answer; a sign-out      *)
(* reloads the page whatever became of it.                                 *)
AuthAnswer(c) ==
    LET use == awaits[c]
        ok == auth[c].at = "ok" IN
    /\ auth[c].at \in {"ok", "refused"}
    /\ auth' = [auth EXCEPT ![c] = Quiet]
    /\ cookie' = IF ~ok \/ use = "nothing" THEN cookie
                 ELSE IF use = "sign out" THEN NoSession ELSE auth[c].made
    /\ IF use = "sign out" \/ (use = "sign in" /\ ok)
       THEN Reload /\ awaits' = AllForgotten
       ELSE awaits' = [awaits EXCEPT ![c] = "nothing"] /\ UNCHANGED <<screen, shown, load, form, listing>>
    /\ UNCHANGED <<configVars, administrators, session, signing, countVars>>

LoseAuthAnswer(c) ==
    /\ auth[c].at \in {"ok", "refused"} /\ awaits[c] # "nothing"
    /\ losses < MaxLosses /\ losses' = losses + 1
    /\ auth' = [auth EXCEPT ![c] = Quiet]
    /\ IF awaits[c] = "sign out"
       THEN Reload /\ awaits' = AllForgotten
       ELSE awaits' = [awaits EXCEPT ![c] = "nothing"] /\ UNCHANGED <<screen, shown, load, form, listing>>
    /\ UNCHANGED <<configVars, administrators, session, signing, cookie, calls, doubt>>

Served(r) == Statement(r) /\ UNCHANGED <<authVars, pageVars, countVars>>
Handled(c) == Handle(c) /\ UNCHANGED <<configVars, pageVars, countVars>>

Next ==
    \/ \E r \in Request :
         \/ AddProvider(r) \/ SaveProvider(r) \/ MakeDefault(r) \/ DeleteProvider(r)
         \/ UnsetDefault(r) \/ Served(r) \/ Answer(r) \/ LoseAnswer(r)
    \/ EditProvider \/ CancelEdit \/ LoadModels \/ ModelsAnswer \/ CloseSettings
    \/ PressReload \/ OpenPage \/ ReadConfigs \/ ConfigsAnswer \/ ConfigsFail
    \/ \E c \in Caller :
         \/ SignIn(c) \/ SignOut(c) \/ RefreshSession(c) \/ BootstrapElsewhere(c)
         \/ Handled(c) \/ AuthAnswer(c) \/ LoseAuthAnswer(c)

Spec == Init /\ [][Next]_vars

-----------------------------------------------------------------------------
Items == [Config -> Item \cup {None}]
Form == [id : Config, baseUrl : Account]
Use == {"nothing", "submit", "apply", "sign in", "sign out", "cookie"}

TypeOK ==
    /\ ConfigTypeOK /\ SessionTypeOK
    /\ cookie \in Nat /\ screen \in {"loading", "authenticated", "bootstrap", "login"}
    /\ shown \in Items
    /\ load \in [at : {"none", "asked", "answered", "refused"}, items : Items]
    /\ form \in Form \cup {None} /\ listing \in Form \cup {None}
    /\ awaits \in [Request \cup Caller -> Use]
    /\ calls \in Nat /\ losses \in Nat
    /\ doubt \in [list : BOOLEAN, crossed : BOOLEAN, promoted : BOOLEAN, old : SUBSET Config]

(* The gateway works with the default of a user who has configurations,    *)
(* and never falls back to the oldest, unless a deletion and another       *)
(* change were worked on at once (DELETE decides on the row it read before *)
(* its transaction), or a PATCH took the mark away by name and nothing has *)
(* been made the default since.                                            *)
DefaultKept ==
    Stored # {} /\ ~clashes.delete /\ ~clashes.unset => GatewayProvider \in Defaults

(* A change is refused only when it met another one.  One request alone    *)
(* never breaks the index of defaults, and never loses the row it read.    *)
RefusedOnlyInConflict == \A r \in Request : tx[r].at = "refused" => ~tx[r].alone

(* A base URL and the key stored with it belong to one account, unless     *)
(* two updates of the row met, or it was saved from a form that showed an  *)
(* old base URL.                                                           *)
KeyFitsUrl ==
    \A c \in Stored \ (clashes.updated \cup doubt.old) : rows[c].apiKey = rows[c].baseUrl

(* Once nothing is under way, the page shows the configurations that are   *)
(* stored, and the mark is on the default one.  A list that overlapped a   *)
(* change or did not come, a lost answer, a change that was not the page's *)
(* and answers that crossed excuse it; a deleted default excuses the mark  *)
(* until the next load.                                                    *)
AtRest ==
    /\ screen = "authenticated" /\ ~Loading
    /\ \A r \in Request : tx[r].at = "free"
ShownIsStored ==
    AtRest /\ ~doubt.list =>
      /\ Shown = Stored
      /\ ~doubt.crossed => \A c \in Stored : shown[c].baseUrl = rows[c].baseUrl
      /\ ~doubt.crossed /\ ~doubt.promoted => {c \in Shown : shown[c].isDefault} = Defaults

(* The setup makes one administrator, however many ask at once. *)
OneAdministrator == administrators <= 1

(* A session is handed over to one other, and a session that was signed    *)
(* out has no successor that is still good, unless two requests with its   *)
(* cookie were let in at once.                                             *)
Successors(s) == {t \in Session : session[t].replaces = s /\ session[t].state = "live"}
HandedOver ==
    \A s \in Session \ signing.raced :
        /\ \A t, u \in Successors(s) : t = u
        /\ (Live(s) \/ s \in signing.out) => Successors(s) = {}
=============================================================================
