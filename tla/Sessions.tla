------------------------------- MODULE Sessions -------------------------------
(***************************************************************************)
(* The first administrator and the sessions of that account               *)
(* (routes/auth.ts, plugins/auth.ts).  A session is named by the number of *)
(* its creation; its cookie and its CSRF token are known by that number.   *)
(***************************************************************************)
EXTENDS Integers

CONSTANTS
    Caller,     \* authentication requests the API works on at once
    MaxSession  \* sessions created in a behaviour

ASSUME SessionAssumption == MaxSession \in Nat

Session == 1 .. MaxSession
NoSession == 0

VARIABLES
    administrators,  \* users created by the bootstrap
    session,         \* state of each session, and the one a refresh replaced by it
    auth,            \* step, authenticated session and created session of each request
    signing          \* sessions signed out of, and those refreshed or left twice at once

authVars == <<administrators, session, auth, signing>>

Quiet == [op |-> "none", at |-> "free", of |-> NoSession, made |-> NoSession]
Unused == [state |-> "unused", replaces |-> NoSession]

SessionInit(users) ==
    /\ administrators = users
    /\ session = [s \in Session |-> IF s <= users THEN [Unused EXCEPT !.state = "live"] ELSE Unused]
    /\ auth = [c \in Caller |-> Quiet]
    /\ signing = [out |-> {}, raced |-> {}]

Live(s) == s \in Session /\ session[s].state = "live"
Created == {s \in Session : session[s].state # "unused"}

Asks(c, op, step) == auth[c].op = op /\ auth[c].at = step
Step(c, step) == auth' = [auth EXCEPT ![c].at = step]

(* The cookie the request carries is read when it is authenticated. *)
Arrive(c, op, cookie) ==
    /\ auth[c].at = "free"
    /\ auth' = [auth EXCEPT ![c] = [Quiet EXCEPT !.op = op, !.at = "arrived", !.of = cookie]]
    /\ UNCHANGED <<administrators, session, signing>>

-----------------------------------------------------------------------------
(* pg_advisory_xact_lock: one bootstrap at a time gets to the count. *)
LockIgnored(c) == TRUE
LockFree(c) == \A o \in Caller \ {c} : auth[o].at \notin {"locked", "counted"}

TakeLock(c) ==
    /\ Asks(c, "bootstrap", "arrived")
    /\ LockFree(c)
    /\ Step(c, "locked")
    /\ UNCHANGED <<administrators, session, signing>>

CountUsers(c) ==
    /\ Asks(c, "bootstrap", "locked")
    /\ Step(c, IF administrators = 0 THEN "counted" ELSE "refused")
    /\ UNCHANGED <<administrators, session, signing>>

(* The password is hashed between the count and the row. *)
CreateAdministrator(c) ==
    /\ Asks(c, "bootstrap", "counted")
    /\ administrators' = administrators + 1
    /\ Step(c, "verified")
    /\ UNCHANGED <<session, signing>>

VerifyPassword(c) ==
    /\ Asks(c, "login", "arrived")
    /\ Step(c, IF administrators = 0 THEN "refused" ELSE "verified")
    /\ UNCHANGED <<administrators, session, signing>>

(* What app.authenticate accepts of a session: it has not been revoked.    *)
(* Time does not pass far enough for a session to expire.                  *)
AcceptsRevoked(s) == s \in Created
Accepts(s) == Live(s)

Authenticate(c) ==
    LET s == auth[c].of IN
    /\ auth[c].op \in {"refresh", "logout"} /\ auth[c].at = "arrived"
    /\ Step(c, IF Accepts(s) THEN "verified" ELSE "refused")
    /\ signing' = IF \E o \in Caller \ {c} : auth[o].at = "verified" /\ auth[o].of = s
                  THEN [signing EXCEPT !.raced = @ \cup {s}] ELSE signing
    /\ UNCHANGED <<administrators, session>>

(* createSession: the replaced session is revoked unless it already is,    *)
(* and the new one is made either way.                                     *)
Revoked(s) == [session EXCEPT ![s].state = IF @ = "live" THEN "ended" ELSE @]

CreateSession(c) ==
    LET old == auth[c].of
        new == CHOOSE s \in Session \ Created : \A t \in Session \ Created : s <= t IN
    /\ auth[c].op # "logout" /\ auth[c].at = "verified"
    /\ Created # Session
    /\ session' = [(IF auth[c].op = "refresh" THEN Revoked(old) ELSE session)
                     EXCEPT ![new] = [state |-> "live", replaces |-> old]]
    /\ auth' = [auth EXCEPT ![c].at = "ok", ![c].made = new]
    /\ UNCHANGED <<administrators, signing>>

(* The logout revokes by id, a second time too. *)
EndSession(c) ==
    LET s == auth[c].of IN
    /\ Asks(c, "logout", "verified")
    /\ session' = [session EXCEPT ![s].state = "ended"]
    /\ signing' = [signing EXCEPT !.out = @ \cup {s}]
    /\ Step(c, "ok")
    /\ UNCHANGED administrators

Handle(c) ==
    \/ TakeLock(c) \/ CountUsers(c) \/ CreateAdministrator(c)
    \/ VerifyPassword(c) \/ Authenticate(c)
    \/ CreateSession(c) \/ EndSession(c)

-----------------------------------------------------------------------------
SessionTypeOK ==
    /\ administrators \in Nat
    /\ session \in [Session -> [state : {"unused", "live", "ended"}, replaces : Nat]]
    /\ auth \in [Caller -> [op : {"none", "bootstrap", "login", "refresh", "logout"},
                            at : {"free", "arrived", "locked", "counted", "verified",
                                  "refused", "ok"},
                            of : Nat, made : Nat]]
    /\ signing \in [out : SUBSET Nat, raced : SUBSET Nat]
=============================================================================
