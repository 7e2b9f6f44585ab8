----------------------------- MODULE EventStream -----------------------------
(***************************************************************************)
(* The domain events of one conversation on their way to one browser: rows *)
(* numbered when they are inserted and visible when their transaction      *)
(* commits, the SSE route that polls them behind a cursor, and the         *)
(* EventSource that reconnects with the id of the last event it has seen.  *)
(***************************************************************************)
EXTENDS Naturals, Sequences, FiniteSets

CONSTANTS
    Take,        \* rows one poll asks for (100 in the code)
    MaxEvents,   \* bound: events inserted
    MaxDrops,    \* bound: connections lost or refused, and polls that fail
    MaxReopens   \* bound: streams the page opens anew

ASSUME StreamConstants ==
    Take \in Nat \ {0} /\ MaxEvents \in Nat /\ MaxDrops \in Nat /\ MaxReopens \in Nat

VARIABLES
    next,       \* the value autoincrement hands out next
    pending,    \* ids inserted by transactions that are still open
    visible,    \* ids of committed rows
    disordered, \* history: a row became visible after one with a greater id
    response,   \* to the EventSource's request: not there yet, open, open
                \* without a loop that writes to it, or an error
    cursor,     \* the route's cursor
    fetched,    \* rows of the last poll that are not written yet
    wire,       \* events written to the response and not yet received
    last,       \* the EventSource's last event id, 0 when it has none
    received,   \* events handed to handleEvent
    drops, reopens

log == <<next, pending, visible, disordered>>
route == <<response, cursor, fetched, wire>>
page == <<last, received>>
streamVars == <<log, route, page, drops, reopens>>

StreamInit ==
    /\ next = 1 /\ pending = {} /\ visible = {} /\ disordered = FALSE
    /\ response = "none" /\ cursor = 0 /\ fetched = {} /\ wire = <<>>
    /\ last = 0 /\ received = {}
    /\ drops = 0 /\ reopens = 0

-----------------------------------------------------------------------------
(* publishDomainEvent inside a transaction of a handler or of the worker. *)
InsertEvent ==
    /\ next <= MaxEvents
    /\ next' = next + 1
    /\ pending' = pending \cup {next}
    /\ UNCHANGED <<visible, disordered, route, page, drops, reopens>>

(* A transaction ends; it holds one event or several. *)
CommitEvents ==
    \E tx \in (SUBSET pending) \ {{}} :
        /\ pending' = pending \ tx
        /\ visible' = visible \cup tx
        /\ disordered' = (disordered \/ \E i \in tx, j \in visible : i < j)
        /\ UNCHANGED <<next, route, page, drops, reopens>>

RollbackEvents ==
    \E tx \in (SUBSET pending) \ {{}} :
        /\ pending' = pending \ tx
        /\ UNCHANGED <<next, visible, disordered, route, page, drops, reopens>>

-----------------------------------------------------------------------------
(* GET /events: the id of Last-Event-ID's row, or 0 without the header. *)
CursorAtStart == 0
CursorAtEnd == next - 1
StartCursor == last

Connect ==
    /\ response = "none"
    /\ response' = "open"
    /\ cursor' = StartCursor
    /\ fetched' = {} /\ wire' = <<>>
    /\ UNCHANGED <<log, page, drops, reopens>>

(* The query for the conversation or for that row fails, or no API answers *)
(* the proxy: to an EventSource an error answer is the end.                *)
Refuse ==
    /\ response = "none"
    /\ drops < MaxDrops /\ drops' = drops + 1
    /\ response' = "error"
    /\ UNCHANGED <<log, cursor, fetched, wire, page, reopens>>

(* findMany(id > cursor, ascending, take) *)
AnyFew(S) == {T \in SUBSET S : T # {} /\ Cardinality(T) <= Take}
FirstFew(S) ==
    {T \in SUBSET S :
        /\ T # {} /\ Cardinality(T) <= Take
        /\ \A i \in T, j \in S \ T : i < j
        /\ Cardinality(T) < Take => T = S}

Poll ==
    /\ response = "open" /\ fetched = {}
    /\ fetched' \in FirstFew({i \in visible : i > cursor})
    /\ UNCHANGED <<log, response, cursor, wire, page, drops, reopens>>

(* The query fails and the handler with it; the response was hijacked, and *)
(* nobody ends it.                                                         *)
PollFails ==
    /\ response = "open" /\ fetched = {}
    /\ drops < MaxDrops /\ drops' = drops + 1
    /\ response' = "abandoned"
    /\ UNCHANGED <<log, cursor, fetched, wire, page, reopens>>

(* One event written, and the cursor moved to it. *)
WriteEvent ==
    \E i \in fetched :
        /\ \A j \in fetched : i <= j
        /\ wire' = Append(wire, i)
        /\ cursor' = i
        /\ fetched' = fetched \ {i}
        /\ UNCHANGED <<log, response, page, drops, reopens>>

(* The browser parses an event, keeps its id and calls handleEvent. *)
Receive ==
    /\ wire # <<>>
    /\ wire' = Tail(wire)
    /\ last' = Head(wire)
    /\ received' = received \cup {Head(wire)}
    /\ UNCHANGED <<log, response, cursor, fetched, drops, reopens>>

Disconnected == response' = "none" /\ fetched' = {} /\ wire' = <<>> /\ UNCHANGED cursor
Connected == response \in {"open", "abandoned"}

(* The connection breaks; what was on its way is lost. *)
Drop ==
    /\ Connected /\ drops < MaxDrops
    /\ drops' = drops + 1
    /\ Disconnected
    /\ UNCHANGED <<log, page, reopens>>

(* The proxy waits a minute for the next byte, which a loop that runs      *)
(* sends as a heartbeat, and closes the connection.                        *)
ProxyTimeout ==
    /\ response = "abandoned" /\ wire = <<>>
    /\ Disconnected
    /\ UNCHANGED <<log, page, drops, reopens>>

(* The page closes its EventSource and later makes a new one, which has no *)
(* last event id: another conversation was looked at in between.           *)
Reopen ==
    /\ reopens < MaxReopens
    /\ reopens' = reopens + 1
    /\ Disconnected
    /\ last' = 0
    /\ UNCHANGED <<log, received, drops>>

StreamNext == InsertEvent \/ CommitEvents \/ RollbackEvents \/ Connect \/ Refuse \/ Poll
              \/ PollFails \/ WriteEvent \/ Receive \/ Drop \/ ProxyTimeout \/ Reopen

StreamSpec == StreamInit /\ [][StreamNext]_streamVars

(* The route's loop runs while its polls succeed, bytes arrive, the proxy's *)
(* clock runs, and the EventSource reconnects.  Nothing is asked of         *)
(* transactions, of breaks or of the page.                                  *)
Fairness ==
    /\ WF_streamVars(Connect) /\ WF_streamVars(Poll) /\ WF_streamVars(WriteEvent)
    /\ WF_streamVars(Receive) /\ WF_streamVars(ProxyTimeout)

FairStreamSpec == StreamSpec /\ Fairness

-----------------------------------------------------------------------------
Id == 1..MaxEvents

StreamTypeOK ==
    /\ next \in 1..(MaxEvents + 1)
    /\ pending \subseteq Id /\ visible \subseteq Id /\ disordered \in BOOLEAN
    /\ response \in {"none", "open", "abandoned", "error"} /\ cursor \in Id \cup {0} /\ fetched \subseteq Id
    /\ wire \in Seq(Id)
    /\ last \in Id \cup {0} /\ received \subseteq Id
    /\ drops \in Nat /\ reopens \in Nat

(* Nothing is skipped: an event up to the last one received has been       *)
(* received, across breaks and reconnections, as long as rows become       *)
(* visible in the order of their ids.                                      *)
NoGap == ~disordered => \A i \in visible : i <= last => i \in received

(* Nothing is received twice while the page keeps its EventSource: what a  *)
(* break has cost is sent again, what had arrived is not.                  *)
NoRepeat ==
    reopens = 0 => \A n \in DOMAIN wire :
        /\ wire[n] \notin received
        /\ \A m \in DOMAIN wire : m < n => wire[m] < wire[n]

(* Every committed event reaches the page in the end, whatever breaks and  *)
(* failed polls come between, unless the EventSource is refused for good.  *)
Delivered == \A i \in Id : i \in visible ~> i \in received \/ disordered \/ [](response = "error")
=============================================================================
