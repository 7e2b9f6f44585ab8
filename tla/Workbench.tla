------------------------------ MODULE Workbench ------------------------------
(***************************************************************************)
(* The page of the web client: the active conversation, its timeline and   *)
(* its running mark, kept up to date by the event stream, by GET and POST  *)
(* .../messages under way, and by what the user does meanwhile.  A message *)
(* is known by what the user sent; the agent's reply to it is its pair.    *)
(* The server is what the routes and the worker show of it.                *)
(***************************************************************************)
EXTENDS Naturals, Sequences

CONSTANTS
    Conversation,
    Message,
    None,
    MaxLog,       \* bound: events in one conversation
    MaxFaults     \* bound: failed loads and answers of POST that get lost

ASSUME WorkbenchConstants ==
    None \notin Conversation /\ MaxLog \in Nat /\ MaxFaults \in Nat

(* task.phase.changed to a running phase and to a waiting one, task.failed, *)
(* and task.completed or task.aborted, which the page takes alike.          *)
Event == {"phase", "waiting", "failed", "ended"}

VARIABLES
    events,    \* per conversation: its events
    stored,    \* per conversation: its messages in the database
    open,      \* conversations with a task under way
    listed,    \* conversations in the sidebar
    active,
    seen,      \* events the EventSource of the active conversation has had
    running,
    shown,     \* per conversation: the timeline
    loads,     \* GET .../messages under way, with the page once it is served
    sends,     \* POST .../messages under way
    sent,      \* messages the user has sent
    offline, faults

server == <<events, stored, open>>
view == <<listed, active, seen>>
vars == <<server, view, running, shown, loads, sends, sent, offline, faults>>

User(m) == <<"user", m>>
Reply(m) == <<"agent", m>>

Init ==
    /\ events = [c \in Conversation |-> <<>>]
    /\ stored = [c \in Conversation |-> {}]
    /\ open = {}
    /\ \E c \in Conversation : listed = {c} /\ active = c
    /\ seen = 0 /\ running = FALSE
    /\ shown = [c \in Conversation |-> {}]
    /\ loads = {} /\ sends = {} /\ sent = {}
    /\ offline = FALSE /\ faults = 0

-----------------------------------------------------------------------------
(* The server: what its handlers and the worker add to a conversation. *)
Adds(c, event, messages) ==
    /\ Len(events[c]) < MaxLog
    /\ events' = [events EXCEPT ![c] = Append(@, event)]
    /\ stored' = [stored EXCEPT ![c] = @ \cup messages]

Unanswered(c) == {m \in Message : User(m) \in stored[c] /\ Reply(m) \notin stored[c]}

TaskAdvances(c) ==
    /\ c \in open
    /\ Adds(c, "phase", {})
    /\ UNCHANGED <<open, view, running, shown, loads, sends, sent, offline, faults>>

(* It is completed with a reply, asks the user, fails or is aborted. *)
TaskEnds(c) ==
    /\ c \in open
    /\ \/ \E m \in Unanswered(c), e \in {"ended", "waiting"} : Adds(c, e, {Reply(m)})
       \/ \E e \in {"ended", "failed"} : Adds(c, e, {})
    /\ open' = open \ {c}
    /\ UNCHANGED <<view, running, shown, loads, sends, sent, offline, faults>>

-----------------------------------------------------------------------------
(* loadMessages: the load under way is aborted. *)
LoadBeside(c) == loads' = loads \cup {[of |-> c, page |-> None]}
LoadMessages(c) == loads' = {[of |-> c, page |-> None]}

Serve(l) ==
    /\ l.page = None
    /\ loads' = (loads \ {l}) \cup {[l EXCEPT !.page = stored[l.of]]}
    /\ UNCHANGED <<server, view, running, shown, sends, sent, offline, faults>>

Arrive(l) ==
    /\ l.page # None
    /\ shown' = [shown EXCEPT ![l.of] = l.page]
    /\ loads' = loads \ {l}
    /\ UNCHANGED <<server, view, running, sends, sent, offline, faults>>

LoadFails(l) ==
    /\ faults < MaxFaults /\ faults' = faults + 1
    /\ loads' = loads \ {l}
    /\ offline' = TRUE
    /\ UNCHANGED <<server, view, running, shown, sends, sent>>

(* handleEvent. The stream is closed while the page is offline. *)
HandleEvent ==
    /\ ~offline /\ active # None
    /\ seen < Len(events[active])
    /\ seen' = seen + 1
    /\ LET event == events[active][seen'] IN
        /\ running' = (event = "phase")
        /\ IF event = "ended" THEN LoadMessages(active) ELSE UNCHANGED loads
    /\ UNCHANGED <<server, listed, active, shown, sends, sent, offline, faults>>

-----------------------------------------------------------------------------
(* send: the message is shown at once; the composer sends while nothing is *)
(* running.                                                                *)
Send(m) ==
    /\ ~running /\ active # None
    /\ m \notin sent /\ sent' = sent \cup {m}
    /\ shown' = [shown EXCEPT ![active] = @ \cup {User(m)}]
    /\ running' = TRUE
    /\ sends' = IF offline THEN sends ELSE sends \cup {[to |-> active, msg |-> m]}
    /\ UNCHANGED <<server, view, loads, offline, faults>>

(* POST .../messages queues a task or resumes one that waits, or rejects   *)
(* the request with a reply.                                               *)
Accept(s) ==
    /\ s.to \notin open
    /\ \/ Adds(s.to, "phase", {User(s.msg)}) /\ open' = open \cup {s.to}
       \/ Adds(s.to, "ended", {User(s.msg), Reply(s.msg)}) /\ UNCHANGED open
    /\ sends' = sends \ {s}

Answered(s) ==
    /\ Accept(s)
    /\ UNCHANGED <<view, running, shown, loads, sent, offline, faults>>

(* The catch of send: a failed upload, a conflict, an error, or an answer  *)
(* that did not arrive.                                                    *)
FailQuietly == UNCHANGED running
CatchSend == running' = FALSE

Refused(s) ==
    /\ sends' = sends \ {s}
    /\ CatchSend
    /\ UNCHANGED <<server, view, shown, loads, sent, offline, faults>>

AnswerLost(s) ==
    /\ faults < MaxFaults /\ faults' = faults + 1
    /\ Accept(s)
    /\ CatchSend
    /\ UNCHANGED <<view, shown, loads, sent, offline>>

(* stop: the mark goes at once; the task ends when the worker sees to it. *)
Stop ==
    /\ running /\ active # None
    /\ running' = FALSE
    /\ UNCHANGED <<server, view, shown, loads, sends, sent, offline, faults>>

-----------------------------------------------------------------------------
(* The effect that opens the stream depends on the id of the active        *)
(* conversation alone, and a new EventSource starts with the first event.  *)
StreamFor(c) == IF c = active THEN seen ELSE 0

Activate(c) == active' = c /\ seen' = StreamFor(c)

SelectConversation(c) ==
    /\ c \in listed
    /\ Activate(c)
    /\ LoadMessages(c)
    /\ UNCHANGED <<server, listed, running, shown, sends, sent, offline, faults>>

Unused(c) == c \notin listed /\ events[c] = <<>> /\ shown[c] = {}

NewConversation(c) ==
    /\ Unused(c) /\ ~offline
    /\ listed' = listed \cup {c}
    /\ Activate(c)
    /\ UNCHANGED <<server, running, shown, loads, sends, sent, offline, faults>>

(* Another conversation of the list is shown, whichever was deleted, or    *)
(* none when it was the last.                                              *)
DeleteConversation(c) ==
    /\ c \in listed
    /\ listed' = listed \ {c}
    /\ IF listed' = {} THEN Activate(None) ELSE \E d \in listed' : Activate(d)
    /\ UNCHANGED <<server, running, shown, loads, sends, sent, offline, faults>>

(* The page is loaded anew: the list, with a new conversation when there   *)
(* is none, and the stream, but not the messages.                          *)
Reload ==
    /\ \E c \in Conversation :
          /\ c \in listed \/ (listed = {} /\ Unused(c))
          /\ active' = c /\ listed' = listed \cup {c}
    /\ seen' = 0 /\ running' = FALSE
    /\ shown' = [c \in Conversation |-> {}]
    /\ loads' = {} /\ sends' = {}
    /\ offline' = FALSE
    /\ UNCHANGED <<server, sent, faults>>

Next ==
    \/ \E c \in Conversation :
         \/ TaskAdvances(c) \/ TaskEnds(c)
         \/ SelectConversation(c) \/ NewConversation(c) \/ DeleteConversation(c)
    \/ \E l \in loads : Serve(l) \/ Arrive(l) \/ LoadFails(l)
    \/ \E m \in Message : Send(m)
    \/ \E s \in sends : Answered(s) \/ Refused(s) \/ AnswerLost(s)
    \/ HandleEvent \/ Stop \/ Reload

Spec == Init /\ [][Next]_vars

-----------------------------------------------------------------------------
Entry == {"user", "agent"} \X Message

TypeOK ==
    /\ \A c \in Conversation : events[c] \in Seq(Event) /\ Len(events[c]) <= MaxLog
    /\ stored \in [Conversation -> SUBSET Entry]
    /\ open \subseteq Conversation
    /\ listed \subseteq Conversation /\ active \in listed \cup {None}
    /\ active # None => seen \in 0..Len(events[active])
    /\ active = None => listed = {}
    /\ running \in BOOLEAN /\ offline \in BOOLEAN
    /\ shown \in [Conversation -> SUBSET Entry]
    /\ loads \subseteq [of : Conversation, page : (SUBSET Entry) \cup {None}]
    /\ sends \subseteq [to : Conversation, msg : Message]
    /\ sent \subseteq Message
    /\ faults \in Nat

(* Nothing is under way: the stream has delivered all there is. *)
AtRest ==
    /\ ~offline /\ loads = {} /\ sends = {}
    /\ active # None
    /\ seen = Len(events[active])

(* At rest, a conversation in which no task runs is not shown as running,  *)
(* whatever was sent, stopped, refused or answered in it or in another     *)
(* before the page came to it.  (One without any event still inherits the  *)
(* mark of the conversation left.)                                         *)
RunningIsOpen ==
    AtRest /\ events[active] # <<>> /\ running => active \in open

(* At rest, once the latest task has been completed or aborted, the        *)
(* timeline holds every message and reply there is: no page that was asked *)
(* for earlier has been put over a later one.                              *)
CompletedIsShown ==
    AtRest /\ events[active] # <<>> /\ events[active][seen] = "ended"
        => stored[active] \subseteq shown[active]
=============================================================================
