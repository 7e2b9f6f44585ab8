--------------------------- MODULE DeliveryProofs ---------------------------
(***************************************************************************)
(* Proofs about the two ends of the way an event takes to the page:        *)
(* EventStream, which brings it there, for any batch size and any number   *)
(* of events, breaks and reopened streams, and Workbench, which shows what *)
(* it says, for any conversations, messages, events and faults.            *)
(***************************************************************************)
EXTENDS EventStream, Workbench, TLAPS

(* A poll takes the first of the rows behind the cursor. *)
LEMMA FirstFewAreFirst ==
    ASSUME NEW S, NEW T \in FirstFew(S)
    PROVE  T \subseteq S /\ \A i \in T, j \in S \ T : i < j
BY DEF FirstFew

LEMMA PolledAreFirst ==
    Poll => /\ \A i \in fetched' : i \in visible /\ i > cursor
            /\ \A i \in fetched', j \in visible : j > cursor /\ j \notin fetched' => i < j
<1> SUFFICES ASSUME Poll
             PROVE  /\ \A i \in fetched' : i \in visible /\ i > cursor
                    /\ \A i \in fetched', j \in visible :
                          j > cursor /\ j \notin fetched' => i < j
  OBVIOUS
<1> DEFINE S == {i \in visible : i > cursor}
<1>1. fetched' \in FirstFew(S)
  BY DEF Poll
<1> HIDE DEF S
<1>2. fetched' \subseteq S /\ \A i \in fetched', j \in S \ fetched' : i < j
  BY <1>1, FirstFewAreFirst
<1> QED
  BY <1>2 DEF S

(* The wire, one event longer at its end or one shorter at its front. *)
LEMMA Sent ==
    ASSUME NEW S, NEW w \in Seq(S), NEW i \in S
    PROVE  /\ Append(w, i) \in Seq(S)
           /\ DOMAIN w = 1..Len(w) /\ Len(w) \in Nat
           /\ DOMAIN Append(w, i) = 1..(Len(w) + 1)
           /\ Append(w, i)[Len(w) + 1] = i
           /\ \A n \in 1..Len(w) : Append(w, i)[n] = w[n]
OBVIOUS

LEMMA Taken ==
    ASSUME NEW S, NEW w \in Seq(S), w # <<>>
    PROVE  /\ Tail(w) \in Seq(S)
           /\ DOMAIN w = 1..Len(w) /\ Len(w) \in Nat /\ 1 \in DOMAIN w
           /\ DOMAIN Tail(w) = 1..(Len(w) - 1)
           /\ Head(w) = w[1] /\ w[1] \in S
           /\ \A n \in 1..(Len(w) - 1) : Tail(w)[n] = w[n + 1]
OBVIOUS

LEMMA NothingSent == \A S : <<>> \in Seq(S)
OBVIOUS

LEMMA StreamTypeInit == StreamInit => StreamTypeOK
<1> SUFFICES ASSUME StreamInit PROVE StreamTypeOK
  OBVIOUS
<1>1. wire \in Seq(Id)
  BY NothingSent DEF StreamInit
<1>2. next \in 1..(MaxEvents + 1)
  BY StreamConstants DEF StreamInit
<1> QED
  BY <1>1, <1>2 DEF StreamInit, StreamTypeOK

LEMMA StreamTypeNext == StreamTypeOK /\ [StreamNext]_streamVars => StreamTypeOK'
<1> SUFFICES ASSUME StreamTypeOK, [StreamNext]_streamVars PROVE StreamTypeOK'
  OBVIOUS
<1> USE StreamConstants DEF StreamTypeOK, Id, log, route, page
<1>a. <<>> \in Seq(Id)
  BY NothingSent
<1>1. CASE InsertEvent
  BY <1>1 DEF InsertEvent
<1>2. CASE CommitEvents
  BY <1>2 DEF CommitEvents
<1>3. CASE RollbackEvents
  BY <1>3 DEF RollbackEvents
<1>4. CASE Connect
  BY <1>4 DEF Connect, StartCursor
<1>5. CASE Poll
  BY <1>5, PolledAreFirst DEF Poll
<1>6. CASE WriteEvent
  BY <1>6 DEF WriteEvent
<1>7. CASE Receive
  <2>1. wire \in Seq(Id) /\ wire # <<>>
    BY <1>7 DEF Receive
  <2>2. Tail(wire) \in Seq(Id) /\ Head(wire) \in Id
    BY <2>1, Taken
  <2> QED BY <1>7, <2>2 DEF Receive
<1>8. CASE Drop
  <2>1. wire' \in Seq(Id)
    BY <1>8, <1>a DEF Drop, Disconnected
  <2>2. /\ response' = "none" /\ fetched' = {} /\ cursor' = cursor
        /\ last' \in Id \cup {0} /\ drops' \in Nat /\ reopens' \in Nat
        /\ UNCHANGED <<next, pending, visible, disordered, received>>
    BY <1>8 DEF Drop, Disconnected
  <2> QED BY <2>1, <2>2
<1>9. CASE Reopen
  <2>1. wire' \in Seq(Id)
    BY <1>9, <1>a DEF Reopen, Disconnected
  <2>2. /\ response' = "none" /\ fetched' = {} /\ cursor' = cursor
        /\ last' \in Id \cup {0} /\ drops' \in Nat /\ reopens' \in Nat
        /\ UNCHANGED <<next, pending, visible, disordered, received>>
    BY <1>9 DEF Reopen, Disconnected
  <2> QED BY <2>1, <2>2
<1>10. CASE UNCHANGED streamVars
  BY <1>10 DEF streamVars
<1>11. CASE Refuse
  BY <1>11 DEF Refuse
<1>12. CASE PollFails
  BY <1>12 DEF PollFails
<1>13. CASE ProxyTimeout
  <2>1. wire' \in Seq(Id)
    BY <1>13, <1>a DEF ProxyTimeout, Disconnected
  <2>2. /\ response' = "none" /\ fetched' = {} /\ cursor' = cursor
        /\ UNCHANGED <<next, pending, visible, disordered, last, received, drops, reopens>>
    BY <1>13 DEF ProxyTimeout, Disconnected
  <2> QED BY <2>1, <2>2
<1> QED
  BY <1>1, <1>2, <1>3, <1>4, <1>5, <1>6, <1>7, <1>8, <1>9, <1>10, <1>11, <1>12, <1>13
     DEF StreamNext

(* Variables keep their types: whatever is on the wire or in the page is   *)
(* an event, and the cursor and the last event id are events or nothing.   *)
THEOREM StreamTypeCorrect == StreamSpec => []StreamTypeOK
BY StreamTypeInit, StreamTypeNext, PTL DEF StreamSpec

-----------------------------------------------------------------------------
(* A closed response holds nothing. *)
Closed == ~Connected => fetched = {} /\ wire = <<>>

(* From the page back to the log the ids ascend: the last event received,  *)
(* then the wire, then the cursor, then the rows that are fetched.         *)
Ascending ==
    /\ Connected => last <= cursor
    /\ \A n \in DOMAIN wire : last < wire[n] /\ wire[n] <= cursor
    /\ \A m, n \in DOMAIN wire : m < n => wire[m] < wire[n]
    /\ \A i \in fetched : cursor < i

(* Only what is visible is sent. *)
FromLog ==
    /\ last \in visible \cup {0}
    /\ Connected => cursor \in visible \cup {0}
    /\ \A n \in DOMAIN wire : wire[n] \in visible
    /\ fetched \subseteq visible

(* Nothing is left out between the page and the cursor, nor before a row   *)
(* that is fetched.                                                        *)
OnWire(i) == \E n \in DOMAIN wire : wire[n] = i
Gapless ==
    /\ Connected => \A i \in visible : last < i /\ i <= cursor => OnWire(i)
    /\ \A i \in visible, j \in fetched : cursor < i /\ i < j => i \in fetched
    /\ \A i \in visible : i <= last => i \in received

StreamInv ==
    /\ StreamTypeOK /\ Closed /\ Ascending /\ FromLog
    /\ ~disordered => Gapless
    /\ reopens = 0 => \A i \in received : i <= last

LEMMA StreamInvInit == StreamInit => StreamInv
<1> SUFFICES ASSUME StreamInit PROVE StreamInv
  OBVIOUS
<1>1. StreamTypeOK
  BY StreamTypeInit
<1> QED
  BY <1>1 DEF StreamInit, StreamInv, Closed, Ascending, FromLog, Gapless

LEMMA StreamInvNext == StreamInv /\ [StreamNext]_streamVars => StreamInv'
<1> SUFFICES ASSUME StreamInv, [StreamNext]_streamVars PROVE StreamInv'
  OBVIOUS
<1>0. StreamTypeOK /\ StreamTypeOK'
  BY StreamTypeNext DEF StreamInv
<1> USE StreamConstants, <1>0 DEF StreamInv, StreamTypeOK, Id, Closed, Ascending, FromLog, Gapless, OnWire,
        Connected, log, route, page
<1>1. CASE InsertEvent
  BY <1>1 DEF InsertEvent
<1>2. CASE CommitEvents
  <2>1. PICK tx \in (SUBSET pending) \ {{}} :
           /\ visible' = visible \cup tx
           /\ disordered' = (disordered \/ \E i \in tx, j \in visible : i < j)
           /\ UNCHANGED <<next, route, page, drops, reopens>>
    BY <1>2 DEF CommitEvents
  <2>2. Closed' /\ Ascending' /\ FromLog'
    BY <2>1
  <2>3. ASSUME ~disordered' PROVE Gapless'
    <3>1. ~disordered /\ \A i \in tx, j \in visible : j <= i
      <4>1. ~disordered /\ ~\E i \in tx, j \in visible : i < j
        BY <2>1, <2>3, Zenon
      <4> QED BY <4>1, <2>1
    <3>2. \A i \in tx \ visible : last < i /\ (Connected => cursor < i)
                                  /\ \A j \in fetched : j < i
      BY <3>1, <2>1
    <3> QED BY <3>1, <3>2, <2>1
  <2> QED BY <2>1, <2>2, <2>3
<1>3. CASE RollbackEvents
  BY <1>3 DEF RollbackEvents
<1>4. CASE Connect
  BY <1>4 DEF Connect, StartCursor
<1>5. CASE Poll
  BY <1>5, PolledAreFirst DEF Poll
<1>6. CASE WriteEvent
  <2>1. PICK i \in fetched :
           /\ \A j \in fetched : i <= j
           /\ wire' = Append(wire, i)
           /\ cursor' = i
           /\ fetched' = fetched \ {i}
           /\ UNCHANGED <<log, response, page, drops, reopens>>
    BY <1>6 DEF WriteEvent
  <2>2. /\ DOMAIN wire = 1..Len(wire) /\ Len(wire) \in Nat
        /\ DOMAIN wire' = 1..(Len(wire) + 1)
        /\ wire'[Len(wire) + 1] = i
        /\ \A n \in 1..Len(wire) : wire'[n] = wire[n]
    BY <2>1, Sent
  <2> HIDE DEF StreamTypeOK
  <2>3. Connected /\ i \in Nat /\ cursor \in Nat /\ last \in Nat /\ fetched \subseteq Nat
        /\ visible \subseteq Nat /\ \A n \in DOMAIN wire : wire[n] \in Nat
    BY <2>1 DEF StreamTypeOK
  <2>4. Closed' /\ FromLog'
    BY <2>1, <2>3
  <2>5. Ascending'
    BY <2>1, <2>2, <2>3
  <2>6. ASSUME ~disordered' PROVE Gapless'
    <3>1. Gapless
      BY <2>1, <2>6
    <3>2. \A j : OnWire(j) \/ j = i => OnWire(j)'
      BY <2>2
    <3> QED BY <2>1, <2>3, <3>1, <3>2
  <2> QED BY <2>1, <2>4, <2>5, <2>6
<1>7. CASE Receive
  <2>1. /\ DOMAIN wire = 1..Len(wire) /\ Len(wire) \in Nat /\ 1 \in DOMAIN wire
        /\ DOMAIN wire' = 1..(Len(wire) - 1)
        /\ last' = wire[1]
        /\ received' = received \cup {wire[1]}
        /\ \A n \in 1..(Len(wire) - 1) : wire'[n] = wire[n + 1]
    <3>1. wire \in Seq(Id) /\ wire # <<>>
      BY <1>7 DEF Receive
    <3> QED BY <1>7, <3>1, Taken DEF Receive
  <2>2. UNCHANGED <<log, response, cursor, fetched, drops, reopens>>
    BY <1>7 DEF Receive
  <2> HIDE DEF StreamTypeOK
  <2>3. Connected /\ cursor \in Nat /\ last \in Nat /\ fetched \subseteq Nat
        /\ visible \subseteq Nat /\ received \subseteq Nat
        /\ \A n \in DOMAIN wire : wire[n] \in Nat
    BY <2>1 DEF StreamTypeOK
  <2>3a. \A n \in DOMAIN wire' : n \in Nat /\ n + 1 \in DOMAIN wire /\ 1 < n + 1
                                 /\ wire'[n] = wire[n + 1]
    BY <2>1
  <2>3b. \A n \in DOMAIN wire : n # 1 => n - 1 \in DOMAIN wire' /\ wire'[n - 1] = wire[n]
    BY <2>1
  <2>4. Closed' /\ FromLog'
    BY <2>1, <2>2, <2>3, <2>3a
  <2>5. Ascending'
    BY <2>1, <2>2, <2>3, <2>3a
  <2>6. ASSUME ~disordered' PROVE Gapless'
    <3>1. Gapless
      BY <2>2, <2>6
    <3>2. \A j : OnWire(j) /\ j # wire[1] => OnWire(j)'
      BY <2>3b
    <3>3. \A j \in Nat : OnWire(j) => wire[1] <= j
      BY <2>1, <2>3
    <3>4. last < wire[1] /\ wire[1] <= cursor
      BY <2>1
    <3> HIDE DEF OnWire
    <3>5. \A i \in visible : last < i /\ i <= cursor => OnWire(i)
      BY <2>3, <3>1
    <3>6. \A i \in visible' : last' < i /\ i <= cursor' => OnWire(i)'
      BY <2>1, <2>2, <2>3, <3>2, <3>4, <3>5
    <3>7. \A i \in visible' : i <= last' => i \in received'
      BY <2>1, <2>2, <2>3, <3>1, <3>3, <3>4, <3>5
    <3> QED BY <2>2, <3>1, <3>6, <3>7
  <2>7. reopens' = 0 => \A i \in received' : i <= last'
    BY <2>1, <2>2, <2>3
  <2> QED BY <2>4, <2>5, <2>6, <2>7
<1>8. CASE Drop
  BY <1>8 DEF Drop, Disconnected
<1>9. CASE Reopen
  BY <1>9 DEF Reopen, Disconnected
<1>10. CASE UNCHANGED streamVars
  BY <1>10 DEF streamVars
<1>11. CASE Refuse
  BY <1>11 DEF Refuse
<1>12. CASE PollFails
  BY <1>12 DEF PollFails
<1>13. CASE ProxyTimeout
  BY <1>13 DEF ProxyTimeout, Disconnected
<1> QED
  BY <1>1, <1>2, <1>3, <1>4, <1>5, <1>6, <1>7, <1>8, <1>9, <1>10, <1>11, <1>12, <1>13
     DEF StreamNext

(* Up to the last event received the page has received every event, as     *)
(* long as rows become visible in the order of their ids.                  *)
THEOREM NothingIsSkipped == StreamSpec => []NoGap
<1>1. StreamInv => NoGap
  BY DEF StreamInv, Gapless, NoGap
<1> QED BY StreamInvInit, StreamInvNext, <1>1, PTL DEF StreamSpec

(* A page that keeps its EventSource receives nothing twice.               *)
THEOREM NothingIsRepeated == StreamSpec => []NoRepeat
<1>1. StreamInv => NoRepeat
  BY StreamConstants DEF StreamInv, StreamTypeOK, Id, Ascending, NoRepeat
<1> QED BY StreamInvInit, StreamInvNext, <1>1, PTL DEF StreamSpec

-----------------------------------------------------------------------------
Logs == events \in [Conversation -> Seq(Event)]
Typed == TypeOK /\ Logs

(* A conversation's log, one event longer. *)
LEMMA Appended ==
    ASSUME NEW w \in Seq(Event), NEW e \in Event
    PROVE  /\ Append(w, e) \in Seq(Event) /\ Len(w) \in Nat
           /\ Len(Append(w, e)) = Len(w) + 1
           /\ Append(w, e)[Len(w) + 1] = e
           /\ \A n \in 1..Len(w) : Append(w, e)[n] = w[n]
           /\ Append(w, e) # <<>>
OBVIOUS

LEMMA Emptiness ==
    ASSUME NEW w \in Seq(Event)
    PROVE  Len(w) \in Nat /\ (w = <<>> <=> Len(w) = 0) /\ \A n \in 1..Len(w) : w[n] \in Event
OBVIOUS

LEMMA NoEvent == <<>> \in Seq(Event) /\ Len(<<>>) = 0
OBVIOUS

(* What the server adds to a conversation leaves the others alone and puts *)
(* the page behind.                                                        *)
LEMMA AddsOne ==
    ASSUME Typed, NEW c \in Conversation, NEW e \in Event, NEW new \in SUBSET Entry,
           Adds(c, e, new)
    PROVE  /\ Logs'
           /\ \A d \in Conversation : Len(events'[d]) \in Nat /\ Len(events'[d]) <= MaxLog
           /\ Len(events'[c]) = Len(events[c]) + 1 /\ events'[c][Len(events'[c])] = e /\ events'[c] # <<>>
           /\ \A d \in Conversation \ {c} : events'[d] = events[d] /\ stored'[d] = stored[d]
           /\ stored' \in [Conversation -> SUBSET Entry]
<1> USE WorkbenchConstants DEF Typed, TypeOK, Logs
<1>1. events[c] \in Seq(Event) /\ Len(events[c]) < MaxLog /\ events'[c] = Append(events[c], e)
      /\ events' = [events EXCEPT ![c] = Append(@, e)]
  BY DEF Adds
<1>2. /\ events'[c] \in Seq(Event) /\ Len(events[c]) \in Nat
      /\ Len(events'[c]) = Len(events[c]) + 1 /\ events'[c][Len(events[c]) + 1] = e /\ events'[c] # <<>>
  BY <1>1, Appended
<1>3. \A d \in Conversation \ {c} : events'[d] = events[d] /\ stored'[d] = stored[d]
  BY <1>1 DEF Adds
<1>4. Logs'
  BY <1>1, <1>2
<1>5. \A d \in Conversation : Len(events[d]) \in Nat
  BY Emptiness
<1>6. \A d \in Conversation : Len(events'[d]) \in Nat /\ Len(events'[d]) <= MaxLog
  BY <1>1, <1>2, <1>3, <1>5
<1>7. stored' \in [Conversation -> SUBSET Entry]
  BY DEF Adds
<1> QED BY <1>2, <1>3, <1>4, <1>6, <1>7

(* A load that has just begun, and one that has been served. *)
Load == [of : Conversation, page : (SUBSET Entry) \cup {None}]

LEMMA OneLoad ==
    ASSUME NEW c \in Conversation, LoadMessages(c)
    PROVE  loads' \subseteq Load
<1> DEFINE Page == (SUBSET Entry) \cup {None}
<1>1. None \in Page
  OBVIOUS
<1> HIDE DEF Page
<1>2. [of |-> c, page |-> None] \in [of : Conversation, page : Page]
  BY <1>1
<1> QED BY <1>2 DEF LoadMessages, Load, Page

LEMMA LoadFields ==
    ASSUME NEW l \in Load
    PROVE  l.of \in Conversation /\ l.page \in (SUBSET Entry) \cup {None}
BY DEF Load

LEMMA TypeInit == Init => Typed
<1> SUFFICES ASSUME Init PROVE Typed
  OBVIOUS
<1>1. events = [c \in Conversation |-> <<>>]
  BY DEF Init
<1>2. Logs /\ \A c \in Conversation : events[c] \in Seq(Event) /\ Len(events[c]) = 0
  BY <1>1, NoEvent DEF Logs
<1>3. PICK first \in Conversation : listed = {first} /\ active = first
  BY DEF Init
<1>4. /\ stored \in [Conversation -> SUBSET Entry] /\ shown \in [Conversation -> SUBSET Entry]
      /\ open \subseteq Conversation /\ running \in BOOLEAN /\ offline \in BOOLEAN
      /\ loads = {} /\ sends = {} /\ sent \subseteq Message /\ faults \in Nat /\ seen = 0
  BY DEF Init
<1>5. listed \subseteq Conversation /\ active \in listed /\ active # None
  BY WorkbenchConstants, <1>3
<1>6. \A c \in Conversation : Len(events[c]) <= MaxLog /\ seen \in 0..Len(events[c])
  <2> SUFFICES ASSUME NEW c \in Conversation
               PROVE  Len(events[c]) <= MaxLog /\ seen \in 0..Len(events[c])
    OBVIOUS
  <2>1. Len(events[c]) = 0 /\ seen = 0 /\ MaxLog \in Nat
    BY WorkbenchConstants, <1>2, <1>4
  <2> QED BY <2>1
<1> QED BY <1>2, <1>4, <1>5, <1>6 DEF Typed, TypeOK

LEMMA TypeNext == Typed /\ [Next]_vars => Typed'
<1> SUFFICES ASSUME Typed, [Next]_vars PROVE Typed'
  OBVIOUS
<1>0. \A c \in Conversation : events[c] \in Seq(Event) /\ Len(events[c]) \in Nat
  BY Emptiness DEF Typed, Logs
<1> DEFINE Rest == /\ open' \subseteq Conversation
                   /\ listed' \subseteq Conversation /\ active' \in listed' \cup {None}
                   /\ active' = None => listed' = {}
                   /\ running' \in BOOLEAN /\ offline' \in BOOLEAN
                   /\ shown' \in [Conversation -> SUBSET Entry]
                   /\ loads' \subseteq Load
                   /\ sends' \subseteq [to : Conversation, msg : Message]
                   /\ sent' \subseteq Message
                   /\ faults' \in Nat
           Served == /\ events' = events /\ stored' = stored
                     /\ active' # None => seen' \in 0..Len(events[active'])
<1>a. ASSUME Rest, Served PROVE Typed'
  BY <1>a DEF Typed, TypeOK, Logs, Load
<1>b. ASSUME Rest, NEW c \in Conversation, NEW e \in Event, NEW new \in SUBSET Entry,
             Adds(c, e, new), UNCHANGED view
      PROVE  Typed'
  <2>1. /\ Logs'
        /\ \A d \in Conversation : Len(events'[d]) \in Nat /\ Len(events'[d]) <= MaxLog
        /\ Len(events'[c]) = Len(events[c]) + 1
        /\ \A d \in Conversation \ {c} : events'[d] = events[d]
        /\ stored' \in [Conversation -> SUBSET Entry]
    BY <1>b, AddsOne
  <2>2. active' # None => seen' \in 0..Len(events'[active'])
    <3>1. active' = active /\ seen' = seen
      BY <1>b DEF view
    <3>2. ASSUME active # None PROVE active \in Conversation /\ seen \in 0..Len(events[active])
      BY <3>2 DEF Typed, TypeOK
    <3> QED BY <1>0, <2>1, <3>1, <3>2
  <2>3. \A d \in Conversation : events'[d] \in Seq(Event)
    BY <2>1 DEF Logs
  <2> QED BY <1>b, <2>1, <2>2, <2>3 DEF Typed, TypeOK, Load
<1> HIDE DEF Rest, Served
<1> USE WorkbenchConstants DEF Typed, TypeOK, Load, server, view
<1>1. ASSUME NEW c \in Conversation, TaskAdvances(c) PROVE Typed'
  <2>1. Rest BY <1>1 DEF TaskAdvances, Rest
  <2> QED BY <1>1, <1>b, <2>1 DEF TaskAdvances, Event
<1>2. ASSUME NEW c \in Conversation, TaskEnds(c) PROVE Typed'
  <2>1. Rest BY <1>2 DEF TaskEnds, Rest
  <2>2. UNCHANGED view BY <1>2 DEF TaskEnds
  <2>3. ASSUME NEW m \in Message, NEW e \in {"ended", "waiting"}, Adds(c, e, {Reply(m)})
        PROVE  Typed'
    <3>1. {Reply(m)} \in SUBSET Entry /\ e \in Event
      BY DEF Event, Entry, Reply
    <3> QED BY <1>b, <2>1, <2>2, <2>3, <3>1
  <2>4. ASSUME NEW e \in {"ended", "failed"}, Adds(c, e, {})
        PROVE  Typed'
    BY <1>b, <2>1, <2>2, <2>4 DEF Event
  <2> QED BY <1>2, <2>3, <2>4 DEF TaskEnds, Unanswered
<1>3. ASSUME NEW l \in loads, Serve(l) PROVE Typed'
  <2>1. Rest BY <1>3 DEF Serve, Rest
  <2> QED BY <1>3, <1>a, <2>1 DEF Serve, Served
<1>4. ASSUME NEW l \in loads, Arrive(l) PROVE Typed'
  <2>1. l.of \in Conversation /\ l.page \in SUBSET Entry
    <3>1. l \in Load /\ l.page # None
      BY <1>4 DEF Arrive
    <3> QED BY <3>1, LoadFields
  <2>2. shown' \in [Conversation -> SUBSET Entry]
    BY <1>4, <2>1 DEF Arrive
  <2>3. Rest BY <1>4, <2>2 DEF Arrive, Rest
  <2> QED BY <1>4, <1>a, <2>3 DEF Arrive, Served
<1>5. ASSUME NEW l \in loads, LoadFails(l) PROVE Typed'
  <2>1. Rest BY <1>5 DEF LoadFails, Rest
  <2> QED BY <1>5, <1>a, <2>1 DEF LoadFails, Served
<1>6. CASE HandleEvent
  <2>0. active \in Conversation
    BY <1>6 DEF HandleEvent
  <2>3. loads' \subseteq Load
    BY <1>6, OneLoad, <2>0 DEF HandleEvent
  <2>4. running' \in BOOLEAN
    BY <1>6 DEF HandleEvent
  <2>1. Rest BY <1>6, <2>3, <2>4 DEF HandleEvent, Rest
  <2>2. Served BY <1>0, <1>6 DEF HandleEvent, Served
  <2> QED BY <1>a, <2>1, <2>2
<1>7. ASSUME NEW m \in Message, Send(m) PROVE Typed'
  <2>1. Rest BY <1>7 DEF Send, User, Entry, Rest
  <2> QED BY <1>7, <1>a, <2>1 DEF Send, Served
<1>8. ASSUME NEW s \in sends, Accept(s), UNCHANGED view, Rest PROVE Typed'
  <2>1. s.to \in Conversation /\ s.msg \in Message
    BY <1>8
  <2>2. {User(s.msg)} \in SUBSET Entry /\ {User(s.msg), Reply(s.msg)} \in SUBSET Entry
    BY <2>1 DEF User, Reply, Entry
  <2>3. Adds(s.to, "phase", {User(s.msg)}) \/ Adds(s.to, "ended", {User(s.msg), Reply(s.msg)})
    BY <1>8 DEF Accept
  <2> QED BY <1>b, <1>8, <2>1, <2>2, <2>3 DEF Event
<1>9. ASSUME NEW s \in sends, Answered(s) PROVE Typed'
  <2>1. Rest BY <1>9 DEF Answered, Accept, Rest
  <2> QED BY <1>8, <1>9, <2>1 DEF Answered
<1>10. ASSUME NEW s \in sends, AnswerLost(s) PROVE Typed'
  <2>0. open' \subseteq Conversation /\ sends' \subseteq sends
    BY <1>10 DEF AnswerLost, Accept
  <2>2. running' = FALSE /\ faults' \in Nat /\ UNCHANGED <<view, shown, loads, sent, offline>>
    BY <1>10 DEF AnswerLost, CatchSend
  <2>1. Rest BY <2>0, <2>2 DEF Rest
  <2> QED BY <1>8, <1>10, <2>1 DEF AnswerLost
<1>11. ASSUME NEW s \in sends, Refused(s) PROVE Typed'
  <2>1. Rest BY <1>11 DEF Refused, CatchSend, Rest
  <2> QED BY <1>11, <1>a, <2>1 DEF Refused, Served
<1>12. CASE Stop
  <2>1. Rest BY <1>12 DEF Stop, Rest
  <2> QED BY <1>12, <1>a, <2>1 DEF Stop, Served
<1>13. ASSUME NEW c \in Conversation, SelectConversation(c) PROVE Typed'
  <2>0. loads' \subseteq Load
    BY <1>13, OneLoad DEF SelectConversation
  <2>1. Rest BY <1>13, <2>0 DEF SelectConversation, Activate, Rest
  <2>2. Served BY <1>0, <1>13 DEF SelectConversation, Activate, StreamFor, Served
  <2> QED BY <1>a, <2>1, <2>2
<1>14. ASSUME NEW c \in Conversation, NewConversation(c) PROVE Typed'
  <2>1. Rest BY <1>14 DEF NewConversation, Activate, Rest
  <2>2. Served BY <1>0, <1>14 DEF NewConversation, Activate, StreamFor, Served
  <2> QED BY <1>a, <2>1, <2>2
<1>15. ASSUME NEW c \in Conversation, DeleteConversation(c) PROVE Typed'
  <2>1. Rest BY <1>15 DEF DeleteConversation, Activate, Rest
  <2>2. Served BY <1>0, <1>15 DEF DeleteConversation, Activate, StreamFor, Served
  <2> QED BY <1>a, <2>1, <2>2
<1>16. CASE Reload
  <2>1. Rest BY <1>16 DEF Reload, Rest
  <2>2. Served BY <1>0, <1>16 DEF Reload, Served
  <2> QED BY <1>a, <2>1, <2>2
<1>17. CASE UNCHANGED vars
  <2>1. Rest BY <1>17 DEF vars, Rest
  <2> QED BY <1>17, <1>a, <2>1 DEF vars, Served
<1> QED
  BY <1>1, <1>2, <1>3, <1>4, <1>5, <1>6, <1>7, <1>9, <1>10, <1>11, <1>12, <1>13, <1>14,
     <1>15, <1>16, <1>17 DEF Next

(* Variables keep their types: the page shows a listed conversation, or    *)
(* none when none is left, and its cursor is in that conversation's log.   *)
THEOREM TypeCorrect == Spec => []TypeOK
<1>1. Typed => TypeOK
  BY DEF Typed
<1> QED BY TypeInit, TypeNext, <1>1, PTL DEF Spec

-----------------------------------------------------------------------------
(* The latest event of a conversation. *)
Latest(c) == events[c][Len(events[c])]
CaughtUp == ~offline /\ active # None /\ seen > 0 /\ seen = Len(events[active])

(* While a conversation's log ends with a running phase, its task is under way. *)
PhaseIsOpen == \A c \in Conversation : events[c] # <<>> /\ Latest(c) = "phase" => c \in open

(* The mark of a page that has caught up is the latest event's, or that of *)
(* a message to it whose answer is still to come.                          *)
Awaited == \E s \in sends : s.to = active
MarkIsLatest == CaughtUp /\ running => Latest(active) = "phase" \/ Awaited

(* A page that has caught up with the end of a task has asked again, and   *)
(* no page that is still to arrive is older than that end.                 *)
EndIsLoaded ==
    CaughtUp /\ Latest(active) = "ended" =>
        /\ (\E l \in loads : l.of = active) \/ stored[active] \subseteq shown[active]
        /\ \A l \in loads : l.of = active /\ l.page # None => stored[active] \subseteq l.page

ViewInv == Typed /\ PhaseIsOpen /\ MarkIsLatest /\ EndIsLoaded

LEMMA ViewInit == Init => ViewInv
<1> SUFFICES ASSUME Init PROVE ViewInv
  OBVIOUS
<1>1. Typed
  BY TypeInit
<1> QED BY <1>1 DEF Init, ViewInv, PhaseIsOpen, MarkIsLatest, EndIsLoaded, CaughtUp

LEMMA ViewNext == ViewInv /\ [Next]_vars => ViewInv'
<1> SUFFICES ASSUME ViewInv, [Next]_vars PROVE ViewInv'
  OBVIOUS
<1>0. Typed /\ Typed'
  BY TypeNext DEF ViewInv
<1>a. /\ \A c \in Conversation : events[c] \in Seq(Event) /\ Len(events[c]) \in Nat
      /\ \A c \in Conversation : events[c] # <<>> <=> Len(events[c]) > 0
      /\ active # None => active \in Conversation /\ seen \in 0..Len(events[active])
  <2>1. active # None => active \in Conversation /\ seen \in 0..Len(events[active])
    BY <1>0 DEF Typed, TypeOK
  <2>2. \A c \in Conversation : events[c] \in Seq(Event)
    BY <1>0 DEF Typed, Logs
  <2> QED BY <2>1, <2>2, Emptiness
<1>b. PhaseIsOpen /\ MarkIsLatest /\ EndIsLoaded
  BY DEF ViewInv
<1>c. PhaseIsOpen' /\ MarkIsLatest' /\ EndIsLoaded' => ViewInv'
  BY <1>0 DEF ViewInv
(* An event that is added to a conversation. *)
<1>d. ASSUME NEW c \in Conversation, NEW e \in Event, NEW new \in SUBSET Entry,
             Adds(c, e, new), UNCHANGED <<view, shown, loads, offline>>,
             e = "phase" => c \in open', open \ {c} \subseteq open',
             running' => running, \A s \in sends : s.to # c => s \in sends'
      PROVE  ViewInv'
  <2>1. /\ Len(events'[c]) = Len(events[c]) + 1 /\ events'[c][Len(events'[c])] = e
        /\ \A d \in Conversation \ {c} : events'[d] = events[d] /\ stored'[d] = stored[d]
    BY <1>0, <1>d, AddsOne
  <2>2. PhaseIsOpen'
    BY <1>b, <1>d, <2>1 DEF PhaseIsOpen, Latest
  <2>3. CaughtUp' => CaughtUp /\ active # c /\ active' = active
    BY <1>a, <1>d, <2>1 DEF CaughtUp, view
  <2>4. active \in Conversation /\ active # c => Latest(active)' = Latest(active)
                                                 /\ stored'[active] = stored[active]
    BY <1>d, <2>1 DEF Latest, view
  <2>5. MarkIsLatest'
    BY <1>a, <1>b, <1>d, <2>3, <2>4 DEF MarkIsLatest, Awaited, CaughtUp, view
  <2>6. EndIsLoaded'
    BY <1>a, <1>b, <1>d, <2>3, <2>4 DEF EndIsLoaded, CaughtUp, view
  <2> QED BY <1>c, <2>2, <2>5, <2>6
(* The page comes to a conversation, with its first event ahead. *)
<1>e. ASSUME UNCHANGED server,
             \/ /\ UNCHANGED <<active, seen, running, offline, shown, sends>>
                /\ loads' = loads \/ LoadMessages(active)
             \/ seen' = 0
      PROVE  ViewInv'
  <2>1. PhaseIsOpen'
    BY <1>b, <1>e DEF PhaseIsOpen, Latest, server
  <2>2. MarkIsLatest'
    <3>1. CASE seen' = 0
      BY <3>1 DEF MarkIsLatest, CaughtUp
    <3>2. CASE seen' # 0
      BY <1>b, <1>e, <3>2 DEF MarkIsLatest, Awaited, CaughtUp, Latest, server
    <3> QED BY <3>1, <3>2
  <2>3. EndIsLoaded'
    <3>1. CASE seen' = 0
      BY <3>1 DEF EndIsLoaded, CaughtUp
    <3>2. CASE seen' # 0 /\ loads' = loads
      BY <1>b, <1>e, <3>2 DEF EndIsLoaded, CaughtUp, Latest, server
    <3>3. CASE seen' # 0 /\ LoadMessages(active)
      <4>1. /\ \E l \in loads' : l.of = active
            /\ \A l \in loads' : l.page = None
        BY <3>3 DEF LoadMessages
      <4> QED BY <1>e, <3>3, <4>1 DEF EndIsLoaded
    <3> QED BY <1>e, <3>1, <3>2, <3>3
  <2> QED BY <1>c, <2>1, <2>2, <2>3
(* The log and the page's place in it stay. *)
<1>f. ASSUME UNCHANGED <<server, view>>, offline' = offline \/ offline',
             running' => (running /\ sends' = sends) \/ Awaited' \/ offline',
             EndIsLoaded'
      PROVE  ViewInv'
  <2>1. PhaseIsOpen'
    BY <1>b, <1>f DEF PhaseIsOpen, Latest, server
  <2>2. MarkIsLatest'
    BY <1>b, <1>f DEF MarkIsLatest, Awaited, CaughtUp, Latest, server, view
  <2> QED BY <1>c, <1>f, <2>1, <2>2
<1>1. ASSUME NEW c \in Conversation, TaskAdvances(c) PROVE ViewInv'
  BY <1>1, <1>d DEF TaskAdvances, Event
<1>2. ASSUME NEW c \in Conversation, TaskEnds(c) PROVE ViewInv'
  <2>1. UNCHANGED <<view, running, shown, loads, sends, offline>> /\ open' = open \ {c}
    BY <1>2 DEF TaskEnds
  <2>2. ASSUME NEW m \in Message, NEW e \in {"ended", "waiting"}, Adds(c, e, {Reply(m)})
        PROVE  ViewInv'
    <3>1. {Reply(m)} \in SUBSET Entry /\ e \in Event /\ e # "phase"
      BY DEF Event, Entry, Reply
    <3> QED BY <1>d, <2>1, <2>2, <3>1
  <2>3. ASSUME NEW e \in {"ended", "failed"}, Adds(c, e, {})
        PROVE  ViewInv'
    <3>1. {} \in SUBSET Entry /\ e \in Event /\ e # "phase"
      BY DEF Event
    <3> QED BY <1>d, <2>1, <2>3, <3>1
  <2> QED BY <1>2, <2>2, <2>3 DEF TaskEnds, Unanswered
<1>3. ASSUME NEW l \in loads, Serve(l) PROVE ViewInv'
  <2>1. /\ loads' = (loads \ {l}) \cup {[l EXCEPT !.page = stored[l.of]]}
        /\ UNCHANGED <<server, view, running, shown, sends, offline>>
    BY <1>3 DEF Serve
  <2>2. l \in Load
    BY <1>0 DEF Typed, TypeOK, Load
  <2>3. PICK k \in loads' : k = [l EXCEPT !.page = stored[l.of]]
    BY <2>1
  <2>4. k.of = l.of /\ k.page = stored[l.of] /\ loads' = (loads \ {l}) \cup {k}
    BY <2>1, <2>2, <2>3 DEF Load
  <2>5. EndIsLoaded'
    BY <1>b, <2>1, <2>4 DEF EndIsLoaded, CaughtUp, Latest, server, view
  <2> QED BY <1>f, <2>1, <2>5
<1>4. ASSUME NEW l \in loads, Arrive(l) PROVE ViewInv'
  <2>1. /\ shown' = [shown EXCEPT ![l.of] = l.page] /\ l.page # None
        /\ loads' = loads \ {l}
        /\ UNCHANGED <<server, view, running, sends, offline>>
    BY <1>4 DEF Arrive
  <2>2. \A c \in Conversation : shown'[c] = IF c = l.of THEN l.page ELSE shown[c]
    BY <1>0, <2>1 DEF Typed, TypeOK
  <2>3. EndIsLoaded'
    BY <1>a, <1>b, <2>1, <2>2 DEF EndIsLoaded, CaughtUp, Latest, server, view
  <2> QED BY <1>f, <2>1, <2>3
<1>5. ASSUME NEW l \in loads, LoadFails(l) PROVE ViewInv'
  <2>1. EndIsLoaded'
    BY <1>5 DEF LoadFails, EndIsLoaded, CaughtUp
  <2> QED BY <1>5, <1>f, <2>1 DEF LoadFails
<1>6. CASE HandleEvent
  <2>1. /\ active \in Conversation /\ seen' = seen + 1
        /\ running' = (events[active][seen'] = "phase")
        /\ events[active][seen'] = "ended" => LoadMessages(active)
        /\ UNCHANGED <<server, active, shown, sends, offline>>
    BY <1>6, <1>a DEF HandleEvent
  <2>2. PhaseIsOpen'
    BY <1>b, <2>1 DEF PhaseIsOpen, Latest, server
  <2>3. CaughtUp' => Latest(active)' = events[active][seen']
    BY <2>1 DEF CaughtUp, Latest, server
  <2>4. MarkIsLatest'
    BY <2>1, <2>3 DEF MarkIsLatest
  <2>5. ASSUME LoadMessages(active)
        PROVE  /\ \E l \in loads' : l.of = active
               /\ \A l \in loads' : l.page = None
    BY <2>5 DEF LoadMessages
  <2>6. EndIsLoaded'
    BY <2>1, <2>3, <2>5 DEF EndIsLoaded
  <2> QED BY <1>c, <2>2, <2>4, <2>6
<1>7. ASSUME NEW m \in Message, Send(m) PROVE ViewInv'
  <2>1. /\ active \in Conversation
        /\ shown' = [shown EXCEPT ![active] = @ \cup {User(m)}]
        /\ Awaited' \/ offline'
        /\ UNCHANGED <<server, view, loads, offline>>
    <3>1. ~offline => [to |-> active, msg |-> m] \in sends'
      BY <1>7 DEF Send
    <3>2. Awaited' \/ offline'
      BY <1>7, <3>1 DEF Send, Awaited, view
    <3> QED BY <1>7, <1>a, <3>2 DEF Send
  <2>2. shown[active] \subseteq shown'[active]
    BY <1>0, <2>1 DEF Typed, TypeOK
  <2>3. EndIsLoaded'
    BY <1>b, <2>1, <2>2 DEF EndIsLoaded, CaughtUp, Latest, server, view
  <2> QED BY <1>f, <2>1, <2>3
<1>8. ASSUME NEW s \in sends, Accept(s), UNCHANGED <<view, shown, loads, offline>>,
             running' => running, sends' = sends \ {s}
      PROVE  ViewInv'
  <2>1. s.to \in Conversation /\ s.msg \in Message
    BY <1>0 DEF Typed, TypeOK
  <2>2. {User(s.msg)} \in SUBSET Entry /\ {User(s.msg), Reply(s.msg)} \in SUBSET Entry
    BY <2>1 DEF User, Reply, Entry
  <2>3. PICK e \in {"phase", "ended"}, new \in SUBSET Entry :
           Adds(s.to, e, new) /\ (e = "phase" => s.to \in open') /\ open \subseteq open'
    BY <1>8, <2>2 DEF Accept
  <2>4. e \in Event /\ (e = "phase" => s.to \in open') /\ open \ {s.to} \subseteq open'
        /\ \A r \in sends : r.to # s.to => r \in sends'
    BY <1>8, <2>3 DEF Event
  <2> QED BY <1>8, <1>d, <2>1, <2>3, <2>4
<1>9. ASSUME NEW s \in sends, Answered(s) PROVE ViewInv'
  <2>1. sends' = sends \ {s}
    BY <1>9 DEF Answered, Accept
  <2> QED BY <1>8, <1>9, <2>1 DEF Answered
<1>10. ASSUME NEW s \in sends, AnswerLost(s) PROVE ViewInv'
  <2>1. sends' = sends \ {s}
    BY <1>10 DEF AnswerLost, Accept
  <2> QED BY <1>8, <1>10, <2>1 DEF AnswerLost, CatchSend
<1>11. ASSUME NEW s \in sends, Refused(s) PROVE ViewInv'
  <2>1. EndIsLoaded'
    BY <1>b, <1>11 DEF Refused, EndIsLoaded, CaughtUp, Latest, server, view
  <2> QED BY <1>11, <1>f, <2>1 DEF Refused, CatchSend
<1>12. CASE Stop
  <2>1. EndIsLoaded'
    BY <1>b, <1>12 DEF Stop, EndIsLoaded, CaughtUp, Latest, server, view
  <2> QED BY <1>12, <1>f, <2>1 DEF Stop
<1>13. ASSUME NEW c \in Conversation, SelectConversation(c) PROVE ViewInv'
  BY <1>13, <1>e DEF SelectConversation, Activate, StreamFor
<1>14. ASSUME NEW c \in Conversation, NewConversation(c) PROVE ViewInv'
  BY <1>14, <1>e DEF NewConversation, Activate, StreamFor
<1>15. ASSUME NEW c \in Conversation, DeleteConversation(c) PROVE ViewInv'
  BY <1>15, <1>e DEF DeleteConversation, Activate, StreamFor
<1>16. CASE Reload
  BY <1>16, <1>e DEF Reload
<1>17. CASE UNCHANGED vars
  BY <1>17, <1>e DEF vars, view
<1> QED
  BY <1>1, <1>2, <1>3, <1>4, <1>5, <1>6, <1>7, <1>9, <1>10, <1>11, <1>12, <1>13, <1>14,
     <1>15, <1>16, <1>17 DEF Next

(* Once nothing is under way, a conversation is shown as running only if a *)
(* task runs in it.                                                        *)
THEOREM MarkIsTrue == Spec => []RunningIsOpen
<1>1. ViewInv => RunningIsOpen
  <2> SUFFICES ASSUME ViewInv, AtRest, events[active] # <<>>, running PROVE active \in open
    BY DEF RunningIsOpen
  <2>1. active \in Conversation /\ events[active] \in Seq(Event)
    BY DEF ViewInv, Typed, TypeOK, Logs, AtRest
  <2>2. seen = Len(events[active]) /\ seen > 0
    BY <2>1, Emptiness DEF AtRest
  <2> QED BY <2>1, <2>2 DEF ViewInv, PhaseIsOpen, MarkIsLatest, Awaited, CaughtUp, AtRest
<1> QED BY ViewInit, ViewNext, <1>1, PTL DEF Spec

(* Once nothing is under way and the latest task is at its end, everything *)
(* the conversation holds is in the timeline.                              *)
THEOREM EndIsShown == Spec => []CompletedIsShown
<1>1. ViewInv => CompletedIsShown
  <2> SUFFICES ASSUME ViewInv, AtRest, events[active] # <<>>, events[active][seen] = "ended"
               PROVE  stored[active] \subseteq shown[active]
    BY DEF CompletedIsShown
  <2>1. active \in Conversation /\ events[active] \in Seq(Event)
    BY DEF ViewInv, Typed, TypeOK, Logs, AtRest
  <2>2. seen = Len(events[active]) /\ seen > 0
    BY <2>1, Emptiness DEF AtRest
  <2> QED BY <2>1, <2>2 DEF ViewInv, EndIsLoaded, Latest, CaughtUp, AtRest
<1> QED BY ViewInit, ViewNext, <1>1, PTL DEF Spec
=============================================================================
