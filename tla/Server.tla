--------------------------------- MODULE Server --------------------------------
(***************************************************************************)
(* ServerInterface (NetServer.hpp) and its clients: the acceptor's         *)
(* handler, the list activeTcpConnections_, MessageClient,                 *)
(* MessageAllClients and Stop, with the life of each TcpConnection object  *)
(* and of its handshake timer (AsyncTimer).                                *)
(*                                                                         *)
(* Three kinds of threads meet here: the context's thread, which runs the  *)
(* acceptor's handler and the handlers of all connections, the             *)
(* application's thread, and one detached thread for each timer.  The list *)
(* and the timers' map have no lock: each operation on one of them is a    *)
(* step, with other threads between two.  What a connection does with its  *)
(* stream is the subject of TcpConnection: here it is only open or closed, *)
(* validated or not, with handlers outstanding.                            *)
(*                                                                         *)
(* The application calls from one thread, and its callbacks call nothing   *)
(* of the server.  A use of freed memory or of an iterator that a          *)
(* push_back has invalidated either does no harm or ends the program.      *)
(***************************************************************************)
EXTENDS Naturals, Sequences, FiniteSets, SequencesExt

CONSTANTS Clients,    \* those who may connect, once each
          NoClient    \* a null shared_ptr

ASSUME ClientsAssumption == NoClient \notin Clients

VARIABLES
  server,      \* "running", "stopping" (in Stop), "stopped"
  running,     \* the program has not been ended by an exception or a fault
  armed,       \* async_accept is outstanding
  at,          \* the context, in the acceptor's handler: "approved", "listed"
  new,         \* newConnection of that handler
  visit,       \* of each client: "away", "backlog", "left" (with its entry still in
               \* the backlog), "accepted", "denied"
  open,        \* connections whose tcpSocket.is_open()
  id,          \* id_ of each connection, 0 before ConnectToClient
  IDCounter,   \* IDCounter_, from 1 instead of 10000
  list,        \* activeTcpConnections_
  held,        \* connections the application has a shared_ptr to, be it in
               \* incomingTcpMessages_
  handlers,    \* outstanding for each connection, with this: the read of the
               \* answer, of a message, its writes and what Send has posted
  validated,   \* history: connections whose answer was right
  callbacks,   \* callbacks_: pairs of an id and the connection its callback closes
  timers,      \* their threads: the id, where it is, and what it calls, if it does
  loop,        \* MessageAllClients: the next element to visit, the last one, and
               \* invalidClientExists
  erase,       \* what std::remove has left to erase: from where, and the end() then
  closedThen,  \* history: connections already closed when that loop began
  reported,    \* history: connections OnClientDisconnect was called for
  raced        \* history: the acceptor's handler was between push_back and back()
               \* while the application was between remove and erase

contextVars == <<armed, at, new, visit, id, IDCounter>>
connectionVars == <<open, handlers, validated>>
timerVars == <<callbacks, timers>>
loopVars == <<loop, closedThen>>
eraseVars == <<erase, raced>>
vars == <<server, running, list, held, reported,
          contextVars, connectionVars, timerVars, loopVars, eraseVars>>

Idle == [next |-> 0, last |-> 0, invalid |-> FALSE]
NoErase == [first |-> 0, end |-> 0]
Kinds == {"answer", "read", "write"}
Threads == [id : Nat, at : {"sleeping", "found", "calling", "called"},
            calls : Clients \cup {NoClient}]

TypeOK ==
  /\ server \in {"running", "stopping", "stopped"}
  /\ running \in BOOLEAN
  /\ armed \in BOOLEAN
  /\ at \in {"idle", "approved", "listed"}
  /\ new \in Clients \cup {NoClient}
  /\ visit \in [Clients -> {"away", "backlog", "left", "accepted", "denied"}]
  /\ open \subseteq Clients /\ held \subseteq Clients
  /\ validated \subseteq Clients
  /\ reported \subseteq Clients
  /\ closedThen \subseteq Clients
  /\ id \in [Clients -> Nat] /\ IDCounter \in Nat
  /\ list \in Seq(Clients \cup {NoClient})
  /\ handlers \in [Clients -> SUBSET Kinds]
  /\ callbacks \subseteq Nat \X Clients
  /\ timers \subseteq Threads
  /\ loop \in [next : Nat, last : Nat, invalid : BOOLEAN]
  /\ erase \in [first : Nat, end : Nat]
  /\ raced \in BOOLEAN

\* Start has armed the acceptor and started the context's thread.
Init ==
  /\ server = "running" /\ running = TRUE
  /\ armed = TRUE /\ at = "idle" /\ new = NoClient
  /\ visit = [c \in Clients |-> "away"]
  /\ open = {} /\ held = {} /\ validated = {}
  /\ reported = {} /\ closedThen = {}
  /\ id = [c \in Clients |-> 0] /\ IDCounter = 1
  /\ list = <<>>
  /\ handlers = [c \in Clients |-> {}]
  /\ callbacks = {} /\ timers = {}
  /\ loop = Idle /\ erase = NoErase /\ raced = FALSE

Listed == {list[i] : i \in DOMAIN list} \ {NoClient}

(***************************************************************************)
(* Connections with a shared_ptr.  Handlers, posted tasks and the timer's  *)
(* callback hold a bare this; newConnection is moved into the list.        *)
(***************************************************************************)
Owned == Listed \cup held \cup {c \in {new} : at = "approved"}

Destroyed(c) == visit[c] = "accepted" /\ c \notin Owned

\* A step that drops pointers: the destructor of the last closes the socket.
PointersDrop == open' = open \cap Owned'

\* A step that uses a connection: destroyed, it may end the program.
Uses(c) == running' \in (IF Destroyed(c) THEN BOOLEAN ELSE {TRUE})

--------------------------------------------------------------------------------
(* The network. *)

Arrive(c) ==
  /\ running
  /\ visit[c] = "away"
  /\ visit' = [visit EXCEPT ![c] = "backlog"]
  /\ UNCHANGED <<server, running, list, held, reported, armed, at, new, id,
                 IDCounter, connectionVars, timerVars, loopVars, eraseVars>>

\* Later, this shows in the operations on the connection.
Leave(c) ==
  /\ running
  /\ visit[c] = "backlog"
  /\ visit' = [visit EXCEPT ![c] = "left"]
  /\ UNCHANGED <<server, running, list, held, reported, armed, at, new, id,
                 IDCounter, connectionVars, timerVars, loopVars, eraseVars>>

--------------------------------------------------------------------------------
(* The acceptor's handler, on the context's thread. *)

\* The context takes another handler.
Takes == running /\ server = "running" /\ at = "idle"

\* remote_endpoint() may throw when the client has left: out of run(), the end.
EndpointThrows(c) ==
  /\ Takes /\ armed
  /\ visit[c] = "left"
  /\ running' = FALSE
  /\ UNCHANGED <<server, list, held, reported, contextVars, connectionVars,
                 timerVars, loopVars, eraseVars>>

(***************************************************************************)
(* OnClientConnect gets the new connection and may keep it.                *)
(***************************************************************************)
Approve(c) ==
  /\ Takes /\ armed
  /\ visit[c] \in {"backlog", "left"}
  /\ visit' = [visit EXCEPT ![c] = "accepted"]
  /\ armed' = FALSE
  /\ at' = "approved" /\ new' = c
  /\ open' = open \cup {c}
  /\ held' \in {held, held \cup {c}}
  /\ UNCHANGED <<server, running, list, reported, id, IDCounter, handlers,
                 validated, timerVars, loopVars, eraseVars>>

\* Denied, the connection is destroyed, and the acceptor armed again.
Deny(c) ==
  /\ Takes /\ armed
  /\ visit[c] \in {"backlog", "left"}
  /\ visit' = [visit EXCEPT ![c] = "denied"]
  /\ armed' = TRUE
  /\ UNCHANGED <<server, running, list, held, reported, at, new, id, IDCounter,
                 connectionVars, timerVars, loopVars, eraseVars>>

\* A push_back invalidates the iterators of a loop or of an erase.
Iterating == loop # Idle \/ erase # NoErase

PushBack ==
  /\ running
  /\ at = "approved"
  /\ list' = Append(list, new)
  /\ at' = "listed"
  /\ running' \in (IF Iterating THEN BOOLEAN ELSE {TRUE})
  /\ raced' = (raced \/ erase # NoErase)
  /\ UNCHANGED <<server, held, reported, armed, new, visit, id, IDCounter,
                 connectionVars, timerVars, loopVars, erase>>

\* IDCounter_++ (mutated: IDCounter_, IDCounter_--).
SameId == IDCounter
PreviousId == IDCounter - 1
NextId == IDCounter + 1

(***************************************************************************)
(* back()->ConnectToClient: the id, the timer, the write of the challenge  *)
(* and the read of the answer.  The acceptor is armed again.  back() may   *)
(* be null, or another connection, or there may be none, when the          *)
(* application is erasing.                                                 *)
(***************************************************************************)
Handshake(c) ==
  IF c \in open
  THEN /\ id' = [id EXCEPT ![c] = IDCounter]
       /\ handlers' = [handlers EXCEPT ![c] = @ \cup {"answer", "write"}]
       /\ callbacks' = {e \in callbacks : e[1] # IDCounter} \cup {<<IDCounter, c>>}
       /\ timers' = timers \cup {[id |-> IDCounter, at |-> "sleeping", calls |-> NoClient]}
  ELSE UNCHANGED <<id, handlers, timerVars>>

ConnectToClient ==
  /\ running
  /\ at = "listed"
  /\ at' = "idle" /\ new' = NoClient /\ armed' = TRUE
  /\ IDCounter' = NextId
  /\ IF list # <<>> THEN /\ running' = (Last(list) # NoClient)
                         /\ Handshake(Last(list))
                    ELSE /\ running' \in BOOLEAN
                         /\ UNCHANGED <<id, handlers, timerVars>>
  /\ UNCHANGED <<server, list, held, reported, visit, open, validated,
                 loopVars, eraseVars>>

--------------------------------------------------------------------------------
(* The handlers of a connection, on the context's thread. *)

Runs(c, kind) == Takes /\ kind \in handlers[c]
Without(c, kind) == handlers' = [handlers EXCEPT ![c] = @ \ {kind}]

\* removeTimer before OnClientValidated (mutated: it is forgotten).
KeepTimer(c) == UNCHANGED callbacks
RemoveTimer(c) == callbacks' = {e \in callbacks : e[1] # id[c]}

\* The right answer.  The handler starts the next read.  What a handler of a
\* destroyed connection does is part of Close.
Validate(c) ==
  /\ Runs(c, "answer")
  /\ ~Destroyed(c)
  /\ handlers' = [handlers EXCEPT ![c] = (@ \ {"answer"}) \cup {"read"}]
  /\ RemoveTimer(c)
  /\ validated' = validated \cup {c}
  /\ UNCHANGED <<server, running, list, held, reported, contextVars, open,
                 timers, loopVars, eraseVars>>

\* A message goes to the queue with a shared_ptr to the connection.
MessageRead(c) ==
  /\ Runs(c, "read") /\ c \in open
  /\ held' = held \cup {c}
  /\ UNCHANGED <<server, running, list, reported, contextVars, connectionVars,
                 timerVars, loopVars, eraseVars>>

(***************************************************************************)
(* A handler that closes the socket: a wrong answer, an operation that     *)
(* fails, and with them the close that Disconnect posts, at any moment.    *)
(* The timer is left as it is.                                             *)
(***************************************************************************)
Close(c) ==
  /\ \E kind \in Kinds : Runs(c, kind) /\ Without(c, kind)
  /\ open' = open \ {c}
  /\ Uses(c)
  /\ UNCHANGED <<server, list, held, reported, contextVars, validated,
                 timerVars, loopVars, eraseVars>>

\* A write ends with no other to follow: the last of those outstanding.
Written(c) ==
  /\ Runs(c, "write") /\ c \in open
  /\ Without(c, "write")
  /\ UNCHANGED <<server, running, list, held, reported, contextVars, open,
                 validated, timerVars, loopVars, eraseVars>>

--------------------------------------------------------------------------------
(* The thread of a timer: find, operator[], the call, erase. *)

TimerGoes(t, from, to, c) ==
  /\ t.at = from
  /\ timers' = (timers \ {t}) \cup {[t EXCEPT !.at = to, !.calls = c]}

TimerEnds(t, from) == t.at = from /\ timers' = timers \ {t}

Entries(t) == {e \in callbacks : e[1] = t.id}

TimerWakes(t) ==
  /\ running
  /\ \/ Entries(t) # {} /\ TimerGoes(t, "sleeping", "found", NoClient)
     \/ Entries(t) = {} /\ TimerEnds(t, "sleeping")
  /\ UNCHANGED <<server, running, list, held, reported, contextVars,
                 connectionVars, callbacks, loopVars, eraseVars>>

\* Removed since it was found, the callback is an empty function: its call throws
\* out of the thread.
TimerLooks(t) ==
  /\ running
  /\ \/ \E e \in Entries(t) : TimerGoes(t, "found", "calling", e[2]) /\ UNCHANGED running
     \/ Entries(t) = {} /\ TimerEnds(t, "found") /\ running' = FALSE
  /\ UNCHANGED <<server, list, held, reported, contextVars, connectionVars,
                 callbacks, loopVars, eraseVars>>

\* The callback closes the socket.  Removed since it was looked up, it is a
\* function destroyed under its call.
TimerCalls(t) ==
  /\ running
  /\ TimerGoes(t, "calling", "called", t.calls)
  /\ open' = open \ {t.calls}
  /\ IF <<t.id, t.calls>> \in callbacks THEN Uses(t.calls) ELSE running' \in BOOLEAN
  /\ UNCHANGED <<server, list, held, reported, contextVars, handlers, validated,
                 callbacks, loopVars, eraseVars>>

TimerErases(t) ==
  /\ running
  /\ TimerEnds(t, "called")
  /\ callbacks' = callbacks \ Entries(t)
  /\ UNCHANGED <<server, running, list, held, reported, contextVars,
                 connectionVars, loopVars, eraseVars>>

--------------------------------------------------------------------------------
(* The application's thread. *)

Application == running /\ server # "stopping" /\ loop = Idle /\ erase = NoErase

Post(c, kind) == handlers' = [handlers EXCEPT ![c] = @ \cup {kind}]

\* A shared_ptr out of GetClients or GetClientById, or one that is dropped.
Hold(c) ==
  /\ Application
  /\ c \in Listed
  /\ held' = held \cup {c}
  /\ UNCHANGED <<server, running, list, reported, contextVars, connectionVars,
                 timerVars, loopVars, eraseVars>>

Release(c) ==
  /\ Application
  /\ held' = held \ {c} /\ c \in held
  /\ UNCHANGED <<server, running, list, reported, contextVars, handlers, validated,
                 timerVars, loopVars, eraseVars>>
  /\ PointersDrop

(***************************************************************************)
(* std::remove of null pointers: what it keeps moves to the front, in      *)
(* order (f leads from the new place of each to its old one), and leaves   *)
(* null pointers behind.                                                   *)
(***************************************************************************)
RemoveNulls ==
  LET Kept == {i \in DOMAIN list : list[i] # NoClient}
      kept == Cardinality(Kept)
  IN  /\ \E f \in Bijection(1..kept, Kept) :
            /\ \A i, j \in DOMAIN f : i < j => f[i] < f[j]
            /\ list' = [i \in DOMAIN list |-> IF i <= kept THEN list[f[i]] ELSE NoClient]
      /\ erase' = [first |-> kept + 1, end |-> Len(list)]
      /\ raced' = (raced \/ at = "listed")

(***************************************************************************)
(* erase, which ends the call of MessageClient or of MessageAllClients.    *)
(* Its second argument, end(), may be taken before remove or after it      *)
(* (mutated: nothing is erased, or one element too many).                  *)
(***************************************************************************)
EraseNothing(upto) == UNCHANGED list
EraseBefore(upto) ==
  list' = SubSeq(list, 1, erase.first - 2) \o SubSeq(list, upto + 1, Len(list))
EraseFrom(upto) ==
  list' = SubSeq(list, 1, erase.first - 1) \o SubSeq(list, upto + 1, Len(list))

Erase ==
  /\ running
  /\ erase # NoErase
  /\ \E upto \in {erase.end, Len(list)} : EraseFrom(upto)
  /\ erase' = NoErase /\ loop' = Idle /\ closedThen' = {}
  /\ running' \in (IF Len(list) # erase.end THEN BOOLEAN ELSE {TRUE})
  /\ UNCHANGED <<server, held, reported, contextVars, handlers, validated,
                 timerVars, raced>>
  /\ PointersDrop

\* The call for a closed client resets its pointer, and then removes what is
\* equal to it.
MessageClient(c) ==
  /\ Application
  /\ c \in held
  /\ IF c \in open
     THEN Post(c, "write") /\ UNCHANGED <<list, reported, eraseVars>>
     ELSE RemoveNulls /\ reported' = reported \cup {c} /\ UNCHANGED handlers
  /\ UNCHANGED <<server, running, held, contextVars, open, validated,
                 timerVars, loopVars>>

(***************************************************************************)
(* MessageAllClients: the loop takes the end of the list when it begins.   *)
(***************************************************************************)
MessageAllClients ==
  /\ Application
  /\ list # <<>>
  /\ loop' = [next |-> 1, last |-> Len(list), invalid |-> FALSE]
  /\ closedThen' = {c \in Listed : c \notin open}
  /\ UNCHANGED <<server, running, list, held, reported, contextVars,
                 connectionVars, timerVars, eraseVars>>

\* client && client->IsConnected() (mutated: the other way round).
IsClosed(c) == c \notin open
IsConnected(c) == c \in open

Visiting == running /\ loop # Idle /\ loop.next <= loop.last
Step(invalid) == loop' = [loop EXCEPT !.next = @ + 1, !.invalid = invalid]

\* An open client, which may be the one to ignore.
VisitOpen ==
  /\ Visiting
  /\ LET c == list[loop.next]
     IN  IsConnected(c) /\ (Post(c, "write") \/ UNCHANGED handlers)
  /\ Step(loop.invalid)
  /\ UNCHANGED <<server, running, list, held, reported, contextVars, open,
                 validated, timerVars, closedThen, eraseVars>>

\* A closed one is reported and reset (mutated: only reported).
KeepElement(i) == UNCHANGED list
ResetElement(i) == list' = [list EXCEPT ![i] = NoClient]

VisitClosed ==
  /\ Visiting
  /\ LET c == list[loop.next]
     IN  ~IsConnected(c) /\ reported' = reported \cup {c}
  /\ ResetElement(loop.next)
  /\ Step(TRUE)
  /\ UNCHANGED <<server, running, held, contextVars, connectionVars,
                 timerVars, closedThen, eraseVars>>

\* Elements that were reset are removed.  Without any, the call ends.
Visited ==
  /\ running
  /\ loop # Idle /\ loop.next > loop.last /\ erase = NoErase
  /\ IF loop.invalid THEN RemoveNulls /\ UNCHANGED loopVars
                     ELSE loop' = Idle /\ closedThen' = {} /\ UNCHANGED <<list, eraseVars>>
  /\ UNCHANGED <<server, running, held, reported, contextVars, connectionVars,
                 timerVars>>

\* Stop: the context takes no other handler, and join waits for the last one.
Stop ==
  /\ Application
  /\ server = "running"
  /\ server' = "stopping"
  /\ UNCHANGED <<running, list, held, reported, contextVars, connectionVars,
                 timerVars, loopVars, eraseVars>>

Joined ==
  /\ running
  /\ server = "stopping" /\ at = "idle"
  /\ server' = "stopped"
  /\ UNCHANGED <<running, list, held, reported, contextVars, connectionVars,
                 timerVars, loopVars, eraseVars>>

--------------------------------------------------------------------------------
Accept(c) == EndpointThrows(c) \/ Approve(c) \/ Deny(c)
Context(c) == Validate(c) \/ MessageRead(c) \/ Close(c) \/ Written(c)
Timer(t) == TimerWakes(t) \/ TimerLooks(t) \/ TimerCalls(t) \/ TimerErases(t)
Calls(c) == Hold(c) \/ Release(c) \/ MessageClient(c)
Loop == VisitOpen \/ VisitClosed \/ Visited

Next == \/ \E c \in Clients : Arrive(c) \/ Leave(c) \/ Accept(c) \/ Context(c)
                              \/ Calls(c)
        \/ \E t \in timers : Timer(t)
        \/ PushBack \/ ConnectToClient
        \/ MessageAllClients \/ Loop \/ Erase
        \/ Stop \/ Joined

(***************************************************************************)
(* A handler or a loop that has begun goes on, join returns when the       *)
(* context's thread has ended, and the acceptor's handler gets its turn    *)
(* among the others.                                                       *)
(***************************************************************************)
Fairness == /\ WF_vars(PushBack) /\ WF_vars(ConnectToClient)
            /\ \A c \in Clients : WF_vars(Accept(c))
            /\ WF_vars(Loop \/ Erase) /\ WF_vars(Joined)

Spec == Init /\ [][Next]_vars /\ Fairness

--------------------------------------------------------------------------------
(***************************************************************************)
(* The list is sound under its two writers: no null element outside a call *)
(* that removes some, where GetClientById would follow it; no connection   *)
(* twice; and back(), which the acceptor's handler asks for after its      *)
(* push_back, is the connection it has pushed, unless the application was  *)
(* between remove and erase meanwhile.                                     *)
(***************************************************************************)
ListSound ==
  /\ ~Iterating => NoClient \notin Range(list)
  /\ \A i, j \in DOMAIN list : i # j /\ list[i] = list[j] => list[i] = NoClient
  /\ at = "listed" /\ ~raced => list # <<>> /\ Last(list) = new

(***************************************************************************)
(* A connection that is open stays in the list, and alive: neither remove  *)
(* nor erase, nor a message to another client, takes out what the context  *)
(* is still at work on, unless a push_back came between the two.           *)
(***************************************************************************)
OpenStayListed == [][~raced => open \cap Listed \subseteq Listed']_vars

(***************************************************************************)
(* Ids tell connections apart, and every connection of the list has one,   *)
(* but for the one that the acceptor's handler has not come to yet.        *)
(***************************************************************************)
IdsTellApart ==
  /\ \A c, d \in Clients : c # d /\ id[c] = id[d] => id[c] = 0
  /\ ~raced => \A c \in Listed \ {new} : id[c] # 0

(***************************************************************************)
(* Only closed connections are reported, and a call of MessageAllClients   *)
(* reports, and takes out of the list, all that were closed when it began, *)
(* whatever the context closes or adds meanwhile.                          *)
(***************************************************************************)
ClosedAreCleaned ==
  [][/\ reported' \cap open' = {}
     /\ loop # Idle /\ loop' = Idle => closedThen \subseteq reported \ Listed']_vars

(***************************************************************************)
(* A timer that looks its callback up after the client was validated does  *)
(* not get one that closes it, even if it had found one before.  (It ends  *)
(* the program then; and one that had looked it up before does close it.)  *)
(* Left out is a second handshake of the same connection, after the race   *)
(* of ListSound.                                                           *)
(***************************************************************************)
TimerSparesValidated ==
  [][~raced => \A t \in timers' \ timers :
                 t.at = "calling" => t.calls \notin validated]_vars

(***************************************************************************)
(* MessageClient takes a closed client out of the list.  (Violated: it     *)
(* resets its pointer first, and removes null elements.)                   *)
(***************************************************************************)
ReportedIsRemoved ==
  [][erase # NoErase /\ erase' = NoErase => reported \cap Listed' = {}]_vars
================================================================================
