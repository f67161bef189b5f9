---------------------------------- MODULE Udp ----------------------------------
(***************************************************************************)
(* One UdpConnection object (NetUdpConnection.hpp), as a UdpClientInterface *)
(* or as a UdpServerInterface, with the two threads that call it and the   *)
(* network: the application's, and the one that runs its io_context.       *)
(*                                                                         *)
(* Both may make any call, the context's from callbacks or from tasks the  *)
(* application posts.  The object has no lock: each access to its socket,  *)
(* its flags and its buffer is a step, in the order of the code, with the  *)
(* other thread between any two.  The context runs its handlers one by     *)
(* one, in the order they were posted or their operations completed.       *)
(* While both threads are in calls that do not go together, what is known  *)
(* of the object is lost: raced tells that this has happened.              *)
(*                                                                         *)
(* An exception ends the call it leaves, and on the context's thread run() *)
(* with it.  Sizes are whole numbers of some unit, of which BufferSize is  *)
(* 1024 bytes.  Statistics and error reports are left out.                 *)
(***************************************************************************)
EXTENDS Integers, Sequences

CONSTANTS Roles,        \* of the object: some of "client" and "server"
          BufferSize,   \* the first size of the receive buffer
          receiveBufferLimit,
          MaxCalls      \* bound: calls that pass their first test

ASSUME RolesAssumption == Roles \subseteq {"client", "server"}
ASSUME BufferAssumption ==
  BufferSize \in Nat /\ receiveBufferLimit \in Nat
  /\ 0 < BufferSize /\ BufferSize <= receiveBufferLimit
ASSUME BoundsAssumption == MaxCalls \in Nat

Threads == {"application", "context"}

VARIABLES
  role,        \* which of the two classes the object is of
  running,     \* no exception has left the context's run()
  socket,      \* socket_: "closed", "open", "bound"
  opens,       \* history: sockets opened so far, the number of the last one
  calls,       \* history: calls of the object so far
  connected,   \* connected_
  started,     \* _started, of a server
  busy,        \* receiving_ and sending_
  size,        \* receiveBuffer_.size()
  allocated,   \* receiveBuffer_.capacity(), which tells its allocations apart
  endpoint,    \* endpoint_ of a server: as "configured", or a datagram's "sender"
  operations,  \* asynchronous operations outstanding on the socket
  ready,       \* handlers the context has to run, oldest first
  doing,       \* the call each thread is in, or "nothing"
  at,          \* what it does next there
  target,      \* the socket that a disconnection was meant for
  phase,       \* what the context's thread does next of the receive handler
  current,     \* the completion that this handler runs for
  raced        \* history: the races that have happened

bufferVars == <<size, allocated>>
flagVars == <<connected, started, busy>>
threadVars == <<doing, at, target>>
handlerVars == <<phase, current>>
vars == <<role, running, socket, opens, endpoint, operations, ready, raced,
          bufferVars, flagVars, calls, threadVars, handlerVars>>

Sizes == 0..receiveBufferLimit
Completions == {"receive", "send"}
Posts == {"disconnect", "connect", "start", "stop"}

(***************************************************************************)
(* An operation remembers the socket it was started on and, for a receive, *)
(* the size and the allocation of the buffer it was given.                 *)
(***************************************************************************)
Operation == [socket : Nat, room : Sizes, storage : Sizes]

(***************************************************************************)
(* A handler that waits to run: a completion, with its error code and the  *)
(* length of the datagram, or something posted.  socket is the socket it   *)
(* was meant for.                                                          *)
(***************************************************************************)
Handler == [task : Completions \cup Posts, socket : Nat,
            result : {"ok", "aborted", "failed"}, length : Sizes]

Posted(what, for) == [task |-> what, socket |-> for, result |-> "ok", length |-> 0]
Completed(task, op, result, length) ==
  [task |-> task, socket |-> op.socket, result |-> result, length |-> length]
NoCompletion == Posted("disconnect", 0)

Calls == {"nothing", "connect", "disconnect", "stop", "post"} \cup Completions
Places == {"nowhere", "open", "bind", "port", "resize", "started", "connected", "close",
           "receive", "send", "clear", "busy", "begin"} \cup Posts
Phases == {"none", "test", "received", "grow", "failed", "cancel", "post"}
Races == {"connection", "buffer"} \cup Completions

TypeOK ==
  /\ role \in Roles
  /\ running \in BOOLEAN
  /\ socket \in {"closed", "open", "bound"}
  /\ opens \in Nat /\ calls \in Nat
  /\ connected \in BOOLEAN /\ started \in BOOLEAN
  /\ busy \in [Completions -> BOOLEAN]
  /\ size \in Sizes /\ allocated \in Sizes
  /\ endpoint \in {"configured", "sender"}
  /\ operations \in [Completions -> Seq(Operation)]
  /\ ready \in Seq(Handler)
  /\ doing \in [Threads -> Calls] /\ at \in [Threads -> Places]
  /\ target \in [Threads -> Nat]
  /\ phase \in Phases /\ current \in Handler
  /\ raced \subseteq Races

Init ==
  /\ role \in Roles
  /\ running = TRUE
  /\ socket = "closed" /\ opens = 0 /\ calls = 0
  /\ connected = FALSE /\ started = FALSE
  /\ busy = [task \in Completions |-> FALSE]
  /\ size = 0 /\ allocated = 0
  /\ endpoint = "configured"
  /\ operations = [task \in Completions |-> <<>>]
  /\ ready = <<>>
  /\ doing = [t \in Threads |-> "nothing"] /\ at = [t \in Threads |-> "nowhere"]
  /\ target = [t \in Threads |-> 0]
  /\ phase = "none" /\ current = NoCompletion
  /\ raced = {}

Sender == IF role = "server" THEN "sender" ELSE endpoint
Larger(a, b) == IF a < b THEN b ELSE a

--------------------------------------------------------------------------------
(* The threads in their calls. *)

Begins(t, call, place, number) ==
  /\ doing' = [doing EXCEPT ![t] = call]
  /\ at' = [at EXCEPT ![t] = place]
  /\ target' = [target EXCEPT ![t] = number]
Ends(t) == Begins(t, "nothing", "nowhere", 0)

In(t, call, place) == running /\ doing[t] = call /\ at[t] = place
Goes(t, place) == at' = [at EXCEPT ![t] = place] /\ UNCHANGED <<doing, target>>
Throws(t) == Ends(t) /\ running' = (t # "context")

(***************************************************************************)
(* A thread may call the object when it is in no other call of it.  In its *)
(* receive handler, the context's thread calls from onReceived or onError, *)
(* which is not called for an aborted operation.                           *)
(***************************************************************************)
InCallback == \/ phase = "received"
              \/ phase = "failed" /\ current.result # "aborted"
Free(t) == /\ running
           /\ doing[t] = "nothing"
           /\ t = "context" => phase = "none" \/ InCallback

\* The context's thread takes the handler of this kind at the head of its queue.
Runs(task) ==
  /\ running
  /\ doing["context"] = "nothing" /\ phase = "none"
  /\ ready # <<>> /\ Head(ready).task = task

(***************************************************************************)
(* What is outstanding when the socket is closed or its operations are     *)
(* cancelled: the handlers become ready with operation_aborted, receives   *)
(* before sends, the oldest first.                                         *)
(***************************************************************************)
Aborted(task) == [i \in DOMAIN operations[task] |->
                    Completed(task, operations[task][i], "aborted", 0)]
Cancelled ==
  /\ operations' = [task \in Completions |-> <<>>]
  /\ ready' = ready \o (Aborted("receive") \o Aborted("send"))

--------------------------------------------------------------------------------
(* Connect and startHandler, which are one but for _started.  Their tests  *)
(* are in Connect, RunConnect and RunStart, below.                         *)

Opening(t, place) == In(t, "connect", place)

\* open throws for a socket that is open.  A client has set its endpoint_ before.
Open(t) ==
  /\ Opening(t, "open")
  /\ \/ /\ socket = "closed"
        /\ socket' = "open" /\ opens' = opens + 1
        /\ Goes(t, "bind") /\ UNCHANGED running
     \/ /\ socket # "closed"
        /\ Throws(t) /\ UNCHANGED <<socket, opens>>
  /\ UNCHANGED <<role, endpoint, operations, ready, bufferVars, flagVars, calls,
                 handlerVars>>

(***************************************************************************)
(* bind throws for a socket that is not open any more, or bound already.   *)
(* startHandler binds to endpoint_.  This is the server's port until a     *)
(* datagram is received, then the address of its sender: the bind throws,  *)
(* or the socket gets another address.                                     *)
(***************************************************************************)
Bind(t) ==
  /\ Opening(t, "bind")
  /\ \/ /\ socket = "open"
        /\ socket' = "bound"
        /\ Goes(t, IF role = "server" THEN "port" ELSE "resize") /\ UNCHANGED running
     \/ /\ socket # "open" \/ (role = "server" /\ endpoint = "sender")
        /\ Throws(t) /\ UNCHANGED socket
  /\ UNCHANGED <<role, opens, endpoint, operations, ready, bufferVars, flagVars,
                 calls, handlerVars>>

\* local_endpoint(), of a server's socket.
Port(t) ==
  /\ Opening(t, "port")
  /\ \/ socket # "closed" /\ Goes(t, "resize") /\ UNCHANGED running
     \/ socket = "closed" /\ Throws(t)
  /\ UNCHANGED <<role, socket, opens, endpoint, operations, ready, bufferVars, flagVars,
                 calls, handlerVars>>

\* receiveBuffer_.resize: a larger allocation replaces a smaller one.
Grow(n) == size' = n /\ allocated' = Larger(allocated, n)

Resize(t) ==
  /\ Opening(t, "resize")
  /\ Grow(BufferSize)
  /\ Goes(t, IF role = "server" THEN "started" ELSE "connected")
  /\ UNCHANGED <<role, running, socket, opens, endpoint, operations, ready, flagVars,
                 calls, handlerVars>>

SetStarted(t) ==
  /\ Opening(t, "started")
  /\ started' = TRUE
  /\ Goes(t, "connected")
  /\ UNCHANGED <<role, running, socket, opens, endpoint, operations, ready, bufferVars,
                 connected, busy, calls, handlerVars>>

SetConnected(t) ==
  /\ Opening(t, "connected")
  /\ connected' = TRUE
  /\ Ends(t)
  /\ UNCHANGED <<role, running, socket, opens, endpoint, operations, ready, bufferVars,
                 started, busy, calls, handlerVars>>

--------------------------------------------------------------------------------
(* DisconnectInternal and stopHandler, after their tests.                  *)

\* close (mutated: it is forgotten).
KeepSocket == UNCHANGED <<socket, operations, ready>>
CloseSocket == socket' = "closed" /\ Cancelled

Close(t) ==
  /\ \/ In(t, "disconnect", "close") /\ Goes(t, "connected")
     \/ In(t, "stop", "close") /\ Goes(t, "started")
  /\ CloseSocket
  /\ UNCHANGED <<role, running, opens, endpoint, bufferVars, flagVars, calls,
                 handlerVars>>

ClearConnected(t) ==
  /\ In(t, "disconnect", "connected")
  /\ connected' = FALSE
  /\ Goes(t, "receive")
  /\ UNCHANGED <<role, running, socket, opens, endpoint, operations, ready, bufferVars,
                 started, busy, calls, handlerVars>>

\* _started (mutated: it is left as it is).
KeepStarted == UNCHANGED started
DropStarted == started' = FALSE

ClearStarted(t) ==
  /\ In(t, "stop", "started")
  /\ DropStarted
  /\ Goes(t, "receive")
  /\ UNCHANGED <<role, running, socket, opens, endpoint, operations, ready, bufferVars,
                 connected, busy, calls, handlerVars>>

Idle(task) == busy' = [busy EXCEPT ![task] = FALSE]

ClearReceiving(t) ==
  /\ In(t, "disconnect", "receive") \/ In(t, "stop", "receive")
  /\ Idle("receive")
  /\ Goes(t, "send")
  /\ UNCHANGED <<role, running, socket, opens, endpoint, operations, ready, bufferVars,
                 connected, started, calls, handlerVars>>

\* stopHandler ends here: it leaves connected_ and the buffer as they are.
ClearSending(t) ==
  /\ \/ In(t, "disconnect", "send") /\ Goes(t, "clear")
     \/ In(t, "stop", "send") /\ Ends(t)
  /\ Idle("send")
  /\ UNCHANGED <<role, running, socket, opens, endpoint, operations, ready, bufferVars,
                 connected, started, calls, handlerVars>>

\* After ClearBuffers the vector keeps its allocation.
ClearBuffers(t) ==
  /\ In(t, "disconnect", "clear")
  /\ size' = 0
  /\ Ends(t)
  /\ UNCHANGED <<role, running, socket, opens, endpoint, operations, ready, allocated,
                 flagVars, calls, handlerVars>>

--------------------------------------------------------------------------------
(* The calls, on either thread, with their first tests. *)

\* A call begins, and touches nothing but what is known of its thread.
Known == <<role, running, socket, opens, endpoint, operations, ready, bufferVars,
           flagVars, handlerVars>>
Called == calls < MaxCalls /\ calls' = calls + 1 /\ UNCHANGED Known

Connect(t) ==
  /\ Free(t) /\ role = "client"
  /\ ~connected
  /\ Begins(t, "connect", "open", 0)
  /\ Called

\* ConnectAsync, Start and Stop test, and post.
ConnectAsync(t) ==
  /\ Free(t) /\ role = "client"
  /\ ~connected
  /\ Begins(t, "post", "connect", 0)
  /\ Called

Start(t) ==
  /\ Free(t) /\ role = "server"
  /\ ~started
  /\ Begins(t, "post", "start", 0)
  /\ Called

Stop(t) ==
  /\ Free(t) /\ role = "server"
  /\ started
  /\ Begins(t, "post", "stop", 0)
  /\ Called

Post(t) ==
  /\ running
  /\ doing[t] = "post"
  /\ ready' = Append(ready, Posted(at[t], target[t]))
  /\ Ends(t)
  /\ UNCHANGED <<role, running, socket, opens, endpoint, operations, bufferVars,
                 flagVars, calls, handlerVars>>

(***************************************************************************)
(* Disconnect, or a synchronous Send or Receive that fails.  Reconnect is  *)
(* this and Connect.                                                       *)
(***************************************************************************)
Disconnect(t) ==
  /\ Free(t)
  /\ connected
  /\ Begins(t, "disconnect", "close", opens)
  /\ Called

\* A synchronous Receive of a datagram; the sender becomes endpoint_.
Receive(t) ==
  /\ Free(t)
  /\ connected /\ socket # "closed"
  /\ endpoint' = Sender
  /\ UNCHANGED <<role, running, socket, opens, operations, ready, bufferVars, flagVars,
                 calls, threadVars, handlerVars>>

\* ReceiveAsync and SendAsync test their flag (mutated: they do not).
StartsAlways(task) == TRUE
MayStart(task) == ~busy[task]

StartAsync(t, task) ==
  /\ Free(t)
  /\ MayStart(task)
  /\ Begins(t, task, "connected", 0)
  /\ Called

TestConnected(t, task) ==
  /\ In(t, task, "connected")
  /\ IF connected THEN Goes(t, "busy") ELSE Ends(t)
  /\ UNCHANGED <<calls, Known>>

SetBusy(t, task) ==
  /\ In(t, task, "busy")
  /\ busy' = [busy EXCEPT ![task] = TRUE]
  /\ Goes(t, "begin")
  /\ UNCHANGED <<role, running, socket, opens, endpoint, operations, ready, bufferVars,
                 connected, started, calls, handlerVars>>

\* A receive is given the whole buffer (mutated: as much as its limit).
LimitRoom == receiveBufferLimit
Room == size

Begun(task) ==
  [socket |-> opens, room |-> IF task = "receive" THEN Room ELSE 0,
   storage |-> IF task = "receive" THEN allocated ELSE 0]

\* On a closed socket the handler is ready at once, with an error.
Begin(t, task) ==
  /\ In(t, task, "begin")
  /\ \/ /\ socket = "closed"
        /\ ready' = Append(ready, Completed(task, Begun(task), "failed", 0))
        /\ UNCHANGED operations
     \/ /\ socket # "closed"
        /\ operations' = [operations EXCEPT ![task] = Append(@, Begun(task))]
        /\ UNCHANGED ready
  /\ Ends(t)
  /\ UNCHANGED <<role, running, socket, opens, endpoint, bufferVars, flagVars, calls,
                 handlerVars>>

--------------------------------------------------------------------------------
(* The network.  The operations of a kind complete in their order. *)

Completes(task, result, length) ==
  /\ running
  /\ operations[task] # <<>>
  /\ operations' = [operations EXCEPT ![task] = Tail(@)]
  /\ ready' = Append(ready, Completed(task, Head(operations[task]), result, length))
  /\ UNCHANGED <<role, running, socket, opens, bufferVars, flagVars, calls, threadVars,
                 handlerVars>>

\* A datagram, cut to the buffer if it is longer, ends a receive.
DatagramArrives ==
  /\ \E length \in Sizes :
        /\ Completes("receive", "ok", length)
        /\ length <= Head(operations["receive"]).room
  /\ endpoint' = Sender

ReceiveBreaks == Completes("receive", "failed", 0) /\ UNCHANGED endpoint

SendCompletes ==
  /\ \E result \in {"ok", "failed"} : Completes("send", result, 0)
  /\ UNCHANGED endpoint

--------------------------------------------------------------------------------
(* The handlers, on the context's thread. *)

Handled == UNCHANGED <<role, running, socket, opens, endpoint, calls>>

\* sending_ and receiving_ are reset first (mutated: not after an error).
ClearedByOk(task) == busy' = [busy EXCEPT ![task] = @ /\ Head(ready).result # "ok"]
Cleared(task) == Idle(task)

SendHandled ==
  /\ Runs("send")
  /\ Cleared("send")
  /\ ready' = Tail(ready)
  /\ Handled
  /\ UNCHANGED <<operations, bufferVars, connected, started, threadVars, handlerVars>>

ReceiveTaken ==
  /\ Runs("receive")
  /\ Cleared("receive")
  /\ phase' = "test" /\ current' = Head(ready)
  /\ ready' = Tail(ready)
  /\ Handled
  /\ UNCHANGED <<operations, bufferVars, connected, started, threadVars>>

\* The handler goes on, or ends.
InHandler(p) == running /\ doing["context"] = "nothing" /\ phase = p
Turns(p) == phase' = p /\ current' = IF p = "none" THEN NoCompletion ELSE current

\* An error, operation_aborted included, ends the connection.
ReceiveTested ==
  /\ InHandler("test")
  /\ Turns(IF ~connected THEN "none"
           ELSE IF current.result = "ok" THEN "received" ELSE "failed")
  /\ Handled
  /\ UNCHANGED <<operations, ready, bufferVars, flagVars, threadVars>>

(***************************************************************************)
(* onReceived has returned.  A datagram that fills the buffer doubles it,  *)
(* or ends the connection when the double is over the limit (mutated: when *)
(* the datagram is).                                                       *)
(***************************************************************************)
LengthOverLimit(length) == length > receiveBufferLimit
OverLimit(length) == 2 * length > receiveBufferLimit

ReceiveCompared ==
  /\ InHandler("received")
  /\ Turns(IF size # current.length THEN "none"
           ELSE IF OverLimit(current.length) THEN "failed" ELSE "grow")
  /\ Handled
  /\ UNCHANGED <<operations, ready, bufferVars, flagVars, threadVars>>

ReceiveGrown ==
  /\ InHandler("grow")
  /\ Grow(2 * current.length)
  /\ Turns("none")
  /\ Handled
  /\ UNCHANGED <<operations, ready, flagVars, threadVars>>

\* DisconnectInternalAsync: the test, the cancellation, the post.
ReceiveFailed ==
  /\ InHandler("failed")
  /\ Turns(IF connected THEN "cancel" ELSE "none")
  /\ Handled
  /\ UNCHANGED <<operations, ready, bufferVars, flagVars, threadVars>>

ReceiveCancels ==
  /\ InHandler("cancel")
  /\ Cancelled
  /\ Turns("post")
  /\ Handled
  /\ UNCHANGED <<bufferVars, flagVars, threadVars>>

ReceivePosts ==
  /\ InHandler("post")
  /\ ready' = Append(ready, Posted("disconnect", current.socket))
  /\ Turns("none")
  /\ Handled
  /\ UNCHANGED <<operations, bufferVars, flagVars, threadVars>>

\* The posted handlers make their first test, and go on as calls do.
Taken(task) ==
  /\ Runs(task)
  /\ ready' = Tail(ready)
  /\ Handled
  /\ UNCHANGED <<operations, bufferVars, flagVars, handlerVars>>

Continues(test, call, place, number) ==
  IF test THEN Begins("context", call, place, number) ELSE UNCHANGED threadVars

\* DisconnectInternal's test (mutated: the other way).
TestDisconnected == ~connected
TestToDisconnect == connected

RunDisconnect ==
  Taken("disconnect")
  /\ Continues(TestToDisconnect, "disconnect", "close", Head(ready).socket)
RunConnect == Taken("connect") /\ Continues(~connected, "connect", "open", 0)
RunStart == Taken("start") /\ Continues(~started, "connect", "open", 0)
RunStop == Taken("stop") /\ Continues(started, "stop", "close", 0)

--------------------------------------------------------------------------------
CallsOf(t) == \/ Connect(t) \/ ConnectAsync(t) \/ Start(t) \/ Stop(t)
              \/ Disconnect(t) \/ Receive(t)
              \/ \E task \in Completions : StartAsync(t, task)

Continue(t) == \/ Open(t) \/ Bind(t) \/ Port(t) \/ Resize(t)
            \/ SetStarted(t) \/ SetConnected(t)
            \/ Close(t) \/ ClearConnected(t) \/ ClearStarted(t)
            \/ ClearReceiving(t) \/ ClearSending(t) \/ ClearBuffers(t)
            \/ Post(t)
            \/ \E task \in Completions : \/ TestConnected(t, task)
                                         \/ SetBusy(t, task) \/ Begin(t, task)

Handle == \/ SendHandled \/ ReceiveTaken
          \/ RunDisconnect \/ RunConnect \/ RunStart \/ RunStop
          \/ ReceiveTested \/ ReceiveCompared \/ ReceiveGrown
          \/ ReceiveFailed \/ ReceiveCancels \/ ReceivePosts

Network == DatagramArrives \/ ReceiveBreaks \/ SendCompletes

(***************************************************************************)
(* The races: both threads opening or closing; the application doing so    *)
(* while the receive handler has found the buffer full; both starting the  *)
(* same operation.                                                         *)
(***************************************************************************)
Changes(t) == doing[t] \in {"connect", "disconnect", "stop"}

Overlaps ==
  {race \in Races :
     \/ race = "connection" /\ \A t \in Threads : Changes(t)
     \/ race = "buffer" /\ Changes("application") /\ phase = "grow"
     \/ race \in Completions /\ \A t \in Threads : doing[t] = race}

Step == \/ \E t \in Threads : CallsOf(t) \/ Continue(t)
        \/ Handle
        \/ Network

Tells == raced' = raced \cup Overlaps'

Next == Step /\ Tells

(***************************************************************************)
(* While a thread has to go on in its call, a datagram to leave or to fail *)
(* to, or a handler to run, one of them does: calls being bounded, each    *)
(* comes to its end then.  Nothing is assumed of the application, nor that *)
(* a datagram ever arrives.                                                *)
(***************************************************************************)
GoesOn == (\E t \in Threads : Continue(t)) \/ Handle \/ SendCompletes
Fairness == WF_vars(GoesOn /\ Tells)

Spec == Init /\ [][Next]_vars /\ Fairness

--------------------------------------------------------------------------------
(***************************************************************************)
(* The flags, the socket and its operations tell one story while calls of  *)
(* both threads change them one after the other: a client is connected     *)
(* exactly when its socket is open, so that Connect never opens a socket   *)
(* twice; a server's open socket is a started one.  The reverse does not   *)
(* hold of a server: Stop leaves it connected_, Disconnect leaves it       *)
(* _started.  If both have changed them at once, only this is left:        *)
(* operations are outstanding on the socket opened last, while it is open. *)
(***************************************************************************)
SocketKnown ==
  /\ \A task \in Completions : \A i \in DOMAIN operations[task] :
       socket # "closed" /\ operations[task][i].socket = opens
  /\ running /\ "connection" \notin raced /\ (\A t \in Threads : ~Changes(t)) =>
       /\ role = "client" => (socket # "closed" <=> connected)
       /\ role = "server" => (socket # "closed" => connected /\ started)

(***************************************************************************)
(* receiving_ and sending_ never stay up with nothing to take them down:   *)
(* a receive, or a send, is outstanding, or about to be, or its handler is *)
(* ready, whatever the two threads do.  If not, ReceiveAsync and SendAsync *)
(* would refuse for ever.                                                  *)
(***************************************************************************)
IsReady(task) == \E i \in DOMAIN ready : ready[i].task = task

FlagsCovered ==
  \A task \in Completions :
    busy[task] => \/ operations[task] # <<>> \/ IsReady(task)
                  \/ \E t \in Threads : doing[t] = task /\ at[t] = "begin"

(***************************************************************************)
(* The plain flags of ReceiveAsync and SendAsync keep a second operation   *)
(* off the first socket, but when both threads are in that call at once.   *)
(* (After a reconnection a handler of the old socket takes the new one's   *)
(* flag.)                                                                  *)
(***************************************************************************)
OneOutstanding ==
  \A task \in Completions :
    opens <= 1 /\ task \notin raced => Len(operations[task]) <= 1

(***************************************************************************)
(* The buffer stays within its limit through every growth and              *)
(* reconnection, a receive is never given more room than the allocation it *)
(* writes to, and a connection has a buffer, unless the threads have       *)
(* opened and closed at once, or one of them while the other was growing   *)
(* the buffer.                                                             *)
(***************************************************************************)
BufferFits ==
  /\ size <= allocated /\ allocated <= receiveBufferLimit
  /\ \A i \in DOMAIN operations["receive"] :
       operations["receive"][i].room <= operations["receive"][i].storage
  /\ {"connection", "buffer"} \cap raced = {} => (connected => size > 0)

(***************************************************************************)
(* The allocation an outstanding receive writes to is the one the vector   *)
(* still has.  (Violated: the resize after onReceived frees it, when       *)
(* onReceived has called ReceiveAsync as the documentation shows.)         *)
(***************************************************************************)
ReceivesIntoBuffer ==
  raced = {} => \A i \in DOMAIN operations["receive"] :
                   operations["receive"][i].storage = allocated

(***************************************************************************)
(* DisconnectInternal closes the connection it was asked to close.         *)
(* (Violated: after a reconnection the handlers left over from the old     *)
(* socket disconnect the new one.)                                         *)
(***************************************************************************)
OwnErrorsOnly ==
  [][\A t \in Threads :
       raced = {} /\ doing[t] = "disconnect" /\ at[t] = "close" /\ at'[t] # "close"
         => target[t] = opens]_vars

(***************************************************************************)
(* What was started ends, whatever happens to the datagram and to the      *)
(* connection meanwhile: sending_ comes down again, what                   *)
(* DisconnectInternalAsync posts ends in a connection that is not          *)
(* connected, and what Stop posts in a server that is not started.         *)
(***************************************************************************)
StartedEnds == /\ []<>(~busy["send"] \/ ~running)
               /\ IsReady("disconnect") ~> ~connected \/ ~running
               /\ IsReady("stop") ~> ~started \/ ~running
================================================================================
