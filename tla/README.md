# RTypeNetCommon: models, checks and proofs

RTypeNetCommon is a header-only C++ networking library on top of asio: a
client/server pair over TCP with a handshake and framed messages, and a
connection class over UDP. This directory holds TLA+ models of it, the TLC
configurations that check them and the TLAPS proofs of what matters most.
Paths below are relative to `src/`.

## The system

| Part | Source | State | Operations |
|---|---|---|---|
| `TsQueue` | `include/NetTsqueue.hpp` | a deque, `mutex_`, `blockingMutex_`, a condition variable | `push_back`, `pop_front`, `empty`, `wait`, ... |
| `AConnection` | `include/NetAConnection.hpp` | owner, socket, outgoing queue, handshake values, id | `ConnectToClient`, `Disconnect`, `IsConnected`, `scramble` |
| `TcpConnection` | `include/NetTcpConnection.hpp` | the above, `tempIncomingMessage_` | `ConnectToServer`, `Send`, eight handlers |
| `ClientInterface` | `include/NetClient.hpp` | a context and its thread, one connection, the incoming queue | `ConnectToServer`, `Disconnect`, `Send` |
| `ServerInterface` | `include/NetServer.hpp` | a context and its thread, the acceptor, the list of clients, the incoming queue | `Start`, `Stop`, acceptor handler, `MessageClient`, `MessageAllClients`, `Update` |
| `AsyncTimer` | `include/NetCommon.hpp` | a map of callbacks, one detached thread per timer | `addTimer`, `removeTimer` |
| `message` | `include/NetMessage.hpp` | header (id, size), body | `operator<<`, `operator>>`, `size` |
| `UdpConnection`, `UdpClient`, `UdpServer` | `include/NetUdp*.hpp` | socket, `connected_`, `sending_`, `receiving_`, buffers, endpoints | `Connect`, `Disconnect`, `Reconnect`, `Send[Async]`, `Receive[Async]`, `Start`, `Stop` |
| `Singleton` | `include/Singleton.hpp` | an atomic pointer | `Construct`, `Destruct`, `GetInstance` |
| payloads | `include/RTypeNet.hpp`, `include/RTypeServerMessages.hpp` | none | layout, printing |

How they interact. An application thread calls `Send`, `Disconnect` and
`Update`; `Send` and `Disconnect` post a lambda to the `io_context`. A single
context thread per end runs these lambdas, the completion handlers of the
connections and, at the server, the acceptor's handler. Handlers push what they
read to `incomingTcpMessages_`, which the application empties. The handshake
timer closes a socket from a thread of its own; all servers of a process share
the one `AsyncTimer`, which every connection constructs if need be. The two ends
are linked by two byte streams. What applications send are structures, copied
into a message and out of it.

What is hard in it:

* threads: the queue's two locks, the double-checked lock of the singleton, the
  map of timers, the list of clients that both the context and the application
  change;
* ordering: chains of asynchronous writes and reads, each handler starting the
  next operation, over a stream without frame boundaries but its own;
* the handshake: a header and a handshake value are both eight bytes, and
  `Send` does not wait for the handshake;
* failure at any step: sockets closed by a handler, by the application, by the
  timer, by the peer; a context stopped with tasks still posted;
* state kept from one operation to the next: `tempIncomingMessage_`, the
  timers' ids, the UDP flags;
* sizes: the width of `header.size`, structures that both ends must lay out and
  unpack alike.

The hazards, each at its line, are listed in `PROJECT.json`.

What makes each part correct: the queue and each direction of a connection are
FIFO channels; a connection never has two reads or two message writes
outstanding and never forgets to continue; the server validates only who has
answered, rejects only who has sent too early, and settles with everybody in
time; a close at one end reaches the other; the list of clients holds every open
one, none twice and no null pointer, and its ids tell them apart; there is one
timer object, and no callback in it without a thread; a message gives back what
was packed; the flags of a UDP connection agree with its socket and with what is
outstanding on it, never stay up with nothing outstanding, and allow one send and
one receive at a time, which the code keeps until the first reconnection only.
Where two threads touch the same unlocked members, a promise is kept but for races
that the models name and record: `raced` in `Server` and in `Udp`.

## Modules

| Module | Models |
|---|---|
| `FifoChannel` | the abstract specification: `sent`, `received`, `closed`, with `Put`, `Get`, `Close` |
| `FifoChannelProofs` | what is received is a prefix of what was sent |
| `TsQueue` | `TsQueue` between context threads in `push_back` and application threads in `ServerInterface::Update` |
| `TsQueueProofs` | types, locks, the safe pop and the refinement of `FifoChannel` |
| `TcpConnection` | both ends of one connection with their applications, contexts, the timer and the network |
| `TcpConnectionProofs` | types and the invariant of the writer; no stalled queue, one operation of a kind, no validation without an answer; which challenges have the same answer |
| `TcpStreamProofs` | both directions: frames aligned, who is rejected, the refinement of `FifoChannel` |
| `MCTcpConnection` | `TcpConnection` with samples of `Scramble`, for TLC |
| `Scramble` | `AConnection::scramble` on 64-bit words |
| `Server` | the acceptor's handler, the list of clients, `MessageClient`, `MessageAllClients`, `Stop`, the life of each connection and of its timer |
| `ServerProofs` | types, the list and its ids, who is kept, who is cleaned up, whom the timer spares |
| `MCServer` | `Server` with the symmetry of its clients, for TLC |
| `Singleton` | the steps of `Construct`, `Destruct` and `GetInstance` |
| `Timers` | `AsyncTimer`, the singleton it is, and the connections of several servers that use it |
| `TimersProofs` | one object, there for its users, and no entry without a thread |
| `Payloads` | the layouts of the protocol's structures |
| `Message` | `operator<<` and `operator>>` of a message that is sent from end to end |
| `MessageProofs` | types, the body as a stack, what `operator>>` returns |
| `Udp` | one `UdpConnection`, as client or as server, with its application, context and network |
| `UdpProofs` | types, socket, flags, operations and buffer |

`TcpConnection` looks inside one connection and takes the server around it as
given; `Server` looks at many and takes what a connection does with its stream
as given. `Timers` composes `Singleton` with the timer and looks at several
servers of a process, and `Message`, on top of `Payloads`, at the inside of a
message. `Udp` stands alone.

### TsQueue

One variable per member (`queue`, and for each mutex its owner), a program
counter per thread, and for a thread in `Update` its `maxMessages` and
`messageCount`. Each acquisition of a lock is a step; a critical section that
takes no other lock is one step with its acquisition. So `push_back` is two
steps (`PushAppend` holds `mutex_` until `PushNotify`), `empty()` and
`pop_front()` are one each, and `wait()` is `WaitCheck`, `WaitLock`,
`WaitSleep`, `WaitReturn`, with spurious wake-ups. `pushed` and `handled` are
histories. A message is its number. `pop_front` on an empty deque is undefined
behaviour: the step is disabled, and `NoPopOnEmpty` says it is never asked for.

### TcpConnection

The state of each end is a function on `{"client", "server"}`. The members of
the class map to variables: `outgoingMessages_` to `outgoing`, `tcpSocket.is_open()`
to `open`, `handshakeIn_` and `tempIncomingMessage_.header` to `word`,
`tempIncomingMessage_.body` to `tempBody`. `posted` is what the
application posted to the context. An asynchronous operation is the variable
that says which handler is outstanding (`reading`, `writing`, `hsWrite`) and
how many words are still missing (`need`, `left`). A handler runs alone on its
context's thread and is one action: `HeaderWritten`, `BodyWritten`,
`ValidationWritten`, `HeaderRead`, `BodyRead`, `ChallengeRead`, `AnswerRead`,
`Connected`, and one for each way an operation fails. `TransferMessage`,
`TransferValidation` and `Receive` are the kernel moving one word at a time, so
a write or a read may be cut anywhere by a failure, a time-out or a close.

The unit of the stream is an eight-byte word, because a header and a handshake
value have this size. A word remembers the message it comes from and its
place, which the code cannot see: `Aligned` uses it to tell a reader that has
lost the frame boundary. A word read as a header that is not one can have any
size (`SizesIn`). Two writes can be outstanding at once (`handshakeOut_` and a
message); the older one goes first, but `async_write` is a chain of partial
writes, and the rest of a body that the kernel took only in part queues up
behind `handshakeOut_` (`behind`). A word itself is never cut.

Abstractions: the right answer to the challenge is a value no other word has
(`Scramble` computes it: a word there is the set of its one bits);
`Send` takes messages with `header.size` equal to the size of the body (a
message built with `operator<<`); the timer's look-up and call are one step;
one connection, one client; the server's `Stop` and the destruction of
connections are the subject of `Server`.

### Server

`list` is `activeTcpConnections_`, a sequence of connections in which a null
pointer is `NoClient`; a connection is named by its client. Three kinds of
threads change the state, and each step is what one of them does without the
others being able to tell its parts apart:

* the context: the acceptor's handler is `Approve` or `Deny` (with
  `OnClientConnect`), `PushBack`, `ConnectToClient` (with the next
  `async_accept`), three steps because the application reads and erases the list
  without a lock; `EndpointThrows` is `remote_endpoint()` of a client that has
  left. The handlers of a connection are `Validate`, `MessageRead`, `Written`
  and `Close`, each chosen at any moment an operation is outstanding; the close
  that `Disconnect` posts is one more way to `Close`;
* the application: `MessageAllClients` is a loop with a step for each element
  (`VisitOpen`, `VisitClosed`), which takes the end of the list when it begins.
  `erase(remove(begin(), end(), ...), end())`, there and in `MessageClient`, is
  two steps: `std::remove` (`RemoveNulls`, in `Visited` and in `MessageClient`)
  moves the elements and `Erase` cuts off what it leaves, up to an `end()` that the
  compiler may have taken before or after. A `PushBack` may come between them, the
  new connection be cut off with the nulls, and `back()` be another or none.
  `raced` records that the acceptor's handler was between `push_back` and `back()`
  while the application was between `remove` and `erase`. `Stop` and `Joined`;
  `Hold` and `Release` are the `shared_ptr`s the application takes and drops;
* a timer: `TimerWakes` is the `find` in `callbacks_`, `TimerLooks` the
  `operator[]`, `TimerCalls` the `close()` of the callback it got, `TimerErases`
  the `erase`. `removeTimer` fits between any two: before the look-up, the
  function is empty and throws; after it, the callback closes a validated
  connection, or is a function destroyed under its call.

What the language leaves undefined is a choice: a `push_back` during a loop
over the list or an erase, an `erase` with an iterator it has invalidated, a
`back()` of an empty list, and a handler or a timer that uses a connection whose
last `shared_ptr` is gone (`Destroyed`), either do no harm or end the program
(`running`). Abstractions: one operation on the list (one call of a `deque` or of
an algorithm on it) or on the map is atomic, and what data races could make of it
inside is left out; callbacks of the application call nothing back; a connection
that was denied is not kept; `IDCounter` starts at 1 and not at 10000; a client
comes once; destruction of the server and a second `Start` are left out.

### Singleton and Timers

`Singleton` gives each operation step by step for a thread that goes from one
place of its program to the next: the load without the lock, the second load
with it, and for `Destruct` the deletion and the store of null, between which
the lock is held. Objects are numbered. `Timers` has the threads: for each
server its context (`NewConnection` with the `Construct` of the constructor,
`GetInstance` before `addTimer` and before `removeTimer`, `Answered` and
`Failed` for the read of the answer), for each timer its own (`TimerWakes`,
`TimerLooks`, `TimerCalls`, `TimerErases`: the `find`, the `operator[]`, the
call, the `erase`), and an application that may call `Destruct`. The map is
destroyed with its object (`Destructs`), and threads that sleep on find nothing
in it. Connections of different servers have the same ids, because each server
counts from the same number; here from 1 and not from 10000. The use of a
deleted object, and a callback whose entry is overwritten or erased under its
call, do no harm or end the program; the use of a null pointer and the call of
an empty function end it. Abstractions: a server handles one connection's step
at a time and its list is left out; each operation on the map, which has no
lock, is atomic; `addTimer` and the start of its thread are one step; clients of
one process that construct the timer and never use it are left out.

### Message and Payloads

`Payloads` computes the size of each structure from its members, as an x86-64
compiler lays them out; the sizes agree with those of g++. A byte of a `Message`
is the number of the structure it comes from and its offset in it, so that a
structure taken apart at the wrong place can be seen; `stack` is the history of the
structures in the message, with the place where each starts. `Push` is `operator<<`,
`Pull` is `operator>>`, for any type and at any moment; a body that is too short
wraps the index, `resize` throws, and `thrown` says so. `Send` carries the
message to the other end through that end's `tempIncomingMessage_`: `ReadHeader`
and `ReadBody` read what `header.size` announces, `WriteBody` has written all of
the body, and where the two differ the stream is lost (`framed`). `intact` is the
history that applications have unpacked what was on top and sent only what the
header can announce: without it the promises do not hold, and the run takes it
away in every way.

### Udp

`role` says which of `UdpClientInterface` and `UdpServerInterface` the object
is. Members map to variables of (nearly) the same name: `connected_`,
`_started`, `receiving_` and `sending_` (`busy`), `endpoint_`; `receiveBuffer_` is
its `size` and its capacity `allocated`, in units of 1024 bytes, which also tells
its allocations apart, because it only grows. `operations` are the asynchronous
operations outstanding on the socket, those of a kind in their order, and `ready`
the handlers the context will run; a completion remembers the number of the socket
it was started on, which the code does not, for `OwnErrorsOnly`.

The object has no lock and two threads call it: the application's, and the
context's from callbacks and posted tasks. So each access to the socket, a flag or
the buffer is a step, in the order of the code, and the other thread may come
between any two. `doing`, `at` and `target` say for each thread which call it is
in, where, and for which socket:

* `Connect` and `startHandler`: the test, then `Open`, `Bind`, for a server `Port`
  (`local_endpoint()`), `Resize`, for a server `SetStarted`, `SetConnected`. `open`
  of an open socket, `bind` of a closed or bound one and `local_endpoint()` of a
  closed one throw;
* `DisconnectInternal` and `stopHandler`: the test, then `Close`, `ClearConnected`
  or `ClearStarted`, `ClearReceiving`, `ClearSending`, `ClearBuffers`. `Reconnect` is
  this and `Connect`;
* `ReceiveAsync` and `SendAsync`: the test of the flag (`StartAsync`),
  `TestConnected`, `SetBusy`, `Begin`;
* `ConnectAsync`, `Start` and `Stop` test and then `Post`; the context tests again
  when it runs the task (`RunConnect`, `RunStart`, `RunStop`, `RunDisconnect`) and
  goes on as a call does;
* the receive handler: `ReceiveTaken` (`receiving_`), `ReceiveTested`
  (`connected_` and the error), the callback, `ReceiveCompared` and `ReceiveGrown`
  (the buffer's size and its resize), or `ReceiveFailed`, `ReceiveCancels` and
  `ReceivePosts` (`DisconnectInternalAsync`). During `onReceived` and `onError` the
  context's thread may itself call the object, as the documentation does with
  `ReceiveAsync` (`InCallback`). `SendHandled` is one step.

An exception ends the call it leaves, and on the context's thread `run()` with it:
no handler runs any more. `raced` records the calls that have overlapped in a way
the members do not survive: `"connection"` when both threads are opening or
closing, `"buffer"` when the application is while the receive handler is about to
grow the buffer, `"receive"` or `"send"` when both are between the test of that
flag and the start of the operation. Each property says which of them it needs
excluded. Closing or cancelling makes the aborted handlers ready in one step,
receives first; `endpoint_` is followed for a server only, where `startHandler`
binds to it after a receive has overwritten it. Statistics, error reports and the
contents of datagrams are left out.

## Runs

| Run | Instance | States | Shows |
|---|---|---|---|
| `tsqueue` | 2 producers, 1 consumer, `maxMessages` 1 or 3, wait or not, 4 pushes | 686 | `TypeOK`, `Locks`, `NoPopOnEmpty`, `UpdateIsFifo`, `PushReturns`, `PollingHandlesAll`; no deadlock |
| `tsqueue_lost_wakeup` | 1 producer, 2 pushes | violation | `wait()` can sleep on a queue that is not empty |
| `tcp_safety` | bodies of 0 or 2 words, 2 messages in all | 1 481 872 | types, `Aligned`, `ValidatedHasAnswered`, `OnlyEarlySendersRejected`, `NoStalledQueue`, `OneOperationEach`, both directions implement `FifoChannel`; samples of `scramble` |
| `tcp_liveness` | bodies of 1 word, 2 messages in all | 418 352 | both directions deliver, the handshake settles, a close is noticed, `Disconnect` takes effect |
| `tcp_stale_body` | bodies of 0 or 1 word, 2 messages | violation | a message without body carries the previous body |
| `server` | 2 clients, symmetric | 1 643 735 | types, `ListSound`, `OpenStayListed`, `IdsTellApart`, `ClosedAreCleaned`, `TimerSparesValidated` |
| `server_stale_client` | 2 clients | violation | `MessageClient` leaves the closed client in the list |
| `udp` | client or server, 5 calls of two threads, buffer of 1 with limit 2 | 518 029 | types, `SocketKnown`, `FlagsCovered`, `OneOutstanding`, `BufferFits`, `StartedEnds` |
| `udp_freed_buffer` | the same, client | violation | the buffer is reallocated under an outstanding receive |
| `udp_reconnect` | the same, client | violation | a handler of the old socket closes the new one |
| `timers` | 2 servers, 2 connections of either or of both, 2 calls of `Destruct` | 192 890 | types, `OneObject`, `TimerIsThere`, `EntryHasThread`, `NoStalePointer`, `SilentIsClosed` |
| `message` | structures of 2, 20 and 65 bytes, header modulo 128, 3 packed, 3 hops | 675 675 | types, `StackKept`, `ReturnsTop` |

Bounds. `MaxPushes` and `MaxSends` bound the histories, nothing else. Four
pushes by two threads with `maxMessages` of one and three let `Update` stop at
its limit, at an empty queue, and start again. Two messages of zero or two words
let one message follow another in every phase of the handshake at either end, be
cut in the middle of the body, and cross one another; the framing has no memory
beyond one message, and a third message repeats these cases. The liveness run
has the same two messages, in any division between the ends, with bodies of one
word: sent together, the second queues behind the first and the reader has to go
on to it, before, during or after the handshake. Two clients are what the list
of the server needs to hold a closed one next to an open one, in both orders, to
be visited while the other is accepted, and to compare ids; nothing in the code
relates three. Their symmetry is used in the run without liveness properties
only. `MaxCalls` bounds the calls of a UDP object by both threads together: five
are two openings with a disconnection between, or one opening and a race of two
calls, and operations still outstanding or started next to them. A buffer of one
unit with a limit of two doubles once and then meets its limit. Two connections
are what it takes for two timers to share an id, or not to; two calls of
`Destruct` let the timers of a first and a second object meet a third.
`MaxConnections` and `MaxTotal` bound the connections of one server and of all,
`MaxDestructs` the calls. Two of the largest structures are too long for the
header; three structures let a message be emptied, filled again and unpacked
with a type that is too long for it or cuts two structures, and three hops bring
it back to an end whose `tempIncomingMessage_` holds an older body.
`HeaderRange` stands for 2^32. Deadlock is checked for the queue; connections
and servers may end, and are not checked for it.

Fairness. `io_context::run` runs a ready handler, the kernels move words and
report a closed peer, the acceptor is always armed again, the timer's thread
wakes: weak fairness of each end's `Progress`, of `Network` and of
`TimerFires`. Nothing is assumed of the applications, and a failure is never
forced, except that operations on a closed socket end. For the queue: weak
fairness of each thread, no fairness in the hand-over of a mutex, none for
spurious wake-ups. `PollingHandlesAll` supposes an application that polls, as in
`docs/TCPModule.md`; with `wait` the lost wake-up breaks it. For UDP: while
a thread has to go on in its call, a handler is ready or a send is outstanding, one
of them goes on (`GoesOn`, one weak fairness for all, because calls are bounded and
each step uses something up); nothing is assumed of the application, and a datagram
need not arrive. For the timers: each server goes on with the step it has begun, each
timer's thread wakes, `Destruct` ends; clients need not connect or answer. The
specification of `Server` states the fairness of its threads, but no
liveness property of it is checked.

## What the code does otherwise than it says

* `wait()` "Waits until Queue is not empty" (`include/NetTsqueue.hpp:133`); a
  push between the test and the sleep is not noticed.
* `header.size` is the "Size of the message" (`include/NetMessage.hpp:29`);
  `ReadHeader` leaves the previous body in a message of size 0.
* "Then physically remove it from the container" (`include/NetServer.hpp:126`);
  the pointer was reset before, so that nothing is removed, and the client is
  reported again with the next message.
* "The buffer of the received datagram" (`include/NetUdpConnection.hpp:375`);
  when `onReceived` calls `ReceiveAsync`, as in `docs/UDPModule.md:69`, the
  resize that follows may free the memory the new receive was given.
* "Reconnect to the server" (`include/NetUdpClient.hpp:81`); the aborted receive
  of the old socket disconnects the new one.

Modelled as the code has it, without a run of its own:

* "Client gave incorrect data" (`include/NetTcpConnection.hpp:202`): a client
  that sends before the handshake is over is rejected with right data.
  `OnlyEarlySendersRejected` says that nobody else is.
* "Disconnect from the server" (`include/NetClient.hpp:64`): the context may be
  stopped before the posted close runs, and the socket stays open.
  `DisconnectTakesEffect` says that this is the only way.
* `docs/TCPModule.md:291` packs `msg << Message1 << Message2` and line 328 unpacks
  `receivedMsg >> messageData1 >> messageData2`: `operator>>` gives the last
  structure first, which `ReturnsTop` states, so that `messageData1` would get
  bytes of both.
* Connections of two servers of a process with one id share an entry of the
  timer: a silent client may then never be timed out, or an active one be closed.
  `SilentIsClosed` leaves out exactly these.
* `Stop` of a UDP server leaves `connected_` set and its disconnection leaves
  `_started` set; a server started again after it has received binds to its last
  sender's address.
* A client that leaves the backlog early ends the server's `run()`; a timer and
  handlers may outlive the connection they point to, and a timer the object it is in.
* The timer's `find`, `operator[]` and call (`include/NetCommon.hpp:83-86`) do not
  exclude `removeTimer`: a time-out may call an empty function while the answer is
  validated, or close the connection just after. `TimerSparesValidated` says that it
  is spared once the look-up comes later.
* The list of clients has no lock: a `push_back` (`include/NetServer.hpp:97`) between
  the application's `remove` and `erase` (lines 166-167) may have the new, open
  connection cut off and destroyed, and `back()` be another. `OpenStayListed` and
  `ListSound` say that this is the only way.
* The flags of a `UdpConnection` are plain: `Connect` on the application's thread
  may find the socket opened by a posted one, `DisconnectInternal` may leave
  `connected_` on a socket it has closed, or a connection without a buffer, and
  `ReceiveAsync` on both threads may start two receives. `SocketKnown`,
  `BufferFits` and `OneOutstanding` hold when no such calls have overlapped.
* `AddEnemy_s` carries the `ClientShoot` of `Shoot_s` (`include/RTypeNet.hpp:323`);
  the sizes of the datagrams tell them apart (`DatagramSizesDiffer`).

## Proofs

All proofs are for any values of the constants, from the assumptions on
constants in the modules: disjoint sets of threads, limits of at least 1, sizes
and bounds in `Nat`, a null that is no client. All 22 invariants and 9 of
the 18 action and temporal properties of the passing runs are proved; the other
nine are liveness.

`TsQueueProofs`. Types and locks are inductive as they stand. `PopIsSafe`
assumes that there is one application thread at most, which is how the library
uses the queue; with two the pop is unsafe. The refinement needs
`NothingLost == pushed = handled \o queue`: `PushAppend` is then `Put`, `Pop` is
`Get`, everything else a stutter.

`TcpConnectionProofs`. `TypeOK` is not inductive: the word that
`TransferMessage` writes comes from the head of `outgoing`, which has to exist
and to be long enough. `Writers` adds that a write is outstanding only for the
head of the queue and has at most its words left. `ServerUnborn` says that
nothing has happened at the server's end before the acceptor's handler ran; with
it, an open socket with a queue has a write (`NoQueueStalls`). `Handshake` says
that the client reads nothing while it answers; with it, no operation is started
on top of another (`OneOperation`). `NoAnswerYet` says that before the client has
written its answer no word equal to it is on the wire or in the server's
`handshakeIn_`, because messages are `Numbered` from one and no word of a message
is an answer; hence `OnlyAnswersValidate`.

`TcpConnection` takes the right answer for a value that no other word has. At the
end of the module: `SwapDigits` moves each bit of the low seven bytes to a place
of its own (`Swapped`), so that a second exchange brings back every bit the masks
let through (`NoDigitIsLost`), and a key can be taken off again (`XorCancels`); hence
`AnswersAgree`, for all pairs of 64-bit words, and with it what the abstraction of
it leaves out: an answer is right for 256 challenges, those that
differ in the top byte. The challenge is the time in nanoseconds, whose top byte
changes every 2.3 years.

`TcpStreamProofs`. The stream of an end is its handshake word and then, message
by message in the order of `Send`, a header and a body; a *place* in it is a
message and a position, and `Follows` is the place after one. The argument has
four layers.

* `Queues`: the messages of an end are in one line. The first `flushed` of those
  sent have been written, `outgoing` is what comes next, and `posted` holds the
  rest in order, with tasks that close the socket anywhere between.
* `NextWritten` and `NextRead` are the places where the writer and the reader
  are, computed from `writing` and `left`, from `reading`, `need` and
  `incoming`. `Reader` says what the reader has in its hands: the header of the
  message it reads, and as many words of it as are not missing.
* `OnTrack`: the words on the wire are a `Piece` of the stream, from the reader's
  place to the writer's. Every step of the writer appends the word of its place,
  every step of the reader takes the word of its own.
* `Streams`: this holds of each direction whose reader still listens, but for a
  client that wrote a message before its answer. Its stream is `Spoiled`: the
  first word that the server will read is a header, and it gives up when it has.
  `Challenge` excludes this of a server: its challenge is pending before it can
  write anything else, and a write that has failed has closed the socket.

`FramesAligned` and `RejectsEarlySendersOnly` follow. For the refinement,
`BodyRead` and `HeaderRead` of a message without body are `Get`: the header they
push is the one of the next message sent. `Disconnect` and `Stop` are `Close`,
`Send` is `Put`.

`ServerProofs`. The invariant ties what the acceptor's handler is about to do to
what the application can do in between. `Admitted`: nothing of the server
refers to a client before it is accepted, so that `PushBack` brings in a new one
(`Distinct`). `Newcomer`: between the steps of the handler the connection is open,
because nothing of it has been started that could close it; it is therefore not
reset by a loop, and it stays the last of the list, which is why `back()` is right,
as long as nobody is between `remove` and `erase`. `LoopSound`: a loop stays within
the list, although the context adds to it, every null element is behind it, and
between `remove` and `erase` the nulls are exactly those from `erase.first` to
`erase.end`, which without a race is the end of the list: `Erase` then takes nothing
but nulls, whichever `end()` it uses, hence `OpenStayListed`. `RemoveNulls` says by a
bijection which order the elements that stay are in, because the provers know
nothing of `SelectSeq`. Ids need that the counter is ahead of all of them
(`IdsGiven`). `ClosedAreCleaned` needs `CleanedOrAhead`: what was closed when the
loop began is reported and out of the list, or still before the loop.
`TimerSparesValidated` needs that no callback of a validated connection is in the
map, and each under its own id (`CallbacksOwn`): a look-up after the validation
finds an empty function.

`UdpProofs`. The members agree between calls, so the invariant has to say what holds
in the middle of one: `Halfway`, of the socket and the flags at each place of a call
that opens or closes; while the calls of the two threads do not overlap (`RacesTold`:
what overlaps is recorded) one of them is halfway at most, and when none is the
members agree (`LifeCycle`). `SocketOps`: operations are outstanding on the socket
opened last, and on none that is closed. `FlagsCovered` is inductive with it: an
operation that is cancelled becomes a handler, and no step but its handler takes it
away. That there is one receive and one send at a time is not inductive: a flag
that is down must also mean that nothing is `Pending`, each kind must be pending once
(`Single`), and no thread but the one about to begin may hold the flag up
(`FlagsExact`). This holds until the first socket is closed only (`Fresh`,
`FirstSocket`), since then an aborted handler of the old socket takes the flag of the
new one. `BufferKept` adds to `BufferFits` that a handler about to grow the buffer
keeps to the limit, and that a connection about to be set has a buffer. `InPlace`
says which calls each class makes and that no handler of a server is posted to a
client, nor the reverse.

`TimersProofs`. A step does one of five things to the singleton (`Classified`): a
server constructs the object or goes on without changing it, `Destruct` does one
of its steps, or nothing happens to it. The types need `Counted`: without it
nothing bounds the objects by the calls of `Destruct`, and `callbacks` has no map
for one more. `OneObject` needs `Locked`: that null is stored over the object that
was deleted, by the one thread that holds the lock. `EntryHasThread` needs
`Fresh`: a connection on its way to `addTimer` has no thread yet, so that starting
one takes no thread away from another entry. `TimerIsThere` needs `Constructed`:
until `Destruct` is called, who has constructed the object or waits for an answer
has it.

`MessageProofs`. `StackKept` says of the body where each structure of the stack
starts and what its bytes are. It needs that the structures lie one behind the
other (`InOrder`), for otherwise a byte that `operator>>` cuts off could belong to
one below the top, and that the header tells the size of the body until an
application misuses the message (`HeaderTells`), for `ReadHeader` resizes by it.
That the header never promises more than the body has holds in any case, and the
types need it. `PullReturnsTop` is then a fact about the last bytes. The proofs
take from `Payloads` that no structure is empty (`PayloadsHaveBytes`): the sizes
are folds over lists of members, without a parameter, which TLC evaluates.

Only model-checked: the liveness properties, which are out of the prover's reach
(`PushReturns`, `PollingHandlesAll`, the five of `tcp_liveness`, `StartedEnds`,
`SilentIsClosed`).

## Plan

1. `TsQueue`, `TcpConnection` and their proofs: done, with `Aligned` and the
   refinement of `FifoChannel` in both directions.
2. `Server` and `Udp` and their proofs: done.
3. `Singleton`, `Timers`, `Payloads`, `Message`, `Scramble` and their proofs: done.
4. What is left: properties of several components at once, such as the timer of
   `Server` against the one of `Timers`, and what an application sees of its
   messages when `TcpConnection` and `Message` are put together.

## Not modelled

* Printing, logging, `GenerateUuid`, `getIp`, the build files, the example program
  and the placeholder test hold no behaviour to check.
* `front`, `back`, `pop_back`, `push_front`, `count` and `clear` of `TsQueue` between
  threads: the library uses `front` on the queue of one connection only, which a
  single thread touches, and the others nowhere.
* A second `ConnectToServer` or `Start`: the context was stopped and is not
  restarted, so `run()` returns at once and nothing of the new connection
  happens; on a thread that was not joined the assignment ends the program.
* Name resolution and the exceptions of `ConnectToServer`, which come before there
  is a connection.
* The destruction of a `ServerInterface` with clients left, whose sockets outlive
  their context, and callbacks that call the server back from inside a loop over
  its list.
* `Stop` of a server whose application waits in `Update`: only a push wakes it.
* Statistics of `UdpConnection`, which nothing reads, and its error reports.
