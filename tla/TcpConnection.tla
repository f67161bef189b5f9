----------------------------- MODULE TcpConnection -----------------------------
(***************************************************************************)
(* One TCP connection between a ClientInterface and a ServerInterface: the *)
(* TcpConnection object of each end (NetTcpConnection.hpp on top of        *)
(* NetAConnection.hpp), from ConnectToServer to the closing of the         *)
(* sockets, with what the application, the asio contexts, the handshake    *)
(* timer and the network do to it.                                         *)
(*                                                                         *)
(* Each end runs its handlers on the single thread of its io_context, so a *)
(* handler is one atomic step; the application threads, the two contexts,  *)
(* the timer thread and the network interleave freely.                     *)
(*                                                                         *)
(* The unit of the byte stream is the eight-byte word: a handshake value   *)
(* (uint64_t) and a message_header are both one word, which is why a       *)
(* header can be mistaken for a handshake answer and the other way round.  *)
(* A body of n words is n units.  Units remember the message they belong   *)
(* to, so that a reader that lost the frame boundary can be seen.          *)
(***************************************************************************)
EXTENDS Naturals, Sequences, FiniteSets

CONSTANTS Sizes,       \* body sizes, in words, that applications send
          MaxSends     \* bound: messages the two ends send in a behaviour

Endpoint == {"client", "server"}

ASSUME SizesAssumption == Sizes \subseteq Nat
ASSUME MaxSendsAssumption == MaxSends \in Nat

Peer(e) == IF e = "client" THEN "server" ELSE "client"

(***************************************************************************)
(* A message as its sender builds it with operator<<, which keeps          *)
(* header.size equal to body.size(): size is both.  id is the position of  *)
(* the message among those its end sends.                                  *)
(***************************************************************************)
Message == [id : Nat, size : Nat]

(***************************************************************************)
(* The words on the wire: pos 0 is the header of message msg and carries   *)
(* its size, pos k is the k-th word of its body.  Validation is the        *)
(* challenge in the server's stream and its right answer in the client's.  *)
(***************************************************************************)
Unit == [msg : Nat, pos : Nat, size : Nat]
Validation == [msg |-> 0, pos |-> 0, size |-> 0]
HeaderOf(m) == [msg |-> m.id, pos |-> 0, size |-> m.size]
BodyUnit(m, k) == [msg |-> m.id, pos |-> k, size |-> 0]

(***************************************************************************)
(* The tasks an application thread posts to an io_context: Send's lambda   *)
(* carries a copy of the message, Disconnect's closes the socket.          *)
(***************************************************************************)
CloseTask == [id |-> 0, size |-> 0]

VARIABLES
  phase,      \* of the connection, as the network and the acceptor see it
  life,       \* of the client: "running", "leaving" (in Disconnect), "stopped"
  open,       \* tcpSocket.is_open() of each end
  sent,       \* history: the messages each application handed to Send
  posted,     \* tasks posted to each io_context and not yet run, oldest first
  outgoing,   \* outgoingMessages_
  flushed,    \* history: how many messages were popped from outgoing
  writing,    \* the message write whose handler has not run: header or body
  left,       \* words of that write not yet taken by the kernel
  hsWrite,    \* the same for the write of handshakeOut_
  behind,     \* that write waits behind a message write started before it
  wire,       \* words each end has sent and its peer has not read
  reading,    \* the outstanding read, or connect, whose handler has not run
  need,       \* words that read still waits for
  word,       \* the last word read to handshakeIn_ or tempIncomingMessage_.header
  tempBody,   \* tempIncomingMessage_.body: for each word, its message
  incoming,   \* all that was pushed to incomingTcpMessages_, oldest first
  verdict,    \* of the server on the client's answer
  timer       \* the server's five-second handshake timer

appVars == <<life, sent>>
writeVars == <<outgoing, flushed, writing, left, hsWrite, behind>>
readVars == <<reading, need, word, tempBody, incoming, verdict>>
vars == <<phase, open, posted, wire, timer, appVars, writeVars, readVars>>

Phases == {"connecting", "backlog", "accepted", "denied", "refused"}
Readings == {"none", "connect", "validation", "header", "body"}

TypeOK ==
  /\ phase \in Phases
  /\ life \in {"running", "leaving", "stopped"}
  /\ open \in [Endpoint -> BOOLEAN]
  /\ sent \in [Endpoint -> Seq(Message)]
  /\ posted \in [Endpoint -> Seq(Message)]
  /\ outgoing \in [Endpoint -> Seq(Message)]
  /\ flushed \in [Endpoint -> Nat]
  /\ writing \in [Endpoint -> {"none", "header", "body"}]
  /\ left \in [Endpoint -> Nat]
  /\ hsWrite \in [Endpoint -> {"none", "pending", "written", "done", "failed"}]
  /\ behind \in [Endpoint -> BOOLEAN]
  /\ wire \in [Endpoint -> Seq(Unit)]
  /\ reading \in [Endpoint -> Readings]
  /\ need \in [Endpoint -> Nat]
  /\ word \in [Endpoint -> Unit]
  /\ tempBody \in [Endpoint -> Seq(Nat)]
  /\ incoming \in [Endpoint -> Seq([id : Nat, size : Nat, body : Seq(Nat)])]
  /\ verdict \in {"none", "validated", "rejected"}
  /\ timer \in {"none", "armed", "removed", "fired"}

(***************************************************************************)
(* ClientInterface::ConnectToServer has built the TcpConnection, started   *)
(* async_connect (which opens the socket) and the context thread.  The     *)
(* server is listening; its end of the connection does not exist yet.      *)
(***************************************************************************)
Init ==
  /\ phase = "connecting"
  /\ life = "running"
  /\ open = [e \in Endpoint |-> e = "client"]
  /\ sent = [e \in Endpoint |-> <<>>]
  /\ posted = [e \in Endpoint |-> <<>>]
  /\ outgoing = [e \in Endpoint |-> <<>>]
  /\ flushed = [e \in Endpoint |-> 0]
  /\ writing = [e \in Endpoint |-> "none"]
  /\ left = [e \in Endpoint |-> 0]
  /\ hsWrite = [e \in Endpoint |-> "none"]
  /\ behind = [e \in Endpoint |-> FALSE]
  /\ wire = [e \in Endpoint |-> <<>>]
  /\ reading = [e \in Endpoint |-> IF e = "client" THEN "connect" ELSE "none"]
  /\ need = [e \in Endpoint |-> 0]
  /\ word = [e \in Endpoint |-> Validation]
  /\ tempBody = [e \in Endpoint |-> <<>>]
  /\ incoming = [e \in Endpoint |-> <<>>]
  /\ verdict = "none"
  /\ timer = "none"

(***************************************************************************)
(* The context of the end still runs its handlers: only the client's is    *)
(* stopped here, by ClientInterface::Disconnect.                           *)
(***************************************************************************)
Runs(e) == e = "server" \/ life # "stopped"

\* The kernels have completed the TCP handshake: words can be exchanged.
Linked == phase \in {"backlog", "accepted", "denied"}

\* The TcpConnection object of the end exists.
Exists(e) == e = "server" => phase = "accepted"

(***************************************************************************)
(* tcpSocket.close(), by a handler, by Disconnect's task, by the timer.    *)
(* Operations outstanding on the socket end with an error.                 *)
(***************************************************************************)
CloseSocket(e) == open' = [open EXCEPT ![e] = FALSE]

StartRead(e, what, words) ==
  /\ reading' = [reading EXCEPT ![e] = what]
  /\ need' = [need EXCEPT ![e] = words]

--------------------------------------------------------------------------------
(* The application threads. *)

(***************************************************************************)
(* ClientInterface::Send and ServerInterface::MessageClient check          *)
(* IsConnected, that is tcpSocket.is_open(), and no more than that: then   *)
(* TcpConnection::Send posts a copy of the message.                        *)
(***************************************************************************)
MaySend(e) == Exists(e) /\ open[e] /\ Runs(e)

Send(e) ==
  /\ MaySend(e)
  /\ Len(sent["client"]) + Len(sent["server"]) < MaxSends
  /\ \E n \in Sizes :
        LET m == [id |-> Len(sent[e]) + 1, size |-> n]
        IN  /\ sent' = [sent EXCEPT ![e] = Append(@, m)]
            /\ posted' = [posted EXCEPT ![e] = Append(@, m)]
  /\ UNCHANGED <<phase, life, open, wire, timer, writeVars, readVars>>

(***************************************************************************)
(* AConnection::Disconnect, called by the server's application.  A second  *)
(* call would post a second close, which does nothing.                     *)
(***************************************************************************)
DisconnectClient ==
  /\ open["server"]
  /\ CloseTask \notin {posted["server"][i] : i \in DOMAIN posted["server"]}
  /\ posted' = [posted EXCEPT !["server"] = Append(@, CloseTask)]
  /\ UNCHANGED <<phase, open, wire, timer, appVars, writeVars, readVars>>

(***************************************************************************)
(* ClientInterface::Disconnect: AConnection::Disconnect if connected, then *)
(* context_.stop() and join.  The context thread may run between the two;  *)
(* after the second nothing posted or outstanding at the client completes. *)
(***************************************************************************)
Disconnect ==
  /\ life = "running"
  /\ life' = "leaving"
  /\ posted' = IF open["client"]
               THEN [posted EXCEPT !["client"] = Append(@, CloseTask)]
               ELSE posted
  /\ UNCHANGED <<phase, open, sent, wire, timer, writeVars, readVars>>

Stop ==
  /\ life = "leaving"
  /\ life' = "stopped"
  /\ UNCHANGED <<phase, open, sent, posted, wire, timer, writeVars, readVars>>

--------------------------------------------------------------------------------
(* The network, the kernel and the acceptor of the server. *)

\* The kernels complete or refuse the connection the client asked for.
Establish ==
  /\ phase = "connecting"
  /\ open["client"]
  /\ phase' \in {"backlog", "refused"}
  /\ UNCHANGED <<open, posted, wire, timer, appVars, writeVars, readVars>>

(***************************************************************************)
(* Two writes can be outstanding on a socket, one of handshakeOut_ and one *)
(* of a message.  The kernel serves the older one first; but async_write   *)
(* is a chain of partial writes, and when the kernel takes only a part of  *)
(* a body, the rest of it queues up behind the write of handshakeOut_.     *)
(***************************************************************************)
StartValidationWrite(e) ==
  /\ hsWrite' = [hsWrite EXCEPT ![e] = "pending"]
  /\ behind' = [behind EXCEPT ![e] = left[e] > 0]

StartMessageWrite(e, what, words) ==
  /\ writing' = [writing EXCEPT ![e] = what]
  /\ left' = [left EXCEPT ![e] = words]

\* ReadValidation gives the answer five seconds (and its mutated form: none).
NoTimer == UNCHANGED timer
ArmTimer == timer' = "armed"

(***************************************************************************)
(* The handler of async_accept builds the TcpConnection and asks           *)
(* OnClientConnect.  Approved, ConnectToClient writes the challenge, arms  *)
(* the timer and waits for the answer; denied, the socket is destroyed.    *)
(***************************************************************************)
Accept ==
  /\ phase = "backlog"
  /\ phase' = "accepted"
  /\ open' = [open EXCEPT !["server"] = TRUE]
  /\ StartValidationWrite("server")
  /\ ArmTimer
  /\ StartRead("server", "validation", 1)
  /\ UNCHANGED <<posted, wire, appVars, outgoing, flushed, writing, left,
                 word, tempBody, incoming, verdict>>

Deny ==
  /\ phase = "backlog"
  /\ phase' = "denied"
  /\ UNCHANGED <<open, posted, wire, timer, appVars, writeVars, readVars>>

(***************************************************************************)
(* The kernel takes one word of the write at the head of the queue, which  *)
(* may be the last one of this partial write (whole is FALSE).             *)
(***************************************************************************)
MessageUnit(e) ==
  LET m == Head(outgoing[e])
  IN  IF writing[e] = "header" THEN HeaderOf(m) ELSE BodyUnit(m, m.size - left[e] + 1)

\* A write ends with its buffer (mutated: it goes one word past it).
NeverEnds(e) == writing[e] # "none"
UnitsLeft(e) == left[e] > 0

TransferMessage(e) ==
  /\ Linked /\ open[e] /\ Runs(e)
  /\ UnitsLeft(e)
  /\ hsWrite[e] = "pending" => behind[e]
  /\ wire' = [wire EXCEPT ![e] = Append(@, MessageUnit(e))]
  /\ left' = [left EXCEPT ![e] = @ - 1]
  /\ \E whole \in BOOLEAN :
        behind' = [behind EXCEPT ![e] = @ /\ left[e] > 1 /\ whole]
  /\ UNCHANGED <<phase, open, posted, timer, appVars, outgoing, flushed,
                 writing, hsWrite, readVars>>

(***************************************************************************)
(* handshakeOut_: the server's challenge, or scramble of the word the      *)
(* client read, which is the right answer if that word was the challenge.  *)
(***************************************************************************)
HandshakeOut(e) == IF e = "server" THEN Validation ELSE word[e]

TransferValidation(e) ==
  /\ Linked /\ open[e] /\ Runs(e)
  /\ hsWrite[e] = "pending"
  /\ ~behind[e]
  /\ wire' = [wire EXCEPT ![e] = Append(@, HandshakeOut(e))]
  /\ hsWrite' = [hsWrite EXCEPT ![e] = "written"]
  /\ UNCHANGED <<phase, open, posted, timer, appVars, outgoing, flushed,
                 writing, left, behind, readVars>>

(***************************************************************************)
(* A word that has arrived goes to the buffer of the outstanding read.     *)
(***************************************************************************)
Receive(e) ==
  LET u == Head(wire[Peer(e)])
  IN  /\ open[e] /\ Runs(e)
      /\ need[e] > 0
      /\ wire[Peer(e)] # <<>>
      /\ wire' = [wire EXCEPT ![Peer(e)] = Tail(@)]
      /\ need' = [need EXCEPT ![e] = @ - 1]
      /\ IF reading[e] = "body"
         THEN tempBody' = [tempBody EXCEPT ![e] = Append(@, u.msg)] /\ UNCHANGED word
         ELSE word' = [word EXCEPT ![e] = u] /\ UNCHANGED tempBody
      /\ UNCHANGED <<phase, open, posted, timer, appVars, writeVars,
                     reading, incoming, verdict>>

--------------------------------------------------------------------------------
(* The handlers: each runs to its end on the context thread of its end. *)

\* Send starts a write if the queue is empty (mutated: always, never).
NeverWriting(e) == FALSE
AlwaysWriting(e) == TRUE

WritingMessage(e) == outgoing[e] # <<>>

\* push_back (mutated: push_front).
PushFront(e, m) == outgoing' = [outgoing EXCEPT ![e] = <<m>> \o @]
PushBack(e, m) == outgoing' = [outgoing EXCEPT ![e] = Append(@, m)]

RunSendTask(e) ==
  /\ Head(posted[e]) # CloseTask
  /\ PushBack(e, Head(posted[e]))
  /\ IF WritingMessage(e) THEN UNCHANGED <<writing, left>>
                          ELSE StartMessageWrite(e, "header", 1)
  /\ UNCHANGED <<open, flushed, hsWrite, behind>>

\* The posted lambda of Disconnect (mutated: it closes nothing).
RunNothing(e) ==
  /\ Head(posted[e]) = CloseTask
  /\ UNCHANGED <<open, writeVars>>

RunCloseTask(e) ==
  /\ Head(posted[e]) = CloseTask
  /\ CloseSocket(e)
  /\ UNCHANGED writeVars

(***************************************************************************)
(* The lambdas of Send and of Disconnect, in the order they were posted.   *)
(***************************************************************************)
RunPosted(e) ==
  /\ Runs(e)
  /\ posted[e] # <<>>
  /\ posted' = [posted EXCEPT ![e] = Tail(@)]
  /\ RunSendTask(e) \/ RunCloseTask(e)
  /\ UNCHANGED <<phase, wire, timer, appVars, readVars>>

\* After pop_front, is there another message (mutated: not asked)?
NoneOutgoing(e) == FALSE
MoreOutgoing(e) == Tail(outgoing[e]) # <<>>

(***************************************************************************)
(* pop_front, then WriteHeader if there is another message.                *)
(***************************************************************************)
PopOutgoing(e) ==
  /\ outgoing' = [outgoing EXCEPT ![e] = Tail(@)]
  /\ flushed' = [flushed EXCEPT ![e] = @ + 1]
  /\ IF MoreOutgoing(e)
     THEN StartMessageWrite(e, "header", 1)
     ELSE writing' = [writing EXCEPT ![e] = "none"] /\ UNCHANGED left

\* WriteHeader goes on to WriteBody for a message with a body (mutated: never).
NeverHasBody(e) == FALSE
HasBody(e) == Head(outgoing[e]).size > 0

HeaderWritten(e) ==
  /\ Runs(e)
  /\ writing[e] = "header" /\ left[e] = 0
  /\ IF HasBody(e)
     THEN /\ StartMessageWrite(e, "body", Head(outgoing[e]).size)
          /\ UNCHANGED <<outgoing, flushed>>
     ELSE PopOutgoing(e)
  /\ UNCHANGED <<phase, open, posted, wire, timer, hsWrite, behind, appVars, readVars>>

BodyWritten(e) ==
  /\ Runs(e)
  /\ writing[e] = "body" /\ left[e] = 0
  /\ PopOutgoing(e)
  /\ UNCHANGED <<phase, open, posted, wire, timer, hsWrite, behind, appVars, readVars>>

\* WriteHeader or WriteBody with an error: closed here or by the network.
WriteFails(e) ==
  /\ Runs(e)
  /\ left[e] > 0
  /\ writing' = [writing EXCEPT ![e] = "none"]
  /\ left' = [left EXCEPT ![e] = 0]
  /\ behind' = [behind EXCEPT ![e] = FALSE]
  /\ CloseSocket(e)
  /\ UNCHANGED <<phase, posted, wire, timer, outgoing, flushed, hsWrite,
                 appVars, readVars>>

\* WriteValidation's handler tests connectionOwner_ (mutated: it does not).
BothRead(e) == TRUE
ReadsAfterValidation(e) == e = "client"

(***************************************************************************)
(* WriteValidation: the client goes on to read messages; the server is     *)
(* already reading the answer.                                             *)
(***************************************************************************)
ValidationWritten(e) ==
  /\ Runs(e)
  /\ hsWrite[e] = "written"
  /\ hsWrite' = [hsWrite EXCEPT ![e] = "done"]
  /\ IF ReadsAfterValidation(e) THEN StartRead(e, "header", 1)
                             ELSE UNCHANGED <<reading, need>>
  /\ UNCHANGED <<phase, open, posted, wire, timer, outgoing, flushed, writing,
                 left, behind, word, tempBody, incoming, verdict, appVars>>

ValidationWriteFails(e) ==
  /\ Runs(e)
  /\ hsWrite[e] = "pending"
  /\ hsWrite' = [hsWrite EXCEPT ![e] = "failed"]
  /\ behind' = [behind EXCEPT ![e] = FALSE]
  /\ CloseSocket(e)
  /\ UNCHANGED <<phase, posted, wire, timer, outgoing, flushed, writing, left,
                 appVars, readVars>>

(***************************************************************************)
(* async_connect: ReadValidation, or the socket is closed.                 *)
(***************************************************************************)
Connected ==
  /\ Runs("client")
  /\ reading["client"] = "connect"
  /\ Linked
  /\ StartRead("client", "validation", 1)
  /\ UNCHANGED <<phase, open, posted, wire, timer, word, tempBody, incoming,
                 verdict, appVars, writeVars>>

ConnectFails ==
  /\ Runs("client")
  /\ reading["client"] = "connect"
  /\ phase = "refused" \/ ~open["client"]
  /\ StartRead("client", "none", 0)
  /\ CloseSocket("client")
  /\ UNCHANGED <<phase, posted, wire, timer, word, tempBody, incoming, verdict,
                 appVars, writeVars>>

(***************************************************************************)
(* ReadValidation at the client: handshakeOut_ = scramble(handshakeIn_),   *)
(* then WriteValidation.                                                   *)
(***************************************************************************)
ChallengeRead ==
  /\ Runs("client")
  /\ reading["client"] = "validation" /\ need["client"] = 0
  /\ StartRead("client", "none", 0)
  /\ StartValidationWrite("client")
  /\ UNCHANGED <<phase, open, posted, wire, timer, outgoing, flushed, writing,
                 left, word, tempBody, incoming, verdict, appVars>>

\* handshakeIn_ == handshakeCheck_ (mutated: any word passes; != for ==).
AnyAnswer == TRUE
WrongAnswer == word["server"] # Validation
RightAnswer == word["server"] = Validation

(***************************************************************************)
(* ReadValidation at the server: handshakeIn_ = handshakeCheck_ removes    *)
(* the timer, calls OnClientValidated and reads the first header; anything *)
(* else closes the socket and leaves the timer to run out.                 *)
(***************************************************************************)
AnswerRead ==
  /\ reading["server"] = "validation" /\ need["server"] = 0
  /\ IF RightAnswer
     THEN /\ timer' = IF timer = "armed" THEN "removed" ELSE timer
          /\ verdict' = "validated"
          /\ StartRead("server", "header", 1)
          /\ UNCHANGED open
     ELSE /\ verdict' = "rejected"
          /\ StartRead("server", "none", 0)
          /\ CloseSocket("server")
          /\ UNCHANGED timer
  /\ UNCHANGED <<phase, posted, wire, word, tempBody, incoming, appVars, writeVars>>

(***************************************************************************)
(* AddToIncomingMessageQueue copies tempIncomingMessage_, whatever its     *)
(* body holds, and reads the next header.                                  *)
(***************************************************************************)
AddToIncoming(e, size) ==
  /\ incoming' = [incoming EXCEPT ![e] =
                    Append(@, [id |-> word[e].msg, size |-> size, body |-> tempBody[e]])]
  /\ StartRead(e, "header", 1)

(***************************************************************************)
(* ReadHeader: the size field of a real header is the message's; of any    *)
(* other word taken for a header it can be any size.  body.resize() makes  *)
(* room that ReadBody then fills; a message without body leaves the body   *)
(* of the message before it.                                               *)
(***************************************************************************)
SizesIn(u) == IF u.msg > 0 /\ u.pos = 0 THEN {u.size} ELSE Sizes

HeaderRead(e) ==
  /\ Runs(e)
  /\ reading[e] = "header" /\ need[e] = 0
  /\ \E n \in SizesIn(word[e]) :
        IF n > 0
        THEN /\ StartRead(e, "body", n)
             /\ tempBody' = [tempBody EXCEPT ![e] = <<>>]
             /\ word' = [word EXCEPT ![e].size = n]
             /\ UNCHANGED incoming
        ELSE /\ AddToIncoming(e, n)
             /\ UNCHANGED <<tempBody, word>>
  /\ UNCHANGED <<phase, open, posted, wire, timer, verdict, appVars, writeVars>>

BodyRead(e) ==
  /\ Runs(e)
  /\ reading[e] = "body" /\ need[e] = 0
  /\ AddToIncoming(e, word[e].size)
  /\ UNCHANGED <<phase, open, posted, wire, timer, word, tempBody, verdict,
                 appVars, writeVars>>

\* A failed read closes the socket (mutated: it just ends).
KeepOpen(e) == UNCHANGED open
CloseAfterRead(e) == CloseSocket(e)

(***************************************************************************)
(* Any read that ends with an error (closed here, end of stream, reset)    *)
(* closes the socket.                                                      *)
(***************************************************************************)
ReadFails(e) ==
  /\ Runs(e)
  /\ need[e] > 0
  /\ StartRead(e, "none", 0)
  /\ CloseAfterRead(e)
  /\ UNCHANGED <<phase, posted, wire, timer, word, tempBody, incoming, verdict,
                 appVars, writeVars>>

(***************************************************************************)
(* The detached thread of AsyncTimer::addTimer, five seconds later, if     *)
(* removeTimer has not come before.  (Its look-up and its call are one     *)
(* step here.)                                                             *)
(***************************************************************************)
TimerFires ==
  /\ timer = "armed"
  /\ timer' = "fired"
  /\ CloseSocket("server")
  /\ UNCHANGED <<phase, posted, wire, appVars, writeVars, readVars>>

--------------------------------------------------------------------------------
Application ==
  \/ \E e \in Endpoint : Send(e)
  \/ DisconnectClient \/ Disconnect \/ Stop

Network == Establish \/ Accept \/ Deny

WriteHandlers(e) == TransferMessage(e) \/ HeaderWritten(e) \/ BodyWritten(e)

ValidationHandlers(e) == TransferValidation(e) \/ ValidationWritten(e)

ReadHandlers(e) ==
  \/ Receive(e)
  \/ e = "client" /\ (Connected \/ ConnectFails \/ ChallengeRead)
  \/ e = "server" /\ AnswerRead
  \/ HeaderRead(e) \/ BodyRead(e)

Context(e) ==
  \/ RunPosted(e)
  \/ WriteHandlers(e)
  \/ ValidationHandlers(e)
  \/ ReadHandlers(e)
  \/ WriteFails(e) \/ ValidationWriteFails(e) \/ ReadFails(e)

Next == Application \/ Network \/ (\E e \in Endpoint : Context(e)) \/ TimerFires

Spec == Init /\ [][Next]_vars

(***************************************************************************)
(* Fairness.  io_context::run executes a handler as long as one is ready;  *)
(* the kernels move words while the sockets are open and report the end of *)
(* the stream; the acceptor is always armed again; the timer's thread      *)
(* wakes.  Nothing is assumed of the applications, nor that a failure ever *)
(* happens, except that an operation whose socket is closed, and a read    *)
(* whose peer is gone, ends.  Sends are finite, so no fairness among the   *)
(* handlers of one context is needed.                                      *)
(***************************************************************************)
PeerGone(e) == IF e = "server" THEN ~open["client"]
               ELSE phase = "denied" \/ (phase = "accepted" /\ ~open["server"])

Progress(e) ==
  \/ RunPosted(e) \/ WriteHandlers(e) \/ ValidationHandlers(e) \/ ReadHandlers(e)
  \/ ~open[e] /\ (WriteFails(e) \/ ValidationWriteFails(e))
  \/ (~open[e] \/ PeerGone(e)) /\ ReadFails(e)

Fairness == /\ \A e \in Endpoint : WF_vars(Progress(e))
            /\ WF_vars(Network)
            /\ WF_vars(TimerFires)

FairSpec == Spec /\ Fairness

--------------------------------------------------------------------------------
(* Safety. *)

(***************************************************************************)
(* Frames: a word read as a header is the header of a message, and the     *)
(* words read as its body are its own, in WriteHeader, WriteBody,          *)
(* ReadHeader and ReadBody of the two ends together.  One word too many or *)
(* too few, from the handshake or from any message, breaks it for good.    *)
(***************************************************************************)
Aligned ==
  \A e \in Endpoint :
     /\ reading[e] = "header" /\ need[e] = 0 => word[e].msg > 0 /\ word[e].pos = 0
     /\ reading[e] = "body" => \A i \in DOMAIN tempBody[e] : tempBody[e][i] = word[e].msg

(***************************************************************************)
(* The server validates nobody who has not computed the answer from the    *)
(* server's own challenge: ReadValidation at both ends.  A header, which   *)
(* has the size of an answer, never passes for one.                        *)
(***************************************************************************)
ValidatedHasAnswered ==
  verdict = "validated" => hsWrite["client"] \in {"written", "done"}

(***************************************************************************)
(* ReadValidation rejects no client for its answer, which the clients of   *)
(* this library always compute from the challenge, whatever the server     *)
(* sends meanwhile: what it may take for a wrong answer is the header of   *)
(* the first message of a client that called Send before the handshake was *)
(* over, and nothing else.                                                 *)
(***************************************************************************)
OnlyEarlySendersRejected ==
  verdict = "rejected" => /\ sent["client"] # <<>>
                          /\ word["server"] = HeaderOf(Head(sent["client"]))

(***************************************************************************)
(* A connection that is open and has messages to send is sending: Send     *)
(* starts the chain of writes when the queue was empty, the handlers of    *)
(* WriteHeader and WriteBody keep it going until the queue is empty again. *)
(***************************************************************************)
NoStalledQueue ==
  \A e \in Endpoint : open[e] /\ outgoing[e] # <<>> => writing[e] # "none"

(***************************************************************************)
(* No end ever has two reads, or two message writes, outstanding: both     *)
(* reads would fill tempIncomingMessage_, both writes would mix their      *)
(* words.  ReadHeader is started by three different handlers, WriteHeader  *)
(* by three.  An operation that still waits for words is not replaced by   *)
(* another one: it goes on, or it ends.                                    *)
(***************************************************************************)
ReadGoesOn(e) == reading'[e] = reading[e] /\ need'[e] <= need[e]

WriteGoesOn(e) == writing'[e] = writing[e] /\ left'[e] <= left[e]

OneOperationEach ==
  [][\A e \in Endpoint : /\ need[e] > 0 => ReadGoesOn(e) \/ need'[e] = 0
                         /\ left[e] > 0 => WriteGoesOn(e) \/ left'[e] = 0]_vars

(***************************************************************************)
(* Each direction is a FIFO channel of messages: what comes out of one     *)
(* end's incoming queue is a prefix of what went into Send at the other.   *)
(***************************************************************************)
Headers(s) == [i \in DOMAIN s |-> [id |-> s[i].id, size |-> s[i].size]]

SocketClosed(e) == IF e = "client" THEN ~open["client"]
                   ELSE phase # "connecting" /\ phase # "backlog" /\ ~open["server"]

ChannelClosed == SocketClosed("client") \/ SocketClosed("server") \/ life = "stopped"

Received(e) == Headers(incoming[Peer(e)])

ClientToServer == INSTANCE FifoChannel
                    WITH Message <- [id : 1 .. MaxSends, size : Sizes],
                         sent <- sent["client"],
                         received <- Received("client"),
                         closed <- ChannelClosed

ServerToClient == INSTANCE FifoChannel
                    WITH Message <- [id : 1 .. MaxSends, size : Sizes],
                         sent <- sent["server"],
                         received <- Received("server"),
                         closed <- ChannelClosed

ClientToServerFifo == ClientToServer!Spec
ServerToClientFifo == ServerToClient!Spec

--------------------------------------------------------------------------------
(* Liveness. *)

(***************************************************************************)
(* A connection that stays open delivers every message, in both            *)
(* directions, through posted tasks, queues, partial writes and reads.     *)
(***************************************************************************)
ClientToServerDelivers == ClientToServer!FairSpec
ServerToClientDelivers == ServerToClient!FairSpec

(***************************************************************************)
(* No client keeps the server waiting for its answer for ever, whatever it *)
(* does or does not send: it is validated or its socket is closed.  This   *)
(* is what the timer of ReadValidation is for.  (An accepted client stays  *)
(* accepted, as a closed socket stays closed below: for such conditions    *)
(* []<>(P => Q) says the same as P ~> Q, and takes TLC a fraction of it.)  *)
(***************************************************************************)
HandshakeSettles ==
  []<>(phase = "accepted" => verdict = "validated" \/ ~open["server"])

(***************************************************************************)
(* When one end closes its socket, for any reason, the other end finds out *)
(* and closes its own: a read is outstanding as long as the socket is      *)
(* open.  (A client whose context was stopped finds out nothing.)          *)
(***************************************************************************)
CloseNoticed ==
  /\ []<>(SocketClosed("client") /\ phase = "accepted" => ~open["server"])
  /\ []<>(SocketClosed("server") => ~open["client"] \/ life = "stopped")

(***************************************************************************)
(* Disconnect takes effect at either end, behind whatever was posted       *)
(* before: the socket is closed.  Only a client whose context was stopped  *)
(* first, as ClientInterface::Disconnect may do it, keeps its socket.      *)
(***************************************************************************)
Asked(e) == \E i \in DOMAIN posted[e] : posted[e][i] = CloseTask

DisconnectTakesEffect ==
  \A e \in Endpoint : Asked(e) ~> ~open[e] \/ ~Runs(e)

--------------------------------------------------------------------------------
(* What the comments of the code say and the code does not do. *)

(***************************************************************************)
(* NetMessage.hpp documents header.size as the size of the message, which  *)
(* message::size() computes from the body: in the incoming queue the two   *)
(* agree.                                                                  *)
(***************************************************************************)
SizeInHeader ==
  \A e \in Endpoint : \A i \in DOMAIN incoming[e] :
     incoming[e][i].size = Len(incoming[e][i].body)
================================================================================
