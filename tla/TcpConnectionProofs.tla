-------------------------- MODULE TcpConnectionProofs --------------------------
(***************************************************************************)
(* Proofs about TcpConnection, for any body sizes and any number of        *)
(* messages, and about the answer of its handshake, for any challenge.     *)
(***************************************************************************)
EXTENDS TcpConnection, Scramble, SequenceTheorems, TLAPS

USE SizesAssumption, MaxSendsAssumption

\* There are two ends.
LEMMA Endpoints == "client" \in Endpoint /\ "server" \in Endpoint
  BY DEF Endpoint

USE Endpoints

\* The other end is an end.
LEMMA PeerType == \A e \in Endpoint : Peer(e) \in Endpoint
  BY DEF Peer, Endpoint

--------------------------------------------------------------------------------
(***************************************************************************)
(* The writer of an end: a write is outstanding only for the message at    *)
(* the head of outgoing, and has no more words left than that message has. *)
(* TypeOK needs it: the words written are taken from that message.         *)
(***************************************************************************)
Writer(e) ==
  /\ writing[e] = "none" => left[e] = 0
  /\ writing[e] # "none" => outgoing[e] # <<>>
  /\ writing[e] = "header" => left[e] <= 1
  /\ writing[e] = "body" => left[e] <= Head(outgoing[e]).size

Writers == \A e \in Endpoint : Writer(e)

\* Nothing is written at first.
LEMMA WritersInit == Init => Writers
  BY DEF Init, Writers, Writer

(***************************************************************************)
(* The words of the message at the head of outgoing are words.             *)
(***************************************************************************)
LEMMA MessageUnitType ==
  ASSUME TypeOK, Writers, NEW e \in Endpoint, left[e] > 0
  PROVE  MessageUnit(e) \in Unit
<1>1. outgoing[e] \in Seq(Message) /\ outgoing[e] # <<>>
  BY DEF TypeOK, Writers, Writer
<1>2. Head(outgoing[e]) \in Message
  BY <1>1, HeadTailProperties
<1>3. left[e] \in Nat /\ writing[e] \in {"none", "header", "body"}
  BY DEF TypeOK
<1>4. CASE writing[e] = "header"
  BY <1>2, <1>4 DEF MessageUnit, HeaderOf, Message, Unit
<1>5. CASE writing[e] = "body"
  <2>1. left[e] <= Head(outgoing[e]).size
    BY <1>5 DEF Writers, Writer
  <2>2. Head(outgoing[e]).size - left[e] + 1 \in Nat
    BY <1>2, <1>3, <2>1 DEF Message
  <2> QED
    BY <1>2, <1>5, <2>2 DEF MessageUnit, BodyUnit, Message, Unit
<1> QED
  BY <1>3, <1>4, <1>5 DEF Writers, Writer

\* The types hold at first.
LEMMA TypeInit == Init => TypeOK
  BY DEF Init, TypeOK, Endpoint, Validation, Unit, Phases, Readings

(***************************************************************************)
(* What an assignment to one end's element does to the type of a function. *)
(***************************************************************************)
LEMMA AppendType ==
  ASSUME NEW S, NEW f \in [Endpoint -> Seq(S)], NEW e \in Endpoint, NEW x \in S
  PROVE  [f EXCEPT ![e] = Append(@, x)] \in [Endpoint -> Seq(S)]
  OBVIOUS

\* A function updated at a point stays in its set.
LEMMA UpdateType ==
  ASSUME NEW S, NEW f \in [Endpoint -> S], NEW e \in Endpoint, NEW x \in S
  PROVE  [f EXCEPT ![e] = x] \in [Endpoint -> S]
  OBVIOUS

(***************************************************************************)
(* The parts the actions are made of keep the types of what they assign.   *)
(***************************************************************************)
Writings == {"none", "header", "body"}
HsWrites == {"none", "pending", "written", "done", "failed"}

\* The names of the operations and of the phases.
LEMMA Labels ==
  /\ \A r \in {"none", "connect", "validation", "header", "body"} : r \in Readings
  /\ \A p \in {"connecting", "backlog", "accepted", "denied", "refused"} : p \in Phases
  BY DEF Readings, Phases

LEMMA CloseSocketType ==
  ASSUME TypeOK, NEW e \in Endpoint, CloseSocket(e)
  PROVE  open' \in [Endpoint -> BOOLEAN]
  BY DEF TypeOK, CloseSocket

LEMMA StartReadType ==
  ASSUME TypeOK, NEW e \in Endpoint, NEW r \in Readings, NEW n \in Nat, StartRead(e, r, n)
  PROVE  reading' \in [Endpoint -> Readings] /\ need' \in [Endpoint -> Nat]
  BY DEF TypeOK, StartRead

LEMMA StartMessageWriteType ==
  ASSUME TypeOK, NEW e \in Endpoint, NEW w \in Writings, NEW n \in Nat,
         StartMessageWrite(e, w, n)
  PROVE  writing' \in [Endpoint -> Writings] /\ left' \in [Endpoint -> Nat]
  BY DEF TypeOK, StartMessageWrite, Writings

LEMMA StartValidationWriteType ==
  ASSUME TypeOK, NEW e \in Endpoint, StartValidationWrite(e)
  PROVE  behind' \in [Endpoint -> BOOLEAN] /\ hsWrite' \in [Endpoint -> HsWrites]
<1>1. (left[e] > 0) \in BOOLEAN
  OBVIOUS
<1>2. behind' \in [Endpoint -> BOOLEAN]
  BY <1>1 DEF TypeOK, StartValidationWrite
<1>3. hsWrite' \in [Endpoint -> HsWrites]
  BY DEF TypeOK, StartValidationWrite, HsWrites
<1> QED
  BY <1>2, <1>3

LEMMA AddToIncomingType ==
  ASSUME TypeOK, NEW e \in Endpoint, NEW n \in Nat, AddToIncoming(e, n)
  PROVE  /\ incoming' \in [Endpoint -> Seq([id : Nat, size : Nat, body : Seq(Nat)])]
         /\ reading' \in [Endpoint -> Readings]
         /\ need' \in [Endpoint -> Nat]
<1>1. [id |-> word[e].msg, size |-> n, body |-> tempBody[e]]
         \in [id : Nat, size : Nat, body : Seq(Nat)]
  BY DEF TypeOK, Unit
<1>2. incoming' \in [Endpoint -> Seq([id : Nat, size : Nat, body : Seq(Nat)])]
  BY <1>1 DEF AddToIncoming, TypeOK
<1> QED
  BY <1>2, Labels, StartReadType DEF AddToIncoming

\* What the words are counted with.
LEMMA NatCounters ==
  ASSUME TypeOK
  PROVE  \A e \in Endpoint : /\ left[e] \in Nat
                             /\ need[e] \in Nat
                             /\ flushed[e] \in Nat
                             /\ left[e] > 0 => left[e] - 1 \in Nat
                             /\ need[e] > 0 => need[e] - 1 \in Nat
                             /\ flushed[e] + 1 \in Nat
<1>1. /\ left \in [Endpoint -> Nat]
      /\ need \in [Endpoint -> Nat]
      /\ flushed \in [Endpoint -> Nat]
  BY DEF TypeOK
<1> QED
  BY <1>1

(***************************************************************************)
(* Every action keeps the types.                                           *)
(***************************************************************************)
LEMMA TypeNext ==
  ASSUME TypeOK, Writers, [Next]_vars
  PROVE  TypeOK'
<1> USE DEF appVars, writeVars, readVars
<1>1. ASSUME NEW e \in Endpoint, Send(e)
      PROVE  TypeOK'
  <2>1. PICK n \in Sizes :
           LET m == [id |-> Len(sent[e]) + 1, size |-> n]
           IN  /\ sent' = [sent EXCEPT ![e] = Append(@, m)]
               /\ posted' = [posted EXCEPT ![e] = Append(@, m)]
    BY <1>1 DEF Send
  <2>2. [id |-> Len(sent[e]) + 1, size |-> n] \in Message
    BY DEF Message, TypeOK
  <2>3. sent' \in [Endpoint -> Seq(Message)]
    BY <2>1, <2>2, AppendType, Zenon DEF TypeOK
  <2>4. posted' \in [Endpoint -> Seq(Message)]
    BY <2>1, <2>2, AppendType, Zenon DEF TypeOK
  <2> QED
    BY <1>1, <2>3, <2>4 DEF Send, TypeOK
<1>2. CASE DisconnectClient \/ Disconnect
  <2>1. CloseTask \in Message
    BY DEF CloseTask, Message
  <2>2. posted' \in [Endpoint -> Seq(Message)]
    <3>1. posted \in [Endpoint -> Seq(Message)]
      BY DEF TypeOK
    <3>2. /\ [posted EXCEPT !["client"] = Append(@, CloseTask)] \in [Endpoint -> Seq(Message)]
          /\ [posted EXCEPT !["server"] = Append(@, CloseTask)] \in [Endpoint -> Seq(Message)]
      BY <2>1, <3>1, AppendType, Endpoints, Zenon
    <3> QED
      BY <1>2, <3>1, <3>2, Zenon DEF DisconnectClient, Disconnect
  <2> QED
    BY <1>2, <2>2 DEF TypeOK, DisconnectClient, Disconnect
<1>3. CASE Stop \/ Establish \/ Deny
  BY <1>3, Labels DEF TypeOK, Stop, Establish, Deny
<1>4. CASE Accept
  <2>1. reading' \in [Endpoint -> Readings] /\ need' \in [Endpoint -> Nat]
    BY <1>4, Labels, StartReadType DEF Accept
  <2>2. behind' \in [Endpoint -> BOOLEAN] /\ hsWrite' \in [Endpoint -> HsWrites]
    BY <1>4, StartValidationWriteType DEF Accept
  <2> QED
    BY <1>4, <2>1, <2>2, Labels DEF Accept, ArmTimer, HsWrites, TypeOK
<1>5. ASSUME NEW e \in Endpoint, TransferMessage(e)
      PROVE  TypeOK'
  <2>1. left[e] > 0
    BY <1>5 DEF TransferMessage, UnitsLeft
  <2>2. MessageUnit(e) \in Unit
    BY <2>1, MessageUnitType
  <2>3. wire' \in [Endpoint -> Seq(Unit)]
    BY <1>5, <2>2, AppendType, Zenon DEF TransferMessage, TypeOK
  <2>6. left[e] - 1 \in Nat
    BY <2>1, NatCounters
  <2>7. left' \in [Endpoint -> Nat]
    BY <1>5, <2>6, UpdateType, Zenon DEF TransferMessage, TypeOK
  <2>4. PICK whole \in BOOLEAN :
           behind' = [behind EXCEPT ![e] = @ /\ left[e] > 1 /\ whole]
    BY <1>5 DEF TransferMessage
  <2>5. behind' \in [Endpoint -> BOOLEAN]
    <3>1. (behind[e] /\ left[e] > 1 /\ whole) \in BOOLEAN
      OBVIOUS
    <3>2. behind \in [Endpoint -> BOOLEAN]
      BY DEF TypeOK
    <3> QED
      BY <2>4, <3>1, <3>2, UpdateType, Zenon
  <2> QED
    BY <1>5, <2>3, <2>5, <2>7 DEF TransferMessage, TypeOK
<1>6. ASSUME NEW e \in Endpoint, TransferValidation(e)
      PROVE  TypeOK'
  <2>1. HandshakeOut(e) \in Unit
    BY DEF HandshakeOut, Validation, Unit, TypeOK
  <2>2. wire' \in [Endpoint -> Seq(Unit)]
    BY <1>6, <2>1, AppendType, Zenon DEF TransferValidation, TypeOK
  <2> QED
    BY <1>6, <2>2 DEF TransferValidation, TypeOK
<1>7. ASSUME NEW e \in Endpoint, Receive(e)
      PROVE  TypeOK'
  <2>1. Peer(e) \in Endpoint /\ wire[Peer(e)] \in Seq(Unit) /\ wire[Peer(e)] # <<>>
    BY <1>7, PeerType DEF Receive, TypeOK
  <2>2. Head(wire[Peer(e)]) \in Unit /\ Tail(wire[Peer(e)]) \in Seq(Unit)
    BY <2>1, HeadTailProperties
  <2>3. Head(wire[Peer(e)]).msg \in Nat
    BY <2>2 DEF Unit
  <2>4. wire' \in [Endpoint -> Seq(Unit)]
    BY <1>7, <2>1, <2>2, UpdateType, Zenon DEF Receive, TypeOK
  <2>5. need[e] - 1 \in Nat
    BY <1>7, NatCounters DEF Receive
  <2>6. need' \in [Endpoint -> Nat]
    BY <1>7, <2>5, UpdateType, Zenon DEF Receive, TypeOK
  <2>7. word' \in [Endpoint -> Unit]
    BY <1>7, <2>2, UpdateType, Zenon DEF Receive, TypeOK
  <2>8. tempBody' \in [Endpoint -> Seq(Nat)]
    <3>1. CASE reading[e] = "body"
      <4>1. tempBody' = [tempBody EXCEPT ![e] = Append(@, Head(wire[Peer(e)]).msg)]
        BY <1>7, <3>1 DEF Receive
      <4>2. tempBody \in [Endpoint -> Seq(Nat)]
        BY DEF TypeOK
      <4> QED
        BY <2>3, <4>1, <4>2, AppendType, Zenon
    <3>2. CASE reading[e] # "body"
      BY <1>7, <3>2, Zenon DEF Receive, TypeOK
    <3> QED
      BY <3>1, <3>2
  <2> QED
    BY <1>7, <2>4, <2>6, <2>7, <2>8 DEF Receive, TypeOK
<1>8. ASSUME NEW e \in Endpoint, RunPosted(e)
      PROVE  TypeOK'
  <2>1. Head(posted[e]) \in Message /\ Tail(posted[e]) \in Seq(Message)
    BY <1>8, HeadTailProperties DEF RunPosted, TypeOK
  <2>2. posted' \in [Endpoint -> Seq(Message)]
    BY <1>8, <2>1 DEF RunPosted, TypeOK
  <2>3. CASE RunSendTask(e)
    <3>1. outgoing' \in [Endpoint -> Seq(Message)]
      BY <2>1, <2>3 DEF RunSendTask, PushBack, TypeOK
    <3>2. writing' \in [Endpoint -> Writings] /\ left' \in [Endpoint -> Nat]
      BY <2>3, StartMessageWriteType DEF RunSendTask, Writings, TypeOK
    <3> QED
      BY <1>8, <2>2, <2>3, <3>1, <3>2 DEF RunPosted, RunSendTask, Writings, TypeOK
  <2>4. CASE RunCloseTask(e)
    BY <1>8, <2>2, <2>4, CloseSocketType DEF RunPosted, RunCloseTask, TypeOK
  <2> QED
    BY <1>8, <2>3, <2>4 DEF RunPosted
<1>9. ASSUME NEW e \in Endpoint, HeaderWritten(e) \/ BodyWritten(e)
      PROVE  TypeOK'
  <2>1. outgoing[e] \in Seq(Message) /\ outgoing[e] # <<>>
    BY <1>9 DEF HeaderWritten, BodyWritten, Writers, Writer, TypeOK
  <2>2. Head(outgoing[e]) \in Message /\ Tail(outgoing[e]) \in Seq(Message)
    BY <2>1, HeadTailProperties
  <2>3. Head(outgoing[e]).size \in Nat
    BY <2>2 DEF Message
  <2>4. CASE PopOutgoing(e)
    <3>1. outgoing' \in [Endpoint -> Seq(Message)]
      BY <2>2, <2>4, UpdateType, Zenon DEF PopOutgoing, TypeOK
    <3>2. flushed' \in [Endpoint -> Nat]
      <4>1. flushed[e] + 1 \in Nat /\ flushed \in [Endpoint -> Nat]
        BY NatCounters DEF TypeOK
      <4> QED
        BY <2>4, <4>1, UpdateType, Zenon DEF PopOutgoing
    <3>3. writing' \in [Endpoint -> Writings] /\ left' \in [Endpoint -> Nat]
      BY <2>4, StartMessageWriteType DEF PopOutgoing, Writings, TypeOK
    <3> QED
      BY <1>9, <3>1, <3>2, <3>3 DEF HeaderWritten, BodyWritten, Writings, TypeOK
  <2>5. CASE /\ StartMessageWrite(e, "body", Head(outgoing[e]).size)
             /\ UNCHANGED <<outgoing, flushed>>
    <3>1. writing' \in [Endpoint -> Writings] /\ left' \in [Endpoint -> Nat]
      BY <2>3, <2>5, StartMessageWriteType DEF Writings
    <3> QED
      BY <1>9, <2>5, <3>1 DEF HeaderWritten, BodyWritten, Writings, TypeOK
  <2> QED
    BY <1>9, <2>4, <2>5 DEF HeaderWritten, BodyWritten
<1>10. ASSUME NEW e \in Endpoint, WriteFails(e) \/ ValidationWriteFails(e)
       PROVE  TypeOK'
  <2>1. open' \in [Endpoint -> BOOLEAN]
    BY <1>10, CloseSocketType DEF WriteFails, ValidationWriteFails
  <2>2. CASE WriteFails(e)
    BY <2>1, <2>2 DEF WriteFails, TypeOK
  <2>3. CASE ValidationWriteFails(e)
    BY <2>1, <2>3 DEF ValidationWriteFails, TypeOK
  <2> QED
    BY <1>10, <2>2, <2>3
<1>11. ASSUME NEW e \in Endpoint, ValidationWritten(e)
       PROVE  TypeOK'
  <2>1. reading' \in [Endpoint -> Readings] /\ need' \in [Endpoint -> Nat]
    BY <1>11, Labels, StartReadType DEF ValidationWritten, TypeOK
  <2> QED
    BY <1>11, <2>1 DEF ValidationWritten, TypeOK
<1>12. CASE Connected \/ ConnectFails \/ ChallengeRead
  <2>1. reading' \in [Endpoint -> Readings] /\ need' \in [Endpoint -> Nat]
    BY <1>12, Labels, StartReadType DEF Connected, ConnectFails, ChallengeRead
  <2>2. CASE Connected
    BY <2>1, <2>2 DEF Connected, TypeOK
  <2>3. CASE ConnectFails
    BY <2>1, <2>3, CloseSocketType DEF ConnectFails, TypeOK
  <2>4. CASE ChallengeRead
    BY <2>1, <2>4, StartValidationWriteType DEF ChallengeRead, HsWrites, TypeOK
  <2> QED
    BY <1>12, <2>2, <2>3, <2>4
<1>13. CASE AnswerRead
  <2>1. reading' \in [Endpoint -> Readings] /\ need' \in [Endpoint -> Nat]
    BY <1>13, Labels, StartReadType DEF AnswerRead
  <2>2. open' \in [Endpoint -> BOOLEAN]
    BY <1>13, CloseSocketType DEF AnswerRead, TypeOK
  <2> QED
    BY <1>13, <2>1, <2>2 DEF AnswerRead, TypeOK
<1>14. ASSUME NEW e \in Endpoint, HeaderRead(e)
       PROVE  TypeOK'
  <2>1. PICK n \in SizesIn(word[e]) :
           IF n > 0
           THEN /\ StartRead(e, "body", n)
                /\ tempBody' = [tempBody EXCEPT ![e] = <<>>]
                /\ word' = [word EXCEPT ![e].size = n]
                /\ UNCHANGED incoming
           ELSE /\ AddToIncoming(e, n)
                /\ UNCHANGED <<tempBody, word>>
    BY <1>14 DEF HeaderRead
  <2>2. n \in Nat
    BY DEF SizesIn, Unit, TypeOK
  <2>3. CASE n > 0
    <3>1. word[e] \in Unit
      BY DEF TypeOK
    <3>5. [word[e] EXCEPT !.size = n] \in Unit
      BY <2>2, <3>1 DEF Unit
    <3>6. word \in [Endpoint -> Unit] /\ tempBody \in [Endpoint -> Seq(Nat)]
      BY DEF TypeOK
    <3>7. /\ word' = [word EXCEPT ![e] = [word[e] EXCEPT !.size = n]]
          /\ tempBody' = [tempBody EXCEPT ![e] = <<>>]
      BY <2>1, <2>3
    <3>2. word' \in [Endpoint -> Unit]
      BY <3>5, <3>6, <3>7, UpdateType, Zenon
    <3>3. reading' \in [Endpoint -> Readings] /\ need' \in [Endpoint -> Nat]
      BY <2>1, <2>2, <2>3, Labels, StartReadType
    <3>4. tempBody' \in [Endpoint -> Seq(Nat)]
      <4>1. <<>> \in Seq(Nat)
        OBVIOUS
      <4> QED
        BY <3>6, <3>7, <4>1, UpdateType, Zenon
    <3> QED
      BY <1>14, <2>1, <2>3, <3>2, <3>3, <3>4 DEF HeaderRead, TypeOK
  <2>4. CASE ~(n > 0)
    BY <1>14, <2>1, <2>2, <2>4, AddToIncomingType DEF HeaderRead, TypeOK
  <2> QED
    BY <2>3, <2>4
<1>15. ASSUME NEW e \in Endpoint, BodyRead(e)
       PROVE  TypeOK'
  <2>1. word[e].size \in Nat
    BY DEF Unit, TypeOK
  <2> QED
    BY <1>15, <2>1, AddToIncomingType DEF BodyRead, TypeOK
<1>16. ASSUME NEW e \in Endpoint, ReadFails(e)
       PROVE  TypeOK'
  <2>1. reading' \in [Endpoint -> Readings] /\ need' \in [Endpoint -> Nat]
    BY <1>16, Labels, StartReadType DEF ReadFails
  <2> QED
    BY <1>16, <2>1, CloseSocketType DEF ReadFails, CloseAfterRead, TypeOK
<1>17. CASE TimerFires
  BY <1>17, CloseSocketType DEF TimerFires, TypeOK
<1>18. CASE UNCHANGED vars
  BY <1>18 DEF vars, TypeOK
<1> QED
  BY <1>1, <1>2, <1>3, <1>4, <1>5, <1>6, <1>7, <1>8, <1>9, <1>10, <1>11, <1>12,
     <1>13, <1>14, <1>15, <1>16, <1>17, <1>18
     DEF Next, Application, Network, Context, WriteHandlers, ValidationHandlers,
         ReadHandlers

(***************************************************************************)
(* The only steps that concern the writer of an end.                       *)
(***************************************************************************)
WriterStep(e) ==
  \/ TransferMessage(e)
  \/ RunPosted(e) /\ RunSendTask(e)
  \/ HeaderWritten(e)
  \/ BodyWritten(e)
  \/ WriteFails(e)

\* Who touches the outgoing queue.
LEMMA WriterSteps ==
  ASSUME [Next]_vars
  PROVE  \/ \E e \in Endpoint : WriterStep(e)
         \/ UNCHANGED <<outgoing, flushed, writing, left>>
<1> USE DEF writeVars
<1>1. CASE Application \/ Network \/ TimerFires
  BY <1>1 DEF Application, Network, Send, DisconnectClient, Disconnect, Stop, Establish,
     Accept, Deny, TimerFires
<1>2. ASSUME NEW e \in Endpoint, Context(e)
      PROVE  WriterStep(e) \/ UNCHANGED <<outgoing, flushed, writing, left>>
  <2>1. CASE RunPosted(e)
    BY <2>1 DEF RunPosted, RunCloseTask, WriterStep
  <2>2. CASE ValidationHandlers(e) \/ ValidationWriteFails(e)
    BY <2>2 DEF ValidationHandlers, TransferValidation, ValidationWritten,
       ValidationWriteFails
  <2>3. CASE ReadHandlers(e) \/ ReadFails(e)
    BY <2>3 DEF ReadHandlers, Receive, Connected, ConnectFails, ChallengeRead,
       AnswerRead, HeaderRead, BodyRead, ReadFails
  <2> QED
    BY <1>2, <2>1, <2>2, <2>3 DEF Context, WriteHandlers, WriterStep
<1> QED
  BY <1>1, <1>2 DEF Next, vars

\* Every step keeps the invariant of the writer.
LEMMA WritersNext ==
  ASSUME TypeOK, Writers, [Next]_vars
  PROVE  Writers'
<1>a. /\ outgoing \in [Endpoint -> Seq(Message)]
      /\ writing \in [Endpoint -> {"none", "header", "body"}]
      /\ left \in [Endpoint -> Nat]
  BY DEF TypeOK
<1>1. ASSUME NEW e \in Endpoint, WriterStep(e), NEW d \in Endpoint, d # e
      PROVE  outgoing'[d] = outgoing[d] /\ writing'[d] = writing[d] /\ left'[d] = left[d]
  <2>1. CASE TransferMessage(e) \/ WriteFails(e)
    BY <1>1, <1>a, <2>1 DEF TransferMessage, WriteFails
  <2>2. CASE RunSendTask(e)
    BY <1>1, <1>a, <2>2 DEF RunSendTask, PushBack, StartMessageWrite
  <2>3. CASE PopOutgoing(e)
    BY <1>1, <1>a, <2>3 DEF PopOutgoing, StartMessageWrite
  <2>4. CASE HeaderWritten(e)
    BY <1>1, <1>a, <2>3, <2>4 DEF HeaderWritten, StartMessageWrite
  <2> QED
    BY <1>1, <2>1, <2>2, <2>3, <2>4 DEF WriterStep, BodyWritten
<1>2. ASSUME NEW e \in Endpoint, TransferMessage(e)
      PROVE  Writer(e)'
  <2>1. /\ outgoing' = outgoing /\ writing' = writing
        /\ left[e] > 0 /\ left'[e] = left[e] - 1
    BY <1>2, <1>a DEF TransferMessage, UnitsLeft
  <2>2. writing[e] # "none" => Head(outgoing[e]) \in Message
    BY <1>a, HeadTailProperties DEF Writers, Writer
  <2> QED
    BY <2>1, <2>2, <1>a DEF Writers, Writer, Message
<1>3. ASSUME NEW e \in Endpoint, RunPosted(e), RunSendTask(e)
      PROVE  Writer(e)'
  <2>1. /\ outgoing[e] \in Seq(Message)
        /\ posted[e] \in Seq(Message) /\ posted[e] # <<>>
        /\ Head(posted[e]) \in Message
    BY <1>3, HeadTailProperties DEF RunPosted, TypeOK
  <2>2. outgoing'[e] = Append(outgoing[e], Head(posted[e]))
    BY <1>3 DEF RunSendTask, PushBack, TypeOK
  <2>3. outgoing'[e] # <<>>
    BY <2>1, <2>2
  <2>4. outgoing[e] # <<>> => Head(outgoing'[e]) = Head(outgoing[e])
    BY <2>1, <2>2
  <2>5. CASE outgoing[e] = <<>>
    BY <1>3, <2>3, <2>5 DEF RunSendTask, WritingMessage, StartMessageWrite, Writer, TypeOK
  <2>6. CASE outgoing[e] # <<>>
    <3>1. writing' = writing /\ left' = left
      BY <1>3, <2>6 DEF RunSendTask, WritingMessage
    <3> QED
      BY <2>3, <2>4, <2>6, <3>1 DEF Writers, Writer
  <2> QED
    BY <2>5, <2>6
<1>4. ASSUME NEW e \in Endpoint, PopOutgoing(e), left[e] = 0
      PROVE  Writer(e)'
  <2>1. outgoing'[e] = Tail(outgoing[e])
    BY <1>4 DEF PopOutgoing, TypeOK
  <2>2. CASE MoreOutgoing(e)
    BY <1>4, <1>a, <2>1, <2>2 DEF PopOutgoing, MoreOutgoing, StartMessageWrite, Writer
  <2>3. CASE ~MoreOutgoing(e)
    BY <1>4, <1>a, <2>1, <2>3 DEF PopOutgoing, Writer
  <2> QED
    BY <2>2, <2>3
<1>5. ASSUME NEW e \in Endpoint, HeaderWritten(e)
      PROVE  Writer(e)'
  <2>1. CASE HasBody(e)
    <3>1. /\ outgoing' = outgoing /\ outgoing[e] # <<>>
          /\ writing'[e] = "body" /\ left'[e] = Head(outgoing[e]).size
      BY <1>5, <2>1 DEF HeaderWritten, StartMessageWrite, Writers, Writer, TypeOK
    <3>2. Head(outgoing[e]) \in Message
      BY <3>1, HeadTailProperties DEF TypeOK
    <3> QED
      BY <3>1, <3>2 DEF Writer, Message
  <2>2. CASE ~HasBody(e)
    BY <1>4, <1>5, <2>2 DEF HeaderWritten
  <2> QED
    BY <2>1, <2>2
<1>6. ASSUME NEW e \in Endpoint, BodyWritten(e)
      PROVE  Writer(e)'
  BY <1>4, <1>6 DEF BodyWritten
<1>7. ASSUME NEW e \in Endpoint, WriteFails(e)
      PROVE  Writer(e)'
  BY <1>7 DEF WriteFails, Writer, TypeOK
<1>8. CASE UNCHANGED <<outgoing, flushed, writing, left>>
  BY <1>8 DEF Writers, Writer
<1>9. ASSUME NEW e \in Endpoint, WriterStep(e)
      PROVE  Writers'
  <2>1. Writer(e)'
    BY <1>2, <1>3, <1>5, <1>6, <1>7, <1>9 DEF WriterStep
  <2>2. ASSUME NEW d \in Endpoint, d # e
        PROVE  Writer(d)'
    BY <1>1, <1>9, <2>2 DEF Writers, Writer
  <2> QED
    BY <2>1, <2>2 DEF Writers
<1> QED
  BY <1>8, <1>9, WriterSteps

(***************************************************************************)
(* Types: the variables of the connection keep their types, for every set  *)
(* of body sizes.                                                          *)
(***************************************************************************)
THEOREM WritersCorrect == Spec => [](TypeOK /\ Writers)
<1>1. Init => TypeOK /\ Writers
  BY TypeInit, WritersInit
<1>2. TypeOK /\ Writers /\ [Next]_vars => TypeOK' /\ Writers'
  BY TypeNext, WritersNext
<1> QED
  BY <1>1, <1>2, PTL DEF Spec

\* The types of the variables, for any bodies and any number of messages.
THEOREM TypeCorrect == Spec => []TypeOK
  BY WritersCorrect, PTL
--------------------------------------------------------------------------------
(***************************************************************************)
(* Before the acceptor's handler has built the server's TcpConnection, and *)
(* for ever when the connection is denied, nothing has happened at it.     *)
(***************************************************************************)
Unborn == /\ ~open["server"]
          /\ posted["server"] = <<>>
          /\ outgoing["server"] = <<>>
          /\ reading["server"] = "none"
          /\ hsWrite["server"] = "none"

ServerUnborn == phase # "accepted" => Unborn

\* Every step but the acceptor's leaves the server's end unborn.
LEMMA ServerUnbornNext ==
  ASSUME TypeOK, Writers, ServerUnborn, [Next]_vars
  PROVE  ServerUnborn'
<1> SUFFICES ASSUME phase' # "accepted"
             PROVE  Unborn'
  BY DEF ServerUnborn
<1> USE DEF appVars, writeVars, readVars
<1>a. /\ open \in [Endpoint -> BOOLEAN]
      /\ posted \in [Endpoint -> Seq(Message)]
      /\ outgoing \in [Endpoint -> Seq(Message)]
      /\ left \in [Endpoint -> Nat]
      /\ need \in [Endpoint -> Nat]
      /\ reading \in [Endpoint -> Readings]
      /\ hsWrite \in [Endpoint -> HsWrites]
  BY DEF TypeOK, HsWrites
<1>b. phase # "accepted"
  <2>1. CASE phase' = phase
    BY <2>1
  <2>2. CASE Establish \/ Accept \/ Deny
    BY <2>2 DEF Establish, Accept, Deny
  <2>3. CASE Application \/ TimerFires
    BY <2>3 DEF Application, Send, DisconnectClient, Disconnect, Stop, TimerFires
  <2>4. ASSUME NEW e \in Endpoint, Context(e)
        PROVE  phase' = phase
    BY <2>4 DEF Context, RunPosted, WriteHandlers, TransferMessage, HeaderWritten,
       BodyWritten, ValidationHandlers, TransferValidation, ValidationWritten,
       ReadHandlers, Receive, Connected, ConnectFails, ChallengeRead, AnswerRead,
       HeaderRead, BodyRead, WriteFails, ValidationWriteFails, ReadFails
  <2> QED
    BY <2>1, <2>2, <2>3, <2>4 DEF Next, Network, vars
<1>c. Unborn
  BY <1>b DEF ServerUnborn
<1>d. "client" # "server"
  OBVIOUS
<1>e. writing["server"] = "none" /\ left["server"] = 0
  BY <1>c DEF Writers, Writer, Unborn
<1>1. CASE Application
  BY <1>1, <1>a, <1>b, <1>c DEF Application, Send, MaySend, Exists, DisconnectClient,
     Disconnect, Stop, Unborn
<1>2. CASE Network
  BY <1>2, <1>a, <1>c DEF Network, Establish, Accept, Deny, Unborn
<1>3. CASE TimerFires
  BY <1>3, <1>a, <1>c DEF TimerFires, CloseSocket, Unborn
<1>4. CASE Context("client")
  <2> USE <1>a, <1>c DEF Unborn, CloseSocket, StartRead
  <2>1. CASE RunPosted("client")
    BY <2>1 DEF RunPosted, RunSendTask, PushBack, RunCloseTask
  <2>2. CASE WriteHandlers("client") \/ WriteFails("client")
    BY <2>2 DEF WriteHandlers, TransferMessage, HeaderWritten, BodyWritten, PopOutgoing,
       WriteFails
  <2>3. CASE ValidationHandlers("client") \/ ValidationWriteFails("client")
    BY <2>3 DEF ValidationHandlers, TransferValidation, ValidationWritten,
       ValidationWriteFails
  <2>4. CASE ReadHandlers("client") \/ ReadFails("client")
    BY <2>4 DEF ReadHandlers, Receive, Connected, ConnectFails, ChallengeRead,
       StartValidationWrite, HeaderRead, BodyRead, AddToIncoming, ReadFails, CloseAfterRead
  <2> QED
    BY <1>4, <2>1, <2>2, <2>3, <2>4 DEF Context
<1>5. CASE Context("server")
  <2> USE <1>a, <1>c, <1>e DEF Unborn
  <2>1. CASE RunPosted("server") \/ WriteHandlers("server") \/ WriteFails("server")
    BY <2>1 DEF RunPosted, WriteHandlers, TransferMessage, UnitsLeft, HeaderWritten,
       BodyWritten, WriteFails
  <2>2. CASE ValidationHandlers("server") \/ ValidationWriteFails("server")
    BY <2>2 DEF ValidationHandlers, TransferValidation, ValidationWritten,
       ValidationWriteFails
  <2>3. CASE ReadHandlers("server")
    BY <2>3 DEF ReadHandlers, Receive, AnswerRead, HeaderRead, BodyRead
  <2>4. CASE ReadFails("server")
    BY <2>4 DEF ReadFails, CloseAfterRead, CloseSocket, StartRead
  <2> QED
    BY <1>5, <2>1, <2>2, <2>3, <2>4 DEF Context
<1>6. CASE UNCHANGED vars
  BY <1>6, <1>c DEF vars, Unborn
<1> QED
  BY <1>1, <1>2, <1>3, <1>4, <1>5, <1>6 DEF Next, Endpoint

\* Nothing happens at the server's end before it is accepted.
THEOREM ServerUnbornCorrect == Spec => [](TypeOK /\ Writers /\ ServerUnborn)
<1>1. Init => ServerUnborn
  BY DEF Init, ServerUnborn, Unborn
<1>2. TypeOK /\ Writers /\ ServerUnborn /\ [Next]_vars => ServerUnborn'
  BY ServerUnbornNext
<1> QED
  BY <1>1, <1>2, WritersCorrect, PTL DEF Spec
--------------------------------------------------------------------------------
(***************************************************************************)
(* A socket is opened by the acceptor's handler only.                      *)
(***************************************************************************)
LEMMA OnlyAcceptOpens ==
  ASSUME TypeOK, [Next]_vars, ~Accept, NEW d \in Endpoint, open'[d]
  PROVE  open[d]
<1>a. open \in [Endpoint -> BOOLEAN]
  BY DEF TypeOK
<1>1. ASSUME NEW e \in Endpoint, CloseSocket(e)
      PROVE  open[d]
  BY <1>1, <1>a DEF CloseSocket
<1>2. CASE open' = open
  BY <1>2
<1>3. open' = open \/ \E e \in Endpoint : CloseSocket(e)
  <2>1. CASE Application \/ Network \/ TimerFires \/ UNCHANGED vars
    BY <2>1 DEF Application, Send, DisconnectClient, Disconnect, Stop, Network, Establish,
       Deny, TimerFires, vars
  <2>2. ASSUME NEW e \in Endpoint, Context(e)
        PROVE  open' = open \/ \E c \in Endpoint : CloseSocket(c)
    BY <2>2 DEF Context, RunPosted, RunSendTask, RunCloseTask, WriteHandlers,
       TransferMessage, HeaderWritten, BodyWritten, ValidationHandlers, TransferValidation,
       ValidationWritten, ReadHandlers, Receive, Connected, ConnectFails, ChallengeRead,
       AnswerRead, HeaderRead, BodyRead, WriteFails, ValidationWriteFails, ReadFails,
       CloseAfterRead
  <2> QED
    BY <2>1, <2>2 DEF Next
<1> QED
  BY <1>1, <1>2, <1>3

(***************************************************************************)
(* No open connection has messages and no write: a queue that becomes      *)
(* empty, and one that Send finds empty, are the only two places where the *)
(* chain of writes ends and starts.                                        *)
(***************************************************************************)
LEMMA NoStalledQueueNext ==
  ASSUME TypeOK, Writers, ServerUnborn, NoStalledQueue, [Next]_vars
  PROVE  NoStalledQueue'
<1> SUFFICES ASSUME NEW d \in Endpoint, open'[d], outgoing'[d] # <<>>
             PROVE  writing'[d] # "none"
  BY DEF NoStalledQueue
<1>a. /\ outgoing \in [Endpoint -> Seq(Message)]
      /\ writing \in [Endpoint -> {"none", "header", "body"}]
      /\ open \in [Endpoint -> BOOLEAN]
  BY DEF TypeOK
<1>1. CASE Accept
  <2>1. outgoing' = outgoing /\ writing' = writing /\ outgoing["server"] = <<>>
    BY <1>1 DEF Accept, ServerUnborn, Unborn
  <2>2. d = "client" /\ open'["client"] = open["client"]
    BY <1>1, <1>a, <2>1 DEF Accept, Endpoint
  <2> QED
    BY <2>1, <2>2 DEF NoStalledQueue
<1>2. CASE ~Accept /\ UNCHANGED <<outgoing, flushed, writing, left>>
  BY <1>2, OnlyAcceptOpens DEF NoStalledQueue
<1>3. ASSUME ~Accept, NEW e \in Endpoint, WriterStep(e)
      PROVE  writing'[d] # "none"
  <2>1. open[d]
    BY <1>3, OnlyAcceptOpens
  <2>2. CASE TransferMessage(e)
    BY <2>1, <2>2 DEF TransferMessage, NoStalledQueue
  <2>3. CASE RunSendTask(e)
    <3>1. CASE outgoing[e] = <<>>
      BY <1>a, <2>1, <2>3, <3>1 DEF RunSendTask, PushBack, WritingMessage,
         StartMessageWrite, NoStalledQueue
    <3>2. CASE outgoing[e] # <<>>
      <4>1. writing' = writing /\ (d # e => outgoing'[d] = outgoing[d])
        BY <1>a, <2>3, <3>2 DEF RunSendTask, PushBack, WritingMessage
      <4> QED
        BY <2>1, <3>2, <4>1 DEF NoStalledQueue
    <3> QED
      BY <3>1, <3>2
  <2>4. CASE PopOutgoing(e)
    <3>1. CASE d = e
      BY <1>a, <2>4, <3>1 DEF PopOutgoing, MoreOutgoing, StartMessageWrite
    <3>2. CASE d # e
      <4>1. outgoing'[d] = outgoing[d] /\ writing'[d] = writing[d]
        BY <1>a, <2>4, <3>2 DEF PopOutgoing, StartMessageWrite
      <4> QED
        BY <2>1, <4>1 DEF NoStalledQueue
    <3> QED
      BY <3>1, <3>2
  <2>5. CASE HeaderWritten(e) /\ ~PopOutgoing(e)
    <3>1. outgoing' = outgoing /\ writing' = [writing EXCEPT ![e] = "body"]
      BY <2>5 DEF HeaderWritten, StartMessageWrite
    <3> QED
      BY <1>a, <2>1, <3>1 DEF NoStalledQueue
  <2>6. CASE WriteFails(e)
    <3>1. d # e /\ outgoing' = outgoing /\ writing'[d] = writing[d]
      BY <1>a, <2>6 DEF WriteFails, CloseSocket
    <3> QED
      BY <2>1, <3>1 DEF NoStalledQueue
  <2> QED
    BY <1>3, <2>2, <2>3, <2>4, <2>5, <2>6 DEF WriterStep, BodyWritten
<1> QED
  BY <1>1, <1>2, <1>3, WriterSteps

(***************************************************************************)
(* No queue stalls, for any number of messages of any sizes.               *)
(***************************************************************************)
THEOREM NoQueueStalls == Spec => []NoStalledQueue
<1>1. Init => NoStalledQueue
  BY DEF Init, NoStalledQueue
<1>2. TypeOK /\ Writers /\ ServerUnborn /\ NoStalledQueue /\ [Next]_vars => NoStalledQueue'
  BY NoStalledQueueNext
<1> QED
  BY <1>1, <1>2, ServerUnbornCorrect, PTL DEF Spec
--------------------------------------------------------------------------------
(***************************************************************************)
(* The client answers the challenge before it reads anything else, and     *)
(* reads nothing while it answers.                                         *)
(***************************************************************************)
Handshake ==
  /\ \A e \in Endpoint : reading[e] \in {"none", "connect"} => need[e] = 0
  /\ reading["client"] \in {"connect", "validation"} => hsWrite["client"] = "none"
  /\ hsWrite["client"] \in {"pending", "written"} => reading["client"] = "none"

(***************************************************************************)
(* The only steps that concern the reads and the handshake of an end.      *)
(***************************************************************************)
ReaderStep(e) == ReadHandlers(e) \/ ReadFails(e)

HandshakeStep(e) == ValidationHandlers(e) \/ ValidationWriteFails(e)

\* Who touches the reader and the handshake.
LEMMA ReaderSteps ==
  ASSUME [Next]_vars
  PROVE  \/ Accept
         \/ \E e \in Endpoint : ReaderStep(e) \/ HandshakeStep(e)
         \/ UNCHANGED <<readVars, hsWrite>>
<1> USE DEF writeVars
<1>1. CASE Application \/ Network \/ TimerFires
  BY <1>1 DEF Application, Network, Send, DisconnectClient, Disconnect, Stop, Establish,
     Deny, TimerFires
<1>2. ASSUME NEW e \in Endpoint, Context(e)
      PROVE  \/ ReaderStep(e) \/ HandshakeStep(e)
             \/ UNCHANGED <<readVars, hsWrite>>
  BY <1>2 DEF Context, RunPosted, RunSendTask, RunCloseTask, WriteHandlers,
     TransferMessage,
     HeaderWritten, BodyWritten, WriteFails, ReaderStep, HandshakeStep
<1> QED
  BY <1>1, <1>2 DEF Next, vars

\* Every step keeps the order of the handshake.
LEMMA HandshakeNext ==
  ASSUME TypeOK, ServerUnborn, Handshake, [Next]_vars
  PROVE  Handshake'
<1>a. /\ reading \in [Endpoint -> Readings]
      /\ need \in [Endpoint -> Nat]
      /\ hsWrite \in [Endpoint -> HsWrites]
  BY DEF TypeOK, HsWrites
<1> USE <1>a DEF Handshake, StartRead, writeVars
<1>1. CASE Accept
  <2>1. need' = [need EXCEPT !["server"] = 1] /\
        reading' = [reading EXCEPT !["server"] = "validation"]
    BY <1>1 DEF Accept
  <2>2. hsWrite' = [hsWrite EXCEPT !["server"] = "pending"]
    BY <1>1 DEF Accept, StartValidationWrite
  <2> QED
    BY <2>1, <2>2 DEF Endpoint
<1>2. ASSUME NEW e \in Endpoint, ReaderStep(e)
      PROVE  Handshake'
  <2>1. CASE Receive(e)
    BY <1>2, <2>1 DEF Receive
  <2>2. CASE Connected
    BY <2>2 DEF Connected
  <2>3. CASE ConnectFails
    BY <2>3 DEF ConnectFails
  <2>4. CASE ChallengeRead
    BY <2>4 DEF ChallengeRead, StartValidationWrite
  <2>5. CASE AnswerRead
    <3>1. /\ reading'["client"] = reading["client"] /\ need'["client"] = need["client"]
          /\ reading'["server"] = "header" \/ need'["server"] = 0
      BY <2>5 DEF AnswerRead
    <3> QED
      BY <2>5, <3>1 DEF AnswerRead, Endpoint
  <2>6. CASE HeaderRead(e)
    <3>1. \E w \in {"header", "body"} : reading' = [reading EXCEPT ![e] = w]
      BY <2>6 DEF HeaderRead, AddToIncoming
    <3>2. \A d \in Endpoint : d # e => need'[d] = need[d]
      BY <2>6 DEF HeaderRead, AddToIncoming
    <3>3. e = "client" => reading["client"] = "header"
      BY <2>6 DEF HeaderRead
    <3> QED
      BY <2>6, <3>1, <3>2, <3>3 DEF HeaderRead
  <2>7. CASE BodyRead(e)
    BY <2>7 DEF BodyRead, AddToIncoming
  <2>8. CASE ReadFails(e)
    <3>1. need[e] > 0 /\ (e = "client" => reading["client"] # "none")
      BY <2>8 DEF ReadFails
    <3> QED
      BY <2>8, <3>1 DEF ReadFails
  <2> QED
    BY <1>2, <2>1, <2>2, <2>3, <2>4, <2>5, <2>6, <2>7, <2>8 DEF ReaderStep, ReadHandlers
<1>3. ASSUME NEW e \in Endpoint, HandshakeStep(e)
      PROVE  Handshake'
  <2>1. CASE TransferValidation(e)
    BY <2>1 DEF TransferValidation, readVars
  <2>2. CASE ValidationWritten(e)
    BY <2>2 DEF ValidationWritten, ReadsAfterValidation
  <2>3. CASE ValidationWriteFails(e)
    BY <2>3 DEF ValidationWriteFails, readVars
  <2> QED
    BY <1>3, <2>1, <2>2, <2>3 DEF HandshakeStep, ValidationHandlers
<1>4. CASE UNCHANGED <<readVars, hsWrite>>
  BY <1>4 DEF readVars
<1> QED
  BY <1>1, <1>2, <1>3, <1>4, ReaderSteps

Inductive == TypeOK /\ Writers /\ ServerUnborn /\ Handshake

\* The handshake is in its order, for the connection's whole life.
THEOREM HandshakeCorrect == Spec => []Inductive
<1>1. Init => Handshake
  BY DEF Init, Handshake
<1>2. TypeOK /\ ServerUnborn /\ Handshake /\ [Next]_vars => Handshake'
  BY HandshakeNext
<1> QED
  BY <1>1, <1>2, ServerUnbornCorrect, PTL DEF Spec, Inductive

(***************************************************************************)
(* A read, or a message write, that waits for words goes on or ends.       *)
(***************************************************************************)
LEMMA ReadIsAlone ==
  ASSUME Inductive, [Next]_vars, NEW d \in Endpoint, need[d] > 0
  PROVE  ReadGoesOn(d) \/ need'[d] = 0
<1>a. /\ need \in [Endpoint -> Nat]
      /\ reading \in [Endpoint -> Readings]
      /\ ServerUnborn /\ Handshake
  BY DEF Inductive, TypeOK
<1> USE <1>a DEF StartRead, ReadGoesOn
<1>1. CASE Accept
  <2>1. need["server"] = 0
    BY <1>1 DEF Accept, ServerUnborn, Unborn, Handshake
  <2> QED
    BY <1>1, <2>1 DEF Accept
<1>2. ASSUME NEW e \in Endpoint, ReaderStep(e)
      PROVE  ReadGoesOn(d) \/ need'[d] = 0
  <2>1. CASE Receive(e)
    BY <2>1 DEF Receive
  <2>2. CASE ReadFails(e) \/ ConnectFails \/ ChallengeRead
    BY <2>2 DEF ReadFails, ConnectFails, ChallengeRead
  <2>3. CASE Connected
    BY <2>3 DEF Connected, Handshake
  <2>4. CASE AnswerRead
    BY <2>4 DEF AnswerRead
  <2>5. CASE HeaderRead(e) \/ BodyRead(e)
    <3>1. need[e] = 0
      BY <2>5 DEF HeaderRead, BodyRead
    <3>2. \E n, w : /\ need' = [need EXCEPT ![e] = n]
                    /\ reading' = [reading EXCEPT ![e] = w]
      BY <2>5 DEF HeaderRead, BodyRead, AddToIncoming
    <3> QED
      BY <3>1, <3>2
  <2> QED
    BY <1>2, <2>1, <2>2, <2>3, <2>4, <2>5 DEF ReaderStep, ReadHandlers
<1>3. ASSUME NEW e \in Endpoint, HandshakeStep(e)
      PROVE  ReadGoesOn(d) \/ need'[d] = 0
  BY <1>3 DEF HandshakeStep, ValidationHandlers, TransferValidation, ValidationWritten,
     ValidationWriteFails, ReadsAfterValidation, Handshake, readVars
<1>4. CASE UNCHANGED <<readVars, hsWrite>>
  BY <1>4 DEF readVars
<1> QED
  BY <1>1, <1>2, <1>3, <1>4, ReaderSteps

\* A write that has words left goes on, or ends with none left.
LEMMA WriteIsAlone ==
  ASSUME Inductive, [Next]_vars, NEW d \in Endpoint, left[d] > 0
  PROVE  WriteGoesOn(d) \/ left'[d] = 0
<1>a. /\ left \in [Endpoint -> Nat]
      /\ writing \in [Endpoint -> {"none", "header", "body"}]
      /\ Writers
  BY DEF Inductive, TypeOK
<1> USE <1>a DEF StartMessageWrite, WriteGoesOn
<1>1. ASSUME NEW e \in Endpoint, WriterStep(e)
      PROVE  WriteGoesOn(d) \/ left'[d] = 0
  <2>1. CASE TransferMessage(e)
    <3>1. /\ writing' = writing
          /\ left' = [left EXCEPT ![e] = @ - 1]
          /\ left[e] > 0
      BY <2>1 DEF TransferMessage, UnitsLeft
    <3> QED
      BY <3>1
  <2>2. CASE WriteFails(e)
    <3>1. /\ writing' = [writing EXCEPT ![e] = "none"]
          /\ left' = [left EXCEPT ![e] = 0]
      BY <2>2 DEF WriteFails
    <3> QED
      BY <3>1
  <2>3. CASE RunSendTask(e)
    BY <2>3 DEF RunSendTask, WritingMessage, Writers, Writer
  <2>4. CASE HeaderWritten(e) \/ BodyWritten(e)
    BY <2>4 DEF HeaderWritten, BodyWritten, PopOutgoing
  <2> QED
    BY <1>1, <2>1, <2>2, <2>3, <2>4 DEF WriterStep
<1>2. CASE UNCHANGED <<outgoing, flushed, writing, left>>
  BY <1>2
<1> QED
  BY <1>1, <1>2, WriterSteps

(***************************************************************************)
(* Neither end ever has two reads or two message writes outstanding, so    *)
(* tempIncomingMessage_ is never filled twice at a time and the words of   *)
(* two messages never mix.                                                 *)
(***************************************************************************)
THEOREM OneOperation == Spec => OneOperationEach
<1>1. Inductive /\ [Next]_vars =>
         [\A e \in Endpoint : /\ need[e] > 0 => ReadGoesOn(e) \/ need'[e] = 0
                              /\ left[e] > 0 => WriteGoesOn(e) \/ left'[e] = 0]_vars
  BY ReadIsAlone, WriteIsAlone
<1> QED
  BY <1>1, HandshakeCorrect, PTL DEF Spec, OneOperationEach
--------------------------------------------------------------------------------
(***************************************************************************)
(* Messages are numbered from one: none of their words is a validation.    *)
(***************************************************************************)
Numbered ==
  \A e \in Endpoint :
     /\ \A i \in 1 .. Len(posted[e]) : posted[e][i] = CloseTask \/ posted[e][i].id > 0
     /\ \A i \in 1 .. Len(outgoing[e]) : outgoing[e][i].id > 0

\* Send numbers the messages from one, and no step renumbers them.
LEMMA NumberedNext ==
  ASSUME TypeOK, Writers, Numbered, [Next]_vars
  PROVE  Numbered'
<1>a. /\ posted \in [Endpoint -> Seq(Message)]
      /\ outgoing \in [Endpoint -> Seq(Message)]
      /\ sent \in [Endpoint -> Seq(Message)]
  BY DEF TypeOK
<1> USE <1>a DEF Numbered
<1>1. ASSUME NEW e \in Endpoint, NEW m \in Message, m = CloseTask \/ m.id > 0,
             posted' = [posted EXCEPT ![e] = Append(@, m)], outgoing' = outgoing
      PROVE  Numbered'
  <2>1. \A i \in 1 .. Len(Append(posted[e], m)) :
           Append(posted[e], m)[i] = CloseTask \/ Append(posted[e], m)[i].id > 0
    BY <1>1
  <2> QED
    BY <1>1, <2>1
<1>2. ASSUME NEW e \in Endpoint, Send(e)
      PROVE  Numbered'
  <2>1. PICK n \in Sizes :
           posted' = [posted EXCEPT ![e] = Append(@, [id |-> Len(sent[e]) + 1, size |-> n])]
    BY <1>2 DEF Send
  <2>2. [id |-> Len(sent[e]) + 1, size |-> n] \in Message
    BY DEF Message
  <2>3. Len(sent[e]) + 1 > 0
    BY <1>a
  <2> QED
    BY <1>1, <1>2, <2>1, <2>2, <2>3 DEF Send, writeVars
<1>3. CASE DisconnectClient \/ Disconnect
  <2>1. CloseTask \in Message
    BY DEF CloseTask, Message
  <2> QED
    BY <1>1, <1>3, <2>1 DEF DisconnectClient, Disconnect, writeVars
<1>4. ASSUME NEW e \in Endpoint, RunPosted(e)
      PROVE  Numbered'
  <2>1. /\ Head(posted[e]) \in Message /\ Tail(posted[e]) \in Seq(Message)
        /\ Head(posted[e]) = posted[e][1] /\ 1 \in 1 .. Len(posted[e])
        /\ Len(Tail(posted[e])) = Len(posted[e]) - 1
        /\ \A i \in 1 .. Len(Tail(posted[e])) : Tail(posted[e])[i] = posted[e][i + 1]
    BY <1>4, HeadTailProperties DEF RunPosted
  <2>2. \A i \in 1 .. Len(posted'[e]) : posted'[e][i] = CloseTask \/ posted'[e][i].id > 0
    BY <1>4, <2>1 DEF RunPosted
  <2>3. \A d \in Endpoint : d # e => posted'[d] = posted[d] /\ outgoing'[d] = outgoing[d]
    BY <1>4 DEF RunPosted, RunSendTask, PushBack, RunCloseTask, writeVars
  <2>4. \A i \in 1 .. Len(outgoing'[e]) : outgoing'[e][i].id > 0
    <3>1. CASE RunSendTask(e)
      <4>1. Head(posted[e]).id > 0
        BY <2>1, <3>1 DEF RunSendTask
      <4>2. outgoing'[e] = Append(outgoing[e], Head(posted[e]))
        BY <3>1 DEF RunSendTask, PushBack
      <4> QED
        BY <2>1, <4>1, <4>2
    <3>2. CASE RunCloseTask(e)
      BY <3>2 DEF RunCloseTask, writeVars
    <3> QED
      BY <1>4, <3>1, <3>2 DEF RunPosted
  <2> QED
    BY <2>2, <2>3, <2>4
<1>5. ASSUME NEW e \in Endpoint, HeaderWritten(e) \/ BodyWritten(e)
      PROVE  Numbered'
  <2>1. posted' = posted
    BY <1>5 DEF HeaderWritten, BodyWritten
  <2>2. CASE PopOutgoing(e)
    <3>1. outgoing[e] # <<>>
      BY <1>5 DEF HeaderWritten, BodyWritten, Writers, Writer
    <3>2. /\ Len(Tail(outgoing[e])) = Len(outgoing[e]) - 1
          /\ \A i \in 1 .. Len(Tail(outgoing[e])) : Tail(outgoing[e])[i] = outgoing[e][i + 1]
      BY <3>1, HeadTailProperties
    <3>3. \A i \in 1 .. Len(outgoing'[e]) : outgoing'[e][i].id > 0
      BY <2>2, <3>2 DEF PopOutgoing
    <3> QED
      BY <2>1, <2>2, <3>3 DEF PopOutgoing
  <2>3. CASE outgoing' = outgoing
    BY <2>1, <2>3
  <2> QED
    BY <1>5, <2>2, <2>3 DEF HeaderWritten, BodyWritten
<1>6. CASE UNCHANGED <<posted, outgoing>>
  BY <1>6
<1>7. ASSUME NEW e \in Endpoint, Context(e)
      PROVE  Numbered'
  BY <1>4, <1>5, <1>6, <1>7 DEF Context, WriteHandlers, TransferMessage,
     ValidationHandlers,
     TransferValidation, ValidationWritten, ReadHandlers, Receive, Connected, ConnectFails,
     ChallengeRead, AnswerRead, HeaderRead, BodyRead, WriteFails, ValidationWriteFails,
     ReadFails, writeVars
<1> QED
  BY <1>2, <1>3, <1>6, <1>7 DEF Next, Application, Stop, Network, Establish, Accept, Deny,
     TimerFires, vars, writeVars

(***************************************************************************)
(* Until the client has written its answer, no word equal to it is on its  *)
(* way to the server, nor in the server's handshakeIn_.                    *)
(***************************************************************************)
Answered == hsWrite["client"] \in {"written", "done"}

Unanswered ==
  /\ verdict # "validated"
  /\ \A i \in 1 .. Len(wire["client"]) : wire["client"][i] # Validation
  /\ reading["server"] = "validation" /\ need["server"] = 0 => word["server"] # Validation

NoAnswerYet == ~Answered => Unanswered

(***************************************************************************)
(* An answer that was written stays written.                               *)
(***************************************************************************)
LEMMA AnsweredStays ==
  ASSUME Inductive, [Next]_vars, Answered
  PROVE  Answered'
<1>a. hsWrite \in [Endpoint -> HsWrites] /\ Handshake
  BY DEF Inductive, TypeOK, HsWrites
<1> USE <1>a DEF Answered
<1>1. CASE Accept
  BY <1>1 DEF Accept, StartValidationWrite
<1>2. ASSUME NEW e \in Endpoint, ReaderStep(e)
      PROVE  Answered'
  BY <1>2 DEF ReaderStep, ReadHandlers, Receive, Connected, ConnectFails, ChallengeRead,
     AnswerRead, HeaderRead, BodyRead, ReadFails, Handshake, writeVars
<1>3. ASSUME NEW e \in Endpoint, HandshakeStep(e)
      PROVE  Answered'
  BY <1>3 DEF HandshakeStep, ValidationHandlers, TransferValidation, ValidationWritten,
     ValidationWriteFails
<1>4. CASE UNCHANGED <<readVars, hsWrite>>
  BY <1>4
<1> QED
  BY <1>1, <1>2, <1>3, <1>4, ReaderSteps

(***************************************************************************)
(* Without an answer the server validates nobody: a word of a message is   *)
(* no answer, so nothing in the client's stream is one.                    *)
(***************************************************************************)
LEMMA NoAnswerYetNext ==
  ASSUME Inductive, Numbered, NoAnswerYet, [Next]_vars
  PROVE  NoAnswerYet'
<1> SUFFICES ASSUME ~Answered'
             PROVE  Unanswered'
  BY DEF NoAnswerYet
<1>a. Unanswered
  BY AnsweredStays DEF NoAnswerYet
<1>b. /\ wire \in [Endpoint -> Seq(Unit)]
      /\ reading \in [Endpoint -> Readings]
      /\ need \in [Endpoint -> Nat]
      /\ word \in [Endpoint -> Unit]
      /\ hsWrite \in [Endpoint -> HsWrites]
  BY DEF Inductive, TypeOK, HsWrites
<1> USE <1>a, <1>b DEF Unanswered, StartRead
<1>1. CASE UNCHANGED <<wire, readVars>>
  BY <1>1 DEF readVars
<1>2. CASE Accept
  BY <1>2 DEF Accept
<1>3. ASSUME NEW e \in Endpoint, TransferMessage(e)
      PROVE  Unanswered'
  <2>1. left[e] > 0
    BY <1>3 DEF TransferMessage, UnitsLeft
  <2>2. MessageUnit(e) \in Unit /\ MessageUnit(e) # Validation
    <3>1. outgoing[e] \in Seq(Message) /\ outgoing[e] # <<>>
      BY <2>1 DEF Inductive, TypeOK, Writers, Writer
    <3>2. Head(outgoing[e]) = outgoing[e][1] /\ 1 \in 1 .. Len(outgoing[e])
      BY <3>1, HeadTailProperties
    <3>3. Head(outgoing[e]).id > 0
      BY <3>2 DEF Numbered
    <3>4. MessageUnit(e).msg = Head(outgoing[e]).id
      BY DEF MessageUnit, HeaderOf, BodyUnit
    <3> QED
      BY <2>1, <3>3, <3>4, MessageUnitType DEF Inductive, Validation
  <2>3. /\ wire' = [wire EXCEPT ![e] = Append(@, MessageUnit(e))]
        /\ UNCHANGED readVars
    BY <1>3 DEF TransferMessage
  <2>4. \A i \in 1 .. Len(wire'["client"]) : wire'["client"][i] # Validation
    <3>1. CASE e = "client"
      <4>1. wire'["client"] = Append(wire["client"], MessageUnit(e))
        BY <2>3, <3>1
      <4> QED
        BY <2>2, <4>1
    <3>2. CASE e # "client"
      BY <2>3, <3>2
    <3> QED
      BY <3>1, <3>2
  <2> QED
    BY <2>3, <2>4 DEF readVars
<1>4. ASSUME NEW e \in Endpoint, TransferValidation(e)
      PROVE  Unanswered'
  <2>1. e # "client"
    BY <1>4 DEF TransferValidation, Answered
  <2> QED
    BY <1>4, <2>1 DEF TransferValidation, readVars
<1>5. ASSUME NEW e \in Endpoint, Receive(e)
      PROVE  Unanswered'
  <2>1. CASE e = "client"
    <3>1. wire'["client"] = wire["client"] /\ verdict' = verdict
      BY <1>5, <2>1 DEF Receive, Peer
    <3>2. /\ reading'["server"] = reading["server"] /\ need'["server"] = need["server"]
          /\ word'["server"] = word["server"]
      BY <1>5, <2>1 DEF Receive
    <3> QED
      BY <3>1, <3>2
  <2>2. CASE e = "server"
    <3>1. /\ wire["client"] # <<>> /\ wire'["client"] = Tail(wire["client"])
          /\ reading' = reading /\ verdict' = verdict
      BY <1>5, <2>2 DEF Receive, Peer
    <3>2. /\ Len(Tail(wire["client"])) = Len(wire["client"]) - 1
          /\ \A i \in 1 .. Len(Tail(wire["client"])) :
                Tail(wire["client"])[i] = wire["client"][i + 1]
          /\ Head(wire["client"]) = wire["client"][1] /\ 1 \in 1 .. Len(wire["client"])
      BY <3>1, HeadTailProperties
    <3>3. reading["server"] # "body" => word'["server"] = Head(wire["client"])
      BY <1>5, <2>2 DEF Receive, Peer
    <3> QED
      BY <3>1, <3>2, <3>3
  <2> QED
    BY <2>1, <2>2 DEF Endpoint
<1>6. CASE AnswerRead
  BY <1>6 DEF AnswerRead, RightAnswer
<1>7. CASE Connected \/ ConnectFails \/ ChallengeRead
  BY <1>7 DEF Connected, ConnectFails, ChallengeRead
<1>8. ASSUME NEW e \in Endpoint, HeaderRead(e) \/ BodyRead(e) \/ ReadFails(e)
      PROVE  Unanswered'
  <2>1. wire' = wire /\ verdict' = verdict
    BY <1>8 DEF HeaderRead, BodyRead, ReadFails
  <2>2. CASE e = "server"
    <3>1. reading'["server"] \in {"none", "header", "body"}
      BY <1>8, <2>2 DEF HeaderRead, BodyRead, ReadFails, AddToIncoming
    <3> QED
      BY <2>1, <3>1
  <2>3. CASE e # "server"
    <3>1. reading'["server"] = reading["server"] /\ need'["server"] = need["server"]
      BY <1>8, <2>3 DEF HeaderRead, BodyRead, ReadFails, AddToIncoming
    <3>2. word'["server"] = word["server"]
      BY <1>8, <2>3 DEF HeaderRead, BodyRead, ReadFails
    <3> QED
      BY <2>1, <3>1, <3>2
  <2> QED
    BY <2>2, <2>3
<1>9. ASSUME NEW e \in Endpoint, ValidationWritten(e)
      PROVE  Unanswered'
  <2>1. e # "client"
    BY <1>9 DEF ValidationWritten, Answered
  <2> QED
    BY <1>9, <2>1 DEF ValidationWritten, ReadsAfterValidation
<1>10. ASSUME NEW e \in Endpoint, Context(e)
       PROVE  Unanswered'
  <2>1. CASE ReadHandlers(e) \/ ValidationHandlers(e) \/ ReadFails(e)
    BY <1>4, <1>5, <1>6, <1>7, <1>8, <1>9, <2>1 DEF ReadHandlers, ValidationHandlers
  <2>2. CASE TransferMessage(e)
    BY <1>3, <2>2
  <2>3. CASE \/ RunPosted(e) \/ HeaderWritten(e) \/ BodyWritten(e)
             \/ WriteFails(e) \/ ValidationWriteFails(e)
    BY <1>1, <2>3 DEF RunPosted, HeaderWritten, BodyWritten, WriteFails,
       ValidationWriteFails
  <2> QED
    BY <1>10, <2>1, <2>2, <2>3 DEF Context, WriteHandlers
<1>11. CASE Application \/ Establish \/ Deny \/ TimerFires
  BY <1>1, <1>11 DEF Application, Send, DisconnectClient, Disconnect, Stop, Establish,
     Deny,
     TimerFires
<1> QED
  BY <1>1, <1>2, <1>10, <1>11 DEF Next, Network, vars

(***************************************************************************)
(* The server validates nobody who has not computed the answer.            *)
(***************************************************************************)
THEOREM OnlyAnswersValidate == Spec => []ValidatedHasAnswered
<1>1. Init => Numbered /\ NoAnswerYet
  BY DEF Init, Numbered, NoAnswerYet, Unanswered
<1>2. Inductive /\ Numbered /\ NoAnswerYet /\ [Next]_vars => Numbered' /\ NoAnswerYet'
  BY NumberedNext, NoAnswerYetNext DEF Inductive
<1>3. NoAnswerYet => ValidatedHasAnswered
  BY DEF NoAnswerYet, Unanswered, Answered, ValidatedHasAnswered
<1> QED
  BY <1>1, <1>2, <1>3, HandshakeCorrect, PTL DEF Spec

--------------------------------------------------------------------------------
(***************************************************************************)
(* The answer to a challenge, which above is a value no other word has:    *)
(* what AConnection::scramble makes of it, and what of it an answer tells. *)
(***************************************************************************)

\* A digit that SwapDigits has moved is where its partner was.
LEMMA Swapped ==
  ASSUME NEW a
  PROVE  /\ \A i \in HighDigits : i - 4 \in SwapDigits(a) <=> i \in a
         /\ \A i \in LowDigits : i + 4 \in SwapDigits(a) <=> i \in a
<1>1. \A i \in HighDigits : i \in Int /\ i >= 4 /\ (i - 4) % 8 < 4
  BY DEF HighDigits, Seen
<1>2. \A i \in LowDigits : i \in Int /\ i + 4 <= 63 /\ (i + 4) % 8 >= 4
  BY DEF LowDigits, Seen
<1>3. \A i \in HighDigits : i - 4 \in SwapDigits(a) <=> i \in a
  <2> SUFFICES ASSUME NEW i \in HighDigits
               PROVE  i - 4 \in SwapDigits(a) <=> i \in a
    OBVIOUS
  <2>1. i - 4 \in ShiftRight(a \cap HighDigits, 4) <=> i \in a
    BY <1>1 DEF ShiftRight
  <2>2. i - 4 \notin ShiftLeft(a \cap LowDigits, 4)
    BY <1>1, <1>2 DEF ShiftLeft
  <2> QED
    BY <2>1, <2>2 DEF SwapDigits
<1>4. \A i \in LowDigits : i + 4 \in SwapDigits(a) <=> i \in a
  <2> SUFFICES ASSUME NEW i \in LowDigits
               PROVE  i + 4 \in SwapDigits(a) <=> i \in a
    OBVIOUS
  <2>1. i + 4 \in ShiftLeft(a \cap LowDigits, 4) <=> i \in a
    BY <1>2 DEF ShiftLeft
  <2>2. i + 4 \notin ShiftRight(a \cap HighDigits, 4)
    BY <1>1, <1>2 DEF ShiftRight
  <2> QED
    BY <2>1, <2>2 DEF SwapDigits
<1> QED
  BY <1>3, <1>4

\* A key can be taken off again.
LEMMA XorCancels ==
  ASSUME NEW a, NEW b, NEW key, NEW i
  PROVE  /\ (i \in Xor(a, key) <=> i \in Xor(b, key)) <=> (i \in a <=> i \in b)
         /\ Xor(a, key) = Xor(b, key) => a = b
<1>1. \A j : (j \in Xor(a, key) <=> j \in Xor(b, key)) <=> (j \in a <=> j \in b)
  BY DEF Xor
<1> QED
  BY <1>1

\* Every seen bit is in one half of its byte.
LEMMA SeenSplits == Seen = HighDigits \cup LowDigits
BY DEF Seen, HighDigits, LowDigits

(***************************************************************************)
(* What scramble makes of the digits loses none of the bits the masks let  *)
(* through: none is shifted out of the word or onto another, and the same  *)
(* exchange brings each back to its place.                                 *)
(***************************************************************************)
THEOREM NoDigitIsLost == \A a : SwapDigits(SwapDigits(a)) = a \cap Seen
<1> SUFFICES ASSUME NEW a PROVE SwapDigits(SwapDigits(a)) = a \cap Seen
  OBVIOUS
<1>1. \A i \in HighDigits : i \in Int /\ i - 4 \in LowDigits
  BY DEF HighDigits, LowDigits, Seen
<1>2. \A i \in LowDigits : i \in Int /\ i + 4 \in HighDigits
  BY DEF HighDigits, LowDigits, Seen
<1>3. \A b : SwapDigits(b) \subseteq Seen
  BY <1>1, <1>2, SeenSplits DEF SwapDigits, ShiftRight, ShiftLeft
<1>4. \A i \in HighDigits : i \in SwapDigits(SwapDigits(a)) <=> i \in a
  <2> SUFFICES ASSUME NEW i \in HighDigits
               PROVE  i \in SwapDigits(SwapDigits(a)) <=> i \in a
    OBVIOUS
  <2>1. (i - 4) + 4 = i
    BY <1>1
  <2> QED
    BY <2>1, <1>1, Swapped
<1>5. \A i \in LowDigits : i \in SwapDigits(SwapDigits(a)) <=> i \in a
  <2> SUFFICES ASSUME NEW i \in LowDigits
               PROVE  i \in SwapDigits(SwapDigits(a)) <=> i \in a
    OBVIOUS
  <2>1. (i + 4) - 4 = i
    BY <1>2
  <2> QED
    BY <2>1, <1>2, Swapped
<1> QED
  BY <1>3, <1>4, <1>5, SeenSplits

(***************************************************************************)
(* AConnection::scramble gives two challenges the same answer exactly when *)
(* they agree in their low seven bytes.  So an answer to one challenge is  *)
(* none to another, and the top byte, which the masks leave out, does not  *)
(* reach it: a client that got it wrong is validated all the same.         *)
(***************************************************************************)
THEOREM AnswersAgree ==
  \A a, b \in Word : scramble(a) = scramble(b) <=> a \cap Seen = b \cap Seen
<1> SUFFICES ASSUME NEW a \in Word, NEW b \in Word
             PROVE  scramble(a) = scramble(b) <=> a \cap Seen = b \cap Seen
  OBVIOUS
<1> DEFINE x == Xor(a, FirstKey)
           y == Xor(b, FirstKey)
<1>1. ASSUME a \cap Seen = b \cap Seen
      PROVE  scramble(a) = scramble(b)
  <2>1. \A i \in Seen : i \in x <=> i \in y
    BY <1>1 DEF Xor
  <2>2. x \cap HighDigits = y \cap HighDigits /\ x \cap LowDigits = y \cap LowDigits
    BY <2>1, SeenSplits
  <2>3. SwapDigits(x) = SwapDigits(y)
    BY <2>2 DEF SwapDigits
  <2> QED
    BY <2>3 DEF scramble
<1>2. ASSUME scramble(a) = scramble(b)
      PROVE  a \cap Seen = b \cap Seen
  <2>1. SwapDigits(x) = SwapDigits(y)
    BY <1>2, XorCancels DEF scramble
  <2>2. \A i \in Seen : i \in x <=> i \in y
    BY <2>1, Swapped, SeenSplits
  <2>3. \A i \in Seen : i \in a <=> i \in b
    BY <2>2, XorCancels
  <2> QED
    BY <2>3
<1> QED
  BY <1>1, <1>2
================================================================================
