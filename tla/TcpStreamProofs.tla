---------------------------- MODULE TcpStreamProofs ----------------------------
(***************************************************************************)
(* Proofs about the two streams of TcpConnection: the words of each        *)
(* message arrive framed, and each direction is a FIFO channel.            *)
(***************************************************************************)
EXTENDS TcpConnectionProofs

USE Endpoints, SizesAssumption, MaxSendsAssumption

(***************************************************************************)
(* The messages of an end, from Send to the kernel: the first f of those   *)
(* sent were written, o are next, and those after them are posted, in      *)
(* their order, with a task that closes the socket anywhere between.       *)
(***************************************************************************)
InLine(s, p, o, f) ==
  LET next == f + Len(o) + 1
      IsMessage(i) == p[i] # CloseTask
  IN  /\ next <= Len(s) + 1
      /\ \A i \in 1 .. Len(s) : s[i].id = i /\ s[i].size \in Sizes
      /\ \A i \in 1 .. Len(o) : o[i] = s[f + i]
      /\ \A i \in 1 .. Len(p) : IsMessage(i) =>
            p[i].id \in next .. Len(s) /\ p[i] = s[p[i].id]
      /\ \A i, j \in 1 .. Len(p) : i < j /\ IsMessage(i) /\ IsMessage(j) => p[i].id < p[j].id
      /\ \A n \in next .. Len(s) : \E i \in 1 .. Len(p) : p[i] = s[n]

Queues == \A e \in Endpoint : InLine(sent[e], posted[e], outgoing[e], flushed[e])

\* Send puts its message at the end of both.
LEMMA SendKeeps ==
  ASSUME NEW s \in Seq(Message), NEW p \in Seq(Message), NEW o \in Seq(Message),
         NEW f \in Nat,
         NEW n \in Sizes, InLine(s, p, o, f)
  PROVE  LET m == [id |-> Len(s) + 1, size |-> n]
         IN  InLine(Append(s, m), Append(p, m), o, f)
<1> DEFINE m == [id |-> Len(s) + 1, size |-> n]
           t == Append(s, m)
           q == Append(p, m)
<1>1. m \in Message /\ m # CloseTask /\ m.id = Len(s) + 1 /\ m.size = n
  BY DEF Message, CloseTask
<1>2. /\ t \in Seq(Message) /\ Len(t) = Len(s) + 1 /\ t[Len(t)] = m
      /\ \A i \in 1 .. Len(s) : t[i] = s[i]
  BY <1>1
<1>3. /\ q \in Seq(Message) /\ Len(q) = Len(p) + 1 /\ q[Len(q)] = m
      /\ \A i \in 1 .. Len(p) : q[i] = p[i]
  BY <1>1
<1> HIDE DEF m, t, q
<1>4. \A i \in 1 .. Len(q) : i \in 1 .. Len(p) \/ i = Len(q)
  BY <1>3
<1>5. \A i \in 1 .. Len(t) : i \in 1 .. Len(s) \/ i = Len(t)
  BY <1>2
<1>6. ASSUME NEW k \in f + Len(o) + 1 .. Len(t)
      PROVE  \E i \in 1 .. Len(q) : q[i] = t[k]
  <2>1. CASE k = Len(t)
    <3>1. Len(q) \in 1 .. Len(q)
      BY <1>3
    <3> QED
      BY <1>2, <1>3, <2>1, <3>1
  <2>2. CASE k # Len(t)
    <3>1. k \in f + Len(o) + 1 .. Len(s)
      BY <1>2, <2>2
    <3>2. k \in 1 .. Len(s)
      BY <3>1
    <3>3. PICK i \in 1 .. Len(p) : p[i] = s[k]
      BY <3>1 DEF InLine
    <3> QED
      BY <1>2, <1>3, <3>2, <3>3
  <2> QED
    BY <2>1, <2>2
<1>7. ASSUME NEW i \in 1 .. Len(q), q[i] # CloseTask
      PROVE  q[i].id \in f + Len(o) + 1 .. Len(t) /\ q[i] = t[q[i].id]
  <2>1. CASE i = Len(q)
    BY <1>1, <1>2, <1>3, <2>1 DEF InLine
  <2>2. CASE i \in 1 .. Len(p)
    <3>1. p[i].id \in f + Len(o) + 1 .. Len(s) /\ p[i] = s[p[i].id]
      BY <1>3, <1>7, <2>2 DEF InLine
    <3> QED
      BY <1>2, <1>3, <2>2, <3>1
  <2> QED
    BY <1>4, <2>1, <2>2
<1>8. \A i, j \in 1 .. Len(q) :
         i < j /\ q[i] # CloseTask /\ q[j] # CloseTask => q[i].id < q[j].id
  <2> SUFFICES ASSUME NEW i \in 1 .. Len(q), NEW j \in 1 .. Len(q), i < j,
                      q[i] # CloseTask, q[j] # CloseTask
               PROVE  q[i].id < q[j].id
    OBVIOUS
  <2>1. i \in 1 .. Len(p) /\ q[i] = p[i] /\ p[i].id \in f + Len(o) + 1 .. Len(s)
    BY <1>3, <1>4 DEF InLine
  <2>2. CASE j = Len(q)
    BY <1>1, <1>3, <2>1, <2>2
  <2>3. CASE j \in 1 .. Len(p)
    BY <1>3, <2>1, <2>3 DEF InLine
  <2> QED
    BY <1>4, <2>2, <2>3
<1>9. \A i \in 1 .. Len(o) : o[i] = t[f + i]
  <2>1. \A i \in 1 .. Len(o) : f + i \in 1 .. Len(s)
    BY DEF InLine
  <2> QED
    BY <1>2, <2>1 DEF InLine
<1>10. \A i \in 1 .. Len(t) : t[i].id = i /\ t[i].size \in Sizes
  BY <1>1, <1>2, <1>5 DEF InLine
<1>11. f + Len(o) + 1 <= Len(t) + 1
  BY <1>2 DEF InLine
<1>12. InLine(t, q, o, f)
  BY <1>6, <1>7, <1>8, <1>9, <1>10, <1>11 DEF InLine
<1> QED
  BY <1>12 DEF m, t, q

\* A task that closes the socket may stand anywhere.
LEMMA CloseKeeps ==
  ASSUME NEW s \in Seq(Message), NEW p \in Seq(Message), NEW o \in Seq(Message),
         NEW f \in Nat,
         InLine(s, p, o, f)
  PROVE  InLine(s, Append(p, CloseTask), o, f)
<1> DEFINE q == Append(p, CloseTask)
<1>1. CloseTask \in Message
  BY DEF CloseTask, Message
<1>2. /\ Len(q) = Len(p) + 1 /\ q[Len(q)] = CloseTask
      /\ \A i \in 1 .. Len(p) : q[i] = p[i]
  BY <1>1
<1>3. \A i \in 1 .. Len(q) : q[i] # CloseTask => i \in 1 .. Len(p)
  BY <1>2
<1>4. 1 .. Len(p) \subseteq 1 .. Len(q)
  BY <1>2
<1> HIDE DEF q
<1>6. \A i \in 1 .. Len(q) : q[i] # CloseTask =>
         q[i].id \in f + Len(o) + 1 .. Len(s) /\ q[i] = s[q[i].id]
  BY <1>2, <1>3 DEF InLine
<1>7. \A i, j \in 1 .. Len(q) :
         i < j /\ q[i] # CloseTask /\ q[j] # CloseTask => q[i].id < q[j].id
  BY <1>2, <1>3 DEF InLine
<1>8. \A n \in f + Len(o) + 1 .. Len(s) : \E i \in 1 .. Len(q) : q[i] = s[n]
  <2> SUFFICES ASSUME NEW n \in f + Len(o) + 1 .. Len(s)
               PROVE  \E i \in 1 .. Len(q) : q[i] = s[n]
    OBVIOUS
  <2>1. PICK i \in 1 .. Len(p) : p[i] = s[n]
    BY DEF InLine
  <2> QED
    BY <1>2, <1>4, <2>1
<1>5. InLine(s, q, o, f)
  BY <1>6, <1>7, <1>8 DEF InLine
<1> QED
  BY <1>5 DEF q

\* What Tail does, by index.
LEMMA TailByIndex ==
  ASSUME NEW S, NEW s \in Seq(S), s # <<>>
  PROVE  /\ Head(s) = s[1] /\ Head(s) \in S /\ Tail(s) \in Seq(S)
         /\ Len(s) \in Nat /\ Len(s) >= 1 /\ 1 \in 1 .. Len(s)
         /\ Len(Tail(s)) = Len(s) - 1
         /\ \A i \in 1 .. Len(Tail(s)) : Tail(s)[i] = s[i + 1] /\ i + 1 \in 1 .. Len(s)
         /\ \A i \in 2 .. Len(s) : s[i] = Tail(s)[i - 1] /\ i - 1 \in 1 .. Len(Tail(s))
  BY HeadTailProperties

\* Such a task is run and gone.
LEMMA DropKeeps ==
  ASSUME NEW s \in Seq(Message), NEW p \in Seq(Message), NEW o \in Seq(Message),
         NEW f \in Nat,
         InLine(s, p, o, f), p # <<>>, Head(p) = CloseTask
  PROVE  InLine(s, Tail(p), o, f)
<1>1. ASSUME NEW n \in f + Len(o) + 1 .. Len(s)
      PROVE  \E i \in 1 .. Len(Tail(p)) : Tail(p)[i] = s[n]
  <2>1. PICK i \in 1 .. Len(p) : p[i] = s[n]
    BY DEF InLine
  <2>2. n > 0 /\ n \in 1 .. Len(s)
    OBVIOUS
  <2>3. s[n].id = n
    BY <2>2 DEF InLine
  <2>4. i # 1
    BY <2>1, <2>2, <2>3, TailByIndex DEF CloseTask
  <2>5. i \in 2 .. Len(p)
    BY <2>4
  <2>6. p[i] = Tail(p)[i - 1] /\ i - 1 \in 1 .. Len(Tail(p))
    BY <2>5, TailByIndex
  <2> QED
    BY <2>1, <2>6
<1>2. \A i \in 1 .. Len(Tail(p)) : Tail(p)[i] = p[i + 1] /\ i + 1 \in 1 .. Len(p)
  BY TailByIndex
<1> QED
  BY <1>1, <1>2 DEF InLine

\* A posted message goes to the end of the outgoing queue.
LEMMA PushKeeps ==
  ASSUME NEW s \in Seq(Message), NEW p \in Seq(Message), NEW o \in Seq(Message),
         NEW f \in Nat,
         InLine(s, p, o, f), p # <<>>, Head(p) # CloseTask
  PROVE  InLine(s, Tail(p), Append(o, Head(p)), f)
<1> DEFINE next == f + Len(o) + 1
           r == Append(o, Head(p))
<1>1. /\ Head(p) = p[1] /\ 1 \in 1 .. Len(p)
      /\ p[1].id \in next .. Len(s) /\ p[1] = s[p[1].id]
  BY TailByIndex DEF InLine
<1>2. \A i \in 1 .. Len(Tail(p)) : Tail(p)[i] = p[i + 1] /\ i + 1 \in 1 .. Len(p)
  BY TailByIndex
<1>3. p[1].id = next
  <2>1. next \in next .. Len(s) /\ next \in 1 .. Len(s)
    BY <1>1
  <2>2. PICK i \in 1 .. Len(p) : p[i] = s[next]
    BY <2>1 DEF InLine
  <2>3. p[i].id = next
    BY <2>1, <2>2 DEF InLine
  <2>4. p[i] # CloseTask
    BY <2>1, <2>3 DEF CloseTask
  <2>5. i = 1 \/ p[1].id < p[i].id
    BY <1>1, <2>4 DEF InLine
  <2> QED
    BY <1>1, <2>3, <2>5
<1>4. /\ Len(r) = Len(o) + 1 /\ r[Len(o) + 1] = p[1]
      /\ \A i \in 1 .. Len(o) : r[i] = o[i]
  BY <1>1, TailByIndex
<1>5. \A i \in 1 .. Len(r) : r[i] = s[f + i]
  <2>1. r[Len(o) + 1] = s[f + (Len(o) + 1)]
    BY <1>1, <1>3, <1>4
  <2>2. \A i \in 1 .. Len(r) : i \in 1 .. Len(o) \/ i = Len(o) + 1
    BY <1>4
  <2> QED
    BY <1>4, <2>1, <2>2 DEF InLine
<1>6. f + Len(r) + 1 = next + 1
  BY <1>4
<1>7. ASSUME NEW i \in 1 .. Len(Tail(p)), Tail(p)[i] # CloseTask
      PROVE  Tail(p)[i].id \in next + 1 .. Len(s) /\ Tail(p)[i] = s[Tail(p)[i].id]
  <2>1. p[i + 1].id \in next .. Len(s) /\ p[i + 1] = s[p[i + 1].id]
    BY <1>2, <1>7 DEF InLine
  <2>2. p[1].id < p[i + 1].id
    BY <1>1, <1>2, <1>7 DEF InLine
  <2> QED
    BY <1>2, <1>3, <2>1, <2>2
<1>8. \A i, j \in 1 .. Len(Tail(p)) :
         i < j /\ Tail(p)[i] # CloseTask /\ Tail(p)[j] # CloseTask =>
           Tail(p)[i].id < Tail(p)[j].id
  BY <1>2 DEF InLine
<1>9. ASSUME NEW n \in next + 1 .. Len(s)
      PROVE  \E i \in 1 .. Len(Tail(p)) : Tail(p)[i] = s[n]
  <2>1. n \in next .. Len(s) /\ n \in 1 .. Len(s) /\ n # next
    OBVIOUS
  <2>2. PICK i \in 1 .. Len(p) : p[i] = s[n]
    BY <2>1 DEF InLine
  <2>3. i # 1
    BY <1>3, <2>1, <2>2 DEF InLine
  <2>4. i \in 2 .. Len(p)
    BY <2>3
  <2>5. p[i] = Tail(p)[i - 1] /\ i - 1 \in 1 .. Len(Tail(p))
    BY <2>4, TailByIndex
  <2> QED
    BY <2>2, <2>5
<1>10. next + 1 <= Len(s) + 1
  BY <1>1
<1>11. InLine(s, Tail(p), r, f)
  <2> HIDE DEF r, next
  <2> QED
    BY <1>5, <1>6, <1>7, <1>8, <1>9, <1>10 DEF InLine
<1> QED
  BY <1>11

\* The message at the head of the outgoing queue is written.
LEMMA PopKeeps ==
  ASSUME NEW s \in Seq(Message), NEW p \in Seq(Message), NEW o \in Seq(Message),
         NEW f \in Nat,
         InLine(s, p, o, f), o # <<>>
  PROVE  InLine(s, p, Tail(o), f + 1)
<1>1. f + 1 + Len(Tail(o)) + 1 = f + Len(o) + 1
  BY TailByIndex
<1>2. \A i \in 1 .. Len(Tail(o)) : Tail(o)[i] = s[f + 1 + i]
  <2>1. \A i \in 1 .. Len(Tail(o)) : Tail(o)[i] = o[i + 1] /\ i + 1 \in 1 .. Len(o)
    BY TailByIndex
  <2>2. \A i \in 1 .. Len(Tail(o)) : o[i + 1] = s[f + (i + 1)] /\ f + (i + 1) = f + 1 + i
    BY <2>1 DEF InLine
  <2> QED
    BY <2>1, <2>2
<1> QED
  BY <1>1, <1>2 DEF InLine

--------------------------------------------------------------------------------
(***************************************************************************)
(* The only steps that concern the messages of an end, the words between   *)
(* the ends, the state of the connection and of its sockets.               *)
(***************************************************************************)
LEMMA MessageSteps ==
  ASSUME [Next]_vars
  PROVE  \/ \E e \in Endpoint : Send(e)
         \/ UNCHANGED sent /\ (DisconnectClient \/ Disconnect)
         \/ UNCHANGED sent /\ \E e \in Endpoint : RunPosted(e)
         \/ UNCHANGED <<sent, posted>>
<1> USE DEF appVars
<1>1. CASE Application \/ Network \/ TimerFires
  BY <1>1 DEF Application, Network, DisconnectClient, Disconnect, Stop, Establish, Accept,
     Deny, TimerFires
<1>2. ASSUME NEW e \in Endpoint, Context(e)
      PROVE  UNCHANGED sent /\ (RunPosted(e) \/ UNCHANGED posted)
  BY <1>2 DEF Context, RunPosted, WriteHandlers, TransferMessage, HeaderWritten,
     BodyWritten, ValidationHandlers, TransferValidation, ValidationWritten, ReadHandlers,
     Receive, Connected, ConnectFails, ChallengeRead, AnswerRead, HeaderRead, BodyRead,
     WriteFails, ValidationWriteFails, ReadFails
<1> QED
  BY <1>1, <1>2 DEF Next, vars

\* Every step keeps the messages in line.
LEMMA QueuesNext ==
  ASSUME TypeOK, Writers, Queues, [Next]_vars
  PROVE  Queues'
<1>a. /\ sent \in [Endpoint -> Seq(Message)]
      /\ posted \in [Endpoint -> Seq(Message)]
      /\ outgoing \in [Endpoint -> Seq(Message)]
      /\ flushed \in [Endpoint -> Nat]
  BY DEF TypeOK
<1>b. \A e \in Endpoint : /\ sent[e] \in Seq(Message) /\ posted[e] \in Seq(Message)
                          /\ outgoing[e] \in Seq(Message) /\ flushed[e] \in Nat
                          /\ InLine(sent[e], posted[e], outgoing[e], flushed[e])
  BY <1>a DEF Queues
<1>1. ASSUME NEW e \in Endpoint, Send(e)
      PROVE  Queues'
  <2>1. PICK n \in Sizes :
           LET m == [id |-> Len(sent[e]) + 1, size |-> n]
           IN  /\ sent' = [sent EXCEPT ![e] = Append(@, m)]
               /\ posted' = [posted EXCEPT ![e] = Append(@, m)]
    BY <1>1 DEF Send
  <2>2. InLine(sent'[e], posted'[e], outgoing[e], flushed[e])
    BY <1>a, <1>b, <2>1, SendKeeps
  <2>3. outgoing' = outgoing /\ flushed' = flushed
    BY <1>1 DEF Send, writeVars
  <2> QED
    BY <1>a, <1>b, <2>1, <2>2, <2>3 DEF Queues
<1>2. CASE UNCHANGED sent /\ (DisconnectClient \/ Disconnect)
  <2>1. outgoing' = outgoing /\ flushed' = flushed
    BY <1>2 DEF DisconnectClient, Disconnect, writeVars
  <2>2. \A e \in Endpoint : posted'[e] = posted[e] \/ posted'[e] = Append(posted[e], CloseTask)
    BY <1>a, <1>2 DEF DisconnectClient, Disconnect
  <2> QED
    BY <1>b, <1>2, <2>1, <2>2, CloseKeeps DEF Queues
<1>3. ASSUME UNCHANGED sent, NEW e \in Endpoint, RunPosted(e)
      PROVE  Queues'
  <2>1. posted[e] # <<>> /\ posted' = [posted EXCEPT ![e] = Tail(@)]
    BY <1>3 DEF RunPosted
  <2>2. CASE RunSendTask(e)
    <3>1. Head(posted[e]) # CloseTask /\ flushed' = flushed
      BY <2>2 DEF RunSendTask
    <3>2. outgoing' = [outgoing EXCEPT ![e] = Append(@, Head(posted[e]))]
      BY <2>2 DEF RunSendTask, PushBack
    <3>3. InLine(sent[e], posted'[e], outgoing'[e], flushed[e])
      BY <1>a, <1>b, <2>1, <3>1, <3>2, PushKeeps
    <3> QED
      BY <1>a, <1>b, <1>3, <2>1, <3>1, <3>2, <3>3 DEF Queues
  <2>3. CASE RunCloseTask(e)
    <3>1. Head(posted[e]) = CloseTask /\ flushed' = flushed /\ outgoing' = outgoing
      BY <2>3 DEF RunCloseTask, writeVars
    <3>2. InLine(sent[e], posted'[e], outgoing[e], flushed[e])
      BY <1>a, <1>b, <2>1, <3>1, DropKeeps
    <3> QED
      BY <1>a, <1>b, <1>3, <2>1, <3>1, <3>2 DEF Queues
  <2> QED
    BY <1>3, <2>2, <2>3 DEF RunPosted
<1>4. ASSUME UNCHANGED <<sent, posted>>, NEW e \in Endpoint, PopOutgoing(e),
             outgoing[e] # <<>>
      PROVE  Queues'
  <2>1. /\ outgoing' = [outgoing EXCEPT ![e] = Tail(@)]
        /\ flushed' = [flushed EXCEPT ![e] = @ + 1]
    BY <1>4 DEF PopOutgoing
  <2>2. InLine(sent[e], posted[e], outgoing'[e], flushed'[e])
    BY <1>a, <1>b, <1>4, <2>1, PopKeeps
  <2> QED
    BY <1>a, <1>b, <1>4, <2>1, <2>2 DEF Queues
<1>5. ASSUME UNCHANGED <<sent, posted>>, NEW e \in Endpoint, WriterStep(e)
      PROVE  Queues'
  <2>1. CASE UNCHANGED <<outgoing, flushed>>
    BY <1>b, <1>5, <2>1 DEF Queues
  <2>2. writing[e] # "none" => outgoing[e] # <<>>
    BY DEF Writers, Writer
  <2>3. CASE HeaderWritten(e) \/ BodyWritten(e)
    BY <1>4, <1>5, <2>1, <2>2, <2>3 DEF HeaderWritten, BodyWritten
  <2>4. CASE TransferMessage(e) \/ WriteFails(e)
    BY <2>1, <2>4 DEF TransferMessage, WriteFails
  <2> QED
    BY <1>3, <1>5, <2>3, <2>4 DEF WriterStep
<1>6. CASE UNCHANGED <<sent, posted, outgoing, flushed>>
  BY <1>b, <1>6 DEF Queues
<1> QED
  BY <1>1, <1>2, <1>3, <1>5, <1>6, MessageSteps, WriterSteps

(***************************************************************************)
(* The messages of an end wait in line, in the order they were sent.       *)
(***************************************************************************)
THEOREM QueuesCorrect == Spec => [](Inductive /\ Queues)
<1>1. Init => Queues
  BY DEF Init, Queues, InLine
<1>2. Inductive /\ Queues /\ [Next]_vars => Queues'
  BY QueuesNext DEF Inductive
<1> QED
  BY <1>1, <1>2, HandshakeCorrect, PTL DEF Spec

--------------------------------------------------------------------------------
(***************************************************************************)
(* The stream of an end that sends the messages s, word by word: first the *)
(* validation, as if it were the header of message 0 without body, then    *)
(* every message.  Follows is the place of the word after word k of        *)
(* message m.                                                              *)
(***************************************************************************)
SizeOf(s, m) == IF m = 0 THEN 0 ELSE s[m].size
Follows(s, m, k) == IF k < SizeOf(s, m) THEN <<m, k + 1>> ELSE <<m + 1, 0>>
Start == <<0, 0>>

Genuine(s, u) ==
  \/ u = Validation
  \/ /\ u.msg \in 1 .. Len(s)
     /\ u.pos \in 0 .. s[u.msg].size
     /\ u.size = IF u.pos = 0 THEN s[u.msg].size ELSE 0

Place(u) == <<u.msg, u.pos>>
After(s, u) == Follows(s, u.msg, u.pos)

(***************************************************************************)
(* The words w on the wire are a piece of that stream, from place a on;    *)
(* Ending is the place of the word to come after them.                     *)
(***************************************************************************)
Piece(s, w, a) ==
  /\ \A i \in 1 .. Len(w) : Genuine(s, w[i])
  /\ w # <<>> => Place(w[1]) = a
  /\ \A i \in 1 .. Len(w) - 1 : Place(w[i + 1]) = After(s, w[i])

Ending(s, w, a) == IF w = <<>> THEN a ELSE After(s, w[Len(w)])

\* The word that comes next may be written.
LEMMA PieceAppend ==
  ASSUME NEW s, NEW w \in Seq(Unit), NEW a, NEW u \in Unit, Piece(s, w, a),
         Genuine(s, u), Place(u) = Ending(s, w, a)
  PROVE  /\ Piece(s, Append(w, u), a)
         /\ Ending(s, Append(w, u), a) = After(s, u)
<1> DEFINE v == Append(w, u)
<1>1. /\ v \in Seq(Unit) /\ Len(v) = Len(w) + 1 /\ v[Len(v)] = u /\ v # <<>>
      /\ \A i \in 1 .. Len(w) : v[i] = w[i]
      /\ Len(w) \in Nat /\ (w = <<>> <=> Len(w) = 0)
  OBVIOUS
<1> HIDE DEF v
<1>2. \A i \in 1 .. Len(v) : i \in 1 .. Len(w) \/ i = Len(v)
  BY <1>1
<1>3. \A i \in 1 .. Len(v) : Genuine(s, v[i])
  BY <1>1, <1>2 DEF Piece
<1>4. Place(v[1]) = a
  BY <1>1 DEF Piece, Ending
<1>5. ASSUME NEW i \in 1 .. Len(v) - 1
      PROVE  Place(v[i + 1]) = After(s, v[i])
  <2>1. CASE i = Len(w)
    BY <1>1, <2>1 DEF Ending
  <2>2. CASE i # Len(w)
    <3>1. i \in 1 .. Len(w) - 1 /\ i \in 1 .. Len(w) /\ i + 1 \in 1 .. Len(w)
      BY <1>1, <2>2
    <3> QED
      BY <1>1, <3>1 DEF Piece
  <2> QED
    BY <2>1, <2>2
<1>6. Piece(s, v, a) /\ Ending(s, v, a) = After(s, u)
  BY <1>1, <1>3, <1>4, <1>5 DEF Piece, Ending
<1> QED
  BY <1>6 DEF v

\* The first word may be read.
LEMMA PieceTail ==
  ASSUME NEW s, NEW w \in Seq(Unit), NEW a, Piece(s, w, a), w # <<>>
  PROVE  LET b == After(s, Head(w))
         IN  /\ Genuine(s, Head(w)) /\ Place(Head(w)) = a
             /\ Piece(s, Tail(w), b)
             /\ Ending(s, Tail(w), b) = Ending(s, w, a)
<1> DEFINE v == Tail(w)
           b == After(s, Head(w))
<1>1. /\ Head(w) = w[1] /\ 1 \in 1 .. Len(w) /\ Len(w) \in Nat /\ Len(v) \in Nat
      /\ Len(v) = Len(w) - 1 /\ v \in Seq(Unit)
      /\ \A i \in 1 .. Len(v) : v[i] = w[i + 1] /\ i + 1 \in 1 .. Len(w)
  BY TailByIndex
<1> HIDE DEF v
<1>8. v = <<>> <=> Len(v) = 0
  BY <1>1
<1>2. Genuine(s, Head(w)) /\ Place(Head(w)) = a
  BY <1>1 DEF Piece
<1>3. \A i \in 1 .. Len(v) : Genuine(s, v[i])
  BY <1>1 DEF Piece
<1>4. v # <<>> => Place(v[1]) = b
  <2>1. ASSUME v # <<>>
        PROVE  1 \in 1 .. Len(w) - 1 /\ v[1] = w[1 + 1]
    BY <1>1, <2>1
  <2> QED
    BY <1>1, <2>1 DEF Piece
<1>5. ASSUME NEW i \in 1 .. Len(v) - 1
      PROVE  Place(v[i + 1]) = After(s, v[i])
  <2>1. /\ i \in 1 .. Len(v) /\ i + 1 \in 1 .. Len(v) /\ i + 1 \in 1 .. Len(w) - 1
    BY <1>1
  <2>2. v[i + 1] = w[(i + 1) + 1] /\ v[i] = w[i + 1]
    BY <1>1, <2>1
  <2> QED
    BY <2>1, <2>2 DEF Piece
<1>6. Ending(s, v, b) = Ending(s, w, a)
  <2>1. CASE v = <<>>
    <3>1. Len(v) = 0
      BY <1>8, <2>1
    <3>2. Len(w) = 1
      BY <1>1, <3>1
    <3>3. w[Len(w)] = Head(w)
      BY <1>1, <3>2
    <3> QED
      BY <2>1, <3>3 DEF Ending
  <2>2. CASE v # <<>>
    <3>1. Len(v) \in 1 .. Len(v) /\ v[Len(v)] = w[Len(w)]
      BY <1>1, <1>8, <2>2
    <3> QED
      BY <2>2, <3>1 DEF Ending
  <2> QED
    BY <2>1, <2>2
<1>7. Piece(s, v, b)
  BY <1>3, <1>4, <1>5 DEF Piece
<1> QED
  BY <1>2, <1>6, <1>7 DEF v

(***************************************************************************)
(* A stream whose sender goes on sending keeps the words it has.           *)
(***************************************************************************)
LEMMA PieceGrows ==
  ASSUME NEW s \in Seq(Message), NEW m \in Message, NEW w \in Seq(Unit), NEW a,
         Piece(s, w, a)
  PROVE  Piece(Append(s, m), w, a) /\ Ending(Append(s, m), w, a) = Ending(s, w, a)
<1> DEFINE t == Append(s, m)
<1>1. /\ Len(t) = Len(s) + 1 /\ Len(s) \in Nat
      /\ \A i \in 1 .. Len(s) : t[i] = s[i]
      /\ Len(w) \in Nat /\ (w = <<>> <=> Len(w) = 0)
  OBVIOUS
<1> HIDE DEF t
<1>2. ASSUME NEW u \in Unit, Genuine(s, u)
      PROVE  Genuine(t, u) /\ After(t, u) = After(s, u)
  <2>1. CASE u = Validation
    BY <2>1 DEF Genuine, After, Follows, SizeOf, Validation
  <2>2. CASE u # Validation
    <3>1. u.msg \in 1 .. Len(s) /\ u.msg \in 1 .. Len(t) /\ t[u.msg] = s[u.msg]
      BY <1>1, <1>2, <2>2 DEF Genuine
    <3> QED
      BY <1>2, <3>1 DEF Genuine, After, Follows, SizeOf
  <2> QED
    BY <2>1, <2>2
<1>3. \A i \in 1 .. Len(w) : w[i] \in Unit /\ Genuine(s, w[i])
  BY DEF Piece
<1>4. \A i \in 1 .. Len(w) : Genuine(t, w[i]) /\ After(t, w[i]) = After(s, w[i])
  BY <1>2, <1>3
<1>5. \A i \in 1 .. Len(w) - 1 : i \in 1 .. Len(w)
  BY <1>1
<1>6. w # <<>> => Len(w) \in 1 .. Len(w)
  BY <1>1
<1>7. Piece(t, w, a)
  BY <1>4, <1>5 DEF Piece
<1>8. Ending(t, w, a) = Ending(s, w, a)
  BY <1>4, <1>6 DEF Ending
<1> QED
  BY <1>7, <1>8 DEF t

--------------------------------------------------------------------------------
(***************************************************************************)
(* The place of the next word an end writes of its messages.               *)
(***************************************************************************)
NextWritten(e) ==
  LET m == flushed[e] + 1
  IN  IF writing[e] = "none" \/ (writing[e] = "header" /\ left[e] > 0)
      THEN <<m, 0>>
      ELSE Follows(sent[e], m, IF writing[e] = "header" THEN 0 ELSE SizeOf(sent[e], m) - left[e])

\* The message being written is the one after those that were written.
LEMMA HeadOfLine ==
  ASSUME Inductive, Queues, NEW e \in Endpoint, outgoing[e] # <<>>
  PROVE  LET m == flushed[e] + 1
         IN  /\ m \in 1 .. Len(sent[e])
             /\ Head(outgoing[e]) = sent[e][m]
             /\ sent[e][m].id = m /\ sent[e][m] \in Message
             /\ SizeOf(sent[e], m) = sent[e][m].size
<1>1. /\ sent[e] \in Seq(Message) /\ outgoing[e] \in Seq(Message) /\ flushed[e] \in Nat
      /\ InLine(sent[e], posted[e], outgoing[e], flushed[e])
  BY DEF Inductive, TypeOK, Queues
<1>2. Head(outgoing[e]) = outgoing[e][1] /\ Len(outgoing[e]) \in Nat /\
      1 \in 1 .. Len(outgoing[e])
  BY <1>1, TailByIndex
<1>3. flushed[e] + 1 \in 1 .. Len(sent[e])
  BY <1>1, <1>2 DEF InLine
<1> QED
  BY <1>1, <1>2, <1>3 DEF InLine, SizeOf

\* An end writes for itself alone.
LEMMA OtherWriter ==
  ASSUME TypeOK, NEW e \in Endpoint, WriterStep(e), NEW d \in Endpoint, d # e
  PROVE  /\ outgoing'[d] = outgoing[d] /\ flushed'[d] = flushed[d]
         /\ writing'[d] = writing[d] /\ left'[d] = left[d]
<1>a. /\ outgoing \in [Endpoint -> Seq(Message)]
      /\ flushed \in [Endpoint -> Nat]
      /\ writing \in [Endpoint -> {"none", "header", "body"}]
      /\ left \in [Endpoint -> Nat]
  BY DEF TypeOK
<1>1. CASE TransferMessage(e) \/ WriteFails(e)
  BY <1>1, <1>a DEF TransferMessage, WriteFails
<1>2. CASE RunSendTask(e)
  BY <1>2, <1>a DEF RunSendTask, PushBack, StartMessageWrite
<1>3. CASE PopOutgoing(e)
  BY <1>3, <1>a DEF PopOutgoing, StartMessageWrite
<1>4. CASE HeaderWritten(e)
  BY <1>3, <1>4, <1>a DEF HeaderWritten, StartMessageWrite
<1> QED
  BY <1>1, <1>2, <1>3, <1>4 DEF WriterStep, BodyWritten

(***************************************************************************)
(* The handlers of the writes, and Send's, leave that place where it is:   *)
(* only a word taken by the kernel moves it.                               *)
(***************************************************************************)
LEMMA NextWrittenKept ==
  ASSUME Inductive, Queues, [Next]_vars, NEW d \in Endpoint, sent'[d] = sent[d],
         ~TransferMessage(d), ~WriteFails(d)
  PROVE  NextWritten(d)' = NextWritten(d)
<1>a. /\ outgoing \in [Endpoint -> Seq(Message)]
      /\ flushed \in [Endpoint -> Nat]
      /\ writing \in [Endpoint -> {"none", "header", "body"}]
      /\ left \in [Endpoint -> Nat]
      /\ TypeOK /\ Writer(d)
  BY DEF Inductive, TypeOK, Writers
<1>1. CASE flushed'[d] = flushed[d] /\ writing'[d] = writing[d] /\ left'[d] = left[d]
  BY <1>1 DEF NextWritten
<1>2. CASE RunPosted(d) /\ RunSendTask(d)
  <2>1. CASE outgoing[d] # <<>>
    BY <1>1, <1>2, <2>1 DEF RunSendTask, WritingMessage
  <2>2. CASE outgoing[d] = <<>>
    <3>1. writing[d] = "none" /\ writing'[d] = "header" /\ left'[d] = 1 /\ flushed' = flushed
      BY <1>2, <1>a, <2>2 DEF Writer, RunSendTask, WritingMessage, StartMessageWrite
    <3> QED
      BY <3>1 DEF NextWritten
  <2> QED
    BY <2>1, <2>2
<1>3. ASSUME PopOutgoing(d), NextWritten(d) = <<flushed[d] + 2, 0>>, left[d] = 0
      PROVE  NextWritten(d)' = NextWritten(d)
  <2>1. flushed'[d] = flushed[d] + 1
    BY <1>3, <1>a DEF PopOutgoing
  <2>2. writing'[d] = "none" \/ (writing'[d] = "header" /\ left'[d] > 0)
    BY <1>3, <1>a DEF PopOutgoing, StartMessageWrite
  <2>3. (flushed[d] + 1) + 1 = flushed[d] + 2
    BY <1>a
  <2> QED
    BY <1>3, <2>1, <2>2, <2>3 DEF NextWritten
<1>4. CASE HeaderWritten(d)
  <2>0. /\ writing[d] = "header" /\ left[d] = 0 /\ outgoing[d] # <<>>
    BY <1>4, <1>a DEF HeaderWritten, Writer
  <2>1. /\ Head(outgoing[d]) = sent[d][flushed[d] + 1]
        /\ SizeOf(sent[d], flushed[d] + 1) = sent[d][flushed[d] + 1].size
        /\ sent[d][flushed[d] + 1].size \in Nat
    BY <2>0, HeadOfLine DEF Message
  <2>2. NextWritten(d) = Follows(sent[d], flushed[d] + 1, 0)
    BY <2>0 DEF NextWritten
  <2>3. CASE HasBody(d)
    <3>1. /\ flushed' = flushed /\ writing'[d] = "body"
          /\ left'[d] = sent[d][flushed[d] + 1].size
      BY <1>4, <1>a, <2>1, <2>3 DEF HeaderWritten, StartMessageWrite
    <3>2. SizeOf(sent[d], flushed[d] + 1) - left'[d] = 0
      BY <2>1, <3>1
    <3> QED
      BY <2>2, <3>1, <3>2 DEF NextWritten
  <2>4. CASE ~HasBody(d)
    <3>1. sent[d][flushed[d] + 1].size = 0
      BY <2>1, <2>4 DEF HasBody
    <3>2. (flushed[d] + 1) + 1 = flushed[d] + 2
      BY <1>a
    <3>3. Follows(sent[d], flushed[d] + 1, 0) = <<flushed[d] + 2, 0>>
      BY <2>1, <3>1, <3>2 DEF Follows
    <3> QED
      BY <1>3, <1>4, <2>0, <2>2, <2>4, <3>3 DEF HeaderWritten
  <2> QED
    BY <2>3, <2>4
<1>5. CASE BodyWritten(d)
  <2>0. /\ writing[d] = "body" /\ left[d] = 0 /\ outgoing[d] # <<>> /\ PopOutgoing(d)
    BY <1>5, <1>a DEF BodyWritten, Writer
  <2>1. /\ SizeOf(sent[d], flushed[d] + 1) \in Nat
    BY <2>0, HeadOfLine DEF Message
  <2>2. SizeOf(sent[d], flushed[d] + 1) - left[d] = SizeOf(sent[d], flushed[d] + 1)
    BY <2>0, <2>1
  <2>3. (flushed[d] + 1) + 1 = flushed[d] + 2
    BY <1>a
  <2>4. NextWritten(d) = <<flushed[d] + 2, 0>>
    BY <2>0, <2>1, <2>2, <2>3 DEF NextWritten, Follows
  <2> QED
    BY <1>3, <2>0, <2>4
<1>6. ASSUME NEW e \in Endpoint, WriterStep(e)
      PROVE  NextWritten(d)' = NextWritten(d)
  <2>1. CASE e = d
    BY <1>2, <1>4, <1>5, <1>6, <2>1 DEF WriterStep
  <2>2. CASE e # d
    BY <1>1, <1>6, <1>a, <2>2, OtherWriter
  <2> QED
    BY <2>1, <2>2
<1> QED
  BY <1>1, <1>6, WriterSteps

(***************************************************************************)
(* The word the kernel takes is the one of that place, and the next one    *)
(* follows it.                                                             *)
(***************************************************************************)
LEMMA TransferWritesNext ==
  ASSUME Inductive, Queues, NEW e \in Endpoint, TransferMessage(e)
  PROVE  /\ MessageUnit(e) \in Unit /\ Genuine(sent[e], MessageUnit(e))
         /\ Place(MessageUnit(e)) = NextWritten(e)
         /\ NextWritten(e)' = After(sent[e], MessageUnit(e))
<1>a. /\ left \in [Endpoint -> Nat] /\ writing[e] \in {"none", "header", "body"}
      /\ Writers /\ TypeOK /\ flushed[e] \in Nat
  BY DEF Inductive, TypeOK
<1>b. /\ left[e] > 0 /\ left'[e] = left[e] - 1
      /\ flushed' = flushed /\ writing' = writing /\ sent' = sent
  BY <1>a DEF TransferMessage, UnitsLeft, appVars
<1>c. MessageUnit(e) \in Unit
  BY <1>a, <1>b, MessageUnitType
<1>d. /\ writing[e] # "none" /\ outgoing[e] # <<>>
      /\ writing[e] = "header" => left[e] = 1
      /\ writing[e] = "body" => left[e] <= Head(outgoing[e]).size
  BY <1>a, <1>b DEF Writers, Writer
<1> DEFINE m == flushed[e] + 1
           n == sent[e][m].size
<1>e. /\ m \in 1 .. Len(sent[e]) /\ Head(outgoing[e]) = sent[e][m] /\ sent[e][m].id = m
      /\ n \in Nat /\ SizeOf(sent[e], m) = n /\ m \in Nat
  BY <1>d, HeadOfLine DEF Message
<1>1. CASE writing[e] = "header"
  <2>1. MessageUnit(e) = [msg |-> m, pos |-> 0, size |-> n]
    BY <1>1, <1>e DEF MessageUnit, HeaderOf
  <2>2. NextWritten(e) = <<m, 0>>
    BY <1>1, <1>b DEF NextWritten
  <2>3. left'[e] = 0
    BY <1>1, <1>b, <1>d
  <2>4. NextWritten(e)' = Follows(sent[e], m, 0)
    BY <1>1, <1>b, <2>3 DEF NextWritten
  <2> QED
    BY <1>c, <1>e, <2>1, <2>2, <2>4 DEF Genuine, Place, After
<1>2. CASE writing[e] = "body"
  <2> DEFINE k == n - left[e] + 1
  <2>6. left[e] \in Nat /\ left[e] > 0 /\ left[e] <= n /\ left'[e] = left[e] - 1
    BY <1>2, <1>a, <1>b, <1>d, <1>e
  <2> HIDE DEF n
  <2>0. k \in Nat /\ k - 1 \in Nat /\ k - 1 < n /\ k \in 0 .. n /\ k # 0 /\ n - left'[e] = k
        /\ n - left[e] = k - 1 /\ (k - 1) + 1 = k
    BY <1>e, <2>6
  <2>1. MessageUnit(e) = [msg |-> m, pos |-> k, size |-> 0]
    BY <1>2, <1>e DEF MessageUnit, BodyUnit, n
  <2> HIDE DEF k, m
  <2>2. NextWritten(e) = Follows(sent[e], m, k - 1)
    BY <1>2, <1>e, <2>0 DEF NextWritten, m
  <2>3. Follows(sent[e], m, k - 1) = <<m, k>>
    BY <1>e, <2>0 DEF Follows
  <2>4. NextWritten(e)' = Follows(sent[e], m, k)
    BY <1>2, <1>b, <1>e, <2>0 DEF NextWritten, m
  <2>5. Genuine(sent[e], MessageUnit(e))
    BY <1>e, <2>0, <2>1 DEF Genuine, n
  <2> QED
    BY <1>c, <2>1, <2>2, <2>3, <2>4, <2>5 DEF Place, After
<1> QED
  BY <1>1, <1>2, <1>a, <1>d

(***************************************************************************)
(* A message more to send does not move it either.                         *)
(***************************************************************************)
LEMMA NextWrittenGrows ==
  ASSUME Inductive, Queues, NEW e \in Endpoint, NEW d \in Endpoint, Send(e)
  PROVE  NextWritten(d)' = NextWritten(d)
<1>1. /\ flushed' = flushed /\ writing' = writing /\ left' = left
      /\ writing[d] # "none" => outgoing[d] # <<>>
      /\ sent \in [Endpoint -> Seq(Message)]
  BY DEF Send, writeVars, Inductive, TypeOK, Writers, Writer
<1>2. PICK n \in Sizes :
        sent' = [sent EXCEPT ![e] = Append(@, [id |-> Len(sent[e]) + 1, size |-> n])]
  BY DEF Send
<1>3. CASE writing[d] = "none"
  BY <1>1, <1>3 DEF NextWritten
<1>4. CASE writing[d] # "none"
  <2>1. flushed[d] + 1 \in 1 .. Len(sent[d])
    BY <1>1, <1>4, HeadOfLine
  <2>2. sent'[d][flushed[d] + 1] = sent[d][flushed[d] + 1]
    <3>1. [id |-> Len(sent[e]) + 1, size |-> n] \in Message
      BY <1>1 DEF Message
    <3> QED
      BY <1>1, <1>2, <2>1, <3>1
  <2> QED
    BY <1>1, <2>2 DEF NextWritten, Follows, SizeOf
<1> QED
  BY <1>3, <1>4

--------------------------------------------------------------------------------
(***************************************************************************)
(* The state of an end, as its peer's stream sees it: whether its          *)
(* TcpConnection exists, whether it has still to read the validation, and  *)
(* whether it reads or will read anything.                                 *)
(***************************************************************************)
Born(e) == e = "server" => phase = "accepted"

Unread(e) ==
  \/ ~Born(e)
  \/ reading[e] = "connect"
  \/ reading[e] = "validation" /\ need[e] = 1

Listening(e) ==
  \/ ~Born(e)
  \/ reading[e] # "none"
  \/ e = "client" /\ hsWrite["client"] \in {"pending", "written"}

(***************************************************************************)
(* The place in its peer's stream of the next word an end reads.           *)
(***************************************************************************)
NextRead(e) ==
  LET s == sent[Peer(e)]
      m == Len(incoming[e]) + 1
  IN  IF Unread(e) THEN Start
      ELSE IF reading[e] = "header" THEN IF need[e] > 0 THEN <<m, 0>> ELSE Follows(s, m, 0)
      ELSE IF reading[e] = "body" THEN Follows(s, m, SizeOf(s, m) - need[e])
      ELSE <<1, 0>>

(***************************************************************************)
(* What an end that reads has read: the validation, then the messages in   *)
(* incoming, then the header and a part of the body of the next one.       *)
(***************************************************************************)
Reader(e) ==
  LET s == sent[Peer(e)]
      m == Len(incoming[e]) + 1
  IN  /\ reading[e] \in {"validation", "header"} => need[e] <= 1
      /\ ~Unread(e) /\ reading[e] \in {"validation", "none"} => word[e] = Validation
      /\ reading[e] \notin {"header", "body"} => incoming[e] = <<>>
      /\ (reading[e] = "header" /\ need[e] = 0) \/ reading[e] = "body" =>
           m \in 1 .. Len(s) /\ word[e] = HeaderOf(s[m])
      /\ reading[e] = "body" => /\ s[m].size > 0 /\ need[e] <= s[m].size
                                /\ \A i \in 1 .. Len(tempBody[e]) : tempBody[e][i] = m

\* The acceptor alone makes a connection accepted, and it stays so.
LEMMA PhaseSteps ==
  ASSUME [Next]_vars
  PROVE  phase' = phase \/ Establish \/ Accept \/ Deny
<1>1. CASE Application \/ Network \/ TimerFires \/ UNCHANGED vars
  BY <1>1 DEF Application, Send, DisconnectClient, Disconnect, Stop, Network,
     TimerFires, vars
<1>2. ASSUME NEW e \in Endpoint, Context(e)
      PROVE  phase' = phase
  BY <1>2 DEF Context, RunPosted, WriteHandlers, TransferMessage, HeaderWritten,
     BodyWritten, ValidationHandlers, TransferValidation, ValidationWritten, ReadHandlers,
     Receive, Connected, ConnectFails, ChallengeRead, AnswerRead, HeaderRead, BodyRead,
     WriteFails, ValidationWriteFails, ReadFails
<1> QED
  BY <1>1, <1>2 DEF Next

\* An end is born once, when it is accepted.
LEMMA BornStays ==
  ASSUME [Next]_vars, NEW e \in Endpoint, ~Accept \/ e # "server"
  PROVE  Born(e)' = Born(e)
  BY PhaseSteps DEF Born, Establish, Accept, Deny

\* An end reads for itself alone.
LEMMA OtherReader ==
  ASSUME TypeOK, NEW e \in Endpoint, ReaderStep(e) \/ HandshakeStep(e),
         NEW d \in Endpoint, d # e
  PROVE  /\ reading'[d] = reading[d] /\ need'[d] = need[d] /\ word'[d] = word[d]
         /\ tempBody'[d] = tempBody[d] /\ incoming'[d] = incoming[d]
         /\ hsWrite'[d] = hsWrite[d]
<1>a. /\ reading \in [Endpoint -> Readings]
      /\ need \in [Endpoint -> Nat]
      /\ word \in [Endpoint -> Unit]
      /\ tempBody \in [Endpoint -> Seq(Nat)]
      /\ incoming \in [Endpoint -> Seq([id : Nat, size : Nat, body : Seq(Nat)])]
      /\ hsWrite \in [Endpoint -> HsWrites]
  BY DEF TypeOK, HsWrites
<1> USE <1>a DEF StartRead, StartValidationWrite, writeVars, readVars
<1>1. CASE Receive(e)
  BY <1>1 DEF Receive
<1>2. CASE e = "client" /\ (Connected \/ ConnectFails \/ ChallengeRead)
  BY <1>2 DEF Connected, ConnectFails, ChallengeRead
<1>3. CASE e = "server" /\ AnswerRead
  BY <1>3 DEF AnswerRead
<1>4. CASE HeaderRead(e)
  BY <1>4 DEF HeaderRead, AddToIncoming
<1>5. CASE BodyRead(e) \/ ReadFails(e)
  BY <1>5 DEF BodyRead, AddToIncoming, ReadFails
<1>6. CASE HandshakeStep(e)
  BY <1>6 DEF HandshakeStep, ValidationHandlers, TransferValidation, ValidationWritten,
     ValidationWriteFails
<1> QED
  BY <1>1, <1>2, <1>3, <1>4, <1>5, <1>6 DEF ReaderStep, ReadHandlers

(***************************************************************************)
(* An end whose reads and handshake a step leaves alone keeps its place.   *)
(***************************************************************************)
LEMMA ReaderSame ==
  ASSUME NEW d \in Endpoint, Born(d)' = Born(d), sent'[Peer(d)] = sent[Peer(d)],
         reading'[d] = reading[d], need'[d] = need[d], word'[d] = word[d],
         tempBody'[d] = tempBody[d], incoming'[d] = incoming[d]
  PROVE  /\ Reader(d) => Reader(d)'
         /\ NextRead(d)' = NextRead(d)
         /\ (Unread(d)' <=> Unread(d))
         /\ hsWrite'[d] = hsWrite[d] /\ Listening(d)' => Listening(d)
<1>1. (Unread(d)' <=> Unread(d))
  BY DEF Unread
<1>2. Peer(d)' = Peer(d)
  BY DEF Peer
<1> QED
  BY <1>1, <1>2 DEF Reader, NextRead, Listening

\* The messages an end sends, by number.
LEMMA SentByNumber ==
  ASSUME Inductive, Queues, NEW e \in Endpoint, NEW m \in 1 .. Len(sent[e])
  PROVE  /\ sent[e] \in Seq(Message) /\ sent[e][m] \in Message
         /\ sent[e][m].id = m /\ m \in Nat /\ m # 0
         /\ sent[e][m].size \in Nat /\ sent[e][m].size \in Sizes
         /\ SizeOf(sent[e], m) = sent[e][m].size
         /\ HeaderOf(sent[e][m]) = [msg |-> m, pos |-> 0, size |-> sent[e][m].size]
<1>1. sent[e] \in Seq(Message) /\ InLine(sent[e], posted[e], outgoing[e], flushed[e])
  BY DEF Inductive, TypeOK, Queues
<1>2. m \in Nat /\ m # 0 /\ sent[e][m] \in Message /\ sent[e][m].id = m /\
      sent[e][m].size \in Sizes
  BY <1>1 DEF InLine
<1> QED
  BY <1>1, <1>2 DEF Message, SizeOf, HeaderOf

(***************************************************************************)
(* The handlers of the reads and of the handshake keep what was read, and  *)
(* its place in the stream: only a word received moves it.                 *)
(***************************************************************************)
LEMMA ReaderKept ==
  ASSUME Inductive, Queues, [Next]_vars, NEW d \in Endpoint,
         sent'[Peer(d)] = sent[Peer(d)],
         ~Receive(d), Listening(d)'
  PROVE  Reader(d) => Reader(d)' /\ NextRead(d)' = NextRead(d) /\ (Unread(d)' <=> Unread(d))
<1> SUFFICES ASSUME Reader(d)
             PROVE  Reader(d)' /\ NextRead(d)' = NextRead(d) /\ (Unread(d)' <=> Unread(d))
  OBVIOUS
<1> DEFINE s == sent[Peer(d)]
           m == Len(incoming[d]) + 1
<1>a. /\ reading \in [Endpoint -> Readings]
      /\ need \in [Endpoint -> Nat]
      /\ word \in [Endpoint -> Unit]
      /\ tempBody \in [Endpoint -> Seq(Nat)]
      /\ incoming \in [Endpoint -> Seq([id : Nat, size : Nat, body : Seq(Nat)])]
      /\ hsWrite \in [Endpoint -> HsWrites]
      /\ Handshake /\ ServerUnborn /\ TypeOK
  BY DEF Inductive, TypeOK, HsWrites
<1>e. Len(incoming[d]) \in Nat
  BY <1>a
<1>b. Peer(d)' = Peer(d) /\ Peer(d) \in Endpoint
  BY PeerType DEF Peer
<1>1. CASE Accept
  <2>1. CASE d = "server"
    <3>1. ~Born(d) /\ reading[d] = "none"
      BY <1>1, <1>a, <2>1 DEF Accept, Born, ServerUnborn, Unborn
    <3>2. /\ reading'[d] = "validation" /\ need'[d] = 1 /\ incoming' = incoming
      BY <1>1, <1>a, <2>1 DEF Accept, StartRead
    <3>3. Unread(d) /\ Unread(d)' /\ incoming[d] = <<>>
      BY <3>1, <3>2 DEF Unread, Reader
    <3> QED
      BY <3>2, <3>3 DEF Reader, NextRead
  <2>2. CASE d # "server"
    <3>1. /\ reading'[d] = reading[d] /\ need'[d] = need[d] /\ word'[d] = word[d]
          /\ tempBody'[d] = tempBody[d] /\ incoming'[d] = incoming[d]
      BY <1>1, <1>a, <2>2 DEF Accept, StartRead
    <3>2. Born(d)' = Born(d)
      BY <2>2, BornStays
    <3> QED
      BY <3>1, <3>2, ReaderSame
  <2> QED
    BY <2>1, <2>2
<1> SUFFICES ASSUME ~Accept
             PROVE  Reader(d)' /\ NextRead(d)' = NextRead(d) /\ (Unread(d)' <=> Unread(d))
  BY <1>1
<1>c. Born(d)' = Born(d)
  BY BornStays
<1>d. ASSUME reading[d] # "none"
      PROVE  Born(d)
  BY <1>a, <1>d DEF Born, ServerUnborn, Unborn
<1>2. CASE UNCHANGED readVars
  BY <1>2, <1>c, ReaderSame DEF readVars
<1>3. ASSUME NEW e \in Endpoint, e # d, ReaderStep(e) \/ HandshakeStep(e)
      PROVE  Reader(d)' /\ NextRead(d)' = NextRead(d) /\ (Unread(d)' <=> Unread(d))
  BY <1>3, <1>a, <1>c, OtherReader, ReaderSame
<1>4. CASE d = "client" /\ Connected
  <2>1. /\ reading[d] = "connect" /\ reading'[d] = "validation" /\ need'[d] = 1
        /\ incoming' = incoming
    BY <1>4, <1>a DEF Connected, StartRead
  <2>2. Unread(d) /\ Unread(d)' /\ incoming[d] = <<>>
    BY <2>1 DEF Unread, Reader
  <2> QED
    BY <2>1, <2>2 DEF Reader, NextRead
<1>5. CASE d = "client" /\ ConnectFails
  <2>1. reading[d] = "connect" /\ reading'[d] = "none" /\ hsWrite' = hsWrite
    BY <1>5, <1>a DEF ConnectFails, StartRead, writeVars
  <2> QED
    BY <1>5, <1>a, <2>1 DEF Handshake, Listening, Born
<1>6. CASE d = "client" /\ ChallengeRead
  <2>1. /\ reading[d] = "validation" /\ need[d] = 0 /\ reading'[d] = "none"
        /\ incoming' = incoming /\ word' = word
    BY <1>6, <1>a DEF ChallengeRead, StartRead
  <2>2. ~Unread(d) /\ ~Unread(d)'
    BY <1>6, <2>1 DEF Unread, Born
  <2> QED
    BY <2>1, <2>2 DEF Reader, NextRead
<1>7. CASE d = "server" /\ AnswerRead
  <2>1. /\ reading[d] = "validation" /\ need[d] = 0
        /\ incoming' = incoming
    BY <1>7 DEF AnswerRead
  <2>2. Born(d)
    BY <1>d, <2>1
  <2>3. reading'[d] = "header" /\ need'[d] = 1
    BY <1>7, <1>a, <1>c, <2>2 DEF AnswerRead, StartRead, Listening
  <2>4. ~Unread(d) /\ ~Unread(d)' /\ incoming[d] = <<>>
    BY <1>c, <2>1, <2>2, <2>3 DEF Unread, Reader
  <2> QED
    BY <2>1, <2>3, <2>4 DEF Reader, NextRead
<1>8. CASE HeaderRead(d)
  <2>1. /\ reading[d] = "header" /\ need[d] = 0
        /\ m \in 1 .. Len(s) /\ word[d] = HeaderOf(s[m])
    BY <1>8 DEF HeaderRead, Reader
  <2>2. /\ HeaderOf(s[m]) = [msg |-> m, pos |-> 0, size |-> s[m].size]
        /\ SizeOf(s, m) = s[m].size /\ s[m].size \in Nat /\ m \in Nat /\ m # 0
    BY <1>b, <2>1, SentByNumber
  <2> DEFINE n == s[m].size
  <2>3. SizesIn(word[d]) = {n}
    BY <2>1, <2>2 DEF SizesIn
  <2>4. ~Unread(d)
    BY <1>d, <2>1 DEF Unread
  <2>5. CASE n > 0
    <3>1. /\ StartRead(d, "body", n)
          /\ tempBody' = [tempBody EXCEPT ![d] = <<>>]
          /\ word' = [word EXCEPT ![d].size = n]
          /\ UNCHANGED incoming
      BY <1>8, <2>3, <2>5 DEF HeaderRead
    <3>2. /\ reading'[d] = "body" /\ need'[d] = n /\ tempBody'[d] = <<>>
          /\ incoming'[d] = incoming[d]
      BY <1>a, <3>1 DEF StartRead
    <3>3. word'[d] = word[d]
      BY <1>a, <2>1, <2>2, <3>1
    <3>4. ~Unread(d)'
      BY <1>c, <1>d, <2>1, <3>2 DEF Unread
    <3>5. n - n = 0
      BY <2>2
    <3> QED
      BY <1>b, <2>1, <2>2, <2>4, <2>5, <3>2, <3>3, <3>4, <3>5 DEF Reader, NextRead
  <2>6. CASE ~(n > 0)
    <3>1. AddToIncoming(d, n)
      BY <1>8, <2>3, <2>6 DEF HeaderRead
    <3>2. /\ reading'[d] = "header" /\ need'[d] = 1
          /\ Len(incoming'[d]) = Len(incoming[d]) + 1
      BY <1>a, <3>1 DEF AddToIncoming, StartRead
    <3>3. ~Unread(d)'
      BY <1>c, <1>d, <2>1, <3>2 DEF Unread
    <3>4. Follows(s, m, 0) = <<m + 1, 0>>
      BY <2>2, <2>6 DEF Follows
    <3> QED
      BY <1>b, <2>1, <2>4, <3>2, <3>3, <3>4 DEF Reader, NextRead
  <2> QED
    BY <2>5, <2>6
<1>9. CASE BodyRead(d)
  <2>1. /\ reading[d] = "body" /\ need[d] = 0 /\ AddToIncoming(d, word[d].size)
        /\ m \in 1 .. Len(s)
    BY <1>9 DEF BodyRead, Reader
  <2>2. SizeOf(s, m) = s[m].size /\ s[m].size \in Nat
    BY <1>b, <2>1, SentByNumber
  <2>3. /\ reading'[d] = "header" /\ need'[d] = 1
        /\ Len(incoming'[d]) = Len(incoming[d]) + 1
    BY <1>a, <2>1 DEF AddToIncoming, StartRead
  <2>4. ~Unread(d) /\ ~Unread(d)'
    BY <1>c, <1>d, <2>1, <2>3 DEF Unread
  <2>5. Follows(s, m, SizeOf(s, m) - need[d]) = <<m + 1, 0>>
    BY <2>1, <2>2 DEF Follows
  <2> QED
    BY <1>b, <2>1, <2>3, <2>4, <2>5 DEF Reader, NextRead
<1>10. CASE ReadFails(d)
  <2>1. need[d] > 0 /\ reading'[d] = "none" /\ hsWrite' = hsWrite
    BY <1>10, <1>a DEF ReadFails, StartRead, writeVars
  <2>2. reading[d] # "none"
    BY <1>a, <2>1 DEF Handshake
  <2>3. Born(d)' /\ (d = "client" => hsWrite["client"] \notin {"pending", "written"})
    BY <1>a, <1>c, <1>d, <2>2 DEF Handshake
  <2> QED
    BY <2>1, <2>3 DEF Listening
<1>11. CASE TransferValidation(d)
  BY <1>2, <1>11 DEF TransferValidation
<1>12. CASE ValidationWriteFails(d)
  BY <1>2, <1>12 DEF ValidationWriteFails
<1>13. CASE ValidationWritten(d)
  <2>1. CASE d = "client"
    <3>1. /\ reading[d] = "none" /\ reading'[d] = "header" /\ need'[d] = 1
          /\ incoming' = incoming
      BY <1>13, <1>a, <2>1 DEF ValidationWritten, ReadsAfterValidation, StartRead,
         Handshake
    <3>2. incoming[d] = <<>> /\ ~Unread(d) /\ ~Unread(d)'
      BY <2>1, <3>1 DEF Reader, Unread, Born
    <3> QED
      BY <3>1, <3>2 DEF Reader, NextRead
  <2>2. CASE d # "client"
    <3>1. UNCHANGED readVars
      BY <1>13, <2>2 DEF ValidationWritten, ReadsAfterValidation, readVars
    <3> QED
      BY <1>2, <3>1
  <2> QED
    BY <2>1, <2>2
<1>14. CASE ReaderStep(d) \/ HandshakeStep(d)
  BY <1>4, <1>5, <1>6, <1>7, <1>8, <1>9, <1>10, <1>11, <1>12, <1>13, <1>14
     DEF ReaderStep, ReadHandlers, HandshakeStep, ValidationHandlers
<1> QED
  BY <1>2, <1>3, <1>14, ReaderSteps

\* A message more to send changes nothing of what was read of those before it.
LEMMA ReaderGrows ==
  ASSUME Inductive, Queues, NEW e \in Endpoint, NEW d \in Endpoint, Send(e), Reader(d)
  PROVE  /\ Reader(d)' /\ NextRead(d)' = NextRead(d)
         /\ (Unread(d)' <=> Unread(d)) /\ (Listening(d)' <=> Listening(d))
<1> DEFINE s == sent[Peer(d)]
           m == Len(incoming[d]) + 1
<1>1. /\ UNCHANGED readVars /\ hsWrite' = hsWrite /\ phase' = phase
      /\ sent \in [Endpoint -> Seq(Message)] /\ Peer(d) \in Endpoint /\ Peer(d)' = Peer(d)
  BY PeerType DEF Send, writeVars, Inductive, TypeOK, Peer
<1>2. PICK n \in Sizes :
        sent' = [sent EXCEPT ![e] = Append(@, [id |-> Len(sent[e]) + 1, size |-> n])]
  BY DEF Send
<1>3. [id |-> Len(sent[e]) + 1, size |-> n] \in Message
  BY <1>1 DEF Message
<1>4. Len(s) <= Len(s') /\ Len(s) \in Nat /\ Len(s') \in Nat
  BY <1>1, <1>2, <1>3
<1>5. \A i \in 1 .. Len(s) : s'[i] = s[i] /\ i \in 1 .. Len(s')
  BY <1>1, <1>2, <1>3
<1>6. (Unread(d)' <=> Unread(d)) /\ (Listening(d)' <=> Listening(d))
  BY <1>1 DEF Unread, Listening, Born, readVars
<1>7. m' = m /\ reading' = reading /\ need' = need /\ word' = word /\ tempBody' = tempBody
      /\ incoming' = incoming
  BY <1>1 DEF readVars
<1>8. (reading[d] = "header" /\ need[d] = 0) \/ reading[d] = "body" =>
         m \in 1 .. Len(s) /\ s'[m] = s[m] /\ m \in 1 .. Len(s')
  BY <1>5 DEF Reader
<1>9. Reader(d)'
  BY <1>6, <1>7, <1>8 DEF Reader
<1>10. need[d] \in Nat
  BY NatCounters DEF Inductive
<1>11. (reading[d] = "header" /\ ~(need[d] > 0)) \/ reading[d] = "body" => s'[m] = s[m]
  BY <1>8, <1>10
<1>12. NextRead(d)' = NextRead(d)
  BY <1>1, <1>6, <1>7, <1>11 DEF NextRead, Follows, SizeOf
<1> QED
  BY <1>6, <1>9, <1>12

(***************************************************************************)
(* The word an end receives is the one of its place in the stream, and it  *)
(* is read for what it is: validation, header or word of the body.         *)
(***************************************************************************)
LEMMA ReceiveReads ==
  ASSUME Inductive, Queues, NEW d \in Endpoint, Receive(d), Reader(d),
         Genuine(sent[Peer(d)], Head(wire[Peer(d)])),
         Place(Head(wire[Peer(d)])) = NextRead(d)
  PROVE  /\ Reader(d)' /\ NextRead(d)' = After(sent[Peer(d)], Head(wire[Peer(d)]))
         /\ Listening(d)
<1> DEFINE s == sent[Peer(d)]
           m == Len(incoming[d]) + 1
           u == Head(wire[Peer(d)])
<1>a. /\ reading \in [Endpoint -> Readings]
      /\ need \in [Endpoint -> Nat]
      /\ word \in [Endpoint -> Unit]
      /\ tempBody \in [Endpoint -> Seq(Nat)]
      /\ incoming[d] \in Seq([id : Nat, size : Nat, body : Seq(Nat)])
      /\ wire[Peer(d)] \in Seq(Unit)
      /\ Handshake /\ ServerUnborn
  BY PeerType DEF Inductive, TypeOK
<1>b. Peer(d)' = Peer(d) /\ Peer(d) \in Endpoint
  BY PeerType DEF Peer
<1>c. /\ need[d] > 0 /\ need'[d] = need[d] - 1 /\ need[d] \in Nat
      /\ reading' = reading /\ incoming' = incoming /\ sent' = sent /\ phase' = phase
  BY <1>a DEF Receive, appVars
<1>d. u \in Unit
  BY <1>a, TailByIndex DEF Receive
<1>e. Len(incoming[d]) \in Nat /\ m \in Nat /\ m # 0
  BY <1>a
<1>f. reading[d] \in {"validation", "header", "body"}
  <2>1. need[d] # 0
    BY <1>c
  <2>2. reading[d] \notin {"none", "connect"}
    BY <1>a, <2>1, Zenon DEF Handshake
  <2> QED
    BY <1>a, <2>2 DEF Readings
<1>g. Born(d) /\ Listening(d)
  BY <1>a, <1>f DEF Born, Listening, ServerUnborn, Unborn
<1>h. Born(d)'
  BY <1>c, <1>g DEF Born
<1>1. CASE reading[d] = "validation"
  <2>1. need[d] = 1 /\ need'[d] = 0
    BY <1>1, <1>c DEF Reader
  <2>2. Unread(d) /\ ~Unread(d)'
    BY <1>1, <1>c, <1>h, <2>1 DEF Unread
  <2>3. u.msg = 0 /\ u.pos = 0
    BY <2>2 DEF NextRead, Place, Start
  <2>4. u = Validation
    BY <2>3 DEF Genuine
  <2>5. word'[d] = Validation
    BY <1>1, <1>a, <2>4 DEF Receive
  <2>6. Reader(d)'
    BY <1>1, <1>c, <2>1, <2>5 DEF Reader
  <2>7. NextRead(d)' = <<1, 0>>
    BY <1>1, <1>c, <2>2 DEF NextRead
  <2>8. After(s, u) = <<1, 0>>
    BY <2>4 DEF After, Follows, SizeOf, Validation
  <2> QED
    BY <1>g, <2>6, <2>7, <2>8
<1>2. CASE reading[d] = "header"
  <2>1. need[d] = 1 /\ need'[d] = 0
    BY <1>2, <1>c DEF Reader
  <2>2. ~Unread(d) /\ ~Unread(d)'
    BY <1>2, <1>c, <1>g, <1>h DEF Unread
  <2>3. u.msg = m /\ u.pos = 0
    BY <1>2, <2>1, <2>2 DEF NextRead, Place
  <2>4. m \in 1 .. Len(s) /\ u.size = s[m].size
    BY <1>e, <2>3 DEF Genuine, Validation
  <2>5. HeaderOf(s[m]) = [msg |-> m, pos |-> 0, size |-> s[m].size]
    BY <1>b, <2>4, SentByNumber
  <2>6. u = HeaderOf(s[m])
    BY <1>d, <2>3, <2>4, <2>5 DEF Unit
  <2>7. word'[d] = u
    BY <1>2, <1>a DEF Receive
  <2>8. Reader(d)'
    BY <1>2, <1>b, <1>c, <2>1, <2>4, <2>6, <2>7 DEF Reader
  <2>9. NextRead(d)' = Follows(s, m, 0)
    BY <1>2, <1>b, <1>c, <2>1, <2>2 DEF NextRead
  <2> QED
    BY <1>g, <2>3, <2>8, <2>9 DEF After
<1>3. CASE reading[d] = "body"
  <2>1. /\ m \in 1 .. Len(s) /\ word[d] = HeaderOf(s[m])
        /\ need[d] <= s[m].size /\ s[m].size > 0
        /\ \A i \in 1 .. Len(tempBody[d]) : tempBody[d][i] = m
    BY <1>3 DEF Reader
  <2>2. SizeOf(s, m) = s[m].size /\ s[m].size \in Nat
    BY <1>b, <2>1, SentByNumber
  <2>3. ~Unread(d) /\ ~Unread(d)'
    BY <1>3, <1>c, <1>g, <1>h DEF Unread
  <2> DEFINE k == s[m].size - need[d]
  <2>4. k \in Nat /\ k < SizeOf(s, m) /\ k + 1 = SizeOf(s, m) - need'[d]
    BY <1>c, <2>1, <2>2
  <2>5. Place(u) = <<m, k + 1>>
    BY <1>3, <2>2, <2>3, <2>4 DEF NextRead, Follows
  <2>6. u.msg = m /\ u.pos = k + 1
    BY <2>5 DEF Place
  <2>7. word' = word /\ tempBody'[d] = Append(tempBody[d], m)
    BY <1>3, <1>a, <2>6 DEF Receive
  <2>8. \A i \in 1 .. Len(tempBody'[d]) : tempBody'[d][i] = m
    BY <1>a, <1>e, <2>1, <2>7
  <2>9. need'[d] <= s[m].size
    BY <1>c, <2>1, <2>2
  <2>10. Reader(d)'
    BY <1>3, <1>b, <1>c, <2>1, <2>7, <2>8, <2>9 DEF Reader
  <2>11. NextRead(d)' = Follows(s, m, k + 1)
    BY <1>3, <1>b, <1>c, <2>3, <2>4 DEF NextRead
  <2> QED
    BY <1>g, <2>6, <2>10, <2>11 DEF After
<1> QED
  BY <1>1, <1>2, <1>3, <1>f

--------------------------------------------------------------------------------
(***************************************************************************)
(* What an end writes next: its validation, then its messages.  An end     *)
(* whose socket was closed writes nothing any more.                        *)
(***************************************************************************)
HasAnswered(e) == hsWrite[e] \in {"written", "done"}
NextOut(e) == IF HasAnswered(e) THEN NextWritten(e) ELSE Start
MayWrite(e) == ~Born(e) \/ open[e]

(***************************************************************************)
(* The stream of an end is sound: the words on the wire go from the next   *)
(* one its peer reads to the next one it writes.                           *)
(***************************************************************************)
OnTrack(e) ==
  LET a == NextRead(Peer(e))
  IN  /\ Piece(sent[e], wire[e], a)
      /\ MayWrite(e) => /\ NextOut(e) = Ending(sent[e], wire[e], a)
                        /\ ~HasAnswered(e) => NextWritten(e) = <<1, 0>>

Sound(e) == OnTrack(e) /\ Reader(Peer(e))

(***************************************************************************)
(* The stream of a client that wrote a message before its answer: the      *)
(* server reads, or will read, the header of that message for an answer.   *)
(***************************************************************************)
Spoiled ==
  LET header == HeaderOf(Head(sent["client"]))
  IN  /\ sent["client"] # <<>>
      /\ IF Unread("server")
         THEN wire["client"] # <<>> /\ Head(wire["client"]) = header
         ELSE reading["server"] = "validation" /\ need["server"] = 0 /\ word["server"] = header

Streams ==
  /\ Listening("client") => Sound("server")
  /\ Listening("server") => Sound("client") \/ Spoiled

(***************************************************************************)
(* The server writes its challenge before anything else, and nothing after *)
(* it could not write it; so does a client that could not write its answer.*)
(***************************************************************************)
Challenge ==
  /\ ~behind["server"]
  /\ phase = "accepted" => hsWrite["server"] # "none"
  /\ \A e \in Endpoint : hsWrite[e] = "failed" => ~open[e]

\* Every step keeps what is known of the handshake's words.
LEMMA ChallengeNext ==
  ASSUME Inductive, Challenge, [Next]_vars
  PROVE  Challenge'
<1>a. /\ hsWrite \in [Endpoint -> HsWrites]
      /\ behind \in [Endpoint -> BOOLEAN]
      /\ open \in [Endpoint -> BOOLEAN]
      /\ TypeOK /\ Writers /\ ServerUnborn
  BY DEF Inductive, TypeOK, HsWrites
<1>b. ASSUME ~Accept
      PROVE  \A e \in Endpoint : open'[e] => open[e]
  BY <1>a, <1>b, OnlyAcceptOpens
<1>1. CASE Accept
  <2>1. left["server"] = 0
    BY <1>1, <1>a DEF Accept, ServerUnborn, Unborn, Writers, Writer
  <2>2. /\ hsWrite' = [hsWrite EXCEPT !["server"] = "pending"]
    BY <1>1, <1>a DEF Accept, StartValidationWrite
  <2>4. ~behind'["server"]
    <3>1. ~(left["server"] > 0)
      BY <2>1
    <3> QED
      BY <1>1, <1>a, <3>1, Zenon DEF Accept, StartValidationWrite
  <2>3. open' = [open EXCEPT !["server"] = TRUE]
    BY <1>1 DEF Accept
  <2> QED
    BY <1>a, <2>2, <2>3, <2>4 DEF Challenge
<1>2. ASSUME ~Accept, hsWrite' = hsWrite, behind'["server"] => behind["server"]
      PROVE  Challenge'
  <2>1. phase' = "accepted" => phase = "accepted"
    BY <1>2, PhaseSteps DEF Establish, Deny
  <2> QED
    BY <1>b, <1>2, <2>1 DEF Challenge
<1>3. CASE ~Accept /\ (Application \/ Network \/ TimerFires \/ UNCHANGED vars)
  <2>1. hsWrite' = hsWrite /\ behind' = behind
    BY <1>3 DEF Application, Send, DisconnectClient, Disconnect, Stop, Network, Establish,
       Deny, TimerFires, vars, writeVars
  <2> QED
    BY <1>2, <1>3, <2>1
<1>4. ASSUME ~Accept, NEW e \in Endpoint, Context(e)
      PROVE  Challenge'
  <2>0. phase' = phase
    BY <1>4, PhaseSteps DEF Context, RunPosted, WriteHandlers, TransferMessage,
       HeaderWritten, BodyWritten, ValidationHandlers, TransferValidation,
       ValidationWritten, ReadHandlers, Receive, Connected, ConnectFails, ChallengeRead,
       AnswerRead, HeaderRead, BodyRead, WriteFails, ValidationWriteFails, ReadFails
  <2>1. CASE RunPosted(e) \/ ReadFails(e) \/ HeaderWritten(e) \/ BodyWritten(e)
    BY <1>2, <1>4, <2>1 DEF RunPosted, RunSendTask, RunCloseTask, ReadFails,
       HeaderWritten,
       BodyWritten, writeVars
  <2>2. CASE TransferMessage(e) \/ WriteFails(e)
    <3>1. hsWrite' = hsWrite /\ (behind'["server"] => behind["server"])
      BY <1>a, <2>2 DEF TransferMessage, WriteFails
    <3> QED
      BY <1>2, <1>4, <3>1
  <2>3. CASE TransferValidation(e) \/ ValidationWritten(e)
    <3>1. /\ behind' = behind /\ open' = open
          /\ hsWrite'[e] \in {"written", "done"}
          /\ \A d \in Endpoint : d # e => hsWrite'[d] = hsWrite[d]
      BY <1>a, <2>3 DEF TransferValidation, ValidationWritten
    <3> QED
      BY <2>0, <3>1 DEF Challenge
  <2>4. CASE ValidationWriteFails(e)
    <3>1. /\ behind' = [behind EXCEPT ![e] = FALSE]
          /\ hsWrite' = [hsWrite EXCEPT ![e] = "failed"]
          /\ open' = [open EXCEPT ![e] = FALSE]
      BY <2>4 DEF ValidationWriteFails, CloseSocket
    <3> QED
      BY <1>a, <2>0, <3>1 DEF Challenge
  <2>5. CASE e = "client" /\ ChallengeRead
    <3>1. /\ hsWrite' = [hsWrite EXCEPT !["client"] = "pending"] /\ open' = open
          /\ behind'["server"] = behind["server"]
      BY <1>a, <2>5 DEF ChallengeRead, StartValidationWrite
    <3> QED
      BY <1>a, <2>0, <3>1 DEF Challenge
  <2>6. CASE ReadHandlers(e) /\ ~(e = "client" /\ ChallengeRead)
    <3>1. hsWrite' = hsWrite /\ behind' = behind
      BY <2>6 DEF ReadHandlers, Receive, Connected, ConnectFails, AnswerRead, HeaderRead,
         BodyRead, writeVars
    <3> QED
      BY <1>2, <1>4, <3>1
  <2> QED
    BY <1>4, <2>1, <2>2, <2>3, <2>4, <2>5, <2>6 DEF Context, WriteHandlers,
       ValidationHandlers, ReadHandlers
<1> QED
  BY <1>1, <1>3, <1>4 DEF Next

(***************************************************************************)
(* An end that writes or listens did so before: only the acceptor builds a *)
(* TcpConnection, and nothing opens a socket again or restarts a read.     *)
(***************************************************************************)
LEMMA MayWriteLess ==
  ASSUME Inductive, [Next]_vars, NEW d \in Endpoint, MayWrite(d)'
  PROVE  MayWrite(d)
<1>1. CASE Accept /\ d = "server"
  BY <1>1 DEF Accept, MayWrite, Born
<1>2. CASE Accept /\ d # "server"
  BY <1>2 DEF Accept, MayWrite, Born, Inductive, TypeOK
<1>3. CASE ~Accept
  BY <1>3, BornStays, OnlyAcceptOpens DEF MayWrite, Inductive
<1> QED
  BY <1>1, <1>2, <1>3

\* An end that no longer listens never does again.
LEMMA ListeningLess ==
  ASSUME Inductive, [Next]_vars, NEW d \in Endpoint, Listening(d)'
  PROVE  Listening(d)
<1>a. /\ reading \in [Endpoint -> Readings]
      /\ hsWrite \in [Endpoint -> HsWrites]
      /\ TypeOK /\ ServerUnborn
  BY DEF Inductive, TypeOK, HsWrites
<1>1. CASE Accept /\ d = "server"
  BY <1>1 DEF Accept, Listening, Born
<1>2. CASE Accept /\ d # "server"
  BY <1>2, <1>a, BornStays DEF Accept, StartRead, StartValidationWrite, Listening
<1>3. ASSUME ~Accept, reading'[d] = reading[d], hsWrite'[d] = hsWrite[d]
      PROVE  Listening(d)
  BY <1>3, BornStays DEF Listening
<1>4. ASSUME ~Accept, NEW e \in Endpoint, ReaderStep(e) \/ HandshakeStep(e)
      PROVE  Listening(d)
  <2>1. CASE e # d
    BY <1>3, <1>4, <1>a, <2>1, OtherReader
  <2>2. CASE e = d /\ ReaderStep(d)
    <3>1. CASE reading[d] = "none"
      BY <1>3, <1>4, <2>2, <3>1 DEF ReaderStep, ReadHandlers, Receive, Connected,
         ConnectFails, ChallengeRead,
         AnswerRead, HeaderRead, BodyRead, ReadFails, Inductive, Handshake, writeVars
    <3>2. CASE reading[d] # "none"
      BY <3>2 DEF Listening
    <3> QED
      BY <3>1, <3>2
  <2>3. CASE e = d /\ HandshakeStep(d)
    <3>1. CASE d = "client"
      BY <1>3, <1>4, <1>a, <2>3, <3>1 DEF HandshakeStep, ValidationHandlers,
         TransferValidation,
         ValidationWritten, ValidationWriteFails, Listening, readVars
    <3>2. CASE d # "client"
      <4>1. reading' = reading
        BY <2>3, <3>2 DEF HandshakeStep, ValidationHandlers, TransferValidation,
           ValidationWritten, ReadsAfterValidation, ValidationWriteFails, readVars
      <4> QED
        BY <1>4, <3>2, <4>1, BornStays DEF Listening
    <3> QED
      BY <3>1, <3>2
  <2> QED
    BY <1>4, <2>1, <2>2, <2>3
<1>5. CASE ~Accept /\ UNCHANGED <<readVars, hsWrite>>
  BY <1>3, <1>5 DEF readVars
<1> QED
  BY <1>1, <1>2, <1>4, <1>5, ReaderSteps

--------------------------------------------------------------------------------
(***************************************************************************)
(* The only steps that concern the words on the wire, and those that       *)
(* concern the answer of an end.                                           *)
(***************************************************************************)
LEMMA WireSteps ==
  ASSUME [Next]_vars
  PROVE  \/ \E e \in Endpoint : TransferMessage(e) \/ TransferValidation(e) \/ Receive(e)
         \/ UNCHANGED wire
<1>1. CASE Application \/ Network \/ TimerFires \/ UNCHANGED vars
  BY <1>1 DEF Application, Send, DisconnectClient, Disconnect, Stop, Network, Establish,
     Accept, Deny, TimerFires, vars
<1>2. ASSUME NEW e \in Endpoint, Context(e)
      PROVE  TransferMessage(e) \/ TransferValidation(e) \/ Receive(e) \/ UNCHANGED wire
  BY <1>2 DEF Context, RunPosted, WriteHandlers, HeaderWritten, BodyWritten,
     ValidationHandlers, ValidationWritten, ReadHandlers, Connected, ConnectFails,
     ChallengeRead, AnswerRead, HeaderRead, BodyRead, WriteFails, ValidationWriteFails,
     ReadFails
<1> QED
  BY <1>1, <1>2 DEF Next

\* An answer is written by TransferValidation only.
LEMMA HasAnsweredKept ==
  ASSUME Inductive, [Next]_vars, NEW d \in Endpoint, ~TransferValidation(d)
  PROVE  HasAnswered(d)' <=> HasAnswered(d)
<1>a. hsWrite \in [Endpoint -> HsWrites] /\ Handshake /\ ServerUnborn /\ TypeOK
  BY DEF Inductive, TypeOK, HsWrites
<1>1. CASE Accept
  BY <1>1, <1>a DEF Accept, StartValidationWrite, HasAnswered, ServerUnborn, Unborn
<1>2. CASE hsWrite'[d] = hsWrite[d]
  BY <1>2 DEF HasAnswered
<1>3. CASE ReaderStep(d) /\ ~(d = "client" /\ ChallengeRead)
  BY <1>2, <1>3 DEF ReaderStep, ReadHandlers, Receive, Connected, ConnectFails,
     AnswerRead,
     HeaderRead, BodyRead, ReadFails, writeVars
<1>4. CASE d = "client" /\ ChallengeRead
  BY <1>4, <1>a DEF ChallengeRead, StartValidationWrite, HasAnswered, Handshake
<1>5. CASE HandshakeStep(d)
  BY <1>5, <1>a DEF HandshakeStep, ValidationHandlers, ValidationWritten,
     ValidationWriteFails, HasAnswered
<1>6. ASSUME NEW e \in Endpoint, ReaderStep(e) \/ HandshakeStep(e)
      PROVE  HasAnswered(d)' <=> HasAnswered(d)
  BY <1>2, <1>3, <1>4, <1>5, <1>6, <1>a, OtherReader
<1>7. CASE UNCHANGED <<readVars, hsWrite>>
  BY <1>2, <1>7
<1> QED
  BY <1>1, <1>6, <1>7, ReaderSteps

(***************************************************************************)
(* An end that has not written its validation writes no message: neither   *)
(* the server, whose challenge goes first, nor a client whose stream is    *)
(* to stay sound.                                                          *)
(***************************************************************************)
LEMMA ServerAnswersFirst ==
  ASSUME Inductive, Challenge, TransferMessage("server")
  PROVE  HasAnswered("server")
<1>1. /\ left["server"] > 0 /\ open["server"] /\ ~behind["server"]
      /\ hsWrite["server"] # "pending" /\ hsWrite["server"] \in HsWrites
  BY DEF TransferMessage, UnitsLeft, Challenge, Inductive, TypeOK, HsWrites
<1>2. phase = "accepted"
  BY <1>1 DEF Inductive, ServerUnborn, Unborn
<1> QED
  BY <1>1, <1>2 DEF Challenge, HasAnswered, HsWrites

\* The next word read is the validation only for an end that has not read it.
LEMMA ReadsPastStart ==
  ASSUME Inductive, NEW d \in Endpoint, NextRead(d) = Start
  PROVE  Unread(d)
<1>1. Len(incoming[d]) + 1 # 0 /\ (Len(incoming[d]) + 1) + 1 # 0
  <2>1. incoming[d] \in Seq([id : Nat, size : Nat, body : Seq(Nat)])
    BY DEF Inductive, TypeOK
  <2>2. Len(incoming[d]) \in Nat
    BY <2>1
  <2> QED
    BY <2>2
<1> QED
  BY <1>1 DEF NextRead, Start, Follows

\* No word but the first one of a stream is its validation.
LEMMA EndsPastStart ==
  ASSUME NEW s, NEW w \in Seq(Unit), NEW a, w # <<>>
  PROVE  Ending(s, w, a) # Start
<1>1. w[Len(w)] \in Unit
  <2>1. Len(w) \in 1 .. Len(w)
    OBVIOUS
  <2> QED
    BY <2>1
<1>2. w[Len(w)].msg \in Nat
  BY <1>1 DEF Unit
<1>3. w[Len(w)].msg + 1 # 0 /\ (0 + 1 # 0)
  BY <1>2
<1>4. w[Len(w)].pos \in Nat
  BY <1>1 DEF Unit
<1>5. w[Len(w)].pos + 1 # 0
  BY <1>4
<1> QED
  BY <1>3, <1>5 DEF Ending, After, Follows, Start

(***************************************************************************)
(* A step that leaves a sound stream alone.                                *)
(***************************************************************************)
LEMMA OnTrackKept ==
  ASSUME NEW d \in Endpoint, OnTrack(d), sent'[d] = sent[d], wire'[d] = wire[d],
         NextRead(Peer(d))' = NextRead(Peer(d)),
         MayWrite(d)' => /\ MayWrite(d)
                         /\ NextWritten(d)' = NextWritten(d)
                         /\ HasAnswered(d)' <=> HasAnswered(d)
  PROVE  OnTrack(d)'
<1>1. Peer(d)' = Peer(d)
  BY DEF Peer
<1>2. MayWrite(d)' => NextOut(d)' = NextOut(d)
  BY DEF NextOut
<1> QED
  BY <1>1, <1>2 DEF OnTrack

\* Send adds to what may be written later.
LEMMA SendKeepsSound ==
  ASSUME Inductive, Queues, [Next]_vars, NEW e \in Endpoint, Send(e),
         NEW d \in Endpoint, Sound(d)
  PROVE  Sound(d)'
<1> DEFINE r == Peer(d)
<1>1. /\ UNCHANGED <<wire, phase, open, hsWrite>>
      /\ sent[d] \in Seq(Message) /\ wire[d] \in Seq(Unit) /\ r \in Endpoint /\ r' = r
      /\ sent \in [Endpoint -> Seq(Message)]
  BY PeerType DEF Send, writeVars, Inductive, TypeOK, Peer
<1>2. PICK m \in Message : sent' = [sent EXCEPT ![e] = Append(@, m)]
  <2>1. \A n \in Sizes : [id |-> Len(sent[e]) + 1, size |-> n] \in Message
    BY <1>1 DEF Message
  <2> QED
    BY <2>1 DEF Send
<1>3. Reader(r)' /\ NextRead(r)' = NextRead(r)
  BY <1>1, ReaderGrows DEF Sound
<1>4. /\ NextWritten(d)' = NextWritten(d) /\ (HasAnswered(d)' <=> HasAnswered(d))
      /\ (MayWrite(d)' <=> MayWrite(d))
  BY <1>1, NextWrittenGrows DEF HasAnswered, MayWrite, Born
<1>5. Piece(sent[d], wire[d], NextRead(r))
  BY DEF Sound, OnTrack
<1>6. /\ Piece(sent'[d], wire[d], NextRead(r))
      /\ Ending(sent'[d], wire[d], NextRead(r)) = Ending(sent[d], wire[d], NextRead(r))
  BY <1>1, <1>2, <1>5, PieceGrows
<1>7. OnTrack(d)'
  BY <1>1, <1>3, <1>4, <1>6 DEF Sound, OnTrack, NextOut
<1> QED
  BY <1>1, <1>3, <1>7 DEF Sound

\* A word that is the next one keeps the stream sound.
LEMMA WriteKeepsSound ==
  ASSUME Inductive, Queues, Challenge, [Next]_vars, NEW d \in Endpoint, Sound(d),
         Reader(Peer(d))' /\ NextRead(Peer(d))' = NextRead(Peer(d)),
         NEW u \in Unit, wire' = [wire EXCEPT ![d] = Append(@, u)], sent' = sent,
         open[d], UNCHANGED open, MayWrite(d)' => MayWrite(d),
         Genuine(sent[d], u), Place(u) = NextOut(d), HasAnswered(d)',
         NextOut(d)' = After(sent[d], u)
  PROVE  Sound(d)'
<1>1. wire[d] \in Seq(Unit) /\ wire'[d] = Append(wire[d], u) /\ Peer(d)' = Peer(d)
  BY DEF Inductive, TypeOK, Peer
<1>2. MayWrite(d)
  BY DEF MayWrite
<1>3. /\ Piece(sent[d], wire[d], NextRead(Peer(d)))
      /\ NextOut(d) = Ending(sent[d], wire[d], NextRead(Peer(d)))
  BY <1>2 DEF Sound, OnTrack
<1>4. /\ Piece(sent[d], wire'[d], NextRead(Peer(d)))
      /\ Ending(sent[d], wire'[d], NextRead(Peer(d))) = After(sent[d], u)
  BY <1>1, <1>3, PieceAppend
<1> QED
  BY <1>1, <1>4 DEF Sound, OnTrack

(***************************************************************************)
(* A word of a message, taken by the kernel: it follows those before it,   *)
(* unless the client has not written its answer yet.                       *)
(***************************************************************************)
LEMMA TransferKeepsSound ==
  ASSUME Inductive, Queues, Challenge, [Next]_vars, NEW d \in Endpoint,
         TransferMessage(d),
         Sound(d)
  PROVE  Sound(d)' \/ (d = "client" /\ Spoiled')
<1> DEFINE r == Peer(d)
           u == MessageUnit(d)
<1>1. /\ open[d] /\ UNCHANGED <<open, phase, sent, hsWrite, readVars>>
      /\ wire' = [wire EXCEPT ![d] = Append(@, u)]
      /\ r \in Endpoint /\ r' = r
  BY PeerType DEF TransferMessage, appVars, Peer
<1>2. /\ u \in Unit /\ Genuine(sent[d], u) /\ Place(u) = NextWritten(d)
      /\ NextWritten(d)' = After(sent[d], u)
  BY TransferWritesNext
<1>3. /\ Reader(r)' /\ NextRead(r)' = NextRead(r) /\ (Unread(r)' <=> Unread(r))
  BY <1>1, ReaderSame DEF Born, readVars, Sound
<1>4. (HasAnswered(d)' <=> HasAnswered(d)) /\ (MayWrite(d)' <=> MayWrite(d)) /\ MayWrite(d)
  BY <1>1 DEF HasAnswered, MayWrite, Born
<1>5. CASE HasAnswered(d)
  <2>1. NextOut(d) = NextWritten(d) /\ NextOut(d)' = NextWritten(d)'
    BY <1>4, <1>5 DEF NextOut
  <2> QED
    BY <1>1, <1>2, <1>3, <1>4, <1>5, <2>1, WriteKeepsSound
<1>6. CASE ~HasAnswered(d)
  <2>1. d = "client" /\ r = "server" /\ sent["client"] \in Seq(Message) /\
        wire["client"] \in Seq(Unit)
    BY <1>6, ServerAnswersFirst DEF Endpoint, Peer, Inductive, TypeOK
  <2>2. /\ Ending(sent[d], wire[d], NextRead(r)) = Start
        /\ NextWritten(d) = <<1, 0>>
    BY <1>4, <1>6 DEF Sound, OnTrack, NextOut
  <2>3. wire["client"] = <<>> /\ NextRead(r) = Start
    BY <2>1, <2>2, EndsPastStart DEF Ending
  <2>4. Unread("server")'
    BY <1>1, <1>3, <2>1, <2>3, ReadsPastStart
  <2>5. u.msg = 1 /\ u.pos = 0
    BY <1>2, <2>2 DEF Place
  <2>6. 1 \in 1 .. Len(sent["client"]) /\ u.size = sent["client"][1].size
    BY <1>2, <2>1, <2>5 DEF Genuine, Validation
  <2>7. u = HeaderOf(sent["client"][1])
    BY <1>2, <2>5, <2>6, SentByNumber DEF Unit
  <2>8. sent["client"] # <<>> /\ Head(sent["client"]) = sent["client"][1]
    BY <2>1, <2>6
  <2>9. wire'["client"] = <<u>>
    BY <1>1, <2>1, <2>3 DEF Inductive, TypeOK
  <2>10. wire'["client"] # <<>> /\ Head(wire'["client"]) = u
    BY <2>9
  <2>11. Spoiled'
    BY <1>1, <2>4, <2>7, <2>8, <2>10 DEF Spoiled
  <2> QED
    BY <2>1, <2>11
<1> QED
  BY <1>5, <1>6

(***************************************************************************)
(* The challenge, or the answer, taken by the kernel.                      *)
(***************************************************************************)
LEMMA ValidationKeepsSound ==
  ASSUME Inductive, Queues, Challenge, Streams, [Next]_vars, NEW d \in Endpoint,
         TransferValidation(d), Sound(d)
  PROVE  Sound(d)'
<1> DEFINE r == Peer(d)
<1>1. /\ open[d] /\ UNCHANGED <<open, phase, sent, readVars, writing, left, flushed>>
      /\ wire' = [wire EXCEPT ![d] = Append(@, HandshakeOut(d))]
      /\ hsWrite[d] = "pending" /\ hsWrite'[d] = "written"
      /\ r \in Endpoint /\ r' = r
  BY PeerType DEF TransferValidation, appVars, Peer, Inductive, TypeOK
<1>2. HandshakeOut(d) = Validation
  <2>1. CASE d = "server"
    BY <2>1 DEF HandshakeOut
  <2>2. CASE d = "client"
    <3>1. reading["client"] = "none"
      BY <1>1, <2>2 DEF Inductive, Handshake
    <3>2. Listening("client") /\ ~Unread("client") /\ Peer("server") = "client"
      BY <1>1, <2>2, <3>1 DEF Listening, Unread, Born, Peer
    <3>3. word["client"] = Validation
      BY <3>1, <3>2 DEF Streams, Sound, Reader
    <3> QED
      BY <2>2, <3>3 DEF HandshakeOut
  <2> QED
    BY <2>1, <2>2 DEF Endpoint
<1>3. Validation \in Unit /\ Genuine(sent[d], Validation) /\ Place(Validation) = Start
      /\ After(sent[d], Validation) = <<1, 0>>
  BY DEF Validation, Unit, Genuine, Place, Start, After, Follows, SizeOf
<1>4. /\ Reader(r)' /\ NextRead(r)' = NextRead(r) /\ (Unread(r)' <=> Unread(r))
  BY <1>1, ReaderSame DEF Born, readVars, Sound
<1>5. (MayWrite(d)' <=> MayWrite(d)) /\ MayWrite(d)
  BY <1>1 DEF MayWrite, Born
<1>6. ~HasAnswered(d) /\ HasAnswered(d)'
  BY <1>1 DEF HasAnswered
<1>7. NextWritten(d) = <<1, 0>> /\ NextWritten(d)' = NextWritten(d) /\ NextOut(d) = Start
  BY <1>1, <1>5, <1>6 DEF Sound, OnTrack, NextWritten, NextOut
<1>8. NextOut(d)' = <<1, 0>>
  BY <1>6, <1>7 DEF NextOut
<1> QED
  BY <1>1, <1>2, <1>3, <1>4, <1>5, <1>6, <1>7, <1>8, WriteKeepsSound

\* A word received leaves the rest of the stream sound.
LEMMA ReceiveKeepsSound ==
  ASSUME Inductive, Queues, [Next]_vars, NEW d \in Endpoint, Receive(Peer(d)), Sound(d)
  PROVE  Sound(d)'
<1> DEFINE r == Peer(d)
<1>1. /\ UNCHANGED <<open, phase, sent, writeVars>>
      /\ Peer(r) = d /\ r \in Endpoint /\ r' = r
      /\ wire[d] # <<>> /\ wire[d] \in Seq(Unit)
      /\ wire'[d] = Tail(wire[d])
  BY PeerType DEF Receive, appVars, Peer, Endpoint, Inductive, TypeOK
<1> DEFINE u == Head(wire[d])
<1>2. Piece(sent[d], wire[d], NextRead(r))
  BY DEF Sound, OnTrack
<1>3. /\ Genuine(sent[d], u) /\ Place(u) = NextRead(r)
      /\ Piece(sent[d], Tail(wire[d]), After(sent[d], u))
      /\ Ending(sent[d], Tail(wire[d]), After(sent[d], u))
           = Ending(sent[d], wire[d], NextRead(r))
  BY <1>1, <1>2, PieceTail
<1>4. Reader(r)' /\ NextRead(r)' = After(sent[d], u)
  BY <1>1, <1>3, ReceiveReads DEF Sound
<1>5. /\ (MayWrite(d)' <=> MayWrite(d)) /\ (HasAnswered(d)' <=> HasAnswered(d))
      /\ NextWritten(d)' = NextWritten(d) /\ NextOut(d)' = NextOut(d)
  BY <1>1 DEF MayWrite, Born, HasAnswered, NextWritten, NextOut, writeVars
<1> QED
  BY <1>1, <1>3, <1>4, <1>5 DEF Sound, OnTrack

(***************************************************************************)
(* A sound stream stays sound as long as its peer listens, or is spoiled   *)
(* by a client that sends before it has answered.                          *)
(***************************************************************************)
LEMMA SoundNext ==
  ASSUME Inductive, Queues, Challenge, Streams, [Next]_vars, NEW d \in Endpoint,
         Sound(d), Listening(Peer(d))'
  PROVE  Sound(d)' \/ (d = "client" /\ Spoiled')
<1> DEFINE r == Peer(d)
<1>1. ASSUME NEW e \in Endpoint, Send(e)
      PROVE  Sound(d)'
  BY <1>1, SendKeepsSound
<1>2. CASE TransferMessage(d)
  BY <1>2, TransferKeepsSound
<1>3. CASE TransferValidation(d)
  BY <1>3, ValidationKeepsSound
<1>4. CASE Receive(r)
  BY <1>4, ReceiveKeepsSound
<1>5. CASE /\ \A e \in Endpoint : ~Send(e)
           /\ ~TransferMessage(d) /\ ~TransferValidation(d) /\ ~Receive(r)
  <2>1. sent' = sent
    BY <1>5, MessageSteps
  <2>2. r \in Endpoint /\ Peer(r) = d /\ r' = r
    BY PeerType DEF Peer, Endpoint
  <2>3. wire'[d] = wire[d]
    <3>1. ASSUME NEW e \in Endpoint, e # d, TransferMessage(e) \/ TransferValidation(e)
          PROVE  wire'[d] = wire[d]
      BY <3>1 DEF TransferMessage, TransferValidation, Inductive, TypeOK
    <3>2. ASSUME NEW e \in Endpoint, e # r, Receive(e)
          PROVE  wire'[d] = wire[d]
      <4>1. Peer(e) # d
        BY <3>2 DEF Peer, Endpoint
      <4> QED
        BY <3>2, <4>1 DEF Receive, Inductive, TypeOK
    <3> QED
      BY <1>5, <3>1, <3>2, WireSteps
  <2>4. Reader(r)' /\ NextRead(r)' = NextRead(r)
    BY <1>5, <2>1, <2>2, ReaderKept DEF Sound
  <2>5. MayWrite(d)' => /\ MayWrite(d)
                        /\ NextWritten(d)' = NextWritten(d)
                        /\ HasAnswered(d)' <=> HasAnswered(d)
    <3>1. CASE WriteFails(d)
      <4>1. ~open'[d] /\ phase' = phase /\ left[d] > 0
        BY <3>1 DEF WriteFails, CloseSocket, Inductive, TypeOK
      <4>2. Born(d)'
        BY <4>1 DEF Born, Inductive, ServerUnborn, Unborn, Writers, Writer
      <4> QED
        BY <4>1, <4>2 DEF MayWrite
    <3>2. CASE ~WriteFails(d)
      BY <1>5, <2>1, <3>2, MayWriteLess, NextWrittenKept, HasAnsweredKept
    <3> QED
      BY <3>1, <3>2
  <2> QED
    BY <2>1, <2>2, <2>3, <2>4, <2>5, OnTrackKept DEF Sound
<1> QED
  BY <1>1, <1>2, <1>3, <1>4, <1>5

\* A word, or a message, more at the end leaves the first one.
LEMMA HeadStays ==
  ASSUME NEW S, NEW s \in Seq(S), NEW x \in S, s # <<>>
  PROVE  Append(s, x) # <<>> /\ Head(Append(s, x)) = Head(s)
  OBVIOUS

\* A spoiled stream stays so until its reader gives up.
LEMMA SpoiledNext ==
  ASSUME Inductive, Queues, [Next]_vars, Spoiled, Listening("server")'
  PROVE  Spoiled'
<1> DEFINE w == wire["client"]
           header == HeaderOf(Head(sent["client"]))
<1>a. /\ sent \in [Endpoint -> Seq(Message)]
      /\ wire \in [Endpoint -> Seq(Unit)]
      /\ reading \in [Endpoint -> Readings]
      /\ need \in [Endpoint -> Nat]
      /\ word \in [Endpoint -> Unit]
      /\ TypeOK /\ ServerUnborn /\ Handshake
  BY DEF Inductive, TypeOK
<1>b. sent["client"] # <<>> /\ sent'["client"] # <<>> /\ header' = header
  <2>1. sent["client"] # <<>>
    BY DEF Spoiled
  <2>2. sent'["client"] = sent["client"] \/ \E m \in Message : sent'["client"] = Append(sent["client"], m)
    <3>1. ASSUME NEW e \in Endpoint, Send(e)
          PROVE  \E m \in Message : sent'["client"] \in {sent["client"], Append(sent["client"], m)}
      <4>1. PICK n \in Sizes :
              sent' = [sent EXCEPT ![e] = Append(@, [id |-> Len(sent[e]) + 1, size |-> n])]
        BY <3>1 DEF Send
      <4>2. [id |-> Len(sent[e]) + 1, size |-> n] \in Message
        BY <1>a DEF Message
      <4> QED
        BY <1>a, <4>1, <4>2
    <3> QED
      BY <3>1, MessageSteps
  <2>3. sent'["client"] # <<>> /\ Head(sent'["client"]) = Head(sent["client"])
    <3>1. sent["client"] \in Seq(Message)
      BY <1>a
    <3>2. ASSUME NEW m \in Message, sent'["client"] = Append(sent["client"], m)
          PROVE  sent'["client"] # <<>> /\ Head(sent'["client"]) = Head(sent["client"])
      <4>1. Append(sent["client"], m) # <<>> /\
            Head(Append(sent["client"], m)) = Head(sent["client"])
        BY <2>1, <3>1, HeadStays
      <4> QED
        BY <3>2, <4>1
    <3> QED
      BY <2>1, <2>2, <3>2
  <2> QED
    BY <2>1, <2>3
<1>c. header # Validation
  <2>1. 1 \in 1 .. Len(sent["client"]) /\ Head(sent["client"]) = sent["client"][1]
    BY <1>a, <1>b, TailByIndex
  <2>2. header = [msg |-> 1, pos |-> 0, size |-> sent["client"][1].size]
    BY <2>1, SentByNumber
  <2> QED
    BY <2>2 DEF Validation
<1>d. reading["server"] # "none" => Born("server")
  BY <1>a DEF Born, ServerUnborn, Unborn
<1>e. reading["server"] \notin {"header", "body"}
  BY <1>d DEF Spoiled, Unread
<1> HIDE DEF header
<1>1. CASE /\ w' = w \/ (w # <<>> /\ w' # <<>> /\ Head(w') = Head(w))
           /\ reading'["server"] = reading["server"] /\ need'["server"] = need["server"]
           /\ word'["server"] = word["server"] /\ ~Accept
  <2>1. Unread("server")' <=> Unread("server")
    BY <1>1, BornStays DEF Unread
  <2> QED
    BY <1>1, <1>b, <2>1 DEF Spoiled, header
<1>2. CASE Accept
  <2>1. Unread("server") /\ Unread("server")' /\ w' = w
    BY <1>2, <1>a DEF Accept, StartRead, Unread, Born
  <2> QED
    BY <1>b, <2>1 DEF Spoiled, header
<1>3. ASSUME NEW e \in Endpoint, TransferMessage(e) \/ TransferValidation(e)
      PROVE  Spoiled'
  <2>1. UNCHANGED readVars /\ ~Accept
    BY <1>3 DEF TransferMessage, TransferValidation, UnitsLeft, readVars, Accept, Linked
  <2>2. w' = w \/ \E u \in Unit : w' = Append(w, u)
    <3>1. e \in {"client", "server"}
      BY DEF Endpoint
    <3>2. CASE TransferMessage(e)
      <4>1. MessageUnit(e) \in Unit
        BY <3>2, MessageUnitType DEF TransferMessage, UnitsLeft, Inductive
      <4> QED
        BY <1>a, <3>2, <4>1 DEF TransferMessage
    <3>3. CASE TransferValidation(e)
      <4>1. HandshakeOut(e) \in Unit
        BY <1>a DEF HandshakeOut, Validation, Unit
      <4> QED
        BY <1>a, <3>3, <4>1 DEF TransferValidation
    <3> QED
      BY <1>3, <3>2, <3>3
  <2>3. w' = w \/ (w # <<>> => w' # <<>> /\ Head(w') = Head(w))
    <3>1. w \in Seq(Unit)
      BY <1>a
    <3>2. ASSUME NEW u \in Unit, w' = Append(w, u), w # <<>>
          PROVE  w' # <<>> /\ Head(w') = Head(w)
      <4>1. Append(w, u) # <<>> /\ Head(Append(w, u)) = Head(w)
        BY <3>1, <3>2, HeadStays
      <4> QED
        BY <3>2, <4>1
    <3> QED
      BY <2>2, <3>2
  <2>4. ~Unread("server") => ~Unread("server")'
    BY <1>3, <2>1 DEF Unread, Born, readVars, TransferMessage, TransferValidation
  <2>5. Unread("server") => Unread("server")'
    BY <1>3, <2>1 DEF Unread, Born, readVars, TransferMessage, TransferValidation
  <2> QED
    BY <1>b, <2>1, <2>3, <2>4, <2>5 DEF Spoiled, header, readVars
<1>4. CASE Receive("server")
  <2>1. /\ need["server"] > 0 /\ need'["server"] = need["server"] - 1
        /\ reading' = reading /\ phase' = phase
    BY <1>4, <1>a DEF Receive
  <2>2. reading["server"] # "none"
    BY <1>a, <2>1 DEF Handshake
  <2>3. Unread("server")
    BY <2>1 DEF Spoiled
  <2>4. reading["server"] \notin {"connect", "none"}
    <3>1. need["server"] # 0
      BY <2>1
    <3> QED
      BY <1>a, <3>1, Zenon DEF Handshake
  <2>5. Born("server") /\ reading["server"] = "validation" /\ need["server"] = 1
    BY <1>d, <2>2, <2>3, <2>4 DEF Unread
  <2>6. Head(w) = header
    BY <2>3 DEF Spoiled, header
  <2>7. word'["server"] = header
    BY <1>4, <1>a, <2>5, <2>6 DEF Receive, Peer
  <2>8. need'["server"] = 0 /\ ~Unread("server")'
    BY <2>1, <2>5 DEF Unread, Born
  <2> QED
    BY <1>b, <2>1, <2>5, <2>7, <2>8 DEF Spoiled, header
<1>5. CASE Receive("client")
  <2>1. /\ wire'["client"] = wire["client"]
        /\ reading'["server"] = reading["server"] /\ need'["server"] = need["server"]
        /\ word'["server"] = word["server"]
    BY <1>5, <1>a DEF Receive, Peer
  <2>2. ~Accept
    BY <1>5 DEF Receive, Accept
  <2> QED
    BY <1>1, <2>1, <2>2
<1>6. CASE AnswerRead
  <2>1. reading["server"] = "validation" /\ need["server"] = 0 /\ phase' = phase
    BY <1>6 DEF AnswerRead
  <2>2. Born("server") /\ Born("server")'
    BY <1>d, <2>1 DEF Born
  <2>3. word["server"] = header
    BY <2>1, <2>2 DEF Spoiled, Unread, header
  <2>4. reading'["server"] = "none"
    BY <1>6, <1>a, <1>c, <2>3 DEF AnswerRead, RightAnswer, StartRead
  <2> QED
    BY <2>2, <2>4 DEF Listening
<1>7. CASE ReadFails("server")
  <2>1. reading'["server"] = "none" /\ need["server"] > 0 /\ phase' = phase
    BY <1>7, <1>a DEF ReadFails, StartRead
  <2>2. reading["server"] # "none"
    BY <1>a, <2>1 DEF Handshake
  <2> QED
    BY <1>d, <2>1, <2>2 DEF Listening, Born
<1>8. CASE HandshakeStep("server") /\ ~TransferValidation("server")
  <2>1. UNCHANGED <<wire, readVars, phase>>
    BY <1>8 DEF HandshakeStep, ValidationHandlers, ValidationWritten,
       ReadsAfterValidation,
       ValidationWriteFails, readVars
  <2>2. (Unread("server")' <=> Unread("server"))
    BY <2>1 DEF Unread, Born, readVars
  <2> QED
    BY <1>b, <2>1, <2>2 DEF Spoiled, header, readVars
<1>9. CASE ~Accept /\ UNCHANGED wire /\ (ReaderStep("client") \/ HandshakeStep("client"))
  BY <1>1, <1>9, <1>a, OtherReader
<1>10. CASE ~Accept /\ UNCHANGED <<wire, readVars, hsWrite>>
  BY <1>1, <1>10 DEF readVars
<1>11. CASE UNCHANGED wire /\ (ReaderStep("server") \/ HandshakeStep("server"))
  BY <1>3, <1>4, <1>6, <1>7, <1>8, <1>11, <1>e DEF ReaderStep, ReadHandlers,
     HeaderRead, BodyRead
<1> QED
  BY <1>2, <1>3, <1>4, <1>5, <1>9, <1>10, <1>11, WireSteps, ReaderSteps DEF Endpoint

\* Every step keeps each stream sound, or spoils it.
LEMMA StreamsNext ==
  ASSUME Inductive, Queues, Challenge, Streams, [Next]_vars
  PROVE  Streams'
<1>1. Peer("client") = "server" /\ Peer("server") = "client"
  BY DEF Peer
<1>2. ASSUME Listening("client")'
      PROVE  Sound("server")'
  <2>1. Sound("server")
    BY <1>2, ListeningLess DEF Streams
  <2> QED
    BY <1>1, <1>2, <2>1, SoundNext
<1>3. ASSUME Listening("server")'
      PROVE  Sound("client")' \/ Spoiled'
  <2>1. Sound("client") \/ Spoiled
    BY <1>3, ListeningLess DEF Streams
  <2> QED
    BY <1>1, <1>3, <2>1, SoundNext, SpoiledNext
<1> QED
  BY <1>2, <1>3 DEF Streams

StreamInv == Inductive /\ Queues /\ Challenge /\ Streams

\* Nothing is on the wire at first.
LEMMA StreamInit == Init => Challenge /\ Streams
<1> SUFFICES ASSUME Init
             PROVE  Challenge /\ Streams
  OBVIOUS
<1>1. Challenge
  BY DEF Init, Challenge
<1>2. ASSUME NEW e \in Endpoint
      PROVE  Sound(e)
  <2>1. Peer(e) \in Endpoint /\ Unread(Peer(e))
    BY PeerType DEF Init, Unread, Born, Endpoint
  <2>2. NextRead(Peer(e)) = Start
    BY <2>1 DEF NextRead
  <2>3. Reader(Peer(e))
    BY <2>1 DEF Init, Reader
  <2>4. ~HasAnswered(e) /\ NextWritten(e) = <<1, 0>> /\ wire[e] = <<>>
    BY DEF Init, HasAnswered, NextWritten
  <2>5. Piece(sent[e], wire[e], Start) /\ Ending(sent[e], wire[e], Start) = Start
    BY <2>4 DEF Piece, Ending
  <2> QED
    BY <2>2, <2>3, <2>4, <2>5 DEF Sound, OnTrack, NextOut
<1> QED
  BY <1>1, <1>2 DEF Streams

(***************************************************************************)
(* Whatever the two ends, their contexts, the timer and the network do,    *)
(* the words on the wire are those the reader expects next, up to those    *)
(* the writer writes next, for any number of messages of any sizes.        *)
(***************************************************************************)
THEOREM StreamsCorrect == Spec => []StreamInv
<1>1. Init => Challenge /\ Streams
  BY StreamInit
<1>2. Inductive /\ Queues /\ Challenge /\ Streams /\ [Next]_vars => Challenge' /\ Streams'
  BY ChallengeNext, StreamsNext
<1> QED
  BY <1>1, <1>2, QueuesCorrect, PTL DEF Spec, StreamInv
--------------------------------------------------------------------------------
\* What an end that reads messages has read, of a stream that is sound.
LEMMA ReadsSoundly ==
  ASSUME StreamInv, NEW e \in Endpoint,
         (reading[e] = "header" /\ need[e] = 0) \/ reading[e] = "body"
  PROVE  LET m == Len(incoming[e]) + 1
         IN  /\ Reader(e)
             /\ m \in 1 .. Len(sent[Peer(e)])
             /\ word[e] = [msg |-> m, pos |-> 0, size |-> sent[Peer(e)][m].size]
             /\ reading[e] = "body" =>
                  \A i \in 1 .. Len(tempBody[e]) : tempBody[e][i] = m
<1> DEFINE m == Len(incoming[e]) + 1
<1>1. Listening(e) /\ Born(e) /\ (e = "server" => ~Spoiled)
  BY DEF Listening, Born, Spoiled, Unread, StreamInv, Inductive, ServerUnborn, Unborn
<1>2. Reader(e)
  <2>1. /\ e = "client" => Sound("server") /\ Peer("server") = e
        /\ e = "server" => Sound("client") /\ Peer("client") = e
    BY <1>1 DEF StreamInv, Streams, Peer
  <2> QED
    BY <2>1 DEF Sound, Endpoint
<1>3. /\ m \in 1 .. Len(sent[Peer(e)]) /\ word[e] = HeaderOf(sent[Peer(e)][m])
      /\ reading[e] = "body" => \A i \in 1 .. Len(tempBody[e]) : tempBody[e][i] = m
  BY <1>2 DEF Reader
<1>4. HeaderOf(sent[Peer(e)][m]) = [msg |-> m, pos |-> 0, size |-> sent[Peer(e)][m].size]
  BY <1>3, PeerType, SentByNumber DEF StreamInv
<1> QED
  BY <1>2, <1>3, <1>4

(***************************************************************************)
(* Frames: a word read as a header is one, and the words read as a body    *)
(* are those of its message, whatever was sent and however it was cut.     *)
(***************************************************************************)
THEOREM FramesAligned == Spec => []Aligned
<1>1. ASSUME StreamInv
      PROVE  Aligned
  <2> SUFFICES ASSUME NEW e \in Endpoint
               PROVE  /\ reading[e] = "header" /\ need[e] = 0 =>
                           word[e].msg > 0 /\ word[e].pos = 0
                      /\ reading[e] = "body" =>
                           \A i \in DOMAIN tempBody[e] : tempBody[e][i] = word[e].msg
    BY DEF Aligned
  <2>1. DOMAIN tempBody[e] = 1 .. Len(tempBody[e]) /\ Len(incoming[e]) + 1 > 0
    <3>1. tempBody[e] \in Seq(Nat) /\
          incoming[e] \in Seq([id : Nat, size : Nat, body : Seq(Nat)])
      BY <1>1 DEF StreamInv, Inductive, TypeOK
    <3> QED
      BY <3>1
  <2> DEFINE m == Len(incoming[e]) + 1
  <2>2. CASE reading[e] = "header" /\ need[e] = 0
    <3>1. word[e] = [msg |-> m, pos |-> 0, size |-> sent[Peer(e)][m].size]
      BY <1>1, <2>2, ReadsSoundly
    <3>2. word[e].msg = m /\ word[e].pos = 0
      BY <3>1
    <3> QED
      BY <2>1, <2>2, <3>2
  <2>3. CASE reading[e] = "body"
    <3>1. /\ word[e] = [msg |-> m, pos |-> 0, size |-> sent[Peer(e)][m].size]
          /\ \A i \in 1 .. Len(tempBody[e]) : tempBody[e][i] = m
      BY <1>1, <2>3, ReadsSoundly
    <3>2. word[e].msg = m
      BY <3>1
    <3> QED
      BY <2>1, <2>3, <3>1, <3>2
  <2> QED
    BY <2>2, <2>3
<1> QED
  BY <1>1, StreamsCorrect, PTL

(***************************************************************************)
(* After a rejection the server reads nothing any more: the word it took   *)
(* for an answer stays in handshakeIn_.                                    *)
(***************************************************************************)
Rejection ==
  verdict = "rejected" =>
    /\ Born("server") /\ reading["server"] = "none"
    /\ sent["client"] # <<>>
    /\ word["server"] = HeaderOf(Head(sent["client"]))

\* Every step keeps the reason of a rejection.
LEMMA RejectionNext ==
  ASSUME StreamInv, Rejection, [Next]_vars
  PROVE  Rejection'
<1> SUFFICES ASSUME verdict' = "rejected"
             PROVE  Rejection'
  BY DEF Rejection
<1>a. /\ sent \in [Endpoint -> Seq(Message)]
      /\ reading \in [Endpoint -> Readings]
      /\ need \in [Endpoint -> Nat]
      /\ word \in [Endpoint -> Unit]
      /\ TypeOK /\ Handshake /\ ServerUnborn /\ Streams
  BY DEF StreamInv, Inductive, TypeOK
<1>1. CASE AnswerRead
  <2>1. reading["server"] = "validation" /\ need["server"] = 0 /\ phase' = phase /\
        sent' = sent /\ word' = word
    BY <1>1 DEF AnswerRead, appVars
  <2>2. Born("server") /\ Born("server")' /\ Listening("server") /\ ~Unread("server")
    BY <1>a, <2>1 DEF Born, Listening, Unread, ServerUnborn, Unborn
  <2>3. word["server"] # Validation /\ reading'["server"] = "none"
    BY <1>1, <1>a DEF AnswerRead, RightAnswer, StartRead
  <2>4. ~Sound("client")
    BY <2>1, <2>2, <2>3 DEF Sound, Reader, Peer
  <2>5. Spoiled
    BY <1>a, <2>2, <2>4 DEF Streams
  <2> QED
    BY <2>1, <2>2, <2>3, <2>5 DEF Spoiled, Rejection
<1>2. CASE ~AnswerRead
  <2>1. verdict = "rejected"
    <3>1. CASE Accept
      BY <3>1 DEF Accept
    <3>2. ASSUME NEW e \in Endpoint, ReaderStep(e) \/ HandshakeStep(e)
          PROVE  verdict' = verdict
      BY <1>2, <3>2 DEF ReaderStep, ReadHandlers, Receive, Connected, ConnectFails,
         ChallengeRead, HeaderRead, BodyRead, ReadFails, HandshakeStep, ValidationHandlers,
         TransferValidation, ValidationWritten, ValidationWriteFails, readVars
    <3> QED
      BY <3>1, <3>2, ReaderSteps DEF readVars
  <2>2. /\ Born("server") /\ reading["server"] = "none" /\ sent["client"] # <<>>
        /\ word["server"] = HeaderOf(Head(sent["client"]))
        /\ need["server"] = 0
    BY <1>a, <2>1 DEF Rejection, Handshake
  <2>3. ~Accept /\ Born("server")'
    <3>1. ~Accept
      BY <2>2 DEF Accept, Born
    <3> QED
      BY <2>2, <3>1, BornStays
  <2>4. reading'["server"] = "none" /\ word'["server"] = word["server"]
    <3>1. CASE ReaderStep("server")
      BY <1>a, <1>2, <2>2, <3>1 DEF ReaderStep, ReadHandlers, Receive, HeaderRead,
         BodyRead, ReadFails
    <3>2. CASE HandshakeStep("server")
      BY <2>2, <3>2 DEF HandshakeStep, ValidationHandlers, TransferValidation,
         ValidationWritten, ReadsAfterValidation, ValidationWriteFails, readVars
    <3>3. CASE ReaderStep("client") \/ HandshakeStep("client")
      BY <1>a, <2>2, <3>3, OtherReader
    <3>4. CASE UNCHANGED readVars
      BY <2>2, <3>4 DEF readVars
    <3> QED
      BY <2>3, <3>1, <3>2, <3>3, <3>4, ReaderSteps DEF Endpoint
  <2>5. sent'["client"] # <<>> /\ Head(sent'["client"]) = Head(sent["client"])
    <3>1. ASSUME NEW e \in Endpoint, Send(e)
          PROVE  sent'["client"] # <<>> /\ Head(sent'["client"]) = Head(sent["client"])
      <4>1. PICK n \in Sizes :
              sent' = [sent EXCEPT ![e] = Append(@, [id |-> Len(sent[e]) + 1, size |-> n])]
        BY <3>1 DEF Send
      <4>2. [id |-> Len(sent[e]) + 1, size |-> n] \in Message
        BY <1>a DEF Message
      <4>3. CASE e = "client"
        <5> DEFINE m == [id |-> Len(sent[e]) + 1, size |-> n]
        <5>1. sent'["client"] = Append(sent["client"], m)
          BY <1>a, <4>1, <4>3
        <5>2. sent["client"] \in Seq(Message) /\ m \in Message
          BY <1>a, <4>2
        <5> HIDE DEF m
        <5>3. Append(sent["client"], m) # <<>> /\
              Head(Append(sent["client"], m)) = Head(sent["client"])
          BY <2>2, <5>2, HeadStays
        <5> QED
          BY <5>1, <5>3
      <4>4. CASE e # "client"
        BY <1>a, <2>2, <4>1, <4>4
      <4> QED
        BY <4>3, <4>4
    <3> QED
      BY <2>2, <3>1, MessageSteps
  <2> QED
    BY <2>2, <2>3, <2>4, <2>5 DEF Rejection
<1> QED
  BY <1>1, <1>2

(***************************************************************************)
(* ReadValidation rejects nobody but a client that sent a message before   *)
(* it had answered, and takes that message's header for its answer.        *)
(***************************************************************************)
THEOREM RejectsEarlySendersOnly == Spec => []OnlyEarlySendersRejected
<1>1. Init => Rejection
  BY DEF Init, Rejection
<1>2. StreamInv /\ Rejection /\ [Next]_vars => Rejection'
  BY RejectionNext
<1>3. Rejection => OnlyEarlySendersRejected
  BY DEF Rejection, OnlyEarlySendersRejected
<1> QED
  BY <1>1, <1>2, <1>3, StreamsCorrect, PTL DEF Spec
--------------------------------------------------------------------------------
(***************************************************************************)
(* Each direction of a connection implements the FIFO channel: Send puts a *)
(* message, ReadHeader of a message without body and ReadBody get it, and  *)
(* whatever closes a socket or stops the client's context closes it.       *)
(***************************************************************************)
Incoming == [id : Nat, size : Nat, body : Seq(Nat)]
Header == [id : Nat, size : Nat]
HeaderIn(x) == [id |-> x.id, size |-> x.size]

\* The messages of a sequence, without their bodies.
LEMMA HeadersByIndex ==
  ASSUME NEW s \in Seq(Incoming)
  PROVE  /\ Headers(s) \in Seq(Header) /\ Len(Headers(s)) = Len(s)
         /\ \A i \in 1 .. Len(s) : Headers(s)[i] = HeaderIn(s[i])
<1>1. DOMAIN s = 1 .. Len(s) /\ Len(s) \in Nat /\ \A i \in 1 .. Len(s) : s[i] \in Incoming
  OBVIOUS
<1>2. \A i \in 1 .. Len(s) : HeaderIn(s[i]) \in Header
  BY <1>1 DEF HeaderIn, Incoming, Header
<1>3. Headers(s) = [i \in 1 .. Len(s) |-> HeaderIn(s[i])]
  BY <1>1 DEF Headers, HeaderIn
<1>4. Headers(s) \in [1 .. Len(s) -> Header]
  BY <1>2, <1>3
<1>5. Headers(s) \in Seq(Header) /\ Len(Headers(s)) = Len(s)
  BY <1>1, <1>4
<1> QED
  BY <1>3, <1>5

\* The same for one message more.
LEMMA HeadersAppend ==
  ASSUME NEW s \in Seq(Incoming), NEW x \in Incoming
  PROVE  Headers(Append(s, x)) = Append(Headers(s), HeaderIn(x))
<1> DEFINE a == Headers(Append(s, x))
           b == Append(Headers(s), HeaderIn(x))
<1>1. HeaderIn(x) \in Header
  BY DEF HeaderIn, Incoming, Header
<1>2. /\ Append(s, x) \in Seq(Incoming) /\ Len(Append(s, x)) = Len(s) + 1
      /\ \A i \in 1 .. Len(s) + 1 : Append(s, x)[i] = IF i <= Len(s) THEN s[i] ELSE x
      /\ Len(s) \in Nat
  OBVIOUS
<1>3. /\ a \in Seq(Header) /\ Len(a) = Len(s) + 1
      /\ \A i \in 1 .. Len(s) + 1 : a[i] = HeaderIn(IF i <= Len(s) THEN s[i] ELSE x)
  BY <1>2, HeadersByIndex
<1>4. /\ Headers(s) \in Seq(Header) /\ Len(Headers(s)) = Len(s)
      /\ \A i \in 1 .. Len(s) : Headers(s)[i] = HeaderIn(s[i])
  BY HeadersByIndex
<1> HIDE DEF a
<1>5. /\ b \in Seq(Header) /\ Len(b) = Len(s) + 1
      /\ \A i \in 1 .. Len(s) + 1 : b[i] = IF i <= Len(s) THEN Headers(s)[i] ELSE HeaderIn(x)
  BY <1>1, <1>4
<1> HIDE DEF b
<1>6. \A i \in 1 .. Len(s) + 1 : a[i] = b[i]
  <2> SUFFICES ASSUME NEW i \in 1 .. Len(s) + 1
               PROVE  a[i] = b[i]
    OBVIOUS
  <2>1. CASE i <= Len(s)
    BY <1>2, <1>3, <1>4, <1>5, <2>1
  <2>2. CASE ~(i <= Len(s))
    BY <1>2, <1>3, <1>5, <2>2
  <2> QED
    BY <2>1, <2>2
<1>7. a = b
  BY <1>3, <1>5, <1>6, SeqEqual
<1> QED
  BY <1>7 DEF a, b

\* How the channel of a direction is closed.
LEMMA LifeSteps ==
  ASSUME [Next]_vars
  PROVE  life' = life \/ Disconnect \/ Stop
<1>1. CASE Application \/ Network \/ TimerFires \/ UNCHANGED vars
  BY <1>1 DEF Application, Send, DisconnectClient, Network, Establish, Accept, Deny,
     TimerFires, vars, appVars
<1>2. ASSUME NEW e \in Endpoint, Context(e)
      PROVE  life' = life
  BY <1>2 DEF Context, RunPosted, WriteHandlers, TransferMessage, HeaderWritten,
     BodyWritten, ValidationHandlers, TransferValidation, ValidationWritten, ReadHandlers,
     Receive, Connected, ConnectFails, ChallengeRead, AnswerRead, HeaderRead, BodyRead,
     WriteFails, ValidationWriteFails, ReadFails, appVars
<1> QED
  BY <1>1, <1>2 DEF Next

\* A channel that was closed stays closed.
LEMMA ClosedStays ==
  ASSUME TypeOK, [Next]_vars, ChannelClosed
  PROVE  ChannelClosed'
<1>1. CASE life = "stopped"
  BY <1>1, LifeSteps DEF Disconnect, Stop, ChannelClosed
<1>2. CASE ~open["client"]
  <2>1. CASE Accept
    BY <1>2, <2>1 DEF Accept, TypeOK, ChannelClosed, SocketClosed
  <2>2. CASE ~Accept
    BY <1>2, <2>2, OnlyAcceptOpens DEF ChannelClosed, SocketClosed
  <2> QED
    BY <2>1, <2>2
<1>3. CASE phase \notin {"connecting", "backlog"} /\ ~open["server"]
  <2>1. ~Accept /\ phase' = phase
    BY <1>3, PhaseSteps DEF Accept, Establish, Deny
  <2> QED
    BY <1>3, <2>1, OnlyAcceptOpens DEF ChannelClosed, SocketClosed
<1> QED
  BY <1>1, <1>2, <1>3 DEF ChannelClosed, SocketClosed

\* Who touches the incoming queue.
LEMMA IncomingSteps ==
  ASSUME TypeOK, [Next]_vars, NEW d \in Endpoint
  PROVE  incoming'[d] = incoming[d] \/ HeaderRead(d) \/ BodyRead(d)
<1>1. CASE Accept
  BY <1>1 DEF Accept
<1>2. ASSUME NEW e \in Endpoint, ReaderStep(e) \/ HandshakeStep(e), e # d
      PROVE  incoming'[d] = incoming[d]
  BY <1>2, OtherReader
<1>3. CASE ReaderStep(d) \/ HandshakeStep(d)
  BY <1>3 DEF ReaderStep, ReadHandlers, Receive, Connected, ConnectFails, ChallengeRead,
     AnswerRead, ReadFails, HandshakeStep, ValidationHandlers, TransferValidation,
     ValidationWritten, ValidationWriteFails, readVars
<1> QED
  BY <1>1, <1>2, <1>3, ReaderSteps DEF readVars

(***************************************************************************)
(* A message that comes out of an end's incoming queue is the next one the *)
(* other end sent.                                                         *)
(***************************************************************************)
LEMMA GetsNext ==
  ASSUME StreamInv, NEW d \in Endpoint, HeaderRead(d) \/ BodyRead(d)
  PROVE  LET s == sent[Peer(d)]
             m == Len(Headers(incoming[d])) + 1
         IN  \/ incoming'[d] = incoming[d]
             \/ /\ Len(Headers(incoming[d])) < Len(s)
                /\ Headers(incoming'[d]) = Append(Headers(incoming[d]), s[m])
<1> DEFINE s == sent[Peer(d)]
           m == Len(incoming[d]) + 1
<1>a. /\ incoming \in [Endpoint -> Seq(Incoming)] /\ tempBody[d] \in Seq(Nat)
      /\ incoming[d] \in Seq(Incoming)
  BY DEF StreamInv, Inductive, TypeOK, Incoming
<1>1. /\ m \in 1 .. Len(s)
      /\ word[d] = [msg |-> m, pos |-> 0, size |-> s[m].size]
  BY ReadsSoundly DEF HeaderRead, BodyRead
<1>2. word[d].msg = m /\ word[d].pos = 0 /\ word[d].size = s[m].size /\ m \in Nat /\ m > 0
  BY <1>1
<1>3. s[m] = [id |-> m, size |-> s[m].size] /\ s[m].size \in Nat
  <2>1. s[m] \in Message /\ s[m].id = m /\ s[m].size \in Nat
    BY <1>1, PeerType, SentByNumber DEF StreamInv
  <2> QED
    BY <2>1 DEF Message
<1>4. Len(Headers(incoming[d])) = Len(incoming[d]) /\ Len(incoming[d]) \in Nat
  BY <1>a, HeadersByIndex
<1>5. incoming'[d] = incoming[d] \/ AddToIncoming(d, s[m].size)
  <2>1. CASE HeaderRead(d)
    <3>1. SizesIn(word[d]) = {s[m].size}
      BY <1>2 DEF SizesIn
    <3> QED
      BY <2>1, <3>1 DEF HeaderRead
  <2>2. CASE BodyRead(d)
    BY <1>2, <2>2 DEF BodyRead
  <2> QED
    BY <2>1, <2>2
<1>6. CASE AddToIncoming(d, s[m].size)
  <2> DEFINE x == [id |-> m, size |-> s[m].size, body |-> tempBody[d]]
  <2>1. x \in Incoming /\ HeaderIn(x) = [id |-> m, size |-> s[m].size]
    BY <1>a, <1>2, <1>3 DEF Incoming, HeaderIn
  <2>2. incoming'[d] = Append(incoming[d], x)
    BY <1>a, <1>2, <1>6 DEF AddToIncoming
  <2> HIDE DEF x
  <2>3. Headers(incoming'[d]) = Append(Headers(incoming[d]), HeaderIn(x))
    BY <1>a, <2>1, <2>2, HeadersAppend
  <2>4. HeaderIn(x) = s[m]
    BY <1>3, <2>1
  <2>5. Len(incoming[d]) < Len(s)
    <3>1. Len(s) \in Nat
      BY PeerType DEF StreamInv, Inductive, TypeOK
    <3> QED
      BY <1>1, <1>4, <3>1
  <2> QED
    BY <1>4, <2>3, <2>4, <2>5
<1> QED
  BY <1>5, <1>6

(***************************************************************************)
(* What a step of the connection does to one of its directions.            *)
(***************************************************************************)
Sendable == [id : 1 .. MaxSends, size : Sizes]

\* Every step is one of the channel of a direction, or a stutter.
LEMMA DirectionStep ==
  ASSUME StreamInv, [Next]_vars, NEW e \in Endpoint
  PROVE  \/ /\ \E m \in Sendable : sent'[e] = Append(sent[e], m)
            /\ Received(e)' = Received(e) /\ ChannelClosed' = ChannelClosed
         \/ /\ Len(Received(e)) < Len(sent[e])
            /\ Received(e)' = Append(Received(e), sent[e][Len(Received(e)) + 1])
            /\ sent'[e] = sent[e] /\ ChannelClosed' = ChannelClosed
         \/ /\ sent'[e] = sent[e] /\ Received(e)' = Received(e)
            /\ ChannelClosed' = TRUE \/ ChannelClosed' = ChannelClosed
<1> DEFINE r == Peer(e)
<1>a. /\ sent \in [Endpoint -> Seq(Message)] /\ TypeOK
      /\ r \in Endpoint /\ Peer(r) = e /\ r' = r
  BY PeerType DEF StreamInv, Inductive, TypeOK, Peer, Endpoint
<1>1. ASSUME NEW d \in Endpoint, Send(d)
      PROVE  /\ ChannelClosed' = ChannelClosed /\ Received(e)' = Received(e)
             /\ sent'[e] = sent[e] \/ \E m \in Sendable : sent'[e] = Append(sent[e], m)
  <2>1. UNCHANGED <<open, phase, life, incoming>>
    BY <1>1 DEF Send, readVars
  <2>2. PICK n \in Sizes :
          sent' = [sent EXCEPT ![d] = Append(@, [id |-> Len(sent[d]) + 1, size |-> n])]
    BY <1>1 DEF Send
  <2>3. [id |-> Len(sent[d]) + 1, size |-> n] \in Sendable
    <3>1. Len(sent["client"]) + Len(sent["server"]) < MaxSends
      BY <1>1 DEF Send
    <3>2. /\ Len(sent["client"]) \in Nat /\ Len(sent["server"]) \in Nat
          /\ d = "client" \/ d = "server"
      BY <1>a DEF Endpoint
    <3> DEFINE a == Len(sent["client"])
               b == Len(sent["server"])
    <3>4. a < MaxSends /\ b < MaxSends
      <4> HIDE DEF a, b
      <4>1. a \in Nat /\ b \in Nat /\ a + b < MaxSends
        BY <3>1, <3>2 DEF a, b
      <4> QED
        BY <4>1
    <3>3. Len(sent[d]) \in Nat /\ Len(sent[d]) < MaxSends
      BY <3>2, <3>4
    <3> QED
      BY <3>3 DEF Sendable
  <2>4. sent'[e] = sent[e] \/ \E m \in Sendable : sent'[e] = Append(sent[e], m)
    <3>1. CASE e = d
      BY <1>a, <2>2, <2>3, <3>1
    <3>2. CASE e # d
      BY <1>a, <2>2, <3>2
    <3> QED
      BY <3>1, <3>2
  <2>5. Received(e)' = Received(e)
    BY <1>a, <2>1 DEF Received, Headers
  <2>6. ChannelClosed' = ChannelClosed
    BY <2>1 DEF ChannelClosed, SocketClosed
  <2> QED
    BY <2>4, <2>5, <2>6
<1>2. CASE HeaderRead(r) \/ BodyRead(r)
  <2>1. UNCHANGED <<open, phase, life, sent>>
    BY <1>2 DEF HeaderRead, BodyRead, appVars
  <2>2. ChannelClosed' = ChannelClosed
    BY <2>1 DEF ChannelClosed, SocketClosed
  <2>3. Received(e) = Headers(incoming[r]) /\ Received(e)' = Headers(incoming'[r])
    BY <1>a DEF Received, Headers
  <2>4. \/ incoming'[r] = incoming[r]
        \/ /\ Len(Headers(incoming[r])) < Len(sent[e])
           /\ Headers(incoming'[r]) =
                Append(Headers(incoming[r]), sent[e][Len(Headers(incoming[r])) + 1])
    BY <1>2, <1>a, GetsNext
  <2> QED
    BY <2>1, <2>2, <2>3, <2>4
<1>3. CASE (\A d \in Endpoint : ~Send(d)) /\ ~HeaderRead(r) /\ ~BodyRead(r)
  <2>1. sent' = sent
    BY <1>3, MessageSteps
  <2>2. incoming'[r] = incoming[r]
    BY <1>3, <1>a, IncomingSteps
  <2>3. Received(e)' = Received(e)
    BY <1>a, <2>2 DEF Received, Headers
  <2>4. ChannelClosed => ChannelClosed'
    BY <1>a, ClosedStays
  <2>5. ChannelClosed \in BOOLEAN /\ ChannelClosed' \in BOOLEAN
    BY DEF ChannelClosed
  <2>6. ChannelClosed' = TRUE \/ ChannelClosed' = ChannelClosed
    BY <2>4, <2>5
  <2> QED
    BY <2>1, <2>3, <2>6
<1> QED
  BY <1>1, <1>2, <1>3

\* The channel of a direction starts empty.
LEMMA DirectionInit ==
  ASSUME Init, NEW e \in Endpoint
  PROVE  sent[e] = <<>> /\ Received(e) = <<>> /\ ChannelClosed = FALSE
<1>1. sent[e] = <<>> /\ incoming[Peer(e)] = <<>> /\ ChannelClosed = FALSE
  BY PeerType DEF Init, ChannelClosed, SocketClosed
<1>2. Headers(<<>>) = <<>>
  <2>1. <<>> \in Seq(Incoming) /\ Len(<<>>) = 0
    OBVIOUS
  <2>2. Headers(<<>>) \in Seq(Header) /\ Len(Headers(<<>>)) = 0
    BY <2>1, HeadersByIndex
  <2> QED
    BY <2>2
<1> QED
  BY <1>1, <1>2 DEF Received

(***************************************************************************)
(* From the client to the server: what comes out is what was sent, in      *)
(* order, none invented, none twice, none skipped.                         *)
(***************************************************************************)
THEOREM ClientToServerImplementsFifo == Spec => ClientToServerFifo
<1>1. Init => ClientToServer!Init
  BY DirectionInit DEF ClientToServer!Init
<1>2. StreamInv /\ [Next]_vars => [ClientToServer!Next]_(ClientToServer!vars)
  BY DirectionStep DEF ClientToServer!Next, ClientToServer!vars, ClientToServer!Put,
     ClientToServer!Get, ClientToServer!Close, Sendable
<1> QED
  BY <1>1, <1>2, StreamsCorrect, PTL DEF Spec, ClientToServerFifo, ClientToServer!Spec

(***************************************************************************)
(* The same from the server to the client.                                 *)
(***************************************************************************)
THEOREM ServerToClientImplementsFifo == Spec => ServerToClientFifo
<1>1. Init => ServerToClient!Init
  BY DirectionInit DEF ServerToClient!Init
<1>2. StreamInv /\ [Next]_vars => [ServerToClient!Next]_(ServerToClient!vars)
  BY DirectionStep DEF ServerToClient!Next, ServerToClient!vars, ServerToClient!Put,
     ServerToClient!Get, ServerToClient!Close, Sendable
<1> QED
  BY <1>1, <1>2, StreamsCorrect, PTL DEF Spec, ServerToClientFifo, ServerToClient!Spec
================================================================================
