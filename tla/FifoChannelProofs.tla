--------------------------- MODULE FifoChannelProofs ---------------------------
(***************************************************************************)
(* What the abstract channel promises, whatever the messages are; every    *)
(* module that implements FifoChannel inherits it.                         *)
(***************************************************************************)
EXTENDS FifoChannel, SequenceTheorems, TLAPS

\* Get takes the next message that was sent.
LEMMA GetsInRange ==
  ASSUME TypeOK, Get
  PROVE  /\ sent[Len(received) + 1] \in Message
         /\ received' \in Seq(Message) /\ Len(received') = Len(received) + 1
         /\ \A i \in 1 .. Len(received) : received'[i] = received[i]
         /\ received'[Len(received) + 1] = sent[Len(received) + 1]
<1>1. Len(received) + 1 \in 1 .. Len(sent)
  BY DEF TypeOK, Get
<1>2. sent[Len(received) + 1] \in Message
  BY <1>1 DEF TypeOK
<1> QED
  BY <1>2 DEF TypeOK, Get

(***************************************************************************)
(* What was received is a prefix of what was sent: no message is invented, *)
(* repeated, skipped or overtaken.                                         *)
(***************************************************************************)
THEOREM ReceivedInOrder == Spec => [](TypeOK /\ InOrder)
<1>1. Init => TypeOK /\ InOrder
  <2>1. <<>> \in Seq(Message) /\ Len(<<>>) = 0
    OBVIOUS
  <2>2. Init => TypeOK
    BY <2>1 DEF Init, TypeOK
  <2>3. Init => InOrder
    BY <2>1 DEF Init, InOrder
  <2> QED
    BY <2>2, <2>3
<1>2. TypeOK /\ InOrder /\ [Next]_vars => TypeOK' /\ InOrder'
  <2> SUFFICES ASSUME TypeOK, InOrder, [Next]_vars
               PROVE  TypeOK' /\ InOrder'
    OBVIOUS
  <2>1. CASE Put
    BY <2>1 DEF Put, TypeOK, InOrder
  <2>2. CASE Get
    BY <2>2, GetsInRange DEF Get, TypeOK, InOrder
  <2>3. CASE Close \/ UNCHANGED vars
    BY <2>3 DEF Close, vars, TypeOK, InOrder
  <2> QED
    BY <2>1, <2>2, <2>3 DEF Next
<1> QED
  BY <1>1, <1>2, PTL DEF Spec
================================================================================
