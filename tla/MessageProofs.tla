----------------------------- MODULE MessageProofs -----------------------------
(***************************************************************************)
(* A message is a stack of structures, for any structures that are not     *)
(* empty, any bounds and any range of header.size.                         *)
(***************************************************************************)
EXTENDS Message, SequenceTheorems, TLAPS

(***************************************************************************)
(* The header never promises more than the body has, and tells its size    *)
(* until an application misuses the message.                               *)
(***************************************************************************)
HeaderTells == /\ msg.size <= Len(msg.body)
               /\ intact => msg.size = HeaderSize(Len(msg.body))

\* A structure lies behind all that were packed before it.
InOrder == \A i, j \in DOMAIN stack : i < j => EndOf(stack, i) <= stack[j].start

IInv == TypeOK /\ StackKept /\ HeaderTells /\ InOrder

USE BoundsAssumption

--------------------------------------------------------------------------------
\* A structure has a size, and its bytes are as many.
LEMMA SizeTyping ==
  ASSUME NEW t \in Structures
  PROVE  sizeof(t) \in Nat /\ sizeof(t) > 0
BY StructuresAssumption, PayloadsHaveBytes

\* Its bytes, by index.
LEMMA BytesTyping ==
  ASSUME NEW item \in Item
  PROVE  /\ Bytes(item) \in Seq(Origin) /\ Len(Bytes(item)) = sizeof(item.type)
         /\ \A k \in 1..sizeof(item.type) : Bytes(item)[k] = <<item.number, k>>
<1>1. sizeof(item.type) \in Nat /\ item.number \in 1..MaxPushes
  BY SizeTyping DEF Item
<1>2. Bytes(item) \in [1..sizeof(item.type) -> Origin]
  BY <1>1 DEF Bytes, Origin
<1> QED
  BY <1>1, <1>2, SeqDef, LenProperties DEF Bytes

\* header.size cuts off what it cannot hold, and nothing else.
LEMMA HeaderCuts ==
  ASSUME NEW n \in Nat
  PROVE  /\ HeaderSize(n) \in 0..(HeaderRange - 1) /\ HeaderSize(n) <= n
         /\ n < HeaderRange => HeaderSize(n) = n
BY DEF HeaderSize

\* What every step may suppose of the message and of the stack.
LEMMA Typing ==
  ASSUME TypeOK
  PROVE  /\ msg.body \in Seq(Origin) /\ Len(msg.body) \in Nat
         /\ DOMAIN msg.body = 1..Len(msg.body)
         /\ msg.size \in 0..(HeaderRange - 1)
         /\ stack \in Seq(Item) /\ Len(stack) \in Nat /\ DOMAIN stack = 1..Len(stack)
         /\ \A i \in 1..Len(stack) :
              /\ stack[i] \in Item /\ stack[i].type \in Structures /\ stack[i].start \in Nat
              /\ sizeof(stack[i].type) \in Nat /\ sizeof(stack[i].type) > 0
         /\ End(stack) \in Nat
<1>1. /\ stack \in Seq(Item) /\ Len(stack) \in Nat /\ DOMAIN stack = 1..Len(stack)
      /\ \A i \in 1..Len(stack) :
           /\ stack[i] \in Item /\ stack[i].type \in Structures /\ stack[i].start \in Nat
           /\ sizeof(stack[i].type) \in Nat /\ sizeof(stack[i].type) > 0
  <2>1. stack \in Seq(Item)
    BY DEF TypeOK
  <2>2. /\ Len(stack) \in Nat /\ DOMAIN stack = 1..Len(stack)
        /\ \A i \in 1..Len(stack) : stack[i] \in Item
    BY <2>1, LenProperties, ElementOfSeq
  <2> QED
    BY <2>1, <2>2, SizeTyping DEF Item
<1>2. End(stack) \in Nat
  <2>1. CASE Len(stack) = 0
    BY <2>1 DEF End, EndOf
  <2>2. CASE Len(stack) # 0
    <3>1. Len(stack) \in 1..Len(stack)
      BY <1>1, <2>2
    <3> QED
      BY <1>1, <3>1 DEF End, EndOf
  <2> QED
    BY <2>1, <2>2
<1> QED
  BY <1>1, <1>2, LenProperties DEF TypeOK, Messages

\* The first bytes of a body, which is what resize keeps and ReadBody reads.
LEMMA FirstOfBody ==
  ASSUME NEW b \in Seq(Origin), NEW n \in 0..Len(b)
  PROVE  /\ SubSeq(b, 1, n) \in Seq(Origin) /\ Len(SubSeq(b, 1, n)) = n
         /\ \A i \in 1..n : SubSeq(b, 1, n)[i] = b[i]
<1>1. Len(b) \in Nat /\ \A i \in 1..n : b[i] \in Origin
  BY LenProperties, ElementOfSeq
<1>2. n \in Int /\ 1 \in Int /\ n - 1 + 1 = n /\ \A i \in 1..n : 1 + i - 1 = i
  BY <1>1
<1> QED
  BY <1>1, <1>2, SubSeqProperties

\* The last bytes of a body, which is what operator>> copies.
LEMMA LastOfBody ==
  ASSUME NEW b \in Seq(Origin), NEW n \in 0..Len(b)
  PROVE  LET c == SubSeq(b, Len(b) - n + 1, Len(b))
         IN  /\ c \in Seq(Origin) /\ Len(c) = n
             /\ \A k \in 1..n : c[k] = b[Len(b) - n + k]
<1>1. Len(b) \in Nat /\ \A i \in 1..Len(b) : b[i] \in Origin
  BY LenProperties, ElementOfSeq
<1> DEFINE m == Len(b) - n + 1
<1>2. /\ m \in Int /\ Len(b) \in Int /\ \A i \in m..Len(b) : b[i] \in Origin
      /\ Len(b) - m + 1 = n /\ (m <= Len(b) <=> n # 0)
      /\ \A k \in 1..n : m + k - 1 = Len(b) - n + k
  BY <1>1
<1> HIDE DEF m
<1>3. /\ SubSeq(b, m, Len(b)) \in Seq(Origin)
      /\ Len(SubSeq(b, m, Len(b))) = IF m <= Len(b) THEN Len(b) - m + 1 ELSE 0
      /\ \A k \in 1..(Len(b) - m + 1) : SubSeq(b, m, Len(b))[k] = b[m + k - 1]
  BY <1>2, SubSeqProperties
<1> QED
  BY <1>2, <1>3 DEF m

\* The structures below the one on top.
LEMMA FrontTyping ==
  ASSUME TypeOK, stack # <<>>
  PROVE  /\ Front(stack) \in Seq(Item) /\ Len(Front(stack)) = Len(stack) - 1
         /\ Len(stack) - 1 \in Nat /\ Len(stack) \in 1..Len(stack)
         /\ \A i \in 1..(Len(stack) - 1) : i \in 1..Len(stack) /\ Front(stack)[i] = stack[i]
         /\ Last(stack) = stack[Len(stack)] /\ Last(stack) \in Item
<1>1. stack \in Seq(Item) /\ Len(stack) \in Nat /\ \A i \in 1..Len(stack) : stack[i] \in Item
  BY Typing
<1>2. Len(stack) # 0
  BY <1>1, EmptySeq
<1>3. Len(stack) - 1 \in Nat /\ Len(stack) \in 1..Len(stack)
  BY <1>1, <1>2
<1>4. \A i \in 1..(Len(stack) - 1) : i \in 1..Len(stack) /\ 1 + i - 1 = i
  BY <1>1
<1> DEFINE n == Len(stack) - 1
<1>5. /\ SubSeq(stack, 1, n) \in Seq(Item)
      /\ Len(SubSeq(stack, 1, n)) = IF 1 <= n THEN n - 1 + 1 ELSE 0
      /\ \A i \in 1..(n - 1 + 1) : SubSeq(stack, 1, n)[i] = stack[1 + i - 1]
  <2>1. n \in Int /\ 1 \in Int /\ \A i \in 1..n : stack[i] \in Item
    BY <1>1, <1>3, <1>4
  <2> HIDE DEF n
  <2> QED
    BY <2>1, SubSeqProperties
<1>6. /\ Len(SubSeq(stack, 1, n)) = n
      /\ \A i \in 1..n : SubSeq(stack, 1, n)[i] = stack[i]
  <2>1. n \in Nat /\ n - 1 + 1 = n
    BY <1>3
  <2>2. (1 <= n => Len(SubSeq(stack, 1, n)) = n) /\ (~(1 <= n) => n = 0)
    <3> HIDE DEF n
    <3> QED
      BY <1>5, <2>1
  <2>3. ~(1 <= n) => Len(SubSeq(stack, 1, n)) = 0
    BY <1>5
  <2> HIDE DEF n
  <2> QED
    BY <1>4, <1>5, <2>1, <2>2, <2>3
<1>7. Front(stack) = SubSeq(stack, 1, n)
  BY DEF Front
<1> HIDE DEF n
<1>8. /\ Front(stack) \in Seq(Item) /\ Len(Front(stack)) = n
      /\ \A i \in 1..n : Front(stack)[i] = stack[i]
  BY <1>5, <1>6, <1>7
<1>9. Last(stack) = stack[Len(stack)] /\ Last(stack) \in Item
  BY <1>1, <1>3 DEF Last
<1> QED
  BY <1>3, <1>4, <1>8, <1>9 DEF n

\* operator>> leaves a message of which the last bytes were cut off.
LEMMA PulledTyping ==
  ASSUME TypeOK, NEW n \in 0..Len(msg.body)
  PROVE  /\ Pulled(msg, n).body \in Seq(Origin)
         /\ Len(Pulled(msg, n).body) = Len(msg.body) - n
         /\ \A i \in 1..(Len(msg.body) - n) : Pulled(msg, n).body[i] = msg.body[i]
         /\ Pulled(msg, n).size = HeaderSize(Len(Pulled(msg, n).body))
         /\ Pulled(msg, n) \in Messages
<1>1. msg.body \in Seq(Origin) /\ Len(msg.body) \in Nat
  BY Typing
<1>2. Len(msg.body) - n \in 0..Len(msg.body) /\ Len(msg.body) - n \in Nat
  BY <1>1
<1> DEFINE b == SubSeq(msg.body, 1, Len(msg.body) - n)
<1>3. /\ b \in Seq(Origin) /\ Len(b) = Len(msg.body) - n
      /\ \A i \in 1..(Len(msg.body) - n) : b[i] = msg.body[i]
  BY <1>1, <1>2, FirstOfBody
<1>4. Pulled(msg, n) = [size |-> HeaderSize(Len(msg.body) - n), body |-> b]
  BY DEF Pulled, Rest
<1>5. HeaderSize(Len(msg.body) - n) \in 0..(HeaderRange - 1)
  BY <1>2, HeaderCuts
<1> HIDE DEF b
<1>6. Pulled(msg, n) \in Messages
  BY <1>3, <1>4, <1>5 DEF Messages
<1>7. Pulled(msg, n).body = b /\ Pulled(msg, n).size = HeaderSize(Len(msg.body) - n)
  BY <1>4
<1> QED
  BY <1>3, <1>6, <1>7

\* operator<< leaves a message with the bytes of the structure at the end.
LEMMA PushedTyping ==
  ASSUME TypeOK, NEW item \in Item
  PROVE  LET m == Pushed(msg, Bytes(item))
         IN  /\ m.body \in Seq(Origin)
             /\ Len(m.body) = Len(msg.body) + sizeof(item.type)
             /\ \A i \in 1..Len(msg.body) : m.body[i] = msg.body[i]
             /\ \A k \in 1..sizeof(item.type) : m.body[Len(msg.body) + k] = Bytes(item)[k]
             /\ m.size = HeaderSize(Len(m.body)) /\ m \in Messages
<1> DEFINE b == msg.body
           c == Bytes(item)
<1>1. b \in Seq(Origin) /\ Len(b) \in Nat
  BY Typing
<1>2. c \in Seq(Origin) /\ Len(c) = sizeof(item.type) /\ Len(c) \in Nat
  BY BytesTyping, LenProperties
<1> HIDE DEF b, c
<1>3. /\ b \o c \in Seq(Origin) /\ Len(b \o c) = Len(b) + Len(c)
      /\ \A i \in 1..(Len(b) + Len(c)) :
           (b \o c)[i] = IF i <= Len(b) THEN b[i] ELSE c[i - Len(b)]
  BY <1>1, <1>2, ConcatProperties
<1> DEFINE d == b \o c
<1>4. d \in Seq(Origin) /\ Len(d) = Len(b) + Len(c)
  BY <1>3
<1>5. \A i \in 1..Len(b) : d[i] = b[i]
  <2>1. \A i \in 1..Len(b) : i \in 1..(Len(b) + Len(c)) /\ i <= Len(b)
    BY <1>1, <1>2
  <2> QED
    BY <2>1, <1>3
<1>6. \A k \in 1..Len(c) : d[Len(b) + k] = c[k]
  <2>1. \A k \in 1..Len(c) : /\ Len(b) + k \in 1..(Len(b) + Len(c))
                             /\ ~(Len(b) + k <= Len(b)) /\ (Len(b) + k) - Len(b) = k
    BY <1>1, <1>2
  <2> QED
    BY <2>1, <1>3
<1>7. Len(b) + Len(c) \in Nat
  BY <1>1, <1>2
<1>8. Pushed(msg, Bytes(item)) = [size |-> HeaderSize(Len(b) + Len(c)), body |-> d]
  BY DEF Pushed, b, c
<1> HIDE DEF d
<1>9. /\ HeaderSize(Len(b) + Len(c)) = HeaderSize(Len(d))
      /\ HeaderSize(Len(b) + Len(c)) \in 0..(HeaderRange - 1)
  BY <1>4, <1>7, HeaderCuts
<1>10. sizeof(item.type) = Len(c)
  BY <1>2
<1>11. Pushed(msg, Bytes(item)).body = d
       /\ Pushed(msg, Bytes(item)).size = HeaderSize(Len(b) + Len(c))
  BY <1>8
<1>12. Pushed(msg, Bytes(item)) \in Messages
  BY <1>4, <1>8, <1>9 DEF Messages
<1> QED
  BY <1>4, <1>5, <1>6, <1>9, <1>10, <1>11, <1>12 DEF b, c

--------------------------------------------------------------------------------
\* Every step keeps the types.
LEMMA TypeNext ==
  ASSUME TypeOK, HeaderTells, Next
  PROVE  TypeOK'
<1>a. /\ msg \in Messages /\ at \in Ends /\ packed \in 0..MaxPushes /\ hops \in 0..MaxHops
      /\ MaxPushes \in Nat /\ MaxHops \in Nat
      /\ temp \in [Ends -> Messages]
  BY DEF TypeOK
<1>1. ASSUME NEW t \in Structures, Push(t)
      PROVE  TypeOK'
  <2> DEFINE item == [type |-> t, number |-> packed + 1, start |-> End(stack)]
  <2>1. packed' = packed + 1 /\ packed + 1 \in 1..MaxPushes
    BY <1>a, <1>1 DEF Push
  <2>2. item \in Item
    BY <2>1, Typing DEF Item
  <2>3. msg' \in Messages
    <3>1. msg' = Pushed(msg, Bytes(item))
      BY <1>1 DEF Push
    <3> HIDE DEF item
    <3> QED
      BY <2>2, <3>1, PushedTyping
  <2>4. stack' \in Seq(Item)
    <3>1. stack' = Append(stack, item) /\ stack \in Seq(Item)
      BY <1>1, Typing DEF Push
    <3> HIDE DEF item
    <3> QED
      BY <2>2, <3>1, AppendProperties
  <2>5. UNCHANGED <<at, temp, framed, thrown, results, hops, intact>>
    BY <1>1 DEF Push
  <2> QED
    BY <1>a, <2>1, <2>3, <2>4, <2>5 DEF TypeOK, Messages
<1>2. ASSUME NEW t \in Structures, Pull(t)
      PROVE  TypeOK'
  <2>1. UNCHANGED <<at, temp, framed, packed, hops>>
    BY <1>2 DEF Pull
  <2>2. intact' \in BOOLEAN
    BY <1>2 DEF Pull, TypeOK, OnTop
  <2>3. CASE Len(msg.body) < sizeof(t)
    <3>1. thrown' = TRUE /\ UNCHANGED <<msg, stack, results>>
      BY <1>2, <2>3 DEF Pull
    <3> QED
      BY <1>a, <2>1, <2>2, <3>1 DEF TypeOK, Messages
  <2>4. CASE ~(Len(msg.body) < sizeof(t))
    <3>1. /\ thrown' = thrown
          /\ results' = Append(results, [type |-> t, bytes |-> LastBytes(msg, sizeof(t))])
          /\ msg' = Pulled(msg, sizeof(t))
          /\ stack' = IF OnTop(t) THEN Front(stack) ELSE stack
      BY <1>2, <2>4 DEF Pull
    <3>2. sizeof(t) \in 0..Len(msg.body)
      BY <2>4, SizeTyping, Typing
    <3>3. msg' \in Messages
      BY <3>1, <3>2, PulledTyping
    <3>4. stack' \in Seq(Item)
      BY <3>1, Typing, FrontTyping DEF OnTop
    <3>5. results' \in Seq([type : Structures, bytes : Seq(Origin)])
      <4>1. [type |-> t, bytes |-> LastBytes(msg, sizeof(t))]
              \in [type : Structures, bytes : Seq(Origin)]
        BY <3>2, LastOfBody, Typing DEF LastBytes
      <4>2. results \in Seq([type : Structures, bytes : Seq(Origin)])
        BY DEF TypeOK
      <4> QED
        BY <3>1, <4>1, <4>2, AppendProperties
    <3> QED
      BY <1>a, <2>1, <2>2, <3>1, <3>3, <3>4, <3>5 DEF TypeOK, Messages
  <2> QED
    BY <2>3, <2>4
<1>3. CASE Send
  <2> DEFINE e == Peer(at)
             new == [size |-> msg.size, body |-> ReadBody(msg, temp[e])]
  <2>1. e \in Ends
    BY <1>a DEF Peer, Ends
  <2>2. ReadBody(msg, temp[e]) \in Seq(Origin)
    <3>1. msg.size \in 0..Len(msg.body)
      BY Typing DEF HeaderTells
    <3> QED
      BY <1>a, <2>1, <3>1, FirstOfBody, Typing DEF ReadBody, Messages
  <2>3. new \in Messages
    BY <2>2, Typing DEF Messages
  <2>4. /\ hops < MaxHops /\ hops' = hops + 1 /\ at' = e
        /\ temp' = [temp EXCEPT ![e] = new] /\ msg' = new
        /\ framed' = (msg.size = Len(msg.body)) /\ results' = <<>>
        /\ intact' = (intact /\ End(stack) \in 1..(HeaderRange - 1))
        /\ UNCHANGED <<thrown, packed, stack>>
    BY <1>3 DEF Send
  <2> HIDE DEF e, new
  <2>5. temp' \in [Ends -> Messages]
    BY <1>a, <2>3, <2>4
  <2>6. framed' \in BOOLEAN /\ intact' \in BOOLEAN
    BY <2>4
  <2>7. hops' \in 0..MaxHops
    BY <1>a, <2>4
  <2> QED
    BY <2>1, <2>3, <2>4, <2>5, <2>6, <2>7 DEF TypeOK, Messages
<1> QED
  BY <1>1, <1>2, <1>3 DEF Next

\* All structures end within what they make together.
LEMMA EndsWithin ==
  ASSUME TypeOK, InOrder, NEW i \in 1..Len(stack)
  PROVE  EndOf(stack, i) \in Nat /\ EndOf(stack, i) <= End(stack)
<1> DEFINE n == Len(stack)
<1>1. /\ n \in Nat /\ DOMAIN stack = 1..n
      /\ \A j \in 1..n : stack[j].start \in Nat /\ sizeof(stack[j].type) \in Nat
  BY Typing
<1>2. n \in 1..n /\ (i = n \/ i < n)
  <2>1. i \in 1..n
    OBVIOUS
  <2> HIDE DEF n
  <2> QED
    BY <1>1, <2>1
<1>3. \A j \in 1..n : EndOf(stack, j) = stack[j].start + sizeof(stack[j].type)
  BY <1>1 DEF EndOf
<1>4. i < n => EndOf(stack, i) <= stack[n].start
  BY <1>1, <1>2 DEF InOrder
<1>5. End(stack) = EndOf(stack, n)
  BY DEF End
<1> HIDE DEF n
<1>6. /\ EndOf(stack, i) = stack[i].start + sizeof(stack[i].type)
      /\ stack[i].start \in Nat /\ sizeof(stack[i].type) \in Nat
  BY <1>1, <1>2, <1>3
<1>7. /\ EndOf(stack, n) = stack[n].start + sizeof(stack[n].type)
      /\ stack[n].start \in Nat /\ sizeof(stack[n].type) \in Nat
  BY <1>1, <1>2, <1>3
<1>8. EndOf(stack, i) \in Nat
  BY <1>6
<1>9. EndOf(stack, i) <= EndOf(stack, n)
  <2>1. CASE i = n
    BY <1>8, <2>1
  <2>2. CASE i < n
    BY <1>4, <1>7, <1>8, <2>2
  <2> QED
    BY <1>2, <2>1, <2>2
<1> QED
  BY <1>5, <1>8, <1>9

\* A structure packed goes on top.
LEMMA PushKeeps ==
  ASSUME TypeOK, InOrder, NEW t \in Structures, Push(t)
  PROVE  InOrder' /\ (Holds(msg.body, stack) => Holds(msg.body, stack)')
<1> DEFINE n == Len(stack)
           item == [type |-> t, number |-> packed + 1, start |-> End(stack)]
<1>a. /\ stack \in Seq(Item) /\ n \in Nat /\ DOMAIN stack = 1..n /\ End(stack) \in Nat
      /\ \A i \in 1..n : stack[i] \in Item /\ stack[i].start \in Nat
                         /\ sizeof(stack[i].type) \in Nat /\ sizeof(stack[i].type) > 0
      /\ sizeof(t) \in Nat
  BY Typing, SizeTyping
<1>1. item \in Item
  <2>1. packed + 1 \in 1..MaxPushes
    BY DEF Push, TypeOK
  <2> QED
    BY <1>a, <2>1 DEF Item
<1>2. msg' = Pushed(msg, Bytes(item)) /\ stack' = Append(stack, item)
  BY DEF Push
<1>3. item.type = t /\ item.start = End(stack)
  OBVIOUS
<1> HIDE DEF item
<1>4. /\ stack' \in Seq(Item) /\ Len(stack') = n + 1
      /\ \A i \in 1..n : stack'[i] = stack[i]
      /\ stack'[n + 1] = item
  BY <1>1, <1>2, <1>a, AppendProperties
<1>5. DOMAIN stack' = 1..(n + 1) /\ \A i \in 1..(n + 1) : i \in 1..n \/ i = n + 1
  BY <1>4, <1>a, LenProperties
<1>6. \A i \in 0..n : EndOf(stack', i) = EndOf(stack, i)
  <2>1. \A i \in 0..n : i # 0 => stack'[i] = stack[i]
    BY <1>4, <1>a
  <2> QED
    BY <2>1 DEF EndOf
<1>7. EndOf(stack', n + 1) = End(stack) + sizeof(t)
  BY <1>3, <1>4, <1>a DEF EndOf
<1>8. InOrder'
  <2> SUFFICES ASSUME NEW i \in 1..(n + 1), NEW j \in 1..(n + 1), i < j
               PROVE  EndOf(stack', i) <= stack'[j].start
    BY <1>5 DEF InOrder
  <2>1. i \in 1..n /\ i \in 0..n
    BY <1>a
  <2>2. CASE j \in 1..n
    BY <1>4, <1>6, <1>a, <2>1, <2>2 DEF InOrder
  <2>3. CASE j = n + 1
    BY <1>3, <1>4, <1>6, <2>1, <2>3, EndsWithin
  <2> QED
    BY <1>5, <2>2, <2>3
<1>9. ASSUME Holds(msg.body, stack)
      PROVE  Holds(msg'.body, stack')
  <2>1. /\ Len(msg.body) = End(stack)
        /\ \A i \in 1..n : /\ stack[i].start = EndOf(stack, i - 1)
                           /\ \A k \in 1..sizeof(stack[i].type) :
                                msg.body[stack[i].start + k] = Bytes(stack[i])[k]
    BY <1>9, <1>a DEF Holds
  <2>2. /\ Len(msg'.body) = Len(msg.body) + sizeof(t)
        /\ \A k \in 1..Len(msg.body) : msg'.body[k] = msg.body[k]
        /\ \A k \in 1..sizeof(t) : msg'.body[Len(msg.body) + k] = Bytes(item)[k]
    BY <1>1, <1>2, <1>3, PushedTyping
  <2>3. Len(msg'.body) = End(stack')
    BY <1>4, <1>7, <2>1, <2>2 DEF End
  <2>4. ASSUME NEW i \in 1..n
        PROVE  /\ stack'[i].start = EndOf(stack', i - 1)
               /\ \A k \in 1..sizeof(stack'[i].type) :
                    msg'.body[stack'[i].start + k] = Bytes(stack'[i])[k]
    <3>1. stack'[i] = stack[i] /\ EndOf(stack', i - 1) = EndOf(stack, i - 1)
      BY <1>4, <1>6, <1>a
    <3>2. EndOf(stack, i) = stack[i].start + sizeof(stack[i].type)
      BY <1>a DEF EndOf
    <3>3. \A k \in 1..sizeof(stack[i].type) : stack[i].start + k \in 1..Len(msg.body)
      BY <1>a, <2>1, <3>2, EndsWithin
    <3>4. \A k \in 1..sizeof(stack[i].type) :
             msg'.body[stack[i].start + k] = Bytes(stack[i])[k]
      BY <2>1, <2>2, <3>3
    <3> QED
      BY <2>1, <3>1, <3>4
  <2>5. /\ stack'[n + 1].start = EndOf(stack', n)
        /\ \A k \in 1..sizeof(stack'[n + 1].type) :
             msg'.body[stack'[n + 1].start + k] = Bytes(stack'[n + 1])[k]
    <3>1. EndOf(stack', n) = End(stack)
      BY <1>6, <1>a DEF End
    <3> QED
      BY <1>3, <1>4, <2>1, <2>2, <3>1
  <2>6. (n + 1) - 1 = n
    BY <1>a
  <2> QED
    BY <1>5, <2>3, <2>4, <2>5, <2>6 DEF Holds
<1> QED
  BY <1>8, <1>9

\* The structure on top of the stack is the end of the body.
LEMMA TopOfBody ==
  ASSUME TypeOK, InOrder, stack # <<>>, Holds(msg.body, stack)
  PROVE  LET t == Last(stack).type
         IN  /\ t \in Structures
             /\ sizeof(t) \in 0..Len(msg.body)
             /\ Last(stack).start = Len(msg.body) - sizeof(t)
             /\ EndOf(stack, Len(stack) - 1) = Len(msg.body) - sizeof(t)
             /\ LastBytes(msg, sizeof(t)) = Bytes(Last(stack))
<1> DEFINE n == Len(stack)
           top == Last(stack)
           t == top.type
           b == msg.body
<1>1. n \in Nat /\ n \in 1..n /\ DOMAIN stack = 1..n /\ top = stack[n] /\ top \in Item
  BY Typing, FrontTyping
<1>2. t \in Structures /\ sizeof(t) \in Nat /\ top.start \in Nat
  BY <1>1, SizeTyping DEF Item
<1>3. b \in Seq(Origin) /\ Len(b) \in Nat
  BY Typing
<1>4. Len(b) = top.start + sizeof(t)
  BY <1>1 DEF Holds, End, EndOf
<1>5. /\ top.start = EndOf(stack, n - 1)
      /\ \A k \in 1..sizeof(t) : b[top.start + k] = Bytes(top)[k]
  BY <1>1 DEF Holds
<1>6. /\ Bytes(top) \in Seq(Origin) /\ Len(Bytes(top)) = sizeof(t)
  BY <1>1, BytesTyping
<1> HIDE DEF n, top, t, b
<1>7. sizeof(t) \in 0..Len(b) /\ top.start = Len(b) - sizeof(t)
  BY <1>2, <1>3, <1>4
<1> DEFINE c == SubSeq(b, Len(b) - sizeof(t) + 1, Len(b))
<1>8. /\ c \in Seq(Origin) /\ Len(c) = sizeof(t)
      /\ \A k \in 1..sizeof(t) : c[k] = b[Len(b) - sizeof(t) + k]
  BY <1>3, <1>7, LastOfBody
<1> HIDE DEF c
<1>9. c = Bytes(top)
  <2>1. \A k \in 1..sizeof(t) : c[k] = Bytes(top)[k]
    BY <1>5, <1>7, <1>8
  <2> QED
    BY <1>6, <1>8, <2>1, SeqEqual
<1>10. LastBytes(msg, sizeof(t)) = c
  BY DEF LastBytes, b, c
<1> QED
  BY <1>2, <1>5, <1>7, <1>9, <1>10 DEF n, top, t, b

\* An application that asks for what is on top gets it, and what is below stays.
LEMMA PullKeeps ==
  ASSUME TypeOK, InOrder, NEW t \in Structures, Pull(t)
  PROVE  /\ InOrder'
         /\ OnTop(t) /\ Holds(msg.body, stack) =>
              Holds(msg.body, stack)' /\ UNCHANGED thrown
<1> DEFINE n == Len(stack)
<1>a. n \in Nat /\ DOMAIN stack = 1..n
  BY Typing
<1>1. ASSUME stack # <<>>, stack' = Front(stack)
      PROVE  /\ n - 1 \in Nat /\ Len(stack') = n - 1 /\ DOMAIN stack' = 1..(n - 1)
             /\ \A i \in 1..(n - 1) : i \in 1..n /\ stack'[i] = stack[i]
             /\ \A i \in 0..(n - 1) : EndOf(stack', i) = EndOf(stack, i)
  <2>1. /\ n - 1 \in Nat /\ Len(stack') = n - 1 /\ DOMAIN stack' = 1..(n - 1)
        /\ \A i \in 1..(n - 1) : i \in 1..n /\ stack'[i] = stack[i]
    BY <1>1, FrontTyping, LenProperties
  <2>2. \A i \in 0..(n - 1) : i # 0 => stack'[i] = stack[i]
    BY <1>a, <2>1
  <2> QED
    BY <2>1, <2>2 DEF EndOf
<1>2. stack' = stack \/ (stack # <<>> /\ stack' = Front(stack))
  BY DEF Pull, OnTop
<1>3. InOrder'
  <2>1. CASE stack' = stack
    BY <2>1 DEF InOrder, EndOf
  <2>2. CASE stack # <<>> /\ stack' = Front(stack)
    <3> SUFFICES ASSUME NEW i \in 1..(n - 1), NEW j \in 1..(n - 1), i < j
                 PROVE  EndOf(stack', i) <= stack'[j].start
      BY <1>1, <2>2 DEF InOrder
    <3>1. i \in 0..(n - 1) /\ i \in DOMAIN stack /\ j \in DOMAIN stack
      BY <1>1, <1>a, <2>2
    <3> QED
      BY <1>1, <2>2, <3>1 DEF InOrder
  <2> QED
    BY <1>2, <2>1, <2>2
<1>4. ASSUME OnTop(t), Holds(msg.body, stack)
      PROVE  Holds(msg'.body, stack') /\ UNCHANGED thrown
  <2>1. stack # <<>> /\ Last(stack).type = t
    BY <1>4 DEF OnTop
  <2>2. /\ sizeof(t) \in 0..Len(msg.body)
        /\ EndOf(stack, n - 1) = Len(msg.body) - sizeof(t)
    BY <1>4, <2>1, TopOfBody
  <2>3. Len(msg.body) \in Nat /\ ~(Len(msg.body) < sizeof(t))
    BY <2>2, Typing
  <2>4. msg' = Pulled(msg, sizeof(t)) /\ stack' = Front(stack) /\ UNCHANGED thrown
    BY <1>4, <2>3 DEF Pull
  <2>5. /\ Len(msg'.body) = Len(msg.body) - sizeof(t)
        /\ \A k \in 1..(Len(msg.body) - sizeof(t)) : msg'.body[k] = msg.body[k]
    BY <2>2, <2>4, PulledTyping
  <2>6. Len(msg'.body) = End(stack')
    <3>1. n - 1 \in 0..(n - 1)
      BY <1>1, <2>1, <2>4
    <3> QED
      BY <1>1, <2>1, <2>2, <2>4, <2>5, <3>1 DEF End
  <2>7. ASSUME NEW i \in 1..(n - 1)
        PROVE  /\ stack'[i].start = EndOf(stack', i - 1)
               /\ \A k \in 1..sizeof(stack'[i].type) :
                    msg'.body[stack'[i].start + k] = Bytes(stack'[i])[k]
    <3>1. /\ stack'[i] = stack[i] /\ i \in 1..n /\ i - 1 \in 0..(n - 1)
          /\ EndOf(stack', i - 1) = EndOf(stack, i - 1)
      BY <1>1, <1>a, <2>1, <2>4
    <3>2. /\ stack[i].start = EndOf(stack, i - 1)
          /\ \A k \in 1..sizeof(stack[i].type) :
               msg.body[stack[i].start + k] = Bytes(stack[i])[k]
      BY <1>4, <1>a, <3>1 DEF Holds
    <3>3. /\ EndOf(stack, i) = stack[i].start + sizeof(stack[i].type)
          /\ stack[i].start \in Nat /\ sizeof(stack[i].type) \in Nat
      BY <3>1, Typing DEF EndOf
    <3>4. EndOf(stack, i) <= Len(msg.body) - sizeof(t)
      <4>1. stack[n].start = Len(msg.body) - sizeof(t)
        BY <1>4, <2>1, TopOfBody, FrontTyping
      <4>2. i < n /\ n \in 1..n
        BY <1>a, <3>1
      <4> QED
        BY <1>a, <3>1, <4>1, <4>2 DEF InOrder
    <3>5. \A k \in 1..sizeof(stack[i].type) :
             stack[i].start + k \in 1..(Len(msg.body) - sizeof(t))
      <4> DEFINE from == stack[i].start
                 size == sizeof(stack[i].type)
                 rest == Len(msg.body) - sizeof(t)
      <4>1. from \in Nat /\ size \in Nat /\ rest \in Nat /\ from + size <= rest
        BY <2>2, <2>3, <3>3, <3>4
      <4> HIDE DEF from, size, rest
      <4>2. \A k \in 1..size : from + k \in 1..rest
        BY <4>1
      <4> QED
        BY <4>2 DEF from, size, rest
    <3> QED
      BY <2>5, <3>1, <3>2, <3>5
  <2>8. DOMAIN stack' = 1..(n - 1)
    BY <1>1, <2>1, <2>4
  <2> HIDE DEF n
  <2>9. Holds(msg'.body, stack')
    BY <2>6, <2>7, <2>8 DEF Holds
  <2> QED
    BY <2>4, <2>9
<1> QED
  BY <1>3, <1>4

\* A message whose size the header can tell arrives as it is.
LEMMA SendKeeps ==
  ASSUME TypeOK, HeaderTells, Send
  PROVE  /\ msg'.size = msg.size /\ msg.size <= Len(msg'.body) /\ UNCHANGED <<stack, thrown>>
         /\ intact' /\ Holds(msg.body, stack) => msg' = msg /\ framed'
<1>1. /\ msg' = [size |-> msg.size, body |-> ReadBody(msg, temp[Peer(at)])]
      /\ intact' = (intact /\ End(stack) \in 1..(HeaderRange - 1))
      /\ framed' = (msg.size = Len(msg.body)) /\ UNCHANGED <<stack, thrown>>
  BY DEF Send
<1>2. /\ msg \in Messages /\ msg.body \in Seq(Origin) /\ Len(msg.body) \in Nat
      /\ msg.size \in Nat /\ msg.size \in 0..Len(msg.body)
  BY Typing DEF HeaderTells, TypeOK
<1>3. msg.size > 0 => msg'.body = SubSeq(msg.body, 1, msg.size)
  BY <1>1 DEF ReadBody
<1>4. msg.size <= Len(msg'.body)
  <2>1. CASE msg.size > 0
    BY <1>2, <1>3, <2>1, FirstOfBody
  <2>2. CASE msg.size = 0
    <3>1. Peer(at) \in Ends
      BY DEF Peer, Ends, TypeOK
    <3>2. temp[Peer(at)].body \in Seq(Origin)
      BY <3>1 DEF TypeOK, Messages
    <3>3. msg'.body = temp[Peer(at)].body
      BY <1>1, <2>2 DEF ReadBody
    <3>4. Len(msg'.body) \in Nat
      BY <3>2, <3>3, LenProperties
    <3> QED
      BY <2>2, <3>4
  <2> QED
    BY <1>2, <2>1, <2>2
<1>5. ASSUME intact', Holds(msg.body, stack)
      PROVE  msg' = msg /\ framed'
  <2>1. Len(msg.body) \in 1..(HeaderRange - 1) /\ intact
    BY <1>1, <1>5 DEF Holds
  <2>2. msg.size = Len(msg.body)
    <3>1. HeaderSize(Len(msg.body)) = Len(msg.body)
      BY <1>2, <2>1, HeaderCuts
    <3> QED
      BY <2>1, <3>1 DEF HeaderTells
  <2>3. msg'.body = msg.body
    BY <1>2, <1>3, <2>1, <2>2, SubSeqFull
  <2>4. msg' = [size |-> msg.size, body |-> msg.body]
    BY <1>1, <2>3
  <2>5. msg = [size |-> msg.size, body |-> msg.body]
    BY <1>2 DEF Messages
  <2> QED
    BY <1>1, <2>2, <2>4, <2>5
<1> QED
  BY <1>1, <1>4, <1>5

--------------------------------------------------------------------------------
\* The invariant holds of an empty message.
LEMMA IInvInit == Init => IInv
<1> SUFFICES ASSUME Init PROVE IInv
  OBVIOUS
<1>1. msg = [size |-> 0, body |-> <<>>] /\ stack = <<>> /\ results = <<>>
  BY DEF Init, NewMessage
<1>2. 0 \in 0..(HeaderRange - 1) /\ <<>> \in Seq(Origin) /\ HeaderSize(0) = 0
  BY HeaderCuts
<1>3. NewMessage \in Messages
  BY <1>2 DEF NewMessage, Messages
<1>4. TypeOK
  <2>1. msg \in Messages /\ temp \in [Ends -> Messages] /\ at \in Ends
    BY <1>3 DEF Init, Ends
  <2>2. packed \in 0..MaxPushes /\ hops \in 0..MaxHops
    BY DEF Init
  <2>3. stack \in Seq(Item) /\ results \in Seq([type : Structures, bytes : Seq(Origin)])
    BY <1>1
  <2> QED
    BY <2>1, <2>2, <2>3 DEF Init, TypeOK
<1>5. Len(<<>>) = 0 /\ DOMAIN <<>> = {}
  OBVIOUS
<1>6. Holds(msg.body, stack) /\ InOrder
  BY <1>1, <1>5 DEF Holds, End, EndOf, InOrder
<1>7. msg.size = 0 /\ Len(msg.body) = 0
  BY <1>1
<1>8. HeaderTells
  BY <1>2, <1>7 DEF HeaderTells
<1> QED
  BY <1>4, <1>6, <1>8 DEF IInv, StackKept, Init

\* Every step keeps the invariant.
LEMMA IInvNext ==
  ASSUME IInv, Next
  PROVE  IInv'
<1>a. TypeOK /\ InOrder /\ HeaderTells /\ StackKept
  BY DEF IInv
<1>b. TypeOK'
  BY <1>a, TypeNext
<1>1. ASSUME NEW t \in Structures, Push(t)
      PROVE  StackKept' /\ HeaderTells' /\ InOrder'
  <2> DEFINE item == [type |-> t, number |-> packed + 1, start |-> End(stack)]
  <2>1. UNCHANGED <<framed, thrown, intact>> /\ msg' = Pushed(msg, Bytes(item))
    BY <1>1 DEF Push
  <2>2. item \in Item
    <3>1. packed + 1 \in 1..MaxPushes
      BY <1>1, <1>a DEF Push, TypeOK
    <3> QED
      BY <1>a, <3>1, Typing DEF Item
  <2> HIDE DEF item
  <2>3. msg'.size = HeaderSize(Len(msg'.body)) /\ msg'.body \in Seq(Origin)
    BY <1>a, <2>1, <2>2, PushedTyping
  <2>4. msg'.size <= Len(msg'.body)
    BY <2>3, HeaderCuts, LenProperties
  <2> QED
    BY <1>1, <1>a, <2>1, <2>3, <2>4, PushKeeps DEF StackKept, HeaderTells
<1>2. ASSUME NEW t \in Structures, Pull(t)
      PROVE  StackKept' /\ HeaderTells' /\ InOrder'
  <2>1. intact' = (intact /\ OnTop(t)) /\ framed' = framed
    BY <1>2 DEF Pull
  <2>2. StackKept' /\ InOrder'
    BY <1>2, <1>a, <2>1, PullKeeps DEF StackKept
  <2>3. CASE Len(msg.body) < sizeof(t)
    <3>1. msg' = msg
      BY <1>2, <2>3 DEF Pull
    <3> QED
      BY <1>a, <2>1, <2>2, <3>1 DEF HeaderTells
  <2>4. CASE ~(Len(msg.body) < sizeof(t))
    <3>1. msg' = Pulled(msg, sizeof(t))
      BY <1>2, <2>4 DEF Pull
    <3>2. sizeof(t) \in 0..Len(msg.body)
      BY <1>a, <2>4, SizeTyping, Typing
    <3>3. msg'.size = HeaderSize(Len(msg'.body)) /\ msg'.body \in Seq(Origin)
      BY <1>a, <3>1, <3>2, PulledTyping
    <3>4. msg'.size <= Len(msg'.body)
      BY <3>3, HeaderCuts, LenProperties
    <3> QED
      BY <2>2, <3>3, <3>4 DEF HeaderTells
  <2> QED
    BY <2>3, <2>4
<1>3. CASE Send
  <2>1. intact' => intact
    BY <1>3 DEF Send
  <2>2. UNCHANGED stack
    BY <1>3 DEF Send
  <2>3. InOrder'
    BY <1>a, <2>2 DEF InOrder, EndOf
  <2>4. StackKept'
    BY <1>3, <1>a, <2>1, SendKeeps DEF StackKept
  <2>5. HeaderTells'
    <3>1. msg'.size <= Len(msg'.body)
      BY <1>3, <1>a, SendKeeps
    <3>2. intact' => msg' = msg
      BY <1>3, <1>a, <2>1, SendKeeps DEF StackKept
    <3> QED
      BY <1>a, <2>1, <3>1, <3>2 DEF HeaderTells
  <2> QED
    BY <1>b, <2>3, <2>4, <2>5 DEF IInv
<1> QED
  BY <1>1, <1>2, <1>3, <1>b DEF Next, IInv

(***************************************************************************)
(* The invariant of a message on its way through operators and streams.    *)
(***************************************************************************)
THEOREM MessageCorrect == Spec => []IInv
<1>1. IInv /\ UNCHANGED vars => IInv'
  BY DEF IInv, TypeOK, StackKept, HeaderTells, InOrder, Holds, End, EndOf, vars, historyVars
<1> QED
  BY <1>1, IInvInit, IInvNext, PTL DEF Spec

(***************************************************************************)
(* The types of the message, of both ends and of the history.              *)
(***************************************************************************)
THEOREM TypeCorrect == Spec => []TypeOK
<1>1. IInv => TypeOK
  BY DEF IInv
<1> QED
  BY <1>1, MessageCorrect, PTL

(***************************************************************************)
(* What was packed is in the body, byte by byte, at whichever end, while   *)
(* applications unpack what is on top and send what the header can tell.   *)
(***************************************************************************)
THEOREM StackIsKept == Spec => []StackKept
<1>1. IInv => StackKept
  BY DEF IInv
<1> QED
  BY <1>1, MessageCorrect, PTL

(***************************************************************************)
(* operator>> returns the structure on top, with the bytes it was packed   *)
(* with.                                                                   *)
(***************************************************************************)
THEOREM PullReturnsTop == Spec => ReturnsTop
<1> DEFINE Returns == intact' /\ Len(results') > Len(results) =>
              Last(results') = [type |-> Last(stack).type, bytes |-> Bytes(Last(stack))]
<1>1. ASSUME IInv, [Next]_vars
      PROVE  Returns
  <2> SUFFICES ASSUME intact', Len(results') > Len(results)
               PROVE  Last(results') = [type |-> Last(stack).type, bytes |-> Bytes(Last(stack))]
    OBVIOUS
  <2>1. results \in Seq([type : Structures, bytes : Seq(Origin)]) /\ Len(results) \in Nat
    BY <1>1, LenProperties DEF IInv, TypeOK
  <2>2. results' # results
    BY <2>1
  <2>3. results' # <<>>
    BY <2>1
  <2>4. PICK t \in Structures : Pull(t)
    BY <1>1, <2>2, <2>3 DEF Next, Push, Send, vars, historyVars
  <2>5. intact /\ OnTop(t) /\ ~(Len(msg.body) < sizeof(t))
    BY <2>2, <2>4 DEF Pull
  <2>6. stack # <<>> /\ Last(stack).type = t
    BY <2>5 DEF OnTop
  <2>7. LastBytes(msg, sizeof(t)) = Bytes(Last(stack))
    BY <1>1, <2>5, <2>6, TopOfBody DEF IInv, StackKept
  <2> DEFINE x == [type |-> t, bytes |-> LastBytes(msg, sizeof(t))]
  <2>8. results' = Append(results, x)
    BY <2>4, <2>5 DEF Pull
  <2>9. Last(results') = x
    <3> HIDE DEF x
    <3>1. Len(results') = Len(results) + 1 /\ results'[Len(results) + 1] = x
      BY <2>1, <2>8
    <3> QED
      BY <3>1 DEF Last
  <2> QED
    BY <2>6, <2>7, <2>9
<1> QED
  BY <1>1, MessageCorrect, PTL DEF Spec, ReturnsTop
================================================================================
