--------------------------------- MODULE Message --------------------------------
(***************************************************************************)
(* A message (NetMessage.hpp) that applications pack with operator<<,      *)
(* unpack with operator>> and send each other: it goes from one end to the *)
(* other, is unpacked there, perhaps packed again, and sent on.            *)
(*                                                                         *)
(* A byte is the place it has in a structure that was packed: the number   *)
(* of the structure and the offset in it.  The stream, the framing of      *)
(* which is the subject of TcpConnection, takes a message in one step.     *)
(***************************************************************************)
EXTENDS Integers, FiniteSets, Payloads

CONSTANTS Structures,   \* the payloads the applications use
          HeaderRange,  \* header.size is stored modulo this (2^32 in the code)
          MaxPushes,    \* bound: structures packed
          MaxPulls,     \* bound: structures unpacked at one end
          MaxHops       \* bound: messages sent

ASSUME StructuresAssumption == Structures \subseteq DOMAIN Payload
ASSUME BoundsAssumption ==
  HeaderRange \in Nat \ {0} /\ {MaxPushes, MaxPulls, MaxHops} \subseteq Nat

Ends == {"client", "server"}
Peer(e) == CHOOSE p \in Ends : p # e

VARIABLES
  at,       \* the end that has the message in its hands
  msg,      \* the message: header.size and body
  temp,     \* tempIncomingMessage_ of each end
  framed,   \* the reader of the stream has not lost the start of the messages
  thrown,   \* an exception has left operator>>
  packed,   \* history: structures packed so far
  stack,    \* history: the structures in the message, in the order packed, and
            \* where each starts in the body
  results,  \* history: what has been unpacked since: structure and bytes
  hops,     \* history: messages sent
  intact    \* history: what was unpacked is what was on top, and what was
            \* sent had a size the header can tell, and not the size zero

historyVars == <<packed, stack, results, hops, intact>>
vars == <<at, msg, temp, framed, thrown, historyVars>>

Bytes(item) == [k \in 1..sizeof(item.type) |-> <<item.number, k>>]

\* header.size is a uint32_t, body.size() a size_t (mutated: not cut).
FullSize(n) == n
HeaderSize(n) == n % HeaderRange

Item == [type : Structures, number : 1..MaxPushes, start : Nat]
Origin == (1..MaxPushes) \X Nat
Messages == [size : 0..(HeaderRange - 1), body : Seq(Origin)]

TypeOK ==
  /\ at \in Ends
  /\ msg \in Messages
  /\ temp \in [Ends -> Messages]
  /\ framed \in BOOLEAN /\ thrown \in BOOLEAN /\ intact \in BOOLEAN
  /\ packed \in 0..MaxPushes /\ hops \in 0..MaxHops
  /\ stack \in Seq(Item)
  /\ results \in Seq([type : Structures, bytes : Seq(Origin)])

\* Where the first n items end, each of which starts where the one before ends.
EndOf(items, n) == IF n = 0 THEN 0 ELSE items[n].start + sizeof(items[n].type)
End(items) == EndOf(items, Len(items))

NewMessage == [size |-> 0, body |-> <<>>]

Init ==
  /\ at = "client"
  /\ msg = NewMessage
  /\ temp = [e \in Ends |-> NewMessage]
  /\ framed = TRUE /\ thrown = FALSE /\ intact = TRUE
  /\ packed = 0 /\ hops = 0
  /\ stack = <<>> /\ results = <<>>

(***************************************************************************)
(* operator<<: the bytes after those of the body, and the new size in the  *)
(* header (mutated: the header is left as it was).                         *)
(***************************************************************************)
StaleHeader(m, data) == [m EXCEPT !.body = @ \o data]
Pushed(m, data) ==
  [size |-> HeaderSize(Len(m.body) + Len(data)), body |-> m.body \o data]

Push(t) ==
  LET item == [type |-> t, number |-> packed + 1, start |-> End(stack)]
  IN  /\ ~thrown
      /\ packed < MaxPushes
      /\ packed' = packed + 1
      /\ msg' = Pushed(msg, Bytes(item))
      /\ stack' = Append(stack, item)
      /\ UNCHANGED <<at, temp, framed, thrown, results, hops, intact>>

(***************************************************************************)
(* operator>>: the last sizeof(t) bytes of the body (mutated: the first).  *)
(***************************************************************************)
FirstBytes(m, n) == SubSeq(m.body, 1, n)
LastBytes(m, n) == SubSeq(m.body, Len(m.body) - n + 1, Len(m.body))

\* They are cut off (mutated: one too few).
OneLeft(m, n) == Len(m.body) - n + 1
Rest(m, n) == Len(m.body) - n

Pulled(m, n) ==
  [size |-> HeaderSize(Rest(m, n)), body |-> SubSeq(m.body, 1, Rest(m, n))]

OnTop(t) == stack # <<>> /\ Last(stack).type = t

(***************************************************************************)
(* body.size() - sizeof(t) wraps around when the body is too short, and    *)
(* resize to the result throws.                                            *)
(***************************************************************************)
Pull(t) ==
  /\ ~thrown /\ Len(results) < MaxPulls
  /\ intact' = (intact /\ OnTop(t))
  /\ IF Len(msg.body) < sizeof(t)
     THEN /\ thrown' = TRUE
          /\ UNCHANGED <<msg, stack, results>>
     ELSE /\ results' = Append(results, [type |-> t, bytes |-> LastBytes(msg, sizeof(t))])
          /\ msg' = Pulled(msg, sizeof(t))
          /\ stack' = IF OnTop(t) THEN Front(stack) ELSE stack
          /\ UNCHANGED thrown
  /\ UNCHANGED <<at, temp, framed, packed, hops>>

(***************************************************************************)
(* ReadHeader and ReadBody: the size of the header says how much of the    *)
(* body is read; without any, the body read before is left (mutated:       *)
(* resize to one byte less).                                               *)
(***************************************************************************)
ShortBody(m, before) ==
  IF m.size > 0 THEN SubSeq(m.body, 1, m.size - 1) ELSE before.body
ReadBody(m, before) == IF m.size > 0 THEN SubSeq(m.body, 1, m.size) ELSE before.body

\* WriteBody writes all of the body, whatever the header says.
Send ==
  LET e == Peer(at)
      new == [size |-> msg.size, body |-> ReadBody(msg, temp[e])]
  IN  /\ ~thrown /\ framed
      /\ hops < MaxHops /\ hops' = hops + 1
      /\ at' = e
      /\ temp' = [temp EXCEPT ![e] = new]
      /\ msg' = new
      /\ framed' = (msg.size = Len(msg.body))
      /\ results' = <<>>
      /\ intact' = (intact /\ End(stack) \in 1..(HeaderRange - 1))
      /\ UNCHANGED <<thrown, packed, stack>>

Next == \/ \E t \in Structures : Push(t) \/ Pull(t)
        \/ Send

Spec == Init /\ [][Next]_vars

--------------------------------------------------------------------------------
(***************************************************************************)
(* A message is a stack, at either end and from one to the other: however  *)
(* it is packed, unpacked and sent on, its body is what was packed and not *)
(* unpacked, byte by byte, operator>> does not throw, and the stream keeps *)
(* its frames.                                                             *)
(***************************************************************************)
Holds(body, items) ==
  /\ Len(body) = End(items)
  /\ \A i \in DOMAIN items :
       /\ items[i].start = EndOf(items, i - 1)
       /\ \A k \in 1..sizeof(items[i].type) :
            body[items[i].start + k] = Bytes(items[i])[k]

StackKept == intact => Holds(msg.body, stack) /\ ~thrown /\ framed

(***************************************************************************)
(* operator>> gives back, unchanged, the structure on top of the message,  *)
(* also when the other end packed it.                                      *)
(***************************************************************************)
ReturnsTop ==
  [][intact' /\ Len(results') > Len(results) =>
       Last(results') = [type |-> Last(stack).type, bytes |-> Bytes(Last(stack))]]_vars
================================================================================
