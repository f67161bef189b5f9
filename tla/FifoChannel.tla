------------------------------ MODULE FifoChannel ------------------------------
(***************************************************************************)
(* What one direction of a TcpConnection promises to the application: the  *)
(* messages handed to Send at one end come out of the incoming queue of    *)
(* the other end in the order they were sent, none invented, none twice    *)
(* and none skipped.  The channel may be closed at any moment; what was    *)
(* not received by then may be lost, but only the end of the stream.       *)
(***************************************************************************)
EXTENDS Naturals, Sequences

CONSTANT Message

VARIABLES sent,      \* every message handed to the channel, oldest first
          received,  \* every message handed out by the channel, oldest first
          closed     \* one of the two ends has given up the channel

vars == <<sent, received, closed>>

TypeOK == /\ sent \in Seq(Message)
          /\ received \in Seq(Message)
          /\ closed \in BOOLEAN

Init == sent = <<>> /\ received = <<>> /\ closed = FALSE

Put == /\ \E m \in Message : sent' = Append(sent, m)
       /\ UNCHANGED <<received, closed>>

Get == /\ Len(received) < Len(sent)
       /\ received' = Append(received, sent[Len(received) + 1])
       /\ UNCHANGED <<sent, closed>>

Close == /\ closed' = TRUE
         /\ UNCHANGED <<sent, received>>

Next == Put \/ Get \/ Close

Spec == Init /\ [][Next]_vars

(***************************************************************************)
(* A channel that stays open delivers everything it was given.             *)
(***************************************************************************)
FairSpec == Spec /\ WF_vars(~closed /\ Get)

InOrder == /\ Len(received) <= Len(sent)
           /\ \A i \in 1 .. Len(received) : received[i] = sent[i]
================================================================================
