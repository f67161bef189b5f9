----------------------------- MODULE TsQueueProofs -----------------------------
(***************************************************************************)
(* Proofs about TsQueue, for any number of context threads and, except for *)
(* NoPopOnEmpty, any number of application threads.                        *)
(***************************************************************************)
EXTENDS TsQueue, SequenceTheorems, TLAPS

(***************************************************************************)
(* What the two ends of a queue do to the history pushed = handled \o      *)
(* queue: appending extends it, moving the head over leaves it alone.      *)
(* AppendRight is about the two variables themselves, MoveHead about any   *)
(* two sequences.                                                          *)
(***************************************************************************)
LEMMA AppendRight ==
  ASSUME NEW S, handled \in Seq(S), queue \in Seq(S), NEW m \in S
  PROVE  Append(handled \o queue, m) = handled \o Append(queue, m)
<1>1. /\ Append(handled \o queue, m) \in Seq(S)
      /\ handled \o Append(queue, m) \in Seq(S)
  OBVIOUS
<1>2. Len(Append(handled \o queue, m)) = Len(handled \o Append(queue, m))
  OBVIOUS
<1>3. \A i \in 1 .. Len(Append(handled \o queue, m)) :
         Append(handled \o queue, m)[i] = (handled \o Append(queue, m))[i]
  OBVIOUS
<1> QED
  BY <1>1, <1>2, <1>3, SeqEqual

\* The head of one sequence goes to the end of another.
LEMMA MoveHead ==
  ASSUME NEW S, NEW h \in Seq(S), NEW q \in Seq(S), q # <<>>
  PROVE  /\ Append(h, Head(q)) \o Tail(q) = h \o q
         /\ Len(h) < Len(h \o q)
         /\ (h \o q)[Len(h) + 1] = Head(q)
<1>1. Head(q) \in S /\ Tail(q) \in Seq(S) /\ Len(Tail(q)) = Len(q) - 1
  BY HeadTailProperties
<1>2. Len(q) \in Nat /\ Len(q) > 0
  BY EmptySeq, LenProperties
<1>3. Len(Append(h, Head(q)) \o Tail(q)) = Len(h \o q)
  BY <1>1, <1>2
<1>4. \A i \in 1 .. Len(h \o q) : (Append(h, Head(q)) \o Tail(q))[i] = (h \o q)[i]
  BY <1>1, <1>2
<1>5. Append(h, Head(q)) \o Tail(q) = h \o q
  BY <1>1, <1>3, <1>4, SeqEqual
<1> QED
  BY <1>2, <1>5
--------------------------------------------------------------------------------
(***************************************************************************)
(* The types of the variables, and what the processors need to know of the *)
(* constants.                                                              *)
(***************************************************************************)
USE ThreadsAssumption, LimitsAssumption, WaitsAssumption, MaxPushesAssumption,
    NobodyAssumption DEF Threads

\* The types of the queue, its locks and its threads.
THEOREM TypeCorrect == Spec => []TypeOK
<1>1. Init => TypeOK
  BY DEF Init, TypeOK
<1>2. TypeOK /\ [Next]_vars => TypeOK'
  <2> SUFFICES ASSUME TypeOK, [Next]_vars
               PROVE  TypeOK'
    OBVIOUS
  <2> USE DEF TypeOK, Goto
  <2>1. ASSUME NEW p \in Producers, PushAppend(p)
        PROVE  TypeOK'
    BY <2>1 DEF PushAppend, WithBack
  <2>2. ASSUME NEW p \in Producers, PushNotify(p)
        PROVE  TypeOK'
    BY <2>2 DEF PushNotify, NotifyOne, ReleaseMutex, Sleepers
  <2>3. ASSUME NEW c \in Consumers, Update(c)
        PROVE  TypeOK'
    BY <2>3 DEF Update
  <2>4. ASSUME NEW c \in Consumers, Wait(c)
        PROVE  TypeOK'
    BY <2>4 DEF Wait, WaitCheck, WaitLock, WaitSleep, WaitReturn, Empty
  <2>5. ASSUME NEW c \in Consumers, PollCheck(c)
        PROVE  TypeOK'
    BY <2>5 DEF PollCheck, MoreWanted, Empty
  <2>6. ASSUME NEW c \in Consumers, Pop(c)
        PROVE  TypeOK'
    <3>1. queue \in Seq(1 .. MaxPushes) /\ queue # <<>>
      BY <2>6 DEF Pop
    <3>2. Head(queue) \in 1 .. MaxPushes /\ Tail(queue) \in Seq(1 .. MaxPushes)
      BY <3>1, HeadTailProperties
    <3>3. handled' \in Seq(1 .. MaxPushes) /\ queue' \in Seq(1 .. MaxPushes)
      BY <2>6, <3>2 DEF Pop
    <3>4. count' \in [Consumers -> Nat]
      BY <2>6 DEF Pop, Counted
    <3> QED
      BY <2>6, <3>3, <3>4 DEF Pop
  <2>7. ASSUME NEW c \in Consumers, SpuriousWakeup(c)
        PROVE  TypeOK'
    BY <2>7 DEF SpuriousWakeup
  <2>8. CASE UNCHANGED vars
    BY <2>8 DEF vars
  <2> QED
    BY <2>1, <2>2, <2>3, <2>4, <2>5, <2>6, <2>7, <2>8 DEF Next, Producer, Consumer
<1> QED
  BY <1>1, <1>2, PTL DEF Spec
--------------------------------------------------------------------------------
(***************************************************************************)
(* The ownership of the mutexes is inductive by itself, given the types.   *)
(***************************************************************************)
THEOREM LocksCorrect == Spec => []Locks
<1>1. Init => Locks
  BY DEF Init, Locks
<1>2. TypeOK /\ Locks /\ [Next]_vars => Locks'
  <2> SUFFICES ASSUME TypeOK, Locks, [Next]_vars
               PROVE  Locks'
    OBVIOUS
  <2> USE DEF TypeOK, Locks, Goto
  <2>1. ASSUME NEW p \in Producers, PushAppend(p)
        PROVE  Locks'
    BY <2>1 DEF PushAppend, WithBack
  <2>2. ASSUME NEW p \in Producers, PushNotify(p)
        PROVE  Locks'
    <3>1. /\ pc[p] = "pushed" /\ mutex' = Nobody
          /\ blocking = Nobody /\ blocking' = Nobody
      BY <2>2 DEF PushNotify, ReleaseMutex
    <3>2. mutex = p
      BY <3>1
    <3>3. \A t \in Threads : \/ pc'[t] = pc[t] /\ t # p
                             \/ pc'[t] \in {"idle", "woken"}
      <4>1. CASE Sleepers = {}
        BY <2>2, <4>1 DEF PushNotify, NotifyOne
      <4>2. CASE Sleepers # {}
        <5>1. PICK c \in Sleepers : pc' = [pc EXCEPT ![p] = "idle", ![c] = "woken"]
          BY <2>2, <4>2 DEF PushNotify, NotifyOne
        <5> QED
          BY <5>1 DEF Sleepers
      <4> QED
        BY <4>1, <4>2
    <3>4. \A t \in Threads : pc'[t] # "pushed" /\ pc'[t] # "locked"
      BY <3>1, <3>2, <3>3
    <3> QED
      BY <3>1, <3>4
  <2>3. ASSUME NEW c \in Consumers, Update(c)
        PROVE  Locks'
    BY <2>3 DEF Update
  <2>4. ASSUME NEW c \in Consumers, Wait(c)
        PROVE  Locks'
    <3>1. CASE WaitCheck(c)
      BY <3>1 DEF WaitCheck, Empty
    <3>2. CASE WaitLock(c)
      BY <3>2 DEF WaitLock
    <3>3. CASE WaitSleep(c)
      BY <3>3 DEF WaitSleep
    <3>4. CASE WaitReturn(c)
      BY <3>4 DEF WaitReturn
    <3> QED
      BY <2>4, <3>1, <3>2, <3>3, <3>4 DEF Wait
  <2>5. ASSUME NEW c \in Consumers, PollCheck(c)
        PROVE  Locks'
    BY <2>5 DEF PollCheck, MoreWanted, Empty
  <2>6. ASSUME NEW c \in Consumers, Pop(c)
        PROVE  Locks'
    BY <2>6 DEF Pop
  <2>7. ASSUME NEW c \in Consumers, SpuriousWakeup(c)
        PROVE  Locks'
    BY <2>7 DEF SpuriousWakeup
  <2>8. CASE UNCHANGED vars
    BY <2>8 DEF vars
  <2> QED
    BY <2>1, <2>2, <2>3, <2>4, <2>5, <2>6, <2>7, <2>8 DEF Next, Producer, Consumer
<1> QED
  BY <1>1, <1>2, TypeCorrect, PTL DEF Spec

(***************************************************************************)
(* With one application thread, what empty() said under one acquisition of *)
(* mutex_ is still so when pop_front() takes it again: other threads only  *)
(* push in between.                                                        *)
(***************************************************************************)
THEOREM PopIsSafe ==
  ASSUME \A c, d \in Consumers : c = d
  PROVE  Spec => []NoPopOnEmpty
<1>1. Init => NoPopOnEmpty
  BY DEF Init, NoPopOnEmpty
<1>2. TypeOK /\ NoPopOnEmpty /\ [Next]_vars => NoPopOnEmpty'
  <2> SUFFICES ASSUME TypeOK, NoPopOnEmpty, [Next]_vars
               PROVE  NoPopOnEmpty'
    OBVIOUS
  <2> USE DEF TypeOK, NoPopOnEmpty, Goto
  <2>1. ASSUME NEW p \in Producers, PushAppend(p)
        PROVE  NoPopOnEmpty'
    <3>1. queue' # <<>>
      <4>1. queue \in Seq(1 .. MaxPushes) /\ Len(pushed) + 1 \in 1 .. MaxPushes
        BY <2>1 DEF PushAppend, WithBack
      <4>2. Len(queue') = Len(queue) + 1 /\ Len(queue) \in Nat
        BY <2>1, <4>1 DEF PushAppend, WithBack
      <4> QED
        BY <4>2, EmptySeq
    <3> QED
      BY <3>1
  <2>2. ASSUME NEW p \in Producers, PushNotify(p)
        PROVE  NoPopOnEmpty'
    BY <2>2 DEF PushNotify, NotifyOne, ReleaseMutex, Sleepers
  <2>3. ASSUME NEW c \in Consumers, Update(c)
        PROVE  NoPopOnEmpty'
    BY <2>3 DEF Update
  <2>4. ASSUME NEW c \in Consumers, Wait(c)
        PROVE  NoPopOnEmpty'
    BY <2>4 DEF Wait, WaitCheck, WaitLock, WaitSleep, WaitReturn, Empty
  <2>5. ASSUME NEW c \in Consumers, PollCheck(c)
        PROVE  NoPopOnEmpty'
    BY <2>5 DEF PollCheck, MoreWanted, Empty
  <2>6. ASSUME NEW c \in Consumers, Pop(c)
        PROVE  NoPopOnEmpty'
    BY <2>6 DEF Pop
  <2>7. ASSUME NEW c \in Consumers, SpuriousWakeup(c)
        PROVE  NoPopOnEmpty'
    BY <2>7 DEF SpuriousWakeup
  <2>8. CASE UNCHANGED vars
    BY <2>8 DEF vars
  <2> QED
    BY <2>1, <2>2, <2>3, <2>4, <2>5, <2>6, <2>7, <2>8 DEF Next, Producer, Consumer
<1> QED
  BY <1>1, <1>2, TypeCorrect, PTL DEF Spec

(***************************************************************************)
(* The strengthening that makes the refinement inductive: what was pushed  *)
(* is what was handled followed by what is queued.                         *)
(***************************************************************************)
NothingLost == pushed = handled \o queue

\* No message is lost, invented or moved between push and pop.
THEOREM NothingIsLost == Spec => []NothingLost
<1>1. Init => NothingLost
  BY DEF Init, NothingLost
<1>2. TypeOK /\ NothingLost /\ [Next]_vars => NothingLost'
  <2> SUFFICES ASSUME TypeOK, NothingLost, [Next]_vars
               PROVE  NothingLost'
    OBVIOUS
  <2>1. ASSUME NEW p \in Producers, PushAppend(p)
        PROVE  NothingLost'
    <3>1. Len(pushed) + 1 \in 1 .. MaxPushes
      BY <2>1 DEF PushAppend, TypeOK
    <3> QED
      BY <2>1, <3>1, AppendRight DEF PushAppend, WithBack, NothingLost, TypeOK
  <2>2. ASSUME NEW c \in Consumers, Pop(c)
        PROVE  NothingLost'
    <3>1. handled \in Seq(1 .. MaxPushes) /\ queue \in Seq(1 .. MaxPushes)
      BY DEF TypeOK
    <3>2. Append(handled, Head(queue)) \o Tail(queue) = handled \o queue
      BY <2>2, <3>1, MoveHead, Zenon DEF Pop
    <3> QED
      BY <2>2, <3>2 DEF Pop, NothingLost
  <2>3. CASE UNCHANGED <<queue, pushed, handled>>
    BY <2>3 DEF NothingLost
  <2> QED
    BY <2>1, <2>2, <2>3 DEF Next, Producer, Consumer, PushNotify, Update, Wait,
       WaitCheck, WaitLock, WaitSleep, WaitReturn, PollCheck, SpuriousWakeup, vars
<1> QED
  BY <1>1, <1>2, TypeCorrect, PTL DEF Spec

(***************************************************************************)
(* Every step of the queue is a step of the FIFO channel or leaves it      *)
(* alone: PushAppend is Put, Pop is Get.                                   *)
(***************************************************************************)
THEOREM QueueImplementsFifo == Spec => UpdateIsFifo
<1>1. Init => Fifo!Init
  BY DEF Init, Fifo!Init
<1>2. TypeOK /\ NothingLost /\ [Next]_vars => [Fifo!Next]_(Fifo!vars)
  <2> SUFFICES ASSUME TypeOK, NothingLost, [Next]_vars
               PROVE  [Fifo!Next]_(Fifo!vars)
    OBVIOUS
  <2>1. ASSUME NEW p \in Producers, PushAppend(p)
        PROVE  Fifo!Put
    BY <2>1 DEF PushAppend, WithBack, Fifo!Put, TypeOK
  <2>2. ASSUME NEW c \in Consumers, Pop(c)
        PROVE  Fifo!Get
    BY <2>2, MoveHead DEF Pop, Fifo!Get, NothingLost, TypeOK
  <2>3. CASE UNCHANGED <<queue, pushed, handled>>
    BY <2>3 DEF Fifo!vars
  <2> QED
    BY <2>1, <2>2, <2>3 DEF Next, Producer, Consumer, PushNotify, Update, Wait,
       WaitCheck, WaitLock, WaitSleep, WaitReturn, PollCheck, SpuriousWakeup, vars,
       Fifo!Next
<1> QED
  BY <1>1, <1>2, TypeCorrect, NothingIsLost, PTL DEF Spec, UpdateIsFifo, Fifo!Spec
================================================================================
