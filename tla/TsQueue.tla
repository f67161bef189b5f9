-------------------------------- MODULE TsQueue --------------------------------
(***************************************************************************)
(* TsQueue (NetTsqueue.hpp) between the threads that use it: context       *)
(* threads that push the messages they received, and application threads   *)
(* that take them out in ServerInterface::Update.                          *)
(*                                                                         *)
(* The queue has two mutexes: mutex_ guards the deque, blockingMutex_ the  *)
(* condition variable.  push_back holds the first while it takes the       *)
(* second; wait() looks at the deque under the first and sleeps under the  *)
(* second, and holds neither in between.  Every acquisition is a step of   *)
(* its own; a critical section that takes no other lock is part of it.     *)
(***************************************************************************)
EXTENDS Naturals, Sequences, FiniteSets

CONSTANTS Producers,   \* context threads, which push
          Consumers,   \* application threads, which run Update
          Limits,      \* the maxMessages they call Update with
          Waits,       \* the values of wait they call Update with
          MaxPushes,   \* bound: pushes in a behaviour
          Nobody       \* the owner of a free mutex

Threads == Producers \cup Consumers

ASSUME ThreadsAssumption == Producers \cap Consumers = {}
ASSUME LimitsAssumption == Limits \subseteq Nat \ {0}
ASSUME WaitsAssumption == Waits \subseteq BOOLEAN
ASSUME MaxPushesAssumption == MaxPushes \in Nat
ASSUME NobodyAssumption == Nobody \notin Threads

VARIABLES
  queue,      \* queue_: the messages, numbered in the order they are pushed
  pushed,     \* history: all messages pushed, oldest first
  handled,    \* history: all messages taken out for OnMessage, oldest first
  mutex,      \* the thread that holds mutex_ between two steps
  blocking,   \* the thread that holds blockingMutex_ between two steps
  pc,         \* where each thread is
  limit,      \* maxMessages of the Update each consumer runs
  count       \* its messageCount

vars == <<queue, pushed, handled, mutex, blocking, pc, limit, count>>

(***************************************************************************)
(* Threads inside wait() on the condition variable.                        *)
(***************************************************************************)
Sleepers == {c \in Consumers : pc[c] = "sleeping"}

TypeOK ==
  /\ queue \in Seq(1 .. MaxPushes)
  /\ pushed \in Seq(1 .. MaxPushes)
  /\ handled \in Seq(1 .. MaxPushes)
  /\ mutex \in Threads \cup {Nobody}
  /\ blocking \in Threads \cup {Nobody}
  /\ pc \in [Threads -> {"idle", "pushed", "checking", "locking", "locked",
                         "sleeping", "woken", "polling", "popping"}]
  /\ \A p \in Producers : pc[p] \in {"idle", "pushed"}
  /\ \A c \in Consumers : pc[c] # "pushed"
  /\ limit \in [Consumers -> Nat]
  /\ count \in [Consumers -> Nat]

Init ==
  /\ queue = <<>>
  /\ pushed = <<>>
  /\ handled = <<>>
  /\ mutex = Nobody
  /\ blocking = Nobody
  /\ pc = [t \in Threads |-> "idle"]
  /\ limit = [c \in Consumers |-> 0]
  /\ count = [c \in Consumers |-> 0]

Goto(t, l) == pc' = [pc EXCEPT ![t] = l]

--------------------------------------------------------------------------------
(* push_back *)

\* emplace_back (mutated: emplace_front).
WithFront(m) == <<m>> \o queue
WithBack(m) == Append(queue, m)

\* Takes mutex_ and appends; mutex_ is held until push_back returns.
PushAppend(p) ==
  LET m == Len(pushed) + 1
  IN  /\ pc[p] = "idle"
      /\ mutex = Nobody
      /\ m <= MaxPushes
      /\ mutex' = p
      /\ queue' = WithBack(m)
      /\ pushed' = Append(pushed, m)
      /\ Goto(p, "pushed")
      /\ UNCHANGED <<handled, blocking, limit, count>>

\* notify_one wakes one thread that sleeps on blocking_, if there is one.
NotifyOne(p) ==
  IF Sleepers = {} THEN Goto(p, "idle")
  ELSE \E c \in Sleepers : pc' = [pc EXCEPT ![p] = "idle", ![c] = "woken"]

\* The scoped_lock of push_back ends (mutated: it does not).
KeepMutex == UNCHANGED mutex
ReleaseMutex == mutex' = Nobody

\* Takes blockingMutex_, notifies, and releases both mutexes.
PushNotify(p) ==
  /\ pc[p] = "pushed"
  /\ blocking = Nobody
  /\ NotifyOne(p)
  /\ ReleaseMutex
  /\ UNCHANGED <<queue, pushed, handled, blocking, limit, count>>

--------------------------------------------------------------------------------
(* Update(maxMessages, wait) *)

Update(c) ==
  /\ pc[c] = "idle"
  /\ \E n \in Limits, wait \in Waits :
        /\ limit' = [limit EXCEPT ![c] = n]
        /\ Goto(c, IF wait THEN "checking" ELSE "polling")
  /\ count' = [count EXCEPT ![c] = 0]
  /\ UNCHANGED <<queue, pushed, handled, mutex, blocking>>

\* empty(), under mutex_ (mutated: never).
NeverEmpty == FALSE
Empty == queue = <<>>

\* wait(): while (empty()), under mutex_ alone.
WaitCheck(c) ==
  /\ pc[c] = "checking"
  /\ mutex = Nobody
  /\ Goto(c, IF Empty THEN "locking" ELSE "polling")
  /\ UNCHANGED <<queue, pushed, handled, mutex, blocking, limit, count>>

WaitLock(c) ==
  /\ pc[c] = "locking"
  /\ blocking = Nobody
  /\ blocking' = c
  /\ Goto(c, "locked")
  /\ UNCHANGED <<queue, pushed, handled, mutex, limit, count>>

\* blocking_.wait(ul) releases blockingMutex_ and sleeps, in one step.
WaitSleep(c) ==
  /\ pc[c] = "locked"
  /\ blocking' = Nobody
  /\ Goto(c, "sleeping")
  /\ UNCHANGED <<queue, pushed, handled, mutex, limit, count>>

\* A condition variable may also wake a thread that nobody notified.
SpuriousWakeup(c) ==
  /\ pc[c] = "sleeping"
  /\ Goto(c, "woken")
  /\ UNCHANGED <<queue, pushed, handled, mutex, blocking, limit, count>>

\* WaitReturn as it would be if blockingMutex_ were kept while empty() asks.
WaitReturnLocked(c) ==
  /\ pc[c] = "woken"
  /\ blocking = Nobody
  /\ blocking' = c
  /\ Goto(c, "checking")
  /\ UNCHANGED <<queue, pushed, handled, mutex, limit, count>>

\* The thread takes blockingMutex_ again; ul goes out of scope; empty() again.
WaitReturn(c) ==
  /\ pc[c] = "woken"
  /\ blocking = Nobody
  /\ Goto(c, "checking")
  /\ UNCHANGED <<queue, pushed, handled, mutex, blocking, limit, count>>

\* messageCount < maxMessages (mutated: off by one).
OneLess(c) == count[c] + 1 < limit[c]
MoreWanted(c) == count[c] < limit[c]

\* messageCount < maxMessages && !empty(), the latter under mutex_.
PollCheck(c) ==
  /\ pc[c] = "polling"
  /\ \/ ~MoreWanted(c) /\ Goto(c, "idle")
     \/ /\ MoreWanted(c)
        /\ mutex = Nobody
        /\ Goto(c, IF Empty THEN "idle" ELSE "popping")
  /\ UNCHANGED <<queue, pushed, handled, mutex, blocking, limit, count>>

\* messageCount++ (mutated: --).
CountedDown(c) == count[c] - 1
Counted(c) == count[c] + 1

(***************************************************************************)
(* pop_front(), under mutex_ again, then OnMessage.  On an empty deque     *)
(* pop_front() is undefined behaviour: no step.                            *)
(***************************************************************************)
Pop(c) ==
  /\ pc[c] = "popping"
  /\ mutex = Nobody
  /\ queue # <<>>
  /\ queue' = Tail(queue)
  /\ handled' = Append(handled, Head(queue))
  /\ count' = [count EXCEPT ![c] = Counted(c)]
  /\ Goto(c, "polling")
  /\ UNCHANGED <<pushed, mutex, blocking, limit>>

Producer(p) == PushAppend(p) \/ PushNotify(p)

Wait(c) == WaitCheck(c) \/ WaitLock(c) \/ WaitSleep(c) \/ WaitReturn(c)

Consumer(c) == Update(c) \/ Wait(c) \/ PollCheck(c) \/ Pop(c)

Next == \/ \E p \in Producers : Producer(p)
        \/ \E c \in Consumers : Consumer(c) \/ SpuriousWakeup(c)

Spec == Init /\ [][Next]_vars

(***************************************************************************)
(* Threads are scheduled, and the application calls Update again and       *)
(* again.  Nothing is assumed of the order in which a mutex is handed out. *)
(***************************************************************************)
Fairness == /\ \A p \in Producers : WF_vars(PushNotify(p))
            /\ \A c \in Consumers : WF_vars(Consumer(c))

FairSpec == Spec /\ Fairness

--------------------------------------------------------------------------------
(***************************************************************************)
(* The locks: mutex_ is held by the thread that is in push_back,           *)
(* blockingMutex_ by the one about to sleep, each by one thread at most.   *)
(***************************************************************************)
Locks == /\ \A t \in Threads : pc[t] = "pushed" <=> mutex = t
         /\ \A t \in Threads : pc[t] = "locked" <=> blocking = t

(***************************************************************************)
(* Update never calls pop_front() on an empty deque, though it asks        *)
(* empty() and pops under two different acquisitions of mutex_.  (For one  *)
(* application thread, the only use the class is safe for.)                *)
(***************************************************************************)
NoPopOnEmpty == \A c \in Consumers : pc[c] = "popping" => queue # <<>>

(***************************************************************************)
(* Nothing is lost, invented, repeated or reordered between push_back and  *)
(* OnMessage, under any interleaving of the threads.                       *)
(***************************************************************************)
Fifo == INSTANCE FifoChannel WITH Message <- 1 .. MaxPushes, sent <- pushed,
                                  received <- handled, closed <- FALSE

UpdateIsFifo == Fifo!Spec

(***************************************************************************)
(* push_back() returns: its thread holds mutex_ while it asks for          *)
(* blockingMutex_, and no thread that holds blockingMutex_ ever asks for   *)
(* mutex_.                                                                 *)
(***************************************************************************)
PushReturns == \A p \in Producers : pc[p] = "pushed" ~> pc[p] = "idle"

(***************************************************************************)
(* An application that polls, as the documentation's examples do, handles  *)
(* everything that was pushed.                                             *)
(***************************************************************************)
PollingHandlesAll ==
  (\A c \in Consumers : [](pc[c] # "checking")) => []<>(handled = pushed)

(***************************************************************************)
(* wait(): "Waits until Queue is not empty".                               *)
(***************************************************************************)
WaitEndsWhenNotEmpty ==
  \A c \in Consumers : pc[c] = "sleeping" /\ queue # <<>> ~> pc[c] # "sleeping"
================================================================================
