---------------------------------- MODULE Timers ---------------------------------
(***************************************************************************)
(* The handshake timers of a process: AsyncTimer (NetCommon.hpp), the      *)
(* Singleton it is, and the connections that add and remove a timer        *)
(* (AConnection's constructor and ReadValidation).                         *)
(*                                                                         *)
(* All servers of a process share the one AsyncTimer, and each of them     *)
(* counts the ids of its connections from the same number: connections of  *)
(* two servers have the same id.  A server is here the thread of its       *)
(* context, which handles one connection after the other; each timer is a  *)
(* thread; the application may destroy the singleton.                      *)
(*                                                                         *)
(* An operation on the map, which has no lock, is one step; so is addTimer *)
(* with the thread it starts.  The map is destroyed with its object.       *)
(* Using an object that was deleted either does no harm or ends the        *)
(* program; what is put into its map may be there or not.                  *)
(***************************************************************************)
EXTENDS Singleton

CONSTANTS Application,     \* the thread that calls Destruct
          MaxConnections,  \* bound: connections of each server
          MaxTotal,        \* bound: connections of all servers
          MaxDestructs     \* bound: calls of Destruct

ASSUME ApplicationAssumption == Application \in Threads
ASSUME BoundsAssumption == {MaxConnections, MaxTotal, MaxDestructs} \subseteq Nat

Servers == Threads \ {Application}
Ids == 1..MaxConnections
Connections == Servers \X Ids
Id(c) == c[2]

\* Construct makes an object only where there is none.
Objects == 1..(MaxDestructs + 1)
NoConnection == <<NoThread, 0>>

VARIABLES
  running,    \* the program has not been ended by an exception or a fault
  destructs,  \* history: calls of Destruct
  count,      \* of each server: connections so far, the last one's id_
  serving,    \* of each server: the id of the connection its thread is at work on
  open,       \* connections whose socket is open
  reading,    \* connections that wait for the client's answer
  validated,  \* connections whose answer was right
  callbacks,  \* callbacks_ of each object: the connection an id's callback closes
  timer,      \* the thread of each connection's timer
  on,         \* the object that thread uses, the this of addTimer
  function    \* the callback it calls: the connection that one closes

connectionVars == <<count, serving, open, reading, validated>>
timerVars == <<callbacks, timer, on, function>>
vars == <<running, destructs, singletonVars, connectionVars, timerVars>>

\* A map without an entry.
NoEntries == [i \in Ids |-> NoConnection]

TimerSteps == {"none", "sleeping", "found", "calling", "called", "over"}

Steps == {"idle", "constructing", "constructed", "getting", "adding",
          "asking", "removing", "destructing", "storing"}

TypeOK ==
  /\ SingletonTypeOK
  /\ step \in [Threads -> Steps]
  /\ made <= destructs + 1
  /\ running \in BOOLEAN
  /\ destructs \in 0..MaxDestructs
  /\ count \in [Servers -> 0..MaxConnections]
  /\ serving \in [Servers -> 0..MaxConnections]
  /\ open \subseteq Connections /\ reading \subseteq Connections
  /\ validated \subseteq Connections
  /\ callbacks \in [Objects -> [Ids -> Connections \cup {NoConnection}]]
  /\ timer \in [Connections -> TimerSteps]
  /\ on \in [Connections -> {0} \cup Objects]
  /\ function \in [Connections -> Connections \cup {NoConnection}]

Init ==
  /\ SingletonInit("idle")
  /\ running = TRUE /\ destructs = 0
  /\ count = [s \in Servers |-> 0]
  /\ serving = [s \in Servers |-> 0]
  /\ open = {} /\ reading = {} /\ validated = {}
  /\ callbacks = [o \in Objects |-> NoEntries]
  /\ timer = [c \in Connections |-> "none"]
  /\ on = [c \in Connections |-> 0]
  /\ function = [c \in Connections |-> NoConnection]

\* An object is used: deleted, that may end the program, null, it does.
Uses(o) == running' \in IF o = 0 THEN {FALSE}
                        ELSE IF o \in deleted THEN BOOLEAN ELSE {TRUE}

Served(s) == <<s, serving[s]>>

\* The connections that there have been.
Known == {c \in Connections : Id(c) <= count[c[1]]}

--------------------------------------------------------------------------------
(* A server's thread. *)

\* A new connection: its constructor calls AsyncTimer::Construct.
NewConnection(s) ==
  /\ running
  /\ count[s] < MaxConnections /\ Cardinality(Known) < MaxTotal
  /\ ConstructLoads(s, "idle", "constructing", "constructed")
  /\ count' = [count EXCEPT ![s] = @ + 1]
  /\ serving' = [serving EXCEPT ![s] = count'[s]]
  /\ open' = open \cup {<<s, count'[s]>>}
  /\ UNCHANGED <<running, destructs, reading, validated, timerVars>>

Constructs(s) ==
  /\ running
  /\ ConstructLocks(s, "constructing", "constructed")
  /\ UNCHANGED <<running, destructs, connectionVars, timerVars>>

\* GetInstance in ReadValidation, and in the handler of its read.
Gets(s) ==
  /\ running
  /\ \/ GetInstanceLoads(s, "constructed", "getting", "adding")
     \/ GetInstanceLocks(s, "getting", "adding")
     \/ GetInstanceLocks(s, "asking", "removing")
  /\ UNCHANGED <<running, destructs, connectionVars, timerVars>>

(***************************************************************************)
(* addTimer: the entry of the id, there or not, is overwritten, and a      *)
(* thread is started for this call.  Then the read of the answer is.       *)
(***************************************************************************)
addTimer(s) ==
  LET c == Served(s)
      o == pointer[s]
  IN  /\ running
      /\ Goes(s, "adding", "idle")
      /\ Uses(o)
      /\ IF o = 0 THEN UNCHANGED timerVars
                  ELSE /\ \/ callbacks' = [callbacks EXCEPT ![o][Id(c)] = c]
                          \/ o \in deleted /\ UNCHANGED callbacks
                       /\ timer' = [timer EXCEPT ![c] = "sleeping"]
                       /\ on' = [on EXCEPT ![c] = o]
                       /\ UNCHANGED function
      /\ reading' = reading \cup {c}
      /\ UNCHANGED <<destructs, instance, made, deleted, holder, pointer, count, serving,
                     open, validated>>

\* The read ends: with the right answer, or with a wrong one or an error.
Answered(s) ==
  /\ running
  /\ \E i \in 1..count[s] :
        /\ <<s, i>> \in reading
        /\ reading' = reading \ {<<s, i>>}
        /\ serving' = [serving EXCEPT ![s] = i]
  /\ GetInstanceLoads(s, "idle", "asking", "removing")
  /\ UNCHANGED <<running, destructs, count, open, validated, timerVars>>

Failed(s) ==
  /\ running
  /\ step[s] = "idle"
  /\ \E c \in reading \cap ({s} \X Ids) :
        /\ reading' = reading \ {c}
        /\ open' = open \ {c}
  /\ UNCHANGED <<running, destructs, singletonVars, count, serving, validated, timerVars>>

removeTimer(s) ==
  LET o == pointer[s]
  IN  /\ running
      /\ Goes(s, "removing", "idle")
      /\ Uses(o)
      /\ IF o = 0 THEN UNCHANGED callbacks
                  ELSE callbacks' = [callbacks EXCEPT ![o][serving[s]] = NoConnection]
      /\ validated' = validated \cup {Served(s)}
      /\ UNCHANGED <<destructs, instance, made, deleted, holder, pointer, count, serving,
                     open, reading, timer, on, function>>

--------------------------------------------------------------------------------
(* The thread of a timer: find, operator[], the call, erase. *)

Entry(c) == callbacks[on[c]][Id(c)]

\* callbacks_.find(id) != callbacks_.end() (mutated: == instead of !=).
NotFound(c) == Entry(c) = NoConnection
Found(c) == Entry(c) # NoConnection

TimerGoes(c, from, to) == timer[c] = from /\ timer' = [timer EXCEPT ![c] = to]

TimerWakes(c) ==
  /\ running
  /\ TimerGoes(c, "sleeping", IF Found(c) THEN "found" ELSE "over")
  /\ Uses(on[c])
  /\ UNCHANGED <<destructs, singletonVars, connectionVars, callbacks, on, function>>

\* The callback of the entry, which may be another connection's; an entry
\* that was removed meanwhile is an empty function, and its call throws.
TimerLooks(c) ==
  /\ running
  /\ TimerGoes(c, "found", "calling")
  /\ function' = [function EXCEPT ![c] = Entry(c)]
  /\ IF Entry(c) = NoConnection THEN running' = FALSE ELSE Uses(on[c])
  /\ UNCHANGED <<destructs, singletonVars, connectionVars, callbacks, on>>

\* The callback closes its connection, if it is not destroyed under its call,
\* by an erase of the entry, by another callback put there, or by Destruct.
TimerCalls(c) ==
  /\ running
  /\ TimerGoes(c, "calling", "called")
  /\ IF Entry(c) = function[c] THEN Uses(on[c]) ELSE running' \in BOOLEAN
  /\ open' = open \ {function[c]}
  /\ UNCHANGED <<destructs, singletonVars, count, serving, reading, validated,
                 callbacks, on, function>>

\* callbacks_.erase(id), whosever it is by now (mutated: forgotten).
KeepEntry(c) == UNCHANGED callbacks
EraseEntry(c) == callbacks' = [callbacks EXCEPT ![on[c]][Id(c)] = NoConnection]

TimerErases(c) ==
  /\ running
  /\ TimerGoes(c, "called", "over")
  /\ Uses(on[c])
  /\ EraseEntry(c)
  /\ UNCHANGED <<destructs, singletonVars, connectionVars, on, function>>

--------------------------------------------------------------------------------
(* The application. *)

Destruct ==
  /\ running
  /\ destructs < MaxDestructs
  /\ destructs' = destructs + 1
  /\ DestructLoads(Application, "idle", "destructing", "idle")
  /\ UNCHANGED <<running, connectionVars, timerVars>>

\* delete destroys callbacks_ with its object.
Destructs ==
  /\ running
  /\ \/ DestructLocks(Application, "destructing", "storing", "idle")
     \/ DestructStores(Application, "storing", "idle")
  /\ callbacks' = [o \in Objects |-> IF o \in deleted' \ deleted THEN NoEntries
                                                               ELSE callbacks[o]]
  /\ UNCHANGED <<running, destructs, connectionVars, timer, on, function>>

--------------------------------------------------------------------------------
\* What a thread goes on with, once it has begun.
Continues(s) == Constructs(s) \/ Gets(s) \/ addTimer(s) \/ removeTimer(s)
Timer(c) == TimerWakes(c) \/ TimerLooks(c) \/ TimerCalls(c) \/ TimerErases(c)

Next == \/ \E s \in Servers : NewConnection(s) \/ Answered(s) \/ Failed(s) \/ Continues(s)
        \/ \E c \in Connections : Timer(c)
        \/ Destruct \/ Destructs

(***************************************************************************)
(* A thread goes on with what it has begun, and a timer's thread wakes.    *)
(* Clients need not connect or answer.                                     *)
(***************************************************************************)
Fairness == /\ \A s \in Servers : WF_vars(Continues(s))
            /\ \A c \in Connections : WF_vars(Timer(c))
            /\ WF_vars(Destructs)

Spec == Init /\ [][Next]_vars /\ Fairness

--------------------------------------------------------------------------------
(***************************************************************************)
(* The double-checked lock makes one object at a time and loses none:      *)
(* whoever constructs at once, one object is alive at most, and it is the  *)
(* one instance_ points to; and what it points to is alive, but for the    *)
(* moment in which Destruct holds the lock.                                *)
(***************************************************************************)
OneObject == /\ (1..made) \ deleted \subseteq {instance}
             /\ holder = NoThread => instance \notin deleted

(***************************************************************************)
(* A connection that has called Construct gets the one object, at each of  *)
(* its two uses of the timer and whatever other servers do, as long as     *)
(* nobody calls Destruct.                                                  *)
(***************************************************************************)
TimerIsThere ==
  destructs = 0 =>
    \A s \in Servers : step[s] \in {"adding", "removing"} => pointer[s] = 1

(***************************************************************************)
(* GetInstance returns an object that was deleted only while Destruct is   *)
(* between its two steps, never before or after.                           *)
(***************************************************************************)
NoStalePointer ==
  [][\A t \in Threads : pointer'[t] # pointer[t] /\ holder = NoThread =>
                          pointer'[t] \notin deleted]_vars

(***************************************************************************)
(* No callback is forgotten: as long as an entry is in the map, a thread   *)
(* of its id is still to look at it, however servers that count alike      *)
(* overwrite, call and remove each other's.                                *)
(***************************************************************************)
EntryHasThread ==
  \A o \in Objects, i \in Ids :
     callbacks[o][i] # NoConnection =>
       \E c \in Connections : Id(c) = i /\ on[c] = o /\ timer[c] \notin {"none", "over"}

(***************************************************************************)
(* A client that does not answer is timed out, unless the object is        *)
(* deleted first, or a connection of the same id meets this one: puts its  *)
(* own callback in the place of this one's, is about to remove it by its   *)
(* answer, or has a timer about to erase it.  A connection of the same id  *)
(* that is done with its timer does not count.                             *)
(***************************************************************************)
Meets(c) ==
  \E d \in Known \ {c} :
     /\ Id(d) = Id(c)
     /\ \/ Entry(c) = d
        \/ step[d[1]] \in {"asking", "removing"} /\ Served(d[1]) = d
        \/ timer[d] \in {"calling", "called"}

SilentIsClosed ==
  \A c \in Connections :
     running /\ c \in reading \cap open /\ Entry(c) = c ~>
       ~running \/ c \notin reading \cap open \/ on[c] \in deleted \/ Meets(c)
================================================================================
