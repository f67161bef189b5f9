------------------------------- MODULE TimersProofs -------------------------------
(***************************************************************************)
(* The AsyncTimer that all servers of a process share: one object, there   *)
(* for whoever has constructed it, and no entry without a thread, for any  *)
(* number of servers, connections and calls of Destruct.                   *)
(***************************************************************************)
EXTENDS Timers, TLAPS

USE NoThreadAssumption, ApplicationAssumption, BoundsAssumption

(***************************************************************************)
(* Only the application destroys, and holds the lock while it does; the    *)
(* object it is about to replace by null is the one it has deleted.        *)
(***************************************************************************)
Locked ==
  /\ step[Application] \in {"idle", "destructing", "storing"}
  /\ \A s \in Servers : step[s] \notin {"destructing", "storing"}
  /\ holder = IF step[Application] = "storing" THEN Application ELSE NoThread
  /\ step[Application] = "storing" => instance \in deleted

(***************************************************************************)
(* Every object but the first replaces one that a call of Destruct has     *)
(* taken away.                                                             *)
(***************************************************************************)
Counted ==
  /\ instance = 0 => made <= destructs
  /\ step[Application] # "idle" => instance # 0 /\ made <= destructs

(***************************************************************************)
(* A connection that is on its way to its timer has none yet, and a timer  *)
(* that was started is the timer of an object.                             *)
(***************************************************************************)
Fresh ==
  /\ \A s \in Servers : step[s] # "idle" => serving[s] \in 1..count[s]
  /\ \A s \in Servers :
        step[s] \in {"constructing", "constructed", "getting", "adding"} =>
          timer[Served(s)] = "none"
  /\ \A c \in Connections : Id(c) > count[c[1]] => timer[c] = "none"
  /\ \A c \in Connections : timer[c] # "none" => on[c] \in Objects

IInv == TypeOK /\ Locked /\ OneObject /\ Counted /\ Fresh /\ EntryHasThread

--------------------------------------------------------------------------------
(* Types. *)

\* The ranges of the counters and pointers.
LEMMA Typing ==
  ASSUME TypeOK
  PROVE  /\ instance \in Nat /\ instance <= made /\ made \in Nat
         /\ made <= destructs + 1 /\ destructs \in Nat /\ destructs <= MaxDestructs
         /\ MaxDestructs \in Nat /\ MaxConnections \in Nat
         /\ \A t \in Threads : pointer[t] \in Nat /\ pointer[t] <= made
         /\ \A t \in Threads : pointer[t] # 0 => pointer[t] \in Objects
         /\ \A s \in Servers : count[s] \in Nat /\ count[s] <= MaxConnections
         /\ \A s \in Servers : serving[s] \in Nat /\ serving[s] <= MaxConnections
         /\ Servers \subseteq Threads /\ Application \notin Servers
BY DEF TypeOK, SingletonTypeOK, Servers, Objects

\* The connection a server is busy with.
LEMMA ServedTyping ==
  ASSUME TypeOK, NEW s \in Servers, serving[s] \in 1..count[s]
  PROVE  Served(s) \in Connections /\ Id(Served(s)) = serving[s] /\ Served(s)[1] = s
         /\ serving[s] \in Ids
<1>1. serving[s] \in Ids
  BY Typing DEF Ids
<1> QED
  BY <1>1 DEF Served, Connections, Id

\* A connection is a server and an id.
LEMMA ConnectionTyping ==
  ASSUME NEW c \in Connections
  PROVE  Id(c) \in Ids /\ c[1] \in Servers /\ c = <<c[1], Id(c)>> /\ c # NoConnection
<1>1. c[1] \in Servers /\ c[2] \in Ids /\ c = <<c[1], c[2]>>
  BY DEF Connections
<1>2. c[1] # NoThread
  BY <1>1 DEF Servers
<1> QED
  BY <1>1, <1>2 DEF Id, NoConnection

\* Where the threads go.
LEMMA StepTyping ==
  ASSUME TypeOK, NEW t \in Threads, NEW from, NEW to \in Steps, Goes(t, from, to)
  PROVE  step' \in [Threads -> Steps]
BY DEF TypeOK, Goes

(***************************************************************************)
(* What a step does to the singleton: a server constructs an object, or    *)
(* one of its threads goes on without changing it, or Destruct does one of *)
(* its three steps.                                                        *)
(***************************************************************************)
ServerSteps == Steps \ {"destructing", "storing"}

Passes(s) ==
  /\ \E to \in ServerSteps : step' = [step EXCEPT ![s] = to]
  /\ pointer' = pointer \/ pointer' = [pointer EXCEPT ![s] = instance]
  /\ UNCHANGED <<instance, made, deleted, holder, destructs>>

Creates(s) ==
  /\ \E to \in ServerSteps : step' = [step EXCEPT ![s] = to]
  /\ holder = NoThread
  /\ instance = 0 /\ made' = made + 1 /\ instance' = made + 1
  /\ UNCHANGED <<deleted, holder, pointer, destructs>>

\* What a step does to the singleton.
LEMMA Classified ==
  ASSUME TypeOK, [Next]_vars
  PROVE  \/ \E s \in Servers : Passes(s) \/ Creates(s)
         \/ Destruct \/ Destructs
         \/ UNCHANGED <<singletonVars, destructs>>
<1> USE DEF ServerSteps, Steps
<1>1. ASSUME NEW s \in Servers, NewConnection(s) \/ Answered(s)
      PROVE  Passes(s)
  BY <1>1 DEF NewConnection, Answered, ConstructLoads, GetInstanceLoads, Loads, Goes,
     Passes
<1>2. ASSUME NEW s \in Servers, Constructs(s)
      PROVE  Passes(s) \/ Creates(s)
  BY <1>2 DEF Constructs, ConstructLocks, StillNull, Goes, Passes, Creates
<1>3. ASSUME NEW s \in Servers, Gets(s)
      PROVE  Passes(s)
  BY <1>3 DEF Gets, GetInstanceLoads, GetInstanceLocks, Loads, Goes, Passes
<1>4. ASSUME NEW s \in Servers, addTimer(s) \/ removeTimer(s)
      PROVE  Passes(s)
  BY <1>4 DEF addTimer, removeTimer, Goes, Passes
<1>5. ASSUME NEW s \in Servers, Failed(s)
      PROVE  UNCHANGED <<singletonVars, destructs>>
  BY <1>5 DEF Failed
<1>6. ASSUME NEW c \in Connections, Timer(c)
      PROVE  UNCHANGED <<singletonVars, destructs>>
  BY <1>6 DEF Timer, TimerWakes, TimerLooks, TimerCalls, TimerErases
<1>7. CASE UNCHANGED vars
  BY <1>7 DEF vars
<1> QED
  BY <1>1, <1>2, <1>3, <1>4, <1>5, <1>6, <1>7 DEF Next, Continues

\* Every step keeps the types of the singleton.
LEMMA SingletonTypes ==
  ASSUME TypeOK, Counted, [Next]_vars
  PROVE  /\ SingletonTypeOK' /\ (made <= destructs + 1)'
         /\ (step \in [Threads -> Steps])' /\ (destructs \in 0..MaxDestructs)'
<1> USE DEF SingletonTypeOK
<1>0. step \in [Threads -> Steps] /\ SingletonTypeOK /\ made <= destructs + 1
  BY DEF TypeOK
<1>1. ASSUME NEW s \in Servers, Passes(s)
      PROVE  SingletonTypeOK' /\ (made <= destructs + 1)' /\ (step \in [Threads -> Steps])'
             /\ destructs' = destructs
  <2>1. step' \in [Threads -> Steps]
    BY <1>0, <1>1 DEF Passes, ServerSteps
  <2>2. pointer' \in [Threads -> 0..made]
    BY <1>0, <1>1 DEF Passes
  <2> QED
    BY <1>0, <1>1, <2>1, <2>2 DEF Passes
<1>2. ASSUME NEW s \in Servers, Creates(s)
      PROVE  SingletonTypeOK' /\ (made <= destructs + 1)' /\ (step \in [Threads -> Steps])'
             /\ destructs' = destructs
  <2>1. step' \in [Threads -> Steps]
    BY <1>0, <1>2 DEF Creates, ServerSteps
  <2>2. 0..made \subseteq 0..made' /\ 1..made \subseteq 1..made' /\ made' \in Nat
    BY <1>0, <1>2 DEF Creates
  <2>3. pointer' \in [Threads -> 0..made']
    BY <1>0, <1>2, <2>2 DEF Creates
  <2>4. made' <= destructs' + 1 /\ instance' \in 0..made'
    BY <1>0, <1>2, Typing DEF Creates, Counted
  <2> QED
    BY <1>0, <1>2, <2>1, <2>2, <2>3, <2>4 DEF Creates
<1>3. ASSUME Destruct
      PROVE  SingletonTypeOK' /\ (made <= destructs + 1)' /\ (step \in [Threads -> Steps])'
             /\ destructs' \in 0..MaxDestructs
  <2>1. step' \in [Threads -> Steps]
    BY <1>0, <1>3 DEF Destruct, DestructLoads, Loads, Goes, Steps
  <2>2. destructs' = destructs + 1 /\ destructs < MaxDestructs
        /\ UNCHANGED <<instance, made, deleted, holder, pointer>>
    BY <1>3 DEF Destruct, DestructLoads, Loads
  <2> QED
    BY <1>0, <2>1, <2>2, Typing
<1>4. ASSUME Destructs
      PROVE  SingletonTypeOK' /\ (made <= destructs + 1)' /\ (step \in [Threads -> Steps])'
             /\ destructs' = destructs
  <2>1. step' \in [Threads -> Steps]
    BY <1>0, <1>4 DEF Destructs, DestructLocks, DestructStores, Goes, Steps
  <2>2. UNCHANGED <<made, pointer, destructs>> /\ holder' \in Threads \cup {NoThread}
    BY <1>0, <1>4 DEF Destructs, DestructLocks, DestructStores
  <2>3. instance' \in 0..made /\ deleted' \subseteq 1..made
    <3>1. CASE DestructLocks(Application, "destructing", "storing", "idle")
      <4>1. instance # 0 => instance \in 1..made
        BY <1>0
      <4>2. deleted' = deleted \/ (instance # 0 /\ deleted' = deleted \cup {instance})
        BY <3>1 DEF DestructLocks
      <4>3. instance' = instance
        BY <3>1 DEF DestructLocks
      <4> QED
        BY <1>0, <4>1, <4>2, <4>3
    <3>2. CASE DestructStores(Application, "storing", "idle")
      BY <1>0, <3>2 DEF DestructStores, StoreNull
    <3> QED
      BY <1>4, <3>1, <3>2 DEF Destructs
  <2> QED
    BY <1>0, <2>1, <2>2, <2>3
<1>5. CASE UNCHANGED <<singletonVars, destructs>>
  BY <1>0, <1>5, Typing DEF singletonVars
<1>6. destructs \in 0..MaxDestructs
  BY DEF TypeOK
<1> QED
  BY <1>1, <1>2, <1>3, <1>4, <1>5, <1>6, Classified

--------------------------------------------------------------------------------
(* The singleton. *)

\* Every step keeps the lock with its holder.
LEMMA LockedStep ==
  ASSUME TypeOK, Locked, [Next]_vars
  PROVE  Locked'
<1> USE DEF Locked
<1>0. step \in [Threads -> Steps] /\ Application \notin Servers /\ Servers \subseteq Threads
  BY DEF TypeOK, Servers
<1>1. ASSUME NEW s \in Servers, Passes(s)
      PROVE  Locked'
  BY <1>0, <1>1 DEF Passes, ServerSteps
<1>2. ASSUME NEW s \in Servers, Creates(s)
      PROVE  Locked'
  BY <1>0, <1>2 DEF Creates, ServerSteps
<1>3. CASE Destruct
  BY <1>0, <1>3 DEF Destruct, DestructLoads, Loads, Goes
<1>4. CASE Destructs
  <2>1. CASE DestructLocks(Application, "destructing", "storing", "idle")
    BY <1>0, <2>1 DEF DestructLocks, Goes
  <2>2. CASE DestructStores(Application, "storing", "idle")
    BY <1>0, <2>2 DEF DestructStores, Goes
  <2> QED
    BY <1>4, <2>1, <2>2 DEF Destructs
<1>5. CASE UNCHANGED <<singletonVars, destructs>>
  BY <1>5 DEF singletonVars
<1> QED
  BY <1>1, <1>2, <1>3, <1>4, <1>5, Classified

\* Each object after the first takes the place of a destructed one.
LEMMA CountedStep ==
  ASSUME TypeOK, Locked, Counted, [Next]_vars
  PROVE  Counted'
<1> USE DEF Counted
<1>0. /\ step \in [Threads -> Steps] /\ Application \notin Servers /\ Servers \subseteq Threads
      /\ made \in Nat /\ destructs \in Nat /\ made <= destructs + 1
  BY Typing DEF TypeOK
<1>1. ASSUME NEW s \in Servers, Passes(s)
      PROVE  Counted'
  BY <1>0, <1>1 DEF Passes, ServerSteps
<1>2. ASSUME NEW s \in Servers, Creates(s)
      PROVE  Counted'
  BY <1>0, <1>2 DEF Creates, ServerSteps
<1>3. CASE Destruct
  BY <1>0, <1>3 DEF Destruct, DestructLoads, Loads, Goes
<1>4. CASE Destructs
  <2>1. CASE DestructLocks(Application, "destructing", "storing", "idle")
    BY <1>0, <1>4, <2>1 DEF Destructs, DestructLocks, Goes
  <2>2. CASE DestructStores(Application, "storing", "idle")
    BY <1>0, <1>4, <2>2 DEF Destructs, DestructStores, Goes
  <2> QED
    BY <1>4, <2>1, <2>2 DEF Destructs
<1>5. CASE UNCHANGED <<singletonVars, destructs>>
  BY <1>5 DEF singletonVars
<1> QED
  BY <1>1, <1>2, <1>3, <1>4, <1>5, Classified

\* Every step keeps the one object.
LEMMA OneObjectStep ==
  ASSUME TypeOK, Locked, OneObject, [Next]_vars
  PROVE  OneObject'
<1> USE DEF OneObject
<1>0. /\ made \in Nat /\ instance \in 0..made /\ deleted \subseteq 1..made
      /\ Application # NoThread
  BY DEF TypeOK, SingletonTypeOK
<1>1. ASSUME NEW s \in Servers, Passes(s)
      PROVE  OneObject'
  BY <1>1 DEF Passes
<1>2. ASSUME NEW s \in Servers, Creates(s)
      PROVE  OneObject'
  <2>1. (1..made) \subseteq deleted
    BY <1>0, <1>2 DEF Creates
  <2>2. 1..made' = (1..made) \cup {instance'} /\ instance' \notin deleted
    BY <1>0, <1>2 DEF Creates
  <2> QED
    BY <1>2, <2>1, <2>2 DEF Creates
<1>3. CASE Destruct
  BY <1>3 DEF Destruct, DestructLoads, Loads
<1>4. CASE Destructs
  <2>1. CASE DestructLocks(Application, "destructing", "storing", "idle")
    BY <1>0, <2>1 DEF DestructLocks, Goes
  <2>2. CASE DestructStores(Application, "storing", "idle")
    <3>1. instance \in deleted /\ (1..made) \subseteq deleted
      BY <2>2 DEF DestructStores, Goes, Locked
    <3>2. instance' = 0 /\ deleted' = deleted /\ made' = made /\ 0 \notin deleted
      BY <1>0, <2>2 DEF DestructStores, StoreNull
    <3> QED
      BY <3>1, <3>2
  <2> QED
    BY <1>4, <2>1, <2>2 DEF Destructs
<1>5. CASE UNCHANGED <<singletonVars, destructs>>
  BY <1>5 DEF singletonVars
<1> QED
  BY <1>1, <1>2, <1>3, <1>4, <1>5, Classified

--------------------------------------------------------------------------------
(* The types of the rest. *)

RestTypes ==
  /\ running \in BOOLEAN
  /\ count \in [Servers -> 0..MaxConnections]
  /\ serving \in [Servers -> 0..MaxConnections]
  /\ open \subseteq Connections /\ reading \subseteq Connections
  /\ validated \subseteq Connections
  /\ callbacks \in [Objects -> [Ids -> Connections \cup {NoConnection}]]
  /\ timer \in [Connections -> TimerSteps]
  /\ on \in [Connections -> {0} \cup Objects]
  /\ function \in [Connections -> Connections \cup {NoConnection}]

\* The types of what is not the singleton's.
LEMMA RestSplits == TypeOK => RestTypes
BY DEF TypeOK, RestTypes

\* A map of callbacks with one entry changed.
LEMMA EntryUpdate ==
  ASSUME NEW o \in Objects, NEW i \in Ids, NEW c \in Connections \cup {NoConnection},
         callbacks \in [Objects -> [Ids -> Connections \cup {NoConnection}]]
  PROVE  [callbacks EXCEPT ![o][i] = c]
           \in [Objects -> [Ids -> Connections \cup {NoConnection}]]
OBVIOUS

\* A use of an object does no harm, or ends the program.
LEMMA UsesTyping == \A o : Uses(o) => running' \in BOOLEAN
BY DEF Uses

\* A new connection is one of Connections.
LEMMA NewConnectionTypes ==
  ASSUME TypeOK, RestTypes, NEW s \in Servers, NewConnection(s)
  PROVE  /\ RestTypes'
         /\ count' = [count EXCEPT ![s] = @ + 1]
         /\ serving' = [serving EXCEPT ![s] = count[s] + 1]
         /\ <<s, count[s] + 1>> \in Connections
<1>1. count[s] \in Nat /\ count[s] < MaxConnections /\ MaxConnections \in Nat
  BY Typing DEF NewConnection
<1>2. count[s] + 1 \in Ids /\ count[s] + 1 \in 0..MaxConnections
  BY <1>1 DEF Ids
<1>3. <<s, count[s] + 1>> \in Connections
  BY <1>2 DEF Connections
<1>4. count' = [count EXCEPT ![s] = @ + 1] /\ count'[s] = count[s] + 1
  BY DEF NewConnection, RestTypes
<1>5. /\ serving' = [serving EXCEPT ![s] = count[s] + 1]
      /\ open' = open \cup {<<s, count[s] + 1>>}
      /\ UNCHANGED <<running, reading, validated, timerVars>>
  BY <1>4 DEF NewConnection
<1>6. count' \in [Servers -> 0..MaxConnections] /\ serving' \in [Servers -> 0..MaxConnections]
  BY <1>2, <1>4, <1>5 DEF RestTypes
<1>7. open' \subseteq Connections
  BY <1>3, <1>5 DEF RestTypes
<1> QED
  BY <1>3, <1>4, <1>5, <1>6, <1>7 DEF RestTypes, timerVars

\* What addTimer finds.
LEMMA AddTyping ==
  ASSUME TypeOK, Fresh, NEW s \in Servers, addTimer(s)
  PROVE  /\ step[s] = "adding"
         /\ Served(s) \in Connections /\ Id(Served(s)) = serving[s] /\ Served(s)[1] = s
         /\ timer[Served(s)] = "none"
         /\ pointer[s] # 0 => pointer[s] \in Objects
<1>1. step[s] = "adding"
  BY DEF addTimer, Goes
<1>2. serving[s] \in 1..count[s] /\ timer[Served(s)] = "none"
  BY <1>1 DEF Fresh
<1> QED
  BY <1>1, <1>2, ServedTyping, Typing

\* Every step keeps the other types.
LEMMA RestTypesStep ==
  ASSUME TypeOK, Fresh, [Next]_vars
  PROVE  RestTypes'
<1>0. RestTypes
  BY RestSplits
<1> USE DEF RestTypes, TimerSteps
<1>1. ASSUME NEW s \in Servers, NewConnection(s)
      PROVE  RestTypes'
  BY <1>0, <1>1, NewConnectionTypes
<1>2. ASSUME NEW s \in Servers, Constructs(s) \/ Gets(s)
      PROVE  RestTypes'
  BY <1>0, <1>2 DEF Constructs, Gets, connectionVars, timerVars
<1>3. ASSUME NEW s \in Servers, Answered(s)
      PROVE  RestTypes'
  <2>1. PICK i \in 1..count[s] : /\ reading' = reading \ {<<s, i>>}
                                 /\ serving' = [serving EXCEPT ![s] = i]
    BY <1>3 DEF Answered
  <2>2. i \in 0..MaxConnections
    BY <2>1, Typing
  <2>3. serving' \in [Servers -> 0..MaxConnections]
    BY <1>0, <2>1, <2>2
  <2> QED
    BY <1>0, <1>3, <2>1, <2>3 DEF Answered, timerVars
<1>4. ASSUME NEW s \in Servers, Failed(s)
      PROVE  RestTypes'
  BY <1>0, <1>4 DEF Failed, timerVars
<1>5. ASSUME NEW s \in Servers, addTimer(s)
      PROVE  RestTypes'
  <2> DEFINE c == Served(s)
             o == pointer[s]
  <2>1. c \in Connections /\ Id(c) \in Ids /\ (o # 0 => o \in Objects)
    BY <1>5, AddTyping, ConnectionTyping
  <2>2. running' \in BOOLEAN
    BY <1>5, UsesTyping DEF addTimer
  <2>3. reading' \subseteq Connections /\ UNCHANGED <<count, serving, open, validated>>
    BY <1>0, <1>5, <2>1 DEF addTimer
  <2>4. CASE o = 0
    BY <1>0, <1>5, <2>2, <2>3, <2>4 DEF addTimer, timerVars
  <2>5. CASE o # 0
    <3>1. /\ callbacks' = callbacks \/ callbacks' = [callbacks EXCEPT ![o][Id(c)] = c]
          /\ timer' = [timer EXCEPT ![c] = "sleeping"]
          /\ on' = [on EXCEPT ![c] = o]
          /\ UNCHANGED function
      BY <1>5, <2>5 DEF addTimer
    <3>2. callbacks' \in [Objects -> [Ids -> Connections \cup {NoConnection}]]
      <4>1. [callbacks EXCEPT ![o][Id(c)] = c]
              \in [Objects -> [Ids -> Connections \cup {NoConnection}]]
        BY <1>0, <2>1, <2>5, EntryUpdate
      <4> QED
        BY <1>0, <3>1, <4>1
    <3>3. /\ timer' \in [Connections -> TimerSteps]
          /\ on' \in [Connections -> {0} \cup Objects]
      BY <1>0, <2>1, <2>5, <3>1
    <3> QED
      BY <1>0, <2>2, <2>3, <3>1, <3>2, <3>3
  <2> QED
    BY <2>4, <2>5
<1>6. ASSUME NEW s \in Servers, removeTimer(s)
      PROVE  RestTypes'
  <2>1. step[s] = "removing" /\ running' \in BOOLEAN
    BY <1>6, UsesTyping DEF removeTimer, Goes
  <2>2. Served(s) \in Connections /\ serving[s] \in Ids
    BY <2>1, ServedTyping DEF Fresh
  <2>3. /\ validated' = validated \cup {Served(s)}
        /\ UNCHANGED <<count, serving, open, reading, timer, on, function>>
    BY <1>6 DEF removeTimer
  <2>4. callbacks' = callbacks \/ (/\ pointer[s] # 0
                                   /\ callbacks' = [callbacks EXCEPT ![pointer[s]][serving[s]]
                                                      = NoConnection])
    BY <1>6 DEF removeTimer
  <2>5. callbacks' \in [Objects -> [Ids -> Connections \cup {NoConnection}]]
    <3>1. CASE callbacks' = callbacks
      BY <1>0, <3>1
    <3>2. CASE /\ pointer[s] # 0
               /\ callbacks' = [callbacks EXCEPT ![pointer[s]][serving[s]] = NoConnection]
      <4>1. pointer[s] \in Objects
        BY <3>2, Typing
      <4> QED
        BY <1>0, <2>2, <3>2, <4>1, EntryUpdate
    <3> QED
      BY <2>4, <3>1, <3>2
  <2> QED
    BY <1>0, <2>1, <2>2, <2>3, <2>5
<1>7. ASSUME NEW c \in Connections, TimerWakes(c)
      PROVE  RestTypes'
  <2>1. timer' = [timer EXCEPT ![c] = "found"] \/ timer' = [timer EXCEPT ![c] = "over"]
    BY <1>7 DEF TimerWakes, TimerGoes
  <2>2. timer' \in [Connections -> TimerSteps]
    BY <1>0, <2>1
  <2>3. running' \in BOOLEAN
    BY <1>7, UsesTyping DEF TimerWakes
  <2> QED
    BY <1>0, <1>7, <2>2, <2>3 DEF TimerWakes, connectionVars
<1>12. ASSUME NEW c \in Connections, TimerLooks(c)
       PROVE  RestTypes'
  <2>0. on[c] \in Objects /\ Id(c) \in Ids
    BY <1>12, ConnectionTyping DEF TimerLooks, TimerGoes, Fresh
  <2>1. /\ timer' = [timer EXCEPT ![c] = "calling"]
        /\ function' = [function EXCEPT ![c] = callbacks[on[c]][Id(c)]]
    BY <1>12 DEF TimerLooks, TimerGoes, Entry
  <2>2. timer' \in [Connections -> TimerSteps]
    BY <1>0, <2>1
  <2>3. function' \in [Connections -> Connections \cup {NoConnection}]
    BY <1>0, <2>0, <2>1
  <2>4. running' \in BOOLEAN
    BY <1>12, UsesTyping DEF TimerLooks
  <2> QED
    BY <1>0, <1>12, <2>2, <2>3, <2>4 DEF TimerLooks, connectionVars
<1>8. ASSUME NEW c \in Connections, TimerCalls(c)
      PROVE  RestTypes'
  <2>1. timer' = [timer EXCEPT ![c] = "called"]
    BY <1>8 DEF TimerCalls, TimerGoes
  <2>2. timer' \in [Connections -> TimerSteps]
    BY <1>0, <2>1
  <2>3. running' \in BOOLEAN /\ open' \subseteq Connections
    BY <1>0, <1>8, UsesTyping DEF TimerCalls
  <2> QED
    BY <1>0, <1>8, <2>2, <2>3 DEF TimerCalls
<1>9. ASSUME NEW c \in Connections, TimerErases(c)
      PROVE  RestTypes'
  <2>0. on[c] \in Objects
    BY <1>9 DEF TimerErases, TimerGoes, Fresh
  <2>1. timer' = [timer EXCEPT ![c] = "over"]
    BY <1>9 DEF TimerErases, TimerGoes
  <2>2. timer' \in [Connections -> TimerSteps]
    BY <1>0, <2>1
  <2>3. running' \in BOOLEAN
    BY <1>9, UsesTyping DEF TimerErases
  <2>4. callbacks' \in [Objects -> [Ids -> Connections \cup {NoConnection}]]
    BY <1>0, <1>9, <2>0, EntryUpdate, ConnectionTyping DEF TimerErases, EraseEntry
  <2> QED
    BY <1>0, <1>9, <2>2, <2>3, <2>4 DEF TimerErases, connectionVars
<1>10. CASE Destruct
  BY <1>0, <1>10 DEF Destruct, connectionVars, timerVars
<1>13. CASE Destructs
  <2>1. callbacks' \in [Objects -> [Ids -> Connections \cup {NoConnection}]]
    BY <1>0, <1>13 DEF Destructs, NoEntries
  <2> QED
    BY <1>0, <1>13, <2>1 DEF Destructs, connectionVars
<1>11. CASE UNCHANGED vars
  BY <1>0, <1>11 DEF vars, connectionVars, timerVars
<1> QED
  BY <1>1, <1>2, <1>3, <1>4, <1>5, <1>6, <1>7, <1>8, <1>9, <1>10, <1>11, <1>12, <1>13
     DEF Next, Continues, Timer

\* Every step keeps the types.
LEMMA TypeStep ==
  ASSUME TypeOK, Counted, Fresh, [Next]_vars
  PROVE  TypeOK'
BY SingletonTypes, RestTypesStep DEF TypeOK, RestTypes

--------------------------------------------------------------------------------
(* Connections and their timers. *)

\* A connection on its way to addTimer has no thread.
LEMMA FreshStep ==
  ASSUME TypeOK, Fresh, [Next]_vars
  PROVE  Fresh'
<1> DEFINE Early == {"constructing", "constructed", "getting", "adding"}
<1>0. /\ step \in [Threads -> Steps] /\ RestTypes
      /\ Application \notin Servers /\ Servers \subseteq Threads /\ Application \in Threads
  BY RestSplits, Typing DEF TypeOK
<1>1. ASSUME NEW s \in Servers, NewConnection(s)
      PROVE  Fresh'
  <2> DEFINE n == count[s] + 1
  <2>1. /\ count' = [count EXCEPT ![s] = n] /\ serving' = [serving EXCEPT ![s] = n]
        /\ <<s, n>> \in Connections /\ n \in Nat /\ n > count[s] /\ n >= 1
        /\ count' \in [Servers -> 0..MaxConnections]
    BY <1>0, <1>1, NewConnectionTypes, Typing DEF RestTypes
  <2>2. UNCHANGED <<timer, on>> /\ \A t \in Threads : t # s => step'[t] = step[t]
    BY <1>0, <1>1 DEF NewConnection, timerVars, ConstructLoads, Loads, Goes
  <2>3. timer[<<s, n>>] = "none"
    BY <2>1 DEF Fresh, Id
  <2>4. ASSUME NEW r \in Servers, step'[r] # "idle"
        PROVE  serving'[r] \in 1..count'[r]
    BY <1>0, <2>1, <2>2, <2>4, Typing DEF Fresh, RestTypes
  <2>5. ASSUME NEW r \in Servers, step'[r] \in Early
        PROVE  timer'[<<r, serving'[r]>>] = "none"
    BY <1>0, <2>1, <2>2, <2>3, <2>5 DEF Fresh, RestTypes, Served
  <2>6. ASSUME NEW c \in Connections, Id(c) > count'[c[1]]
        PROVE  timer'[c] = "none"
    BY <1>0, <2>1, <2>2, <2>6, Typing, ConnectionTyping DEF Fresh, RestTypes, Ids
  <2>7. ASSUME NEW c \in Connections, timer'[c] # "none"
        PROVE  on'[c] \in Objects
    BY <2>2, <2>7 DEF Fresh
  <2> QED
    BY <2>4, <2>5, <2>6, <2>7 DEF Fresh, Served
<1>2. ASSUME NEW s \in Servers, Constructs(s) \/ Gets(s)
      PROVE  Fresh'
  <2>1. UNCHANGED <<count, serving, timer, on>>
    BY <1>2 DEF Constructs, Gets, connectionVars, timerVars
  <2>2. /\ \A t \in Threads : t # s => step'[t] = step[t]
        /\ step[s] # "idle" /\ (step'[s] \in Early => step[s] \in Early)
    BY <1>0, <1>2 DEF Constructs, Gets, ConstructLocks, GetInstanceLoads,
       GetInstanceLocks,
                      Loads, Goes
  <2> QED
    BY <1>0, <2>1, <2>2 DEF Fresh, Served
<1>3. ASSUME NEW s \in Servers, Answered(s)
      PROVE  Fresh'
  <2>1. PICK i \in 1..count[s] : serving' = [serving EXCEPT ![s] = i]
    BY <1>3 DEF Answered
  <2>2. /\ \A t \in Threads : t # s => step'[t] = step[t]
        /\ step'[s] \notin Early /\ UNCHANGED <<count, timer, on>>
    BY <1>0, <1>3 DEF Answered, GetInstanceLoads, Loads, Goes, timerVars
  <2> QED
    BY <1>0, <2>1, <2>2 DEF Fresh, Served, RestTypes
<1>4. ASSUME NEW s \in Servers, Failed(s)
      PROVE  Fresh'
  BY <1>4 DEF Failed, Fresh, Served, singletonVars, timerVars
<1>5. ASSUME NEW s \in Servers, addTimer(s)
      PROVE  Fresh'
  <2> DEFINE c == Served(s)
  <2>1. /\ step[s] = "adding" /\ step'[s] = "idle" /\ c \in Connections
        /\ Id(c) = serving[s] /\ c[1] = s
        /\ serving[s] \in 1..count[s] /\ (pointer[s] # 0 => pointer[s] \in Objects)
    BY <1>0, <1>5, AddTyping DEF addTimer, Goes, Fresh
  <2>2. /\ \A t \in Threads : t # s => step'[t] = step[t]
        /\ UNCHANGED <<count, serving>>
    BY <1>0, <1>5 DEF addTimer, Goes
  <2>3. \A d \in Connections : d # c => timer'[d] = timer[d] /\ on'[d] = on[d]
    BY <1>0, <1>5, <2>1 DEF addTimer, RestTypes, timerVars
  <2>4. timer'[c] # "none" => on'[c] \in Objects
    BY <1>0, <1>5, <2>1 DEF addTimer, RestTypes, timerVars, Fresh
  <2>5. ASSUME NEW r \in Servers, step'[r] \in Early
        PROVE  timer'[<<r, serving'[r]>>] = "none"
    <3>1. r # s /\ step[r] \in Early /\ serving[r] \in 1..count[r] /\ serving'[r] = serving[r]
      BY <1>0, <2>1, <2>2, <2>5 DEF Fresh
    <3>2. Served(r) \in Connections /\ Served(r)[1] = r /\ timer[Served(r)] = "none"
      BY <3>1, ServedTyping DEF Fresh
    <3> QED
      BY <2>1, <2>3, <3>1, <3>2 DEF Served
  <2>6. ASSUME NEW d \in Connections, Id(d) > count'[d[1]]
        PROVE  timer'[d] = "none"
    <3>1. d # c
      BY <2>1, <2>2, <2>6, Typing
    <3> QED
      BY <2>2, <2>3, <2>6, <3>1 DEF Fresh
  <2>7. ASSUME NEW r \in Servers, step'[r] # "idle"
        PROVE  serving'[r] \in 1..count'[r]
    BY <1>0, <2>1, <2>2, <2>7 DEF Fresh
  <2> QED
    BY <2>3, <2>4, <2>5, <2>6, <2>7 DEF Fresh, Served
<1>6. ASSUME NEW s \in Servers, removeTimer(s)
      PROVE  Fresh'
  <2>1. /\ \A t \in Threads : t # s => step'[t] = step[t]
        /\ step'[s] = "idle" /\ UNCHANGED <<count, serving, timer, on>>
    BY <1>0, <1>6 DEF removeTimer, Goes
  <2> QED
    BY <1>0, <2>1 DEF Fresh, Served
<1>7. ASSUME NEW c \in Connections, Timer(c)
      PROVE  Fresh'
  <2>1. timer[c] # "none" /\ \E to : timer' = [timer EXCEPT ![c] = to]
    BY <1>7 DEF Timer, TimerWakes, TimerLooks, TimerCalls, TimerErases, TimerGoes
  <2>2. \A d \in Connections : timer[d] = "none" => timer'[d] = "none"
    BY <1>0, <2>1 DEF RestTypes
  <2>3. \A d \in Connections : timer'[d] # "none" => timer[d] # "none"
    BY <1>0, <2>1 DEF RestTypes
  <2>4. UNCHANGED <<step, count, serving, on>>
    BY <1>7 DEF Timer, TimerWakes, TimerLooks, TimerCalls, TimerErases,
       singletonVars, connectionVars
  <2>5. \A s \in Servers : step[s] # "idle" => Served(s) \in Connections
    BY ServedTyping DEF Fresh
  <2> QED
    BY <1>0, <2>2, <2>3, <2>4, <2>5 DEF Fresh, Served
<1>8. CASE Destruct \/ Destructs
  <2>1. UNCHANGED <<count, serving, timer, on>> /\ \A s \in Servers : step'[s] = step[s]
    BY <1>0, <1>8 DEF Destruct, Destructs, DestructLoads, DestructLocks, DestructStores,
                      Loads, Goes, connectionVars, timerVars
  <2> QED
    BY <2>1 DEF Fresh, Served
<1>9. CASE UNCHANGED vars
  BY <1>9 DEF vars, singletonVars, connectionVars, timerVars, Fresh, Served
<1> QED
  BY <1>1, <1>2, <1>3, <1>4, <1>5, <1>6, <1>7, <1>8, <1>9 DEF Next, Continues

\* The thread of d is still to look at the entry i of the object o.
Looks(d, o, i) == Id(d) = i /\ on[d] = o /\ timer[d] \notin {"none", "over"}

\* An entry comes with its thread, and the thread goes with the entry.
LEMMA EntryHasThreadStep ==
  ASSUME TypeOK, Fresh, EntryHasThread, [Next]_vars
  PROVE  EntryHasThread'
<1>0. RestTypes
  BY RestSplits
<1>a. ASSUME UNCHANGED <<timer, on>>,
             \A o \in Objects, i \in Ids :
                callbacks'[o][i] = callbacks[o][i] \/ callbacks'[o][i] = NoConnection
      PROVE  EntryHasThread'
  BY <1>a DEF EntryHasThread
<1>1. ASSUME NEW s \in Servers,
             NewConnection(s) \/ Constructs(s) \/ Gets(s) \/ Answered(s)
                                \/ Failed(s)
      PROVE  EntryHasThread'
  <2>1. UNCHANGED timerVars
    BY <1>1 DEF NewConnection, Constructs, Gets, Answered, Failed
  <2> QED
    BY <1>a, <2>1 DEF timerVars
<1>2. ASSUME NEW s \in Servers, removeTimer(s)
      PROVE  EntryHasThread'
  <2>1. UNCHANGED <<timer, on>>
    BY <1>2 DEF removeTimer
  <2>2. \/ callbacks' = callbacks
        \/ callbacks' = [callbacks EXCEPT ![pointer[s]][serving[s]] = NoConnection]
    BY <1>2 DEF removeTimer
  <2>3. ASSUME NEW o \in Objects, NEW i \in Ids
        PROVE  callbacks'[o][i] = callbacks[o][i] \/ callbacks'[o][i] = NoConnection
    BY <1>0, <2>2 DEF RestTypes
  <2> QED
    BY <1>a, <2>1, <2>3
<1>3. ASSUME NEW s \in Servers, addTimer(s)
      PROVE  EntryHasThread'
  <2> DEFINE c == Served(s)
             p == pointer[s]
  <2>1. /\ c \in Connections /\ Id(c) \in Ids /\ timer[c] = "none"
        /\ p # 0 => p \in Objects
    BY <1>3, AddTyping, ConnectionTyping
  <2>2. CASE p = 0
    BY <1>3, <1>a, <2>2 DEF addTimer, timerVars
  <2>3. CASE p # 0
    <3>1. /\ callbacks' = callbacks \/ callbacks' = [callbacks EXCEPT ![p][Id(c)] = c]
          /\ timer' = [timer EXCEPT ![c] = "sleeping"]
          /\ on' = [on EXCEPT ![c] = p]
      BY <1>3, <2>3 DEF addTimer
    <3>2. timer'[c] = "sleeping" /\ on'[c] = p
      BY <1>0, <2>1, <3>1 DEF RestTypes
    <3>3. \A d \in Connections : d # c => timer'[d] = timer[d] /\ on'[d] = on[d]
      BY <1>0, <3>1 DEF RestTypes
    <3>4. ASSUME NEW o \in Objects, NEW i \in Ids, callbacks'[o][i] # NoConnection
          PROVE  \E d \in Connections :
                    Id(d) = i /\ on'[d] = o /\ timer'[d] \notin {"none", "over"}
      <4>1. CASE o = p /\ i = Id(c)
        BY <2>1, <3>2, <4>1
      <4>2. CASE ~(o = p /\ i = Id(c))
        <5>1. callbacks[o][i] # NoConnection
          BY <1>0, <2>1, <2>3, <3>1, <3>4, <4>2 DEF RestTypes
        <5>2. PICK d \in Connections : Looks(d, o, i)
          BY <5>1 DEF EntryHasThread, Looks
        <5> QED
          BY <2>1, <3>3, <5>2 DEF Looks
      <4> QED
        BY <4>1, <4>2
    <3> QED
      BY <3>4 DEF EntryHasThread
  <2> QED
    BY <2>2, <2>3
<1>4. ASSUME NEW c \in Connections, TimerWakes(c)
      PROVE  EntryHasThread'
  <2>1. /\ UNCHANGED <<callbacks, on>> /\ timer[c] = "sleeping"
        /\ timer' = [timer EXCEPT ![c] = IF Found(c) THEN "found" ELSE "over"]
    BY <1>4 DEF TimerWakes, TimerGoes
  <2>2. ASSUME NEW o \in Objects, NEW i \in Ids, callbacks[o][i] # NoConnection
        PROVE  \E d \in Connections :
                  Id(d) = i /\ on[d] = o /\ timer'[d] \notin {"none", "over"}
    <3>1. PICK d \in Connections : Looks(d, o, i)
      BY <2>2 DEF EntryHasThread, Looks
    <3>2. CASE d = c
      <4>1. Found(c)
        BY <2>2, <3>1, <3>2 DEF Looks, Found, Entry
      <4> QED
        BY <1>0, <2>1, <3>1, <3>2, <4>1 DEF Looks, RestTypes
    <3>3. CASE d # c
      BY <1>0, <2>1, <3>1, <3>3 DEF Looks, RestTypes
    <3> QED
      BY <3>2, <3>3
  <2> QED
    BY <2>1, <2>2 DEF EntryHasThread
<1>5. ASSUME NEW c \in Connections, TimerLooks(c) \/ TimerCalls(c)
      PROVE  EntryHasThread'
  <2>1. /\ UNCHANGED <<callbacks, on>>
        /\ \E to \in {"calling", "called"} : timer' = [timer EXCEPT ![c] = to]
    BY <1>5 DEF TimerLooks, TimerCalls, TimerGoes
  <2>2. \A d \in Connections : timer[d] \notin {"none", "over"} =>
          timer'[d] \notin {"none", "over"}
    BY <1>0, <2>1 DEF RestTypes
  <2> QED
    BY <2>1, <2>2 DEF EntryHasThread
<1>6. ASSUME NEW c \in Connections, TimerErases(c)
      PROVE  EntryHasThread'
  <2>1. /\ UNCHANGED on /\ timer[c] = "called"
        /\ timer' = [timer EXCEPT ![c] = "over"]
        /\ callbacks' = [callbacks EXCEPT ![on[c]][Id(c)] = NoConnection]
    BY <1>6 DEF TimerErases, TimerGoes, EraseEntry
  <2>2. on[c] \in Objects /\ Id(c) \in Ids
    BY <2>1, ConnectionTyping DEF Fresh
  <2>3. ASSUME NEW o \in Objects, NEW i \in Ids, callbacks'[o][i] # NoConnection
        PROVE  \E d \in Connections :
                  Id(d) = i /\ on[d] = o /\ timer'[d] \notin {"none", "over"}
    <3>1. callbacks[o][i] # NoConnection /\ ~(o = on[c] /\ i = Id(c))
      BY <1>0, <2>1, <2>2, <2>3 DEF RestTypes
    <3>2. PICK d \in Connections : Looks(d, o, i)
      BY <3>1 DEF EntryHasThread, Looks
    <3>3. d # c
      BY <3>1, <3>2 DEF Looks
    <3> QED
      BY <1>0, <2>1, <3>2, <3>3 DEF Looks, RestTypes
  <2> QED
    BY <2>1, <2>3 DEF EntryHasThread
<1>7. CASE Destruct
  BY <1>7, <1>a DEF Destruct, timerVars
<1>9. CASE Destructs
  <2>1. \A o \in Objects, i \in Ids :
           callbacks'[o][i] = callbacks[o][i] \/ callbacks'[o][i] = NoConnection
    BY <1>9 DEF Destructs, NoEntries
  <2> QED
    BY <1>9, <1>a, <2>1 DEF Destructs
<1>8. CASE UNCHANGED vars
  BY <1>8, <1>a DEF vars, timerVars
<1> QED
  BY <1>1, <1>2, <1>3, <1>4, <1>5, <1>6, <1>7, <1>8, <1>9 DEF Next, Continues, Timer

--------------------------------------------------------------------------------
(* The invariant, and what follows from it. *)

\* The invariant holds at first.
LEMMA Initially == Init => IInv
<1> SUFFICES ASSUME Init PROVE IInv
  OBVIOUS
<1> USE DEF Init, SingletonInit
<1>1. 1 \in Objects /\ 1..0 = {} /\ 0 \in 0..MaxConnections /\ 0 \in 0..MaxDestructs
  BY DEF Objects
<1>2. TypeOK
  BY <1>1 DEF TypeOK, SingletonTypeOK, Steps, NoEntries, TimerSteps
<1>3. Locked /\ OneObject /\ Counted
  BY <1>1 DEF Locked, OneObject, Counted, Servers
<1>4. Fresh
  BY DEF Fresh, Servers
<1>5. EntryHasThread
  BY DEF EntryHasThread, NoEntries
<1> QED
  BY <1>2, <1>3, <1>4, <1>5 DEF IInv

\* Every step keeps the invariant.
LEMMA Inductive == IInv /\ [Next]_vars => IInv'
BY TypeStep, LockedStep, OneObjectStep, CountedStep, FreshStep, EntryHasThreadStep
   DEF IInv

\* The invariant, for any servers and connections.
LEMMA Invariant == Spec => []IInv
BY Initially, Inductive, PTL DEF Spec

(***************************************************************************)
(* Types, for any number of servers, connections and calls of Destruct.    *)
(***************************************************************************)
THEOREM TypeCorrect == Spec => []TypeOK
<1>1. IInv => TypeOK
  BY DEF IInv
<1> QED
  BY <1>1, Invariant, PTL

(***************************************************************************)
(* Singleton's double-checked lock makes one object at a time: Construct   *)
(* makes none while there is one, and Destruct leaves none behind that is  *)
(* pointed to, for any number of threads.                                  *)
(***************************************************************************)
THEOREM OneObjectAtATime == Spec => []OneObject
<1>1. IInv => OneObject
  BY DEF IInv
<1> QED
  BY <1>1, Invariant, PTL

(***************************************************************************)
(* AsyncTimer: every entry of callbacks_ has a thread that is still to     *)
(* look at it, whatever servers with the same ids do to it.                *)
(***************************************************************************)
THEOREM NoEntryIsForgotten == Spec => []EntryHasThread
<1>1. IInv => EntryHasThread
  BY DEF IInv
<1> QED
  BY <1>1, Invariant, PTL

(***************************************************************************)
(* GetInstance takes a pointer to a deleted object only while Destruct     *)
(* holds the lock.                                                         *)
(***************************************************************************)
THEOREM PointersAreFresh == Spec => NoStalePointer
<1>1. ASSUME IInv, [Next]_vars
      PROVE  [\A t \in Threads : pointer'[t] # pointer[t] /\ holder = NoThread =>
                                   pointer'[t] \notin deleted]_vars
  <2>1. TypeOK /\ OneObject /\ pointer \in [Threads -> 0..made]
    BY <1>1 DEF IInv, TypeOK, SingletonTypeOK
  <2>2. ASSUME NEW t \in Threads, pointer'[t] # pointer[t]
        PROVE  pointer'[t] = instance
    <3>1. ASSUME NEW s \in Servers, Passes(s) \/ Creates(s)
          PROVE  pointer'[t] = instance
      BY <2>1, <2>2, <3>1 DEF Passes, Creates
    <3>2. UNCHANGED pointer => FALSE
      BY <2>2
    <3> QED
      BY <1>1, <2>1, <3>1, <3>2, Classified
         DEF Destruct, Destructs, DestructLoads, DestructLocks, DestructStores, singletonVars
  <2> QED
    BY <2>1, <2>2 DEF OneObject
<1> QED
  BY <1>1, Invariant, PTL DEF Spec, NoStalePointer

\* Until Destruct is called nothing takes the object away: who has constructed
\* it finds it, and so does who waits for an answer.
Constructed ==
  destructs = 0 =>
    /\ step[Application] = "idle" /\ deleted = {}
    /\ \A s \in Servers :
          step[s] \in {"constructed", "getting", "adding", "asking", "removing"} =>
            instance # 0
    /\ reading # {} => instance # 0

(***************************************************************************)
(* A server that is about to call addTimer or removeTimer has the object   *)
(* that was constructed for it, as long as nobody calls Destruct.          *)
(***************************************************************************)
THEOREM TimerStaysThere == Spec => []TimerIsThere
<1>1. Init => Constructed /\ TimerIsThere
  BY DEF Init, SingletonInit, Constructed, TimerIsThere, Servers
<1>2. ASSUME IInv, Constructed, TimerIsThere, [Next]_vars
      PROVE  Constructed' /\ TimerIsThere'
  <2> SUFFICES ASSUME destructs' = 0
               PROVE  /\ (step[Application] = "idle" /\ deleted = {})'
                      /\ \A s \in Servers :
                            step'[s] \in {"constructed", "getting", "adding", "asking",
                                          "removing"} => instance' # 0
                      /\ reading' # {} => instance' # 0
                      /\ \A s \in Servers : step'[s] \in {"adding", "removing"} =>
                                              pointer'[s] = 1
    BY DEF Constructed, TimerIsThere
  <2>0. /\ TypeOK /\ RestTypes /\ Fresh /\ OneObject /\ Locked
        /\ step \in [Threads -> Steps] /\ pointer \in [Threads -> 0..made]
        /\ Application \notin Servers /\ Servers \subseteq Threads
        /\ made \in Nat /\ instance \in 0..made
    BY <1>2, RestSplits, Typing DEF IInv, TypeOK, SingletonTypeOK
  <2>1. destructs = 0
    BY <1>2, <2>0, Classified, Typing
       DEF Passes, Creates, Destruct, Destructs
  <2>2. step[Application] = "idle" /\ deleted = {} /\ (instance # 0 => instance = 1)
    <3>1. step[Application] = "idle" /\ deleted = {}
      BY <1>2, <2>1 DEF Constructed
    <3>2. 1..made \subseteq {instance}
      BY <2>0, <3>1 DEF OneObject
    <3>3. made > 0 => 1 \in 1..made /\ made \in 1..made
      BY <2>0
    <3> QED
      BY <2>0, <3>1, <3>2, <3>3
  <2>3. ~Destruct /\ ~Destructs
    BY <2>1, <2>2, Typing, <2>0
       DEF Destruct, Destructs, DestructLocks, DestructStores, Goes
  <2>4. (step[Application] = "idle" /\ deleted = {})'
    BY <1>2, <2>0, <2>2, <2>3, Classified DEF Passes, Creates, singletonVars
  <2>5. instance # 0 => instance' # 0
    BY <1>2, <2>0, <2>3, Classified DEF Passes, Creates, singletonVars
  <2> DEFINE Using(s) == step[s] \in {"constructed", "getting", "adding", "asking",
                                      "removing"}
             Holding(s) == step[s] \in {"adding", "removing"}
             Goal == /\ \A s \in Servers : Using(s)' => instance' # 0
                     /\ reading' # {} => instance' # 0
                     /\ \A s \in Servers : Holding(s)' => pointer'[s] = 1
  <2>6. /\ \A s \in Servers : Using(s) => instance # 0
        /\ reading # {} => instance # 0
        /\ \A s \in Servers : Holding(s) => pointer[s] = 1
    BY <1>2, <2>1 DEF Constructed, TimerIsThere
  <2>7. ASSUME NEW s \in Servers, NewConnection(s)
        PROVE  Goal
    <3>1. /\ step' = [step EXCEPT ![s] = IF instance = 0 THEN "constructing" ELSE "constructed"]
          /\ UNCHANGED <<pointer, reading, instance>>
      BY <2>7 DEF NewConnection, ConstructLoads, Loads, Goes
    <3> QED
      BY <2>0, <2>6, <3>1
  <2>8. ASSUME NEW s \in Servers, Constructs(s)
        PROVE  Goal
    <3>1. /\ step' = [step EXCEPT ![s] = "constructed"]
          /\ UNCHANGED <<pointer, reading>>
          /\ instance' # 0
      BY <2>0, <2>8 DEF Constructs, ConstructLocks, StillNull, Goes, connectionVars
    <3> QED
      BY <2>0, <2>6, <3>1
  <2>9. ASSUME NEW s \in Servers, Gets(s)
        PROVE  Goal
    <3>1. /\ Using(s) /\ UNCHANGED <<reading, instance>>
          /\ pointer' = [pointer EXCEPT ![s] = instance]
          /\ \E to \in Steps : step' = [step EXCEPT ![s] = to]
      BY <2>9 DEF Gets, GetInstanceLoads, GetInstanceLocks, Loads, Goes,
         connectionVars, Steps
    <3>2. instance = 1 /\ pointer'[s] = 1
      BY <2>0, <2>2, <2>6, <3>1
    <3> QED
      BY <2>0, <2>6, <3>1, <3>2
  <2>10. ASSUME NEW s \in Servers, addTimer(s)
         PROVE  Goal
    <3>1. /\ Using(s) /\ step' = [step EXCEPT ![s] = "idle"]
          /\ UNCHANGED <<pointer, instance>>
      BY <2>10 DEF addTimer, Goes
    <3> QED
      BY <2>0, <2>6, <3>1
  <2>11. ASSUME NEW s \in Servers, Answered(s)
         PROVE  Goal
    <3>1. /\ reading # {} /\ UNCHANGED instance
          /\ pointer' = [pointer EXCEPT ![s] = instance]
          /\ step' = [step EXCEPT ![s] = IF instance = 0 THEN "asking" ELSE "removing"]
      BY <2>11 DEF Answered, GetInstanceLoads, Loads, Goes
    <3> QED
      BY <2>0, <2>2, <2>6, <3>1
  <2>12. ASSUME NEW s \in Servers, Failed(s)
         PROVE  Goal
    BY <2>6, <2>12 DEF Failed, singletonVars
  <2>13. ASSUME NEW s \in Servers, removeTimer(s)
         PROVE  Goal
    <3>1. /\ step' = [step EXCEPT ![s] = "idle"]
          /\ UNCHANGED <<pointer, instance, reading>>
      BY <2>13 DEF removeTimer, Goes
    <3> QED
      BY <2>0, <2>6, <3>1
  <2>14. ASSUME NEW c \in Connections, Timer(c)
         PROVE  Goal
    BY <2>6, <2>14 DEF Timer, TimerWakes, TimerLooks, TimerCalls, TimerErases, singletonVars,
                       connectionVars
  <2>15. ASSUME UNCHANGED vars
         PROVE  Goal
    <3>1. UNCHANGED <<step, pointer, instance, reading>>
      BY <2>15 DEF vars, singletonVars, connectionVars
    <3> QED
      BY <2>6, <3>1
  <2>16. Goal
    BY <1>2, <2>3, <2>7, <2>8, <2>9, <2>10, <2>11, <2>12, <2>13, <2>14, <2>15
       DEF Next, Continues
  <2> QED
    BY <2>4, <2>16
<1>3. Constructed /\ TimerIsThere => TimerIsThere
  OBVIOUS
<1> QED
  BY <1>1, <1>2, Invariant, PTL DEF Spec
================================================================================
