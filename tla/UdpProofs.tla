------------------------------- MODULE UdpProofs -------------------------------
(***************************************************************************)
(* A UDP connection of either class under any number of calls of its two   *)
(* threads: its flags, its socket and its operations tell one story, no    *)
(* flag stays up without a handler to take it down, and the buffer fits    *)
(* what is received into it, each but for the races it names.              *)
(***************************************************************************)
EXTENDS Udp, SequenceTheorems, TLAPS

(***************************************************************************)
(* The tasks of a queue of handlers.  Operations ops and a queue q: what   *)
(* is pending there, and what is pending at most once.                     *)
(***************************************************************************)
Tasks(q) == {q[i].task : i \in DOMAIN q}
UniqueIn(q, t) == \A i, j \in DOMAIN q : q[i].task = t /\ q[j].task = t => i = j

Pending(ops, q, k) == ops[k] # <<>> \/ k \in Tasks(q)
Single(ops, q, k) == /\ Len(ops[k]) <= 1
                     /\ UniqueIn(q, k)
                     /\ ops[k] = <<>> \/ k \notin Tasks(q)

\* What is posted to a client, and to a server.
Suited == Completions \cup {"disconnect"}
            \cup (IF role = "client" THEN {"connect"} ELSE {"start", "stop"})

\* What each class of connection does, and when the receive handler is left alone.
InPlace ==
  /\ \A t \in Threads : /\ doing[t] = "post" => at[t] \in Posts \cap Suited
                        /\ doing[t] = "stop" => role = "server"
  /\ role = "server" => doing["application"] # "connect"
  /\ Tasks(ready) \subseteq Suited
  /\ phase \in {"test", "grow", "cancel", "post"} => doing["context"] = "nothing"

RacesTold == Overlaps \subseteq raced

SocketOps ==
  \A k \in Completions : \A i \in DOMAIN operations[k] :
    socket # "closed" /\ operations[k][i].socket = opens

(***************************************************************************)
(* What holds of the connection between the calls that open and close it,  *)
(* and in the middle of one.                                               *)
(***************************************************************************)
Agreed == /\ role = "client" => (socket # "closed" <=> connected)
          /\ role = "server" => (socket # "closed" => connected /\ started)

Halfway(t) ==
  /\ doing[t] = "connect" =>
       /\ at[t] = "open" => socket = "closed"
       /\ at[t] = "bind" => socket = "open"
       /\ at[t] \notin {"open", "bind"} => socket = "bound"
       /\ role = "client" => ~connected
       /\ role = "server" /\ at[t] = "connected" => started
  /\ doing[t] \in {"disconnect", "stop"} =>
       /\ at[t] = "close" => Agreed
       /\ at[t] # "close" => socket = "closed"
       /\ doing[t] = "disconnect" /\ at[t] \in {"receive", "send", "clear"} => ~connected

LifeCycle ==
  running /\ "connection" \notin raced =>
    /\ \A t \in Threads : Halfway(t)
    /\ (\A t \in Threads : ~Changes(t)) => Agreed

\* Before the first socket is opened, and while there is no second.
Fresh ==
  opens = 0 =>
    /\ socket = "closed" /\ ~connected /\ ~started
    /\ phase = "none"
    /\ \A k \in Completions : ~busy[k] /\ k \notin Tasks(ready)
    /\ \A t \in Threads : \/ doing[t] \in {"nothing", "post"}
                          \/ doing[t] = "connect" /\ at[t] = "open"
                          \/ doing[t] \in Completions /\ at[t] = "connected"
FirstSocket ==
  opens <= 1 =>
    \A t \in Threads :
      doing[t] \in {"disconnect", "stop"} /\ at[t] # "close" => socket = "closed"

(***************************************************************************)
(* Until the first socket is closed, and while the threads do not start    *)
(* the same operation at once, the flags say exactly what is pending, and  *)
(* that is one receive and one send at most.                               *)
(***************************************************************************)
FlagsExact ==
  \A k \in Completions :
    opens <= 1 /\ socket # "closed" /\ k \notin raced =>
      /\ Single(operations, ready, k)
      /\ Pending(operations, ready, k) => busy[k] /\ \A t \in Threads : doing[t] # k
      /\ \A t \in Threads : doing[t] = k /\ at[t] = "begin" => busy[k]

\* The buffer, also where it is about to be grown, or the connection to be open.
BufferKept ==
  /\ size <= allocated
  /\ \A i \in DOMAIN operations["receive"] :
       operations["receive"][i].room <= operations["receive"][i].storage
  /\ phase = "grow" => 2 * current.length <= receiveBufferLimit
  /\ {"connection", "buffer"} \cap raced = {} =>
       /\ connected => size > 0
       /\ phase = "grow" /\ connected => current.length > 0
       /\ \A t \in Threads :
            doing[t] = "connect" /\ at[t] \in {"started", "connected"} => size > 0

IInv == TypeOK /\ InPlace /\ RacesTold /\ SocketOps /\ LifeCycle /\ Fresh /\ FirstSocket
        /\ FlagsCovered /\ FlagsExact /\ BufferKept

--------------------------------------------------------------------------------
(* Queues of handlers. *)

\* The context takes the handler at the head.
LEMMA TakeHead ==
  ASSUME NEW q \in Seq(Handler), q # <<>>
  PROVE  /\ Tail(q) \in Seq(Handler) /\ Head(q) \in Handler
         /\ Tasks(q) = {Head(q).task} \cup Tasks(Tail(q))
         /\ \A t : UniqueIn(q, t) =>
              UniqueIn(Tail(q), t) /\ (t = Head(q).task => t \notin Tasks(Tail(q)))
<1>1. Len(q) \in Nat \ {0} /\ DOMAIN q = 1..Len(q) /\ Head(q) = q[1]
  BY LenProperties, EmptySeq
<1>2. /\ Tail(q) \in Seq(Handler) /\ Len(Tail(q)) = Len(q) - 1
      /\ \A i \in 1..(Len(q) - 1) : Tail(q)[i] = q[i + 1]
      /\ Head(q) \in Handler
  BY HeadTailProperties
<1>3. DOMAIN Tail(q) = 1..(Len(q) - 1)
  BY <1>2, LenProperties
<1>4. \A i \in 1..(Len(q) - 1) : i + 1 \in 1..Len(q) /\ i + 1 # 1
  BY <1>1
<1>5. \A i \in 1..Len(q) : i = 1 \/ (i - 1 \in 1..(Len(q) - 1) /\ (i - 1) + 1 = i)
  BY <1>1
<1>6. Tasks(q) = {Head(q).task} \cup Tasks(Tail(q))
  <2>1. \A i \in 1..Len(q) : q[i].task \in {Head(q).task} \cup Tasks(Tail(q))
    <3> TAKE i \in 1..Len(q)
    <3>1. CASE i = 1
      BY <1>1, <3>1
    <3>2. CASE i - 1 \in 1..(Len(q) - 1) /\ (i - 1) + 1 = i
      <4>1. Tail(q)[i - 1] = q[i]
        BY <1>2, <3>2
      <4> QED
        BY <1>3, <3>2, <4>1 DEF Tasks
    <3> QED
      BY <1>5, <3>1, <3>2
  <2>2. \A i \in 1..(Len(q) - 1) : Tail(q)[i].task \in Tasks(q)
    BY <1>1, <1>2, <1>4 DEF Tasks
  <2>3. Head(q).task \in Tasks(q)
    <3>1. 1 \in 1..Len(q)
      BY <1>1
    <3> QED
      BY <1>1, <3>1 DEF Tasks
  <2> QED
    BY <1>1, <1>3, <2>1, <2>2, <2>3 DEF Tasks
<1>7. ASSUME NEW t, UniqueIn(q, t)
      PROVE  UniqueIn(Tail(q), t) /\ (t = Head(q).task => t \notin Tasks(Tail(q)))
  <2>1. ASSUME NEW i \in 1..(Len(q) - 1), NEW j \in 1..(Len(q) - 1),
               Tail(q)[i].task = t, Tail(q)[j].task = t
        PROVE  i = j
    <3>1. q[i + 1].task = t /\ q[j + 1].task = t
      BY <1>2, <2>1
    <3>2. i + 1 = j + 1
      BY <1>1, <1>4, <1>7, <3>1 DEF UniqueIn
    <3> QED
      BY <1>1, <3>2
  <2>2. ASSUME t = Head(q).task, NEW i \in 1..(Len(q) - 1), Tail(q)[i].task = t
        PROVE  FALSE
    <3>1. q[1].task = t /\ q[i + 1].task = t /\ 1 \in 1..Len(q)
      BY <1>1, <1>2, <2>2
    <3> QED
      BY <1>1, <1>4, <1>7, <3>1 DEF UniqueIn
  <2> QED
    BY <1>3, <2>1, <2>2 DEF UniqueIn, Tasks
<1> QED
  BY <1>2, <1>6, <1>7

\* One queue after another.
LEMMA Concatenation ==
  ASSUME NEW p \in Seq(Handler), NEW q \in Seq(Handler)
  PROVE  /\ p \o q \in Seq(Handler)
         /\ Tasks(p \o q) = Tasks(p) \cup Tasks(q)
         /\ \A t : UniqueIn(p, t) /\ UniqueIn(q, t) /\ t \notin Tasks(p) \cap Tasks(q) =>
              UniqueIn(p \o q, t)
<1>1. /\ Len(p) \in Nat /\ DOMAIN p = 1..Len(p)
      /\ Len(q) \in Nat /\ DOMAIN q = 1..Len(q)
  BY LenProperties
<1>2. /\ p \o q \in Seq(Handler) /\ Len(p \o q) = Len(p) + Len(q)
      /\ \A i \in 1..(Len(p) + Len(q)) :
           (p \o q)[i] = IF i <= Len(p) THEN p[i] ELSE q[i - Len(p)]
  BY ConcatProperties
<1>3. DOMAIN (p \o q) = 1..(Len(p) + Len(q))
  BY <1>2, LenProperties
<1> DEFINE s == p \o q
<1> HIDE DEF s
<1>4. \A i \in 1..Len(p) : i \in 1..(Len(p) + Len(q)) /\ s[i] = p[i]
  BY <1>1, <1>2 DEF s
<1>5. \A i \in 1..Len(q) :
         i + Len(p) \in 1..(Len(p) + Len(q)) /\ s[i + Len(p)] = q[i]
  BY <1>1, <1>2 DEF s
<1>6. \A i \in 1..(Len(p) + Len(q)) :
         \/ i \in 1..Len(p) /\ s[i] = p[i]
         \/ i - Len(p) \in 1..Len(q) /\ s[i] = q[i - Len(p)]
  BY <1>1, <1>2 DEF s
<1>7. Tasks(s) = Tasks(p) \cup Tasks(q)
  <2>1. /\ Tasks(s) = {s[i].task : i \in 1..(Len(p) + Len(q))}
        /\ Tasks(p) = {p[i].task : i \in 1..Len(p)}
        /\ Tasks(q) = {q[i].task : i \in 1..Len(q)}
    BY <1>1, <1>3 DEF Tasks, s
  <2>2. \A i \in 1..(Len(p) + Len(q)) : s[i].task \in Tasks(p) \cup Tasks(q)
    BY <1>6, <2>1
  <2>3. \A i \in 1..Len(p) : p[i].task \in Tasks(s)
    BY <1>4, <2>1
  <2>4. \A i \in 1..Len(q) : q[i].task \in Tasks(s)
    BY <1>5, <2>1
  <2> QED
    BY <2>1, <2>2, <2>3, <2>4
<1>8. ASSUME NEW t, UniqueIn(p, t), UniqueIn(q, t), t \notin Tasks(p) \cap Tasks(q)
      PROVE  UniqueIn(s, t)
  <2> SUFFICES ASSUME NEW i \in 1..(Len(p) + Len(q)), NEW j \in 1..(Len(p) + Len(q)),
                      s[i].task = t, s[j].task = t
               PROVE  i = j
    BY <1>3 DEF UniqueIn, s
  <2>1. CASE i \in 1..Len(p) /\ s[i] = p[i] /\ j \in 1..Len(p) /\ s[j] = p[j]
    BY <1>1, <1>8, <2>1 DEF UniqueIn
  <2>2. CASE /\ i - Len(p) \in 1..Len(q) /\ s[i] = q[i - Len(p)]
             /\ j - Len(p) \in 1..Len(q) /\ s[j] = q[j - Len(p)]
    <3>1. i - Len(p) = j - Len(p)
      BY <1>1, <1>8, <2>2 DEF UniqueIn
    <3> QED
      BY <1>1, <3>1
  <2>3. ASSUME NEW k \in 1..Len(p), NEW l \in 1..Len(q), p[k].task = t, q[l].task = t
        PROVE  FALSE
    BY <1>1, <1>8, <2>3 DEF Tasks
  <2> QED
    BY <1>6, <2>1, <2>2, <2>3
<1> QED
  BY <1>2, <1>7, <1>8 DEF s

\* A handler after the others.
LEMMA OneMore ==
  ASSUME NEW q \in Seq(Handler), NEW h \in Handler
  PROVE  /\ Append(q, h) \in Seq(Handler) /\ Append(q, h) = q \o <<h>>
         /\ Tasks(Append(q, h)) = Tasks(q) \cup {h.task}
         /\ \A t : UniqueIn(q, t) /\ (t = h.task => t \notin Tasks(q)) =>
              UniqueIn(Append(q, h), t)
<1>1. <<h>> \in Seq(Handler) /\ Append(q, h) = q \o <<h>>
  BY AppendIsConcat
<1>2. Tasks(<<h>>) = {h.task} /\ \A t : UniqueIn(<<h>>, t)
  BY DEF Tasks, UniqueIn
<1> DEFINE p == <<h>>
<1>3. p \in Seq(Handler)
  BY <1>1
<1> HIDE DEF p
<1>4. /\ q \o p \in Seq(Handler)
      /\ Tasks(q \o p) = Tasks(q) \cup Tasks(p)
      /\ \A t : UniqueIn(q, t) /\ UniqueIn(p, t) /\ t \notin Tasks(q) \cap Tasks(p) =>
           UniqueIn(q \o p, t)
  BY <1>3, Concatenation
<1> QED
  BY <1>1, <1>2, <1>4 DEF p

(***************************************************************************)
(* What is aborted becomes ready, all of it and nothing else, and what was *)
(* outstanding once is ready once.                                         *)
(***************************************************************************)
LEMMA AbortedTasks ==
  ASSUME NEW k \in Completions, operations[k] \in Seq(Operation)
  PROVE  /\ Aborted(k) \in Seq(Handler)
         /\ Tasks(Aborted(k)) = IF operations[k] = <<>> THEN {} ELSE {k}
         /\ Len(operations[k]) <= 1 => \A t : UniqueIn(Aborted(k), t)
<1> DEFINE s == operations[k]
           n == Len(s)
<1>1. n \in Nat /\ DOMAIN s = 1..n /\ (s = <<>> <=> n = 0)
  BY LenProperties, EmptySeq
<1>2. \A i \in 1..n : s[i] \in Operation
  BY <1>1, ElementOfSeq
<1>3. Aborted(k) = [i \in 1..n |-> Completed(k, s[i], "aborted", 0)]
  BY <1>1 DEF Aborted
<1>4. 0 \in Sizes
  BY BufferAssumption DEF Sizes
<1> HIDE DEF n, s
<1> DEFINE a == [i \in 1..n |-> Completed(k, s[i], "aborted", 0)]
<1>5. \A i \in 1..n : a[i] \in Handler /\ a[i].task = k
  BY <1>2, <1>4 DEF Completed, Handler, Operation, Completions
<1>6. a \in Seq(Handler) /\ DOMAIN a = 1..n
  <2>1. a \in [1..n -> Handler]
    BY <1>5
  <2> HIDE DEF a
  <2> QED
    BY <1>1, <2>1, SeqDef
<1> HIDE DEF a
<1>7. Tasks(a) = IF n = 0 THEN {} ELSE {k}
  <2>1. n # 0 => 1 \in 1..n
    BY <1>1
  <2>2. n = 0 => 1..n = {}
    BY <1>1
  <2> QED
    BY <1>5, <1>6, <2>1, <2>2 DEF Tasks
<1>8. n <= 1 => \A t : UniqueIn(a, t)
  <2> SUFFICES ASSUME n <= 1, NEW i \in 1..n, NEW j \in 1..n PROVE i = j
    BY <1>6 DEF UniqueIn
  <2> QED
    BY <1>1
<1> QED
  BY <1>1, <1>3, <1>6, <1>7, <1>8 DEF a, n, s

--------------------------------------------------------------------------------
(* What the steps do to the operations and the queue together. *)

\* A step that leaves what is pending of kind k pending, in the same number.
QuietFor(k) ==
  /\ Pending(operations', ready', k) <=> Pending(operations, ready, k)
  /\ Single(operations, ready, k) => Single(operations', ready', k)

Typed == operations' \in [Completions -> Seq(Operation)] /\ ready' \in Seq(Handler)

\* The handler at the head is taken.
LEMMA HeadTaken ==
  ASSUME TypeOK, ready # <<>>, ready' = Tail(ready), UNCHANGED operations
  PROVE  /\ Typed
         /\ Tasks(ready') \subseteq Tasks(ready)
         /\ Head(ready) \in Handler /\ Head(ready).task \in Tasks(ready)
         /\ \A k \in Completions : k # Head(ready).task => QuietFor(k)
         /\ \A k \in Completions : k = Head(ready).task /\ Single(operations, ready, k) =>
              /\ Single(operations', ready', k)
              /\ ~Pending(operations', ready', k)
<1>1. ready \in Seq(Handler) /\ operations \in [Completions -> Seq(Operation)]
  BY DEF TypeOK
<1>2. /\ Tail(ready) \in Seq(Handler) /\ Head(ready) \in Handler
      /\ Tasks(ready) = {Head(ready).task} \cup Tasks(Tail(ready))
      /\ \A t : UniqueIn(ready, t) =>
           UniqueIn(Tail(ready), t)
           /\ (t = Head(ready).task => t \notin Tasks(Tail(ready)))
  BY <1>1, TakeHead
<1> QED
  BY <1>1, <1>2 DEF Typed, QuietFor, Pending, Single

\* Something is posted.
LEMMA PostAdded ==
  ASSUME TypeOK, NEW p \in Posts, NEW n \in Nat,
         ready' = Append(ready, Posted(p, n)), UNCHANGED operations
  PROVE  /\ Typed
         /\ Tasks(ready') = Tasks(ready) \cup {p}
         /\ \A k \in Completions : QuietFor(k)
<1>1. ready \in Seq(Handler) /\ operations \in [Completions -> Seq(Operation)]
  BY DEF TypeOK
<1> DEFINE h == Posted(p, n)
<1>2. h \in Handler /\ h.task = p /\ p \notin Completions
  BY BufferAssumption DEF Posted, Handler, Posts, Completions, Sizes
<1> HIDE DEF h
<1>3. /\ Append(ready, h) \in Seq(Handler)
      /\ Tasks(Append(ready, h)) = Tasks(ready) \cup {h.task}
      /\ \A t : UniqueIn(ready, t) /\ (t = h.task => t \notin Tasks(ready)) =>
           UniqueIn(Append(ready, h), t)
  BY <1>1, <1>2, OneMore
<1>4. ready' = Append(ready, h)
  BY DEF h
<1> QED
  BY <1>1, <1>2, <1>3, <1>4 DEF Typed, QuietFor, Pending, Single

\* A completion becomes ready.
LEMMA CompletionAdded ==
  ASSUME TypeOK, NEW k \in Completions, NEW op \in Operation,
         NEW result \in {"ok", "aborted", "failed"}, NEW length \in Sizes
  PROVE  LET q == Append(ready, Completed(k, op, result, length)) IN
         /\ q \in Seq(Handler)
         /\ Tasks(q) = Tasks(ready) \cup {k}
         /\ \A t : UniqueIn(ready, t) /\ (t = k => t \notin Tasks(ready)) => UniqueIn(q, t)
<1>1. ready \in Seq(Handler)
  BY DEF TypeOK
<1> DEFINE h == Completed(k, op, result, length)
<1>2. h \in Handler /\ h.task = k
  BY DEF Completed, Handler, Operation, Completions
<1> HIDE DEF h
<1>3. /\ Append(ready, h) \in Seq(Handler)
      /\ Tasks(Append(ready, h)) = Tasks(ready) \cup {h.task}
      /\ \A t : UniqueIn(ready, t) /\ (t = h.task => t \notin Tasks(ready)) =>
           UniqueIn(Append(ready, h), t)
  BY <1>1, <1>2, OneMore
<1> QED
  BY <1>2, <1>3 DEF h

\* The operation a thread begins.
LEMMA BegunTyping ==
  ASSUME TypeOK, NEW k \in Completions
  PROVE  Begun(k) \in Operation
<1>1. opens \in Nat /\ size \in Sizes /\ allocated \in Sizes /\ 0 \in Sizes
  BY BufferAssumption DEF TypeOK, Sizes
<1> QED
  BY <1>1 DEF Begun, Operation, Room

\* An operation is started, or fails to start.
LEMMA OperationBegun ==
  ASSUME TypeOK, NEW t \in Threads, NEW k \in Completions, Begin(t, k)
  PROVE  /\ Typed
         /\ Tasks(ready') \subseteq Tasks(ready) \cup {k}
         /\ \A j \in Completions : j # k => QuietFor(j)
         /\ Pending(operations', ready', k)
         /\ ~Pending(operations, ready, k) => Single(operations', ready', k)
<1>1. ready \in Seq(Handler) /\ operations \in [Completions -> Seq(Operation)]
  BY DEF TypeOK
<1>2. Begun(k) \in Operation
  BY BegunTyping
<1>3. CASE socket = "closed"
  <2> DEFINE q == Append(ready, Completed(k, Begun(k), "failed", 0))
  <2>1. ready' = q /\ operations' = operations
    BY <1>3 DEF Begin
  <2>2. 0 \in Sizes /\ "failed" \in {"ok", "aborted", "failed"}
    BY BufferAssumption DEF Sizes
  <2>3. /\ q \in Seq(Handler)
        /\ Tasks(q) = Tasks(ready) \cup {k}
        /\ \A u : UniqueIn(ready, u) /\ (u = k => u \notin Tasks(ready)) => UniqueIn(q, u)
    BY <1>2, <2>2, CompletionAdded
  <2> HIDE DEF q
  <2>4. Len(<<>>) <= 1
    OBVIOUS
  <2>5. ~Pending(operations, ready, k) => Single(operations', ready', k)
    <3> SUFFICES ASSUME operations[k] = <<>>, k \notin Tasks(ready)
                 PROVE  Single(operations', ready', k)
      BY DEF Pending
    <3>1. UniqueIn(ready, k)
      BY DEF UniqueIn, Tasks
    <3> QED
      BY <2>1, <2>3, <2>4, <3>1 DEF Single
  <2>6. Pending(operations', ready', k) /\ \A j \in Completions : j # k => QuietFor(j)
    BY <2>1, <2>3 DEF QuietFor, Pending, Single
  <2> QED
    BY <1>1, <2>1, <2>3, <2>5, <2>6 DEF Typed
<1>4. CASE socket # "closed"
  <2> DEFINE s == operations[k]
             r == Append(s, Begun(k))
  <2>1. operations' = [operations EXCEPT ![k] = r] /\ ready' = ready
    BY <1>4 DEF Begin
  <2>2. s \in Seq(Operation)
    BY <1>1
  <2>3. r \in Seq(Operation) /\ Len(r) = Len(s) + 1
    BY <1>2, <2>2, AppendProperties
  <2>4. Len(s) \in Nat /\ (s = <<>> <=> Len(s) = 0)
    BY <2>2, LenProperties, EmptySeq
  <2>5. r # <<>>
    BY <2>3, <2>4
  <2> HIDE DEF r
  <2>6. operations' \in [Completions -> Seq(Operation)] /\ operations'[k] = r
        /\ \A j \in Completions : j # k => operations'[j] = operations[j]
    BY <1>1, <2>1, <2>3
  <2>7. ~Pending(operations, ready, k) => Single(operations', ready', k)
    <3> SUFFICES ASSUME s = <<>>, k \notin Tasks(ready)
                 PROVE  Single(operations', ready', k)
      BY DEF Pending
    <3>1. Len(r) <= 1
      BY <2>3, <2>4
    <3>2. UniqueIn(ready, k)
      BY DEF UniqueIn, Tasks
    <3> QED
      BY <2>1, <2>6, <3>1, <3>2 DEF Single
  <2>8. Pending(operations', ready', k) /\ \A j \in Completions : j # k => QuietFor(j)
    BY <2>1, <2>5, <2>6 DEF QuietFor, Pending, Single
  <2> QED
    BY <1>1, <2>1, <2>6, <2>7, <2>8 DEF Typed
<1> QED
  BY <1>3, <1>4

\* An operation completes.
LEMMA OperationEnded ==
  ASSUME TypeOK, NEW k \in Completions, NEW result \in {"ok", "failed"},
         NEW length \in Sizes, Completes(k, result, length)
  PROVE  /\ Typed
         /\ Tasks(ready') = Tasks(ready) \cup {k}
         /\ \A j \in Completions : QuietFor(j)
<1>1. ready \in Seq(Handler) /\ operations \in [Completions -> Seq(Operation)]
  BY DEF TypeOK
<1> DEFINE s == operations[k]
           q == Append(ready, Completed(k, Head(s), result, length))
<1>2. s \in Seq(Operation) /\ s # <<>>
  BY <1>1 DEF Completes
<1>3. Head(s) \in Operation /\ Tail(s) \in Seq(Operation) /\ Len(Tail(s)) = Len(s) - 1
  BY <1>2, HeadTailProperties
<1>4. Len(s) \in Nat /\ Len(s) # 0 /\ (Tail(s) = <<>> <=> Len(Tail(s)) = 0)
  BY <1>2, <1>3, LenProperties, EmptySeq
<1>5. result \in {"ok", "aborted", "failed"}
  OBVIOUS
<1>6. /\ q \in Seq(Handler)
      /\ Tasks(q) = Tasks(ready) \cup {k}
      /\ \A t : UniqueIn(ready, t) /\ (t = k => t \notin Tasks(ready)) => UniqueIn(q, t)
  BY <1>3, <1>5, CompletionAdded
<1>7. ready' = q /\ operations' = [operations EXCEPT ![k] = Tail(s)]
  BY DEF Completes
<1> HIDE DEF q
<1>8. /\ operations' \in [Completions -> Seq(Operation)] /\ operations'[k] = Tail(s)
      /\ \A j \in Completions : j # k => operations'[j] = operations[j]
  BY <1>1, <1>3, <1>7
<1>9. ASSUME NEW j \in Completions, j # k PROVE QuietFor(j)
  BY <1>6, <1>7, <1>8, <1>9 DEF QuietFor, Pending, Single
<1>10. Pending(operations, ready, k) /\ Pending(operations', ready', k)
  BY <1>2, <1>6, <1>7 DEF Pending
<1>11. ASSUME Single(operations, ready, k) PROVE Single(operations', ready', k)
  <2>1. Len(s) <= 1 /\ UniqueIn(ready, k) /\ k \notin Tasks(ready)
    BY <1>2, <1>11 DEF Single
  <2>2. Tail(s) = <<>> /\ Len(Tail(s)) <= 1
    BY <1>3, <1>4, <2>1
  <2> QED
    BY <1>6, <1>7, <1>8, <2>1, <2>2 DEF Single
<1> QED
  BY <1>6, <1>7, <1>8, <1>9, <1>10, <1>11 DEF Typed, QuietFor

\* All operations are aborted.
LEMMA AllAborted ==
  ASSUME TypeOK, Cancelled
  PROVE  /\ Typed
         /\ \A k \in Completions : operations'[k] = <<>>
         /\ Tasks(ready') \subseteq Tasks(ready) \cup Completions
         /\ \A k \in Completions : QuietFor(k)
<1>1. ready \in Seq(Handler) /\ operations \in [Completions -> Seq(Operation)]
  BY DEF TypeOK
<1> DEFINE r == Aborted("receive")
           s == Aborted("send")
<1>2. "receive" \in Completions /\ "send" \in Completions
  BY DEF Completions
<1>3. /\ operations["receive"] \in Seq(Operation) /\ operations["send"] \in Seq(Operation)
  BY <1>1, <1>2
<1>4. /\ r \in Seq(Handler)
      /\ Tasks(r) = IF operations["receive"] = <<>> THEN {} ELSE {"receive"}
      /\ Len(operations["receive"]) <= 1 => \A t : UniqueIn(r, t)
  BY <1>2, <1>3, AbortedTasks
<1>5. /\ s \in Seq(Handler)
      /\ Tasks(s) = IF operations["send"] = <<>> THEN {} ELSE {"send"}
      /\ Len(operations["send"]) <= 1 => \A t : UniqueIn(s, t)
  BY <1>2, <1>3, AbortedTasks
<1>6. ready' = ready \o (r \o s) /\ operations' = [k \in Completions |-> <<>>]
  BY DEF Cancelled
<1> HIDE DEF r, s
<1>7. /\ r \o s \in Seq(Handler)
      /\ Tasks(r \o s) = Tasks(r) \cup Tasks(s)
      /\ \A t : UniqueIn(r, t) /\ UniqueIn(s, t) /\ t \notin Tasks(r) \cap Tasks(s) =>
           UniqueIn(r \o s, t)
  BY <1>4, <1>5, Concatenation
<1> DEFINE q == r \o s
<1> HIDE DEF q
<1>8. /\ ready \o q \in Seq(Handler)
      /\ Tasks(ready \o q) = Tasks(ready) \cup Tasks(q)
      /\ \A t : UniqueIn(ready, t) /\ UniqueIn(q, t) /\ t \notin Tasks(ready) \cap Tasks(q) =>
           UniqueIn(ready \o q, t)
  BY <1>1, <1>7, Concatenation DEF q
<1>9. /\ "receive" \in Tasks(q) <=> operations["receive"] # <<>>
      /\ "send" \in Tasks(q) <=> operations["send"] # <<>>
      /\ Tasks(q) \subseteq Completions
  BY <1>4, <1>5, <1>7 DEF q, Completions
<1>10. \A k \in Completions : k \in Tasks(q) <=> operations[k] # <<>>
  BY <1>9 DEF Completions
<1>11. /\ Typed
       /\ \A k \in Completions : operations'[k] = <<>>
       /\ Tasks(ready') \subseteq Tasks(ready) \cup Completions
  BY <1>6, <1>8, <1>9 DEF q, Typed
<1>12. ready' = ready \o q
  BY <1>6 DEF q
<1>13. ASSUME NEW k \in Completions
       PROVE  Pending(operations', ready', k) <=> Pending(operations, ready, k)
  BY <1>8, <1>10, <1>11, <1>12 DEF Pending
<1>u. \A p, t : t \notin Tasks(p) => UniqueIn(p, t)
  BY DEF UniqueIn, Tasks
<1>14. ASSUME NEW k \in Completions, Len(operations[k]) <= 1
       PROVE  UniqueIn(q, k)
  <2>1. CASE k = "receive"
    BY <1>4, <1>5, <1>7, <1>14, <1>u, <2>1 DEF q
  <2>2. CASE k = "send"
    BY <1>4, <1>5, <1>7, <1>14, <1>u, <2>2 DEF q
  <2> QED
    BY <2>1, <2>2 DEF Completions
<1>15. ASSUME NEW k \in Completions, Single(operations, ready, k)
       PROVE  Single(operations', ready', k)
  <2>1. UniqueIn(ready \o q, k)
    BY <1>8, <1>10, <1>14, <1>15 DEF Single
  <2>2. Len(operations'[k]) <= 1
    BY <1>11
  <2> QED
    BY <1>11, <1>12, <2>1, <2>2 DEF Single
<1> QED
  BY <1>11, <1>13, <1>15 DEF QuietFor

--------------------------------------------------------------------------------
(* The steps, by what they do to the connection. *)

Connection == <<role, running, socket, opens, connected, started>>

\* Most steps leave the connection alone, and the calls that open and close it.
Aside ==
  /\ UNCHANGED Connection
  /\ \A t \in Threads : Changes(t) \/ Changes(t)' =>
       doing'[t] = doing[t] /\ at'[t] = at[t]

\* A call that opens or closes begins, its test passed.
Enters(t) ==
  /\ UNCHANGED Connection
  /\ running /\ doing[t] = "nothing"
  /\ \A u \in Threads : u # t => doing'[u] = doing[u] /\ at'[u] = at[u]
  /\ \/ /\ doing'[t] = "connect" /\ at'[t] = "open"
        /\ role = "client" => ~connected
        /\ role = "server" => ~started /\ t = "context"
     \/ doing'[t] = "disconnect" /\ at'[t] = "close" /\ connected
     \/ doing'[t] = "stop" /\ at'[t] = "close" /\ started /\ role = "server"

\* One goes on.
Proceeds(t) ==
  \/ Open(t) \/ Bind(t) \/ Port(t) \/ Resize(t) \/ SetStarted(t) \/ SetConnected(t)
  \/ Close(t) \/ ClearConnected(t) \/ ClearStarted(t)
  \/ ClearReceiving(t) \/ ClearSending(t) \/ ClearBuffers(t)

\* What a step of a thread does to where it is, and to the other thread.
LEMMA ThreadMoves ==
  ASSUME TypeOK, NEW t \in Threads, NEW call, NEW place
  PROVE  /\ \A number : Begins(t, call, place, number) =>
              doing'[t] = call /\ at'[t] = place
         /\ Ends(t) => doing'[t] = "nothing" /\ at'[t] = "nowhere"
         /\ Goes(t, place) => doing'[t] = doing[t] /\ at'[t] = place
         /\ \A number : Begins(t, call, place, number) \/ Ends(t) \/ Goes(t, place) =>
              \A u \in Threads : u # t => doing'[u] = doing[u] /\ at'[u] = at[u]
<1>1. doing \in [Threads -> Calls] /\ at \in [Threads -> Places]
  BY DEF TypeOK
<1> QED
  BY <1>1 DEF Begins, Ends, Goes

\* The kinds of a posted handler that is about to run.
LEMMA RunSuits ==
  ASSUME TypeOK, InPlace, NEW task, Runs(task)
  PROVE  /\ ready # <<>> /\ Head(ready).task = task /\ task \in Suited
         /\ running /\ doing["context"] = "nothing" /\ phase = "none"
<1>1. ready # <<>> /\ Head(ready).task = task
  BY DEF Runs
<1>2. ready \in Seq(Handler)
  BY DEF TypeOK
<1>3. Head(ready).task \in Tasks(ready)
  BY <1>1, <1>2, TakeHead
<1> QED
  BY <1>1, <1>3 DEF InPlace, Runs

\* Every step is one of these.
LEMMA LifeSteps ==
  ASSUME TypeOK, InPlace, Next
  PROVE  Aside \/ \E t \in Threads : Enters(t) \/ Proceeds(t)
<1> DEFINE Goal == Aside \/ \E t \in Threads : Enters(t) \/ Proceeds(t)
<1>t. "context" \in Threads
  BY DEF Threads
<1>a. ASSUME UNCHANGED Connection, UNCHANGED <<doing, at>> PROVE Goal
  BY <1>a DEF Aside
<1>b. ASSUME UNCHANGED Connection, NEW t \in Threads, ~Changes(t), ~Changes(t)',
             \A u \in Threads : u # t => doing'[u] = doing[u] /\ at'[u] = at[u]
      PROVE  Goal
  BY <1>b DEF Aside
<1>1. ASSUME NEW t \in Threads, Connect(t) PROVE Goal
  <2>1. Begins(t, "connect", "open", 0) /\ UNCHANGED Connection
    BY <1>1 DEF Connect, Called, Known, Connection, flagVars
  <2>2. /\ doing'[t] = "connect" /\ at'[t] = "open"
        /\ \A u \in Threads : u # t => doing'[u] = doing[u] /\ at'[u] = at[u]
    BY <2>1, ThreadMoves
  <2>3. Enters(t)
    BY <1>1, <2>1, <2>2 DEF Connect, Free, Enters
  <2> QED
    BY <2>3
<1>2. ASSUME NEW t \in Threads, NEW place, Free(t), Begins(t, "post", place, 0), Called
      PROVE  Goal
  <2>1. UNCHANGED Connection
    BY <1>2 DEF Called, Known, Connection, flagVars
  <2>2. /\ doing'[t] = "post" /\ doing[t] = "nothing"
        /\ \A u \in Threads : u # t => doing'[u] = doing[u] /\ at'[u] = at[u]
    BY <1>2, ThreadMoves DEF Free
  <2> QED
    BY <1>b, <2>1, <2>2 DEF Changes
<1>3. ASSUME NEW t \in Threads, ConnectAsync(t) \/ Start(t) \/ Stop(t) PROVE Goal
  BY <1>2, <1>3 DEF ConnectAsync, Start, Stop
<1>4. ASSUME NEW t \in Threads, Disconnect(t) PROVE Goal
  <2>1. Begins(t, "disconnect", "close", opens) /\ UNCHANGED Connection
    BY <1>4 DEF Disconnect, Called, Known, Connection, flagVars
  <2>2. /\ doing'[t] = "disconnect" /\ at'[t] = "close"
        /\ \A u \in Threads : u # t => doing'[u] = doing[u] /\ at'[u] = at[u]
    BY <2>1, ThreadMoves
  <2>3. Enters(t)
    BY <1>4, <2>1, <2>2 DEF Disconnect, Free, Enters
  <2> QED
    BY <2>3
<1>5. ASSUME NEW t \in Threads, Receive(t) PROVE Goal
  BY <1>a, <1>5 DEF Receive, Connection, flagVars, threadVars
<1>6. ASSUME NEW t \in Threads, NEW k \in Completions, StartAsync(t, k) PROVE Goal
  <2>1. Begins(t, k, "connected", 0) /\ UNCHANGED Connection
    BY <1>6 DEF StartAsync, Called, Known, Connection, flagVars
  <2>2. /\ doing'[t] = k /\ doing[t] = "nothing"
        /\ \A u \in Threads : u # t => doing'[u] = doing[u] /\ at'[u] = at[u]
    BY <1>6, <2>1, ThreadMoves DEF StartAsync, Free
  <2> QED
    BY <1>b, <2>1, <2>2 DEF Changes, Completions
<1>7. ASSUME NEW t \in Threads, NEW k \in Completions, NEW place, In(t, k, place),
             \E p \in Places : Goes(t, p) \/ Ends(t), UNCHANGED Connection
      PROVE  Goal
  <2>1. /\ doing[t] = k /\ (doing'[t] = k \/ doing'[t] = "nothing")
        /\ \A u \in Threads : u # t => doing'[u] = doing[u] /\ at'[u] = at[u]
    BY <1>7, ThreadMoves DEF In
  <2> QED
    BY <1>7, <1>b, <2>1 DEF Changes, Completions
<1>8. ASSUME NEW t \in Threads, NEW k \in Completions, TestConnected(t, k) PROVE Goal
  BY <1>7, <1>8 DEF TestConnected, Known, Connection, flagVars, Places
<1>9. ASSUME NEW t \in Threads, NEW k \in Completions, SetBusy(t, k) PROVE Goal
  BY <1>7, <1>9 DEF SetBusy, Connection, Places
<1>10. ASSUME NEW t \in Threads, NEW k \in Completions, Begin(t, k) PROVE Goal
  BY <1>7, <1>10 DEF Begin, Connection, flagVars, Places
<1>11. ASSUME NEW t \in Threads, Post(t) PROVE Goal
  <2>1. /\ doing[t] = "post" /\ doing'[t] = "nothing"
        /\ \A u \in Threads : u # t => doing'[u] = doing[u] /\ at'[u] = at[u]
        /\ UNCHANGED Connection
    BY <1>11, ThreadMoves DEF Post, Connection, flagVars
  <2> QED
    BY <1>b, <2>1 DEF Changes
<1>12. ASSUME Network PROVE Goal
  BY <1>a, <1>12 DEF Network, DatagramArrives, ReceiveBreaks, SendCompletes, Completes,
     Connection, flagVars, threadVars
<1>13. ASSUME SendHandled \/ ReceiveTaken \/ ReceiveTested \/ ReceiveCompared \/ ReceiveGrown
              \/ ReceiveFailed \/ ReceiveCancels \/ ReceivePosts
       PROVE  Goal
  BY <1>a, <1>13 DEF SendHandled, ReceiveTaken, ReceiveTested, ReceiveCompared, ReceiveGrown,
     ReceiveFailed, ReceiveCancels, ReceivePosts, Handled, Connection, flagVars, threadVars
<1>14. ASSUME RunDisconnect PROVE Goal
  <2>0. Runs("disconnect") /\ UNCHANGED Connection
    BY <1>14 DEF RunDisconnect, Taken, Handled, Connection, flagVars
  <2>1. CASE connected
    <3>1. Begins("context", "disconnect", "close", Head(ready).socket)
      BY <1>14, <2>1 DEF RunDisconnect, Continues, TestToDisconnect
    <3>2. /\ doing'["context"] = "disconnect" /\ at'["context"] = "close"
          /\ \A u \in Threads : u # "context" => doing'[u] = doing[u] /\ at'[u] = at[u]
      BY <1>t, <3>1, ThreadMoves
    <3>3. Enters("context")
      BY <2>0, <2>1, <3>2, RunSuits DEF Enters
    <3> QED
      BY <1>t, <3>3
  <2>2. CASE ~connected
    BY <1>a, <1>14, <2>0, <2>2 DEF RunDisconnect, Continues, TestToDisconnect, threadVars
  <2> QED
    BY <2>1, <2>2
<1>15. ASSUME RunConnect PROVE Goal
  <2>0. Runs("connect") /\ UNCHANGED Connection
    BY <1>15 DEF RunConnect, Taken, Handled, Connection, flagVars
  <2>r. role = "client" /\ running /\ doing["context"] = "nothing"
    BY <2>0, RunSuits DEF Suited, Completions
  <2>1. CASE ~connected
    <3>1. Begins("context", "connect", "open", 0)
      BY <1>15, <2>1 DEF RunConnect, Continues
    <3>2. /\ doing'["context"] = "connect" /\ at'["context"] = "open"
          /\ \A u \in Threads : u # "context" => doing'[u] = doing[u] /\ at'[u] = at[u]
      BY <1>t, <3>1, ThreadMoves
    <3>3. Enters("context")
      BY <2>0, <2>r, <2>1, <3>2 DEF Enters
    <3> QED
      BY <1>t, <3>3
  <2>2. CASE connected
    BY <1>a, <1>15, <2>0, <2>2 DEF RunConnect, Continues, threadVars
  <2> QED
    BY <2>1, <2>2
<1>16. ASSUME RunStart PROVE Goal
  <2>0. Runs("start") /\ UNCHANGED Connection
    BY <1>16 DEF RunStart, Taken, Handled, Connection, flagVars
  <2>r. role # "client" /\ running /\ doing["context"] = "nothing"
    BY <2>0, RunSuits DEF Suited, Completions
  <2>1. CASE ~started
    <3>1. Begins("context", "connect", "open", 0)
      BY <1>16, <2>1 DEF RunStart, Continues
    <3>2. /\ doing'["context"] = "connect" /\ at'["context"] = "open"
          /\ \A u \in Threads : u # "context" => doing'[u] = doing[u] /\ at'[u] = at[u]
      BY <1>t, <3>1, ThreadMoves
    <3>3. Enters("context")
      BY <2>0, <2>r, <2>1, <3>2 DEF Enters
    <3> QED
      BY <1>t, <3>3
  <2>2. CASE started
    BY <1>a, <1>16, <2>0, <2>2 DEF RunStart, Continues, threadVars
  <2> QED
    BY <2>1, <2>2
<1>17. ASSUME RunStop PROVE Goal
  <2>0. Runs("stop") /\ UNCHANGED Connection
    BY <1>17 DEF RunStop, Taken, Handled, Connection, flagVars
  <2>r. role = "server" /\ running /\ doing["context"] = "nothing"
    BY <2>0, RunSuits, RolesAssumption DEF Suited, Completions, TypeOK
  <2>1. CASE started
    <3>1. Begins("context", "stop", "close", 0)
      BY <1>17, <2>1 DEF RunStop, Continues
    <3>2. /\ doing'["context"] = "stop" /\ at'["context"] = "close"
          /\ \A u \in Threads : u # "context" => doing'[u] = doing[u] /\ at'[u] = at[u]
      BY <1>t, <3>1, ThreadMoves
    <3>3. Enters("context")
      BY <2>0, <2>r, <2>1, <3>2 DEF Enters
    <3> QED
      BY <1>t, <3>3
  <2>2. CASE ~started
    BY <1>a, <1>17, <2>0, <2>2 DEF RunStop, Continues, threadVars
  <2> QED
    BY <2>1, <2>2
<1>18. ASSUME NEW t \in Threads, Proceeds(t) PROVE Goal
  BY <1>18
<1> HIDE DEF Goal
<1>19. ASSUME NEW t \in Threads, CallsOf(t) PROVE Goal
  BY <1>19, <1>1, <1>3, <1>4, <1>5, <1>6 DEF CallsOf
<1>20. ASSUME NEW t \in Threads, Continue(t) PROVE Goal
  BY <1>20, <1>8, <1>9, <1>10, <1>11, <1>18 DEF Continue, Proceeds
<1>21. ASSUME Handle PROVE Goal
  BY <1>21, <1>13, <1>14, <1>15, <1>16, <1>17 DEF Handle
<1>22. Goal
  BY <1>12, <1>19, <1>20, <1>21 DEF Next, Step
<1> QED
  BY <1>22 DEF Goal

\* Both threads are in calls that open or close only if raced tells.
LEMMA OneChanges ==
  ASSUME "connection" \notin raced, RacesTold
  PROVE  \A t, u \in Threads : Changes(t) /\ Changes(u) => t = u
BY DEF RacesTold, Overlaps, Races, Threads

\* Where the other thread is not opening or closing, and one goes on.
LEMMA ProceedsTyping ==
  ASSUME TypeOK, NEW t \in Threads, Proceeds(t)
  PROVE  /\ Changes(t) /\ running /\ role' = role
         /\ doing'[t] = doing[t] \/ doing'[t] = "nothing"
         /\ \A u \in Threads : u # t => doing'[u] = doing[u] /\ at'[u] = at[u]
<1>1. Changes(t) /\ running /\ role' = role
  BY DEF Proceeds, Open, Bind, Port, Resize, SetStarted, SetConnected, Close, ClearConnected,
     ClearStarted, ClearReceiving, ClearSending, ClearBuffers, Opening, In, Changes
<1>2. Ends(t) \/ \E place \in Places : Goes(t, place)
  BY DEF Proceeds, Open, Bind, Port, Resize, SetStarted, SetConnected, Close, ClearConnected,
     ClearStarted, ClearReceiving, ClearSending, ClearBuffers, Throws, Places
<1> QED
  BY <1>1, <1>2, ThreadMoves

\* The connection, through its openings and its closings.
LEMMA LifeNext ==
  ASSUME IInv, Next
  PROVE  LifeCycle'
<1> SUFFICES ASSUME running', "connection" \notin raced'
             PROVE  /\ \A t \in Threads : Halfway(t)'
                    /\ (\A t \in Threads : ~Changes(t)') => Agreed'
  BY DEF LifeCycle
<1>0. TypeOK /\ InPlace /\ RacesTold /\ LifeCycle /\ role \in {"client", "server"}
  BY RolesAssumption DEF IInv, TypeOK
<1>1. "connection" \notin raced /\ RacesTold'
  BY DEF Next, Tells, RacesTold
<1>2. \A t, u \in Threads : Changes(t) /\ Changes(u) => t = u
  BY <1>0, <1>1, OneChanges
<1>3. \A t, u \in Threads : Changes(t)' /\ Changes(u)' => t = u
  BY <1>1 DEF RacesTold, Overlaps, Races, Threads
<1>4. CASE Aside
  <2>1. running /\ UNCHANGED Connection
    BY <1>4 DEF Aside, Connection
  <2>2. /\ \A t \in Threads : Halfway(t)
        /\ (\A t \in Threads : ~Changes(t)) => Agreed
    BY <1>0, <1>1, <2>1 DEF LifeCycle
  <2>3. \A t \in Threads : Changes(t) \/ Changes(t)' =>
          doing'[t] = doing[t] /\ at'[t] = at[t]
    BY <1>4 DEF Aside
  <2>4. Agreed' <=> Agreed
    BY <2>1 DEF Agreed, Connection
  <2>5. (\A t \in Threads : ~Changes(t)') => Agreed'
    BY <2>2, <2>3, <2>4 DEF Changes
  <2>6. ASSUME NEW t \in Threads PROVE Halfway(t)'
    BY <2>1, <2>2, <2>3, <2>4 DEF Halfway, Changes, Connection
  <2> QED
    BY <2>5, <2>6
<1>5. ASSUME NEW t \in Threads, Enters(t)
      PROVE  /\ \A u \in Threads : Halfway(u)'
             /\ (\A u \in Threads : ~Changes(u)') => Agreed'
  <2>1. /\ running /\ UNCHANGED Connection /\ doing[t] = "nothing"
        /\ \A u \in Threads : u # t => doing'[u] = doing[u] /\ at'[u] = at[u]
    BY <1>5 DEF Enters
  <2>2. Changes(t)' /\ ~Changes(t)
    BY <1>5, <2>1 DEF Enters, Changes
  <2>3. \A u \in Threads : u # t => ~Changes(u)' /\ ~Changes(u)
    BY <1>3, <2>1, <2>2 DEF Changes
  <2>4. Agreed
    BY <1>0, <1>1, <2>1, <2>2, <2>3 DEF LifeCycle
  <2>5. Agreed'
    BY <2>1, <2>4 DEF Agreed, Connection
  <2>6. Halfway(t)'
    BY <1>0, <1>5, <2>1, <2>4, <2>5 DEF Enters, Halfway, Agreed, Connection
  <2>7. ASSUME NEW u \in Threads, u # t PROVE Halfway(u)'
    BY <2>3, <2>7 DEF Halfway, Changes
  <2> QED
    BY <2>5, <2>6, <2>7
<1>6. ASSUME NEW t \in Threads, Proceeds(t)
      PROVE  /\ \A u \in Threads : Halfway(u)'
             /\ (\A u \in Threads : ~Changes(u)') => Agreed'
  <2>1. /\ Changes(t) /\ running /\ role' = role
        /\ doing'[t] = doing[t] \/ doing'[t] = "nothing"
        /\ \A u \in Threads : u # t => doing'[u] = doing[u] /\ at'[u] = at[u]
    BY <1>0, <1>6, ProceedsTyping
  <2>2. \A u \in Threads : u # t => ~Changes(u)' /\ ~Changes(u)
    BY <1>2, <2>1 DEF Changes
  <2>3. Halfway(t)
    BY <1>0, <1>1, <2>1 DEF LifeCycle
  <2>4. ASSUME NEW u \in Threads, u # t PROVE Halfway(u)'
    BY <2>2, <2>4 DEF Halfway, Changes
  <2>g. ASSUME Halfway(t)', ~Changes(t)' => Agreed'
        PROVE  /\ \A u \in Threads : Halfway(u)'
               /\ (\A u \in Threads : ~Changes(u)') => Agreed'
    BY <2>4, <2>g
  <2>p. \A place : /\ Goes(t, place) => doing'[t] = doing[t] /\ at'[t] = place
                   /\ Ends(t) => doing'[t] = "nothing"
    BY <1>0, ThreadMoves
  <2>5. CASE Open(t)
    <3>1. doing[t] = "connect" /\ at[t] = "open" /\ socket = "closed"
      BY <2>3, <2>5 DEF Open, Opening, In, Halfway
    <3>2. /\ socket' = "open" /\ UNCHANGED <<connected, started>>
          /\ doing'[t] = "connect" /\ at'[t] = "bind"
      BY <2>5, <2>p, <3>1 DEF Open, flagVars
    <3> QED
      BY <2>1, <2>3, <2>g, <3>1, <3>2 DEF Halfway, Changes
  <2>6. CASE Bind(t)
    <3>1. doing[t] = "connect" /\ at[t] = "bind" /\ socket = "open"
      BY <2>3, <2>6 DEF Bind, Opening, In, Halfway
    <3>2. t = "context" \/ role # "server"
      BY <1>0, <3>1 DEF InPlace, Threads
    <3>3. ~Throws(t) \/ role # "server"
      BY <3>2 DEF Throws
    <3>4. /\ socket' = "bound" /\ UNCHANGED <<connected, started>>
          /\ doing'[t] = "connect" /\ at'[t] \in {"port", "resize"}
      BY <2>6, <2>p, <3>1, <3>3 DEF Bind, flagVars
    <3> QED
      BY <2>1, <2>3, <2>g, <3>1, <3>4 DEF Halfway, Changes
  <2>7. CASE Port(t)
    <3>1. doing[t] = "connect" /\ at[t] = "port" /\ socket = "bound"
      BY <2>3, <2>7 DEF Port, Opening, In, Halfway
    <3>2. /\ UNCHANGED <<socket, connected, started>>
          /\ doing'[t] = "connect" /\ at'[t] = "resize"
      BY <2>7, <2>p, <3>1 DEF Port, flagVars
    <3> QED
      BY <2>1, <2>3, <2>g, <3>1, <3>2 DEF Halfway, Changes
  <2>8. CASE Resize(t)
    <3>1. doing[t] = "connect" /\ at[t] = "resize" /\ socket = "bound"
      BY <2>3, <2>8 DEF Resize, Opening, In, Halfway
    <3>2. /\ UNCHANGED <<socket, connected, started>>
          /\ doing'[t] = "connect"
          /\ at'[t] = (IF role = "server" THEN "started" ELSE "connected")
      BY <2>8, <2>p, <3>1 DEF Resize, flagVars
    <3> QED
      BY <1>0, <2>1, <2>3, <2>g, <3>1, <3>2 DEF Halfway, Changes
  <2>9. CASE SetStarted(t)
    <3>1. doing[t] = "connect" /\ at[t] = "started" /\ socket = "bound"
      BY <2>3, <2>9 DEF SetStarted, Opening, In, Halfway
    <3>2. /\ UNCHANGED <<socket, connected>> /\ started'
          /\ doing'[t] = "connect" /\ at'[t] = "connected"
      BY <2>9, <2>p, <3>1 DEF SetStarted
    <3> QED
      BY <2>1, <2>3, <2>g, <3>1, <3>2 DEF Halfway, Changes
  <2>10. CASE SetConnected(t)
    <3>1. /\ doing[t] = "connect" /\ at[t] = "connected" /\ socket = "bound"
          /\ role = "server" => started
      BY <2>3, <2>10 DEF SetConnected, Opening, In, Halfway
    <3>2. /\ UNCHANGED <<socket, started>> /\ connected' /\ doing'[t] = "nothing"
      BY <2>10, <2>p DEF SetConnected
    <3>3. Agreed'
      BY <2>1, <3>1, <3>2 DEF Agreed
    <3> QED
      BY <2>g, <3>2, <3>3 DEF Halfway
  <2>11. CASE Close(t)
    <3>1. /\ socket' = "closed" /\ UNCHANGED <<connected, started>>
          /\ doing'[t] \in {"disconnect", "stop"} /\ at'[t] \in {"connected", "started"}
      BY <2>11, <2>p DEF Close, CloseSocket, In, flagVars
    <3> QED
      BY <2>g, <3>1 DEF Halfway, Changes
  <2>12. CASE ClearConnected(t)
    <3>1. socket = "closed"
      BY <2>3, <2>12 DEF ClearConnected, In, Halfway
    <3>2. /\ UNCHANGED <<socket, started>> /\ ~connected'
          /\ doing'[t] = "disconnect" /\ at'[t] = "receive"
      BY <2>12, <2>p DEF ClearConnected, In
    <3> QED
      BY <2>g, <3>1, <3>2 DEF Halfway, Changes
  <2>13. CASE ClearStarted(t)
    <3>1. socket = "closed"
      BY <2>3, <2>13 DEF ClearStarted, In, Halfway
    <3>2. /\ UNCHANGED <<socket, connected>>
          /\ doing'[t] = "stop" /\ at'[t] = "receive"
      BY <2>13, <2>p DEF ClearStarted, In
    <3> QED
      BY <2>g, <3>1, <3>2 DEF Halfway, Changes
  <2>14. CASE ClearReceiving(t)
    <3>1. socket = "closed" /\ (doing[t] = "disconnect" => ~connected)
      BY <2>3, <2>14 DEF ClearReceiving, In, Halfway
    <3>2. /\ UNCHANGED <<socket, connected, started>>
          /\ doing'[t] = doing[t] /\ doing[t] \in {"disconnect", "stop"} /\ at'[t] = "send"
      BY <2>14, <2>p DEF ClearReceiving, In
    <3> QED
      BY <2>g, <3>1, <3>2 DEF Halfway, Changes
  <2>15. CASE ClearSending(t)
    <3>1. socket = "closed" /\ (doing[t] = "disconnect" => ~connected)
          /\ (doing[t] = "stop" => role = "server")
      BY <1>0, <2>3, <2>15 DEF ClearSending, In, Halfway, InPlace
    <3>2. /\ UNCHANGED <<socket, connected, started>>
          /\ \/ doing'[t] = "disconnect" /\ doing[t] = "disconnect" /\ at'[t] = "clear"
             \/ doing'[t] = "nothing" /\ doing[t] = "stop"
      BY <2>15, <2>p DEF ClearSending, In
    <3>3. doing[t] = "stop" => Agreed'
      BY <2>1, <3>1, <3>2 DEF Agreed
    <3> QED
      BY <2>g, <3>1, <3>2, <3>3 DEF Halfway, Changes
  <2>16. CASE ClearBuffers(t)
    <3>1. socket = "closed" /\ ~connected
      BY <2>3, <2>16 DEF ClearBuffers, In, Halfway
    <3>2. UNCHANGED <<socket, connected, started>> /\ doing'[t] = "nothing"
      BY <2>16, <2>p DEF ClearBuffers, flagVars
    <3>3. Agreed'
      BY <2>1, <3>1, <3>2 DEF Agreed
    <3> QED
      BY <2>g, <3>2, <3>3 DEF Halfway
  <2> QED
    BY <1>6, <2>5, <2>6, <2>7, <2>8, <2>9, <2>10, <2>11, <2>12, <2>13, <2>14, <2>15, <2>16
       DEF Proceeds
<1> QED
  BY <1>0, <1>4, <1>5, <1>6, LifeSteps

\* A thread past a close has closed the first socket, while there is no other.
LEMMA FirstNext ==
  ASSUME IInv, Next
  PROVE  FirstSocket'
<1>0. TypeOK /\ InPlace /\ Fresh /\ FirstSocket /\ opens \in Nat
  BY DEF IInv, TypeOK
<1> DEFINE Past(u) == doing[u] \in {"disconnect", "stop"} /\ at[u] # "close"
<1> SUFFICES ASSUME opens' <= 1, NEW u \in Threads, Past(u)' PROVE socket' = "closed"
  BY DEF FirstSocket
<1>g. ASSUME opens' = opens, socket' = socket \/ socket' = "closed", Past(u)
      PROVE  socket' = "closed"
  BY <1>0, <1>g DEF FirstSocket
<1>1. CASE Aside
  BY <1>g, <1>1 DEF Aside, Connection, Changes
<1>2. ASSUME NEW t \in Threads, Enters(t) PROVE socket' = "closed"
  BY <1>g, <1>2 DEF Enters, Connection
<1>3. ASSUME NEW t \in Threads, Proceeds(t) PROVE socket' = "closed"
  <2>1. \A v \in Threads : v # t => doing'[v] = doing[v] /\ at'[v] = at[v]
    BY <1>0, <1>3, ProceedsTyping
  <2>p. \A place : /\ Goes(t, place) => doing'[t] = doing[t] /\ at'[t] = place
                   /\ Ends(t) => doing'[t] = "nothing"
    BY <1>0, ThreadMoves
  <2>2. CASE Open(t)
    <3>1. doing[t] = "connect" /\ (Ends(t) \/ Goes(t, "bind"))
      BY <2>2 DEF Open, Opening, In, Throws
    <3>2. u # t /\ Past(u)
      BY <2>1, <2>p, <3>1
    <3>3. opens # 0
      BY <1>0, <3>2 DEF Fresh, Completions
    <3>4. CASE socket # "closed"
      BY <1>g, <2>2, <3>2, <3>4 DEF Open
    <3>5. CASE socket = "closed"
      <4>1. opens' = opens + 1
        BY <2>2, <3>5 DEF Open
      <4> QED
        BY <1>0, <3>3, <4>1
    <3> QED
      BY <3>4, <3>5
  <2>3. CASE Bind(t)
    <3>1. doing[t] = "connect" /\ (Ends(t) \/ \E p : Goes(t, p))
      BY <2>3 DEF Bind, Opening, In, Throws
    <3>2. u # t /\ Past(u) /\ opens' = opens
      BY <2>1, <2>p, <2>3, <3>1 DEF Bind
    <3>3. socket = "closed"
      BY <1>0, <3>2 DEF FirstSocket
    <3> QED
      BY <1>g, <2>3, <3>2, <3>3 DEF Bind
  <2>4. CASE Port(t) \/ Resize(t) \/ SetStarted(t) \/ SetConnected(t)
    <3>1. doing[t] = "connect" /\ (Ends(t) \/ \E p : Goes(t, p))
      BY <2>4 DEF Port, Resize, SetStarted, SetConnected, Opening, In, Throws
    <3>2. u # t /\ Past(u) /\ UNCHANGED <<opens, socket>>
      BY <2>1, <2>p, <2>4, <3>1 DEF Port, Resize, SetStarted, SetConnected
    <3> QED
      BY <1>g, <3>2
  <2>5. CASE Close(t)
    BY <2>5 DEF Close, CloseSocket
  <2>6. CASE \/ ClearConnected(t) \/ ClearStarted(t)
             \/ ClearReceiving(t) \/ ClearSending(t) \/ ClearBuffers(t)
    <3>1. /\ doing[t] \in {"disconnect", "stop"} /\ at[t] # "close"
          /\ UNCHANGED <<opens, socket>>
      BY <2>6 DEF ClearConnected, ClearStarted, ClearReceiving, ClearSending, ClearBuffers, In
    <3>2. Past(u)
      BY <2>1, <3>1
    <3> QED
      BY <1>g, <3>1, <3>2
  <2> QED
    BY <1>3, <2>2, <2>3, <2>4, <2>5, <2>6 DEF Proceeds
<1> QED
  BY <1>0, <1>1, <1>2, <1>3, LifeSteps

--------------------------------------------------------------------------------
(* The steps, by what they do to the operations and the queue. *)

Posting == \E p \in Posts \cap Suited, n \in Nat :
             ready' = Append(ready, Posted(p, n)) /\ UNCHANGED operations
Taking == ready # <<>> /\ ready' = Tail(ready) /\ UNCHANGED operations
Ending == \E k \in Completions, result \in {"ok", "failed"}, length \in Sizes :
            Completes(k, result, length)
Beginning == \E t \in Threads, k \in Completions : Begin(t, k)

\* Every step is one of these.
LEMMA QueueSteps ==
  ASSUME TypeOK, InPlace, Next
  PROVE  \/ UNCHANGED <<operations, ready>>
         \/ Cancelled \/ Posting \/ Taking \/ Ending \/ Beginning
<1> DEFINE Goal == \/ UNCHANGED <<operations, ready>>
                   \/ Cancelled \/ Posting \/ Taking \/ Ending \/ Beginning
<1>1. ASSUME NEW t \in Threads, Connect(t) \/ ConnectAsync(t) \/ Start(t) \/ Stop(t)
                                \/ Disconnect(t) PROVE Goal
  BY <1>1 DEF Connect, ConnectAsync, Start, Stop, Disconnect, Called, Known
<1>2. ASSUME NEW t \in Threads, Receive(t) PROVE Goal
  BY <1>2 DEF Receive
<1>3. ASSUME NEW t \in Threads, NEW k \in Completions, StartAsync(t, k) PROVE Goal
  BY <1>3 DEF StartAsync, Called, Known
<1>4. ASSUME NEW t \in Threads, NEW k \in Completions,
             TestConnected(t, k) \/ SetBusy(t, k) \/ Begin(t, k) PROVE Goal
  BY <1>4 DEF TestConnected, Known, SetBusy, Beginning
<1>5. ASSUME NEW t \in Threads, Post(t) PROVE Goal
  <2>1. at[t] \in Posts \cap Suited /\ target[t] \in Nat
    BY <1>5 DEF Post, InPlace, TypeOK
  <2>2. ready' = Append(ready, Posted(at[t], target[t])) /\ UNCHANGED operations
    BY <1>5 DEF Post
  <2> QED
    BY <2>1, <2>2 DEF Posting
<1>6. ASSUME NEW t \in Threads, Open(t) \/ Bind(t) \/ Port(t) \/ Resize(t) \/ SetStarted(t)
                \/ SetConnected(t) \/ ClearConnected(t) \/ ClearStarted(t)
                \/ ClearReceiving(t) \/ ClearSending(t) \/ ClearBuffers(t) PROVE Goal
  BY <1>6 DEF Open, Bind, Port, Resize, SetStarted, SetConnected, ClearConnected,
     ClearStarted, ClearReceiving, ClearSending, ClearBuffers
<1>7. ASSUME NEW t \in Threads, Close(t) PROVE Goal
  BY <1>7 DEF Close, CloseSocket
<1>8. ASSUME Network PROVE Goal
  <2>1. 0 \in Sizes /\ "receive" \in Completions /\ "send" \in Completions
    BY BufferAssumption DEF Sizes, Completions
  <2>2. ASSUME NEW k \in Completions, NEW result \in {"ok", "failed"}, NEW length \in Sizes,
               Completes(k, result, length)
        PROVE  Goal
    BY <2>2 DEF Ending
  <2> QED
    BY <1>8, <2>1, <2>2 DEF Network, DatagramArrives, ReceiveBreaks, SendCompletes
<1>9. ASSUME SendHandled \/ ReceiveTaken \/ RunDisconnect \/ RunConnect \/ RunStart \/ RunStop
      PROVE  Goal
  BY <1>9 DEF SendHandled, ReceiveTaken, RunDisconnect, RunConnect, RunStart, RunStop, Taken,
     Runs, Taking
<1>10. ASSUME ReceiveTested \/ ReceiveCompared \/ ReceiveGrown \/ ReceiveFailed
       PROVE  Goal
  BY <1>10 DEF ReceiveTested, ReceiveCompared, ReceiveGrown, ReceiveFailed
<1>11. ASSUME ReceiveCancels PROVE Goal
  BY <1>11 DEF ReceiveCancels
<1>12. ASSUME ReceivePosts PROVE Goal
  <2>1. "disconnect" \in Posts \cap Suited /\ current.socket \in Nat
    BY DEF Posts, Suited, TypeOK, Handler
  <2>2. ready' = Append(ready, Posted("disconnect", current.socket)) /\ UNCHANGED operations
    BY <1>12 DEF ReceivePosts
  <2> QED
    BY <2>1, <2>2 DEF Posting
<1> HIDE DEF Goal
<1>13. ASSUME NEW t \in Threads, CallsOf(t) PROVE Goal
  BY <1>13, <1>1, <1>2, <1>3 DEF CallsOf
<1>14. ASSUME NEW t \in Threads, Continue(t) PROVE Goal
  BY <1>14, <1>4, <1>5, <1>6, <1>7 DEF Continue
<1>15. ASSUME Handle PROVE Goal
  BY <1>15, <1>9, <1>10, <1>11, <1>12 DEF Handle
<1>16. Goal
  BY <1>8, <1>13, <1>14, <1>15 DEF Next, Step
<1> QED
  BY <1>16 DEF Goal

\* The operations and the queue keep their types.
LEMMA QueueNext ==
  ASSUME TypeOK, InPlace, Next
  PROVE  Typed /\ Tasks(ready') \subseteq Suited
<1>0. /\ operations \in [Completions -> Seq(Operation)] /\ ready \in Seq(Handler)
      /\ Tasks(ready) \subseteq Suited /\ Completions \subseteq Suited
  BY DEF TypeOK, InPlace, Suited
<1>1. CASE UNCHANGED <<operations, ready>>
  BY <1>0, <1>1 DEF Typed
<1>2. CASE Cancelled
  <2>1. Typed /\ Tasks(ready') \subseteq Tasks(ready) \cup Completions
    BY <1>2, AllAborted
  <2> QED
    BY <1>0, <2>1
<1>3. CASE Posting
  <2>1. PICK p \in Posts \cap Suited, n \in Nat :
          ready' = Append(ready, Posted(p, n)) /\ UNCHANGED operations
    BY <1>3 DEF Posting
  <2>2. p \in Posts /\ p \in Suited
    OBVIOUS
  <2>3. Typed /\ Tasks(ready') = Tasks(ready) \cup {p}
    BY <2>1, <2>2, PostAdded
  <2> QED
    BY <1>0, <2>2, <2>3
<1>4. CASE Taking
  <2>1. Typed /\ Tasks(ready') \subseteq Tasks(ready)
    BY <1>4, HeadTaken DEF Taking
  <2> QED
    BY <1>0, <2>1
<1>5. CASE Ending
  <2>1. PICK k \in Completions, result \in {"ok", "failed"}, length \in Sizes :
          Completes(k, result, length)
    BY <1>5 DEF Ending
  <2>2. Typed /\ Tasks(ready') = Tasks(ready) \cup {k}
    BY <2>1, OperationEnded
  <2> QED
    BY <1>0, <2>2
<1>6. CASE Beginning
  <2>1. PICK t \in Threads, k \in Completions : Begin(t, k)
    BY <1>6 DEF Beginning
  <2>2. Typed /\ Tasks(ready') \subseteq Tasks(ready) \cup {k}
    BY <2>1, OperationBegun
  <2> QED
    BY <1>0, <2>2
<1> QED
  BY <1>1, <1>2, <1>3, <1>4, <1>5, <1>6, QueueSteps

--------------------------------------------------------------------------------
(* The parts of the invariant, one by one. *)

ThreadsTyped == /\ doing' \in [Threads -> Calls] /\ at' \in [Threads -> Places]
                /\ target' \in [Threads -> Nat]

\* What a step of a thread does to the types of the threads.
LEMMA ThreadsTyping ==
  ASSUME TypeOK, NEW t \in Threads, NEW call \in Calls, NEW place \in Places, NEW n \in Nat
  PROVE  Begins(t, call, place, n) \/ Ends(t) \/ Goes(t, place) => ThreadsTyped
<1>1. /\ doing \in [Threads -> Calls] /\ at \in [Threads -> Places]
      /\ target \in [Threads -> Nat]
      /\ "nothing" \in Calls /\ "nowhere" \in Places
  BY DEF TypeOK, Calls, Places
<1> QED
  BY <1>1 DEF Begins, Ends, Goes, ThreadsTyped

\* The threads stay in calls and places there are.
LEMMA ThreadsNext ==
  ASSUME TypeOK, InPlace, Next
  PROVE  ThreadsTyped
<1>0. /\ opens \in Nat /\ 0 \in Nat
      /\ Head(ready) \in Handler => Head(ready).socket \in Nat
      /\ "context" \in Threads
  BY DEF TypeOK, Handler, Threads
<1>1. ASSUME UNCHANGED threadVars PROVE ThreadsTyped
  BY <1>1 DEF TypeOK, threadVars, ThreadsTyped
<1>2. ASSUME NEW t \in Threads, NEW call \in Calls, NEW place \in Places, NEW n \in Nat,
             Begins(t, call, place, n) \/ Ends(t) \/ Goes(t, place)
      PROVE  ThreadsTyped
  BY <1>2, ThreadsTyping
<1>3. ASSUME NEW t \in Threads, Ends(t) \/ \E place \in Places : Goes(t, place)
      PROVE  ThreadsTyped
  <2>1. "nothing" \in Calls /\ "nowhere" \in Places
    BY DEF Calls, Places
  <2> QED
    BY <1>0, <1>2, <1>3, <2>1
<1>4. ASSUME NEW t \in Threads, CallsOf(t) PROVE ThreadsTyped
  <2>1. {"connect", "post", "disconnect"} \cup Completions \subseteq Calls
        /\ {"open", "connect", "start", "stop", "close", "connected"} \subseteq Places
    BY DEF Calls, Places, Posts
  <2>2. \/ UNCHANGED threadVars
        \/ Begins(t, "connect", "open", 0)
        \/ Begins(t, "post", "connect", 0) \/ Begins(t, "post", "start", 0)
        \/ Begins(t, "post", "stop", 0) \/ Begins(t, "disconnect", "close", opens)
        \/ \E k \in Completions : Begins(t, k, "connected", 0)
    BY <1>4 DEF CallsOf, Connect, ConnectAsync, Start, Stop, Disconnect, Receive, StartAsync
  <2> QED
    BY <1>0, <1>1, <1>2, <2>1, <2>2
<1>5. ASSUME NEW t \in Threads, Continue(t) PROVE ThreadsTyped
  <2>1. Ends(t) \/ \E place \in Places : Goes(t, place)
    BY <1>5 DEF Continue, Open, Bind, Port, Resize, SetStarted, SetConnected, Close,
       ClearConnected, ClearStarted, ClearReceiving, ClearSending, ClearBuffers, Post,
       TestConnected, SetBusy, Begin, Throws, Places
  <2> QED
    BY <1>3, <2>1
<1>6. ASSUME Network PROVE ThreadsTyped
  BY <1>1, <1>6 DEF Network, DatagramArrives, ReceiveBreaks, SendCompletes, Completes
<1>7. ASSUME Handle PROVE ThreadsTyped
  <2>1. {"connect", "disconnect", "stop"} \subseteq Calls /\ {"open", "close"} \subseteq Places
    BY DEF Calls, Places
  <2>2. CASE RunDisconnect
    <3>1. ready # <<>> /\ ready \in Seq(Handler)
      BY <2>2 DEF RunDisconnect, Taken, Runs, TypeOK
    <3>2. Head(ready) \in Handler
      BY <3>1, TakeHead
    <3> QED
      BY <1>0, <1>1, <1>2, <2>1, <2>2, <3>2 DEF RunDisconnect, Continues
  <2>3. CASE RunConnect \/ RunStart \/ RunStop
    BY <1>0, <1>1, <1>2, <2>1, <2>3 DEF RunConnect, RunStart, RunStop, Continues
  <2>4. CASE \/ SendHandled \/ ReceiveTaken \/ ReceiveTested \/ ReceiveCompared
             \/ ReceiveGrown \/ ReceiveFailed \/ ReceiveCancels \/ ReceivePosts
    BY <1>1, <2>4 DEF SendHandled, ReceiveTaken, ReceiveTested, ReceiveCompared,
       ReceiveGrown, ReceiveFailed, ReceiveCancels, ReceivePosts
  <2> QED
    BY <1>7, <2>2, <2>3, <2>4 DEF Handle
<1> QED
  BY <1>4, <1>5, <1>6, <1>7 DEF Next, Step

\* Every step keeps the types.
LEMMA TypeNext ==
  ASSUME IInv, Next
  PROVE  TypeOK'
<1>0. TypeOK /\ InPlace /\ BufferKept
  BY DEF IInv
<1>1. operations' \in [Completions -> Seq(Operation)] /\ ready' \in Seq(Handler)
  BY <1>0, QueueNext DEF Typed
<1>2. /\ doing' \in [Threads -> Calls] /\ at' \in [Threads -> Places]
      /\ target' \in [Threads -> Nat]
  BY <1>0, ThreadsNext DEF ThreadsTyped
<1>3. raced' \subseteq Races
  BY <1>0 DEF Next, Tells, Overlaps, TypeOK
<1> DEFINE Rest == <<role, running, socket, opens, calls, connected, started, busy, size,
                     allocated, endpoint, phase, current>>
           RestTyped ==
             /\ role \in Roles /\ running \in BOOLEAN
             /\ socket \in {"closed", "open", "bound"}
             /\ opens \in Nat /\ calls \in Nat
             /\ connected \in BOOLEAN /\ started \in BOOLEAN
             /\ busy \in [Completions -> BOOLEAN]
             /\ size \in Sizes /\ allocated \in Sizes
             /\ endpoint \in {"configured", "sender"}
             /\ phase \in Phases /\ current \in Handler
<1>4. RestTyped
  BY <1>0 DEF TypeOK
<1>5. ASSUME RestTyped' PROVE TypeOK'
  BY <1>1, <1>2, <1>3, <1>5 DEF TypeOK
<1>6. 0 \in Sizes /\ BufferSize \in Sizes /\ \A n, m \in Sizes : Larger(n, m) \in Sizes
  BY BufferAssumption DEF Sizes, Larger
<1>7. NoCompletion \in Handler
  BY <1>6 DEF NoCompletion, Posted, Handler, Posts
<1>8. ASSUME NEW t \in Threads, CallsOf(t) PROVE RestTyped'
  <2>1. CASE Receive(t)
    BY <1>4, <2>1 DEF Receive, Sender, bufferVars, flagVars, handlerVars
  <2>2. CASE ~Receive(t)
    BY <1>4, <1>8, <2>2 DEF CallsOf, Connect, ConnectAsync, Start, Stop, Disconnect,
       StartAsync, Called, Known, bufferVars, flagVars, handlerVars
  <2> QED
    BY <2>1, <2>2
<1>9. ASSUME NEW t \in Threads, Open(t) \/ Bind(t) \/ Port(t) PROVE RestTyped'
  <2>1. running' \in BOOLEAN
    BY <1>4, <1>9 DEF Open, Bind, Port, Throws
  <2>2. socket' \in {"closed", "open", "bound"} /\ opens' \in Nat
    BY <1>4, <1>9 DEF Open, Bind, Port
  <2>3. UNCHANGED <<role, calls, endpoint, bufferVars, flagVars, handlerVars>>
    BY <1>9 DEF Open, Bind, Port
  <2> QED
    BY <1>4, <2>1, <2>2, <2>3 DEF bufferVars, flagVars, handlerVars
<1>10. ASSUME NEW t \in Threads, Resize(t) \/ SetStarted(t) \/ SetConnected(t)
       PROVE  RestTyped'
  BY <1>4, <1>6, <1>10 DEF Resize, Grow, SetStarted, SetConnected, bufferVars, flagVars,
     handlerVars
<1>11. ASSUME NEW t \in Threads, Close(t) \/ ClearConnected(t) \/ ClearStarted(t)
       PROVE  RestTyped'
  BY <1>4, <1>11 DEF Close, CloseSocket, ClearConnected, ClearStarted, DropStarted,
     bufferVars, flagVars, handlerVars
<1>12. ASSUME NEW t \in Threads, ClearReceiving(t) \/ ClearSending(t) \/ ClearBuffers(t)
       PROVE  RestTyped'
  BY <1>4, <1>6, <1>12 DEF ClearReceiving, ClearSending, ClearBuffers, Idle,
     bufferVars, flagVars, handlerVars
<1>13. ASSUME NEW t \in Threads, Post(t) PROVE RestTyped'
  BY <1>4, <1>13 DEF Post, bufferVars, flagVars, handlerVars
<1>14. ASSUME NEW t \in Threads, NEW k \in Completions,
              TestConnected(t, k) \/ SetBusy(t, k) \/ Begin(t, k)
       PROVE  RestTyped'
  BY <1>4, <1>14 DEF TestConnected, Known, SetBusy, Begin, bufferVars, flagVars, handlerVars
<1>15. ASSUME Network PROVE RestTyped'
  BY <1>4, <1>15 DEF Network, DatagramArrives, ReceiveBreaks, SendCompletes, Completes,
     Sender, bufferVars, flagVars, handlerVars
<1>16. ASSUME SendHandled PROVE RestTyped'
  BY <1>4, <1>16 DEF SendHandled, Cleared, Idle, Handled, bufferVars, handlerVars
<1>17. ASSUME ReceiveTaken PROVE RestTyped'
  <2>1. ready # <<>> /\ ready \in Seq(Handler)
    BY <1>0, <1>17 DEF ReceiveTaken, Runs, TypeOK
  <2>2. Head(ready) \in Handler
    BY <2>1, TakeHead
  <2> QED
    BY <1>4, <1>17, <2>2 DEF ReceiveTaken, Cleared, Idle, Handled, bufferVars, Phases
<1>18. ASSUME NEW p \in Phases, Turns(p) PROVE phase' \in Phases /\ current' \in Handler
  BY <1>4, <1>7, <1>18 DEF Turns
<1>19. ASSUME ReceiveTested \/ ReceiveCompared \/ ReceiveFailed PROVE RestTyped'
  <2>1. \E p \in Phases : Turns(p)
    BY <1>19 DEF ReceiveTested, ReceiveCompared, ReceiveFailed, Phases
  <2> QED
    BY <1>4, <1>18, <1>19, <2>1 DEF ReceiveTested, ReceiveCompared, ReceiveFailed, Handled,
       bufferVars, flagVars
<1>20. ASSUME ReceiveCancels \/ ReceivePosts PROVE RestTyped'
  <2>1. \E p \in Phases : Turns(p)
    BY <1>20 DEF ReceiveCancels, ReceivePosts, Phases
  <2> QED
    BY <1>4, <1>18, <1>20, <2>1 DEF ReceiveCancels, ReceivePosts, Handled,
       bufferVars, flagVars
<1>21. ASSUME ReceiveGrown PROVE RestTyped'
  <2>1. phase = "grow" /\ current.length \in Nat
    BY <1>4, <1>21, BufferAssumption DEF ReceiveGrown, InHandler, Handler, Sizes
  <2>2. 2 * current.length \in Sizes
    BY <1>0, <2>1, BufferAssumption DEF BufferKept, Sizes
  <2>3. size' \in Sizes /\ allocated' \in Sizes
    BY <1>4, <1>6, <1>21, <2>2 DEF ReceiveGrown, Grow
  <2>4. "none" \in Phases /\ Turns("none")
    BY <1>21 DEF ReceiveGrown, Phases
  <2> QED
    BY <1>4, <1>18, <1>21, <2>3, <2>4 DEF ReceiveGrown, Handled, flagVars
<1>22. ASSUME RunDisconnect \/ RunConnect \/ RunStart \/ RunStop PROVE RestTyped'
  BY <1>4, <1>22 DEF RunDisconnect, RunConnect, RunStart, RunStop, Taken, Handled,
     bufferVars, flagVars, handlerVars
<1> HIDE DEF RestTyped
<1>23. ASSUME NEW t \in Threads, Continue(t) PROVE RestTyped'
  BY <1>23, <1>9, <1>10, <1>11, <1>12, <1>13, <1>14 DEF Continue
<1>24. ASSUME Handle PROVE RestTyped'
  BY <1>24, <1>16, <1>17, <1>19, <1>20, <1>21, <1>22 DEF Handle
<1> QED
  BY <1>5, <1>8, <1>15, <1>23, <1>24 DEF Next, Step

\* What is posted, and who is where.
LEMMA InPlaceNext ==
  ASSUME IInv, Next
  PROVE  InPlace'
<1>0. TypeOK /\ InPlace /\ "context" \in Threads /\ "application" \in Threads
  BY DEF IInv, Threads
<1>r. /\ role' = role
      /\ \A t \in Threads :
           \/ doing'[t] = doing[t] \/ ~Changes(t)'
           \/ doing'[t] = "stop" /\ role = "server"
           \/ doing'[t] = "connect" /\ (role = "server" => t = "context")
           \/ doing'[t] = "disconnect"
  <2>1. CASE Aside
    BY <2>1 DEF Aside, Connection
  <2>2. ASSUME NEW t \in Threads, Enters(t)
        PROVE  /\ role' = role
               /\ \A u \in Threads :
                    \/ doing'[u] = doing[u] \/ doing'[u] = "nothing"
                    \/ doing'[u] = "stop" /\ role = "server"
                    \/ doing'[u] = "connect" /\ (role = "server" => u = "context")
                    \/ doing'[u] = "disconnect"
    BY <2>2 DEF Enters, Connection
  <2>3. ASSUME NEW t \in Threads, Proceeds(t)
        PROVE  /\ role' = role
               /\ \A u \in Threads : doing'[u] = doing[u] \/ doing'[u] = "nothing"
    BY <1>0, <2>3, ProceedsTyping
  <2> QED
    BY <1>0, <2>1, <2>2, <2>3, LifeSteps DEF Changes
<1>1. Tasks(ready') \subseteq Suited /\ Suited' = Suited
  BY <1>0, <1>r, QueueNext DEF Suited
<1>2. /\ \A t \in Threads : doing'[t] = "stop" => role' = "server"
      /\ role' = "server" => doing'["application"] # "connect"
  BY <1>0, <1>r DEF InPlace, Changes
<1>3. ASSUME NEW t \in Threads, doing'[t] = "post" PROVE at'[t] \in Posts \cap Suited
  <2>0. doing[t] = "post" => at[t] \in Posts \cap Suited
    BY <1>0 DEF InPlace
  <2>1. CASE UNCHANGED threadVars
    BY <1>3, <2>0, <2>1 DEF threadVars
  <2>2. ASSUME NEW u \in Threads, NEW call, NEW place, NEW n, Begins(u, call, place, n),
               call # "post" \/ place \in Posts \cap Suited
        PROVE  at'[t] \in Posts \cap Suited
    <3>1. /\ doing'[u] = call /\ at'[u] = place
          /\ \A v \in Threads : v # u => doing'[v] = doing[v] /\ at'[v] = at[v]
      BY <1>0, <2>2, ThreadMoves
    <3> QED
      BY <1>3, <2>0, <2>2, <3>1
  <2>3. ASSUME NEW u \in Threads, doing[u] # "post" \/ Ends(u),
               Ends(u) \/ \E place : Goes(u, place)
        PROVE  at'[t] \in Posts \cap Suited
    <3>1. /\ doing'[u] = "nothing" \/ doing'[u] # "post"
          /\ \A v \in Threads : v # u => doing'[v] = doing[v] /\ at'[v] = at[v]
      BY <1>0, <2>3, ThreadMoves
    <3> QED
      BY <1>3, <2>0, <3>1
  <2>4. ASSUME NEW u \in Threads, CallsOf(u) PROVE at'[t] \in Posts \cap Suited
    <3>1. /\ "connect" \in Posts /\ "start" \in Posts /\ "stop" \in Posts
          /\ role = "client" => "connect" \in Suited
          /\ role = "server" => "start" \in Suited /\ "stop" \in Suited
          /\ "post" \notin Completions
      BY DEF Posts, Suited, Completions
    <3>2. \/ UNCHANGED threadVars
          \/ Begins(u, "connect", "open", 0)
          \/ Begins(u, "post", "connect", 0) /\ role = "client"
          \/ Begins(u, "post", "start", 0) /\ role = "server"
          \/ Begins(u, "post", "stop", 0) /\ role = "server"
          \/ Begins(u, "disconnect", "close", opens)
          \/ \E k \in Completions : Begins(u, k, "connected", 0)
      BY <2>4 DEF CallsOf, Connect, ConnectAsync, Start, Stop, Disconnect, Receive, StartAsync
    <3> QED
      BY <2>1, <2>2, <3>1, <3>2
  <2>5. ASSUME NEW u \in Threads, Continue(u) PROVE at'[t] \in Posts \cap Suited
    <3>1. Ends(u) \/ (doing[u] # "post" /\ \E place : Goes(u, place))
      BY <2>5 DEF Continue, Open, Bind, Port, Resize, SetStarted, SetConnected, Close,
         ClearConnected, ClearStarted, ClearReceiving, ClearSending, ClearBuffers, Post,
         TestConnected, SetBusy, Begin, Throws, Opening, In, Completions
    <3> QED
      BY <2>3, <3>1
  <2>6. CASE Network
    BY <2>1, <2>6 DEF Network, DatagramArrives, ReceiveBreaks, SendCompletes, Completes
  <2>7. CASE RunDisconnect \/ RunConnect \/ RunStart \/ RunStop
    BY <1>0, <2>1, <2>2, <2>7 DEF RunDisconnect, RunConnect, RunStart, RunStop, Continues
  <2>8. CASE \/ SendHandled \/ ReceiveTaken \/ ReceiveTested \/ ReceiveCompared
             \/ ReceiveGrown \/ ReceiveFailed \/ ReceiveCancels \/ ReceivePosts
    BY <2>1, <2>8 DEF SendHandled, ReceiveTaken, ReceiveTested, ReceiveCompared,
       ReceiveGrown, ReceiveFailed, ReceiveCancels, ReceivePosts
  <2> QED
    BY <2>4, <2>5, <2>6, <2>7, <2>8 DEF Next, Step, Handle
<1>4. phase' \in {"test", "grow", "cancel", "post"} => doing'["context"] = "nothing"
  <2> DEFINE Alone == phase' \in {"test", "grow", "cancel", "post"} =>
                        doing'["context"] = "nothing"
  <2>1. ASSUME UNCHANGED handlerVars,
               \/ doing'["context"] = doing["context"]
               \/ phase \notin {"test", "grow", "cancel", "post"}
        PROVE  Alone
    BY <1>0, <2>1 DEF InPlace, handlerVars
  <2>2. ASSUME NEW t \in Threads, CallsOf(t) PROVE Alone
    <3>1. UNCHANGED handlerVars
      BY <2>2 DEF CallsOf, Connect, ConnectAsync, Start, Stop, Disconnect, Receive,
         StartAsync, Called, Known
    <3>2. CASE t = "context"
      <4>1. phase \notin {"test", "grow", "cancel", "post"}
        BY <2>2, <3>2 DEF CallsOf, Connect, ConnectAsync, Start, Stop, Disconnect, Receive,
           StartAsync, Free, InCallback
      <4> QED
        BY <2>1, <3>1, <4>1
    <3>3. CASE t # "context"
      <4>1. \/ UNCHANGED threadVars
            \/ \E call, place, n : Begins(t, call, place, n)
        BY <2>2 DEF CallsOf, Connect, ConnectAsync, Start, Stop, Disconnect, Receive,
           StartAsync
      <4>2. doing'["context"] = doing["context"]
        BY <1>0, <3>3, <4>1, ThreadMoves DEF threadVars
      <4> QED
        BY <2>1, <3>1, <4>2
    <3> QED
      BY <3>2, <3>3
  <2>3. ASSUME NEW t \in Threads, Continue(t) PROVE Alone
    <3>1. UNCHANGED handlerVars
      BY <2>3 DEF Continue, Open, Bind, Port, Resize, SetStarted, SetConnected, Close,
         ClearConnected, ClearStarted, ClearReceiving, ClearSending, ClearBuffers, Post,
         TestConnected, Known, SetBusy, Begin
    <3>2. CASE t = "context"
      <4>1. doing["context"] # "nothing"
        BY <2>3, <3>2 DEF Continue, Open, Bind, Port, Resize, SetStarted, SetConnected, Close,
           ClearConnected, ClearStarted, ClearReceiving, ClearSending, ClearBuffers, Post,
           TestConnected, SetBusy, Begin, Opening, In, Completions
      <4>2. phase \notin {"test", "grow", "cancel", "post"}
        BY <1>0, <4>1 DEF InPlace
      <4> QED
        BY <2>1, <3>1, <4>2
    <3>3. CASE t # "context"
      <4>1. Ends(t) \/ \E place : Goes(t, place)
        BY <2>3 DEF Continue, Open, Bind, Port, Resize, SetStarted, SetConnected, Close,
           ClearConnected, ClearStarted, ClearReceiving, ClearSending, ClearBuffers, Post,
           TestConnected, SetBusy, Begin, Throws
      <4>2. doing'["context"] = doing["context"]
        BY <1>0, <3>3, <4>1, ThreadMoves
      <4> QED
        BY <2>1, <3>1, <4>2
    <3> QED
      BY <3>2, <3>3
  <2>4. CASE Network
    <3>1. UNCHANGED handlerVars /\ UNCHANGED threadVars
      BY <2>4 DEF Network, DatagramArrives, ReceiveBreaks, SendCompletes, Completes
    <3> QED
      BY <2>1, <3>1 DEF threadVars
  <2>5. CASE RunDisconnect \/ RunConnect \/ RunStart \/ RunStop
    <3>1. UNCHANGED handlerVars /\ phase = "none"
      BY <2>5 DEF RunDisconnect, RunConnect, RunStart, RunStop, Taken, Runs
    <3> QED
      BY <2>1, <3>1
  <2>6. CASE \/ SendHandled \/ ReceiveTaken \/ ReceiveTested \/ ReceiveCompared
             \/ ReceiveGrown \/ ReceiveFailed \/ ReceiveCancels \/ ReceivePosts
    <3>1. UNCHANGED threadVars /\ doing["context"] = "nothing"
      BY <2>6 DEF SendHandled, ReceiveTaken, ReceiveTested, ReceiveCompared,
         ReceiveGrown, ReceiveFailed, ReceiveCancels, ReceivePosts, Runs, InHandler
    <3> QED
      BY <3>1 DEF threadVars
  <2> QED
    BY <2>2, <2>3, <2>4, <2>5, <2>6 DEF Next, Step, Handle
<1> QED
  BY <1>0, <1>1, <1>2, <1>3, <1>4, <1>r DEF InPlace

\* Nothing is outstanding on a closed socket.
LEMMA ClosedIsEmpty ==
  ASSUME TypeOK, SocketOps, socket = "closed"
  PROVE  \A k \in Completions : operations[k] = <<>>
<1> SUFFICES ASSUME NEW k \in Completions PROVE operations[k] = <<>>
  OBVIOUS
<1>1. operations[k] \in Seq(Operation)
  BY DEF TypeOK
<1>2. DOMAIN operations[k] = 1..Len(operations[k]) /\ Len(operations[k]) \in Nat
  BY <1>1, LenProperties
<1>3. DOMAIN operations[k] = {}
  BY DEF SocketOps
<1>4. Len(operations[k]) = 0
  <2>1. 1 \notin 1..Len(operations[k])
    BY <1>2, <1>3
  <2> QED
    BY <1>2, <2>1
<1> QED
  BY <1>1, <1>4, EmptySeq

\* The socket of what is outstanding.
LEMMA SocketOpsNext ==
  ASSUME IInv, Next
  PROVE  SocketOps'
<1>0. TypeOK /\ InPlace /\ SocketOps
  BY DEF IInv
<1>o. operations \in [Completions -> Seq(Operation)] /\ \A k \in Completions :
        operations[k] \in Seq(Operation)
  BY <1>0 DEF TypeOK
<1> DEFINE Sound(s) == \A i \in DOMAIN s : socket' # "closed" /\ s[i].socket = opens'
<1> SUFFICES ASSUME NEW k \in Completions PROVE Sound(operations'[k])
  BY DEF SocketOps
<1>1. CASE Cancelled
  <2>1. operations'[k] = <<>> /\ DOMAIN <<>> = {}
    BY <1>0, <1>1, AllAborted
  <2> QED
    BY <2>1
<1>2. \/ opens' = opens /\ (socket # "closed" => socket' # "closed")
      \/ UNCHANGED operations /\ socket = "closed"
      \/ Cancelled
  <2>1. CASE Aside
    BY <2>1 DEF Aside, Connection
  <2>2. ASSUME NEW t \in Threads, Enters(t)
        PROVE  opens' = opens /\ (socket # "closed" => socket' # "closed")
    BY <2>2 DEF Enters, Connection
  <2>3. ASSUME NEW t \in Threads, Proceeds(t)
        PROVE  \/ opens' = opens /\ (socket # "closed" => socket' # "closed")
               \/ UNCHANGED operations /\ socket = "closed"
               \/ Cancelled
    BY <2>3 DEF Proceeds, Open, Bind, Port, Resize, SetStarted, SetConnected, Close,
       CloseSocket, ClearConnected, ClearStarted, ClearReceiving, ClearSending, ClearBuffers
  <2> QED
    BY <1>0, <2>1, <2>2, <2>3, LifeSteps
<1>3. CASE UNCHANGED operations /\ socket = "closed"
  BY <1>0, <1>3, ClosedIsEmpty
<1>4. CASE opens' = opens /\ (socket # "closed" => socket' # "closed")
  <2>1. Sound(operations[k])
    BY <1>0, <1>4 DEF SocketOps
  <2>2. CASE UNCHANGED operations \/ Posting \/ Taking
    BY <2>1, <2>2 DEF Posting, Taking
  <2>3. CASE Ending
    <3>1. PICK j \in Completions, result \in {"ok", "failed"}, length \in Sizes :
            Completes(j, result, length)
      BY <2>3 DEF Ending
    <3>2. operations' = [operations EXCEPT ![j] = Tail(operations[j])]
          /\ operations[j] # <<>>
      BY <3>1 DEF Completes
    <3>3. CASE j # k
      BY <1>o, <2>1, <3>2, <3>3
    <3>4. CASE j = k
      <4> DEFINE s == operations[k]
                 r == Tail(s)
      <4>1. s \in Seq(Operation) /\ s # <<>> /\ operations'[k] = r
        BY <1>o, <3>2, <3>4
      <4>2. /\ r \in Seq(Operation) /\ Len(r) = Len(s) - 1 /\ Len(s) \in Nat
            /\ DOMAIN r = 1..Len(r) /\ DOMAIN s = 1..Len(s)
            /\ \A i \in 1..Len(r) : r[i] = s[i + 1]
        BY <4>1, HeadTailProperties, LenProperties
      <4> HIDE DEF r
      <4>3. \A i \in DOMAIN r : i + 1 \in DOMAIN s /\ r[i] = s[i + 1]
        BY <4>2
      <4> QED
        BY <2>1, <4>1, <4>3
    <3> QED
      BY <3>3, <3>4
  <2>4. CASE Beginning
    <3>1. PICK t \in Threads, j \in Completions : Begin(t, j)
      BY <2>4 DEF Beginning
    <3>2. CASE socket = "closed" \/ j # k
      <4>1. operations'[k] = operations[k]
        BY <1>o, <3>1, <3>2 DEF Begin
      <4> QED
        BY <2>1, <4>1
    <3>3. CASE socket # "closed" /\ j = k
      <4> DEFINE s == operations[k]
                 r == Append(s, Begun(k))
      <4>1. s \in Seq(Operation) /\ operations'[k] = r /\ Begun(k) \in Operation
        BY <1>0, <1>o, <3>1, <3>3, BegunTyping DEF Begin
      <4>2. /\ r \in Seq(Operation) /\ Len(r) = Len(s) + 1 /\ Len(s) \in Nat
            /\ DOMAIN r = 1..Len(r) /\ DOMAIN s = 1..Len(s)
            /\ r[Len(r)] = Begun(k)
            /\ \A i \in 1..Len(s) : r[i] = s[i]
        BY <4>1, AppendProperties, LenProperties
      <4>3. Begun(k).socket = opens
        BY DEF Begun
      <4> HIDE DEF r
      <4>4. \A i \in DOMAIN r : (i \in DOMAIN s /\ r[i] = s[i]) \/ r[i] = Begun(k)
        BY <4>2
      <4> QED
        BY <1>4, <2>1, <3>3, <4>1, <4>3, <4>4
    <3> QED
      BY <3>2, <3>3
  <2> QED
    BY <1>0, <1>1, <2>2, <2>3, <2>4, QueueSteps
<1> QED
  BY <1>1, <1>2, <1>3, <1>4

\* Before the first socket is opened.
LEMMA FreshNext ==
  ASSUME IInv, Next
  PROVE  Fresh'
<1>0. TypeOK /\ InPlace /\ SocketOps /\ Fresh /\ opens \in Nat
  BY DEF IInv, TypeOK
<1> SUFFICES ASSUME opens' = 0
             PROVE  /\ socket' = "closed" /\ ~connected' /\ ~started'
                    /\ phase' = "none"
                    /\ \A k \in Completions : ~busy'[k] /\ k \notin Tasks(ready')
                    /\ \A t \in Threads :
                         \/ doing'[t] \in {"nothing", "post"}
                         \/ doing'[t] = "connect" /\ at'[t] = "open"
                         \/ doing'[t] \in Completions /\ at'[t] = "connected"
  BY DEF Fresh
<1>1. opens = 0
  <2>1. CASE Aside
    BY <2>1 DEF Aside, Connection
  <2>2. ASSUME NEW t \in Threads, Enters(t) PROVE opens' = opens
    BY <2>2 DEF Enters, Connection
  <2>3. ASSUME NEW t \in Threads, Proceeds(t) PROVE opens' \in {opens, opens + 1}
    BY <2>3 DEF Proceeds, Open, Bind, Port, Resize, SetStarted, SetConnected, Close,
       ClearConnected, ClearStarted, ClearReceiving, ClearSending, ClearBuffers
  <2> QED
    BY <1>0, <2>1, <2>2, <2>3, LifeSteps
<1>2. /\ socket = "closed" /\ ~connected /\ ~started
      /\ phase = "none"
      /\ \A k \in Completions : ~busy[k] /\ k \notin Tasks(ready)
  BY <1>0, <1>1 DEF Fresh
<1>3. \A t \in Threads : \/ doing[t] \in {"nothing", "post"}
                         \/ doing[t] = "connect" /\ at[t] = "open"
                         \/ doing[t] \in Completions /\ at[t] = "connected"
  BY <1>0, <1>1 DEF Fresh
<1>4. \A k \in Completions : operations[k] = <<>>
  BY <1>0, <1>2, ClosedIsEmpty
<1>5. \A t \in Threads : ~Proceeds(t)
  <2> SUFFICES ASSUME NEW t \in Threads, Proceeds(t) PROVE FALSE
    OBVIOUS
  <2>1. doing[t] \in {"connect", "disconnect", "stop"}
    BY <1>0, ProceedsTyping DEF Changes
  <2>2. doing[t] = "connect" /\ at[t] = "open"
    BY <1>3, <2>1 DEF Completions
  <2>3. Open(t)
    BY <2>2 DEF Proceeds, Bind, Port, Resize, SetStarted, SetConnected, Close,
       ClearConnected, ClearStarted, ClearReceiving, ClearSending, ClearBuffers, Opening, In
  <2>4. opens' = opens + 1
    BY <1>2, <2>3 DEF Open
  <2> QED
    BY <1>1, <2>4
<1>6. /\ UNCHANGED Connection
      /\ \A t \in Threads : Changes(t)' => doing'[t] = "connect" /\ at'[t] = "open"
  <2>1. CASE Aside
    BY <1>3, <2>1 DEF Aside, Changes, Completions
  <2>2. ASSUME NEW t \in Threads, Enters(t)
        PROVE  /\ UNCHANGED Connection
               /\ \A u \in Threads : Changes(u)' => doing'[u] = "connect" /\ at'[u] = "open"
    BY <1>2, <1>3, <2>2 DEF Enters, Changes, Completions
  <2> QED
    BY <1>0, <1>5, <2>1, <2>2, LifeSteps
<1>7. ASSUME NEW k \in Completions PROVE k \notin Tasks(ready')
  <2>1. CASE UNCHANGED ready
    BY <1>2, <2>1
  <2>2. CASE Cancelled
    <3>1. Pending(operations', ready', k) <=> Pending(operations, ready, k)
      BY <1>0, <2>2, AllAborted DEF QuietFor
    <3> QED
      BY <1>2, <1>4, <3>1 DEF Pending
  <2>3. CASE Posting
    <3>1. PICK p \in Posts \cap Suited, n \in Nat :
            ready' = Append(ready, Posted(p, n)) /\ UNCHANGED operations
      BY <2>3 DEF Posting
    <3>2. p \in Posts /\ p # k
      BY DEF Posts, Completions
    <3>3. Tasks(ready') = Tasks(ready) \cup {p}
      BY <1>0, <3>1, <3>2, PostAdded
    <3> QED
      BY <1>2, <3>2, <3>3
  <2>4. CASE Taking
    <3>1. Tasks(ready') \subseteq Tasks(ready)
      BY <1>0, <2>4, HeadTaken DEF Taking
    <3> QED
      BY <1>2, <3>1
  <2>5. ~Ending
    BY <1>4 DEF Ending, Completes
  <2>6. ~Beginning
    BY <1>3 DEF Beginning, Begin, In, Completions
  <2> QED
    BY <1>0, <2>1, <2>2, <2>3, <2>4, <2>5, <2>6, QueueSteps
<1> DEFINE Rest == /\ phase' = "none"
                   /\ \A k \in Completions : ~busy'[k]
                   /\ \A t \in Threads : doing'[t] \in Completions => at'[t] = "connected"
<1>8. ASSUME NEW t \in Threads, CallsOf(t) PROVE Rest
  <2>1. UNCHANGED <<phase, busy>>
    BY <1>8 DEF CallsOf, Connect, ConnectAsync, Start, Stop, Disconnect, Receive,
       StartAsync, Called, Known, flagVars, handlerVars
  <2>2. \/ UNCHANGED threadVars
        \/ \E call \in {"connect", "post", "disconnect"} :
             \E place, n : Begins(t, call, place, n)
        \/ \E k \in Completions : Begins(t, k, "connected", 0)
    BY <1>8 DEF CallsOf, Connect, ConnectAsync, Start, Stop, Disconnect, Receive,
       StartAsync
  <2>3. \A u \in Threads : \/ doing'[u] = doing[u] /\ at'[u] = at[u]
                           \/ doing'[u] \notin Completions
                           \/ at'[u] = "connected"
    BY <1>0, <2>2, ThreadMoves DEF threadVars, Completions
  <2> QED
    BY <1>2, <1>3, <2>1, <2>3 DEF Completions
<1>9. ASSUME NEW t \in Threads, Continue(t) PROVE Rest
  <2>1. Post(t) \/ \E k \in Completions : TestConnected(t, k)
    BY <1>3, <1>5, <1>9 DEF Continue, Proceeds, SetBusy, Begin, In, Completions
  <2>2. UNCHANGED <<phase, busy>> /\ Ends(t)
    BY <1>2, <2>1 DEF Post, TestConnected, Known, flagVars, handlerVars
  <2>3. \A u \in Threads : \/ doing'[u] = doing[u] /\ at'[u] = at[u]
                           \/ doing'[u] = "nothing"
    BY <1>0, <2>2, ThreadMoves
  <2> QED
    BY <1>2, <1>3, <2>2, <2>3 DEF Completions
<1>10. ASSUME Network PROVE Rest
  BY <1>4, <1>10 DEF Network, DatagramArrives, ReceiveBreaks, SendCompletes, Completes,
     Completions
<1>11. ASSUME Handle PROVE Rest
  <2>1. \A k \in Completions : ~Runs(k)
    BY <1>0, <1>2, TakeHead DEF Runs, TypeOK
  <2>2. RunDisconnect \/ RunConnect \/ RunStart \/ RunStop
    BY <1>2, <1>11, <2>1 DEF Handle, SendHandled, ReceiveTaken, ReceiveTested,
       ReceiveCompared, ReceiveGrown, ReceiveFailed, ReceiveCancels, ReceivePosts, InHandler,
       Completions
  <2>3. UNCHANGED <<phase, busy>>
    BY <2>2 DEF RunDisconnect, RunConnect, RunStart, RunStop, Taken, flagVars, handlerVars
  <2>4. \/ UNCHANGED threadVars
        \/ \E call \in {"connect", "stop", "disconnect"} :
             \E place, n : Begins("context", call, place, n)
    BY <2>2 DEF RunDisconnect, RunConnect, RunStart, RunStop, Continues
  <2>5. "context" \in Threads
    BY DEF Threads
  <2>6. \A u \in Threads : \/ doing'[u] = doing[u] /\ at'[u] = at[u]
                           \/ doing'[u] \notin Completions
    BY <1>0, <2>4, <2>5, ThreadMoves DEF threadVars, Completions
  <2> QED
    BY <1>2, <1>3, <2>3, <2>6 DEF Completions
<1>12. Rest
  BY <1>8, <1>9, <1>10, <1>11 DEF Next, Step
<1>13. TypeOK'
  BY TypeNext
<1>14. \A t \in Threads : doing'[t] \in Calls
  BY <1>13 DEF TypeOK
<1> QED
  BY <1>2, <1>6, <1>7, <1>12, <1>14 DEF Connection, Changes, Calls

--------------------------------------------------------------------------------
(* The flags, and what is pending. *)

\* Most steps leave them alone, and the threads where they start operations.
StartersQuiet ==
  \A t \in Threads, k \in Completions :
    /\ doing'[t] = k => doing[t] = k
    /\ doing'[t] = k /\ at'[t] = "begin" <=> doing[t] = k /\ at[t] = "begin"
Quiet == busy' = busy /\ StartersQuiet /\ \A k \in Completions : QuietFor(k)

\* The others are these.
Flagging ==
  \/ \E t \in Threads, k \in Completions : StartAsync(t, k) \/ SetBusy(t, k) \/ Begin(t, k)
  \/ \E t \in Threads : ClearReceiving(t) \/ ClearSending(t)
  \/ SendHandled \/ ReceiveTaken

\* Every step is one or the other.
LEMMA FlagSteps ==
  ASSUME TypeOK, InPlace, Next
  PROVE  Quiet \/ Flagging
<1> SUFFICES ASSUME ~Flagging PROVE Quiet
  OBVIOUS
<1>1. busy' = busy
  <2>1. ASSUME NEW t \in Threads, CallsOf(t) PROVE busy' = busy
    BY <2>1 DEF CallsOf, Connect, ConnectAsync, Start, Stop, Disconnect, Receive,
       StartAsync, Called, Known, flagVars
  <2>2. ASSUME NEW t \in Threads, Continue(t) PROVE busy' = busy
    BY <2>2 DEF Flagging, Continue, Open, Bind, Port, Resize, SetStarted, SetConnected,
       Close, ClearConnected, ClearStarted, ClearBuffers, Post, TestConnected, Known,
       Begin, flagVars
  <2>3. ASSUME Network \/ Handle PROVE busy' = busy
    BY <2>3 DEF Flagging, Network, DatagramArrives, ReceiveBreaks, SendCompletes, Completes,
       Handle, ReceiveTested, ReceiveCompared, ReceiveGrown, ReceiveFailed, ReceiveCancels,
       ReceivePosts, RunDisconnect, RunConnect, RunStart, RunStop, Taken, flagVars
  <2> QED
    BY <2>1, <2>2, <2>3 DEF Next, Step
<1>2. StartersQuiet
  <2>0. {"connect", "post", "disconnect", "stop", "nothing"} \cap Completions = {}
    BY DEF Completions
  <2>1. ASSUME UNCHANGED threadVars PROVE StartersQuiet
    BY <2>1 DEF StartersQuiet, threadVars
  <2>2. ASSUME NEW t \in Threads, doing[t] \notin Completions,
               \E call, place, n : call \notin Completions /\ Begins(t, call, place, n)
        PROVE  StartersQuiet
    <3>1. /\ doing'[t] \notin Completions
          /\ \A u \in Threads : u # t => doing'[u] = doing[u] /\ at'[u] = at[u]
      BY <2>2, ThreadMoves
    <3> QED
      BY <2>2, <3>1 DEF StartersQuiet
  <2>3. ASSUME NEW t \in Threads, doing[t] \notin Completions \/ at[t] # "begin",
               Ends(t) \/ \E place \in Places : Goes(t, place) /\
                            (place # "begin" \/ doing[t] \notin Completions)
        PROVE  StartersQuiet
    <3>1. \/ doing'[t] \notin Completions
          \/ doing'[t] = doing[t] /\ (at'[t] # "begin" \/ doing[t] \notin Completions)
      BY <2>0, <2>3, ThreadMoves
    <3>2. \A u \in Threads : u # t => doing'[u] = doing[u] /\ at'[u] = at[u]
      BY <2>3, ThreadMoves
    <3> QED
      BY <2>3, <3>1, <3>2 DEF StartersQuiet
  <2>4. ASSUME NEW t \in Threads, CallsOf(t) PROVE StartersQuiet
    <3>1. ASSUME Receive(t) PROVE StartersQuiet
      BY <2>1, <3>1 DEF Receive
    <3>2. ASSUME ~Receive(t) PROVE StartersQuiet
      <4>1. /\ doing[t] = "nothing"
            /\ \E call \in {"connect", "post", "disconnect"} :
                 \E place, n : Begins(t, call, place, n)
        BY <2>4, <3>2 DEF CallsOf, Connect, ConnectAsync, Start, Stop, Disconnect, Free,
           Flagging
      <4> QED
        BY <2>0, <2>2, <4>1
    <3> QED
      BY <3>1, <3>2
  <2>5. ASSUME NEW t \in Threads, Continue(t) PROVE StartersQuiet
    <3>1. CASE \E k \in Completions : TestConnected(t, k)
      <4>1. at[t] # "begin" /\ (Ends(t) \/ Goes(t, "busy")) /\ "busy" \in Places
        BY <3>1 DEF TestConnected, In, Places
      <4> QED
        BY <2>3, <4>1
    <3>2. CASE ~\E k \in Completions : TestConnected(t, k)
      <4>1. Post(t) \/ Proceeds(t)
        BY <2>5, <3>2 DEF Continue, Flagging, Proceeds
      <4>2. doing[t] \notin Completions
        BY <4>1, ProceedsTyping DEF Post, Changes, Completions
      <4>3. Ends(t) \/ \E place \in Places : Goes(t, place)
        BY <4>1 DEF Proceeds, Open, Bind, Port, Resize, SetStarted, SetConnected, Close,
           ClearConnected, ClearStarted, ClearReceiving, ClearSending, ClearBuffers, Post,
           Throws, Places
      <4> QED
        BY <2>3, <4>2, <4>3
    <3> QED
      BY <3>1, <3>2
  <2>6. CASE Network
    BY <2>1, <2>6 DEF Network, DatagramArrives, ReceiveBreaks, SendCompletes, Completes
  <2>7. CASE RunDisconnect \/ RunConnect \/ RunStart \/ RunStop
    <3>1. \/ UNCHANGED threadVars
          \/ \E call \in {"connect", "stop", "disconnect"} :
             \E place, n : Begins("context", call, place, n)
      BY <2>7 DEF RunDisconnect, RunConnect, RunStart, RunStop, Continues
    <3>2. doing["context"] = "nothing" /\ "context" \in Threads
      BY <2>7 DEF RunDisconnect, RunConnect, RunStart, RunStop, Taken, Runs, Threads
    <3> QED
      BY <2>0, <2>1, <2>2, <3>1, <3>2
  <2>8. CASE \/ ReceiveTested \/ ReceiveCompared
             \/ ReceiveGrown \/ ReceiveFailed \/ ReceiveCancels \/ ReceivePosts
    BY <2>1, <2>8 DEF ReceiveTested, ReceiveCompared,
       ReceiveGrown, ReceiveFailed, ReceiveCancels, ReceivePosts
  <2> QED
    BY <2>4, <2>5, <2>6, <2>7, <2>8 DEF Next, Step, Handle, Flagging
<1>3. ASSUME NEW k \in Completions PROVE QuietFor(k)
  <2>1. CASE UNCHANGED <<operations, ready>>
    BY <2>1 DEF QuietFor
  <2>2. CASE Cancelled
    BY <2>2, AllAborted
  <2>3. CASE Posting
    <3>1. PICK p \in Posts \cap Suited, n \in Nat :
            ready' = Append(ready, Posted(p, n)) /\ UNCHANGED operations
      BY <2>3 DEF Posting
    <3>2. p \in Posts
      OBVIOUS
    <3> QED
      BY <3>1, <3>2, PostAdded
  <2>4. CASE Ending
    BY <2>4, OperationEnded DEF Ending
  <2>5. CASE Taking /\ \E task \in Posts : Runs(task)
    <3>1. Head(ready).task # k
      BY <2>5 DEF Runs, Posts, Completions
    <3> QED
      BY <2>5, <3>1, HeadTaken DEF Taking
  <2>6. ~Beginning
    BY DEF Beginning, Flagging
  <2>7. ~Taking \/ UNCHANGED <<operations, ready>> \/ Posting \/ Cancelled \/ Ending
        \/ \E task \in Posts : Runs(task)
    <3>1. ASSUME Handle PROVE \/ \E task \in Posts : Runs(task)
                              \/ UNCHANGED <<operations, ready>> \/ Posting \/ Cancelled
      <4>1. ASSUME ReceivePosts PROVE Posting
        <5>1. "disconnect" \in Posts \cap Suited /\ current.socket \in Nat
          BY DEF Posts, Suited, TypeOK, Handler
        <5> QED
          BY <4>1, <5>1 DEF ReceivePosts, Posting
      <4> QED
        BY <3>1, <4>1 DEF Handle, Flagging, ReceiveTested, ReceiveCompared, ReceiveGrown,
           ReceiveFailed, ReceiveCancels, RunDisconnect, RunConnect, RunStart,
           RunStop, Taken, Posts
    <3>2. ASSUME Network PROVE Ending
      <4>1. 0 \in Sizes /\ "receive" \in Completions /\ "send" \in Completions
        BY BufferAssumption DEF Sizes, Completions
      <4>2. ASSUME NEW j \in Completions, NEW result \in {"ok", "failed"},
                   NEW length \in Sizes, Completes(j, result, length)
            PROVE  Ending
        BY <4>2 DEF Ending
      <4> QED
        BY <3>2, <4>1, <4>2 DEF Network, DatagramArrives, ReceiveBreaks, SendCompletes
    <3>3. ASSUME NEW t \in Threads, CallsOf(t) PROVE UNCHANGED <<operations, ready>>
      BY <3>3 DEF CallsOf, Connect, ConnectAsync, Start, Stop, Disconnect, Receive,
         StartAsync, Called, Known
    <3>4. ASSUME NEW t \in Threads, Continue(t)
          PROVE  UNCHANGED <<operations, ready>> \/ Posting \/ Cancelled
      <4>1. ASSUME Post(t) PROVE Posting
        <5>1. at[t] \in Posts \cap Suited /\ target[t] \in Nat
          BY <4>1 DEF Post, InPlace, TypeOK
        <5>2. ready' = Append(ready, Posted(at[t], target[t])) /\ UNCHANGED operations
          BY <4>1 DEF Post
        <5> QED
          BY <5>1, <5>2 DEF Posting
      <4> QED
        BY <3>4, <4>1 DEF Continue, Flagging, Open, Bind, Port, Resize, SetStarted,
           SetConnected, Close, CloseSocket, ClearConnected, ClearStarted, ClearBuffers,
           TestConnected, Known
    <3> QED
      BY <3>1, <3>2, <3>3, <3>4 DEF Next, Step
  <2> QED
    BY <2>1, <2>2, <2>3, <2>4, <2>5, <2>6, <2>7, QueueSteps
<1> QED
  BY <1>1, <1>2, <1>3 DEF Quiet

\* A thread that is about to start an operation.
Starting(k) == \E t \in Threads : doing[t] = k /\ at[t] = "begin"

\* FlagsCovered, in these words.
LEMMA CoveredMeans ==
  /\ FlagsCovered <=> \A k \in Completions :
                        busy[k] => Pending(operations, ready, k) \/ Starting(k)
  /\ FlagsCovered' <=> \A k \in Completions :
                        busy'[k] => Pending(operations', ready', k) \/ Starting(k)'
BY DEF FlagsCovered, Pending, IsReady, Tasks, Starting

\* The threads and the flag where one goes on in ReceiveAsync or SendAsync.
LEMMA StarterMoves ==
  ASSUME TypeOK, NEW t \in Threads, NEW k \in Completions,
         StartAsync(t, k) \/ SetBusy(t, k) \/ Begin(t, k)
  PROVE  /\ \A u \in Threads : u # t => doing'[u] = doing[u] /\ at'[u] = at[u]
         /\ \A j \in Completions : j # k => busy'[j] = busy[j]
         /\ UNCHANGED <<socket, opens>>
         /\ StartAsync(t, k) =>
              /\ UNCHANGED <<operations, ready, busy>> /\ ~busy[k]
              /\ doing[t] = "nothing" /\ doing'[t] = k /\ at'[t] = "connected"
         /\ SetBusy(t, k) =>
              /\ UNCHANGED <<operations, ready>> /\ busy'[k]
              /\ doing[t] = k /\ at[t] = "busy" /\ doing'[t] = k /\ at'[t] = "begin"
         /\ Begin(t, k) =>
              /\ UNCHANGED busy
              /\ doing[t] = k /\ at[t] = "begin" /\ doing'[t] = "nothing"
<1>1. busy \in [Completions -> BOOLEAN]
  BY DEF TypeOK
<1>2. CASE StartAsync(t, k)
  <2>1. Begins(t, k, "connected", 0)
    BY <1>2 DEF StartAsync
  <2>2. /\ UNCHANGED <<operations, ready, busy, socket, opens>> /\ ~busy[k]
        /\ doing[t] = "nothing"
    BY <1>2 DEF StartAsync, Called, Known, flagVars, Free, MayStart
  <2>3. ~SetBusy(t, k) /\ ~Begin(t, k)
    BY <2>2 DEF SetBusy, Begin, In, Completions
  <2> QED
    BY <2>1, <2>2, <2>3, ThreadMoves
<1>3. CASE SetBusy(t, k)
  <2>1. /\ Goes(t, "begin") /\ doing[t] = k /\ at[t] = "busy"
        /\ UNCHANGED <<operations, ready, socket, opens>>
        /\ busy' = [busy EXCEPT ![k] = TRUE]
    BY <1>3 DEF SetBusy, In
  <2>2. ~StartAsync(t, k) /\ ~Begin(t, k)
    BY <2>1 DEF StartAsync, Free, Begin, In, Completions
  <2>3. busy'[k] /\ \A j \in Completions : j # k => busy'[j] = busy[j]
    BY <1>1, <2>1
  <2> QED
    BY <2>1, <2>2, <2>3, ThreadMoves
<1>4. CASE Begin(t, k)
  <2>1. /\ Ends(t) /\ doing[t] = k /\ at[t] = "begin"
        /\ UNCHANGED <<busy, socket, opens>>
    BY <1>4 DEF Begin, In, flagVars
  <2>2. ~StartAsync(t, k) /\ ~SetBusy(t, k)
    BY <2>1 DEF StartAsync, Free, SetBusy, In, Completions
  <2> QED
    BY <2>1, <2>2, ThreadMoves
<1> QED
  BY <1>2, <1>3, <1>4

\* Where a flag goes down.
LEMMA FlagDown ==
  ASSUME TypeOK, NEW k \in Completions, Idle(k)
  PROVE  ~busy'[k] /\ \A j \in Completions : j # k => busy'[j] = busy[j]
BY DEF TypeOK, Idle

\* Where it goes down because the socket is closed.
LEMMA ClearMoves ==
  ASSUME TypeOK, NEW t \in Threads, ClearReceiving(t) \/ ClearSending(t)
  PROVE  /\ StartersQuiet /\ UNCHANGED <<operations, ready, socket, opens>>
         /\ doing[t] \in {"disconnect", "stop"} /\ at[t] # "close"
         /\ \E k \in Completions : Idle(k)
<1>1. /\ doing[t] \in {"disconnect", "stop"} /\ at[t] # "close"
      /\ UNCHANGED <<operations, ready, socket, opens>>
      /\ Ends(t) \/ Goes(t, "send") \/ Goes(t, "clear")
      /\ \E k \in Completions : Idle(k)
  BY DEF ClearReceiving, ClearSending, In, Completions
<1>2. doing'[t] \in {"nothing", doing[t]}
  BY <1>1, ThreadMoves
<1>3. \A u \in Threads : u # t => doing'[u] = doing[u] /\ at'[u] = at[u]
  BY <1>1, ThreadMoves
<1> QED
  BY <1>1, <1>2, <1>3 DEF StartersQuiet, Completions

\* Where it goes down because its handler runs.
LEMMA HandlerMoves ==
  ASSUME TypeOK, SendHandled \/ ReceiveTaken
  PROVE  \E k \in Completions :
           /\ Idle(k) /\ UNCHANGED <<threadVars, operations, socket, opens>>
           /\ ready # <<>> /\ ready' = Tail(ready) /\ Head(ready).task = k
BY DEF SendHandled, ReceiveTaken, Cleared, Runs, Handled, Completions

\* A flag that is up has something that takes it down.
LEMMA CoveredNext ==
  ASSUME IInv, Next
  PROVE  FlagsCovered'
<1>0. TypeOK /\ InPlace
  BY DEF IInv
<1>1. \A k \in Completions : busy[k] => Pending(operations, ready, k) \/ Starting(k)
  BY CoveredMeans DEF IInv
<1> SUFFICES ASSUME NEW k \in Completions, busy'[k]
             PROVE  Pending(operations', ready', k) \/ Starting(k)'
  BY CoveredMeans
<1>2. CASE Quiet
  <2>1. Starting(k)' <=> Starting(k)
    BY <1>2 DEF Quiet, StartersQuiet, Starting
  <2> QED
    BY <1>1, <1>2, <2>1 DEF Quiet, QuietFor
<1>3. ASSUME NEW t \in Threads, NEW j \in Completions,
             StartAsync(t, j) \/ SetBusy(t, j) \/ Begin(t, j)
      PROVE  Pending(operations', ready', k) \/ Starting(k)'
  <2>1. \A u \in Threads : u # t => doing'[u] = doing[u] /\ at'[u] = at[u]
    BY <1>0, <1>3, StarterMoves
  <2>2. CASE StartAsync(t, j)
    <3>1. UNCHANGED <<operations, ready, busy>> /\ doing[t] = "nothing"
      BY <1>0, <2>2, StarterMoves
    <3>2. Starting(k) => Starting(k)'
      BY <2>1, <3>1 DEF Starting, Completions
    <3> QED
      BY <1>1, <3>1, <3>2
  <2>3. CASE SetBusy(t, j)
    <3>1. /\ UNCHANGED <<operations, ready>> /\ at[t] = "busy"
          /\ doing'[t] = j /\ at'[t] = "begin"
          /\ j # k => busy'[k] = busy[k]
      BY <1>0, <2>3, StarterMoves
    <3>2. Starting(k) => Starting(k)'
      BY <2>1, <3>1 DEF Starting
    <3> QED
      BY <1>1, <3>1, <3>2 DEF Starting
  <2>4. CASE Begin(t, j)
    <3>1. UNCHANGED busy /\ doing[t] = j
      BY <1>0, <2>4, StarterMoves
    <3>2. CASE j = k
      BY <1>0, <2>4, <3>2, OperationBegun
    <3>3. CASE j # k
      <4>1. QuietFor(k)
        BY <1>0, <2>4, <3>3, OperationBegun
      <4>2. Starting(k) => Starting(k)'
        BY <2>1, <3>1, <3>3 DEF Starting
      <4> QED
        BY <1>1, <3>1, <4>1, <4>2 DEF QuietFor
    <3> QED
      BY <3>2, <3>3
  <2> QED
    BY <1>3, <2>2, <2>3, <2>4
<1>4. ASSUME NEW t \in Threads, ClearReceiving(t) \/ ClearSending(t)
      PROVE  Pending(operations', ready', k) \/ Starting(k)'
  <2>1. StartersQuiet /\ UNCHANGED <<operations, ready>>
    BY <1>0, <1>4, ClearMoves
  <2>2. PICK j \in Completions : Idle(j)
    BY <1>0, <1>4, ClearMoves
  <2>3. busy[k]
    BY <1>0, <2>2, FlagDown
  <2>4. Starting(k)' <=> Starting(k)
    BY <2>1 DEF StartersQuiet, Starting
  <2> QED
    BY <1>1, <2>1, <2>3, <2>4
<1>5. CASE SendHandled \/ ReceiveTaken
  <2>1. PICK j \in Completions :
          /\ Idle(j) /\ UNCHANGED <<threadVars, operations>>
          /\ ready # <<>> /\ ready' = Tail(ready) /\ Head(ready).task = j
    BY <1>0, <1>5, HandlerMoves
  <2>2. busy[k] /\ k # j
    BY <1>0, <2>1, FlagDown
  <2>3. QuietFor(k)
    BY <1>0, <2>1, <2>2, HeadTaken
  <2>4. Starting(k)' <=> Starting(k)
    BY <2>1 DEF Starting, threadVars
  <2> QED
    BY <1>1, <2>2, <2>3, <2>4 DEF QuietFor
<1> QED
  BY <1>0, <1>2, <1>3, <1>4, <1>5, FlagSteps DEF Flagging

\* While the first socket is open, the flags say what is pending.
LEMMA ExactNext ==
  ASSUME IInv, Next
  PROVE  FlagsExact'
<1>0. /\ TypeOK /\ InPlace /\ RacesTold /\ SocketOps /\ Fresh /\ FirstSocket /\ FlagsExact
      /\ opens \in Nat
  BY DEF IInv, TypeOK
<1> DEFINE Exact(k) ==
             /\ Single(operations, ready, k)
             /\ Pending(operations, ready, k) => busy[k] /\ \A t \in Threads : doing[t] # k
             /\ \A t \in Threads : doing[t] = k /\ at[t] = "begin" => busy[k]
           Premise(k) == opens <= 1 /\ socket # "closed" /\ k \notin raced
<1> SUFFICES ASSUME NEW k \in Completions, Premise(k)'
             PROVE  /\ Single(operations', ready', k)
                    /\ Pending(operations', ready', k) =>
                         busy'[k] /\ \A t \in Threads : doing'[t] # k
                    /\ \A t \in Threads : doing'[t] = k /\ at'[t] = "begin" => busy'[k]
  BY DEF FlagsExact
<1>r. k \notin raced /\ raced \subseteq raced'
  BY DEF Next, Tells
<1>1. Premise(k) => Exact(k)
  BY <1>0 DEF FlagsExact
<1> HIDE DEF Premise, Exact
<1>2. CASE Quiet
  <2>1. Premise(k) \/ (socket = "closed" /\ opens = 0)
    <3>1. CASE Aside
      BY <1>r, <3>1 DEF Aside, Connection, Premise
    <3>2. ASSUME NEW t \in Threads, Enters(t) PROVE Premise(k)
      BY <1>r, <3>2 DEF Enters, Connection, Premise
    <3>3. ASSUME NEW t \in Threads, Proceeds(t)
          PROVE  Premise(k) \/ (socket = "closed" /\ opens = 0)
      <4>1. CASE Open(t)
        BY <1>0, <1>r, <4>1 DEF Open, Premise
      <4>2. CASE Bind(t)
        BY <1>r, <4>2 DEF Bind, Premise
      <4>3. CASE ~Open(t) /\ ~Bind(t)
        BY <1>r, <3>3, <4>3 DEF Proceeds, Port, Resize, SetStarted, SetConnected, Close,
           CloseSocket, ClearConnected, ClearStarted, ClearReceiving, ClearSending,
           ClearBuffers, Premise
      <4> QED
        BY <4>1, <4>2, <4>3
    <3> QED
      BY <1>0, <3>1, <3>2, <3>3, LifeSteps
  <2>2. ASSUME socket = "closed", opens = 0 PROVE Exact(k)
    <3>1. operations[k] = <<>> /\ k \notin Tasks(ready)
      BY <1>0, <2>2, ClosedIsEmpty DEF Fresh
    <3>2. \A t \in Threads : ~(doing[t] = k /\ at[t] = "begin")
      BY <1>0, <2>2 DEF Fresh, Completions
    <3>3. UniqueIn(ready, k) /\ Len(<<>>) <= 1
      BY <3>1 DEF UniqueIn, Tasks
    <3> QED
      BY <3>1, <3>2, <3>3 DEF Exact, Single, Pending
  <2>3. Exact(k)
    BY <1>1, <2>1, <2>2
  <2>4. /\ busy' = busy /\ QuietFor(k)
        /\ \A t \in Threads : doing'[t] = k => doing[t] = k
        /\ \A t \in Threads : doing'[t] = k /\ at'[t] = "begin" =>
                                doing[t] = k /\ at[t] = "begin"
    BY <1>2 DEF Quiet, StartersQuiet
  <2> QED
    BY <2>3, <2>4 DEF Exact, QuietFor
<1>3. ASSUME NEW t \in Threads, NEW j \in Completions,
             StartAsync(t, j) \/ SetBusy(t, j) \/ Begin(t, j)
      PROVE  /\ Single(operations', ready', k)
             /\ Pending(operations', ready', k) =>
                  busy'[k] /\ \A u \in Threads : doing'[u] # k
             /\ \A u \in Threads : doing'[u] = k /\ at'[u] = "begin" => busy'[k]
  <2>1. /\ \A u \in Threads : u # t => doing'[u] = doing[u] /\ at'[u] = at[u]
        /\ UNCHANGED <<socket, opens>>
    BY <1>0, <1>3, StarterMoves
  <2>2. Exact(k)
    BY <1>1, <1>r, <2>1 DEF Premise
  <2>3. CASE StartAsync(t, j)
    <3>1. /\ UNCHANGED <<operations, ready, busy>> /\ ~busy[j]
          /\ doing'[t] = j /\ at'[t] = "connected"
      BY <1>0, <2>3, StarterMoves
    <3> QED
      BY <2>1, <2>2, <3>1 DEF Exact
  <2>4. CASE SetBusy(t, j)
    <3>1. /\ UNCHANGED <<operations, ready>> /\ busy'[j]
          /\ doing[t] = j /\ doing'[t] = j /\ at'[t] = "begin"
          /\ j # k => busy'[k] = busy[k]
      BY <1>0, <2>4, StarterMoves
    <3> QED
      BY <2>1, <2>2, <3>1 DEF Exact
  <2>5. CASE Begin(t, j)
    <3>1. UNCHANGED busy /\ doing[t] = j /\ at[t] = "begin" /\ doing'[t] = "nothing"
      BY <1>0, <2>5, StarterMoves
    <3>2. CASE j # k
      <4>1. QuietFor(k)
        BY <1>0, <2>5, <3>2, OperationBegun
      <4> QED
        BY <2>1, <2>2, <3>1, <4>1 DEF Exact, QuietFor, Completions
    <3>3. CASE j = k
      <4>1. busy[k] /\ ~Pending(operations, ready, k)
        BY <2>2, <3>1, <3>3 DEF Exact
      <4>2. Single(operations', ready', k)
        BY <1>0, <2>5, <3>3, <4>1, OperationBegun
      <4>3. ASSUME NEW u \in Threads PROVE doing'[u] # k
        <5>1. CASE u = t
          BY <3>1, <5>1 DEF Completions
        <5>2. CASE u # t /\ doing[u] = k
          <6>1. \A v \in Threads : doing[v] = k
            BY <3>1, <3>3, <5>2 DEF Threads
          <6>2. k \in Overlaps
            BY <6>1 DEF Overlaps, Races
          <6> QED
            BY <1>0, <1>r, <6>2 DEF RacesTold
        <5> QED
          BY <2>1, <5>1, <5>2
      <4> QED
        BY <3>1, <4>1, <4>2, <4>3
    <3> QED
      BY <3>2, <3>3
  <2> QED
    BY <1>3, <2>3, <2>4, <2>5
<1>4. ASSUME NEW t \in Threads, ClearReceiving(t) \/ ClearSending(t) PROVE FALSE
  <2>1. /\ UNCHANGED <<socket, opens>>
        /\ doing[t] \in {"disconnect", "stop"} /\ at[t] # "close"
    BY <1>0, <1>4, ClearMoves
  <2> QED
    BY <1>0, <2>1 DEF FirstSocket, Premise
<1>5. ASSUME SendHandled \/ ReceiveTaken
      PROVE  /\ Single(operations', ready', k)
             /\ Pending(operations', ready', k) =>
                  busy'[k] /\ \A u \in Threads : doing'[u] # k
             /\ \A u \in Threads : doing'[u] = k /\ at'[u] = "begin" => busy'[k]
  <2>1. PICK j \in Completions :
          /\ Idle(j) /\ UNCHANGED <<threadVars, operations, socket, opens>>
          /\ ready # <<>> /\ ready' = Tail(ready) /\ Head(ready).task = j
    BY <1>0, <1>5, HandlerMoves
  <2>2. Exact(k)
    BY <1>1, <1>r, <2>1 DEF Premise
  <2>3. UNCHANGED <<doing, at>>
    BY <2>1 DEF threadVars
  <2>4. CASE j = k
    <3>1. Single(operations', ready', k) /\ ~Pending(operations', ready', k)
      BY <1>0, <2>1, <2>2, <2>4, HeadTaken DEF Exact
    <3>2. Pending(operations, ready, k)
      BY <1>0, <2>1, <2>4, HeadTaken DEF Pending
    <3> QED
      BY <2>2, <2>3, <3>1, <3>2 DEF Exact
  <2>5. CASE j # k
    <3>1. QuietFor(k) /\ busy'[k] = busy[k]
      BY <1>0, <2>1, <2>5, HeadTaken, FlagDown
    <3> QED
      BY <2>2, <2>3, <3>1 DEF Exact, QuietFor
  <2> QED
    BY <2>4, <2>5
<1> QED
  BY <1>0, <1>2, <1>3, <1>4, <1>5, FlagSteps DEF Flagging

--------------------------------------------------------------------------------
(* The buffer. *)

\* What a step does to the buffer, and to what the receive handler does next.
LEMMA BufferSteps ==
  ASSUME Next
  PROVE  /\ \/ UNCHANGED bufferVars
            \/ \E t \in Threads : Resize(t) \/ ClearBuffers(t)
            \/ ReceiveGrown
         /\ UNCHANGED handlerVars \/ phase' # "grow" \/ ReceiveCompared
<1> DEFINE Kept == UNCHANGED bufferVars
           Left == UNCHANGED handlerVars \/ phase' # "grow"
<1>1. ASSUME NEW t \in Threads, CallsOf(t) PROVE Kept /\ Left
  BY <1>1 DEF CallsOf, Connect, ConnectAsync, Start, Stop, Disconnect, Receive, StartAsync,
     Called, Known
<1>2. ASSUME NEW t \in Threads, Continue(t)
      PROVE  (Kept \/ Resize(t) \/ ClearBuffers(t)) /\ Left
  BY <1>2 DEF Continue, Open, Bind, Port, Resize, SetStarted, SetConnected, Close,
     ClearConnected, ClearStarted, ClearReceiving, ClearSending, ClearBuffers, Post,
     TestConnected, Known, SetBusy, Begin
<1>3. CASE Network
  BY <1>3 DEF Network, DatagramArrives, ReceiveBreaks, SendCompletes, Completes
<1>4. CASE Handle
  BY <1>4 DEF Handle, SendHandled, ReceiveTaken, RunDisconnect, RunConnect, RunStart, RunStop,
     Taken, ReceiveTested, ReceiveCompared, ReceiveGrown, ReceiveFailed, ReceiveCancels,
     ReceivePosts, Turns
<1> QED
  BY <1>1, <1>2, <1>3, <1>4 DEF Next, Step

\* The size stays within the allocation.
LEMMA SizeNext ==
  ASSUME IInv, Next
  PROVE  size' <= allocated'
<1>1. size \in Nat /\ allocated \in Nat /\ size <= allocated
  BY BufferAssumption DEF IInv, TypeOK, Sizes, BufferKept
<1>2. ASSUME NEW n \in Nat, Grow(n) PROVE size' <= allocated'
  BY <1>1, <1>2 DEF Grow, Larger
<1>3. CASE UNCHANGED bufferVars
  BY <1>1, <1>3 DEF bufferVars
<1>4. ASSUME NEW t \in Threads, Resize(t) PROVE size' <= allocated'
  BY <1>2, <1>4, BufferAssumption DEF Resize
<1>5. ASSUME NEW t \in Threads, ClearBuffers(t) PROVE size' <= allocated'
  BY <1>1, <1>5 DEF ClearBuffers
<1>6. CASE ReceiveGrown
  <2>1. 2 * current.length \in Nat
    BY BufferAssumption DEF IInv, TypeOK, Handler, Sizes
  <2> QED
    BY <1>2, <1>6, <2>1 DEF ReceiveGrown
<1> QED
  BY <1>3, <1>4, <1>5, <1>6, BufferSteps

\* Each receive has an allocation of the size it was told.
LEMMA RoomNext ==
  ASSUME IInv, Next
  PROVE  \A i \in DOMAIN operations'["receive"] :
           operations'["receive"][i].room <= operations'["receive"][i].storage
<1> DEFINE Fits(s) == \A i \in DOMAIN s : s[i].room <= s[i].storage
           k == "receive"
<1> SUFFICES Fits(operations'[k])
  OBVIOUS
<1>0. TypeOK /\ InPlace /\ size <= allocated /\ Fits(operations[k]) /\ k \in Completions
  BY DEF IInv, BufferKept, Completions
<1>o. operations \in [Completions -> Seq(Operation)] /\ operations[k] \in Seq(Operation)
  BY <1>0 DEF TypeOK
<1> HIDE DEF k
<1>1. CASE Cancelled
  <2>1. operations'[k] = <<>> /\ DOMAIN <<>> = {}
    BY <1>0, <1>1, AllAborted
  <2> QED
    BY <2>1
<1>2. CASE UNCHANGED operations \/ Posting \/ Taking
  BY <1>0, <1>2 DEF Posting, Taking
<1>3. CASE Ending
  <2>1. PICK j \in Completions, result \in {"ok", "failed"}, length \in Sizes :
          Completes(j, result, length)
    BY <1>3 DEF Ending
  <2>2. operations' = [operations EXCEPT ![j] = Tail(operations[j])]
        /\ operations[j] # <<>>
    BY <2>1 DEF Completes
  <2>3. CASE j # k
    BY <1>0, <1>o, <2>2, <2>3
  <2>4. CASE j = k
    <3> DEFINE s == operations[k]
               r == Tail(s)
    <3>1. s \in Seq(Operation) /\ s # <<>> /\ operations'[k] = r
      BY <1>o, <2>2, <2>4
    <3>2. /\ r \in Seq(Operation) /\ Len(r) = Len(s) - 1 /\ Len(s) \in Nat
          /\ DOMAIN r = 1..Len(r) /\ DOMAIN s = 1..Len(s)
          /\ \A i \in 1..Len(r) : r[i] = s[i + 1]
      BY <3>1, HeadTailProperties, LenProperties
    <3> HIDE DEF r
    <3>3. \A i \in DOMAIN r : i + 1 \in DOMAIN s /\ r[i] = s[i + 1]
      BY <3>2
    <3> QED
      BY <1>0, <3>1, <3>3
  <2> QED
    BY <2>3, <2>4
<1>4. CASE Beginning
  <2>1. PICK t \in Threads, j \in Completions : Begin(t, j)
    BY <1>4 DEF Beginning
  <2>2. CASE socket = "closed" \/ j # k
    <3>1. \/ UNCHANGED operations
          \/ j # k /\ operations' = [operations EXCEPT ![j] = Append(@, Begun(j))]
      BY <2>1, <2>2 DEF Begin
    <3>2. operations'[k] = operations[k]
      BY <1>0, <1>o, <3>1
    <3> QED
      BY <1>0, <3>2
  <2>3. CASE socket # "closed" /\ j = k
    <3> DEFINE s == operations[k]
               r == Append(s, Begun(k))
    <3>1. s \in Seq(Operation) /\ operations'[k] = r /\ Begun(k) \in Operation
      BY <1>0, <1>o, <2>1, <2>3, BegunTyping DEF Begin
    <3>2. /\ r \in Seq(Operation) /\ Len(r) = Len(s) + 1 /\ Len(s) \in Nat
          /\ DOMAIN r = 1..Len(r) /\ DOMAIN s = 1..Len(s)
          /\ r[Len(r)] = Begun(k)
          /\ \A i \in 1..Len(s) : r[i] = s[i]
      BY <3>1, AppendProperties, LenProperties
    <3>3. Begun(k).room <= Begun(k).storage
      BY <1>0 DEF Begun, Room, k
    <3> HIDE DEF r
    <3>4. \A i \in DOMAIN r : (i \in DOMAIN s /\ r[i] = s[i]) \/ r[i] = Begun(k)
      BY <3>2
    <3> QED
      BY <1>0, <3>1, <3>3, <3>4
  <2> QED
    BY <2>2, <2>3
<1> QED
  BY <1>0, <1>1, <1>2, <1>3, <1>4, QueueSteps

\* A connection is open, or about to be, only with a buffer.
LEMMA BufferNext ==
  ASSUME IInv, Next
  PROVE  BufferKept'
<1>0. TypeOK /\ InPlace /\ RacesTold /\ RacesTold' /\ raced \subseteq raced'
      /\ "context" \in Threads /\ Threads = {"application", "context"}
  BY DEF IInv, Next, Tells, RacesTold, Threads
<1>n. size \in Nat /\ allocated \in Nat /\ current.length \in Nat /\ BufferSize > 0
      /\ receiveBufferLimit \in Nat
  BY <1>0, BufferAssumption DEF TypeOK, Handler, Sizes
<1>1. phase' = "grow" => 2 * current'.length <= receiveBufferLimit
  <2>1. CASE UNCHANGED handlerVars
    BY <2>1 DEF IInv, BufferKept, handlerVars
  <2>2. CASE phase' # "grow"
    BY <2>2
  <2>3. CASE ReceiveCompared
    BY <1>n, <2>3 DEF ReceiveCompared, Turns, OverLimit
  <2> QED
    BY <2>1, <2>2, <2>3, BufferSteps
<1>2. ASSUME {"connection", "buffer"} \cap raced' = {}
      PROVE  /\ connected' => size' > 0
             /\ phase' = "grow" /\ connected' => current'.length > 0
             /\ \A t \in Threads :
                  doing'[t] = "connect" /\ at'[t] \in {"started", "connected"} => size' > 0
  <2> DEFINE Before(t) == doing[t] = "connect" /\ at[t] \in {"started", "connected"}
             After(t) == doing'[t] = "connect" /\ at'[t] \in {"started", "connected"}
  <2>0. /\ "connection" \notin raced
        /\ connected => size > 0
        /\ phase = "grow" /\ connected => current.length > 0
        /\ \A t \in Threads : Before(t) => size > 0
    BY <1>0, <1>2 DEF IInv, BufferKept
  <2>1. \A t, u \in Threads : Changes(t) /\ Changes(u) => t = u
    BY <1>0, <2>0, OneChanges
  <2>2. phase = "grow" => \A t \in Threads : ~Changes(t)
    <3>1. "buffer" \notin raced
      BY <1>0, <1>2
    <3>2. phase = "grow" => ~Changes("application")
      BY <1>0, <3>1 DEF RacesTold, Overlaps, Races
    <3>3. phase = "grow" => ~Changes("context")
      BY <1>0 DEF InPlace, Changes
    <3> QED
      BY <1>0, <3>2, <3>3
  <2>3. \/ connected' => connected
        \/ \E t \in Threads : Before(t) /\ Changes(t) /\ UNCHANGED bufferVars
    <3>1. CASE Aside
      BY <3>1 DEF Aside, Connection
    <3>2. ASSUME NEW t \in Threads, Enters(t) PROVE connected' => connected
      BY <3>2 DEF Enters, Connection
    <3>3. ASSUME NEW t \in Threads, Proceeds(t), ~SetConnected(t)
          PROVE  connected' => connected
      BY <3>3 DEF Proceeds, Open, Bind, Port, Resize, SetStarted, Close, ClearConnected,
         ClearStarted, ClearReceiving, ClearSending, ClearBuffers, flagVars
    <3>4. ASSUME NEW t \in Threads, SetConnected(t)
          PROVE  Before(t) /\ Changes(t) /\ UNCHANGED bufferVars
      BY <3>4 DEF SetConnected, Opening, In, Changes
    <3> QED
      BY <1>0, <3>1, <3>2, <3>3, <3>4, LifeSteps
  <2>4. \A t \in Threads : After(t) => Before(t) \/ Resize(t)
    <3> SUFFICES ASSUME NEW t \in Threads, After(t)
                 PROVE  Before(t) \/ Resize(t)
      OBVIOUS
    <3>1. CASE Aside
      BY <3>1 DEF Aside, Changes
    <3>2. ASSUME NEW u \in Threads, Enters(u) PROVE Before(t)
      BY <3>2 DEF Enters
    <3>3. ASSUME NEW u \in Threads, Proceeds(u) PROVE Before(t) \/ Resize(t)
      <4>1. CASE u # t
        BY <1>0, <3>3, <4>1, ProceedsTyping
      <4>2. CASE u = t
        <5>p. \A place : /\ Goes(t, place) => at'[t] = place
                         /\ Ends(t) => doing'[t] = "nothing"
          BY <1>0, ThreadMoves
        <5>1. doing[t] = "connect"
          BY <1>0, <3>3, <4>2, ProceedsTyping
        <5>2. Resize(t) \/ SetStarted(t)
          BY <3>3, <4>2, <5>p, <5>1 DEF Proceeds, Open, Bind, Port, SetConnected, Close,
             ClearConnected, ClearStarted, ClearReceiving, ClearSending, ClearBuffers,
             Throws, In
        <5> QED
          BY <5>2 DEF SetStarted, Opening, In
      <4> QED
        BY <4>1, <4>2
    <3> QED
      BY <1>0, <3>1, <3>2, <3>3, LifeSteps
  <2>5. ASSUME NEW t \in Threads, Resize(t) PROVE size' > 0 /\ Changes(t)
    BY <1>n, <2>5 DEF Resize, Grow, Opening, In, Changes
  <2>6. connected' \/ (\E t \in Threads : After(t)) => size' > 0
    <3>1. CASE UNCHANGED bufferVars
      <4>1. size' = size
        BY <3>1 DEF bufferVars
      <4>2. connected' => size > 0
        BY <2>0, <2>3
      <4>3. \A t \in Threads : After(t) => size > 0 \/ size' > 0
        BY <2>0, <2>4, <2>5
      <4> QED
        BY <4>1, <4>2, <4>3
    <3>2. CASE \E t \in Threads : Resize(t)
      BY <2>5, <3>2
    <3>3. ASSUME NEW t \in Threads, ClearBuffers(t)
          PROVE  ~connected' /\ ~\E u \in Threads : After(u)
      <4>1. running /\ doing[t] = "disconnect" /\ at[t] = "clear" /\ connected' = connected
        BY <3>3 DEF ClearBuffers, In, flagVars
      <4>2. ~connected
        BY <2>0, <4>1 DEF IInv, LifeCycle, Halfway
      <4>3. \A u \in Threads : ~Before(u) /\ ~Resize(u)
        BY <2>1, <4>1 DEF Changes, Resize, Opening, In
      <4> QED
        BY <2>4, <4>1, <4>2, <4>3
    <3>4. CASE ReceiveGrown
      <4>1. phase = "grow" /\ connected' = connected /\ size' = 2 * current.length
        BY <3>4 DEF ReceiveGrown, InHandler, Grow, flagVars
      <4>2. \A u \in Threads : ~Before(u) /\ ~Resize(u)
        BY <2>2, <4>1 DEF Changes, Resize, Opening, In
      <4> QED
        BY <1>n, <2>0, <2>4, <4>1, <4>2
    <3> QED
      BY <3>1, <3>2, <3>3, <3>4, BufferSteps
  <2>7. phase' = "grow" /\ connected' => current'.length > 0
    <3>1. CASE UNCHANGED handlerVars
      <4>1. phase' = phase /\ current' = current
        BY <3>1 DEF handlerVars
      <4>2. phase = "grow" => (connected' => connected)
        BY <2>2, <2>3
      <4> QED
        BY <2>0, <4>1, <4>2
    <3>2. CASE phase' # "grow"
      BY <3>2
    <3>3. CASE ReceiveCompared
      <4>1. connected' = connected
        BY <3>3 DEF ReceiveCompared, flagVars
      <4>2. phase' = "grow" => current' = current /\ size = current.length
        BY <3>3 DEF ReceiveCompared, Turns
      <4> QED
        BY <2>0, <4>1, <4>2
    <3> QED
      BY <3>1, <3>2, <3>3, BufferSteps
  <2> QED
    BY <2>6, <2>7
<1> QED
  BY <1>1, <1>2, SizeNext, RoomNext DEF BufferKept

--------------------------------------------------------------------------------
(* The invariant, and what it shows. *)

LEMMA IInvInit ==
  ASSUME Init
  PROVE  IInv
<1>1. 0 \in Sizes /\ NoCompletion \in Handler /\ NoCompletion.length = 0
  BY BufferAssumption DEF Sizes, NoCompletion, Posted, Handler, Posts
<1>2. <<>> \in Seq(Operation) /\ <<>> \in Seq(Handler) /\ DOMAIN <<>> = {} /\ Len(<<>>) = 0
  BY EmptySeq, LenProperties
<1>3. Tasks(<<>>) = {} /\ \A k : UniqueIn(<<>>, k)
  BY <1>2 DEF Tasks, UniqueIn
<1>4. TypeOK
  BY <1>1, <1>2 DEF Init, TypeOK, Calls, Places, Phases
<1>5. InPlace
  BY <1>3 DEF Init, InPlace, Threads
<1>6. RacesTold
  BY DEF Init, RacesTold, Overlaps, Changes, Threads, Completions
<1>7. SocketOps
  BY <1>2 DEF Init, SocketOps
<1>8. LifeCycle
  BY DEF Init, LifeCycle, Halfway, Agreed
<1>9. Fresh /\ FirstSocket
  BY <1>3 DEF Init, Fresh, FirstSocket
<1>10. FlagsCovered /\ FlagsExact
  BY DEF Init, FlagsCovered, FlagsExact
<1>11. BufferKept
  <2>1. operations["receive"] = <<>>
    BY DEF Init, Completions
  <2> QED
    BY <1>2, <2>1 DEF Init, BufferKept
<1> QED
  BY <1>4, <1>5, <1>6, <1>7, <1>8, <1>9, <1>10, <1>11 DEF IInv

\* A step that changes no variable keeps it.
LEMMA IInvStutter ==
  ASSUME IInv, UNCHANGED vars
  PROVE  IInv'
<1>1. /\ UNCHANGED <<role, running, socket, opens, endpoint, operations, ready, raced,
                     calls, size, allocated, connected, started, busy>>
      /\ UNCHANGED <<doing, at, target, phase, current>>
  BY DEF vars, bufferVars, flagVars, threadVars, handlerVars
<1>2. TypeOK'
  BY <1>1 DEF IInv, TypeOK
<1>3. InPlace' /\ RacesTold' /\ SocketOps'
  BY <1>1 DEF IInv, InPlace, Suited, RacesTold, Overlaps, Changes, SocketOps
<1>4. LifeCycle' /\ Fresh' /\ FirstSocket'
  BY <1>1 DEF IInv, LifeCycle, Halfway, Agreed, Changes, Fresh, FirstSocket
<1>5. FlagsCovered' /\ FlagsExact' /\ BufferKept'
  BY <1>1 DEF IInv, FlagsCovered, IsReady, FlagsExact, Single, Pending, BufferKept
<1> QED
  BY <1>2, <1>3, <1>4, <1>5 DEF IInv

\* The inductive invariant holds in every state, whatever the two threads call when.
THEOREM UdpCorrect == Spec => []IInv
<1>1. Init => IInv
  BY IInvInit
<1>2. IInv /\ [Next]_vars => IInv'
  <2> SUFFICES ASSUME IInv, [Next]_vars PROVE IInv'
    OBVIOUS
  <2>1. CASE Next
    <3>1. RacesTold'
      BY <2>1 DEF Next, Tells, RacesTold
    <3> QED
      BY <2>1, <3>1, TypeNext, InPlaceNext, SocketOpsNext, LifeNext, FreshNext, FirstNext,
         CoveredNext, ExactNext, BufferNext DEF IInv
  <2>2. CASE UNCHANGED vars
    BY <2>2, IInvStutter
  <2> QED
    BY <2>1, <2>2
<1> QED
  BY <1>1, <1>2, PTL DEF Spec

\* The types, the buffer's bound at its limit among them.
THEOREM TypeCorrect == Spec => []TypeOK
<1>1. IInv => TypeOK
  BY DEF IInv
<1> QED
  BY <1>1, UdpCorrect, PTL

(***************************************************************************)
(* connected_, _started and the socket agree between any two calls, step by *)
(* step as they are, while no two have changed them at once; and what is   *)
(* outstanding belongs to the open socket, always.                         *)
(***************************************************************************)
THEOREM SocketAgrees == Spec => []SocketKnown
<1>1. IInv => SocketKnown
  BY DEF IInv, SocketKnown, SocketOps, LifeCycle, Agreed
<1> QED
  BY <1>1, UdpCorrect, PTL

\* receiving_ and sending_ are up only while something will take them down.
THEOREM FlagsComeDown == Spec => []FlagsCovered
<1>1. IInv => FlagsCovered
  BY DEF IInv
<1> QED
  BY <1>1, UdpCorrect, PTL

(***************************************************************************)
(* One receive and one send at most are outstanding on the first socket,   *)
(* while the threads do not start the same one at once.                    *)
(***************************************************************************)
THEOREM OneAtATime == Spec => []OneOutstanding
<1>1. IInv => OneOutstanding
  <2> SUFFICES ASSUME IInv, NEW k \in Completions, opens <= 1, k \notin raced
               PROVE  Len(operations[k]) <= 1
    BY DEF OneOutstanding
  <2>1. CASE socket = "closed"
    <3>1. operations[k] = <<>> /\ Len(<<>>) = 0
      BY <2>1, ClosedIsEmpty DEF IInv
    <3> QED
      BY <3>1
  <2>2. CASE socket # "closed"
    BY <2>2 DEF IInv, FlagsExact, Single
  <2> QED
    BY <2>1, <2>2
<1> QED
  BY <1>1, UdpCorrect, PTL

(***************************************************************************)
(* The buffer stays within its limit, each receive within the allocation   *)
(* it was given, and a connection has a buffer but for the two races.      *)
(***************************************************************************)
THEOREM BufferIsEnough == Spec => []BufferFits
<1>1. IInv => BufferFits
  BY BufferAssumption DEF IInv, TypeOK, BufferKept, BufferFits, Sizes
<1> QED
  BY <1>1, UdpCorrect, PTL

================================================================================
