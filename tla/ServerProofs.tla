------------------------------ MODULE ServerProofs ------------------------------
(***************************************************************************)
(* The list of a server under its two writers, the acceptor's handler and  *)
(* the application, for any set of clients: the list and its ids are       *)
(* sound, what is open is kept alive, what is closed is cleaned up, and    *)
(* the timer spares the validated.  What fails when a push_back comes      *)
(* between remove and erase is claimed where raced is FALSE.               *)
(***************************************************************************)
EXTENDS Server, SequenceTheorems, FiniteSetTheorems, TLAPS

Accepted == {c \in Clients : visit[c] = "accepted"}

\* A connection that no timer knows, and that was not validated.
Untouched(c) ==
  /\ c \notin validated
  /\ \A e \in callbacks : e[2] # c
  /\ \A t \in timers : t.calls # c

(***************************************************************************)
(* Nothing of the server refers to a client before it is accepted, which   *)
(* happens once: its connection is a new one wherever it comes to.         *)
(***************************************************************************)
Admitted ==
  /\ open \subseteq Accepted /\ held \subseteq Accepted /\ Listed \subseteq Accepted
  /\ reported \subseteq Accepted /\ closedThen \subseteq Accepted
  /\ \A c \in Clients : handlers[c] # {} \/ ~Untouched(c) => c \in Accepted

(***************************************************************************)
(* The connection in the acceptor's handler: nothing of it has started     *)
(* that could close it, and it is open and, once pushed, the last of the   *)
(* list, with nobody erasing.                                              *)
(***************************************************************************)
Newcomer ==
  /\ at = "idle" => new = NoClient
  /\ at # "idle" => new \in Clients /\ Untouched(new)
  /\ at = "approved" => new \in open /\ new \notin Listed
  /\ at = "listed" /\ ~raced =>
       new \in open /\ list # <<>> /\ list[Len(list)] = new /\ erase = NoErase

(***************************************************************************)
(* Where a loop of MessageAllClients is, and where the nulls are: behind   *)
(* it, and, once std::remove has moved them, from erase.first to           *)
(* erase.end, which is the end of the list until a push_back comes.        *)
(***************************************************************************)
LoopSound ==
  /\ loop # Idle => /\ 1 <= loop.next
                    /\ erase = NoErase =>
                         loop.next <= loop.last + 1 /\ loop.last <= Len(list)
                    /\ erase # NoErase => loop.next > loop.last
  /\ erase = NoErase =>
       \A i \in DOMAIN list : list[i] = NoClient => i < loop.next /\ loop.invalid
  /\ erase # NoErase =>
       /\ 1 <= erase.first /\ erase.first <= erase.end + 1 /\ erase.end <= Len(list)
       /\ ~raced => erase.end = Len(list)
       /\ \A i \in DOMAIN list :
             list[i] = NoClient <=> erase.first <= i /\ i <= erase.end

Distinct == \A i, j \in DOMAIN list : i # j /\ list[i] = list[j] => list[i] = NoClient

\* Ids are given in order, from 1.
IdsGiven ==
  /\ 0 < IDCounter
  /\ \A c \in Clients : id[c] < IDCounter

\* What is closed stays closed.
ReportedAreClosed == reported \cap open = {} /\ closedThen \cap open = {}

(***************************************************************************)
(* What was closed when the loop began is dealt with, or still ahead of    *)
(* it.                                                                     *)
(***************************************************************************)
CleanedOrAhead ==
  loop # Idle =>
    \A c \in closedThen : \/ c \in reported \ Listed
                          \/ \E i \in loop.next..loop.last : list[i] = c

(***************************************************************************)
(* A callback is under the id of the connection it closes, which was not   *)
(* validated.                                                              *)
(***************************************************************************)
CallbacksOwn ==
  ~raced => \A e \in callbacks : e[1] = id[e[2]] /\ e[2] \notin validated

IInv == /\ TypeOK /\ Admitted /\ Newcomer /\ LoopSound /\ Distinct
        /\ IdsGiven /\ IdsTellApart /\ ReportedAreClosed /\ CleanedOrAhead
        /\ CallbacksOwn

--------------------------------------------------------------------------------
(* Sequences. *)

Elements == Clients \cup {NoClient}

\* The list is a sequence of clients and nulls.
LEMMA ListTyping ==
  ASSUME TypeOK
  PROVE  /\ list \in Seq(Elements) /\ Len(list) \in Nat /\ DOMAIN list = 1..Len(list)
         /\ \A i \in 1..Len(list) : list[i] \in Elements
BY DEF TypeOK, Elements

\* Listed, by index.
LEMMA ListedTyping ==
  ASSUME TypeOK
  PROVE  /\ Listed \subseteq Clients
         /\ \A c : c \in Listed <=> c # NoClient /\ \E i \in 1..Len(list) : list[i] = c
BY ListTyping DEF Listed, Elements

(***************************************************************************)
(* std::remove leaves null pointers at the end only, and keeps the others. *)
(***************************************************************************)
LEMMA RemoveMoves ==
  ASSUME TypeOK, Distinct, RemoveNulls
  PROVE  /\ list' \in Seq(Elements) /\ Len(list') = Len(list)
         /\ DOMAIN list' = 1..Len(list)
         /\ erase'.first \in 1..(Len(list) + 1) /\ erase'.end = Len(list)
         /\ erase' \in [first : Nat, end : Nat] /\ erase' # NoErase
         /\ \A i \in 1..Len(list) : list'[i] = NoClient <=> erase'.first <= i
         /\ Listed' = Listed
         /\ Distinct'
<1> DEFINE Kept == {i \in DOMAIN list : list[i] # NoClient}
           n == Cardinality(Kept)
<1>1. list \in Seq(Elements) /\ Len(list) \in Nat /\ DOMAIN list = 1..Len(list)
      /\ \A i \in 1..Len(list) : list[i] \in Elements
  BY ListTyping
<1>2. n \in Nat /\ n <= Len(list)
  <2>1. IsFiniteSet(1..Len(list)) /\ Cardinality(1..Len(list)) = Len(list)
    <3>1. 1 \in Int /\ Len(list) \in Int
      BY <1>1
    <3>2. /\ IsFiniteSet(1..Len(list))
          /\ Cardinality(1..Len(list)) = IF 1 > Len(list) THEN 0 ELSE Len(list) - 1 + 1
      BY <3>1, FS_Interval
    <3> QED
      BY <1>1, <3>2
  <2>2. Kept \in SUBSET (1..Len(list))
    BY <1>1
  <2>3. IsFiniteSet(Kept) /\ n <= Cardinality(1..Len(list))
    BY <2>1, <2>2, FS_Subset
  <2> QED
    BY <2>1, <2>3, FS_CardinalityType
<1>3. PICK f \in Bijection(1..n, Kept) :
        list' = [i \in DOMAIN list |-> IF i <= n THEN list[f[i]] ELSE NoClient]
  BY DEF RemoveNulls
<1>4. erase' = [first |-> n + 1, end |-> Len(list)]
  BY DEF RemoveNulls
<1>5. /\ f \in [1..n -> Kept]
      /\ \A k \in Kept : \E i \in 1..n : f[i] = k
      /\ \A i, j \in 1..n : f[i] = f[j] => i = j
  BY DEF Bijection, Surjection, Injection, IsInjective
<1> HIDE DEF n
<1>6. \A i \in 1..n : f[i] \in 1..Len(list) /\ list[f[i]] # NoClient
  BY <1>1, <1>5
<1>7. \A i \in 1..Len(list) : list'[i] = IF i <= n THEN list[f[i]] ELSE NoClient
  BY <1>1, <1>3
<1>8. list' \in [1..Len(list) -> Elements]
  BY <1>1, <1>2, <1>3, <1>6 DEF Elements
<1>9. list' \in Seq(Elements) /\ Len(list') = Len(list) /\ DOMAIN list' = 1..Len(list)
  BY <1>1, <1>8, LenProperties, SeqDef
<1>10. \A i \in 1..Len(list) : list'[i] = NoClient <=> n + 1 <= i
  BY <1>1, <1>2, <1>6, <1>7
<1>11. Listed' = Listed
  <2>1. \A c : c \in Listed' <=> c # NoClient /\ \E i \in 1..Len(list) : list'[i] = c
    BY <1>9 DEF Listed
  <2>2. \A c : c \in Listed <=> c # NoClient /\ \E i \in 1..Len(list) : list[i] = c
    BY ListedTyping
  <2>3. \A i \in 1..n : i \in 1..Len(list) /\ list'[i] = list[f[i]]
    BY <1>1, <1>2, <1>7
  <2>4. \A k \in 1..Len(list) : list[k] # NoClient => \E i \in 1..n : f[i] = k
    BY <1>1, <1>5
  <2>5. \A i \in 1..Len(list) : list'[i] # NoClient => i \in 1..n
    BY <1>1, <1>2, <1>10
  <2>6. ASSUME NEW c \in Listed' PROVE c \in Listed
    <3>1. PICK i \in 1..Len(list) : list'[i] = c /\ c # NoClient
      BY <2>1
    <3> QED
      BY <1>6, <2>2, <2>3, <2>5, <3>1
  <2>7. ASSUME NEW c \in Listed PROVE c \in Listed'
    <3>1. PICK k \in 1..Len(list) : list[k] = c /\ c # NoClient
      BY <2>2
    <3>2. PICK i \in 1..n : f[i] = k
      BY <2>4, <3>1
    <3> QED
      BY <2>1, <2>3, <3>1, <3>2
  <2> QED
    BY <2>6, <2>7
<1>12. Distinct'
  <2> SUFFICES ASSUME NEW i \in 1..Len(list), NEW j \in 1..Len(list),
                      i # j, list'[i] = list'[j], list'[i] # NoClient
               PROVE  FALSE
    BY <1>9 DEF Distinct
  <2>1. i \in 1..n /\ j \in 1..n
    BY <1>1, <1>2, <1>10
  <2>2. list[f[i]] = list[f[j]] /\ list[f[i]] # NoClient
    BY <1>7, <1>6, <2>1
  <2>3. f[i] = f[j]
    BY <1>1, <1>6, <2>1, <2>2 DEF Distinct
  <2> QED
    BY <1>5, <2>1, <2>3
<1> QED
  BY <1>1, <1>2, <1>4, <1>9, <1>10, <1>11, <1>12 DEF NoErase

\* What is left of a sequence when the elements p+1 to q are cut out of it.
Cut(s, p, q) == SubSeq(s, 1, p) \o SubSeq(s, q + 1, Len(s))

\* An element of it is one of the sequence.
LEMMA CutOut ==
  ASSUME NEW s \in Seq(Elements), NEW p \in Nat, NEW q \in Nat, p <= q, q <= Len(s)
  PROVE  /\ Cut(s, p, q) \in Seq(Elements) /\ Len(Cut(s, p, q)) = p + (Len(s) - q)
         /\ \A i \in 1..(p + (Len(s) - q)) :
               Cut(s, p, q)[i] = s[IF i <= p THEN i ELSE q + (i - p)]
<1>1. Len(s) \in Nat /\ \A i \in 1..Len(s) : s[i] \in Elements
  BY ElementOfSeq, LenProperties
<1> DEFINE front == SubSeq(s, 1, p)
           back == SubSeq(s, q + 1, Len(s))
           r == front \o back
           n == Len(s)
<1>2. front \in Seq(Elements) /\ Len(front) = p /\ \A i \in 1..p : front[i] = s[i]
  <2>1. \A i \in 1..p : s[i] \in Elements
    BY <1>1
  <2>2. /\ front \in Seq(Elements) /\ Len(front) = IF 1 <= p THEN p - 1 + 1 ELSE 0
        /\ \A i \in 1..(p - 1 + 1) : front[i] = s[1 + i - 1]
    BY <2>1, SubSeqProperties
  <2> QED
    BY <2>2
<1>3. /\ back \in Seq(Elements) /\ Len(back) = n - q
      /\ \A i \in 1..(n - q) : back[i] = s[q + i]
  <2>1. \A i \in (q + 1)..n : s[i] \in Elements
    BY <1>1
  <2>2. /\ back \in Seq(Elements) /\ Len(back) = IF q + 1 <= n THEN n - (q + 1) + 1 ELSE 0
        /\ \A i \in 1..(n - (q + 1) + 1) : back[i] = s[q + 1 + i - 1]
    BY <1>1, <2>1, SubSeqProperties
  <2> HIDE DEF back
  <2>3. n \in Nat /\ q <= n
    BY <1>1
  <2> HIDE DEF n
  <2>4. n - (q + 1) + 1 = n - q /\ (q + 1 <= n \/ n - q = 0)
    BY <2>3
  <2>5. Len(back) = n - q
    BY <2>2, <2>3, <2>4
  <2>6. ASSUME NEW i \in 1..(n - q) PROVE back[i] = s[q + i]
    <3>1. q + 1 + i - 1 = q + i
      BY <2>3
    <3> QED
      BY <2>2, <2>4, <3>1
  <2> QED
    BY <2>2, <2>5, <2>6
<1> HIDE DEF front, back
<1>4. /\ front \o back \in Seq(Elements)
      /\ Len(front \o back) = Len(front) + Len(back)
      /\ \A i \in 1..(Len(front) + Len(back)) : (front \o back)[i] =
            IF i <= Len(front) THEN front[i] ELSE back[i - Len(front)]
  <2>1. front \in Seq(Elements) /\ back \in Seq(Elements)
    BY <1>2, <1>3
  <2> QED
    BY <2>1, ConcatProperties
<1>6. n \in Nat /\ q <= n
  BY <1>1
<1> HIDE DEF n
<1>7. ASSUME NEW i \in 1..(p + (n - q))
      PROVE  r[i] = s[IF i <= p THEN i ELSE q + (i - p)]
  <2>1. r[i] = IF i <= p THEN front[i] ELSE back[i - p]
    BY <1>2, <1>3, <1>4
  <2>2. CASE i <= p
    <3>1. i \in 1..p
      BY <2>2, <1>6
    <3> QED
      BY <2>1, <2>2, <3>1, <1>2
  <2>3. CASE ~(i <= p)
    <3>1. i - p \in 1..(n - q)
      BY <2>3, <1>6
    <3> QED
      BY <2>1, <2>3, <3>1, <1>3
  <2> QED
    BY <2>2, <2>3
<1>8. r \in Seq(Elements) /\ Len(r) = p + (n - q)
  BY <1>2, <1>3, <1>4
<1> QED
  BY <1>7, <1>8 DEF n, front, back, Cut

(***************************************************************************)
(* erase takes the nulls out, which are from erase.first to erase.end, and *)
(* what was pushed behind them meanwhile, if its end() is the later one.   *)
(***************************************************************************)
LEMMA EraseMoves ==
  ASSUME TypeOK, Distinct, LoopSound, Erase
  PROVE  /\ list' \in Seq(Elements)
         /\ \A i \in DOMAIN list' : list'[i] # NoClient
         /\ Listed' \subseteq Listed
         /\ ~raced => Listed' = Listed
         /\ Distinct'
<1>1. Len(list) \in Nat /\ DOMAIN list = 1..Len(list)
  BY ListTyping
<1>e. \A i \in 1..Len(list) : list[i] \in Elements
  BY ListTyping
<1>2. PICK upto \in {erase.end, Len(list)} : EraseFrom(upto)
  BY DEF Erase
<1> DEFINE p == erase.first - 1
           q == upto
<1>3. p \in Nat /\ q \in Nat /\ p <= q /\ q <= Len(list)
  <2>1. /\ erase.first \in Nat /\ erase.end \in Nat
        /\ 1 <= erase.first /\ erase.first <= erase.end + 1 /\ erase.end <= Len(list)
    BY <1>1 DEF LoopSound, Erase, TypeOK
  <2> QED
    BY <1>1, <2>1
<1>n. \A i \in 1..Len(list) : list[i] = NoClient => p < i /\ i <= q
  <2>1. /\ erase.first \in Nat /\ erase.end \in Nat /\ erase.end <= Len(list)
        /\ \A i \in 1..Len(list) :
              list[i] = NoClient <=> erase.first <= i /\ i <= erase.end
    BY <1>1 DEF LoopSound, Erase, TypeOK
  <2> QED
    BY <1>1, <2>1
<1>k. ~raced => \A i \in 1..Len(list) : list[i] # NoClient => i <= p
  <2>1. /\ erase.first \in Nat
        /\ ~raced => erase.end = Len(list)
        /\ \A i \in 1..Len(list) :
              list[i] = NoClient <=> erase.first <= i /\ i <= erase.end
    BY <1>1 DEF LoopSound, Erase, TypeOK
  <2> QED
    BY <1>1, <2>1
<1> HIDE DEF p, q
<1> DEFINE m == p + (Len(list) - q)
           From(i) == IF i <= p THEN i ELSE q + (i - p)
<1>7. list' \in Seq(Elements) /\ Len(list') = m /\ \A i \in 1..m : list'[i] = list[From(i)]
  <2>1. list' = Cut(list, p, q)
    BY <1>2 DEF EraseFrom, p, q, Cut
  <2>2. list \in Seq(Elements)
    BY ListTyping
  <2>3. p \in Nat
    BY <1>3
  <2>4. q \in Nat
    BY <1>3
  <2>5. p <= q
    BY <1>3
  <2>6. q <= Len(list)
    BY <1>3
  <2> HIDE DEF From, m
  <2>7. \A a, b \in Nat : a <= b /\ b <= Len(list) =>
          /\ Cut(list, a, b) \in Seq(Elements)
          /\ Len(Cut(list, a, b)) = a + (Len(list) - b)
          /\ \A i \in 1..(a + (Len(list) - b)) :
                Cut(list, a, b)[i] = list[IF i <= a THEN i ELSE b + (i - a)]
    BY <2>2, CutOut
  <2>8. /\ Cut(list, p, q) \in Seq(Elements)
        /\ Len(Cut(list, p, q)) = p + (Len(list) - q)
        /\ \A i \in 1..(p + (Len(list) - q)) :
              Cut(list, p, q)[i] = list[IF i <= p THEN i ELSE q + (i - p)]
    BY <2>3, <2>4, <2>5, <2>6, <2>7
  <2> QED
    BY <2>1, <2>8 DEF From, m
<1>8. DOMAIN list' = 1..m
  BY <1>7, LenProperties
<1>10. \A i \in 1..m : /\ From(i) \in 1..Len(list) /\ (From(i) <= p \/ q < From(i))
                       /\ \A j \in 1..m : From(i) = From(j) => i = j
  BY <1>1, <1>3
<1>11. \A i \in 1..m : list'[i] # NoClient
  BY <1>1, <1>3, <1>n, <1>7, <1>10
<1> HIDE DEF From, m
<1>12. /\ \A c : c \in Listed <=> c # NoClient /\ \E i \in 1..Len(list) : list[i] = c
       /\ \A c : c \in Listed' <=> c # NoClient /\ \E i \in 1..m : list'[i] = c
  BY <1>8, ListedTyping DEF Listed
<1>13. Listed' \subseteq Listed
  BY <1>7, <1>10, <1>12
<1>14. ASSUME ~raced PROVE Listed \subseteq Listed'
  <2>1. \A i \in 1..Len(list) : list[i] # NoClient => i \in 1..m /\ From(i) = i
    BY <1>1, <1>3, <1>k, <1>14 DEF From, m
  <2> QED
    BY <1>7, <1>12, <2>1
<1>15. Distinct'
  <2> SUFFICES ASSUME NEW i \in 1..m, NEW j \in 1..m, i # j, list'[i] = list'[j]
               PROVE  list'[i] = NoClient
    BY <1>8 DEF Distinct
  <2> QED
    BY <1>1, <1>7, <1>10 DEF Distinct
<1> QED
  BY <1>7, <1>8, <1>11, <1>13, <1>14, <1>15

\* A new element at the end of the list.
LEMMA PushKeeps ==
  ASSUME TypeOK, new \in Clients, list' = Append(list, new)
  PROVE  /\ list' \in Seq(Elements) /\ Len(list') = Len(list) + 1
         /\ DOMAIN list' = 1..(Len(list) + 1)
         /\ \A i \in 1..Len(list) : list'[i] = list[i]
         /\ list'[Len(list) + 1] = new
         /\ Listed' = Listed \cup {new}
<1>1. /\ list \in Seq(Elements) /\ Len(list) \in Nat /\ DOMAIN list = 1..Len(list)
  BY ListTyping
<1>2. new \in Elements /\ new # NoClient
  BY ClientsAssumption DEF Elements
<1>3. /\ list' \in Seq(Elements) /\ Len(list') = Len(list) + 1
      /\ \A i \in 1..Len(list) : list'[i] = list[i]
      /\ list'[Len(list) + 1] = new
  BY <1>1, <1>2, AppendProperties
<1>4. DOMAIN list' = 1..(Len(list) + 1)
  BY <1>1, <1>3, LenProperties
<1>5. Listed' = Listed \cup {new}
  <2>1. \A c : c \in Listed' => c \in Listed \cup {new}
    <3> SUFFICES ASSUME NEW i \in 1..(Len(list) + 1), list'[i] # NoClient
                 PROVE  list'[i] \in Listed \cup {new}
      BY <1>4 DEF Listed
    <3> QED
      BY <1>1, <1>3 DEF Listed
  <2>2. \A c : c \in Listed => c \in Listed'
    <3> SUFFICES ASSUME NEW i \in 1..Len(list), list[i] # NoClient
                 PROVE  list[i] \in Listed'
      BY <1>1 DEF Listed
    <3>1. list[i] = list'[i] /\ i \in 1..(Len(list) + 1)
      BY <1>1, <1>3
    <3> QED
      BY <1>4, <3>1 DEF Listed
  <2>3. new \in Listed'
    <3>1. Len(list) + 1 \in 1..(Len(list) + 1)
      BY <1>1
    <3> QED
      BY <1>2, <1>3, <1>4, <3>1 DEF Listed
  <2> QED
    BY <2>1, <2>2, <2>3
<1> QED
  BY <1>3, <1>4, <1>5

\* An element that is reset; the others are not, and it was there once only.
LEMMA ResetKeeps ==
  ASSUME TypeOK, Distinct, NEW k \in 1..Len(list), list[k] # NoClient, ResetElement(k)
  PROVE  /\ list' \in Seq(Elements) /\ Len(list') = Len(list)
         /\ DOMAIN list' = 1..Len(list)
         /\ \A i \in 1..Len(list) : list'[i] = IF i = k THEN NoClient ELSE list[i]
         /\ Listed' = Listed \ {list[k]}
<1>1. /\ list \in Seq(Elements) /\ Len(list) \in Nat /\ DOMAIN list = 1..Len(list)
  BY ListTyping
<1>2. NoClient \in Elements
  BY DEF Elements
<1>3. /\ list' \in Seq(Elements) /\ Len(list') = Len(list)
      /\ \A i \in 1..Len(list) : list'[i] = IF i = k THEN NoClient ELSE list[i]
  BY <1>1, <1>2, ExceptSeq DEF ResetElement
<1>4. DOMAIN list' = 1..Len(list)
  BY <1>3, LenProperties
<1>5. Listed' = Listed \ {list[k]}
  BY <1>1, <1>3, <1>4 DEF Listed, Distinct
<1> QED
  BY <1>3, <1>4, <1>5

--------------------------------------------------------------------------------
(* The steps, by what they do to the list. *)

\* Most steps leave the list, its writers and the ids alone.
Elsewhere ==
  /\ UNCHANGED <<list, erase, raced, loop, closedThen, at, new, id, IDCounter, reported>>
  /\ Accepted' = Accepted
  /\ open' \subseteq open
  /\ at # "idle" => Untouched(new)'
  /\ at = "approved" \/ (at = "listed" /\ ~raced) => new \in open'
  /\ ~raced => \A e \in callbacks' : e \in callbacks /\ e[2] \notin validated'

\* The rest of the state, which a step of the application leaves alone.
Others == <<at, new, visit, id, IDCounter, validated, callbacks, timers>>

\* std::remove, in MessageClient or after the loop of MessageAllClients.
Removes ==
  /\ RemoveNulls
  /\ erase = NoErase
  /\ loop # Idle => loop.next > loop.last
  /\ reported \subseteq reported' /\ reported' \subseteq reported \cup (Accepted \ open)
  /\ UNCHANGED <<loop, closedThen, open, Others>>

\* The end of a loop that has reset nothing.
Ends ==
  /\ loop # Idle /\ loop.next > loop.last /\ erase = NoErase /\ ~loop.invalid
  /\ loop' = Idle /\ closedThen' = {}
  /\ UNCHANGED <<list, erase, raced, reported, open, Others>>

\* What the acceptor's handler finds between its steps.
LEMMA AtTyping ==
  ASSUME IInv
  PROVE  /\ at \in {"idle", "approved", "listed"}
         /\ at # "idle" => new \in Clients /\ new # NoClient
         /\ at = "listed" /\ ~raced => Last(list) = new /\ new \in Listed /\ list # <<>>
<1>1. at \in {"idle", "approved", "listed"}
  BY DEF IInv, TypeOK
<1>2. at # "idle" => new \in Clients /\ new # NoClient
  BY <1>1, ClientsAssumption DEF IInv, Newcomer
<1>3. at = "listed" /\ ~raced => list # <<>> /\ list[Len(list)] = new
  BY DEF IInv, Newcomer
<1>4. at = "listed" /\ ~raced => Len(list) \in 1..Len(list)
  BY <1>3, ListTyping, EmptySeq DEF IInv
<1> QED
  BY <1>1, <1>2, <1>3, <1>4, ListedTyping DEF IInv, Last

\* The last element of a list is a client of it, or null.
LEMMA LastTyping ==
  ASSUME TypeOK, list # <<>>, Last(list) # NoClient
  PROVE  Last(list) \in Listed /\ Last(list) \in Clients
<1>1. Len(list) \in 1..Len(list)
  BY ListTyping, EmptySeq
<1> QED
  BY <1>1, ListTyping, ListedTyping DEF Last, Elements

\* The element a loop visits is there, and nobody has reset it.
LEMMA VisitTyping ==
  ASSUME IInv, Visiting
  PROVE  /\ loop.next \in 1..Len(list) /\ loop.last \in 1..Len(list)
         /\ erase = NoErase
         /\ list[loop.next] # NoClient
         /\ list[loop.next] \in Clients /\ list[loop.next] \in Listed
<1>1. Len(list) \in Nat /\ loop.next \in Nat /\ loop.last \in Nat
  BY ListTyping DEF IInv, TypeOK
<1>e. erase = NoErase
  BY <1>1 DEF IInv, LoopSound, Visiting
<1>2. loop.next \in 1..Len(list) /\ loop.last \in 1..Len(list)
  BY <1>1, <1>e DEF IInv, LoopSound, Visiting
<1>3. list[loop.next] # NoClient
  <2>1. loop.next \in DOMAIN list
    BY <1>2, ListTyping DEF IInv
  <2>2. list[loop.next] = NoClient => loop.next < loop.next
    BY <1>e, <2>1 DEF IInv, LoopSound
  <2> QED
    BY <1>1, <2>2
<1> QED
  BY <1>e, <1>2, <1>3, ListTyping, ListedTyping DEF IInv, Elements

\* An idle loop is at 0, and outside erase the list then holds no null.
LEMMA LoopTyping ==
  ASSUME IInv
  PROVE  /\ loop.next \in Nat /\ loop.last \in Nat /\ loop.invalid \in BOOLEAN
         /\ ~Iterating => \A i \in DOMAIN list : list[i] # NoClient
         /\ loop.next = 0 => loop = Idle
<1>1. loop.next \in Nat /\ loop.last \in Nat /\ loop.invalid \in BOOLEAN
  BY DEF IInv, TypeOK
<1>2. ~Iterating => \A i \in DOMAIN list : list[i] # NoClient
  <2> SUFFICES ASSUME ~Iterating, NEW i \in DOMAIN list, list[i] = NoClient
               PROVE  FALSE
    OBVIOUS
  <2>1. i < 0
    BY DEF IInv, LoopSound, Idle, Iterating
  <2>2. i \in Nat
    BY ListTyping DEF IInv
  <2> QED
    BY <2>1, <2>2
<1>3. loop.next = 0 => loop = Idle
  BY <1>1 DEF IInv, LoopSound
<1> QED
  BY <1>1, <1>2, <1>3

\* What a timer's step does to the threads: none of them calls a new connection.
LEMMA TimerTyping ==
  ASSUME IInv, NEW t \in timers, NEW c, NEW from, NEW to,
         TimerGoes(t, from, to, c) \/ TimerEnds(t, from),
         c \in Clients \cup {NoClient}, to \in {"found", "calling", "called"}
  PROVE  /\ timers' \subseteq Threads
         /\ \A u \in timers' : u \in timers \/ (u.at = to /\ u.calls = c)
<1>1. t \in Threads /\ timers \subseteq Threads
  BY DEF IInv, TypeOK
<1>2. [t EXCEPT !.at = to, !.calls = c] \in Threads
  BY <1>1 DEF Threads
<1>3. /\ [t EXCEPT !.at = to, !.calls = c].at = to
      /\ [t EXCEPT !.at = to, !.calls = c].calls = c
  BY <1>1 DEF Threads
<1> QED
  BY <1>1, <1>2, <1>3 DEF TimerGoes, TimerEnds

\* Every step is one of these.
LEMMA Steps ==
  ASSUME IInv, Next
  PROVE  \/ Elsewhere
         \/ \E c \in Clients : Approve(c)
         \/ PushBack \/ ConnectToClient
         \/ Removes \/ MessageAllClients \/ VisitOpen \/ VisitClosed \/ Ends \/ Erase
<1> DEFINE Goal == \/ Elsewhere
                   \/ \E c \in Clients : Approve(c)
                   \/ PushBack \/ ConnectToClient
                   \/ Removes \/ MessageAllClients \/ VisitOpen \/ VisitClosed \/ Ends
                   \/ Erase
<1>0. TypeOK /\ Admitted /\ Newcomer /\ CallbacksOwn
  BY DEF IInv
<1>e. Elsewhere => Goal
  OBVIOUS
<1> HIDE DEF Goal
<1> USE DEF contextVars, connectionVars, timerVars, loopVars, eraseVars, Takes, Runs
\* A step that touches neither the list, nor open connections, timers, validated.
<1>u. ASSUME UNCHANGED <<list, erase, raced, loop, closedThen, at, new, id, IDCounter,
                         reported, open, validated, callbacks, timers>>,
             Accepted' = Accepted
      PROVE  Elsewhere
  BY <1>0, <1>u DEF Elsewhere, Newcomer, Untouched, CallbacksOwn
<1>1. ASSUME NEW c \in Clients, Arrive(c) PROVE Goal
  <2>1. Accepted' = Accepted
    BY <1>0, <1>1 DEF Arrive, Accepted, TypeOK
  <2> QED
    BY <1>u, <1>e, <1>1, <2>1 DEF Arrive
<1>2. ASSUME NEW c \in Clients, Leave(c) PROVE Goal
  <2>1. Accepted' = Accepted
    BY <1>0, <1>2 DEF Leave, Accepted, TypeOK
  <2> QED
    BY <1>u, <1>e, <1>2, <2>1 DEF Leave
<1>3. ASSUME NEW c \in Clients, EndpointThrows(c) PROVE Goal
  BY <1>u, <1>e, <1>3 DEF EndpointThrows, Accepted
<1>4. ASSUME NEW c \in Clients, Approve(c) PROVE Goal
  BY <1>4 DEF Goal
<1>5. ASSUME NEW c \in Clients, Deny(c) PROVE Goal
  <2>1. Accepted' = Accepted
    BY <1>0, <1>5 DEF Deny, Accepted, TypeOK
  <2> QED
    BY <1>u, <1>e, <1>5, <2>1 DEF Deny
<1>6. ASSUME NEW c \in Clients, Validate(c) PROVE Goal
  <2>1. /\ callbacks' = {e \in callbacks : e[1] # id[c]}
        /\ validated' = validated \cup {c}
        /\ UNCHANGED <<list, erase, raced, loop, closedThen, at, new, id, IDCounter,
                       reported, open, timers, visit>>
        /\ at = "idle"
    BY <1>6 DEF Validate, RemoveTimer
  <2>2. ASSUME ~raced, NEW e \in callbacks' PROVE e \in callbacks /\ e[2] \notin validated'
    BY <1>0, <2>1, <2>2 DEF CallbacksOwn
  <2>3. Elsewhere
    BY <2>1, <2>2 DEF Elsewhere, Accepted
  <2> QED
    BY <1>e, <2>3
<1>7. ASSUME NEW c \in Clients, MessageRead(c) PROVE Goal
  BY <1>u, <1>e, <1>7 DEF MessageRead, Accepted
<1>8. ASSUME NEW c \in Clients, Close(c) PROVE Goal
  <2>1. /\ UNCHANGED <<list, erase, raced, loop, closedThen, at, new, id, IDCounter,
                       reported, callbacks, validated, visit>>
        /\ at = "idle" /\ open' \subseteq open
    BY <1>8 DEF Close
  <2>2. Elsewhere
    BY <1>0, <2>1 DEF Elsewhere, Accepted, CallbacksOwn
  <2> QED
    BY <1>e, <2>2
<1>9. ASSUME NEW c \in Clients, Written(c) PROVE Goal
  BY <1>u, <1>e, <1>9 DEF Written, Accepted
\* A timer's thread: none of them is to call the newcomer.
<1>t. ASSUME UNCHANGED <<list, erase, raced, loop, closedThen, at, new, id, IDCounter,
                         reported, validated, visit>>,
             open' \subseteq open, callbacks' \subseteq callbacks,
             at # "idle" => \A t \in timers' : t.calls # new,
             at # "idle" => (new \in open => new \in open')
      PROVE  Goal
  <2>1. Elsewhere
    BY <1>0, <1>t DEF Elsewhere, Accepted, CallbacksOwn, Newcomer, Untouched
  <2> QED
    BY <1>e, <2>1
<1>n. at # "idle" => /\ \A t \in timers : t.calls # new
                     /\ \A e \in callbacks : e[2] # new
                     /\ new # NoClient
  BY <1>0, AtTyping DEF Newcomer, Untouched
<1>10. ASSUME NEW t \in timers, TimerWakes(t) PROVE Goal
  <2>1. \/ TimerGoes(t, "sleeping", "found", NoClient)
        \/ TimerEnds(t, "sleeping")
    BY <1>10 DEF TimerWakes
  <2>2. \A u \in timers' : u \in timers \/ u.calls = NoClient
    BY <2>1, TimerTyping
  <2> QED
    BY <1>t, <1>n, <1>10, <2>2 DEF TimerWakes
<1>11. ASSUME NEW t \in timers, TimerLooks(t) PROVE Goal
  <2>1. PICK c \in Clients \cup {NoClient} :
          /\ \/ TimerGoes(t, "found", "calling", c)
             \/ TimerEnds(t, "found")
          /\ c # NoClient => \E e \in callbacks : e[2] = c
    <3>1. CASE \E e \in Entries(t) : TimerGoes(t, "found", "calling", e[2])
      <4>1. PICK e \in Entries(t) : TimerGoes(t, "found", "calling", e[2])
        BY <3>1
      <4>2. e \in callbacks /\ e[2] \in Clients
        BY <1>0, <4>1 DEF Entries, TypeOK
      <4> QED
        BY <4>1, <4>2
    <3>2. CASE TimerEnds(t, "found")
      BY <3>2
    <3> QED
      BY <1>11, <3>1, <3>2 DEF TimerLooks
  <2>2. \A u \in timers' : u \in timers \/ u.calls = c
    BY <2>1, TimerTyping
  <2> QED
    BY <1>t, <1>n, <1>11, <2>1, <2>2 DEF TimerLooks
<1>12. ASSUME NEW t \in timers, TimerCalls(t) PROVE Goal
  <2>1. t.calls \in Clients \cup {NoClient}
    BY <1>0 DEF TypeOK, Threads
  <2>2. \A u \in timers' : u \in timers \/ u.calls = t.calls
    BY <1>12, <2>1, TimerTyping DEF TimerCalls
  <2>3. /\ UNCHANGED <<list, erase, raced, loop, closedThen, at, new, id, IDCounter,
                       reported, callbacks, validated, visit>>
        /\ open' = open \ {t.calls}
    BY <1>12 DEF TimerCalls
  <2> QED
    BY <1>t, <1>n, <2>2, <2>3
<1>13. ASSUME NEW t \in timers, TimerErases(t) PROVE Goal
  <2>1. timers' \subseteq timers
    BY <1>13 DEF TimerErases, TimerEnds
  <2> QED
    BY <1>t, <1>n, <1>13, <2>1 DEF TimerErases
<1>14. ASSUME NEW c \in Clients, Hold(c) PROVE Goal
  BY <1>u, <1>e, <1>14 DEF Hold, Accepted
<1>15. ASSUME NEW c \in Clients, Release(c) PROVE Goal
  <2>1. /\ UNCHANGED <<list, erase, raced, loop, closedThen, at, new, id, IDCounter,
                       reported, callbacks, validated, visit, timers>>
        /\ open' = open \cap Owned'
    BY <1>15 DEF Release, PointersDrop
  <2>2. at = "approved" \/ (at = "listed" /\ ~raced) => new \in Owned'
    <3>1. Listed' = Listed
      BY <2>1 DEF Listed
    <3> QED
      BY <2>1, <3>1, AtTyping DEF Owned
  <2>3. Elsewhere
    BY <1>0, <2>1, <2>2 DEF Elsewhere, Accepted, CallbacksOwn, Newcomer, Untouched
  <2> QED
    BY <1>e, <2>3
<1>16. ASSUME NEW c \in Clients, MessageClient(c) PROVE Goal
  <2>1. CASE c \in open
    BY <1>u, <1>e, <1>16, <2>1 DEF MessageClient, Accepted
  <2>2. CASE c \notin open
    <3>1. Removes
      BY <1>0, <1>16, <2>2 DEF MessageClient, Application, Removes, Others, Admitted
    <3> QED
      BY <3>1 DEF Goal
  <2> QED
    BY <2>1, <2>2
<1>17. ASSUME Visited PROVE Goal
  <2>1. CASE loop.invalid
    <3>1. Removes
      BY <1>17, <2>1 DEF Visited, Removes, Others
    <3> QED
      BY <3>1 DEF Goal
  <2>2. CASE ~loop.invalid
    <3>1. Ends
      BY <1>17, <2>2 DEF Visited, Ends, Others
    <3> QED
      BY <3>1 DEF Goal
  <2> QED
    BY <2>1, <2>2
<1>18. ASSUME Stop PROVE Goal
  BY <1>u, <1>e, <1>18 DEF Stop, Accepted
<1>19. ASSUME Joined PROVE Goal
  BY <1>u, <1>e, <1>19 DEF Joined, Accepted
<1> QED
  BY <1>1, <1>2, <1>3, <1>4, <1>5, <1>6, <1>7, <1>8, <1>9, <1>10, <1>11,
     <1>12, <1>13, <1>14, <1>15, <1>16, <1>17, <1>18, <1>19
     DEF Goal, Next, Accept, Context, Timer, Calls, Loop

--------------------------------------------------------------------------------
(* Each part of the invariant, over every step. *)

\* A client's handlers after Post.
LEMMA PostTyping ==
  ASSUME TypeOK, NEW c \in Clients, NEW kind \in Kinds, Post(c, kind)
  PROVE  /\ handlers' \in [Clients -> SUBSET Kinds]
         /\ \A d \in Clients : d # c => handlers'[d] = handlers[d]
BY DEF TypeOK, Post

\* A step of a loop.
LEMMA StepTyping ==
  ASSUME TypeOK, NEW invalid \in BOOLEAN, Step(invalid)
  PROVE  /\ loop' \in [next : Nat, last : Nat, invalid : BOOLEAN]
         /\ loop'.next = loop.next + 1 /\ loop'.last = loop.last /\ loop'.invalid = invalid
<1> DEFINE Loops == [next : Nat, last : Nat, invalid : BOOLEAN]
<1>1. loop \in Loops /\ loop.next + 1 \in Nat
  BY DEF TypeOK
<1>2. loop' = [loop EXCEPT !.next = loop.next + 1, !.invalid = invalid]
  BY <1>1 DEF Step
<1>3. ASSUME NEW n \in Nat, NEW l \in Loops
      PROVE  /\ [l EXCEPT !.next = n, !.invalid = invalid] \in Loops
             /\ [l EXCEPT !.next = n, !.invalid = invalid].next = n
             /\ [l EXCEPT !.next = n, !.invalid = invalid].last = l.last
             /\ [l EXCEPT !.next = n, !.invalid = invalid].invalid = invalid
  BY <1>3
<1> QED
  BY <1>1, <1>2, <1>3

\* What the acceptor's handler starts is for a connection of the list.
LEMMA HandshakeTyping ==
  ASSUME IInv, ConnectToClient
  PROVE  \/ UNCHANGED <<id, handlers, callbacks, timers>> /\ (~raced => FALSE)
         \/ \E c \in Clients :
              /\ c \in Listed /\ c \in open
              /\ ~raced => c = new
              /\ id' = [id EXCEPT ![c] = IDCounter]
              /\ handlers' = [handlers EXCEPT ![c] = @ \cup {"answer", "write"}]
              /\ callbacks' = {e \in callbacks : e[1] # IDCounter} \cup {<<IDCounter, c>>}
              /\ timers' = timers \cup
                   {[id |-> IDCounter, at |-> "sleeping", calls |-> NoClient]}
<1>0. TypeOK /\ open \subseteq Clients
  BY DEF IInv, TypeOK
<1>1. ~raced => list # <<>> /\ Last(list) = new /\ new \in open
  BY AtTyping DEF IInv, Newcomer, ConnectToClient
<1>2. CASE list # <<>> /\ Last(list) \in open
  <2>1. Last(list) \in Clients /\ Last(list) \in Listed
    BY <1>0, <1>2, LastTyping, ClientsAssumption
  <2>2. Handshake(Last(list))
    BY <1>2 DEF ConnectToClient
  <2> QED
    BY <1>1, <1>2, <2>1, <2>2 DEF Handshake
<1>3. CASE ~(list # <<>> /\ Last(list) \in open)
  BY <1>1, <1>3 DEF ConnectToClient, Handshake, timerVars
<1> QED
  BY <1>2, <1>3

\* Every step keeps the types.
LEMMA TypeNext ==
  ASSUME IInv, Next
  PROVE  TypeOK'
<1> USE DEF TypeOK, contextVars, connectionVars, timerVars, loopVars, eraseVars, Takes,
            Runs, Without, Kinds, Idle, NoErase, Application, Visiting, Step, Uses,
            NextId, RemoveTimer
<1>0. TypeOK /\ Distinct /\ LoopSound
  BY DEF IInv
<1>1. ASSUME NEW c \in Clients, Arrive(c) PROVE TypeOK'
  BY <1>1, <1>0 DEF Arrive
<1>2. ASSUME NEW c \in Clients, Leave(c) PROVE TypeOK'
  BY <1>2, <1>0 DEF Leave
<1>3. ASSUME NEW c \in Clients, EndpointThrows(c) PROVE TypeOK'
  BY <1>3, <1>0 DEF EndpointThrows
<1>4. ASSUME NEW c \in Clients, Approve(c) PROVE TypeOK'
  BY <1>4, <1>0 DEF Approve
<1>5. ASSUME NEW c \in Clients, Deny(c) PROVE TypeOK'
  BY <1>5, <1>0 DEF Deny
<1>6. ASSUME NEW c \in Clients, Validate(c) PROVE TypeOK'
  BY <1>6, <1>0 DEF Validate
<1>7. ASSUME NEW c \in Clients, MessageRead(c) PROVE TypeOK'
  BY <1>7, <1>0 DEF MessageRead
<1>8. ASSUME NEW c \in Clients, Close(c) PROVE TypeOK'
  <2>1. handlers' \in [Clients -> SUBSET Kinds]
    BY <1>0, <1>8 DEF Close
  <2>2. running' \in BOOLEAN /\ open' \subseteq Clients
    BY <1>0, <1>8 DEF Close
  <2> QED
    BY <1>0, <1>8, <2>1, <2>2 DEF Close
<1>9. ASSUME NEW c \in Clients, Written(c) PROVE TypeOK'
  BY <1>9, <1>0 DEF Written
<1>10. ASSUME NEW t \in timers, TimerWakes(t) PROVE TypeOK'
  <2>1. timers' \subseteq Threads
    BY <1>10, TimerTyping DEF TimerWakes
  <2> QED
    BY <1>10, <1>0, <2>1 DEF TimerWakes
<1>11. ASSUME NEW t \in timers, TimerLooks(t) PROVE TypeOK'
  <2>1. timers' \subseteq Threads
    <3>1. ASSUME NEW e \in Entries(t), TimerGoes(t, "found", "calling", e[2])
          PROVE  timers' \subseteq Threads
      <4>1. e[2] \in Clients
        BY <1>0 DEF Entries
      <4> QED
        BY <3>1, <4>1, TimerTyping
    <3>2. CASE TimerEnds(t, "found")
      BY <1>0, <3>2 DEF TimerEnds
    <3> QED
      BY <1>11, <3>1, <3>2 DEF TimerLooks
  <2>2. running' \in BOOLEAN
    BY <1>11, <1>0 DEF TimerLooks
  <2> QED
    BY <1>11, <1>0, <2>1, <2>2 DEF TimerLooks
<1>12. ASSUME NEW t \in timers, TimerCalls(t) PROVE TypeOK'
  <2>1. timers' \subseteq Threads
    <3>1. t.calls \in Clients \cup {NoClient}
      BY <1>0 DEF Threads
    <3> QED
      BY <1>12, <3>1, TimerTyping DEF TimerCalls
  <2>2. running' \in BOOLEAN /\ open' \subseteq Clients
    BY <1>12, <1>0 DEF TimerCalls
  <2> QED
    BY <1>12, <1>0, <2>1, <2>2 DEF TimerCalls
<1>13. ASSUME NEW t \in timers, TimerErases(t) PROVE TypeOK'
  <2>1. timers' \subseteq Threads /\ callbacks' \subseteq callbacks
    BY <1>13, <1>0 DEF TimerErases, TimerEnds
  <2> QED
    BY <1>13, <1>0, <2>1 DEF TimerErases
<1>14. ASSUME NEW c \in Clients, Hold(c) PROVE TypeOK'
  BY <1>14, <1>0 DEF Hold
<1>15. ASSUME NEW c \in Clients, Release(c) PROVE TypeOK'
  <2>1. open' \subseteq Clients
    BY <1>15, <1>0 DEF Release, PointersDrop
  <2> QED
    BY <1>15, <1>0, <2>1 DEF Release
<1>r. ASSUME RemoveNulls
      PROVE  /\ list' \in Seq(Clients \cup {NoClient})
             /\ erase' \in [first : Nat, end : Nat] /\ raced' \in BOOLEAN
  <2>1. /\ list' \in Seq(Clients \cup {NoClient})
        /\ erase' \in [first : Nat, end : Nat]
    BY <1>0, <1>r, RemoveMoves DEF Elements
  <2>2. raced' \in BOOLEAN
    BY <1>0, <1>r DEF RemoveNulls
  <2> QED
    BY <2>1, <2>2
<1>16. ASSUME NEW c \in Clients, MessageClient(c) PROVE TypeOK'
  <2>1. CASE c \in open
    <3>1. handlers' \in [Clients -> SUBSET Kinds]
      BY <1>0, <1>16, <2>1, PostTyping DEF MessageClient
    <3> QED
      BY <1>0, <1>16, <2>1, <3>1 DEF MessageClient
  <2>2. CASE c \notin open
    BY <1>0, <1>16, <2>2, <1>r DEF MessageClient
  <2> QED
    BY <2>1, <2>2
<1>17. ASSUME PushBack PROVE TypeOK'
  <2>1. new \in Clients
    BY <1>17, AtTyping DEF PushBack
  <2>2. list' \in Seq(Clients \cup {NoClient})
    BY <1>0, <1>17, <2>1, PushKeeps DEF PushBack, Elements
  <2>3. running' \in BOOLEAN /\ raced' \in BOOLEAN
    BY <1>0, <1>17 DEF PushBack
  <2> QED
    BY <1>0, <1>17, <2>1, <2>2, <2>3 DEF PushBack
<1>18. ASSUME ConnectToClient PROVE TypeOK'
  <2>1. /\ id' \in [Clients -> Nat] /\ handlers' \in [Clients -> SUBSET Kinds]
        /\ callbacks' \subseteq Nat \X Clients /\ timers' \subseteq Threads
    <3>1. CASE UNCHANGED <<id, handlers, callbacks, timers>>
      BY <1>0, <3>1
    <3>2. ASSUME NEW c \in Clients,
                 id' = [id EXCEPT ![c] = IDCounter],
                 handlers' = [handlers EXCEPT ![c] = @ \cup {"answer", "write"}],
                 callbacks' = {e \in callbacks : e[1] # IDCounter} \cup {<<IDCounter, c>>},
                 timers' = timers \cup
                   {[id |-> IDCounter, at |-> "sleeping", calls |-> NoClient]}
          PROVE  /\ id' \in [Clients -> Nat] /\ handlers' \in [Clients -> SUBSET Kinds]
                 /\ callbacks' \subseteq Nat \X Clients /\ timers' \subseteq Threads
      BY <1>0, <3>2 DEF Threads
    <3> QED
      BY <1>18, <3>1, <3>2, HandshakeTyping
  <2>2. running' \in BOOLEAN
    BY <1>0, <1>18 DEF ConnectToClient
  <2> QED
    BY <1>0, <1>18, <2>1, <2>2 DEF ConnectToClient
<1>19. ASSUME MessageAllClients PROVE TypeOK'
  <2>1. loop' \in [next : Nat, last : Nat, invalid : BOOLEAN]
    BY <1>0, <1>19, ListTyping DEF MessageAllClients
  <2>2. closedThen' \subseteq Clients
    BY <1>0, <1>19, ListedTyping DEF MessageAllClients
  <2> QED
    BY <1>0, <1>19, <2>1, <2>2 DEF MessageAllClients
<1>20. ASSUME VisitOpen PROVE TypeOK'
  <2>1. loop' \in [next : Nat, last : Nat, invalid : BOOLEAN]
    BY <1>0, <1>20, LoopTyping, StepTyping DEF VisitOpen
  <2>2. list[loop.next] \in Clients /\ loop.next \in 1..Len(list)
    BY <1>0, <1>20, VisitTyping DEF VisitOpen
  <2>3. handlers' \in [Clients -> SUBSET Kinds]
    BY <1>0, <1>20, <2>2, PostTyping DEF VisitOpen
  <2> QED
    BY <1>0, <1>20, <2>1, <2>3 DEF VisitOpen
<1>21. ASSUME VisitClosed PROVE TypeOK'
  <2>1. loop' \in [next : Nat, last : Nat, invalid : BOOLEAN]
    BY <1>0, <1>21, StepTyping DEF VisitClosed
  <2>2. list[loop.next] \in Clients /\ loop.next \in 1..Len(list)
        /\ list[loop.next] # NoClient
    BY <1>0, <1>21, VisitTyping DEF VisitClosed
  <2>3. reported' \subseteq Clients
    BY <1>0, <1>21, <2>2 DEF VisitClosed
  <2>4. list' \in Seq(Clients \cup {NoClient})
    BY <1>0, <1>21, <2>2, ResetKeeps DEF VisitClosed, Elements
  <2> QED
    BY <1>0, <1>21, <2>1, <2>3, <2>4 DEF VisitClosed
<1>22. ASSUME Visited PROVE TypeOK'
  <2>1. CASE loop.invalid
    BY <1>0, <1>22, <2>1, <1>r DEF Visited
  <2>2. CASE ~loop.invalid
    <3>1. loop' = Idle
      BY <1>22, <2>2 DEF Visited
    <3>2. Idle \in [next : Nat, last : Nat, invalid : BOOLEAN]
      OBVIOUS
    <3> QED
      BY <1>0, <1>22, <2>2, <3>1, <3>2 DEF Visited
  <2> QED
    BY <2>1, <2>2
<1>23. ASSUME Erase PROVE TypeOK'
  <2>1. list' \in Seq(Clients \cup {NoClient})
    BY <1>0, <1>23, EraseMoves DEF Elements
  <2>2. running' \in BOOLEAN /\ open' \subseteq Clients
    BY <1>0, <1>23 DEF Erase, PointersDrop
  <2>3. /\ loop' \in [next : Nat, last : Nat, invalid : BOOLEAN]
        /\ erase' \in [first : Nat, end : Nat] /\ closedThen' = {}
    BY <1>23 DEF Erase
  <2> QED
    BY <1>0, <1>23, <2>1, <2>2, <2>3 DEF Erase
<1>24. ASSUME Stop PROVE TypeOK'
  BY <1>24, <1>0 DEF Stop
<1>25. ASSUME Joined PROVE TypeOK'
  BY <1>25, <1>0 DEF Joined
<1> QED
  BY <1>1, <1>2, <1>3, <1>4, <1>5, <1>6, <1>7, <1>8, <1>9, <1>10, <1>11,
     <1>12, <1>13, <1>14, <1>15, <1>16, <1>17, <1>18, <1>19, <1>20, <1>21,
     <1>22, <1>23, <1>24, <1>25 DEF Next, Accept, Context, Timer, Calls, Loop

\* A new connection comes into the list once, and only what is closed leaves it,
\* or what a push_back during an erase has lost.
LEMMA ListedNext ==
  ASSUME IInv, Next
  PROVE  /\ Listed' \subseteq Listed \cup {new}
         /\ at # "approved" => Listed' \subseteq Listed
         /\ ~raced => open \cap Listed \subseteq Listed'
<1>0. TypeOK /\ Distinct /\ LoopSound
  BY DEF IInv
<1>u. ASSUME UNCHANGED list PROVE Listed' = Listed
  BY <1>u DEF Listed
<1>1. CASE Elsewhere
  BY <1>u, <1>1 DEF Elsewhere
<1>2. ASSUME NEW c \in Clients, Approve(c) PROVE Listed' = Listed
  BY <1>u, <1>2 DEF Approve
<1>3. CASE PushBack
  <2>1. new \in Clients /\ at = "approved"
    BY <1>3, AtTyping DEF PushBack
  <2>2. Listed' = Listed \cup {new}
    BY <1>0, <1>3, <2>1, PushKeeps DEF PushBack
  <2> QED
    BY <2>1, <2>2
<1>4. CASE ConnectToClient
  BY <1>u, <1>4 DEF ConnectToClient
<1>5. CASE Removes
  BY <1>0, <1>5, RemoveMoves DEF Removes
<1>6. CASE MessageAllClients
  BY <1>u, <1>6 DEF MessageAllClients
<1>7. CASE VisitOpen
  BY <1>u, <1>7 DEF VisitOpen
<1>8. CASE VisitClosed
  <2>1. Listed' = Listed \ {list[loop.next]} /\ list[loop.next] \notin open
    BY <1>0, <1>8, VisitTyping, ResetKeeps DEF VisitClosed, IsConnected
  <2> QED
    BY <2>1
<1>9. CASE Ends
  BY <1>u, <1>9 DEF Ends
<1>10. CASE Erase
  BY <1>0, <1>10, EraseMoves
<1> QED
  BY <1>1, <1>2, <1>3, <1>4, <1>5, <1>6, <1>7, <1>8, <1>9, <1>10, Steps

\* No connection comes into the list twice.
LEMMA DistinctNext ==
  ASSUME IInv, Next
  PROVE  Distinct'
<1>0. TypeOK /\ Distinct /\ LoopSound /\ Newcomer
  BY DEF IInv
<1>u. ASSUME UNCHANGED list PROVE Distinct'
  BY <1>0, <1>u DEF Distinct
<1>1. CASE Elsewhere
  BY <1>u, <1>1 DEF Elsewhere
<1>2. ASSUME NEW c \in Clients, Approve(c) PROVE Distinct'
  BY <1>u, <1>2 DEF Approve
<1>3. CASE PushBack
  <2>1. new \in Clients /\ new \notin Listed /\ new # NoClient
    BY <1>0, <1>3, AtTyping DEF PushBack, Newcomer
  <2>2. /\ Len(list) \in Nat /\ DOMAIN list = 1..Len(list)
        /\ DOMAIN list' = 1..(Len(list) + 1)
        /\ \A i \in 1..Len(list) : list'[i] = list[i]
        /\ list'[Len(list) + 1] = new
    BY <1>0, <1>3, <2>1, PushKeeps, ListTyping DEF PushBack
  <2>3. \A i \in 1..Len(list) : list[i] # new
    BY <1>0, <2>1, ListedTyping
  <2> QED
    BY <1>0, <2>2, <2>3 DEF Distinct
<1>4. CASE ConnectToClient
  BY <1>u, <1>4 DEF ConnectToClient
<1>5. CASE Removes
  BY <1>0, <1>5, RemoveMoves DEF Removes
<1>6. CASE MessageAllClients
  BY <1>u, <1>6 DEF MessageAllClients
<1>7. CASE VisitOpen
  BY <1>u, <1>7 DEF VisitOpen
<1>8. CASE VisitClosed
  <2>1. /\ DOMAIN list = 1..Len(list) /\ DOMAIN list' = 1..Len(list)
        /\ \A i \in 1..Len(list) : list'[i] = IF i = loop.next THEN NoClient ELSE list[i]
    BY <1>0, <1>8, VisitTyping, ResetKeeps, ListTyping DEF VisitClosed
  <2> QED
    BY <1>0, <2>1 DEF Distinct
<1>9. CASE Ends
  BY <1>u, <1>9 DEF Ends
<1>10. CASE Erase
  BY <1>0, <1>10, EraseMoves
<1> QED
  BY <1>1, <1>2, <1>3, <1>4, <1>5, <1>6, <1>7, <1>8, <1>9, <1>10, Steps

\* The loop, and the nulls it and remove leave behind them.
LEMMA LoopNext ==
  ASSUME IInv, Next
  PROVE  LoopSound'
<1>0. TypeOK /\ Distinct /\ LoopSound /\ Newcomer
  BY DEF IInv
<1>t. /\ Len(list) \in Nat /\ DOMAIN list = 1..Len(list)
      /\ loop.next \in Nat /\ loop.last \in Nat
      /\ erase.first \in Nat /\ erase.end \in Nat
      /\ Idle.next = 0
  BY <1>0, ListTyping DEF TypeOK, Idle
<1>1. CASE Elsewhere
  BY <1>0, <1>1 DEF Elsewhere, LoopSound
<1>2. ASSUME NEW c \in Clients, Approve(c) PROVE LoopSound'
  BY <1>0, <1>2 DEF Approve, LoopSound, loopVars, eraseVars
<1>3. CASE PushBack
  <2>1. new \in Clients /\ new # NoClient
    BY <1>3, AtTyping DEF PushBack
  <2>2. /\ DOMAIN list' = 1..(Len(list) + 1) /\ Len(list') = Len(list) + 1
        /\ \A i \in 1..Len(list) : list'[i] = list[i]
        /\ list'[Len(list) + 1] = new
    BY <1>0, <1>3, <2>1, PushKeeps DEF PushBack
  <2>3. UNCHANGED <<loop, erase>> /\ (erase # NoErase => raced')
    BY <1>3 DEF PushBack, loopVars
  <2>4. \A i \in DOMAIN list' : list'[i] = NoClient => i \in 1..Len(list) /\ list[i] = NoClient
    BY <1>t, <2>1, <2>2
  <2>5. CASE erase = NoErase
    <3>1. loop # Idle => /\ 1 <= loop.next /\ loop.next <= loop.last + 1
                         /\ loop.last <= Len(list) + 1
      BY <1>0, <1>t, <2>5 DEF LoopSound
    <3>2. \A i \in DOMAIN list' : list'[i] = NoClient => i < loop.next /\ loop.invalid
      BY <1>0, <1>t, <2>4, <2>5 DEF LoopSound
    <3> QED
      BY <2>2, <2>3, <2>5, <3>1, <3>2 DEF LoopSound
  <2>6. CASE erase # NoErase
    <3>1. loop # Idle => 1 <= loop.next /\ loop.next > loop.last
      BY <1>0, <2>6 DEF LoopSound
    <3>2. /\ 1 <= erase.first /\ erase.first <= erase.end + 1 /\ erase.end <= Len(list)
          /\ \A i \in 1..Len(list) :
                list[i] = NoClient <=> erase.first <= i /\ i <= erase.end
      BY <1>0, <1>t, <2>6 DEF LoopSound
    <3>3. \A i \in 1..(Len(list) + 1) :
            list'[i] = NoClient <=> erase.first <= i /\ i <= erase.end
      <4> SUFFICES ASSUME NEW i \in 1..(Len(list) + 1)
                   PROVE  list'[i] = NoClient <=> erase.first <= i /\ i <= erase.end
        OBVIOUS
      <4>1. CASE i \in 1..Len(list)
        BY <2>2, <3>2, <4>1
      <4>2. CASE i = Len(list) + 1
        BY <1>t, <2>1, <2>2, <3>2, <4>2
      <4> QED
        BY <1>t, <4>1, <4>2
    <3>4. erase.end <= Len(list) + 1
      BY <1>t, <3>2
    <3> QED
      BY <2>2, <2>3, <2>6, <3>1, <3>2, <3>3, <3>4 DEF LoopSound
  <2> QED
    BY <2>5, <2>6
<1>4. CASE ConnectToClient
  BY <1>0, <1>4 DEF ConnectToClient, LoopSound, loopVars, eraseVars
<1>5. CASE Removes
  <2>1. /\ DOMAIN list' = 1..Len(list) /\ Len(list') = Len(list)
        /\ erase'.first \in 1..(Len(list) + 1) /\ erase'.end = Len(list)
        /\ erase' # NoErase
        /\ \A i \in 1..Len(list) : list'[i] = NoClient <=> erase'.first <= i
    BY <1>0, <1>5, RemoveMoves DEF Removes
  <2>2. loop' = loop /\ (loop # Idle => 1 <= loop.next /\ loop.next > loop.last)
    BY <1>0, <1>5 DEF Removes, LoopSound
  <2>3. /\ 1 <= erase'.first /\ erase'.first <= Len(list) + 1 /\ erase'.first \in Nat
        /\ \A i \in 1..Len(list) : i <= Len(list)
    BY <1>t, <2>1
  <2> QED
    BY <1>t, <2>1, <2>2, <2>3 DEF LoopSound
<1>6. CASE MessageAllClients
  <2>1. /\ loop'.next = 1 /\ loop'.last = Len(list) /\ list' = list
        /\ erase' = erase /\ erase = NoErase /\ loop = Idle
    BY <1>6 DEF MessageAllClients, eraseVars, Application
  <2>2. \A i \in DOMAIN list : list[i] # NoClient
    BY <2>1, LoopTyping DEF Iterating
  <2> QED
    BY <1>t, <2>1, <2>2 DEF LoopSound
<1>7. CASE VisitOpen
  <2>1. loop'.next = loop.next + 1 /\ loop'.last = loop.last /\ loop'.invalid = loop.invalid
    BY <1>0, <1>7, LoopTyping, StepTyping DEF VisitOpen
  <2>2. /\ list' = list /\ erase' = erase /\ raced' = raced /\ erase = NoErase
        /\ loop.next <= loop.last /\ loop # Idle
    BY <1>7, VisitTyping DEF VisitOpen, eraseVars, Visiting
  <2>3. loop.last <= Len(list)
    BY <1>0, <2>2 DEF LoopSound
  <2>4. \A i \in DOMAIN list : list[i] = NoClient => i < loop.next + 1 /\ loop.invalid
    BY <1>0, <1>t, <2>2 DEF LoopSound
  <2>5. 1 <= loop.next + 1 /\ loop.next + 1 <= loop.last + 1
    BY <1>t, <2>2
  <2> QED
    BY <2>1, <2>2, <2>3, <2>4, <2>5 DEF LoopSound
<1>8. CASE VisitClosed
  <2>1. loop'.next = loop.next + 1 /\ loop'.last = loop.last /\ loop'.invalid = TRUE
    BY <1>0, <1>8, StepTyping DEF VisitClosed
  <2>2. /\ erase' = erase /\ erase = NoErase
        /\ loop.next <= loop.last /\ loop # Idle
    BY <1>8, VisitTyping DEF VisitClosed, eraseVars, Visiting
  <2>3. /\ DOMAIN list' = 1..Len(list) /\ Len(list') = Len(list)
        /\ \A i \in 1..Len(list) : list'[i] = IF i = loop.next THEN NoClient ELSE list[i]
    BY <1>0, <1>8, VisitTyping, ResetKeeps DEF VisitClosed
  <2>4. loop.last <= Len(list)
    BY <1>0, <2>2 DEF LoopSound
  <2>5. \A i \in 1..Len(list) : list[i] = NoClient => i < loop.next
    BY <1>0, <1>t, <2>2 DEF LoopSound
  <2>6. \A i \in 1..Len(list) : list'[i] = NoClient => i < loop.next + 1
    BY <1>t, <2>3, <2>5
  <2>7. 1 <= loop.next + 1 /\ loop.next + 1 <= loop.last + 1
    BY <1>t, <2>2
  <2> QED
    BY <2>1, <2>2, <2>3, <2>4, <2>6, <2>7 DEF LoopSound
<1>9. CASE Ends
  <2>1. \A i \in DOMAIN list : list[i] # NoClient
    BY <1>0, <1>9 DEF LoopSound, Ends
  <2> QED
    BY <1>9, <2>1 DEF LoopSound, Ends
<1>10. CASE Erase
  <2>1. \A i \in DOMAIN list' : list'[i] # NoClient
    BY <1>0, <1>10, EraseMoves
  <2>2. loop' = Idle /\ erase' = NoErase
    BY <1>10 DEF Erase
  <2> QED
    BY <2>1, <2>2 DEF LoopSound
<1> QED
  BY <1>1, <1>2, <1>3, <1>4, <1>5, <1>6, <1>7, <1>8, <1>9, <1>10, Steps

\* The connection in the acceptor's handler stays as it is.
LEMMA NewcomerNext ==
  ASSUME IInv, Next
  PROVE  Newcomer'
<1>0. TypeOK /\ Distinct /\ LoopSound /\ Newcomer /\ Admitted
  BY DEF IInv
<1>a. at # "idle" => new \in Clients /\ new # NoClient
  BY AtTyping
<1>t. Len(list) \in Nat /\ DOMAIN list = 1..Len(list)
      /\ (list # <<>> => Len(list) \in 1..Len(list))
  BY <1>0, ListTyping, EmptySeq
\* A step of the application between those of the handler.
<1>u. ASSUME UNCHANGED <<at, new, validated, callbacks, timers>>
      PROVE  at # "idle" => new' \in Clients /\ Untouched(new)'
  BY <1>0, <1>u DEF Newcomer, Untouched
<1>1. CASE Elsewhere
  <2>1. Listed' = Listed
    BY <1>1 DEF Elsewhere, Listed
  <2>2. UNCHANGED <<list, at, new, erase, raced>>
    BY <1>1 DEF Elsewhere
  <2> QED
    BY <1>0, <1>1, <2>1, <2>2 DEF Elsewhere, Newcomer
<1>2. ASSUME NEW c \in Clients, Approve(c) PROVE Newcomer'
  <2>1. c \notin Accepted
    BY <1>2 DEF Approve, Accepted
  <2>2. Untouched(c) /\ c \notin Listed
    BY <1>0, <2>1 DEF Admitted
  <2>3. Listed' = Listed /\ Untouched(c)'
    BY <1>2, <2>2 DEF Approve, Listed, Untouched, timerVars
  <2> QED
    BY <1>2, <2>2, <2>3 DEF Approve, Newcomer
<1>3. CASE PushBack
  <2>1. /\ list'[Len(list')] = new /\ Len(list') = Len(list) + 1
        /\ list' # <<>>
    BY <1>0, <1>a, <1>t, <1>3, PushKeeps, AppendProperties, ListTyping, EmptySeq
       DEF PushBack, Elements
  <2>2. /\ at' = "listed" /\ UNCHANGED <<new, erase, open, validated, callbacks, timers>>
        /\ raced' = (raced \/ erase # NoErase) /\ new \in open
    BY <1>0, <1>3 DEF PushBack, connectionVars, timerVars, Newcomer
  <2>3. new' \in Clients /\ Untouched(new)'
    BY <1>0, <1>3, <2>2 DEF Newcomer, Untouched, PushBack
  <2> QED
    BY <2>1, <2>2, <2>3 DEF Newcomer
<1>4. CASE ConnectToClient
  BY <1>4 DEF ConnectToClient, Newcomer
<1>5. CASE Removes
  <2>1. Listed' = Listed /\ raced' = (raced \/ at = "listed")
    BY <1>0, <1>5, RemoveMoves DEF Removes, RemoveNulls
  <2>2. UNCHANGED <<at, new, open, validated, callbacks, timers>>
    BY <1>5 DEF Removes, Others
  <2> QED
    BY <1>0, <1>u, <2>1, <2>2 DEF Newcomer
<1>6. CASE MessageAllClients
  <2>1. UNCHANGED <<at, new, open, list, erase, raced, validated, callbacks, timers>>
    BY <1>6 DEF MessageAllClients, contextVars, connectionVars, timerVars, eraseVars
  <2>2. Listed' = Listed
    BY <2>1 DEF Listed
  <2> QED
    BY <1>0, <1>u, <2>1, <2>2 DEF Newcomer
<1>7. CASE VisitOpen
  <2>1. UNCHANGED <<at, new, open, list, erase, raced, validated, callbacks, timers>>
    BY <1>7 DEF VisitOpen, contextVars, timerVars, eraseVars
  <2>2. Listed' = Listed
    BY <2>1 DEF Listed
  <2> QED
    BY <1>0, <1>u, <2>1, <2>2 DEF Newcomer
<1>8. CASE VisitClosed
  <2>1. UNCHANGED <<at, new, open, erase, raced, validated, callbacks, timers>>
    BY <1>8 DEF VisitClosed, contextVars, connectionVars, timerVars, eraseVars
  <2>2. /\ Listed' \subseteq Listed /\ Len(list') = Len(list)
        /\ \A i \in 1..Len(list) : list'[i] = IF i = loop.next THEN NoClient ELSE list[i]
        /\ list' \in Seq(Elements)
    BY <1>0, <1>8, VisitTyping, ResetKeeps DEF VisitClosed
  <2>3. at = "listed" /\ ~raced => list' # <<>> /\ list'[Len(list')] = new
    <3> SUFFICES ASSUME at = "listed", ~raced
                 PROVE  list' # <<>> /\ list'[Len(list')] = new
      OBVIOUS
    <3>1. new \in open /\ list # <<>> /\ list[Len(list)] = new
      BY <1>0 DEF Newcomer
    <3>2. list[loop.next] # new
      BY <1>8, <3>1 DEF VisitClosed, IsConnected
    <3>3. Len(list) # 0
      BY <1>t, <3>1
    <3> QED
      BY <1>t, <2>2, <3>1, <3>2, <3>3, EmptySeq
  <2> QED
    BY <1>0, <1>u, <2>1, <2>2, <2>3 DEF Newcomer
<1>9. CASE Ends
  <2>1. UNCHANGED <<at, new, open, list, erase, raced, validated, callbacks, timers>>
    BY <1>9 DEF Ends, Others
  <2>2. Listed' = Listed
    BY <2>1 DEF Listed
  <2> QED
    BY <1>0, <1>u, <2>1, <2>2 DEF Newcomer
<1>10. CASE Erase
  <2>1. /\ UNCHANGED <<at, new, raced, validated, callbacks, timers>>
        /\ erase # NoErase /\ open' = open \cap Owned'
    BY <1>10 DEF Erase, contextVars, timerVars, PointersDrop
  <2>2. Listed' \subseteq Listed
    BY <1>0, <1>10, EraseMoves
  <2>3. at = "approved" => new \in Owned'
    BY <1>a, <2>1 DEF Owned
  <2> QED
    BY <1>0, <1>u, <2>1, <2>2, <2>3 DEF Newcomer
<1> QED
  BY <1>1, <1>2, <1>3, <1>4, <1>5, <1>6, <1>7, <1>8, <1>9, <1>10, Steps

\* Ids go up.
LEMMA IdsNext ==
  ASSUME IInv, Next
  PROVE  IdsGiven' /\ IdsTellApart'
<1>0. TypeOK /\ IdsGiven /\ IdsTellApart /\ Newcomer
  BY DEF IInv
<1>u. ASSUME UNCHANGED <<id, IDCounter, new>>, Listed' \subseteq Listed \cup {new},
             raced => raced'
      PROVE  IdsGiven' /\ IdsTellApart'
  BY <1>0, <1>u DEF IdsGiven, IdsTellApart
<1>1. CASE Elsewhere
  BY <1>u, <1>1, ListedNext DEF Elsewhere
<1>2. ASSUME NEW c \in Clients, Approve(c) PROVE IdsGiven' /\ IdsTellApart'
  <2>1. Listed' = Listed /\ UNCHANGED <<id, IDCounter, raced>>
    BY <1>2 DEF Approve, Listed, eraseVars
  <2>2. new = NoClient /\ NoClient \notin Listed
    BY <1>0, <1>2 DEF Approve, Takes, Newcomer, Listed
  <2> QED
    BY <1>0, <2>1, <2>2 DEF IdsGiven, IdsTellApart
<1>3. CASE PushBack
  BY <1>u, <1>3, ListedNext DEF PushBack
<1>4. CASE ConnectToClient
  <2>1. IDCounter' = IDCounter + 1 /\ raced' = raced /\ Listed' = Listed
    BY <1>4 DEF ConnectToClient, NextId, eraseVars, Listed
  <2>2. id \in [Clients -> Nat] /\ IDCounter \in Nat /\ Listed \subseteq Clients
    BY <1>0, ListedTyping DEF TypeOK
  <2>3. CASE UNCHANGED id /\ raced
    BY <1>0, <2>1, <2>2, <2>3 DEF IdsGiven, IdsTellApart
  <2>4. ASSUME NEW c \in Clients, ~raced => c = new, id' = [id EXCEPT ![c] = IDCounter]
        PROVE  IdsGiven' /\ IdsTellApart'
    <3>1. \A d \in Clients : id'[d] = IF d = c THEN IDCounter ELSE id[d]
      BY <2>2, <2>4
    <3>2. \A d \in Clients : id[d] # IDCounter /\ id[d] < IDCounter
      BY <1>0, <2>2 DEF IdsGiven
    <3>3. IdsGiven'
      BY <1>0, <2>1, <2>2, <3>1, <3>2 DEF IdsGiven
    <3>4. \A d, e \in Clients : d # e /\ id'[d] = id'[e] => id'[d] = 0
      BY <1>0, <3>1, <3>2 DEF IdsTellApart
    <3>5. ~raced => \A d \in Listed : id'[d] # 0
      BY <1>0, <2>2, <2>4, <3>1 DEF IdsGiven, IdsTellApart
    <3> QED
      BY <2>1, <3>3, <3>4, <3>5 DEF IdsTellApart
  <2> QED
    BY <1>4, <2>3, <2>4, HandshakeTyping
<1>5. CASE Removes
  BY <1>u, <1>5, ListedNext DEF Removes, RemoveNulls, Others
<1>6. CASE MessageAllClients
  BY <1>u, <1>6, ListedNext DEF MessageAllClients, contextVars, eraseVars
<1>7. CASE VisitOpen
  BY <1>u, <1>7, ListedNext DEF VisitOpen, contextVars, eraseVars
<1>8. CASE VisitClosed
  BY <1>u, <1>8, ListedNext DEF VisitClosed, contextVars, eraseVars
<1>9. CASE Ends
  BY <1>u, <1>9, ListedNext DEF Ends, Others
<1>10. CASE Erase
  BY <1>u, <1>10, ListedNext DEF Erase, contextVars
<1> QED
  BY <1>1, <1>2, <1>3, <1>4, <1>5, <1>6, <1>7, <1>8, <1>9, <1>10, Steps

\* Only closed connections are reported, and they stay closed.
LEMMA ReportedNext ==
  ASSUME IInv, Next
  PROVE  ReportedAreClosed'
<1> USE DEF ReportedAreClosed
<1>0. TypeOK /\ ReportedAreClosed /\ Admitted
  BY DEF IInv
<1>1. CASE Elsewhere
  BY <1>0, <1>1 DEF Elsewhere
<1>2. ASSUME NEW c \in Clients, Approve(c) PROVE ReportedAreClosed'
  <2>1. c \notin Accepted
    BY <1>2 DEF Approve, Accepted
  <2> QED
    BY <1>0, <1>2, <2>1 DEF Approve, Admitted, loopVars
<1>3. CASE PushBack
  BY <1>0, <1>3 DEF PushBack, connectionVars, loopVars
<1>4. CASE ConnectToClient
  BY <1>0, <1>4 DEF ConnectToClient, loopVars
<1>5. CASE Removes
  BY <1>0, <1>5 DEF Removes
<1>6. CASE MessageAllClients
  BY <1>0, <1>6 DEF MessageAllClients, connectionVars
<1>7. CASE VisitOpen
  BY <1>0, <1>7 DEF VisitOpen
<1>8. CASE VisitClosed
  BY <1>0, <1>8 DEF VisitClosed, connectionVars, IsConnected
<1>9. CASE Ends
  BY <1>0, <1>9 DEF Ends
<1>10. CASE Erase
  BY <1>0, <1>10 DEF Erase, PointersDrop
<1> QED
  BY <1>1, <1>2, <1>3, <1>4, <1>5, <1>6, <1>7, <1>8, <1>9, <1>10, Steps

\* The loop passes none of the closed by.
LEMMA CleanedNext ==
  ASSUME IInv, Next
  PROVE  CleanedOrAhead'
<1>0. TypeOK /\ CleanedOrAhead /\ Distinct /\ LoopSound
  BY DEF IInv
<1>t. /\ loop.next \in Nat /\ loop.last \in Nat /\ Len(list) \in Nat
      /\ DOMAIN list = 1..Len(list)
  BY <1>0, ListTyping, LoopTyping
<1>u. ASSUME UNCHANGED <<list, loop, closedThen, reported>>
      PROVE  CleanedOrAhead'
  <2>1. Listed' = Listed
    BY <1>u DEF Listed
  <2> QED
    BY <1>0, <1>u, <2>1 DEF CleanedOrAhead
<1>1. CASE Elsewhere
  BY <1>u, <1>1 DEF Elsewhere
<1>2. ASSUME NEW c \in Clients, Approve(c) PROVE CleanedOrAhead'
  BY <1>u, <1>2 DEF Approve, loopVars
<1>3. CASE PushBack
  <2>1. new \in Clients /\ new \in open
    BY <1>3, AtTyping DEF PushBack, IInv, Newcomer
  <2>2. /\ Listed' = Listed \cup {new}
        /\ \A i \in 1..Len(list) : list'[i] = list[i]
    BY <1>0, <2>1, <1>3, PushKeeps DEF PushBack
  <2>3. UNCHANGED <<loop, closedThen, reported>>
    BY <1>3 DEF PushBack, loopVars
  <2> SUFFICES ASSUME loop # Idle, NEW c \in closedThen
               PROVE  \/ c \in reported \ Listed'
                      \/ \E i \in loop.next..loop.last : list'[i] = c
    BY <2>3 DEF CleanedOrAhead
  <2>4. c # new
    BY <2>1 DEF IInv, ReportedAreClosed
  <2>5. loop.next..loop.last \subseteq 1..Len(list)
    <3>1. CASE erase = NoErase
      BY <1>0, <1>t, <3>1 DEF LoopSound
    <3>2. CASE erase # NoErase
      <4>1. loop.next > loop.last
        BY <1>0, <3>2 DEF LoopSound
      <4> QED
        BY <1>t, <4>1
    <3> QED
      BY <3>1, <3>2
  <2> QED
    BY <1>0, <2>2, <2>4, <2>5 DEF CleanedOrAhead
<1>4. CASE ConnectToClient
  BY <1>u, <1>4 DEF ConnectToClient, loopVars
<1>5. CASE Removes
  <2>1. Listed' = Listed
    BY <1>0, <1>5, RemoveMoves DEF Removes
  <2>2. UNCHANGED <<loop, closedThen>> /\ reported \subseteq reported'
    BY <1>5 DEF Removes
  <2>3. loop # Idle => loop.next..loop.last = {}
    BY <1>t, <1>5 DEF Removes
  <2> QED
    BY <1>0, <2>1, <2>2, <2>3 DEF CleanedOrAhead
<1>6. CASE MessageAllClients
  <2>1. loop'.next = 1 /\ loop'.last = Len(list) /\ list' = list
        /\ closedThen' \subseteq Listed
    BY <1>6 DEF MessageAllClients
  <2>2. \A c \in Listed : \E i \in 1..Len(list) : list[i] = c
    BY <1>0, ListedTyping
  <2> QED
    BY <2>1, <2>2 DEF CleanedOrAhead
<1>7. CASE VisitOpen
  <2>1. loop'.next = loop.next + 1 /\ loop'.last = loop.last
    BY <1>0, <1>7, LoopTyping, StepTyping DEF VisitOpen
  <2>2. loop # Idle /\ closedThen' = closedThen
    BY <1>7 DEF VisitOpen, Visiting
  <2>3. UNCHANGED <<list, reported>> /\ Listed' = Listed
    BY <1>7 DEF VisitOpen, Listed
  <2>4. list[loop.next] \notin closedThen
    BY <1>7 DEF VisitOpen, IsConnected, IInv, ReportedAreClosed
  <2> SUFFICES ASSUME NEW c \in closedThen
               PROVE  \/ c \in reported \ Listed
                      \/ \E i \in (loop.next + 1)..loop.last : list[i] = c
    BY <2>1, <2>2, <2>3 DEF CleanedOrAhead
  <2>5. \/ c \in reported \ Listed
        \/ \E i \in loop.next..loop.last : list[i] = c /\ i # loop.next
    BY <1>0, <2>2, <2>4 DEF CleanedOrAhead
  <2> QED
    BY <1>t, <2>5
<1>8. CASE VisitClosed
  <2>1. loop'.next = loop.next + 1 /\ loop'.last = loop.last
    BY <1>0, <1>8, StepTyping DEF VisitClosed
  <2>2. loop # Idle /\ closedThen' = closedThen /\ erase = NoErase
    BY <1>8, VisitTyping DEF VisitClosed, Visiting
  <2>3. /\ reported' = reported \cup {list[loop.next]}
        /\ Listed' = Listed \ {list[loop.next]}
        /\ \A i \in 1..Len(list) : list'[i] = IF i = loop.next THEN NoClient ELSE list[i]
    BY <1>0, <1>8, VisitTyping, ResetKeeps DEF VisitClosed
  <2>4. loop.next..loop.last \subseteq 1..Len(list)
    BY <1>0, <1>t, <2>2 DEF LoopSound
  <2> SUFFICES ASSUME NEW c \in closedThen
               PROVE  \/ c \in reported' \ Listed'
                      \/ \E i \in (loop.next + 1)..loop.last : list'[i] = c
    BY <2>1, <2>2 DEF CleanedOrAhead
  <2>5. CASE c = list[loop.next]
    BY <2>3, <2>5
  <2>6. CASE c # list[loop.next]
    <3>1. \/ c \in reported \ Listed
          \/ \E i \in loop.next..loop.last : list[i] = c /\ i # loop.next
      BY <1>0, <2>2, <2>6 DEF CleanedOrAhead
    <3>2. ASSUME NEW i \in loop.next..loop.last, list[i] = c, i # loop.next
          PROVE  i \in (loop.next + 1)..loop.last /\ list'[i] = c
      BY <1>t, <2>3, <2>4, <3>2
    <3> QED
      BY <2>3, <3>1, <3>2
  <2> QED
    BY <2>5, <2>6
<1>9. CASE Ends
  BY <1>9 DEF Ends, CleanedOrAhead
<1>10. CASE Erase
  BY <1>10 DEF Erase, CleanedOrAhead
<1> QED
  BY <1>1, <1>2, <1>3, <1>4, <1>5, <1>6, <1>7, <1>8, <1>9, <1>10, Steps

\* The acceptor's handler puts the one new callback in, under the id it gives.
LEMMA CallbacksNext ==
  ASSUME IInv, Next
  PROVE  CallbacksOwn'
<1> USE DEF CallbacksOwn
<1>0. TypeOK /\ CallbacksOwn /\ Newcomer
  BY DEF IInv
<1>u. ASSUME UNCHANGED <<id, callbacks, validated>>, raced => raced'
      PROVE  CallbacksOwn'
  BY <1>0, <1>u
<1>1. CASE Elsewhere
  BY <1>0, <1>1 DEF Elsewhere
<1>2. ASSUME NEW c \in Clients, Approve(c) PROVE CallbacksOwn'
  BY <1>u, <1>2 DEF Approve, timerVars, eraseVars
<1>3. CASE PushBack
  BY <1>u, <1>3 DEF PushBack, timerVars, connectionVars
<1>4. CASE ConnectToClient
  <2>1. raced' = raced /\ validated' = validated
    BY <1>4 DEF ConnectToClient, eraseVars
  <2>2. CASE raced
    BY <2>1, <2>2
  <2>3. CASE ~raced
    <3>1. /\ new \in Clients
          /\ id' = [id EXCEPT ![new] = IDCounter]
          /\ callbacks' = {e \in callbacks : e[1] # IDCounter} \cup {<<IDCounter, new>>}
      BY <1>4, <2>3, HandshakeTyping
    <3>2. new \notin validated /\ \A e \in callbacks : e[2] # new
      BY <1>0, <1>4 DEF Newcomer, Untouched, ConnectToClient
    <3>3. id' \in [Clients -> Nat] /\ id'[new] = IDCounter
          /\ \A e \in callbacks : id'[e[2]] = id[e[2]]
      BY <1>0, <3>1, <3>2 DEF TypeOK
    <3> QED
      BY <1>0, <2>1, <2>3, <3>1, <3>2, <3>3
  <2> QED
    BY <2>2, <2>3
<1>5. CASE Removes
  BY <1>u, <1>5 DEF Removes, RemoveNulls, Others
<1>6. CASE MessageAllClients
  BY <1>u, <1>6 DEF MessageAllClients, contextVars, connectionVars, timerVars, eraseVars
<1>7. CASE VisitOpen
  BY <1>u, <1>7 DEF VisitOpen, contextVars, timerVars, eraseVars
<1>8. CASE VisitClosed
  BY <1>u, <1>8 DEF VisitClosed, contextVars, connectionVars, timerVars, eraseVars
<1>9. CASE Ends
  BY <1>u, <1>9 DEF Ends, Others
<1>10. CASE Erase
  BY <1>u, <1>10 DEF Erase, contextVars, timerVars
<1> QED
  BY <1>1, <1>2, <1>3, <1>4, <1>5, <1>6, <1>7, <1>8, <1>9, <1>10, Steps

\* Nothing is noted of a client before it is accepted.
LEMMA AdmittedNext ==
  ASSUME IInv, Next
  PROVE  Admitted'
<1> DEFINE Known(c) == handlers[c] # {} \/ ~Untouched(c)
<1>0. Admitted /\ TypeOK
  BY DEF IInv
\* A step that notes nothing new, in the list least of all.
<1>u. ASSUME Accepted' = Accepted,
             open' \subseteq open, held' \subseteq Accepted, reported' \subseteq Accepted,
             closedThen' \subseteq Accepted,
             \A c \in Clients : Known(c)' => c \in Accepted
      PROVE  Admitted'
  <2>1. at = "approved" => new \in Accepted
    BY <1>0 DEF IInv, Newcomer, Admitted
  <2>2. Listed' \subseteq Accepted
    <3>1. CASE at = "approved"
      BY <1>0, <2>1, <3>1, ListedNext DEF Admitted
    <3>2. CASE at # "approved"
      BY <1>0, <3>2, ListedNext DEF Admitted
    <3> QED
      BY <3>1, <3>2
  <2> QED
    BY <1>0, <1>u, <2>2 DEF Admitted
<1>k. \A c \in Clients : Known(c) => c \in Accepted
  BY <1>0 DEF Admitted
<1>s. ASSUME UNCHANGED <<handlers, validated, callbacks, timers>>
      PROVE  \A c \in Clients : Known(c)' => c \in Accepted
  BY <1>k, <1>s DEF Untouched
\* Handlers of one client more.
<1>h. ASSUME NEW d \in Accepted, UNCHANGED <<validated, callbacks, timers>>,
             \A c \in Clients : c # d => handlers'[c] = handlers[c]
      PROVE  \A c \in Clients : Known(c)' => c \in Accepted
  BY <1>k, <1>h DEF Untouched
\* Threads that have come to know of one client more, or of none.
<1>c. ASSUME NEW d, d \in Clients => d \in Accepted,
             UNCHANGED <<handlers, validated>>, callbacks' \subseteq callbacks,
             \A t \in timers' : t \in timers \/ t.calls = d
      PROVE  \A c \in Clients : Known(c)' => c \in Accepted
  BY <1>k, <1>c DEF Untouched
<1> HIDE DEF Known
<1> USE DEF contextVars, connectionVars, timerVars, loopVars, eraseVars, Takes, Runs
<1>1. ASSUME NEW c \in Clients, Arrive(c) PROVE Admitted'
  <2>1. Accepted' = Accepted
    BY <1>0, <1>1 DEF Arrive, Accepted, TypeOK
  <2> QED
    BY <1>0, <1>1, <1>u, <1>s, <2>1 DEF Arrive, Admitted
<1>2. ASSUME NEW c \in Clients, Leave(c) PROVE Admitted'
  <2>1. Accepted' = Accepted
    BY <1>0, <1>2 DEF Leave, Accepted, TypeOK
  <2> QED
    BY <1>0, <1>2, <1>u, <1>s, <2>1 DEF Leave, Admitted
<1>3. ASSUME NEW c \in Clients, EndpointThrows(c) PROVE Admitted'
  BY <1>0, <1>3, <1>u, <1>s DEF EndpointThrows, Admitted, Accepted
<1>4. ASSUME NEW c \in Clients, Approve(c) PROVE Admitted'
  <2>1. Accepted' = Accepted \cup {c}
    BY <1>0, <1>4 DEF Approve, Accepted, TypeOK
  <2>2. Listed' = Listed
    BY <1>4 DEF Approve, Listed
  <2>3. \A d \in Clients : handlers'[d] # {} \/ ~Untouched(d)' => d \in Accepted
    BY <1>4, <1>s DEF Approve, Known
  <2> QED
    BY <1>0, <1>4, <2>1, <2>2, <2>3 DEF Approve, Admitted
<1>5. ASSUME NEW c \in Clients, Deny(c) PROVE Admitted'
  <2>1. Accepted' = Accepted
    BY <1>0, <1>5 DEF Deny, Accepted, TypeOK
  <2> QED
    BY <1>0, <1>5, <1>u, <1>s, <2>1 DEF Deny, Admitted
<1>6. ASSUME NEW c \in Clients, Validate(c) PROVE Admitted'
  <2>1. c \in Accepted
    BY <1>k, <1>6 DEF Validate, Known
  <2>2. \A d \in Clients : Known(d)' => Known(d) \/ d = c
    BY <1>0, <1>6 DEF Validate, RemoveTimer, Known, Untouched, TypeOK
  <2> QED
    BY <1>0, <1>6, <1>u, <1>k, <2>1, <2>2 DEF Validate, Admitted, Accepted
<1>7. ASSUME NEW c \in Clients, MessageRead(c) PROVE Admitted'
  <2>1. c \in Accepted
    BY <1>k, <1>7 DEF MessageRead, Known
  <2> QED
    BY <1>0, <1>7, <1>u, <1>s, <2>1 DEF MessageRead, Admitted, Accepted
<1>8. ASSUME NEW c \in Clients, Close(c) PROVE Admitted'
  <2>1. c \in Accepted
    BY <1>k, <1>8 DEF Close, Known
  <2>2. \A d \in Clients : d # c => handlers'[d] = handlers[d]
    BY <1>0, <1>8 DEF Close, Without, TypeOK
  <2>3. /\ UNCHANGED <<visit, held, reported, closedThen, validated, callbacks, timers>>
        /\ open' \subseteq open
    BY <1>8 DEF Close
  <2> QED
    BY <1>0, <1>u, <1>h, <2>1, <2>2, <2>3 DEF Admitted, Accepted
<1>9. ASSUME NEW c \in Clients, Written(c) PROVE Admitted'
  <2>1. c \in Accepted
    BY <1>k, <1>9 DEF Written, Known
  <2>2. \A d \in Clients : d # c => handlers'[d] = handlers[d]
    BY <1>0, <1>9 DEF Written, Without, TypeOK
  <2>3. UNCHANGED <<visit, open, held, reported, closedThen, validated, callbacks, timers>>
    BY <1>9 DEF Written
  <2> QED
    BY <1>0, <1>u, <1>h, <2>1, <2>2, <2>3 DEF Admitted, Accepted
<1>n. NoClient \in Clients => NoClient \in Accepted
  BY ClientsAssumption
<1>10. ASSUME NEW t \in timers, TimerWakes(t) PROVE Admitted'
  <2>1. \A u \in timers' : u \in timers \/ u.calls = NoClient
    BY <1>10, TimerTyping DEF TimerWakes
  <2> QED
    BY <1>0, <1>10, <1>u, <1>c, <1>n, <2>1 DEF TimerWakes, Admitted, Accepted
<1>11. ASSUME NEW t \in timers, TimerLooks(t) PROVE Admitted'
  <2>1. PICK c \in Clients \cup {NoClient} :
          /\ \/ TimerGoes(t, "found", "calling", c)
             \/ TimerEnds(t, "found")
          /\ c # NoClient => \E e \in callbacks : e[2] = c
    <3>1. CASE \E e \in Entries(t) : TimerGoes(t, "found", "calling", e[2])
      <4>1. PICK e \in Entries(t) : TimerGoes(t, "found", "calling", e[2])
        BY <3>1
      <4>2. e \in callbacks /\ e[2] \in Clients
        BY <1>0, <4>1 DEF Entries, TypeOK
      <4> QED
        BY <4>1, <4>2
    <3>2. CASE TimerEnds(t, "found")
      BY <3>2
    <3> QED
      BY <1>11, <3>1, <3>2 DEF TimerLooks
  <2>2. \A u \in timers' : u \in timers \/ u.calls = c
    BY <2>1, TimerTyping
  <2>3. c \in Clients => c \in Accepted
    BY <1>k, <2>1, ClientsAssumption DEF Known, Untouched
  <2> QED
    BY <1>0, <1>11, <1>u, <1>c, <2>2, <2>3 DEF TimerLooks, Admitted, Accepted
<1>12. ASSUME NEW t \in timers, TimerCalls(t) PROVE Admitted'
  <2>1. t.calls \in Clients \cup {NoClient}
    BY <1>0 DEF TypeOK, Threads
  <2>2. \A u \in timers' : u \in timers \/ u.calls = t.calls
    BY <1>12, <2>1, TimerTyping DEF TimerCalls
  <2>3. t.calls \in Clients => t.calls \in Accepted
    BY <1>k DEF Known, Untouched
  <2>4. /\ UNCHANGED <<visit, held, reported, closedThen, validated, callbacks, handlers>>
        /\ open' \subseteq open
    BY <1>12 DEF TimerCalls
  <2> QED
    BY <1>0, <1>u, <1>c, <2>2, <2>3, <2>4 DEF Admitted, Accepted
<1>13. ASSUME NEW t \in timers, TimerErases(t) PROVE Admitted'
  <2>1. \A u \in timers' : u \in timers \/ u.calls = NoClient
    BY <1>13 DEF TimerErases, TimerEnds
  <2> QED
    BY <1>0, <1>13, <1>u, <1>c, <1>n, <2>1 DEF TimerErases, Admitted, Accepted
<1>14. ASSUME NEW c \in Clients, Hold(c) PROVE Admitted'
  BY <1>0, <1>14, <1>u, <1>s DEF Hold, Admitted, Accepted
<1>15. ASSUME NEW c \in Clients, Release(c) PROVE Admitted'
  BY <1>0, <1>15, <1>u, <1>s DEF Release, Admitted, Accepted, PointersDrop
<1>16. ASSUME NEW c \in Clients, MessageClient(c) PROVE Admitted'
  <2>1. c \in Accepted
    BY <1>0, <1>16 DEF MessageClient, Admitted
  <2>2. UNCHANGED <<visit, open, held, closedThen, validated, callbacks, timers>>
    BY <1>16 DEF MessageClient
  <2>3. CASE c \in open
    <3>1. \A d \in Clients : d # c => handlers'[d] = handlers[d]
      BY <1>0, <1>16, <2>3, PostTyping DEF MessageClient, Kinds
    <3> QED
      BY <1>0, <1>16, <1>u, <1>h, <2>1, <2>2, <2>3, <3>1
         DEF MessageClient, Admitted, Accepted
  <2>4. CASE c \notin open
    BY <1>0, <1>16, <1>u, <1>s, <2>1, <2>2, <2>4 DEF MessageClient, Admitted, Accepted
  <2> QED
    BY <2>3, <2>4
<1>17. ASSUME PushBack PROVE Admitted'
  BY <1>0, <1>17, <1>u, <1>s DEF PushBack, Admitted, Accepted
<1>18. ASSUME ConnectToClient PROVE Admitted'
  <2>1. UNCHANGED <<visit, open, held, reported, closedThen, validated>>
    BY <1>18 DEF ConnectToClient
  <2>2. CASE UNCHANGED <<id, handlers, callbacks, timers>>
    BY <1>0, <1>u, <1>s, <2>1, <2>2 DEF Admitted, Accepted
  <2>3. ASSUME NEW c \in Clients, c \in Listed,
               handlers' = [handlers EXCEPT ![c] = @ \cup {"answer", "write"}],
               callbacks' = {e \in callbacks : e[1] # IDCounter} \cup {<<IDCounter, c>>},
               timers' = timers \cup
                   {[id |-> IDCounter, at |-> "sleeping", calls |-> NoClient]}
        PROVE  Admitted'
    <3>1. c \in Accepted
      BY <1>0, <2>3 DEF Admitted
    <3>2. \A d \in Clients : Known(d)' => Known(d) \/ d = c
      <4>1. \A d \in Clients : d # c => handlers'[d] = handlers[d]
        BY <1>0, <2>3 DEF TypeOK
      <4>2. \A e \in callbacks' : e \in callbacks \/ e[2] = c
        BY <2>3
      <4>3. \A t \in timers' : t \in timers \/ t.calls = NoClient
        BY <2>3
      <4> QED
        BY <2>1, <4>1, <4>2, <4>3, ClientsAssumption DEF Known, Untouched
    <3> QED
      BY <1>0, <1>u, <1>k, <2>1, <3>1, <3>2 DEF Admitted, Accepted
  <2> QED
    BY <1>18, <2>2, <2>3, HandshakeTyping
<1>19. ASSUME MessageAllClients PROVE Admitted'
  BY <1>0, <1>19, <1>u, <1>s DEF MessageAllClients, Admitted, Accepted
<1>20. ASSUME VisitOpen PROVE Admitted'
  <2>1. list[loop.next] \in Accepted /\ list[loop.next] \in Clients
    BY <1>0, <1>20, VisitTyping DEF VisitOpen, Admitted
  <2>2. UNCHANGED <<visit, open, held, validated, reported, closedThen, callbacks, timers>>
    BY <1>20 DEF VisitOpen
  <2>3. \A c \in Clients : c # list[loop.next] => handlers'[c] = handlers[c]
    BY <1>0, <1>20, <2>1, PostTyping DEF VisitOpen, Kinds
  <2> QED
    BY <1>0, <1>u, <1>h, <2>1, <2>2, <2>3 DEF Admitted, Accepted
<1>21. ASSUME VisitClosed PROVE Admitted'
  <2>1. list[loop.next] \in Accepted
    BY <1>0, <1>21, VisitTyping DEF VisitClosed, Admitted
  <2> QED
    BY <1>0, <1>21, <1>u, <1>s, <2>1 DEF VisitClosed, Admitted, Accepted
<1>22. ASSUME Visited PROVE Admitted'
  <2>1. closedThen' \subseteq closedThen
    BY <1>22 DEF Visited
  <2> QED
    BY <1>0, <1>22, <1>u, <1>s, <2>1 DEF Visited, Admitted, Accepted
<1>23. ASSUME Erase PROVE Admitted'
  BY <1>0, <1>23, <1>u, <1>s DEF Erase, Admitted, Accepted, PointersDrop
<1>24. ASSUME Stop PROVE Admitted'
  BY <1>0, <1>24, <1>u, <1>s DEF Stop, Admitted, Accepted
<1>25. ASSUME Joined PROVE Admitted'
  BY <1>0, <1>25, <1>u, <1>s DEF Joined, Admitted, Accepted
<1> QED
  BY <1>1, <1>2, <1>3, <1>4, <1>5, <1>6, <1>7, <1>8, <1>9, <1>10, <1>11,
     <1>12, <1>13, <1>14, <1>15, <1>16, <1>17, <1>18, <1>19, <1>20, <1>21,
     <1>22, <1>23, <1>24, <1>25 DEF Next, Accept, Context, Timer, Calls, Loop

--------------------------------------------------------------------------------
(* The theorems. *)

\* The invariant holds of a server that was started.
LEMMA IInvInit == Init => IInv
<1> SUFFICES ASSUME Init PROVE IInv
  OBVIOUS
<1> USE DEF Init
<1>1. list = <<>> /\ Len(list) = 0 /\ DOMAIN list = {} /\ Listed = {}
  BY EmptySeq DEF Listed
<1>2. TypeOK
  BY ClientsAssumption, EmptySeq DEF TypeOK, Idle, NoErase
<1>3. Admitted /\ Newcomer /\ LoopSound /\ Distinct
  BY <1>1 DEF Admitted, Newcomer, LoopSound, Distinct, Untouched, Idle
<1>4. IdsGiven /\ IdsTellApart /\ ReportedAreClosed /\ CleanedOrAhead /\ CallbacksOwn
  BY <1>1 DEF IdsGiven, IdsTellApart, ReportedAreClosed, CleanedOrAhead, CallbacksOwn
<1> QED
  BY <1>2, <1>3, <1>4 DEF IInv

\* A stutter changes nothing the invariant reads.
LEMMA IInvStutter ==
  ASSUME IInv, UNCHANGED vars
  PROVE  IInv'
<1>1. UNCHANGED <<server, running, list, held, reported, armed, at, new, visit, id,
                  IDCounter, open, handlers, validated, callbacks, timers, loop,
                  closedThen, erase, raced>>
  BY DEF vars, contextVars, connectionVars, timerVars, loopVars, eraseVars
<1>2. Listed' = Listed /\ Accepted' = Accepted /\ \A c : Untouched(c)' <=> Untouched(c)
  BY <1>1 DEF Listed, Accepted, Untouched
<1>3. TypeOK'
  BY <1>1 DEF IInv, TypeOK
<1>4. Admitted'
  BY <1>1, <1>2 DEF IInv, Admitted
<1>5. Newcomer' /\ LoopSound' /\ Distinct'
  BY <1>1, <1>2 DEF IInv, Newcomer, LoopSound, Distinct
<1>6. IdsGiven' /\ IdsTellApart'
  BY <1>1, <1>2 DEF IInv, IdsGiven, IdsTellApart
<1>7. ReportedAreClosed' /\ CleanedOrAhead' /\ CallbacksOwn'
  BY <1>1, <1>2 DEF IInv, ReportedAreClosed, CleanedOrAhead, CallbacksOwn
<1> QED
  BY <1>3, <1>4, <1>5, <1>6, <1>7 DEF IInv

(***************************************************************************)
(* The inductive invariant: what the acceptor's handler and the calls of   *)
(* the application know of the list, wherever each of them is.             *)
(***************************************************************************)
THEOREM ServerCorrect == Spec => []IInv
<1>1. Init => IInv
  BY IInvInit
<1>2. IInv /\ [Next]_vars => IInv'
  <2> SUFFICES ASSUME IInv, [Next]_vars PROVE IInv'
    OBVIOUS
  <2>1. CASE Next
    BY <2>1, TypeNext, AdmittedNext, NewcomerNext, LoopNext, DistinctNext,
       IdsNext, ReportedNext, CleanedNext, CallbacksNext DEF IInv
  <2>2. CASE UNCHANGED vars
    BY <2>2, IInvStutter
  <2> QED
    BY <2>1, <2>2
<1> QED
  BY <1>1, <1>2, PTL DEF Spec

\* Every variable of the server has its type.
THEOREM TypeCorrect == Spec => []TypeOK
<1>1. IInv => TypeOK
  BY DEF IInv
<1> QED
  BY <1>1, ServerCorrect, PTL

(***************************************************************************)
(* The list under its two writers: null elements during a call only, no    *)
(* connection twice, and back() is the connection just pushed, unless      *)
(* that fell between remove and erase.                                     *)
(***************************************************************************)
THEOREM ListIsSound == Spec => []ListSound
<1>1. IInv => ListSound
  <2> SUFFICES ASSUME IInv PROVE ListSound
    OBVIOUS
  <2>1. ~Iterating => NoClient \notin Range(list)
    BY LoopTyping DEF Range
  <2>2. at = "listed" /\ ~raced => list # <<>> /\ Last(list) = new
    BY AtTyping
  <2> QED
    BY <2>1, <2>2 DEF IInv, Distinct, ListSound
<1> QED
  BY <1>1, ServerCorrect, PTL

(***************************************************************************)
(* remove and erase take out of the list only what is closed, unless a     *)
(* push_back has come between the two.                                     *)
(***************************************************************************)
THEOREM OpenAreKept == Spec => OpenStayListed
<1> DEFINE Stay == ~raced => open \cap Listed \subseteq Listed'
<1>1. IInv /\ [Next]_vars => [Stay]_vars
  <2> SUFFICES ASSUME IInv, Next PROVE Stay
    OBVIOUS
  <2> QED
    BY ListedNext
<1> QED
  BY <1>1, ServerCorrect, PTL DEF Spec, OpenStayListed

\* No two connections have one id, and every connection of the list has one.
THEOREM IdsAreUnique == Spec => []IdsTellApart
<1>1. IInv => IdsTellApart
  BY DEF IInv
<1> QED
  BY <1>1, ServerCorrect, PTL

(***************************************************************************)
(* A call of MessageAllClients reports only what is closed, and takes all  *)
(* of it that was closed when it began out of the list.                    *)
(***************************************************************************)
THEOREM ClosedAreTakenOut == Spec => ClosedAreCleaned
<1> DEFINE Cleans == /\ reported' \cap open' = {}
                     /\ loop # Idle /\ loop' = Idle => closedThen \subseteq reported \ Listed'
<1>1. IInv /\ IInv' /\ [Next]_vars => [Cleans]_vars
  <2> SUFFICES ASSUME IInv, IInv', Next PROVE Cleans
    OBVIOUS
  <2>0. TypeOK /\ Distinct /\ LoopSound /\ CleanedOrAhead
    BY DEF IInv
  <2>1. reported' \cap open' = {}
    BY DEF IInv, ReportedAreClosed
  <2>2. ASSUME loop # Idle, loop' = Idle
        PROVE  closedThen \subseteq reported \ Listed'
    <3>n. loop.next \in Nat /\ loop.last \in Nat /\ loop.invalid \in BOOLEAN
          /\ Idle.next = 0
      BY LoopTyping DEF Idle
    <3>1. Ends \/ Erase
      <4>1. ASSUME NEW invalid \in BOOLEAN, Step(invalid) PROVE FALSE
        BY <2>0, <2>2, <3>n, <4>1, StepTyping
      <4>2. ~VisitOpen /\ ~VisitClosed
        BY <3>n, <4>1 DEF VisitOpen, VisitClosed
      <4>3. ~Elsewhere /\ ~Removes /\ ~MessageAllClients
        BY <2>2 DEF Elsewhere, Removes, MessageAllClients, Application
      <4>4. ~PushBack /\ ~ConnectToClient /\ \A c \in Clients : ~Approve(c)
        BY <2>2 DEF PushBack, ConnectToClient, Approve, loopVars
      <4> QED
        BY <4>2, <4>3, <4>4, Steps
    <3>2. Listed' \subseteq Listed
      BY <2>0, <3>1, EraseMoves DEF Ends, Listed
    <3>3. loop.next..loop.last = {}
      <4>1. loop.next > loop.last
        BY <2>0, <2>2, <3>1 DEF Ends, Erase, LoopSound
      <4> QED
        BY <3>n, <4>1
    <3> QED
      BY <2>0, <2>2, <3>2, <3>3 DEF CleanedOrAhead
  <2> QED
    BY <2>1, <2>2
<1> QED
  BY <1>1, ServerCorrect, PTL DEF Spec, ClosedAreCleaned

(***************************************************************************)
(* A timer does not look up the callback of a validated connection: it is  *)
(* gone by then, and no connection that is validated gets another, but in  *)
(* the race of ListSound.                                                  *)
(***************************************************************************)
THEOREM TimerSpares == Spec => TimerSparesValidated
<1> DEFINE Spares == ~raced => \A t \in timers' \ timers :
                                  t.at = "calling" => t.calls \notin validated
<1>1. IInv /\ [Next]_vars => [Spares]_vars
  <2> SUFFICES ASSUME IInv, Next, ~raced, NEW u \in timers' \ timers, u.at = "calling"
               PROVE  u.calls \notin validated
    OBVIOUS
  <2>0. TypeOK /\ CallbacksOwn
    BY DEF IInv
  <2>1. ASSUME NEW t \in timers, NEW to \in {"found", "called"}, NEW c,
               c \in Clients \cup {NoClient}, NEW from,
               TimerGoes(t, from, to, c) \/ TimerEnds(t, from)
        PROVE  FALSE
    BY <2>1, TimerTyping
  <2>2. ASSUME NEW t \in timers, TimerLooks(t)
        PROVE  u.calls \notin validated
    <3>1. ~TimerEnds(t, "found")
      BY DEF TimerEnds
    <3>2. PICK e \in Entries(t) : TimerGoes(t, "found", "calling", e[2])
      BY <2>2, <3>1 DEF TimerLooks
    <3>3. e \in callbacks /\ e[2] \in Clients
      BY <2>0, <3>2 DEF Entries, TypeOK
    <3>4. u.calls = e[2]
      BY <3>2, <3>3, TimerTyping
    <3> QED
      BY <2>0, <3>3, <3>4 DEF CallbacksOwn
  <2>3. ASSUME NEW t \in timers, TimerWakes(t) PROVE FALSE
    BY <2>1, <2>3 DEF TimerWakes
  <2>4. ASSUME NEW t \in timers, TimerCalls(t) PROVE FALSE
    <3>1. t.calls \in Clients \cup {NoClient}
      BY <2>0 DEF TypeOK, Threads
    <3> QED
      BY <2>1, <2>4, <3>1 DEF TimerCalls
  <2>5. ASSUME NEW t \in timers, TimerErases(t) PROVE FALSE
    BY <2>5 DEF TimerErases, TimerEnds
  <2>6. ~ConnectToClient
    <3>1. ASSUME ConnectToClient PROVE \A t \in timers' : t \in timers \/ t.at = "sleeping"
      BY <3>1, HandshakeTyping
    <3> QED
      BY <3>1
  <2>7. ASSUME UNCHANGED timers PROVE FALSE
    BY <2>7
  <2> QED
    BY <2>2, <2>3, <2>4, <2>5, <2>6, <2>7 DEF Next, Accept, Context, Timer, Calls, Loop,
       loopVars, contextVars, connectionVars, timerVars, eraseVars, Arrive, Leave,
       EndpointThrows, Approve, Deny, Validate, MessageRead, Close, Written, Hold,
       Release, MessageClient, PushBack, MessageAllClients, VisitOpen, VisitClosed,
       Visited, Erase, Stop, Joined
<1> QED
  BY <1>1, ServerCorrect, PTL DEF Spec, TimerSparesValidated

================================================================================
