-------------------------------- MODULE Singleton --------------------------------
(***************************************************************************)
(* Singleton<Derived> (Singleton.hpp): an atomic pointer that is tested    *)
(* without the lock first, and again with it.                              *)
(*                                                                         *)
(* The three operations are given here step by step, for a thread t that   *)
(* goes from one step of its own program to another; a module that has     *)
(* threads calls them.  A critical section is one step with the taking of  *)
(* its lock, unless others can see it from outside: Destruct deletes the   *)
(* object first and stores null afterwards, and holds the lock meanwhile.  *)
(***************************************************************************)
EXTENDS Naturals, FiniteSets

CONSTANTS Threads, NoThread

ASSUME NoThreadAssumption == NoThread \notin Threads

VARIABLES
  instance,  \* instance_: the number of the object it points to, 0 for null
  made,      \* the objects constructed so far are 1..made
  deleted,   \* those of them that were deleted
  holder,    \* the thread inside Destruct that holds mutex_
  step,      \* of each thread: where it is
  pointer    \* of each thread: what GetInstance returned last

singletonVars == <<instance, made, deleted, holder, step, pointer>>

SingletonTypeOK ==
  /\ instance \in 0..made
  /\ made \in Nat
  /\ deleted \subseteq 1..made
  /\ holder \in Threads \cup {NoThread}
  /\ pointer \in [Threads -> 0..made]

SingletonInit(start) ==
  /\ instance = 0 /\ made = 0 /\ deleted = {}
  /\ holder = NoThread
  /\ step = [t \in Threads |-> start]
  /\ pointer = [t \in Threads |-> 0]

Goes(t, from, to) == step[t] = from /\ step' = [step EXCEPT ![t] = to]

\* The test without the lock decides whether to take it.
Loads(t, from, locking, to, missed) ==
  /\ Goes(t, from, IF missed THEN locking ELSE to)
  /\ UNCHANGED <<instance, made, deleted, holder>>

\* instance_ is tested again under the lock (mutated: it is not).
NotTested == TRUE
StillNull == instance = 0

ConstructLoads(t, from, locking, to) ==
  /\ Loads(t, from, locking, to, instance = 0)
  /\ UNCHANGED pointer

ConstructLocks(t, locking, to) ==
  /\ Goes(t, locking, to)
  /\ holder = NoThread
  /\ IF StillNull THEN made' = made + 1 /\ instance' = made'
                  ELSE UNCHANGED <<made, instance>>
  /\ UNCHANGED <<deleted, holder, pointer>>

GetInstanceLoads(t, from, locking, to) ==
  /\ Loads(t, from, locking, to, instance = 0)
  /\ pointer' = [pointer EXCEPT ![t] = instance]

\* shared_lock: not while a thread holds the mutex exclusively.
GetInstanceLocks(t, locking, to) ==
  /\ Goes(t, locking, to)
  /\ holder = NoThread
  /\ pointer' = [pointer EXCEPT ![t] = instance]
  /\ UNCHANGED <<instance, made, deleted, holder>>

DestructLoads(t, from, locking, to) ==
  /\ Loads(t, from, locking, to, instance # 0)
  /\ UNCHANGED pointer

DestructLocks(t, locking, storing, to) ==
  /\ holder = NoThread
  /\ IF instance # 0 THEN /\ Goes(t, locking, storing)
                          /\ deleted' = deleted \cup {instance}
                          /\ holder' = t
                     ELSE /\ Goes(t, locking, to)
                          /\ UNCHANGED <<deleted, holder>>
  /\ UNCHANGED <<instance, made, pointer>>

\* null is stored before the lock is given back (mutated: it is not stored).
KeepInstance == UNCHANGED instance
StoreNull == instance' = 0

DestructStores(t, storing, to) ==
  /\ Goes(t, storing, to)
  /\ StoreNull
  /\ holder' = NoThread
  /\ UNCHANGED <<made, deleted, pointer>>
================================================================================
