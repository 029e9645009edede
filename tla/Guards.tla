------------------------------- MODULE Guards -------------------------------
(***************************************************************************)
(* The scoped locks of include/thread.hpp on one lock: ReadScopedMutex and *)
(* WriteScopedMutex on an RWMutex, and ScopedMutex on a Mutex or SpinMutex *)
(* ("write" only).  A guard locks when it is built, may be unlocked and    *)
(* locked again by hand any number of times, and unlocks when it goes out  *)
(* of scope; m_locked is what it goes by.                                  *)
(*                                                                         *)
(* The lock is external: pthread_rwlock_unlock does not ask who calls it   *)
(* but takes back the write lock, if there is one, or one read lock.       *)
(***************************************************************************)
EXTENDS Integers, FiniteSets

CONSTANTS
  Threads, \* each with one guard in scope at most
  Kinds    \* kinds of guards in use: "read", "write"

ASSUME GuardsAssumption == IsFiniteSet(Threads) /\ Kinds \subseteq {"read", "write"}

VARIABLES
  guard,  \* kind of the guard each thread has in scope, or "none"
  locked, \* its m_locked
  shared, \* read locks held on the lock
  held    \* the lock is held for writing

gvars == <<guard, locked, shared, held>>

GTypeOK ==
  /\ guard \in [Threads -> {"none", "read", "write"}]
  /\ locked \in [Threads -> BOOLEAN]
  /\ shared \in Nat /\ held \in BOOLEAN

GInit ==
  /\ guard = [t \in Threads |-> "none"]
  /\ locked = [t \in Threads |-> FALSE]
  /\ shared = 0 /\ held = FALSE

\* rdlock() and wrlock(): what the lock grants, and when.
Acquire(kind) ==
  /\ ~held /\ (kind = "write" => shared = 0)
  /\ shared' = IF kind = "read" THEN shared + 1 ELSE shared
  /\ held' = (kind = "write")

Release ==
  /\ held' = FALSE
  /\ shared' = IF ~held /\ shared > 0 THEN shared - 1 ELSE shared

BuildGuard(t, kind) ==
  /\ guard[t] = "none"
  /\ Acquire(kind)
  /\ guard' = [guard EXCEPT ![t] = kind]
  /\ locked' = [locked EXCEPT ![t] = TRUE]

\* lock() and unlock() do nothing to a guard that is, or is not, locked.
Lock(t) ==
  /\ guard[t] # "none" /\ ~locked[t]
  /\ Acquire(guard[t])
  /\ locked' = [locked EXCEPT ![t] = TRUE]
  /\ UNCHANGED guard

\* Mutant: unlock() does not clear m_locked.
UnlockStays(t) ==
  /\ guard[t] # "none" /\ locked[t]
  /\ Release
  /\ UNCHANGED <<guard, locked>>

Unlock(t) ==
  /\ guard[t] # "none" /\ locked[t]
  /\ Release
  /\ locked' = [locked EXCEPT ![t] = FALSE]
  /\ UNCHANGED guard

\* Mutant: the destructor unlocks without asking m_locked.
DestroyUnlocks(t) ==
  /\ guard[t] # "none"
  /\ Release
  /\ guard' = [guard EXCEPT ![t] = "none"]
  /\ locked' = [locked EXCEPT ![t] = FALSE]

Destroy(t) ==
  /\ guard[t] # "none"
  /\ IF locked[t] THEN Release ELSE UNCHANGED <<shared, held>>
  /\ guard' = [guard EXCEPT ![t] = "none"]
  /\ locked' = [locked EXCEPT ![t] = FALSE]

GNext ==
  \E t \in Threads :
    \/ \E kind \in Kinds : BuildGuard(t, kind)
    \/ Lock(t) \/ Unlock(t) \/ Destroy(t)

GSpec == GInit /\ [][GNext]_gvars

----------------------------------------------------------------------------
Holders(kind) == {t \in Threads : guard[t] = kind /\ locked[t]}

(* A thread whose write guard is locked is alone: no other thread has a    *)
(* locked guard, whoever unlocked and locked again in whatever order.      *)
Exclusion ==
  \A t \in Holders("write") : \A u \in Threads \ {t} : ~locked[u]

(* The lock is held exactly as the guards say: nothing stays locked behind *)
(* a guard that has gone, and no unlock takes away another thread's lock.  *)
LockAccounted ==
  /\ shared = Cardinality(Holders("read"))
  /\ held <=> Holders("write") # {}
============================================================================
