---------------------------- MODULE ThreadProofs ----------------------------
(***************************************************************************)
(* Proofs about Thread, for any number of owners, objects and joins: the   *)
(* handshake of the constructor is complete, run() does all it does with   *)
(* the object before a destructor can destroy it, and no thread is left    *)
(* behind; and about Guards, the locks of the same file.                   *)
(*                                                                         *)
(* None of the three is inductive.  The semaphore carries the handshake:   *)
(* its count is zero until the new thread has posted, so a constructor     *)
(* that got past it finds everything set.                                  *)
(***************************************************************************)
EXTENDS Thread, Guards, FiniteSetTheorems, TLAPS

\* What an object and its thread have told each other.
Handshake ==
  \A o \in Objs :
    /\ run[o] \in {"none", "init", "notify"} =>
         sem[o] = 0 /\ obj[o] \in {"raw", "building", "failed"}
    /\ run[o] \in {"notify", "cb", "done"} => id[o] /\ (obj[o] # "failed" => tname[o] = name[o])
    /\ obj[o] = "raw" => run[o] = "none"

\* A thread that runs has not been released, one that has ended and is detached
\* has been; an object that is there has not been used after its destruction.
Lifetimes ==
  \A o \in Objs :
    /\ run[o] \in {"init", "notify", "cb"} => kernel[o] = "running"
    /\ run[o] = "done" => kernel[o] \in {"exited", "reaped"}
    /\ detached[o] <=> obj[o] = "freed"
    /\ detached[o] /\ run[o] = "done" => kernel[o] = "reaped"
    /\ ~Gone(o) => stray[o] = {}
    /\ obj[o] = "freed" => stray[o] \subseteq {"name"}

\* An owner inside a method is alone with the object, which is as the method
\* needs it.
Owned ==
  \A u \in Owners :
    /\ own[u].pc = "idle" => own[u].obj = None
    /\ own[u].pc \in {"create", "wait", "detach"} =>
         \A w \in Owners \ {u} : own[w].obj # own[u].obj
    /\ own[u].pc = "create" => obj[own[u].obj] = "building" /\ run[own[u].obj] = "none"
    /\ own[u].pc = "wait" => obj[own[u].obj] = "building" /\ run[own[u].obj] # "none"
    /\ own[u].pc = "join" => obj[own[u].obj] = "alive" /\ joins[own[u].obj] # 0
    /\ own[u].pc = "detach" => obj[own[u].obj] = "dying"

Inv == TypeOK /\ Handshake /\ Owned /\ Lifetimes

\* No object has been built at first.
LEMMA InitInv == Init => Inv
<1> SUFFICES ASSUME Init PROVE Inv
  OBVIOUS
<1> USE ThreadAssumption DEF Init
<1>1. TypeOK
  BY DEF TypeOK, Idle
<1>2. Handshake
  BY DEF Handshake
<1>3. \A u \in Owners : own[u].pc = "idle" /\ own[u].obj = None
  BY DEF Idle
<1>4. Owned
  BY <1>3 DEF Owned
<1>5. Lifetimes
  BY DEF Lifetimes, Gone
<1> QED
  BY <1>1, <1>2, <1>4, <1>5 DEF Inv

----------------------------------------------------------------------------
(* Each step preserves the invariant.                                      *)
LEMMA ConstructInv ==
  ASSUME Inv, NEW u \in Owners, NEW o \in Objs, NEW n \in Names, Construct(u, o, n)
  PROVE  Inv'
<1> USE ThreadAssumption DEF Inv, Construct, Idle
<1>1. TypeOK'
  BY DEF TypeOK
<1>2. Handshake'
  BY DEF TypeOK, Handshake
<1>3. Owned'
  <2>1. run[o] = "none" /\ \A w \in Owners : own[w].obj # o
    BY DEF TypeOK, Handshake, Owned
  <2> QED
    BY <2>1 DEF TypeOK, Owned
<1>4. Lifetimes'
  BY DEF TypeOK, Handshake, Owned, Lifetimes, Gone
<1> QED
  BY <1>1, <1>2, <1>3, <1>4

LEMMA CreateInv ==
  ASSUME Inv, NEW u \in Owners, Create(u)
  PROVE  Inv'
<1> USE ThreadAssumption DEF Inv, Create, Idle
<1>1. TypeOK'
  BY DEF TypeOK
<1>2. Handshake'
  BY DEF TypeOK, Handshake, Owned
<1>3. Owned'
  BY DEF TypeOK, Owned
<1>4. Lifetimes'
  BY DEF TypeOK, Handshake, Owned, Lifetimes, Gone
<1> QED
  BY <1>1, <1>2, <1>3, <1>4

LEMMA ConstructorThrowsInv ==
  ASSUME Inv, NEW u \in Owners, own[u].pc \in {"create", "wait"}, ConstructorThrows(u)
  PROVE  Inv'
<1> USE ThreadAssumption DEF Inv, ConstructorThrows, Idle
<1>1. TypeOK'
  BY DEF TypeOK
<1>2. Handshake'
  BY DEF Handshake, Owned
<1>3. Owned'
  BY DEF TypeOK, Owned
<1>4. Lifetimes'
  BY DEF TypeOK, Handshake, Owned, Lifetimes, Gone
<1> QED
  BY <1>1, <1>2, <1>3, <1>4

LEMMA WaitReturnsInv ==
  ASSUME Inv, NEW u \in Owners, WaitReturns(u)
  PROVE  Inv'
<1> USE ThreadAssumption DEF Inv, WaitReturns, Idle
<1>1. TypeOK'
  BY DEF TypeOK
<1>2. Handshake'
  BY DEF Handshake, Owned
<1>3. Owned'
  BY DEF TypeOK, Owned
<1>4. Lifetimes'
  BY DEF TypeOK, Handshake, Owned, Lifetimes, Gone
<1> QED
  BY <1>1, <1>2, <1>3, <1>4

LEMMA RunInitInv ==
  ASSUME Inv, NEW o \in Objs, RunInit(o)
  PROVE  Inv'
<1> USE ThreadAssumption DEF Inv, RunInit, Uses, Idle
<1>1. TypeOK'
  BY DEF TypeOK
<1>2. Handshake'
  BY DEF TypeOK, Handshake, Gone
<1>3. Owned'
  BY DEF Owned
<1>4. Lifetimes'
  BY DEF TypeOK, Handshake, Owned, Lifetimes, Gone
<1> QED
  BY <1>1, <1>2, <1>3, <1>4

LEMMA RunNotifyInv ==
  ASSUME Inv, NEW o \in Objs, RunNotify(o)
  PROVE  Inv'
<1> USE ThreadAssumption DEF Inv, RunNotify, Uses, Idle
<1>1. TypeOK'
  BY DEF TypeOK, Handshake
<1>2. Handshake'
  BY DEF TypeOK, Handshake
<1>3. Owned'
  BY DEF Owned
<1>4. Lifetimes'
  BY DEF TypeOK, Handshake, Owned, Lifetimes, Gone
<1> QED
  BY <1>1, <1>2, <1>3, <1>4

LEMMA SetNameInv ==
  ASSUME Inv, NEW o \in Objs, NEW n \in Names, SetName(o, n)
  PROVE  Inv'
<1> USE ThreadAssumption DEF Inv, SetName, Uses, Idle
<1>1. TypeOK'
  BY DEF TypeOK
<1>2. Handshake'
  BY DEF TypeOK, Handshake
<1>3. Owned'
  BY DEF Owned
<1>4. Lifetimes'
  BY DEF TypeOK, Handshake, Owned, Lifetimes, Gone
<1> QED
  BY <1>1, <1>2, <1>3, <1>4

LEMMA RunReturnsInv ==
  ASSUME Inv, NEW o \in Objs, RunReturns(o)
  PROVE  Inv'
<1> USE ThreadAssumption DEF Inv, RunReturns, Idle
<1>1. TypeOK'
  BY DEF TypeOK
<1>2. Handshake'
  BY DEF Handshake
<1>3. Owned'
  BY DEF Owned
<1>4. Lifetimes'
  BY DEF TypeOK, Handshake, Owned, Lifetimes, Gone
<1> QED
  BY <1>1, <1>2, <1>3, <1>4

LEMMA JoinEnterInv ==
  ASSUME Inv, NEW u \in Owners, NEW o \in Objs, JoinEnter(u, o)
  PROVE  Inv'
<1> USE ThreadAssumption DEF Inv, JoinEnter, Idle
<1>1. TypeOK'
  BY DEF TypeOK
<1>2. Handshake'
  BY DEF TypeOK, Handshake
<1>3. Owned'
  BY DEF TypeOK, Owned
<1>4. Lifetimes'
  BY DEF TypeOK, Handshake, Owned, Lifetimes, Gone
<1> QED
  BY <1>1, <1>2, <1>3, <1>4

LEMMA JoinReturnsInv ==
  ASSUME Inv, NEW u \in Owners, JoinReturns(u)
  PROVE  Inv'
<1> USE ThreadAssumption DEF Inv, JoinReturns, Idle
<1>1. TypeOK'
  BY DEF TypeOK
<1>2. Handshake'
  BY DEF Handshake, Owned
<1>3. Owned'
  BY DEF TypeOK, Owned
<1>4. Lifetimes'
  BY DEF TypeOK, Handshake, Owned, Lifetimes, Gone
<1> QED
  BY <1>1, <1>2, <1>3, <1>4

LEMMA JoinThrowsInv ==
  ASSUME Inv, NEW u \in Owners, JoinThrows(u)
  PROVE  Inv'
<1> USE ThreadAssumption DEF Inv, JoinThrows, Idle
<1>1. TypeOK'
  BY DEF TypeOK
<1>2. Handshake'
  BY DEF Handshake
<1>3. Owned'
  BY DEF TypeOK, Owned
<1>4. Lifetimes'
  BY DEF Lifetimes, Gone
<1> QED
  BY <1>1, <1>2, <1>3, <1>4

LEMMA DestroyEnterInv ==
  ASSUME Inv, NEW u \in Owners, NEW o \in Objs, DestroyEnter(u, o)
  PROVE  Inv'
<1> USE ThreadAssumption DEF Inv, DestroyEnter, Idle
<1>1. TypeOK'
  BY DEF TypeOK
<1>2. Handshake'
  BY DEF Handshake
<1>3. Owned'
  BY DEF TypeOK, Owned
<1>4. Lifetimes'
  BY DEF TypeOK, Handshake, Owned, Lifetimes, Gone
<1> QED
  BY <1>1, <1>2, <1>3, <1>4

LEMMA DetachInv ==
  ASSUME Inv, NEW u \in Owners, Detach(u)
  PROVE  Inv'
<1> USE ThreadAssumption DEF Inv, Detach, Idle
<1>1. TypeOK'
  BY DEF TypeOK
<1>2. Handshake'
  BY DEF TypeOK, Handshake, Owned
<1>3. Owned'
  BY DEF TypeOK, Owned
<1>4. Lifetimes'
  BY DEF TypeOK, Handshake, Owned, Lifetimes, Gone
<1> QED
  BY <1>1, <1>2, <1>3, <1>4

LEMMA NextInv == Inv /\ [Next]_vars => Inv'
<1> SUFFICES ASSUME Inv, [Next]_vars
             PROVE  Inv'
  OBVIOUS
<1>1. CASE Next
  BY <1>1, ConstructInv, CreateInv, ConstructorThrowsInv, WaitReturnsInv,
     RunInitInv, RunNotifyInv, SetNameInv, RunReturnsInv, JoinEnterInv,
     JoinReturnsInv, JoinThrowsInv, DestroyEnterInv, DetachInv
     DEF Next, OwnerStep, RunStep, CreateFails, WaitFails
<1>2. CASE UNCHANGED vars
  BY <1>2 DEF vars, Inv, TypeOK, Handshake, Owned, Lifetimes, Gone
<1> QED
  BY <1>1, <1>2

LEMMA SpecInv == Spec => []Inv
  BY InitInv, NextInv, PTL DEF Spec

\* Every variable stays in its domain; the semaphore is 0 or 1.
THEOREM TypeCorrect == Spec => []TypeOK
<1>1. Inv => TypeOK
  BY DEF Inv
<1> QED
  BY <1>1, SpecInv, PTL

\* When a constructor has returned, the new thread is initialised
\* (thread.cpp:85-87), whatever owners do with the object.
THEOREM HandshakeHolds == Spec => []HandshakeDone
<1>1. Inv => HandshakeDone
  BY DEF Inv, TypeOK, Handshake, HandshakeDone
<1> QED
  BY <1>1, SpecInv, PTL

\* What run() does with its object it does before a destructor destroys it
\* (thread.cpp:76-88), also if several owners join and drop it in any order; only
\* SetName() in the callback may come after that.
THEOREM ObjectOutlivesRun == Spec => []NoUseAfterFree
<1>1. Inv => NoUseAfterFree
  BY DEF Inv, Lifetimes, NoUseAfterFree
<1> QED
  BY <1>1, SpecInv, PTL

\* A thread that has ended and whose object has been destroyed is released
\* (thread.cpp:48-63), whether it was joined or not, and ended first or last.
THEOREM NothingLeftBehind == Spec => []ThreadReleased
<1>1. Inv => ThreadReleased
  BY DEF Inv, Lifetimes, ThreadReleased
<1> QED
  BY <1>1, SpecInv, PTL

----------------------------------------------------------------------------
(* The locks of thread.hpp, for any number of threads: a locked write guard *)
(* excludes all others, and the lock is held exactly as the guards say.     *)
(*                                                                          *)
(* LockAccounted alone is not inductive: that nobody is inside when a guard *)
(* gets the write lock follows from the count only because a guard that is  *)
(* locked is in scope, and so is counted with the readers or the writers.   *)
LockedInScope == \A t \in Threads : locked[t] => guard[t] # "none"

GuardInv == GTypeOK /\ LockedInScope /\ Exclusion /\ LockAccounted

\* The threads with a locked read guard can be counted.
LEMMA HoldersFinite ==
  ASSUME NEW kind
  PROVE  IsFiniteSet(Holders(kind)) /\ Cardinality(Holders(kind)) \in Nat
<1>1. Holders(kind) \subseteq Threads
  BY DEF Holders
<1>2. IsFiniteSet(Threads)
  BY GuardsAssumption
<1> QED
  BY <1>1, <1>2, FS_Subset, FS_CardinalityType

\* A thread that is in a kind of locked guard and was not is one more.
LEMMA OneMore ==
  ASSUME NEW kind, NEW t \in Threads, t \notin Holders(kind),
         Holders(kind)' = Holders(kind) \cup {t}
  PROVE  Cardinality(Holders(kind)') = Cardinality(Holders(kind)) + 1
  BY HoldersFinite, FS_AddElement

\* One that was and is not any more is one less.
LEMMA OneLess ==
  ASSUME NEW kind, NEW t \in Holders(kind),
         Holders(kind)' = Holders(kind) \ {t}
  PROVE  /\ Cardinality(Holders(kind)') = Cardinality(Holders(kind)) - 1
         /\ Cardinality(Holders(kind)) > 0
<1>1. IsFiniteSet(Holders(kind)) /\ Cardinality(Holders(kind)) \in Nat
  BY HoldersFinite
<1>2. Cardinality(Holders(kind) \ {t}) = Cardinality(Holders(kind)) - 1
  BY <1>1, FS_RemoveElement
<1>3. Cardinality(Holders(kind) \ {t}) \in Nat
  BY <1>1, FS_RemoveElement, FS_CardinalityType
<1> QED
  BY <1>1, <1>2, <1>3

\* A lock that nobody may hold is held by nobody.
LEMMA NobodyInside ==
  ASSUME GuardInv, ~held, shared = 0
  PROVE  \A t \in Threads : ~locked[t]
<1>1. Holders("read") = {}
  BY HoldersFinite, FS_EmptySet DEF GuardInv, LockAccounted
<1>2. Holders("write") = {}
  BY DEF GuardInv, LockAccounted
<1> QED
  BY <1>1, <1>2 DEF GuardInv, GTypeOK, LockedInScope, Holders

LEMMA GuardInitInv == GInit => GuardInv
<1> SUFFICES ASSUME GInit PROVE GuardInv
  OBVIOUS
<1>1. Holders("read") = {} /\ Holders("write") = {}
  BY DEF GInit, Holders
<1>2. Cardinality({}) = 0
  BY FS_EmptySet
<1> QED
  BY <1>1, <1>2 DEF GInit, GuardInv, GTypeOK, LockedInScope, Exclusion, LockAccounted

\* A guard is locked: it is built, or locked again by hand.
LEMMA AcquireInv ==
  ASSUME GuardInv, NEW t \in Threads, NEW kind \in {"read", "write"},
         ~locked[t], Acquire(kind),
         guard' = [guard EXCEPT ![t] = kind], locked' = [locked EXCEPT ![t] = TRUE]
  PROVE  GuardInv'
<1> USE DEF GuardInv
<1>1. /\ guard \in [Threads -> {"none", "read", "write"}]
      /\ locked \in [Threads -> BOOLEAN]
      /\ shared \in Nat /\ held \in BOOLEAN
  BY DEF GTypeOK
<1>2. GTypeOK' /\ LockedInScope'
  BY <1>1 DEF GTypeOK, LockedInScope, Acquire
<1>3. \A k : t \notin Holders(k)
  BY DEF Holders
<1>4. Holders(kind)' = Holders(kind) \cup {t}
  BY <1>1 DEF Holders
<1>5. \A k : k # kind => Holders(k)' = Holders(k)
  BY <1>1 DEF Holders
<1>6. CASE kind = "read"
  <2>1. Holders("write") = {}
    BY <1>6 DEF Acquire, LockAccounted
  <2>2. Cardinality(Holders("read")') = Cardinality(Holders("read")) + 1
    BY <1>3, <1>4, <1>6, OneMore
  <2>3. Holders("write")' = {}
    BY <1>5, <1>6, <2>1
  <2>4. LockAccounted'
    BY <1>1, <1>6, <2>2, <2>3 DEF LockAccounted, Acquire
  <2>5. Exclusion'
    BY <2>3 DEF Exclusion
  <2> QED
    BY <1>2, <2>4, <2>5
<1>7. CASE kind = "write"
  <2>1. \A u \in Threads : ~locked[u]
    BY <1>7, NobodyInside DEF Acquire
  <2>2. Exclusion'
    BY <1>1, <2>1 DEF Exclusion, Holders
  <2>3. Holders("read")' = Holders("read")
    BY <1>5, <1>7
  <2>4. Holders("write")' # {}
    BY <1>4, <1>7
  <2>5. LockAccounted'
    BY <1>1, <1>7, <2>3, <2>4 DEF LockAccounted, Acquire
  <2> QED
    BY <1>2, <2>2, <2>5
<1> QED
  BY <1>6, <1>7

\* A locked guard is unlocked, and stays in scope or goes.
LEMMA ReleaseInv ==
  ASSUME GuardInv, NEW t \in Threads, locked[t], Release,
         guard' = guard \/ guard' = [guard EXCEPT ![t] = "none"],
         locked' = [locked EXCEPT ![t] = FALSE]
  PROVE  GuardInv'
<1> USE DEF GuardInv
<1>1. /\ guard \in [Threads -> {"none", "read", "write"}]
      /\ locked \in [Threads -> BOOLEAN]
      /\ shared \in Nat /\ held \in BOOLEAN
  BY DEF GTypeOK
<1>2. GTypeOK' /\ LockedInScope'
  <2>1. shared' \in Nat
    <3>1. shared' = shared \/ (shared > 0 /\ shared' = shared - 1)
      BY DEF Release
    <3> QED
      BY <1>1, <3>1
  <2>2. held' \in BOOLEAN
    BY DEF Release
  <2>3. /\ guard' \in [Threads -> {"none", "read", "write"}]
        /\ locked' \in [Threads -> BOOLEAN]
    BY <1>1
  <2>4. LockedInScope'
    BY <1>1 DEF LockedInScope
  <2> QED
    BY <2>1, <2>2, <2>3, <2>4 DEF GTypeOK
<1>3. \A k : Holders(k)' = Holders(k) \ {t}
  <2>1. ~locked'[t]
    BY <1>1
  <2>2. \A u \in Threads \ {t} : guard'[u] = guard[u] /\ locked'[u] = locked[u]
    BY <1>1
  <2> QED
    BY <2>1, <2>2 DEF Holders
<1>4. Exclusion'
  BY <1>1, <1>3 DEF Exclusion
<1>5. guard[t] \in {"read", "write"}
  BY <1>1 DEF LockedInScope
<1>6. CASE guard[t] = "read"
  <2>1. t \in Holders("read") /\ t \notin Holders("write")
    BY <1>6 DEF Holders
  <2>2. Holders("write") = {}
    BY <1>6, <2>1 DEF Exclusion, Holders
  <2>3. /\ Cardinality(Holders("read")') = Cardinality(Holders("read")) - 1
        /\ Cardinality(Holders("read")) > 0
    BY <1>3, <2>1, OneLess
  <2>4. Holders("write")' = {}
    BY <1>3, <2>2
  <2> QED
    BY <1>1, <1>2, <1>4, <2>2, <2>3, <2>4 DEF LockAccounted, Release
<1>7. CASE guard[t] = "write"
  <2>1. t \in Holders("write") /\ t \notin Holders("read")
    BY <1>7 DEF Holders
  <2>2. Holders("read")' = Holders("read")
    BY <1>3, <2>1
  <2>3. Holders("write") = {t}
    BY <2>1 DEF Exclusion, Holders
  <2>4. shared' = shared /\ ~held'
    BY <2>1 DEF LockAccounted, Release
  <2> QED
    <3>1. Holders("write")' = {}
      BY <1>3, <2>3
    <3>2. LockAccounted'
      BY <2>2, <2>4, <3>1 DEF LockAccounted
    <3> QED
      BY <1>2, <1>4, <3>2
<1> QED
  BY <1>5, <1>6, <1>7

LEMMA GuardNextInv == GuardInv /\ [GNext]_gvars => GuardInv'
<1> SUFFICES ASSUME GuardInv, [GNext]_gvars PROVE GuardInv'
  OBVIOUS
<1>1. ASSUME NEW t \in Threads, NEW kind \in Kinds, BuildGuard(t, kind)
      PROVE  GuardInv'
  <2>1. kind \in {"read", "write"}
    BY GuardsAssumption
  <2>2. ~locked[t]
    BY <1>1 DEF BuildGuard, GuardInv, LockedInScope
  <2> QED
    BY <1>1, <2>1, <2>2, AcquireInv DEF BuildGuard
<1>2. ASSUME NEW t \in Threads, Lock(t)
      PROVE  GuardInv'
  <2>1. guard[t] \in {"read", "write"} /\ guard' = [guard EXCEPT ![t] = guard[t]]
    BY <1>2 DEF Lock, GuardInv, GTypeOK
  <2> QED
    BY <1>2, <2>1, AcquireInv DEF Lock
<1>3. ASSUME NEW t \in Threads, Unlock(t)
      PROVE  GuardInv'
  BY <1>3, ReleaseInv DEF Unlock
<1>4. ASSUME NEW t \in Threads, Destroy(t)
      PROVE  GuardInv'
  <2>1. CASE locked[t]
    BY <1>4, <2>1, ReleaseInv DEF Destroy
  <2>2. CASE ~locked[t]
    <3>1. locked' = locked /\ shared' = shared /\ held' = held
      BY <1>4, <2>2 DEF Destroy, GuardInv, GTypeOK
    <3>2. \A k \in {"read", "write"} : Holders(k)' = Holders(k)
      BY <1>4, <2>2, <3>1 DEF Destroy, Holders, GuardInv, GTypeOK
    <3>3. GTypeOK' /\ LockedInScope'
      BY <1>4, <2>2, <3>1 DEF Destroy, GuardInv, GTypeOK, LockedInScope
    <3> QED
      BY <3>1, <3>2, <3>3 DEF GuardInv, Exclusion, LockAccounted
  <2> QED
    BY <2>1, <2>2
<1>5. CASE UNCHANGED gvars
  BY <1>5 DEF gvars, GuardInv, GTypeOK, LockedInScope, Exclusion, LockAccounted, Holders
<1> QED
  BY <1>1, <1>2, <1>3, <1>4, <1>5 DEF GNext

\* Everything the guards are for follows from GuardInv.
LEMMA GuardSpecInv == GSpec => []GuardInv
  BY GuardInitInv, GuardNextInv, PTL DEF GSpec

\* The variables stay in their types: the read locks never count below zero.
THEOREM GuardTypes == GSpec => []GTypeOK
<1>1. GuardInv => GTypeOK
  BY DEF GuardInv
<1> QED
  BY GuardSpecInv, <1>1, PTL

\* Mutual exclusion of the guards in thread.hpp, however they are locked and
\* unlocked by hand.
THEOREM WriterAlone == GSpec => []Exclusion
<1>1. GuardInv => Exclusion
  BY DEF GuardInv
<1> QED
  BY GuardSpecInv, <1>1, PTL

\* The lock never stays held without a guard, nor is it lost by one.
THEOREM LockBalanced == GSpec => []LockAccounted
<1>1. GuardInv => LockAccounted
  BY DEF GuardInv
<1> QED
  BY GuardSpecInv, <1>1, PTL
=============================================================================
