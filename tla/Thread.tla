------------------------------- MODULE Thread -------------------------------
(***************************************************************************)
(* The class Thread of src/thread.cpp: a constructor that starts a POSIX   *)
(* thread and waits on a semaphore until the new thread has taken over     *)
(* what it needs from the object, join, and a destructor that detaches.    *)
(*                                                                         *)
(* "Owners" are the threads that hold a Thread::ptr and call its methods.  *)
(* The object and the thread it starts have separate lifetimes; kernel is  *)
(* the state of the thread as pthread_join and pthread_detach see it.      *)
(***************************************************************************)
EXTENDS Integers

CONSTANTS
  Owners,     \* threads that construct, join and destroy Thread objects
  Objs,       \* Thread objects
  Names,      \* names given to them
  MaxJoins,   \* bound: join calls per object
  None        \* no object, no name

ASSUME ThreadAssumption ==
  /\ MaxJoins \in Nat
  /\ None \notin Objs /\ None \notin Names

VARIABLES
  obj,      \* lifetime of each object
  handle,   \* m_thread # 0
  sem,      \* count of m_semaphore
  id,       \* m_id has been set
  name,     \* m_name
  tname,    \* t_thread_name of the started thread
  run,      \* where the started thread is in Thread::run
  kernel,   \* the started thread as the threads library sees it
  detached, \* pthread_detach has been called on it
  joins,    \* join calls made on the object
  stray,    \* what the started thread did to the object after its destruction
  own       \* the method each owner is in, and its object

vars == <<obj, handle, sem, id, name, tname, run, kernel, detached, joins, stray, own>>

Idle == [pc |-> "idle", obj |-> None]

TypeOK ==
  /\ obj \in [Objs -> {"raw", "building", "alive", "dying", "freed", "failed"}]
  /\ handle \in [Objs -> BOOLEAN]
  /\ sem \in [Objs -> 0 .. 1]
  /\ id \in [Objs -> BOOLEAN]
  /\ name \in [Objs -> Names \cup {None}]
  /\ tname \in [Objs -> Names \cup {None}]
  /\ run \in [Objs -> {"none", "init", "notify", "cb", "done"}]
  /\ kernel \in [Objs -> {"none", "running", "exited", "reaped"}]
  /\ detached \in [Objs -> BOOLEAN]
  /\ joins \in [Objs -> 0 .. MaxJoins]
  /\ stray \in [Objs -> SUBSET {"init", "notify", "name"}]
  /\ own \in [Owners -> [pc : {"idle", "create", "wait", "join", "detach"},
                         obj : Objs \cup {None}]]
  /\ \A u \in Owners : own[u].pc # "idle" => own[u].obj \in Objs

Init ==
  /\ obj = [o \in Objs |-> "raw"]
  /\ handle = [o \in Objs |-> FALSE]
  /\ sem = [o \in Objs |-> 0]
  /\ id = [o \in Objs |-> FALSE]
  /\ name = [o \in Objs |-> None]
  /\ tname = [o \in Objs |-> None]
  /\ run = [o \in Objs |-> "none"]
  /\ kernel = [o \in Objs |-> "none"]
  /\ detached = [o \in Objs |-> FALSE]
  /\ joins = [o \in Objs |-> 0]
  /\ stray = [o \in Objs |-> {}]
  /\ own = [u \in Owners |-> Idle]

----------------------------------------------------------------------------
(* The constructor: members, pthread_create, m_semaphore.wait().           *)
Construct(u, o, n) ==
  /\ own[u].pc = "idle" /\ obj[o] = "raw"
  /\ obj' = [obj EXCEPT ![o] = "building"]
  /\ name' = [name EXCEPT ![o] = n]
  /\ own' = [own EXCEPT ![u] = [pc |-> "create", obj |-> o]]
  /\ UNCHANGED <<handle, sem, id, tname, run, kernel, detached, joins, stray>>

Create(u) ==
  LET o == own[u].obj IN
  /\ own[u].pc = "create"
  /\ handle' = [handle EXCEPT ![o] = TRUE]
  /\ kernel' = [kernel EXCEPT ![o] = "running"]
  /\ run' = [run EXCEPT ![o] = "init"]
  /\ own' = [own EXCEPT ![u].pc = "wait"]
  /\ UNCHANGED <<obj, sem, id, name, tname, detached, joins, stray>>

\* The constructor throws: the members are destroyed, ~Thread does not run.  A
\* thread that was created goes on (the hazard of a wait that is interrupted).
ConstructorThrows(u) ==
  /\ obj' = [obj EXCEPT ![own[u].obj] = "failed"]
  /\ own' = [own EXCEPT ![u] = Idle]
  /\ UNCHANGED <<handle, sem, id, name, tname, run, kernel, detached, joins, stray>>

CreateFails(u) == own[u].pc = "create" /\ ConstructorThrows(u)

\* sem_wait is interrupted by a signal handler.
WaitFails(u) == own[u].pc = "wait" /\ ConstructorThrows(u)

\* Mutant: the constructor returns without waiting.
WaitNotNeeded(u) ==
  /\ own[u].pc = "wait"
  /\ obj' = [obj EXCEPT ![own[u].obj] = "alive"]
  /\ own' = [own EXCEPT ![u] = Idle]
  /\ UNCHANGED <<handle, sem, id, name, tname, run, kernel, detached, joins, stray>>

WaitReturns(u) ==
  LET o == own[u].obj IN
  /\ own[u].pc = "wait" /\ sem[o] > 0
  /\ sem' = [sem EXCEPT ![o] = @ - 1]
  /\ obj' = [obj EXCEPT ![o] = "alive"]
  /\ own' = [own EXCEPT ![u] = Idle]
  /\ UNCHANGED <<handle, id, name, tname, run, kernel, detached, joins, stray>>

----------------------------------------------------------------------------
(* Thread::run in the new thread.  A use of the object after it has been   *)
(* destroyed is recorded; what is read there may be anything.              *)
Gone(o)      == obj[o] \in {"freed", "failed"}
Uses(o, how) == stray' = [stray EXCEPT ![o] = IF Gone(o) THEN @ \cup {how} ELSE @]

\* Mutant: the semaphore is posted first thing.
RunInitNotifies(o) ==
  /\ run[o] = "init"
  /\ sem' = [sem EXCEPT ![o] = @ + 1]
  /\ run' = [run EXCEPT ![o] = "notify"]
  /\ UNCHANGED <<obj, handle, id, name, tname, kernel, detached, joins, stray, own>>

\* t_thread, t_thread_name and m_id are set and m_cb is swapped out.
RunInit(o) ==
  /\ run[o] = "init"
  /\ \E n \in IF Gone(o) THEN Names \cup {None} ELSE {name[o]} : tname' = [tname EXCEPT ![o] = n]
  /\ id' = [id EXCEPT ![o] = TRUE]
  /\ run' = [run EXCEPT ![o] = "notify"]
  /\ Uses(o, "init")
  /\ UNCHANGED <<obj, handle, sem, name, kernel, detached, joins, own>>

\* Mutant: the semaphore is never posted.
RunNotifyNever(o) ==
  /\ run[o] = "notify"
  /\ run' = [run EXCEPT ![o] = "cb"]
  /\ UNCHANGED <<obj, handle, sem, id, name, tname, kernel, detached, joins, stray, own>>

\* Mutant: the semaphore is posted twice.
RunNotifyTwice(o) ==
  /\ run[o] = "notify"
  /\ sem' = [sem EXCEPT ![o] = @ + 2]
  /\ run' = [run EXCEPT ![o] = "cb"]
  /\ UNCHANGED <<obj, handle, id, name, tname, kernel, detached, joins, stray, own>>

RunNotify(o) ==
  /\ run[o] = "notify"
  /\ sem' = [sem EXCEPT ![o] = @ + 1]
  /\ run' = [run EXCEPT ![o] = "cb"]
  /\ Uses(o, "notify")
  /\ UNCHANGED <<obj, handle, id, name, tname, kernel, detached, joins, own>>

\* SetName(n) in the callback: t_thread->m_name, as t_thread is set and is never
\* reset, and t_thread_name, which nobody else can see.
SetName(o, n) ==
  /\ run[o] = "cb"
  /\ name' = [name EXCEPT ![o] = n]
  /\ tname' = [tname EXCEPT ![o] = n]
  /\ Uses(o, "name")
  /\ UNCHANGED <<obj, handle, sem, id, run, kernel, detached, joins, own>>

\* The callback returns: the thread ends, and nothing is left of a detached one.
RunReturns(o) ==
  /\ run[o] = "cb"
  /\ run' = [run EXCEPT ![o] = "done"]
  /\ kernel' = [kernel EXCEPT ![o] = IF detached[o] THEN "reaped" ELSE "exited"]
  /\ UNCHANGED <<obj, handle, sem, id, name, tname, detached, joins, stray, own>>

----------------------------------------------------------------------------
(* join() and ~Thread(): m_thread is tested, and never reset.              *)
JoinEnter(u, o) ==
  /\ own[u].pc = "idle" /\ obj[o] = "alive" /\ joins[o] < MaxJoins
  /\ handle[o]
  /\ joins' = [joins EXCEPT ![o] = @ + 1]
  /\ own' = [own EXCEPT ![u] = [pc |-> "join", obj |-> o]]
  /\ UNCHANGED <<obj, handle, sem, id, name, tname, run, kernel, detached, stray>>

\* pthread_join returns once the thread has ended, and releases it.
JoinReturns(u) ==
  LET o == own[u].obj IN
  /\ own[u].pc = "join" /\ kernel[o] = "exited"
  /\ kernel' = [kernel EXCEPT ![o] = "reaped"]
  /\ own' = [own EXCEPT ![u] = Idle]
  /\ UNCHANGED <<obj, handle, sem, id, name, tname, run, detached, joins, stray>>

\* It fails for a thread that has been released, or that another one joins.
JoinThrows(u) ==
  LET o == own[u].obj IN
  /\ own[u].pc = "join"
  /\ kernel[o] = "reaped" \/ \E w \in Owners \ {u} : own[w] = own[u]
  /\ own' = [own EXCEPT ![u] = Idle]
  /\ UNCHANGED <<obj, handle, sem, id, name, tname, run, kernel, detached, joins, stray>>

\* The last Thread::ptr is dropped, which no caller of join still holds.
DestroyEnter(u, o) ==
  /\ own[u].pc = "idle" /\ obj[o] = "alive"
  /\ \A w \in Owners : own[w].obj # o
  /\ handle[o]
  /\ obj' = [obj EXCEPT ![o] = "dying"]
  /\ own' = [own EXCEPT ![u] = [pc |-> "detach", obj |-> o]]
  /\ UNCHANGED <<handle, sem, id, name, tname, run, kernel, detached, joins, stray>>

\* Mutant: the destructor does not detach.
DetachNot(u) ==
  /\ own[u].pc = "detach"
  /\ obj' = [obj EXCEPT ![own[u].obj] = "freed"]
  /\ own' = [own EXCEPT ![u] = Idle]
  /\ UNCHANGED <<handle, sem, id, name, tname, run, kernel, detached, joins, stray>>

\* pthread_detach: a thread that has ended is released at once, a running one
\* when it ends.  The members are destroyed.
Detach(u) ==
  LET o == own[u].obj IN
  /\ own[u].pc = "detach"
  /\ detached' = [detached EXCEPT ![o] = TRUE]
  /\ kernel' = [kernel EXCEPT ![o] = IF @ = "exited" THEN "reaped" ELSE @]
  /\ obj' = [obj EXCEPT ![o] = "freed"]
  /\ own' = [own EXCEPT ![u] = Idle]
  /\ UNCHANGED <<handle, sem, id, name, tname, run, joins, stray>>

----------------------------------------------------------------------------
OwnerStep(u) ==
  Create(u) \/ WaitReturns(u) \/ JoinReturns(u) \/ JoinThrows(u) \/ Detach(u)

RunStep(o) == RunInit(o) \/ RunNotify(o) \/ RunReturns(o)

Next ==
  \/ \E u \in Owners : \/ OwnerStep(u) \/ CreateFails(u) \/ WaitFails(u)
                       \/ \E o \in Objs, n \in Names : Construct(u, o, n)
                       \/ \E o \in Objs : JoinEnter(u, o) \/ DestroyEnter(u, o)
  \/ \E o \in Objs : RunStep(o) \/ \E n \in Names : SetName(o, n)

Spec == Init /\ [][Next]_vars

\* The scheduler runs every thread that can run, and callbacks return
\* (SetName alone may repeat, so the steps it does not disable stay enabled).
\* That a call fails is never needed for progress.
FairSpec ==
  /\ Spec
  /\ \A u \in Owners : WF_vars(OwnerStep(u))
  /\ \A o \in Objs : WF_vars(RunStep(o))

----------------------------------------------------------------------------
\* When the constructor has returned, the new thread is initialised: the object
\* knows its id, and the object and the thread agree on the name, also while
\* the callback renames the thread (thread.cpp:85-87).
HandshakeDone ==
  \A o \in Objs : obj[o] \in {"alive", "dying"} => id[o] /\ tname[o] = name[o]

\* The owner of an object may drop it as soon as the constructor has returned:
\* what run() does with the object, up to its post on the object's own semaphore
\* (thread.cpp:76-88), it does before any destructor.  Not so SetName() in a
\* callback that outlives the object, which writes to m_name (thread.cpp:72), nor
\* run() if the constructor throws because its wait was interrupted ("failed").
NoUseAfterFree == \A o \in Objs : obj[o] = "freed" => stray[o] \subseteq {"name"}

\* Without these two exceptions, which nothing in the code rules out.
NoStray == \A o \in Objs : stray[o] = {}

\* No thread is left behind: once its object is destroyed and it has ended, it
\* has been released, by a join or by the destructor's detach, whichever of
\* the two ends first (thread.cpp:48-63).  A constructor that throws out of
\* its wait leaves its thread behind ("failed").
ThreadReleased ==
  \A o \in Objs : obj[o] = "freed" /\ run[o] = "done" => kernel[o] = "reaped"

\* pthread_join and pthread_detach are only called on a thread that has neither
\* been joined nor detached, and by one owner at a time (thread.cpp:49 "detach
\* after join will segmatation fault!").
HandleUsable ==
  \A u \in Owners : own[u].pc \in {"join", "detach"} =>
    /\ kernel[own[u].obj] \in {"running", "exited"} /\ ~detached[own[u].obj]
    /\ \A w \in Owners \ {u} : own[w].pc \in {"join", "detach"} => own[w].obj # own[u].obj

\* Constructors, joins and destructors return.
CallsReturn == \A u \in Owners : own[u].pc # "idle" ~> own[u].pc = "idle"
============================================================================
