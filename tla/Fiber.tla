------------------------------- MODULE Fiber -------------------------------
(***************************************************************************)
(* The class Fiber of src/fiber.cpp: coroutines made of ucontext_t's, with *)
(* two thread-local variables that say who runs (cur_fiber) and where a    *)
(* swapOut goes (last_s_fiber, the thread's main fiber).                   *)
(*                                                                         *)
(* What the program believes (cur, state) is kept apart from what happens: *)
(* on[t] is the stack thread t executes on, and saved[f] the stack whose   *)
(* latest point of suspension the m_ctx of f holds.  A context can be      *)
(* resumed once; the m_ctx of a fiber that runs is stale.  The main fiber  *)
(* of thread t and t's own stack are both called t.                        *)
(***************************************************************************)
EXTENDS FiniteSets

CONSTANTS
  Threads,
  Fibers, \* fibers with a callback and a stack of their own
  Misuse, \* calls the code lets the program make and the tests never make
  None    \* no fiber, no stack

ASSUME FiberAssumption ==
  /\ Misuse \subseteq {"nested", "mainyield", "dropself", "early", "ended"}
  /\ Fibers \cap Threads = {}
  /\ None \notin Fibers \cup Threads

VARIABLES
  cur,   \* cur_fiber of each thread
  last,  \* last_s_fiber of each thread
  on,    \* the stack each thread executes on
  saved, \* the stack suspended in each m_ctx
  state, \* m_state
  alive, \* the fibers that exist
  ext,   \* those the program holds a Fiber::ptr to
  self,  \* those MainFunc holds a Fiber::ptr to, on their own stack
  pc     \* where each thread is in the code of Fiber

vars == <<cur, last, on, saved, state, alive, ext, self, pc>>

All   == Fibers \cup Threads
Ended == {"TERM", "EXCEP"}

TypeOK ==
  /\ cur \in [Threads -> All \cup {None}]
  /\ last \in [Threads -> Threads \cup {None}]
  /\ on \in [Threads -> All]
  /\ saved \in [All -> All \cup {None}]
  /\ state \in [All -> {"INIT", "HOLD", "EXEC", "TERM", "READY", "EXCEP"}]
  /\ alive \subseteq All
  /\ ext \subseteq alive \cap Fibers
  /\ self \subseteq alive
  /\ pc \in [Threads -> {"user", "entry", "yield", "release", "leave", "gone"}]

Init ==
  /\ cur = [t \in Threads |-> None]
  /\ last = [t \in Threads |-> None]
  /\ on = [t \in Threads |-> t]
  /\ saved = [f \in All |-> None]
  /\ state = [f \in All |-> "INIT"]
  /\ alive = {} /\ ext = {} /\ self = {}
  /\ pc = [t \in Threads |-> "user"]

\* The callback of a fiber, or the thread's own code, calls a method of f, and
\* holds a Fiber::ptr to it.
Calls(t, f) == pc[t] = "user" /\ f \in ext

\* Where a swapOut goes, and where a swapIn saves the caller.
MainFiber(t) == last[t]

\* swapcontext(&from->m_ctx, &to->m_ctx): the running stack is saved in from,
\* and then execution goes on where to was suspended.
SwapContext(t, from, to) ==
  /\ on' = [on EXCEPT ![t] = IF to = from THEN @ ELSE saved[to]]
  /\ saved' = [f \in All |-> IF f = to THEN None
                             ELSE IF f = from THEN on[t] ELSE saved[f]]

----------------------------------------------------------------------------
\* GetThis() where the thread has no fiber yet: its main fiber is created.
GetThis(t) ==
  /\ pc[t] = "user" /\ cur[t] = None
  /\ alive' = alive \cup {t}
  /\ state' = [state EXCEPT ![t] = "EXEC"]
  /\ cur' = [cur EXCEPT ![t] = t]
  /\ last' = [last EXCEPT ![t] = t]
  /\ UNCHANGED <<on, saved, ext, self, pc>>

\* Fiber(cb): makecontext prepares m_ctx to enter MainFunc on the new stack.
Create(t, f) ==
  /\ pc[t] = "user" /\ f \notin alive
  /\ alive' = alive \cup {f}
  /\ ext' = ext \cup {f}
  /\ state' = [state EXCEPT ![f] = "INIT"]
  /\ saved' = [saved EXCEPT ![f] = f]
  /\ UNCHANGED <<cur, last, on, self, pc>>

\* Mutant: reset does not assert that the fiber has ended.
ResetSuspended(t, f) ==
  /\ Calls(t, f) /\ saved[f] # None
  /\ saved' = [saved EXCEPT ![f] = f]
  /\ state' = [state EXCEPT ![f] = "INIT"]
  /\ UNCHANGED <<cur, last, on, alive, ext, self, pc>>

\* reset(cb), where its assertion holds; "early" of a fiber that has ended but
\* whose last swapOut, in another thread, is still to save its m_ctx.
Reset(t, f) ==
  /\ Calls(t, f)
  /\ state[f] \in Ended \cup {"INIT"}
  /\ saved[f] = None => "early" \in Misuse
  /\ saved' = [saved EXCEPT ![f] = f]
  /\ state' = [state EXCEPT ![f] = "INIT"]
  /\ UNCHANGED <<cur, last, on, alive, ext, self, pc>>

\* What swapIn finds in m_ctx: the entry of MainFunc, the fiber's last swapOut,
\* or, of a fiber that has ended or still runs, nothing that can go on: MainFunc
\* returns with no uc_link, or a stale context is resumed on a stack in use.
Resumed(t, f) ==
  IF saved[f] = None \/ state[f] \in Ended THEN "gone"
  ELSE IF state[f] = "INIT" THEN "entry" ELSE pc[t]

\* Mutant: cur_fiber is not set.
SwapInCurKept(t, f) ==
  /\ Calls(t, f) /\ last[t] # None
  /\ state[f] \notin Ended \cup {"EXEC"} /\ saved[f] # None
  /\ on[t] \in Threads \/ "nested" \in Misuse
  /\ state' = [state EXCEPT ![f] = "EXEC"]
  /\ SwapContext(t, MainFiber(t), f)
  /\ pc' = [pc EXCEPT ![t] = Resumed(t, f)]
  /\ UNCHANGED <<cur, last, alive, ext, self>>

\* swapIn(), by a program that has called GetThis, of a fiber that is not in
\* EXEC; "ended" of one that has ended, "early" of one whose state says that it
\* stopped but whose swapOut, in another thread, has not saved it yet.
SwapIn(t, f) ==
  /\ Calls(t, f) /\ last[t] # None
  /\ state[f] # "EXEC"
  /\ state[f] \in Ended => "ended" \in Misuse
  /\ saved[f] = None => "early" \in Misuse
  /\ on[t] \in Threads \/ "nested" \in Misuse
  /\ state' = [state EXCEPT ![f] = "EXEC"]
  /\ cur' = [cur EXCEPT ![t] = f]
  /\ SwapContext(t, MainFiber(t), f)
  /\ pc' = [pc EXCEPT ![t] = Resumed(t, f)]
  /\ UNCHANGED <<last, alive, ext, self>>

\* Mutant: swapOut saves the running stack in the main fiber.
SwapOutIntoMain(t, f) ==
  /\ cur' = [cur EXCEPT ![t] = MainFiber(t)]
  /\ SwapContext(t, MainFiber(t), MainFiber(t))
  /\ pc' = [pc EXCEPT ![t] = "user"]

\* swapOut() of the fiber f.
SwapOut(t, f) ==
  /\ cur' = [cur EXCEPT ![t] = MainFiber(t)]
  /\ SwapContext(t, f, MainFiber(t))
  /\ pc' = [pc EXCEPT ![t] = "user"]

----------------------------------------------------------------------------
\* YieldToReady() and YieldToHold(): the state is set first, and then the
\* fiber is swapped out.
YieldState(t, st) ==
  /\ pc[t] = "user" /\ cur[t] # None
  /\ on[t] \in Fibers \/ "mainyield" \in Misuse
  /\ state' = [state EXCEPT ![cur[t]] = st]
  /\ pc' = [pc EXCEPT ![t] = "yield"]
  /\ UNCHANGED <<cur, last, on, saved, alive, ext, self>>

YieldSwap(t) ==
  /\ pc[t] = "yield"
  /\ SwapOut(t, cur[t])
  /\ UNCHANGED <<last, state, alive, ext, self>>

\* Mutant: MainFunc keeps a plain pointer.
EnterRaw(t) ==
  /\ pc[t] = "entry"
  /\ pc' = [pc EXCEPT ![t] = "user"]
  /\ UNCHANGED <<cur, last, on, saved, state, alive, ext, self>>

\* MainFunc up to the callback: GetThis() is kept on the fiber's stack.
Enter(t) ==
  /\ pc[t] = "entry"
  /\ self' = self \cup {cur[t]}
  /\ pc' = [pc EXCEPT ![t] = "user"]
  /\ UNCHANGED <<cur, last, on, saved, state, alive, ext>>

\* The callback returns or throws.
CallbackEnds(t, st) ==
  /\ pc[t] = "user" /\ on[t] \in Fibers
  /\ state' = [state EXCEPT ![on[t]] = st]
  /\ pc' = [pc EXCEPT ![t] = "release"]
  /\ UNCHANGED <<cur, last, on, saved, alive, ext, self>>

\* Mutant: the fiber is destroyed at its end, whoever else holds it.
ReleaseDeletes(t) ==
  /\ pc[t] = "release"
  /\ self' = self \ {on[t]}
  /\ alive' = alive \ {on[t]}
  /\ pc' = [pc EXCEPT ![t] = "leave"]
  /\ UNCHANGED <<cur, last, on, saved, state, ext>>

\* cur.reset(): the fiber is destroyed here if nobody else holds it.
Release(t) ==
  /\ pc[t] = "release"
  /\ self' = self \ {on[t]}
  /\ alive' = alive \ ({on[t]} \ ext)
  /\ pc' = [pc EXCEPT ![t] = "leave"]
  /\ UNCHANGED <<cur, last, on, saved, state, ext>>

\* Mutant: the last swapOut is missing: the callback's thread spins at its end.
LeaveNever(t) == pc[t] = "leave" /\ UNCHANGED vars

\* raw_ptr->swapOut()
Leave(t) ==
  /\ pc[t] = "leave"
  /\ SwapOut(t, on[t])
  /\ UNCHANGED <<last, state, alive, ext, self>>

\* Mutant: the fiber is deleted through a pointer the program keeps.
DropDangling(t, f) ==
  /\ Calls(t, f)
  /\ \A u \in Threads : on[u] # f
  /\ alive' = alive \ ({f} \ self)
  /\ UNCHANGED <<cur, last, on, saved, state, ext, self, pc>>

\* The program drops its Fiber::ptr; ~Fiber runs unless MainFunc holds the
\* fiber.  A fiber that runs is held by the caller of swapIn.
Drop(t, f) ==
  /\ Calls(t, f)
  /\ \A u \in Threads : on[u] # f \/ ("dropself" \in Misuse /\ u = t)
  /\ ext' = ext \ {f}
  /\ alive' = alive \ ({f} \ self)
  /\ UNCHANGED <<cur, last, on, saved, state, self, pc>>

\* The thread ends: last_s_fiber is destroyed, and with it the main fiber.
ThreadEnds(t) ==
  /\ pc[t] = "user" /\ on[t] = t /\ last[t] = t
  /\ last' = [last EXCEPT ![t] = None]
  /\ alive' = alive \ {t}
  /\ cur' = [cur EXCEPT ![t] = IF @ = t THEN None ELSE @]
  /\ pc' = [pc EXCEPT ![t] = "gone"]
  /\ UNCHANGED <<on, saved, state, ext, self>>

----------------------------------------------------------------------------
\* What goes on by itself once a callback runs: it yields or ends at last.
Proceed(t) ==
  \/ Enter(t) \/ YieldSwap(t) \/ Release(t) \/ Leave(t)
  \/ on[t] \in Fibers /\ \E st \in {"READY", "HOLD"} : YieldState(t, st)
  \/ \E st \in Ended : CallbackEnds(t, st)

Next ==
  \E t \in Threads :
    \/ GetThis(t) \/ ThreadEnds(t)
    \/ Enter(t) \/ YieldSwap(t) \/ Release(t) \/ Leave(t)
    \/ \E st \in {"READY", "HOLD"} : YieldState(t, st)
    \/ \E st \in Ended : CallbackEnds(t, st)
    \/ \E f \in Fibers : Create(t, f) \/ Reset(t, f) \/ SwapIn(t, f) \/ Drop(t, f)

Spec == Init /\ [][Next]_vars

\* Every thread is scheduled, and callbacks yield or end.
FairSpec == Spec /\ \A t \in Threads : WF_vars(Proceed(t))

----------------------------------------------------------------------------
Running(f) == \E t \in Threads : on[t] = f

\* cur_fiber is the fiber whose stack the thread executes on
\* (fiber.cpp:11 "cur fiber that was exec").
CurIsRunning == \A t \in Threads : cur[t] # None => on[t] = cur[t]

\* Wherever a fiber is suspended, its own m_ctx and no other leads back into
\* it; this includes the main fiber, so every swapOut returns to its own thread
\* (fiber.cpp:92, 99).
ContextsInPlace ==
  \A f \in alive : saved[f] = IF Running(f) THEN None ELSE f

\* No two threads ever execute on one stack (fiber.cpp:12-14, thread_local).
StacksExclusive == \A t, u \in Threads : on[t] = on[u] => t = u

\* ~Fiber runs where its assertions hold (fiber.cpp:59, 64).
DestructorAsserts ==
  [][\A f \in alive \ alive' :
       IF f \in Fibers THEN state[f] \in Ended \cup {"INIT"}
                       ELSE state[f] = "EXEC"]_vars

\* No thread executes on the stack of a fiber that has been destroyed: MainFunc
\* gives up its own Fiber::ptr and then still has to swap out (fiber.cpp:154-158
\* "we need to handle destruct carefully").
StackOutlivesUse == \A t \in Threads : on[t] \in Fibers => on[t] \in alive

\* A fiber that swapped out or ended has given control back to its thread.
ControlReturns == \A t \in Threads : on[t] \in Fibers ~> on[t] = t

\* How far a fiber has come that exists and does not run.
Progress(f) == [INIT |-> "new", HOLD |-> "suspended", READY |-> "suspended",
                EXEC |-> "active", TERM |-> "done", EXCEP |-> "done"][state[f]]

Status(f) == IF f \notin alive THEN "absent"
             ELSE IF Running(f) THEN "active" ELSE Progress(f)

\* Fibers implement coroutines.
C == INSTANCE Coroutine WITH
       Coroutines <- Fibers, active <- on,
       status <- [f \in Fibers |-> Status(f)]

ImplementsCoroutines == C!CSpec
============================================================================
