---------------------------- MODULE FiberProofs ----------------------------
(***************************************************************************)
(* Proofs about Fiber, for any threads and fibers, in programs that use    *)
(* fibers as the tests do (Misuse = {}): cur_fiber and the saved contexts  *)
(* are right, fibers are destroyed when nothing runs on them and their     *)
(* destructors' assertions hold, and fibers implement coroutines.          *)
(*                                                                         *)
(* ContextsInPlace is inductive only with what the thread-local variables  *)
(* say (InPlace): a swapOut goes where last_s_fiber points.  Destruction   *)
(* and the refinement need who holds a fiber (SelfHeld) and how far in     *)
(* MainFunc it is (InStep).                                                *)
(***************************************************************************)
EXTENDS Fiber, TLAPS

\* Without nested calls of swapIn, yields of a main fiber and fibers that drop
\* themselves, a thread executes on its own stack or on that of a fiber the
\* program holds, and its thread-local variables say so.
InPlace ==
  \A t \in Threads :
    /\ on[t] \in ext \cup {t}
    /\ last[t] = IF t \in alive THEN t ELSE None
    /\ cur[t] = IF t \in alive THEN on[t] ELSE None
    /\ t \notin alive => on[t] = t /\ saved[t] = None
    /\ t \in alive => state[t] = "EXEC"
    /\ pc[t] \in {"entry", "yield", "release", "leave"} => on[t] \in Fibers

\* A fiber that executes has the state its place in MainFunc implies.
InStep ==
  \A t \in Threads : on[t] \in Fibers =>
    /\ pc[t] \in {"user", "yield"} => on[t] \in self
    /\ pc[t] = "yield" => state[on[t]] \in {"READY", "HOLD"}
    /\ pc[t] \in {"release", "leave"} => state[on[t]] \in Ended

\* A fiber that is suspended in its callback is held by MainFunc.
SelfHeld ==
  /\ self \subseteq Fibers
  /\ \A f \in (alive \cap Fibers) \ self :
       Running(f) \/ state[f] \in Ended \cup {"INIT"}

Inv ==
  TypeOK /\ InPlace /\ InStep /\ SelfHeld /\ StacksExclusive /\ ContextsInPlace

\* Before the first call there are neither main fibers nor fibers.
LEMMA InitInv == Init => Inv
<1> SUFFICES ASSUME Init PROVE Inv
  OBVIOUS
<1> USE FiberAssumption DEF Init, All
<1>1. TypeOK
  BY DEF TypeOK
<1>2. InPlace
  BY DEF InPlace
<1>3. InStep /\ SelfHeld
  BY DEF InStep, SelfHeld
<1>4. StacksExclusive /\ ContextsInPlace
  BY DEF StacksExclusive, ContextsInPlace
<1> QED
  BY <1>1, <1>2, <1>3, <1>4 DEF Inv

----------------------------------------------------------------------------
(* Each step preserves the invariant.                                      *)
LEMMA GetThisInv ==
  ASSUME Inv, Misuse = {}, NEW t \in Threads, GetThis(t)
  PROVE  Inv'
<1> USE FiberAssumption DEF Inv, GetThis
<1>1. TypeOK'
  BY DEF TypeOK, InPlace
<1>2. InPlace'
  BY DEF TypeOK, InPlace
<1>3. InStep'
  BY DEF InStep
<1>4. SelfHeld'
  BY DEF SelfHeld, Running
<1>5. StacksExclusive'
  BY DEF StacksExclusive
<1>6. ContextsInPlace'
  BY DEF InPlace, ContextsInPlace, Running
<1> QED
  BY <1>1, <1>2, <1>3, <1>4, <1>5, <1>6

LEMMA CreateInv ==
  ASSUME Inv, Misuse = {}, NEW t \in Threads, NEW f \in Fibers, Create(t, f)
  PROVE  Inv'
<1> USE FiberAssumption DEF Inv, Create
<1>1. TypeOK'
  BY DEF TypeOK, All
<1>2. InPlace'
  BY DEF InPlace
<1>3. InStep'
  BY DEF TypeOK, InPlace, InStep
<1>4. SelfHeld'
  BY DEF TypeOK, All, SelfHeld, Running
<1>5. StacksExclusive'
  BY DEF StacksExclusive
<1>6. ContextsInPlace'
  BY DEF TypeOK, All, InPlace, ContextsInPlace, Running
<1> QED
  BY <1>1, <1>2, <1>3, <1>4, <1>5, <1>6

LEMMA ResetInv ==
  ASSUME Inv, Misuse = {}, NEW t \in Threads, NEW f \in Fibers, Reset(t, f)
  PROVE  Inv'
<1> USE FiberAssumption DEF Inv, Reset, Calls
<1>1. TypeOK'
  BY DEF TypeOK
<1>2. InPlace'
  BY DEF InPlace
<1>3. InStep'
  BY DEF TypeOK, InStep, ContextsInPlace, Running
<1>4. SelfHeld'
  BY DEF SelfHeld, Running
<1>5. StacksExclusive'
  BY DEF StacksExclusive
<1>6. ContextsInPlace'
  BY DEF ContextsInPlace, Running
<1> QED
  BY <1>1, <1>2, <1>3, <1>4, <1>5, <1>6

LEMMA SwapInInv ==
  ASSUME Inv, Misuse = {}, NEW t \in Threads, NEW f \in Fibers, SwapIn(t, f)
  PROVE  Inv'
<1> USE FiberAssumption DEF Inv, SwapIn, Resumed, SwapContext, MainFiber, Calls
<1>1. TypeOK'
  BY DEF TypeOK
<1>2. InPlace'
  BY DEF TypeOK, InPlace, ContextsInPlace
<1>3. InStep'
  BY DEF TypeOK, InStep, SelfHeld, ContextsInPlace, Running
<1>4. SelfHeld'
  BY DEF TypeOK, SelfHeld, ContextsInPlace, Running
<1>5. StacksExclusive'
  BY DEF TypeOK, StacksExclusive, ContextsInPlace, Running
<1>6. ContextsInPlace'
  BY DEF TypeOK, InPlace, ContextsInPlace, Running
<1> QED
  BY <1>1, <1>2, <1>3, <1>4, <1>5, <1>6

LEMMA YieldStateInv ==
  ASSUME Inv, Misuse = {}, NEW t \in Threads, NEW st \in {"READY", "HOLD"},
         YieldState(t, st)
  PROVE  Inv'
<1> USE FiberAssumption DEF Inv, YieldState
<1>1. TypeOK'
  BY DEF TypeOK
<1>2. InPlace'
  BY DEF InPlace
<1>3. InStep'
  BY DEF TypeOK, InPlace, InStep, StacksExclusive
<1>4. SelfHeld'
  BY DEF InPlace, SelfHeld, Running
<1>5. StacksExclusive'
  BY DEF StacksExclusive
<1>6. ContextsInPlace'
  BY DEF ContextsInPlace, Running
<1> QED
  BY <1>1, <1>2, <1>3, <1>4, <1>5, <1>6

LEMMA YieldSwapInv ==
  ASSUME Inv, Misuse = {}, NEW t \in Threads, YieldSwap(t)
  PROVE  Inv'
<1> USE FiberAssumption DEF Inv, YieldSwap, SwapOut, SwapContext, MainFiber
<1>1. TypeOK'
  <2>1. last[t] = t /\ t \in alive /\ on[t] \in Fibers
    BY DEF TypeOK, InPlace
  <2>2. saved[t] = t /\ on[t] \in All
    BY <2>1 DEF TypeOK, InPlace, ContextsInPlace, Running, All
  <2>3. on' \in [Threads -> All]
    BY <2>1, <2>2 DEF TypeOK, All
  <2>4. saved' \in [All -> All \cup {None}]
    BY <2>2 DEF TypeOK
  <2> QED
    BY <2>1, <2>3, <2>4 DEF TypeOK, All
<1>2. InPlace'
  BY DEF TypeOK, InPlace, ContextsInPlace, Running
<1>3. InStep'
  BY DEF InPlace, InStep, ContextsInPlace
<1>4. SelfHeld'
  BY DEF InStep, SelfHeld, Running
<1>5. StacksExclusive'
  BY DEF TypeOK, InPlace, StacksExclusive, ContextsInPlace
<1>6. ContextsInPlace'
  BY DEF TypeOK, InPlace, StacksExclusive, ContextsInPlace, Running
<1> QED
  BY <1>1, <1>2, <1>3, <1>4, <1>5, <1>6

LEMMA EnterInv ==
  ASSUME Inv, Misuse = {}, NEW t \in Threads, Enter(t)
  PROVE  Inv'
<1> USE FiberAssumption DEF Inv, Enter
<1>1. TypeOK'
  BY DEF TypeOK, InPlace
<1>2. InPlace'
  BY DEF InPlace
<1>3. InStep'
  BY DEF InPlace, InStep
<1>4. SelfHeld'
  BY DEF InPlace, SelfHeld, Running
<1>5. StacksExclusive'
  BY DEF StacksExclusive
<1>6. ContextsInPlace'
  BY DEF ContextsInPlace, Running
<1> QED
  BY <1>1, <1>2, <1>3, <1>4, <1>5, <1>6

LEMMA CallbackEndsInv ==
  ASSUME Inv, Misuse = {}, NEW t \in Threads, NEW st \in Ended,
         CallbackEnds(t, st)
  PROVE  Inv'
<1> USE FiberAssumption DEF Inv, CallbackEnds
<1>1. TypeOK'
  BY DEF TypeOK, Ended
<1>2. InPlace'
  BY DEF InPlace
<1>3. InStep'
  BY DEF TypeOK, InStep, StacksExclusive
<1>4. SelfHeld'
  BY DEF SelfHeld, Running
<1>5. StacksExclusive'
  BY DEF StacksExclusive
<1>6. ContextsInPlace'
  BY DEF ContextsInPlace, Running
<1> QED
  BY <1>1, <1>2, <1>3, <1>4, <1>5, <1>6

LEMMA ReleaseInv ==
  ASSUME Inv, Misuse = {}, NEW t \in Threads, Release(t)
  PROVE  Inv'
<1> USE FiberAssumption DEF Inv, Release
<1>1. TypeOK'
  BY DEF TypeOK
<1>2. InPlace'
  BY DEF InPlace
<1>3. InStep'
  BY DEF InStep, StacksExclusive
<1>4. SelfHeld'
  BY DEF SelfHeld, Running
<1>5. StacksExclusive'
  BY DEF StacksExclusive
<1>6. ContextsInPlace'
  BY DEF ContextsInPlace, Running
<1> QED
  BY <1>1, <1>2, <1>3, <1>4, <1>5, <1>6

LEMMA LeaveInv ==
  ASSUME Inv, Misuse = {}, NEW t \in Threads, Leave(t)
  PROVE  Inv'
<1> USE FiberAssumption DEF Inv, Leave, SwapOut, SwapContext, MainFiber
<1>1. TypeOK'
  <2>1. last[t] = t /\ t \in alive /\ on[t] \in Fibers
    BY DEF TypeOK, InPlace
  <2>2. saved[t] = t /\ on[t] \in All
    BY <2>1 DEF TypeOK, InPlace, ContextsInPlace, Running, All
  <2>3. on' \in [Threads -> All]
    BY <2>1, <2>2 DEF TypeOK, All
  <2>4. saved' \in [All -> All \cup {None}]
    BY <2>2 DEF TypeOK
  <2> QED
    BY <2>1, <2>3, <2>4 DEF TypeOK, All
<1>2. InPlace'
  BY DEF TypeOK, InPlace, ContextsInPlace, Running
<1>3. InStep'
  BY DEF TypeOK, InPlace, InStep, ContextsInPlace
<1>4. SelfHeld'
  BY DEF InStep, SelfHeld, Running
<1>5. StacksExclusive'
  BY DEF TypeOK, InPlace, StacksExclusive, ContextsInPlace
<1>6. ContextsInPlace'
  BY DEF TypeOK, InPlace, StacksExclusive, ContextsInPlace, Running
<1> QED
  BY <1>1, <1>2, <1>3, <1>4, <1>5, <1>6

LEMMA DropInv ==
  ASSUME Inv, Misuse = {}, NEW t \in Threads, NEW f \in Fibers, Drop(t, f)
  PROVE  Inv'
<1> USE FiberAssumption DEF Inv, Drop, Calls
<1>1. TypeOK'
  BY SMT DEF TypeOK
<1>2. InPlace'
  BY DEF InPlace
<1>3. InStep'
  BY DEF InStep
<1>4. SelfHeld'
  BY DEF SelfHeld, Running
<1>5. StacksExclusive'
  BY DEF StacksExclusive
<1>6. ContextsInPlace'
  BY DEF ContextsInPlace, Running
<1> QED
  BY <1>1, <1>2, <1>3, <1>4, <1>5, <1>6

LEMMA ThreadEndsInv ==
  ASSUME Inv, Misuse = {}, NEW t \in Threads, ThreadEnds(t)
  PROVE  Inv'
<1> USE FiberAssumption DEF Inv, ThreadEnds
<1>1. TypeOK'
  BY DEF TypeOK, SelfHeld
<1>2. InPlace'
  BY DEF TypeOK, InPlace, ContextsInPlace, Running
<1>3. InStep'
  BY DEF InStep
<1>4. SelfHeld'
  BY DEF SelfHeld, Running
<1>5. StacksExclusive'
  BY DEF StacksExclusive
<1>6. ContextsInPlace'
  BY DEF ContextsInPlace, Running
<1> QED
  BY <1>1, <1>2, <1>3, <1>4, <1>5, <1>6


LEMMA NextInv == Misuse = {} /\ Inv /\ [Next]_vars => Inv'
<1> SUFFICES ASSUME Misuse = {}, Inv, [Next]_vars
             PROVE  Inv'
  OBVIOUS
<1>1. CASE Next
  BY <1>1, GetThisInv, CreateInv, ResetInv, SwapInInv, YieldStateInv,
     YieldSwapInv, EnterInv, CallbackEndsInv, ReleaseInv, LeaveInv, DropInv,
     ThreadEndsInv DEF Next
<1>2. CASE UNCHANGED vars
  BY <1>2 DEF vars, Inv, TypeOK, InPlace, InStep, SelfHeld, StacksExclusive,
     ContextsInPlace, Running
<1> QED
  BY <1>1, <1>2

LEMMA SpecInv == ASSUME Misuse = {} PROVE Spec => []Inv
<1>1. Misuse = {} /\ Inv /\ [Next]_vars => Inv'
  BY NextInv
<1> QED
  BY InitInv, <1>1, PTL DEF Spec

\* The variables stay in their types; in particular every thread is on a stack:
\* no swapIn or swapOut resumes a context that was not saved, or was resumed
\* already (fiber.cpp:92, 99).
THEOREM TypeCorrect == ASSUME Misuse = {} PROVE Spec => []TypeOK
<1>1. Inv => TypeOK
  BY DEF Inv
<1> QED
  BY <1>1, SpecInv, PTL

\* cur_fiber is right in every thread (fiber.cpp:11).
THEOREM CurCorrect == ASSUME Misuse = {} PROVE Spec => []CurIsRunning
<1>1. Inv => CurIsRunning
  BY FiberAssumption DEF Inv, InPlace, CurIsRunning
<1> QED
  BY <1>1, SpecInv, PTL

\* Every suspended fiber can be resumed, by its own context and only by that
\* (fiber.cpp:92, 99).
THEOREM ContextsCorrect == ASSUME Misuse = {} PROVE Spec => []ContextsInPlace
<1>1. Inv => ContextsInPlace
  BY DEF Inv
<1> QED
  BY <1>1, SpecInv, PTL

\* A stack is not freed under the thread that executes on it
\* (fiber.cpp:154-158).
THEOREM StacksAlive == ASSUME Misuse = {} PROVE Spec => []StackOutlivesUse
<1>1. Inv => StackOutlivesUse
  BY FiberAssumption DEF Inv, TypeOK, InPlace, StackOutlivesUse
<1> QED
  BY <1>1, SpecInv, PTL

\* A step destroys only what a destructor would accept.
LEMMA DropsOnlySettled ==
  ASSUME Inv, Misuse = {}, [Next]_vars, NEW f \in alive \ alive'
  PROVE  IF f \in Fibers THEN state[f] \in Ended \cup {"INIT"}
                         ELSE state[f] = "EXEC"
<1> USE FiberAssumption DEF Inv
<1>1. ASSUME NEW t \in Threads, NEW g \in Fibers, Drop(t, g)
      PROVE  f = g /\ state[f] \in Ended \cup {"INIT"}
  BY <1>1 DEF Drop, SelfHeld, Running
<1>2. ASSUME NEW t \in Threads, ThreadEnds(t)
      PROVE  f = t /\ state[f] = "EXEC"
  BY <1>2 DEF ThreadEnds, InPlace
<1>3. ASSUME NEW t \in Threads, Release(t)
      PROVE  FALSE
  BY <1>3 DEF Release, InPlace
<1>4. CASE UNCHANGED vars
  BY <1>4 DEF vars
<1> QED
  BY <1>1, <1>2, <1>3, <1>4 DEF Next, GetThis, Create, Reset, SwapIn,
     YieldState, YieldSwap, Enter, CallbackEnds, Leave

\* The assertions of ~Fiber hold (fiber.cpp:59, 64).
THEOREM DestructorsHold == ASSUME Misuse = {} PROVE Spec => DestructorAsserts
<1>1. Inv /\ [Next]_vars =>
        [\A f \in alive \ alive' :
           IF f \in Fibers THEN state[f] \in Ended \cup {"INIT"}
                           ELSE state[f] = "EXEC"]_vars
  BY DropsOnlySettled
<1> QED
  BY <1>1, SpecInv, PTL DEF Spec, DestructorAsserts

----------------------------------------------------------------------------
\* The steps on a fiber are the steps of its coroutine.
LEMMA CreateMaps ==
  ASSUME Inv, Misuse = {}, NEW t \in Threads, NEW f \in Fibers, Create(t, f)
  PROVE  C!New(f)
<1> USE FiberAssumption DEF Inv, Create
<1>1. Status(f) = "absent" /\ Status(f)' = "new"
  BY DEF TypeOK, All, InPlace, Status, Running, Progress, Ended
<1>2. \A g \in Fibers \ {f} : Status(g)' = Status(g)
  BY DEF TypeOK, All, Status, Running, Progress
<1> QED
  BY <1>1, <1>2 DEF C!New, C!Move

LEMMA ResetMaps ==
  ASSUME Inv, Misuse = {}, NEW t \in Threads, NEW f \in Fibers, Reset(t, f)
  PROVE  C!Restart(f) \/ UNCHANGED C!cvars
<1> USE FiberAssumption DEF Inv, Reset, Calls
<1>1. Status(f) \in {"new", "done"} /\ Status(f)' = "new"
  BY DEF TypeOK, All, ContextsInPlace, Status, Running, Progress, Ended
<1>2. \A g \in Fibers \ {f} : Status(g)' = Status(g)
  BY DEF TypeOK, All, Status, Running, Progress
<1>3. CASE Status(f) = "new"
  <2>1. \A g \in Fibers : Status(g)' = Status(g)
    BY <1>1, <1>2, <1>3
  <2> QED
    BY <2>1 DEF C!cvars
<1>4. CASE Status(f) = "done"
  BY <1>1, <1>2, <1>4 DEF C!Restart, C!Move
<1> QED
  BY <1>1, <1>3, <1>4

LEMMA SwapInMaps ==
  ASSUME Inv, Misuse = {}, NEW t \in Threads, NEW f \in Fibers, SwapIn(t, f)
  PROVE  C!Resume(t, f)
<1> USE FiberAssumption DEF Inv, SwapIn, SwapContext, MainFiber, Calls
<1>1. on[t] = t /\ on' = [on EXCEPT ![t] = f]
  BY DEF TypeOK, All, InPlace, ContextsInPlace, Running
<1>2. Status(f) \in {"new", "suspended"} /\ Status(f)' = "active"
  BY <1>1 DEF TypeOK, All, ContextsInPlace, Status, Running, Progress, Ended
<1>3. \A g \in Fibers \ {f} : Status(g)' = Status(g)
  BY <1>1 DEF TypeOK, All, Status, Running, Progress, Ended
<1> QED
  BY <1>1, <1>2, <1>3 DEF C!Resume, C!Move

\* A fiber that swaps out suspends or finishes as its state says.
LEMMA SwapOutMaps ==
  ASSUME Inv, Misuse = {}, NEW t \in Threads, SwapOut(t, on[t]), on[t] \in Fibers,
         UNCHANGED <<last, state, alive, ext, self>>,
         NEW how \in {"suspended", "done"},
         IF how = "done" THEN state[on[t]] \in Ended
                         ELSE state[on[t]] \in {"READY", "HOLD"}
  PROVE  C!Leave(t, on[t], how)
<1> USE FiberAssumption DEF Inv, SwapOut, SwapContext, MainFiber
<1>0. on[t] # t /\ last[t] = t /\ saved[t] = t
  BY DEF TypeOK, All, InPlace, ContextsInPlace, StacksExclusive, Running
<1>1. on' = [on EXCEPT ![t] = t]
  BY <1>0 DEF TypeOK, All, InPlace, ContextsInPlace, StacksExclusive, Running
<1>2. Status(on[t]) = "active"
  BY DEF TypeOK, All, InPlace, Status, Running, Progress
<1>3. ~ \E u \in Threads : on'[u] = on[t]
  BY <1>1 DEF TypeOK, StacksExclusive
<1>4. on[t] \in alive
  BY DEF TypeOK, InPlace
<1>5. \A g \in Fibers : Status(g)' = IF g = on[t] THEN how ELSE Status(g)
  <2> SUFFICES ASSUME NEW g \in Fibers
               PROVE  Status(g)' = IF g = on[t] THEN how ELSE Status(g)
    OBVIOUS
  <2>1. CASE g = on[t]
    <3>1. Status(g)' = Progress(g)
      BY <1>3, <1>4, <2>1 DEF Status, Running, Progress
    <3>2. Progress(g) = how
      BY <2>1 DEF TypeOK, All, Progress, Ended
    <3> QED
      BY <2>1, <3>1, <3>2
  <2>2. CASE g # on[t]
    <3>1. Running(g)' <=> Running(g)
      BY <1>1, <2>2 DEF TypeOK, All, Running
    <3> QED
      BY <2>2, <3>1 DEF Status, Progress
  <2> QED
    BY <2>1, <2>2
<1> QED
  BY <1>1, <1>2, <1>5 DEF C!Leave, C!Move

LEMMA DropMaps ==
  ASSUME Inv, Misuse = {}, NEW t \in Threads, NEW f \in Fibers, Drop(t, f)
  PROVE  C!Delete(f) \/ UNCHANGED C!cvars
<1> USE FiberAssumption DEF Inv, Drop, Calls
<1>1. CASE f \in self
  <2>1. alive' = alive
    BY <1>1
  <2>2. \A g \in Fibers : Status(g)' = Status(g)
    BY <2>1 DEF Status, Running, Progress
  <2> QED
    BY <2>2 DEF C!cvars
<1>2. CASE f \notin self
  <2>1. Status(f) \in {"new", "done"} /\ Status(f)' = "absent"
    BY <1>2 DEF TypeOK, SelfHeld, Status, Running, Progress, Ended
  <2>2. \A g \in Fibers \ {f} : Status(g)' = Status(g)
    BY DEF Status, Running, Progress
  <2> QED
    BY <2>1, <2>2 DEF C!Delete, C!Move
<1> QED
  BY <1>1, <1>2

\* All other steps are of no concern to the coroutines.
LEMMA OthersStutter ==
  ASSUME Inv, Misuse = {}, NEW t \in Threads,
         \/ GetThis(t) \/ ThreadEnds(t) \/ Enter(t) \/ Release(t)
         \/ \E st \in {"READY", "HOLD"} : YieldState(t, st)
         \/ \E st \in Ended : CallbackEnds(t, st)
  PROVE  UNCHANGED C!cvars
<1> USE FiberAssumption DEF Inv
<1>1. on' = on
  BY DEF GetThis, ThreadEnds, Enter, Release, YieldState, CallbackEnds
<1>2. \A f \in Fibers : f \in alive' <=> f \in alive
  BY DEF GetThis, ThreadEnds, Enter, Release, YieldState, CallbackEnds, InPlace
<1>3. \A f \in Fibers : state'[f] = state[f] \/ Running(f)
  BY DEF GetThis, ThreadEnds, Enter, Release, YieldState, CallbackEnds, TypeOK,
         All, InPlace, Running
<1>4. \A f \in Fibers : Status(f)' = Status(f)
  BY <1>1, <1>2, <1>3 DEF Status, Running, Progress
<1> QED
  BY <1>1, <1>4 DEF C!cvars

LEMMA StepMaps ==
  Misuse = {} /\ Inv /\ [Next]_vars => [C!CNext]_(C!cvars)
<1> SUFFICES ASSUME Misuse = {}, Inv, [Next]_vars
             PROVE  [C!CNext]_(C!cvars)
  OBVIOUS
<1>1. ASSUME NEW t \in Threads, YieldSwap(t)
      PROVE  C!CNext
  <2>1. on[t] \in Fibers /\ cur[t] = on[t] /\ state[on[t]] \in {"READY", "HOLD"}
    BY <1>1, FiberAssumption DEF YieldSwap, Inv, TypeOK, InPlace, InStep
  <2>2. C!Leave(t, on[t], "suspended")
    BY <1>1, <2>1, SwapOutMaps DEF YieldSwap
  <2> QED
    BY <2>1, <2>2 DEF C!CNext
<1>2. ASSUME NEW t \in Threads, Leave(t)
      PROVE  C!CNext
  <2>1. on[t] \in Fibers /\ state[on[t]] \in Ended
    BY <1>2 DEF Leave, Inv, InPlace, InStep
  <2>2. C!Leave(t, on[t], "done")
    BY <1>2, <2>1, SwapOutMaps DEF Leave
  <2> QED
    BY <2>1, <2>2 DEF C!CNext
<1>3. ASSUME NEW t \in Threads, NEW f \in Fibers,
             Create(t, f) \/ Reset(t, f) \/ SwapIn(t, f) \/ Drop(t, f)
      PROVE  [C!CNext]_(C!cvars)
  BY <1>3, CreateMaps, ResetMaps, SwapInMaps, DropMaps DEF C!CNext
<1>4. CASE UNCHANGED vars
  BY <1>4 DEF vars, C!cvars, Status, Running, Progress
<1> QED
  BY <1>1, <1>2, <1>3, <1>4, OthersStutter DEF Next

\* The protocol of cur_fiber and last_s_fiber makes fibers coroutines
\* (fiber.cpp:83-105).
THEOREM FibersAreCoroutines ==
  ASSUME Misuse = {}
  PROVE  Spec => ImplementsCoroutines
<1>1. Init => C!CInit
  BY DEF Init, C!CInit, Status
<1>2. Inv /\ [Next]_vars => [C!CNext]_(C!cvars)
  BY StepMaps
<1> QED
  BY <1>1, <1>2, SpecInv, PTL DEF Spec, ImplementsCoroutines, C!CSpec

============================================================================
