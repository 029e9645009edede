---------------------------- MODULE LoggerProofs ----------------------------
(* Proofs about Logger and LogConfig, for any threads, loggers, appenders,  *)
(* levels and definitions.  The heart is LockInv: a logger's mutex is held  *)
(* by the thread whose call works on that logger, or works on the root      *)
(* logger in its place.                                                     *)
EXTENDS LogConfig, FiniteSetTheorems, WellFoundedInduction, TLAPS

\* The logger a call holds the mutex of; log() may hold two.
Holds(c, l) == (c.pc \notin {"idle", "enter"} /\ c.at = l) \/ c.outer = l

\* log() goes to the root logger only from another one.
WellFormed(c) ==
  /\ c.pc # "idle" => c.at \in Loggers
  /\ c.outer # None => /\ c.outer \in Loggers \ {Root} /\ c.at = Root
                       /\ c.pc \in {"enter", "loop", "return"}

Shape ==
  /\ call \in [Threads -> Call] /\ \A t \in Threads : WellFormed(call[t])
  /\ mtx \in [Loggers -> Threads \cup {None}]
  /\ apps = [l \in Loggers |-> apps[l]]

LockInv == \A t \in Threads, l \in Loggers : Holds(call[t], l) <=> mtx[l] = t

Inv == Shape /\ LockInv

LEMMA NoneIsNone == None \notin Threads /\ None \notin Loggers
BY LoggerAssumption DEF LoggerAssumption, Threads

\* A step of one call, with what it does to the mutexes.
LEMMA CallStep ==
  ASSUME Inv, NEW t \in Threads, NEW c \in Call, WellFormed(c),
         call' = [call EXCEPT ![t] = c],
         mtx' \in [Loggers -> Threads \cup {None}],
         \A l \in Loggers : Holds(c, l) <=> mtx'[l] = t,
         \A l \in Loggers : mtx'[l] # t /\ mtx[l] # t => mtx'[l] = mtx[l],
         \A l \in Loggers : mtx'[l] # mtx[l] => mtx[l] \in {None, t} /\ mtx'[l] \in {None, t},
         apps' = [l \in Loggers |-> apps'[l]]
  PROVE  Inv'
<1>1. call' \in [Threads -> Call] /\ call'[t] = c /\ \A u \in Threads : u # t => call'[u] = call[u]
  BY DEF Inv, Shape
<1>2. \A u \in Threads : WellFormed(call'[u])
  BY <1>1 DEF Inv, Shape
<1>3. ASSUME NEW u \in Threads, NEW l \in Loggers PROVE Holds(call'[u], l) <=> mtx'[l] = u
  <2>1. CASE u = t
    BY <1>1, <2>1
  <2>2. CASE u # t
    BY <1>1, <2>2, NoneIsNone DEF Inv, LockInv
  <2> QED
    BY <2>1, <2>2
<1>4. Shape'
  BY <1>1, <1>2 DEF Shape, WellFormed
<1>5. LockInv'
  BY <1>3 DEF LockInv, Holds
<1> QED
  BY <1>4, <1>5 DEF Inv

\* A step of a call that takes and returns no mutex.
LEMMA MoveStep ==
  ASSUME Inv, NEW t \in Threads, NEW c \in Call, WellFormed(c),
         call' = [call EXCEPT ![t] = c], UNCHANGED <<mtx, apps>>,
         \A l \in Loggers : Holds(c, l) <=> Holds(call[t], l)
  PROVE  Inv'
<1>1. \A l \in Loggers : Holds(c, l) <=> mtx'[l] = t
  BY DEF Inv, LockInv
<1> QED
  BY <1>1, CallStep DEF Inv, Shape

LEMMA LockStep ==
  ASSUME Inv, NEW t \in Threads, NEW c \in Call, WellFormed(c),
         call' = [call EXCEPT ![t] = c], UNCHANGED apps,
         NEW m \in Loggers, Lock(t, m),
         \A l \in Loggers : Holds(c, l) <=> l = m \/ Holds(call[t], l)
  PROVE  Inv'
<1>1. mtx' \in [Loggers -> Threads \cup {None}] /\ mtx'[m] = t /\ mtx[m] = None
      /\ \A l \in Loggers : l # m => mtx'[l] = mtx[l]
  BY DEF Inv, Shape, Lock
<1>2. \A l \in Loggers : Holds(c, l) <=> mtx'[l] = t
  BY <1>1 DEF Inv, LockInv
<1> QED
  BY <1>1, <1>2, CallStep DEF Inv, Shape

LEMMA UnlockStep ==
  ASSUME Inv, NEW t \in Threads, NEW c \in Call, WellFormed(c),
         call' = [call EXCEPT ![t] = c], apps' = [l \in Loggers |-> apps'[l]],
         NEW m \in Loggers, Holds(call[t], m), Unlock(m),
         \A l \in Loggers : Holds(c, l) <=> l # m /\ Holds(call[t], l)
  PROVE  Inv'
<1>1. mtx' \in [Loggers -> Threads \cup {None}] /\ mtx'[m] = None /\ mtx[m] = t
      /\ \A l \in Loggers : l # m => mtx'[l] = mtx[l]
  BY DEF Inv, Shape, LockInv, Unlock
<1>2. \A l \in Loggers : Holds(c, l) <=> mtx'[l] = t
  BY <1>1, NoneIsNone DEF Inv, LockInv
<1> QED
  BY <1>1, <1>2, CallStep DEF Inv, Shape

LEMMA IdleCall == Idle \in Call /\ WellFormed(Idle) /\ \A l \in Loggers : ~Holds(Idle, l)
BY NoneIsNone DEF Idle, Call, WellFormed, Holds

\* The call of a thread that is about to do something, as the lemmas want it.
LEMMA CallOf ==
  ASSUME Inv, NEW t \in Threads
  PROVE  /\ call[t] \in Call /\ WellFormed(call[t])
         /\ call[t].pc = "idle" => \A l \in Loggers : ~Holds(call[t], l)
BY NoneIsNone DEF Inv, Shape, WellFormed, Holds

----------------------------------------------------------------------------
LEMMA LogKeeps ==
  ASSUME Inv, NEW t \in Threads,
         \/ LogLock(t) \/ LogAppend(t) \/ LogFallback(t) \/ LogReturn(t)
         \/ \E l \in Loggers, v \in Levels : LogCall(t, l, v)
  PROVE  Inv'
<1> DEFINE old == call[t]
<1>0. old \in Call /\ WellFormed(old)
  BY CallOf
<1>1. CASE LogLock(t)
  <2> DEFINE c == [old EXCEPT !.pc = "loop"]
  <2>1. c \in Call /\ c.pc = "loop" /\ c.at = old.at /\ c.outer = old.outer
    BY <1>0 DEF Call
  <2>2. old.pc = "enter" /\ old.at \in Loggers /\ WellFormed(c)
    BY <1>0, <1>1, <2>1 DEF LogLock, WellFormed
  <2>3. call' = [call EXCEPT ![t] = c] /\ UNCHANGED apps /\ Lock(t, old.at)
    BY <1>1 DEF LogLock, Goto
  <2>4. \A l \in Loggers : Holds(c, l) <=> l = old.at \/ Holds(old, l)
    BY <2>1, <2>2 DEF Holds
  <2> HIDE DEF c
  <2> QED
    BY <2>1, <2>2, <2>3, <2>4, LockStep
<1>2. CASE LogAppend(t)
  <2> DEFINE c == [old EXCEPT !.pos = @ + 1]
  <2>1. c \in Call /\ c.pc = old.pc /\ c.at = old.at /\ c.outer = old.outer
    BY <1>0 DEF Call
  <2>2. call' = [call EXCEPT ![t] = c] /\ UNCHANGED <<mtx, apps>>
    BY <1>2 DEF LogAppend
  <2>3. WellFormed(c) /\ \A l \in Loggers : Holds(c, l) <=> Holds(old, l)
    BY <1>0, <2>1 DEF WellFormed, Holds
  <2> HIDE DEF c
  <2> QED
    BY <2>1, <2>2, <2>3, MoveStep
<1>3. CASE LogFallback(t)
  <2> DEFINE goes == [old EXCEPT !.pc = "enter", !.at = Root, !.outer = old.at]
             stays == [old EXCEPT !.pc = "return"]
  <2>1. old.pc = "loop" /\ old.at \in Loggers \ {Root} /\ old.outer = None
    BY <1>0, <1>3 DEF LogFallback, RootOf, WellFormed
  <2>2. Root \in Loggers
    BY LoggerAssumption DEF LoggerAssumption
  <2>3. goes \in Call /\ goes.pc = "enter" /\ goes.at = Root /\ goes.outer = old.at
    BY <1>0, <2>1, <2>2 DEF Call
  <2>4. stays \in Call /\ stays.pc = "return" /\ stays.at = old.at /\ stays.outer = None
    BY <1>0, <2>1 DEF Call
  <2>5. RootOf(old.at) = Root
    BY <2>1 DEF RootOf
  <2>6. UNCHANGED <<mtx, apps>>
    BY <1>3 DEF LogFallback
  <2>7. call' = [call EXCEPT ![t] = goes] \/ call' = [call EXCEPT ![t] = stays]
    BY <1>3, <2>5 DEF LogFallback
  <2>8. WellFormed(goes) /\ WellFormed(stays)
    BY <2>1, <2>2, <2>3, <2>4 DEF WellFormed
  <2>9. \A l \in Loggers : (Holds(goes, l) <=> Holds(old, l)) /\ (Holds(stays, l) <=> Holds(old, l))
    BY <2>1, <2>3, <2>4, NoneIsNone DEF Holds
  <2> HIDE DEF goes, stays
  <2> QED
    BY <2>3, <2>4, <2>6, <2>7, <2>8, <2>9, MoveStep
<1>4. CASE LogReturn(t)
  <2> DEFINE back == [old EXCEPT !.pc = "return", !.at = old.outer, !.outer = None]
  <2>1. old.pc \in {"loop", "return"} /\ old.at \in Loggers /\ Holds(old, old.at)
    BY <1>0, <1>4 DEF LogReturn, WellFormed, Holds
  <2>2. Unlock(old.at) /\ apps' = [l \in Loggers |-> apps'[l]]
    BY <1>4 DEF LogReturn, Inv, Shape
  <2>3. CASE old.outer = None
    <3>1. call' = [call EXCEPT ![t] = Idle]
      BY <1>4, <2>3 DEF LogReturn
    <3>2. \A l \in Loggers : Holds(Idle, l) <=> l # old.at /\ Holds(old, l)
      BY <2>3, IdleCall, NoneIsNone DEF Holds
    <3> QED
      BY <2>1, <2>2, <3>1, <3>2, IdleCall, UnlockStep
  <2>4. CASE old.outer # None
    <3>1. old.outer \in Loggers \ {Root} /\ old.at = Root
      BY <1>0, <2>4 DEF WellFormed
    <3>2. back \in Call /\ back.pc = "return" /\ back.at = old.outer /\ back.outer = None
      BY <1>0, <3>1 DEF Call
    <3>3. call' = [call EXCEPT ![t] = back]
      BY <1>4, <2>4 DEF LogReturn
    <3>4. WellFormed(back)
      BY <3>1, <3>2 DEF WellFormed
    <3>5. \A l \in Loggers : Holds(back, l) <=> l # old.at /\ Holds(old, l)
      BY <2>1, <3>1, <3>2, NoneIsNone DEF Holds
    <3> HIDE DEF back
    <3> QED
      BY <2>1, <2>2, <3>2, <3>3, <3>4, <3>5, UnlockStep
  <2> QED
    BY <2>3, <2>4
<1>5. ASSUME NEW l \in Loggers, NEW v \in Levels, LogCall(t, l, v) PROVE Inv'
  <2> DEFINE c == [Idle EXCEPT !.pc = "enter", !.at = l, !.lvl = v]
  <2>1. c \in Call /\ c.pc = "enter" /\ c.at = l /\ c.outer = None
    BY DEF Idle, Call
  <2>2. WellFormed(c) /\ \A m \in Loggers : ~Holds(c, m)
    BY <2>1, NoneIsNone DEF WellFormed, Holds
  <2>3. old.pc = "idle" /\ call' = [call EXCEPT ![t] = c] /\ UNCHANGED <<mtx, apps>>
    BY <1>5 DEF LogCall, Start
  <2>4. \A m \in Loggers : ~Holds(old, m)
    BY <2>3, CallOf
  <2> HIDE DEF c
  <2> QED
    BY <2>1, <2>2, <2>3, <2>4, MoveStep
<1> QED
  BY <1>1, <1>2, <1>3, <1>4, <1>5

LEMMA AddKeeps ==
  ASSUME Inv, NEW t \in Threads,
         PushAppender(t) \/ \E l \in Loggers, a \in Handed : AddAppender(t, l, a)
  PROVE  Inv'
<1>1. CASE PushAppender(t)
  <2>1. call[t].pc \in {"add", "addset"} /\ call[t].at \in Loggers /\ call[t].outer = None
    BY <1>1, CallOf DEF PushAppender, WellFormed
  <2>2. Unlock(call[t].at) /\ call' = [call EXCEPT ![t] = Idle]
    BY <1>1 DEF PushAppender
  <2>3. apps' = [l \in Loggers |-> apps'[l]]
    <3>1. apps' = [apps EXCEPT ![call[t].at] = Append(@, call[t].app)]
      BY <1>1 DEF PushAppender
    <3> QED
      BY <3>1 DEF Inv, Shape
  <2>4. Holds(call[t], call[t].at) /\ \A l \in Loggers : Holds(Idle, l) <=> l # call[t].at /\ Holds(call[t], l)
    BY <2>1, IdleCall, NoneIsNone DEF Holds
  <2> QED
    BY <2>1, <2>2, <2>3, <2>4, IdleCall, UnlockStep
<1>2. ASSUME NEW l \in Loggers, NEW a \in Handed, AddAppender(t, l, a) PROVE Inv'
  <2> DEFINE c(p) == [Idle EXCEPT !.pc = p, !.at = l, !.app = a]
  <2>1. PICK p \in {"add", "addset"} : call' = [call EXCEPT ![t] = c(p)]
    BY <1>2 DEF AddAppender
  <2> DEFINE d == c(p)
  <2>2. d \in Call /\ d.pc = p /\ d.at = l /\ d.outer = None
    BY DEF Idle, Call, Handed
  <2>3. WellFormed(d) /\ \A m \in Loggers : Holds(d, m) <=> m = l
    BY <2>1, <2>2, NoneIsNone DEF WellFormed, Holds
  <2>4. call[t].pc = "idle" /\ UNCHANGED apps /\ Lock(t, l)
    BY <1>2 DEF AddAppender, Start
  <2>5. \A m \in Loggers : ~Holds(call[t], m)
    BY <2>4, CallOf
  <2>6. call' = [call EXCEPT ![t] = d]
    BY <2>1
  <2> HIDE DEF d
  <2> QED
    BY <2>2, <2>3, <2>4, <2>5, <2>6, LockStep
<1> QED
  BY <1>1, <1>2

LEMMA FormatterKeeps ==
  ASSUME Inv, NEW t \in Threads,
         \/ AskAppender(t) \/ SetAppender(t) \/ SetFormatterEnd(t)
         \/ \E l \in Loggers, f \in Formats : SetFormatter(t, l, f)
  PROVE  Inv'
<1> DEFINE old == call[t]
<1>0. old \in Call /\ WellFormed(old)
  BY CallOf
<1>1. CASE AskAppender(t) \/ SetAppender(t)
  <2>1. old.pc \in {"test", "set"} /\ old.outer = None /\ UNCHANGED <<mtx, apps>>
    BY <1>0, <1>1 DEF AskAppender, SetAppender, WellFormed
  <2>2. ASSUME NEW c \in Call, c.pc \in {"test", "set"}, c.at = old.at, c.outer = None,
               call' = [call EXCEPT ![t] = c]
        PROVE  Inv'
    <3>1. WellFormed(c) /\ \A l \in Loggers : Holds(c, l) <=> Holds(old, l)
      BY <1>0, <2>1, <2>2 DEF WellFormed, Holds
    <3> QED
      BY <2>1, <2>2, <3>1, MoveStep
  <2> DEFINE next == [old EXCEPT !.pos = @ + 1]
             sets == [old EXCEPT !.pc = "set"]
             asks == [old EXCEPT !.pc = "test", !.pos = @ + 1]
  <2>3. /\ next \in Call /\ next.pc = old.pc /\ next.at = old.at /\ next.outer = old.outer
        /\ sets \in Call /\ sets.pc = "set" /\ sets.at = old.at /\ sets.outer = old.outer
        /\ asks \in Call /\ asks.pc = "test" /\ asks.at = old.at /\ asks.outer = old.outer
    <3>1. old.pos + 1 \in Nat
      BY <1>0 DEF Call
    <3>2. next \in Call /\ sets \in Call /\ asks \in Call
      BY <1>0, <3>1 DEF Call
    <3> QED
      BY <1>0, <3>2 DEF Call
  <2>4. \/ call' = [call EXCEPT ![t] = next] \/ call' = [call EXCEPT ![t] = sets]
        \/ call' = [call EXCEPT ![t] = asks]
    <3>1. ASSUME AskAppender(t)
          PROVE  call' = [call EXCEPT ![t] = IF has[apps[old.at][old.pos]] THEN next ELSE sets]
      BY <3>1 DEF AskAppender
    <3>2. CASE AskAppender(t)
      <4> HIDE DEF next, sets, asks
      <4>1. CASE has[apps[old.at][old.pos]]
        BY <3>1, <3>2, <4>1, Zenon
      <4>2. CASE ~has[apps[old.at][old.pos]]
        BY <3>1, <3>2, <4>2, Zenon
      <4> QED
        BY <4>1, <4>2
    <3>3. CASE SetAppender(t)
      BY <3>3 DEF SetAppender
    <3> QED
      BY <1>1, <3>2, <3>3
  <2> HIDE DEF next, sets, asks
  <2> QED
    BY <2>1, <2>2, <2>3, <2>4
<1>2. CASE SetFormatterEnd(t)
  <2>1. old.pc = "test" /\ old.at \in Loggers /\ old.outer = None
    BY <1>0, <1>2 DEF SetFormatterEnd, WellFormed
  <2>2. Unlock(old.at) /\ call' = [call EXCEPT ![t] = Idle] /\ apps' = [l \in Loggers |-> apps'[l]]
    BY <1>2 DEF SetFormatterEnd, Inv, Shape
  <2>3. Holds(old, old.at) /\ \A l \in Loggers : Holds(Idle, l) <=> l # old.at /\ Holds(old, l)
    BY <2>1, IdleCall, NoneIsNone DEF Holds
  <2> QED
    BY <2>1, <2>2, <2>3, IdleCall, UnlockStep
<1>3. ASSUME NEW l \in Loggers, NEW f \in Formats, SetFormatter(t, l, f) PROVE Inv'
  <2> DEFINE c == [Idle EXCEPT !.pc = "test", !.at = l, !.fmt = f]
  <2>1. c \in Call /\ c.pc = "test" /\ c.at = l /\ c.outer = None
    BY DEF Idle, Call
  <2>2. WellFormed(c) /\ \A m \in Loggers : Holds(c, m) <=> m = l
    BY <2>1, NoneIsNone DEF WellFormed, Holds
  <2>3. old.pc = "idle" /\ call' = [call EXCEPT ![t] = c] /\ UNCHANGED apps /\ Lock(t, l)
    BY <1>3 DEF SetFormatter, Start
  <2>4. \A m \in Loggers : ~Holds(old, m)
    BY <2>3, CallOf
  <2> HIDE DEF c
  <2> QED
    BY <2>1, <2>2, <2>3, <2>4, LockStep
<1> QED
  BY <1>1, <1>2, <1>3

\* The steps that are over at once.
Config(t) ==
  \/ \E l \in Loggers, v \in Levels : SetLevel(t, l, v)
  \/ \E l \in Loggers, a \in Handed : DelAppender(t, l, a)
  \/ \E l \in Loggers : ClearAppender(t, l)
  \/ \E a \in Handed, v \in Levels : AppSetLevel(t, a, v)
  \/ \E a \in Handed, f \in Formats : AppSetFormatter(t, a, f)

LEMMA ConfigKeeps ==
  ASSUME Inv, NEW t \in Threads, Config(t)
  PROVE  Inv'
<1>1. UNCHANGED <<mtx, call>>
  BY DEF Config, SetLevel, DelAppender, ClearAppender, AppSetLevel, AppSetFormatter
<1>2. apps' = [l \in Loggers |-> apps'[l]]
  <2>1. CASE UNCHANGED apps
    BY <2>1 DEF Inv, Shape
  <2>2. ASSUME NEW l \in Loggers, NEW s, apps' = [apps EXCEPT ![l] = s]
        PROVE  apps' = [k \in Loggers |-> apps'[k]]
    BY <2>2 DEF Inv, Shape
  <2> QED
    BY <2>1, <2>2 DEF Config, SetLevel, DelAppender, ClearAppender, AppSetLevel, AppSetFormatter
<1> QED
  BY <1>1, <1>2 DEF Inv, Shape, LockInv, WellFormed, Holds

LEMMA LInitInv == LInit => Inv
<1> SUFFICES ASSUME LInit PROVE Inv
  OBVIOUS
<1>1. call = [t \in Threads |-> Idle] /\ mtx = [l \in Loggers |-> None]
      /\ apps = [l \in Loggers |-> IF l = Root THEN <<Stdout>> ELSE <<>>]
  BY DEF LInit
<1> QED
  BY <1>1, IdleCall, NoneIsNone DEF Inv, Shape, LockInv

LEMMA InvHolds == LSpec => []Inv
<1>1. LInit => Inv
  BY LInitInv
<1>2. Inv /\ [LNext]_lvars => Inv'
  <2> SUFFICES ASSUME Inv, [LNext]_lvars PROVE Inv'
    OBVIOUS
  <2>1. CASE UNCHANGED lvars
    BY <2>1 DEF lvars, Inv, Shape, LockInv, WellFormed, Holds
  <2>2. CASE LNext
    BY <2>2, LogKeeps, AddKeeps, FormatterKeeps, ConfigKeeps DEF LNext, LStep, Config
  <2> QED
    BY <2>1, <2>2
<1> QED
  BY <1>1, <1>2, PTL DEF LSpec

----------------------------------------------------------------------------
\* Calls never block each other for good: who waits for a logger waits for a
\* call on it or on the root logger, and that one for nobody (log.cpp:52-63).
THEOREM NoDeadlock == LSpec => []SomeCallGoesOn
<1>1. Inv => SomeCallGoesOn
  <2> SUFFICES ASSUME Inv, NEW t \in Threads, call[t].pc # "idle",
                      \A u \in Threads : call[u].pc # "idle" => Waits(u)
               PROVE  FALSE
    BY DEF SomeCallGoesOn
  <2>1. ASSUME NEW u \in Threads, call[u].pc # "idle"
        PROVE  \E w \in Threads : /\ call[w].pc # "idle" /\ call[w].at = Root
                                  /\ call[w].outer = call[u].at /\ call[u].at # Root
    <3>1. call[u].pc = "enter" /\ call[u].at \in Loggers /\ mtx[call[u].at] # None
      BY <2>1, CallOf DEF Waits, WellFormed
    <3>2. PICK w \in Threads : mtx[call[u].at] = w
      BY <3>1 DEF Inv, Shape
    <3>3. Holds(call[w], call[u].at) /\ WellFormed(call[w])
      BY <3>1, <3>2, CallOf DEF Inv, LockInv
    <3>4. call[w].pc # "idle"
      BY <3>1, <3>3, NoneIsNone DEF Holds, WellFormed
    <3>5. call[w].pc = "enter"
      BY <3>4 DEF Waits
    <3> QED
      BY <3>1, <3>3, <3>4, <3>5, NoneIsNone DEF Holds, WellFormed
  <2>2. PICK u \in Threads : call[u].pc # "idle" /\ call[u].at = Root
    BY <2>1
  <2> QED
    BY <2>1, <2>2
<1> QED
  BY <1>1, InvHolds, PTL

\* No list of appenders changes while log() walks it (log.cpp:52-59).
THEOREM ListsStable == LSpec => DeliveryStable
<1>1. Inv /\ [LNext]_lvars =>
        [\A t \in Threads : call[t].pc = "loop" => apps'[call[t].at] = apps[call[t].at]]_lvars
  <2> SUFFICES ASSUME Inv, [LNext]_lvars, NEW t \in Threads, call[t].pc = "loop"
               PROVE  apps'[call[t].at] = apps[call[t].at]
    OBVIOUS
  <2> DEFINE l == call[t].at
  <2>1. l \in Loggers /\ mtx[l] = t
    BY CallOf DEF WellFormed, Inv, LockInv, Holds
  <2>2. ASSUME NEW m \in Loggers, mtx[m] = None, NEW s, apps' = [apps EXCEPT ![m] = s]
        PROVE  apps'[l] = apps[l]
    BY <2>1, <2>2, NoneIsNone DEF Inv, Shape
  <2>3. ASSUME NEW u \in Threads, PushAppender(u)
        PROVE  apps'[l] = apps[l]
    <3>1. call[u].pc \in {"add", "addset"} /\ call[u].at \in Loggers
      BY <2>3, CallOf DEF PushAppender, WellFormed
    <3>2. mtx[call[u].at] = u
      BY <3>1 DEF Inv, LockInv, Holds
    <3>3. call[u].at # l
      BY <2>1, <3>1, <3>2
    <3>4. apps' = [apps EXCEPT ![call[u].at] = Append(@, call[u].app)]
      BY <2>3 DEF PushAppender
    <3> QED
      BY <2>1, <3>3, <3>4 DEF Inv, Shape
  <2>4. ASSUME NEW u \in Threads, Config(u)
        PROVE  apps'[l] = apps[l]
    BY <2>2, <2>4 DEF Config, SetLevel, DelAppender, ClearAppender, AppSetLevel, AppSetFormatter
  <2>5. CASE UNCHANGED apps
    BY <2>5
  <2>6. CASE UNCHANGED lvars
    BY <2>6 DEF lvars
  <2>7. \/ UNCHANGED lvars \/ UNCHANGED apps
        \/ \E u \in Threads : PushAppender(u) \/ Config(u)
    BY DEF LNext, LStep, Config, LogCall, LogLock, LogAppend, LogFallback, LogReturn,
           AddAppender, SetFormatter, AskAppender, SetAppender, SetFormatterEnd
  <2> QED
    BY <2>3, <2>4, <2>5, <2>6, <2>7
<1> QED
  BY <1>1, InvHolds, PTL DEF LSpec, DeliveryStable

----------------------------------------------------------------------------
\* A call that configures a logger holds its mutex, so no two of them are on one.
LEMMA WorksAt ==
  ASSUME Inv, NEW t \in Threads, call[t].pc \in {"test", "set", "add", "addset"}
  PROVE  /\ call[t].at \in Loggers /\ mtx[call[t].at] = t
         /\ \A u \in Threads : u # t /\ call[u].pc \in {"test", "set", "add", "addset"} =>
              call[u].at # call[t].at
<1>1. ASSUME NEW u \in Threads, call[u].pc \in {"test", "set", "add", "addset"}
      PROVE  call[u].at \in Loggers /\ mtx[call[u].at] = u
  <2>1. call[u].at \in Loggers
    BY <1>1, CallOf DEF WellFormed
  <2> QED
    BY <1>1, <2>1 DEF Inv, LockInv, Holds
<1> QED
  BY <1>1

\* The list a call works on is changed by that call alone.
LEMMA ListKeptFor ==
  ASSUME Inv, NEW u \in Threads, call[u].pc \in {"test", "set"},
         NEW t \in Threads, t # u, PushAppender(t) \/ Config(t)
  PROVE  apps'[call[u].at] = apps[call[u].at]
<1> DEFINE l == call[u].at
<1>1. l \in Loggers /\ mtx[l] = u
  BY WorksAt
<1>2. CASE PushAppender(t)
  <2>1. call[t].at \in Loggers /\ call[t].at # l
    BY <1>2, WorksAt DEF PushAppender
  <2> QED
    BY <1>1, <1>2, <2>1 DEF PushAppender, Inv, Shape
<1>3. ASSUME NEW m \in Loggers, mtx[m] = None, NEW s, apps' = [apps EXCEPT ![m] = s]
      PROVE  apps'[l] = apps[l]
  BY <1>1, <1>3, NoneIsNone DEF Inv, Shape
<1> QED
  BY <1>2, <1>3 DEF Config, SetLevel, DelAppender, ClearAppender, AppSetLevel, AppSetFormatter

----------------------------------------------------------------------------
\* No call is about to give an appender the logger's formatter that has one of
\* its own, unless it was given that after the call had asked.
OwnInv ==
  /\ own \in [Appenders -> Formats \cup {None}] /\ has \in [Appenders -> BOOLEAN]
  /\ afmt = [a \in Appenders |-> afmt[a]]
  /\ \A a \in Appenders : own[a] # None => has[a] = TRUE
  /\ \A a \in Appenders \ raced : own[a] # None => afmt[a] = own[a] /\ ~ToBeSet(a)

\* A step that gives no appender with a formatter of its own another one, and
\* after which its call is not about to.
LEMMA OwnKept ==
  ASSUME OwnInv, NEW t \in Threads,
         \A u \in Threads : u # t => call'[u] = call[u],
         call'[t].pc \notin {"set", "addset"},
         \A u \in Threads : u # t /\ call[u].pc = "set" => apps'[call[u].at] = apps[call[u].at],
         UNCHANGED <<own, has, raced>>, afmt' = [a \in Appenders |-> afmt'[a]],
         \A a \in Appenders \ raced : own[a] # None => afmt'[a] = afmt[a]
  PROVE  OwnInv'
<1>1. ASSUME NEW a \in Appenders \ raced, own[a] # None
      PROVE  afmt'[a] = own[a] /\ ~ToBeSet(a)'
  <2>1. afmt'[a] = own[a] /\ ~ToBeSet(a)
    BY <1>1 DEF OwnInv
  <2>2. \A u \in Threads :
          ~(\/ call'[u].pc = "addset" /\ call'[u].app = a
            \/ call'[u].pc = "set" /\ apps'[call'[u].at][call'[u].pos] = a)
    BY <2>1 DEF ToBeSet
  <2> QED
    BY <2>1, <2>2 DEF ToBeSet
<1>2. own' \in [Appenders -> Formats \cup {None}] /\ has' \in [Appenders -> BOOLEAN]
  BY DEF OwnInv
<1>3. \A a \in Appenders : own'[a] # None => has'[a] = TRUE
  BY DEF OwnInv
<1> QED
  BY <1>1, <1>2, <1>3 DEF OwnInv

\* A step of t that changes no formatter and no list.
LEMMA OwnMove ==
  ASSUME OwnInv, NEW t \in Threads,
         \A u \in Threads : u # t => call'[u] = call[u],
         UNCHANGED <<apps, own, has, raced, afmt>>,
         \A a \in Appenders \ raced : own[a] # None =>
           /\ ~(call'[t].pc = "addset" /\ call'[t].app = a)
           /\ ~(call'[t].pc = "set" /\ apps[call'[t].at][call'[t].pos] = a)
  PROVE  OwnInv'
<1>1. ASSUME NEW a \in Appenders \ raced, own[a] # None PROVE ~ToBeSet(a)'
  <2>1. ~ToBeSet(a)
    BY <1>1 DEF OwnInv
  <2>2. \A u \in Threads :
          ~(\/ call'[u].pc = "addset" /\ call'[u].app = a
            \/ call'[u].pc = "set" /\ apps'[call'[u].at][call'[u].pos] = a)
    BY <1>1, <2>1 DEF ToBeSet
  <2> QED
    BY <2>2 DEF ToBeSet
<1> QED
  BY <1>1 DEF OwnInv

LEMMA OwnStep ==
  ASSUME Inv, OwnInv, [LNext]_lvars
  PROVE  OwnInv'
<1> DEFINE Frame(t) == \A u \in Threads : u # t => call'[u] = call[u]
<1>0. call \in [Threads -> Call] /\ afmt = [a \in Appenders |-> afmt[a]]
  BY DEF Inv, Shape, OwnInv
<1>1. ASSUME NEW t \in Threads,
             \/ LogLock(t) \/ LogAppend(t) \/ LogFallback(t) \/ LogReturn(t)
             \/ \E l \in Loggers, v \in Levels : LogCall(t, l, v)
      PROVE  OwnInv'
  <2>1. Frame(t) /\ call'[t].pc \in {"enter", "loop", "return", "idle"}
    <3>1. CASE LogLock(t) \/ LogAppend(t)
      BY <1>0, <3>1 DEF LogLock, LogAppend, Goto, Call
    <3>2. CASE LogFallback(t)
      BY <1>0, <3>2 DEF LogFallback, Call
    <3>3. CASE LogReturn(t)
      BY <1>0, <3>3 DEF LogReturn, Idle, Call
    <3>4. CASE \E l \in Loggers, v \in Levels : LogCall(t, l, v)
      BY <1>0, <3>4 DEF LogCall, Idle
    <3> QED
      BY <1>1, <3>1, <3>2, <3>3, <3>4
  <2>2. UNCHANGED <<apps, own, has, raced, afmt>>
    BY <1>1 DEF LogLock, LogAppend, LogFallback, LogReturn, LogCall
  <2> QED
    BY <2>1, <2>2, OwnMove
<1>2. ASSUME NEW t \in Threads, SetAppender(t)
      PROVE  OwnInv'
  <2> DEFINE asked == apps[call[t].at][call[t].pos]
  <2>1. /\ Frame(t) /\ call'[t].pc = "test" /\ call[t].pc = "set"
        /\ UNCHANGED <<apps, own, has, raced>>
        /\ afmt' = [afmt EXCEPT ![asked] = call[t].fmt]
    BY <1>0, <1>2 DEF SetAppender, Call
  <2>2. ToBeSet(asked)
    BY <2>1 DEF ToBeSet
  <2>3. afmt' = [a \in Appenders |-> afmt'[a]]
        /\ \A a \in Appenders \ raced : own[a] # None => afmt'[a] = afmt[a]
    BY <1>0, <2>1, <2>2 DEF OwnInv
  <2> QED
    BY <2>1, <2>3, OwnKept
<1>3. ASSUME NEW t \in Threads, PushAppender(t)
      PROVE  OwnInv'
  <2>1. Frame(t) /\ call'[t].pc = "idle" /\ UNCHANGED <<own, has, raced>>
    BY <1>0, <1>3 DEF PushAppender, Idle
  <2>2. \A u \in Threads : u # t /\ call[u].pc = "set" => apps'[call[u].at] = apps[call[u].at]
    BY <1>3, ListKeptFor
  <2>3. afmt' = [a \in Appenders |-> afmt'[a]]
        /\ \A a \in Appenders \ raced : own[a] # None => afmt'[a] = afmt[a]
    <3>1. CASE call[t].pc = "addset"
      <4>1. ToBeSet(call[t].app)
        BY <3>1 DEF ToBeSet
      <4>2. afmt' = [afmt EXCEPT ![call[t].app] = fmt[call[t].at]]
        BY <1>3, <3>1 DEF PushAppender
      <4> QED
        BY <1>0, <4>1, <4>2 DEF OwnInv
    <3>2. CASE call[t].pc = "add"
      BY <1>0, <1>3, <3>2 DEF PushAppender
    <3> QED
      BY <1>3, <3>1, <3>2 DEF PushAppender
  <2> QED
    BY <2>1, <2>2, <2>3, OwnKept
<1>4. ASSUME NEW t \in Threads,
             SetFormatterEnd(t) \/ \E l \in Loggers, f \in Formats : SetFormatter(t, l, f)
      PROVE  OwnInv'
  <2>1. Frame(t) /\ call'[t].pc \in {"idle", "test"} /\ UNCHANGED <<apps, own, has, raced, afmt>>
    <3>1. CASE SetFormatterEnd(t)
      BY <1>0, <3>1 DEF SetFormatterEnd, Idle
    <3>2. CASE \E l \in Loggers, f \in Formats : SetFormatter(t, l, f)
      BY <1>0, <3>2 DEF SetFormatter, Idle
    <3> QED
      BY <1>4, <3>1, <3>2
  <2> QED
    BY <2>1, OwnMove
<1>5. ASSUME NEW t \in Threads, AskAppender(t)
      PROVE  OwnInv'
  <2> DEFINE asked == apps[call[t].at][call[t].pos]
  <2>1. Frame(t) /\ call[t].pc = "test" /\ UNCHANGED <<apps, own, has, raced, afmt>>
    BY <1>0, <1>5 DEF AskAppender
  <2>2. CASE has[asked]
    <3>1. call'[t].pc = "test"
      BY <1>0, <1>5, <2>2 DEF AskAppender, Call
    <3> QED
      BY <2>1, <3>1, OwnMove
  <2>3. CASE ~has[asked]
    <3>1. call'[t].pc = "set" /\ call'[t].at = call[t].at /\ call'[t].pos = call[t].pos
      BY <1>0, <1>5, <2>3 DEF AskAppender, Call
    <3>2. \A a \in Appenders : asked = a => own[a] = None
      BY <2>3 DEF OwnInv
    <3> QED
      BY <2>1, <3>1, <3>2, OwnMove
  <2> QED
    BY <2>2, <2>3
<1>6. ASSUME NEW t \in Threads, NEW l \in Loggers, NEW a \in Handed, AddAppender(t, l, a)
      PROVE  OwnInv'
  <2>1. Frame(t) /\ UNCHANGED <<apps, own, has, raced, afmt>>
    BY <1>0, <1>6 DEF AddAppender, Start
  <2>2. CASE afmt[a] = None
    <3>1. call'[t].pc = "addset" /\ call'[t].app = a
      BY <1>0, <1>6, <2>2 DEF AddAppender, Idle
    <3>2. a \in raced \/ own[a] = None
      BY <2>2 DEF OwnInv, Handed
    <3> QED
      BY <2>1, <3>1, <3>2, OwnMove
  <2>3. CASE afmt[a] # None
    <3>1. call'[t].pc = "add"
      BY <1>0, <1>6, <2>3 DEF AddAppender, Idle
    <3> QED
      BY <2>1, <3>1, OwnMove
  <2> QED
    BY <2>2, <2>3
<1>7. ASSUME NEW t \in Threads, Config(t)
      PROVE  OwnInv'
  <2>1. call[t].pc = "idle" /\ UNCHANGED call
    BY <1>7 DEF Config, SetLevel, DelAppender, ClearAppender, AppSetLevel, AppSetFormatter, Start
  <2>2. \A u \in Threads : u # t /\ call[u].pc = "set" => apps'[call[u].at] = apps[call[u].at]
    BY <1>7, ListKeptFor
  <2>3. CASE UNCHANGED <<own, has, raced, afmt>>
    BY <1>0, <2>1, <2>2, <2>3, OwnKept
  <2>4. ASSUME NEW a \in Handed, NEW f \in Formats, AppSetFormatter(t, a, f)
        PROVE  OwnInv'
    <3>1. /\ own' = [own EXCEPT ![a] = f] /\ has' = [has EXCEPT ![a] = TRUE]
          /\ afmt' = [afmt EXCEPT ![a] = f] /\ apps' = apps
          /\ raced' = IF ToBeSet(a) THEN raced \cup {a} ELSE raced \ {a}
      BY <2>4 DEF AppSetFormatter
    <3>2. own' \in [Appenders -> Formats \cup {None}] /\ has' \in [Appenders -> BOOLEAN]
          /\ afmt' = [b \in Appenders |-> afmt'[b]]
      BY <3>1 DEF OwnInv
    <3>3. \A b \in Appenders : own'[b] # None => has'[b] = TRUE
      BY <1>0, <3>1 DEF OwnInv
    <3>4. \A b : ToBeSet(b)' <=> ToBeSet(b)
      BY <2>1, <3>1 DEF ToBeSet
    <3>5. \A b \in Appenders \ raced' : own'[b] # None => afmt'[b] = own'[b] /\ ~ToBeSet(b)
      BY <1>0, <3>1 DEF OwnInv
    <3> QED
      BY <3>2, <3>3, <3>4, <3>5 DEF OwnInv
  <2> QED
    BY <1>7, <2>3, <2>4 DEF Config, SetLevel, DelAppender, ClearAppender, AppSetLevel
<1>8. CASE UNCHANGED lvars
  BY <1>8 DEF lvars, OwnInv, ToBeSet
<1> QED
  BY <1>1, <1>2, <1>3, <1>4, <1>5, <1>6, <1>7, <1>8 DEF LNext, LStep, Config

\* However many threads configure, the formatter an appender was given stays its
\* own: no setFormatter or addAppender of a logger replaces it that had not
\* already asked when it was given (log.cpp:67-103, 148-162).
THEOREM OwnStays == LSpec => []OwnFormatterKept
<1>1. LInit => OwnInv
  <2> SUFFICES ASSUME LInit PROVE OwnInv
    OBVIOUS
  <2>1. \A t \in Threads : call[t].pc = "idle"
    BY DEF LInit, Idle
  <2> QED
    BY <2>1 DEF LInit, OwnInv
<1>2. Inv /\ OwnInv /\ [LNext]_lvars => OwnInv'
  BY OwnStep
<1>3. OwnInv => OwnFormatterKept
  BY DEF OwnInv, OwnFormatterKept
<1> QED
  BY <1>1, <1>2, <1>3, InvHolds, PTL DEF LSpec

----------------------------------------------------------------------------
\* A set of numbers has a least one: the numbers up to it are the least set
\* among those up to each of the others.
LEMMA LeastOf ==
  ASSUME NEW S, S \subseteq Nat, S # {}
  PROVE  \E k \in S : \A j \in S : k <= j
<1> DEFINE upTo == {0 .. k : k \in S}
           R    == StrictSubsetOrdering(Nat)
<1>1. \A k \in Nat : 0 .. k \in FiniteSubsetsOf(Nat)
  <2> SUFFICES ASSUME NEW k \in Nat PROVE IsFiniteSet(0 .. k)
    BY DEF FiniteSubsetsOf
  <2> QED
    BY FS_Interval
<1>2. upTo \subseteq FiniteSubsetsOf(Nat) /\ upTo # {}
  BY <1>1
<1>3. \E X \in upTo : \A Y \in upTo : ~(<<Y, X>> \in R)
  <2> HIDE DEF upTo, R
  <2>1. IsWellFoundedOn(R, FiniteSubsetsOf(Nat))
    BY FS_StrictSubsetOrderingWellFounded DEF R
  <2> QED
    BY <1>2, <2>1, WFMin
<1>4. PICK k \in S : \A j \in S : ~(<<0 .. j, 0 .. k>> \in R)
  BY <1>3
<1>5. ASSUME NEW j \in S PROVE k <= j
  <2> SUFFICES ASSUME j < k PROVE FALSE
    BY <1>5
  <2>1. 0 .. j \subseteq 0 .. k /\ k \in 0 .. k /\ k \notin 0 .. j
    BY <1>5
  <2>2. <<0 .. j, 0 .. k>> \in R
    BY <2>1 DEF StrictSubsetOrdering
  <2> QED
    BY <1>4, <2>2
<1> QED
  BY <1>5

\* What list::remove leaves are elements of the list other than a.  The
\* recursion over the list is resolved by hand: there is such a function, by the
\* least length without one, and it is so up to the least place where it is not.
LEMMA WithoutType ==
  ASSUME NEW S, NEW s \in Seq(S), NEW a
  PROVE  Without(s, a) \in Seq(S \ {a})
<1> DEFINE Body(f, n) == IF n = 0 THEN <<>>
                         ELSE IF s[n] = a THEN f[n - 1] ELSE Append(f[n - 1], s[n])
           Has(n) == \E f : f = [i \in 0 .. n |-> Body(f, i)]
           kept == CHOOSE f : f = [n \in 0 .. Len(s) |-> Body(f, n)]
           Hasnt == {n \in Nat : ~Has(n)}
           Bad   == {n \in 0 .. Len(s) : kept[n] \notin Seq(S \ {a})}
<1>1. Len(s) \in Nat /\ \A n \in 1 .. Len(s) : s[n] \in S
  OBVIOUS
<1>2. Has(0)
  <2> DEFINE f == [i \in 0 .. 0 |-> <<>>]
  <2>1. f = [i \in 0 .. 0 |-> Body(f, i)]
    OBVIOUS
  <2> QED
    BY <2>1
<1>3. ASSUME NEW n \in Nat, n # 0, Has(n - 1) PROVE Has(n)
  <2>1. PICK f : f = [i \in 0 .. n - 1 |-> Body(f, i)]
    BY <1>3
  <2> DEFINE g == [i \in 0 .. n |-> IF i = n THEN Body(f, n) ELSE f[i]]
  <2>2. \A i \in 0 .. n : g[i] = Body(g, i)
    <3>1. ASSUME NEW i \in 0 .. n PROVE Body(g, i) = Body(f, i)
      BY <1>3
    <3>2. ASSUME NEW i \in 0 .. n - 1 PROVE f[i] = Body(f, i)
      BY <2>1
    <3> QED
      BY <3>1, <3>2
  <2>3. g = [i \in 0 .. n |-> Body(g, i)]
    BY <2>2
  <2> QED
    BY <2>3
<1>4. Has(Len(s))
  <2> HIDE DEF Has
  <2>1. ASSUME Hasnt # {} PROVE FALSE
    <3>1. PICK n \in Hasnt : \A j \in Hasnt : n <= j
      BY <2>1, LeastOf
    <3>2. n \in Nat /\ n # 0
      BY <1>2
    <3>3. n - 1 \in Nat /\ n - 1 \notin Hasnt
      BY <3>1, <3>2
    <3> QED
      BY <1>3, <3>2, <3>3
  <2> QED
    BY <1>1, <2>1
<1>5. kept = [n \in 0 .. Len(s) |-> Body(kept, n)]
  <2> HIDE DEF Body
  <2> QED
    BY <1>4
<1>6. Without(s, a) = kept[Len(s)]
  BY DEF Without
<1> HIDE DEF kept
<1>7. \A n \in 0 .. Len(s) : kept[n] = Body(kept, n)
  BY <1>5
<1>8. kept[0] \in Seq(S \ {a})
  <2>1. kept[0] = <<>>
    BY <1>1, <1>7
  <2> QED
    BY <2>1
<1>9. ASSUME NEW n \in 1 .. Len(s), kept[n - 1] \in Seq(S \ {a})
      PROVE  kept[n] \in Seq(S \ {a})
  <2>1. n \in 0 .. Len(s) /\ n # 0
    BY <1>1
  <2>2. kept[n] = IF s[n] = a THEN kept[n - 1] ELSE Append(kept[n - 1], s[n])
    BY <1>7, <2>1
  <2>3. CASE s[n] = a
    BY <1>9, <2>2, <2>3
  <2>4. CASE s[n] # a
    <3>1. s[n] \in S \ {a}
      BY <1>1, <2>4
    <3>2. Append(kept[n - 1], s[n]) \in Seq(S \ {a})
      BY <1>9, <3>1
    <3> QED
      BY <2>2, <2>4, <3>2
  <2> QED
    BY <2>3, <2>4
<1>10. ASSUME Bad # {} PROVE FALSE
  <2>1. PICK n \in Bad : \A j \in Bad : n <= j
    <3>1. Bad \subseteq Nat
      BY <1>1
    <3> QED
      BY <1>10, <3>1, LeastOf
  <2>2. n \in 0 .. Len(s) /\ kept[n] \notin Seq(S \ {a})
    OBVIOUS
  <2>3. n # 0
    BY <1>8, <2>2
  <2>4. n - 1 \in 0 .. Len(s) /\ n \in 1 .. Len(s) /\ n - 1 \notin Bad
    <3> HIDE DEF Bad
    <3> QED
      BY <1>1, <2>1, <2>2, <2>3
  <2>5. kept[n - 1] \in Seq(S \ {a})
    BY <2>4
  <2> QED
    BY <1>9, <2>2, <2>4, <2>5
<1> QED
  BY <1>1, <1>6, <1>10

----------------------------------------------------------------------------
\* The appenders without a formatter of their own, but for those that were added
\* anew, are in one list each, and have the formatter of its logger unless a
\* call is just giving them another.
Refitted(l) == \E t \in Threads : call[t].pc \in {"test", "set"} /\ call[t].at = l

\* Appenders that need not follow.
Spared(a) == has[a] = TRUE \/ a \in moved

FollowLists ==
  \A l \in Loggers : \A a \in Listed(l) :
    /\ afmt[a] # None
    /\ Spared(a) \/ afmt[a] = fmt[l] \/ Refitted(l)
    /\ \A m \in Loggers : a \in Listed(m) => Spared(a) \/ l = m

\* The call c is adding the appender a.
Adds(c, a) == c.pc \in {"add", "addset"} /\ c.app = a

\* What a call that configures has done and found so far.
FollowCall(c) ==
  /\ c.pc \in {"test", "set"} =>
       /\ c.fmt \in Formats /\ c.pos \in Nat \ {0}
       /\ \A i \in DOMAIN apps[c.at], a \in Appenders :
            i < c.pos /\ apps[c.at][i] = a => Spared(a) \/ afmt[a] = c.fmt
  /\ c.pc = "set" => c.pos \in DOMAIN apps[c.at]
  /\ c.pc \in {"add", "addset"} => c.app \in Appenders
  /\ \A a \in Appenders : Adds(c, a) =>
       IF c.pc = "add" THEN Spared(a) /\ afmt[a] # None ELSE Spared(a) \/ afmt[a] = None

FollowTypes ==
  /\ apps \in [Loggers -> Seq(Appenders)]
  /\ fmt \in [Loggers -> Formats]
  /\ has \in [Appenders -> BOOLEAN]
  /\ afmt \in [Appenders -> Formats \cup {None}]

FollowInv ==
  /\ FollowTypes /\ FollowLists
  /\ \A t \in Threads : FollowCall(call[t])
  /\ \A t, u \in Threads, a \in Appenders :
       t # u /\ Adds(call[t], a) /\ Adds(call[u], a) => Spared(a)

\* A list with one more element, or without one.
LEMMA ListedAppend ==
  ASSUME FollowTypes, NEW l \in Loggers, NEW a \in Appenders,
         apps' = [apps EXCEPT ![l] = Append(@, a)]
  PROVE  /\ apps' \in [Loggers -> Seq(Appenders)]
         /\ \A m \in Loggers : \A b \in Listed(m)' : b \in Listed(m) \/ (m = l /\ b = a)
<1>1. apps[l] \in Seq(Appenders) /\ apps'[l] = Append(apps[l], a)
      /\ \A m \in Loggers : m # l => apps'[m] = apps[m]
  BY DEF FollowTypes
<1>2. \A i \in DOMAIN Append(apps[l], a) :
        (i \in DOMAIN apps[l] /\ Append(apps[l], a)[i] = apps[l][i]) \/ Append(apps[l], a)[i] = a
  BY <1>1
<1>3. apps' \in [Loggers -> Seq(Appenders)]
  BY <1>1 DEF FollowTypes
<1> QED
  BY <1>1, <1>2, <1>3 DEF Listed

LEMMA ListedWithout ==
  ASSUME FollowTypes, NEW l \in Loggers, NEW a,
         \/ apps' = [apps EXCEPT ![l] = Without(@, a)]
         \/ apps' = [apps EXCEPT ![l] = <<>>]
  PROVE  /\ apps' \in [Loggers -> Seq(Appenders)]
         /\ \A m \in Loggers : Listed(m)' \subseteq Listed(m)
<1> DEFINE had == {apps[l][i] : i \in DOMAIN apps[l]}
<1>1. apps[l] \in Seq(had) /\ had \subseteq Appenders
  BY DEF FollowTypes
<1>2. Without(apps[l], a) \in Seq(had \ {a})
  <2> HIDE DEF had
  <2> QED
    BY <1>1, WithoutType
<1>3. apps'[l] \in Seq(had) /\ \A m \in Loggers : m # l => apps'[m] = apps[m]
  <2> HIDE DEF had
  <2>1. Without(apps[l], a) \in Seq(had)
    BY <1>2
  <2>2. <<>> \in Seq(had)
    OBVIOUS
  <2> QED
    BY <2>1, <2>2 DEF FollowTypes
<1>4. apps' \in [Loggers -> Seq(Appenders)]
  <2>1. apps'[l] \in Seq(Appenders)
    <3> HIDE DEF had
    <3> QED
      BY <1>1, <1>3
  <2> QED
    BY <1>3, <2>1 DEF FollowTypes
<1>5. Listed(l)' \subseteq had
  <2> HIDE DEF had
  <2> QED
    BY <1>3 DEF Listed
<1>6. had = Listed(l)
  BY DEF Listed
<1> QED
  BY <1>3, <1>4, <1>5, <1>6 DEF Listed

\* The appenders whose formatters a call relies on.
ReliesOn(c, a) ==
  \/ c.pc \in {"test", "set"} /\ a \in Listed(c.at)
  \/ c.pc = "addset" /\ c.app = a

\* A step of t that changes no list another call works on, and no formatter of
\* an appender that another call relies on.
LEMMA FollowStep ==
  ASSUME FollowInv, NEW t \in Threads, FollowTypes', FollowLists', FollowCall(call[t])',
         \A u \in Threads : u # t =>
           /\ call'[u] = call[u]
           /\ call[u].pc \in {"test", "set"} => apps'[call[u].at] = apps[call[u].at]
           /\ \A a \in Appenders : ReliesOn(call[u], a) => Spared(a)' \/ afmt'[a] = afmt[a]
           /\ \A a \in Appenders : Adds(call'[t], a) /\ Adds(call[u], a) => Spared(a)',
         \A a \in Appenders : /\ Spared(a) => Spared(a)'
                              /\ afmt[a] # None => afmt'[a] # None
  PROVE  FollowInv'
<1>1. ASSUME NEW u \in Threads, u # t PROVE FollowCall(call[u])'
  <2> DEFINE c == call[u]
  <2>0. FollowCall(c) /\ call'[u] = c /\ (c.pc \in {"test", "set"} => apps'[c.at] = apps[c.at])
    BY <1>1 DEF FollowInv
  <2>1. ASSUME c.pc \in {"test", "set"}, NEW i \in DOMAIN apps[c.at], NEW a \in Appenders,
               i < c.pos, apps[c.at][i] = a
        PROVE  Spared(a)' \/ afmt'[a] = c.fmt
    <3>1. Spared(a) \/ afmt[a] = c.fmt
      BY <2>0, <2>1 DEF FollowCall
    <3>2. ReliesOn(c, a)
      BY <2>1 DEF ReliesOn, Listed
    <3>3. Spared(a)' \/ afmt'[a] = afmt[a]
      BY <1>1, <3>2
    <3> QED
      BY <3>1, <3>3
  <2>2. ASSUME NEW a \in Appenders, Adds(c, a)
        PROVE  IF c.pc = "add" THEN Spared(a)' /\ afmt'[a] # None ELSE Spared(a)' \/ afmt'[a] = None
    <3>1. IF c.pc = "add" THEN Spared(a) /\ afmt[a] # None ELSE Spared(a) \/ afmt[a] = None
      BY <2>0, <2>2 DEF FollowCall
    <3>2. c.pc = "addset" => Spared(a)' \/ afmt'[a] = afmt[a]
      BY <1>1, <2>2 DEF ReliesOn, Adds
    <3>3. (Spared(a) => Spared(a)') /\ (afmt[a] # None => afmt'[a] # None)
      OBVIOUS
    <3> HIDE DEF c
    <3> QED
      BY <2>2, <3>1, <3>2, <3>3 DEF Adds
  <2>4. \A a \in Appenders : Adds(call[u], a)' => Adds(c, a)
    BY <2>0 DEF Adds
  <2> QED
    BY <2>0, <2>1, <2>2, <2>4 DEF FollowCall
<1>2. ASSUME NEW u \in Threads, NEW v \in Threads, NEW a \in Appenders,
             u # v, Adds(call'[u], a), Adds(call'[v], a)
      PROVE  Spared(a)'
  <2>1. CASE u = t \/ v = t
    BY <1>2, <2>1
  <2>2. CASE u # t /\ v # t
    BY <1>2, <2>2 DEF FollowInv
  <2> QED
    BY <2>1, <2>2
<1>3. \A u \in Threads : FollowCall(call[u])'
  BY <1>1
<1>4. \A u, v \in Threads, a \in Appenders :
        u # v /\ Adds(call[u], a)' /\ Adds(call[v], a)' => Spared(a)'
  BY <1>2 DEF Adds
<1> QED
  BY <1>3, <1>4 DEF FollowInv

\* A step of one call that changes no list and no formatter.
LEMMA FollowMove ==
  ASSUME FollowInv, NEW t \in Threads,
         \A u \in Threads : u # t => call'[u] = call[u],
         UNCHANGED <<apps, fmt, has, afmt>>, moved \subseteq moved',
         call[t].pc \in {"test", "set"} =>
           call'[t].pc \in {"test", "set"} /\ call'[t].at = call[t].at,
         FollowCall(call[t])',
         \A u \in Threads, a \in Appenders :
           u # t /\ Adds(call'[t], a) /\ Adds(call[u], a) => Spared(a)'
  PROVE  FollowInv'
<1>1. \A l \in Loggers : Refitted(l) => Refitted(l)'
  BY DEF Refitted
<1>2. \A a : Spared(a) => Spared(a)'
  BY DEF Spared
<1>3. FollowTypes'
  BY DEF FollowInv, FollowTypes
<1>4. FollowLists'
  <2>1. \A l : Listed(l)' = Listed(l)
    BY DEF Listed
  <2> QED
    BY <1>1, <1>2, <2>1 DEF FollowInv, FollowLists
<1> QED
  BY <1>2, <1>3, <1>4, FollowStep

LEMMA FollowSetFormatter ==
  ASSUME Inv, FollowInv, NEW t \in Threads,
         \/ AskAppender(t) \/ SetAppender(t) \/ SetFormatterEnd(t)
         \/ \E l \in Loggers, f \in Formats : SetFormatter(t, l, f)
  PROVE  FollowInv'
<1> DEFINE old == call[t]
           asked == apps[old.at][old.pos]
<1>0. call \in [Threads -> Call] /\ old \in Call /\ WellFormed(old)
  BY CallOf DEF Inv, Shape
<1>1. ASSUME NEW l \in Loggers, NEW f \in Formats, SetFormatter(t, l, f)
      PROVE  FollowInv'
  <2>1. /\ \A u \in Threads : u # t => call'[u] = call[u]
        /\ call'[t].pc = "test" /\ call'[t].fmt = f /\ call'[t].pos = 1 /\ call'[t].at = l
    BY <1>0, <1>1 DEF SetFormatter, Idle
  <2>2. call[t].pc = "idle" /\ UNCHANGED <<apps, fmt, has, afmt, moved>>
    BY <1>1 DEF SetFormatter, Start
  <2>3. apps[l] \in Seq(Appenders)
    BY DEF FollowInv, FollowTypes
  <2>4. FollowCall(call[t])'
    BY <2>1, <2>2, <2>3 DEF FollowCall, Adds
  <2> QED
    BY <2>1, <2>2, <2>4, FollowMove DEF Adds
<1>2. CASE AskAppender(t)
  <2>1. /\ \A u \in Threads : u # t => call'[u] = call[u]
        /\ old.pc = "test" /\ old.pos <= Len(apps[old.at])
        /\ UNCHANGED <<apps, fmt, has, afmt, moved>>
    BY <1>0, <1>2 DEF AskAppender
  <2>2. old.at \in Loggers /\ apps[old.at] \in Seq(Appenders) /\ FollowCall(old)
    BY <1>0, <2>1 DEF FollowInv, FollowTypes, WellFormed
  <2>3. old.pos \in Nat \ {0} /\ old.fmt \in Formats /\ old.pos \in DOMAIN apps[old.at]
    BY <2>1, <2>2 DEF FollowCall
  <2>4. \A a : Spared(a)' <=> Spared(a)
    BY <2>1 DEF Spared
  <2>5. CASE has[asked]
    <3>1. call'[t].pc = "test" /\ call'[t].at = old.at /\ call'[t].fmt = old.fmt
          /\ call'[t].pos = old.pos + 1
      BY <1>0, <1>2, <2>5 DEF AskAppender, Call
    <3>2. ASSUME NEW i \in DOMAIN apps[old.at], NEW a \in Appenders, apps[old.at][i] = a,
                 i < old.pos + 1
          PROVE  Spared(a) \/ afmt[a] = old.fmt
      <4>1. i < old.pos \/ i = old.pos
        BY <2>2, <2>3, <3>2
      <4>2. CASE i = old.pos
        BY <2>5, <3>2, <4>2 DEF Spared, FollowInv, FollowTypes
      <4>3. CASE i < old.pos
        BY <2>1, <2>2, <3>2, <4>3 DEF FollowCall
      <4> QED
        BY <4>1, <4>2, <4>3
    <3>3. FollowCall(call[t])'
      <4>1. old.pos + 1 \in Nat \ {0}
        BY <2>3
      <4>2. \A a \in Appenders : ~Adds(call[t], a)'
        BY <3>1 DEF Adds
      <4>3. \A i \in DOMAIN apps'[call'[t].at], a \in Appenders :
              i < call'[t].pos /\ apps'[call'[t].at][i] = a => Spared(a)' \/ afmt'[a] = call'[t].fmt
        BY <2>1, <2>4, <3>1, <3>2
      <4> QED
        BY <2>3, <3>1, <4>1, <4>2, <4>3 DEF FollowCall
    <3> QED
      BY <2>1, <3>1, <3>3, FollowMove DEF Adds
  <2>6. CASE ~has[asked]
    <3>1. call'[t].pc = "set" /\ call'[t].at = old.at /\ call'[t].fmt = old.fmt
          /\ call'[t].pos = old.pos
      BY <1>0, <1>2, <2>6 DEF AskAppender, Call
    <3>2. \A i \in DOMAIN apps'[call'[t].at], a \in Appenders :
            i < call'[t].pos /\ apps'[call'[t].at][i] = a => Spared(a)' \/ afmt'[a] = call'[t].fmt
      BY <2>1, <2>2, <2>4, <3>1 DEF FollowCall
    <3>3. \A a \in Appenders : ~Adds(call[t], a)'
      BY <3>1 DEF Adds
    <3>4. FollowCall(call[t])'
      BY <2>1, <2>3, <3>1, <3>2, <3>3 DEF FollowCall
    <3> QED
      BY <2>1, <3>1, <3>4, FollowMove DEF Adds
  <2> QED
    BY <2>5, <2>6
<1>3. CASE SetAppender(t)
  <2>1. /\ \A u \in Threads : u # t => call'[u] = call[u]
        /\ old.pc = "set" /\ UNCHANGED <<apps, fmt, has, moved>>
        /\ afmt' = [afmt EXCEPT ![asked] = old.fmt]
        /\ call'[t].pc = "test" /\ call'[t].at = old.at /\ call'[t].fmt = old.fmt
        /\ call'[t].pos = old.pos + 1
    BY <1>0, <1>3 DEF SetAppender, Call
  <2>2. old.at \in Loggers /\ apps[old.at] \in Seq(Appenders) /\ FollowCall(old)
    BY <1>0, <2>1 DEF FollowInv, FollowTypes, WellFormed
  <2>3. /\ old.fmt \in Formats /\ old.pos \in Nat \ {0} /\ old.pos \in DOMAIN apps[old.at]
        /\ asked \in Appenders /\ asked \in Listed(old.at)
    BY <2>1, <2>2 DEF FollowCall, Listed
  <2>4. FollowTypes'
    BY <2>1, <2>3 DEF FollowInv, FollowTypes
  <2>5. /\ afmt'[asked] = old.fmt /\ old.fmt # None
        /\ \A b \in Appenders : b # asked => afmt'[b] = afmt[b]
    BY <2>1, <2>3, LoggerAssumption DEF FollowInv, FollowTypes, LoggerAssumption
  <2>6. \A l \in Loggers : Refitted(l) => Refitted(l)'
    BY <2>1 DEF Refitted
  <2>7. \A l \in Loggers : l = old.at => Refitted(l)'
    BY <2>1 DEF Refitted
  <2>8. \A a : Spared(a)' <=> Spared(a)
    BY <2>1 DEF Spared
  <2>9. FollowLists'
    <3> SUFFICES ASSUME NEW l \in Loggers, NEW b \in Listed(l)'
                 PROVE  /\ afmt'[b] # None
                        /\ Spared(b)' \/ afmt'[b] = fmt'[l] \/ Refitted(l)'
                        /\ \A m \in Loggers : b \in Listed(m)' => Spared(b)' \/ l = m
      BY DEF FollowLists
    <3>1. b \in Listed(l) /\ b \in Appenders /\ \A m \in Loggers : Listed(m)' = Listed(m)
      BY <2>1 DEF Listed, FollowInv, FollowTypes
    <3>2. \A m \in Loggers : b \in Listed(m) => Spared(b) \/ l = m
      BY <3>1 DEF FollowInv, FollowLists
    <3>3. CASE b = asked
      <4>1. Spared(b) \/ l = old.at
        BY <2>2, <2>3, <3>2, <3>3
      <4> QED
        <5>1. afmt'[b] # None
          BY <2>5, <3>3
        <5>2. Spared(b)' \/ Refitted(l)'
          BY <2>7, <2>8, <4>1
        <5>3. \A m \in Loggers : b \in Listed(m)' => Spared(b)' \/ l = m
          BY <2>8, <3>1, <3>2
        <5> QED
          BY <5>1, <5>2, <5>3
    <3>4. CASE b # asked
      <4>1. afmt[b] # None /\ (Spared(b) \/ afmt[b] = fmt[l] \/ Refitted(l))
        BY <3>1 DEF FollowInv, FollowLists
      <4> QED
        BY <2>1, <2>5, <2>6, <2>8, <3>1, <3>2, <3>4, <4>1
    <3> QED
      BY <3>3, <3>4
  <2>10. FollowCall(call[t])'
    <3>1. ASSUME NEW i \in DOMAIN apps[old.at], NEW a \in Appenders, apps[old.at][i] = a,
                 i < old.pos + 1
          PROVE  Spared(a) \/ afmt'[a] = old.fmt
      <4>1. i < old.pos \/ i = old.pos
        BY <2>2, <2>3, <3>1
      <4>2. CASE a = asked
        BY <2>5, <4>2
      <4>3. CASE a # asked
        <5>1. i < old.pos
          BY <3>1, <4>1, <4>3
        <5> QED
          BY <2>1, <2>2, <2>5, <3>1, <4>3, <5>1 DEF FollowCall
      <4> QED
        BY <4>2, <4>3
    <3>2. \A i \in DOMAIN apps'[call'[t].at], a \in Appenders :
            i < call'[t].pos /\ apps'[call'[t].at][i] = a => Spared(a)' \/ afmt'[a] = call'[t].fmt
      BY <2>1, <2>8, <3>1
    <3>3. \A a \in Appenders : ~Adds(call[t], a)'
      BY <2>1 DEF Adds
    <3>4. old.pos + 1 \in Nat \ {0}
      BY <2>3
    <3> QED
      BY <2>1, <2>3, <3>2, <3>3, <3>4 DEF FollowCall
  <2>11. ASSUME NEW u \in Threads, u # t, NEW a \in Appenders, ReliesOn(call[u], a)
         PROVE  Spared(a)' \/ afmt'[a] = afmt[a]
    <3>1. CASE a # asked
      BY <2>5, <3>1
    <3>2. CASE a = asked /\ call[u].pc \in {"test", "set"} /\ a \in Listed(call[u].at)
      <4>1. call[u].at \in Loggers /\ call[u].at # old.at
        BY <2>1, <2>11, <3>2, WorksAt
      <4>2. Spared(a)
        BY <2>2, <2>3, <3>2, <4>1 DEF FollowInv, FollowLists
      <4> QED
        BY <2>8, <4>2
    <3>3. CASE a = asked /\ call[u].pc = "addset" /\ call[u].app = a
      <4>1. afmt[a] # None
        BY <2>2, <2>3, <3>3 DEF FollowInv, FollowLists
      <4>2. FollowCall(call[u]) /\ Adds(call[u], a)
        BY <3>3 DEF FollowInv, Adds
      <4>3. Spared(a)
        BY <3>3, <4>1, <4>2 DEF FollowCall
      <4> QED
        BY <2>8, <4>3
    <3> QED
      BY <2>11, <3>1, <3>2, <3>3 DEF ReliesOn
  <2>12. \A a \in Appenders : /\ Spared(a) => Spared(a)'
                              /\ afmt[a] # None => afmt'[a] # None
    BY <2>5, <2>8
  <2>13. \A a \in Appenders : ~Adds(call'[t], a)
    BY <2>1 DEF Adds
  <2> QED
    BY <2>1, <2>4, <2>9, <2>10, <2>11, <2>12, <2>13, FollowStep
<1>4. CASE SetFormatterEnd(t)
  <2>1. /\ \A u \in Threads : u # t => call'[u] = call[u]
        /\ old.pc = "test" /\ old.pos > Len(apps[old.at]) /\ UNCHANGED <<apps, afmt, has, moved>>
        /\ fmt' = [fmt EXCEPT ![old.at] = old.fmt] /\ call'[t].pc = "idle"
    BY <1>0, <1>4 DEF SetFormatterEnd, Idle
  <2>2. old.at \in Loggers /\ apps[old.at] \in Seq(Appenders) /\ FollowCall(old)
    BY <1>0, <2>1 DEF FollowInv, FollowTypes, WellFormed
  <2>3. old.fmt \in Formats /\ \A i \in DOMAIN apps[old.at] : i < old.pos
    BY <2>1, <2>2 DEF FollowCall
  <2>4. FollowTypes' /\ fmt'[old.at] = old.fmt /\ \A l \in Loggers : l # old.at => fmt'[l] = fmt[l]
    BY <2>1, <2>2, <2>3 DEF FollowInv, FollowTypes
  <2>5. \A a : Spared(a)' <=> Spared(a)
    BY <2>1 DEF Spared
  <2>6. FollowLists'
    <3> SUFFICES ASSUME NEW l \in Loggers, NEW b \in Listed(l)'
                 PROVE  /\ afmt'[b] # None
                        /\ Spared(b)' \/ afmt'[b] = fmt'[l] \/ Refitted(l)'
                        /\ \A m \in Loggers : b \in Listed(m)' => Spared(b)' \/ l = m
      BY DEF FollowLists
    <3>1. b \in Listed(l) /\ \A m \in Loggers : Listed(m)' = Listed(m)
      BY <2>1 DEF Listed
    <3>2. afmt[b] # None /\ \A m \in Loggers : b \in Listed(m) => Spared(b) \/ l = m
      BY <3>1 DEF FollowInv, FollowLists
    <3>3. CASE l = old.at
      <4>1. b \in Appenders /\ \E i \in DOMAIN apps[old.at] : apps[old.at][i] = b
        BY <2>2, <3>1, <3>3 DEF Listed
      <4>2. Spared(b) \/ afmt[b] = old.fmt
        BY <2>1, <2>2, <2>3, <4>1 DEF FollowCall
      <4> QED
        BY <2>1, <2>4, <2>5, <3>1, <3>2, <3>3, <4>2
    <3>4. CASE l # old.at
      <4>1. Refitted(l) => Refitted(l)'
        BY <2>1, <3>4 DEF Refitted
      <4>2. Spared(b) \/ afmt[b] = fmt[l] \/ Refitted(l)
        BY <3>1 DEF FollowInv, FollowLists
      <4> QED
        BY <2>1, <2>4, <2>5, <3>1, <3>2, <3>4, <4>1, <4>2
    <3> QED
      BY <3>3, <3>4
  <2>7. FollowCall(call[t])' /\ \A a \in Appenders : ~Adds(call'[t], a)
    BY <2>1 DEF FollowCall, Adds
  <2> QED
    BY <2>1, <2>4, <2>5, <2>6, <2>7, FollowStep
<1> QED
  BY <1>1, <1>2, <1>3, <1>4

LEMMA FollowAdd ==
  ASSUME Inv, FollowInv, NEW t \in Threads,
         PushAppender(t) \/ \E l \in Loggers, a \in Handed : AddAppender(t, l, a)
  PROVE  FollowInv'
<1>0. call \in [Threads -> Call] /\ call[t] \in Call /\ WellFormed(call[t])
  BY CallOf DEF Inv, Shape
<1>1. ASSUME NEW l \in Loggers, NEW a \in Handed, AddAppender(t, l, a)
      PROVE  FollowInv'
  <2>1. /\ \A u \in Threads : u # t => call'[u] = call[u]
        /\ call[t].pc = "idle" /\ UNCHANGED <<apps, fmt, has, afmt>>
    BY <1>0, <1>1 DEF AddAppender, Start
  <2>2. /\ call'[t].app = a /\ a \in Appenders
        /\ \/ call'[t].pc = "addset" /\ afmt[a] = None
           \/ call'[t].pc = "add" /\ afmt[a] # None
    BY <1>0, <1>1 DEF AddAppender, Idle, Handed
  <2>3. moved' = IF has[a] \/ (afmt[a] = None /\ \A u \in Threads : call[u].app # a)
                 THEN moved ELSE moved \cup {a}
    BY <1>1 DEF AddAppender
  <2>4. has[a] = TRUE \/ has[a] = FALSE
    BY <2>2 DEF FollowInv, FollowTypes
  <2>5. /\ moved \subseteq moved'
        /\ afmt[a] # None => Spared(a)'
        /\ \A u \in Threads : Adds(call[u], a) => Spared(a)'
    BY <2>1, <2>3, <2>4 DEF Spared, Adds
  <2>6. \A b \in Appenders : Adds(call'[t], b) => b = a
    BY <2>2 DEF Adds
  <2>7. FollowCall(call[t])'
    BY <2>1, <2>2, <2>5, <2>6 DEF FollowCall, Adds
  <2> QED
    BY <2>1, <2>5, <2>6, <2>7, FollowMove
<1>2. CASE PushAppender(t)
  <2> DEFINE l == call[t].at
             a == call[t].app
  <2>1. /\ \A u \in Threads : u # t => call'[u] = call[u]
        /\ call[t].pc \in {"add", "addset"} /\ call'[t].pc = "idle" /\ UNCHANGED <<fmt, has, moved>>
        /\ apps' = [apps EXCEPT ![l] = Append(@, a)]
        /\ afmt' = [afmt EXCEPT ![a] = IF call[t].pc = "addset" THEN fmt[l] ELSE afmt[a]]
    BY <1>0, <1>2 DEF PushAppender, Idle
  <2>2. l \in Loggers /\ a \in Appenders /\ FollowCall(call[t]) /\ Adds(call[t], a)
    BY <1>0, <2>1 DEF FollowInv, FollowCall, WellFormed, Adds
  <2>3. apps' \in [Loggers -> Seq(Appenders)]
        /\ \A m \in Loggers : \A b \in Listed(m)' : b \in Listed(m) \/ (m = l /\ b = a)
    BY <2>1, <2>2, ListedAppend DEF FollowInv
  <2>4. fmt[l] \in Formats /\ fmt[l] # None
    BY <2>2, LoggerAssumption DEF LoggerAssumption, FollowInv, FollowTypes
  <2>5. \A m \in Loggers : Refitted(m) => Refitted(m)'
    BY <2>1 DEF Refitted
  <2>6. \A b : Spared(b)' <=> Spared(b)
    BY <2>1 DEF Spared
  <2>7. /\ \A b \in Appenders : b # a => afmt'[b] = afmt[b]
        /\ afmt'[a] = IF call[t].pc = "addset" THEN fmt[l] ELSE afmt[a]
    BY <2>1, <2>2 DEF FollowInv, FollowTypes
  <2>8. call[t].pc = "add" => Spared(a) /\ afmt[a] # None
    BY <2>2 DEF FollowCall
  <2>9. call[t].pc = "addset" => Spared(a) \/ afmt[a] = None
    BY <2>2 DEF FollowCall
  <2>10. Spared(a) \/ \A m \in Loggers : a \notin Listed(m)
    BY <2>1, <2>8, <2>9 DEF FollowInv, FollowLists
  <2>11. afmt'[a] # None /\ (Spared(a) \/ afmt'[a] = fmt[l])
    BY <2>1, <2>4, <2>7, <2>8
  <2>12. FollowTypes'
    <3>1. afmt' \in [Appenders -> Formats \cup {None}]
      BY <2>1, <2>2, <2>4 DEF FollowInv, FollowTypes
    <3> QED
      BY <2>1, <2>3, <3>1 DEF FollowInv, FollowTypes
  <2>13. FollowLists'
    <3> SUFFICES ASSUME NEW m \in Loggers, NEW b \in Listed(m)'
                 PROVE  /\ afmt'[b] # None
                        /\ Spared(b)' \/ afmt'[b] = fmt'[m] \/ Refitted(m)'
                        /\ \A k \in Loggers : b \in Listed(k)' => Spared(b)' \/ m = k
      BY DEF FollowLists
    <3>1. CASE b = a
      <4>1. Spared(a) \/ (m = l /\ \A k \in Loggers : b \in Listed(k)' => k = l)
        BY <2>3, <2>10, <3>1
      <4> HIDE DEF a, l
      <4> QED
        BY <2>1, <2>6, <2>11, <3>1, <4>1
    <3>2. CASE b # a
      <4>1. b \in Listed(m) /\ \A k \in Loggers : b \in Listed(k)' => b \in Listed(k)
        BY <2>3, <3>2
      <4>2. b \in Appenders
        BY <4>1 DEF Listed, FollowInv, FollowTypes
      <4>3. /\ afmt[b] # None /\ (Spared(b) \/ afmt[b] = fmt[m] \/ Refitted(m))
            /\ \A k \in Loggers : b \in Listed(k) => Spared(b) \/ m = k
        BY <4>1 DEF FollowInv, FollowLists
      <4> HIDE DEF a, l
      <4> QED
        BY <2>1, <2>5, <2>6, <2>7, <3>2, <4>1, <4>2, <4>3
    <3> QED
      BY <3>1, <3>2
  <2>14. ASSUME NEW u \in Threads, u # t, NEW b \in Appenders, ReliesOn(call[u], b)
         PROVE  Spared(b)' \/ afmt'[b] = afmt[b]
    <3>1. CASE b # a
      BY <2>7, <3>1
    <3>2. CASE b = a /\ call[u].pc \in {"test", "set"} /\ b \in Listed(call[u].at)
      BY <2>6, <2>10, <3>2, WorksAt
    <3>3. CASE b = a /\ call[u].pc = "addset" /\ call[u].app = b
      <4>1. Adds(call[u], b) /\ Adds(call[t], b)
        BY <2>2, <3>3 DEF Adds
      <4> QED
        BY <2>6, <2>14, <4>1 DEF FollowInv
    <3> QED
      BY <2>14, <3>1, <3>2, <3>3 DEF ReliesOn
  <2>15. \A u \in Threads : u # t /\ call[u].pc \in {"test", "set"} =>
           apps'[call[u].at] = apps[call[u].at]
    BY <1>2, ListKeptFor
  <2>16. \A b \in Appenders : /\ Spared(b) => Spared(b)'
                              /\ afmt[b] # None => afmt'[b] # None
    BY <2>6, <2>7, <2>11
  <2>17. FollowCall(call[t])' /\ \A b \in Appenders : ~Adds(call'[t], b)
    BY <2>1 DEF FollowCall, Adds
  <2> HIDE DEF a, l
  <2> QED
    BY <2>1, <2>12, <2>13, <2>14, <2>15, <2>16, <2>17, FollowStep
<1> QED
  BY <1>1, <1>2

LEMMA FollowConfig ==
  ASSUME Inv, FollowInv, NEW t \in Threads, Config(t)
  PROVE  FollowInv'
<1>1. call[t].pc = "idle" /\ UNCHANGED <<call, fmt, moved>>
  BY DEF Config, SetLevel, DelAppender, ClearAppender, AppSetLevel, AppSetFormatter, Start
<1>2. \A l : Refitted(l)' <=> Refitted(l)
  BY <1>1 DEF Refitted
<1>3. \A u \in Threads : u # t /\ call[u].pc \in {"test", "set"} =>
        apps'[call[u].at] = apps[call[u].at]
  BY ListKeptFor
<1>4. FollowCall(call[t])' /\ \A a \in Appenders : ~Adds(call'[t], a)
  BY <1>1 DEF FollowCall, Adds
<1>5. ASSUME apps' \in [Loggers -> Seq(Appenders)],
             \A m \in Loggers : Listed(m)' \subseteq Listed(m),
             UNCHANGED <<has, afmt>>
      PROVE  FollowInv'
  <2>1. \A a : Spared(a)' <=> Spared(a)
    BY <1>1, <1>5 DEF Spared
  <2>2. FollowTypes'
    BY <1>1, <1>5 DEF FollowInv, FollowTypes
  <2>3. FollowLists'
    BY <1>1, <1>2, <1>5, <2>1 DEF FollowInv, FollowLists
  <2> QED
    BY <1>1, <1>3, <1>4, <1>5, <2>1, <2>2, <2>3, FollowStep
<1>6. CASE UNCHANGED <<apps, has, afmt>>
  BY <1>5, <1>6 DEF Listed, FollowInv, FollowTypes
<1>7. ASSUME NEW l \in Loggers, NEW a,
             \/ apps' = [apps EXCEPT ![l] = Without(@, a)]
             \/ apps' = [apps EXCEPT ![l] = <<>>],
             UNCHANGED <<has, afmt>>
      PROVE  FollowInv'
  BY <1>5, <1>7, ListedWithout DEF FollowInv
<1>8. ASSUME NEW a \in Handed, NEW f \in Formats, AppSetFormatter(t, a, f)
      PROVE  FollowInv'
  <2>1. /\ UNCHANGED apps /\ has' = [has EXCEPT ![a] = TRUE]
        /\ afmt' = [afmt EXCEPT ![a] = f]
    BY <1>8 DEF AppSetFormatter
  <2>2. a \in Appenders /\ f # None
    BY LoggerAssumption DEF LoggerAssumption, Handed
  <2>3. FollowTypes'
    BY <1>1, <2>1, <2>2 DEF FollowInv, FollowTypes
  <2>4. /\ has'[a] = TRUE /\ afmt'[a] = f
        /\ \A b \in Appenders : b # a => has'[b] = has[b] /\ afmt'[b] = afmt[b]
    BY <2>1, <2>2 DEF FollowInv, FollowTypes
  <2>5. Spared(a)' /\ \A b \in Appenders : Spared(b) => Spared(b)'
    BY <1>1, <2>4 DEF Spared
  <2>6. FollowLists'
    <3> SUFFICES ASSUME NEW l \in Loggers, NEW b \in Listed(l)'
                 PROVE  /\ afmt'[b] # None
                        /\ Spared(b)' \/ afmt'[b] = fmt'[l] \/ Refitted(l)'
                        /\ \A m \in Loggers : b \in Listed(m)' => Spared(b)' \/ l = m
      BY DEF FollowLists
    <3>1. b \in Listed(l) /\ b \in Appenders /\ \A m \in Loggers : Listed(m)' = Listed(m)
      BY <2>1 DEF Listed, FollowInv, FollowTypes
    <3>2. CASE b = a
      BY <2>2, <2>4, <2>5, <3>2
    <3>3. CASE b # a
      <4>1. /\ afmt[b] # None /\ (Spared(b) \/ afmt[b] = fmt[l] \/ Refitted(l))
            /\ \A m \in Loggers : b \in Listed(m) => Spared(b) \/ l = m
        BY <3>1 DEF FollowInv, FollowLists
      <4> QED
        BY <1>1, <1>2, <2>4, <2>5, <3>1, <3>3, <4>1
    <3> QED
      BY <3>2, <3>3
  <2>7. \A b \in Appenders : /\ Spared(b)' \/ afmt'[b] = afmt[b]
                             /\ afmt[b] # None => afmt'[b] # None
    BY <2>2, <2>4, <2>5
  <2> QED
    BY <1>1, <1>3, <1>4, <2>3, <2>5, <2>6, <2>7, FollowStep
<1> QED
  BY <1>6, <1>7, <1>8 DEF Config, SetLevel, DelAppender, ClearAppender, AppSetLevel

\* However many threads configure, every appender without a formatter of its own
\* has that of the logger it is listed in, unless it was added to one after
\* another had given it a formatter (log.cpp:67-103, ReadMe.md:201).
THEOREM Follows == LSpec => []FormatterFollows
<1>1. LInit => FollowInv
  <2> SUFFICES ASSUME LInit PROVE FollowInv
    OBVIOUS
  <2>1. \A t \in Threads : call[t].pc = "idle"
    BY DEF LInit, Idle
  <2>2. <<Stdout>> \in Seq(Appenders) /\ <<>> \in Seq(Appenders) /\ DefaultFmt # None
        /\ Stdout \in Appenders /\ DefaultFmt \in Formats
    BY LoggerAssumption DEF LoggerAssumption
  <2>3. FollowTypes
    BY <2>2 DEF LInit, FollowTypes
  <2>4. \A l \in Loggers : Listed(l) = IF l = Root THEN {Stdout} ELSE {}
    BY DEF LInit, Listed
  <2>5. FollowLists
    BY <2>2, <2>4 DEF LInit, FollowLists
  <2> QED
    BY <2>1, <2>3, <2>5 DEF FollowInv, FollowCall, Adds
<1>2. Inv /\ FollowInv /\ [LNext]_lvars => FollowInv'
  <2> SUFFICES ASSUME Inv, FollowInv, [LNext]_lvars PROVE FollowInv'
    OBVIOUS
  <2>1. CASE UNCHANGED lvars
    BY <2>1 DEF lvars, FollowInv, FollowTypes, FollowLists, FollowCall, Listed, Refitted,
       Spared, Adds
  <2>2. ASSUME NEW t \in Threads,
               \/ LogLock(t) \/ LogAppend(t) \/ LogFallback(t) \/ LogReturn(t)
               \/ \E l \in Loggers, v \in Levels : LogCall(t, l, v)
        PROVE  FollowInv'
    <3>1. /\ \A u \in Threads : u # t => call'[u] = call[u]
          /\ call[t].pc \notin {"test", "set"}
          /\ call'[t].pc \in {"enter", "loop", "return", "idle"}
      <4>0. call \in [Threads -> Call]
        BY DEF Inv, Shape
      <4>1. CASE LogLock(t) \/ LogAppend(t)
        BY <4>0, <4>1 DEF LogLock, LogAppend, Goto, Call
      <4>2. CASE LogFallback(t)
        BY <4>0, <4>2 DEF LogFallback, Call
      <4>3. CASE LogReturn(t)
        BY <4>0, <4>3 DEF LogReturn, Idle, Call
      <4>4. CASE \E l \in Loggers, v \in Levels : LogCall(t, l, v)
        BY <4>0, <4>4 DEF LogCall, Idle, Start
      <4> QED
        BY <2>2, <4>1, <4>2, <4>3, <4>4
    <3>2. UNCHANGED <<apps, fmt, has, afmt, moved>>
      BY <2>2 DEF LogLock, LogAppend, LogFallback, LogReturn, LogCall
    <3>3. FollowCall(call[t])' /\ \A a \in Appenders : ~Adds(call'[t], a)
      BY <3>1 DEF FollowCall, Adds
    <3> QED
      BY <3>1, <3>2, <3>3, FollowMove
  <2> QED
    BY <2>1, <2>2, FollowSetFormatter, FollowAdd, FollowConfig DEF LNext, LStep, Config
<1>3. Inv /\ FollowInv => FormatterFollows
  <2> SUFFICES ASSUME Inv, FollowInv, NEW l \in Loggers, mtx[l] = None,
                      NEW a \in Listed(l) \ moved, ~has[a]
               PROVE  afmt[a] = fmt[l]
    BY DEF FormatterFollows
  <2>1. ~Refitted(l)
    BY NoneIsNone DEF Refitted, Inv, LockInv, Holds
  <2>2. ~Spared(a)
    BY DEF Spared
  <2> QED
    BY <2>1, <2>2 DEF FollowInv, FollowLists
<1> QED
  BY <1>1, <1>2, <1>3, InvHolds, PTL DEF LSpec

----------------------------------------------------------------------------
(* The configuration, whatever number of threads load it: the root logger.  *)

\* What holds of any load.
LoadState ==
  [pc : {"idle", "define", "level", "format", "clear", "build", "attach",
         "delete", "silence", "store"},
   new : Confs \cup {None}, todo : SUBSET Names, pos : Nat \ {0}, app : Handed \cup {None}]

Shaped(r) ==
  /\ r.pc # "idle" => r.new \in Confs
  /\ r.pc \in {"define", "level", "format", "clear", "build", "attach"} =>
       \A n \in r.todo : r.new[n] \in Defs
  /\ r.pc \in {"level", "format", "clear", "build", "attach", "silence"} =>
       r.todo # {} /\ reg[First(r.todo)] = First(r.todo)
  /\ r.pc = "format" => r.new[First(r.todo)].fmt # None
  /\ r.pc = "attach" <=> r.app # None

LoadTypes ==
  /\ conf \in Confs /\ reg \in [Names -> Names \cup {None}]
  /\ \A n \in Names : reg[n] \in {None, n}
  /\ load \in [Loaders -> LoadState] /\ \A t \in Loaders : Shaped(load[t])

\* The root logger is as the program made it, and no call configures it or the
\* appender it was given.
RootLists ==
  /\ apps \in [Loggers -> Seq(Appenders)] /\ level[Root] = Lowest /\ fmt[Root] = DefaultFmt
  /\ level = [l \in Loggers |-> level[l]] /\ fmt = [l \in Loggers |-> fmt[l]]
  /\ afmt = [a \in Appenders |-> afmt[a]]
  /\ apps[Root] = <<Stdout>> /\ afmt[Stdout] = DefaultFmt
  /\ \A n \in Names : Stdout \notin Listed(n)

RootCall(c) ==
  c.pc \in {"test", "set", "add", "addset"} =>
    /\ c.at \in Names
    /\ c.pc \in {"test", "set"} => c.pos \in Nat \ {0}
    /\ c.pc = "set" => c.pos \in DOMAIN apps[c.at]
    /\ c.pc \in {"add", "addset"} => c.app \in Handed

RootInv == RootLists /\ \A t \in Threads : RootCall(call[t])

LEMMA RankOf ==
  ASSUME NEW n \in Names
  PROVE  Rank(n) \in DOMAIN NameSeq /\ NameSeq[Rank(n)] = n /\ Rank(n) \in Nat
<1>1. \E i \in DOMAIN NameSeq : NameSeq[i] = n
  BY DEF Names, ToSet
<1>2. Rank(n) \in DOMAIN NameSeq /\ NameSeq[Rank(n)] = n
  BY <1>1 DEF Rank
<1>3. NameSeq \in Seq(Names)
  BY LogConfigAssumption DEF LogConfigAssumption
<1> QED
  BY <1>2, <1>3

\* The loop comes to the names in their order.
LEMMA FirstOf ==
  ASSUME NEW S, S \subseteq Names, S # {}
  PROVE  First(S) \in S /\ \A m \in S : Rank(First(S)) <= Rank(m)
<1> DEFINE ranks == {Rank(n) : n \in S}
<1>1. ranks \subseteq Nat /\ ranks # {}
  BY RankOf
<1>2. PICK k \in ranks : \A j \in ranks : k <= j
  <2> HIDE DEF ranks
  <2> QED
    BY <1>1, LeastOf
<1>3. \E n \in S : \A m \in S : Rank(n) <= Rank(m)
  BY <1>2
<1> QED
  BY <1>3 DEF First

LEMMA DefTypes ==
  ASSUME NEW d \in Defs
  PROVE  /\ d.level \in Levels /\ d.fmt \in Formats \cup {None} /\ d # None
         /\ d.apps \in Seq([level : Levels, fmt : Formats \cup {None}])
BY LogConfigAssumption DEF LogConfigAssumption

LEMMA LoadersConfigure ==
  /\ Loaders \subseteq Configurers /\ Loaders \subseteq Threads
  /\ Names \subseteq Loggers /\ Root \in Loggers /\ Root \notin Names /\ Off \in Levels
  /\ Loggers = Names \cup {Root} /\ None \notin Names /\ None \notin Handed
  /\ Stdout \in Appenders /\ Handed \subseteq Appenders /\ None \notin Defs
BY LogConfigAssumption, LoggerAssumption DEF LogConfigAssumption, LoggerAssumption, Threads, Handed

\* What a loader does to the loggers: calls on the logger at hand.
LCall(t, n) ==
  \/ \E v \in Levels : SetLevel(t, n, v)
  \/ \E f \in Formats : SetFormatter(t, n, f)
  \/ ClearAppender(t, n)
  \/ \E a \in Handed : AddAppender(t, n, a)

LEMMA AtHand ==
  ASSUME LoadTypes, NEW t \in Loaders,
         load[t].pc \in {"level", "format", "clear", "build", "attach", "silence"}
  PROVE  Name(t) \in load[t].todo /\ Name(t) \in Names /\ reg[Name(t)] = Name(t)
<1>1. load[t].todo \subseteq Names /\ load[t].todo # {} /\ reg[First(load[t].todo)] = First(load[t].todo)
  BY DEF LoadTypes, LoadState, Shaped
<1> QED
  BY <1>1, FirstOf DEF Name

LEMMA DefAtHand ==
  ASSUME LoadTypes, NEW t \in Loaders,
         load[t].pc \in {"level", "format", "clear", "build", "attach"}
  PROVE  Def(t) \in Defs /\ (load[t].pc = "format" => Def(t).fmt # None)
<1>1. Name(t) \in load[t].todo
  BY AtHand
<1> QED
  BY <1>1 DEF LoadTypes, Shaped, Def, Name

LEMMA LoadSteps ==
  ASSUME LoadTypes, NEW t \in Loaders, Load(t)
  PROVE  \/ UNCHANGED lvars
         \/ LoadBuild(t)
         \/ \E n \in Names : LCall(t, n)
<1>1. CASE LoadLevel(t)
  <2>1. load[t].pc = "level" /\ SetLevel(t, reg[Name(t)], Def(t).level)
    BY <1>1 DEF LoadLevel, At
  <2>2. Def(t).level \in Levels /\ reg[Name(t)] \in Names
    BY <2>1, AtHand, DefAtHand, DefTypes
  <2> QED
    BY <2>1, <2>2 DEF LCall
<1>2. CASE LoadFormat(t)
  <2>1. load[t].pc = "format" /\ SetFormatter(t, reg[Name(t)], Def(t).fmt)
    BY <1>2 DEF LoadFormat, At
  <2>2. Def(t).fmt \in Formats /\ reg[Name(t)] \in Names
    BY <2>1, AtHand, DefAtHand, DefTypes
  <2> QED
    BY <2>1, <2>2 DEF LCall
<1>3. CASE LoadClear(t) \/ LoadSilence(t)
  <2>1. load[t].pc \in {"clear", "silence"} /\ ClearAppender(t, reg[Name(t)])
    BY <1>3 DEF LoadClear, LoadSilence, At
  <2>2. reg[Name(t)] \in Names
    BY <2>1, AtHand
  <2> QED
    BY <2>1, <2>2 DEF LCall
<1>4. CASE LoadAttach(t)
  <2>1. load[t].pc = "attach" /\ AddAppender(t, reg[Name(t)], load[t].app)
    BY <1>4 DEF LoadAttach, At
  <2>2. reg[Name(t)] \in Names
    BY <2>1, AtHand
  <2>3. load[t].app \in Handed
    BY <2>1 DEF LoadTypes, LoadState, Shaped
  <2> QED
    BY <2>1, <2>2, <2>3 DEF LCall
<1>5. CASE LoadDelete(t)
  <2>1. load[t].pc = "delete" /\ load[t].todo # {} /\ GetLogger(Name(t)) /\ SetLevel(t, reg'[Name(t)], Off)
    BY <1>5 DEF LoadDelete, At
  <2>2. Name(t) \in Names
    BY <2>1, FirstOf DEF LoadTypes, LoadState, Name
  <2>3. reg'[Name(t)] = Name(t)
    BY <2>1, <2>2, LoadersConfigure DEF GetLogger, LoadTypes
  <2> QED
    BY <2>1, <2>2, <2>3, LoadersConfigure DEF LCall
<1> QED
  BY <1>1, <1>2, <1>3, <1>4, <1>5
     DEF Load, LoadChanged, LoadUnchanged, LoadBuilt, LoadDefined, LoadDeleted, LoadStore

LEMMA NextSteps ==
  ASSUME LoadTypes, [Next]_vars
  PROVE  \/ UNCHANGED lvars
         \/ \E t \in Threads : LStep(t)
         \/ \E t \in Threads, l \in Loggers, v \in Levels : LogCall(t, l, v)
         \/ \E t \in Loaders : LoadBuild(t)
         \/ \E t \in Loaders, n \in Names : LCall(t, n)
<1>1. ASSUME NEW t \in Threads, Log(t)
      PROVE  LStep(t) \/ \E l \in Loggers, v \in Levels : LogCall(t, l, v)
  <2>1. ASSUME NEW l \in {reg[n] : n \in Names} \cup {Root}, l # None PROVE l \in Loggers
    BY <2>1, LoadersConfigure DEF LoadTypes
  <2> QED
    BY <1>1, <2>1 DEF Log
<1>2. ASSUME NEW t \in Loaders, NEW c, LoadBegin(t, c) PROVE UNCHANGED lvars
  BY <1>2 DEF LoadBegin
<1>3. ASSUME NEW n, Register(n) PROVE UNCHANGED lvars
  BY <1>3 DEF Register
<1>4. CASE UNCHANGED vars
  BY <1>4 DEF vars
<1> QED
  BY <1>1, <1>2, <1>3, <1>4, LoadSteps DEF Next

LEMMA LoadLocks ==
  ASSUME Inv, LoadTypes, [Next]_vars
  PROVE  Inv'
<1>1. ASSUME UNCHANGED <<mtx, call, apps>> PROVE Inv'
  BY <1>1 DEF Inv, Shape, LockInv, WellFormed, Holds
<1>2. ASSUME NEW t \in Threads, LStep(t) \/ \E l \in Loggers, v \in Levels : LogCall(t, l, v)
      PROVE  Inv'
  BY <1>2, LogKeeps, AddKeeps, FormatterKeeps DEF LStep
<1>3. ASSUME NEW t \in Loaders, NEW n \in Names, LCall(t, n)
      PROVE  Inv'
  <2>1. t \in Threads /\ n \in Loggers
    BY LoadersConfigure
  <2> QED
    BY <1>3, <2>1, AddKeeps, FormatterKeeps, ConfigKeeps DEF LCall, Config
<1>4. CASE UNCHANGED lvars
  BY <1>1, <1>4 DEF lvars
<1>5. ASSUME NEW t \in Loaders, LoadBuild(t) PROVE Inv'
  BY <1>1, <1>5 DEF LoadBuild
<1> QED
  BY <1>2, <1>3, <1>4, <1>5, NextSteps

LEMMA LoadTypesMove ==
  ASSUME LoadTypes, NEW t \in Loaders,
         load' \in [Loaders -> LoadState], \A u \in Loaders : u # t => load'[u] = load[u],
         conf' \in Confs, UNCHANGED reg \/ \E n \in Names : GetLogger(n),
         Shaped(load[t])'
  PROVE  LoadTypes'
<1>1. /\ reg' \in [Names -> Names \cup {None}]
      /\ \A n \in Names : reg'[n] \in {None, n} /\ (reg[n] = n => reg'[n] = n)
  BY LoadersConfigure DEF LoadTypes, GetLogger
<1>2. ASSUME NEW u \in Loaders, u # t PROVE Shaped(load[u])'
  <2>1. load'[u] = load[u] /\ Shaped(load[u]) /\ load[u].todo \subseteq Names
    BY <1>2 DEF LoadTypes, LoadState
  <2>2. load[u].todo # {} => First(load[u].todo) \in Names
    BY <2>1, FirstOf
  <2> QED
    BY <1>1, <2>1, <2>2 DEF Shaped
<1> QED
  BY <1>1, <1>2 DEF LoadTypes

\* The appender a loader builds is a new one.
LEMMA NewAppender ==
  ASSUME LoadTypes, RootInv, NEW t \in Loaders, LoadBuild(t)
  PROVE  \E a \in Handed :
    LET d == Def(t).apps[load[t].pos] IN
    /\ At(t, "build") /\ load[t].pos <= Len(Def(t).apps)
    /\ \A l \in Loggers : a \notin Listed(l)
    /\ \A u \in Threads : call[u].app # a
    /\ alevel' = [alevel EXCEPT ![a] = d.level]
    /\ afmt' = [afmt EXCEPT ![a] = d.fmt]
    /\ own' = [own EXCEPT ![a] = d.fmt]
    /\ load' = [load EXCEPT ![t].pc = "attach", ![t].app = a]
    /\ UNCHANGED <<level, apps, fmt, mtx, call, conf, reg>>
<1> DEFINE used == {call[u].app : u \in Threads} \cup {load[u].app : u \in Loaders}
                     \cup (UNION {Listed(l) : l \in Loggers})
           free == Appenders \ used
           a == CHOOSE b \in free : TRUE
<1>1. a \in free
  BY DEF LoadBuild
<1>2. Stdout \in used
  <2>1. Stdout \in Listed(Root) /\ Root \in Loggers
    BY LoadersConfigure DEF RootInv, RootLists, Listed
  <2> QED
    BY <2>1
<1>3. a \in Handed /\ (\A l \in Loggers : a \notin Listed(l)) /\ \A u \in Threads : call[u].app # a
  <2> HIDE DEF a
  <2>1. a \in Appenders /\ a \notin used
    BY <1>1
  <2>2. a # Stdout
    BY <1>2, <2>1
  <2>3. a \in Handed
    BY <2>1, <2>2 DEF Handed
  <2>4. \A l \in Loggers : a \notin Listed(l)
    BY <2>1, Zenon
  <2>5. ASSUME NEW u \in Threads PROVE call[u].app # a
    <3>1. call[u].app \in used
      OBVIOUS
    <3> HIDE DEF used
    <3> QED
      BY <2>1, <3>1
  <2> QED
    BY <2>3, <2>4, <2>5
<1>4. LET d == Def(t).apps[load[t].pos] IN
      /\ At(t, "build") /\ load[t].pos <= Len(Def(t).apps)
      /\ alevel' = [alevel EXCEPT ![a] = d.level]
      /\ afmt' = [afmt EXCEPT ![a] = d.fmt]
      /\ own' = [own EXCEPT ![a] = d.fmt]
      /\ load' = [load EXCEPT ![t].pc = "attach", ![t].app = a]
      /\ UNCHANGED <<level, apps, fmt, mtx, call, conf, reg>>
  BY DEF LoadBuild
<1> HIDE DEF a
<1> QED
  BY <1>3, <1>4

LEMMA LoadTypesKept ==
  ASSUME LoadTypes, RootInv, [Next]_vars
  PROVE  LoadTypes'
<1>0. load \in [Loaders -> LoadState] /\ conf \in Confs
  BY DEF LoadTypes
<1>1. CASE UNCHANGED <<conf, reg, load>>
  BY <1>1 DEF LoadTypes, Shaped
<1>2. ASSUME NEW n \in Names, Register(n) PROVE LoadTypes'
  BY <1>2, LoadersConfigure DEF Register, GetLogger, LoadTypes, Shaped, LoadState, FirstOf
<1>3. ASSUME NEW t \in Loaders, NEW c \in Confs, LoadBegin(t, c) PROVE LoadTypes'
  <2>1. /\ load' \in [Loaders -> LoadState] /\ \A u \in Loaders : u # t => load'[u] = load[u]
        /\ load'[t].pc = "define" /\ load'[t].new = c /\ load'[t].todo = Defined(c)
        /\ load'[t].app = None
    <3> DEFINE r == [NoLoad EXCEPT !.pc = "define", !.new = c, !.todo = Defined(c)]
    <3>1. r.pc = "define" /\ r.new = c /\ r.todo = Defined(c) /\ r.app = None
      BY DEF NoLoad
    <3>2. Defined(c) \in SUBSET Names
      BY DEF Defined
    <3>3. r \in LoadState
      <4>1. NoLoad \in LoadState
        BY DEF NoLoad, LoadState
      <4> QED
        BY <1>3, <3>2, <4>1 DEF LoadState
    <3>4. load' = [load EXCEPT ![t] = r]
      BY <1>3 DEF LoadBegin
    <3> HIDE DEF r
    <3> QED
      BY <1>0, <3>1, <3>3, <3>4
  <2>2. \A n \in Defined(c) : c[n] \in Defs
    BY DEF Defined, Confs
  <2>3. Shaped(load[t])'
    BY <2>1, <2>2 DEF Shaped
  <2> QED
    BY <1>3, <2>1, <2>3, LoadTypesMove, <1>0 DEF LoadBegin
<1>4. ASSUME NEW t \in Loaders, LoadChanged(t) \/ LoadUnchanged(t) PROVE LoadTypes'
  <2>1. /\ load' \in [Loaders -> LoadState] /\ \A u \in Loaders : u # t => load'[u] = load[u]
        /\ load'[t].new = load[t].new /\ load'[t].todo = load[t].todo /\ load'[t].app = load[t].app
        /\ load[t].pc = "define" /\ load[t].todo # {} /\ UNCHANGED conf
    BY <1>0, <1>4 DEF LoadChanged, LoadUnchanged, At, LoadState
  <2>2. Name(t) \in Names /\ Shaped(load[t])
    BY <1>0, <2>1, FirstOf DEF Name, LoadState, LoadTypes
  <2>3. \/ load'[t].pc = "store" /\ UNCHANGED reg
        \/ load'[t].pc = "level" /\ GetLogger(Name(t))
    BY <1>0, <1>4 DEF LoadChanged, LoadUnchanged, LoadState
  <2>4. GetLogger(Name(t)) => reg'[Name(t)] = Name(t)
    BY <2>2 DEF GetLogger, LoadTypes
  <2>5. Shaped(load[t])'
    BY <2>1, <2>2, <2>3, <2>4 DEF Shaped, Name
  <2> QED
    BY <1>0, <2>1, <2>2, <2>3, <2>5, LoadTypesMove
<1>5. ASSUME NEW t \in Loaders, LoadLevel(t) \/ LoadFormat(t) \/ LoadClear(t) PROVE LoadTypes'
  <2>1. /\ load' \in [Loaders -> LoadState] /\ \A u \in Loaders : u # t => load'[u] = load[u]
        /\ load'[t].new = load[t].new /\ load'[t].todo = load[t].todo /\ load'[t].app = load[t].app
        /\ load[t].pc \in {"level", "format", "clear"} /\ UNCHANGED <<conf, reg>>
    BY <1>0, <1>5 DEF LoadLevel, LoadFormat, LoadClear, At, LoadState
  <2>2. \/ load'[t].pc \in {"clear", "build"}
        \/ load'[t].pc = "format" /\ Def(t).fmt # None
    BY <1>0, <1>5 DEF LoadLevel, LoadFormat, LoadClear, At, LoadState
  <2>3. Shaped(load[t])
    BY DEF LoadTypes
  <2>4. Shaped(load[t])'
    BY <2>1, <2>2, <2>3 DEF Shaped, Def, Name
  <2> QED
    BY <1>0, <2>1, <2>4, LoadTypesMove
<1>6. ASSUME NEW t \in Loaders, LoadBuild(t) PROVE LoadTypes'
  <2>1. PICK a \in Handed : /\ load' = [load EXCEPT ![t].pc = "attach", ![t].app = a]
                            /\ load[t].pc = "build" /\ UNCHANGED <<conf, reg>>
    BY <1>6, NewAppender DEF At
  <2>2. /\ load' \in [Loaders -> LoadState] /\ \A u \in Loaders : u # t => load'[u] = load[u]
        /\ load'[t].new = load[t].new /\ load'[t].todo = load[t].todo /\ load'[t].app = a
        /\ load'[t].pc = "attach"
    BY <1>0, <2>1 DEF LoadState
  <2>3. Shaped(load[t]) /\ a # None
    BY LoadersConfigure DEF LoadTypes
  <2>4. Shaped(load[t])'
    BY <2>1, <2>2, <2>3 DEF Shaped
  <2> QED
    BY <1>0, <2>1, <2>2, <2>4, LoadTypesMove
<1>7. ASSUME NEW t \in Loaders, LoadAttach(t) PROVE LoadTypes'
  <2>1. /\ load' \in [Loaders -> LoadState] /\ \A u \in Loaders : u # t => load'[u] = load[u]
        /\ load'[t].new = load[t].new /\ load'[t].todo = load[t].todo /\ load'[t].app = None
        /\ load[t].pc = "attach" /\ load'[t].pc = "build" /\ UNCHANGED <<conf, reg>>
    BY <1>0, <1>7 DEF LoadAttach, At, LoadState
  <2>2. Shaped(load[t])
    BY DEF LoadTypes
  <2>3. Shaped(load[t])'
    BY <2>1, <2>2 DEF Shaped
  <2> QED
    BY <1>0, <2>1, <2>3, LoadTypesMove
<1>8. ASSUME NEW t \in Loaders, LoadBuilt(t) \/ LoadSilence(t) PROVE LoadTypes'
  <2>1. /\ load' \in [Loaders -> LoadState] /\ \A u \in Loaders : u # t => load'[u] = load[u]
        /\ load'[t].new = load[t].new /\ load'[t].todo \subseteq load[t].todo
        /\ load'[t].app = load[t].app
        /\ \/ load[t].pc = "build" /\ load'[t].pc = "define"
           \/ load[t].pc = "silence" /\ load'[t].pc = "delete"
        /\ UNCHANGED <<conf, reg>>
    BY <1>0, <1>8 DEF LoadBuilt, LoadSilence, At, LoadState
  <2>2. Shaped(load[t])
    BY DEF LoadTypes
  <2>3. Shaped(load[t])'
    BY <2>1, <2>2 DEF Shaped
  <2> QED
    BY <1>0, <2>1, <2>3, LoadTypesMove
<1>9. ASSUME NEW t \in Loaders, LoadDefined(t) \/ LoadDeleted(t) PROVE LoadTypes'
  <2>1. /\ load' \in [Loaders -> LoadState] /\ \A u \in Loaders : u # t => load'[u] = load[u]
        /\ load'[t].new = load[t].new /\ load'[t].app = load[t].app
        /\ \/ load[t].pc = "define" /\ load'[t].pc = "delete"
           \/ load[t].pc = "delete" /\ load'[t].pc = "store"
        /\ UNCHANGED <<conf, reg>>
    BY <1>0, <1>9 DEF LoadDefined, LoadDeleted, At, LoadState, Defined
  <2>2. Shaped(load[t])
    BY DEF LoadTypes
  <2>3. Shaped(load[t])'
    BY <2>1, <2>2 DEF Shaped
  <2> QED
    BY <1>0, <2>1, <2>3, LoadTypesMove
<1>10. ASSUME NEW t \in Loaders, LoadDelete(t) PROVE LoadTypes'
  <2>1. /\ load' \in [Loaders -> LoadState] /\ \A u \in Loaders : u # t => load'[u] = load[u]
        /\ load'[t].new = load[t].new /\ load'[t].todo = load[t].todo /\ load'[t].app = load[t].app
        /\ load[t].pc = "delete" /\ load[t].todo # {} /\ UNCHANGED conf
        /\ load'[t].pc = "silence" /\ GetLogger(Name(t))
    BY <1>0, <1>10 DEF LoadDelete, At, LoadState
  <2>2. Name(t) \in Names /\ Shaped(load[t])
    BY <1>0, <2>1, FirstOf DEF Name, LoadState, LoadTypes
  <2>3. reg'[Name(t)] = Name(t)
    BY <2>1, <2>2 DEF GetLogger, LoadTypes
  <2>4. Shaped(load[t])'
    BY <2>1, <2>2, <2>3 DEF Shaped, Name
  <2> QED
    BY <1>0, <2>1, <2>2, <2>4, LoadTypesMove
<1>11. ASSUME NEW t \in Loaders, LoadStore(t) PROVE LoadTypes'
  <2>1. load[t].new \in Confs
    BY <1>11 DEF LoadStore, At, LoadTypes, Shaped
  <2>2. /\ load' \in [Loaders -> LoadState] /\ \A u \in Loaders : u # t => load'[u] = load[u]
        /\ conf' \in Confs /\ UNCHANGED reg /\ load'[t] = NoLoad
    BY <1>0, <1>11, <2>1 DEF LoadStore, NoLoad, LoadState
  <2>3. Shaped(load[t])'
    BY <2>2 DEF Shaped, NoLoad
  <2> QED
    BY <2>2, <2>3, LoadTypesMove
<1>12. ASSUME NEW t \in Threads, Log(t) PROVE UNCHANGED <<conf, reg, load>>
  BY <1>12 DEF Log
<1>13. CASE UNCHANGED vars
  BY <1>1, <1>13 DEF vars
<1> QED
  BY <1>1, <1>2, <1>3, <1>4, <1>5, <1>6, <1>7, <1>8, <1>9, <1>10, <1>11, <1>12, <1>13
     DEF Next, Load

\* A step of t's call that changes no list another call is setting formatters of.
LEMMA RootMove ==
  ASSUME RootInv, NEW t \in Threads,
         \A u \in Threads : u # t => call'[u] = call[u],
         \A u \in Threads : u # t /\ call[u].pc = "set" => apps'[call[u].at] = apps[call[u].at],
         RootLists', RootCall(call[t])'
  PROVE  RootInv'
<1>1. ASSUME NEW u \in Threads, u # t PROVE RootCall(call[u])'
  BY <1>1 DEF RootInv, RootCall
<1> QED
  BY <1>1 DEF RootInv

LEMMA RootLCall ==
  ASSUME Inv, RootInv, NEW t \in Threads, NEW n \in Names, LCall(t, n)
  PROVE  RootInv'
<1>0. n \in Loggers /\ n # Root /\ call \in [Threads -> Call] /\ call[t].pc = "idle"
  BY LoadersConfigure DEF LCall, SetLevel, SetFormatter, ClearAppender, AddAppender, Start, Inv, Shape
<1>1. ASSUME NEW v \in Levels, SetLevel(t, n, v) PROVE RootInv'
  <2>1. UNCHANGED <<apps, fmt, afmt, call>> /\ level' = [level EXCEPT ![n] = v]
    BY <1>1 DEF SetLevel
  <2>2. RootLists'
    BY <1>0, <2>1 DEF RootInv, RootLists, Listed
  <2> QED
    BY <2>1, <2>2 DEF RootInv, RootCall
<1>2. ASSUME NEW f \in Formats, SetFormatter(t, n, f) PROVE RootInv'
  <2>1. /\ UNCHANGED <<apps, fmt, afmt, level>> /\ \A u \in Threads : u # t => call'[u] = call[u]
        /\ call'[t].pc = "test" /\ call'[t].at = n /\ call'[t].pos = 1
    BY <1>0, <1>2 DEF SetFormatter, Idle
  <2>2. RootLists' /\ RootCall(call[t])'
    BY <2>1 DEF RootInv, RootLists, RootCall, Listed
  <2> QED
    BY <2>1, <2>2, RootMove
<1>3. CASE ClearAppender(t, n)
  <2>1. UNCHANGED <<level, fmt, afmt, call>> /\ apps' = [apps EXCEPT ![n] = <<>>] /\ mtx[n] = None
    BY <1>3 DEF ClearAppender
  <2>2. /\ apps' \in [Loggers -> Seq(Appenders)] /\ apps'[n] = <<>>
        /\ \A l \in Loggers : l # n => apps'[l] = apps[l]
    BY <1>0, <2>1 DEF RootInv, RootLists
  <2>3. RootLists'
    BY <1>0, <2>1, <2>2, LoadersConfigure DEF RootInv, RootLists, Listed
  <2>4. ASSUME NEW u \in Threads, call[u].pc = "set" PROVE apps'[call[u].at] = apps[call[u].at]
    <3>1. call[u].at \in Loggers /\ mtx[call[u].at] = u
      BY <2>4, CallOf DEF WellFormed, Inv, LockInv, Holds
    <3> QED
      BY <2>1, <2>2, <3>1, NoneIsNone
  <2>5. RootCall(call[t])'
    BY <1>0, <2>1 DEF RootCall
  <2> QED
    BY <2>1, <2>3, <2>4, <2>5, RootMove
<1>4. ASSUME NEW a \in Handed, AddAppender(t, n, a) PROVE RootInv'
  <2>1. /\ UNCHANGED <<apps, fmt, afmt, level>> /\ \A u \in Threads : u # t => call'[u] = call[u]
        /\ call'[t].pc \in {"add", "addset"} /\ call'[t].at = n /\ call'[t].app = a
    BY <1>0, <1>4 DEF AddAppender, Idle
  <2>2. RootLists' /\ RootCall(call[t])'
    BY <2>1 DEF RootInv, RootLists, RootCall, Listed
  <2> QED
    BY <2>1, <2>2, RootMove
<1> QED
  BY <1>1, <1>2, <1>3, <1>4 DEF LCall

LEMMA RootLStep ==
  ASSUME Inv, RootInv, NEW t \in Threads,
         LStep(t) \/ \E l \in Loggers, v \in Levels : LogCall(t, l, v)
  PROVE  RootInv'
<1> DEFINE old == call[t]
<1>0. call \in [Threads -> Call] /\ old \in Call /\ RootCall(old) /\ RootLists
  BY CallOf DEF Inv, Shape, RootInv
<1>1. ASSUME \/ LogLock(t) \/ LogAppend(t) \/ LogFallback(t) \/ LogReturn(t)
             \/ \E l \in Loggers, v \in Levels : LogCall(t, l, v)
      PROVE  RootInv'
  <2>1. /\ \A u \in Threads : u # t => call'[u] = call[u]
        /\ call'[t].pc \in {"enter", "loop", "return", "idle"}
    <3>1. CASE LogLock(t) \/ LogAppend(t)
      BY <1>0, <3>1 DEF LogLock, LogAppend, Goto, Call
    <3>2. CASE LogFallback(t)
      BY <1>0, <3>2 DEF LogFallback, Call
    <3>3. CASE LogReturn(t)
      BY <1>0, <3>3 DEF LogReturn, Idle, Call
    <3>4. CASE \E l \in Loggers, v \in Levels : LogCall(t, l, v)
      BY <1>0, <3>4 DEF LogCall, Idle
    <3> QED
      BY <1>1, <3>1, <3>2, <3>3, <3>4
  <2>2. UNCHANGED <<level, apps, fmt, afmt>>
    BY <1>1 DEF LogLock, LogAppend, LogFallback, LogReturn, LogCall
  <2>3. RootLists' /\ RootCall(call[t])'
    BY <1>0, <2>1, <2>2 DEF RootLists, RootCall, Listed
  <2> QED
    BY <2>1, <2>2, <2>3, RootMove
<1>2. CASE PushAppender(t)
  <2> DEFINE l == old.at
             a == old.app
  <2>1. /\ \A u \in Threads : u # t => call'[u] = call[u]
        /\ old.pc \in {"add", "addset"} /\ call'[t].pc = "idle" /\ UNCHANGED <<level, fmt>>
        /\ apps' = [apps EXCEPT ![l] = Append(@, a)]
        /\ afmt' = [afmt EXCEPT ![a] = IF old.pc = "addset" THEN fmt[l] ELSE afmt[a]]
    BY <1>0, <1>2 DEF PushAppender, Idle
  <2>2. l \in Loggers /\ l # Root /\ a \in Handed /\ a \in Appenders /\ a # Stdout /\ l \in Names
    BY <1>0, <2>1, LoadersConfigure DEF RootCall, Handed
  <2>3. apps[l] \in Seq(Appenders) /\ Append(apps[l], a) \in Seq(Appenders)
        /\ \A i \in DOMAIN Append(apps[l], a) : Append(apps[l], a)[i] = a \/
             (i \in DOMAIN apps[l] /\ Append(apps[l], a)[i] = apps[l][i])
    BY <1>0, <2>2 DEF RootLists
  <2>4. /\ apps' \in [Loggers -> Seq(Appenders)] /\ apps'[l] = Append(apps[l], a)
        /\ \A m \in Loggers : m # l => apps'[m] = apps[m]
    BY <1>0, <2>1, <2>2, <2>3 DEF RootLists
  <2>5. ASSUME NEW n \in Names PROVE Stdout \notin Listed(n)'
    <3>1. Stdout \notin Listed(n)
      BY <1>0 DEF RootLists
    <3>2. CASE n = l
      <4>1. \A i \in DOMAIN Append(apps[l], a) : Append(apps[l], a)[i] # Stdout
        BY <2>2, <2>3, <3>1, <3>2 DEF Listed
      <4> QED
        BY <2>4, <3>2, <4>1 DEF Listed
    <3>3. CASE n # l
      BY <2>4, <3>1, <3>3, LoadersConfigure DEF Listed
    <3> QED
      BY <3>2, <3>3
  <2>6. afmt' = [b \in Appenders |-> afmt'[b]] /\ afmt'[Stdout] = afmt[Stdout]
    BY <1>0, <2>1, <2>2, LoadersConfigure DEF RootLists
  <2>7. RootLists'
    BY <1>0, <2>1, <2>2, <2>4, <2>5, <2>6, LoadersConfigure DEF RootLists
  <2>8. ASSUME NEW u \in Threads, u # t, call[u].pc = "set"
        PROVE  apps'[call[u].at] = apps[call[u].at]
    <3>1. call[u].at \in Loggers /\ mtx[call[u].at] = u /\ mtx[l] = t
      BY <2>1, <2>2, <2>8, CallOf DEF WellFormed, Inv, LockInv, Holds
    <3> QED
      BY <2>4, <2>8, <3>1
  <2>9. RootCall(call[t])'
    BY <2>1 DEF RootCall
  <2> QED
    BY <2>1, <2>7, <2>8, <2>9, RootMove
<1>3. CASE AskAppender(t)
  <2>1. /\ \A u \in Threads : u # t => call'[u] = call[u]
        /\ UNCHANGED <<level, apps, fmt, afmt>> /\ old.pc = "test" /\ old.pos <= Len(apps[old.at])
    BY <1>0, <1>3 DEF AskAppender
  <2>2. old.at \in Names /\ old.pos \in Nat \ {0} /\ apps[old.at] \in Seq(Appenders)
    BY <1>0, <2>1, LoadersConfigure DEF RootCall, RootLists
  <2>3. /\ call'[t].at = old.at
        /\ \/ call'[t].pc = "test" /\ call'[t].pos = old.pos + 1
           \/ call'[t].pc = "set" /\ call'[t].pos = old.pos
    <3>1. CASE has[apps[old.at][old.pos]]
      BY <1>0, <1>3, <3>1 DEF AskAppender, Call
    <3>2. CASE ~has[apps[old.at][old.pos]]
      BY <1>0, <1>3, <3>2 DEF AskAppender, Call
    <3> QED
      BY <3>1, <3>2
  <2>4. old.pos \in DOMAIN apps[old.at]
    BY <2>1, <2>2
  <2>5. RootCall(call[t])'
    BY <2>1, <2>2, <2>3, <2>4 DEF RootCall
  <2>6. RootLists'
    BY <1>0, <2>1 DEF RootLists, Listed
  <2> QED
    BY <2>1, <2>5, <2>6, RootMove
<1>4. CASE SetAppender(t)
  <2>1. /\ \A u \in Threads : u # t => call'[u] = call[u]
        /\ UNCHANGED <<level, apps, fmt>> /\ old.pc = "set"
        /\ afmt' = [afmt EXCEPT ![apps[old.at][old.pos]] = old.fmt]
        /\ call'[t].pc = "test" /\ call'[t].at = old.at /\ call'[t].pos = old.pos + 1
    BY <1>0, <1>4 DEF SetAppender, Call
  <2>2. old.at \in Names /\ old.pos \in Nat \ {0} /\ apps[old.at][old.pos] \in Listed(old.at)
    BY <1>0, <2>1 DEF RootCall, Listed
  <2>3. apps[old.at][old.pos] # Stdout
    BY <1>0, <2>2 DEF RootLists
  <2>4. afmt' = [b \in Appenders |-> afmt'[b]] /\ afmt'[Stdout] = afmt[Stdout]
    BY <1>0, <2>1, <2>3, LoadersConfigure DEF RootLists
  <2>5. RootLists'
    BY <1>0, <2>1, <2>4 DEF RootLists, Listed
  <2>6. RootCall(call[t])'
    BY <2>1, <2>2 DEF RootCall
  <2> QED
    BY <2>1, <2>5, <2>6, RootMove
<1>5. CASE SetFormatterEnd(t)
  <2>1. /\ \A u \in Threads : u # t => call'[u] = call[u]
        /\ UNCHANGED <<level, apps, afmt>> /\ old.pc = "test"
        /\ fmt' = [fmt EXCEPT ![old.at] = old.fmt] /\ call'[t].pc = "idle"
    BY <1>0, <1>5 DEF SetFormatterEnd, Idle
  <2>2. old.at # Root
    BY <1>0, <2>1, LoadersConfigure DEF RootCall
  <2>3. fmt' = [l \in Loggers |-> fmt'[l]] /\ fmt'[Root] = fmt[Root]
    BY <1>0, <2>1, <2>2, LoadersConfigure DEF RootLists
  <2>4. RootLists'
    BY <1>0, <2>1, <2>3 DEF RootLists, Listed
  <2>5. RootCall(call[t])'
    BY <2>1 DEF RootCall
  <2> QED
    BY <2>1, <2>4, <2>5, RootMove
<1> QED
  BY <1>1, <1>2, <1>3, <1>4, <1>5 DEF LStep

LEMMA RootKept ==
  ASSUME Inv, LoadTypes, RootInv, [Next]_vars
  PROVE  RootInv'
<1>1. CASE UNCHANGED lvars
  BY <1>1 DEF lvars, RootInv, RootLists, RootCall, Listed
<1>2. ASSUME NEW t \in Loaders, LoadBuild(t) PROVE RootInv'
  <2>1. PICK a \in Handed : /\ \E f : afmt' = [afmt EXCEPT ![a] = f]
                            /\ UNCHANGED <<level, apps, fmt, call>>
    BY <1>2, NewAppender
  <2>2. RootLists'
    BY <2>1, LoadersConfigure DEF RootInv, RootLists, Listed, Handed
  <2> QED
    BY <2>1, <2>2 DEF RootInv, RootCall
<1>3. ASSUME NEW t \in Loaders, NEW n \in Names, LCall(t, n) PROVE RootInv'
  BY <1>3, LoadersConfigure, RootLCall
<1> QED
  BY <1>1, <1>2, <1>3, RootLStep, NextSteps

LEMMA LoadInvHolds == Spec => [](Inv /\ LoadTypes /\ RootInv)
<1>1. Init => Inv /\ LoadTypes /\ RootInv
  <2> SUFFICES ASSUME Init PROVE Inv /\ LoadTypes /\ RootInv
    OBVIOUS
  <2>1. Inv
    BY LInitInv DEF Init
  <2>2. LoadTypes
    <3>1. conf \in Confs /\ reg \in [Names -> Names \cup {None}] /\ \A n \in Names : reg[n] = None
      BY DEF Init, Confs
    <3>2. load = [t \in Loaders |-> NoLoad] /\ NoLoad \in LoadState
      BY DEF Init, NoLoad, LoadState
    <3>3. Shaped(NoLoad)
      BY DEF Shaped, NoLoad
    <3> QED
      BY <3>1, <3>2, <3>3 DEF LoadTypes
  <2>3. RootInv
    <3>1. \A t \in Threads : RootCall(call[t])
      BY DEF Init, LInit, Idle, RootCall
    <3>2. apps \in [Loggers -> Seq(Appenders)]
      <4>1. <<Stdout>> \in Seq(Appenders) /\ <<>> \in Seq(Appenders)
        BY LoadersConfigure
      <4> QED
        BY <4>1 DEF Init, LInit
    <3>3. \A n \in Names : Listed(n) = {}
      BY LoadersConfigure DEF Init, LInit, Listed
    <3> QED
      BY <3>1, <3>2, <3>3, LoadersConfigure DEF RootInv, RootLists, Init, LInit
  <2> QED
    BY <2>1, <2>2, <2>3
<1>2. Inv /\ LoadTypes /\ RootInv /\ [Next]_vars => (Inv /\ LoadTypes /\ RootInv)'
  BY LoadLocks, LoadTypesKept, RootKept
<1> QED
  BY <1>1, <1>2, PTL DEF Spec

\* The configuration never touches the root logger, whatever loggers it defines
\* and however many threads load (ReadMe.md:197, log.cpp:441-456, 597-642).
THEOREM RootStays == Spec => []RootUntouched
<1>1. RootInv => RootUntouched
  BY DEF RootInv, RootLists, RootUntouched
<1> QED
  BY <1>1, LoadInvHolds, PTL

----------------------------------------------------------------------------
(* One thread s loads: AppInv is about lists and calls, WorkInv about the    *)
(* logger at hand, DoneInv about what is carried over, ListInv about lists.   *)

\* With one loader s, the lists of appenders share none; the appender at hand is
\* in none of them; and calls configure the logger at hand.
Busy(c) == c.pc \in {"test", "set", "add", "addset"}
Unlisted(a) == \A l \in Loggers : a \notin Listed(l)

AppTypes ==
  /\ level = [l \in Loggers |-> level[l]] /\ fmt \in [Loggers -> Formats]
  /\ alevel = [a \in Appenders |-> alevel[a]] /\ afmt \in [Appenders -> Formats \cup {None}]
  /\ own \in [Appenders -> Formats \cup {None}]

Disjoint == \A l, m \in Loggers : \A a \in Listed(l) : a \in Listed(m) => l = m

AppCalls(s) ==
  /\ load[s].app # None => Unlisted(load[s].app)
  /\ \A t \in Threads : Busy(call[t]) => t = s
  /\ Busy(call[s]) => call[s].at = Name(s)
  /\ call[s].pc \in {"test", "set"} =>
       load[s].pc = "clear" /\ call[s].fmt = Def(s).fmt /\ call[s].fmt \in Formats
  /\ call[s].pc \in {"add", "addset"} => load[s].pc = "build" /\ Unlisted(call[s].app)

AppInv(s) == AppTypes /\ Disjoint /\ AppCalls(s)

\* A step leaves a logger and its appenders as they are.
Same(m) ==
  /\ apps'[m] = apps[m] /\ level'[m] = level[m] /\ fmt'[m] = fmt[m]
  /\ \A a \in Listed(m) : alevel'[a] = alevel[a] /\ own'[a] = own[a] /\ afmt'[a] = afmt[a]

\* An appender as d defines it, and a list of such in a logger with a formatter.
AsBuilt(a, d) == alevel[a] = d.level /\ own[a] = d.fmt /\ afmt[a] = d.fmt
Fitted(l) == \A a \in Listed(l) : afmt[a] = IF own[a] = None THEN fmt[l] ELSE own[a]
Formatted(l, d) == d.fmt # None => fmt[l] = d.fmt
Adding(s) == call[s].pc \in {"add", "addset"}

\* How far the loader is with the logger at hand.
WorkInv(s) ==
  LET r == load[s]  n == Name(s)  d == Def(s) IN
  /\ r.pc \in {"format", "clear", "build", "attach"} => level[n] = d.level
  /\ r.pc = "clear" => call[s].pc \in {"test", "set"} \/ Formatted(n, d)
  /\ r.pc \in {"build", "attach"} => Formatted(n, d) /\ Fitted(n)
  /\ r.pc = "build" /\ ~Adding(s) => Built(n, d, r.pos - 1)
  /\ r.pc = "build" /\ Adding(s) =>
       /\ r.pos - 1 \in DOMAIN d.apps
       /\ Built(n, d, r.pos - 2) /\ AsBuilt(call[s].app, d.apps[r.pos - 1])
       /\ call[s].pc = "addset" <=> afmt[call[s].app] = None
  /\ r.pc = "attach" =>
       /\ r.pos \in DOMAIN d.apps
       /\ Built(n, d, r.pos - 1) /\ AsBuilt(r.app, d.apps[r.pos])
  /\ r.pc = "silence" => level[n] = Off

\* The definitions and the deletions that are carried over.
Done(n, d) == reg[n] = n /\ Matches(n, d)
Silent(n)  == reg[n] = n /\ level[n] = Off /\ apps[n] = <<>>
Changed(c, n) == c[n] = None \/ c[n] # conf[n]

DoneInv(s) ==
  LET r == load[s] IN
  /\ r.pc \in {"define", "level", "format", "clear", "build", "attach"} =>
       \A n \in Defined(r.new) \ r.todo : Done(n, r.new[n])
  /\ r.pc \in {"delete", "silence"} =>
       /\ r.todo \subseteq Defined(conf) \ Defined(r.new)
       /\ \A n \in Defined(r.new) : Done(n, r.new[n])
       /\ \A n \in (Defined(conf) \ Defined(r.new)) \ r.todo : Silent(n)
  /\ r.pc = "store" => \A n \in Names :
       /\ r.new[n] # None /\ (\A m \in Names : Rank(m) <= Rank(n) => Changed(r.new, m)) =>
            Done(n, r.new[n])
       /\ conf[n] # None /\ r.new[n] = None /\ (\A m \in Names : Changed(r.new, m)) =>
            Silent(n)

\* Every list is of one definition, or being built.
ListInv(s) ==
  /\ Adding(s) => Len(apps[Name(s)]) < MaxApps
  /\ \A n \in Names :
       /\ Len(apps[n]) <= MaxApps
       /\ \/ apps[n] = <<>>
          \/ \E d \in Defs : Built(n, d, Len(d.apps))
          \/ load[s].pc \in {"build", "attach"} /\ n = Name(s)

\* The steps of log() change nothing but the call.
LEMMA LogMoves ==
  ASSUME Inv, NEW t \in Threads,
         \/ LogLock(t) \/ LogAppend(t) \/ LogFallback(t) \/ LogReturn(t)
         \/ \E l \in Loggers, v \in Levels : LogCall(t, l, v)
  PROVE  /\ \A u \in Threads : u # t => call'[u] = call[u]
         /\ ~Busy(call[t]) /\ ~Busy(call'[t])
         /\ UNCHANGED <<level, apps, fmt, alevel, afmt, has, own>>
<1>0. call \in [Threads -> Call]
  BY DEF Inv, Shape
<1>1. CASE LogLock(t) \/ LogAppend(t)
  BY <1>0, <1>1 DEF LogLock, LogAppend, Goto, Call, Busy
<1>2. CASE LogFallback(t)
  BY <1>0, <1>2 DEF LogFallback, Call, Busy
<1>3. CASE LogReturn(t)
  BY <1>0, <1>3 DEF LogReturn, Idle, Call, Busy
<1>4. CASE \E l \in Loggers, v \in Levels : LogCall(t, l, v)
  BY <1>0, <1>4 DEF LogCall, Idle, Start, Busy
<1> QED
  BY <1>1, <1>2, <1>3, <1>4

\* The steps of setFormatter and addAppender, with the call before and after.
LEMMA AskMoves ==
  ASSUME Inv, RootInv, NEW t \in Threads, AskAppender(t)
  PROVE  /\ \A u \in Threads : u # t => call'[u] = call[u]
         /\ UNCHANGED <<level, apps, fmt, alevel, afmt, own>>
         /\ call[t].pc = "test" /\ call'[t].pc \in {"test", "set"}
         /\ call'[t].at = call[t].at /\ call'[t].fmt = call[t].fmt
<1>0. call \in [Threads -> Call]
  BY DEF Inv, Shape
<1>1. CASE has[apps[call[t].at][call[t].pos]]
  BY <1>0, <1>1 DEF AskAppender, Call
<1>2. CASE ~has[apps[call[t].at][call[t].pos]]
  BY <1>0, <1>2 DEF AskAppender, Call
<1> QED
  BY <1>1, <1>2

LEMMA SetMoves ==
  ASSUME Inv, RootInv, NEW t \in Threads, SetAppender(t)
  PROVE  /\ \A u \in Threads : u # t => call'[u] = call[u]
         /\ UNCHANGED <<level, apps, fmt, alevel, own>>
         /\ call[t].pc = "set" /\ call'[t].pc = "test"
         /\ call'[t].at = call[t].at /\ call'[t].fmt = call[t].fmt /\ call[t].at \in Names
         /\ \E a \in Listed(call[t].at) :
              a \in Appenders /\ afmt' = [afmt EXCEPT ![a] = call[t].fmt]
<1>0. call \in [Threads -> Call] /\ RootCall(call[t]) /\ RootLists
  BY DEF Inv, Shape, RootInv
<1>1. /\ \A u \in Threads : u # t => call'[u] = call[u]
      /\ UNCHANGED <<level, apps, fmt, alevel, own>>
      /\ call[t].pc = "set" /\ call'[t].pc = "test"
      /\ call'[t].at = call[t].at /\ call'[t].fmt = call[t].fmt
      /\ afmt' = [afmt EXCEPT ![apps[call[t].at][call[t].pos]] = call[t].fmt]
  BY <1>0 DEF SetAppender, Call
<1>2. /\ call[t].at \in Names /\ apps[call[t].at] \in Seq(Appenders)
      /\ call[t].pos \in DOMAIN apps[call[t].at]
  BY <1>0, <1>1, LoadersConfigure DEF RootCall, RootLists
<1>3. LET a == apps[call[t].at][call[t].pos] IN a \in Listed(call[t].at) /\ a \in Appenders
  BY <1>2 DEF Listed
<1> QED
  BY <1>1, <1>2, <1>3

LEMMA EndMoves ==
  ASSUME Inv, RootInv, NEW t \in Threads, SetFormatterEnd(t)
  PROVE  /\ \A u \in Threads : u # t => call'[u] = call[u]
         /\ UNCHANGED <<level, apps, alevel, afmt, own>>
         /\ call[t].pc = "test" /\ call'[t] = Idle /\ call[t].at \in Names
         /\ fmt' = [fmt EXCEPT ![call[t].at] = call[t].fmt]
<1>0. call \in [Threads -> Call] /\ RootCall(call[t])
  BY DEF Inv, Shape, RootInv
<1> QED
  BY <1>0 DEF SetFormatterEnd, RootCall

LEMMA PushMoves ==
  ASSUME Inv, RootInv, NEW t \in Threads, PushAppender(t)
  PROVE  /\ \A u \in Threads : u # t => call'[u] = call[u]
         /\ UNCHANGED <<level, fmt, alevel, own>>
         /\ call[t].pc \in {"add", "addset"} /\ call'[t] = Idle
         /\ call[t].at \in Names /\ call[t].app \in Handed /\ call[t].app \in Appenders
         /\ apps' = [apps EXCEPT ![call[t].at] = Append(apps[call[t].at], call[t].app)]
         /\ call[t].pc = "addset" =>
              afmt' = [afmt EXCEPT ![call[t].app] = fmt[call[t].at]]
         /\ call[t].pc = "add" => afmt' = afmt
         /\ \A m \in Loggers : m # call[t].at => apps'[m] = apps[m]
         /\ \A m \in Loggers : \A b \in Listed(m)' :
              b \in Listed(m) \/ (m = call[t].at /\ b = call[t].app)
         /\ \A m \in Loggers : Listed(m) \subseteq Appenders
<1> DEFINE l == call[t].at
           a == call[t].app
<1>0. call \in [Threads -> Call] /\ RootCall(call[t]) /\ RootLists
  BY DEF Inv, Shape, RootInv
<1>1. /\ \A u \in Threads : u # t => call'[u] = call[u]
      /\ UNCHANGED <<level, fmt, alevel, own>>
      /\ call[t].pc \in {"add", "addset"} /\ call'[t] = Idle
      /\ apps' = [apps EXCEPT ![l] = Append(apps[l], a)]
      /\ afmt' = [afmt EXCEPT ![a] = IF call[t].pc = "addset" THEN fmt[l] ELSE afmt[a]]
  BY <1>0 DEF PushAppender
<1>2. l \in Names /\ a \in Handed /\ a \in Appenders /\ l \in Loggers
  BY <1>0, <1>1, LoadersConfigure DEF RootCall
<1>3. call[t].pc = "add" => afmt' = afmt
  BY <1>0, <1>1, <1>2 DEF RootLists
<1>4. apps[l] \in Seq(Appenders) /\ \A m \in Loggers : m # l => apps'[m] = apps[m]
  BY <1>0, <1>1, <1>2 DEF RootLists
<1>5. \A i \in DOMAIN Append(apps[l], a) : Append(apps[l], a)[i] = a \/
        (i \in DOMAIN apps[l] /\ Append(apps[l], a)[i] = apps[l][i])
  BY <1>4
<1>6. apps'[l] = Append(apps[l], a)
  BY <1>0, <1>1, <1>2 DEF RootLists
<1>7. ASSUME NEW m \in Loggers, NEW b \in Listed(m)'
      PROVE  b \in Listed(m) \/ (m = l /\ b = a)
  <2>1. CASE m = l
    <3>1. PICK i \in DOMAIN Append(apps[l], a) : b = Append(apps[l], a)[i]
      BY <1>6, <1>7, <2>1 DEF Listed
    <3> QED
      BY <1>5, <2>1, <3>1 DEF Listed
  <2>2. CASE m # l
    BY <1>4, <1>7, <2>2 DEF Listed
  <2> QED
    BY <2>1, <2>2
<1>8. \A m \in Loggers : Listed(m) \subseteq Appenders
  BY <1>0 DEF RootLists, Listed
<1> QED
  BY <1>1, <1>2, <1>3, <1>4, <1>7, <1>8

\* Where appenders are unlisted and lists are unchanged, they stay so.
LEMMA ListsSame ==
  ASSUME UNCHANGED apps
  PROVE  /\ \A l : Listed(l)' = Listed(l)
         /\ \A a : Unlisted(a)' = Unlisted(a)
         /\ Disjoint => Disjoint'
BY DEF Listed, Unlisted, Disjoint

\* Steps of the loader after which no call of its own is under way.
LEMMA AppCallsIdle ==
  ASSUME NEW s \in Threads, AppInv(s), call[s].pc = "idle", UNCHANGED call,
         load'[s].app # None => Unlisted(load[s].app)'
  PROVE  AppCalls(s)'
<1>1. \A t \in Threads : ~Busy(call[t])
  BY DEF AppInv, AppCalls, Busy
<1>2. \A t \in Threads : ~Busy(call[t])'
  BY <1>1 DEF Busy
<1> QED
  BY <1>2 DEF AppCalls

\* Where the loader is after each of its steps.
Goes(s, pc, todo, pos, app) ==
  /\ load'[s].pc = pc /\ load'[s].new = load[s].new /\ load'[s].todo = todo
  /\ load'[s].pos = pos /\ load'[s].app = app

LEMMA LoaderGoes ==
  ASSUME LoadTypes, NEW s \in Loaders
  PROVE  LET r == load[s] IN
    /\ LoadChanged(s) => Goes(s, "level", r.todo, r.pos, r.app)
    /\ LoadUnchanged(s) => Goes(s, "store", r.todo, r.pos, r.app)
    /\ LoadLevel(s) =>
         Goes(s, IF Def(s).fmt = None THEN "clear" ELSE "format", r.todo, r.pos, r.app)
    /\ LoadFormat(s) => Goes(s, "clear", r.todo, r.pos, r.app)
    /\ LoadClear(s) => Goes(s, "build", r.todo, 1, r.app)
    /\ LoadAttach(s) => Goes(s, "build", r.todo, r.pos + 1, None)
    /\ LoadBuilt(s) => Goes(s, "define", r.todo \ {Name(s)}, r.pos, r.app)
    /\ LoadDefined(s) => Goes(s, "delete", Defined(conf) \ Defined(r.new), r.pos, r.app)
    /\ LoadDelete(s) => Goes(s, "silence", r.todo, r.pos, r.app)
    /\ LoadSilence(s) => Goes(s, "delete", r.todo \ {Name(s)}, r.pos, r.app)
    /\ LoadDeleted(s) => Goes(s, "store", r.todo, r.pos, r.app)
<1>0. load \in [Loaders -> LoadState]
  BY DEF LoadTypes
<1>1. LoadChanged(s) => Goes(s, "level", load[s].todo, load[s].pos, load[s].app)
  BY <1>0 DEF LoadChanged, Goes, LoadState
<1>2. LoadUnchanged(s) => Goes(s, "store", load[s].todo, load[s].pos, load[s].app)
  BY <1>0 DEF LoadUnchanged, Goes, LoadState
<1>3. LoadLevel(s) =>
        Goes(s, IF Def(s).fmt = None THEN "clear" ELSE "format",
             load[s].todo, load[s].pos, load[s].app)
  BY <1>0 DEF LoadLevel, Goes, LoadState
<1>4. LoadFormat(s) => Goes(s, "clear", load[s].todo, load[s].pos, load[s].app)
  BY <1>0 DEF LoadFormat, Goes, LoadState
<1>5. LoadClear(s) => Goes(s, "build", load[s].todo, 1, load[s].app)
  BY <1>0 DEF LoadClear, Goes, LoadState
<1>6. LoadAttach(s) => Goes(s, "build", load[s].todo, load[s].pos + 1, None)
  BY <1>0 DEF LoadAttach, Goes, LoadState
<1>7. LoadBuilt(s) => Goes(s, "define", load[s].todo \ {Name(s)}, load[s].pos, load[s].app)
  BY <1>0 DEF LoadBuilt, Goes, LoadState
<1>8. LoadDefined(s) =>
        Goes(s, "delete", Defined(conf) \ Defined(load[s].new), load[s].pos, load[s].app)
  BY <1>0 DEF LoadDefined, Goes, LoadState
<1>9. LoadDelete(s) => Goes(s, "silence", load[s].todo, load[s].pos, load[s].app)
  BY <1>0 DEF LoadDelete, Goes, LoadState
<1>10. LoadSilence(s) => Goes(s, "delete", load[s].todo \ {Name(s)}, load[s].pos, load[s].app)
  BY <1>0 DEF LoadSilence, Goes, LoadState
<1>11. LoadDeleted(s) => Goes(s, "store", load[s].todo, load[s].pos, load[s].app)
  BY <1>0 DEF LoadDeleted, Goes, LoadState
<1> QED
  BY <1>1, <1>2, <1>3, <1>4, <1>5, <1>6, <1>7, <1>8, <1>9, <1>10, <1>11

\* A step of some call: the loader's own, or one of log().
LEMMA AppLStep ==
  ASSUME NEW s \in Loaders, Inv, LoadTypes, RootInv, AppInv(s), NEW t \in Threads,
         LStep(t) \/ \E l \in Loggers, v \in Levels : LogCall(t, l, v),
         UNCHANGED <<conf, reg, load>>
  PROVE  AppInv(s)'
<1>0. /\ s \in Threads /\ AppTypes /\ Disjoint /\ AppCalls(s)
      /\ Name(s)' = Name(s) /\ Def(s)' = Def(s) /\ load' = load
  BY LoadersConfigure DEF AppInv, Name, Def
<1>1. ASSUME \/ LogLock(t) \/ LogAppend(t) \/ LogFallback(t) \/ LogReturn(t)
             \/ \E l \in Loggers, v \in Levels : LogCall(t, l, v)
      PROVE  AppInv(s)'
  <2>1. /\ \A u \in Threads : u # t => call'[u] = call[u]
        /\ ~Busy(call[t]) /\ ~Busy(call'[t])
        /\ UNCHANGED <<level, apps, fmt, alevel, afmt, has, own>>
    BY <1>1, LogMoves
  <2>2. AppTypes' /\ Disjoint' /\ \A a : Unlisted(a)' = Unlisted(a)
    BY <1>0, <2>1, ListsSame DEF AppTypes
  <2>3. CASE t = s
    BY <1>0, <2>1, <2>2, <2>3 DEF AppInv, AppCalls, Busy
  <2>4. CASE t # s
    BY <1>0, <2>1, <2>2, <2>4 DEF AppInv, AppCalls, Busy
  <2> QED
    BY <2>3, <2>4
<1>2. CASE AskAppender(t)
  <2>1. /\ \A u \in Threads : u # t => call'[u] = call[u]
        /\ UNCHANGED <<level, apps, fmt, alevel, afmt, own>>
        /\ call[t].pc = "test" /\ call'[t].pc \in {"test", "set"}
        /\ call'[t].at = call[t].at /\ call'[t].fmt = call[t].fmt
    BY <1>2, AskMoves
  <2>2. t = s
    BY <1>0, <2>1 DEF AppCalls, Busy
  <2>3. AppTypes' /\ Disjoint' /\ \A a : Unlisted(a)' = Unlisted(a)
    BY <1>0, <2>1, ListsSame DEF AppTypes
  <2> QED
    BY <1>0, <2>1, <2>2, <2>3 DEF AppInv, AppCalls, Busy
<1>3. CASE SetAppender(t)
  <2>1. /\ \A u \in Threads : u # t => call'[u] = call[u]
        /\ UNCHANGED <<level, apps, fmt, alevel, own>>
        /\ call[t].pc = "set" /\ call'[t].pc = "test"
        /\ call'[t].at = call[t].at /\ call'[t].fmt = call[t].fmt
    BY <1>3, SetMoves
  <2>2. PICK a \in Appenders : afmt' = [afmt EXCEPT ![a] = call[t].fmt]
    BY <1>3, SetMoves
  <2>3. t = s
    BY <1>0, <2>1 DEF AppCalls, Busy
  <2>4. call[t].fmt \in Formats
    BY <1>0, <2>1, <2>3 DEF AppCalls
  <2>5. AppTypes'
    BY <1>0, <2>1, <2>2, <2>4 DEF AppTypes
  <2>6. Disjoint' /\ \A b : Unlisted(b)' = Unlisted(b)
    BY <1>0, <2>1, ListsSame
  <2> QED
    BY <1>0, <2>1, <2>3, <2>5, <2>6 DEF AppInv, AppCalls, Busy
<1>4. CASE SetFormatterEnd(t)
  <2>1. /\ \A u \in Threads : u # t => call'[u] = call[u]
        /\ UNCHANGED <<level, apps, alevel, afmt, own>>
        /\ call[t].pc = "test" /\ call'[t] = Idle /\ call[t].at \in Names
        /\ fmt' = [fmt EXCEPT ![call[t].at] = call[t].fmt]
    BY <1>4, EndMoves
  <2>2. t = s /\ call[t].fmt \in Formats
    BY <1>0, <2>1 DEF AppCalls, Busy
  <2>3. AppTypes'
    BY <1>0, <2>1, <2>2 DEF AppTypes
  <2>4. Disjoint' /\ \A b : Unlisted(b)' = Unlisted(b)
    BY <1>0, <2>1, ListsSame
  <2> QED
    BY <1>0, <2>1, <2>2, <2>3, <2>4 DEF AppInv, AppCalls, Busy, Idle
<1>5. CASE PushAppender(t)
  <2> DEFINE l == call[t].at
             a == call[t].app
  <2>1. /\ \A u \in Threads : u # t => call'[u] = call[u]
        /\ UNCHANGED <<level, fmt, alevel, own>>
        /\ call[t].pc \in {"add", "addset"} /\ call'[t] = Idle
        /\ l \in Names /\ a \in Appenders
        /\ afmt' = [afmt EXCEPT ![a] = fmt[l]] \/ afmt' = afmt
        /\ \A m \in Loggers : \A b \in Listed(m)' : b \in Listed(m) \/ (m = l /\ b = a)
    BY <1>5, PushMoves
  <2>2. t = s
    BY <1>0, <2>1 DEF AppCalls, Busy
  <2>3. load[s].app = None /\ Unlisted(a)
    BY <1>0, <2>1, <2>2 DEF AppCalls, LoadTypes, Shaped
  <2>4. fmt[l] \in Formats
    BY <1>0, <2>1, LoadersConfigure DEF AppTypes
  <2>5. AppTypes'
    BY <1>0, <2>1, <2>4 DEF AppTypes
  <2>6. Disjoint'
    <3> SUFFICES ASSUME NEW k \in Loggers, NEW m \in Loggers, NEW b \in Listed(k)', b \in Listed(m)'
                 PROVE  k = m
      BY DEF Disjoint
    <3>1. CASE b = a
      BY <2>1, <2>3, <3>1 DEF Unlisted
    <3>2. CASE b # a
      BY <1>0, <2>1, <3>2 DEF Disjoint
    <3> QED
      BY <3>1, <3>2
  <2>7. AppCalls(s)'
    BY <1>0, <2>1, <2>2, <2>3 DEF AppCalls, Busy, Idle
  <2> QED
    BY <2>5, <2>6, <2>7 DEF AppInv
<1> QED
  BY <1>1, <1>2, <1>3, <1>4, <1>5 DEF LStep

\* A step of the load itself.
LEMMA AppLoad ==
  ASSUME NEW s \in Loaders, Inv, LoadTypes, RootInv, AppInv(s),
         Load(s) \/ \E c \in Confs : LoadBegin(s, c)
  PROVE  AppInv(s)'
<1>0. /\ s \in Threads /\ AppTypes /\ Disjoint /\ AppCalls(s)
      /\ load[s] \in LoadState /\ load \in [Loaders -> LoadState]
      /\ (load[s].pc = "attach" <=> load[s].app # None)
  BY LoadersConfigure DEF AppInv, LoadTypes, Shaped
<1>1. call[s].pc = "idle"
  BY DEF LoadBegin, Load, LoadChanged, LoadUnchanged, LoadLevel, LoadFormat, LoadClear, LoadBuild,
         LoadAttach, LoadBuilt, LoadDefined, LoadDelete, LoadSilence, LoadDeleted, LoadStore, At
<1>2. ASSUME UNCHANGED lvars, load'[s].app = None PROVE AppInv(s)'
  <2>1. AppTypes' /\ Disjoint'
    BY <1>0, <1>2, ListsSame DEF lvars, AppTypes
  <2>2. AppCalls(s)'
    BY <1>0, <1>1, <1>2, AppCallsIdle DEF lvars
  <2> QED
    BY <2>1, <2>2 DEF AppInv
<1>3. ASSUME \/ LoadChanged(s) \/ LoadUnchanged(s) \/ LoadBuilt(s) \/ LoadDefined(s)
             \/ LoadDeleted(s)
      PROVE  AppInv(s)'
  <2>1. UNCHANGED lvars /\ load[s].pc # "attach"
    BY <1>3 DEF LoadChanged, LoadUnchanged, LoadBuilt, LoadDefined, LoadDeleted, At
  <2>2. load'[s].app = load[s].app
    BY <1>3, LoaderGoes DEF Goes
  <2> QED
    BY <1>0, <1>2, <2>1, <2>2
<1>4. ASSUME NEW c \in Confs, LoadBegin(s, c) PROVE AppInv(s)'
  BY <1>0, <1>2, <1>4 DEF LoadBegin, NoLoad
<1>5. CASE LoadStore(s)
  BY <1>0, <1>2, <1>5 DEF LoadStore, NoLoad
<1>6. ASSUME NEW l \in Loggers, NEW v \in Levels, SetLevel(s, l, v), load'[s].app = None
      PROVE  AppInv(s)'
  <2>1. UNCHANGED <<apps, fmt, alevel, afmt, own, call>> /\ level' = [level EXCEPT ![l] = v]
    BY <1>6 DEF SetLevel
  <2>2. AppTypes' /\ Disjoint'
    BY <1>0, <2>1, ListsSame DEF AppTypes
  <2> QED
    BY <1>0, <1>1, <1>6, <2>1, <2>2, AppCallsIdle DEF AppInv
<1>7. ASSUME NEW l \in Loggers, ClearAppender(s, l), load'[s].app = None
      PROVE  AppInv(s)'
  <2>1. UNCHANGED <<level, fmt, alevel, afmt, own, call>> /\ apps' = [apps EXCEPT ![l] = <<>>]
    BY <1>7 DEF ClearAppender
  <2>2. \A m \in Loggers : Listed(m)' \subseteq Listed(m)
    BY <2>1 DEF Listed, RootInv, RootLists
  <2>3. AppTypes' /\ Disjoint'
    BY <1>0, <2>1, <2>2 DEF AppTypes, Disjoint
  <2> QED
    BY <1>0, <1>1, <1>7, <2>1, <2>3, AppCallsIdle DEF AppInv
<1>8. CASE LoadLevel(s)
  <2>1. load[s].pc = "level" /\ SetLevel(s, reg[Name(s)], Def(s).level) /\ load'[s].app = load[s].app
    BY <1>8, LoaderGoes DEF LoadLevel, At, Goes
  <2>2. reg[Name(s)] \in Loggers /\ Def(s).level \in Levels
    BY <2>1, AtHand, DefAtHand, DefTypes, LoadersConfigure
  <2> QED
    BY <1>0, <1>6, <2>1, <2>2
<1>9. CASE LoadDelete(s)
  <2>1. /\ load[s].pc = "delete" /\ SetLevel(s, reg'[Name(s)], Off) /\ load'[s].app = load[s].app
        /\ load[s].todo # {} /\ GetLogger(Name(s))
    BY <1>9, LoaderGoes DEF LoadDelete, At, Goes
  <2>2. Name(s) \in Names
    BY <1>0, <2>1, FirstOf DEF Name, LoadState
  <2>3. reg'[Name(s)] \in Loggers
    BY <2>1, <2>2, LoadersConfigure DEF GetLogger, LoadTypes
  <2> QED
    BY <1>0, <1>6, <2>1, <2>3, LoadersConfigure
<1>10. CASE LoadClear(s) \/ LoadSilence(s)
  <2>1. load[s].pc \in {"clear", "silence"} /\ ClearAppender(s, reg[Name(s)])
        /\ load'[s].app = load[s].app
    BY <1>10, LoaderGoes DEF LoadClear, LoadSilence, At, Goes
  <2>2. reg[Name(s)] \in Loggers
    BY <2>1, AtHand, LoadersConfigure
  <2> QED
    BY <1>0, <1>7, <2>1, <2>2
<1>11. CASE LoadFormat(s)
  <2>1. /\ load[s].pc = "format" /\ SetFormatter(s, reg[Name(s)], Def(s).fmt)
        /\ load'[s].pc = "clear" /\ load'[s].todo = load[s].todo /\ load'[s].new = load[s].new
        /\ load'[s].app = load[s].app
    BY <1>11, LoaderGoes DEF LoadFormat, At, Goes
  <2>2. reg[Name(s)] = Name(s) /\ Def(s).fmt \in Formats
    BY <2>1, AtHand, DefAtHand, DefTypes
  <2>3. call \in [Threads -> Call]
    BY DEF Inv, Shape
  <2>4. /\ \A u \in Threads : u # s => call'[u] = call[u]
        /\ call'[s].pc = "test" /\ call'[s].at = Name(s) /\ call'[s].fmt = Def(s).fmt
        /\ UNCHANGED <<level, apps, fmt, alevel, afmt, own>>
    BY <1>0, <2>1, <2>2, <2>3 DEF SetFormatter, Idle
  <2>5. Name(s)' = Name(s) /\ Def(s)' = Def(s)
    BY <2>1 DEF Name, Def
  <2>6. AppTypes' /\ Disjoint'
    BY <1>0, <2>4, ListsSame DEF AppTypes
  <2>7. AppCalls(s)'
    BY <1>0, <1>1, <2>1, <2>2, <2>4, <2>5 DEF AppCalls, Busy
  <2> QED
    BY <2>6, <2>7 DEF AppInv
<1>12. CASE LoadAttach(s)
  <2>1. /\ load[s].pc = "attach" /\ AddAppender(s, reg[Name(s)], load[s].app)
        /\ load'[s].pc = "build" /\ load'[s].todo = load[s].todo /\ load'[s].new = load[s].new
        /\ load'[s].app = None
    BY <1>12, LoaderGoes DEF LoadAttach, At, Goes
  <2>2. reg[Name(s)] = Name(s) /\ Unlisted(load[s].app)
    BY <1>0, <2>1, AtHand DEF AppCalls
  <2>3. call \in [Threads -> Call]
    BY DEF Inv, Shape
  <2>4. /\ \A u \in Threads : u # s => call'[u] = call[u]
        /\ call'[s].pc \in {"add", "addset"} /\ call'[s].at = Name(s) /\ call'[s].app = load[s].app
        /\ UNCHANGED <<level, apps, fmt, alevel, afmt, own>>
    BY <1>0, <2>1, <2>2, <2>3 DEF AddAppender, Idle
  <2>5. Name(s)' = Name(s)
    BY <2>1 DEF Name
  <2>6. AppTypes' /\ Disjoint'
    BY <1>0, <2>4, ListsSame DEF AppTypes
  <2>7. Unlisted(call[s].app)'
    BY <2>2, <2>4 DEF Unlisted, Listed
  <2>8. AppCalls(s)'
    BY <1>0, <1>1, <2>1, <2>4, <2>5, <2>7 DEF AppCalls, Busy
  <2> QED
    BY <2>6, <2>8 DEF AppInv
<1>13. CASE LoadBuild(s)
  <2> DEFINE d == Def(s).apps[load[s].pos]
  <2>1. PICK a \in Handed :
          /\ At(s, "build") /\ load[s].pos <= Len(Def(s).apps)
          /\ \A l \in Loggers : a \notin Listed(l)
          /\ alevel' = [alevel EXCEPT ![a] = d.level]
          /\ afmt' = [afmt EXCEPT ![a] = d.fmt]
          /\ own' = [own EXCEPT ![a] = d.fmt]
          /\ load' = [load EXCEPT ![s].pc = "attach", ![s].app = a]
          /\ UNCHANGED <<level, apps, fmt, mtx, call, conf, reg>>
    BY <1>13, NewAppender
  <2>2. Def(s).apps \in Seq([level : Levels, fmt : Formats \cup {None}]) /\ load[s].pos \in Nat \ {0}
    BY <1>0, <2>1, DefAtHand, DefTypes DEF At, LoadState
  <2>3. d \in [level : Levels, fmt : Formats \cup {None}]
    <3>1. \A X : \A q \in Seq(X) : \A i \in Nat \ {0} : i <= Len(q) => q[i] \in X
      OBVIOUS
    <3> QED
      BY <2>1, <2>2, <3>1, Zenon
  <2>4. AppTypes'
    BY <1>0, <2>1, <2>3 DEF AppTypes
  <2>5. load'[s].app = a
    BY <1>0, <2>1 DEF LoadState
  <2>6. Unlisted(load[s].app)' /\ Disjoint'
    BY <1>0, <2>1, <2>5, ListsSame DEF Unlisted, Listed
  <2> QED
    BY <1>0, <1>1, <2>1, <2>4, <2>6, AppCallsIdle DEF AppInv
<1> QED
  BY <1>3, <1>4, <1>5, <1>8, <1>9, <1>10, <1>11, <1>12, <1>13 DEF Load

LEMMA AppKept ==
  ASSUME NEW s, Loaders = {s}, Inv, LoadTypes, RootInv, AppInv(s), [Next]_vars
  PROVE  AppInv(s)'
<1>1. ASSUME NEW t \in Threads, Log(t) PROVE AppInv(s)'
  <2>1. UNCHANGED <<conf, reg, load>>
    BY <1>1 DEF Log
  <2>2. ASSUME NEW l \in {reg[n] : n \in Names} \cup {Root}, l # None PROVE l \in Loggers
    BY <2>2, LoadersConfigure DEF LoadTypes
  <2>3. LStep(t) \/ \E l \in Loggers, v \in Levels : LogCall(t, l, v)
    BY <1>1, <2>2 DEF Log
  <2> QED
    BY <2>1, <2>3, AppLStep
<1>2. ASSUME UNCHANGED <<lvars, load>> PROVE AppInv(s)'
  <2>1. UNCHANGED <<level, apps, fmt, alevel, afmt, own, call, load>>
    BY <1>2 DEF lvars
  <2>2. AppTypes' /\ Disjoint' /\ \A a : Unlisted(a)' = Unlisted(a)
    BY <2>1, ListsSame DEF AppInv, AppTypes
  <2>3. Name(s)' = Name(s) /\ Def(s)' = Def(s)
    BY <2>1 DEF Name, Def
  <2>4. Busy(call[s])' = Busy(call[s]) /\ \A t \in Threads : Busy(call[t])' = Busy(call[t])
    BY <2>1 DEF Busy
  <2>5. AppCalls(s)'
    BY <2>1, <2>2, <2>3, <2>4 DEF AppInv, AppCalls
  <2> QED
    BY <2>2, <2>5 DEF AppInv
<1>3. ASSUME NEW n, Register(n) PROVE AppInv(s)'
  BY <1>2, <1>3 DEF Register
<1>4. CASE UNCHANGED vars
  BY <1>2, <1>4 DEF vars
<1> QED
  BY <1>1, <1>3, <1>4, AppLoad DEF Next

\* A step outside the load: of a call, or none.
Outside == UNCHANGED <<conf, load>> /\ (UNCHANGED reg \/ \E n \in Names : GetLogger(n))

LEMMA Steps ==
  ASSUME NEW s, Loaders = {s}, LoadTypes, [Next]_vars
  PROVE  \/ Load(s) \/ \E c \in Confs : LoadBegin(s, c)
         \/ Outside /\ UNCHANGED lvars
         \/ /\ Outside
            /\ \E t \in Threads : LStep(t) \/ \E l \in Loggers, v \in Levels : LogCall(t, l, v)
<1>1. ASSUME NEW t \in Threads, Log(t)
      PROVE  Outside /\ (LStep(t) \/ \E l \in Loggers, v \in Levels : LogCall(t, l, v))
  <2>1. ASSUME NEW l \in {reg[n] : n \in Names} \cup {Root}, l # None PROVE l \in Loggers
    BY <2>1, LoadersConfigure DEF LoadTypes
  <2> QED
    BY <1>1, <2>1 DEF Log, Outside
<1>2. ASSUME NEW n \in Names, Register(n) PROVE Outside /\ UNCHANGED lvars
  BY <1>2 DEF Register, Outside
<1>3. CASE UNCHANGED vars
  BY <1>3 DEF vars, Outside
<1> QED
  BY <1>1, <1>2, <1>3 DEF Next

\* What a step leaves of a logger that it leaves as it is.
LEMMA SameKeeps ==
  ASSUME NEW m \in Loggers, RootInv, Same(m)
  PROVE  /\ Listed(m)' = Listed(m)
         /\ \A d, k : Built(m, d, k) => Built(m, d, k)'
         /\ Fitted(m) => Fitted(m)'
         /\ \A d : Formatted(m, d) => Formatted(m, d)'
         /\ \A d : Matches(m, d) => Matches(m, d)'
<1>1. Listed(m)' = Listed(m)
  BY DEF Same, Listed
<1>2. \A i \in 1 .. Len(apps[m]) : apps[m][i] \in Listed(m)
  BY DEF RootInv, RootLists, Listed
<1>3. ASSUME NEW d, NEW k, Built(m, d, k) PROVE Built(m, d, k)'
  BY <1>2, <1>3 DEF Same, Built
<1>4. Fitted(m) => Fitted(m)'
  BY <1>1 DEF Same, Fitted
<1>5. \A d : Formatted(m, d) => Formatted(m, d)'
  BY DEF Same, Formatted
<1>6. ASSUME NEW d, Matches(m, d) PROVE Matches(m, d)'
  <2>1. Built(m, d, Len(d.apps))'
    BY <1>3, <1>6 DEF Matches
  <2> QED
    BY <1>1, <1>6, <2>1 DEF Matches, Same
<1> QED
  BY <1>1, <1>3, <1>4, <1>5, <1>6

LEMMA QuietSame ==
  ASSUME UNCHANGED <<level, apps, fmt, alevel, afmt, own>>
  PROVE  \A m : Same(m)
BY DEF Same

\* What a call step leaves as it is: every logger but the one at hand, and that
\* one too unless the loader's own call is configuring it.
LEMMA CallSame ==
  ASSUME NEW s \in Loaders, Inv, RootInv, AppInv(s), NEW t \in Threads,
         LStep(t) \/ \E l \in Loggers, v \in Levels : LogCall(t, l, v),
         NEW m \in Loggers, m # Name(s) \/ ~Busy(call[s])
  PROVE  Same(m)
<1>0. AppTypes /\ Disjoint /\ AppCalls(s)
  BY DEF AppInv
<1>1. ASSUME Busy(call[t]) PROVE m # call[t].at /\ t = s /\ Busy(call[s])
  BY <1>0, <1>1 DEF AppCalls
<1>2. ASSUME \/ LogLock(t) \/ LogAppend(t) \/ LogFallback(t) \/ LogReturn(t)
             \/ \E l \in Loggers, v \in Levels : LogCall(t, l, v)
      PROVE  Same(m)
  BY <1>2, LogMoves, QuietSame
<1>3. CASE AskAppender(t)
  BY <1>3, AskMoves, QuietSame
<1>4. CASE SetAppender(t)
  <2>1. PICK a \in Listed(call[t].at) : a \in Appenders /\ afmt' = [afmt EXCEPT ![a] = call[t].fmt]
    BY <1>4, SetMoves
  <2>2. UNCHANGED <<level, apps, fmt, alevel, own>> /\ call[t].at \in Loggers /\ Busy(call[t])
    BY <1>4, SetMoves, LoadersConfigure DEF Busy
  <2>3. a \notin Listed(m)
    BY <1>0, <1>1, <2>1, <2>2 DEF Disjoint
  <2> QED
    BY <1>0, <2>1, <2>2, <2>3 DEF Same, AppTypes
<1>5. CASE SetFormatterEnd(t)
  <2>1. /\ UNCHANGED <<level, apps, alevel, afmt, own>> /\ Busy(call[t])
        /\ fmt' = [fmt EXCEPT ![call[t].at] = call[t].fmt]
    BY <1>5, EndMoves DEF Busy
  <2> QED
    BY <1>0, <1>1, <2>1 DEF Same, AppTypes
<1>6. CASE PushAppender(t)
  <2>1. /\ UNCHANGED <<level, fmt, alevel, own>> /\ Busy(call[t])
        /\ call[t].pc \in {"add", "addset"}
        /\ afmt' = [afmt EXCEPT ![call[t].app] = fmt[call[t].at]] \/ afmt' = afmt
        /\ \A k \in Loggers : k # call[t].at => apps'[k] = apps[k]
    BY <1>6, PushMoves DEF Busy
  <2>2. Unlisted(call[t].app) /\ m # call[t].at
    BY <1>0, <1>1, <2>1 DEF AppCalls
  <2>3. \A b \in Listed(m) : afmt'[b] = afmt[b]
    <3>1. ASSUME NEW b \in Listed(m) PROVE b # call[t].app
      BY <2>2, <3>1 DEF Unlisted
    <3>2. Listed(m) \subseteq Appenders
      BY <1>6, PushMoves
    <3>3. CASE afmt' = afmt
      BY <3>3
    <3>4. CASE afmt' = [afmt EXCEPT ![call[t].app] = fmt[call[t].at]]
      BY <1>0, <3>1, <3>2, <3>4 DEF AppTypes
    <3> QED
      BY <2>1, <3>3, <3>4
  <2> QED
    BY <2>1, <2>2, <2>3 DEF Same
<1> QED
  BY <1>2, <1>3, <1>4, <1>5, <1>6 DEF LStep

\* And what a step of the load does.
LEMMA LoadSame ==
  ASSUME NEW s \in Loaders, Inv, LoadTypes, RootInv, AppInv(s),
         Load(s) \/ \E c \in Confs : LoadBegin(s, c),
         NEW m \in Loggers,
         \/ m # Name(s)
         \/ ~(LoadLevel(s) \/ LoadClear(s) \/ LoadDelete(s) \/ LoadSilence(s))
  PROVE  Same(m)
<1>0. AppTypes /\ Disjoint /\ AppCalls(s)
  BY DEF AppInv
<1>1. CASE UNCHANGED lvars
  BY <1>1, QuietSame DEF lvars
<1>2. ASSUME NEW l, l # m, NEW v, SetLevel(s, l, v) PROVE Same(m)
  BY <1>0, <1>2 DEF SetLevel, Same, AppTypes
<1>3. ASSUME NEW l, l # m, ClearAppender(s, l) PROVE Same(m)
  BY <1>3 DEF ClearAppender, Same, RootInv, RootLists
<1>4. CASE LoadLevel(s)
  <2>1. SetLevel(s, reg[Name(s)], Def(s).level) /\ load[s].pc = "level"
    BY <1>4 DEF LoadLevel, At
  <2> QED
    BY <1>2, <1>4, <2>1, AtHand
<1>5. CASE LoadDelete(s)
  <2>1. /\ load[s].pc = "delete" /\ SetLevel(s, reg'[Name(s)], Off)
        /\ load[s].todo # {} /\ GetLogger(Name(s))
    BY <1>5 DEF LoadDelete, At
  <2>2. Name(s) \in Names
    BY <2>1, FirstOf DEF Name, LoadState, LoadTypes
  <2>3. reg'[Name(s)] = Name(s)
    BY <2>1, <2>2 DEF GetLogger, LoadTypes
  <2> QED
    BY <1>2, <1>5, <2>1, <2>3
<1>6. CASE LoadClear(s) \/ LoadSilence(s)
  <2>1. ClearAppender(s, reg[Name(s)]) /\ load[s].pc \in {"clear", "silence"}
    BY <1>6 DEF LoadClear, LoadSilence, At
  <2> QED
    BY <1>3, <1>6, <2>1, AtHand
<1>7. CASE LoadFormat(s) \/ LoadAttach(s)
  <2>1. UNCHANGED <<level, apps, fmt, alevel, afmt, own>>
    BY <1>7 DEF LoadFormat, LoadAttach, SetFormatter, AddAppender
  <2> QED
    BY <2>1, QuietSame
<1>8. CASE LoadBuild(s)
  <2> DEFINE d == Def(s).apps[load[s].pos]
  <2>1. PICK a \in Handed :
          /\ \A l \in Loggers : a \notin Listed(l)
          /\ alevel' = [alevel EXCEPT ![a] = d.level]
          /\ afmt' = [afmt EXCEPT ![a] = d.fmt]
          /\ own' = [own EXCEPT ![a] = d.fmt]
          /\ UNCHANGED <<level, apps, fmt>>
    BY <1>8, NewAppender
  <2> QED
    BY <1>0, <2>1 DEF Same, AppTypes
<1> QED
  BY <1>1, <1>4, <1>5, <1>6, <1>7, <1>8
     DEF Load, LoadBegin, LoadChanged, LoadUnchanged, LoadBuilt, LoadDefined, LoadDeleted, LoadStore

----------------------------------------------------------------------------

\* A step of a call that is not configuring a logger changes no logger.
LEMMA CallQuiet ==
  ASSUME Inv, NEW t \in Threads, ~Busy(call[t]),
         LStep(t) \/ \E l \in Loggers, v \in Levels : LogCall(t, l, v)
  PROVE  /\ \A u \in Threads : u # t => call'[u] = call[u]
         /\ ~Busy(call'[t])
         /\ UNCHANGED <<level, apps, fmt, alevel, afmt, own>>
<1>1. ~(PushAppender(t) \/ AskAppender(t) \/ SetAppender(t) \/ SetFormatterEnd(t))
  BY DEF PushAppender, AskAppender, SetAppender, SetFormatterEnd, Busy
<1> QED
  BY <1>1, LogMoves DEF LStep

LEMMA WorkQuiet ==
  ASSUME NEW s, WorkInv(s), UNCHANGED <<level, apps, fmt, alevel, afmt, own, load>>,
         call'[s] = call[s] \/ (~Busy(call[s]) /\ ~Busy(call'[s]))
  PROVE  WorkInv(s)'
<1>1. /\ Name(s)' = Name(s) /\ Def(s)' = Def(s) /\ load'[s] = load[s]
      /\ Fitted(Name(s))' = Fitted(Name(s))
      /\ Formatted(Name(s), Def(s))' = Formatted(Name(s), Def(s))
  BY DEF Name, Def, Fitted, Formatted, Listed
<1>2. \A k : Built(Name(s), Def(s), k)' = Built(Name(s), Def(s), k)
  BY <1>1 DEF Built
<1>3. \A a, d : AsBuilt(a, d)' = AsBuilt(a, d)
  BY DEF AsBuilt
<1>4. CASE call'[s] = call[s]
  <2>1. Adding(s)' = Adding(s)
    BY <1>4 DEF Adding
  <2> QED
    BY <1>1, <1>2, <1>3, <1>4, <2>1 DEF WorkInv
<1>5. CASE ~Busy(call[s]) /\ ~Busy(call'[s])
  <2>1. ~Adding(s) /\ ~Adding(s)' /\ call[s].pc \notin {"test", "set"}
    BY <1>5 DEF Adding, Busy
  <2> QED
    BY <1>1, <1>2, <1>3, <2>1 DEF WorkInv
<1> QED
  BY <1>4, <1>5

\* The appender being added joins the list as it was built, and with the
\* formatter of the logger if it has none.
LEMMA WorkPush ==
  ASSUME NEW s \in Loaders, Inv, LoadTypes, RootInv, AppInv(s), WorkInv(s), UNCHANGED load,
         PushAppender(s)
  PROVE  WorkInv(s)'
<1> DEFINE n == Name(s)
           d == Def(s)
           a == call[s].app
           k == load[s].pos
<1>0. s \in Threads /\ AppCalls(s) /\ AppTypes /\ RootLists
  BY LoadersConfigure DEF AppInv, RootInv
<1>1. /\ UNCHANGED <<level, fmt, alevel, own>> /\ call'[s] = Idle
      /\ call[s].pc \in {"add", "addset"} /\ call[s].at \in Names
      /\ a \in Appenders
      /\ apps' = [apps EXCEPT ![call[s].at] = Append(apps[call[s].at], a)]
      /\ call[s].pc = "addset" => afmt' = [afmt EXCEPT ![a] = fmt[call[s].at]]
      /\ call[s].pc = "add" => afmt' = afmt
      /\ \A m \in Loggers : Listed(m) \subseteq Appenders
      /\ \A m \in Loggers : \A b \in Listed(m)' :
              b \in Listed(m) \/ (m = call[s].at /\ b = call[s].app)
  BY <1>0, PushMoves
<1>2. call[s].at = n /\ load[s].pc = "build" /\ n \in Loggers /\ Adding(s) /\ a \notin Listed(n)
  BY <1>0, <1>1, LoadersConfigure DEF AppCalls, Busy, Adding, Unlisted
<1>3. /\ level[n] = d.level /\ Formatted(n, d) /\ Fitted(n) /\ k - 1 \in DOMAIN d.apps
      /\ Built(n, d, k - 2) /\ AsBuilt(a, d.apps[k - 1])
      /\ (call[s].pc = "addset" <=> afmt[a] = None)
  BY <1>2 DEF WorkInv
<1>4. n' = n /\ d' = d /\ k' = k /\ load'[s] = load[s]
  BY DEF Name, Def
<1>5. apps'[n] = Append(apps[n], a) /\ apps[n] \in Seq(Appenders) /\ k \in Nat
  BY <1>0, <1>1, <1>2 DEF RootLists, LoadTypes, LoadState
<1>6. d.apps \in Seq([level : Levels, fmt : Formats \cup {None}])
  BY <1>2, DefAtHand, DefTypes
<1> HIDE DEF n, d, a, k
<1>7. Built(n, d, k - 1)'
  <2>1. Len(apps[n]) = k - 2 /\ Len(apps'[n]) = k - 1 /\ k - 1 <= Len(d.apps) /\ k - 1 \in 1 .. Len(d.apps)
    BY <1>3, <1>5, <1>6 DEF Built
  <2>2. ASSUME NEW i \in 1 .. (k - 1)
        PROVE  alevel'[apps'[n][i]] = d.apps[i].level /\ own'[apps'[n][i]] = d.apps[i].fmt
    <3>1. CASE i = k - 1
      <4>1. apps'[n][i] = a
        BY <1>5, <2>1, <3>1
      <4> QED
        BY <1>1, <1>3, <3>1, <4>1 DEF AsBuilt
    <3>2. CASE i # k - 1
      <4>1. i \in 1 .. (k - 2) /\ apps'[n][i] = apps[n][i]
        BY <1>5, <2>1, <3>2
      <4> QED
        BY <1>1, <1>3, <4>1 DEF Built
    <3> QED
      BY <3>1, <3>2
  <2> QED
    BY <1>4, <2>1, <2>2 DEF Built
<1>8. Fitted(n)'
  <2> SUFFICES ASSUME NEW b \in Listed(n)'
               PROVE  afmt'[b] = IF own[b] = None THEN fmt[n] ELSE own[b]
    BY <1>1, <1>4 DEF Fitted
  <2>0. b \in Listed(n) \/ b = a
    BY <1>1, <1>2, <1>4 DEF a
  <2>1. CASE b # a
    <3>1. afmt'[b] = afmt[b]
      <4>1. b \in Appenders
        BY <1>1, <1>2, <2>0, <2>1
      <4>2. CASE call[s].pc = "addset"
        BY <1>0, <1>1, <2>1, <4>1, <4>2 DEF AppTypes
      <4> QED
        BY <1>1, <4>2
    <3> QED
      BY <1>3, <2>0, <2>1, <3>1 DEF Fitted
  <2>2. CASE b = a
    <3>1. own[a] = afmt[a]
      BY <1>3 DEF AsBuilt
    <3>2. CASE call[s].pc = "addset"
      <4>1. afmt'[a] = fmt[n]
        BY <1>0, <1>1, <1>2, <3>2 DEF AppTypes
      <4> QED
        BY <1>3, <2>2, <3>1, <3>2, <4>1
    <3>3. CASE call[s].pc = "add"
      BY <1>1, <1>3, <2>2, <3>1, <3>3
    <3> QED
      BY <1>1, <3>2, <3>3
  <2> QED
    BY <2>1, <2>2
<1>9. Formatted(n, d)' /\ level'[n] = d.level
  BY <1>1, <1>3, <1>4 DEF Formatted
<1>10. ~Adding(s)'
  BY <1>1 DEF Adding, Idle
<1>11. load[s].pos = k /\ Name(s)' = n' /\ Def(s)' = d'
  BY DEF k, n, d
<1> QED
  BY <1>2, <1>4, <1>7, <1>8, <1>9, <1>10, <1>11 DEF WorkInv

\* The other steps of the loader's own call, which is setFormatter.
LEMMA WorkSet ==
  ASSUME NEW s \in Loaders, Inv, LoadTypes, RootInv, AppInv(s), WorkInv(s), UNCHANGED load,
         AskAppender(s) \/ SetAppender(s) \/ SetFormatterEnd(s)
  PROVE  WorkInv(s)'
<1>0. s \in Threads /\ AppCalls(s) /\ AppTypes
  BY LoadersConfigure DEF AppInv
<1>1. UNCHANGED level /\ call[s].pc \in {"test", "set"}
  BY <1>0, AskMoves, SetMoves, EndMoves
<1>2. load[s].pc = "clear" /\ call[s].at = Name(s) /\ call[s].fmt = Def(s).fmt
  BY <1>0, <1>1 DEF AppCalls, Busy
<1>3. Name(s)' = Name(s) /\ Def(s)' = Def(s) /\ load'[s] = load[s] /\ Name(s) \in Loggers
  BY <1>2, AtHand, LoadersConfigure DEF Name, Def
<1>4. call'[s].pc \in {"test", "set"} \/ Formatted(Name(s), Def(s))'
  <2>1. CASE SetFormatterEnd(s)
    BY <1>0, <1>2, <1>3, <2>1, EndMoves DEF Formatted, AppTypes
  <2> QED
    BY <1>0, <2>1, AskMoves, SetMoves
<1> QED
  BY <1>1, <1>2, <1>3, <1>4 DEF WorkInv

\* The steps of the load.
LEMMA WorkLoad ==
  ASSUME NEW s \in Loaders, Inv, LoadTypes, RootInv, AppInv(s), WorkInv(s),
         Load(s) \/ \E c \in Confs : LoadBegin(s, c)
  PROVE  WorkInv(s)'
<1> DEFINE n == Name(s)
           d == Def(s)
           k == load[s].pos
<1>0. /\ s \in Threads /\ AppTypes /\ RootLists /\ load[s] \in LoadState
      /\ call \in [Threads -> Call] /\ load \in [Loaders -> LoadState]
      /\ level = [l \in Loggers |-> level[l]]
  BY LoadersConfigure DEF AppInv, AppTypes, RootInv, LoadTypes, Inv, Shape
<1>1. call[s].pc = "idle"
  BY DEF LoadBegin, Load, LoadChanged, LoadUnchanged, LoadLevel, LoadFormat, LoadClear, LoadBuild,
         LoadAttach, LoadBuilt, LoadDefined, LoadDelete, LoadSilence, LoadDeleted, LoadStore, At
<1>2. ASSUME load'[s].pc \in {"idle", "define", "level", "delete", "store"} PROVE WorkInv(s)'
  BY <1>2 DEF WorkInv
<1>3. CASE \/ LoadChanged(s) \/ LoadUnchanged(s) \/ LoadBuilt(s) \/ LoadDefined(s)
           \/ LoadSilence(s) \/ LoadDeleted(s)
  BY <1>2, <1>3, LoaderGoes DEF Goes
<1>4. CASE LoadStore(s) \/ \E c \in Confs : LoadBegin(s, c)
  <2>1. load'[s].pc \in {"idle", "define"}
    <3>1. CASE LoadStore(s)
      BY <1>0, <3>1 DEF LoadStore, NoLoad
    <3>2. ASSUME NEW c \in Confs, LoadBegin(s, c) PROVE load'[s].pc = "define"
      BY <1>0, <3>2 DEF LoadBegin, NoLoad
    <3> QED
      BY <1>4, <3>1, <3>2
  <2> QED
    BY <1>2, <2>1
<1>5. ASSUME load'[s].todo = load[s].todo, load'[s].new = load[s].new
      PROVE  n' = n /\ d' = d
  BY <1>5 DEF Name, Def
<1>6. CASE LoadLevel(s)
  <2>1. load[s].pc = "level" /\ SetLevel(s, reg[n], d.level)
    BY <1>6 DEF LoadLevel, At
  <2>2. reg[n] = n /\ n \in Loggers
    BY <2>1, AtHand, LoadersConfigure
  <2>3. /\ n' = n /\ d' = d
        /\ load'[s].pc = IF d.fmt = None THEN "clear" ELSE "format"
    BY <1>5, <1>6, LoaderGoes DEF Goes
  <2>4. level'[n] = d.level
    BY <1>0, <2>1, <2>2 DEF SetLevel
  <2> QED
    BY <2>3, <2>4 DEF WorkInv, Formatted
<1>7. CASE LoadFormat(s)
  <2>1. load[s].pc = "format" /\ SetFormatter(s, reg[n], d.fmt)
    BY <1>7 DEF LoadFormat, At
  <2>2. n' = n /\ d' = d /\ load'[s].pc = "clear"
    BY <1>5, <1>7, LoaderGoes DEF Goes
  <2>3. call'[s].pc = "test" /\ UNCHANGED level
    BY <1>0, <2>1 DEF SetFormatter, Idle
  <2>4. level[n] = d.level
    BY <2>1 DEF WorkInv
  <2> QED
    BY <2>2, <2>3, <2>4 DEF WorkInv
<1>8. CASE LoadClear(s)
  <2>1. load[s].pc = "clear" /\ ClearAppender(s, reg[n])
    BY <1>8 DEF LoadClear, At
  <2>2. reg[n] = n /\ n \in Loggers /\ d \in Defs
    BY <2>1, AtHand, DefAtHand, LoadersConfigure
  <2>3. n' = n /\ d' = d /\ load'[s].pc = "build" /\ k' = 1
    BY <1>5, <1>8, LoaderGoes DEF Goes
  <2>4. UNCHANGED <<level, fmt, call>> /\ apps'[n] = <<>>
    BY <1>0, <2>1, <2>2 DEF ClearAppender, RootLists
  <2>5. level[n] = d.level /\ Formatted(n, d)
    BY <1>1, <2>1 DEF WorkInv
  <2>6. Formatted(n, d)' /\ level'[n] = d.level
    BY <2>3, <2>4, <2>5 DEF Formatted
  <2>7. Fitted(n)'
    BY <2>3, <2>4 DEF Fitted, Listed
  <2>8. Built(n, d, 0)'
    <3>1. Len(d.apps) \in Nat
      BY <2>2, DefTypes
    <3> QED
      BY <2>3, <2>4, <3>1 DEF Built
  <2>9. ~Adding(s)'
    BY <1>1, <2>4 DEF Adding
  <2>10. k' - 1 = 0
    BY <2>3
  <2> HIDE DEF n, d, k
  <2>11. load'[s].pos = k' /\ Name(s)' = n' /\ Def(s)' = d'
    BY DEF n, d, k
  <2> QED
    BY <2>3, <2>6, <2>7, <2>8, <2>9, <2>10, <2>11 DEF WorkInv
<1>9. CASE LoadBuild(s)
  <2> DEFINE e == Def(s).apps[load[s].pos]
  <2>1. PICK a \in Handed :
          /\ At(s, "build") /\ load[s].pos <= Len(Def(s).apps)
          /\ \A l \in Loggers : a \notin Listed(l)
          /\ alevel' = [alevel EXCEPT ![a] = e.level]
          /\ afmt' = [afmt EXCEPT ![a] = e.fmt]
          /\ own' = [own EXCEPT ![a] = e.fmt]
          /\ load' = [load EXCEPT ![s].pc = "attach", ![s].app = a]
          /\ UNCHANGED <<level, apps, fmt, mtx, call, conf, reg>>
    BY <1>9, NewAppender
  <2>2. load[s].pc = "build" /\ ~Adding(s) /\ n \in Loggers /\ d \in Defs
    BY <1>1, <2>1, AtHand, DefAtHand, LoadersConfigure DEF At, Adding
  <2>3. level[n] = d.level /\ Formatted(n, d) /\ Fitted(n) /\ Built(n, d, k - 1)
    BY <2>2 DEF WorkInv
  <2>4. /\ load'[s].pc = "attach" /\ load'[s].app = a /\ k' = k
        /\ load'[s].todo = load[s].todo /\ load'[s].new = load[s].new
    BY <1>0, <2>1 DEF LoadState
  <2>5. n' = n /\ d' = d
    BY <1>5, <2>4
  <2>6. Same(n)
    <3>1. ~(LoadLevel(s) \/ LoadClear(s) \/ LoadDelete(s) \/ LoadSilence(s))
      BY <2>2 DEF LoadLevel, LoadClear, LoadDelete, LoadSilence, At
    <3> QED
      BY <2>2, <3>1, LoadSame
  <2>7. k \in DOMAIN d.apps
    <3>1. d.apps \in Seq([level : Levels, fmt : Formats \cup {None}]) /\ k \in Nat \ {0} /\ k <= Len(d.apps)
      BY <1>0, <2>1, <2>2, DefTypes DEF LoadState
    <3> QED
      BY <3>1
  <2>8. AsBuilt(a, e)'
    <3>1. a \in Appenders
      BY LoadersConfigure
    <3>2. e' = e
      BY <2>4, <2>5
    <3> HIDE DEF e
    <3> QED
      BY <1>0, <2>1, <3>1, <3>2 DEF AsBuilt, AppTypes
  <2>9. level'[n] = d.level /\ Formatted(n, d)' /\ Fitted(n)' /\ Built(n, d, k - 1)'
    <3> HIDE DEF n, d, k
    <3>1. level'[n] = d.level
      BY <2>3, <2>6 DEF Same
    <3>2. Formatted(n, d)' /\ Fitted(n)' /\ Built(n, d, k - 1)'
      BY <2>2, <2>3, <2>4, <2>5, <2>6, SameKeeps DEF Formatted, Fitted, Built
    <3> QED
      BY <3>1, <3>2
  <2>10. e = d.apps[k] /\ e' = d'.apps[k']
    OBVIOUS
  <2> HIDE DEF n, d, k, e
  <2>11. load'[s].pos = k' /\ Name(s)' = n' /\ Def(s)' = d'
    BY DEF n, d, k
  <2> QED
    BY <2>4, <2>5, <2>7, <2>8, <2>9, <2>10, <2>11 DEF WorkInv
<1>10. CASE LoadAttach(s)
  <2> DEFINE a == load[s].app
  <2>1. load[s].pc = "attach" /\ AddAppender(s, reg[n], a)
    BY <1>10 DEF LoadAttach, At
  <2>2. n \in Loggers /\ d \in Defs
    BY <2>1, AtHand, DefAtHand, LoadersConfigure
  <2>3. n' = n /\ d' = d /\ load'[s].pc = "build" /\ k' = k + 1
    BY <1>5, <1>10, LoaderGoes DEF Goes
  <2>4. /\ UNCHANGED <<level, apps, fmt, alevel, afmt, own>>
        /\ call'[s].pc = IF afmt[a] = None THEN "addset" ELSE "add"
        /\ call'[s].app = a
    BY <1>0, <2>1 DEF AddAppender, Idle
  <2>5. /\ level[n] = d.level /\ Formatted(n, d) /\ Fitted(n) /\ Built(n, d, k - 1)
        /\ k \in DOMAIN d.apps /\ AsBuilt(a, d.apps[k])
    BY <2>1 DEF WorkInv
  <2>6. k \in Nat /\ k' - 1 = k /\ k' - 2 = k - 1
    BY <1>0, <2>3 DEF LoadState
  <2>7. /\ call'[s].app = a /\ (call'[s].pc = "addset" <=> afmt'[a] = None)
        /\ call'[s].pc \in {"add", "addset"}
    BY <2>4
  <2>8. /\ alevel'[a] = d.apps[k].level /\ own'[a] = d.apps[k].fmt /\ afmt'[a] = d.apps[k].fmt
    BY <2>4, <2>5 DEF AsBuilt
  <2>9. level'[n] = d.level /\ Formatted(n, d)' /\ Fitted(n)'
    <3> HIDE DEF n, d
    <3> QED
      BY <2>3, <2>4, <2>5 DEF Formatted, Fitted, Listed
  <2>10. Len(apps'[n]) = k - 1 /\ k - 1 <= Len(d.apps)
         /\ \A i \in 1 .. (k - 1) : /\ alevel'[apps'[n][i]] = d.apps[i].level
                                   /\ own'[apps'[n][i]] = d.apps[i].fmt
    BY <2>4, <2>5 DEF Built
  <2> HIDE DEF n, d, k, a
  <2>11. load'[s].pos = k' /\ Name(s)' = n' /\ Def(s)' = d'
    BY DEF n, d, k
  <2> QED
    BY <2>3, <2>5, <2>6, <2>7, <2>8, <2>9, <2>10, <2>11 DEF WorkInv, AsBuilt, Built, Adding
<1>11. CASE LoadDelete(s)
  <2>1. /\ load[s].pc = "delete" /\ SetLevel(s, reg'[n], Off) /\ load[s].todo # {} /\ GetLogger(n)
    BY <1>11 DEF LoadDelete, At
  <2>2. n \in Names
    BY <1>0, <2>1, FirstOf DEF Name, LoadState
  <2>3. reg'[n] = n /\ n \in Loggers
    BY <2>1, <2>2, LoadersConfigure DEF GetLogger, LoadTypes
  <2>4. n' = n /\ load'[s].pc = "silence"
    BY <1>5, <1>11, LoaderGoes DEF Goes
  <2>5. level'[n] = Off
    BY <1>0, <2>1, <2>3 DEF SetLevel
  <2> QED
    BY <2>4, <2>5 DEF WorkInv
<1> QED
  BY <1>3, <1>4, <1>6, <1>7, <1>8, <1>9, <1>10, <1>11 DEF Load

LEMMA WorkKept ==
  ASSUME NEW s, Loaders = {s}, Inv, LoadTypes, RootInv, AppInv(s), WorkInv(s), [Next]_vars
  PROVE  WorkInv(s)'
<1>0. s \in Loaders /\ s \in Threads /\ AppCalls(s)
  BY LoadersConfigure DEF AppInv
<1>1. CASE Outside /\ UNCHANGED lvars
  BY <1>1, WorkQuiet DEF Outside, lvars
<1>2. ASSUME Outside, NEW t \in Threads, LStep(t) \/ \E l \in Loggers, v \in Levels : LogCall(t, l, v)
      PROVE  WorkInv(s)'
  <2>1. UNCHANGED load
    BY <1>2 DEF Outside
  <2>2. CASE Busy(call[t])
    <3>1. t = s
      BY <1>0, <2>2 DEF AppCalls
    <3>2. PushAppender(s) \/ AskAppender(s) \/ SetAppender(s) \/ SetFormatterEnd(s)
      BY <1>0, <1>2, <2>2, <3>1, LogMoves DEF LStep
    <3> QED
      BY <1>0, <2>1, <3>2, WorkPush, WorkSet
  <2>3. CASE ~Busy(call[t])
    <3>1. /\ \A u \in Threads : u # t => call'[u] = call[u]
          /\ ~Busy(call'[t])
          /\ UNCHANGED <<level, apps, fmt, alevel, afmt, own>>
      BY <1>2, <2>3, CallQuiet
    <3>2. call'[s] = call[s] \/ (~Busy(call[s]) /\ ~Busy(call'[s]))
      BY <1>0, <2>3, <3>1
    <3> QED
      BY <2>1, <3>1, <3>2, WorkQuiet
  <2> QED
    BY <2>2, <2>3
<1> QED
  BY <1>0, <1>1, <1>2, WorkLoad, Steps

\* A logger left as it is stays done, or silent.
LEMMA DoneSame ==
  ASSUME RootInv, NEW m \in Loggers, Same(m), reg[m] = m => reg'[m] = m
  PROVE  /\ \A d : Done(m, d) => Done(m, d)'
         /\ Silent(m) => Silent(m)'
<1>1. ASSUME NEW d, Done(m, d) PROVE Done(m, d)'
  BY <1>1, SameKeeps DEF Done
<1>2. Silent(m) => Silent(m)'
  BY DEF Silent, Same
<1> QED
  BY <1>1, <1>2

LEMMA RegKept ==
  ASSUME LoadTypes, [Next]_vars
  PROVE  \A m \in Names : reg[m] = m => reg'[m] = m
<1>1. ASSUME NEW n, GetLogger(n), NEW m \in Names, reg[m] = m PROVE reg'[m] = m
  BY <1>1, LoadersConfigure DEF GetLogger, LoadTypes
<1>2. UNCHANGED reg \/ \E n : GetLogger(n)
  BY DEF Next, Load, LoadBegin, LoadChanged, LoadUnchanged, LoadLevel, LoadFormat, LoadClear,
         LoadBuild, LoadAttach, LoadBuilt, LoadDefined, LoadDelete, LoadSilence, LoadDeleted,
         LoadStore, Log, Register, vars
<1> QED
  BY <1>1, <1>2

\* Outside the load nothing that is done is undone.
LEMMA DoneOutside ==
  ASSUME NEW s \in Loaders, Inv, LoadTypes, RootInv, AppInv(s), DoneInv(s), [Next]_vars, Outside,
         \/ UNCHANGED lvars
         \/ \E t \in Threads : LStep(t) \/ \E l \in Loggers, v \in Levels : LogCall(t, l, v)
  PROVE  DoneInv(s)'
<1>0. UNCHANGED <<conf, load>> /\ AppCalls(s) /\ Names \subseteq Loggers
  BY LoadersConfigure DEF Outside, AppInv
<1>1. ASSUME NEW m \in Names, m # Name(s) \/ ~Busy(call[s])
      PROVE  /\ \A d : Done(m, d) => Done(m, d)'
             /\ Silent(m) => Silent(m)'
  <2>1. m \in Loggers /\ (reg[m] = m => reg'[m] = m)
    BY <1>0, RegKept
  <2>2. Same(m)
    <3>1. CASE UNCHANGED lvars
      BY <3>1, QuietSame DEF lvars
    <3> QED
      BY <1>1, <2>1, <3>1, CallSame
  <2> QED
    BY <2>1, <2>2, DoneSame
<1>2. Defined(load[s].new)' = Defined(load[s].new) /\ Defined(conf)' = Defined(conf)
      /\ Defined(load[s].new) \subseteq Names /\ Defined(conf) \subseteq Names
  BY <1>0 DEF Defined
<1>3. CASE Busy(call[s])
  <2>1. load[s].pc \in {"clear", "build"}
    BY <1>0, <1>3 DEF AppCalls, Busy
  <2>2. Name(s) \in load[s].todo
    BY <2>1, AtHand
  <2>3. ASSUME NEW n \in Defined(load[s].new) \ load[s].todo PROVE Done(n, load[s].new[n])'
    <3>1. Done(n, load[s].new[n]) /\ n \in Names /\ n # Name(s)
      BY <1>2, <2>1, <2>2, <2>3 DEF DoneInv
    <3> DEFINE d == load[s].new[n]
    <3>2. d' = d
      BY <1>0
    <3> HIDE DEF d
    <3>3. Done(n, d) /\ (Done(n, d) => /\ reg'[n] = n /\ Matches(n, d)')
      BY <1>1, <3>1, <3>2 DEF d, Done
    <3> QED
      BY <3>2, <3>3 DEF d, Done
  <2> QED
    BY <1>0, <1>2, <2>1, <2>3 DEF DoneInv
<1>4. CASE ~Busy(call[s])
  <2>1. ASSUME NEW n \in Names PROVE (Silent(n) => Silent(n)') /\ \A d : Done(n, d) => Done(n, d)'
    BY <1>1, <1>4
  <2>2. ASSUME NEW n \in Names, Done(n, load[s].new[n]) PROVE Done(n, load[s].new[n])'
    <3> DEFINE d == load[s].new[n]
    <3>1. d' = d
      BY <1>0
    <3> HIDE DEF d
    <3> QED
      BY <2>1, <2>2, <3>1 DEF d
  <2>3. \A m : Changed(load[s].new, m)' = Changed(load[s].new, m)
    BY <1>0 DEF Changed
  <2> QED
    BY <1>0, <1>2, <2>1, <2>2, <2>3 DEF DoneInv
<1> QED
  BY <1>3, <1>4

\* A step of the load keeps what is done, but for the logger at hand.
LEMMA DoneLoadKeeps ==
  ASSUME NEW s \in Loaders, Inv, LoadTypes, RootInv, AppInv(s), [Next]_vars, Load(s),
         load'[s].new = load[s].new, NEW n \in Names,
         n # Name(s) \/ ~(LoadLevel(s) \/ LoadClear(s) \/ LoadDelete(s) \/ LoadSilence(s))
  PROVE  /\ Done(n, load[s].new[n]) => Done(n, load[s].new[n])'
         /\ Silent(n) => Silent(n)'
<1> DEFINE d == load[s].new[n]
<1>1. d' = d
  OBVIOUS
<1>2. n \in Loggers /\ (reg[n] = n => reg'[n] = n)
  BY LoadersConfigure, RegKept
<1>3. Same(n)
  BY <1>2, LoadSame
<1> HIDE DEF d
<1>4. /\ Done(n, d) => Done(n, d)'
      /\ Silent(n) => Silent(n)'
  BY <1>1, <1>2, <1>3, DoneSame DEF Done
<1> QED
  BY <1>1, <1>4 DEF d

\* A definition whose last appender is attached is carried over.
LEMMA BuiltIsDone ==
  ASSUME NEW s \in Loaders, LoadTypes, AppInv(s), WorkInv(s), LoadBuilt(s)
  PROVE  Done(Name(s), Def(s))
<1> DEFINE n == Name(s)
           d == Def(s)
           k == load[s].pos
<1>1. load[s].pc = "build" /\ call[s].pc = "idle" /\ k > Len(d.apps)
  BY DEF LoadBuilt, At
<1>2. reg[n] = n /\ d \in Defs
  BY <1>1, AtHand, DefAtHand
<1>3. level[n] = d.level /\ Formatted(n, d) /\ Fitted(n) /\ Built(n, d, k - 1)
  BY <1>1 DEF WorkInv, Adding
<1>4. k - 1 = Len(d.apps)
  <2>1. Len(d.apps) \in Nat /\ k \in Nat /\ k - 1 <= Len(d.apps)
    BY <1>2, <1>3, DefTypes DEF Built, LoadTypes, LoadState
  <2> QED
    BY <1>1, <2>1
<1> HIDE DEF n, d, k
<1>5. Done(n, d)
  BY <1>2, <1>3, <1>4 DEF Done, Matches, Formatted, Fitted
<1> QED
  BY <1>5 DEF n, d

\* An unchanged definition ends the loop after those that come before it.
LEMMA UnchangedEnds ==
  ASSUME NEW s \in Loaders, LoadTypes, DoneInv(s), LoadUnchanged(s), NEW n \in Names,
         \A m \in Names : Rank(m) <= Rank(n) => Changed(load[s].new, m)
  PROVE  load[s].new[n] # None => Done(n, load[s].new[n])
<1>1. /\ load[s].pc = "define" /\ load[s].todo # {} /\ load[s].todo \subseteq Names
      /\ load[s].new[Name(s)] = conf[Name(s)]
  BY DEF LoadUnchanged, At, LoadTypes, LoadState, Def
<1>2. /\ Name(s) \in load[s].todo /\ Name(s) \in Names
      /\ \A m \in load[s].todo : Rank(Name(s)) <= Rank(m)
  BY <1>1, FirstOf DEF Name
<1>3. load[s].new[Name(s)] # None
  BY <1>1, <1>2, LoadersConfigure DEF LoadTypes, Shaped
<1>4. ~Changed(load[s].new, Name(s))
  BY <1>1, <1>3 DEF Changed
<1>5. n \notin load[s].todo
  BY <1>2, <1>4
<1> QED
  BY <1>1, <1>5 DEF DoneInv, Defined

LEMMA DoneLoad ==
  ASSUME NEW s \in Loaders, Inv, LoadTypes, RootInv, AppInv(s), WorkInv(s), DoneInv(s), [Next]_vars,
         Load(s) \/ \E c \in Confs : LoadBegin(s, c)
  PROVE  DoneInv(s)'
<1> DEFINE r == load[s]
<1>0. /\ s \in Threads /\ load[s] \in LoadState /\ load \in [Loaders -> LoadState]
      /\ Defined(r.new) \subseteq Names /\ Defined(conf) \subseteq Names
      /\ r.todo \subseteq Names
  BY LoadersConfigure DEF LoadTypes, Defined, LoadState
<1>1. ASSUME NEW c \in Confs, LoadBegin(s, c) PROVE DoneInv(s)'
  <2>1. load'[s].pc = "define" /\ load'[s].new = c /\ load'[s].todo = Defined(c)
    BY <1>0, <1>1 DEF LoadBegin, NoLoad
  <2>2. Defined(load[s].new)' = Defined(c)
    BY <2>1 DEF Defined
  <2> QED
    BY <2>1, <2>2 DEF DoneInv
<1>2. CASE LoadStore(s)
  <2>1. load'[s].pc = "idle"
    BY <1>0, <1>2 DEF LoadStore, NoLoad
  <2> QED
    BY <2>1 DEF DoneInv
<1>3. ASSUME Load(s), load'[s].new = r.new, UNCHANGED conf
      PROVE  /\ Defined(r.new)' = Defined(r.new) /\ Defined(conf)' = Defined(conf)
             /\ \A n \in Names :
                  n # Name(s) \/ ~(LoadLevel(s) \/ LoadClear(s) \/ LoadDelete(s) \/ LoadSilence(s)) =>
                     /\ Done(n, r.new[n]) => Done(n, r.new[n])'
                     /\ Silent(n) => Silent(n)'
  BY <1>3, DoneLoadKeeps DEF Defined
<1>4. ASSUME \/ LoadChanged(s) \/ LoadLevel(s) \/ LoadFormat(s) \/ LoadClear(s) \/ LoadBuild(s)
             \/ LoadAttach(s)
      PROVE  DoneInv(s)'
  <2>1. /\ r.pc \in {"define", "level", "format", "clear", "build", "attach"} /\ r.todo # {}
        /\ UNCHANGED conf
    BY <1>4, AtHand DEF LoadChanged, LoadLevel, LoadFormat, LoadClear, LoadBuild, LoadAttach, At
  <2>2. /\ load'[s].pc \in {"level", "format", "clear", "build", "attach"}
        /\ load'[s].todo = r.todo /\ load'[s].new = r.new
    <3>1. CASE LoadBuild(s)
      BY <1>0, <3>1 DEF LoadBuild, LoadState
    <3> QED
      BY <1>4, <3>1, LoaderGoes DEF Goes
  <2>3. Name(s) \in r.todo
    BY <1>0, <2>1, FirstOf DEF Name
  <2>4. ASSUME NEW n \in Defined(r.new) \ r.todo PROVE Done(n, r.new[n])'
    <3>1. Load(s) /\ n # Name(s) /\ n \in Names
      BY <1>0, <1>4, <2>3 DEF Load
    <3>2. Done(n, r.new[n])
      BY <2>1 DEF DoneInv
    <3> QED
      BY <1>3, <2>1, <2>2, <3>1, <3>2
  <2>5. Defined(r.new)' = Defined(r.new)
    BY <2>2 DEF Defined
  <2> QED
    BY <2>2, <2>4, <2>5 DEF DoneInv
<1>5. CASE LoadUnchanged(s)
  <2>1. load'[s].pc = "store" /\ load'[s].new = r.new /\ UNCHANGED <<conf, reg, lvars>>
        /\ load[s].pc = "define" /\ load[s].todo # {} /\ r.new[Name(s)] = conf[Name(s)]
    BY <1>5, LoaderGoes DEF Goes, LoadUnchanged, At, Def
  <2>2. Name(s) \in Names /\ ~Changed(r.new, Name(s))
    <3>1. Name(s) \in r.todo /\ Name(s) \in Names
      BY <1>0, <2>1, FirstOf DEF Name
    <3>2. r.new[Name(s)] # None
      BY <2>1, <3>1, LoadersConfigure DEF LoadTypes, Shaped
    <3> QED
      BY <2>1, <3>1, <3>2 DEF Changed
  <2>3. \A m : Changed(r.new, m)' = Changed(r.new, m)
    BY <2>1 DEF Changed
  <2>4. ASSUME NEW n \in Names, r.new[n] # None,
               \A m \in Names : Rank(m) <= Rank(n) => Changed(r.new, m)
        PROVE  Done(n, r.new[n])'
    <3>1. Done(n, r.new[n])
      BY <1>5, <2>4, UnchangedEnds
    <3> QED
      BY <1>3, <1>5, <2>1, <3>1 DEF Load, LoadUnchanged, LoadLevel, LoadClear, LoadDelete, LoadSilence, At
  <2> QED
    BY <2>1, <2>2, <2>3, <2>4 DEF DoneInv
<1>6. CASE LoadBuilt(s)
  <2>1. /\ load'[s].pc = "define" /\ load'[s].new = r.new /\ load'[s].todo = r.todo \ {Name(s)}
        /\ UNCHANGED conf /\ r.pc = "build"
        /\ ~(LoadLevel(s) \/ LoadClear(s) \/ LoadDelete(s) \/ LoadSilence(s))
    BY <1>6, LoaderGoes DEF Goes, LoadBuilt, LoadLevel, LoadClear, LoadDelete, LoadSilence, At
  <2>2. Name(s) \in r.todo
    BY <2>1, AtHand
  <2>3. ASSUME NEW n \in Defined(r.new) \ (r.todo \ {Name(s)}) PROVE Done(n, r.new[n])'
    <3>1. Done(n, r.new[n])
      BY <1>6, <2>1, BuiltIsDone DEF DoneInv, Def
    <3> QED
      BY <1>0, <1>3, <1>6, <2>1, <3>1 DEF Load
  <2>4. Defined(r.new)' = Defined(r.new)
    BY <2>1 DEF Defined
  <2> QED
    BY <2>1, <2>3, <2>4 DEF DoneInv
<1>7. CASE LoadDefined(s)
  <2>1. /\ load'[s].pc = "delete" /\ load'[s].new = r.new
        /\ load'[s].todo = Defined(conf) \ Defined(r.new)
        /\ UNCHANGED conf /\ r.pc = "define" /\ r.todo = {}
        /\ ~(LoadLevel(s) \/ LoadClear(s) \/ LoadDelete(s) \/ LoadSilence(s))
    BY <1>7, LoaderGoes DEF Goes, LoadDefined, LoadLevel, LoadClear, LoadDelete, LoadSilence, At
  <2>2. ASSUME NEW n \in Defined(r.new) PROVE Done(n, r.new[n])'
    <3>1. Done(n, r.new[n])
      BY <2>1 DEF DoneInv
    <3> QED
      BY <1>0, <1>3, <1>7, <2>1, <3>1 DEF Load
  <2>3. Defined(r.new)' = Defined(r.new) /\ Defined(conf)' = Defined(conf)
    BY <2>1 DEF Defined
  <2> QED
    BY <2>1, <2>2, <2>3 DEF DoneInv
<1>8. CASE LoadDelete(s)
  <2>1. /\ load'[s].pc = "silence" /\ load'[s].new = r.new /\ load'[s].todo = r.todo
        /\ UNCHANGED conf /\ r.pc = "delete" /\ r.todo # {}
    BY <1>8, LoaderGoes DEF Goes, LoadDelete, At
  <2>2. Name(s) \in r.todo /\ r.todo \subseteq Defined(conf) \ Defined(r.new)
    BY <1>0, <2>1, FirstOf DEF Name, DoneInv
  <2>3. Defined(r.new)' = Defined(r.new) /\ Defined(conf)' = Defined(conf)
    BY <2>1 DEF Defined
  <2>4. ASSUME NEW n \in Defined(r.new) PROVE Done(n, r.new[n])'
    <3>1. Done(n, r.new[n]) /\ n # Name(s)
      BY <2>1, <2>2 DEF DoneInv
    <3> QED
      BY <1>0, <1>3, <1>8, <2>1, <3>1 DEF Load
  <2>5. ASSUME NEW n \in (Defined(conf) \ Defined(r.new)) \ r.todo PROVE Silent(n)'
    <3>1. Silent(n) /\ n # Name(s)
      BY <2>1, <2>2 DEF DoneInv
    <3> QED
      BY <1>0, <1>3, <1>8, <2>1, <3>1 DEF Load
  <2> QED
    BY <2>1, <2>2, <2>3, <2>4, <2>5 DEF DoneInv
<1>9. CASE LoadSilence(s)
  <2>1. /\ load'[s].pc = "delete" /\ load'[s].new = r.new /\ load'[s].todo = r.todo \ {Name(s)}
        /\ UNCHANGED <<conf, reg>> /\ r.pc = "silence" /\ ClearAppender(s, reg[Name(s)])
    BY <1>9, LoaderGoes DEF Goes, LoadSilence, At
  <2>2. Name(s) \in r.todo /\ r.todo \subseteq Defined(conf) \ Defined(r.new)
        /\ reg[Name(s)] = Name(s) /\ Name(s) \in Loggers
    BY <2>1, AtHand, LoadersConfigure DEF DoneInv
  <2>3. Defined(r.new)' = Defined(r.new) /\ Defined(conf)' = Defined(conf)
    BY <2>1 DEF Defined
  <2>4. ASSUME NEW n \in Defined(r.new) PROVE Done(n, r.new[n])'
    <3>1. Done(n, r.new[n]) /\ n # Name(s)
      BY <2>1, <2>2 DEF DoneInv
    <3> QED
      BY <1>0, <1>3, <1>9, <2>1, <3>1 DEF Load
  <2>5. ASSUME NEW n \in (Defined(conf) \ Defined(r.new)) \ (r.todo \ {Name(s)}) PROVE Silent(n)'
    <3>1. CASE n = Name(s)
      <4>1. level'[n] = Off /\ apps'[n] = <<>> /\ reg'[n] = n
        BY <2>1, <2>2, <3>1 DEF WorkInv, ClearAppender, RootInv, RootLists
      <4> QED
        BY <4>1 DEF Silent
    <3>2. CASE n # Name(s)
      <4>1. Silent(n)
        BY <2>1, <3>2 DEF DoneInv
      <4> QED
        BY <1>0, <1>3, <1>9, <2>1, <3>2, <4>1 DEF Load
    <3> QED
      BY <3>1, <3>2
  <2> QED
    BY <2>1, <2>2, <2>3, <2>4, <2>5 DEF DoneInv
<1>10. CASE LoadDeleted(s)
  <2>1. /\ load'[s].pc = "store" /\ load'[s].new = r.new
        /\ UNCHANGED conf /\ r.pc = "delete" /\ r.todo = {}
        /\ ~(LoadLevel(s) \/ LoadClear(s) \/ LoadDelete(s) \/ LoadSilence(s))
    BY <1>10, LoaderGoes DEF Goes, LoadDeleted, LoadLevel, LoadClear, LoadDelete, LoadSilence, At
  <2>2. ASSUME NEW n \in Names, r.new[n] # None PROVE Done(n, r.new[n])'
    <3>1. Done(n, r.new[n])
      BY <2>1, <2>2 DEF DoneInv, Defined
    <3> QED
      BY <1>3, <1>10, <2>1, <3>1 DEF Load
  <2>3. ASSUME NEW n \in Names, conf[n] # None, r.new[n] = None PROVE Silent(n)'
    <3>1. Silent(n)
      BY <2>1, <2>3 DEF DoneInv, Defined
    <3> QED
      BY <1>3, <1>10, <2>1, <3>1 DEF Load
  <2> QED
    BY <2>1, <2>2, <2>3 DEF DoneInv
<1> QED
  BY <1>1, <1>2, <1>4, <1>5, <1>6, <1>7, <1>8, <1>9, <1>10 DEF Load

LEMMA DoneKept ==
  ASSUME NEW s, Loaders = {s}, Inv, LoadTypes, RootInv, AppInv(s), WorkInv(s), DoneInv(s), [Next]_vars
  PROVE  DoneInv(s)'
BY Steps, DoneOutside, DoneLoad

\* A list that is not being built.
Whole(n) == apps[n] = <<>> \/ \E d \in Defs : Built(n, d, Len(d.apps))

LEMMA WholeKept ==
  ASSUME NEW m \in Loggers, RootInv, Same(m) \/ UNCHANGED <<apps, alevel, own>>
  PROVE  Len(apps'[m]) = Len(apps[m]) /\ (Whole(m) => Whole(m)')
<1>1. apps'[m] = apps[m]
  BY DEF Same
<1>2. ASSUME NEW d, NEW k, Built(m, d, k) PROVE Built(m, d, k)'
  <2>1. CASE Same(m)
    BY <1>2, <2>1, SameKeeps
  <2>2. CASE UNCHANGED <<apps, alevel, own>>
    BY <1>2, <2>2 DEF Built
  <2> QED
    BY <2>1, <2>2
<1>3. Whole(m) => Whole(m)'
  BY <1>1, <1>2 DEF Whole
<1> QED
  BY <1>1, <1>3

LEMMA ListOutside ==
  ASSUME NEW s \in Loaders, Inv, LoadTypes, RootInv, AppInv(s), ListInv(s), Outside,
         \/ UNCHANGED lvars
         \/ \E t \in Threads : LStep(t) \/ \E l \in Loggers, v \in Levels : LogCall(t, l, v)
  PROVE  ListInv(s)'
<1>0. /\ UNCHANGED load /\ Name(s)' = Name(s) /\ AppCalls(s) /\ s \in Threads
      /\ Names \subseteq Loggers /\ RootLists /\ MaxApps \in Nat
  BY LoadersConfigure, LoggerAssumption DEF Outside, Name, AppInv, RootInv, LoggerAssumption
<1>1. ASSUME UNCHANGED <<apps, alevel, own>>, Adding(s)' => Adding(s) PROVE ListInv(s)'
  BY <1>0, <1>1, WholeKept DEF ListInv, Whole
<1>2. CASE UNCHANGED lvars
  BY <1>1, <1>2 DEF lvars, Adding
<1>3. ASSUME NEW t \in Threads, LStep(t) \/ \E l \in Loggers, v \in Levels : LogCall(t, l, v)
      PROVE  ListInv(s)'
  <2>1. CASE ~Busy(call[t])
    BY <1>0, <1>1, <1>3, <2>1, CallQuiet DEF Adding, Busy
  <2>2. CASE Busy(call[t])
    <3>1. t = s
      BY <1>0, <2>2 DEF AppCalls
    <3>2. CASE AskAppender(s) \/ SetAppender(s) \/ SetFormatterEnd(s)
      <4>1. UNCHANGED <<apps, alevel, own>> /\ call'[s].pc \in {"test", "set", "idle"}
        BY <1>0, <3>2, AskMoves, SetMoves, EndMoves DEF Idle
      <4> QED
        BY <1>1, <4>1 DEF Adding
    <3>3. CASE PushAppender(s)
      <4>1. /\ UNCHANGED <<alevel, own>> /\ call'[s].pc = "idle"
            /\ call[s].pc \in {"add", "addset"}
            /\ call[s].at \in Names /\ call[s].app \in Appenders
            /\ apps' = [apps EXCEPT ![call[s].at] = Append(apps[call[s].at], call[s].app)]
        BY <1>0, <3>3, PushMoves DEF Idle
      <4>2. call[s].at = Name(s) /\ load[s].pc = "build"
        BY <1>0, <4>1 DEF AppCalls, Busy
      <4>3. Len(apps[Name(s)]) < MaxApps /\ ~Adding(s)'
        BY <4>1 DEF ListInv, Adding
      <4>4. apps'[Name(s)] = Append(apps[Name(s)], call[s].app) /\ apps[Name(s)] \in Seq(Appenders)
        BY <1>0, <4>1, <4>2 DEF RootLists
      <4>5. Len(apps'[Name(s)]) <= MaxApps
        BY <1>0, <4>3, <4>4
      <4>6. ASSUME NEW n \in Names, n # Name(s)
            PROVE  Len(apps'[n]) = Len(apps[n]) /\ (Whole(n) => Whole(n)')
        <5>1. Same(n)
          BY <1>0, <1>3, <4>6, CallSame
        <5> QED
          BY <1>0, <5>1, WholeKept
      <4> QED
        BY <1>0, <4>2, <4>3, <4>5, <4>6 DEF ListInv, Whole
    <3> QED
      BY <1>3, <2>2, <3>1, <3>2, <3>3, LogMoves DEF LStep
  <2> QED
    BY <2>1, <2>2
<1> QED
  BY <1>2, <1>3

LEMMA ListLoad ==
  ASSUME NEW s \in Loaders, Inv, LoadTypes, RootInv, AppInv(s), WorkInv(s), ListInv(s),
         Load(s) \/ \E c \in Confs : LoadBegin(s, c)
  PROVE  ListInv(s)'
<1>0. /\ s \in Threads /\ Names \subseteq Loggers /\ RootLists /\ MaxApps \in Nat
      /\ call \in [Threads -> Call] /\ load[s] \in LoadState /\ load \in [Loaders -> LoadState]
  BY LoadersConfigure, LoggerAssumption DEF RootInv, LoggerAssumption, Inv, Shape, LoadTypes
<1>1. call[s].pc = "idle"
  BY DEF LoadBegin, Load, LoadChanged, LoadUnchanged, LoadLevel, LoadFormat, LoadClear, LoadBuild,
         LoadAttach, LoadBuilt, LoadDefined, LoadDelete, LoadSilence, LoadDeleted, LoadStore, At
<1>2. \A n \in Names : load[s].pc \notin {"build", "attach"} \/ n # Name(s) => Whole(n)
  BY DEF ListInv, Whole
<1>3. ASSUME UNCHANGED <<apps, alevel, own, call>>, load[s].pc \notin {"build", "attach"}
      PROVE  ListInv(s)'
  <2>1. ~Adding(s)'
    BY <1>1, <1>3 DEF Adding
  <2>2. \A n \in Names : Len(apps'[n]) = Len(apps[n]) /\ Whole(n)'
    BY <1>0, <1>2, <1>3, WholeKept
  <2> QED
    BY <2>1, <2>2 DEF ListInv, Whole
<1>4. CASE LoadChanged(s) \/ LoadUnchanged(s) \/ LoadDefined(s) \/ LoadDeleted(s) \/ LoadStore(s)
  BY <1>3, <1>4 DEF LoadChanged, LoadUnchanged, LoadDefined, LoadDeleted, LoadStore, At, lvars
<1>5. CASE LoadLevel(s) \/ LoadDelete(s)
  BY <1>3, <1>5 DEF LoadLevel, LoadDelete, At, SetLevel
<1>6. ASSUME NEW c \in Confs, LoadBegin(s, c) PROVE ListInv(s)'
  BY <1>3, <1>6 DEF LoadBegin, At, lvars
<1>7. CASE LoadFormat(s)
  <2>1. UNCHANGED <<apps, alevel, own>> /\ load[s].pc = "format" /\ call'[s].pc = "test"
    BY <1>0, <1>7 DEF LoadFormat, At, SetFormatter, Idle
  <2>2. \A n \in Names : Len(apps'[n]) = Len(apps[n]) /\ Whole(n)'
    BY <1>0, <1>2, <2>1, WholeKept
  <2> QED
    BY <2>1, <2>2 DEF ListInv, Whole, Adding
<1>8. CASE LoadClear(s) \/ LoadSilence(s)
  <2>1. /\ load[s].pc \in {"clear", "silence"} /\ ClearAppender(s, reg[Name(s)])
    BY <1>8 DEF LoadClear, LoadSilence, At
  <2>2. reg[Name(s)] = Name(s) /\ Name(s) \in Loggers
    BY <2>1, AtHand, LoadersConfigure
  <2>3. UNCHANGED <<alevel, own, call>> /\ apps'[Name(s)] = <<>>
        /\ \A n \in Loggers : n # Name(s) => apps'[n] = apps[n]
    BY <1>0, <2>1, <2>2 DEF ClearAppender, RootLists
  <2>4. ASSUME NEW n \in Names PROVE Len(apps'[n]) <= MaxApps /\ Whole(n)'
    <3>1. CASE n = Name(s)
      <4>1. Len(apps'[n]) = 0
        BY <2>3, <3>1
      <4> QED
        BY <1>0, <2>3, <3>1, <4>1 DEF Whole
    <3>2. CASE n # Name(s)
      BY <1>0, <1>2, <2>3, <3>2 DEF Whole, Built, ListInv
    <3> QED
      BY <3>1, <3>2
  <2> QED
    BY <1>1, <2>3, <2>4 DEF ListInv, Whole, Adding
<1>9. CASE LoadBuild(s) \/ LoadAttach(s)
  <2>1. /\ load[s].pc \in {"build", "attach"} /\ load'[s].pc \in {"build", "attach"}
        /\ Name(s)' = Name(s)
        /\ ~(LoadLevel(s) \/ LoadClear(s) \/ LoadDelete(s) \/ LoadSilence(s))
    <3>1. CASE LoadBuild(s)
      BY <1>0, <3>1 DEF LoadBuild, At, LoadState, Name, LoadLevel, LoadClear, LoadDelete, LoadSilence
    <3>2. CASE LoadAttach(s)
      BY <3>2, LoaderGoes DEF Goes, LoadAttach, At, Name, LoadLevel, LoadClear, LoadDelete, LoadSilence
    <3> QED
      BY <1>9, <3>1, <3>2
  <2>2. ASSUME NEW n \in Names PROVE Len(apps'[n]) = Len(apps[n]) /\ (Whole(n) => Whole(n)')
    <3>1. Same(n)
      BY <1>0, <1>9, <2>1, LoadSame DEF Load
    <3> QED
      BY <1>0, <3>1, WholeKept
  <2>3. Adding(s)' => Len(apps'[Name(s)]) < MaxApps
    <3>1. CASE LoadBuild(s)
      BY <1>1, <3>1 DEF LoadBuild, Adding
    <3>2. CASE LoadAttach(s)
      <4>1. reg[Name(s)] = Name(s)
        BY <2>1, AtHand
      <4> QED
        BY <3>2, <4>1 DEF LoadAttach, AddAppender
    <3> QED
      BY <1>9, <3>1, <3>2
  <2> QED
    BY <1>2, <2>1, <2>2, <2>3 DEF ListInv, Whole
<1>10. CASE LoadBuilt(s)
  <2>1. UNCHANGED <<apps, alevel, own, call>> /\ load[s].pc = "build"
    BY <1>10 DEF LoadBuilt, At, lvars
  <2>2. Whole(Name(s))
    <3>1. Built(Name(s), Def(s), Len(Def(s).apps)) /\ Def(s) \in Defs
      BY <1>10, <2>1, BuiltIsDone, DefAtHand DEF Done, Matches
    <3> QED
      BY <3>1 DEF Whole
  <2>3. \A n \in Names : Len(apps'[n]) = Len(apps[n]) /\ Whole(n)'
    BY <1>0, <1>2, <2>1, <2>2, WholeKept
  <2> QED
    BY <1>1, <2>1, <2>3 DEF ListInv, Whole, Adding
<1> QED
  BY <1>4, <1>5, <1>6, <1>7, <1>8, <1>9, <1>10 DEF Load

LEMMA ListKept ==
  ASSUME NEW s, Loaders = {s}, Inv, LoadTypes, RootInv, AppInv(s), WorkInv(s), ListInv(s), [Next]_vars
  PROVE  ListInv(s)'
BY Steps, ListOutside, ListLoad

\* All that holds of the loggers while one thread loads.
OneLoader(s) ==
  Inv /\ LoadTypes /\ RootInv /\ AppInv(s) /\ WorkInv(s) /\ DoneInv(s) /\ ListInv(s)

LEMMA OneLoaderInv ==
  ASSUME NEW s, Loaders = {s}
  PROVE  Spec => []OneLoader(s)
<1>1. Init => AppInv(s) /\ WorkInv(s) /\ DoneInv(s) /\ ListInv(s)
  <2> SUFFICES ASSUME Init PROVE AppInv(s) /\ WorkInv(s) /\ DoneInv(s) /\ ListInv(s)
    OBVIOUS
  <2>1. load[s] = NoLoad /\ \A t \in Threads : call[t].pc = "idle"
    BY DEF Init, LInit, Idle
  <2>2. s \in Threads
    BY LoadersConfigure
  <2>3. AppInv(s)
    <3>2. AppTypes
      BY LoggerAssumption DEF Init, LInit, AppTypes, LoggerAssumption
    <3>3. Disjoint
      BY DEF Init, LInit, Disjoint, Listed
    <3>4. AppCalls(s)
      BY <2>1, <2>2 DEF AppCalls, Busy, NoLoad
    <3> QED
      BY <3>2, <3>3, <3>4 DEF AppInv
  <2>4. WorkInv(s) /\ DoneInv(s)
    BY <2>1 DEF WorkInv, DoneInv, NoLoad
  <2>5. ListInv(s)
    <3>1. \A n \in Names : apps[n] = <<>>
      BY LoadersConfigure DEF Init, LInit
    <3>2. Len(<<>>) = 0 /\ MaxApps \in Nat
      BY LoggerAssumption DEF LoggerAssumption
    <3> QED
      BY <2>1, <2>2, <3>1, <3>2 DEF ListInv, Adding
  <2> QED
    BY <2>3, <2>4, <2>5
<1>2. AppInv(s) /\ WorkInv(s) /\ DoneInv(s) /\ ListInv(s) /\ Inv /\ LoadTypes /\ RootInv
        /\ [Next]_vars => (AppInv(s) /\ WorkInv(s) /\ DoneInv(s) /\ ListInv(s))'
  BY AppKept, WorkKept, DoneKept, ListKept
<1> QED
  BY <1>1, <1>2, LoadInvHolds, PTL DEF Spec, OneLoader

\* Whatever moment a message is logged in while one thread loads, it never meets
\* appenders of two definitions (log.cpp:617-633, 639-640).
THEOREM NeverMixed ==
  ASSUME NEW s, Loaders = {s}
  PROVE  Spec => []NoMixture
<1>1. ASSUME OneLoader(s) PROVE NoMixture
  <2> SUFFICES ASSUME NEW n \in Names, reg[n] # None, apps[n] # <<>>, ~Whole(n)
               PROVE  \E k \in 1 .. MaxApps :
                        load[s].pc # "idle" /\ load[s].new[n] # None /\ Built(n, load[s].new[n], k)
    <3>1. \A n \in Names : reg[n] # None => reg[n] = n
      BY <1>1 DEF OneLoader, LoadTypes
    <3> QED
      BY <3>1 DEF NoMixture, Whole
  <2>1. /\ load[s].pc \in {"build", "attach"} /\ n = Name(s) /\ Len(apps[n]) <= MaxApps
        /\ MaxApps \in Nat /\ load[s].pos \in Nat /\ n \in Loggers
    BY <1>1, LoggerAssumption, LoadersConfigure
       DEF OneLoader, ListInv, Whole, LoggerAssumption, LoadTypes, LoadState
  <2>2. Def(s) \in Defs /\ Def(s) = load[s].new[n] /\ Def(s) # None
    BY <1>1, <2>1, DefAtHand, LoadersConfigure DEF OneLoader, Def
  <2>3. Len(apps[n]) \in Nat /\ Len(apps[n]) # 0
    BY <1>1, <2>1 DEF OneLoader, RootInv, RootLists
  <2>4. Built(n, Def(s), Len(apps[n]))
    <3>1. \E k \in {load[s].pos - 1, load[s].pos - 2} : Built(n, Def(s), k)
      BY <1>1, <2>1 DEF OneLoader, WorkInv
    <3> QED
      BY <3>1 DEF Built
  <2>5. Len(apps[n]) \in 1 .. MaxApps
    BY <2>1, <2>3
  <2> QED
    BY <2>1, <2>2, <2>4, <2>5
<1> QED
  BY <1>1, OneLoaderInv, PTL

\* When one thread loads, the definitions up to the first unchanged one are
\* carried over when the configuration is stored, and if there is none, so are
\* the deletions (log.cpp:597-642, config.hpp:273-283).
THEOREM AppliedUpTo ==
  ASSUME NEW s, Loaders = {s}
  PROVE  Spec => AppliedUpToUnchanged
<1> DEFINE Applied(i) ==
      LET n == NameSeq[i]
          changed(j) == conf'[NameSeq[j]] = None \/ conf'[NameSeq[j]] # conf[NameSeq[j]]
      IN
      /\ conf'[n] # None /\ (\A j \in 1 .. i : changed(j)) =>
           reg[n] # None /\ Matches(reg[n], conf'[n])
      /\ conf[n] # None /\ conf'[n] = None /\ (\A j \in DOMAIN NameSeq : changed(j)) =>
           level[reg[n]] = Off /\ apps[reg[n]] = <<>>
<1>1. ASSUME OneLoader(s), [Next]_vars, conf' # conf, NEW i \in DOMAIN NameSeq
      PROVE  Applied(i)
  <2>1. LoadStore(s)
    BY <1>1 DEF Next, Load, LoadBegin, LoadChanged, LoadUnchanged, LoadLevel, LoadFormat, LoadClear,
         LoadBuild, LoadAttach, LoadBuilt, LoadDefined, LoadDelete, LoadSilence, LoadDeleted,
         Log, Register, vars
  <2>2. load[s].pc = "store" /\ conf' = load[s].new
    BY <2>1 DEF LoadStore, At
  <2> DEFINE n == NameSeq[i]
  <2>3. n \in Names /\ Rank(n) = i /\ i \in Nat /\ n # None
    <3>1. NameSeq \in Seq(Names) /\ \A j, k \in DOMAIN NameSeq : NameSeq[j] = NameSeq[k] => j = k
      BY LogConfigAssumption DEF LogConfigAssumption
    <3>2. n \in Names /\ i \in Nat
      BY <3>1
    <3>3. Rank(n) \in DOMAIN NameSeq /\ NameSeq[Rank(n)] = n
      BY <3>2, RankOf
    <3> QED
      BY <3>1, <3>2, <3>3, LoadersConfigure
  <2>4. ASSUME NEW m \in Names
        PROVE  /\ Rank(m) \in DOMAIN NameSeq /\ NameSeq[Rank(m)] = m
               /\ (Rank(m) <= i => Rank(m) \in 1 .. i)
    <3>1. NameSeq \in Seq(Names)
      BY LogConfigAssumption DEF LogConfigAssumption
    <3>2. Rank(m) \in DOMAIN NameSeq /\ NameSeq[Rank(m)] = m
      BY RankOf
    <3> QED
      BY <2>3, <3>1, <3>2
  <2>5. /\ conf'[n] # None /\ (\A m \in Names : Rank(m) <= Rank(n) => Changed(conf', m)) =>
             Done(n, conf'[n])
        /\ conf[n] # None /\ conf'[n] = None /\ (\A m \in Names : Changed(conf', m)) => Silent(n)
    BY <1>1, <2>2, <2>3 DEF OneLoader, DoneInv
  <2> HIDE DEF n
  <2>6. ASSUME conf'[n] # None,
               \A j \in 1 .. i : conf'[NameSeq[j]] = None \/ conf'[NameSeq[j]] # conf[NameSeq[j]]
        PROVE  reg[n] # None /\ Matches(reg[n], conf'[n])
    BY <2>3, <2>4, <2>5, <2>6 DEF Changed, Done
  <2>7. ASSUME conf[n] # None, conf'[n] = None,
               \A j \in DOMAIN NameSeq :
                 conf'[NameSeq[j]] = None \/ conf'[NameSeq[j]] # conf[NameSeq[j]]
        PROVE  level[reg[n]] = Off /\ apps[reg[n]] = <<>>
    BY <2>3, <2>4, <2>5, <2>7 DEF Changed, Silent
  <2> QED
    BY <2>6, <2>7 DEF n
<1>2. OneLoader(s) /\ [Next]_vars => [conf' # conf => \A i \in DOMAIN NameSeq : Applied(i)]_vars
  BY <1>1
<1> QED
  BY <1>2, OneLoaderInv, PTL DEF Spec, AppliedUpToUnchanged
=============================================================================
