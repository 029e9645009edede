-------------------------- MODULE ConfigVarProofs --------------------------
(* Proofs about ConfigVar, for any threads, ConfigVars, values and bounds. *)
EXTENDS ConfigVar, TLAPS

\* The updates of a thread's locals that the steps of a call make keep their type.
LEMMA CallUpdate ==
  ASSUME NEW c \in Call
  PROVE  /\ \A S \in SUBSET Keys : [c EXCEPT !.todo = S] \in Call
         /\ [c EXCEPT !.pc = "store"] \in Call
         /\ \A n \in Nat : [c EXCEPT !.pc = "bump", !.tmp = n] \in Call
<1>1. \A S \in SUBSET Keys : [c EXCEPT !.todo = S] \in Call
  BY DEF Call
<1>2. [c EXCEPT !.pc = "store"] \in Call
  BY DEF Call
<1>3. \A n \in Nat : [c EXCEPT !.pc = "bump", !.tmp = n] \in Call
  BY DEF Call
<1> QED
  BY <1>1, <1>2, <1>3

\* Every reachable state is well typed: in particular a thread inside a call
\* has the locals that call needs (config.hpp:273-291).
THEOREM TypeCorrect == Spec => []TypeOK
<1> USE ConstantsAssumption
<1>1. Init => TypeOK
  BY DEF Init, TypeOK, Call, Idle, Keys, Types
<1>2. TypeOK /\ [Next]_vars => TypeOK'
  <2> SUFFICES ASSUME TypeOK, [Next]_vars PROVE TypeOK'
    OBVIOUS
  <2> USE DEF TypeOK
  <2>1. ASSUME NEW t \in Threads, Step(t) PROVE TypeOK'
    <3>0. call[t] \in Call
      OBVIOUS
    <3>1. CASE Notify(t)
      <4>1. PICK k \in call[t].todo : CallListener(t, k) /\ call' = [call EXCEPT ![t].todo = @ \ {k}]
        BY <3>1 DEF Notify
      <4>2. call[t].todo \ {k} \in SUBSET Keys
        BY <3>0 DEF Call
      <4>3. call' \in [Threads -> Call]
        BY <3>0, <4>1, <4>2, CallUpdate
      <4>4. told' \in [Vars -> [Keys -> Change \cup {None}]]
        BY <4>1 DEF Call, CallListener, Change
      <4> QED
        BY <3>1, <4>1, <4>3, <4>4 DEF Notify
    <3>2. CASE ListenerThrows(t)
      BY <3>2 DEF ListenerThrows, CallListener, Unread, Call, Change, Event, Idle
    <3>3. CASE SetLeave(t)
      <4>1. call' \in [Threads -> Call]
        BY <3>0, <3>3, CallUpdate DEF SetLeave
      <4> QED
        BY <3>3, <4>1 DEF SetLeave, Unread
    <3>4. CASE SetStore(t)
      BY <3>4 DEF SetStore, Call, Idle
    <3>5. CASE AddRead(t)
      <4>1. key[TypeOf[call[t].var]] \in Nat
        BY <3>5 DEF AddRead, Types
      <4>2. call' \in [Threads -> Call]
        BY <3>0, <3>5, <4>1, CallUpdate DEF AddRead
      <4> QED
        BY <3>5, <4>2 DEF AddRead
    <3>6. CASE AddReturn(t)
      BY <3>6 DEF AddReturn, Call, Idle, Types, Handle
    <3> QED
      BY <2>1, <3>1, <3>2, <3>3, <3>4, <3>5, <3>6 DEF Step
  <2>2. ASSUME NEW t \in Threads, NEW x \in Vars, NEW v \in Values, SetEnter(t, x, v)
        PROVE TypeOK'
    <3>1. [Idle EXCEPT !.pc = "notify", !.var = x, !.new = v, !.todo = Registered(x)] \in Call
      BY DEF Idle, Call, Registered
    <3>2. ops' \in [Threads -> 0 .. MaxOps]
      BY <2>2 DEF SetEnter, Begin
    <3>3. \A u \in Threads : u = t \/ call'[u] = call[u]
      BY <2>2 DEF SetEnter
    <3>4. call'[t].pc = "notify" /\ call'[t].var = x /\ call'[t].new = v
      BY <2>2 DEF SetEnter, Idle
    <3>5. events' \in [Vars -> SUBSET Event]
      BY <2>2 DEF SetEnter, Event
    <3>6. call' \in [Threads -> Call]
      BY <2>2, <3>1 DEF SetEnter
    <3>7. \A u \in Threads :
            /\ call'[u].pc # "idle" => call'[u].var \in Vars
            /\ call'[u].pc \in {"notify", "store"} => call'[u].new \in Values
            /\ call'[u].pc \in {"add", "bump"} => call'[u].cb \in Callbacks
      BY <3>3, <3>4
    <3> QED
      BY <2>2, <3>2, <3>5, <3>6, <3>7 DEF SetEnter
  <2>3. ASSUME NEW t \in Threads, NEW x \in Vars, NEW cb \in Callbacks, AddEnter(t, x, cb)
        PROVE TypeOK'
    <3>1. [Idle EXCEPT !.pc = "add", !.var = x, !.cb = cb] \in Call
      BY DEF Idle, Call
    <3>2. ops' \in [Threads -> 0 .. MaxOps]
      BY <2>3 DEF AddEnter, Begin
    <3>3. \A u \in Threads : u = t \/ call'[u] = call[u]
      BY <2>3 DEF AddEnter
    <3>4. call'[t].pc = "add" /\ call'[t].var = x /\ call'[t].cb = cb
      BY <2>3 DEF AddEnter, Idle
    <3>5. events' \in [Vars -> SUBSET Event]
      BY <2>3 DEF AddEnter, Event
    <3>6. call' \in [Threads -> Call]
      BY <2>3, <3>1 DEF AddEnter
    <3>7. \A u \in Threads :
            /\ call'[u].pc # "idle" => call'[u].var \in Vars
            /\ call'[u].pc \in {"notify", "store"} => call'[u].new \in Values
            /\ call'[u].pc \in {"add", "bump"} => call'[u].cb \in Callbacks
      BY <3>3, <3>4
    <3>8. torn' \in SUBSET Types
      BY <2>3 DEF AddEnter, Types
    <3> QED
      BY <2>3, <3>2, <3>5, <3>6, <3>7, <3>8 DEF AddEnter
  <2>4. ASSUME NEW t \in Threads, NEW h \in handles, DelListener(t, h)
        PROVE TypeOK'
    BY <2>4 DEF DelListener, Handle
  <2>5. ASSUME NEW t \in Threads, NEW x \in Vars, ClearListener(t, x)
        PROVE TypeOK'
    BY <2>5 DEF ClearListener
  <2>6. CASE UNCHANGED vars
    BY <2>6 DEF vars
  <2> QED
    BY <2>1, <2>2, <2>3, <2>4, <2>5, <2>6 DEF Next
<1> QED
  BY <1>1, <1>2, PTL DEF Spec

----------------------------------------------------------------------------
\* The lock variables say which threads are inside which critical section.
LockInv ==
  \A x \in Vars :
    /\ writer[x] # None => readers[x] = {}
    /\ \A t \in Threads : /\ t \in readers[x] <=> Busy(t, x, {"notify"})
                          /\ writer[x] = t <=> Busy(t, x, {"add", "bump"})

\* The lock variables and the threads' positions agree (thread.hpp:56-108).
THEOREM LockCorrect == Spec => []LockInv
<1> USE ConstantsAssumption
<1>1. Init => LockInv
  BY DEF Init, LockInv, Busy, Idle
<1>2. TypeOK /\ LockInv /\ [Next]_vars => LockInv'
  <2> SUFFICES ASSUME TypeOK, LockInv, [Next]_vars PROVE LockInv'
    OBVIOUS
  <2> USE DEF TypeOK, LockInv, Busy
  <2>1. ASSUME NEW t \in Threads, Step(t) PROVE LockInv'
    <3>1. CASE Notify(t)
      BY <3>1 DEF Notify, CallListener, Call
    <3>2. CASE ListenerThrows(t)
      BY <3>2 DEF ListenerThrows, CallListener, Unread, Call, Idle
    <3>3. CASE SetLeave(t)
      BY <3>3 DEF SetLeave, Unread, Call
    <3>4. CASE SetStore(t)
      BY <3>4 DEF SetStore, Call, Idle
    <3>5. CASE AddRead(t)
      BY <3>5 DEF AddRead, Call
    <3>6. CASE AddReturn(t)
      BY <3>6 DEF AddReturn, Call, Idle
    <3> QED
      BY <2>1, <3>1, <3>2, <3>3, <3>4, <3>5, <3>6 DEF Step
  <2>2. ASSUME NEW t \in Threads, NEW x \in Vars, NEW v \in Values, SetEnter(t, x, v)
        PROVE LockInv'
    BY <2>2 DEF SetEnter, Begin, CanRead, Call, Idle
  <2>3. ASSUME NEW t \in Threads, NEW x \in Vars, NEW cb \in Callbacks, AddEnter(t, x, cb)
        PROVE LockInv'
    BY <2>3 DEF AddEnter, Begin, CanWrite, Call, Idle
  <2>4. ASSUME NEW t \in Threads, NEW h \in handles, DelListener(t, h)
        PROVE LockInv'
    BY <2>4 DEF DelListener
  <2>5. ASSUME NEW t \in Threads, NEW x \in Vars, ClearListener(t, x)
        PROVE LockInv'
    BY <2>5 DEF ClearListener
  <2>6. CASE UNCHANGED vars
    BY <2>6 DEF vars
  <2> QED
    BY <2>1, <2>2, <2>3, <2>4, <2>5, <2>6 DEF Next
<1> QED
  BY <1>1, <1>2, TypeCorrect, PTL DEF Spec

\* The loop over the listeners is undisturbed, whatever the other threads do.
THEOREM LoopUndisturbed == Spec => IterationStable
<1> DEFINE Stable == \A t \in Threads, x \in Vars :
             Busy(t, x, {"notify"}) => val'[x] = val[x] /\ cbs'[x] = cbs[x]
<1>1. TypeOK /\ LockInv /\ [Next]_vars => [Stable]_vars
  <2> SUFFICES ASSUME TypeOK, LockInv, Next,
                      NEW u \in Threads, NEW y \in Vars, Busy(u, y, {"notify"})
               PROVE  val'[y] = val[y] /\ cbs'[y] = cbs[y]
    OBVIOUS
  <2>0. readers[y] # {} /\ ~CanWrite(y)
    BY DEF LockInv, CanWrite
  <2> USE DEF TypeOK
  <2>1. ASSUME NEW t \in Threads, Step(t) PROVE val'[y] = val[y] /\ cbs'[y] = cbs[y]
    BY <2>0, <2>1 DEF Step, Notify, ListenerThrows, SetLeave, SetStore, AddRead, AddReturn
  <2>2. ASSUME NEW t \in Threads, NEW x \in Vars, NEW v \in Values, SetEnter(t, x, v)
        PROVE val'[y] = val[y] /\ cbs'[y] = cbs[y]
    BY <2>2 DEF SetEnter
  <2>3. ASSUME NEW t \in Threads, NEW x \in Vars, NEW cb \in Callbacks, AddEnter(t, x, cb)
        PROVE val'[y] = val[y] /\ cbs'[y] = cbs[y]
    BY <2>0, <2>3 DEF AddEnter
  <2>4. ASSUME NEW t \in Threads, NEW h \in handles, DelListener(t, h)
        PROVE val'[y] = val[y] /\ cbs'[y] = cbs[y]
    BY <2>0, <2>4 DEF DelListener
  <2>5. ASSUME NEW t \in Threads, NEW x \in Vars, ClearListener(t, x)
        PROVE val'[y] = val[y] /\ cbs'[y] = cbs[y]
    BY <2>0, <2>5 DEF ClearListener
  <2> QED
    BY <2>1, <2>2, <2>3, <2>4, <2>5 DEF Next
<1> QED
  BY <1>1, TypeCorrect, LockCorrect, PTL DEF Spec, IterationStable

----------------------------------------------------------------------------
\* Until two addListener calls of a type overlap, there is one at a time.
SoleAdder ==
  \A t, u \in Threads, x, y \in Vars :
    Busy(t, x, {"add", "bump"}) /\ Busy(u, y, {"add", "bump"}) /\ TypeOf[x] = TypeOf[y] =>
      t = u \/ TypeOf[x] \in torn

\* Keys in use lie below the counter, except the one an addListener that has
\* not returned has just stored its callback under.
KeyInv ==
  /\ \A x \in Vars, t \in Threads : TypeOf[x] \notin torn =>
       /\ Busy(t, x, {"add", "bump"}) => /\ key[TypeOf[x]] \in Keys
                                         /\ cbs[x][key[TypeOf[x]]] = call[t].cb
       /\ Busy(t, x, {"bump"}) => call[t].tmp = key[TypeOf[x]]
  /\ \A h \in handles : TypeOf[h.var] \notin torn => h.key < key[TypeOf[h.var]]
  /\ HandleFindsListener

\* As long as no two addListener calls on variables of a type have overlapped,
\* one addListener of that type is under way at a time.
LEMMA AddersAlone == Spec => []SoleAdder
<1> USE ConstantsAssumption
<1>1. Init => SoleAdder
  BY DEF Init, SoleAdder, Busy, Idle
<1>2. TypeOK /\ SoleAdder /\ [Next]_vars => SoleAdder'
  <2> SUFFICES ASSUME TypeOK, SoleAdder, [Next]_vars PROVE SoleAdder'
    OBVIOUS
  <2>0. ASSUME torn' = torn,
               \A u \in Threads, y \in Vars : Busy(u, y, {"add", "bump"})' => Busy(u, y, {"add", "bump"})
        PROVE  SoleAdder'
    BY <2>0 DEF SoleAdder
  <2> USE DEF TypeOK, Busy
  <2>1. ASSUME NEW t \in Threads, Step(t) PROVE SoleAdder'
    <3>0. call[t] \in Call
      OBVIOUS
    <3>1. CASE Notify(t)
      BY <2>0, <3>0, <3>1 DEF Notify, CallListener, Call
    <3>2. CASE ListenerThrows(t)
      BY <2>0, <3>2 DEF ListenerThrows, Idle
    <3>3. CASE SetLeave(t)
      BY <2>0, <3>0, <3>3 DEF SetLeave, Call
    <3>4. CASE SetStore(t)
      BY <2>0, <3>4 DEF SetStore, Idle
    <3>5. CASE AddRead(t)
      BY <2>0, <3>0, <3>5 DEF AddRead, Call
    <3>6. CASE AddReturn(t)
      BY <2>0, <3>6 DEF AddReturn, Idle
    <3> QED
      BY <2>1, <3>1, <3>2, <3>3, <3>4, <3>5, <3>6 DEF Step
  <2>2. ASSUME NEW t \in Threads, NEW x \in Vars, NEW v \in Values, SetEnter(t, x, v)
        PROVE SoleAdder'
    BY <2>0, <2>2 DEF SetEnter, Idle
  <2>3. ASSUME NEW t \in Threads, NEW x \in Vars, NEW cb \in Callbacks, AddEnter(t, x, cb)
        PROVE SoleAdder'
    <3>1. call'[t].pc = "add" /\ call'[t].var = x /\ call[t].pc = "idle"
      BY <2>3 DEF AddEnter, Begin, Idle
    <3>2. \A u \in Threads : u # t => call'[u] = call[u]
      BY <2>3 DEF AddEnter
    <3>3. torn' = IF Adding(TypeOf[x]) THEN torn \cup {TypeOf[x]} ELSE torn
      BY <2>3 DEF AddEnter
    <3>4. \A u \in Threads, y \in Vars :
            u # t /\ Busy(u, y, {"add", "bump"})' /\ TypeOf[y] = TypeOf[x] => TypeOf[x] \in torn'
      BY <3>2, <3>3 DEF Adding
    <3> SUFFICES ASSUME NEW u \in Threads, NEW w \in Threads, NEW y \in Vars, NEW z \in Vars,
                        Busy(u, y, {"add", "bump"})', Busy(w, z, {"add", "bump"})',
                        TypeOf[y] = TypeOf[z]
                 PROVE  u = w \/ TypeOf[y] \in torn'
      BY DEF SoleAdder
    <3>5. CASE u = t
      BY <3>1, <3>4, <3>5
    <3>6. CASE w = t
      BY <3>1, <3>4, <3>6
    <3>7. CASE u # t /\ w # t
      <4>1. Busy(u, y, {"add", "bump"}) /\ Busy(w, z, {"add", "bump"})
        BY <3>2, <3>7
      <4> QED
        BY <3>3, <4>1 DEF SoleAdder
    <3> QED
      BY <3>5, <3>6, <3>7
  <2>4. ASSUME NEW t \in Threads, NEW h \in handles, DelListener(t, h) PROVE SoleAdder'
    BY <2>0, <2>4 DEF DelListener
  <2>5. ASSUME NEW t \in Threads, NEW x \in Vars, ClearListener(t, x) PROVE SoleAdder'
    BY <2>0, <2>5 DEF ClearListener
  <2>6. CASE UNCHANGED vars
    BY <2>0, <2>6 DEF vars
  <2> QED
    BY <2>1, <2>2, <2>3, <2>4, <2>5, <2>6 DEF Next
<1> QED
  BY <1>1, <1>2, TypeCorrect, PTL DEF Spec

\* Although all variables of a type draw their keys from one counter, a key
\* leads to the listener it was handed out for as long as no two addListener
\* calls on variables of that type have overlapped (config.hpp:286-291).
THEOREM HandlesValid == Spec => []HandleFindsListener
<1> USE ConstantsAssumption
<1>1. Init => KeyInv
  BY DEF Init, KeyInv, HandleFindsListener, Busy, Idle
<1>2. TypeOK /\ LockInv /\ SoleAdder /\ KeyInv /\ [Next]_vars => KeyInv'
  <2> SUFFICES ASSUME TypeOK, LockInv, SoleAdder, KeyInv, [Next]_vars PROVE KeyInv'
    OBVIOUS
  <2> USE DEF TypeOK, LockInv, KeyInv, HandleFindsListener, Busy, Types, Handle
  <2>1. ASSUME NEW t \in Threads, Step(t) PROVE KeyInv'
    <3>0. ASSUME UNCHANGED <<key, cbs, handles, torn>>, call'[t].pc \notin {"add", "bump"},
                 \A u \in Threads \ {t} : call'[u] = call[u]
          PROVE  KeyInv'
      <4>1. \A u \in Threads, x \in Vars : Busy(u, x, {"add", "bump"})' =>
              call'[u] = call[u] /\ Busy(u, x, {"add", "bump"})
        BY <3>0
      <4>2. \A u \in Threads, x \in Vars : Busy(u, x, {"bump"})' =>
              call'[u] = call[u] /\ Busy(u, x, {"bump"})
        BY <3>0
      <4> HIDE DEF TypeOK, LockInv, Busy, Types, Handle
      <4> QED
        BY <3>0, <4>1, <4>2
    <3>1. CASE Notify(t)
      <4> HIDE DEF KeyInv, LockInv, HandleFindsListener
      <4> QED
        BY <3>0, <3>1 DEF Notify, CallListener, Call
    <3>2. CASE ListenerThrows(t)
      <4> HIDE DEF KeyInv, LockInv, HandleFindsListener
      <4> QED
        BY <3>0, <3>2 DEF ListenerThrows, CallListener, Call, Idle
    <3>3. CASE SetLeave(t)
      <4> HIDE DEF KeyInv, LockInv, HandleFindsListener
      <4> QED
        BY <3>0, <3>3 DEF SetLeave, Call
    <3>4. CASE SetStore(t)
      <4> HIDE DEF KeyInv, LockInv, HandleFindsListener
      <4> QED
        BY <3>0, <3>4 DEF SetStore, Call, Idle
    <3>5. CASE AddRead(t)
      BY <3>5 DEF AddRead, Call
    <3>6. CASE AddReturn(t)
      <4> DEFINE x == call[t].var
                 n == [var |-> x, key |-> call[t].tmp, cb |-> call[t].cb]
      <4>0. call[t].tmp \in Nat
        <5>1. call[t] \in Call
          OBVIOUS
        <5> QED
          BY <5>1 DEF Call
      <4>1. x \in Vars /\ Busy(t, x, {"bump"}) /\ Busy(t, x, {"add", "bump"}) /\ call[t].tmp \in Nat
        BY <3>6, <4>0 DEF AddReturn
      <4>2. /\ key' = [key EXCEPT ![TypeOf[x]] = call[t].tmp + 1]
            /\ cbs' = cbs /\ torn' = torn /\ handles' = handles \cup {n}
        BY <3>6 DEF AddReturn
      <4>3. n.key = call[t].tmp /\ n.var = x /\ n.cb = call[t].cb
        OBVIOUS
      <4>4. TypeOf[x] \in Types /\ key'[TypeOf[x]] = call[t].tmp + 1
        BY <4>1, <4>2
      <4>5. ASSUME TypeOf[x] \notin torn
            PROVE  /\ call[t].tmp = key[TypeOf[x]] /\ n.key \in Keys /\ cbs[x][n.key] = n.cb
        <5>1. call[t].tmp = key[TypeOf[x]] /\ key[TypeOf[x]] \in Keys /\ cbs[x][key[TypeOf[x]]] = call[t].cb
          BY <4>1, <4>5
        <5> HIDE DEF n
        <5> QED
          BY <4>3, <5>1
      <4>6. ASSUME NEW h \in handles', TypeOf[h.var] \notin torn'
            PROVE  /\ h.key < key'[TypeOf[h.var]]
                   /\ h.key \in Keys /\ cbs'[h.var][h.key] = h.cb
        <5>1. CASE h = n
          <6> HIDE DEF n
          <6> QED
            BY <4>1, <4>2, <4>3, <4>4, <4>5, <4>6, <5>1
        <5>2. CASE h \in handles
          <6>1. h.key \in Nat /\ TypeOf[h.var] \in Types /\ h.key < key[TypeOf[h.var]]
            BY <4>2, <4>6, <5>2
          <6>2. CASE TypeOf[h.var] = TypeOf[x]
            <7>1. call[t].tmp = key[TypeOf[h.var]] /\ key'[TypeOf[h.var]] = call[t].tmp + 1
              BY <4>2, <4>4, <4>5, <4>6, <6>2
            <7> HIDE DEF x, n, Types, TypeOK, KeyInv, LockInv, SoleAdder, HandleFindsListener, Handle
            <7>2. h.key < key'[TypeOf[h.var]]
              BY <4>1, <6>1, <7>1
            <7> QED
              BY <4>2, <4>6, <5>2, <7>2 DEF KeyInv, HandleFindsListener
          <6>3. CASE TypeOf[h.var] # TypeOf[x]
            <7>1. key'[TypeOf[h.var]] = key[TypeOf[h.var]]
              BY <4>2, <6>1, <6>3
            <7> QED
              BY <4>2, <4>6, <5>2, <6>1, <7>1
          <6> QED
            BY <6>2, <6>3
        <5> QED
          BY <4>2, <5>1, <5>2
      <4>7. ASSUME NEW y \in Vars, NEW u \in Threads, TypeOf[y] \notin torn',
                   Busy(u, y, {"add", "bump"})'
            PROVE  /\ key'[TypeOf[y]] \in Keys /\ cbs'[y][key'[TypeOf[y]]] = call'[u].cb
                   /\ Busy(u, y, {"bump"})' => call'[u].tmp = key'[TypeOf[y]]
        <5>1. call' = [call EXCEPT ![t] = Idle]
          BY <3>6 DEF AddReturn
        <5>2. u # t /\ call'[u] = call[u]
          BY <4>7, <5>1 DEF Idle
        <5>3. Busy(u, y, {"add", "bump"})
          BY <4>7, <5>2
        <5>4. TypeOf[y] # TypeOf[x]
          <6>1. TypeOf[y] \notin torn /\ u # t
            BY <4>2, <4>7, <5>2
          <6> HIDE DEF x, n, Types, TypeOK, KeyInv, LockInv, HandleFindsListener, Handle, Busy
          <6> QED
            BY <4>1, <5>3, <6>1 DEF SoleAdder
        <5>5. key'[TypeOf[y]] = key[TypeOf[y]]
          BY <4>2, <5>4
        <5> QED
          BY <4>2, <4>7, <5>2, <5>3, <5>5
      <4>8. \A y \in Vars, u \in Threads : Busy(u, y, {"bump"})' => Busy(u, y, {"add", "bump"})'
        OBVIOUS
      <4> QED
        BY <4>6, <4>7, <4>8
    <3> QED
      BY <2>1, <3>1, <3>2, <3>3, <3>4, <3>5, <3>6 DEF Step
  <2>2. ASSUME NEW t \in Threads, NEW x \in Vars, NEW v \in Values, SetEnter(t, x, v)
        PROVE KeyInv'
    BY <2>2 DEF SetEnter, Begin, CanRead, Call, Idle
  <2>3. ASSUME NEW t \in Threads, NEW x \in Vars, NEW cb \in Callbacks, AddEnter(t, x, cb)
        PROVE KeyInv'
    <3> DEFINE k == key[TypeOf[x]]
    <3>1. k \in Keys /\ writer[x] = None /\ cbs' = [cbs EXCEPT ![x][k] = cb]
      BY <2>3 DEF AddEnter, CanWrite
    <3>2. key' = key /\ handles' = handles /\ torn \subseteq torn'
      BY <2>3 DEF AddEnter
    <3>3. \A h \in handles : TypeOf[h.var] \notin torn =>
            /\ h.var \in Vars /\ h.key \in Keys /\ (h.var = x => h.key # k)
      BY <3>1
    <3>4. \A h \in handles : TypeOf[h.var] \notin torn => cbs'[h.var][h.key] = h.cb
      BY <3>1, <3>3
    <3>5. call'[t].pc = "add" /\ call'[t].var = x /\ call'[t].cb = cb
      BY <2>3 DEF AddEnter, Idle
    <3>6. \A u \in Threads : u # t => call'[u] = call[u]
      BY <2>3 DEF AddEnter
    <3>7. \A y \in Vars, u \in Threads : u # t /\ Busy(u, y, {"add", "bump"}) => y # x
      BY <3>1
    <3>8. ASSUME NEW y \in Vars, NEW u \in Threads, TypeOf[y] \notin torn',
                 Busy(u, y, {"add", "bump"})'
          PROVE  /\ key'[TypeOf[y]] \in Keys /\ cbs'[y][key'[TypeOf[y]]] = call'[u].cb
                 /\ Busy(u, y, {"bump"})' => call'[u].tmp = key'[TypeOf[y]]
      <4>1. CASE u = t
        BY <3>1, <3>2, <3>5, <3>8, <4>1
      <4>2. CASE u # t
        <5>1. call'[u] = call[u] /\ Busy(u, y, {"add", "bump"})
          BY <3>6, <3>8, <4>2
        <5>2. y # x /\ cbs'[y] = cbs[y]
          BY <3>1, <3>7, <4>2, <5>1
        <5> QED
          BY <3>2, <3>8, <5>1, <5>2
      <4> QED
        BY <4>1, <4>2
    <3>9. \A h \in handles' : TypeOf[h.var] \notin torn' => h.key < key'[TypeOf[h.var]]
      BY <3>2
    <3>10. HandleFindsListener'
      BY <3>2, <3>3, <3>4
    <3> QED
      BY <3>8, <3>9, <3>10
  <2>4. ASSUME NEW t \in Threads, NEW h \in handles, DelListener(t, h)
        PROVE KeyInv'
    <3>1. h \in Handle /\ writer[h.var] = None
      BY <2>4 DEF DelListener, CanWrite
    <3>2. \A x \in Vars, k \in Keys : cbs'[x][k] = IF x = h.var /\ k = h.key THEN None ELSE cbs[x][k]
      BY <2>4, <3>1 DEF DelListener
    <3>3. key' = key /\ call' = call /\ handles' = handles \ {h}
      BY <2>4 DEF DelListener
    <3>4. torn' = torn
      BY <2>4 DEF DelListener
    <3>5. ASSUME NEW g \in handles', TypeOf[g.var] \notin torn'
          PROVE  g.key \in Keys /\ cbs'[g.var][g.key] = g.cb
      <4>1. g \in handles /\ g # h /\ g \in Handle
        BY <3>3
      <4>2. g.key \in Keys /\ cbs[g.var][g.key] = g.cb
        BY <3>4, <3>5, <4>1
      <4>3. ASSUME g.var = h.var, g.key = h.key PROVE FALSE
        <5>1. cbs[h.var][h.key] = h.cb
          BY <3>4, <3>5, <4>3
        <5>2. g = [var |-> g.var, key |-> g.key, cb |-> g.cb] /\ h = [var |-> h.var, key |-> h.key, cb |-> h.cb]
          BY <3>1, <4>1
        <5> QED
          BY <4>1, <4>2, <4>3, <5>1, <5>2
      <4> QED
        BY <3>2, <4>1, <4>2, <4>3
    <3>6. \A y \in Vars, u \in Threads : Busy(u, y, {"add", "bump"}) => y # h.var
      BY <3>1
    <3>7. ASSUME NEW y \in Vars, NEW u \in Threads, TypeOf[y] \notin torn',
                 Busy(u, y, {"add", "bump"})'
          PROVE  /\ key'[TypeOf[y]] \in Keys /\ cbs'[y][key'[TypeOf[y]]] = call'[u].cb
                 /\ Busy(u, y, {"bump"})' => call'[u].tmp = key'[TypeOf[y]]
      BY <3>2, <3>3, <3>4, <3>6, <3>7
    <3>8. \A y \in Vars, u \in Threads : Busy(u, y, {"bump"})' => Busy(u, y, {"add", "bump"})'
      OBVIOUS
    <3>9. \A g \in handles' : TypeOf[g.var] \notin torn' => g.key < key'[TypeOf[g.var]]
      BY <3>3, <3>4
    <3> QED
      BY <3>5, <3>7, <3>8, <3>9
  <2>5. ASSUME NEW t \in Threads, NEW x \in Vars, ClearListener(t, x)
        PROVE KeyInv'
    BY <2>5 DEF ClearListener, CanWrite
  <2>6. CASE UNCHANGED vars
    BY <2>6 DEF vars
  <2> QED
    BY <2>1, <2>2, <2>3, <2>4, <2>5, <2>6 DEF Next
<1>3. KeyInv => HandleFindsListener
  BY DEF KeyInv
<1> QED
  BY <1>1, <1>2, <1>3, TypeCorrect, LockCorrect, AddersAlone, PTL DEF Spec

----------------------------------------------------------------------------
\* setValue gives up the read lock only once it has called every listener.
LoopInv == \A t \in Threads : call[t].pc = "store" => call[t].todo = {}

\* A setValue that is about to store has no listener left to call.
LEMMA LoopDone == Spec => []LoopInv
<1>1. Init => LoopInv
  BY DEF Init, LoopInv, Idle
<1>2. TypeOK /\ LoopInv /\ [Next]_vars => LoopInv'
  <2> SUFFICES ASSUME TypeOK, LoopInv, [Next]_vars PROVE LoopInv'
    OBVIOUS
  <2> USE DEF TypeOK, LoopInv
  <2>1. ASSUME NEW t \in Threads, Step(t) PROVE LoopInv'
    <3>0. call[t] \in Call
      OBVIOUS
    <3>1. CASE Notify(t)
      <4>1. call'[t].pc = "notify" /\ \A u \in Threads : u # t => call'[u] = call[u]
        BY <3>0, <3>1 DEF Notify, CallListener, Call
      <4> QED
        BY <4>1
    <3>2. CASE ListenerThrows(t) \/ SetStore(t) \/ AddReturn(t)
      <4>1. call' = [call EXCEPT ![t] = Idle]
        BY <3>2 DEF ListenerThrows, SetStore, AddReturn
      <4>2. call'[t].pc = "idle" /\ \A u \in Threads : u # t => call'[u] = call[u]
        BY <4>1 DEF Idle
      <4> QED
        BY <4>2
    <3>3. CASE SetLeave(t)
      <4>1. call'[t].todo = {} /\ \A u \in Threads : u # t => call'[u] = call[u]
        BY <3>0, <3>3 DEF SetLeave, Call
      <4> QED
        BY <4>1
    <3>4. CASE AddRead(t)
      <4>1. call'[t].pc = "bump" /\ \A u \in Threads : u # t => call'[u] = call[u]
        BY <3>0, <3>4 DEF AddRead, Call
      <4> QED
        BY <4>1
    <3> QED
      BY <2>1, <3>1, <3>2, <3>3, <3>4 DEF Step
  <2>2. ASSUME NEW t \in Threads, NEW x \in Vars, NEW v \in Values, SetEnter(t, x, v)
        PROVE LoopInv'
    BY <2>2 DEF SetEnter, Begin, Call, Idle
  <2>3. ASSUME NEW t \in Threads, NEW x \in Vars, NEW cb \in Callbacks, AddEnter(t, x, cb)
        PROVE LoopInv'
    BY <2>3 DEF AddEnter, Begin, Call, Idle
  <2>4. ASSUME call' = call PROVE LoopInv'
    BY <2>4
  <2> QED
    BY <2>1, <2>2, <2>3, <2>4 DEF Next, vars, DelListener, ClearListener
<1> QED
  BY <1>1, <1>2, TypeCorrect, PTL DEF Spec

----------------------------------------------------------------------------
InSet(t, x) == Busy(t, x, {"notify", "store"})

\* A step inside a call never puts another thread into a setValue, keeps the
\* value the setValue is for, and forgets no event.
LEMMA StepFrame ==
  ASSUME TypeOK, NEW t \in Threads, Step(t)
  PROVE  /\ \A u \in Threads : u # t => call'[u] = call[u]
         /\ \A x \in Vars : InSet(t, x)' => InSet(t, x) /\ call'[t].new = call[t].new
         /\ \A x \in Vars : events[x] \subseteq events'[x]
<1>0. call[t] \in Call /\ call \in [Threads -> Call] /\ events \in [Vars -> SUBSET Event]
  BY DEF TypeOK
<1>1. CASE Notify(t)
  BY <1>0, <1>1 DEF Notify, CallListener, Call, InSet, Busy
<1>2. CASE ListenerThrows(t)
  BY <1>0, <1>2 DEF ListenerThrows, Idle, InSet, Busy
<1>3. CASE SetLeave(t)
  BY <1>0, <1>3 DEF SetLeave, Call, InSet, Busy
<1>4. CASE SetStore(t)
  BY <1>0, <1>4 DEF SetStore, Idle, InSet, Busy
<1>5. CASE AddRead(t)
  BY <1>0, <1>5 DEF AddRead, Call, InSet, Busy
<1>6. CASE AddReturn(t)
  BY <1>0, <1>6 DEF AddReturn, Idle, InSet, Busy
<1> QED
  BY <1>1, <1>2, <1>3, <1>4, <1>5, <1>6 DEF Step

\* What the beginning of a setValue does.
LEMMA EnterFrame ==
  ASSUME TypeOK, NEW t \in Threads, NEW x \in Vars, NEW v \in Values, SetEnter(t, x, v)
  PROVE  /\ \A u \in Threads : u # t => call'[u] = call[u]
         /\ call'[t].todo = Registered(x) /\ call'[t].new = v
         /\ \A y \in Vars : InSet(t, y)' <=> y = x
         /\ \A y \in Vars : ~InSet(t, y)
         /\ Setting(x) => events'[x] = events[x] \cup {"overlap"}
         /\ ~Setting(x) => events'[x] = {}
         /\ \A y \in Vars : y # x => events'[y] = events[y]
         /\ cbs' = cbs /\ val' = val /\ told' = told
<1>1. call \in [Threads -> Call] /\ events \in [Vars -> SUBSET Event]
  BY DEF TypeOK
<1> QED
  BY <1>1 DEF SetEnter, Begin, Idle, InSet, Busy

\* What the beginning of an addListener does, k being its key.
LEMMA AddFrame ==
  ASSUME TypeOK, NEW t \in Threads, NEW x \in Vars, NEW cb \in Callbacks, AddEnter(t, x, cb)
  PROVE  /\ \A u \in Threads : u # t => call'[u] = call[u]
         /\ \A y \in Vars : ~InSet(t, y) /\ ~InSet(t, y)'
         /\ events[x] \subseteq events'[x] /\ (Setting(x) => "late" \in events'[x])
         /\ \A y \in Vars : y # x => events'[y] = events[y]
         /\ val' = val
         /\ \E k \in Keys : /\ told'[x][k] = None
                            /\ \A y \in Vars, j \in Keys : y # x \/ j # k =>
                                 told'[y][j] = told[y][j] /\ cbs'[y][j] = cbs[y][j]
<1>1. call \in [Threads -> Call] /\ events \in [Vars -> SUBSET Event]
  BY DEF TypeOK
<1>2. call[t].pc = "idle" /\ call'[t].pc = "add" /\ \A u \in Threads : u # t => call'[u] = call[u]
  BY <1>1 DEF AddEnter, Begin, Idle
<1>3. /\ events[x] \subseteq events'[x] /\ (Setting(x) => "late" \in events'[x])
      /\ \A y \in Vars : y # x => events'[y] = events[y]
      /\ val' = val
  BY <1>1 DEF AddEnter
<1>4. \E k \in Keys : /\ told'[x][k] = None
                      /\ \A y \in Vars, j \in Keys : y # x \/ j # k =>
                           told'[y][j] = told[y][j] /\ cbs'[y][j] = cbs[y][j]
  <2>1. PICK k \in Keys : /\ k = key[TypeOf[x]]
                          /\ cbs' = [cbs EXCEPT ![x][k] = cb] /\ told' = [told EXCEPT ![x][k] = None]
    BY DEF AddEnter
  <2>2. cbs \in [Vars -> [Keys -> Callbacks \cup {None}]] /\ told \in [Vars -> [Keys -> Change \cup {None}]]
    BY DEF TypeOK
  <2> QED
    BY <2>1, <2>2
<1> QED
  BY <1>2, <1>3, <1>4 DEF InSet, Busy

\* delListener, clearListener and stuttering only take listeners away.
LEMMA RemoveFrame ==
  ASSUME TypeOK,
         \/ \E t \in Threads : \/ \E h \in handles : DelListener(t, h)
                               \/ \E x \in Vars : ClearListener(t, x)
         \/ UNCHANGED vars
  PROVE  /\ call' = call /\ events' = events /\ val' = val /\ told' = told
         /\ \A x \in Vars, k \in Keys : cbs'[x][k] # None => cbs[x][k] # None
<1>1. cbs \in [Vars -> [Keys -> Callbacks \cup {None}]] /\ handles \in SUBSET Handle
  BY DEF TypeOK
<1>2. ASSUME NEW t \in Threads, NEW h \in handles, DelListener(t, h)
      PROVE  \A x \in Vars, k \in Keys : cbs'[x][k] # None => cbs[x][k] # None
  BY <1>1, <1>2 DEF DelListener, Handle
<1>3. ASSUME NEW t \in Threads, NEW y \in Vars, ClearListener(t, y)
      PROVE  \A x \in Vars, k \in Keys : cbs'[x][k] # None => cbs[x][k] # None
  BY <1>1, <1>3 DEF ClearListener
<1>4. CASE UNCHANGED vars
  BY <1>4 DEF vars
<1> QED
  BY <1>2, <1>3, <1>4 DEF DelListener, ClearListener, vars

\* Two threads are in a setValue of one variable only after an overlap.
SoleSetter ==
  \A x \in Vars : "overlap" \notin events[x] =>
    \A t, u \in Threads : InSet(t, x) /\ InSet(u, x) => t = u

LEMMA OverlapSeen == Spec => []SoleSetter
<1> USE ConstantsAssumption
<1>1. Init => SoleSetter
  BY DEF Init, SoleSetter, InSet, Busy, Idle
<1>2. TypeOK /\ SoleSetter /\ [Next]_vars => SoleSetter'
  <2> SUFFICES ASSUME TypeOK, SoleSetter, [Next]_vars PROVE SoleSetter'
    OBVIOUS
  <2>1. ASSUME NEW t \in Threads, Step(t) PROVE SoleSetter'
    <3>1. \A u \in Threads, x \in Vars : InSet(u, x)' => InSet(u, x)
      BY <2>1, StepFrame DEF InSet, Busy
    <3> QED
      BY <2>1, <3>1, StepFrame DEF SoleSetter
  <2>2. ASSUME NEW t \in Threads, NEW x \in Vars, NEW v \in Values, SetEnter(t, x, v)
        PROVE SoleSetter'
    <3>1. \A u \in Threads, y \in Vars : u # t => (InSet(u, y)' <=> InSet(u, y))
      BY <2>2, EnterFrame DEF InSet, Busy
    <3>2. CASE Setting(x)
      BY <2>2, <3>1, <3>2, EnterFrame DEF SoleSetter
    <3>3. CASE ~Setting(x)
      <4>1. \A u \in Threads : ~InSet(u, x)
        BY <3>3 DEF Setting, InSet
      <4> QED
        BY <2>2, <3>1, <4>1, EnterFrame DEF SoleSetter
    <3> QED
      BY <3>2, <3>3
  <2>3. ASSUME NEW t \in Threads, NEW x \in Vars, NEW cb \in Callbacks, AddEnter(t, x, cb)
        PROVE SoleSetter'
    <3>1. \A u \in Threads, y \in Vars : InSet(u, y)' => InSet(u, y)
      BY <2>3, AddFrame DEF InSet, Busy
    <3>2. \A y \in Vars : events[y] \subseteq events'[y]
      BY <2>3, AddFrame
    <3> QED
      BY <3>1, <3>2 DEF SoleSetter
  <2>4. ASSUME call' = call, events' = events PROVE SoleSetter'
    BY <2>4 DEF SoleSetter, InSet, Busy
  <2> QED
    BY <2>1, <2>2, <2>3, <2>4, RemoveFrame DEF Next
<1> QED
  BY <1>1, <1>2, TypeCorrect, PTL DEF Spec

\* The listeners a setValue has passed have been told of its change, and the
\* only others are those it has still to call and those added late.
Passed(t, x, k) ==
  \/ k \in call[t].todo
  \/ told[x][k] = [old |-> val[x], new |-> call[t].new]
  \/ "late" \in events[x] /\ told[x][k] = None

AnnounceInv ==
  \A x \in Vars, t \in Threads : InSet(t, x) /\ "overlap" \notin events[x] =>
    \A k \in Registered(x) : Passed(t, x, k)

LEMMA PassedAreTold == Spec => []AnnounceInv
<1> USE ConstantsAssumption
<1>1. Init => AnnounceInv
  BY DEF Init, AnnounceInv, InSet, Busy, Idle
<1>2. TypeOK /\ LockInv /\ SoleSetter /\ AnnounceInv /\ [Next]_vars => AnnounceInv'
  <2> SUFFICES ASSUME TypeOK, LockInv, SoleSetter, AnnounceInv, [Next]_vars PROVE AnnounceInv'
    OBVIOUS
  <2>1. ASSUME NEW t \in Threads, Step(t) PROVE AnnounceInv'
    <3> SUFFICES ASSUME NEW x \in Vars, NEW u \in Threads, InSet(u, x)', "overlap" \notin events'[x],
                        NEW k \in Keys, cbs'[x][k] # None
                 PROVE  Passed(u, x, k)'
      BY DEF AnnounceInv, Registered
    <3>1. InSet(u, x) /\ "overlap" \notin events[x] /\ call'[u].new = call[u].new
      BY <2>1, StepFrame DEF InSet, Busy
    <3>2. \A w \in Threads : InSet(w, x) => w = u
      BY <3>1 DEF SoleSetter
    <3>3. cbs' = cbs
      BY <2>1 DEF Step, Notify, ListenerThrows, SetLeave, SetStore, AddRead, AddReturn
    <3>4. Passed(u, x, k)
      BY <3>1, <3>3 DEF AnnounceInv, Registered
    <3>5. events[x] \subseteq events'[x]
      BY <2>1, StepFrame
    <3>6. CASE t = u
      <4>1. SetLeave(t) \/ Notify(t)
        BY <2>1, <3>1, <3>6 DEF Step, ListenerThrows, SetStore, AddRead, AddReturn, InSet, Busy,
             Idle, TypeOK
      <4>2. CASE SetLeave(t)
        <5>1. call'[t].todo = call[t].todo /\ val' = val /\ told' = told
          BY <4>2 DEF SetLeave, TypeOK, Call
        <5> QED
          BY <3>1, <3>4, <3>5, <3>6, <5>1 DEF Passed
      <4>3. CASE Notify(t)
        <5>1. PICK j \in call[t].todo : CallListener(t, j) /\ call' = [call EXCEPT ![t].todo = @ \ {j}]
          BY <4>3 DEF Notify
        <5>2. call'[t].todo = call[t].todo \ {j} /\ val' = val
          BY <4>3, <5>1 DEF Notify, TypeOK, Call
        <5>3. told' = [told EXCEPT ![x][j] = [old |-> val[x], new |-> call[t].new]]
          BY <3>1, <3>6, <5>1 DEF CallListener, InSet, Busy
        <5>4. told \in [Vars -> [Keys -> Change \cup {None}]] /\ j \in Keys
          BY <5>1 DEF TypeOK, Call
        <5>5. CASE k = j
          BY <3>1, <3>6, <5>2, <5>3, <5>4, <5>5 DEF Passed
        <5>6. CASE k # j
          <6>1. told'[x][k] = told[x][k]
            BY <5>3, <5>4, <5>6
          <6> QED
            BY <3>1, <3>4, <3>5, <3>6, <5>2, <5>6, <6>1 DEF Passed
        <5> QED
          BY <5>5, <5>6
      <4> QED
        BY <4>1, <4>2, <4>3
    <3>7. CASE t # u
      <4>1. call'[u] = call[u] /\ ~InSet(t, x)
        BY <2>1, <3>2, <3>7, StepFrame
      <4>2. val'[x] = val[x]
        BY <2>1, <4>1 DEF Step, Notify, ListenerThrows, SetLeave, SetStore, AddRead, AddReturn,
             InSet, Busy, TypeOK
      <4>3. told'[x] = told[x]
        BY <2>1, <4>1 DEF Step, Notify, ListenerThrows, SetLeave, SetStore, AddRead, AddReturn,
             CallListener, InSet, Busy, TypeOK
      <4> QED
        BY <3>4, <3>5, <4>1, <4>2, <4>3 DEF Passed
    <3> QED
      BY <3>6, <3>7
  <2>2. ASSUME NEW t \in Threads, NEW y \in Vars, NEW v \in Values, SetEnter(t, y, v)
        PROVE AnnounceInv'
    <3> SUFFICES ASSUME NEW x \in Vars, NEW u \in Threads, InSet(u, x)', "overlap" \notin events'[x],
                        NEW k \in Registered(x)'
                 PROVE  Passed(u, x, k)'
      BY DEF AnnounceInv
    <3>1. Registered(x)' = Registered(x)
      BY <2>2, EnterFrame DEF Registered
    <3>2. CASE u = t
      <4>1. x = y
        BY <2>2, <3>2, EnterFrame
      <4> QED
        BY <2>2, <3>1, <3>2, <4>1, EnterFrame DEF Passed
    <3>3. CASE u # t
      <4>1. call'[u] = call[u] /\ InSet(u, x)
        BY <2>2, <3>3, EnterFrame DEF InSet, Busy
      <4>2. x # y
        BY <2>2, <4>1, EnterFrame DEF Setting, InSet
      <4>3. events'[x] = events[x] /\ told' = told /\ val' = val
        BY <2>2, <4>2, EnterFrame
      <4>4. Passed(u, x, k)
        BY <3>1, <4>1, <4>3 DEF AnnounceInv
      <4> QED
        BY <4>1, <4>3, <4>4 DEF Passed
    <3> QED
      BY <3>2, <3>3
  <2>3. ASSUME NEW t \in Threads, NEW y \in Vars, NEW cb \in Callbacks, AddEnter(t, y, cb)
        PROVE AnnounceInv'
    <3>1. PICK j \in Keys : /\ told'[y][j] = None
                            /\ \A x \in Vars, k \in Keys : x # y \/ k # j =>
                                 told'[x][k] = told[x][k] /\ cbs'[x][k] = cbs[x][k]
      BY <2>3, AddFrame
    <3> SUFFICES ASSUME NEW x \in Vars, NEW u \in Threads, InSet(u, x)', "overlap" \notin events'[x],
                        NEW k \in Keys, cbs'[x][k] # None
                 PROVE  Passed(u, x, k)'
      BY DEF AnnounceInv, Registered
    <3>2. u # t /\ call'[u] = call[u] /\ InSet(u, x) /\ val' = val
      BY <2>3, AddFrame DEF InSet, Busy
    <3>3. events[x] \subseteq events'[x]
      BY <2>3, AddFrame
    <3>4. CASE x = y /\ k = j
      <4>1. Setting(y)
        BY <3>2, <3>4 DEF Setting, InSet
      <4>2. "late" \in events'[x] /\ told'[x][k] = None
        BY <2>3, <3>1, <3>4, <4>1, AddFrame
      <4> QED
        BY <4>2 DEF Passed
    <3>5. CASE x # y \/ k # j
      <4>1. told'[x][k] = told[x][k] /\ cbs[x][k] # None
        BY <3>1, <3>5
      <4>2. Passed(u, x, k)
        BY <3>2, <3>3, <4>1 DEF AnnounceInv, Registered
      <4> QED
        BY <3>2, <3>3, <4>1, <4>2 DEF Passed
    <3> QED
      BY <3>4, <3>5
  <2>4. ASSUME call' = call, events' = events, val' = val, told' = told,
               \A x \in Vars, k \in Keys : cbs'[x][k] # None => cbs[x][k] # None
        PROVE AnnounceInv'
    BY <2>4 DEF AnnounceInv, Registered, Passed, InSet, Busy
  <2> QED
    BY <2>1, <2>2, <2>3, <2>4, RemoveFrame DEF Next
<1> QED
  BY <1>1, <1>2, TypeCorrect, LockCorrect, OverlapSeen, PTL DEF Spec

\* A change stored by a setValue that no other one overlapped has been announced
\* to every listener that was not added meanwhile (config.hpp:273-283).
THEOREM ChangesAnnounced == Spec => ChangeIsAnnounced
<1> DEFINE Announced == \A x \in Vars : val'[x] # val[x] /\ events[x] \cap {"overlap", "late"} = {} =>
             \A k \in Registered(x) : told[x][k] = [old |-> val[x], new |-> val'[x]]
<1>1. TypeOK /\ LoopInv /\ AnnounceInv /\ [Next]_vars => [Announced]_vars
  <2> SUFFICES ASSUME TypeOK, LoopInv, AnnounceInv, Next, NEW x \in Vars, val'[x] # val[x],
                      events[x] \cap {"overlap", "late"} = {}, NEW k \in Registered(x)
               PROVE told[x][k] = [old |-> val[x], new |-> val'[x]]
    OBVIOUS
  <2>1. PICK t \in Threads : SetStore(t)
    BY DEF Next, Step, Notify, ListenerThrows, SetLeave, SetStore, AddRead, AddReturn,
           SetEnter, AddEnter, DelListener, ClearListener
  <2>2. x = call[t].var /\ val'[x] = call[t].new /\ call[t].pc = "store"
    BY <2>1 DEF SetStore, TypeOK
  <2>3. call[t].todo = {} /\ InSet(t, x)
    BY <2>2 DEF LoopInv, InSet, Busy
  <2>4. "overlap" \notin events[x] /\ "late" \notin events[x]
    OBVIOUS
  <2>5. Passed(t, x, k)
    BY <2>3, <2>4 DEF AnnounceInv
  <2> QED
    BY <2>2, <2>3, <2>4, <2>5 DEF Passed
<1> QED
  BY <1>1, TypeCorrect, LoopDone, PassedAreTold, PTL DEF Spec, ChangeIsAnnounced

\* Between calls of setValue the listeners that have been told know the value.
MirrorInv ==
  \A x \in Vars : ~Setting(x) /\ "overlap" \notin events[x] /\ "throw" \notin events[x] =>
    \A k \in Registered(x) : told[x][k] # None => told[x][k].new = val[x]

\* A step of a call that is no setValue of x and stores nothing leaves what is
\* said of x alone.
LEMMA MirrorFrame ==
  ASSUME MirrorInv, NEW x \in Vars, Setting(x)' <=> Setting(x), val'[x] = val[x],
         told'[x] = told[x], events[x] \subseteq events'[x],
         \A k \in Keys : cbs'[x][k] # None => cbs[x][k] # None,
         ~Setting(x)', "overlap" \notin events'[x], "throw" \notin events'[x],
         NEW k \in Keys, cbs'[x][k] # None, told'[x][k] # None
  PROVE  told'[x][k].new = val'[x]
<1>1. ~Setting(x) /\ "overlap" \notin events[x] /\ "throw" \notin events[x]
  OBVIOUS
<1>2. k \in Registered(x) /\ told[x][k] # None
  BY DEF Registered
<1>3. told[x][k].new = val[x]
  BY <1>1, <1>2 DEF MirrorInv
<1> QED
  BY <1>3

\* What a listener was told last is the value whenever no setValue is under way,
\* unless the last one was overlapped or was ended by a listener; listeners may
\* come and go in any thread (config.hpp:273-299).
THEOREM MirrorsUpToDate == Spec => []ListenersUpToDate
<1> USE ConstantsAssumption
<1>1. Init => MirrorInv
  BY DEF Init, MirrorInv, Registered
<1>2. TypeOK /\ SoleSetter /\ LoopInv /\ AnnounceInv /\ MirrorInv /\ [Next]_vars => MirrorInv'
  <2> SUFFICES ASSUME TypeOK, SoleSetter, LoopInv, AnnounceInv, MirrorInv, [Next]_vars,
                      NEW x \in Vars, ~Setting(x)', "overlap" \notin events'[x],
                      "throw" \notin events'[x],
                      NEW k \in Keys, cbs'[x][k] # None, told'[x][k] # None
               PROVE  told'[x][k].new = val'[x]
    BY DEF MirrorInv, Registered
  <2>1. ASSUME NEW t \in Threads, Step(t) PROVE told'[x][k].new = val'[x]
    <3>1. cbs' = cbs /\ events[x] \subseteq events'[x]
      BY <2>1, StepFrame DEF Step, Notify, ListenerThrows, SetLeave, SetStore, AddRead, AddReturn
    <3>2. \A u \in Threads : ~InSet(u, x)'
      BY DEF Setting, InSet
    <3>3. CASE InSet(t, x)
      <4>1. SetStore(t)
        <5>0. call[t] \in Call /\ call \in [Threads -> Call]
          BY DEF TypeOK
        <5>1. ~Notify(t)
          <6> SUFFICES ASSUME Notify(t) PROVE FALSE
            OBVIOUS
          <6>1. PICK j \in call[t].todo : CallListener(t, j) /\ call' = [call EXCEPT ![t].todo = @ \ {j}]
            BY DEF Notify
          <6>2. call'[t].pc = "notify" /\ call'[t].var = call[t].var
            BY <5>0, <6>1 DEF CallListener, Call
          <6> QED
            BY <3>2, <3>3, <6>2 DEF InSet, Busy
        <5>2. ~SetLeave(t)
          <6> SUFFICES ASSUME SetLeave(t) PROVE FALSE
            OBVIOUS
          <6>1. call'[t].pc = "store" /\ call'[t].var = call[t].var
            BY <5>0 DEF SetLeave, Call
          <6> QED
            BY <3>2, <3>3, <6>1 DEF InSet, Busy
        <5>3. ~ListenerThrows(t)
          BY <3>3 DEF ListenerThrows, InSet, Busy, TypeOK
        <5> QED
          BY <2>1, <3>3, <5>1, <5>2, <5>3 DEF Step, AddRead, AddReturn, InSet, Busy
      <4>2. /\ call[t].pc = "store" /\ val'[x] = call[t].new /\ told' = told
            /\ events' = events
        BY <3>3, <4>1 DEF SetStore, InSet, Busy, TypeOK
      <4>3. Passed(t, x, k)
        BY <3>1, <3>3, <4>2 DEF AnnounceInv, Registered
      <4>4. call[t].todo = {}
        BY <4>2 DEF LoopInv
      <4>5. told[x][k] = [old |-> val[x], new |-> call[t].new]
        BY <4>2, <4>3, <4>4 DEF Passed
      <4> QED
        BY <4>2, <4>5
    <3>4. CASE ~InSet(t, x)
      <4>1. \A u \in Threads : ~InSet(u, x)
        BY <2>1, <3>2, <3>4, StepFrame DEF InSet, Busy
      <4>2. ~Setting(x)
        BY <4>1 DEF Setting, InSet
      <4>3. val'[x] = val[x]
        BY <2>1, <3>4 DEF Step, Notify, ListenerThrows, SetLeave, SetStore, AddRead, AddReturn,
             InSet, Busy, TypeOK
      <4>4. told'[x] = told[x]
        BY <2>1, <3>4 DEF Step, Notify, ListenerThrows, SetLeave, SetStore, AddRead, AddReturn,
             CallListener, InSet, Busy, TypeOK
      <4> QED
        BY <3>1, <4>2, <4>3, <4>4, MirrorFrame
    <3> QED
      BY <3>3, <3>4
  <2>2. ASSUME NEW t \in Threads, NEW y \in Vars, NEW v \in Values, SetEnter(t, y, v)
        PROVE told'[x][k].new = val'[x]
    <3>1. x # y
      <4>1. InSet(t, y)'
        BY <2>2, EnterFrame
      <4> QED
        BY <4>1 DEF Setting, InSet
    <3>2. ~Setting(x)
      <4>1. ASSUME NEW u \in Threads, InSet(u, x) PROVE InSet(u, x)'
        <5>1. u # t
          BY <2>2, <4>1, EnterFrame
        <5>2. call'[u] = call[u]
          BY <2>2, <5>1, EnterFrame
        <5> QED
          BY <4>1, <5>2 DEF InSet, Busy
      <4> QED
        BY <4>1 DEF Setting, InSet
    <3>3. events'[x] = events[x] /\ cbs' = cbs /\ val' = val /\ told' = told
      BY <2>2, <3>1, EnterFrame
    <3> QED
      BY <3>2, <3>3, MirrorFrame
  <2>3. ASSUME NEW t \in Threads, NEW y \in Vars, NEW cb \in Callbacks, AddEnter(t, y, cb)
        PROVE told'[x][k].new = val'[x]
    <3>1. PICK j \in Keys : /\ told'[y][j] = None
                            /\ \A z \in Vars, i \in Keys : z # y \/ i # j =>
                                 told'[z][i] = told[z][i] /\ cbs'[z][i] = cbs[z][i]
      BY <2>3, AddFrame
    <3>2. told'[x][k] = told[x][k] /\ cbs[x][k] # None
      BY <3>1
    <3>3. ~Setting(x)
      <4>1. ASSUME NEW u \in Threads, InSet(u, x) PROVE InSet(u, x)'
        BY <2>3, <4>1, AddFrame DEF InSet, Busy
      <4> QED
        BY <4>1 DEF Setting, InSet
    <3>4. events[x] \subseteq events'[x] /\ val' = val
      BY <2>3, AddFrame
    <3>5. k \in Registered(x) /\ told[x][k] # None
      BY <3>2 DEF Registered
    <3>6. told[x][k].new = val[x]
      BY <3>3, <3>4, <3>5 DEF MirrorInv
    <3> QED
      BY <3>2, <3>4, <3>6
  <2>4. ASSUME call' = call, events' = events, val' = val, told' = told,
               \A z \in Vars, i \in Keys : cbs'[z][i] # None => cbs[z][i] # None
        PROVE told'[x][k].new = val'[x]
    <3>1. ~Setting(x)
      BY <2>4 DEF Setting, Busy
    <3> QED
      BY <2>4, <3>1, MirrorFrame
  <2> QED
    BY <2>1, <2>2, <2>3, <2>4, RemoveFrame DEF Next
<1>3. MirrorInv => ListenersUpToDate
  BY DEF MirrorInv, ListenersUpToDate
<1> QED
  BY <1>1, <1>2, <1>3, TypeCorrect, OverlapSeen, LoopDone, PassedAreTold, PTL DEF Spec
============================================================================
