----------------------------- MODULE ConfigVar -----------------------------
(***************************************************************************)
(* ConfigVar<T> of include/config.hpp: a value and a map of change         *)
(* listeners under one reader-writer lock, used by several threads.        *)
(*                                                                         *)
(* setValue notifies under the read lock, gives it up, and only then takes *)
(* the write lock to store: the gap between the two is a step boundary     *)
(* here.  addListener draws its key from a counter that is static in the   *)
(* class template, so all ConfigVars of one T share it while each of them  *)
(* has a lock of its own; every access to the counter is a separate step.  *)
(*                                                                         *)
(* One access to state under a lock that excludes all others is one step   *)
(* with the lock's acquisition and release.                                *)
(***************************************************************************)
EXTENDS Integers, FiniteSets

CONSTANTS
  Threads,   \* the threads that use the ConfigVars
  Setters,   \* those that call setValue / fromString
  Adders,    \* those that call addListener
  Removers,  \* those that call delListener and clearListener
  Vars,      \* the ConfigVar objects
  TypeOf,    \* the T each of them is instantiated with
  Values,    \* values of the T's
  Callbacks, \* functions registered as listeners
  Throwing,  \* the callbacks that may throw a std::exception
  MaxKey,    \* bound: largest listener key drawn
  MaxOps,    \* bound: setValue and addListener calls per thread
  None       \* no thread, no callback, no variable

ASSUME ConstantsAssumption ==
  /\ Setters \subseteq Threads /\ Adders \subseteq Threads
  /\ Removers \subseteq Threads /\ Throwing \subseteq Callbacks
  /\ MaxKey \in Nat /\ MaxOps \in Nat
  /\ None \notin Threads /\ None \notin Callbacks
  /\ None \notin Vars /\ None \notin Values
  /\ DOMAIN TypeOf = Vars

VARIABLES
  val,      \* m_val of each ConfigVar
  cbs,      \* m_cbs: key -> callback, None where the map has no entry
  key,      \* the static counter of addListener, one per T
  readers,  \* threads holding m_mutex for reading
  writer,   \* thread holding m_mutex for writing, or None
  call,     \* the call each thread is in, with its local variables
  told,     \* the last <<old, new>> each listener was called with
  handles,  \* keys returned by addListener and still in use by the callers
  events,   \* what has disturbed each ConfigVar since its last undisturbed setValue began
  ops,      \* calls made so far by each thread
  torn      \* the types of which two addListener calls have overlapped

vars == <<val, cbs, key, readers, writer, call, told, handles, events, ops, torn>>

Keys   == 0 .. MaxKey
Types  == {TypeOf[x] : x \in Vars}
Change == [old : Values, new : Values]
\* "overlap": a setValue began during another, "late": a listener was added
\* during one, "throw": a listener ended one.
Event  == {"overlap", "late", "throw"}
Handle == [var : Vars, key : Nat, cb : Callbacks]
Call   == [pc : {"idle", "notify", "store", "add", "bump"},
           var : Vars \cup {None}, new : Values \cup {None},
           todo : SUBSET Keys, cb : Callbacks \cup {None}, tmp : Nat]

Idle == [pc |-> "idle", var |-> None, new |-> None,
         todo |-> {}, cb |-> None, tmp |-> 0]

TypeOK ==
  /\ val \in [Vars -> Values]
  /\ cbs \in [Vars -> [Keys -> Callbacks \cup {None}]]
  /\ key \in [Types -> Nat]
  /\ readers \in [Vars -> SUBSET Threads]
  /\ writer \in [Vars -> Threads \cup {None}]
  /\ call \in [Threads -> Call]
  /\ \A t \in Threads :
       /\ call[t].pc # "idle" => call[t].var \in Vars
       /\ call[t].pc \in {"notify", "store"} => call[t].new \in Values
       /\ call[t].pc \in {"add", "bump"} => call[t].cb \in Callbacks
  /\ told \in [Vars -> [Keys -> Change \cup {None}]]
  /\ handles \in SUBSET Handle
  /\ events \in [Vars -> SUBSET Event]
  /\ ops \in [Threads -> 0 .. MaxOps]
  /\ torn \in SUBSET Types

Init ==
  /\ val \in [Vars -> Values]
  /\ cbs = [x \in Vars |-> [k \in Keys |-> None]]
  /\ key = [T \in Types |-> 0]
  /\ readers = [x \in Vars |-> {}]
  /\ writer = [x \in Vars |-> None]
  /\ call = [t \in Threads |-> Idle]
  /\ told = [x \in Vars |-> [k \in Keys |-> None]]
  /\ handles = {}
  /\ events = [x \in Vars |-> {}]
  /\ ops = [t \in Threads |-> 0]
  /\ torn = {}

Registered(x) == {k \in Keys : cbs[x][k] # None}

Busy(t, x, pcs) == call[t].pc \in pcs /\ call[t].var = x
Setting(x)      == \E t \in Threads : Busy(t, x, {"notify", "store"})
Adding(T)       == \E t \in Threads, x \in Vars :
                     TypeOf[x] = T /\ Busy(t, x, {"add", "bump"})

(***************************************************************************)
(* The lock.  A reader waits for a writer only, as the default             *)
(* pthread_rwlock does; a writer waits for everybody.                      *)
(***************************************************************************)
CanRead(x)  == writer[x] = None
CanWrite(x) == writer[x] = None /\ readers[x] = {}
Unread(t)   == readers' = [readers EXCEPT ![call[t].var] = @ \ {t}]

Begin(t, doers) ==
  /\ t \in doers /\ call[t].pc = "idle" /\ ops[t] < MaxOps
  /\ ops' = [ops EXCEPT ![t] = @ + 1]

----------------------------------------------------------------------------
(* setValue(v): under the read lock return if nothing changes, else start  *)
(* the loop over the listeners, which are called in key order.             *)
SetEnter(t, x, v) ==
  /\ Begin(t, Setters)
  /\ CanRead(x)
  /\ val[x] # v
  /\ readers' = [readers EXCEPT ![x] = @ \cup {t}]
  /\ call' = [call EXCEPT ![t] = [Idle EXCEPT !.pc = "notify", !.var = x,
                                              !.new = v, !.todo = Registered(x)]]
  /\ events' = [events EXCEPT ![x] = IF Setting(x) THEN @ \cup {"overlap"} ELSE {}]
  /\ UNCHANGED <<val, cbs, key, writer, told, handles, torn>>

\* Mutant: the arguments of the callback are swapped.
CallListenerSwapped(t, k) ==
  /\ call[t].pc = "notify"
  /\ k \in call[t].todo /\ \A j \in call[t].todo : k <= j
  /\ told' = [told EXCEPT ![call[t].var][k] =
                [old |-> call[t].new, new |-> val[call[t].var]]]

\* The call p.second(m_val, v) of the listener under key k, the next in order.
CallListener(t, k) ==
  /\ call[t].pc = "notify"
  /\ k \in call[t].todo /\ \A j \in call[t].todo : k <= j
  /\ told' = [told EXCEPT ![call[t].var][k] =
                [old |-> val[call[t].var], new |-> call[t].new]]

Notify(t) ==
  /\ \E k \in call[t].todo :
       /\ CallListener(t, k)
       /\ call' = [call EXCEPT ![t].todo = @ \ {k}]
  /\ UNCHANGED <<val, cbs, key, readers, writer, handles, events, ops, torn>>

\* Mutant: the read lock is given up by hand, and so not by an exception.
ListenerThrowsLocked(t) ==
  /\ \E k \in call[t].todo :
       /\ CallListener(t, k)
       /\ cbs[call[t].var][k] \in Throwing
  /\ call' = [call EXCEPT ![t] = Idle]
  /\ events' = [events EXCEPT ![call[t].var] = @ \cup {"throw"}]
  /\ UNCHANGED <<val, cbs, key, readers, writer, handles, ops, torn>>

\* The listener throws: the exception unwinds the read lock and leaves
\* setValue (fromString catches it); nothing is stored.
ListenerThrows(t) ==
  /\ \E k \in call[t].todo :
       /\ CallListener(t, k)
       /\ cbs[call[t].var][k] \in Throwing
  /\ Unread(t)
  /\ call' = [call EXCEPT ![t] = Idle]
  /\ events' = [events EXCEPT ![call[t].var] = @ \cup {"throw"}]
  /\ UNCHANGED <<val, cbs, key, writer, handles, ops, torn>>

\* Mutant: the loop over the listeners can be left early.
SetLeaveEarly(t) ==
  /\ call[t].pc = "notify"
  /\ Unread(t)
  /\ call' = [call EXCEPT ![t].pc = "store"]
  /\ UNCHANGED <<val, cbs, key, writer, told, handles, events, ops, torn>>

SetLeave(t) ==
  /\ call[t].pc = "notify" /\ call[t].todo = {}
  /\ Unread(t)
  /\ call' = [call EXCEPT ![t].pc = "store"]
  /\ UNCHANGED <<val, cbs, key, writer, told, handles, events, ops, torn>>

SetStore(t) ==
  /\ call[t].pc = "store"
  /\ CanWrite(call[t].var)
  /\ val' = [val EXCEPT ![call[t].var] = call[t].new]
  /\ call' = [call EXCEPT ![t] = Idle]
  /\ UNCHANGED <<cbs, key, readers, writer, told, handles, events, ops, torn>>

----------------------------------------------------------------------------
(* addListener(cb): m_cbs[key] = cb; return key++.  The counter is read to *)
(* index the map, read again and written by the increment.                 *)
AddEnter(t, x, cb) ==
  LET k == key[TypeOf[x]] IN
  /\ Begin(t, Adders)
  /\ CanWrite(x)
  /\ k \in Keys
  /\ writer' = [writer EXCEPT ![x] = t]
  /\ cbs' = [cbs EXCEPT ![x][k] = cb]
  /\ told' = [told EXCEPT ![x][k] = None]
  /\ call' = [call EXCEPT ![t] = [Idle EXCEPT !.pc = "add", !.var = x, !.cb = cb]]
  /\ events' = [events EXCEPT ![x] = IF Setting(x) THEN @ \cup {"late"} ELSE @]
  /\ torn' = IF Adding(TypeOf[x]) THEN torn \cup {TypeOf[x]} ELSE torn
  /\ UNCHANGED <<val, key, readers, handles>>

AddRead(t) ==
  /\ call[t].pc = "add"
  /\ call' = [call EXCEPT ![t] = [@ EXCEPT !.pc = "bump",
                                          !.tmp = key[TypeOf[call[t].var]]]]
  /\ UNCHANGED <<val, cbs, key, readers, writer, told, handles, events, ops, torn>>

\* Mutant: return ++key.
AddReturnNext(t) ==
  LET x == call[t].var IN
  /\ call[t].pc = "bump"
  /\ key' = [key EXCEPT ![TypeOf[x]] = call[t].tmp + 1]
  /\ handles' = handles \cup {[var |-> x, key |-> call[t].tmp + 1, cb |-> call[t].cb]}
  /\ writer' = [writer EXCEPT ![x] = None]
  /\ call' = [call EXCEPT ![t] = Idle]
  /\ UNCHANGED <<val, cbs, readers, told, events, ops, torn>>

\* Mutant: return key--.
AddReturnDown(t) ==
  LET x == call[t].var IN
  /\ call[t].pc = "bump"
  /\ key' = [key EXCEPT ![TypeOf[x]] = call[t].tmp - 1]
  /\ handles' = handles \cup {[var |-> x, key |-> call[t].tmp, cb |-> call[t].cb]}
  /\ writer' = [writer EXCEPT ![x] = None]
  /\ call' = [call EXCEPT ![t] = Idle]
  /\ UNCHANGED <<val, cbs, readers, told, events, ops, torn>>

AddReturn(t) ==
  LET x == call[t].var IN
  /\ call[t].pc = "bump"
  /\ key' = [key EXCEPT ![TypeOf[x]] = call[t].tmp + 1]
  /\ handles' = handles \cup {[var |-> x, key |-> call[t].tmp, cb |-> call[t].cb]}
  /\ writer' = [writer EXCEPT ![x] = None]
  /\ call' = [call EXCEPT ![t] = Idle]
  /\ UNCHANGED <<val, cbs, readers, told, events, ops, torn>>

\* Mutant: delListener takes the read lock.
DelListenerShared(t, h) ==
  /\ t \in Removers /\ call[t].pc = "idle"
  /\ CanRead(h.var)
  /\ cbs' = [cbs EXCEPT ![h.var] =
               [k \in Keys |-> IF k = h.key THEN None ELSE @[k]]]
  /\ handles' = handles \ {h}
  /\ UNCHANGED <<val, key, readers, writer, call, told, events, ops, torn>>

\* delListener(key), called with a key addListener returned.
DelListener(t, h) ==
  /\ t \in Removers /\ call[t].pc = "idle"
  /\ CanWrite(h.var)
  /\ cbs' = [cbs EXCEPT ![h.var] =
               [k \in Keys |-> IF k = h.key THEN None ELSE @[k]]]
  /\ handles' = handles \ {h}
  /\ UNCHANGED <<val, key, readers, writer, call, told, events, ops, torn>>

ClearListener(t, x) ==
  /\ t \in Removers /\ call[t].pc = "idle"
  /\ CanWrite(x)
  /\ cbs' = [cbs EXCEPT ![x] = [k \in Keys |-> None]]
  /\ handles' = {h \in handles : h.var # x}
  /\ UNCHANGED <<val, key, readers, writer, call, told, events, ops, torn>>

----------------------------------------------------------------------------
Step(t) ==
  \/ Notify(t) \/ ListenerThrows(t) \/ SetLeave(t) \/ SetStore(t)
  \/ AddRead(t) \/ AddReturn(t)

Next ==
  \E t \in Threads :
    \/ Step(t)
    \/ \E x \in Vars, v \in Values : SetEnter(t, x, v)
    \/ \E x \in Vars, cb \in Callbacks : AddEnter(t, x, cb)
    \/ \E h \in handles : DelListener(t, h)
    \/ \E x \in Vars : ClearListener(t, x)

Spec == Init /\ [][Next]_vars

\* The operating system runs every runnable thread: a call in progress goes on.
\* Nobody has to start a call.
FairSpec == Spec /\ \A t \in Threads : WF_vars(Step(t))

----------------------------------------------------------------------------
\* While setValue loops over the listeners, neither the map it iterates nor
\* the old value it hands out changes, whatever the other threads call
\* (config.hpp:275-279: the loop relies on the read lock alone).
IterationStable ==
  [][\A t \in Threads, x \in Vars :
       Busy(t, x, {"notify"}) => val'[x] = val[x] /\ cbs'[x] = cbs[x]]_vars

\* The key addListener returned is the key its callback is stored under, until
\* the caller gives it to delListener or clears the listeners (config.hpp:286
\* "return key"), although all variables of a type draw their keys from one
\* counter.  It does not hold from the moment on at which two addListener calls
\* on variables of one type overlap: each holds the lock of its own variable,
\* and the counter (config.hpp:287-290) has none (AlwaysFound of MCConfigVar).
HandleFindsListener ==
  \A h \in handles : TypeOf[h.var] \notin torn =>
    h.key \in Keys /\ cbs[h.var][h.key] = h.cb

\* When a setValue that no other setValue of the variable overlapped stores its
\* value, every listener has been called, the last time with exactly this
\* change, unless it was added meanwhile (ReadMe.md:186, and the old_val and
\* new_val of on_change_cb).
ChangeIsAnnounced ==
  [][\A x \in Vars : val'[x] # val[x] /\ events[x] \cap {"overlap", "late"} = {} =>
       \A k \in Registered(x) : told[x][k] = [old |-> val[x], new |-> val'[x]]]_vars

\* Between calls of setValue, what a listener was last told is the value: a
\* component that mirrors the configuration through its listener, as the
\* logger does, is up to date after every setValue that neither overlapped
\* another one nor was ended by a listener that threw.
ListenersUpToDate ==
  \A x \in Vars : \A k \in Registered(x) :
    /\ told[x][k] # None
    /\ ~Setting(x) /\ events[x] \cap {"overlap", "throw"} = {}
    => told[x][k].new = val[x]

\* Every call that has started returns.
CallsReturn == \A t \in Threads : call[t].pc # "idle" ~> call[t].pc = "idle"
============================================================================
