------------------------------- MODULE Config -------------------------------
(***************************************************************************)
(* The registry of include/config.hpp and src/config.cpp: Lookup, which    *)
(* creates a ConfigVar or finds it, Visit and LoadFromYaml, by several     *)
(* threads, with the callbacks of Visit and the change listeners of        *)
(* ConfigVar::setValue calling back into the registry.                     *)
(*                                                                         *)
(* Visit holds the registry's lock for reading while its callback runs,    *)
(* setValue holds the variable's lock for reading while the listeners run, *)
(* which may set other variables: the calls of setValue a thread is in     *)
(* form a stack, and it holds the lock of each of them that notifies.      *)
(* A lock that is taken and given back in between is part of one step.     *)
(***************************************************************************)
EXTENDS Integers, Sequences

CONSTANTS
  Threads,
  Loaders,    \* threads that call LoadFromYaml
  Names,      \* names of variables, as sequences of keys
  Invalid,    \* those Lookup rejects: characters outside a-z 0-9 . _
  Lower,      \* tolower() on the keys of documents
  Types,
  ValuesOf,   \* the values of each type
  Default,    \* the default_val given for each type
  Docs,       \* documents, as lists of [key, val]
  VisitDoes,  \* what callbacks of Visit do: "none", "set", "find", "create"
  ListenDoes, \* what listeners do: "none", "find", "create", "set", "throw"
  Sets,       \* the types of the variables that listeners of each type set
  MaxVars,    \* bound: ConfigVar objects
  MaxOps,     \* bound: calls of each thread
  None        \* no thread, no type, no value

ASSUME ConfigAssumption ==
  /\ Loaders \subseteq Threads /\ Invalid \subseteq Names
  /\ MaxVars \in Nat /\ MaxOps \in Nat
  /\ \A T \in Types : Default[T] \in ValuesOf[T] /\ None \notin ValuesOf[T]
  /\ None \notin Threads /\ None \notin Types
  /\ VisitDoes \subseteq {"none", "set", "find", "create"} /\ VisitDoes # {}
  /\ ListenDoes \subseteq {"none", "find", "create", "set", "throw"} /\ ListenDoes # {}
  /\ Sets \in [Types -> SUBSET Types]

Member == UNION {{d[k] : k \in DOMAIN d} : d \in Docs}

ASSUME DocsAssumption == Docs \subseteq Seq(Member)

VARIABLES
  data,     \* s_data: name -> object, 0 where the map has no entry
  type,     \* the T of each ConfigVar object, None if not created yet
  val,      \* its m_val
  visitors, \* threads that hold the registry's lock for reading over a Visit
  creator,  \* thread that holds it for writing, or None
  listens,  \* per object, threads that hold its lock for reading in setValue
  outer,    \* Visit or LoadFromYaml each thread is in
  set,      \* the calls of setValue it is in, the innermost first
  look,     \* the Lookup it is in
  got,      \* what Lookup has returned: [name, type, obj]
  goal,     \* what the last LoadFromYaml has to leave in each object, or None
  ops       \* calls begun by each thread

vars == <<data, type, val, visitors, creator, listens, outer, set, look, got, goal, ops>>

Objs   == 1 .. MaxVars
Values == UNION {ValuesOf[T] : T \in Types}

Outer == [pc : {"idle", "visit", "load"}, seen : SUBSET Names, doc : Seq(Member)]
Set   == [pc : {"listen", "leave", "store"}, obj : Objs, new : Values]
Look  == [pc : {"idle", "find", "create", "insert"}, name : Names \cup {None},
          type : Types \cup {None}, found : Nat]

NoOuter == [pc |-> "idle", seen |-> {}, doc |-> <<>>]
NoLook  == [pc |-> "idle", name |-> None, type |-> None, found |-> 0]

TypeOK ==
  /\ data \in [Names -> 0 .. MaxVars]
  /\ type \in [Objs -> Types \cup {None}]
  /\ val \in [Objs -> Values \cup {None}]
  /\ \A o \in Objs : IF type[o] = None THEN val[o] = None ELSE val[o] \in ValuesOf[type[o]]
  /\ visitors \subseteq Threads /\ creator \in Threads \cup {None}
  /\ listens \in [Objs -> SUBSET Threads]
  /\ outer \in [Threads -> Outer] /\ set \in [Threads -> Seq(Set)] /\ look \in [Threads -> Look]
  /\ got \subseteq [name : Names, type : Types, obj : Objs]
  /\ goal \in [Objs -> Values \cup {None}]
  /\ ops \in [Threads -> 0 .. MaxOps]

Init ==
  /\ data = [n \in Names |-> 0]
  /\ type = [o \in Objs |-> None] /\ val = [o \in Objs |-> None]
  /\ visitors = {} /\ creator = None /\ listens = [o \in Objs |-> {}]
  /\ outer = [t \in Threads |-> NoOuter]
  /\ set = [t \in Threads |-> <<>>] /\ look = [t \in Threads |-> NoLook]
  /\ got = {} /\ goal = [o \in Objs |-> None]
  /\ ops = [t \in Threads |-> 0]

Known(n) == IF n \in Names THEN data[n] ELSE 0
\* The text v of a document converts to the type of o.
Fits(o, v) == v \in ValuesOf[type[o]]

\* The thread is in no call at all; in no setValue and no Lookup.
Idle(t)  == outer[t].pc = "idle" /\ set[t] = <<>> /\ look[t].pc = "idle"
Top(t)   == set[t] = <<>> /\ look[t].pc = "idle"
Begin(t) == Idle(t) /\ ops[t] < MaxOps /\ ops' = [ops EXCEPT ![t] = @ + 1]

\* The registry's lock can be had for reading, for writing.
CanRead  == creator = None
CanWrite == creator = None /\ visitors = {}

\* A Lookup of a name and type begins, from the program or a callback.
Ask(t, op) ==
  \E n \in Names, T \in Types :
    look' = [look EXCEPT ![t] = [NoLook EXCEPT !.pc = op, !.name = n, !.type = T]]

----------------------------------------------------------------------------
(* Lookup(name): the object, if its type is T.                             *)
Find(t) ==
  LET q == look[t]
      o == data[q.name]
  IN
  /\ q.pc = "find" /\ CanRead
  /\ got' = IF o # 0 /\ type[o] = q.type
            THEN got \cup {[name |-> q.name, type |-> q.type, obj |-> o]} ELSE got
  /\ look' = [look EXCEPT ![t] = NoLook]
  /\ UNCHANGED <<data, type, val, visitors, creator, listens, outer, set, goal, ops>>

(* Lookup(name, default_val): the name is looked for under the write lock. *)
\* Mutant: under the read lock, which is given back before the insertion.
CreateReads(t) ==
  /\ look[t].pc = "create" /\ CanRead
  /\ look' = [look EXCEPT ![t].pc = "insert", ![t].found = data[look[t].name]]
  /\ UNCHANGED <<data, type, val, visitors, creator, listens, outer, set, got, goal, ops>>

Create(t) ==
  /\ look[t].pc = "create" /\ CanWrite
  /\ creator' = t
  /\ look' = [look EXCEPT ![t].pc = "insert", ![t].found = data[look[t].name]]
  /\ UNCHANGED <<data, type, val, visitors, listens, outer, set, got, goal, ops>>

Created(t) ==
  /\ look[t].pc = "insert"
  /\ creator' = None
  /\ look' = [look EXCEPT ![t] = NoLook]
  /\ UNCHANGED <<visitors, listens, outer, set, goal, ops>>

\* There already: the object, or nullptr if its type is another one; the
\* message of that case reads the value under the variable's lock, which is
\* left out, as Store is one step and holds that lock over it (config.hpp:336).
\* A name that is not valid is rejected with an exception.
CreateExisting(t) ==
  LET q == look[t] IN
  /\ Created(t) /\ q.found # 0
  /\ got' = IF type[q.found] = q.type
            THEN got \cup {[name |-> q.name, type |-> q.type, obj |-> q.found]} ELSE got
  /\ UNCHANGED <<data, type, val>>

CreateRejected(t) ==
  /\ Created(t) /\ look[t].found = 0 /\ look[t].name \in Invalid
  /\ UNCHANGED <<data, type, val, got>>

CreateNew(t) ==
  LET q == look[t] IN
  /\ Created(t) /\ q.found = 0 /\ q.name \notin Invalid
  /\ \E o \in Objs :
       /\ type[o] = None /\ \A p \in Objs : p < o => type[p] # None
       /\ type' = [type EXCEPT ![o] = q.type]
       /\ val' = [val EXCEPT ![o] = Default[q.type]]
       /\ data' = [data EXCEPT ![q.name] = o]
       /\ got' = got \cup {[name |-> q.name, type |-> q.type, obj |-> o]}

----------------------------------------------------------------------------
(* setValue: the listeners run under the read lock, the value is stored    *)
(* under the write lock afterwards.                                        *)
\* t calls setValue(v) of o on top of the calls in stack.
Enter(t, o, v, stack) ==
  IF val[o] = v
  THEN set' = [set EXCEPT ![t] = stack] /\ UNCHANGED listens
  ELSE /\ set' = [set EXCEPT ![t] = <<[pc |-> "listen", obj |-> o, new |-> v]>> \o stack]
       /\ listens' = [listens EXCEPT ![o] = @ \cup {t}]

\* The innermost setValue of t is at pc, and no Lookup is on top of it.
At(t, pc) == set[t] # <<>> /\ Head(set[t]).pc = pc /\ look[t].pc = "idle"
\* A stack has a setValue of o: o's lock is held once more for each of them.
Calls(stack, o) == \E k \in DOMAIN stack : stack[k].obj = o
Moved(t, pc) == <<[Head(set[t]) EXCEPT !.pc = pc]>> \o Tail(set[t])

\* A listener calls Lookup, once.
ListenerLooks(t) ==
  /\ At(t, "listen")
  /\ \E op \in ListenDoes \cap {"find", "create"} : Ask(t, op)
  /\ set' = [set EXCEPT ![t] = Moved(t, "leave")]
  /\ UNCHANGED <<data, type, val, visitors, creator, listens, outer, got, goal, ops>>

\* A listener sets another variable: the lock of its own stays held.
ListenerSets(t) ==
  /\ At(t, "listen") /\ "set" \in ListenDoes
  /\ \E p \in Objs : /\ type[p] \in Sets[type[Head(set[t]).obj]]
                     /\ \E v \in ValuesOf[type[p]] : Enter(t, p, v, Moved(t, "leave"))
  /\ UNCHANGED <<data, type, val, visitors, creator, outer, look, got, goal, ops>>

\* What the calls in t's stack set is not what its document says any more.
Spoilt(t) == [o \in Objs |-> IF Calls(set[t], o) THEN None ELSE goal[o]]

\* Mutant: the lock is kept when a listener throws.
ListenerThrowsLocked(t) ==
  /\ At(t, "listen") /\ "throw" \in ListenDoes
  /\ set' = [set EXCEPT ![t] = <<>>]
  /\ goal' = Spoilt(t)
  /\ UNCHANGED <<data, type, val, visitors, creator, listens, outer, look, got, ops>>

\* A listener throws: the exception leaves every setValue of the stack, none
\* of which stores, and fromString, which called the outermost, catches it.
ListenerThrows(t) ==
  /\ At(t, "listen") /\ "throw" \in ListenDoes
  /\ listens' = [o \in Objs |-> listens[o] \ {t}]
  /\ set' = [set EXCEPT ![t] = <<>>]
  /\ goal' = Spoilt(t)
  /\ UNCHANGED <<data, type, val, visitors, creator, outer, look, got, ops>>

ListenersDone(t) ==
  /\ \/ At(t, "listen") /\ "none" \in ListenDoes
     \/ At(t, "leave")
  /\ listens' = IF Calls(Tail(set[t]), Head(set[t]).obj)
                THEN listens ELSE [listens EXCEPT ![Head(set[t]).obj] = @ \ {t}]
  /\ set' = [set EXCEPT ![t] = Moved(t, "store")]
  /\ UNCHANGED <<data, type, val, visitors, creator, outer, look, got, goal, ops>>

\* The value is stored under the write lock.
Store(t) ==
  LET f == Head(set[t]) IN
  /\ At(t, "store") /\ listens[f.obj] = {}
  /\ val' = [val EXCEPT ![f.obj] = f.new]
  /\ set' = [set EXCEPT ![t] = Tail(@)]
  /\ goal' = IF t \in Loaders /\ Tail(set[t]) = <<>> THEN goal ELSE [goal EXCEPT ![f.obj] = None]
  /\ UNCHANGED <<data, type, visitors, creator, listens, outer, look, got, ops>>

----------------------------------------------------------------------------
(* Visit: the callback is called for the entries of the map as it finds    *)
(* them, under the registry's read lock.                                   *)
\* Mutant: the lock is not taken.
VisitUnlocked(t) ==
  /\ Begin(t) /\ CanRead
  /\ outer' = [outer EXCEPT ![t] = [NoOuter EXCEPT !.pc = "visit"]]
  /\ UNCHANGED <<data, type, val, visitors, creator, listens, set, look, got, goal>>

Visit(t) ==
  /\ Begin(t) /\ CanRead
  /\ visitors' = visitors \cup {t}
  /\ outer' = [outer EXCEPT ![t] = [NoOuter EXCEPT !.pc = "visit"]]
  /\ UNCHANGED <<data, type, val, creator, listens, set, look, got, goal>>

Unseen(t) == {n \in Names : data[n] # 0} \ outer[t].seen

VisitNext(t) ==
  /\ outer[t].pc = "visit" /\ Top(t)
  /\ \E n \in Unseen(t) :
       /\ outer' = [outer EXCEPT ![t].seen = @ \cup {n}]
       /\ \/ "none" \in VisitDoes /\ UNCHANGED <<set, look, listens>>
          \/ /\ "set" \in VisitDoes
             /\ \E v \in ValuesOf[type[data[n]]] : Enter(t, data[n], v, <<>>)
             /\ UNCHANGED look
          \/ /\ \E op \in VisitDoes \cap {"find", "create"} : Ask(t, op)
             /\ UNCHANGED <<set, listens>>
  /\ UNCHANGED <<data, type, val, visitors, creator, got, goal, ops>>

\* Mutant: the lock is kept.
VisitReturnLocked(t) ==
  /\ outer[t].pc = "visit" /\ Top(t) /\ Unseen(t) = {}
  /\ outer' = [outer EXCEPT ![t] = NoOuter]
  /\ UNCHANGED <<data, type, val, visitors, creator, listens, set, look, got, goal, ops>>

VisitReturn(t) ==
  /\ outer[t].pc = "visit" /\ Top(t) /\ Unseen(t) = {}
  /\ visitors' = visitors \ {t}
  /\ outer' = [outer EXCEPT ![t] = NoOuter]
  /\ UNCHANGED <<data, type, val, creator, listens, set, look, got, goal, ops>>

----------------------------------------------------------------------------
(* LoadFromYaml: each member of the document goes to the variable of its   *)
(* name, in lower case, if there is one; each LookupBase locks for itself. *)
LowerName(key) == [k \in DOMAIN key |-> Lower[key[k]]]

\* What doc makes of object o: the last member of its name that converts.
Said(doc, o) ==
  LET at == {k \in DOMAIN doc : /\ doc[k].key # <<>> /\ Known(LowerName(doc[k].key)) = o
                                /\ Fits(o, doc[k].val)}
  IN IF at = {} THEN val[o] ELSE doc[CHOOSE k \in at : \A j \in at : j <= k].val

Load(t, doc) ==
  /\ t \in Loaders /\ Begin(t)
  /\ outer' = [outer EXCEPT ![t] = [NoOuter EXCEPT !.pc = "load", !.doc = doc]]
  /\ goal' = [o \in Objs |-> IF type[o] = None THEN None ELSE Said(doc, o)]
  /\ UNCHANGED <<data, type, val, visitors, creator, listens, set, look, got>>

\* Mutant: the name is looked up as the document spells it.
LoadNextAsSpelt(t) ==
  LET p == Head(outer[t].doc)
      o == Known(p.key)
  IN
  /\ outer[t].pc = "load" /\ Top(t) /\ outer[t].doc # <<>> /\ CanRead
  /\ outer' = [outer EXCEPT ![t].doc = Tail(@)]
  /\ IF p.key # <<>> /\ o # 0 /\ Fits(o, p.val)
     THEN Enter(t, o, p.val, <<>>) ELSE UNCHANGED <<set, listens>>
  /\ UNCHANGED <<data, type, val, visitors, creator, look, got, goal, ops>>

\* fromString returns false for a text that does not convert.
LoadNext(t) ==
  LET p == Head(outer[t].doc)
      o == Known(LowerName(p.key))
  IN
  /\ outer[t].pc = "load" /\ Top(t) /\ outer[t].doc # <<>> /\ CanRead
  /\ outer' = [outer EXCEPT ![t].doc = Tail(@)]
  /\ IF p.key # <<>> /\ o # 0 /\ Fits(o, p.val)
     THEN Enter(t, o, p.val, <<>>) ELSE UNCHANGED <<set, listens>>
  /\ UNCHANGED <<data, type, val, visitors, creator, look, got, goal, ops>>

LoadReturn(t) ==
  /\ outer[t].pc = "load" /\ Top(t) /\ outer[t].doc = <<>>
  /\ outer' = [outer EXCEPT ![t] = NoOuter]
  /\ UNCHANGED <<data, type, val, visitors, creator, listens, set, look, got, goal, ops>>

\* The program calls Lookup.
Lookup(t) ==
  /\ Begin(t)
  /\ \E op \in {"find", "create"} : Ask(t, op)
  /\ UNCHANGED <<data, type, val, visitors, creator, listens, outer, set, got, goal>>

Looking(t) == Find(t) \/ Create(t) \/ CreateExisting(t) \/ CreateRejected(t) \/ CreateNew(t)
Setting(t) == ListenerLooks(t) \/ ListenerSets(t) \/ ListenerThrows(t) \/ ListenersDone(t) \/ Store(t)
Going(t)   == VisitNext(t) \/ VisitReturn(t) \/ LoadNext(t) \/ LoadReturn(t)
Begins(t)  == (t \notin Loaders /\ Visit(t)) \/ Lookup(t) \/ \E doc \in Docs : Load(t, doc)

Next == \E t \in Threads : Looking(t) \/ Setting(t) \/ Going(t) \/ Begins(t)

Spec == Init /\ [][Next]_vars

\* A thread in a call goes on as soon as it can.
Inside(t) == Looking(t) \/ Setting(t) \/ Going(t)
FairSpec == Spec /\ \A t \in Threads : WF_vars(Inside(t))

----------------------------------------------------------------------------
(* All that Lookup returns for one name is one object of one type, however *)
(* the threads that create it race: nobody keeps a variable that a load    *)
(* does not reach.                                                         *)
OneVarPerName ==
  \A g, h \in got : g.name = h.name => g.obj = h.obj /\ g.obj = data[h.name]

(* The map does not change under a Visit that iterates it.                 *)
VisitStable == [][\A t \in Threads : outer[t].pc = "visit" => data' = data]_vars

(* ReadMe.md:174: after LoadFromYaml the variables that were registered    *)
(* have the document's values, those it does not name keep theirs; a text  *)
(* that does not convert and a listener that throws spoil only their own   *)
(* variable.  For a single loader, and variables no Visit sets meanwhile.  *)
LoadApplied ==
  \A t \in Loaders : Idle(t) => \A o \in Objs : goal[o] # None => val[o] = goal[o]

(* Every call comes back: the callbacks' calls into the registry never     *)
(* wait in a circle.                                                       *)
CallsReturn == \A t \in Threads : ~Idle(t) ~> Idle(t)
=============================================================================
