--------------------------- MODULE ConfigProofs ---------------------------
(* Proofs about Config, for any threads, names, types, documents and        *)
(* callbacks: what the registry's lock guarantees, and what a load leaves    *)
(* in the variables when one thread loads.                                  *)
EXTENDS Config, FiniteSetTheorems, WellFoundedInduction, TLAPS

\* The types of what the proofs are about; a Lookup has a name and a type.
Shape ==
  /\ data \in [Names -> Nat]
  /\ look \in [Threads -> Look]
  /\ outer \in [Threads -> Outer]
  /\ \A t \in Threads : look[t].pc # "idle" => look[t].name \in Names /\ look[t].type \in Types

\* The threads inside Visit hold the registry's lock for reading, a thread
\* that inserts holds it for writing, and a writer is alone.
LockInv ==
  /\ visitors = {t \in Threads : outer[t].pc = "visit"}
  /\ \A t \in Threads : look[t].pc = "insert" => creator = t
  /\ creator # None => visitors = {}

\* What an inserting thread has found is still so, and what a Lookup has
\* returned is still registered.
FoundInv ==
  /\ \A t \in Threads : look[t].pc = "insert" => look[t].found = data[look[t].name]
  /\ \A g \in got : g.name \in Names /\ g.obj # 0 /\ g.obj = data[g.name]

Inv == Shape /\ LockInv /\ FoundInv

\* Nothing of the registry and no Lookup changes, and no Visit begins or ends.
LEMMA QuietFrame ==
  ASSUME Inv, UNCHANGED <<data, look, visitors, creator, got>>,
         outer' \in [Threads -> Outer],
         \A t \in Threads : outer'[t].pc = "visit" <=> outer[t].pc = "visit"
  PROVE  Inv'
BY DEF Inv, Shape, LockInv, FoundInv

\* A Lookup begins, from the program or from a callback.
LEMMA AskFrame ==
  ASSUME NEW t \in Threads, NEW op \in {"find", "create"}, Ask(t, op),
         Inv, UNCHANGED <<data, visitors, creator, got>>,
         outer' \in [Threads -> Outer],
         \A u \in Threads : outer'[u].pc = "visit" <=> outer[u].pc = "visit"
  PROVE  Inv'
<1>1. PICK n \in Names, T \in Types :
        look' = [look EXCEPT ![t] = [NoLook EXCEPT !.pc = op, !.name = n, !.type = T]]
  BY DEF Ask
<1>2. [NoLook EXCEPT !.pc = op, !.name = n, !.type = T] \in Look
  BY DEF NoLook, Look
<1>3. /\ look' \in [Threads -> Look]
      /\ look'[t].pc = op /\ look'[t].name = n /\ look'[t].type = T
      /\ \A u \in Threads : u # t => look'[u] = look[u]
  BY <1>1, <1>2 DEF Inv, Shape, NoLook
<1>4. op # "insert"
  OBVIOUS
<1>5. Shape'
  BY <1>3 DEF Inv, Shape
<1>6. LockInv'
  BY <1>3, <1>4 DEF Inv, LockInv
<1>7. FoundInv'
  BY <1>3, <1>4 DEF Inv, FoundInv
<1> QED
  BY <1>5, <1>6, <1>7 DEF Inv

\* A Lookup returns to the thread that made it.
LEMMA LookReturns ==
  ASSUME NEW t \in Threads, Inv, look' = [look EXCEPT ![t] = NoLook]
  PROVE  /\ look' \in [Threads -> Look] /\ look'[t].pc = "idle"
         /\ \A u \in Threads : u # t => look'[u] = look[u]
<1>1. NoLook \in Look /\ NoLook.pc = "idle"
  BY DEF NoLook, Look
<1> QED
  BY <1>1 DEF Inv, Shape

\* A creation ends without a new variable.
LEMMA CreatedFrame ==
  ASSUME NEW t \in Threads, Inv, Created(t), UNCHANGED data,
         \A g \in got' : g \in got \/ (g.name \in Names /\ g.obj # 0 /\ g.obj = data[g.name])
  PROVE  Inv'
<1> USE ConfigAssumption
<1>1. creator = t /\ creator' = None /\ visitors' = visitors /\ outer' = outer
  BY DEF Created, Inv, LockInv
<1>2. /\ look' \in [Threads -> Look] /\ look'[t].pc = "idle"
      /\ \A u \in Threads : u # t => look'[u] = look[u]
  BY LookReturns DEF Created
<1>3. \A u \in Threads : look'[u].pc # "insert"
  BY <1>1, <1>2 DEF Inv, LockInv
<1>4. Shape'
  BY <1>1, <1>2 DEF Inv, Shape
<1>5. LockInv'
  BY <1>1, <1>3, <1>2 DEF Inv, LockInv
<1>6. FoundInv'
  BY <1>3 DEF Inv, FoundInv
<1> QED
  BY <1>4, <1>5, <1>6 DEF Inv

----------------------------------------------------------------------------
\* Each of the calls keeps the invariant.
LEMMA LookingKeeps ==
  ASSUME NEW t \in Threads, Inv, Looking(t)
  PROVE  Inv'
<1> USE ConfigAssumption
<1>1. CASE Find(t)
  <2>1. /\ look' \in [Threads -> Look] /\ look'[t].pc = "idle"
        /\ \A u \in Threads : u # t => look'[u] = look[u]
    BY <1>1, LookReturns DEF Find
  <2>2. look[t].name \in Names
    BY <1>1 DEF Find, Inv, Shape
  <2>3. \A g \in got' : g.name \in Names /\ g.obj # 0 /\ g.obj = data[g.name]
    BY <1>1, <2>2 DEF Find, Inv, FoundInv
  <2> QED
    BY <1>1, <2>1, <2>3 DEF Find, Inv, Shape, LockInv, FoundInv
<1>2. CASE Create(t)
  <2>1. look[t].name \in Names /\ look[t].type \in Types /\ look[t] \in Look
    BY <1>2 DEF Create, Inv, Shape
  <2>2. data[look[t].name] \in Nat
    BY <2>1 DEF Inv, Shape
  <2>3. [look[t] EXCEPT !.pc = "insert", !.found = data[look[t].name]] \in Look
    BY <2>1, <2>2 DEF Look
  <2>4. /\ look' \in [Threads -> Look]
        /\ look'[t] = [look[t] EXCEPT !.pc = "insert", !.found = data[look[t].name]]
        /\ \A u \in Threads : u # t => look'[u] = look[u]
    BY <1>2, <2>3 DEF Create, Inv, Shape
  <2>5. /\ look'[t].pc = "insert" /\ look'[t].found = data[look[t].name]
        /\ look'[t].name = look[t].name /\ look'[t].type = look[t].type
    BY <2>1, <2>4 DEF Look
  <2>6. \A u \in Threads : look[u].pc # "insert"
    BY <1>2 DEF Create, CanWrite, Inv, LockInv
  <2> QED
    BY <1>2, <2>1, <2>4, <2>5, <2>6 DEF Create, CanWrite, Inv, Shape, LockInv, FoundInv
<1>3. CASE CreateExisting(t)
  <2>1. look[t].found = data[look[t].name] /\ look[t].name \in Names
    BY <1>3 DEF CreateExisting, Created, Inv, Shape, FoundInv
  <2>2. \A g \in got' : g \in got \/ (g.name \in Names /\ g.obj # 0 /\ g.obj = data[g.name])
    BY <1>3, <2>1 DEF CreateExisting
  <2> QED
    BY <1>3, <2>2, CreatedFrame DEF CreateExisting
<1>4. CASE CreateRejected(t)
  BY <1>4, CreatedFrame DEF CreateRejected
<1>5. CASE CreateNew(t)
  <2>1. /\ creator = t /\ creator' = None /\ visitors' = visitors /\ outer' = outer
        /\ look[t].name \in Names /\ data[look[t].name] = 0
    BY <1>5 DEF CreateNew, Created, Inv, Shape, LockInv, FoundInv
  <2>2. /\ look' \in [Threads -> Look] /\ look'[t].pc = "idle"
        /\ \A u \in Threads : u # t => look'[u] = look[u]
    BY <1>5, LookReturns DEF CreateNew, Created
  <2>3. \A u \in Threads : look'[u].pc # "insert"
    BY <2>1, <2>2 DEF Inv, LockInv
  <2>4. PICK o \in Objs :
          /\ data' = [data EXCEPT ![look[t].name] = o]
          /\ got' = got \cup {[name |-> look[t].name, type |-> look[t].type, obj |-> o]}
    BY <1>5 DEF CreateNew
  <2>5. o \in Nat /\ o # 0
    BY DEF Objs
  <2>6. data' \in [Names -> Nat] /\ data'[look[t].name] = o
        /\ \A n \in Names : n # look[t].name => data'[n] = data[n]
    BY <2>1, <2>4, <2>5 DEF Inv, Shape
  <2>7. \A g \in got : g.name \in Names /\ g.obj # 0 /\ g.obj = data'[g.name]
    BY <2>1, <2>6 DEF Inv, FoundInv
  <2>8. FoundInv'
    BY <2>1, <2>3, <2>4, <2>5, <2>6, <2>7 DEF FoundInv
  <2>9. Shape'
    BY <2>1, <2>2, <2>6 DEF Inv, Shape
  <2>10. LockInv'
    BY <2>1, <2>3 DEF Inv, LockInv
  <2> QED
    BY <2>8, <2>9, <2>10 DEF Inv
<1> QED
  BY <1>1, <1>2, <1>3, <1>4, <1>5 DEF Looking

LEMMA SettingKeeps ==
  ASSUME NEW t \in Threads, Inv, Setting(t)
  PROVE  Inv'
<1>1. CASE ListenerLooks(t)
  BY <1>1, AskFrame DEF ListenerLooks, Inv, Shape
<1>2. CASE ListenerSets(t) \/ ListenerThrows(t) \/ ListenersDone(t) \/ Store(t)
  <2>1. UNCHANGED <<data, look, visitors, creator, got, outer>>
    BY <1>2 DEF ListenerSets, ListenerThrows, ListenersDone, Store
  <2> QED
    BY <2>1, QuietFrame DEF Inv, Shape
<1> QED
  BY <1>1, <1>2 DEF Setting

LEMMA GoingKeeps ==
  ASSUME NEW t \in Threads, Inv, Going(t)
  PROVE  Inv'
<1> USE ConfigAssumption
<1>0. outer[t] \in Outer
  BY DEF Inv, Shape
<1>1. CASE VisitNext(t)
  <2>1. PICK n \in Unseen(t) :
          /\ outer' = [outer EXCEPT ![t].seen = @ \cup {n}]
          /\ \/ UNCHANGED look
             \/ \E op \in {"find", "create"} : Ask(t, op)
    BY <1>1 DEF VisitNext
  <2>2. UNCHANGED <<data, visitors, creator, got>>
    BY <1>1 DEF VisitNext
  <2>3. [outer[t] EXCEPT !.seen = @ \cup {n}] \in Outer
    BY <1>0 DEF Outer, Unseen
  <2>4. outer' \in [Threads -> Outer] /\ \A u \in Threads : outer'[u].pc = outer[u].pc
    BY <1>0, <2>1, <2>3 DEF Inv, Shape, Outer
  <2>5. CASE UNCHANGED look
    BY <2>2, <2>4, <2>5, QuietFrame
  <2>6. ASSUME NEW op \in {"find", "create"}, Ask(t, op)
        PROVE  Inv'
    BY <2>2, <2>4, <2>6, AskFrame
  <2> QED
    BY <2>1, <2>5, <2>6
<1>2. CASE VisitReturn(t)
  <2>1. NoOuter \in Outer /\ NoOuter.pc = "idle"
    BY DEF NoOuter, Outer
  <2>2. outer' \in [Threads -> Outer] /\ outer'[t].pc = "idle"
        /\ \A u \in Threads : u # t => outer'[u] = outer[u]
    BY <1>2, <2>1 DEF VisitReturn, Inv, Shape
  <2>3. visitors' = visitors \ {t} /\ UNCHANGED <<data, look, creator, got>>
    BY <1>2 DEF VisitReturn
  <2> QED
    BY <2>2, <2>3 DEF Inv, Shape, LockInv, FoundInv
<1>3. CASE LoadNext(t)
  <2>0. outer[t].doc \in Seq(Member) /\ outer[t].doc # <<>>
    BY <1>0, <1>3 DEF Outer, LoadNext
  <2>1. [outer[t] EXCEPT !.doc = Tail(@)] \in Outer
    <3>1. Tail(outer[t].doc) \in Seq(Member)
      BY <2>0
    <3> QED
      BY <1>0, <3>1 DEF Outer
  <2>2. outer' \in [Threads -> Outer] /\ \A u \in Threads : outer'[u].pc = outer[u].pc
    BY <1>0, <1>3, <2>1 DEF LoadNext, Inv, Shape, Outer
  <2> QED
    BY <1>3, <2>2, QuietFrame DEF LoadNext
<1>4. CASE LoadReturn(t)
  <2>1. NoOuter \in Outer /\ NoOuter.pc = "idle"
    BY DEF NoOuter, Outer
  <2>2. outer' \in [Threads -> Outer] /\ outer'[t].pc = "idle" /\ outer[t].pc = "load"
        /\ \A u \in Threads : u # t => outer'[u] = outer[u]
    BY <1>4, <2>1 DEF LoadReturn, Inv, Shape
  <2>3. \A u \in Threads : outer'[u].pc = "visit" <=> outer[u].pc = "visit"
    BY <2>2
  <2> QED
    BY <1>4, <2>2, <2>3, QuietFrame DEF LoadReturn
<1> QED
  BY <1>1, <1>2, <1>3, <1>4 DEF Going

LEMMA BeginsKeeps ==
  ASSUME NEW t \in Threads, Inv, Begins(t)
  PROVE  Inv'
<1> USE ConfigAssumption, DocsAssumption
<1>1. CASE Visit(t)
  <2>1. [NoOuter EXCEPT !.pc = "visit"] \in Outer
    <3>1. NoOuter \in Outer
      BY DEF NoOuter, Outer
    <3> QED
      BY <3>1 DEF Outer
  <2>2. outer' \in [Threads -> Outer] /\ outer'[t].pc = "visit"
        /\ \A u \in Threads : u # t => outer'[u] = outer[u]
    BY <1>1, <2>1 DEF Visit, NoOuter, Inv, Shape
  <2> QED
    BY <1>1, <2>2 DEF Visit, CanRead, Inv, Shape, LockInv, FoundInv
<1>2. CASE Lookup(t)
  BY <1>2, AskFrame DEF Lookup, Inv, Shape
<1>3. ASSUME NEW doc \in Docs, Load(t, doc) PROVE Inv'
  <2>1. doc \in Seq(Member)
    OBVIOUS
  <2>2. [NoOuter EXCEPT !.pc = "load", !.doc = doc] \in Outer
    BY <2>1 DEF NoOuter, Outer
  <2>3. outer' \in [Threads -> Outer] /\ outer'[t].pc = "load" /\ outer[t].pc = "idle"
        /\ \A u \in Threads : u # t => outer'[u] = outer[u]
    BY <1>3, <2>2 DEF Load, Begin, Idle, NoOuter, Inv, Shape
  <2>4. \A u \in Threads : outer'[u].pc = "visit" <=> outer[u].pc = "visit"
    BY <2>3
  <2> QED
    BY <1>3, <2>3, <2>4, QuietFrame DEF Load
<1> QED
  BY <1>1, <1>2, <1>3 DEF Begins

LEMMA InvHolds == Spec => []Inv
<1>1. Init => Inv
  BY ConfigAssumption DEF Init, Inv, Shape, LockInv, FoundInv, NoLook, Look, NoOuter, Outer
<1>2. Inv /\ [Next]_vars => Inv'
  <2> SUFFICES ASSUME Inv, [Next]_vars PROVE Inv'
    OBVIOUS
  <2>1. CASE Next
    BY <2>1, LookingKeeps, SettingKeeps, GoingKeeps, BeginsKeeps DEF Next
  <2>2. CASE UNCHANGED vars
    BY <2>2 DEF vars, Inv, Shape, LockInv, FoundInv
  <2> QED
    BY <2>1, <2>2
<1> QED
  BY <1>1, <1>2, PTL DEF Spec

----------------------------------------------------------------------------
\* However many threads create, look up, visit and load at once, all that
\* Lookup returns for a name is the one variable registered under it
\* (config.hpp:318-349).
THEOREM NamesUnique == Spec => []OneVarPerName
<1>1. Inv => OneVarPerName
  BY DEF Inv, FoundInv, OneVarPerName
<1> QED
  BY <1>1, InvHolds, PTL

\* While a Visit iterates the registry no thread adds a variable to it
\* (config.cpp:47-53).
THEOREM VisitsUndisturbed == Spec => VisitStable
<1>1. Inv /\ [Next]_vars => [\A t \in Threads : outer[t].pc = "visit" => data' = data]_vars
  <2> SUFFICES ASSUME Inv, [Next]_vars, NEW t \in Threads, outer[t].pc = "visit"
               PROVE  data' = data
    OBVIOUS
  <2>1. \A u \in Threads : look[u].pc # "insert"
    BY ConfigAssumption DEF Inv, LockInv
  <2>2. CASE Next
    <3>1. PICK u \in Threads : Looking(u) \/ Setting(u) \/ Going(u) \/ Begins(u)
      BY <2>2 DEF Next
    <3>2. ~Created(u)
      BY <2>1 DEF Created
    <3>3. CASE Looking(u)
      BY <3>2, <3>3 DEF Looking, Find, Create, CreateExisting, CreateRejected, CreateNew
    <3>4. CASE Setting(u)
      BY <3>4 DEF Setting, ListenerLooks, ListenerSets, ListenerThrows, ListenersDone, Store
    <3>5. CASE Going(u)
      BY <3>5 DEF Going, VisitNext, VisitReturn, LoadNext, LoadReturn
    <3>6. CASE Begins(u)
      BY <3>6 DEF Begins, Visit, Lookup, Load
    <3> QED
      BY <3>1, <3>3, <3>4, <3>5, <3>6
  <2>3. CASE UNCHANGED vars
    BY <2>3 DEF vars
  <2> QED
    BY <2>2, <2>3
<1> QED
  BY <1>1, InvHolds, PTL DEF Spec, VisitStable
----------------------------------------------------------------------------
\* What the proof about loads needs of the types: the variable of every call of
\* setValue exists.
StackOK(st) == st \in Seq(Set) /\ \A k \in DOMAIN st : type[st[k].obj] # None

Typed ==
  /\ data \in [Names -> 0 .. MaxVars] /\ type \in [Objs -> Types \cup {None}]
  /\ \A n \in Names : data[n] # 0 => type[data[n]] # None
  /\ val = [o \in Objs |-> val[o]] /\ goal = [o \in Objs |-> goal[o]]
  /\ set \in [Threads -> Seq(Set)] /\ \A t \in Threads : StackOK(set[t])

\* The value that the outermost call of a stack gives to o, v if it is not of o.
Bottom(st, o, v) ==
  IF st # <<>> /\ st[Len(st)].obj = o THEN st[Len(st)].new ELSE v

\* What the members of doc make of o, whose value is v.
Means(m, o) == m.key # <<>> /\ Known(LowerName(m.key)) = o /\ Fits(o, m.val)
After(doc, o, v) ==
  LET at == {k \in DOMAIN doc : Means(doc[k], o)}
  IN  IF at = {} THEN v ELSE doc[CHOOSE k \in at : \A j \in at : j <= k].val

\* The loader s: what is left of its document brings about what it promised.
LoaderInv(s) ==
  /\ outer[s].pc \in {"idle", "load"}
  /\ outer[s].pc = "idle" => outer[s].doc = <<>> /\ set[s] = <<>>
GoalInv(s) ==
  \A o \in Objs : goal[o] # None =>
    /\ type[o] # None
    /\ goal[o] = After(outer[s].doc, o, Bottom(set[s], o, val[o]))

\* What is left of a stack when its innermost call is done.
LEMMA StackType ==
  ASSUME NEW st, StackOK(st), st # <<>>
  PROVE  /\ Head(st) \in Set /\ type[Head(st).obj] # None /\ StackOK(Tail(st))
         /\ Len(st) \in Nat \ {0}
         /\ \A o, v : Tail(st) = <<>> => Bottom(st, o, v) = IF Head(st).obj = o THEN Head(st).new ELSE v
         /\ \A o, v : Tail(st) # <<>> => Bottom(Tail(st), o, v) = Bottom(st, o, v)
<1> DEFINE r == Tail(st)
<1>1. /\ st \in Seq(Set) /\ Len(st) \in Nat \ {0} /\ Head(st) = st[1] /\ 1 \in DOMAIN st
      /\ Head(st) \in Set
  BY DEF StackOK
<1>2. /\ r \in Seq(Set) /\ Len(r) = Len(st) - 1
      /\ \A k \in 1 .. Len(r) : r[k] = st[k + 1] /\ k + 1 \in DOMAIN st
  BY <1>1
<1> HIDE DEF r
<1>3. StackOK(r) /\ type[Head(st).obj] # None
  <2>1. \A k \in DOMAIN st : type[st[k].obj] # None
    BY DEF StackOK
  <2>2. DOMAIN r = 1 .. Len(r)
    BY <1>2
  <2>3. \A k \in DOMAIN r : type[r[k].obj] # None
    BY <1>2, <2>1, <2>2
  <2> QED
    BY <1>1, <1>2, <2>1, <2>3 DEF StackOK
<1>4. r = <<>> => Len(st) = 1
  BY <1>1, <1>2
<1>5. r # <<>> => r[Len(r)] = st[Len(st)]
  <2>1. r # <<>> => Len(r) # 0
    BY <1>2
  <2> QED
    BY <1>1, <1>2, <2>1
<1>6. st # <<>>
  OBVIOUS
<1>7. \A o, v : r = <<>> => Bottom(st, o, v) = IF Head(st).obj = o THEN Head(st).new ELSE v
  BY <1>1, <1>4, <1>6 DEF Bottom
<1>8. \A o, v : r # <<>> => Bottom(r, o, v) = Bottom(st, o, v)
  BY <1>5, <1>6 DEF Bottom
<1> QED
  BY <1>1, <1>3, <1>7, <1>8 DEF r

\* A call on top of a stack.
LEMMA StackPush ==
  ASSUME NEW st, StackOK(st), NEW f \in Set, type[f.obj] # None
  PROVE  /\ StackOK(<<f>> \o st) /\ <<f>> \o st # <<>>
         /\ \A o, v : st = <<>> => Bottom(<<f>> \o st, o, v) = IF f.obj = o THEN f.new ELSE v
         /\ \A o, v : st # <<>> => Bottom(<<f>> \o st, o, v) = Bottom(st, o, v)
<1> DEFINE q == <<f>> \o st
<1>1. st \in Seq(Set) /\ Len(st) \in Nat
  BY DEF StackOK
<1>2. /\ q \in Seq(Set) /\ Len(q) = Len(st) + 1 /\ q[1] = f
      /\ \A k \in 2 .. Len(q) : q[k] = st[k - 1] /\ k - 1 \in DOMAIN st
  BY <1>1
<1> HIDE DEF q
<1>3. StackOK(q)
  <2>1. ASSUME NEW k \in DOMAIN q PROVE type[q[k].obj] # None
    <3>1. k = 1 \/ k \in 2 .. Len(q)
      BY <1>1, <1>2
    <3> QED
      BY <1>2, <3>1 DEF StackOK
  <2> QED
    BY <1>2, <2>1 DEF StackOK
<1>4. q # <<>>
  BY <1>1, <1>2
<1>5. st = <<>> => Len(q) = 1
  BY <1>2
<1>6. st # <<>> => q[Len(q)] = st[Len(st)]
  <2>1. st # <<>> => Len(st) # 0
    BY <1>1
  <2> QED
    BY <1>1, <1>2, <2>1
<1>7. \A o, v : st = <<>> => Bottom(q, o, v) = IF f.obj = o THEN f.new ELSE v
  BY <1>2, <1>4, <1>5 DEF Bottom
<1>8. \A o, v : st # <<>> => Bottom(q, o, v) = Bottom(st, o, v)
  BY <1>4, <1>6 DEF Bottom
<1> QED
  BY <1>3, <1>4, <1>7, <1>8 DEF q

\* The innermost call goes on.
LEMMA StackMoved ==
  ASSUME Typed, NEW t \in Threads, set[t] # <<>>, NEW pc \in {"listen", "leave", "store"}
  PROVE  /\ StackOK(Moved(t, pc)) /\ Moved(t, pc) # <<>>
         /\ \A o, v : Bottom(Moved(t, pc), o, v) = Bottom(set[t], o, v)
<1> DEFINE f == [Head(set[t]) EXCEPT !.pc = pc]
           r == Tail(set[t])
<1>1. StackOK(set[t])
  BY DEF Typed
<1>2. f \in Set /\ f.obj = Head(set[t]).obj /\ f.new = Head(set[t]).new
  BY <1>1, StackType DEF Set
<1>3. Moved(t, pc) = <<f>> \o r
  BY DEF Moved
<1>4. /\ StackOK(r) /\ type[Head(set[t]).obj] # None
      /\ \A o, v : r = <<>> =>
           Bottom(set[t], o, v) = IF Head(set[t]).obj = o THEN Head(set[t]).new ELSE v
      /\ \A o, v : r # <<>> => Bottom(r, o, v) = Bottom(set[t], o, v)
  BY <1>1, StackType
<1> HIDE DEF f, r
<1>5. /\ StackOK(<<f>> \o r) /\ <<f>> \o r # <<>>
      /\ \A o, v : r = <<>> => Bottom(<<f>> \o r, o, v) = IF f.obj = o THEN f.new ELSE v
      /\ \A o, v : r # <<>> => Bottom(<<f>> \o r, o, v) = Bottom(r, o, v)
  BY <1>2, <1>4, StackPush
<1> QED
  BY <1>2, <1>3, <1>4, <1>5

\* A call of setValue leaves the stack as it was, or puts itself on top.
LEMMA EnterDoes ==
  ASSUME Typed, NEW t \in Threads, NEW o \in Objs, NEW v \in ValuesOf[type[o]], type[o] # None,
         NEW st, StackOK(st), Enter(t, o, v, st)
  PROVE  /\ \A u \in Threads : u # t => set'[u] = set[u]
         /\ set' \in [Threads -> Seq(Set)] /\ StackOK(set'[t])
         /\ \/ val[o] = v /\ set'[t] = st
            \/ set'[t] = <<[pc |-> "listen", obj |-> o, new |-> v]>> \o st
<1> DEFINE f == [pc |-> "listen", obj |-> o, new |-> v]
<1>1. f \in Set /\ f.obj = o
  BY DEF Set, Values, Typed
<1> HIDE DEF f
<1>2. StackOK(<<f>> \o st)
  BY <1>1, StackPush
<1>3. (val[o] = v /\ set' = [set EXCEPT ![t] = st]) \/ set' = [set EXCEPT ![t] = <<f>> \o st]
  BY DEF Enter, f
<1>4. st \in Seq(Set) /\ <<f>> \o st \in Seq(Set)
  BY <1>2 DEF StackOK
<1> QED
  BY <1>2, <1>3, <1>4 DEF Typed, f

\* A set of numbers has a least one, a bounded one a greatest.
LEMMA LeastOf ==
  ASSUME NEW S, S \subseteq Nat, S # {}
  PROVE  \E k \in S : \A j \in S : k <= j
<1> DEFINE upTo == {0 .. k : k \in S}
           R    == StrictSubsetOrdering(Nat)
<1>1. \A k \in Nat : 0 .. k \in FiniteSubsetsOf(Nat)
  <2> SUFFICES ASSUME NEW k \in Nat PROVE IsFiniteSet(0 .. k)
    BY DEF FiniteSubsetsOf
  <2> QED
    BY FS_Interval
<1>2. upTo \subseteq FiniteSubsetsOf(Nat) /\ upTo # {}
  BY <1>1
<1>3. \E X \in upTo : \A Y \in upTo : ~(<<Y, X>> \in R)
  <2> HIDE DEF upTo, R
  <2>1. IsWellFoundedOn(R, FiniteSubsetsOf(Nat))
    BY FS_StrictSubsetOrderingWellFounded DEF R
  <2> QED
    BY <1>2, <2>1, WFMin
<1>4. PICK k \in S : \A j \in S : ~(<<0 .. j, 0 .. k>> \in R)
  BY <1>3
<1>5. ASSUME NEW j \in S PROVE k <= j
  <2> SUFFICES ASSUME j < k PROVE FALSE
    BY <1>5
  <2>1. 0 .. j \subseteq 0 .. k /\ k \in 0 .. k /\ k \notin 0 .. j
    BY <1>5
  <2>2. <<0 .. j, 0 .. k>> \in R
    BY <2>1 DEF StrictSubsetOrdering
  <2> QED
    BY <1>4, <2>2
<1> QED
  BY <1>5

LEMMA GreatestOf ==
  ASSUME NEW n \in Nat, NEW S, S \subseteq 1 .. n, S # {}
  PROVE  \E k \in S : \A j \in S : j <= k
<1> DEFINE T == {n - k : k \in S}
<1>1. T \subseteq Nat /\ T # {}
  <2>1. ASSUME NEW k \in S PROVE n - k \in Nat
    <3>1. k \in 1 .. n
      OBVIOUS
    <3> QED
      BY <3>1
  <2> QED
    BY <2>1
<1>2. PICK m \in T : \A j \in T : m <= j
  <2> HIDE DEF T
  <2> QED
    BY <1>1, LeastOf
<1>3. PICK k \in S : m = n - k
  BY <1>2
<1>4. \A j \in S : j \in Int /\ n - j \in T
  OBVIOUS
<1>5. \A j \in S : j <= k
  BY <1>2, <1>3, <1>4
<1> QED
  BY <1>5

\* The last of the members of doc that name o.
LastOf(doc, o, k) ==
  /\ k \in DOMAIN doc /\ Means(doc[k], o)
  /\ \A j \in DOMAIN doc : Means(doc[j], o) => j <= k

\* What a document makes of a variable, by the last member that names it.
LEMMA AfterIs ==
  ASSUME NEW X, NEW doc \in Seq(X), NEW o, NEW v
  PROVE  /\ \A k : LastOf(doc, o, k) => After(doc, o, v) = doc[k].val
         /\ (\A k \in DOMAIN doc : ~Means(doc[k], o)) => After(doc, o, v) = v
         /\ (\E k : LastOf(doc, o, k)) \/ (\A k \in DOMAIN doc : ~Means(doc[k], o))
<1> DEFINE at == {k \in DOMAIN doc : Means(doc[k], o)}
<1>1. at \subseteq 1 .. Len(doc) /\ Len(doc) \in Nat
  OBVIOUS
<1>2. After(doc, o, v) = IF at = {} THEN v ELSE doc[CHOOSE k \in at : \A j \in at : j <= k].val
  BY DEF After
<1>3. ASSUME NEW k, LastOf(doc, o, k) PROVE After(doc, o, v) = doc[k].val
  <2>1. k \in at /\ \A j \in at : j <= k
    BY <1>3 DEF LastOf
  <2> HIDE DEF at
  <2>2. \A i \in at : (\A j \in at : j <= i) => i = k
    BY <1>1, <2>1
  <2>3. (CHOOSE i \in at : \A j \in at : j <= i) = k
    BY <2>1, <2>2
  <2> QED
    BY <1>2, <2>1, <2>3
<1>4. (\A k \in DOMAIN doc : ~Means(doc[k], o)) => After(doc, o, v) = v
  BY <1>2
<1>5. at # {} => \E k : LastOf(doc, o, k)
  <2>1. at # {} => \E k \in at : \A j \in at : j <= k
    <3> HIDE DEF at
    <3> QED
      BY <1>1, GreatestOf
  <2> QED
    BY <2>1 DEF LastOf
<1> QED
  BY <1>3, <1>4, <1>5

\* The next member of a document is carried over.
LEMMA AfterNext ==
  ASSUME NEW X, NEW doc \in Seq(X), doc # <<>>, NEW o, NEW v
  PROVE  After(doc, o, v) =
           After(Tail(doc), o, IF Means(Head(doc), o) THEN Head(doc).val ELSE v)
<1> DEFINE r == Tail(doc)
           w == IF Means(Head(doc), o) THEN Head(doc).val ELSE v
<1>1. /\ r \in Seq(X) /\ Len(doc) \in Nat \ {0} /\ Len(r) = Len(doc) - 1
      /\ \A k \in 1 .. Len(r) : r[k] = doc[k + 1]
      /\ Head(doc) = doc[1]
  OBVIOUS
<1> HIDE DEF r
<1>2. /\ DOMAIN doc = 1 .. Len(doc) /\ DOMAIN r = 1 .. Len(r)
      /\ \A k \in DOMAIN r : k + 1 \in DOMAIN doc /\ r[k] = doc[k + 1]
      /\ \A k \in DOMAIN doc : k = 1 \/ (k - 1 \in DOMAIN r /\ r[k - 1] = doc[k])
  BY <1>1
<1>3. ASSUME NEW k, LastOf(r, o, k) PROVE After(doc, o, v) = After(r, o, w)
  <2>1. k \in DOMAIN r /\ k \in Nat /\ Means(r[k], o) /\ \A j \in DOMAIN r : Means(r[j], o) => j <= k
    BY <1>2, <1>3 DEF LastOf
  <2>2. k + 1 \in DOMAIN doc /\ doc[k + 1] = r[k]
    BY <1>2, <2>1
  <2>3. \A j \in DOMAIN doc : Means(doc[j], o) => j <= k + 1
    <3> SUFFICES ASSUME NEW j \in DOMAIN doc, Means(doc[j], o) PROVE j <= k + 1
      OBVIOUS
    <3>1. CASE j = 1
      BY <2>1, <3>1
    <3>2. CASE j # 1
      <4>1. j - 1 \in DOMAIN r /\ Means(r[j - 1], o) /\ j \in Int
        BY <1>2, <3>2
      <4>2. j - 1 <= k
        BY <2>1, <4>1
      <4> QED
        BY <2>1, <4>1, <4>2
    <3> QED
      BY <3>1, <3>2
  <2>4. LastOf(doc, o, k + 1)
    BY <2>1, <2>2, <2>3 DEF LastOf
  <2>5. After(doc, o, v) = doc[k + 1].val
    BY <2>4, AfterIs
  <2>6. After(r, o, w) = r[k].val
    BY <1>1, <1>3, AfterIs
  <2> QED
    BY <2>2, <2>5, <2>6
<1>4. ASSUME \A k \in DOMAIN r : ~Means(r[k], o) PROVE After(doc, o, v) = After(r, o, w)
  <2>1. After(r, o, w) = w
    BY <1>1, <1>4, AfterIs
  <2>2. \A k \in DOMAIN doc : Means(doc[k], o) => k = 1
    BY <1>2, <1>4
  <2>3. CASE Means(doc[1], o)
    <3>1. LastOf(doc, o, 1)
      BY <1>1, <1>2, <2>2, <2>3 DEF LastOf
    <3>2. After(doc, o, v) = doc[1].val
      BY <3>1, AfterIs
    <3> QED
      BY <1>1, <2>1, <2>3, <3>2
  <2>4. CASE ~Means(doc[1], o)
    <3>1. After(doc, o, v) = v
      BY <2>2, <2>4, AfterIs
    <3> QED
      BY <1>1, <2>1, <2>4, <3>1
  <2> QED
    BY <2>3, <2>4
<1>5. After(doc, o, v) = After(r, o, w)
  BY <1>1, <1>3, <1>4, AfterIs
<1> QED
  BY <1>5 DEF r

\* A step after which the document and the variables are where they were.
LEMMA GoalMove ==
  ASSUME NEW s, GoalInv(s), outer'[s].doc = outer[s].doc,
         \A o \in Objs : type[o] # None =>
           type'[o] = type[o] /\ \A m : Means(m, o)' <=> Means(m, o),
         \A o \in Objs : goal'[o] # None =>
           goal'[o] = goal[o] /\ Bottom(set'[s], o, val'[o]) = Bottom(set[s], o, val[o])
  PROVE  GoalInv(s)'
<1> SUFFICES ASSUME NEW o \in Objs, goal'[o] # None
             PROVE  type'[o] # None /\ goal'[o] = After(outer[s].doc, o, Bottom(set[s], o, val[o]))'
  BY DEF GoalInv
<1> DEFINE doc == outer[s].doc
           v == Bottom(set[s], o, val[o])
<1>1. goal'[o] = goal[o] /\ type[o] # None /\ goal[o] = After(doc, o, v)
  BY DEF GoalInv
<1>2. doc' = doc /\ v' = v
  BY DEF Bottom
<1>3. \A m : Means(m, o)' <=> Means(m, o)
  BY <1>1
<1> HIDE DEF doc, v
<1> DEFINE at == {k \in DOMAIN doc : Means(doc[k], o)}
<1>4. After(doc, o, v)' = After(doc, o, v)
  <2>1. at' = at
    BY <1>2, <1>3
  <2>2. After(doc, o, v) = IF at = {} THEN v ELSE doc[CHOOSE k \in at : \A j \in at : j <= k].val
    BY DEF After
  <2>3. After(doc, o, v)' =
          IF at' = {} THEN v' ELSE doc'[CHOOSE k \in at' : \A j \in at' : j <= k].val
    BY DEF After
  <2> HIDE DEF at
  <2> QED
    BY <1>2, <2>1, <2>2, <2>3
<1> QED
  BY <1>1, <1>4 DEF doc, v

\* A step that changes the stack of one thread, and no variable's type.
LEMMA TypedMove ==
  ASSUME Typed, UNCHANGED <<data, type>>,
         val' = [o \in Objs |-> val'[o]], goal' = [o \in Objs |-> goal'[o]],
         set' \in [Threads -> Seq(Set)], NEW t \in Threads,
         \A u \in Threads : u # t => set'[u] = set[u], StackOK(set'[t])
  PROVE  Typed'
<1>1. ASSUME NEW u \in Threads PROVE StackOK(set[u])'
  <2>1. StackOK(set'[u])
    BY DEF Typed
  <2> QED
    BY <2>1 DEF StackOK
<1> QED
  BY <1>1 DEF Typed

LEMMA EmptyStack == StackOK(<<>>)
<1>1. <<>> \in Seq(Set) /\ DOMAIN <<>> = {}
  OBVIOUS
<1> QED
  BY <1>1 DEF StackOK

LEMMA ObjOf ==
  ASSUME Typed, NEW n, Known(n) # 0
  PROVE  Known(n) \in Objs /\ type[Known(n)] # None /\ n \in Names /\ Known(n) = data[n]
<1>1. n \in Names /\ Known(n) = data[n] /\ data[n] \in 0 .. MaxVars /\ MaxVars \in Nat
  BY ConfigAssumption DEF Known, Typed
<1> QED
  BY <1>1 DEF Typed, Objs

\* The steps of setValue and its listeners, as far as stacks and values go.
LEMMA SettingTyped ==
  ASSUME NEW t \in Threads, Typed, Setting(t)
  PROVE  Typed'
<1> DEFINE st == set[t]
<1>0. st # <<>> /\ StackOK(st) /\ Head(st) \in Set /\ type[Head(st).obj] # None /\ StackOK(Tail(st))
  <2>1. st # <<>> /\ StackOK(st)
    BY DEF Setting, ListenerLooks, ListenerSets, ListenerThrows, ListenersDone, Store, At, Typed
  <2> QED
    BY <2>1, StackType
<1>1. CASE ListenerLooks(t) \/ ListenersDone(t)
  <2>1. PICK pc \in {"leave", "store"} : set' = [set EXCEPT ![t] = Moved(t, pc)]
    BY <1>1 DEF ListenerLooks, ListenersDone
  <2>2. StackOK(Moved(t, pc))
    BY <1>0, <2>1, StackMoved
  <2>3. UNCHANGED <<data, type, val, goal>>
    BY <1>1 DEF ListenerLooks, ListenersDone
  <2>4. /\ set' \in [Threads -> Seq(Set)] /\ set'[t] = Moved(t, pc)
        /\ \A u \in Threads : u # t => set'[u] = set[u]
    BY <2>1, <2>2 DEF Typed, StackOK
  <2> QED
    BY <2>2, <2>3, <2>4, TypedMove DEF Typed
<1>2. CASE ListenerSets(t)
  <2>1. PICK p \in Objs : /\ type[p] \in Sets[type[Head(set[t]).obj]]
                          /\ \E v \in ValuesOf[type[p]] : Enter(t, p, v, Moved(t, "leave"))
    BY <1>2 DEF ListenerSets
  <2>2. type[p] # None
    <3>1. type[Head(st).obj] \in Types
      BY <1>0 DEF Typed, Set
    <3> QED
      BY <2>1, <3>1, ConfigAssumption DEF ConfigAssumption
  <2>3. StackOK(Moved(t, "leave"))
    BY <1>0, StackMoved
  <2>4. /\ \A u \in Threads : u # t => set'[u] = set[u]
        /\ set' \in [Threads -> Seq(Set)] /\ StackOK(set'[t])
    BY <2>1, <2>2, <2>3, EnterDoes
  <2> QED
    BY <1>2, <2>4, TypedMove DEF ListenerSets, Typed
<1>3. CASE ListenerThrows(t)
  <2>1. /\ set' = [set EXCEPT ![t] = <<>>] /\ goal' = [o \in Objs |-> goal'[o]]
        /\ UNCHANGED <<data, type, val>>
    BY <1>3 DEF ListenerThrows, Spoilt
  <2>2. set' \in [Threads -> Seq(Set)] /\ StackOK(set'[t])
        /\ \A u \in Threads : u # t => set'[u] = set[u]
    BY <2>1, EmptyStack DEF Typed
  <2> QED
    BY <2>1, <2>2, TypedMove DEF Typed
<1>4. CASE Store(t)
  <2>1. /\ set' = [set EXCEPT ![t] = Tail(set[t])] /\ val' = [val EXCEPT ![Head(set[t]).obj] = Head(set[t]).new]
        /\ goal' = goal \/ goal' = [goal EXCEPT ![Head(set[t]).obj] = None]
        /\ UNCHANGED <<data, type>>
    BY <1>4 DEF Store
  <2>2. set' \in [Threads -> Seq(Set)] /\ StackOK(set'[t])
        /\ \A u \in Threads : u # t => set'[u] = set[u]
    BY <1>0, <2>1 DEF Typed, StackOK
  <2>3. val' = [o \in Objs |-> val'[o]] /\ goal' = [o \in Objs |-> goal'[o]]
    BY <2>1 DEF Typed
  <2> QED
    BY <2>1, <2>2, <2>3, TypedMove
<1> QED
  BY <1>1, <1>2, <1>3, <1>4 DEF Setting

\* A Visit or a load sets a variable.
LEMMA OuterSets ==
  ASSUME NEW t \in Threads, Typed, NEW o \in Objs, type[o] # None, NEW v \in ValuesOf[type[o]],
         Enter(t, o, v, <<>>), UNCHANGED <<data, type, val, goal>>
  PROVE  Typed'
<1>1. /\ \A u \in Threads : u # t => set'[u] = set[u]
      /\ set' \in [Threads -> Seq(Set)] /\ StackOK(set'[t])
  BY EmptyStack, EnterDoes
<1> QED
  BY <1>1, TypedMove DEF Typed

LEMMA TypedKept ==
  ASSUME Inv, Typed, [Next]_vars
  PROVE  Typed'
<1>1. CASE UNCHANGED <<data, type, val, goal, set>>
  BY <1>1 DEF Typed, StackOK
<1>2. ASSUME NEW t \in Threads, CreateNew(t) PROVE Typed'
  <2>1. look[t].name \in Names /\ look[t].type \in Types /\ UNCHANGED <<set, goal>>
    BY <1>2 DEF CreateNew, Created, Inv, Shape
  <2>2. PICK o \in Objs :
          /\ type[o] = None
          /\ type' = [type EXCEPT ![o] = look[t].type]
          /\ val' = [val EXCEPT ![o] = Default[look[t].type]]
          /\ data' = [data EXCEPT ![look[t].name] = o]
    BY <1>2 DEF CreateNew
  <2>3. look[t].type # None
    BY <2>1, ConfigAssumption
  <2>4. data' \in [Names -> 0 .. MaxVars]
    BY <2>1, <2>2 DEF Typed, Objs
  <2>5. type' \in [Objs -> Types \cup {None}] /\ \A p \in Objs : type[p] # None => type'[p] # None
    BY <2>1, <2>2 DEF Typed
  <2>6. ASSUME NEW n \in Names, data'[n] # 0 PROVE type'[data'[n]] # None
    <3>1. CASE n = look[t].name
      <4>1. data'[n] = o /\ type'[o] = look[t].type
        BY <2>1, <2>2, <3>1 DEF Typed
      <4> QED
        BY <2>3, <4>1
    <3>2. CASE n # look[t].name
      <4>1. data'[n] = data[n] /\ data[n] # 0
        BY <2>2, <2>6, <3>2 DEF Typed
      <4>2. Known(n) = data[n]
        BY DEF Known
      <4> QED
        BY <2>5, <4>1, <4>2, ObjOf
    <3> QED
      BY <3>1, <3>2
  <2>7. ASSUME NEW u \in Threads PROVE StackOK(set[u])'
    <3>1. StackOK(set[u])
      BY DEF Typed
    <3>2. \A k \in DOMAIN set[u] : set[u][k].obj \in Objs
      <4>1. set[u] \in Seq(Set) /\ \A f \in Set : f.obj \in Objs
        BY DEF Typed, Set
      <4> HIDE DEF Set
      <4> QED
        BY <4>1
    <3> QED
      BY <2>1, <2>5, <3>1, <3>2 DEF StackOK
  <2>8. val' = [p \in Objs |-> val'[p]]
    BY <2>2 DEF Typed
  <2> QED
    BY <2>1, <2>4, <2>5, <2>6, <2>7, <2>8 DEF Typed
<1>3. ASSUME NEW t \in Threads, Looking(t) PROVE Typed'
  <2>1. CASE Find(t) \/ Create(t) \/ CreateExisting(t) \/ CreateRejected(t)
    BY <1>1, <2>1 DEF Find, Create, CreateExisting, CreateRejected, Created
  <2> QED
    BY <1>2, <1>3, <2>1 DEF Looking
<1>4. ASSUME NEW t \in Threads, VisitNext(t) PROVE Typed'
  <2>0. UNCHANGED <<data, type, val, goal>>
    BY <1>4 DEF VisitNext
  <2>1. PICK n \in Unseen(t) :
          \/ UNCHANGED set
          \/ \E v \in ValuesOf[type[data[n]]] : Enter(t, data[n], v, <<>>)
    BY <1>4 DEF VisitNext
  <2>2. data[n] \in Objs /\ type[data[n]] # None
    <3>1. n \in Names /\ data[n] # 0 /\ Known(n) = data[n]
      BY DEF Unseen, Known
    <3> QED
      BY <3>1, ObjOf
  <2> QED
    BY <1>1, <2>0, <2>1, <2>2, OuterSets
<1>5. ASSUME NEW t \in Threads, LoadNext(t) PROVE Typed'
  <2> DEFINE p == Head(outer[t].doc)
             o == Known(LowerName(p.key))
  <2>1. /\ UNCHANGED <<data, type, val, goal>>
        /\ UNCHANGED set \/ (o # 0 /\ Fits(o, p.val) /\ Enter(t, o, p.val, <<>>))
    BY <1>5 DEF LoadNext
  <2>2. o # 0 => o \in Objs /\ type[o] # None
    BY ObjOf
  <2> HIDE DEF o, p
  <2> QED
    BY <1>1, <2>1, <2>2, OuterSets DEF Fits
<1>6. ASSUME NEW t \in Threads, NEW doc \in Docs, Load(t, doc) PROVE Typed'
  <2>1. UNCHANGED <<data, type, val, set>> /\ goal' = [o \in Objs |-> goal'[o]]
    BY <1>6 DEF Load
  <2> QED
    BY <2>1 DEF Typed, StackOK
<1>7. ASSUME NEW t \in Threads, VisitReturn(t) \/ LoadReturn(t) \/ Visit(t) \/ Lookup(t) PROVE Typed'
  BY <1>1, <1>7 DEF VisitReturn, LoadReturn, Visit, Lookup
<1>8. CASE UNCHANGED vars
  BY <1>1, <1>8 DEF vars
<1> QED
  BY <1>3, <1>4, <1>5, <1>6, <1>7, <1>8, SettingTyped DEF Next, Going, Begins

\* What a variable is called, and what converts to its type, stays so.
LEMMA NamesKept ==
  ASSUME Inv, Typed, [Next]_vars, NEW o \in Objs, type[o] # None
  PROVE  type'[o] = type[o] /\ \A m : Means(m, o)' <=> Means(m, o)
<1>1. CASE UNCHANGED <<data, type>>
  BY <1>1 DEF Means, Known, Fits
<1>2. ASSUME NEW t \in Threads, CreateNew(t)
      PROVE  type'[o] = type[o] /\ \A m : Means(m, o)' <=> Means(m, o)
  <2>1. look[t].name \in Names /\ data[look[t].name] = 0
    BY <1>2 DEF CreateNew, Created, Inv, Shape, FoundInv
  <2>2. PICK p \in Objs :
          /\ type[p] = None
          /\ type' = [type EXCEPT ![p] = look[t].type]
          /\ data' = [data EXCEPT ![look[t].name] = p]
    BY <1>2 DEF CreateNew
  <2>3. p # o /\ type'[o] = type[o] /\ o # 0
    BY <2>2 DEF Typed, Objs
  <2>4. ASSUME NEW n PROVE Known(n)' = o <=> Known(n) = o
    BY <2>1, <2>2, <2>3 DEF Known, Typed
  <2>5. ASSUME NEW m PROVE Means(m, o)' <=> Means(m, o)
    BY <2>3, <2>4 DEF Means, Fits
  <2> QED
    BY <2>3, <2>5
<1>3. UNCHANGED <<data, type>> \/ \E t \in Threads : CreateNew(t)
  BY DEF Next, vars, Looking, Setting, Going, Begins, Find, Create, CreateExisting, CreateRejected,
         Created, ListenerLooks, ListenerSets, ListenerThrows, ListenersDone, Store, VisitNext,
         VisitReturn, LoadNext, LoadReturn, Visit, Lookup, Load
<1> QED
  BY <1>1, <1>2, <1>3

\* Only Store, and the creation of a variable, change a value.
LEMMA GoalFrame ==
  ASSUME NEW s, Inv, Typed, GoalInv(s), [Next]_vars, outer'[s].doc = outer[s].doc,
         \A o, v : Bottom(set'[s], o, v) = Bottom(set[s], o, v),
         \A o \in Objs : goal'[o] # None =>
           goal'[o] = goal[o] /\ (val'[o] = val[o] \/ type[o] = None)
  PROVE  GoalInv(s)'
<1>1. \A o \in Objs : type[o] # None =>
        type'[o] = type[o] /\ \A m : Means(m, o)' <=> Means(m, o)
  BY NamesKept
<1>2. ASSUME NEW o \in Objs, goal'[o] # None
      PROVE  goal'[o] = goal[o] /\ Bottom(set'[s], o, val'[o]) = Bottom(set[s], o, val[o])
  <2>1. goal'[o] = goal[o] /\ (val'[o] = val[o] \/ type[o] = None)
    BY <1>2
  <2>2. type[o] # None
    BY <1>2, <2>1 DEF GoalInv
  <2> QED
    BY <2>1, <2>2
<1> QED
  BY <1>1, <1>2, GoalMove

LEMMA CreatesNew ==
  ASSUME Typed, NEW t \in Threads, Looking(t)
  PROVE  /\ UNCHANGED <<set, outer, goal>>
         /\ \A o \in Objs : val'[o] = val[o] \/ type[o] = None
<1>1. CASE Find(t) \/ Create(t) \/ CreateExisting(t) \/ CreateRejected(t)
  BY <1>1 DEF Find, Create, CreateExisting, CreateRejected, Created
<1>2. CASE CreateNew(t)
  BY <1>2 DEF CreateNew, Created, Typed
<1> QED
  BY <1>1, <1>2 DEF Looking

\* A step of another thread than the loader.
LEMMA OtherKeeps ==
  ASSUME NEW s, Loaders = {s}, Inv, Typed, LoaderInv(s), GoalInv(s), [Next]_vars,
         NEW t \in Threads, t # s, Looking(t) \/ Setting(t) \/ Going(t) \/ Begins(t)
  PROVE  LoaderInv(s)' /\ GoalInv(s)'
<1>0. s \in Threads /\ set \in [Threads -> Seq(Set)] /\ outer \in [Threads -> Outer]
  BY ConfigAssumption DEF Typed, Inv, Shape
<1>1. outer'[s] = outer[s] /\ set'[s] = set[s]
  <2>1. ASSUME NEW o, NEW v, NEW st, Enter(t, o, v, st) PROVE set'[s] = set[s]
    BY <1>0, <2>1 DEF Enter
  <2>2. CASE Looking(t)
    BY <2>2, CreatesNew
  <2>3. CASE Setting(t)
    BY <1>0, <2>1, <2>3
       DEF Setting, ListenerLooks, ListenerSets, ListenerThrows, ListenersDone, Store
  <2>4. CASE Going(t)
    BY <1>0, <2>1, <2>4 DEF Going, VisitNext, VisitReturn, LoadNext, LoadReturn
  <2>5. CASE Begins(t)
    BY <1>0, <2>5 DEF Begins, Visit, Lookup, Load
  <2> QED
    BY <2>2, <2>3, <2>4, <2>5
<1>2. ASSUME NEW o \in Objs, goal'[o] # None
      PROVE  goal'[o] = goal[o] /\ (val'[o] = val[o] \/ type[o] = None)
  <2>1. CASE Looking(t)
    BY <2>1, CreatesNew
  <2>2. CASE Store(t)
    BY <1>2, <2>2 DEF Store, Typed
  <2>3. CASE ListenerThrows(t)
    BY <1>2, <2>3 DEF ListenerThrows, Spoilt
  <2>4. CASE ListenerLooks(t) \/ ListenerSets(t) \/ ListenersDone(t) \/ Going(t)
    BY <2>4 DEF ListenerLooks, ListenerSets, ListenersDone, Going, VisitNext, VisitReturn,
                LoadNext, LoadReturn
  <2>5. CASE Begins(t)
    BY <2>5 DEF Begins, Visit, Lookup, Load
  <2> QED
    BY <2>1, <2>2, <2>3, <2>4, <2>5 DEF Setting
<1>3. LoaderInv(s)'
  BY <1>1 DEF LoaderInv
<1> QED
  BY <1>1, <1>2, <1>3, GoalFrame

\* The loader's own calls of setValue.
LEMMA LoaderSets ==
  ASSUME NEW s \in Threads, Loaders = {s}, Inv, Typed, LoaderInv(s), GoalInv(s), [Next]_vars,
         Setting(s)
  PROVE  LoaderInv(s)' /\ GoalInv(s)'
<1> DEFINE st == set[s]
<1>0. /\ st # <<>> /\ StackOK(st) /\ set \in [Threads -> Seq(Set)]
      /\ Head(st) \in Set /\ StackOK(Tail(st))
      /\ \A o, v : Tail(st) = <<>> => Bottom(st, o, v) = IF Head(st).obj = o THEN Head(st).new ELSE v
      /\ \A o, v : Tail(st) # <<>> => Bottom(Tail(st), o, v) = Bottom(st, o, v)
  <2>1. st # <<>> /\ StackOK(st) /\ set \in [Threads -> Seq(Set)]
    BY DEF Setting, ListenerLooks, ListenerSets, ListenerThrows, ListenersDone, Store, At, Typed
  <2> QED
    BY <2>1, StackType
<1>1. UNCHANGED outer
  BY DEF Setting, ListenerLooks, ListenerSets, ListenerThrows, ListenersDone, Store
<1>2. LoaderInv(s)'
  BY <1>0, <1>1 DEF LoaderInv
<1>3. CASE ListenerLooks(s) \/ ListenersDone(s)
  <2>1. PICK pc \in {"leave", "store"} : set' = [set EXCEPT ![s] = Moved(s, pc)]
    BY <1>3 DEF ListenerLooks, ListenersDone
  <2>2. set'[s] = Moved(s, pc) /\ UNCHANGED <<val, goal>>
    BY <1>0, <1>3, <2>1 DEF ListenerLooks, ListenersDone
  <2>3. \A o, v : Bottom(set'[s], o, v) = Bottom(st, o, v)
    BY <1>0, <2>2, StackMoved
  <2> QED
    BY <1>1, <1>2, <2>2, <2>3, GoalFrame
<1>4. CASE ListenerSets(s)
  <2> DEFINE below == Moved(s, "leave")
  <2>0. StackOK(below) /\ below # <<>> /\ \A o, v : Bottom(below, o, v) = Bottom(st, o, v)
    BY <1>0, StackMoved
  <2>1. PICK p \in Objs : /\ type[p] \in Sets[type[Head(st).obj]]
                          /\ \E v \in ValuesOf[type[p]] : Enter(s, p, v, Moved(s, "leave"))
    BY <1>4 DEF ListenerSets
  <2>2. PICK v \in ValuesOf[type[p]] : Enter(s, p, v, below)
    BY <2>1
  <2>3. type[p] # None
    <3>1. type[Head(st).obj] \in Types
      BY <1>0, StackType DEF Typed, Set
    <3> QED
      BY <2>1, <3>1, ConfigAssumption DEF ConfigAssumption
  <2>4. UNCHANGED <<val, goal>>
    BY <1>4 DEF ListenerSets
  <2> HIDE DEF below
  <2> DEFINE f == [pc |-> "listen", obj |-> p, new |-> v]
  <2>5. f \in Set /\ f.obj = p
    BY <2>3 DEF Set, Values, Typed
  <2>6. set'[s] = below \/ set'[s] = <<f>> \o below
    BY <2>0, <2>2, <2>3, EnterDoes
  <2> HIDE DEF f
  <2>7. \A o, w : Bottom(<<f>> \o below, o, w) = Bottom(below, o, w)
    BY <2>0, <2>3, <2>5, StackPush
  <2>8. \A o, w : Bottom(set'[s], o, w) = Bottom(st, o, w)
    BY <2>0, <2>6, <2>7
  <2> QED
    BY <1>1, <1>2, <2>4, <2>8, GoalFrame
<1>5. CASE ListenerThrows(s)
  <2>1. set'[s] = <<>> /\ goal' = [o \in Objs |-> IF Calls(st, o) THEN None ELSE goal[o]]
        /\ UNCHANGED val
    BY <1>0, <1>5 DEF ListenerThrows, Spoilt
  <2>2. st[Len(st)].obj = st[Len(st)].obj /\ Len(st) \in DOMAIN st
    BY <1>0, StackType DEF StackOK
  <2>3. ASSUME NEW o \in Objs, goal'[o] # None
        PROVE  goal'[o] = goal[o] /\ Bottom(set'[s], o, val'[o]) = Bottom(set[s], o, val[o])
    <3>1. ~Calls(st, o) /\ goal'[o] = goal[o]
      BY <2>1, <2>3
    <3>2. st[Len(st)].obj # o
      BY <2>2, <3>1 DEF Calls
    <3> QED
      BY <2>1, <3>1, <3>2 DEF Bottom
  <2>4. \A o \in Objs : type[o] # None =>
          type'[o] = type[o] /\ \A m : Means(m, o)' <=> Means(m, o)
    BY NamesKept
  <2> QED
    BY <1>1, <1>2, <2>3, <2>4, GoalMove
<1>6. CASE Store(s)
  <2> DEFINE f == Head(st)
  <2>1. /\ set'[s] = Tail(st) /\ val' = [val EXCEPT ![f.obj] = f.new]
        /\ goal' = IF Tail(st) = <<>> THEN goal ELSE [goal EXCEPT ![f.obj] = None]
    BY <1>0, <1>6 DEF Store
  <2>2. ASSUME NEW o \in Objs, goal'[o] # None
        PROVE  goal'[o] = goal[o] /\ Bottom(set'[s], o, val'[o]) = Bottom(set[s], o, val[o])
    <3>1. CASE Tail(st) = <<>>
      <4>1. Bottom(set'[s], o, val'[o]) = val'[o]
        BY <2>1, <3>1 DEF Bottom
      <4>2. Bottom(st, o, val[o]) = IF f.obj = o THEN f.new ELSE val[o]
        BY <1>0, <3>1
      <4> QED
        BY <2>1, <3>1, <4>1, <4>2 DEF Typed
    <3>2. CASE Tail(st) # <<>>
      <4>1. o # f.obj /\ goal'[o] = goal[o] /\ val'[o] = val[o]
        BY <2>1, <2>2, <3>2 DEF Typed
      <4> QED
        BY <1>0, <2>1, <3>2, <4>1
    <3> QED
      BY <3>1, <3>2
  <2>3. \A o \in Objs : type[o] # None =>
          type'[o] = type[o] /\ \A m : Means(m, o)' <=> Means(m, o)
    BY NamesKept
  <2> QED
    BY <1>1, <1>2, <2>2, <2>3, GoalMove
<1> QED
  BY <1>3, <1>4, <1>5, <1>6 DEF Setting

\* A step after which the rest d of the document, read as it was before, still
\* brings about the goal.
LEMMA GoalStep ==
  ASSUME NEW s, NEW d, outer'[s].doc = d,
         \A o \in Objs : goal'[o] # None =>
           /\ type'[o] # None /\ \A m : Means(m, o)' <=> Means(m, o)
           /\ goal'[o] = After(d, o, Bottom(set'[s], o, val'[o]))
  PROVE  GoalInv(s)'
<1> SUFFICES ASSUME NEW o \in Objs, goal'[o] # None
             PROVE  type'[o] # None /\ goal'[o] = After(outer[s].doc, o, Bottom(set[s], o, val[o]))'
  BY DEF GoalInv
<1> DEFINE doc == outer[s].doc
           v   == Bottom(set[s], o, val[o])
           at  == {k \in DOMAIN doc : Means(doc[k], o)}
<1>0. \A m : Means(m, o)' <=> Means(m, o)
  OBVIOUS
<1>1. doc' = d /\ v' = Bottom(set'[s], o, val'[o])
  BY DEF Bottom
<1>2. at' = {k \in DOMAIN d : Means(d[k], o)}
  <2>1. at' = {k \in DOMAIN doc' : Means(doc[k], o)'}
    OBVIOUS
  <2>2. \A k : Means(doc[k], o)' <=> Means(doc'[k], o)
    BY <1>0 DEF Means, Known, Fits
  <2> HIDE DEF doc
  <2> QED
    BY <1>1, <2>1, <2>2
<1>3. After(doc, o, v)' =
        IF at' = {} THEN v' ELSE doc'[CHOOSE k \in at' : \A j \in at' : j <= k].val
  BY DEF After
<1> HIDE DEF v, at, doc
<1>4. After(d, o, v') =
        IF at' = {} THEN v' ELSE d[CHOOSE k \in at' : \A j \in at' : j <= k].val
  BY <1>2 DEF After
<1>5. After(doc, o, v)' = After(d, o, v')
  BY <1>1, <1>3, <1>4
<1>6. goal'[o] = After(d, o, v')
  BY <1>1
<1> QED
  BY <1>5, <1>6 DEF doc, v

LEMMA BottomOne ==
  ASSUME NEW f \in Set, NEW o, NEW v
  PROVE  Bottom(<<f>> \o <<>>, o, v) = IF f.obj = o THEN f.new ELSE v
<1> DEFINE q == <<f>> \o <<>>
<1>1. q \in Seq(Set) /\ Len(q) = 1 /\ q[1] = f
  OBVIOUS
<1>2. q # <<>>
  BY <1>1
<1> HIDE DEF q
<1>3. Bottom(q, o, v) = IF f.obj = o THEN f.new ELSE v
  BY <1>1, <1>2 DEF Bottom
<1> QED
  BY <1>3 DEF q

\* The loader takes the next member of its document.
LEMMA LoaderNext ==
  ASSUME NEW s \in Threads, Loaders = {s}, Inv, Typed, LoaderInv(s), GoalInv(s), [Next]_vars,
         LoadNext(s)
  PROVE  LoaderInv(s)' /\ GoalInv(s)'
<1> DEFINE doc == outer[s].doc
           p   == Head(doc)
           q   == Known(LowerName(p.key))
<1>0. /\ outer[s].pc = "load" /\ set[s] = <<>> /\ doc # <<>> /\ UNCHANGED <<data, type, val, goal>>
      /\ outer' = [outer EXCEPT ![s].doc = Tail(doc)]
  BY DEF LoadNext, Top
<1>1. outer \in [Threads -> Outer] /\ doc \in Seq(Member)
  BY DEF Inv, Shape, Outer
<1>2. outer'[s].doc = Tail(doc) /\ outer'[s].pc = "load"
  BY <1>0, <1>1 DEF Outer
<1>3. LoaderInv(s)'
  BY <1>2 DEF LoaderInv
<1>4. ASSUME NEW o \in Objs
      PROVE  Bottom(set'[s], o, val[o]) = IF Means(p, o) THEN p.val ELSE val[o]
  <2>1. Bottom(<<>>, o, val[o]) = val[o]
    BY DEF Bottom
  <2>2. o # 0
    BY DEF Objs
  <2>3. CASE p.key # <<>> /\ q # 0 /\ Fits(q, p.val)
    <3>1. Enter(s, q, p.val, <<>>) /\ (Means(p, o) <=> q = o)
      BY <2>3 DEF LoadNext, Means
    <3>2. q \in Objs /\ type[q] # None
      BY <2>3, ObjOf
    <3> DEFINE f == [pc |-> "listen", obj |-> q, new |-> p.val]
    <3>3. p.val \in ValuesOf[type[q]]
      BY <2>3 DEF Fits
    <3>4. (val[q] = p.val /\ set'[s] = <<>>) \/ set'[s] = <<f>> \o <<>>
      <4> HIDE DEF p, q
      <4> QED
        BY <3>1, <3>2, <3>3, EmptyStack, EnterDoes
    <3>5. f \in Set /\ f.obj = q /\ f.new = p.val
      <4> HIDE DEF p, q
      <4> QED
        BY <3>2, <3>3 DEF Set, Values, Typed
    <3> HIDE DEF f, p, q
    <3>6. Bottom(<<f>> \o <<>>, o, val[o]) = IF f.obj = o THEN f.new ELSE val[o]
      BY <3>5, BottomOne
    <3> QED
      BY <2>1, <3>1, <3>4, <3>5, <3>6
  <2>4. CASE ~(p.key # <<>> /\ q # 0 /\ Fits(q, p.val))
    <3>1. set'[s] = <<>> /\ ~Means(p, o)
      BY <1>0, <2>2, <2>4 DEF LoadNext, Means
    <3> QED
      BY <2>1, <3>1
  <2> QED
    BY <2>3, <2>4
<1>5. ASSUME NEW o \in Objs, goal'[o] # None
      PROVE  /\ type'[o] # None /\ \A m : Means(m, o)' <=> Means(m, o)
             /\ goal'[o] = After(Tail(doc), o, Bottom(set'[s], o, val'[o]))
  <2> DEFINE w == IF Means(p, o) THEN p.val ELSE val[o]
  <2>1. type[o] # None /\ goal[o] = After(doc, o, Bottom(set[s], o, val[o]))
    BY <1>0, <1>5 DEF GoalInv
  <2>2. Bottom(set[s], o, val[o]) = val[o]
    BY <1>0 DEF Bottom
  <2>3. goal[o] = After(Tail(doc), o, w)
    BY <1>0, <1>1, <2>1, <2>2, AfterNext
  <2>4. \A m : Means(m, o)' <=> Means(m, o)
    BY <2>1, NamesKept
  <2>5. Bottom(set'[s], o, val'[o]) = w
    BY <1>0, <1>4
  <2> HIDE DEF w
  <2> QED
    BY <1>0, <2>1, <2>3, <2>4, <2>5
<1> DEFINE d == Tail(doc)
<1>6. outer'[s].doc = d
  BY <1>2
<1>7. \A o \in Objs : goal'[o] # None =>
        /\ type'[o] # None /\ \A m : Means(m, o)' <=> Means(m, o)
        /\ goal'[o] = After(d, o, Bottom(set'[s], o, val'[o]))
  BY <1>5
<1> HIDE DEF d
<1>8. GoalInv(s)'
  BY <1>6, <1>7, GoalStep
<1> QED
  BY <1>3, <1>8

\* A load begins: what it has to bring about is what is left to do.
LEMMA LoaderLoads ==
  ASSUME NEW s \in Threads, Loaders = {s}, Inv, Typed, LoaderInv(s), GoalInv(s), [Next]_vars,
         NEW doc \in Docs, Load(s, doc)
  PROVE  LoaderInv(s)' /\ GoalInv(s)'
<1>0. /\ set[s] = <<>> /\ UNCHANGED <<data, type, val, set>>
      /\ outer' = [outer EXCEPT ![s] = [NoOuter EXCEPT !.pc = "load", !.doc = doc]]
      /\ goal' = [o \in Objs |-> IF type[o] = None THEN None ELSE Said(doc, o)]
  BY DEF Load, Begin, Idle
<1>1. outer'[s].doc = doc /\ outer'[s].pc = "load"
  BY <1>0 DEF Inv, Shape, NoOuter
<1>2. LoaderInv(s)'
  BY <1>1 DEF LoaderInv
<1>3. ASSUME NEW o \in Objs, goal'[o] # None
      PROVE  /\ type'[o] # None /\ \A m : Means(m, o)' <=> Means(m, o)
             /\ goal'[o] = After(doc, o, Bottom(set'[s], o, val'[o]))
  <2>1. type[o] # None /\ goal'[o] = Said(doc, o)
    BY <1>0, <1>3
  <2>2. Said(doc, o) = After(doc, o, val[o])
    BY DEF Said, After, Means
  <2>3. Bottom(set'[s], o, val'[o]) = val[o]
    BY <1>0 DEF Bottom
  <2>4. \A m : Means(m, o)' <=> Means(m, o)
    BY <2>1, NamesKept
  <2> QED
    BY <1>0, <2>1, <2>2, <2>3, <2>4
<1>4. GoalInv(s)'
  BY <1>1, <1>3, GoalStep
<1> QED
  BY <1>2, <1>4

LEMMA LoaderKeeps ==
  ASSUME NEW s \in Threads, Loaders = {s}, Inv, Typed, LoaderInv(s), GoalInv(s), [Next]_vars,
         Looking(s) \/ Setting(s) \/ Going(s) \/ Begins(s)
  PROVE  LoaderInv(s)' /\ GoalInv(s)'
<1>1. CASE Looking(s)
  <2>1. UNCHANGED <<set, outer, goal>> /\ \A o \in Objs : val'[o] = val[o] \/ type[o] = None
    BY <1>1, CreatesNew
  <2>2. LoaderInv(s)'
    BY <2>1 DEF LoaderInv
  <2> QED
    BY <2>1, <2>2, GoalFrame
<1>2. CASE Going(s)
  <2>1. ~VisitNext(s) /\ ~VisitReturn(s)
    BY DEF VisitNext, VisitReturn, LoaderInv
  <2>2. CASE LoadReturn(s)
    <3>1. /\ outer[s].doc = <<>> /\ set[s] = <<>> /\ UNCHANGED <<val, set, goal>>
          /\ outer' = [outer EXCEPT ![s] = NoOuter]
      BY <2>2 DEF LoadReturn, Top
    <3>2. outer'[s].doc = <<>> /\ outer'[s].pc = "idle"
      BY <3>1 DEF Inv, Shape, NoOuter
    <3>3. LoaderInv(s)'
      BY <3>1, <3>2 DEF LoaderInv
    <3> QED
      BY <3>1, <3>2, <3>3, GoalFrame
  <2> QED
    BY <1>2, <2>1, <2>2, LoaderNext DEF Going
<1>3. CASE Begins(s)
  <2>1. CASE Lookup(s)
    <3>1. UNCHANGED <<val, set, goal, outer>>
      BY <2>1 DEF Lookup
    <3>2. LoaderInv(s)'
      BY <3>1 DEF LoaderInv
    <3> QED
      BY <3>1, <3>2, GoalFrame
  <2> QED
    BY <1>3, <2>1, LoaderLoads DEF Begins
<1> QED
  BY <1>1, <1>2, <1>3, LoaderSets

(***************************************************************************)
(* ReadMe.md:174, LoadFromYaml of config.cpp: when the only loader has     *)
(* returned, each variable that was registered has the value of the last   *)
(* member of the document that is of its name and converts, and its old    *)
(* one if there is none, whatever the other threads and the listeners do,  *)
(* as long as no one else stores in it and none of its listeners throws.   *)
(***************************************************************************)
THEOREM LoadsApplied == ASSUME NEW s, Loaders = {s} PROVE Spec => []LoadApplied
<1> DEFINE I == Typed /\ LoaderInv(s) /\ GoalInv(s)
<1>0. s \in Threads
  BY ConfigAssumption
<1>1. Init => I
  <2> SUFFICES ASSUME Init PROVE I
    OBVIOUS
  <2>1. Typed
    <3>1. MaxVars \in Nat
      BY ConfigAssumption
    <3>2. /\ data \in [Names -> 0 .. MaxVars] /\ type \in [Objs -> Types \cup {None}]
          /\ \A n \in Names : data[n] = 0
      BY <3>1 DEF Init
    <3>3. set \in [Threads -> Seq(Set)] /\ \A t \in Threads : set[t] = <<>>
      BY DEF Init
    <3>4. \A t \in Threads : StackOK(set[t])
      BY <3>3, EmptyStack
    <3> QED
      BY <3>2, <3>3, <3>4 DEF Typed, Init
  <2>2. LoaderInv(s) /\ GoalInv(s)
    BY <1>0 DEF LoaderInv, GoalInv, Init, NoOuter
  <2> QED
    BY <2>1, <2>2
<1>2. Inv /\ I /\ [Next]_vars => I'
  <2> SUFFICES ASSUME Inv, I, [Next]_vars PROVE I'
    OBVIOUS
  <2>2. Typed'
    BY TypedKept
  <2>3. CASE UNCHANGED vars
    <3>1. UNCHANGED <<val, set, goal, outer>>
      BY <2>3 DEF vars
    <3>2. LoaderInv(s)'
      BY <3>1 DEF LoaderInv
    <3> QED
      BY <2>2, <3>1, <3>2, GoalFrame
  <2>4. ASSUME NEW t \in Threads, Looking(t) \/ Setting(t) \/ Going(t) \/ Begins(t)
        PROVE  LoaderInv(s)' /\ GoalInv(s)'
    BY <1>0, <2>4, LoaderKeeps, OtherKeeps
  <2> QED
    BY <2>2, <2>3, <2>4 DEF Next
<1>3. I => LoadApplied
  <2> SUFFICES ASSUME I, Idle(s), NEW o \in Objs, goal[o] # None PROVE val[o] = goal[o]
    BY DEF LoadApplied
  <2>1. outer[s].doc = <<>> /\ set[s] = <<>>
    BY DEF LoaderInv, Idle
  <2>2. goal[o] = After(<<>>, o, val[o])
    BY <2>1 DEF GoalInv, Bottom
  <2>3. <<>> \in Seq({}) /\ DOMAIN <<>> = {}
    OBVIOUS
  <2> QED
    BY <2>2, <2>3, AfterIs
<1> QED
  BY <1>1, <1>2, <1>3, InvHolds, PTL DEF Spec
=============================================================================
