------------------------- MODULE FileAppenderProofs -------------------------
(* Proofs about FileAppender, for any threads, buffer and bounds: every     *)
(* step of a log() and of the world keeps each of the facts below.          *)
EXTENDS FileAppender, TLAPS

\* A step of a call moves its thread on and keeps the second it works for.
LEMMA Moves ==
  ASSUME NEW t \in Threads, NEW p \in {"set", "reopen", "write"}, TypeOK,
         call[t].pc # "idle", call' = [call EXCEPT ![t].pc = p], clock' = clock
  PROVE  /\ call' \in [Threads -> Call]
         /\ call'[t].pc = p /\ call'[t].now = call[t].now
         /\ \A u \in Threads : u # t => call'[u] = call[u]
         /\ \A u \in Threads : call'[u].pc # "idle" => call'[u].now \in 1 .. clock'
<1>1. call[t] \in Call
  BY DEF TypeOK
<1>2. [call[t] EXCEPT !.pc = p] \in Call
  BY <1>1 DEF Call
<1>3. [call[t] EXCEPT !.pc = p].pc = p /\ [call[t] EXCEPT !.pc = p].now = call[t].now
  BY <1>1 DEF Call
<1> QED
  BY <1>2, <1>3 DEF TypeOK

\* A call ends.
LEMMA Ends ==
  ASSUME NEW t \in Threads, TypeOK, call' = [call EXCEPT ![t] = Idle], clock' = clock
  PROVE  /\ call' \in [Threads -> Call]
         /\ call'[t].pc = "idle"
         /\ \A u \in Threads : u # t => call'[u] = call[u]
         /\ \A u \in Threads : call'[u].pc # "idle" => call'[u].now \in 1 .. clock'
BY DEF TypeOK, Call, Idle

\* A reachable state is well typed; in particular nothing is buffered in a
\* stream that is not open (log.cpp:179-199).
THEOREM TypeCorrect == Spec => []TypeOK
<1> USE FileAppenderAssumption
<1>1. Init => TypeOK
  <2> SUFFICES ASSUME Init PROVE TypeOK
    OBVIOUS
  <2>1. buf \in Seq(1 .. MaxTime) /\ Len(buf) = 0
    BY DEF Init
  <2>2. Idle \in Call
    BY DEF Idle, Call
  <2>3. /\ call \in [Threads -> Call] /\ logs \in [Threads -> 0 .. MaxLogs]
        /\ \A t \in Threads : call[t].pc = "idle"
    BY <2>2 DEF Init, Idle
  <2>4. lost \subseteq 1 .. MaxTime /\ raced \subseteq 1 .. clock /\ ~(buf # <<>> \/ linked)
    BY DEF Init
  <2>5. clock \in 1 .. MaxTime /\ last \in 0 .. clock /\ faulty \in 0 .. clock
    BY DEF Init
  <2>6. /\ open \in BOOLEAN /\ good \in BOOLEAN /\ linked \in BOOLEAN /\ choked \in BOOLEAN
        /\ disk \in {"ok", "full", "noopen"}
    BY DEF Init
  <2> QED
    BY <2>1, <2>3, <2>4, <2>5, <2>6 DEF TypeOK
<1>2. TypeOK /\ [Next]_vars => TypeOK'
  <2> SUFFICES ASSUME TypeOK, [Next]_vars PROVE TypeOK'
    OBVIOUS
  <2>0. clock \in 1 .. MaxTime /\ \A t \in Threads : call[t].pc # "idle" => call[t].now \in 1 .. MaxTime
    BY DEF TypeOK
  <2>1. ASSUME NEW t \in Threads, Log(t) PROVE TypeOK'
    <3>1. [pc |-> "test", now |-> clock] \in Call
      BY DEF Call, TypeOK
    <3>2. /\ call' \in [Threads -> Call]
          /\ call'[t].now = clock /\ \A u \in Threads : u # t => call'[u] = call[u]
      BY <2>1, <3>1 DEF Log, TypeOK
    <3>3. logs' \in [Threads -> 0 .. MaxLogs]
      BY <2>1 DEF Log, TypeOK
    <3>4. \A u \in Threads : call'[u].pc # "idle" => call'[u].now \in 1 .. clock
      BY <3>2 DEF TypeOK
    <3> QED
      BY <2>1, <3>2, <3>3, <3>4 DEF Log, TypeOK, outside
  <2>2. ASSUME NEW t \in Threads, Test(t) PROVE TypeOK'
    BY <2>2 DEF Test, TypeOK, Call, outside
  <2>3. ASSUME NEW t \in Threads, SetLast(t) PROVE TypeOK'
    <3>1. call[t].pc # "idle" /\ call[t].now \in 1 .. clock
      BY <2>3 DEF SetLast, TypeOK
    <3>2. clock' = clock /\ call' = [call EXCEPT ![t].pc = "reopen"]
      BY <2>3 DEF SetLast, outside
    <3>3. /\ call' \in [Threads -> Call]
          /\ \A u \in Threads : call'[u].pc # "idle" => call'[u].now \in 1 .. clock'
      BY <3>1, <3>2, Moves
    <3>4. last' \in 0 .. clock
      BY <2>3, <3>1 DEF SetLast, TypeOK
    <3> QED
      BY <2>3, <3>2, <3>3, <3>4 DEF SetLast, TypeOK, outside
  <2>4. ASSUME NEW t \in Threads, Reopen(t) PROVE TypeOK'
    <3>1. buf' \in Seq(1 .. MaxTime) /\ Len(buf') <= Buffer
      <4>1. CASE good /\ open
        BY <2>4, <4>1 DEF Reopen
      <4>2. CASE ~(good /\ open)
        BY <2>4, <4>2 DEF Reopen, TypeOK
      <4> QED
        BY <4>1, <4>2
    <3>2. lost' \subseteq 1 .. MaxTime
      BY <2>4 DEF Reopen, LostIn, ToSet, TypeOK
    <3>3. (buf' # <<>> \/ linked') => open'
      BY <2>4 DEF Reopen, TypeOK
    <3>4. open' \in BOOLEAN /\ good' \in BOOLEAN /\ linked' \in BOOLEAN
      BY <2>4 DEF Reopen, TypeOK
    <3>5. call[t].pc # "idle"
      BY <2>4 DEF Reopen
    <3> QED
      BY <2>4, <3>1, <3>2, <3>3, <3>4, <3>5, Moves DEF Reopen, TypeOK, outside
  <2>5. ASSUME NEW t \in Threads, WriteDrops(t) PROVE TypeOK'
    BY <2>0, <2>5, Ends DEF WriteDrops, TypeOK, outside
  <2>6. ASSUME NEW t \in Threads, WriteBuffered(t) PROVE TypeOK'
    <3>1. buf' \in Seq(1 .. MaxTime) /\ Len(buf') <= Buffer
      BY <2>0, <2>6 DEF WriteBuffered, TypeOK
    <3> QED
      BY <2>6, <3>1, Ends DEF WriteBuffered, TypeOK, outside
  <2>7. ASSUME NEW t \in Threads, WriteThrough(t) PROVE TypeOK'
    <3>1. call[t].now \in 1 .. MaxTime
      BY <2>0, <2>7 DEF WriteThrough
    <3>2. ToSet(Append(buf, call[t].now)) \subseteq 1 .. MaxTime
      BY <3>1 DEF TypeOK, ToSet
    <3>3. lost' \subseteq 1 .. MaxTime
      BY <2>7, <3>1, <3>2 DEF WriteThrough, LostIn, TypeOK
    <3>4. buf' \in Seq(1 .. MaxTime) /\ Len(buf') <= Buffer
      <4>1. CASE disk = "full"
        BY <2>7, <4>1 DEF WriteThrough, TypeOK
      <4>2. CASE disk # "full"
        BY <2>7, <4>2 DEF WriteThrough
      <4> QED
        BY <4>1, <4>2
    <3> QED
      BY <2>7, <3>3, <3>4, Ends DEF WriteThrough, TypeOK, outside
  <2>8. CASE World
    <3>1. CASE Tick
      BY <3>1 DEF Tick, TypeOK
    <3>2. CASE Delete \/ Fail \/ Heal
      <4>1. UNCHANGED <<clock, last, open, good, buf, lost, raced, choked, call, logs>>
        BY <3>2 DEF Delete, Fail, Heal
      <4>2. /\ linked' = FALSE \/ linked' = linked
            /\ faulty' = clock \/ faulty' = faulty
        BY <3>2 DEF Delete, Fail, Heal
      <4>3. disk' \in {"ok", "full", "noopen"}
        BY <3>2 DEF Delete, Fail, Heal, TypeOK
      <4>4. faulty' \in 0 .. clock
        BY <4>2 DEF TypeOK
      <4>5. linked' \in BOOLEAN /\ ((buf' # <<>> \/ linked') => open')
        <5>1. CASE linked' = FALSE
          BY <4>1, <5>1 DEF TypeOK
        <5>2. CASE linked' = linked
          BY <4>1, <5>2 DEF TypeOK
        <5> QED
          BY <4>2, <5>1, <5>2
      <4> QED
        BY <4>1, <4>3, <4>4, <4>5 DEF TypeOK
    <3>3. CASE Crash
      <4>1. Idle \in Call /\ Idle.pc = "idle"
        BY DEF Idle, Call
      <4>2. lost' \subseteq 1 .. MaxTime
        <5>1. ToSet(buf) \subseteq 1 .. MaxTime
          BY DEF ToSet, TypeOK
        <5> QED
          BY <3>3, <5>1 DEF Crash, TypeOK
      <4>3. buf' \in Seq(1 .. MaxTime) /\ Len(buf') = 0
        BY <3>3 DEF Crash
      <4> QED
        <5>1. call' \in [Threads -> Call] /\ \A t \in Threads : call'[t].pc = "idle"
          BY <3>3, <4>1 DEF Crash
        <5>2. buf' = <<>> /\ ~linked' /\ UNCHANGED <<clock, disk, raced, logs>>
          BY <3>3 DEF Crash
        <5>3. last' \in 0 .. clock /\ faulty' \in 0 .. clock
          BY <3>3 DEF Crash, TypeOK
        <5>4. open' \in BOOLEAN /\ good' \in BOOLEAN /\ linked' \in BOOLEAN /\ choked' \in BOOLEAN
          BY <3>3 DEF Crash
        <5> QED
          BY <4>2, <4>3, <5>1, <5>2, <5>3, <5>4 DEF TypeOK
    <3> QED
      BY <2>8, <3>1, <3>2, <3>3 DEF World
  <2>9. CASE UNCHANGED vars
    BY <2>9 DEF vars, TypeOK
  <2> QED
    BY <2>1, <2>2, <2>3, <2>4, <2>5, <2>6, <2>7, <2>8, <2>9 DEF Next, Step
<1> QED
  BY <1>1, <1>2, PTL DEF Spec

----------------------------------------------------------------------------
\* A stream that is open is good, or a write to it failed: then it is bad for
\* good, and that is a fault of now.  So is a disk in trouble.
StreamInv ==
  /\ open => good \/ choked
  /\ choked => open /\ ~good /\ faulty = clock
  /\ disk # "ok" => faulty = clock

LEMMA StreamStep ==
  ASSUME TypeOK, StreamInv, [Next]_vars
  PROVE  StreamInv'
<1>1. ASSUME NEW t \in Threads, Step(t) PROVE StreamInv'
  <2>1. UNCHANGED outside
    BY <1>1 DEF Step, Log, Test, SetLast, Reopen, WriteDrops, WriteBuffered, WriteThrough
  <2>2. CASE Reopen(t)
    BY <2>1, <2>2 DEF Reopen, StreamInv, outside
  <2>3. CASE WriteDrops(t) \/ WriteBuffered(t) \/ WriteThrough(t)
    BY <2>1, <2>3 DEF WriteDrops, WriteBuffered, WriteThrough, StreamInv, TypeOK, outside
  <2>4. CASE Log(t) \/ Test(t) \/ SetLast(t)
    BY <2>1, <2>4 DEF Log, Test, SetLast, StreamInv, outside
  <2> QED
    BY <1>1, <2>2, <2>3, <2>4 DEF Step
<1>2. CASE World
  BY <1>2 DEF World, Tick, Delete, Fail, Heal, Crash, StreamInv
<1>3. CASE UNCHANGED vars
  BY <1>3 DEF vars, StreamInv
<1> QED
  BY <1>1, <1>2, <1>3 DEF Next

LEMMA StreamHolds == Spec => [](TypeOK /\ StreamInv)
<1>1. Init => StreamInv
  BY DEF Init, StreamInv
<1> QED
  BY <1>1, StreamStep, TypeCorrect, PTL DEF Spec

\* Whatever happens to the file and the disk, reopen() gives a good stream on
\* the file of that name where one can be created, but for a stream that is
\* still open and to which a write failed (log.cpp:194-199).
THEOREM ReopenAlwaysRecovers == Spec => ReopenRecovers
<1>1. TypeOK /\ StreamInv /\ [Next]_vars =>
        [\A t \in Threads : call[t].pc = "reopen" /\ call'[t].pc = "write" /\ disk = "ok" /\ ~choked
           => good' /\ linked']_vars
  <2> SUFFICES ASSUME TypeOK, StreamInv, [Next]_vars,
                      NEW t \in Threads, call[t].pc = "reopen", call'[t].pc = "write", disk = "ok", ~choked
               PROVE  good' /\ linked'
    OBVIOUS
  <2>1. ASSUME NEW u \in Threads, Step(u) PROVE good' /\ linked'
    <3>1. CASE Reopen(u)
      BY <3>1 DEF Reopen, StreamInv
    <3>2. CASE ~Reopen(u)
      <4>1. call[u].pc # "reopen"
        BY <2>1, <3>2 DEF Step, Log, Test, SetLast, WriteDrops, WriteBuffered, WriteThrough
      <4>2. call'[t] = call[t]
        BY <2>1, <3>2, <4>1 DEF Step, Log, Test, SetLast, WriteDrops, WriteBuffered, WriteThrough, TypeOK
      <4> QED
        BY <4>2
    <3> QED
      BY <3>1, <3>2
  <2>2. CASE World
    BY <2>2 DEF World, Tick, Delete, Fail, Heal, Crash, Idle
  <2>3. CASE UNCHANGED vars
    BY <2>3 DEF vars
  <2> QED
    BY <2>1, <2>2, <2>3 DEF Next
<1> QED
  BY <1>1, StreamHolds, PTL DEF Spec, ReopenRecovers

----------------------------------------------------------------------------
\* A loss of second m is put down to a fault or to a race.
Accounted(m) == m <= faulty \/ m \in raced

\* The stream is open on the file of that name.
Ready == open /\ linked

Pending == \E u \in Threads : call[u].pc = "reopen" /\ call[u].now = last

\* The file is ready for messages of the second m_last_time unless a thread is
\* still to reopen it; it is ready for those about to write; and what waits
\* in the buffer is on its way to the file.
OpenInv  == last # 0 /\ ~Pending => Ready \/ last <= faulty
WriteInv == \A t \in Threads : call[t].pc = "write" => Ready \/ Accounted(call[t].now)
BufInv   == \A m \in ToSet(buf) : m <= clock /\ (linked \/ Accounted(m))

LossInv == OpenInv /\ WriteInv /\ BufInv /\ LossBounded

\* What is accounted for stays so.
LEMMA AccountedStays ==
  ASSUME TypeOK, TypeOK', faulty <= faulty', raced \subseteq raced', NEW m \in Int, Accounted(m)
  PROVE  m <= faulty' \/ m \in raced'
<1>1. faulty \in Int /\ faulty' \in Int
  BY DEF TypeOK
<1> QED
  BY <1>1 DEF Accounted

LEMMA Bounded ==
  ASSUME TypeOK
  PROVE  /\ ToSet(buf) \subseteq Int /\ lost \subseteq Int
         /\ \A t \in Threads : call[t].pc # "idle" => call[t].now \in Int /\ call[t].now > 0
<1>1. 1 .. MaxTime \subseteq Int /\ 1 .. clock \subseteq Int
  OBVIOUS
<1>2. ToSet(buf) \subseteq 1 .. MaxTime
  <2>1. buf \in Seq(1 .. MaxTime)
    BY DEF TypeOK
  <2> QED
    BY <2>1, FileAppenderAssumption DEF ToSet
<1>3. lost \subseteq 1 .. MaxTime
  BY DEF TypeOK
<1>4. \A t \in Threads : call[t].pc # "idle" => call[t].now \in 1 .. clock
  BY DEF TypeOK
<1>5. \A n \in 1 .. clock : n > 0
  OBVIOUS
<1> QED
  BY <1>1, <1>2, <1>3, <1>4, <1>5

\* A fault of this second accounts for whatever is or gets lost.
LEMMA FaultStep ==
  ASSUME TypeOK, TypeOK', LossInv, faulty' = clock, UNCHANGED <<clock, raced>>,
         ToSet(buf') \subseteq ToSet(buf), lost' \subseteq lost \cup ToSet(buf)
  PROVE  LossInv'
<1>0. clock \in Int /\ faulty \in Int /\ faulty <= clock /\ \A m \in raced : m <= clock
  BY DEF TypeOK
<1>1. \A m \in ToSet(buf) \cup lost : m <= clock
  <2>1. \A m \in ToSet(buf) : m <= clock
    BY DEF LossInv, BufInv
  <2>2. ASSUME NEW m \in lost PROVE m <= clock
    <3>1. m \in Int
      BY Bounded
    <3>2. m <= faulty \/ m \in raced
      BY DEF LossInv, LossBounded
    <3> QED
      BY <1>0, <3>1, <3>2
  <2> QED
    BY <2>1, <2>2
<1>2. last' <= faulty' /\ \A t \in Threads : call'[t].pc # "idle" => call'[t].now <= faulty'
  BY DEF TypeOK
<1>3. OpenInv' /\ WriteInv'
  BY <1>2 DEF OpenInv, WriteInv, Accounted
<1>4. BufInv' /\ LossBounded'
  BY <1>1 DEF BufInv, LossBounded, Accounted
<1> QED
  BY <1>3, <1>4 DEF LossInv

\* A step that only adds accounted messages to the buffer and the losses.
LEMMA KeptStep ==
  ASSUME TypeOK, TypeOK', LossInv, linked => linked',
         clock <= clock', faulty <= faulty', raced \subseteq raced',
         \A m \in ToSet(buf') : m \in ToSet(buf) \/ (m \in 1 .. clock /\ (linked' \/ Accounted(m))),
         \A m \in lost' : m \in lost \/ (m \in Int /\ Accounted(m)),
         OpenInv', WriteInv'
  PROVE  LossInv'
<1>1. BufInv'
  <2> SUFFICES ASSUME NEW m \in ToSet(buf')
               PROVE  m <= clock' /\ (linked' \/ m <= faulty' \/ m \in raced')
    BY DEF BufInv, Accounted
  <2>1. m \in Int /\ m <= clock /\ (linked' \/ Accounted(m))
    BY Bounded DEF LossInv, BufInv
  <2>2. m <= clock'
    BY <2>1 DEF TypeOK
  <2> QED
    BY <2>1, <2>2, AccountedStays
<1>2. LossBounded'
  <2> SUFFICES ASSUME NEW m \in lost' PROVE m <= faulty' \/ m \in raced'
    BY DEF LossBounded
  <2>1. m \in Int /\ Accounted(m)
    BY Bounded DEF LossInv, LossBounded, Accounted
  <2> QED
    BY <2>1, AccountedStays
<1> QED
  BY <1>1, <1>2 DEF LossInv

\* A step that leaves the file, the buffer and the losses alone.
LEMMA QuietStep ==
  ASSUME TypeOK, TypeOK', LossInv, UNCHANGED <<open, linked, buf, lost>>,
         clock <= clock', faulty <= faulty', raced \subseteq raced', OpenInv', WriteInv'
  PROVE  LossInv'
BY KeptStep

\* A thread that a step leaves alone, or that is not the one, finds the file as before.
LEMMA WritersKeep ==
  ASSUME TypeOK, TypeOK', LossInv, Ready => Ready', faulty <= faulty', raced \subseteq raced',
         NEW u \in Threads, call'[u] = call[u], call'[u].pc = "write"
  PROVE  Ready' \/ call'[u].now <= faulty' \/ call'[u].now \in raced'
<1>1. call[u].pc = "write" /\ call[u].now \in Int
  BY Bounded
<1>2. Ready \/ Accounted(call[u].now)
  BY <1>1 DEF LossInv, WriteInv
<1> QED
  BY <1>1, <1>2, AccountedStays

\* The steps of log() before the stream is used.
LEMMA BeforeStep ==
  ASSUME TypeOK, TypeOK', LossInv, NEW t \in Threads, Log(t) \/ Test(t) \/ SetLast(t)
  PROVE  LossInv'
<1>1. /\ UNCHANGED <<open, linked, buf, lost, clock, faulty>> /\ raced \subseteq raced'
      /\ \A u \in Threads : u # t => call'[u] = call[u]
  BY DEF Log, Test, SetLast, outside, TypeOK
<1>2. call[t] \in Call /\ call'[t] \in Call
  BY DEF TypeOK
<1>3. clock <= clock' /\ faulty <= faulty' /\ last \in Int /\ faulty \in Int
  BY <1>1 DEF TypeOK
<1>4. ASSUME call'[t].pc = "write" => Ready' \/ call'[t].now <= faulty' \/ call'[t].now \in raced'
      PROVE  WriteInv'
  <2> SUFFICES ASSUME NEW u \in Threads, call'[u].pc = "write"
               PROVE  Ready' \/ call'[u].now <= faulty' \/ call'[u].now \in raced'
    BY DEF WriteInv, Accounted
  <2>1. Ready => Ready'
    BY <1>1 DEF Ready
  <2>2. CASE u = t
    BY <1>4, <2>2
  <2>3. CASE u # t
    BY <1>1, <1>3, <2>1, <2>3, WritersKeep
  <2> QED
    BY <2>2, <2>3
<1>5. ASSUME last' = last, call[t].pc # "reopen"
      PROVE  OpenInv'
  <2>1. Pending => Pending'
    BY <1>1, <1>5 DEF Pending
  <2> QED
    BY <1>1, <1>5, <2>1 DEF OpenInv, LossInv, Ready
<1>6. CASE Log(t)
  <2>1. call'[t].pc = "test" /\ last' = last /\ call[t].pc = "idle"
    BY <1>6 DEF Log, TypeOK
  <2> QED
    BY <1>1, <1>3, <1>4, <1>5, <2>1, QuietStep
<1>7. CASE Test(t)
  <2>1. /\ call[t].pc = "test" /\ last' = last
        /\ call'[t].now = call[t].now
        /\ call'[t].pc = IF call[t].now # last THEN "set" ELSE "write"
    BY <1>2, <1>7 DEF Test, TypeOK, Call
  <2>2. ASSUME call'[t].pc = "write"
        PROVE  Ready' \/ call'[t].now <= faulty' \/ call'[t].now \in raced'
    <3>1. call[t].now = last /\ last # 0
      BY <2>1, <2>2, Bounded
    <3>2. CASE Pending
      <4>1. raced' = raced \cup {last}
        BY <1>7, <3>1, <3>2 DEF Test, Pending
      <4> QED
        BY <2>1, <3>1, <4>1
    <3>3. CASE ~Pending
      <4>1. Ready \/ last <= faulty
        BY <3>1, <3>3 DEF LossInv, OpenInv
      <4> QED
        BY <1>1, <2>1, <3>1, <4>1 DEF Ready
    <3> QED
      BY <3>2, <3>3
  <2> QED
    BY <1>1, <1>3, <1>4, <1>5, <2>1, <2>2, QuietStep
<1>8. CASE SetLast(t)
  <2>1. call'[t].pc = "reopen" /\ call'[t].now = last'
    BY <1>2, <1>8 DEF SetLast, TypeOK, Call
  <2>2. OpenInv'
    BY <2>1 DEF OpenInv, Pending
  <2> QED
    BY <1>1, <1>3, <1>4, <2>1, <2>2, QuietStep
<1> QED
  BY <1>6, <1>7, <1>8

\* reopen() leaves a file that is ready, or there is a fault now: the disk is
\* in trouble, or an earlier write failed.
LEMMA ReopenStep ==
  ASSUME TypeOK, TypeOK', StreamInv, LossInv, NEW t \in Threads, Reopen(t)
  PROVE  LossInv'
<1>1. UNCHANGED <<clock, faulty, raced>> /\ clock \in Int /\ faulty \in Int
  BY DEF Reopen, outside, TypeOK
<1>2. ~open => ToSet(buf) = {}
  BY DEF TypeOK, ToSet
<1>3. ToSet(buf') \subseteq ToSet(buf) /\ lost' \subseteq lost \cup ToSet(buf)
  BY DEF Reopen, LostIn, ToSet
<1>4. CASE disk # "ok" \/ choked
  BY <1>1, <1>3, <1>4, FaultStep DEF StreamInv
<1>5. CASE disk = "ok" /\ ~choked
  <2>1. /\ lost' = IF open THEN lost \cup LostIn(buf) ELSE lost
        /\ buf' = IF open THEN <<>> ELSE buf
        /\ open' /\ linked'
    BY <1>5 DEF Reopen, StreamInv
  <2>2. ToSet(buf') = {}
    BY <1>2, <2>1 DEF ToSet
  <2>3. \A m \in lost' : m \in lost \/ (m \in ToSet(buf) /\ ~linked)
    BY <1>5, <2>1 DEF LostIn
  <2>4. OpenInv' /\ WriteInv'
    BY <2>1 DEF OpenInv, WriteInv, Ready
  <2>5. \A m \in lost' : m \in lost \/ (m \in Int /\ Accounted(m))
    BY <2>3, Bounded DEF LossInv, BufInv
  <2>6. clock <= clock' /\ faulty <= faulty' /\ raced \subseteq raced'
    BY <1>1
  <2> QED
    BY <2>1, <2>2, <2>4, <2>5, <2>6, KeptStep
<1> QED
  BY <1>4, <1>5

LEMMA AddedTo ==
  ASSUME TypeOK, NEW x \in 1 .. MaxTime
  PROVE  ToSet(Append(buf, x)) \subseteq ToSet(buf) \cup {x}
<1>1. buf \in Seq(1 .. MaxTime)
  BY DEF TypeOK
<1> QED
  BY <1>1 DEF ToSet

\* A message is written to a file that is ready, or its loss is accounted for.
LEMMA WriteStep ==
  ASSUME TypeOK, TypeOK', StreamInv, LossInv, NEW t \in Threads,
         WriteDrops(t) \/ WriteBuffered(t) \/ WriteThrough(t)
  PROVE  LossInv'
<1> DEFINE now == call[t].now
<1>1. /\ UNCHANGED <<clock, faulty, raced, last, open, linked>>
      /\ call[t].pc = "write" /\ call' = [call EXCEPT ![t] = Idle]
  BY DEF WriteDrops, WriteBuffered, WriteThrough, outside
<1>2. /\ \A u \in Threads : u # t => call'[u] = call[u]
      /\ call'[t].pc = "idle"
  BY <1>1, Ends
<1>3. clock <= clock' /\ faulty <= faulty'
  <2>1. clock \in Int /\ faulty \in Int
    BY DEF TypeOK
  <2>2. clock' = clock /\ faulty' = faulty
    BY <1>1
  <2> QED
    BY <2>1, <2>2
<1>4. now \in Int /\ now \in 1 .. clock /\ now \in 1 .. MaxTime
  <2>1. now \in 1 .. clock
    BY <1>1 DEF TypeOK
  <2>2. clock \in 1 .. MaxTime /\ MaxTime \in Nat
    BY FileAppenderAssumption DEF TypeOK
  <2> QED
    BY <2>1, <2>2
<1>5. Ready \/ Accounted(now)
  BY <1>1 DEF LossInv, WriteInv
<1>6. OpenInv'
  <2>1. Pending => Pending'
    BY <1>1, <1>2 DEF Pending
  <2> QED
    BY <1>1, <2>1 DEF OpenInv, LossInv, Ready
<1>7. WriteInv'
  <2> SUFFICES ASSUME NEW u \in Threads, call'[u].pc = "write"
               PROVE  Ready' \/ call'[u].now <= faulty' \/ call'[u].now \in raced'
    BY DEF WriteInv, Accounted
  <2>1. u # t /\ (Ready => Ready')
    BY <1>1, <1>2 DEF Ready
  <2> QED
    BY <1>1, <1>2, <1>3, <2>1, WritersKeep
<1>8. \A m \in ToSet(buf) : m \in Int /\ (linked \/ Accounted(m))
  BY Bounded DEF LossInv, BufInv
<1>9. ToSet(Append(buf, now)) \subseteq ToSet(buf) \cup {now}
  BY <1>4, AddedTo
<1>10. CASE WriteDrops(t)
  <2>1. buf' = buf /\ lost' = lost \cup {now} /\ ~(good /\ open)
    BY <1>10 DEF WriteDrops
  <2>2. Accounted(now)
    <3>1. CASE choked
      <4>1. now \in 1 .. clock /\ faulty = clock
        BY <1>4, <3>1 DEF StreamInv
      <4> QED
        BY <4>1 DEF Accounted
    <3>2. CASE ~choked
      BY <1>5, <2>1, <3>2 DEF StreamInv, Ready
    <3> QED
      BY <3>1, <3>2
  <2> QED
    BY <1>1, <1>3, <1>4, <1>6, <1>7, <2>1, <2>2, KeptStep
<1>11. CASE WriteBuffered(t)
  <2>1. buf' = Append(buf, now) /\ lost' = lost
    BY <1>11 DEF WriteBuffered
  <2>2. \A m \in ToSet(buf') : m \in ToSet(buf) \/ (m \in 1 .. clock /\ (linked' \/ Accounted(m)))
    BY <1>1, <1>4, <1>5, <1>9, <2>1 DEF Ready
  <2> QED
    BY <1>1, <1>3, <1>6, <1>7, <2>1, <2>2, KeptStep
<1>12. CASE WriteThrough(t)
  <2>1. CASE disk = "full"
    <3>1. buf' = buf /\ lost' = lost \cup {now}
      BY <1>12, <2>1 DEF WriteThrough
    <3>2. Accounted(now)
      <4>1. faulty = clock
        BY <2>1 DEF StreamInv
      <4> QED
        BY <1>4, <4>1 DEF Accounted
    <3> QED
      BY <1>1, <1>3, <1>4, <1>6, <1>7, <3>1, <3>2, KeptStep
  <2>2. CASE disk # "full"
    <3>1. buf' = <<>> /\ lost' = lost \cup LostIn(Append(buf, now))
      BY <1>12, <2>2 DEF WriteThrough
    <3>2. ToSet(buf') = {}
      BY <3>1 DEF ToSet
    <3>3. \A m \in lost' : m \in lost \/ (m \in Int /\ Accounted(m))
      BY <1>4, <1>5, <1>8, <1>9, <2>2, <3>1 DEF LostIn, Ready
    <3> QED
      BY <1>1, <1>3, <1>6, <1>7, <3>2, <3>3, KeptStep
  <2> QED
    BY <2>1, <2>2
<1> QED
  BY <1>10, <1>11, <1>12

\* The world's faults are of the second they come in.
LEMMA WorldStep ==
  ASSUME TypeOK, TypeOK', StreamInv, LossInv, World
  PROVE  LossInv'
<1>1. CASE Tick \/ Heal
  <2>1. UNCHANGED <<last, open, linked, buf, lost, raced, call>>
    BY <1>1 DEF Tick, Heal
  <2>2. clock <= clock' /\ faulty <= faulty'
    BY <1>1 DEF Tick, Heal, TypeOK
  <2>3. OpenInv'
    <3>1. (Pending <=> Pending') /\ (Ready <=> Ready')
      BY <2>1 DEF Pending, Ready
    <3>2. last \in Int /\ faulty \in Int /\ faulty' \in Int
      BY DEF TypeOK
    <3> QED
      BY <2>1, <2>2, <3>1, <3>2 DEF OpenInv, LossInv
  <2>4. WriteInv'
    <3> SUFFICES ASSUME NEW u \in Threads, call'[u].pc = "write"
                 PROVE  Ready' \/ call'[u].now <= faulty' \/ call'[u].now \in raced'
      BY DEF WriteInv, Accounted
    <3>1. Ready => Ready'
      BY <2>1 DEF Ready
    <3> QED
      BY <2>1, <2>2, <3>1, WritersKeep
  <2> QED
    BY <2>1, <2>2, <2>3, <2>4, QuietStep
<1>2. CASE Delete \/ Fail
  BY <1>2, FaultStep DEF Delete, Fail
<1>3. CASE Crash
  <2>1. ToSet(buf') = {}
    BY <1>3 DEF Crash, ToSet
  <2> QED
    BY <1>3, <2>1, FaultStep DEF Crash
<1> QED
  BY <1>1, <1>2, <1>3 DEF World

\* What is lost was logged up to the last fault, or in the second of a race for
\* reopen(); from a write that failed on every second is one of a fault
\* (log.cpp:179-199).
THEOREM LossesAccounted == Spec => []LossBounded
<1>1. Init => LossInv
  BY DEF Init, LossInv, OpenInv, WriteInv, BufInv, LossBounded, ToSet, Idle
<1>2. TypeOK /\ TypeOK' /\ StreamInv /\ LossInv /\ [Next]_vars => LossInv'
  <2> SUFFICES ASSUME TypeOK, TypeOK', StreamInv, LossInv, [Next]_vars PROVE LossInv'
    OBVIOUS
  <2>1. ASSUME NEW t \in Threads, Step(t) PROVE LossInv'
    BY <2>1, BeforeStep, ReopenStep, WriteStep DEF Step
  <2>2. CASE UNCHANGED vars
    BY <2>2 DEF vars, LossInv, OpenInv, WriteInv, BufInv, LossBounded, Pending, Ready, Accounted
  <2> QED
    BY <2>1, <2>2, WorldStep DEF Next
<1>3. LossInv => LossBounded
  BY DEF LossInv
<1> QED
  BY <1>1, <1>2, <1>3, StreamHolds, PTL DEF Spec
=============================================================================
