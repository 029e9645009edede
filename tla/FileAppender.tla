---------------------------- MODULE FileAppender ----------------------------
(***************************************************************************)
(* FileAppender of src/log.cpp, used by several threads at once (an        *)
(* appender may be given to several loggers, each with a mutex of its      *)
(* own), and the file system under it.  log() reads the clock, compares    *)
(* it with m_last_time, sets that and calls reopen(), and only then takes  *)
(* the appender's mutex to write; a write goes to the stream's buffer,     *)
(* which only a full buffer or the close() of a later reopen() hands to    *)
(* the file.                                                               *)
(*                                                                         *)
(* The clock is the one time(0) reads; a message is the second in which it *)
(* was logged.  The std::ofstream and the file system are external; what   *)
(* is used of them: close() writes the buffer out, open() fails on a       *)
(* stream that is still open or when the file cannot be created.           *)
(***************************************************************************)
EXTENDS Integers, Sequences, SequencesExt

CONSTANTS
  Threads,   \* threads that log through the appender
  Faults,    \* what happens to the file: "delete", "full", "noopen", "crash"
  Buffer,    \* messages that fit into the stream's buffer
  MaxTime,   \* bound: seconds the clock runs for
  MaxLogs    \* bound: calls of log() by each thread

ASSUME FileAppenderAssumption ==
  /\ Buffer \in Nat /\ MaxTime \in Nat \ {0} /\ MaxLogs \in Nat
  /\ Faults \subseteq {"delete", "full", "noopen", "crash"}

VARIABLES
  clock,   \* time(0)
  last,    \* m_last_time
  open,    \* the stream has a file open
  good,    \* the stream's state: !!m_filestream
  linked,  \* the open file is still the one under m_filename
  buf,     \* messages in the stream's buffer
  lost,    \* messages that got into no file under m_filename
  disk,    \* "ok", "full": writes fail, "noopen": files cannot be created
  faulty,  \* last second in which a fault was there, or 0
  raced,   \* seconds in which a log() relied on a reopen() still to come
  choked,  \* history: a write to the open file failed since the process began
  call,    \* the call each thread is in
  logs     \* calls begun by each thread

vars == <<clock, last, open, good, linked, buf, lost, disk, faulty,
          raced, choked, call, logs>>
outside == <<clock, disk, faulty>>

Call == [pc : {"idle", "test", "set", "reopen", "write"}, now : Nat]
Idle == [pc |-> "idle", now |-> 0]

TypeOK ==
  /\ clock \in 1 .. MaxTime /\ last \in 0 .. clock /\ faulty \in 0 .. clock
  /\ raced \subseteq 1 .. clock
  /\ open \in BOOLEAN /\ good \in BOOLEAN /\ linked \in BOOLEAN /\ choked \in BOOLEAN
  /\ buf \in Seq(1 .. MaxTime) /\ Len(buf) <= Buffer
  /\ lost \subseteq 1 .. MaxTime
  /\ disk \in {"ok", "full", "noopen"}
  /\ call \in [Threads -> Call] /\ logs \in [Threads -> 0 .. MaxLogs]
  /\ (buf # <<>> \/ linked) => open
  /\ \A t \in Threads : call[t].pc # "idle" => call[t].now \in 1 .. clock

Init ==
  /\ last = 0 /\ open = FALSE /\ good = TRUE /\ linked = FALSE /\ buf = <<>>
  /\ clock = 1 /\ lost = {} /\ disk = "ok" /\ faulty = 0 /\ raced = {} /\ choked = FALSE
  /\ call = [t \in Threads |-> Idle] /\ logs = [t \in Threads |-> 0]

\* What writing msgs into the open file loses.
LostIn(msgs) == IF linked /\ disk # "full" THEN {} ELSE ToSet(msgs)

----------------------------------------------------------------------------
(* log(): the time is read, m_last_time tested and set, without a lock.    *)
Log(t) ==
  /\ call[t].pc = "idle" /\ logs[t] < MaxLogs
  /\ call' = [call EXCEPT ![t] = [pc |-> "test", now |-> clock]]
  /\ logs' = [logs EXCEPT ![t] = @ + 1]
  /\ UNCHANGED <<outside, last, open, good, linked, buf, lost, raced, choked>>

\* Mutant: the file is opened by the first message only.
TestOnce(t) ==
  /\ call[t].pc = "test"
  /\ call' = [call EXCEPT ![t].pc = IF last = 0 THEN "set" ELSE "write"]
  /\ UNCHANGED <<outside, last, open, good, linked, buf, lost, raced, choked, logs>>

Test(t) ==
  LET now == call[t].now
      pending == \E u \in Threads : call[u].pc = "reopen" /\ call[u].now = now
  IN
  /\ call[t].pc = "test"
  /\ call' = [call EXCEPT ![t].pc = IF now # last THEN "set" ELSE "write"]
  /\ raced' = IF now = last /\ pending THEN raced \cup {now} ELSE raced
  /\ UNCHANGED <<outside, last, open, good, linked, buf, lost, choked, logs>>

SetLast(t) ==
  /\ call[t].pc = "set"
  /\ last' = call[t].now
  /\ call' = [call EXCEPT ![t].pc = "reopen"]
  /\ UNCHANGED <<outside, open, good, linked, buf, lost, raced, choked, logs>>

(* reopen(), under the mutex: close(), which writes the buffer out, if the *)
(* stream is good, and open(), which fails on a stream that is open.       *)
\* Mutant: open() alone is called.
ReopenNotClosed(t) ==
  LET opens == ~open /\ disk # "noopen" IN
  /\ call[t].pc = "reopen"
  /\ good' = opens
  /\ open' = (open \/ opens) /\ linked' = (linked \/ opens)
  /\ call' = [call EXCEPT ![t].pc = "write"]
  /\ UNCHANGED <<outside, last, buf, lost, raced, choked, logs>>

Reopen(t) ==
  LET closes == good /\ open
      stays  == open /\ ~closes
      opens  == ~stays /\ disk # "noopen"
  IN
  /\ call[t].pc = "reopen"
  /\ lost' = IF closes THEN lost \cup LostIn(buf) ELSE lost
  /\ buf' = IF closes THEN <<>> ELSE buf
  /\ good' = opens
  /\ open' = (stays \/ opens)
  /\ linked' = IF stays THEN linked ELSE opens
  /\ call' = [call EXCEPT ![t].pc = "write"]
  /\ UNCHANGED <<outside, last, raced, choked, logs>>

(* The message is written, under the mutex.  A stream that is bad ignores  *)
(* it, one that is not open turns bad.  A buffer that is full is written   *)
(* out first, or stays as it is, and the stream turns bad.                 *)
WriteDrops(t) ==
  /\ call[t].pc = "write" /\ ~(good /\ open)
  /\ good' = FALSE
  /\ lost' = lost \cup {call[t].now}
  /\ call' = [call EXCEPT ![t] = Idle]
  /\ UNCHANGED <<outside, last, open, linked, buf, raced, choked, logs>>

WriteBuffered(t) ==
  /\ call[t].pc = "write" /\ good /\ open /\ Len(buf) < Buffer
  /\ buf' = Append(buf, call[t].now)
  /\ call' = [call EXCEPT ![t] = Idle]
  /\ UNCHANGED <<outside, last, open, good, linked, lost, raced, choked, logs>>

WriteThrough(t) ==
  /\ call[t].pc = "write" /\ good /\ open /\ Len(buf) = Buffer
  /\ good' = (disk # "full") /\ choked' = (choked \/ disk = "full")
  /\ buf' = IF disk = "full" THEN buf ELSE <<>>
  /\ lost' = lost \cup (IF disk = "full" THEN {call[t].now}
                         ELSE LostIn(Append(buf, call[t].now)))
  /\ call' = [call EXCEPT ![t] = Idle]
  /\ UNCHANGED <<outside, last, open, linked, raced, logs>>

----------------------------------------------------------------------------
(* The world: the clock, the file being deleted, a disk that is full or a  *)
(* directory in which no file can be created, and a crash of the process.  *)
(* A disk in trouble and a stream that choked are faults of every second.  *)
Tick ==
  /\ clock < MaxTime /\ clock' = clock + 1
  /\ faulty' = IF disk = "ok" /\ ~choked THEN faulty ELSE clock'
  /\ UNCHANGED <<last, open, good, linked, buf, lost, disk, raced, choked, call, logs>>

Delete ==
  /\ "delete" \in Faults /\ linked
  /\ linked' = FALSE /\ faulty' = clock
  /\ UNCHANGED <<clock, last, open, good, buf, lost, disk, raced, choked, call, logs>>

Fail ==
  /\ disk = "ok" /\ disk' \in Faults \cap {"full", "noopen"}
  /\ faulty' = clock
  /\ UNCHANGED <<clock, last, open, good, linked, buf, lost, raced, choked, call, logs>>

Heal ==
  /\ disk # "ok" /\ disk' = "ok"
  /\ UNCHANGED <<clock, last, open, good, linked, buf, lost, faulty, raced, choked, call, logs>>

Crash ==
  /\ "crash" \in Faults /\ open
  /\ last' = 0 /\ open' = FALSE /\ good' = TRUE /\ linked' = FALSE /\ buf' = <<>>
  /\ faulty' = clock /\ choked' = FALSE
  /\ lost' = lost \cup ToSet(buf)
  /\ call' = [t \in Threads |-> Idle]
  /\ UNCHANGED <<clock, disk, raced, logs>>

Step(t) == Log(t) \/ Test(t) \/ SetLast(t) \/ Reopen(t)
             \/ WriteDrops(t) \/ WriteBuffered(t) \/ WriteThrough(t)
World == Tick \/ Delete \/ Fail \/ Heal \/ Crash
Next == World \/ \E t \in Threads : Step(t)

Spec == Init /\ [][Next]_vars

----------------------------------------------------------------------------
(* log.cpp:185 "always keep file open(file may be deleted sometime)": a    *)
(* message is written to a file that is open.                              *)
FileKeptOpen == \A t \in Threads : call[t].pc = "write" => open

(* A message is lost only in a second up to the last fault, or in one in   *)
(* which its log() came between the setting of m_last_time and the         *)
(* reopen() of another thread: log() opens the file anew before the first  *)
(* message of each second, and the race costs no later second anything.    *)
(* From a write that failed on, every second is one of a fault: all that   *)
(* is logged from then on is lost (log.cpp:184-197).                       *)
LossBounded == \A m \in lost : m <= faulty \/ m \in raced

(* reopen() puts the stream right where the file can be created: after the *)
(* file was deleted, after an earlier reopen() failed and after a write    *)
(* while there was no file (log.cpp:194-199).  Not after a write to the    *)
(* open file failed: the stream is bad and open, so it is not closed, and  *)
(* open() fails on a stream that is open.                                  *)
ReopenRecovers ==
  [][\A t \in Threads :
       call[t].pc = "reopen" /\ call'[t].pc = "write" /\ disk = "ok" /\ ~choked
         => good' /\ linked']_vars

(* The same of every stream: "always keep file open" (log.cpp:185).        *)
AlwaysRecovers ==
  [][\A t \in Threads :
       call[t].pc = "reopen" /\ call'[t].pc = "write" /\ disk = "ok"
         => good' /\ linked']_vars
============================================================================
