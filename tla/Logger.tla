------------------------------- MODULE Logger -------------------------------
(***************************************************************************)
(* Logger and LogAppender of src/log.cpp: log() walks a logger's appenders *)
(* under the logger's mutex, and falls back to the root logger, with that  *)
(* mutex still held, where there are none; other threads configure loggers *)
(* and appenders at the same time.                                         *)
(*                                                                         *)
(* An appender's own mutex is only held inside single steps.  A lock taken *)
(* on a logger is held over several steps where the code reads state that  *)
(* this lock does not protect: the level, and the appenders' formatters.   *)
(***************************************************************************)
EXTENDS Integers, Sequences

CONSTANTS
  Writers,     \* threads that log
  Configurers, \* threads that configure loggers and appenders
  Loggers,
  Root,        \* the root logger, m_root of every other logger
  Appenders,
  Stdout,      \* the appender the LoggerManager gives to the root logger
  Levels,      \* the levels used, as integers
  Formats,     \* formatters, told apart by their pattern
  DefaultFmt,  \* the one a new Logger has
  Ops,         \* the methods configurers call
  MaxApps,     \* bound: length of the list of appenders
  None         \* no thread, logger, appender or formatter

ASSUME LoggerAssumption ==
  /\ Root \in Loggers /\ Stdout \in Appenders /\ DefaultFmt \in Formats
  /\ Levels \subseteq Int /\ Levels # {} /\ MaxApps \in Nat
  /\ None \notin Writers \cup Configurers \cup Loggers \cup Appenders \cup Formats
  /\ Ops \subseteq {"level", "alevel", "add", "del", "clear", "fmt", "afmt"}

VARIABLES
  level,  \* m_level of each logger
  apps,   \* m_appenders
  fmt,    \* m_formatter
  mtx,    \* the thread that holds m_mutex, or None
  alevel, \* m_level of each appender
  afmt,   \* its m_formatter, None for a null pointer
  has,    \* its has_formatter
  own,    \* the formatter last given to it by setFormatter(string), or None
  raced,  \* appenders whose last setFormatter(string) met a call about to set theirs
  moved,  \* appenders that were added again, with a formatter of another logger
  call    \* the call each thread is in, with its locals

lvars == <<level, apps, fmt, mtx, alevel, afmt, has, own, raced, moved, call>>

Threads == Writers \cup Configurers
Call == [pc : {"idle", "enter", "loop", "return", "test", "set", "add", "addset"},
         at : Loggers \cup {None}, outer : Loggers \cup {None}, lvl : Levels \cup {None},
         pos : Nat, app : Appenders \cup {None}, fmt : Formats \cup {None}]

Idle == [pc |-> "idle", at |-> None, outer |-> None, lvl |-> None,
         pos |-> 1, app |-> None, fmt |-> None]

Lowest == CHOOSE v \in Levels : \A w \in Levels : v <= w
\* The root logger's appender cannot be had from outside.
Handed == Appenders \ {Stdout}
Listed(l) == {apps[l][i] : i \in DOMAIN apps[l]}

LTypeOK ==
  /\ level \in [Loggers -> Levels]
  /\ apps \in [Loggers -> Seq(Appenders)]
  /\ fmt \in [Loggers -> Formats]
  /\ mtx \in [Loggers -> Threads \cup {None}]
  /\ alevel \in [Appenders -> Levels]
  /\ afmt \in [Appenders -> Formats \cup {None}]
  /\ has \in [Appenders -> BOOLEAN]
  /\ own \in [Appenders -> Formats \cup {None}]
  /\ raced \subseteq Appenders /\ moved \subseteq Appenders
  /\ call \in [Threads -> Call]
  /\ \A t \in Threads : call[t].pc # "idle" => call[t].at \in Loggers

LInit ==
  /\ level = [l \in Loggers |-> Lowest]
  /\ apps = [l \in Loggers |-> IF l = Root THEN <<Stdout>> ELSE <<>>]
  /\ fmt = [l \in Loggers |-> DefaultFmt]
  /\ mtx = [l \in Loggers |-> None]
  /\ alevel = [a \in Appenders |-> Lowest]
  /\ afmt = [a \in Appenders |-> IF a = Stdout THEN DefaultFmt ELSE None]
  /\ has = [a \in Appenders |-> FALSE]
  /\ own = [a \in Appenders |-> None]
  /\ raced = {} /\ moved = {}
  /\ call = [t \in Threads |-> Idle]

\* Mutant: the root logger is a logger with an m_root, like all others.
RootOfAny(l) == Root

\* m_root of a logger; the root logger itself has none.
RootOf(l) == IF l = Root THEN None ELSE Root

Start(t, doers) == t \in doers /\ call[t].pc = "idle"
Lock(t, l)      == mtx[l] = None /\ mtx' = [mtx EXCEPT ![l] = t]
Unlock(l)       == mtx' = [mtx EXCEPT ![l] = None]
Goto(t, pc)     == call' = [call EXCEPT ![t].pc = pc]

----------------------------------------------------------------------------
(* log(): the level is compared before the lock is taken.                  *)
LogCall(t, l, v) ==
  /\ Start(t, Writers) /\ v >= level[l]
  /\ call' = [call EXCEPT ![t] = [Idle EXCEPT !.pc = "enter", !.at = l, !.lvl = v]]
  /\ UNCHANGED <<level, apps, fmt, mtx, alevel, afmt, has, own, raced, moved>>

LogLock(t) ==
  /\ call[t].pc = "enter"
  /\ Lock(t, call[t].at)
  /\ Goto(t, "loop")
  /\ UNCHANGED <<level, apps, fmt, alevel, afmt, has, own, raced, moved>>

\* The next appender compares the level with its own and writes the message
\* (log.cpp:173, 183): what comes out of it is left out.
LogAppend(t) ==
  /\ call[t].pc = "loop" /\ call[t].pos <= Len(apps[call[t].at])
  /\ call' = [call EXCEPT ![t].pos = @ + 1]
  /\ UNCHANGED <<level, apps, fmt, mtx, alevel, afmt, has, own, raced, moved>>

\* No appenders: m_root->log(), which compares the level with its own.
LogFallback(t) ==
  LET l == call[t].at IN
  /\ call[t].pc = "loop" /\ apps[l] = <<>> /\ RootOf(l) # None
  /\ call' = [call EXCEPT ![t] =
       IF @.lvl >= level[RootOf(l)]
       THEN [@ EXCEPT !.pc = "enter", !.at = RootOf(l), !.outer = l]
       ELSE [@ EXCEPT !.pc = "return"]]
  /\ UNCHANGED <<level, apps, fmt, mtx, alevel, afmt, has, own, raced, moved>>

\* log() returns: of the root logger to that of the logger it stands in for.
LogReturn(t) ==
  LET l == call[t].at IN
  /\ \/ call[t].pc = "return"
     \/ /\ call[t].pc = "loop" /\ call[t].pos > Len(apps[l])
        /\ apps[l] # <<>> \/ RootOf(l) = None
  /\ Unlock(l)
  /\ call' = [call EXCEPT ![t] =
       IF @.outer = None THEN Idle
       ELSE [@ EXCEPT !.pc = "return", !.at = call[t].outer, !.outer = None]]
  /\ UNCHANGED <<level, apps, fmt, alevel, afmt, has, own, raced, moved>>

----------------------------------------------------------------------------
(* Configuration of a logger.                                              *)
SetLevel(t, l, v) ==
  /\ Start(t, Configurers) /\ "level" \in Ops
  /\ level' = [level EXCEPT ![l] = v]
  /\ UNCHANGED <<apps, fmt, mtx, alevel, afmt, has, own, raced, moved, call>>

\* addAppender(a): the formatter of a is read, under the lock of l but through
\* a method of a ...
AddAppender(t, l, a) ==
  /\ Start(t, Configurers) /\ "add" \in Ops /\ Len(apps[l]) < MaxApps
  /\ Lock(t, l)
  /\ call' = [call EXCEPT ![t] =
       [Idle EXCEPT !.pc = IF afmt[a] = None THEN "addset" ELSE "add", !.at = l, !.app = a]]
  /\ moved' = IF has[a] \/ (afmt[a] = None /\ \A u \in Threads : call[u].app # a)
              THEN moved ELSE moved \cup {a}
  /\ UNCHANGED <<level, apps, fmt, alevel, afmt, has, own, raced>>

\* ... and set if there was none, before a joins the list.
PushAppender(t) ==
  LET l == call[t].at  a == call[t].app IN
  /\ call[t].pc \in {"add", "addset"}
  /\ afmt' = [afmt EXCEPT ![a] = IF call[t].pc = "addset" THEN fmt[l] ELSE @]
  /\ apps' = [apps EXCEPT ![l] = Append(@, a)]
  /\ Unlock(l)
  /\ call' = [call EXCEPT ![t] = Idle]
  /\ UNCHANGED <<level, fmt, alevel, has, own, raced, moved>>

\* list::remove takes out every occurrence.
Without(s, a) ==
  LET kept[n \in 0 .. Len(s)] ==
        IF n = 0 THEN <<>>
        ELSE IF s[n] = a THEN kept[n - 1] ELSE Append(kept[n - 1], s[n])
  IN  kept[Len(s)]

DelAppender(t, l, a) ==
  /\ Start(t, Configurers) /\ "del" \in Ops /\ mtx[l] = None
  /\ apps' = [apps EXCEPT ![l] = Without(@, a)]
  /\ UNCHANGED <<level, fmt, mtx, alevel, afmt, has, own, raced, moved, call>>

\* Mutant: clearAppender does not lock.
ClearAppenderUnlocked(t, l) ==
  /\ Start(t, Configurers) /\ "clear" \in Ops
  /\ apps' = [apps EXCEPT ![l] = <<>>]
  /\ UNCHANGED <<level, fmt, mtx, alevel, afmt, has, own, raced, moved, call>>

ClearAppender(t, l) ==
  /\ Start(t, Configurers) /\ "clear" \in Ops /\ mtx[l] = None
  /\ apps' = [apps EXCEPT ![l] = <<>>]
  /\ UNCHANGED <<level, fmt, mtx, alevel, afmt, has, own, raced, moved, call>>

\* setFormatter(f), either overload: appenders without a formatter of their own
\* follow; each is asked, and then set.
SetFormatter(t, l, f) ==
  /\ Start(t, Configurers) /\ "fmt" \in Ops
  /\ Lock(t, l)
  /\ call' = [call EXCEPT ![t] = [Idle EXCEPT !.pc = "test", !.at = l, !.fmt = f]]
  /\ UNCHANGED <<level, apps, fmt, alevel, afmt, has, own, raced, moved>>

AskAppender(t) ==
  LET c == call[t] IN
  /\ c.pc = "test" /\ c.pos <= Len(apps[c.at])
  /\ call' = [call EXCEPT ![t] = IF has[apps[c.at][c.pos]]
                                 THEN [@ EXCEPT !.pos = c.pos + 1]
                                 ELSE [@ EXCEPT !.pc = "set"]]
  /\ UNCHANGED <<level, apps, fmt, mtx, alevel, afmt, has, own, raced, moved>>

SetAppender(t) ==
  LET c == call[t] IN
  /\ c.pc = "set"
  /\ afmt' = [afmt EXCEPT ![apps[c.at][c.pos]] = c.fmt]
  /\ call' = [call EXCEPT ![t].pc = "test", ![t].pos = @ + 1]
  /\ UNCHANGED <<level, apps, fmt, mtx, alevel, has, own, raced, moved>>

\* Mutant: the logger's own formatter is not changed.
SetFormatterForgets(t) ==
  LET c == call[t] IN
  /\ c.pc = "test" /\ c.pos > Len(apps[c.at])
  /\ Unlock(c.at)
  /\ call' = [call EXCEPT ![t] = Idle]
  /\ UNCHANGED <<level, apps, fmt, alevel, afmt, has, own, raced, moved>>

SetFormatterEnd(t) ==
  LET c == call[t] IN
  /\ c.pc = "test" /\ c.pos > Len(apps[c.at])
  /\ fmt' = [fmt EXCEPT ![c.at] = c.fmt]
  /\ Unlock(c.at)
  /\ call' = [call EXCEPT ![t] = Idle]
  /\ UNCHANGED <<level, apps, alevel, afmt, has, own, raced, moved>>

----------------------------------------------------------------------------
(* Configuration of an appender.                                           *)
AppSetLevel(t, a, v) ==
  /\ Start(t, Configurers) /\ "alevel" \in Ops
  /\ alevel' = [alevel EXCEPT ![a] = v]
  /\ UNCHANGED <<level, apps, fmt, mtx, afmt, has, own, raced, moved, call>>

\* A logger has found that appender a has no formatter of its own, and is about
\* to give it the logger's.
ToBeSet(a) == \E t \in Threads :
  \/ call[t].pc = "addset" /\ call[t].app = a
  \/ call[t].pc = "set" /\ apps[call[t].at][call[t].pos] = a

\* Mutant: setFormatter(string) does not set has_formatter.
AppSetFormatterForgets(t, a, f) ==
  /\ Start(t, Configurers) /\ "afmt" \in Ops
  /\ afmt' = [afmt EXCEPT ![a] = f]
  /\ own' = [own EXCEPT ![a] = f]
  /\ raced' = IF ToBeSet(a) THEN raced \cup {a} ELSE raced \ {a}
  /\ UNCHANGED <<level, apps, fmt, mtx, alevel, has, moved, call>>

\* setFormatter(string) of an appender.
AppSetFormatter(t, a, f) ==
  /\ Start(t, Configurers) /\ "afmt" \in Ops
  /\ afmt' = [afmt EXCEPT ![a] = f]
  /\ has' = [has EXCEPT ![a] = TRUE]
  /\ own' = [own EXCEPT ![a] = f]
  /\ raced' = IF ToBeSet(a) THEN raced \cup {a} ELSE raced \ {a}
  /\ UNCHANGED <<level, apps, fmt, mtx, alevel, moved, call>>

----------------------------------------------------------------------------
LStep(t) ==
  \/ LogLock(t) \/ LogAppend(t) \/ LogFallback(t) \/ LogReturn(t)
  \/ PushAppender(t) \/ AskAppender(t) \/ SetAppender(t) \/ SetFormatterEnd(t)

LNext ==
  \E t \in Threads :
    \/ LStep(t)
    \/ \E l \in Loggers, v \in Levels : LogCall(t, l, v) \/ SetLevel(t, l, v)
    \/ \E l \in Loggers, a \in Handed : AddAppender(t, l, a) \/ DelAppender(t, l, a)
    \/ \E l \in Loggers : ClearAppender(t, l)
    \/ \E l \in Loggers, f \in Formats : SetFormatter(t, l, f)
    \/ \E a \in Handed, v \in Levels : AppSetLevel(t, a, v)
    \/ \E a \in Handed, f \in Formats : AppSetFormatter(t, a, f)

LSpec == LInit /\ [][LNext]_lvars

----------------------------------------------------------------------------
Waits(t) == call[t].pc = "enter" /\ mtx[call[t].at] # None

\* While log() walks the appenders of a logger, the list stays as it is: every
\* appender in it gets the message, once (log.cpp:52-59).
DeliveryStable ==
  [][\A t \in Threads : call[t].pc = "loop" => apps'[call[t].at] = apps[call[t].at]]_lvars

\* Calls never block each other for good, though log() takes the root logger's
\* mutex while it holds another logger's: some call can always go on
\* (log.cpp:52-63).
SomeCallGoesOn ==
  (\E t \in Threads : call[t].pc # "idle") =>
    \E t \in Threads : call[t].pc # "idle" /\ ~Waits(t)

\* "appender formatter default legacy from logger and when logger's appender
\* changed, if its default, also change" (ReadMe.md:201): whenever the logger is
\* not locked, an appender without a formatter of its own has the logger's.  It
\* does not hold of an appender that is added to a logger after another one has
\* given it a formatter, or while another addAppender of it is under way: it
\* keeps, or gets, the other logger's (log.cpp:69, AlwaysFollows of MCLogger).
FormatterFollows ==
  \A l \in Loggers : mtx[l] = None =>
    \A a \in Listed(l) \ moved : ~has[a] => afmt[a] = fmt[l]

\* An appender that was given a formatter of its own keeps it (log.cpp:152 "use
\* str to set formatter will be considered as has formatter"), whatever loggers
\* it is added to and whatever these are given.  It does not hold when it is
\* given one just between a logger's HasFormatter() and setFormatter()
\* (log.cpp:69-70, 100-101, AlwaysOwn of MCLogger).
OwnFormatterKept == \A a \in Appenders \ raced : own[a] # None => afmt[a] = own[a]
============================================================================
