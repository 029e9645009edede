----------------------------- MODULE LogConfig -----------------------------
(***************************************************************************)
(* How the loggers are configured: the ConfigVar "logs" holds a set of     *)
(* logger definitions, and its change listener (LogIniter of src/log.cpp)  *)
(* carries the difference between the old and the new set over to the      *)
(* loggers of the LoggerManager, one method call after the other, while    *)
(* other threads log.  The calls on loggers are those of module Logger.    *)
(*                                                                         *)
(* A logger is a name of NameSeq; the root logger is not in m_loggers, a   *)
(* logger named "root" is another one.  A level left out (UNKNOW) lies     *)
(* below all others, like DEBUG.  What the listener itself logs is left    *)
(* out.                                                                    *)
(***************************************************************************)
EXTENDS Logger, SequencesExt

CONSTANTS
  Loaders,    \* threads that load the configuration
  NameSeq,    \* the logger names, each once, in the order std::set keeps them in
  Defs,       \* definitions of a logger: level, formatter or None, appenders
  Off         \* the level 100 a deleted logger is set to

Names == ToSet(NameSeq)
Confs == [Names -> Defs \cup {None}]

ASSUME LogConfigAssumption ==
  /\ Loaders \subseteq Configurers
  /\ Loggers = Names \cup {Root} /\ Root \notin Names
  /\ NameSeq \in Seq(Names)
  /\ \A i, j \in DOMAIN NameSeq : NameSeq[i] = NameSeq[j] => i = j
  /\ None \notin Defs /\ Defs \subseteq
       [level : Levels, fmt : Formats \cup {None},
        apps : Seq([level : Levels, fmt : Formats \cup {None}])]
  /\ Off \in Levels /\ \A d \in Defs : d.level < Off

VARIABLES
  conf, \* m_val of the ConfigVar "logs"
  reg,  \* m_loggers of the LoggerManager: the logger of each name, or None
  load  \* the setValue each loader is in, with the locals of the listener

vars == <<lvars, conf, reg, load>>

\* No load; otherwise new is the set being loaded and todo the names the loop
\* has still to come to, the first of them being at hand.
NoLoad == [pc |-> "idle", new |-> None, todo |-> {}, pos |-> 1, app |-> None]

TypeOK ==
  /\ LTypeOK
  /\ conf \in Confs
  /\ reg \in [Names -> Loggers \cup {None}]
  /\ load \in [Loaders ->
       [pc : {"idle", "define", "level", "format", "clear", "build", "attach",
              "delete", "silence", "store"},
        new : Confs \cup {None}, todo : SUBSET Names, pos : Nat,
        app : Appenders \cup {None}]]

\* Mutant: the root logger is registered under its name.
InitRootNamed ==
  /\ LInit
  /\ conf = [n \in Names |-> None]
  /\ reg = [n \in Names |-> IF n = Head(NameSeq) THEN Root ELSE None]
  /\ load = [t \in Loaders |-> NoLoad]

Init ==
  /\ LInit
  /\ conf = [n \in Names |-> None]
  /\ reg = [n \in Names |-> None]
  /\ load = [t \in Loaders |-> NoLoad]

Rank(n)    == CHOOSE i \in DOMAIN NameSeq : NameSeq[i] = n
Defined(c) == {n \in Names : c[n] # None}
First(S)   == CHOOSE n \in S : \A m \in S : Rank(n) <= Rank(m)
Name(t)    == First(load[t].todo)
Def(t)     == load[t].new[Name(t)]
At(t, pc)  == load[t].pc = pc /\ call[t].pc = "idle"

\* getLogger(n): a logger that is not registered is made.
GetLogger(n) == reg' = [reg EXCEPT ![n] = IF @ = None THEN n ELSE @]

----------------------------------------------------------------------------
\* setValue with a new set: the listener starts, and comes to the names of it.
LoadBegin(t, c) ==
  /\ At(t, "idle") /\ c # conf
  /\ load' = [load EXCEPT ![t] = [NoLoad EXCEPT !.pc = "define", !.new = c,
                                                !.todo = Defined(c)]]
  /\ UNCHANGED <<lvars, conf, reg>>

\* A definition that is new or modified is carried over to its logger.
LoadChanged(t) ==
  /\ At(t, "define") /\ load[t].todo # {}
  /\ Def(t) # conf[Name(t)]
  /\ GetLogger(Name(t))
  /\ load' = [load EXCEPT ![t].pc = "level"]
  /\ UNCHANGED <<lvars, conf>>

\* An unchanged one: the listener returns.
LoadUnchanged(t) ==
  /\ At(t, "define") /\ load[t].todo # {}
  /\ Def(t) = conf[Name(t)]
  /\ load' = [load EXCEPT ![t].pc = "store"]
  /\ UNCHANGED <<lvars, conf, reg>>

LoadLevel(t) ==
  /\ At(t, "level")
  /\ SetLevel(t, reg[Name(t)], Def(t).level)
  /\ load' = [load EXCEPT ![t].pc = IF Def(t).fmt = None THEN "clear" ELSE "format"]
  /\ UNCHANGED <<conf, reg>>

LoadFormat(t) ==
  /\ At(t, "format")
  /\ SetFormatter(t, reg[Name(t)], Def(t).fmt)
  /\ load' = [load EXCEPT ![t].pc = "clear"]
  /\ UNCHANGED <<conf, reg>>

\* Mutant: the old appenders stay.
LoadClearSkipped(t) ==
  /\ At(t, "clear")
  /\ load' = [load EXCEPT ![t].pc = "build", ![t].pos = 1]
  /\ UNCHANGED <<lvars, conf, reg>>

LoadClear(t) ==
  /\ At(t, "clear")
  /\ ClearAppender(t, reg[Name(t)])
  /\ load' = [load EXCEPT ![t].pc = "build", ![t].pos = 1]
  /\ UNCHANGED <<conf, reg>>

\* A new appender, with the level and formatter defined for it.
LoadBuild(t) ==
  LET used == {call[u].app : u \in Threads} \cup {load[u].app : u \in Loaders}
                \cup (UNION {Listed(l) : l \in Loggers})
      free == Appenders \ used
      a    == CHOOSE b \in free : TRUE
      d    == Def(t).apps[load[t].pos] IN
  /\ At(t, "build") /\ load[t].pos <= Len(Def(t).apps)
  /\ free # {}
  /\ alevel' = [alevel EXCEPT ![a] = d.level]
  /\ afmt' = [afmt EXCEPT ![a] = d.fmt]
  /\ own' = [own EXCEPT ![a] = d.fmt]
  /\ has' = [has EXCEPT ![a] = d.fmt # None]
  /\ raced' = raced \ {a} /\ moved' = moved \ {a}
  /\ load' = [load EXCEPT ![t].pc = "attach", ![t].app = a]
  /\ UNCHANGED <<level, apps, fmt, mtx, call, conf, reg>>

\* Mutant: the last appender is not attached.
LoadAttachNot(t) ==
  /\ At(t, "attach")
  /\ IF load[t].pos = Len(Def(t).apps) THEN UNCHANGED lvars
     ELSE AddAppender(t, reg[Name(t)], load[t].app)
  /\ load' = [load EXCEPT ![t].pc = "build", ![t].pos = @ + 1, ![t].app = None]
  /\ UNCHANGED <<conf, reg>>

LoadAttach(t) ==
  /\ At(t, "attach")
  /\ AddAppender(t, reg[Name(t)], load[t].app)
  /\ load' = [load EXCEPT ![t].pc = "build", ![t].pos = @ + 1, ![t].app = None]
  /\ UNCHANGED <<conf, reg>>

LoadBuilt(t) ==
  /\ At(t, "build") /\ load[t].pos > Len(Def(t).apps)
  /\ load' = [load EXCEPT ![t].pc = "define", ![t].todo = @ \ {Name(t)}]
  /\ UNCHANGED <<lvars, conf, reg>>

\* The second loop comes to the names that are in the old set only.
LoadDefined(t) ==
  /\ At(t, "define") /\ load[t].todo = {}
  /\ load' = [load EXCEPT ![t].pc = "delete",
                ![t].todo = Defined(conf) \ Defined(load[t].new)]
  /\ UNCHANGED <<lvars, conf, reg>>

LoadDelete(t) ==
  /\ At(t, "delete") /\ load[t].todo # {}
  /\ GetLogger(Name(t))
  /\ SetLevel(t, reg'[Name(t)], Off)
  /\ load' = [load EXCEPT ![t].pc = "silence"]
  /\ UNCHANGED conf

\* Mutant: the level of a deleted logger is put back.
LoadSilenceNot(t) ==
  /\ At(t, "silence")
  /\ SetLevel(t, reg[Name(t)], Lowest)
  /\ load' = [load EXCEPT ![t].pc = "delete", ![t].todo = @ \ {Name(t)}]
  /\ UNCHANGED <<conf, reg>>

LoadSilence(t) ==
  /\ At(t, "silence")
  /\ ClearAppender(t, reg[Name(t)])
  /\ load' = [load EXCEPT ![t].pc = "delete", ![t].todo = @ \ {Name(t)}]
  /\ UNCHANGED <<conf, reg>>

LoadDeleted(t) ==
  /\ At(t, "delete") /\ load[t].todo = {}
  /\ load' = [load EXCEPT ![t].pc = "store"]
  /\ UNCHANGED <<lvars, conf, reg>>

\* The listener has returned: setValue stores once no loader notifies.
LoadStore(t) ==
  /\ At(t, "store")
  /\ \A u \in Loaders : load[u].pc \in {"idle", "store"}
  /\ conf' = load[t].new
  /\ load' = [load EXCEPT ![t] = NoLoad]
  /\ UNCHANGED <<lvars, reg>>

----------------------------------------------------------------------------
\* YECC_LOG_NAME(n) in the program, which registers a logger as well.
Register(n) ==
  /\ reg[n] = None
  /\ GetLogger(n)
  /\ UNCHANGED <<lvars, conf, load>>

\* The program logs with a logger it has looked up, or with the root logger.
Log(t) ==
  /\ \/ \E l \in {reg[n] : n \in Names} \cup {Root}, v \in Levels \ {Off} :
          l # None /\ LogCall(t, l, v)
     \/ LStep(t)
  /\ UNCHANGED <<conf, reg, load>>

Load(t) ==
  \/ LoadChanged(t) \/ LoadUnchanged(t) \/ LoadLevel(t) \/ LoadFormat(t)
  \/ LoadClear(t) \/ LoadBuild(t) \/ LoadAttach(t) \/ LoadBuilt(t)
  \/ LoadDefined(t) \/ LoadDelete(t) \/ LoadSilence(t) \/ LoadDeleted(t)
  \/ LoadStore(t)

Next ==
  \/ \E t \in Loaders : Load(t) \/ \E c \in Confs : LoadBegin(t, c)
  \/ \E t \in Threads : Log(t)
  \/ \E n \in Names : Register(n)

Spec == Init /\ [][Next]_vars

----------------------------------------------------------------------------
\* The first k appenders of logger l are as d defines them.
Built(l, d, k) ==
  /\ Len(apps[l]) = k /\ k <= Len(d.apps)
  /\ \A i \in 1 .. k : /\ alevel[apps[l][i]] = d.apps[i].level
                       /\ own[apps[l][i]] = d.apps[i].fmt

\* Logger l is in every respect as d defines it.
Matches(l, d) ==
  /\ level[l] = d.level
  /\ d.fmt # None => fmt[l] = d.fmt
  /\ Built(l, d, Len(d.apps))
  /\ \A a \in Listed(l) : afmt[a] = IF own[a] = None THEN fmt[l] ELSE own[a]

\* "every conf change(add/modify/delete) will be detected" (ReadMe.md:196): when
\* a new configuration is stored, every logger it defines is as it says, and
\* those it no longer defines are silent.
ConfApplied ==
  [][conf' # conf => \A n \in Names :
       /\ conf'[n] # None => reg[n] # None /\ Matches(reg[n], conf'[n])
       /\ conf[n] # None /\ conf'[n] = None =>
            level[reg[n]] = Off /\ apps[reg[n]] = <<>>]_vars

\* What holds of any load: the definitions up to the first unchanged one, in
\* the order of the names, are carried over, and if none is unchanged, so are
\* the deletions (log.cpp:597-642, with the return in line 612).
AppliedUpToUnchanged ==
  [][conf' # conf => \A i \in DOMAIN NameSeq :
       LET n == NameSeq[i]
           changed(j) == conf'[NameSeq[j]] = None \/ conf'[NameSeq[j]] # conf[NameSeq[j]]
       IN
       /\ conf'[n] # None /\ (\A j \in 1 .. i : changed(j)) =>
            reg[n] # None /\ Matches(reg[n], conf'[n])
       /\ conf[n] # None /\ conf'[n] = None /\ (\A j \in DOMAIN NameSeq : changed(j)) =>
            level[reg[n]] = Off /\ apps[reg[n]] = <<>>]_vars

\* "YECC_LOG_ROOT will not be modified even if conf file has set a logger named
\* 'root'" (ReadMe.md:197).
RootUntouched ==
  /\ level[Root] = Lowest /\ fmt[Root] = DefaultFmt
  /\ apps[Root] = <<Stdout>> /\ afmt[Stdout] = DefaultFmt

\* Whatever moment a message is logged in, it never meets appenders of two
\* definitions: its logger has none, all those of one definition, or the first
\* few of the one that is being loaded (log.cpp:617-633, 639-640).
NoMixture ==
  \A n \in Names : reg[n] # None /\ apps[reg[n]] # <<>> =>
    \/ \E d \in Defs : Built(reg[n], d, Len(d.apps))
    \/ \E t \in Loaders, k \in 1 .. MaxApps :
         load[t].pc # "idle" /\ load[t].new[n] # None /\ Built(reg[n], load[t].new[n], k)
============================================================================
