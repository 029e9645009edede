---------------------------- MODULE MCLogConfig ----------------------------
(* Constant values for model checking LogConfig. *)
EXTENDS LogConfig

\* One logger has the name of the root logger.
TwoNames == <<"root", "system">>

TwoLoggers == {"root", "system", Root}

App(v, f) == [level |-> v, fmt |-> f]

\* A verbose definition, one with a formatter of its own and two appenders.
TwoDefs ==
  LET f == CHOOSE g \in Formats : g # DefaultFmt IN
  {[level |-> 1, fmt |-> None, apps |-> <<App(1, None)>>],
   [level |-> 2, fmt |-> f, apps |-> <<App(2, None), App(1, DefaultFmt)>>]}
============================================================================
