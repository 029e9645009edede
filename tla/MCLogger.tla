------------------------------ MODULE MCLogger ------------------------------
(* Symmetry for model checking Logger, and what does not hold of it.        *)
EXTENDS Logger, TLC

\* Configurers are told apart by nothing but their calls.
Symmetry == Permutations(Configurers)

\* Not so of an appender that another logger has given its formatter
\* (log.cpp:69, against ReadMe.md:201).
AlwaysFollows ==
  \A l \in Loggers : mtx[l] = None =>
    \A a \in Listed(l) : ~has[a] => afmt[a] = fmt[l]

\* Not so of an appender that is given a formatter between HasFormatter() and
\* setFormatter() of a logger's call (log.cpp:100-101, against log.cpp:152).
AlwaysOwn == \A a \in Appenders : own[a] # None => afmt[a] = own[a]
============================================================================
