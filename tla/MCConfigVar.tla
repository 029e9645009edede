---------------------------- MODULE MCConfigVar ----------------------------
(* Constant values for model checking ConfigVar, and its mutants. *)
EXTENDS ConfigVar

\* Every ConfigVar has a T of its own: no two share a key counter.
OwnTypes == [x \in Vars |-> x]

\* All ConfigVars have the same T.
OneType == [x \in Vars |-> "T"]

\* Not so once two setValue of a variable overlap: the listeners hear of the
\* two changes in one order and the value is stored in the other
\* (config.hpp:273-283, the gap between the two locks).
AlwaysUpToDate ==
  \A x \in Vars : \A k \in Registered(x) :
    told[x][k] # None /\ ~Setting(x) => told[x][k].new = val[x]

\* Not so for a listener added in that gap: it never hears of the change.
AlwaysAnnounced ==
  [][\A x \in Vars : val'[x] # val[x] =>
       \A k \in Registered(x) : told[x][k] = [old |-> val[x], new |-> val'[x]]]_vars

\* Not so once two addListener calls on variables of one type overlap
\* (config.hpp:287-290, a counter that no lock guards).
AlwaysFound ==
  \A h \in handles : h.key \in Keys /\ cbs[h.var][h.key] = h.cb
============================================================================
