----------------------------- MODULE Coroutine -----------------------------
(***************************************************************************)
(* What the class Fiber promises: stackful coroutines that belong to       *)
(* threads.  Control is with a thread's own code or with one coroutine;    *)
(* resuming hands it to a coroutine, suspending or finishing hands it back *)
(* to the thread's own code, and a coroutine goes on where it stopped.     *)
(* Names of threads also name their own code.                              *)
(***************************************************************************)
CONSTANTS
  Threads,
  Coroutines

VARIABLES
  active, \* who has control in each thread
  status  \* progress of each coroutine

cvars == <<active, status>>

CTypeOK ==
  /\ active \in [Threads -> Threads \cup Coroutines]
  /\ status \in [Coroutines -> {"absent", "new", "active", "suspended", "done"}]

CInit ==
  /\ active = [t \in Threads |-> t]
  /\ status = [c \in Coroutines |-> "absent"]

Move(c, from, to) ==
  /\ status[c] \in from
  /\ status' = [status EXCEPT ![c] = to]

New(c) == Move(c, {"absent"}, "new") /\ UNCHANGED active

Restart(c) == Move(c, {"done"}, "new") /\ UNCHANGED active

Delete(c) == Move(c, {"new", "done"}, "absent") /\ UNCHANGED active

Resume(t, c) ==
  /\ active[t] = t
  /\ Move(c, {"new", "suspended"}, "active")
  /\ active' = [active EXCEPT ![t] = c]

Leave(t, c, how) ==
  /\ active[t] = c
  /\ Move(c, {"active"}, how)
  /\ active' = [active EXCEPT ![t] = t]

CNext ==
  \E c \in Coroutines :
    \/ New(c) \/ Restart(c) \/ Delete(c)
    \/ \E t \in Threads : \/ Resume(t, c)
                          \/ Leave(t, c, "suspended")
                          \/ Leave(t, c, "done")

CSpec == CInit /\ [][CNext]_cvars

\* A coroutine is active exactly when one thread has given it control.
OneHolder ==
  \A c \in Coroutines :
    /\ status[c] = "active" <=> \E t \in Threads : active[t] = c
    /\ \A t, u \in Threads : active[t] = c /\ active[u] = c => t = u
============================================================================
