----------------------------- MODULE Deadlines ------------------------------
(***************************************************************************)
(* What TimeoutManager promises its callers, without time: every job has   *)
(* at most one active deadline, a new one replaces the old one, cancel is  *)
(* idempotent, a deadline is reported once, and as long as one is active   *)
(* the timer will wake the event loop.  TimeoutManager implements it (with *)
(* a clock, a heap with stale entries and a timerfd); Runnerd uses it, so  *)
(* a deadline may expire at any moment in Runnerd.                         *)
(***************************************************************************)
EXTENDS Job

VARIABLES
    active_deadlines,   \* the jobs that have an active deadline
    armed               \* whether the timer is set, or has fired and is unread

deadlineVars == <<active_deadlines, armed>>

DeadlinesInit ==
    /\ active_deadlines = {}
    /\ armed = FALSE

schedule(j) ==
    /\ active_deadlines' = active_deadlines \cup {j}
    /\ armed' = TRUE

\* The timer is left as it is: a wake-up with nothing to report is harmless.
cancel(j) ==
    /\ active_deadlines' = active_deadlines \ {j}
    /\ UNCHANGED armed

\* The timer woke the loop; the jobs of expired are reported and forgotten.
handleReadable(expired) ==
    /\ armed
    /\ expired \subseteq active_deadlines
    /\ active_deadlines' = active_deadlines \ expired
    /\ armed' = (active_deadlines' # {})

DeadlinesNext ==
    \/ \E j \in JobId : schedule(j) \/ cancel(j)
    \/ \E expired \in SUBSET JobId : handleReadable(expired)

DeadlinesSpec == DeadlinesInit /\ [][DeadlinesNext]_deadlineVars
=============================================================================
