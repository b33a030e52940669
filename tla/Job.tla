-------------------------------- MODULE Job --------------------------------
(***************************************************************************)
(* The job state machine shared by every part of runnerd                   *)
(* (include/runnerd/job.h, src/job.cpp).  The rest of a Job (argv, output, *)
(* messages) is data that no property of this project looks at.            *)
(***************************************************************************)
EXTENDS Naturals

CONSTANT JobIdSpace     \* number of values of a JobId: 2^64 in the code

ASSUME JobIdSpaceAssumption == JobIdSpace \in Nat /\ JobIdSpace > 1

\* 0 is never given to a job: next_job_id starts at 1 and 0 means "exhausted".
JobId == 1 .. (JobIdSpace - 1)

\* Where a job that is not in the job table is.
Absent == "ABSENT"

JobState == {"QUEUED", "RUNNING", "TERMINATING", "SUCCEEDED", "FAILED",
             "CANCELLED", "TIMED_OUT", "INTERRUPTED"}

TerminationCause == {"kCancelled", "kTimedOut"}

isTerminal(state) ==
    state \in {"SUCCEEDED", "FAILED", "CANCELLED", "TIMED_OUT", "INTERRUPTED"}

\* The successors of each state; a state that is not listed has none.
canTransition(from, to) ==
    \/ /\ from = "QUEUED"
       /\ to \in {"RUNNING", "FAILED", "CANCELLED", "INTERRUPTED"}
    \/ /\ from = "RUNNING"
       /\ to \in {"SUCCEEDED", "FAILED", "TERMINATING", "INTERRUPTED"}
    \/ /\ from = "TERMINATING"
       /\ to \in {"CANCELLED", "TIMED_OUT", "INTERRUPTED"}

\* The job state after transitionJob(job, to); the code throws when the move is
\* not allowed, so every use is guarded by canTransition.
transitionJob(state, j, to) == [state EXCEPT ![j] = to]
=============================================================================
