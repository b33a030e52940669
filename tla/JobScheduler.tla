---------------------------- MODULE JobScheduler ----------------------------
(***************************************************************************)
(* JobScheduler (include/runnerd/job_scheduler.h, src/job_scheduler.cpp):  *)
(* a FIFO queue of the jobs that wait and the set of jobs that occupy one  *)
(* of max_running slots.  One operator per member function.  A call that   *)
(* throws changes nothing, so the condition it checks is the guard here;   *)
(* that the daemon never makes such a call is a property of Runnerd.       *)
(*                                                                         *)
(* SchedulerSpec is the scheduler alone, used by any caller; Runnerd       *)
(* combines the same operators with the rest of the daemon.                *)
(***************************************************************************)
EXTENDS Job, FiniteSets, SequencesExt

CONSTANT max_running

ASSUME MaxRunningAssumption == max_running \in Nat /\ max_running > 0

VARIABLES
    waiting_jobs,       \* deque: the jobs that wait, first in first out
    waiting_job_ids,    \* set: the same jobs, for the membership test
    active_job_ids      \* set: the jobs that occupy a slot

schedulerVars == <<waiting_jobs, waiting_job_ids, active_job_ids>>

SchedulerInit ==
    /\ waiting_jobs = <<>>
    /\ waiting_job_ids = {}
    /\ active_job_ids = {}

SlotFree == Cardinality(active_job_ids) < max_running

\* Job id 0 is let in.
enqueueAcceptsZero(j) ==
    /\ j \notin waiting_job_ids
    /\ j \notin active_job_ids
    /\ waiting_job_ids' = waiting_job_ids \cup {j}
    /\ waiting_jobs' = Append(waiting_jobs, j)
    /\ UNCHANGED active_job_ids

enqueue(j) ==
    /\ j # 0
    /\ j \notin waiting_job_ids
    /\ j \notin active_job_ids
    /\ waiting_job_ids' = waiting_job_ids \cup {j}
    /\ waiting_jobs' = Append(waiting_jobs, j)
    /\ UNCHANGED active_job_ids

\* The capacity test is off by one.
takeNextJobToStartOneTooMany(j) ==
    /\ Cardinality(active_job_ids) <= max_running
    /\ waiting_jobs # <<>>
    /\ j = Head(waiting_jobs)
    /\ active_job_ids' = active_job_ids \cup {j}
    /\ waiting_jobs' = Tail(waiting_jobs)
    /\ waiting_job_ids' = waiting_job_ids \ {j}

\* The last job that came is taken first.
takeNextJobToStartLifo(j) ==
    /\ SlotFree
    /\ waiting_jobs # <<>>
    /\ j = Last(waiting_jobs)
    /\ active_job_ids' = active_job_ids \cup {j}
    /\ waiting_jobs' = Front(waiting_jobs)
    /\ waiting_job_ids' = waiting_job_ids \ {j}

\* Returns j, which from then on occupies a slot.
takeNextJobToStart(j) ==
    /\ SlotFree
    /\ waiting_jobs # <<>>
    /\ j = Head(waiting_jobs)
    /\ active_job_ids' = active_job_ids \cup {j}
    /\ waiting_jobs' = Tail(waiting_jobs)
    /\ waiting_job_ids' = waiting_job_ids \ {j}

\* takeNextJobToStart returns nullopt, and changes nothing.
nothingToStart == ~SlotFree \/ waiting_jobs = <<>>

onJobReachedTerminalState(j) ==
    /\ j \in active_job_ids
    /\ active_job_ids' = active_job_ids \ {j}
    /\ UNCHANGED <<waiting_jobs, waiting_job_ids>>

\* The set forgets the job and the queue keeps it.
cancelQueuedJobKeepsEntry(j) ==
    /\ j \in waiting_job_ids
    /\ waiting_job_ids' = waiting_job_ids \ {j}
    /\ UNCHANGED <<waiting_jobs, active_job_ids>>

\* The call that returns true: std::find stops at the first match in the queue.
cancelQueuedJob(j) ==
    /\ j \in waiting_job_ids
    /\ \E i \in DOMAIN waiting_jobs :
          /\ waiting_jobs[i] = j
          /\ \A k \in 1 .. (i - 1) : waiting_jobs[k] # j
          /\ waiting_jobs' = RemoveAt(waiting_jobs, i)
    /\ waiting_job_ids' = waiting_job_ids \ {j}
    /\ UNCHANGED active_job_ids

\* Callers pass any value of the type, the reserved id 0 included.
SchedulerNext ==
    \E j \in JobId \cup {0} :
        \/ enqueue(j)
        \/ takeNextJobToStart(j)
        \/ onJobReachedTerminalState(j)
        \/ cancelQueuedJob(j)

SchedulerSpec == SchedulerInit /\ [][SchedulerNext]_schedulerVars

-----------------------------------------------------------------------------

SchedulerTypeOK ==
    /\ waiting_jobs \in Seq(JobId)
    /\ waiting_job_ids \in SUBSET JobId
    /\ active_job_ids \in SUBSET JobId

(***************************************************************************)
(* A job is in one place only: the deque holds each of its jobs once, the  *)
(* set that mirrors it holds the same jobs, and none of them occupies a    *)
(* slot.  cancelQueuedJob throws "waiting job id is missing from FIFO      *)
(* queue" otherwise, a job left behind in the deque would be started after *)
(* its cancellation, and one that waits and runs would be started twice.   *)
(***************************************************************************)
JobsAreHeldOnce ==
    /\ waiting_job_ids = ToSet(waiting_jobs)
    /\ \A p, q \in DOMAIN waiting_jobs :
          waiting_jobs[p] = waiting_jobs[q] => p = q
    /\ waiting_job_ids \cap active_job_ids = {}

(***************************************************************************)
(* At most max_running jobs occupy a slot, whatever the order of starts,   *)
(* cancellations and terminations.                                         *)
(***************************************************************************)
NoMoreThanMaxRunning == Cardinality(active_job_ids) <= max_running

\* For every two places in the queue, what the step may do to their jobs.
NoOvertaking ==
    \A p, q \in DOMAIN waiting_jobs :
        p < q =>
          /\ waiting_jobs[q] \in active_job_ids' =>
                waiting_jobs[p] \notin waiting_job_ids'
          /\ \A s, t \in DOMAIN waiting_jobs' :
                /\ waiting_jobs'[s] = waiting_jobs[p]
                /\ waiting_jobs'[t] = waiting_jobs[q]
                => s < t

(***************************************************************************)
(* First in, first out: a job starts only when every job that was ahead of *)
(* it has left the queue, and no step overtakes: two jobs that wait before *)
(* and after a step wait in the same order.                                *)
(***************************************************************************)
FirstInFirstOut == [][NoOvertaking]_schedulerVars
=============================================================================
