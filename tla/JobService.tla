----------------------------- MODULE JobService -----------------------------
(***************************************************************************)
(* What runnerd promises its clients, without processes, pipes, signals or *)
(* timers: jobs are numbered in order of submission, wait in one FIFO, run *)
(* at most max_running at a time, and end once, in a state that says why.  *)
(***************************************************************************)
EXTENDS Job, Sequences, FiniteSets

CONSTANT max_running

VARIABLES
    job_state,
    termination_cause,
    queue               \* the QUEUED jobs, in order of submission

serviceVars == <<job_state, termination_cause, queue>>

ServiceInit ==
    /\ job_state = [j \in JobId |-> Absent]
    /\ termination_cause = [j \in JobId |-> "none"]
    /\ queue = <<>>

InState(states) == {j \in JobId : job_state[j] \in states}

\* The jobs that have a process.
Live == InState({"RUNNING", "TERMINATING"})

Become(j, state) ==
    /\ canTransition(job_state[j], state)
    /\ job_state' = transitionJob(job_state, j, state)

Submit(j) ==
    /\ InState({Absent}) = j .. (JobIdSpace - 1)
    /\ job_state' = [job_state EXCEPT ![j] = "QUEUED"]
    /\ queue' = Append(queue, j)
    /\ UNCHANGED termination_cause

\* The oldest waiting job gets a free slot, and starts or fails to.
Start(j) ==
    /\ queue # <<>>
    /\ j = Head(queue)
    /\ Cardinality(Live) < max_running
    /\ Become(j, "RUNNING") \/ Become(j, "FAILED")
    /\ queue' = Tail(queue)
    /\ UNCHANGED termination_cause

CancelQueued(j) ==
    /\ job_state[j] = "QUEUED"
    /\ Become(j, "CANCELLED")
    /\ \E i \in DOMAIN queue :
          /\ queue[i] = j
          /\ queue' = SubSeq(queue, 1, i - 1) \o SubSeq(queue, i + 1, Len(queue))
    /\ UNCHANGED termination_cause

\* The first request to end a job fixes the cause; there is no second.
Terminate(j, cause) ==
    /\ job_state[j] = "RUNNING"
    /\ Become(j, "TERMINATING")
    /\ termination_cause' = [termination_cause EXCEPT ![j] = cause]
    /\ UNCHANGED queue

\* The job's processes are gone: the cause of the termination, if any, decides.
Finish(j) ==
    /\ \/ /\ job_state[j] = "RUNNING"
          /\ Become(j, "SUCCEEDED") \/ Become(j, "FAILED")
       \/ /\ job_state[j] = "TERMINATING"
          /\ termination_cause[j] = "kCancelled"
          /\ Become(j, "CANCELLED")
       \/ /\ job_state[j] = "TERMINATING"
          /\ termination_cause[j] = "kTimedOut"
          /\ Become(j, "TIMED_OUT")
    /\ UNCHANGED <<termination_cause, queue>>

ServiceNext ==
    \E j \in JobId :
        \/ Submit(j)
        \/ Start(j)
        \/ CancelQueued(j)
        \/ \E cause \in TerminationCause : Terminate(j, cause)
        \/ Finish(j)

ServiceSpec == ServiceInit /\ [][ServiceNext]_serviceVars
=============================================================================
