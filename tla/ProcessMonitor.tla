--------------------------- MODULE ProcessMonitor ---------------------------
(***************************************************************************)
(* ProcessMonitor (src/process_monitor.cpp) and the job table it updates:  *)
(* starting a job, draining its pipes, reaping its child, settling it once *)
(* the child is reaped and every pipe is at end of file, and signalling    *)
(* its process group.                                                      *)
(*                                                                         *)
(* An ActiveProcess is reduced to what decides the outcome: membership in  *)
(* active_jobs (pid_to_job_ has the same domain), the pipes still tracked  *)
(* (a descriptor, its eof flag and its tracked_fds_ entry change together, *)
(* except inside startJob, where a pipe is open before it is registered)   *)
(* and whether startup_error_bytes is empty.  child_exited is              *)
(* child[j] = "reaped": only this module's waitpid calls lead there.       *)
(* Output bytes are reduced to whether some are unread (Processes).        *)
(*                                                                         *)
(* These are operators, not a specification: Runnerd calls them.  Most     *)
(* leave the processes' part they do not mention to the caller.            *)
(***************************************************************************)
EXTENDS Job, Processes, Sequences

VARIABLES
    job_state,              \* Job.state of every id, Absent before SUBMIT
    termination_cause,      \* Job.termination_cause, "none" while not set
    exit_status,            \* Job.exit_code / exit_signal, "none" while not set
    active_jobs,            \* the domain of active_jobs_
    startup_error_bytes,    \* the jobs that have sent a startup error record
    notifications           \* terminal_job_notifications, filled by the callback

monitorVars == <<job_state, termination_cause, exit_status, active_jobs,
                 tracked_fds, startup_error_bytes, notifications>>

MonitorTypeOK ==
    /\ job_state \in [JobId -> JobState \cup {Absent}]
    /\ termination_cause \in [JobId -> TerminationCause \cup {"none"}]
    /\ exit_status \in [JobId -> WaitStatus]
    /\ active_jobs \in SUBSET JobId
    /\ tracked_fds \in SUBSET (JobId \X Pipes)
    /\ startup_error_bytes \in SUBSET JobId
    /\ notifications \in Seq(JobId)

MonitorInit ==
    /\ job_state = [j \in JobId |-> Absent]
    /\ termination_cause = [j \in JobId |-> "none"]
    /\ exit_status = [j \in JobId |-> "none"]
    /\ active_jobs = {}
    /\ tracked_fds = {}
    /\ startup_error_bytes = {}
    /\ notifications = <<>>

-----------------------------------------------------------------------------

\* startJob, all well: the child runs and its three pipes are registered.
startJobRuns(j) ==
    /\ job_state[j] = "QUEUED"
    /\ SpawnChild(j)
    /\ active_jobs' = active_jobs \cup {j}
    /\ tracked_fds' = tracked_fds \cup ({j} \X Pipes)
    /\ job_state' = transitionJob(job_state, j, "RUNNING")
    /\ UNCHANGED <<termination_cause, exit_status, startup_error_bytes,
                   notifications>>

\* launchProcess throws (no descriptors, no processes): failQueuedJob.
startJobLaunchFails(j) ==
    /\ job_state[j] = "QUEUED"
    /\ job_state' = transitionJob(job_state, j, "FAILED")
    /\ UNCHANGED <<termination_cause, exit_status, active_jobs, tracked_fds,
                   startup_error_bytes, notifications>>
    /\ UNCHANGED processVars

\* startJob up to a call after fork that fails (setpgid or fcntl in launchProcess,
\* epoll_ctl in registerProcessFd): the child runs, its pipes are open, the job
\* is still QUEUED.  An ActiveProcess made here is erased again before startJob
\* returns.
startJobForks(j) ==
    /\ job_state[j] = "QUEUED"
    /\ SpawnChild(j)
    /\ tracked_fds' = tracked_fds \cup ({j} \X Pipes)
    /\ UNCHANGED <<job_state, termination_cause, exit_status, active_jobs,
                   startup_error_bytes, notifications>>

\* launchProcess's catch, ~LaunchedProcessGuard and abandonStartedJob all close
\* the pipes first, whatever is in them and whoever writes to them.
closeUnread(j) ==
    /\ tracked_fds' = tracked_fds \ ({j} \X Pipes)
    /\ UNCHANGED <<job_state, termination_cause, exit_status, active_jobs,
                   startup_error_bytes, notifications>>
    /\ UNCHANGED processVars

\* Fails the job as a settled one, with a notification.
startJobAbandonedNotifies(j) ==
    /\ killAndReapChild(j) \/ killAndReapProcess(j)
    /\ job_state' = transitionJob(job_state, j, "FAILED")
    /\ notifications' = Append(notifications, j)
    /\ UNCHANGED <<termination_cause, exit_status, active_jobs, tracked_fds,
                   startup_error_bytes>>

\* Then the child is killed and reaped, alone (launchProcess) or with its process
\* group (the other two), and the job fails.  The callback is not called.
startJobAbandoned(j) ==
    /\ killAndReapChild(j) \/ killAndReapProcess(j)
    /\ job_state' = transitionJob(job_state, j, "FAILED")
    /\ UNCHANGED <<termination_cause, exit_status, active_jobs, tracked_fds,
                   startup_error_bytes, notifications>>

-----------------------------------------------------------------------------

\* Closes a pipe on hang-up without reading what is left in it.
drainProcessFdsNoRead(j, ks) ==
    LET open == {k \in ks : <<j, k>> \in tracked_fds}
    IN /\ tracked_fds' = tracked_fds \ {<<j, k>> : k \in open \ held[j]}
       /\ UNCHANGED <<unread, startup_error_bytes>>

\* drainProcessFd on those of the pipes ks of j that are still tracked: reads
\* what is there, and at end of file closes the descriptor (closeTrackedFd).
drainProcessFds(j, ks) ==
    LET open == {k \in ks : <<j, k>> \in tracked_fds}
    IN /\ unread' = [unread EXCEPT ![j] = @ \ open]
       /\ startup_error_bytes' =
             IF "kStartupError" \in open \cap unread[j]
             THEN startup_error_bytes \cup {j} ELSE startup_error_bytes
       /\ tracked_fds' = tracked_fds \ {<<j, k>> : k \in open \ held[j]}

\* The state in which j ends: the cause of its termination comes first, then a
\* startup error, then the wait status.
FinalState(j) ==
    IF job_state[j] = "TERMINATING"
    THEN IF termination_cause[j] = "kCancelled" THEN "CANCELLED" ELSE "TIMED_OUT"
    ELSE IF j \in startup_error_bytes' \/ wait_status[j] # "exit0"
         THEN "FAILED" ELSE "SUCCEEDED"

\* Settles as soon as the child is reaped, whatever the pipes still hold.
tryFinalizeJobEarly(j) ==
    IF j \in active_jobs /\ child'[j] = "reaped"
    THEN /\ job_state' = transitionJob(job_state, j, FinalState(j))
         /\ exit_status' = [exit_status EXCEPT ![j] = wait_status[j]]
         /\ active_jobs' = active_jobs \ {j}
         /\ notifications' = Append(notifications, j)
         /\ UNCHANGED termination_cause
    ELSE UNCHANGED <<job_state, exit_status, active_jobs, notifications,
                     termination_cause>>

\* Settles j once its child is reaped and no pipe is left, as they are after the
\* rest of the step (child', tracked_fds', startup_error_bytes').
tryFinalizeJob(j) ==
    IF /\ j \in active_jobs
       /\ child'[j] = "reaped"
       /\ \A k \in Pipes : <<j, k>> \notin tracked_fds'
    THEN /\ job_state' = transitionJob(job_state, j, FinalState(j))
         /\ exit_status' =
               IF job_state[j] # "TERMINATING" /\ j \in startup_error_bytes'
               THEN exit_status
               ELSE [exit_status EXCEPT ![j] = wait_status[j]]
         /\ active_jobs' = active_jobs \ {j}
         /\ notifications' = Append(notifications, j)
         /\ UNCHANGED termination_cause
    ELSE UNCHANGED <<job_state, exit_status, active_jobs, notifications,
                     termination_cause>>

-----------------------------------------------------------------------------

PipeReady(j, k) ==
    /\ <<j, k>> \in tracked_fds
    /\ k \in unread[j] \/ k \notin held[j]

\* handleFileDescriptorEvent on a pipe.
handlePipeEvent(j, k) ==
    /\ PipeReady(j, k)
    /\ UNCHANGED <<child, wait_status, kin, held, signals, sigchld>>
    /\ drainProcessFds(j, {k})
    /\ tryFinalizeJob(j)

\* One turn of the waitpid(-1) loop of reapExitedChildren.
reapExitedChild(j) ==
    /\ child[j] = "zombie"
    /\ child' = [child EXCEPT ![j] = "reaped"]
    /\ UNCHANGED <<wait_status, kin, held, unread, signals, sigchld>>
    /\ UNCHANGED <<tracked_fds, startup_error_bytes>>
    /\ tryFinalizeJob(j)

\* waitpid(pid) first; a reaped child's pipes are drained and the job settled if
\* nothing is left.  It is not when descendants still hold a pipe.
finishExitedChildBeforeSignal(j) ==
    IF ChildAlive(j)
    THEN UNCHANGED <<processVars, monitorVars>>
    ELSE /\ child' = [child EXCEPT ![j] = "reaped"]
         /\ UNCHANGED <<wait_status, kin, held, signals, sigchld>>
         /\ drainProcessFds(j, Pipes)
         /\ tryFinalizeJob(j)

\* The state changes before the signal is known to be sent.
requestTerminateEagerly(j, cause) ==
    /\ job_state' = transitionJob(job_state, j, "TERMINATING")
    /\ termination_cause' = [termination_cause EXCEPT ![j] = cause]
    /\ IF GroupExists(j) THEN SignalGroup(j, "SIGTERM") ELSE UNCHANGED processVars
    /\ UNCHANGED <<exit_status, active_jobs, tracked_fds, startup_error_bytes,
                   notifications>>

\* The second half of requestTerminate, after finishExitedChildBeforeSignal:
\* kill(-pgid, SIGTERM), and only if it succeeds the state and the cause.
requestTerminateSends(j, cause) ==
    /\ SignalGroup(j, "SIGTERM")
    /\ job_state' = transitionJob(job_state, j, "TERMINATING")
    /\ termination_cause' = [termination_cause EXCEPT ![j] = cause]
    /\ UNCHANGED <<exit_status, active_jobs, tracked_fds, startup_error_bytes,
                   notifications>>

\* The second half of forceKill: kill(-pgid, SIGKILL).
forceKillSends(j) ==
    /\ SignalGroup(j, "SIGKILL")
    /\ UNCHANGED monitorVars
=============================================================================
