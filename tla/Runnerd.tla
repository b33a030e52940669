------------------------------ MODULE Runnerd -------------------------------
(***************************************************************************)
(* The daemon (src/runnerd_main.cpp): one thread that waits in epoll_wait  *)
(* and runs a handler for every event, over the scheduler, the process     *)
(* monitor and the deadlines.  Its steps interleave with everything the    *)
(* jobs' processes do (Processes).                                         *)
(*                                                                         *)
(* pc is where the thread is.  A handler is cut where what it read of the  *)
(* world may be out of date when it goes on (waitpid, then kill) and where *)
(* it loops; between two cuts it is one action.                            *)
(*                                                                         *)
(*   "loop"       in epoll_wait: takes a request or an event               *)
(*   "reap"       in the waitpid loop of reapExitedChildren                *)
(*   "deadline"   in the loop of handleDeadlineEvent over expired          *)
(*   "terminate"  in requestTerminate, before waitpid                      *)
(*   "sigterm"    in requestTerminate, before kill                         *)
(*   "grace"      in scheduleForceKillDeadline                             *)
(*   "kill"       in forceKill, before waitpid                             *)
(*   "sigkill"    in forceKill, before kill                                *)
(*   "notify"     in the loop of processTerminalJobNotifications           *)
(*   "pump"       in the loop of pumpScheduler                             *)
(*   "register"   in startJob, past fork, where a call has failed          *)
(*   "abandon"    in startJob, past close, before kill                     *)
(*   "started"    in pumpScheduler, after startJob(cur)                    *)
(*   "dead"       main has left its loop on an exception                   *)
(*                                                                         *)
(* cur is the job a function works on, ret where it returns to.  Clients   *)
(* are any sequence of SUBMIT and CANCEL requests; PING, LIST, STATUS and  *)
(* rejected requests change no state that is modelled here.                *)
(***************************************************************************)
EXTENDS JobScheduler, Deadlines, ProcessMonitor

CONSTANTS
    TimedChoices,   \* whether a submitted job may, or may not, have a timeout
    CancelChoices,  \* pairs: the jobs clients may cancel, and in which state
    Faults          \* the system calls that may fail: see FaultKinds

FaultKinds == {"launch", "register", "kill", "schedule"}

ASSUME RunnerdAssumption ==
    /\ TimedChoices \subseteq BOOLEAN
    /\ CancelChoices \subseteq JobId \X {"QUEUED", "RUNNING"}
    /\ Faults \subseteq FaultKinds

VARIABLES
    next_job_id,    \* 0 once the ids are used up
    timed,          \* the jobs submitted with an execution timeout
    pc,
    cur,            \* the job in hand, 0 for none
    ret,
    expired         \* the jobs handleReadable returned, not handled yet

controlVars == <<pc, cur, ret, expired>>
tableVars == <<next_job_id, timed>>
vars == <<schedulerVars, deadlineVars, processVars, monitorVars,
          tableVars, controlVars>>

Locations == {"loop", "reap", "deadline", "terminate", "sigterm", "grace",
              "kill", "sigkill", "notify", "pump", "register", "abandon",
              "started", "dead"}

Init ==
    /\ SchedulerInit
    /\ DeadlinesInit
    /\ ProcessesInit
    /\ MonitorInit
    /\ next_job_id = 1
    /\ timed = {}
    /\ pc = "loop"
    /\ cur = 0
    /\ ret = "loop"
    /\ expired = {}

Goto(location) == pc' = location /\ UNCHANGED <<cur, ret>>
Call(location, j, from) == pc' = location /\ cur' = j /\ ret' = from
Return == pc' = ret /\ cur' = 0 /\ ret' = "loop"

\* An exception leaves main's loop, unless a client's request raised it.
Throw == pc' = (IF ret = "loop" THEN "loop" ELSE "dead") /\ cur' = 0 /\ ret' = "loop"

-----------------------------------------------------------------------------
\* Client requests (handleRequest)

\* The id counter does not wrap around.
SubmitDoesNotWrap(t) ==
    /\ pc = "loop"
    /\ next_job_id # 0
    /\ job_state[next_job_id] = Absent
    /\ enqueue(next_job_id)
    /\ job_state' = [job_state EXCEPT ![next_job_id] = "QUEUED"]
    /\ timed' = IF t THEN timed \cup {next_job_id} ELSE timed
    /\ next_job_id' = next_job_id + 1
    /\ Call("pump", 0, "loop")
    /\ UNCHANGED <<termination_cause, exit_status, active_jobs, tracked_fds,
                   startup_error_bytes, notifications, expired>>
    /\ UNCHANGED <<deadlineVars, processVars>>

\* A valid SUBMIT; t says whether it carries an execution timeout.
Submit(t) ==
    /\ pc = "loop"
    /\ next_job_id # 0
    /\ job_state[next_job_id] = Absent
    /\ enqueue(next_job_id)
    /\ job_state' = [job_state EXCEPT ![next_job_id] = "QUEUED"]
    /\ timed' = IF t THEN timed \cup {next_job_id} ELSE timed
    /\ next_job_id' = (next_job_id + 1) % JobIdSpace
    /\ Call("pump", 0, "loop")
    /\ UNCHANGED <<termination_cause, exit_status, active_jobs, tracked_fds,
                   startup_error_bytes, notifications, expired>>
    /\ UNCHANGED <<deadlineVars, processVars>>

\* CANCEL of a job that waits.
CancelQueued(j) ==
    /\ pc = "loop"
    /\ job_state[j] = "QUEUED"
    /\ cancelQueuedJob(j)
    /\ job_state' = transitionJob(job_state, j, "CANCELLED")
    /\ UNCHANGED <<termination_cause, exit_status, active_jobs, tracked_fds,
                   startup_error_bytes, notifications>>
    /\ UNCHANGED <<deadlineVars, processVars, tableVars, controlVars>>

\* Gives up the execution deadline before the signal is known to be sent.
CancelRunningDropsDeadline(j) ==
    /\ pc = "loop"
    /\ job_state[j] = "RUNNING"
    /\ Call("terminate", j, "loop")
    /\ cancel(j)
    /\ UNCHANGED <<schedulerVars, processVars, monitorVars, tableVars, expired>>

\* CANCEL of a job that runs: requestTerminate first.
CancelRunning(j) ==
    /\ pc = "loop"
    /\ job_state[j] = "RUNNING"
    /\ Call("terminate", j, "loop")
    /\ UNCHANGED <<schedulerVars, deadlineVars, processVars, monitorVars,
                   tableVars, expired>>

-----------------------------------------------------------------------------
\* Events (main's loop)

TimerEvent(jobs) ==
    /\ pc = "loop"
    /\ handleReadable(jobs)
    /\ expired' = jobs
    /\ Goto("deadline")
    /\ UNCHANGED <<schedulerVars, processVars, monitorVars, tableVars>>

PipeEvent(j, k) ==
    /\ pc = "loop"
    /\ handlePipeEvent(j, k)
    /\ Goto("notify")
    /\ UNCHANGED <<schedulerVars, deadlineVars, tableVars, expired>>

\* handleSigchld reads the signalfd empty, then reaps.
SigchldEvent ==
    /\ pc = "loop"
    /\ sigchld
    /\ sigchld' = FALSE
    /\ Goto("reap")
    /\ UNCHANGED <<child, wait_status, kin, held, unread, signals>>
    /\ UNCHANGED <<schedulerVars, deadlineVars, monitorVars, tableVars, expired>>

\* waitpid is called once for each SIGCHLD read.
ReapOnce(j) ==
    /\ pc = "reap"
    /\ reapExitedChild(j)
    /\ Goto("notify")
    /\ UNCHANGED <<schedulerVars, deadlineVars, tableVars, expired>>

Reap(j) ==
    /\ pc = "reap"
    /\ reapExitedChild(j)
    /\ Goto("reap")
    /\ UNCHANGED <<schedulerVars, deadlineVars, tableVars, expired>>

ReapDone ==
    /\ pc = "reap"
    /\ \A j \in JobId : child[j] # "zombie"
    /\ Goto("notify")
    /\ UNCHANGED <<schedulerVars, deadlineVars, processVars, monitorVars,
                   tableVars, expired>>

-----------------------------------------------------------------------------
\* handleDeadlineEvent

\* SIGKILL at the first deadline.
DeadlineKillsAtOnce(j) ==
    /\ pc = "deadline"
    /\ j \in expired
    /\ expired' = expired \ {j}
    /\ \/ job_state[j] \in {"RUNNING", "TERMINATING"} /\ Call("kill", j, "deadline")
       \/ isTerminal(job_state[j]) /\ Goto("deadline")
    /\ UNCHANGED <<schedulerVars, deadlineVars, processVars, monitorVars, tableVars>>

\* What the handler does depends on the job's state now: it may have changed
\* since the deadline was set.
Deadline(j) ==
    /\ pc = "deadline"
    /\ j \in expired
    /\ expired' = expired \ {j}
    /\ \/ job_state[j] = "RUNNING" /\ Call("terminate", j, "deadline")
       \/ job_state[j] = "TERMINATING" /\ Call("kill", j, "deadline")
       \/ isTerminal(job_state[j]) /\ Goto("deadline")
    /\ UNCHANGED <<schedulerVars, deadlineVars, processVars, monitorVars, tableVars>>

\* Leaves the notifications to the next event of the monitor.
DeadlineDoneNoNotify ==
    /\ pc = "deadline"
    /\ expired = {}
    /\ Goto("loop")
    /\ UNCHANGED <<schedulerVars, deadlineVars, processVars, monitorVars,
                   tableVars, expired>>

DeadlineDone ==
    /\ pc = "deadline"
    /\ expired = {}
    /\ Goto("notify")
    /\ UNCHANGED <<schedulerVars, deadlineVars, processVars, monitorVars,
                   tableVars, expired>>

-----------------------------------------------------------------------------
\* requestTerminate, scheduleForceKillDeadline and forceKill of cur

Cause == IF ret = "loop" THEN "kCancelled" ELSE "kTimedOut"

Terminate ==
    /\ pc = "terminate"
    /\ finishExitedChildBeforeSignal(cur)
    /\ IF isTerminal(job_state'[cur]) THEN Return ELSE Goto("sigterm")
    /\ UNCHANGED <<schedulerVars, deadlineVars, tableVars, expired>>

Sigterm ==
    /\ pc = "sigterm"
    /\ requestTerminateSends(cur, Cause)
    /\ Goto("grace")
    /\ UNCHANGED <<schedulerVars, deadlineVars, tableVars, expired>>

\* ESRCH: the group is gone, the job is left to the events to come.
SignalFindsNoGroup ==
    /\ pc \in {"sigterm", "sigkill"}
    /\ ~GroupExists(cur)
    /\ Return
    /\ UNCHANGED <<schedulerVars, deadlineVars, processVars, monitorVars,
                   tableVars, expired>>

\* EPERM.  Under a deadline the exception leaves main's loop.  In a CANCEL it does
\* not: cancelJob answers ERR when it was SIGTERM, and main closes the client's
\* connection, unanswered, when it was the SIGKILL after GraceFails.
SignalFails ==
    /\ pc \in {"sigterm", "sigkill"}
    /\ "kill" \in Faults
    /\ GroupExists(cur)
    /\ Throw
    /\ UNCHANGED <<schedulerVars, deadlineVars, processVars, monitorVars,
                   tableVars, expired>>

\* Takes the old deadline away and sets no new one.
GraceNoDeadline ==
    /\ pc = "grace"
    /\ cancel(cur)
    /\ Return
    /\ UNCHANGED <<schedulerVars, processVars, monitorVars, tableVars, expired>>

\* cancel(cur) followed by schedule(cur): the deadline is now the grace period's.
Grace ==
    /\ pc = "grace"
    /\ schedule(cur)
    /\ Return
    /\ UNCHANGED <<schedulerVars, processVars, monitorVars, tableVars, expired>>

\* The deadline cannot be set, and that is that.
GraceFailsQuietly ==
    /\ pc = "grace"
    /\ "schedule" \in Faults
    /\ cancel(cur)
    /\ Return
    /\ UNCHANGED <<schedulerVars, processVars, monitorVars, tableVars, expired>>

\* The deadline cannot be set: SIGKILL at once.
GraceFails ==
    /\ pc = "grace"
    /\ "schedule" \in Faults
    /\ cancel(cur)
    /\ Goto("kill")
    /\ UNCHANGED <<schedulerVars, processVars, monitorVars, tableVars, expired>>

Kill ==
    /\ pc = "kill"
    /\ finishExitedChildBeforeSignal(cur)
    /\ IF isTerminal(job_state'[cur]) THEN Return ELSE Goto("sigkill")
    /\ UNCHANGED <<schedulerVars, deadlineVars, tableVars, expired>>

Sigkill ==
    /\ pc = "sigkill"
    /\ forceKillSends(cur)
    /\ Return
    /\ UNCHANGED <<schedulerVars, deadlineVars, tableVars, expired>>
-----------------------------------------------------------------------------
\* processTerminalJobNotifications

\* The slot is released and the queue is not looked at.
NotifyWithoutPump(j) ==
    /\ pc = "notify"
    /\ notifications # <<>>
    /\ j = Head(notifications)
    /\ notifications' = Tail(notifications)
    /\ cancel(j)
    /\ onJobReachedTerminalState(j)
    /\ Goto("notify")
    /\ UNCHANGED <<job_state, termination_cause, exit_status, active_jobs,
                   tracked_fds, startup_error_bytes, expired>>
    /\ UNCHANGED <<processVars, tableVars>>

Notify(j) ==
    /\ pc = "notify"
    /\ notifications # <<>>
    /\ j = Head(notifications)
    /\ isTerminal(job_state[j])
    /\ notifications' = Tail(notifications)
    /\ cancel(j)
    /\ onJobReachedTerminalState(j)
    /\ Call("pump", 0, "notify")
    /\ UNCHANGED <<job_state, termination_cause, exit_status, active_jobs,
                   tracked_fds, startup_error_bytes, expired>>
    /\ UNCHANGED <<processVars, tableVars>>

NotifyDone ==
    /\ pc = "notify"
    /\ notifications = <<>>
    /\ Goto("loop")
    /\ UNCHANGED <<schedulerVars, deadlineVars, processVars, monitorVars,
                   tableVars, expired>>

-----------------------------------------------------------------------------
\* pumpScheduler

PumpStart(j) ==
    /\ pc = "pump"
    /\ takeNextJobToStart(j)
    /\ \/ startJobRuns(j) /\ Call("started", j, ret)
       \/ "launch" \in Faults /\ startJobLaunchFails(j) /\ Call("started", j, ret)
       \/ "register" \in Faults /\ startJobForks(j) /\ Call("register", j, ret)
    /\ UNCHANGED <<deadlineVars, tableVars, expired>>

\* The rest of a startJob that fails after fork, while the child runs.
AbandonPipes ==
    /\ pc = "register"
    /\ closeUnread(cur)
    /\ Goto("abandon")
    /\ UNCHANGED <<schedulerVars, deadlineVars, tableVars, expired>>

AbandonChild ==
    /\ pc = "abandon"
    /\ startJobAbandoned(cur)
    /\ Goto("started")
    /\ UNCHANGED <<schedulerVars, deadlineVars, tableVars, expired>>

PumpDone ==
    /\ pc = "pump"
    /\ nothingToStart
    /\ Return
    /\ UNCHANGED <<schedulerVars, deadlineVars, processVars, monitorVars,
                   tableVars, expired>>

\* startJob failed: the slot goes to the next job.
StartedFailed ==
    /\ pc = "started"
    /\ isTerminal(job_state[cur])
    /\ onJobReachedTerminalState(cur)
    /\ Call("pump", 0, ret)
    /\ UNCHANGED <<deadlineVars, processVars, monitorVars, tableVars, expired>>

\* The execution timeout counts from here, not from SUBMIT.
StartedRunning ==
    /\ pc = "started"
    /\ job_state[cur] = "RUNNING"
    /\ IF cur \in timed THEN schedule(cur) ELSE UNCHANGED deadlineVars
    /\ Call("pump", 0, ret)
    /\ UNCHANGED <<schedulerVars, processVars, monitorVars, tableVars, expired>>

\* schedule throws before, or after, the deadline is recorded; the timer is not
\* set and the pump is left.
StartedScheduleFails ==
    /\ pc = "started"
    /\ "schedule" \in Faults
    /\ job_state[cur] = "RUNNING"
    /\ cur \in timed
    /\ active_deadlines' \in {active_deadlines, active_deadlines \cup {cur}}
    /\ UNCHANGED armed
    /\ Throw
    /\ UNCHANGED <<schedulerVars, processVars, monitorVars, tableVars, expired>>

-----------------------------------------------------------------------------

Request ==
    \/ \E t \in TimedChoices : Submit(t)
    \/ \E j \in JobId :
          /\ <<j, job_state[j]>> \in CancelChoices
          /\ CancelQueued(j) \/ CancelRunning(j)

Event ==
    \/ \E jobs \in SUBSET JobId : TimerEvent(jobs)
    \/ \E j \in JobId, k \in Pipes : PipeEvent(j, k)
    \/ SigchldEvent

\* The steps of a handler the thread is in.
Handler ==
    \/ \E j \in JobId : Reap(j) \/ Deadline(j) \/ Notify(j) \/ PumpStart(j)
    \/ ReapDone \/ DeadlineDone \/ NotifyDone \/ PumpDone
    \/ Terminate \/ Sigterm \/ SignalFindsNoGroup \/ SignalFails
    \/ Grace \/ GraceFails \/ Kill \/ Sigkill
    \/ AbandonPipes \/ AbandonChild
    \/ StartedFailed \/ StartedRunning \/ StartedScheduleFails

\* A step of a job's processes.
Environment ==
    /\ \E j \in JobId : ProcessStep(j)
    /\ UNCHANGED <<schedulerVars, deadlineVars, monitorVars, tableVars, controlVars>>

Next == Request \/ Event \/ Handler \/ Environment

Spec == Init /\ [][Next]_vars

\* A killed process ends.
KilledExits(j) ==
    /\ Killed(j)
    /\ ChildExit(j, "signal") \/ KinExit(j, "group")
    /\ UNCHANGED <<schedulerVars, deadlineVars, monitorVars, tableVars, controlVars>>

(***************************************************************************)
(* The thread goes on while it is in a handler; epoll_wait reports every   *)
(* descriptor that stays ready, however many others are (the kernel serves *)
(* its ready list in turn); a deadline that stays active expires, which is *)
(* what TimeoutManager guarantees; a process that was sent SIGKILL ends.   *)
(* Nothing is assumed of clients or of processes that were not killed.     *)
(***************************************************************************)
Fairness ==
    /\ WF_vars(Handler)
    /\ SF_vars(SigchldEvent)
    /\ \A j \in JobId :
          /\ \A k \in Pipes : SF_vars(PipeEvent(j, k))
          /\ SF_vars(\E jobs \in SUBSET JobId : j \in jobs /\ TimerEvent(jobs))
          /\ WF_vars(KilledExits(j))

FairSpec == Spec /\ Fairness

-----------------------------------------------------------------------------

TypeOK ==
    /\ SchedulerTypeOK
    /\ active_deadlines \in SUBSET JobId
    /\ armed \in BOOLEAN
    /\ ProcessesTypeOK
    /\ MonitorTypeOK
    /\ next_job_id \in JobId \cup {0}
    /\ timed \in SUBSET JobId
    /\ pc \in Locations
    /\ cur \in JobId \cup {0}
    /\ ret \in {"loop", "deadline", "notify"}
    /\ expired \in SUBSET JobId

JobsIn(states) == {j \in JobId : job_state[j] \in states}

\* The thread is in the part of startJob that abandons a child it has forked.
Abandoning == pc \in {"register", "abandon"}

(***************************************************************************)
(* The scheduler and the job table agree.  The queue holds the QUEUED jobs *)
(* but the one in hand (none is lost, no cancelled one stays), and every   *)
(* slot is accounted for: the occupied ones are those of the jobs that run *)
(* or terminate, of the settled jobs whose notification is queued and of   *)
(* the job that is being started.  A slot that is none of these would      *)
(* never be given back, a job without one would run beyond max_running.    *)
(***************************************************************************)
SlotsAccountedFor ==
    /\ waiting_job_ids = JobsIn({"QUEUED"}) \ (IF Abandoning THEN {cur} ELSE {})
    /\ active_job_ids = JobsIn({"RUNNING", "TERMINATING"})
                           \cup ToSet(notifications)
                           \cup (IF Abandoning \/ pc = "started" THEN {cur} ELSE {})

(***************************************************************************)
(* No idle slot: whenever the daemon waits for events, either no job waits *)
(* or all max_running slots are taken.                                     *)
(***************************************************************************)
NoJobWaitsForAFreeSlot == pc = "loop" => nothingToStart

(***************************************************************************)
(* None of the throw std::logic_error of the daemon, the scheduler and the *)
(* monitor can be reached: a notification is of a terminal job that holds  *)
(* a slot, a deadline is never of a QUEUED or unknown job, only RUNNING    *)
(* jobs are terminated and only TERMINATING ones, with a cause, killed,    *)
(* each of them with an ActiveProcess, and no job id is given twice.       *)
(***************************************************************************)
InternalChecksHold ==
    /\ \A i \in DOMAIN notifications :
          /\ isTerminal(job_state[notifications[i]])
          /\ notifications[i] \in active_job_ids
    /\ \A j \in active_deadlines \cup expired :
          job_state[j] \notin {Absent, "QUEUED"}
    /\ pc \in {"terminate", "sigterm"} =>
          job_state[cur] = "RUNNING" /\ cur \in active_jobs
    /\ pc \in {"grace", "kill", "sigkill"} =>
          /\ job_state[cur] = "TERMINATING" /\ cur \in active_jobs
          /\ termination_cause[cur] \in TerminationCause
    /\ pc = "started" =>
          (job_state[cur] = "RUNNING" \/ isTerminal(job_state[cur]))
          /\ cur \in active_job_ids
    /\ Abandoning => job_state[cur] = "QUEUED" /\ cur \notin active_jobs
    /\ next_job_id # 0 => job_state[next_job_id] = Absent

\* startJob gives j up after fork, or has: it never came to be RUNNING.  A job
\* that did and FAILED has an exit status or a startup error.
GivenUp(j) ==
    \/ job_state[j] = "QUEUED"
    \/ job_state[j] = "FAILED" /\ exit_status[j] = "none" /\ j \notin startup_error_bytes

(***************************************************************************)
(* No output is lost of a job that was RUNNING: the daemon closes a pipe   *)
(* only when nothing is left to read and nobody can write to it any more,  *)
(* also when it drains the pipes on its own before it sends a signal.  The *)
(* exception is a job that startJob gives up after fork: its child may     *)
(* have exec'ed, written, failed to start or left a descendant with a      *)
(* pipe, and the pipes are closed all the same.                            *)
(***************************************************************************)
NoOutputLost ==
    \A j \in JobId, k \in Pipes :
        child[j] # "none" /\ ~GivenUp(j) /\ <<j, k>> \notin tracked_fds =>
            k \notin unread[j] \cup held[j]

(***************************************************************************)
(* A job in a final state has left nothing behind in the daemon: its child *)
(* is reaped, its pipes are closed, no ActiveProcess and no queue entry.   *)
(* A job that is not has, once it runs, its ActiveProcess.                 *)
(***************************************************************************)
TerminalJobsLeaveNothing ==
    \A j \in JobId :
        /\ isTerminal(job_state[j]) =>
              /\ child[j] \in {"none", "reaped"}
              /\ \A k \in Pipes : <<j, k>> \notin tracked_fds
              /\ j \notin active_jobs \cup waiting_job_ids
        /\ j \in active_jobs <=> job_state[j] \in {"RUNNING", "TERMINATING"}

(***************************************************************************)
(* No exited child is forgotten, though the SIGCHLDs of several children   *)
(* count as one: while there is a zombie a SIGCHLD is pending, or the      *)
(* thread is in the waitpid loop that does not end before all are reaped.  *)
(***************************************************************************)
ZombiesAreNoticed ==
    (\E j \in JobId : child[j] = "zombie") => sigchld \/ pc = "reap"

(***************************************************************************)
(* The final state tells what happened: SUCCEEDED only if the child ran    *)
(* and exited 0 with no startup error; CANCELLED of a started job, and     *)
(* TIMED_OUT, only if that request came first and its signal was sent;     *)
(* TIMED_OUT only if the job had a timeout; FAILED only if no termination  *)
(* had begun.  The recorded exit status is waitpid's.                      *)
(***************************************************************************)
OutcomeIsTrue ==
    \A j \in JobId :
        /\ job_state[j] = "SUCCEEDED" =>
              /\ wait_status[j] = "exit0" /\ exit_status[j] = "exit0"
              /\ termination_cause[j] = "none"
        /\ job_state[j] = "FAILED" => termination_cause[j] = "none"
        /\ job_state[j] = "CANCELLED" =>
              \/ child[j] = "none"
              \/ termination_cause[j] = "kCancelled" /\ signals[j] # "none"
        /\ job_state[j] = "TIMED_OUT" =>
              /\ termination_cause[j] = "kTimedOut" /\ signals[j] # "none"
              /\ j \in timed
        /\ exit_status[j] \in {"none", wait_status[j]}

(***************************************************************************)
(* A job with a timeout never runs unguarded: while it is RUNNING its      *)
(* deadline is active or being handled, except when the deadline has come  *)
(* and found the child reaped and the process group gone.                  *)
(***************************************************************************)
TimedJobsAreGuarded ==
    \A j \in timed :
        job_state[j] = "RUNNING" /\ pc # "dead" =>
            \/ j \in active_deadlines \cup expired
            \/ pc \in {"started", "terminate", "sigterm"} /\ cur = j
            \/ child[j] = "reaped" /\ "group" \notin kin[j]

(***************************************************************************)
(* A termination always comes to an end: while a job is TERMINATING its    *)
(* grace deadline is active or being handled, or SIGKILL was sent, or the  *)
(* child is reaped and the process group gone.  Nothing else would end it. *)
(***************************************************************************)
TerminationEscalates ==
    \A j \in JobId :
        job_state[j] = "TERMINATING" /\ pc # "dead" =>
            \/ j \in active_deadlines \cup expired
            \/ pc \in {"grace", "kill", "sigkill"} /\ cur = j
            \/ Killed(j)
            \/ child[j] = "reaped" /\ "group" \notin kin[j]

\* What the step may do to a job when it changes the signal its group was sent.
SignalStep(j) ==
    \/ /\ signals[j] = "none" /\ signals'[j] = "SIGTERM"
       /\ job_state[j] = "RUNNING" /\ job_state'[j] = "TERMINATING"
    \/ /\ signals[j] = "SIGTERM" /\ signals'[j] = "SIGKILL"
       /\ job_state[j] = "TERMINATING" /\ job_state'[j] = "TERMINATING"
    \/ /\ signals[j] = "none" /\ signals'[j] = "SIGKILL"
       /\ job_state[j] = "QUEUED" /\ job_state'[j] = "FAILED"

(***************************************************************************)
(* Signals escalate in order: SIGTERM once, to a RUNNING job, and SIGKILL  *)
(* only later, to a job that is TERMINATING; no job in a final state, and  *)
(* no process group of a settled job, is ever signalled.  A job that never *)
(* was RUNNING gets SIGKILL in the step in which it fails.                 *)
(***************************************************************************)
SignalsInOrder ==
    [][\A j \in JobId : signals'[j] # signals[j] => SignalStep(j)]_vars

\* The QUEUED jobs in order: one that startJob is about to give up comes first.
QueuedJobs == IF Abandoning THEN <<cur>> \o waiting_jobs ELSE waiting_jobs

\* What clients see of the daemon.
Service == INSTANCE JobService WITH queue <- QueuedJobs

(***************************************************************************)
(* The daemon implements JobService: FIFO starts, at most max_running jobs *)
(* with a process, legal transitions only, the first cause of termination  *)
(* decides, and a job ends once.                                           *)
(***************************************************************************)
ImplementsJobService == Service!ServiceSpec

(***************************************************************************)
(* Liveness.  A settled job gives its slot back; a job with a timeout      *)
(* ends, and so does one that is terminated, whatever it ignores, unless a *)
(* descendant that SIGKILL does not reach holds its pipes; and so every    *)
(* job that waits is started or cancelled.                                 *)
(***************************************************************************)
SettledJobFreesItsSlot ==
    \A j \in JobId :
        isTerminal(job_state[j]) /\ j \in active_job_ids ~> j \notin active_job_ids

\* The job is over, the daemon has ended, or a descendant that left the job's
\* process group is alive.
EndsOrHasEscapee(j) ==
    isTerminal(job_state[j]) \/ pc = "dead" \/ "escaped" \in kin[j]

TimedJobsEnd ==
    \A j \in JobId : job_state[j] = "RUNNING" /\ j \in timed ~> EndsOrHasEscapee(j)

TerminatingJobsEnd ==
    \A j \in JobId : job_state[j] = "TERMINATING" ~> EndsOrHasEscapee(j)

QueuedJobsLeaveTheQueue ==
    \A j \in JobId : job_state[j] = "QUEUED" ~> job_state[j] # "QUEUED"

(***************************************************************************)
(* What docs/requirements.md says of CANCEL: a child that has exited by    *)
(* itself before the signal is sent keeps its true result.  Here in its    *)
(* weakest form: the daemon itself has already reaped the child.           *)
(***************************************************************************)
ExitedChildIsNotTerminated ==
    [][\A j \in JobId :
          job_state[j] = "RUNNING" /\ job_state'[j] = "TERMINATING" =>
              child[j] # "reaped"]_vars
=============================================================================
