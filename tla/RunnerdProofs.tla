---------------------------- MODULE RunnerdProofs ----------------------------
(***************************************************************************)
(* Safety of the daemon for every number of jobs, every max_running, every *)
(* set of pipes and every combination of the faults: the scheduler and the *)
(* job table never disagree, no internal check fails, a settled job leaves *)
(* nothing behind and no output is lost.                                   *)
(***************************************************************************)
EXTENDS Runnerd, JobSchedulerProofs

\* Each location of the thread knows the state of the job in hand.
ControlOK ==
    /\ pc \in {"terminate", "sigterm"} =>
          cur \in JobId /\ job_state[cur] = "RUNNING"
    /\ pc \in {"grace", "kill", "sigkill"} =>
          cur \in JobId /\ job_state[cur] = "TERMINATING"
    /\ pc = "started" =>
          /\ cur \in JobId
          /\ cur \notin ToSet(notifications)
          /\ job_state[cur] = "RUNNING" \/ isTerminal(job_state[cur])
    /\ Abandoning =>
          cur \in JobId /\ cur \notin ToSet(notifications) /\ job_state[cur] = "QUEUED"
    /\ pc = "abandon" => \A k \in Pipes : <<cur, k>> \notin tracked_fds

\* A job is notified once, and only when it is settled.
NotificationsOK ==
    /\ \A j \in ToSet(notifications) : isTerminal(job_state[j])
    /\ \A p, q \in DOMAIN notifications :
          notifications[p] = notifications[q] => p = q

\* The job table agrees with the monitor's, with the deadlines and the id counter.
TableOK ==
    /\ \A j \in JobId :
          /\ j \in active_jobs <=> job_state[j] \in {"RUNNING", "TERMINATING"}
          /\ job_state[j] = "TERMINATING" => termination_cause[j] \in TerminationCause
    /\ \A j \in active_deadlines \cup expired :
          job_state[j] \notin {Absent, "QUEUED"}
    /\ next_job_id # 0 =>
          \A j \in JobId : j >= next_job_id => job_state[j] = Absent

\* The job startJob is about to give up: its child runs, the table says QUEUED.
InHand(j) == Abandoning /\ cur = j

\* What a job's processes can still do, by what the daemon knows of it.
PipesOK ==
    /\ \A j \in JobId :
          /\ j \in active_jobs \/ InHand(j) \/
                /\ child[j] \in {"none", "reaped"}
                /\ \A k \in Pipes : <<j, k>> \notin tracked_fds
          /\ job_state[j] \in {Absent, "QUEUED"} =>
                /\ child[j] = "none" \/ InHand(j)
                /\ exit_status[j] = "none" /\ j \notin startup_error_bytes
          /\ child[j] = "none" => held[j] = {} /\ unread[j] = {}
    /\ NoOutputLost

\* The inductive invariant of the daemon.
DaemonInv ==
    /\ TypeOK
    /\ SchedulerInv
    /\ SlotsAccountedFor
    /\ ControlOK
    /\ NotificationsOK
    /\ TableOK
    /\ PipesOK

-----------------------------------------------------------------------------

\* The daemon starts with nothing.
LEMMA InitDaemonInv == Init => DaemonInv
<1> SUFFICES ASSUME Init PROVE DaemonInv
  OBVIOUS
<1> USE DEF Init, DeadlinesInit, ProcessesInit, MonitorInit
<1>1. SchedulerInv
  BY InitSchedulerInv
<1>2. notifications \in Seq(JobId) /\ DOMAIN notifications = {} /\ ToSet(notifications) = {}
  BY EmptySeq, LenProperties DEF ToSet
<1>3. 1 \in JobId
  BY JobIdSpaceAssumption DEF JobId
<1>4. TypeOK
  BY <1>1, <1>2, <1>3 DEF TypeOK, SchedulerInv, ProcessesTypeOK, MonitorTypeOK,
     Locations, ChildState, WaitStatus, Signal
<1>5. SlotsAccountedFor
  BY <1>2 DEF SlotsAccountedFor, SchedulerInit, JobsIn, Absent, Abandoning
<1>6. ControlOK /\ NotificationsOK
  BY <1>2 DEF ControlOK, NotificationsOK, Abandoning
<1>7. TableOK /\ PipesOK
  BY DEF TableOK, PipesOK, NoOutputLost, Absent
<1> QED
  BY <1>1, <1>4, <1>5, <1>6, <1>7 DEF DaemonInv

(***************************************************************************)
(* A step of the thread that only moves it on and changes deadlines keeps  *)
(* the invariant, provided the location it comes to may be entered and no  *)
(* deadline is set for a job that has not started.                         *)
(***************************************************************************)
LEMMA QuietStepKeepsInv ==
    ASSUME DaemonInv,
           UNCHANGED <<schedulerVars, processVars, monitorVars, tableVars>>,
           active_deadlines' \in SUBSET JobId, expired' \in SUBSET JobId,
           \A j \in active_deadlines' \cup expired' :
               job_state[j] \notin {Absent, "QUEUED"},
           armed' \in BOOLEAN, pc \notin {"register", "abandon"},
           pc' \in Locations \ {"register", "abandon", "started"},
           cur' \in JobId \cup {0}, ret' \in {"loop", "deadline", "notify"},
           ControlOK',
           pc = "started" => job_state[cur] = "RUNNING"
    PROVE  DaemonInv'
<1>1. SchedulerInv'
  BY StutterKeepsInv DEF DaemonInv
<1>2. TypeOK'
  BY <1>1 DEF DaemonInv, SchedulerInv, TypeOK, ProcessesTypeOK, MonitorTypeOK,
     processVars, monitorVars, tableVars
<1>3. SlotsAccountedFor'
  BY DEF DaemonInv, SlotsAccountedFor, ControlOK, JobsIn, Abandoning, schedulerVars,
     monitorVars
<1>4. NotificationsOK'
  BY DEF DaemonInv, NotificationsOK, monitorVars
<1>5. TableOK'
  BY DEF DaemonInv, TableOK, monitorVars, tableVars
<1>6. PipesOK'
  BY DEF DaemonInv, PipesOK, NoOutputLost, GivenUp, InHand, Abandoning, monitorVars,
     processVars
<1> QED
  BY <1>1, <1>2, <1>3, <1>4, <1>5, <1>6 DEF DaemonInv

\* Requests and events that only send the thread into a handler.
LEMMA DispatchKeepsInv ==
    ASSUME DaemonInv,
           \/ \E j \in JobId : CancelRunning(j) \/ Deadline(j)
           \/ \E jobs \in SUBSET JobId : TimerEvent(jobs)
           \/ ReapDone \/ DeadlineDone \/ NotifyDone \/ PumpDone
    PROVE  DaemonInv'
<1> USE DEF DaemonInv, TypeOK, TableOK, ControlOK, Abandoning, Goto, Call, Return, Locations
<1>1. ASSUME NEW j \in JobId, CancelRunning(j) PROVE DaemonInv'
  BY <1>1, QuietStepKeepsInv DEF CancelRunning, deadlineVars, monitorVars
<1>2. ASSUME NEW j \in JobId, Deadline(j) PROVE DaemonInv'
  BY <1>2, QuietStepKeepsInv DEF Deadline, deadlineVars, monitorVars, isTerminal
<1>3. ASSUME NEW jobs \in SUBSET JobId, TimerEvent(jobs) PROVE DaemonInv'
  BY <1>3, QuietStepKeepsInv DEF TimerEvent, handleReadable
<1>4. CASE ReapDone
  BY <1>4, QuietStepKeepsInv DEF ReapDone, deadlineVars
<1>5. CASE DeadlineDone
  BY <1>5, QuietStepKeepsInv DEF DeadlineDone, deadlineVars
<1>6. CASE NotifyDone
  BY <1>6, QuietStepKeepsInv DEF NotifyDone, deadlineVars
<1>7. CASE PumpDone
  BY <1>7, QuietStepKeepsInv DEF PumpDone, deadlineVars
<1> QED
  BY <1>1, <1>2, <1>3, <1>4, <1>5, <1>6, <1>7

\* Signals that are not sent, the grace period, and the execution deadline of a
\* job that has just started.
LEMMA DeadlineStepsKeepInv ==
    ASSUME DaemonInv,
           \/ SignalFindsNoGroup \/ SignalFails \/ Grace \/ GraceFails
           \/ StartedRunning \/ StartedScheduleFails
    PROVE  DaemonInv'
<1> USE DEF DaemonInv, TypeOK, TableOK, ControlOK, Abandoning, Goto, Call, Return,
           Throw, Locations
<1>1. CASE SignalFindsNoGroup
  BY <1>1, QuietStepKeepsInv DEF SignalFindsNoGroup, deadlineVars
<1>2. CASE SignalFails
  BY <1>2, QuietStepKeepsInv DEF SignalFails, deadlineVars
<1>3. CASE Grace
  BY <1>3, QuietStepKeepsInv DEF Grace, schedule, Absent
<1>4. CASE GraceFails
  BY <1>4, QuietStepKeepsInv DEF GraceFails, cancel, monitorVars
<1>5. CASE StartedRunning
  BY <1>5, QuietStepKeepsInv DEF StartedRunning, schedule, deadlineVars, Absent
<1>6. CASE StartedScheduleFails
  BY <1>6, QuietStepKeepsInv DEF StartedScheduleFails, Absent
<1> QED
  BY <1>1, <1>2, <1>3, <1>4, <1>5, <1>6

-----------------------------------------------------------------------------

\* A step of a job's processes keeps the types of what the kernel knows of them.
LEMMA ProcessStepKeepsTypes ==
    ASSUME ProcessesTypeOK, NEW j \in JobId, ProcessStep(j)
    PROVE  ProcessesTypeOK'
<1> USE DEF ProcessesTypeOK, ChildState, WaitStatus, Signal
<1>1. CASE Exec(j)
  BY <1>1 DEF Exec
<1>2. CASE StartupFails(j)
  BY <1>2, ProcessesAssumption DEF StartupFails
<1>3. ASSUME NEW k \in Pipes, Write(j, k) PROVE ProcessesTypeOK'
  BY <1>3 DEF Write
<1>4. ASSUME NEW k \in Pipes, ClosePipe(j, k) PROVE ProcessesTypeOK'
  BY <1>4 DEF ClosePipe
<1>5. CASE Fork(j)
  BY <1>5 DEF Fork
<1>6. CASE Escape(j)
  BY <1>6 DEF Escape
<1>7. ASSUME NEW status \in ExitStatuses \cup {"signal"}, ChildExit(j, status)
      PROVE  ProcessesTypeOK'
  BY <1>7, ProcessesAssumption DEF ChildExit, HeldBy
<1>8. ASSUME NEW kind \in KinKinds, KinExit(j, kind) PROVE ProcessesTypeOK'
  BY <1>8 DEF KinExit, HeldBy
<1> QED
  BY <1>1, <1>2, <1>3, <1>4, <1>5, <1>6, <1>7, <1>8 DEF ProcessStep

(***************************************************************************)
(* The processes of the jobs write only to pipes the daemon still reads,   *)
(* and a job the daemon has given up has none that can do anything to it.  *)
(***************************************************************************)
LEMMA ProcessStepKeepsPipes ==
    ASSUME TypeOK, PipesOK, NEW j \in JobId, ProcessStep(j),
           UNCHANGED <<monitorVars, controlVars>>
    PROVE  PipesOK'
<1> USE DEF TypeOK, ProcessesTypeOK, PipesOK, NoOutputLost, GivenUp, InHand, Abandoning,
            ChildState, monitorVars, controlVars
<1>1. CASE Exec(j)
  BY <1>1 DEF Exec
<1>2. CASE StartupFails(j)
  BY <1>2, ProcessesAssumption DEF StartupFails
<1>3. ASSUME NEW k \in Pipes, Write(j, k) PROVE PipesOK'
  BY <1>3 DEF Write
<1>4. ASSUME NEW k \in Pipes, ClosePipe(j, k) PROVE PipesOK'
  BY <1>4 DEF ClosePipe
<1>5. CASE Fork(j)
  BY <1>5 DEF Fork
<1>6. CASE Escape(j)
  BY <1>6 DEF Escape
<1>7. ASSUME NEW status \in ExitStatuses \cup {"signal"}, ChildExit(j, status)
      PROVE  PipesOK'
  BY <1>7 DEF ChildExit, HeldBy, ChildAlive
<1>8. ASSUME NEW kind \in KinKinds, KinExit(j, kind) PROVE PipesOK'
  BY <1>8 DEF KinExit, HeldBy, ChildAlive
<1> QED
  BY <1>1, <1>2, <1>3, <1>4, <1>5, <1>6, <1>7, <1>8 DEF ProcessStep

\* Whatever the jobs' processes do, the daemon's invariant holds.
LEMMA EnvironmentKeepsInv ==
    ASSUME DaemonInv, Environment
    PROVE  DaemonInv'
<1>1. PICK j \in JobId : ProcessStep(j)
  BY DEF Environment
<1>2. SchedulerInv'
  BY StutterKeepsInv DEF DaemonInv, Environment
<1>3. ProcessesTypeOK'
  BY <1>1, ProcessStepKeepsTypes DEF DaemonInv, TypeOK
<1>4. TypeOK'
  BY <1>2, <1>3 DEF DaemonInv, TypeOK, SchedulerInv, MonitorTypeOK, Environment,
     deadlineVars, monitorVars, tableVars, controlVars
<1>5. PipesOK'
  BY <1>1, ProcessStepKeepsPipes DEF DaemonInv, Environment
<1>6. SlotsAccountedFor' /\ ControlOK' /\ NotificationsOK' /\ TableOK'
  BY DEF DaemonInv, SlotsAccountedFor, JobsIn, ControlOK, NotificationsOK, TableOK,
     Abandoning, Environment, schedulerVars, deadlineVars, monitorVars, tableVars, controlVars
<1> QED
  BY <1>2, <1>4, <1>5, <1>6 DEF DaemonInv

-----------------------------------------------------------------------------

(***************************************************************************)
(* tryFinalizeJob, whatever step it ends: either it leaves the job alone   *)
(* or it settles it and queues one notification, so that the slot of the   *)
(* job stays accounted for.                                                *)
(***************************************************************************)
LEMMA TryFinalizeJobCases ==
    ASSUME NEW j \in JobId, MonitorTypeOK, ProcessesTypeOK, tryFinalizeJob(j)
    PROVE  \/ UNCHANGED <<job_state, termination_cause, exit_status, active_jobs,
                         notifications>>
           \/ /\ j \in active_jobs /\ child'[j] = "reaped"
              /\ \A k \in Pipes : <<j, k>> \notin tracked_fds'
              /\ \E final \in JobState :
                    isTerminal(final) /\ job_state' = [job_state EXCEPT ![j] = final]
              /\ exit_status' \in [JobId -> WaitStatus]
              /\ \A i \in JobId \ {j} : exit_status'[i] = exit_status[i]
              /\ active_jobs' = active_jobs \ {j}
              /\ notifications' = Append(notifications, j)
              /\ UNCHANGED termination_cause
<1> DEFINE settled == /\ j \in active_jobs /\ child'[j] = "reaped"
                      /\ \A k \in Pipes : <<j, k>> \notin tracked_fds'
<1>1. CASE ~settled
  BY <1>1 DEF tryFinalizeJob
<1>2. CASE settled
  <2>1. FinalState(j) \in JobState /\ isTerminal(FinalState(j))
    BY DEF FinalState, JobState, isTerminal
  <2>2. /\ job_state' = [job_state EXCEPT ![j] = FinalState(j)]
        /\ exit_status' \in {exit_status, [exit_status EXCEPT ![j] = wait_status[j]]}
        /\ active_jobs' = active_jobs \ {j}
        /\ notifications' = Append(notifications, j)
        /\ UNCHANGED termination_cause
    BY <1>2 DEF tryFinalizeJob, transitionJob
  <2>3. /\ exit_status' \in [JobId -> WaitStatus]
        /\ \A i \in JobId \ {j} : exit_status'[i] = exit_status[i]
    BY <2>2 DEF MonitorTypeOK, ProcessesTypeOK
  <2> QED
    BY <1>2, <2>1, <2>2, <2>3
<1> QED
  BY <1>1, <1>2

\* A step that ends in tryFinalizeJob keeps everything but the control and the
\* pipes, which depend on the rest of the step.
LEMMA TryFinalizeJobKeepsInv ==
    ASSUME DaemonInv, NEW j \in JobId, tryFinalizeJob(j),
           UNCHANGED <<schedulerVars, deadlineVars, tableVars, expired>>,
           ProcessesTypeOK', tracked_fds' \in SUBSET (JobId \X Pipes),
           startup_error_bytes' \in SUBSET JobId,
           pc \in Locations \ {"register", "abandon", "started"},
           pc' \in Locations \ {"register", "abandon", "started"},
           cur' \in JobId \cup {0}, ret' \in {"loop", "deadline", "notify"}
    PROVE  TypeOK' /\ SchedulerInv' /\ SlotsAccountedFor' /\ NotificationsOK' /\ TableOK'
<1> USE DEF DaemonInv
<1>1. SchedulerInv'
  BY StutterKeepsInv
<1>2. MonitorTypeOK /\ ProcessesTypeOK
  BY DEF TypeOK
<1>3. CASE UNCHANGED <<job_state, termination_cause, exit_status, active_jobs,
                       notifications>>
  <2>1. TypeOK'
    BY <1>1, <1>3 DEF TypeOK, SchedulerInv, MonitorTypeOK, deadlineVars, tableVars
  <2>2. SlotsAccountedFor' /\ NotificationsOK' /\ TableOK'
    BY <1>3 DEF SlotsAccountedFor, JobsIn, NotificationsOK, TableOK, Abandoning,
       schedulerVars, deadlineVars, tableVars
  <2> QED
    BY <1>1, <2>1, <2>2
<1>4. CASE /\ j \in active_jobs
           /\ \E final \in JobState :
                 isTerminal(final) /\ job_state' = [job_state EXCEPT ![j] = final]
           /\ exit_status' \in [JobId -> WaitStatus]
           /\ active_jobs' = active_jobs \ {j}
           /\ notifications' = Append(notifications, j)
           /\ UNCHANGED termination_cause
  <2>1. PICK final \in JobState :
           isTerminal(final) /\ job_state' = [job_state EXCEPT ![j] = final]
    BY <1>4
  <2>2. /\ notifications \in Seq(JobId)
        /\ job_state \in [JobId -> JobState \cup {Absent}]
    BY <1>2 DEF MonitorTypeOK
  <2>3. job_state[j] \in {"RUNNING", "TERMINATING"}
    BY <1>4 DEF TableOK
  <2>4. j \notin ToSet(notifications)
    BY <2>3 DEF NotificationsOK, isTerminal
  <2>5. ToSet(notifications') = ToSet(notifications) \cup {j}
    BY <1>4, <2>2, AppendToSet
  <2>6. /\ notifications' \in Seq(JobId)
        /\ \A p, q \in DOMAIN notifications' :
              notifications'[p] = notifications'[q] => p = q
    BY <1>4, <2>2, <2>4, AppendKeepsDistinct DEF NotificationsOK
  <2>7. TypeOK'
    BY <1>1, <1>4, <2>1, <2>6
    DEF TypeOK, SchedulerInv, MonitorTypeOK, deadlineVars, tableVars
  <2>8. ToSet(notifications) \subseteq JobId
    BY <2>2 DEF ToSet
  <2>9. NotificationsOK'
    BY <2>1, <2>2, <2>5, <2>6, <2>8 DEF NotificationsOK
  <2>10. TableOK'
    BY <1>4, <2>1, <2>2, <2>3 DEF TableOK, isTerminal, Absent, deadlineVars, tableVars, TypeOK
  <2>11. SlotsAccountedFor'
    BY <1>4, <2>1, <2>2, <2>3, <2>5
    DEF SlotsAccountedFor, JobsIn, isTerminal, Abandoning, schedulerVars
  <2> QED
    BY <1>1, <2>7, <2>9, <2>10, <2>11
<1> QED
  BY <1>2, <1>3, <1>4, TryFinalizeJobCases

(***************************************************************************)
(* drainProcessFd closes a pipe only at end of file, so what the daemon no *)
(* longer reads stays empty, also when the job is settled in the same step *)
(* and when the child is reaped in it.                                     *)
(***************************************************************************)
LEMMA DrainKeepsPipes ==
    ASSUME DaemonInv, NEW j \in JobId, j \in active_jobs,
           NEW ks \in SUBSET Pipes, drainProcessFds(j, ks), tryFinalizeJob(j),
           child' \in {child, [child EXCEPT ![j] = "reaped"]},
           UNCHANGED <<wait_status, kin, held, signals, sigchld>>,
           pc \notin {"register", "abandon"}, pc' \notin {"register", "abandon"}
    PROVE  /\ PipesOK' /\ ProcessesTypeOK'
           /\ tracked_fds' \in SUBSET (JobId \X Pipes)
           /\ startup_error_bytes' \in SUBSET JobId
<1> USE DEF DaemonInv, TypeOK
<1>1. /\ ProcessesTypeOK' /\ tracked_fds' \in SUBSET (JobId \X Pipes)
      /\ startup_error_bytes' \in SUBSET JobId
  BY DEF ProcessesTypeOK, MonitorTypeOK, drainProcessFds, ChildState
<1>2. ~Abandoning /\ ~Abandoning'
  BY DEF Abandoning
<1>3. /\ active_jobs' \in {active_jobs, active_jobs \ {j}}
      /\ j \notin active_jobs' =>
            child'[j] = "reaped" /\ \A k \in Pipes : <<j, k>> \notin tracked_fds'
      /\ job_state'[j] \notin {Absent, "QUEUED"}
      /\ \A i \in JobId \ {j} :
            /\ job_state'[i] = job_state[i] /\ exit_status'[i] = exit_status[i]
            /\ i \in startup_error_bytes' <=> i \in startup_error_bytes
  <2>1. job_state[j] \in {"RUNNING", "TERMINATING"}
    BY DEF TableOK
  <2>2. \A i \in JobId \ {j} : i \in startup_error_bytes' <=> i \in startup_error_bytes
    BY DEF drainProcessFds
  <2>3. CASE UNCHANGED <<job_state, exit_status, active_jobs>>
    BY <2>1, <2>2, <2>3 DEF Absent
  <2>4. CASE /\ child'[j] = "reaped"
             /\ \A k \in Pipes : <<j, k>> \notin tracked_fds'
             /\ \E final \in JobState :
                   isTerminal(final) /\ job_state' = [job_state EXCEPT ![j] = final]
             /\ \A i \in JobId \ {j} : exit_status'[i] = exit_status[i]
             /\ active_jobs' = active_jobs \ {j}
    BY <2>2, <2>4 DEF MonitorTypeOK, isTerminal, Absent
  <2> QED
    BY <2>3, <2>4, TryFinalizeJobCases
<1>4. /\ tracked_fds' \subseteq tracked_fds
      /\ \A i \in JobId : unread'[i] \subseteq unread[i]
  BY DEF drainProcessFds, ProcessesTypeOK
<1>5. \A i \in JobId : child'[i] = child[i] \/ (i = j /\ child'[i] = "reaped")
  BY DEF ProcessesTypeOK
<1>6. NoOutputLost'
  <2> SUFFICES ASSUME NEW i \in JobId, NEW k \in Pipes, child'[i] # "none",
                      ~GivenUp(i)', <<i, k>> \notin tracked_fds'
               PROVE  k \notin unread'[i] \cup held'[i]
    BY DEF NoOutputLost
  <2>1. CASE <<i, k>> \notin tracked_fds
    <3>1. ~GivenUp(i)
      <4>1. CASE i = j
        <5>1. job_state[j] \in {"RUNNING", "TERMINATING"}
          BY DEF TableOK
        <5> QED
          BY <4>1, <5>1 DEF GivenUp
      <4>2. CASE i # j
        BY <1>3, <4>2 DEF GivenUp
      <4> QED
        BY <4>1, <4>2
    <3>2. child[i] = "none" => held[i] = {} /\ unread[i] = {}
      BY DEF PipesOK
    <3> QED
      BY <1>4, <2>1, <3>1, <3>2 DEF PipesOK, NoOutputLost
  <2>2. CASE <<i, k>> \in tracked_fds
    <3>1. i = j /\ k \in ks /\ k \notin held[j]
      BY <2>2 DEF drainProcessFds
    <3>2. k \notin unread'[j]
      BY <2>2, <3>1 DEF drainProcessFds, ProcessesTypeOK
    <3> QED
      BY <3>1, <3>2
  <2> QED
    BY <2>1, <2>2
<1>7. PipesOK'
  BY <1>2, <1>3, <1>4, <1>5, <1>6 DEF PipesOK, InHand
<1> QED
  BY <1>1, <1>7

\* A pipe event, and one turn of the waitpid loop.
LEMMA MonitorEventsKeepInv ==
    ASSUME DaemonInv, NEW j \in JobId,
           Reap(j) \/ \E k \in Pipes : PipeEvent(j, k)
    PROVE  DaemonInv'
<1> USE DEF DaemonInv, TypeOK, Goto, Locations, Abandoning
<1>1. ASSUME NEW k \in Pipes, PipeEvent(j, k) PROVE DaemonInv'
  <2>1. drainProcessFds(j, {k}) /\ tryFinalizeJob(j)
    BY <1>1 DEF PipeEvent, handlePipeEvent
  <2>2. j \in active_jobs
    BY <1>1 DEF PipeEvent, handlePipeEvent, PipeReady, PipesOK, InHand
  <2>3. /\ PipesOK' /\ ProcessesTypeOK'
        /\ tracked_fds' \in SUBSET (JobId \X Pipes)
        /\ startup_error_bytes' \in SUBSET JobId
    BY <1>1, <2>1, <2>2, DrainKeepsPipes DEF PipeEvent, handlePipeEvent
  <2>4. TypeOK' /\ SchedulerInv' /\ SlotsAccountedFor' /\ NotificationsOK' /\ TableOK'
    BY <1>1, <2>1, <2>3, TryFinalizeJobKeepsInv DEF PipeEvent
  <2>5. ControlOK'
    BY <1>1 DEF PipeEvent, ControlOK
  <2> QED
    BY <2>3, <2>4, <2>5
<1>2. CASE Reap(j)
  <2>1. /\ tryFinalizeJob(j) /\ child[j] = "zombie"
        /\ child' = [child EXCEPT ![j] = "reaped"]
        /\ UNCHANGED <<wait_status, kin, held, unread, signals, sigchld,
                       tracked_fds, startup_error_bytes>>
    BY <1>2 DEF Reap, reapExitedChild
  <2>2. j \in active_jobs
    BY <1>2, <2>1 DEF Reap, PipesOK, InHand
  <2>3. drainProcessFds(j, {})
    BY <2>1 DEF drainProcessFds, ProcessesTypeOK
  <2>4. /\ PipesOK' /\ ProcessesTypeOK'
        /\ tracked_fds' \in SUBSET (JobId \X Pipes)
        /\ startup_error_bytes' \in SUBSET JobId
    BY <1>2, <2>1, <2>2, <2>3, DrainKeepsPipes DEF Reap
  <2>5. TypeOK' /\ SchedulerInv' /\ SlotsAccountedFor' /\ NotificationsOK' /\ TableOK'
    BY <1>2, <2>1, <2>4, TryFinalizeJobKeepsInv DEF Reap
  <2>6. ControlOK'
    BY <1>2 DEF Reap, ControlOK
  <2> QED
    BY <2>4, <2>5, <2>6
<1> QED
  BY <1>1, <1>2

\* finishExitedChildBeforeSignal, at the start of requestTerminate and forceKill:
\* either the job is settled or its state is what the rest of the function needs.
LEMMA FinishBeforeSignalKeepsInv ==
    ASSUME DaemonInv, Terminate \/ Kill
    PROVE  DaemonInv'
<1> USE DEF DaemonInv, TypeOK, Goto, Return, Locations, Abandoning
<1>1. cur \in JobId /\ job_state[cur] \in {"RUNNING", "TERMINATING"} /\ cur \in active_jobs
  BY DEF Terminate, Kill, ControlOK, TableOK
<1>2. ~isTerminal(job_state[cur])
  BY <1>1 DEF isTerminal
<1>3. /\ finishExitedChildBeforeSignal(cur) /\ pc \in {"terminate", "kill"}
      /\ UNCHANGED <<schedulerVars, deadlineVars, tableVars, expired>>
      /\ pc' \in Locations \ {"register", "abandon", "started"} /\ cur' \in JobId \cup {0}
      /\ ret' \in {"loop", "deadline", "notify"}
  BY DEF Terminate, Kill
<1>4. CASE ChildAlive(cur)
  <2>1. UNCHANGED <<processVars, monitorVars>>
    BY <1>3, <1>4 DEF finishExitedChildBeforeSignal
  <2>2. ControlOK'
    BY <1>1, <1>2, <2>1 DEF Terminate, Kill, ControlOK, monitorVars
  <2> QED
    BY <1>3, <2>1, <2>2, QuietStepKeepsInv DEF TableOK, deadlineVars
<1>5. CASE ~ChildAlive(cur)
  <2>1. /\ child' = [child EXCEPT ![cur] = "reaped"]
        /\ UNCHANGED <<wait_status, kin, held, signals, sigchld>>
        /\ drainProcessFds(cur, Pipes) /\ tryFinalizeJob(cur)
    BY <1>3, <1>5 DEF finishExitedChildBeforeSignal
  <2>2. /\ PipesOK' /\ ProcessesTypeOK'
        /\ tracked_fds' \in SUBSET (JobId \X Pipes)
        /\ startup_error_bytes' \in SUBSET JobId
    BY <1>1, <1>3, <2>1, DrainKeepsPipes
  <2>3. TypeOK' /\ SchedulerInv' /\ SlotsAccountedFor' /\ NotificationsOK' /\ TableOK'
    BY <1>1, <1>3, <2>1, <2>2, TryFinalizeJobKeepsInv
  <2>4. isTerminal(job_state'[cur]) \/ job_state' = job_state
    BY <1>1, <2>1, TryFinalizeJobCases DEF MonitorTypeOK
  <2>5. ControlOK'
    BY <1>1, <1>2, <2>4 DEF Terminate, Kill, ControlOK
  <2> QED
    BY <2>2, <2>3, <2>5
<1> QED
  BY <1>4, <1>5

\* SIGTERM and SIGKILL are sent, and the signalfd is read.
LEMMA SignalsKeepInv ==
    ASSUME DaemonInv, Sigterm \/ Sigkill \/ SigchldEvent
    PROVE  DaemonInv'
<1> USE DEF DaemonInv, Goto, Return, Abandoning
<1>1. SchedulerInv'
  BY StutterKeepsInv DEF Sigterm, Sigkill, SigchldEvent
<1>2. UNCHANGED <<schedulerVars, deadlineVars, tableVars, expired>>
  BY DEF Sigterm, Sigkill, SigchldEvent
<1>3. UNCHANGED <<child, wait_status, kin, held, unread, exit_status, active_jobs,
                  tracked_fds, startup_error_bytes, notifications>>
  BY DEF Sigterm, Sigkill, SigchldEvent, requestTerminateSends, forceKillSends,
     SignalGroup, monitorVars
<1>4. /\ signals' \in [JobId -> Signal] /\ sigchld' \in BOOLEAN
      /\ pc \notin {"register", "abandon", "started"}
      /\ pc' \in Locations \ {"register", "abandon", "started"}
      /\ cur' \in JobId \cup {0} /\ ret' \in {"loop", "deadline", "notify"}
  BY DEF Sigterm, Sigkill, SigchldEvent, requestTerminateSends, forceKillSends,
     SignalGroup, TypeOK, ProcessesTypeOK, Signal, Locations
<1>5. CASE Sigterm
  <2>1. cur \in JobId /\ job_state[cur] = "RUNNING"
    BY <1>5 DEF Sigterm, ControlOK
  <2>2. /\ job_state' = [job_state EXCEPT ![cur] = "TERMINATING"]
        /\ termination_cause' = [termination_cause EXCEPT ![cur] = Cause]
        /\ pc' = "grace" /\ cur' = cur
    BY <1>5 DEF Sigterm, requestTerminateSends, transitionJob
  <2>3. Cause \in TerminationCause
    BY DEF Cause, TerminationCause
  <2>4. TypeOK'
    BY <1>1, <1>2, <1>3, <1>4, <2>1, <2>2, <2>3 DEF TypeOK, SchedulerInv,
       ProcessesTypeOK, MonitorTypeOK, JobState, deadlineVars, tableVars
  <2>5. SlotsAccountedFor'
    BY <1>2, <1>3, <1>4, <2>1, <2>2
    DEF SlotsAccountedFor, JobsIn, schedulerVars, TypeOK, MonitorTypeOK
  <2>6. ControlOK'
    BY <2>1, <2>2 DEF ControlOK, TypeOK, MonitorTypeOK
  <2>7. NotificationsOK'
    <3>1. cur \notin ToSet(notifications)
      BY <2>1 DEF NotificationsOK, isTerminal
    <3>2. \A j \in ToSet(notifications) : job_state'[j] = job_state[j]
      <4>1. ToSet(notifications) \subseteq JobId
        BY DEF TypeOK, MonitorTypeOK, ToSet
      <4> QED
        BY <2>2, <3>1, <4>1 DEF TypeOK, MonitorTypeOK
    <3> QED
      BY <1>3, <3>2 DEF NotificationsOK
  <2>8. TableOK'
    BY <1>2, <1>3, <2>1, <2>2, <2>3
    DEF TableOK, TypeOK, MonitorTypeOK, deadlineVars, tableVars, Absent
  <2>9. PipesOK'
    BY <1>3, <1>4, <2>1, <2>2
    DEF PipesOK, NoOutputLost, GivenUp, InHand, TypeOK, MonitorTypeOK, Absent
  <2> QED
    BY <1>1, <2>4, <2>5, <2>6, <2>7, <2>8, <2>9
<1>6. CASE Sigkill \/ SigchldEvent
  <2>1. UNCHANGED monitorVars
    BY <1>6 DEF Sigkill, SigchldEvent, forceKillSends
  <2>2. TypeOK'
    BY <1>1, <1>2, <1>3, <1>4, <2>1 DEF TypeOK, SchedulerInv, ProcessesTypeOK,
       MonitorTypeOK, deadlineVars, tableVars, monitorVars
  <2>3. SlotsAccountedFor' /\ NotificationsOK' /\ TableOK'
    BY <1>2, <1>4, <2>1 DEF SlotsAccountedFor, JobsIn, NotificationsOK, TableOK,
       schedulerVars, deadlineVars, tableVars, monitorVars
  <2>4. ControlOK'
    BY <1>6, <2>1 DEF Sigkill, SigchldEvent, ControlOK, TypeOK
  <2>5. PipesOK'
    BY <1>3, <1>4, <2>1 DEF PipesOK, NoOutputLost, GivenUp, InHand, monitorVars
  <2> QED
    BY <1>1, <2>2, <2>3, <2>4, <2>5
<1> QED
  BY <1>5, <1>6

-----------------------------------------------------------------------------

\* The next job id, and that the counter ends at 0 when the ids are used up.
LEMMA NextJobIdProperties ==
    ASSUME NEW n \in JobId
    PROVE  LET m == (n + 1) % JobIdSpace
           IN  m \in JobId \cup {0} /\ (m # 0 => m = n + 1)
<1>1. JobIdSpace \in Nat /\ JobIdSpace > 1 /\ n \in 1 .. (JobIdSpace - 1)
  BY JobIdSpaceAssumption DEF JobId
<1>2. CASE n + 1 = JobIdSpace
  <2>1. (n + 1) % JobIdSpace = 0
    BY <1>1, <1>2
  <2> QED
    BY <2>1
<1>3. CASE n + 1 < JobIdSpace
  <2>1. (n + 1) % JobIdSpace = n + 1
    BY <1>1, <1>3
  <2> QED
    BY <1>1, <1>3, <2>1 DEF JobId
<1> QED
  BY <1>1, <1>2, <1>3

\* SUBMIT gives a new job an id no job has and queues it.
LEMMA SubmitKeepsInv ==
    ASSUME DaemonInv, NEW t, Submit(t)
    PROVE  DaemonInv'
<1> USE DEF DaemonInv, Abandoning
<1> DEFINE n == next_job_id
<1>1. /\ n \in JobId /\ job_state[n] = Absent /\ enqueue(n) /\ pc = "loop"
      /\ job_state' = [job_state EXCEPT ![n] = "QUEUED"]
      /\ timed' \in {timed, timed \cup {n}}
      /\ next_job_id' = (n + 1) % JobIdSpace
      /\ pc' = "pump" /\ cur' = 0 /\ ret' = "loop"
      /\ UNCHANGED <<termination_cause, exit_status, active_jobs, tracked_fds,
                     startup_error_bytes, notifications, expired>>
      /\ UNCHANGED <<deadlineVars, processVars>>
  BY DEF Submit, Call, TypeOK
<1>2. next_job_id' \in JobId \cup {0} /\ (next_job_id' # 0 => next_job_id' = n + 1)
  BY <1>1, NextJobIdProperties
<1>3. SchedulerInv'
  BY <1>1, EnqueueKeepsInv
<1>4. job_state \in [JobId -> JobState \cup {Absent}] /\ ToSet(notifications) \subseteq JobId
  BY DEF TypeOK, MonitorTypeOK, ToSet
<1> HIDE DEF n
<1>5. TypeOK'
  BY <1>1, <1>2, <1>3 DEF TypeOK, SchedulerInv, ProcessesTypeOK, MonitorTypeOK,
     JobState, Locations, deadlineVars, processVars
<1>6. SlotsAccountedFor'
  BY <1>1, <1>4 DEF SlotsAccountedFor, JobsIn, enqueue, Absent
<1>7. ControlOK'
  BY <1>1 DEF ControlOK
<1>8. NotificationsOK'
  BY <1>1, <1>4 DEF NotificationsOK, isTerminal, Absent
<1>9. TableOK'
  <2>1. ASSUME NEW j \in JobId, next_job_id' # 0, j >= next_job_id'
        PROVE  job_state'[j] = Absent
    <3>1. n \in Nat /\ j \in Nat
      BY <1>1 DEF JobId
    <3>2. j >= n /\ j # n
      BY <1>2, <2>1, <3>1
    <3>3. job_state[j] = Absent
      BY <1>1, <3>2 DEF TableOK, n, JobId
    <3> QED
      BY <1>1, <1>4, <3>2, <3>3
  <2>2. \A j \in JobId \ {n} : job_state'[j] = job_state[j]
    BY <1>1, <1>4
  <2>3. job_state'[n] = "QUEUED" /\ n \notin active_deadlines \cup expired \cup active_jobs
    BY <1>1, <1>4 DEF TableOK, Absent
  <2> QED
    BY <1>1, <1>4, <2>1, <2>2, <2>3 DEF TableOK, TypeOK, deadlineVars
<1>10. PipesOK'
  BY <1>1, <1>4 DEF PipesOK, NoOutputLost, GivenUp, InHand, processVars, Absent
<1> QED
  BY <1>3, <1>5, <1>6, <1>7, <1>8, <1>9, <1>10

\* CANCEL of a queued job takes it out of the queue before its state changes.
LEMMA CancelQueuedStepKeepsInv ==
    ASSUME DaemonInv, NEW j \in JobId, CancelQueued(j)
    PROVE  DaemonInv'
<1> USE DEF DaemonInv, Abandoning
<1>1. /\ job_state[j] = "QUEUED" /\ cancelQueuedJob(j)
      /\ job_state' = [job_state EXCEPT ![j] = "CANCELLED"] /\ pc = "loop"
      /\ UNCHANGED <<termination_cause, exit_status, active_jobs, tracked_fds,
                     startup_error_bytes, notifications>>
      /\ UNCHANGED <<deadlineVars, processVars, tableVars, controlVars>>
  BY DEF CancelQueued, transitionJob
<1>2. SchedulerInv'
  BY <1>1, CancelQueuedKeepsInv
<1>3. job_state \in [JobId -> JobState \cup {Absent}] /\ ToSet(notifications) \subseteq JobId
  BY DEF TypeOK, MonitorTypeOK, ToSet
<1>4. TypeOK'
  BY <1>1, <1>2 DEF TypeOK, SchedulerInv, ProcessesTypeOK, MonitorTypeOK,
     JobState, deadlineVars, processVars, tableVars, controlVars
<1>5. SlotsAccountedFor' /\ ControlOK'
  BY <1>1, <1>3
  DEF SlotsAccountedFor, ControlOK, JobsIn, cancelQueuedJob, controlVars
<1>6. NotificationsOK'
  BY <1>1, <1>3 DEF NotificationsOK, isTerminal
<1>7. TableOK'
  BY <1>1, <1>3 DEF TableOK, TypeOK, Absent, deadlineVars, tableVars, controlVars
<1>8. PipesOK'
  BY <1>1, <1>3
  DEF PipesOK, NoOutputLost, GivenUp, InHand, processVars, controlVars, Absent
<1> QED
  BY <1>2, <1>4, <1>5, <1>6, <1>7, <1>8

\* A notification gives back exactly the slot it stands for.
LEMMA NotifyKeepsInv ==
    ASSUME DaemonInv, NEW j \in JobId, Notify(j)
    PROVE  DaemonInv'
<1> USE DEF DaemonInv, Abandoning
<1>1. /\ notifications # <<>> /\ j = Head(notifications)
      /\ notifications' = Tail(notifications) /\ isTerminal(job_state[j])
      /\ active_deadlines' = active_deadlines \ {j} /\ UNCHANGED armed
      /\ onJobReachedTerminalState(j)
      /\ pc = "notify" /\ pc' = "pump" /\ cur' = 0 /\ ret' = "notify"
      /\ UNCHANGED <<job_state, termination_cause, exit_status, active_jobs,
                     tracked_fds, startup_error_bytes, expired>>
      /\ UNCHANGED <<processVars, tableVars>>
  BY DEF Notify, Call, cancel
<1>2. SchedulerInv'
  BY <1>1, ReleaseKeepsInv
<1>3. /\ notifications' \in Seq(JobId)
      /\ ToSet(notifications') = ToSet(notifications) \ {j}
      /\ \A p, q \in DOMAIN notifications' :
            notifications'[p] = notifications'[q] => p = q
  BY <1>1, TailToSet DEF NotificationsOK, TypeOK, MonitorTypeOK
<1>4. TypeOK'
  BY <1>1, <1>2, <1>3 DEF TypeOK, SchedulerInv, ProcessesTypeOK, MonitorTypeOK,
     Locations, processVars, tableVars
<1>5. SlotsAccountedFor'
  BY <1>1, <1>3 DEF SlotsAccountedFor, JobsIn, isTerminal, onJobReachedTerminalState
<1>6. ControlOK' /\ NotificationsOK'
  BY <1>1, <1>3 DEF ControlOK, NotificationsOK
<1>7. TableOK' /\ PipesOK'
  BY <1>1 DEF TableOK, PipesOK, NoOutputLost, GivenUp, InHand, processVars, tableVars
<1> QED
  BY <1>2, <1>4, <1>5, <1>6, <1>7

\* A job whose start failed gives its slot back at once.
LEMMA StartedFailedKeepsInv ==
    ASSUME DaemonInv, StartedFailed
    PROVE  DaemonInv'
<1> USE DEF DaemonInv, Abandoning
<1>1. /\ isTerminal(job_state[cur]) /\ onJobReachedTerminalState(cur)
      /\ pc = "started" /\ pc' = "pump" /\ cur' = 0 /\ ret' = ret
      /\ UNCHANGED <<deadlineVars, processVars, monitorVars, tableVars, expired>>
  BY DEF StartedFailed, Call
<1>2. SchedulerInv'
  BY <1>1, ReleaseKeepsInv
<1>3. TypeOK'
  BY <1>1, <1>2 DEF TypeOK, SchedulerInv, ProcessesTypeOK, MonitorTypeOK, Locations,
     deadlineVars, processVars, monitorVars, tableVars
<1>4. SlotsAccountedFor'
  BY <1>1 DEF SlotsAccountedFor, ControlOK, JobsIn, isTerminal,
     onJobReachedTerminalState, monitorVars
<1>5. ControlOK' /\ NotificationsOK' /\ TableOK' /\ PipesOK'
  BY <1>1 DEF ControlOK, NotificationsOK, TableOK, PipesOK, NoOutputLost, GivenUp, InHand,
     deadlineVars, processVars, monitorVars, tableVars
<1> QED
  BY <1>2, <1>3, <1>4, <1>5

\* A job is taken from the queue and started, its start fails, or it fails past
\* fork: in each case the slot it was given is its own.
LEMMA PumpStartKeepsInv ==
    ASSUME DaemonInv, NEW j \in JobId, PumpStart(j)
    PROVE  DaemonInv'
<1> USE DEF DaemonInv
<1>1. /\ takeNextJobToStart(j) /\ pc = "pump" /\ cur' = j /\ ret' = ret
      /\ \/ startJobRuns(j) /\ pc' = "started"
         \/ startJobLaunchFails(j) /\ pc' = "started"
         \/ startJobForks(j) /\ pc' = "register"
      /\ UNCHANGED <<deadlineVars, tableVars, expired>>
  BY DEF PumpStart, Call
<1>2. SchedulerInv' /\ j \in waiting_job_ids
  BY <1>1, TakeKeepsInv
<1>3. /\ job_state \in [JobId -> JobState \cup {Absent}]
      /\ child \in [JobId -> ChildState] /\ held \in [JobId -> SUBSET Pipes]
      /\ ToSet(notifications) \subseteq JobId
  BY DEF TypeOK, MonitorTypeOK, ProcessesTypeOK, ToSet
<1>4. /\ job_state[j] = "QUEUED" /\ j \notin active_jobs /\ child[j] = "none"
      /\ held[j] = {} /\ unread[j] = {}
      /\ exit_status[j] = "none" /\ j \notin startup_error_bytes
  BY <1>1, <1>2, <1>3
  DEF SlotsAccountedFor, JobsIn, TableOK, PipesOK, InHand, Abandoning
<1>5. PICK new \in {"RUNNING", "FAILED", "QUEUED"} :
         /\ job_state' = [job_state EXCEPT ![j] = new]
         /\ active_jobs' = IF new = "RUNNING" THEN active_jobs \cup {j} ELSE active_jobs
         /\ new = "FAILED" => UNCHANGED <<tracked_fds, child, held>>
         /\ new # "FAILED" => /\ tracked_fds' = tracked_fds \cup ({j} \X Pipes)
                              /\ child' = [child EXCEPT ![j] = "starting"]
                              /\ held' = [held EXCEPT ![j] = Pipes]
         /\ pc' = IF new = "QUEUED" THEN "register" ELSE "started"
  <2>1. CASE startJobRuns(j) /\ pc' = "started"
    BY <2>1 DEF startJobRuns, SpawnChild, transitionJob
  <2>2. CASE startJobLaunchFails(j) /\ pc' = "started"
    BY <2>2 DEF startJobLaunchFails, transitionJob, processVars
  <2>3. CASE startJobForks(j) /\ pc' = "register"
    <3>1. job_state' = [job_state EXCEPT ![j] = "QUEUED"]
      BY <1>3, <1>4, <2>3 DEF startJobForks
    <3> QED
      BY <2>3, <3>1 DEF startJobForks, SpawnChild
  <2> QED
    BY <1>1, <2>1, <2>2, <2>3
<1>6. UNCHANGED <<termination_cause, exit_status, startup_error_bytes, notifications,
                  wait_status, kin, unread, signals, sigchld>>
  BY <1>1 DEF startJobRuns, startJobLaunchFails, startJobForks, SpawnChild, processVars
<1>7. TypeOK'
  <2>1. ProcessesTypeOK'
    BY <1>5, <1>6 DEF TypeOK, ProcessesTypeOK, ChildState
  <2> QED
    BY <1>1, <1>2, <1>5, <1>6, <2>1 DEF TypeOK, SchedulerInv, MonitorTypeOK, JobState,
       Locations, deadlineVars, tableVars
<1>8. j \notin ToSet(notifications)
  BY <1>4 DEF NotificationsOK, isTerminal
<1>9. SlotsAccountedFor'
  BY <1>1, <1>3, <1>4, <1>5, <1>6
  DEF SlotsAccountedFor, JobsIn, Abandoning, takeNextJobToStart
<1>10. ControlOK' /\ NotificationsOK'
  BY <1>1, <1>3, <1>5, <1>6, <1>8 DEF ControlOK, NotificationsOK, Abandoning, isTerminal
<1>11. TableOK'
  BY <1>1, <1>3, <1>4, <1>5, <1>6
  DEF TableOK, TypeOK, Absent, deadlineVars, tableVars
<1>12. PipesOK'
  <2>1. ~Abandoning
    BY <1>1 DEF Abandoning
  <2>2. InHand(j)' <=> job_state'[j] = "QUEUED"
    BY <1>1, <1>3, <1>5 DEF InHand, Abandoning
  <2>3. NoOutputLost'
    <3> SUFFICES ASSUME NEW i \in JobId, NEW k \in Pipes, child'[i] # "none",
                        ~GivenUp(i)', <<i, k>> \notin tracked_fds'
                 PROVE  k \notin unread'[i] \cup held'[i]
      BY DEF NoOutputLost
    <3>1. CASE i = j
      BY <1>3, <1>4, <1>5, <1>6, <3>1
    <3>2. CASE i # j
      BY <1>3, <1>5, <1>6, <3>2 DEF PipesOK, NoOutputLost, GivenUp
    <3> QED
      BY <3>1, <3>2
  <2>4. ASSUME NEW i \in JobId
        PROVE  /\ i \in active_jobs' \/ InHand(i)' \/
                     /\ child'[i] \in {"none", "reaped"}
                     /\ \A k \in Pipes : <<i, k>> \notin tracked_fds'
               /\ job_state'[i] \in {Absent, "QUEUED"} =>
                     /\ child'[i] = "none" \/ InHand(i)'
                     /\ exit_status'[i] = "none" /\ i \notin startup_error_bytes'
               /\ child'[i] = "none" => held'[i] = {} /\ unread'[i] = {}
    <3>1. CASE i = j
      <4>1. \A k \in Pipes : <<j, k>> \notin tracked_fds
        BY <1>4, <2>1 DEF PipesOK, InHand
      <4> QED
        BY <1>3, <1>4, <1>5, <1>6, <2>2, <3>1, <4>1 DEF Absent
    <3>2. CASE i # j
      BY <1>3, <1>5, <1>6, <2>1, <3>2 DEF PipesOK, InHand
    <3> QED
      BY <3>1, <3>2
  <2> QED
    BY <2>3, <2>4 DEF PipesOK
<1> QED
  BY <1>2, <1>7, <1>9, <1>10, <1>11, <1>12

\* A job that startJob gives up past fork: its pipes are closed as they are, its
\* child is killed and reaped, and it ends FAILED with nothing left behind.
LEMMA AbandonKeepsInv ==
    ASSUME DaemonInv, AbandonPipes \/ AbandonChild
    PROVE  DaemonInv'
<1> USE DEF DaemonInv, Goto
<1>1. /\ Abandoning /\ cur' = cur /\ ret' = ret
      /\ UNCHANGED <<schedulerVars, deadlineVars, tableVars, expired>>
      /\ UNCHANGED <<termination_cause, exit_status, active_jobs, startup_error_bytes,
                     notifications, kin, unread>>
  BY DEF AbandonPipes, AbandonChild, Abandoning, closeUnread, startJobAbandoned,
     killAndReapChild, killAndReapProcess, ReapKilled, processVars
<1>2. /\ cur \in JobId /\ cur \notin ToSet(notifications) /\ job_state[cur] = "QUEUED"
      /\ cur \notin active_jobs /\ exit_status[cur] = "none"
      /\ cur \notin startup_error_bytes
  BY <1>1 DEF ControlOK, TableOK, PipesOK
<1>3. SchedulerInv'
  BY <1>1, StutterKeepsInv
<1>4. /\ job_state \in [JobId -> JobState \cup {Absent}]
      /\ child \in [JobId -> ChildState] /\ held \in [JobId -> SUBSET Pipes]
      /\ ToSet(notifications) \subseteq JobId
  BY DEF TypeOK, MonitorTypeOK, ProcessesTypeOK, ToSet
<1>5. CASE AbandonPipes
  <2>1. /\ pc = "register" /\ pc' = "abandon"
        /\ tracked_fds' = tracked_fds \ ({cur} \X Pipes)
        /\ UNCHANGED <<job_state, processVars>>
    BY <1>5 DEF AbandonPipes, closeUnread
  <2>2. TypeOK'
    BY <1>1, <1>3, <2>1 DEF TypeOK, SchedulerInv, MonitorTypeOK, ProcessesTypeOK,
       Locations, deadlineVars, tableVars, processVars
  <2>3. SlotsAccountedFor' /\ ControlOK' /\ NotificationsOK'
    BY <1>1, <1>2, <2>1 DEF SlotsAccountedFor, ControlOK, NotificationsOK, JobsIn,
       Abandoning, schedulerVars
  <2>4. TableOK'
    BY <1>1, <2>1 DEF TableOK, deadlineVars, tableVars
  <2>5. PipesOK'
    <3>1. \A i \in JobId, k \in Pipes :
             <<i, k>> \in tracked_fds' <=> <<i, k>> \in tracked_fds /\ i # cur
      BY <2>1
    <3>2. \A i \in JobId : (InHand(i)' <=> InHand(i)) /\ (GivenUp(i)' <=> GivenUp(i))
      BY <1>1, <2>1 DEF InHand, Abandoning, GivenUp
    <3>3. GivenUp(cur)
      BY <1>2 DEF GivenUp
    <3>4. NoOutputLost'
      BY <2>1, <3>1, <3>2, <3>3 DEF PipesOK, NoOutputLost, processVars
    <3> QED
      BY <1>1, <2>1, <3>1, <3>2, <3>4 DEF PipesOK, processVars
  <2> QED
    BY <1>3, <2>2, <2>3, <2>4, <2>5
<1>6. CASE AbandonChild
  <2>1. /\ pc = "abandon" /\ pc' = "started" /\ UNCHANGED tracked_fds
        /\ job_state' = [job_state EXCEPT ![cur] = "FAILED"]
        /\ child' = [child EXCEPT ![cur] = "reaped"]
        /\ \E h \in SUBSET Pipes : held' = [held EXCEPT ![cur] = h]
        /\ wait_status' \in {wait_status, [wait_status EXCEPT ![cur] = "signal"]}
        /\ signals' \in {signals, [signals EXCEPT ![cur] = "SIGKILL"]}
        /\ sigchld' = TRUE
    <3>1. startJobAbandoned(cur) /\ pc = "abandon" /\ pc' = "started"
      BY <1>6 DEF AbandonChild
    <3>2. ReapKilled(cur) /\ signals' \in {signals, [signals EXCEPT ![cur] = "SIGKILL"]}
      BY <3>1 DEF startJobAbandoned, killAndReapChild, killAndReapProcess
    <3>3. HeldBy(cur, FALSE, kin[cur]) \ {"kStartupError"} \in SUBSET Pipes
      BY <1>2, <1>4 DEF HeldBy
    <3>4. wait_status' \in {wait_status, [wait_status EXCEPT ![cur] = "signal"]}
      BY <1>2, <3>2 DEF ReapKilled, TypeOK, ProcessesTypeOK
    <3> QED
      BY <3>1, <3>2, <3>3, <3>4 DEF ReapKilled, startJobAbandoned, transitionJob
  <2>2. TypeOK'
    <3>1. ProcessesTypeOK'
      BY <1>1, <1>2, <2>1 DEF TypeOK, ProcessesTypeOK, ChildState, WaitStatus, Signal
    <3> QED
      BY <1>1, <1>2, <1>3, <2>1, <3>1 DEF TypeOK, SchedulerInv, MonitorTypeOK, JobState,
         Locations, deadlineVars, tableVars
  <2>3. SlotsAccountedFor'
    BY <1>1, <1>2, <1>4, <2>1 DEF SlotsAccountedFor, JobsIn, Abandoning, schedulerVars
  <2>4. ControlOK' /\ NotificationsOK'
    BY <1>1, <1>2, <1>4, <2>1 DEF ControlOK, NotificationsOK, Abandoning, isTerminal
  <2>5. TableOK'
    BY <1>1, <1>2, <1>4, <2>1 DEF TableOK, TypeOK, Absent, deadlineVars, tableVars
  <2>6. PipesOK'
    <3>1. \A i \in JobId \ {cur} : /\ job_state'[i] = job_state[i] /\ child'[i] = child[i]
                                   /\ held'[i] = held[i] /\ ~InHand(i)
      BY <1>1, <1>4, <2>1 DEF InHand
    <3>2. /\ job_state'[cur] = "FAILED" /\ child'[cur] = "reaped"
          /\ \A k \in Pipes : <<cur, k>> \notin tracked_fds
      BY <1>2, <1>4, <2>1 DEF ControlOK
    <3>3. GivenUp(cur)' /\ \A i \in JobId \ {cur} : GivenUp(i)' <=> GivenUp(i)
      BY <1>1, <1>2, <3>1, <3>2 DEF GivenUp
    <3>4. NoOutputLost'
      BY <1>1, <1>2, <2>1, <3>1, <3>3 DEF PipesOK, NoOutputLost
    <3> QED
      BY <1>1, <1>2, <2>1, <3>1, <3>2, <3>4 DEF PipesOK, Absent
  <2> QED
    BY <1>3, <2>2, <2>3, <2>4, <2>5, <2>6
<1> QED
  BY <1>5, <1>6

-----------------------------------------------------------------------------

(***************************************************************************)
(* DaemonInv is an invariant of the daemon with its clients and its jobs.  *)
(***************************************************************************)
THEOREM DaemonInvariance == Spec => []DaemonInv
<1>1. DaemonInv /\ [Next]_vars => DaemonInv'
  <2> SUFFICES ASSUME DaemonInv, [Next]_vars PROVE DaemonInv'
    OBVIOUS
  <2>1. CASE Request
    BY <2>1, SubmitKeepsInv, CancelQueuedStepKeepsInv, DispatchKeepsInv DEF Request
  <2>2. CASE Event
    BY <2>2, DispatchKeepsInv, MonitorEventsKeepInv, SignalsKeepInv DEF Event
  <2>3. CASE Handler
    <3>1. ASSUME NEW j \in JobId, Reap(j) \/ Deadline(j) \/ Notify(j) \/ PumpStart(j)
          PROVE  DaemonInv'
      BY <3>1, MonitorEventsKeepInv, DispatchKeepsInv, NotifyKeepsInv, PumpStartKeepsInv
    <3>2. CASE ReapDone \/ DeadlineDone \/ NotifyDone \/ PumpDone
      BY <3>2, DispatchKeepsInv
    <3>3. CASE Terminate \/ Kill
      BY <3>3, FinishBeforeSignalKeepsInv
    <3>4. CASE Sigterm \/ Sigkill
      BY <3>4, SignalsKeepInv
    <3>5. CASE \/ SignalFindsNoGroup \/ SignalFails \/ Grace \/ GraceFails
               \/ StartedRunning \/ StartedScheduleFails
      BY <3>5, DeadlineStepsKeepInv
    <3>6. CASE StartedFailed
      BY <3>6, StartedFailedKeepsInv
    <3>7. CASE AbandonPipes \/ AbandonChild
      BY <3>7, AbandonKeepsInv
    <3> QED
      BY <2>3, <3>1, <3>2, <3>3, <3>4, <3>5, <3>6, <3>7 DEF Handler
  <2>4. CASE Environment
    BY <2>4, EnvironmentKeepsInv
  <2>5. CASE UNCHANGED vars
    <3>1. UNCHANGED <<schedulerVars, deadlineVars, processVars, monitorVars,
                      tableVars, controlVars>>
      BY <2>5 DEF vars
    <3>2. SchedulerInv'
      BY <3>1, StutterKeepsInv DEF DaemonInv
    <3>3. TypeOK'
      BY <3>1, <3>2 DEF DaemonInv, SchedulerInv, TypeOK, ProcessesTypeOK, MonitorTypeOK,
         deadlineVars, processVars, monitorVars, tableVars, controlVars
    <3>4. SlotsAccountedFor' /\ ControlOK' /\ NotificationsOK' /\ TableOK' /\ PipesOK'
      BY <3>1 DEF DaemonInv, SlotsAccountedFor, JobsIn, ControlOK, NotificationsOK,
         TableOK, PipesOK, NoOutputLost, GivenUp, InHand, Abandoning, schedulerVars,
         deadlineVars, processVars, monitorVars, tableVars, controlVars
    <3> QED
      BY <3>2, <3>3, <3>4 DEF DaemonInv
  <2> QED
    BY <2>1, <2>2, <2>3, <2>4, <2>5 DEF Next
<1> QED
  BY <1>1, InitDaemonInv, PTL DEF Spec

(***************************************************************************)
(* Every variable of the daemon keeps its type, the id counter included.   *)
(***************************************************************************)
THEOREM DaemonTypes == Spec => []TypeOK
<1>1. DaemonInv => TypeOK
  BY DEF DaemonInv
<1> QED
  BY <1>1, DaemonInvariance, PTL

(***************************************************************************)
(* The queue holds exactly the QUEUED jobs, and no slot is lost or shared. *)
(***************************************************************************)
THEOREM DaemonSlots == Spec => []SlotsAccountedFor
<1>1. DaemonInv => SlotsAccountedFor
  BY DEF DaemonInv
<1> QED
  BY <1>1, DaemonInvariance, PTL

(***************************************************************************)
(* The daemon never runs more than max_running jobs, counting those whose  *)
(* notification is still to be processed.                                  *)
(***************************************************************************)
THEOREM DaemonBound == Spec => []NoMoreThanMaxRunning
<1>1. DaemonInv => NoMoreThanMaxRunning
  BY DEF DaemonInv, SchedulerInv
<1> QED
  BY <1>1, DaemonInvariance, PTL

(***************************************************************************)
(* No throw std::logic_error is reachable.                                 *)
(***************************************************************************)
THEOREM DaemonInternalChecks == Spec => []InternalChecksHold
<1>1. DaemonInv => InternalChecksHold
  <2> SUFFICES ASSUME DaemonInv PROVE InternalChecksHold
    OBVIOUS
  <2> USE DEF DaemonInv
  <2>1. \A i \in DOMAIN notifications : notifications[i] \in ToSet(notifications)
    BY DEF ToSet
  <2>2. \A i \in DOMAIN notifications :
           /\ isTerminal(job_state[notifications[i]])
           /\ notifications[i] \in active_job_ids
    BY <2>1 DEF NotificationsOK, SlotsAccountedFor
  <2>3. next_job_id # 0 => job_state[next_job_id] = Absent
    <3>1. next_job_id \in JobId => next_job_id >= next_job_id
      BY DEF JobId
    <3> QED
      BY <3>1 DEF TableOK, TypeOK
  <2>4. /\ pc \in {"terminate", "sigterm"} => cur \in active_jobs
        /\ pc \in {"grace", "kill", "sigkill"} =>
              cur \in active_jobs /\ termination_cause[cur] \in TerminationCause
    BY DEF ControlOK, TableOK
  <2>5. pc = "started" => cur \in active_job_ids
    BY DEF SlotsAccountedFor
  <2>6. Abandoning => cur \notin active_jobs
    BY DEF ControlOK, TableOK
  <2> QED
    BY <2>2, <2>3, <2>4, <2>5, <2>6 DEF InternalChecksHold, ControlOK, TableOK
<1> QED
  BY <1>1, DaemonInvariance, PTL

(***************************************************************************)
(* A job in a final state has no child to reap, no open pipe, no entry in  *)
(* the monitor or the queue.                                               *)
(***************************************************************************)
THEOREM DaemonLeavesNothing == Spec => []TerminalJobsLeaveNothing
<1>1. DaemonInv => TerminalJobsLeaveNothing
  BY DEF DaemonInv, TerminalJobsLeaveNothing, TableOK, PipesOK, ControlOK, InHand,
     SlotsAccountedFor, JobsIn, isTerminal
<1> QED
  BY <1>1, DaemonInvariance, PTL

(***************************************************************************)
(* The pipes of a job that was RUNNING are closed only when they are empty *)
(* and nobody can write to them; only startJob, when it gives a job up     *)
(* after fork, closes pipes that may hold output.                          *)
(***************************************************************************)
THEOREM DaemonLosesNoOutput == Spec => []NoOutputLost
<1>1. DaemonInv => NoOutputLost
  BY DEF DaemonInv, PipesOK
<1> QED
  BY <1>1, DaemonInvariance, PTL

(***************************************************************************)
(* No exited child is forgotten, however many SIGCHLDs the kernel merged.  *)
(***************************************************************************)
THEOREM DaemonNoticesZombies == Spec => []ZombiesAreNoticed
<1>1. Init => ZombiesAreNoticed
  BY DEF Init, ProcessesInit, ZombiesAreNoticed
<1>2. DaemonInv /\ ZombiesAreNoticed /\ [Next]_vars => ZombiesAreNoticed'
  <2> SUFFICES ASSUME DaemonInv, ZombiesAreNoticed, [Next]_vars PROVE ZombiesAreNoticed'
    OBVIOUS
  <2>1. child \in [JobId -> ChildState]
    BY DEF DaemonInv, TypeOK, ProcessesTypeOK
  <2>2. CASE Environment
    <3>1. PICK j \in JobId : ProcessStep(j)
      BY <2>2 DEF Environment
    <3>2. sigchld' \/ (UNCHANGED sigchld /\ child'[j] # "zombie"
                       /\ \A i \in JobId \ {j} : child'[i] = child[i])
                   \/ UNCHANGED <<child, sigchld>>
      BY <2>1, <3>1 DEF ProcessStep, Exec, StartupFails, Write, ClosePipe, Fork, Escape,
         ChildExit, KinExit
    <3> QED
      BY <2>2, <3>2 DEF Environment, ZombiesAreNoticed, controlVars
  <2>3. CASE SigchldEvent
    BY <2>3 DEF SigchldEvent, Goto, ZombiesAreNoticed
  <2>4. CASE ReapDone
    BY <2>4 DEF ReapDone, ZombiesAreNoticed, processVars
  <2>5. ASSUME NEW j \in JobId, Reap(j) PROVE ZombiesAreNoticed'
    BY <2>5 DEF Reap, Goto, ZombiesAreNoticed
  <2>6. ASSUME pc # "reap", \/ sigchld' = sigchld
                            \/ sigchld' = TRUE,
               \A i \in JobId : child'[i] = "zombie" => child[i] = "zombie"
        PROVE  ZombiesAreNoticed'
    BY <2>6 DEF ZombiesAreNoticed
  <2>7. CASE Request
    BY <2>6, <2>7 DEF Request, Submit, CancelQueued, CancelRunning, processVars
  <2>8. ASSUME NEW j \in JobId, NEW k \in Pipes, PipeEvent(j, k) PROVE ZombiesAreNoticed'
    BY <2>6, <2>8 DEF PipeEvent, handlePipeEvent
  <2>9. ASSUME NEW jobs \in SUBSET JobId, TimerEvent(jobs) PROVE ZombiesAreNoticed'
    BY <2>6, <2>9 DEF TimerEvent, processVars
  <2>10. ASSUME NEW j \in JobId, Deadline(j) \/ Notify(j) PROVE ZombiesAreNoticed'
    BY <2>6, <2>10 DEF Deadline, Notify, processVars
  <2>11. ASSUME NEW j \in JobId, PumpStart(j) PROVE ZombiesAreNoticed'
    BY <2>1, <2>6, <2>11 DEF PumpStart, startJobRuns, startJobLaunchFails, startJobForks,
       SpawnChild, processVars
  <2>12. CASE Terminate \/ Kill
    <3>1. /\ pc # "reap" /\ UNCHANGED sigchld
          /\ child' = child \/ child' = [child EXCEPT ![cur] = "reaped"]
      BY <2>12 DEF Terminate, Kill, finishExitedChildBeforeSignal, processVars
    <3> QED
      BY <2>1, <2>6, <3>1
  <2>13. CASE Sigterm \/ Sigkill
    BY <2>6, <2>13 DEF Sigterm, Sigkill, requestTerminateSends, forceKillSends, SignalGroup
  <2>14. CASE AbandonPipes \/ AbandonChild
    BY <2>1, <2>6, <2>14 DEF AbandonPipes, AbandonChild, closeUnread, startJobAbandoned,
       killAndReapChild, killAndReapProcess, ReapKilled, processVars
  <2>15. CASE \/ DeadlineDone \/ NotifyDone \/ PumpDone \/ SignalFindsNoGroup \/ SignalFails
              \/ Grace \/ GraceFails \/ StartedFailed \/ StartedRunning
              \/ StartedScheduleFails
    BY <2>6, <2>15 DEF DeadlineDone, NotifyDone, PumpDone, SignalFindsNoGroup, SignalFails,
       Grace, GraceFails, StartedFailed, StartedRunning, StartedScheduleFails, processVars
  <2>16. CASE UNCHANGED vars
    BY <2>16 DEF vars, processVars, controlVars, ZombiesAreNoticed
  <2> QED
    BY <2>2, <2>3, <2>4, <2>5, <2>7, <2>8, <2>9, <2>10, <2>11, <2>12, <2>13, <2>14,
       <2>15, <2>16 DEF Next, Event, Handler
<1> QED
  BY <1>1, <1>2, DaemonInvariance, PTL DEF Spec
=============================================================================
