------------------------ MODULE RunnerdOutcomeProofs -------------------------
(***************************************************************************)
(* What the daemon says of its jobs is true, it implements JobService, and *)
(* it ends its jobs and fills its slots as it should, for every number of  *)
(* jobs and slots, every set of pipes and every combination of faults.     *)
(***************************************************************************)
EXTENDS RunnerdProofs

(***************************************************************************)
(* What is known of a job's data in each of its states, before it is       *)
(* settled as well: OutcomeIsTrue alone says nothing of a job that runs.   *)
(***************************************************************************)
OutcomeOK(j) ==
    /\ job_state[j] \notin {"TERMINATING", "CANCELLED", "TIMED_OUT"} =>
          termination_cause[j] = "none"
    /\ job_state[j] \in {Absent, "QUEUED", "RUNNING"} => signals[j] = "none"
    /\ job_state[j] = "TERMINATING" =>
          /\ signals[j] \in {"SIGTERM", "SIGKILL"}
          /\ termination_cause[j] = "kTimedOut" => j \in timed
    /\ ~isTerminal(job_state[j]) => exit_status[j] = "none"
    /\ j \in active_jobs => child[j] # "none"
    /\ job_state[j] = "SUCCEEDED" => wait_status[j] = "exit0" /\ exit_status[j] = "exit0"
    /\ job_state[j] = "CANCELLED" =>
          \/ child[j] = "none"
          \/ termination_cause[j] = "kCancelled" /\ signals[j] # "none"
    /\ job_state[j] = "TIMED_OUT" =>
          /\ termination_cause[j] = "kTimedOut" /\ signals[j] # "none"
          /\ j \in timed
    /\ exit_status[j] \in {"none", wait_status[j]}

\* The thread is in requestTerminate, scheduleForceKillDeadline or forceKill.
InTermination == pc \in {"terminate", "sigterm", "grace", "kill", "sigkill"}

(***************************************************************************)
(* Expired deadlines are not forgotten when a function returns or a new    *)
(* batch comes, and only jobs with a timeout are ever terminated for one.  *)
(***************************************************************************)
DeadlinesOK ==
    /\ expired # {} =>
          pc \in {"deadline", "dead"} \/ (InTermination /\ ret = "deadline")
    /\ \A j \in active_deadlines \cup expired : job_state[j] = "RUNNING" => j \in timed
    /\ pc \in {"terminate", "sigterm"} /\ ret # "loop" => cur \in timed
    /\ pc \in {"kill", "sigkill"} /\ ret = "loop" => "schedule" \in Faults

\* Ids are given in order, and none is skipped.
IdsOK == \A j \in JobId : job_state[j] = Absent => next_job_id # 0 /\ j >= next_job_id

OutcomeInv == (\A j \in JobId : OutcomeOK(j)) /\ DeadlinesOK /\ IdsOK

-----------------------------------------------------------------------------
\* Steps seen from one job

\* The step leaves alone what OutcomeOK says of j.
SameJob(j) ==
    /\ job_state'[j] = job_state[j] /\ termination_cause'[j] = termination_cause[j]
    /\ exit_status'[j] = exit_status[j] /\ signals'[j] = signals[j]
    /\ wait_status'[j] = wait_status[j] /\ child'[j] = child[j]
    /\ j \in active_jobs' <=> j \in active_jobs
    /\ j \in timed' <=> j \in timed

LEMMA SameJobKeepsOutcome ==
    ASSUME NEW j \in JobId, OutcomeOK(j), SameJob(j)
    PROVE  OutcomeOK(j)'
BY DEF OutcomeOK, SameJob, isTerminal

(***************************************************************************)
(* The steps in which the monitor may settle a job j: it may have reaped   *)
(* the child of j, and has read from its pipes.                            *)
(***************************************************************************)
Settles(j) ==
    /\ tryFinalizeJob(j)
    /\ UNCHANGED <<wait_status, kin, signals>>
    /\ child' = child \/ (child[j] # "none" /\ child' = [child EXCEPT ![j] = "reaped"])
    /\ UNCHANGED <<schedulerVars, deadlineVars, tableVars, expired>>

\* finishExitedChildBeforeSignal of a job that the monitor tracks.
LEMMA FinishSettles ==
    ASSUME NEW j \in JobId, child[j] # "none", finishExitedChildBeforeSignal(j)
    PROVE  /\ tryFinalizeJob(j)
           /\ UNCHANGED <<wait_status, kin, signals>>
           /\ child' = child \/ child' = [child EXCEPT ![j] = "reaped"]
<1>1. CASE ChildAlive(j)
  <2>1. UNCHANGED <<processVars, monitorVars>>
    BY <1>1 DEF finishExitedChildBeforeSignal
  <2>2. tryFinalizeJob(j)
    BY <1>1, <2>1 DEF tryFinalizeJob, ChildAlive, processVars, monitorVars
  <2> QED
    BY <2>1, <2>2 DEF processVars
<1>2. CASE ~ChildAlive(j)
  BY <1>2 DEF finishExitedChildBeforeSignal
<1> QED
  BY <1>1, <1>2

LEMMA MonitorStepsSettle ==
    ASSUME DaemonInv, OutcomeInv
    PROVE  /\ \A j \in JobId, k \in Pipes : PipeEvent(j, k) => Settles(j)
           /\ \A j \in JobId : Reap(j) => Settles(j)
           /\ Terminate \/ Kill => cur \in JobId /\ Settles(cur)
<1>1. ASSUME NEW j \in JobId, NEW k \in Pipes, PipeEvent(j, k) PROVE Settles(j)
  BY <1>1 DEF PipeEvent, handlePipeEvent, Settles
<1>2. ASSUME NEW j \in JobId, Reap(j) PROVE Settles(j)
  BY <1>2 DEF Reap, reapExitedChild, Settles
<1>3. ASSUME Terminate \/ Kill PROVE cur \in JobId /\ Settles(cur)
  <2>1. cur \in JobId /\ finishExitedChildBeforeSignal(cur)
    BY <1>3 DEF Terminate, Kill, DaemonInv, ControlOK
  <2>2. child[cur] # "none"
    BY <1>3, <2>1 DEF Terminate, Kill, DaemonInv, ControlOK, TableOK, OutcomeInv, OutcomeOK
  <2>3. /\ tryFinalizeJob(cur) /\ UNCHANGED <<wait_status, kin, signals>>
        /\ child' = child \/ child' = [child EXCEPT ![cur] = "reaped"]
    BY <2>1, <2>2, FinishSettles
  <2> QED
    BY <1>3, <2>1, <2>2, <2>3 DEF Terminate, Kill, Settles
<1> QED
  BY <1>1, <1>2, <1>3

\* A job is settled in the state that its cause or its wait status calls for.
LEMMA SettlesCases ==
    ASSUME DaemonInv, NEW j \in JobId, Settles(j)
    PROVE  /\ termination_cause' = termination_cause /\ active_jobs' \subseteq active_jobs
           /\ \A i \in JobId \ {j} :
                 /\ job_state'[i] = job_state[i] /\ exit_status'[i] = exit_status[i]
                 /\ i \in active_jobs' <=> i \in active_jobs
           /\ \/ /\ job_state'[j] = job_state[j] /\ exit_status'[j] = exit_status[j]
                 /\ j \in active_jobs' <=> j \in active_jobs
              \/ /\ j \in active_jobs /\ j \notin active_jobs'
                 /\ \/ /\ job_state[j] = "TERMINATING"
                       /\ job_state'[j] = IF termination_cause[j] = "kCancelled"
                                          THEN "CANCELLED" ELSE "TIMED_OUT"
                       /\ exit_status'[j] = wait_status[j]
                    \/ /\ job_state[j] = "RUNNING" /\ job_state'[j] = "FAILED"
                       /\ exit_status'[j] \in {exit_status[j], wait_status[j]}
                    \/ /\ job_state[j] = "RUNNING" /\ job_state'[j] = "SUCCEEDED"
                       /\ exit_status'[j] = wait_status[j] /\ wait_status[j] = "exit0"
<1>1. /\ job_state \in [JobId -> JobState \cup {Absent}]
      /\ exit_status \in [JobId -> WaitStatus]
      /\ j \in active_jobs => job_state[j] \in {"RUNNING", "TERMINATING"}
  BY DEF DaemonInv, TypeOK, MonitorTypeOK, TableOK
<1> DEFINE settled == /\ j \in active_jobs /\ child'[j] = "reaped"
                      /\ \A k \in Pipes : <<j, k>> \notin tracked_fds'
<1>2. CASE ~settled
  <2>1. UNCHANGED <<job_state, exit_status, active_jobs, termination_cause>>
    BY <1>2 DEF Settles, tryFinalizeJob
  <2> QED
    BY <2>1
<1>3. CASE settled
  <2>1. /\ job_state' = [job_state EXCEPT ![j] = FinalState(j)]
        /\ exit_status' = IF job_state[j] # "TERMINATING" /\ j \in startup_error_bytes'
                          THEN exit_status
                          ELSE [exit_status EXCEPT ![j] = wait_status[j]]
        /\ active_jobs' = active_jobs \ {j}
        /\ UNCHANGED termination_cause
    BY <1>3 DEF Settles, tryFinalizeJob, transitionJob
  <2>2. /\ job_state'[j] = FinalState(j)
        /\ \A i \in JobId \ {j} : job_state'[i] = job_state[i] /\ exit_status'[i] = exit_status[i]
    BY <1>1, <2>1
  <2>3. CASE job_state[j] = "TERMINATING"
    BY <1>1, <1>3, <2>1, <2>2, <2>3 DEF FinalState
  <2>4. CASE job_state[j] = "RUNNING"
    BY <1>1, <1>3, <2>1, <2>2, <2>4 DEF FinalState
  <2> QED
    BY <1>1, <1>3, <2>3, <2>4
<1> QED
  BY <1>2, <1>3

LEMMA SettlesKeepsOutcome ==
    ASSUME DaemonInv, OutcomeInv, NEW j \in JobId, Settles(j), NEW i \in JobId
    PROVE  OutcomeOK(i)'
<1>1. /\ OutcomeOK(i) /\ child \in [JobId -> ChildState]
      /\ UNCHANGED <<wait_status, kin, signals, timed, termination_cause>>
  BY SettlesCases DEF OutcomeInv, DaemonInv, TypeOK, ProcessesTypeOK, Settles, tableVars
<1>2. /\ child'[i] = child[i] \/ (i = j /\ child[i] # "none" /\ child'[i] = "reaped")
  BY <1>1 DEF Settles
<1>3. CASE i # j
  <2>1. SameJob(i)
    BY <1>1, <1>2, <1>3, SettlesCases DEF SameJob
  <2> QED
    BY <1>1, <2>1, SameJobKeepsOutcome
<1>4. CASE i = j
  <2>1. child'[j] = "none" <=> child[j] = "none"
    BY <1>2, <1>4
  <2>2. CASE /\ job_state'[j] = job_state[j] /\ exit_status'[j] = exit_status[j]
             /\ j \in active_jobs' <=> j \in active_jobs
    BY <1>1, <1>4, <2>1, <2>2 DEF OutcomeOK, isTerminal
  <2>3. CASE /\ j \notin active_jobs' /\ job_state[j] = "TERMINATING"
             /\ job_state'[j] = IF termination_cause[j] = "kCancelled"
                                THEN "CANCELLED" ELSE "TIMED_OUT"
             /\ exit_status'[j] = wait_status[j]
    <3>1. termination_cause[j] \in {"kCancelled", "kTimedOut"}
      BY <2>3 DEF DaemonInv, TableOK, TerminationCause
    <3> QED
      BY <1>1, <1>4, <2>3, <3>1 DEF OutcomeOK, isTerminal, Absent
  <2>4. CASE /\ j \notin active_jobs' /\ job_state[j] = "RUNNING"
             /\ job_state'[j] = "FAILED"
             /\ exit_status'[j] \in {exit_status[j], wait_status[j]}
    BY <1>1, <1>4, <2>4 DEF OutcomeOK, isTerminal, Absent
  <2>5. CASE /\ j \notin active_jobs' /\ job_state[j] = "RUNNING"
             /\ job_state'[j] = "SUCCEEDED"
             /\ exit_status'[j] = wait_status[j] /\ wait_status[j] = "exit0"
    BY <1>1, <1>4, <2>5 DEF OutcomeOK, isTerminal, Absent
  <2> QED
    BY <2>2, <2>3, <2>4, <2>5, SettlesCases
<1> QED
  BY <1>3, <1>4

\* The steps that change no job's data: they move the thread, the deadlines,
\* the notifications or the slots.
QuietAction ==
    \/ \E j \in JobId : CancelRunning(j) \/ Deadline(j) \/ Notify(j)
    \/ \E jobs \in SUBSET JobId : TimerEvent(jobs)
    \/ SigchldEvent \/ ReapDone \/ DeadlineDone \/ NotifyDone \/ PumpDone
    \/ SignalFindsNoGroup \/ SignalFails \/ Grace \/ GraceFails
    \/ StartedFailed \/ StartedRunning \/ StartedScheduleFails
    \/ AbandonPipes
    \/ UNCHANGED vars

SettlingAction ==
    \/ \E j \in JobId, k \in Pipes : PipeEvent(j, k)
    \/ \E j \in JobId : Reap(j)
    \/ Terminate
    \/ Kill

jobVars == <<job_state, termination_cause, exit_status, active_jobs,
             child, wait_status, signals, kin, tableVars>>

LEMMA QuietKeepsJobs == QuietAction => UNCHANGED jobVars
<1> USE DEF jobVars, monitorVars, processVars, tableVars
<1>1. ASSUME NEW j \in JobId, CancelRunning(j) \/ Deadline(j) \/ Notify(j)
      PROVE  UNCHANGED jobVars
  BY <1>1 DEF CancelRunning, Deadline, Notify
<1>2. ASSUME NEW jobs \in SUBSET JobId, TimerEvent(jobs) PROVE UNCHANGED jobVars
  BY <1>2 DEF TimerEvent
<1>3. CASE SigchldEvent \/ ReapDone \/ DeadlineDone \/ NotifyDone \/ PumpDone
  BY <1>3 DEF SigchldEvent, ReapDone, DeadlineDone, NotifyDone, PumpDone
<1>4. CASE SignalFindsNoGroup \/ SignalFails \/ Grace \/ GraceFails
  BY <1>4 DEF SignalFindsNoGroup, SignalFails, Grace, GraceFails
<1>5. CASE StartedFailed \/ StartedRunning \/ StartedScheduleFails
  BY <1>5 DEF StartedFailed, StartedRunning, StartedScheduleFails
<1>6. CASE AbandonPipes
  BY <1>6 DEF AbandonPipes, closeUnread
<1>7. CASE UNCHANGED vars
  BY <1>7 DEF vars
<1> QED
  BY <1>1, <1>2, <1>3, <1>4, <1>5, <1>6, <1>7 DEF QuietAction

\* Every step, by what it does to the jobs.
LEMMA NextCases ==
    ASSUME [Next]_vars
    PROVE  \/ QuietAction \/ SettlingAction \/ Sigterm \/ Sigkill \/ Environment
           \/ AbandonChild
           \/ \E t \in TimedChoices : Submit(t)
           \/ \E j \in JobId : CancelQueued(j) \/ PumpStart(j)
BY DEF Next, Request, Event, Handler, QuietAction, SettlingAction

LEMMA SettlingSettles ==
    ASSUME DaemonInv, OutcomeInv, SettlingAction
    PROVE  \E j \in JobId : Settles(j)
BY MonitorStepsSettle DEF SettlingAction

-----------------------------------------------------------------------------
\* The jobs' data

\* Only a child that lives gets a new wait status, and its job is not settled.
LEMMA EnvironmentKeepsOutcome ==
    ASSUME DaemonInv, OutcomeInv, Environment, NEW i \in JobId
    PROVE  OutcomeOK(i)'
<1>1. PICK j \in JobId : ProcessStep(j)
  BY DEF Environment
<1>2. /\ UNCHANGED <<monitorVars, timed>> /\ OutcomeOK(i)
      /\ child \in [JobId -> ChildState] /\ wait_status \in [JobId -> WaitStatus]
  BY DEF Environment, tableVars, OutcomeInv, DaemonInv, TypeOK, ProcessesTypeOK
<1>3. /\ signals' = signals
      /\ \/ child'[i] = child[i] /\ wait_status'[i] = wait_status[i]
         \/ child[i] \in {"starting", "running"} /\ child'[i] \in {"running", "zombie"}
  <2> USE <1>2
  <2>1. CASE Exec(j)
    BY <2>1 DEF Exec
  <2>2. CASE StartupFails(j)
    BY <2>2 DEF StartupFails
  <2>3. ASSUME NEW k \in Pipes, Write(j, k) \/ ClosePipe(j, k)
        PROVE  UNCHANGED <<signals, child, wait_status>>
    BY <2>3 DEF Write, ClosePipe
  <2>4. CASE Fork(j) \/ Escape(j)
    BY <2>4 DEF Fork, Escape
  <2>5. ASSUME NEW status, ChildExit(j, status)
        PROVE  /\ signals' = signals
               /\ \/ child'[i] = child[i] /\ wait_status'[i] = wait_status[i]
                  \/ /\ child[i] \in {"starting", "running"}
                     /\ child'[i] \in {"running", "zombie"}
    BY <2>5 DEF ChildExit, ChildAlive
  <2>6. ASSUME NEW kind, KinExit(j, kind) PROVE UNCHANGED <<signals, child, wait_status>>
    BY <2>6 DEF KinExit
  <2> QED
    BY <1>1, <2>1, <2>2, <2>3, <2>4, <2>5, <2>6 DEF ProcessStep
<1>4. CASE child'[i] = child[i] /\ wait_status'[i] = wait_status[i]
  BY <1>2, <1>3, <1>4, SameJobKeepsOutcome DEF SameJob, monitorVars
<1>5. CASE child[i] \in {"starting", "running"} /\ child'[i] \in {"running", "zombie"}
  <2>1. job_state[i] \in {"QUEUED", "RUNNING", "TERMINATING"}
    BY <1>5 DEF DaemonInv, PipesOK, InHand, ControlOK, TableOK
  <2> QED
    BY <1>2, <1>3, <1>5, <2>1 DEF OutcomeOK, isTerminal, Absent, monitorVars
<1> QED
  BY <1>3, <1>4, <1>5

LEMMA SubmitKeepsOutcome ==
    ASSUME DaemonInv, OutcomeInv, NEW t, Submit(t), NEW i \in JobId
    PROVE  OutcomeOK(i)'
<1> DEFINE n == next_job_id
<1>1. /\ n \in JobId /\ job_state[n] = Absent
      /\ job_state' = [job_state EXCEPT ![n] = "QUEUED"]
      /\ timed' = IF t THEN timed \cup {n} ELSE timed
      /\ UNCHANGED <<termination_cause, exit_status, active_jobs, processVars>>
  BY DEF Submit, DaemonInv, TypeOK
<1>2. OutcomeOK(i) /\ job_state \in [JobId -> JobState \cup {Absent}]
  BY DEF OutcomeInv, DaemonInv, TypeOK, MonitorTypeOK
<1> HIDE DEF n
<1>3. CASE i # n
  BY <1>1, <1>2, <1>3, SameJobKeepsOutcome DEF SameJob, processVars
<1>4. CASE i = n
  <2>1. job_state'[i] = "QUEUED" /\ job_state[i] = Absent
    BY <1>1, <1>2, <1>4
  <2> QED
    BY <1>1, <1>2, <2>1 DEF OutcomeOK, isTerminal, Absent, processVars
<1> QED
  BY <1>3, <1>4

LEMMA CancelQueuedKeepsOutcome ==
    ASSUME DaemonInv, OutcomeInv, NEW j \in JobId, CancelQueued(j), NEW i \in JobId
    PROVE  OutcomeOK(i)'
<1>1. /\ job_state[j] = "QUEUED" /\ job_state' = [job_state EXCEPT ![j] = "CANCELLED"]
      /\ UNCHANGED <<termination_cause, exit_status, active_jobs, processVars, timed>>
  BY DEF CancelQueued, transitionJob, tableVars
<1>2. OutcomeOK(i) /\ job_state \in [JobId -> JobState \cup {Absent}]
  BY DEF OutcomeInv, DaemonInv, TypeOK, MonitorTypeOK
<1>3. CASE i # j
  BY <1>1, <1>2, <1>3, SameJobKeepsOutcome DEF SameJob, processVars
<1>4. CASE i = j
  <2>1. job_state'[i] = "CANCELLED" /\ child[i] = "none"
    BY <1>1, <1>2, <1>4 DEF CancelQueued, DaemonInv, PipesOK, InHand, Abandoning
  <2> QED
    BY <1>1, <1>2, <1>4, <2>1 DEF OutcomeOK, isTerminal, Absent, processVars
<1> QED
  BY <1>3, <1>4

\* What startJob does to the job, whether it succeeds, fails or goes on to fail.
LEMMA PumpStartCases ==
    ASSUME DaemonInv, NEW j, PumpStart(j)
    PROVE  /\ j \in JobId /\ job_state[j] = "QUEUED" /\ takeNextJobToStart(j)
           /\ pc = "pump" /\ cur' = j /\ ret' = ret
           /\ UNCHANGED <<termination_cause, exit_status, tableVars, deadlineVars, expired, kin>>
           /\ UNCHANGED <<signals, wait_status>>
           /\ \A i \in JobId \ {j} : SameJob(i)
           /\ \/ /\ job_state' = [job_state EXCEPT ![j] = "RUNNING"]
                 /\ child'[j] = "starting" /\ pc' = "started"
              \/ /\ job_state' = [job_state EXCEPT ![j] = "FAILED"]
                 /\ j \notin active_jobs' /\ pc' = "started"
              \/ /\ UNCHANGED <<job_state, active_jobs>>
                 /\ j \notin active_jobs /\ pc' = "register"
<1>1. j \in JobId /\ takeNextJobToStart(j)
  BY TakeKeepsInv DEF DaemonInv, PumpStart
<1>2. /\ job_state \in [JobId -> JobState \cup {Absent}] /\ child \in [JobId -> ChildState]
      /\ wait_status \in [JobId -> WaitStatus] /\ signals \in [JobId -> Signal]
      /\ j \in active_jobs => job_state[j] \in {"RUNNING", "TERMINATING"}
  BY <1>1 DEF DaemonInv, TypeOK, MonitorTypeOK, ProcessesTypeOK, TableOK
<1>3. UNCHANGED <<tableVars, deadlineVars, expired>> /\ pc = "pump" /\ cur' = j /\ ret' = ret
  BY DEF PumpStart, Call
<1>4. CASE startJobRuns(j) /\ pc' = "started"
  BY <1>1, <1>2, <1>3, <1>4 DEF startJobRuns, SpawnChild, transitionJob, SameJob, tableVars
<1>5. CASE startJobLaunchFails(j) /\ pc' = "started"
  BY <1>1, <1>2, <1>3, <1>5
  DEF startJobLaunchFails, transitionJob, SameJob, tableVars, processVars
<1>6. CASE startJobForks(j) /\ pc' = "register"
  BY <1>1, <1>2, <1>3, <1>6 DEF startJobForks, SpawnChild, SameJob, tableVars
<1> QED
  BY <1>4, <1>5, <1>6 DEF PumpStart, Call

LEMMA PumpStartKeepsOutcome ==
    ASSUME DaemonInv, OutcomeInv, NEW j, PumpStart(j), NEW i \in JobId
    PROVE  OutcomeOK(i)'
<1>1. /\ j \in JobId /\ OutcomeOK(i) /\ job_state[j] = "QUEUED"
      /\ job_state \in [JobId -> JobState \cup {Absent}]
  BY PumpStartCases DEF OutcomeInv, DaemonInv, TypeOK, MonitorTypeOK
<1>2. CASE i # j
  BY <1>1, <1>2, PumpStartCases, SameJobKeepsOutcome
<1>3. CASE i = j
  <2>1. /\ UNCHANGED <<termination_cause, exit_status, signals, wait_status>>
        /\ exit_status[i] = "none" /\ termination_cause[i] = "none" /\ signals[i] = "none"
    BY <1>1, <1>3, PumpStartCases DEF OutcomeOK, isTerminal, Absent
  <2>2. CASE job_state'[j] = "RUNNING" /\ child'[j] = "starting"
    BY <1>3, <2>1, <2>2 DEF OutcomeOK, isTerminal, Absent
  <2>3. CASE job_state'[j] \in {"QUEUED", "FAILED"} /\ j \notin active_jobs'
    BY <1>3, <2>1, <2>3 DEF OutcomeOK, isTerminal, Absent
  <2> QED
    BY <1>1, <2>2, <2>3, PumpStartCases
<1> QED
  BY <1>2, <1>3

\* A job that startJob gives up fails, and no other job changes.
LEMMA AbandonChildCases ==
    ASSUME DaemonInv, AbandonChild
    PROVE  /\ cur \in JobId /\ job_state[cur] = "QUEUED" /\ cur \notin active_jobs
           /\ pc = "abandon" /\ pc' = "started" /\ cur' = cur /\ ret' = ret
           /\ job_state' = [job_state EXCEPT ![cur] = "FAILED"]
           /\ signals'[cur] \in {signals[cur], "SIGKILL"}
           /\ UNCHANGED <<termination_cause, exit_status, active_jobs, kin,
                          schedulerVars, deadlineVars, tableVars, expired>>
           /\ \A i \in JobId \ {cur} : SameJob(i)
<1>1. /\ pc = "abandon" /\ startJobAbandoned(cur) /\ pc' = "started" /\ cur' = cur
      /\ ret' = ret /\ UNCHANGED <<schedulerVars, deadlineVars, tableVars, expired>>
  BY DEF AbandonChild, Goto
<1>2. cur \in JobId /\ job_state[cur] = "QUEUED" /\ cur \notin active_jobs
  BY <1>1 DEF DaemonInv, ControlOK, TableOK, Abandoning
<1>3. /\ job_state \in [JobId -> JobState \cup {Absent}] /\ child \in [JobId -> ChildState]
      /\ wait_status \in [JobId -> WaitStatus] /\ signals \in [JobId -> Signal]
  BY DEF DaemonInv, TypeOK, MonitorTypeOK, ProcessesTypeOK
<1>4. /\ ReapKilled(cur)
      /\ signals' = signals \/ signals' = [signals EXCEPT ![cur] = "SIGKILL"]
      /\ job_state' = [job_state EXCEPT ![cur] = "FAILED"]
      /\ UNCHANGED <<termination_cause, exit_status, active_jobs>>
  BY <1>1 DEF startJobAbandoned, killAndReapChild, killAndReapProcess, transitionJob
<1>5. /\ \E status : wait_status' = [wait_status EXCEPT ![cur] = status]
      /\ child' = [child EXCEPT ![cur] = "reaped"] /\ kin' = kin
  BY <1>4 DEF ReapKilled
<1>6. \A i \in JobId \ {cur} : SameJob(i)
  BY <1>1, <1>2, <1>3, <1>4, <1>5 DEF SameJob, tableVars
<1> QED
  BY <1>1, <1>2, <1>3, <1>4, <1>5, <1>6

LEMMA AbandonChildKeepsOutcome ==
    ASSUME DaemonInv, OutcomeInv, AbandonChild, NEW i \in JobId
    PROVE  OutcomeOK(i)'
<1>1. OutcomeOK(i) /\ job_state \in [JobId -> JobState \cup {Absent}]
  BY DEF OutcomeInv, DaemonInv, TypeOK, MonitorTypeOK
<1>2. CASE i # cur
  BY <1>1, <1>2, AbandonChildCases, SameJobKeepsOutcome
<1>3. CASE i = cur
  <2>1. /\ job_state[i] = "QUEUED" /\ job_state'[i] = "FAILED" /\ i \notin active_jobs'
        /\ UNCHANGED <<termination_cause, exit_status>>
    BY <1>1, <1>3, AbandonChildCases
  <2> QED
    BY <1>1, <2>1 DEF OutcomeOK, isTerminal, Absent
<1> QED
  BY <1>2, <1>3

\* What the two signals do to the job in hand, and to no other.
LEMMA SigtermCases ==
    ASSUME DaemonInv, Sigterm
    PROVE  /\ cur \in JobId /\ job_state[cur] = "RUNNING" /\ ret' = ret /\ cur' = cur
           /\ pc = "sigterm" /\ pc' = "grace" /\ GroupExists(cur)
           /\ job_state' = [job_state EXCEPT ![cur] = "TERMINATING"]
           /\ termination_cause' = [termination_cause EXCEPT ![cur] = Cause]
           /\ signals' = [signals EXCEPT ![cur] = "SIGTERM"]
           /\ UNCHANGED <<exit_status, active_jobs, child, wait_status, kin,
                          schedulerVars, deadlineVars, tableVars, expired>>
BY DEF Sigterm, requestTerminateSends, SignalGroup, transitionJob, Goto, DaemonInv, ControlOK

LEMMA SigkillCases ==
    ASSUME DaemonInv, Sigkill
    PROVE  /\ cur \in JobId /\ job_state[cur] = "TERMINATING"
           /\ pc = "sigkill" /\ pc' = ret /\ ret' = "loop"
           /\ signals' = [signals EXCEPT ![cur] = "SIGKILL"]
           /\ UNCHANGED <<job_state, termination_cause, exit_status, active_jobs, child,
                          wait_status, kin, schedulerVars, deadlineVars, tableVars, expired>>
BY DEF Sigkill, forceKillSends, SignalGroup, Return, monitorVars, DaemonInv, ControlOK

LEMMA SignalsKeepOutcome ==
    ASSUME DaemonInv, OutcomeInv, Sigterm \/ Sigkill, NEW i \in JobId
    PROVE  OutcomeOK(i)'
<1>1. /\ OutcomeOK(i) /\ job_state \in [JobId -> JobState \cup {Absent}]
      /\ termination_cause \in [JobId -> TerminationCause \cup {"none"}]
      /\ signals \in [JobId -> Signal]
  BY DEF OutcomeInv, DaemonInv, TypeOK, MonitorTypeOK, ProcessesTypeOK
<1>2. CASE Sigterm
  <2>1. /\ i # cur => SameJob(i)
        /\ i = cur => /\ job_state'[i] = "TERMINATING" /\ termination_cause'[i] = Cause
                      /\ signals'[i] = "SIGTERM"
    BY <1>1, <1>2, SigtermCases DEF SameJob, tableVars
  <2>2. i = cur /\ Cause = "kTimedOut" => i \in timed
    BY <1>2, SigtermCases DEF OutcomeInv, DeadlinesOK, Cause
  <2>3. CASE i # cur
    BY <1>1, <2>1, <2>3, SameJobKeepsOutcome
  <2>4. CASE i = cur
    BY <1>1, <1>2, <2>1, <2>2, <2>4, SigtermCases DEF OutcomeOK, isTerminal, Absent, tableVars
  <2> QED
    BY <2>3, <2>4
<1>3. CASE Sigkill
  <2>1. /\ i # cur => SameJob(i)
        /\ i = cur => signals'[i] = "SIGKILL"
    BY <1>1, <1>3, SigkillCases DEF SameJob, tableVars
  <2>2. CASE i # cur
    BY <1>1, <2>1, <2>2, SameJobKeepsOutcome
  <2>3. CASE i = cur
    BY <1>1, <1>3, <2>1, <2>3, SigkillCases DEF OutcomeOK, isTerminal, Absent, tableVars
  <2> QED
    BY <2>2, <2>3
<1> QED
  BY <1>2, <1>3

LEMMA NextKeepsOutcome ==
    ASSUME DaemonInv, OutcomeInv, [Next]_vars, NEW i \in JobId
    PROVE  OutcomeOK(i)'
<1>1. CASE QuietAction
  BY <1>1, QuietKeepsJobs, SameJobKeepsOutcome DEF OutcomeInv, SameJob, jobVars, tableVars
<1>2. CASE SettlingAction
  BY <1>2, SettlingSettles, SettlesKeepsOutcome
<1>3. CASE Sigterm \/ Sigkill
  BY <1>3, SignalsKeepOutcome
<1>4. CASE Environment
  BY <1>4, EnvironmentKeepsOutcome
<1>5. ASSUME NEW t, Submit(t) PROVE OutcomeOK(i)'
  BY <1>5, SubmitKeepsOutcome
<1>6. ASSUME NEW j \in JobId, CancelQueued(j) \/ PumpStart(j) PROVE OutcomeOK(i)'
  BY <1>6, CancelQueuedKeepsOutcome, PumpStartKeepsOutcome
<1>7. CASE AbandonChild
  BY <1>7, AbandonChildKeepsOutcome
<1> QED
  BY <1>1, <1>2, <1>3, <1>4, <1>5, <1>6, <1>7, NextCases

-----------------------------------------------------------------------------
\* Ids and deadlines

LEMMA NextKeepsIds ==
    ASSUME DaemonInv, OutcomeInv, [Next]_vars
    PROVE  IdsOK'
<1>1. job_state \in [JobId -> JobState \cup {Absent}] /\ IdsOK
  BY DEF DaemonInv, TypeOK, MonitorTypeOK, OutcomeInv
<1>2. ASSUME next_job_id' = next_job_id,
             \A i \in JobId : job_state'[i] = Absent => job_state[i] = Absent
      PROVE  IdsOK'
  BY <1>1, <1>2 DEF IdsOK
<1>3. CASE QuietAction
  BY <1>2, <1>3, QuietKeepsJobs DEF jobVars, tableVars
<1>4. ASSUME NEW j \in JobId, Settles(j) PROVE IdsOK'
  <2>1. \A i \in JobId : job_state'[i] = Absent => job_state[i] = Absent
    BY <1>4, SettlesCases DEF Absent
  <2> QED
    BY <1>2, <1>4, <2>1 DEF Settles, tableVars
<1>5. CASE Sigterm \/ Sigkill
  <2>1. \A i \in JobId : job_state'[i] = Absent => job_state[i] = Absent
    BY <1>1, <1>5, SigtermCases, SigkillCases DEF Absent
  <2> QED
    BY <1>2, <1>5, <2>1, SigtermCases, SigkillCases DEF tableVars
<1>6. CASE Environment
  BY <1>2, <1>6 DEF Environment, monitorVars, tableVars
<1>7. ASSUME NEW t, Submit(t) PROVE IdsOK'
  <2> DEFINE n == next_job_id
  <2>1. /\ n \in JobId /\ job_state' = [job_state EXCEPT ![n] = "QUEUED"]
        /\ next_job_id' = (n + 1) % JobIdSpace
    BY <1>7 DEF Submit, DaemonInv, TypeOK
  <2>2. next_job_id' # 0 => next_job_id' = n + 1
    BY <2>1, NextJobIdProperties
  <2> HIDE DEF n
  <2>3. ASSUME NEW i \in JobId, job_state'[i] = Absent
        PROVE  next_job_id' # 0 /\ i >= next_job_id'
    <3>1. i # n /\ job_state[i] = Absent
      BY <1>1, <2>1, <2>3 DEF Absent
    <3>2. i >= n
      BY <1>1, <3>1 DEF IdsOK, n
    <3>3. i \in Nat /\ n \in Nat /\ i < JobIdSpace /\ JobIdSpace \in Nat
      BY <2>1, JobIdSpaceAssumption DEF JobId
    <3>4. n + 1 < JobIdSpace \/ n + 1 = JobIdSpace
      BY <3>1, <3>2, <3>3
    <3>5. n + 1 < JobIdSpace /\ i >= n + 1
      BY <3>1, <3>2, <3>3, <3>4
    <3>6. (n + 1) % JobIdSpace = n + 1
      BY <3>3, <3>5
    <3> QED
      BY <2>1, <3>3, <3>5, <3>6
  <2> QED
    BY <2>3 DEF IdsOK
<1>8. ASSUME NEW j \in JobId, CancelQueued(j) PROVE IdsOK'
  <2>1. \A i \in JobId : job_state'[i] = Absent => job_state[i] = Absent
    BY <1>1, <1>8 DEF CancelQueued, transitionJob, Absent
  <2> QED
    BY <1>2, <1>8, <2>1 DEF CancelQueued, tableVars
<1>9. ASSUME NEW j \in JobId, PumpStart(j) PROVE IdsOK'
  <2>1. \A i \in JobId : job_state'[i] = Absent => job_state[i] = Absent
    BY <1>1, <1>9, PumpStartCases DEF Absent
  <2> QED
    BY <1>2, <1>9, <2>1, PumpStartCases DEF tableVars
<1>10. CASE AbandonChild
  <2>1. \A i \in JobId : job_state'[i] = Absent => job_state[i] = Absent
    BY <1>1, <1>10, AbandonChildCases DEF Absent
  <2> QED
    BY <1>2, <1>10, <2>1, AbandonChildCases DEF tableVars
<1> QED
  BY <1>3, <1>4, <1>5, <1>6, <1>7, <1>8, <1>9, <1>10, NextCases, SettlingSettles

LEMMA QuietKeepsDeadlines ==
    ASSUME DaemonInv, OutcomeInv, QuietAction
    PROVE  DeadlinesOK'
<1> USE DEF DeadlinesOK, InTermination, Goto, Call, Return, Throw
<1>1. /\ DeadlinesOK /\ TypeOK /\ UNCHANGED <<job_state, tableVars, timed>>
  BY QuietKeepsJobs DEF OutcomeInv, DaemonInv, jobVars, tableVars
<1>2. ASSUME NEW j \in JobId, CancelRunning(j) PROVE DeadlinesOK'
  BY <1>1, <1>2 DEF CancelRunning, deadlineVars
<1>3. ASSUME NEW j \in JobId, Deadline(j) PROVE DeadlinesOK'
  BY <1>1, <1>3 DEF Deadline, deadlineVars
<1>4. ASSUME NEW j \in JobId, Notify(j) PROVE DeadlinesOK'
  BY <1>1, <1>4 DEF Notify, cancel
<1>5. ASSUME NEW jobs \in SUBSET JobId, TimerEvent(jobs) PROVE DeadlinesOK'
  BY <1>1, <1>5 DEF TimerEvent, handleReadable
<1>6. CASE SigchldEvent \/ ReapDone
  BY <1>1, <1>6 DEF SigchldEvent, ReapDone, deadlineVars
<1>7. CASE DeadlineDone \/ NotifyDone
  BY <1>1, <1>7 DEF DeadlineDone, NotifyDone, deadlineVars
<1>8. CASE PumpDone
  BY <1>1, <1>8 DEF PumpDone, deadlineVars, TypeOK
<1>9. CASE SignalFindsNoGroup \/ SignalFails
  BY <1>1, <1>9 DEF SignalFindsNoGroup, SignalFails, deadlineVars, TypeOK
<1>10. CASE Grace
  <2>1. job_state[cur] = "TERMINATING"
    BY <1>10 DEF Grace, DaemonInv, ControlOK
  <2> QED
    BY <1>1, <1>10, <2>1 DEF Grace, schedule, TypeOK
<1>11. CASE GraceFails
  BY <1>1, <1>11 DEF GraceFails, cancel
<1>12. CASE StartedFailed
  BY <1>1, <1>12 DEF StartedFailed, deadlineVars
<1>13. CASE StartedRunning
  BY <1>1, <1>13 DEF StartedRunning, schedule, deadlineVars
<1>14. CASE StartedScheduleFails
  BY <1>1, <1>14 DEF StartedScheduleFails
<1>15. CASE AbandonPipes
  BY <1>1, <1>15 DEF AbandonPipes, deadlineVars
<1>16. CASE UNCHANGED vars
  BY <1>1, <1>16 DEF vars, deadlineVars, controlVars
<1> QED
  BY <1>2, <1>3, <1>4, <1>5, <1>6, <1>7, <1>8, <1>9, <1>10, <1>11, <1>12, <1>13,
     <1>14, <1>15, <1>16 DEF QuietAction

LEMMA NextKeepsDeadlines ==
    ASSUME DaemonInv, OutcomeInv, [Next]_vars
    PROVE  DeadlinesOK'
<1> USE DEF DeadlinesOK, InTermination
<1>1. /\ DeadlinesOK /\ job_state \in [JobId -> JobState \cup {Absent}]
      /\ ret \in {"loop", "deadline", "notify"}
      /\ active_deadlines \cup expired \subseteq JobId
  BY DEF OutcomeInv, DaemonInv, TypeOK, MonitorTypeOK
<1>2. ASSUME NEW j \in JobId, Settles(j)
      PROVE  /\ UNCHANGED <<deadlineVars, expired, timed>>
             /\ \A i \in JobId : job_state'[i] = "RUNNING" => job_state[i] = "RUNNING"
  BY <1>2, SettlesCases DEF Settles, tableVars
<1>3. ASSUME NEW j \in JobId, NEW k \in Pipes, PipeEvent(j, k) PROVE DeadlinesOK'
  <2>1. Settles(j) /\ pc = "loop" /\ pc' = "notify"
    BY <1>3, MonitorStepsSettle DEF PipeEvent, Goto
  <2> QED
    BY <1>1, <1>2, <2>1 DEF deadlineVars
<1>4. ASSUME NEW j \in JobId, Reap(j) PROVE DeadlinesOK'
  <2>1. Settles(j) /\ pc = "reap" /\ pc' = "reap"
    BY <1>4, MonitorStepsSettle DEF Reap, Goto
  <2> QED
    BY <1>1, <1>2, <2>1 DEF deadlineVars
<1>5. CASE Terminate \/ Kill
  <2>1. cur \in JobId /\ Settles(cur)
    BY <1>5, MonitorStepsSettle
  <2>2. \/ pc = "terminate" /\ pc' = "sigterm" /\ cur' = cur /\ ret' = ret
        \/ pc = "kill" /\ pc' = "sigkill" /\ cur' = cur /\ ret' = ret
        \/ pc \in {"terminate", "kill"} /\ pc' = ret /\ ret' = "loop"
    BY <1>5 DEF Terminate, Kill, Goto, Return
  <2> QED
    BY <1>1, <1>2, <2>1, <2>2 DEF deadlineVars
<1>6. CASE Sigterm
  <2>1. \A i \in JobId : job_state'[i] = "RUNNING" => job_state[i] = "RUNNING"
    BY <1>1, <1>6, SigtermCases
  <2> QED
    BY <1>1, <1>6, <2>1, SigtermCases DEF deadlineVars, tableVars
<1>7. CASE Sigkill
  BY <1>1, <1>7, SigkillCases DEF deadlineVars, tableVars
<1>8. CASE Environment
  BY <1>1, <1>8 DEF Environment, deadlineVars, monitorVars, tableVars, controlVars
<1>9. ASSUME NEW t, Submit(t) PROVE DeadlinesOK'
  <2>1. /\ UNCHANGED <<deadlineVars, expired>> /\ timed \subseteq timed'
        /\ pc = "loop" /\ pc' = "pump" /\ next_job_id \in JobId
        /\ job_state' = [job_state EXCEPT ![next_job_id] = "QUEUED"]
    BY <1>9 DEF Submit, Call, DaemonInv, TypeOK
  <2>2. \A i \in JobId : job_state'[i] = "RUNNING" => job_state[i] = "RUNNING"
    BY <1>1, <2>1
  <2> QED
    BY <1>1, <2>1, <2>2 DEF deadlineVars
<1>10. ASSUME NEW j \in JobId, CancelQueued(j) PROVE DeadlinesOK'
  <2>1. \A i \in JobId : job_state'[i] = "RUNNING" => job_state[i] = "RUNNING"
    BY <1>1, <1>10 DEF CancelQueued, transitionJob
  <2> QED
    BY <1>1, <1>10, <2>1 DEF CancelQueued, deadlineVars, tableVars, controlVars
<1>11. ASSUME NEW j \in JobId, PumpStart(j) PROVE DeadlinesOK'
  <2>1. /\ UNCHANGED <<deadlineVars, expired, timed>> /\ job_state[j] = "QUEUED"
        /\ \A i \in JobId \ {j} : job_state'[i] = job_state[i]
        /\ pc = "pump" /\ pc' \in {"started", "register"}
    BY <1>11, PumpStartCases DEF tableVars, SameJob
  <2>2. j \notin active_deadlines \cup expired
    BY <2>1 DEF DaemonInv, TableOK
  <2> QED
    BY <1>1, <2>1, <2>2 DEF deadlineVars
<1>12. CASE QuietAction
  BY <1>12, QuietKeepsDeadlines
<1>13. CASE AbandonChild
  <2>1. \A i \in JobId : job_state'[i] = "RUNNING" => job_state[i] = "RUNNING"
    BY <1>1, <1>13, AbandonChildCases
  <2> QED
    BY <1>1, <1>13, <2>1, AbandonChildCases DEF deadlineVars, tableVars
<1> QED
  BY <1>3, <1>4, <1>5, <1>6, <1>7, <1>8, <1>9, <1>10, <1>11, <1>12, <1>13, NextCases
  DEF SettlingAction

-----------------------------------------------------------------------------

(***************************************************************************)
(* What is known of the jobs, the deadlines and the ids in every state.    *)
(***************************************************************************)
THEOREM OutcomeInvariance == Spec => []OutcomeInv
<1>1. Init => OutcomeInv
  BY DEF Init, DeadlinesInit, ProcessesInit, MonitorInit, OutcomeInv, OutcomeOK, DeadlinesOK,
         IdsOK, Absent, isTerminal, JobId, InTermination
<1>2. DaemonInv /\ OutcomeInv /\ [Next]_vars => OutcomeInv'
  BY NextKeepsOutcome, NextKeepsDeadlines, NextKeepsIds DEF OutcomeInv
<1> QED
  BY <1>1, <1>2, DaemonInvariance, PTL DEF Spec

(***************************************************************************)
(* The final state of a job, its cause and its exit status say what really *)
(* happened to it, whatever raced with what and whichever call failed.     *)
(***************************************************************************)
THEOREM OutcomesAreTrue == Spec => []OutcomeIsTrue
<1>1. OutcomeInv => OutcomeIsTrue
  <2> SUFFICES ASSUME OutcomeInv, NEW j \in JobId
               PROVE  /\ job_state[j] = "SUCCEEDED" =>
                            /\ wait_status[j] = "exit0" /\ exit_status[j] = "exit0"
                            /\ termination_cause[j] = "none"
                      /\ job_state[j] = "FAILED" => termination_cause[j] = "none"
                      /\ job_state[j] = "CANCELLED" =>
                            \/ child[j] = "none"
                            \/ termination_cause[j] = "kCancelled" /\ signals[j] # "none"
                      /\ job_state[j] = "TIMED_OUT" =>
                            /\ termination_cause[j] = "kTimedOut" /\ signals[j] # "none"
                            /\ j \in timed
                      /\ exit_status[j] \in {"none", wait_status[j]}
    BY DEF OutcomeIsTrue
  <2> QED
    BY DEF OutcomeInv, OutcomeOK
<1> QED
  BY <1>1, OutcomeInvariance, PTL

-----------------------------------------------------------------------------
\* The service

(***************************************************************************)
(* The daemon implements JobService, whatever its jobs' processes do and   *)
(* whichever system calls fail: every step of Runnerd is a step of the     *)
(* service or changes nothing that clients see.                            *)
(***************************************************************************)

\* The service's copies of the definitions of Job are those of the daemon.
LEMMA SameNames ==
    /\ Service!JobId = JobId
    /\ Service!Absent = Absent
    /\ Service!TerminationCause = TerminationCause
BY DEF Service!JobId, JobId, Service!Absent, Absent, Service!TerminationCause,
       TerminationCause

\* The queue clients see: that of the scheduler, outside of a start given up.
LEMMA QueueSeen ==
    /\ pc \notin {"register", "abandon"} => QueuedJobs = waiting_jobs
    /\ pc' \notin {"register", "abandon"} => QueuedJobs' = waiting_jobs'
BY DEF QueuedJobs, Abandoning

\* SUBMIT: the ids that are not given yet are those from next_job_id on.
LEMMA SubmitRefines ==
    ASSUME DaemonInv, OutcomeInv, NEW t, Submit(t)
    PROVE  Service!ServiceNext
<1>1. PICK n \in JobId : n = next_job_id
  BY DEF Submit, DaemonInv, TypeOK
<1>2. /\ QueuedJobs' = Append(QueuedJobs, n)
      /\ job_state' = [job_state EXCEPT ![n] = "QUEUED"]
      /\ UNCHANGED termination_cause
  BY <1>1, QueueSeen DEF Submit, enqueue, Call
<1>3. n \in Nat /\ n >= 1 /\ n # 0 /\ JobIdSpace \in Nat
  BY JobIdSpaceAssumption DEF JobId
<1>4. \A j \in JobId : job_state[j] = Absent <=> j >= n
  BY <1>1, <1>3 DEF DaemonInv, TableOK, OutcomeInv, IdsOK
<1>5. {j \in JobId : job_state[j] \in {Absent}} = {j \in JobId : j >= n}
  BY <1>4
<1>6. {j \in JobId : j >= n} = n .. (JobIdSpace - 1)
  BY <1>3 DEF JobId
<1>7. Service!InState({Service!Absent}) = n .. (JobIdSpace - 1)
  BY <1>5, <1>6, SameNames DEF Service!InState
<1>8. Service!Submit(n)
  BY <1>2, <1>7 DEF Service!Submit
<1> QED
  BY <1>8, SameNames DEF Service!ServiceNext

\* The jobs with a process occupy slots, so one slot is free when j is given one.
LEMMA LiveBelow ==
    ASSUME DaemonInv, NEW slots \in SUBSET JobId, Service!Live \subseteq slots,
           Cardinality(slots) < max_running
    PROVE  Service!Cardinality(Service!Live) < max_running
<1>1. Service!Live \in SUBSET JobId
  OBVIOUS
<1>2. /\ IsFiniteSet(slots)
      /\ Cardinality(slots) \in Nat /\ Cardinality(Service!Live) \in Nat
  BY <1>1, JobSetsAreFinite
<1>3. Cardinality(Service!Live) <= Cardinality(slots)
  BY <1>2, FS_Subset
<1>4. Cardinality(Service!Live) < max_running
  BY <1>2, <1>3, MaxRunningAssumption
<1> QED
  BY <1>4 DEF Service!Cardinality, Cardinality

\* A start.  If it fails past fork, clients see the job QUEUED until it is given up.
LEMMA StartRefines ==
    ASSUME DaemonInv, NEW j \in JobId, PumpStart(j)
    PROVE  Service!ServiceNext \/ UNCHANGED Service!serviceVars
<1>1. /\ job_state[j] = "QUEUED" /\ UNCHANGED termination_cause
      /\ waiting_jobs # <<>> /\ j = Head(waiting_jobs)
      /\ waiting_jobs' = Tail(waiting_jobs) /\ SlotFree
      /\ pc = "pump" /\ cur' = j
  BY PumpStartCases DEF takeNextJobToStart
<1>2. QueuedJobs = waiting_jobs /\ waiting_jobs \in Seq(JobId)
  BY <1>1, QueueSeen DEF DaemonInv, TypeOK, SchedulerTypeOK
<1>3. CASE pc' = "started" /\ \E s \in {"RUNNING", "FAILED"} :
                                 job_state' = [job_state EXCEPT ![j] = s]
  <2>1. PICK s \in {"RUNNING", "FAILED"} : job_state' = [job_state EXCEPT ![j] = s]
    BY <1>3
  <2>2. QueuedJobs' = Tail(QueuedJobs)
    BY <1>1, <1>2, <1>3, QueueSeen
  <2>3. Service!Live \subseteq active_job_ids /\ active_job_ids \in SUBSET JobId
    BY SameNames DEF Service!Live, Service!InState, DaemonInv, SlotsAccountedFor, JobsIn,
       TypeOK, SchedulerTypeOK
  <2>4. Service!Cardinality(Service!Live) < max_running
    BY <1>1, <2>3, LiveBelow DEF SlotFree
  <2>5. Service!Become(j, s)
    BY <1>1, <2>1 DEF Service!Become, Service!canTransition, Service!transitionJob
  <2>6. Service!Become(j, "RUNNING") \/ Service!Become(j, "FAILED")
    BY <2>5
  <2>7. Service!Start(j)
    BY <1>1, <1>2, <2>2, <2>4, <2>6 DEF Service!Start
  <2> QED
    BY <2>7, SameNames DEF Service!ServiceNext
<1>4. CASE pc' = "register" /\ UNCHANGED job_state
  <2>1. QueuedJobs' = <<Head(waiting_jobs)>> \o Tail(waiting_jobs)
    BY <1>1, <1>4 DEF QueuedJobs, Abandoning
  <2>2. <<Head(waiting_jobs)>> \o Tail(waiting_jobs) = waiting_jobs
    BY <1>1, <1>2
  <2> QED
    BY <1>1, <1>2, <1>4, <2>1, <2>2 DEF Service!serviceVars
<1> QED
  BY <1>3, <1>4, PumpStartCases

\* A start given up: the slot of the job is its own, so one more was free.
LEMMA AbandonRefines ==
    ASSUME DaemonInv, AbandonChild
    PROVE  Service!ServiceNext
<1>1. PICK j \in JobId : j = cur
  BY AbandonChildCases
<1>2. /\ job_state[j] = "QUEUED" /\ UNCHANGED <<termination_cause, waiting_jobs>>
      /\ job_state' = [job_state EXCEPT ![j] = "FAILED"]
      /\ pc = "abandon" /\ pc' = "started"
  BY <1>1, AbandonChildCases DEF schedulerVars
<1>3. QueuedJobs = <<j>> \o waiting_jobs /\ QueuedJobs' = waiting_jobs
  BY <1>1, <1>2, QueueSeen DEF QueuedJobs, Abandoning
<1>4. waiting_jobs \in Seq(JobId)
  BY DEF DaemonInv, TypeOK, SchedulerTypeOK
<1>5. QueuedJobs # <<>> /\ j = Head(QueuedJobs) /\ QueuedJobs' = Tail(QueuedJobs)
  BY <1>3, <1>4
<1> DEFINE slots == active_job_ids \ {j}
<1>6. /\ Service!Live \subseteq slots /\ active_job_ids \in SUBSET JobId
      /\ j \in active_job_ids
  BY <1>1, <1>2, SameNames DEF Service!Live, Service!InState, DaemonInv,
     SlotsAccountedFor, JobsIn, Abandoning, TypeOK, SchedulerTypeOK
<1>7. Cardinality(slots) < max_running
  <2>1. IsFiniteSet(active_job_ids) /\ Cardinality(active_job_ids) \in Nat
    BY <1>6, JobSetsAreFinite
  <2>2. Cardinality(slots) = Cardinality(active_job_ids) - 1
    BY <1>6, <2>1, FS_RemoveElement
  <2>3. Cardinality(active_job_ids) <= max_running
    BY DEF DaemonInv, SchedulerInv, NoMoreThanMaxRunning
  <2> HIDE DEF slots
  <2> QED
    BY <2>1, <2>2, <2>3, MaxRunningAssumption
<1>8. Service!Cardinality(Service!Live) < max_running
  BY <1>6, <1>7, LiveBelow
<1>9. Service!Become(j, "FAILED")
  BY <1>2 DEF Service!Become, Service!canTransition, Service!transitionJob
<1>10. Service!Start(j)
  BY <1>2, <1>5, <1>8, <1>9 DEF Service!Start
<1> QED
  BY <1>10, SameNames DEF Service!ServiceNext

\* CANCEL of a waiting job: erase takes its only entry out of the queue.
LEMMA CancelQueuedRefines ==
    ASSUME DaemonInv, NEW j \in JobId, CancelQueued(j)
    PROVE  Service!ServiceNext
<1>1. /\ job_state[j] = "QUEUED" /\ UNCHANGED termination_cause
      /\ job_state' = [job_state EXCEPT ![j] = "CANCELLED"] /\ cancelQueuedJob(j)
      /\ QueuedJobs = waiting_jobs /\ QueuedJobs' = waiting_jobs'
  BY QueueSeen DEF CancelQueued, transitionJob, controlVars
<1>2. PICK i \in DOMAIN waiting_jobs :
         waiting_jobs[i] = j /\ waiting_jobs' = RemoveAt(waiting_jobs, i)
  BY <1>1 DEF cancelQueuedJob
<1>3. waiting_jobs' = SubSeq(waiting_jobs, 1, i - 1)
                         \o SubSeq(waiting_jobs, i + 1, Len(waiting_jobs))
  BY <1>2 DEF RemoveAt
<1>4. Service!Become(j, "CANCELLED")
  BY <1>1 DEF Service!Become, Service!canTransition, Service!transitionJob
<1>5. Service!CancelQueued(j)
  BY <1>1, <1>2, <1>3, <1>4 DEF Service!CancelQueued
<1> QED
  BY <1>5, SameNames DEF Service!ServiceNext

\* SIGTERM: the job was RUNNING, so this is the first request to end it.
LEMMA SigtermRefines ==
    ASSUME DaemonInv, Sigterm
    PROVE  Service!ServiceNext
<1>1. PICK j \in JobId : j = cur
  BY SigtermCases
<1>2. PICK cause \in TerminationCause : cause = Cause
  BY DEF Cause, TerminationCause
<1>3. /\ job_state[j] = "RUNNING" /\ UNCHANGED QueuedJobs
      /\ job_state' = [job_state EXCEPT ![j] = "TERMINATING"]
      /\ termination_cause' = [termination_cause EXCEPT ![j] = cause]
  BY <1>1, <1>2, SigtermCases, QueueSeen DEF schedulerVars
<1>4. Service!Become(j, "TERMINATING")
  BY <1>3 DEF Service!Become, Service!canTransition, Service!transitionJob
<1>5. Service!Terminate(j, cause)
  BY <1>3, <1>4 DEF Service!Terminate
<1> QED
  BY <1>5, SameNames DEF Service!ServiceNext

\* A job is settled by its cause, or the step is not seen.
LEMMA SettlesRefines ==
    ASSUME DaemonInv, NEW j \in JobId, Settles(j),
           pc \notin {"register", "abandon"}, pc' \notin {"register", "abandon"}
    PROVE  Service!ServiceNext \/ UNCHANGED Service!serviceVars
<1>1. /\ UNCHANGED <<termination_cause, QueuedJobs>>
      /\ job_state \in [JobId -> JobState \cup {Absent}]
      /\ j \in active_jobs => job_state[j] \in {"RUNNING", "TERMINATING"}
      /\ job_state[j] = "TERMINATING" => termination_cause[j] \in TerminationCause
  BY SettlesCases, QueueSeen
  DEF Settles, schedulerVars, DaemonInv, TypeOK, MonitorTypeOK, TableOK
<1> DEFINE settled == /\ j \in active_jobs /\ child'[j] = "reaped"
                      /\ \A k \in Pipes : <<j, k>> \notin tracked_fds'
<1>2. CASE ~settled
  <2>1. job_state' = job_state
    BY <1>2 DEF Settles, tryFinalizeJob
  <2> QED
    BY <1>1, <2>1 DEF Service!serviceVars
<1>3. CASE settled
  <2>1. PICK s : s = FinalState(j)
    OBVIOUS
  <2>2. job_state' = [job_state EXCEPT ![j] = s]
    BY <1>3, <2>1 DEF Settles, tryFinalizeJob, transitionJob
  <2>3. \/ job_state[j] = "RUNNING" /\ s \in {"SUCCEEDED", "FAILED"}
        \/ job_state[j] = "TERMINATING" /\ s = "CANCELLED" /\ termination_cause[j] = "kCancelled"
        \/ job_state[j] = "TERMINATING" /\ s = "TIMED_OUT" /\ termination_cause[j] = "kTimedOut"
    BY <1>1, <1>3, <2>1 DEF FinalState, TerminationCause
  <2>4. Service!Become(j, s)
    BY <2>2, <2>3 DEF Service!Become, Service!canTransition, Service!transitionJob
  <2>5. Service!Finish(j)
    BY <1>1, <2>3, <2>4 DEF Service!Finish
  <2> QED
    BY <2>5, SameNames DEF Service!ServiceNext
<1> QED
  BY <1>2, <1>3

\* All other steps are the daemon's own affair.
LEMMA QuietStutters ==
    ASSUME QuietAction \/ Sigkill \/ Environment, DaemonInv
    PROVE  UNCHANGED Service!serviceVars
<1> USE DEF Service!serviceVars, schedulerVars
<1>1. UNCHANGED <<job_state, termination_cause>>
  BY QuietKeepsJobs, SigkillCases DEF jobVars, Environment, monitorVars
<1>2. waiting_jobs' = waiting_jobs
  BY SigkillCases DEF QuietAction, CancelRunning, Deadline, Notify, TimerEvent,
     SigchldEvent, ReapDone, DeadlineDone, NotifyDone, PumpDone, SignalFindsNoGroup,
     SignalFails, Grace, GraceFails, StartedFailed, StartedRunning, StartedScheduleFails,
     AbandonPipes, Environment, vars, onJobReachedTerminalState
<1>3. CASE UNCHANGED <<pc, cur>> \/ AbandonPipes
  <2>1. QueuedJobs' = QueuedJobs
    BY <1>2, <1>3 DEF AbandonPipes, Goto, QueuedJobs, Abandoning
  <2> QED
    BY <1>1, <2>1
<1>4. CASE ~(UNCHANGED <<pc, cur>> \/ AbandonPipes)
  <2>1. ret \in {"loop", "deadline", "notify"}
    BY DEF DaemonInv, TypeOK
  <2>2. pc \notin {"register", "abandon"} /\ pc' \notin {"register", "abandon"}
    <3> USE <1>4, <2>1 DEF Goto, Call, Return, Throw
    <3>1. CASE QuietAction
      BY <3>1 DEF QuietAction, CancelRunning, Deadline, Notify, TimerEvent, SigchldEvent,
         ReapDone, DeadlineDone, NotifyDone, PumpDone, SignalFindsNoGroup, SignalFails,
         Grace, GraceFails, StartedFailed, StartedRunning, StartedScheduleFails, vars,
         controlVars
    <3>2. CASE Sigkill
      BY <3>2 DEF Sigkill
    <3>3. CASE Environment
      BY <3>3 DEF Environment, controlVars
    <3> QED
      BY <3>1, <3>2, <3>3
  <2>3. QueuedJobs' = QueuedJobs
    BY <1>2, <2>2, QueueSeen
  <2> QED
    BY <1>1, <2>3
<1> QED
  BY <1>3, <1>4

(***************************************************************************)
(* The daemon implements JobService for every JobIdSpace and max_running   *)
(* and every fault: clients see ids in order, FIFO starts, at most         *)
(* max_running jobs with a process, legal transitions only, one cause of   *)
(* termination, and one end.                                               *)
(***************************************************************************)
THEOREM DaemonImplementsJobService == Spec => ImplementsJobService
<1>1. Init => Service!ServiceInit
  BY SameNames, QueueSeen DEF Init, SchedulerInit, MonitorInit, Service!ServiceInit
<1>2. DaemonInv /\ OutcomeInv /\ [Next]_vars => [Service!ServiceNext]_(Service!serviceVars)
  <2> SUFFICES ASSUME DaemonInv, OutcomeInv, [Next]_vars
               PROVE  Service!ServiceNext \/ UNCHANGED Service!serviceVars
    OBVIOUS
  <2>1. CASE QuietAction \/ Sigkill \/ Environment
    BY <2>1, QuietStutters
  <2>2. CASE SettlingAction
    <3>1. pc \notin {"register", "abandon"} /\ pc' \notin {"register", "abandon"}
      <4>1. ret \in {"loop", "deadline", "notify"}
        BY DEF DaemonInv, TypeOK
      <4> QED
        BY <2>2, <4>1 DEF SettlingAction, PipeEvent, Reap, Terminate, Kill, Goto, Return
    <3> QED
      BY <2>2, <3>1, SettlingSettles, SettlesRefines
  <2>3. CASE Sigterm
    BY <2>3, SigtermRefines
  <2>4. ASSUME NEW t, Submit(t) PROVE Service!ServiceNext
    BY <2>4, SubmitRefines
  <2>5. ASSUME NEW j \in JobId, CancelQueued(j) PROVE Service!ServiceNext
    BY <2>5, CancelQueuedRefines
  <2>6. ASSUME NEW j \in JobId, PumpStart(j)
        PROVE  Service!ServiceNext \/ UNCHANGED Service!serviceVars
    BY <2>6, StartRefines
  <2>7. CASE AbandonChild
    BY <2>7, AbandonRefines
  <2> QED
    BY <2>1, <2>2, <2>3, <2>4, <2>5, <2>6, <2>7, NextCases
<1> QED
  BY <1>1, <1>2, DaemonInvariance, OutcomeInvariance, PTL
  DEF Spec, ImplementsJobService, Service!ServiceSpec

-----------------------------------------------------------------------------
\* Terminations, timeouts and slots

(***************************************************************************)
(* How the daemon ends its jobs and fills its slots: signals escalate in   *)
(* order, a termination and a timeout are always watched, and no slot is   *)
(* left idle.  The last three need some system calls to succeed: each      *)
(* theorem names the faults it excludes.                                   *)
(***************************************************************************)

\* No process of the job is left that a signal could reach.
Gone(j) == child[j] = "reaped" /\ "group" \notin kin[j]

(***************************************************************************)
(* TimedJobsAreGuarded made inductive: a CANCEL whose signal fails goes    *)
(* back to epoll_wait, so the deadline has to be there still.              *)
(***************************************************************************)
GuardInv ==
    /\ TimedJobsAreGuarded
    /\ pc \in {"terminate", "sigterm"} /\ ret = "loop" /\ cur \in timed =>
          cur \in active_deadlines \/ Gone(cur)

\* NoJobWaitsForAFreeSlot made inductive: it holds outside of pumpScheduler.
PumpInv == pc \notin {"pump", "register", "abandon", "started"} => nothingToStart

-----------------------------------------------------------------------------
\* What no step takes back

\* Processes send no signals here, and a job without processes gets none.
LEMMA EnvironmentKeepsGone ==
    ASSUME DaemonInv, Environment, NEW i \in JobId
    PROVE  signals' = signals /\ (Gone(i) => Gone(i)')
<1>1. PICK j \in JobId : ProcessStep(j)
  BY DEF Environment
<1>2. /\ child \in [JobId -> ChildState]
      /\ kin \in [JobId -> SUBSET {"group", "escaped"}]
  BY DEF DaemonInv, TypeOK, ProcessesTypeOK
<1> USE <1>2 DEF Gone
<1>3. CASE Exec(j) \/ StartupFails(j)
  BY <1>3 DEF Exec, StartupFails
<1>4. ASSUME NEW k \in Pipes, Write(j, k) \/ ClosePipe(j, k)
      PROVE  UNCHANGED <<signals, child, kin>>
  BY <1>4 DEF Write, ClosePipe
<1>5. CASE Fork(j) \/ Escape(j)
  BY <1>5 DEF Fork, Escape
<1>6. ASSUME NEW status, ChildExit(j, status)
      PROVE  signals' = signals /\ (Gone(i) => Gone(i)')
  BY <1>6 DEF ChildExit, ChildAlive
<1>7. ASSUME NEW kind, KinExit(j, kind)
      PROVE  signals' = signals /\ (Gone(i) => Gone(i)')
  BY <1>7 DEF KinExit
<1> QED
  BY <1>1, <1>3, <1>4, <1>5, <1>6, <1>7 DEF ProcessStep

\* A job with a process keeps what makes it gone, and a SIGKILL stays sent.
LEMMA NextKeepsGone ==
    ASSUME DaemonInv, OutcomeInv, [Next]_vars, NEW i \in JobId,
           job_state[i] \in {"RUNNING", "TERMINATING"}
    PROVE  (Gone(i) => Gone(i)') /\ (Killed(i) => Killed(i)')
<1> USE DEF Gone, Killed
<1>1. CASE QuietAction
  BY <1>1, QuietKeepsJobs DEF jobVars
<1>2. ASSUME NEW j \in JobId, Settles(j)
      PROVE  (Gone(i) => Gone(i)') /\ (Killed(i) => Killed(i)')
  <2>1. child \in [JobId -> ChildState]
    BY DEF DaemonInv, TypeOK, ProcessesTypeOK
  <2> QED
    BY <1>2, <2>1 DEF Settles
<1>3. CASE Sigterm \/ Sigkill
  <2>1. signals \in [JobId -> Signal]
    BY DEF DaemonInv, TypeOK, ProcessesTypeOK
  <2>2. job_state[i] = "RUNNING" => signals[i] = "none"
    BY DEF OutcomeInv, OutcomeOK
  <2> QED
    BY <1>3, <2>1, <2>2, SigtermCases, SigkillCases
<1>4. CASE Environment
  BY <1>4, EnvironmentKeepsGone
<1>5. ASSUME NEW t, Submit(t) PROVE UNCHANGED <<child, kin, signals>>
  BY <1>5 DEF Submit, processVars
<1>6. ASSUME NEW j \in JobId, CancelQueued(j) PROVE UNCHANGED <<child, kin, signals>>
  BY <1>6 DEF CancelQueued, processVars
<1>7. ASSUME NEW j \in JobId, PumpStart(j)
      PROVE  (Gone(i) => Gone(i)') /\ (Killed(i) => Killed(i)')
  <2>1. i # j /\ SameJob(i) /\ kin' = kin
    BY <1>7, PumpStartCases
  <2> QED
    BY <2>1 DEF SameJob
<1>8. CASE AbandonChild
  <2>1. i # cur /\ SameJob(i) /\ kin' = kin
    BY <1>8, AbandonChildCases
  <2> QED
    BY <2>1 DEF SameJob
<1> QED
  BY <1>1, <1>2, <1>3, <1>4, <1>5, <1>6, <1>7, <1>8, NextCases, SettlingSettles

\* kill(-pgid) fails with ESRCH only for a job whose processes are gone.
LEMMA NoGroupIsGone ==
    ASSUME DaemonInv, OutcomeInv, SignalFindsNoGroup
    PROVE  Gone(cur)
<1>1. cur \in JobId /\ cur \in active_jobs
  BY DEF SignalFindsNoGroup, DaemonInv, ControlOK, TableOK
<1>2. child[cur] \in ChildState /\ child[cur] # "none"
  BY <1>1 DEF DaemonInv, TypeOK, ProcessesTypeOK, OutcomeInv, OutcomeOK
<1> QED
  BY <1>2 DEF SignalFindsNoGroup, GroupExists, ChildAlive, ChildState, Gone

\* A dead daemon stays dead.
LEMMA DeadIsForever ==
    ASSUME [Next]_vars, pc' # "dead"
    PROVE  pc # "dead"
<1> SUFFICES ASSUME pc = "dead" PROVE FALSE
  OBVIOUS
<1>1. Environment \/ UNCHANGED vars
  BY DEF Next, Request, Event, Handler, Submit, CancelQueued, CancelRunning,
     TimerEvent, PipeEvent, SigchldEvent, Reap, ReapDone, Deadline, DeadlineDone,
     Terminate, Sigterm, SignalFindsNoGroup, SignalFails, Grace, GraceFails, Kill,
     Sigkill, Notify, NotifyDone, PumpStart, AbandonPipes, AbandonChild, PumpDone,
     StartedFailed, StartedRunning, StartedScheduleFails
<1> QED
  BY <1>1 DEF Environment, controlVars, vars

-----------------------------------------------------------------------------
\* Signals

(***************************************************************************)
(* SIGTERM comes first and once, SIGKILL only after it, and neither is     *)
(* sent to a job in a final state, whatever fails; a job that was never    *)
(* RUNNING gets SIGKILL only in the step in which it fails.                *)
(***************************************************************************)
THEOREM SignalsEscalateInOrder == Spec => SignalsInOrder
<1> DEFINE Ordered == \A j \in JobId : signals'[j] # signals[j] => SignalStep(j)
<1>1. DaemonInv /\ OutcomeInv /\ [Next]_vars => Ordered
  <2> SUFFICES ASSUME DaemonInv, OutcomeInv, [Next]_vars, NEW i \in JobId
               PROVE  signals'[i] # signals[i] => SignalStep(i)
    OBVIOUS
  <2>1. /\ signals \in [JobId -> Signal] /\ OutcomeOK(i)
        /\ job_state \in [JobId -> JobState \cup {Absent}]
    BY DEF DaemonInv, TypeOK, ProcessesTypeOK, MonitorTypeOK, OutcomeInv
  <2>2. CASE QuietAction
    BY <2>2, QuietKeepsJobs DEF jobVars
  <2>3. ASSUME NEW j \in JobId, Settles(j) PROVE signals' = signals
    BY <2>3 DEF Settles
  <2>4. CASE Sigterm
    BY <2>1, <2>4, SigtermCases DEF OutcomeOK, SignalStep
  <2>5. CASE Sigkill
    BY <2>1, <2>5, SigkillCases DEF OutcomeOK, SignalStep, Signal
  <2>6. CASE Environment
    BY <2>6, EnvironmentKeepsGone
  <2>7. ASSUME NEW t, Submit(t) PROVE signals' = signals
    BY <2>7 DEF Submit, processVars
  <2>8. ASSUME NEW j \in JobId, CancelQueued(j) PROVE signals' = signals
    BY <2>8 DEF CancelQueued, processVars
  <2>9. ASSUME NEW j \in JobId, PumpStart(j)
        PROVE  signals'[i] # signals[i] => SignalStep(i)
    BY <2>9, PumpStartCases
  <2>10. CASE AbandonChild
    BY <2>1, <2>10, AbandonChildCases DEF SameJob, OutcomeOK, SignalStep
  <2> QED
    BY <2>2, <2>3, <2>4, <2>5, <2>6, <2>7, <2>8, <2>9, <2>10, NextCases, SettlingSettles
<1>2. DaemonInv /\ OutcomeInv /\ [Next]_vars => [Ordered]_vars
  BY <1>1
<1> QED
  BY <1>2, DaemonInvariance, OutcomeInvariance, PTL DEF Spec, SignalsInOrder

-----------------------------------------------------------------------------
\* Terminations

\* What TerminationEscalates says of one job.
Escalates(j) ==
    \/ j \in active_deadlines \cup expired
    \/ pc \in {"grace", "kill", "sigkill"} /\ cur = j
    \/ Killed(j)
    \/ Gone(j)

\* Of the steps that change no job, those of the event loop and of the handlers
\* that terminate nothing.
LEMMA DispatchKeepsEscalation ==
    ASSUME DaemonInv, OutcomeInv, NEW i \in JobId, job_state[i] = "TERMINATING",
           Escalates(i), pc # "dead", Gone(i) => Gone(i)', Killed(i) => Killed(i)',
           \/ \E j \in JobId : CancelRunning(j) \/ Deadline(j) \/ Notify(j)
           \/ \E jobs \in SUBSET JobId : TimerEvent(jobs)
           \/ SigchldEvent \/ ReapDone \/ DeadlineDone \/ NotifyDone \/ PumpDone
           \/ StartedFailed \/ StartedRunning \/ StartedScheduleFails \/ AbandonPipes
    PROVE  Escalates(i)'
<1> USE DEF Escalates, deadlineVars, Goto, Call, isTerminal
<1>1. ASSUME NEW j \in JobId, CancelRunning(j) \/ Deadline(j) PROVE Escalates(i)'
  BY <1>1 DEF CancelRunning, Deadline
<1>2. ASSUME NEW j \in JobId, Notify(j) PROVE Escalates(i)'
  BY <1>2 DEF Notify, cancel
<1>3. ASSUME NEW jobs \in SUBSET JobId, TimerEvent(jobs) PROVE Escalates(i)'
  <2>1. expired = {}
    BY <1>3 DEF TimerEvent, OutcomeInv, DeadlinesOK, InTermination
  <2> QED
    BY <1>3, <2>1 DEF TimerEvent, handleReadable
<1>4. CASE SigchldEvent \/ ReapDone \/ DeadlineDone \/ NotifyDone \/ PumpDone
  BY <1>4 DEF SigchldEvent, ReapDone, DeadlineDone, NotifyDone, PumpDone
<1>5. CASE StartedFailed \/ StartedRunning \/ StartedScheduleFails \/ AbandonPipes
  BY <1>5 DEF StartedFailed, StartedRunning, StartedScheduleFails, AbandonPipes, schedule
<1> QED
  BY <1>1, <1>2, <1>3, <1>4, <1>5

(***************************************************************************)
(* The steps of requestTerminate, scheduleForceKillDeadline and forceKill. *)
(* SIGKILL can fail silently only after a CANCEL whose grace deadline was  *)
(* not set: that takes both faults.                                        *)
(***************************************************************************)
LEMMA TerminationStepsKeepEscalation ==
    ASSUME ~({"kill", "schedule"} \subseteq Faults),
           DaemonInv, OutcomeInv, NEW i \in JobId, job_state[i] = "TERMINATING",
           Escalates(i), pc # "dead", Gone(i) => Gone(i)', Killed(i) => Killed(i)',
           SignalFindsNoGroup \/ SignalFails \/ Grace \/ GraceFails \/ Sigkill,
           pc' # "dead"
    PROVE  Escalates(i)'
<1> USE DEF Escalates, deadlineVars
<1>1. CASE SignalFindsNoGroup
  <2>1. cur = i => Gone(i)'
    BY <1>1, NoGroupIsGone
  <2> QED
    BY <1>1, <2>1 DEF SignalFindsNoGroup
<1>2. CASE SignalFails
  <2>1. CASE pc = "sigterm"
    BY <1>2, <2>1 DEF SignalFails
  <2>2. CASE pc = "sigkill"
    <3>1. ret = "loop" /\ "kill" \in Faults
      BY <1>2, <2>2 DEF SignalFails, Throw
    <3> QED
      BY <2>2, <3>1 DEF OutcomeInv, DeadlinesOK
  <2> QED
    BY <1>2, <2>1, <2>2 DEF SignalFails
<1>3. CASE Grace
  BY <1>3 DEF Grace, schedule
<1>4. CASE GraceFails
  BY <1>4 DEF GraceFails, cancel, Goto
<1>5. CASE Sigkill
  <2>1. signals \in [JobId -> Signal]
    BY DEF DaemonInv, TypeOK, ProcessesTypeOK
  <2>2. cur = i => Killed(i)'
    BY <1>5, <2>1, SigkillCases DEF Killed
  <2> QED
    BY <1>5, <2>2, SigkillCases
<1> QED
  BY <1>1, <1>2, <1>3, <1>4, <1>5

\* The monitor's steps: forceKill goes on with a job that they do not settle.
LEMMA SettlingKeepsEscalation ==
    ASSUME DaemonInv, OutcomeInv, SettlingAction, NEW i \in JobId,
           job_state[i] = "TERMINATING", job_state'[i] = "TERMINATING",
           Escalates(i), Gone(i) => Gone(i)', Killed(i) => Killed(i)'
    PROVE  Escalates(i)'
<1> USE DEF Escalates, deadlineVars, Goto, Return
<1>1. ASSUME NEW j \in JobId, NEW k \in Pipes, PipeEvent(j, k) PROVE Escalates(i)'
  BY <1>1 DEF PipeEvent
<1>2. ASSUME NEW j \in JobId, Reap(j) PROVE Escalates(i)'
  BY <1>2 DEF Reap
<1>3. CASE Terminate
  BY <1>3 DEF Terminate
<1>4. CASE Kill
  BY <1>4 DEF Kill, isTerminal
<1> QED
  BY <1>1, <1>2, <1>3, <1>4 DEF SettlingAction

LEMMA NextKeepsEscalation ==
    ASSUME ~({"kill", "schedule"} \subseteq Faults),
           DaemonInv, OutcomeInv, [Next]_vars, NEW i \in JobId,
           job_state[i] = "TERMINATING" /\ pc # "dead" => Escalates(i),
           job_state'[i] = "TERMINATING", pc' # "dead"
    PROVE  Escalates(i)'
<1>1. job_state \in [JobId -> JobState \cup {Absent}]
  BY DEF DaemonInv, TypeOK, MonitorTypeOK
<1>2. CASE Sigterm /\ i = cur
  BY <1>2, SigtermCases DEF Escalates
<1>3. CASE ~(Sigterm /\ i = cur)
  <2>1. job_state[i] = "TERMINATING"
    <3>1. CASE QuietAction
      BY <3>1, QuietKeepsJobs DEF jobVars
    <3>2. ASSUME NEW j \in JobId, Settles(j) PROVE job_state[i] = "TERMINATING"
      BY <3>2, SettlesCases
    <3>3. CASE Sigterm \/ Sigkill
      BY <1>1, <1>3, <3>3, SigtermCases, SigkillCases
    <3>4. CASE Environment
      BY <3>4 DEF Environment, monitorVars
    <3>5. ASSUME NEW t, Submit(t) PROVE job_state[i] = "TERMINATING"
      BY <1>1, <3>5 DEF Submit, DaemonInv, TypeOK
    <3>6. ASSUME NEW j \in JobId, CancelQueued(j) PROVE job_state[i] = "TERMINATING"
      BY <1>1, <3>6 DEF CancelQueued, transitionJob
    <3>7. ASSUME NEW j \in JobId, PumpStart(j) PROVE job_state[i] = "TERMINATING"
      BY <1>1, <3>7, PumpStartCases
    <3>8. CASE AbandonChild
      BY <1>1, <3>8, AbandonChildCases
    <3> QED
      BY <3>1, <3>2, <3>3, <3>4, <3>5, <3>6, <3>7, <3>8, NextCases, SettlingSettles
  <2>2. (Gone(i) => Gone(i)') /\ (Killed(i) => Killed(i)')
    BY <2>1, NextKeepsGone
  <2>3. pc # "dead" /\ Escalates(i)
    BY <2>1, DeadIsForever
  <2> USE <2>1, <2>2, <2>3 DEF deadlineVars, controlVars
  <2>4. CASE QuietAction
    <3>1. CASE UNCHANGED vars
      BY <3>1 DEF vars, Escalates
    <3> QED
      BY <2>4, <3>1, DispatchKeepsEscalation, TerminationStepsKeepEscalation
      DEF QuietAction
  <2>5. CASE SettlingAction
    BY <2>5, SettlingKeepsEscalation
  <2>6. CASE Sigkill
    BY <2>6, TerminationStepsKeepEscalation
  <2>7. CASE Sigterm
    BY <1>3, <2>7, SigtermCases DEF Escalates
  <2>8. CASE Environment
    BY <2>8 DEF Environment, Escalates
  <2>9. ASSUME NEW t, Submit(t) PROVE Escalates(i)'
    BY <2>9 DEF Submit, Escalates
  <2>10. ASSUME NEW j \in JobId, CancelQueued(j) \/ PumpStart(j) PROVE Escalates(i)'
    BY <2>10 DEF CancelQueued, PumpStart, Escalates
  <2>11. CASE AbandonChild
    BY <2>11, AbandonChildCases DEF Escalates
  <2> QED
    BY <2>4, <2>5, <2>6, <2>7, <2>8, <2>9, <2>10, <2>11, NextCases
<1> QED
  BY <1>2, <1>3

(***************************************************************************)
(* A TERMINATING job is never forgotten: a deadline, a SIGKILL or the end  *)
(* of its processes is on the way.  When both schedule and kill may fail   *)
(* this is false: GraceFails, then SignalFails in a CANCEL, leave the job  *)
(* with neither.                                                           *)
(***************************************************************************)
THEOREM TerminationsEscalate ==
    ASSUME ~({"kill", "schedule"} \subseteq Faults)
    PROVE  Spec => []TerminationEscalates
<1>1. Init => TerminationEscalates
  BY DEF Init, MonitorInit, TerminationEscalates, Absent
<1>2. DaemonInv /\ OutcomeInv /\ TerminationEscalates /\ [Next]_vars => TerminationEscalates'
  <2>1. TerminationEscalates <=>
           \A j \in JobId : job_state[j] = "TERMINATING" /\ pc # "dead" => Escalates(j)
    BY DEF TerminationEscalates, Escalates, Gone
  <2>2. TerminationEscalates' <=>
           \A j \in JobId : job_state'[j] = "TERMINATING" /\ pc' # "dead" => Escalates(j)'
    BY DEF TerminationEscalates, Escalates, Gone
  <2> QED
    BY <2>1, <2>2, NextKeepsEscalation
<1> QED
  BY <1>1, <1>2, DaemonInvariance, OutcomeInvariance, PTL DEF Spec

-----------------------------------------------------------------------------
\* Timeouts

\* What TimedJobsAreGuarded says of one job.
Guarded(j) ==
    \/ j \in active_deadlines \cup expired
    \/ pc \in {"started", "terminate", "sigterm"} /\ cur = j
    \/ Gone(j)

\* The second part of GuardInv: CANCEL keeps the deadline until the signal is sent.
CancelKeepsDeadline ==
    pc \in {"terminate", "sigterm"} /\ ret = "loop" /\ cur \in timed =>
        cur \in active_deadlines \/ Gone(cur)

LEMMA QuietKeepsGuard ==
    ASSUME "schedule" \notin Faults, DaemonInv, OutcomeInv, CancelKeepsDeadline,
           NEW i \in JobId, i \in timed, job_state[i] = "RUNNING", Guarded(i), pc # "dead",
           Gone(i) => Gone(i)', QuietAction, pc' # "dead"
    PROVE  Guarded(i)'
<1> USE DEF Guarded, deadlineVars, Goto, Call, isTerminal
<1>1. ASSUME NEW j \in JobId, CancelRunning(j) \/ Deadline(j) PROVE Guarded(i)'
  BY <1>1 DEF CancelRunning, Deadline
<1>2. ASSUME NEW j \in JobId, Notify(j) PROVE Guarded(i)'
  BY <1>2 DEF Notify, cancel
<1>3. ASSUME NEW jobs \in SUBSET JobId, TimerEvent(jobs) PROVE Guarded(i)'
  <2>1. expired = {}
    BY <1>3 DEF TimerEvent, OutcomeInv, DeadlinesOK, InTermination
  <2> QED
    BY <1>3, <2>1 DEF TimerEvent, handleReadable
<1>4. CASE SigchldEvent \/ ReapDone \/ DeadlineDone \/ NotifyDone \/ PumpDone
  BY <1>4 DEF SigchldEvent, ReapDone, DeadlineDone, NotifyDone, PumpDone
<1>5. CASE StartedFailed \/ StartedRunning \/ StartedScheduleFails
  BY <1>5 DEF StartedFailed, StartedRunning, StartedScheduleFails, schedule
<1>6. CASE SignalFindsNoGroup
  <2>1. cur = i => Gone(i)'
    BY <1>6, NoGroupIsGone
  <2> QED
    BY <1>6, <2>1 DEF SignalFindsNoGroup
<1>7. CASE SignalFails
  <2>1. UNCHANGED <<active_deadlines, expired>> /\ ret = "loop"
    BY <1>7 DEF SignalFails, Throw
  <2>2. cur = i => pc = "sigterm"
    BY <1>7 DEF SignalFails, DaemonInv, ControlOK
  <2> QED
    BY <1>7, <2>1, <2>2 DEF SignalFails, CancelKeepsDeadline
<1>8. CASE Grace \/ GraceFails
  <2>1. cur # i
    BY <1>8 DEF Grace, GraceFails, DaemonInv, ControlOK
  <2> QED
    BY <1>8, <2>1 DEF Grace, GraceFails, schedule, cancel
<1>9. CASE AbandonPipes
  BY <1>9 DEF AbandonPipes
<1>10. CASE UNCHANGED vars
  BY <1>10 DEF vars, controlVars
<1> QED
  BY <1>1, <1>2, <1>3, <1>4, <1>5, <1>6, <1>7, <1>8, <1>9, <1>10 DEF QuietAction

LEMMA SettlingKeepsGuard ==
    ASSUME DaemonInv, OutcomeInv, SettlingAction, NEW i \in JobId,
           job_state[i] = "RUNNING", job_state'[i] = "RUNNING", Guarded(i),
           Gone(i) => Gone(i)'
    PROVE  Guarded(i)'
<1> USE DEF Guarded, deadlineVars, Goto, Return
<1>1. ASSUME NEW j \in JobId, NEW k \in Pipes, PipeEvent(j, k) PROVE Guarded(i)'
  BY <1>1 DEF PipeEvent
<1>2. ASSUME NEW j \in JobId, Reap(j) PROVE Guarded(i)'
  BY <1>2 DEF Reap
<1>3. CASE Terminate
  BY <1>3 DEF Terminate, isTerminal
<1>4. CASE Kill
  BY <1>4 DEF Kill
<1> QED
  BY <1>1, <1>2, <1>3, <1>4 DEF SettlingAction

LEMMA NextKeepsGuard ==
    ASSUME "schedule" \notin Faults, DaemonInv, OutcomeInv, CancelKeepsDeadline, [Next]_vars,
           NEW i \in JobId,
           i \in timed /\ job_state[i] = "RUNNING" /\ pc # "dead" => Guarded(i),
           i \in timed', job_state'[i] = "RUNNING", pc' # "dead"
    PROVE  Guarded(i)'
<1>1. /\ job_state \in [JobId -> JobState \cup {Absent}] /\ pc # "dead"
      /\ next_job_id \in JobId \cup {0}
  BY DeadIsForever DEF DaemonInv, TypeOK, MonitorTypeOK
<1>2. ASSUME NEW j \in JobId, PumpStart(j) PROVE Guarded(i)'
  <2>1. CASE i = j
    BY <1>1, <1>2, <2>1, PumpStartCases DEF Guarded
  <2>2. CASE i # j
    <3>1. SameJob(i) /\ UNCHANGED <<deadlineVars, expired, kin>>
      BY <1>2, <2>2, PumpStartCases
    <3> QED
      BY <1>1, <1>2, <3>1 DEF SameJob, PumpStart, Guarded, Gone, deadlineVars
  <2> QED
    BY <2>1, <2>2
<1>3. CASE ~(\E j \in JobId : PumpStart(j))
  <2>1. job_state[i] = "RUNNING" /\ i \in timed
    <3>1. CASE QuietAction
      BY <3>1, QuietKeepsJobs DEF jobVars, tableVars
    <3>2. ASSUME NEW j \in JobId, Settles(j) PROVE job_state[i] = "RUNNING" /\ i \in timed
      BY <3>2, SettlesCases DEF Settles, tableVars
    <3>3. CASE Sigterm \/ Sigkill
      BY <1>1, <3>3, SigtermCases, SigkillCases DEF tableVars
    <3>4. CASE Environment
      BY <3>4 DEF Environment, monitorVars, tableVars
    <3>5. ASSUME NEW t, Submit(t) PROVE job_state[i] = "RUNNING" /\ i \in timed
      BY <1>1, <3>5 DEF Submit
    <3>6. ASSUME NEW j \in JobId, CancelQueued(j)
          PROVE  job_state[i] = "RUNNING" /\ i \in timed
      BY <1>1, <3>6 DEF CancelQueued, transitionJob, tableVars
    <3>7. CASE AbandonChild
      BY <1>1, <3>7, AbandonChildCases DEF tableVars
    <3> QED
      BY <1>3, <3>1, <3>2, <3>3, <3>4, <3>5, <3>6, <3>7, NextCases, SettlingSettles
  <2>2. Gone(i) => Gone(i)'
    BY <2>1, NextKeepsGone
  <2> USE <1>1, <2>1, <2>2 DEF deadlineVars, controlVars
  <2>3. CASE QuietAction
    BY <2>3, QuietKeepsGuard
  <2>4. CASE SettlingAction
    BY <2>4, SettlingKeepsGuard
  <2>5. CASE Sigterm
    BY <2>5, SigtermCases DEF Guarded
  <2>6. CASE Sigkill
    BY <2>6, SigkillCases DEF Guarded
  <2>7. CASE Environment
    BY <2>7 DEF Environment, Guarded
  <2>8. ASSUME NEW t, Submit(t) PROVE Guarded(i)'
    BY <2>8 DEF Submit, Guarded
  <2>9. ASSUME NEW j \in JobId, CancelQueued(j) PROVE Guarded(i)'
    BY <2>9 DEF CancelQueued, Guarded
  <2>10. CASE AbandonChild
    BY <2>10, AbandonChildCases DEF Guarded
  <2> QED
    BY <1>3, <2>3, <2>4, <2>5, <2>6, <2>7, <2>8, <2>9, <2>10, NextCases
<1> QED
  BY <1>2, <1>3

LEMMA NextKeepsCancelDeadline ==
    ASSUME DaemonInv, OutcomeInv, GuardInv, [Next]_vars
    PROVE  CancelKeepsDeadline'
<1> SUFFICES ASSUME pc' \in {"terminate", "sigterm"}, ret' = "loop", cur' \in timed'
             PROVE  cur' \in active_deadlines' \/ Gone(cur)'
  BY DEF CancelKeepsDeadline
<1>1. ret \in {"loop", "deadline", "notify"}
  BY DEF DaemonInv, TypeOK
<1>2. ASSUME NEW j \in JobId, CancelRunning(j)
      PROVE  cur' \in active_deadlines' \/ Gone(cur)'
  <2>1. /\ pc = "loop" /\ job_state[j] = "RUNNING" /\ j \in timed /\ cur' = j
        /\ UNCHANGED <<deadlineVars, processVars>>
    BY <1>2 DEF CancelRunning, Call, tableVars
  <2>2. expired = {}
    BY <2>1 DEF OutcomeInv, DeadlinesOK, InTermination
  <2>3. j \in active_deadlines \/ Gone(j)
    BY <2>1, <2>2 DEF GuardInv, TimedJobsAreGuarded, Gone
  <2> QED
    BY <2>1, <2>3 DEF deadlineVars, processVars, Gone
<1>3. CASE Terminate
  <2>1. /\ pc = "terminate" /\ cur \in JobId /\ job_state[cur] = "RUNNING"
        /\ Settles(cur) /\ UNCHANGED <<deadlineVars, timed>>
        /\ pc' = "sigterm" /\ UNCHANGED <<cur, ret>>
    BY <1>1, <1>3, MonitorStepsSettle
    DEF Terminate, DaemonInv, ControlOK, Goto, Return, tableVars
  <2>2. Gone(cur) => child'[cur] = "reaped" /\ "group" \notin kin'[cur]
    BY <2>1, NextKeepsGone DEF Gone
  <2> QED
    BY <1>1, <2>1, <2>2 DEF GuardInv, deadlineVars, Gone
<1>4. CASE Environment
  <2>1. cur \in JobId /\ UNCHANGED <<deadlineVars, timed, pc, cur, ret>>
    BY <1>4 DEF Environment, tableVars, controlVars, DaemonInv, ControlOK
  <2>2. Gone(cur) => child'[cur] = "reaped" /\ "group" \notin kin'[cur]
    BY <1>4, <2>1, EnvironmentKeepsGone DEF Gone
  <2> QED
    BY <2>1, <2>2 DEF GuardInv, deadlineVars, Gone
<1>5. CASE UNCHANGED vars
  BY <1>5 DEF vars, GuardInv, deadlineVars, tableVars, controlVars, processVars, Gone
<1>6. ASSUME Next, ~Terminate, ~Environment, ~(\E j \in JobId : CancelRunning(j))
      PROVE  FALSE
  <2> USE <1>1 DEF Goto, Call, Return, Throw
  <2>1. ASSUME NEW t, Submit(t) PROVE FALSE
    BY <2>1 DEF Submit
  <2>2. ASSUME NEW j \in JobId, CancelQueued(j) PROVE FALSE
    BY <2>2 DEF CancelQueued, controlVars
  <2>3. CASE Event
    BY <2>3 DEF Event, TimerEvent, PipeEvent, SigchldEvent
  <2>4. ASSUME NEW j \in JobId, Reap(j) \/ Deadline(j) \/ Notify(j) \/ PumpStart(j)
        PROVE  FALSE
    BY <2>4 DEF Reap, Deadline, Notify, PumpStart
  <2>5. CASE ReapDone \/ DeadlineDone \/ NotifyDone \/ PumpDone
    BY <2>5 DEF ReapDone, DeadlineDone, NotifyDone, PumpDone
  <2>6. CASE SignalFindsNoGroup \/ SignalFails
    BY <2>6 DEF SignalFindsNoGroup, SignalFails
  <2>7. CASE Sigterm \/ Kill \/ Sigkill \/ Grace \/ GraceFails
    BY <2>7 DEF Sigterm, Kill, Sigkill, Grace, GraceFails
  <2>8. CASE \/ StartedFailed \/ StartedRunning \/ StartedScheduleFails
             \/ AbandonPipes \/ AbandonChild
    BY <2>8 DEF StartedFailed, StartedRunning, StartedScheduleFails, AbandonPipes,
       AbandonChild
  <2> QED
    BY <1>6, <2>1, <2>2, <2>3, <2>4, <2>5, <2>6, <2>7, <2>8 DEF Next, Request, Handler
<1> QED
  BY <1>2, <1>3, <1>4, <1>5, <1>6

(***************************************************************************)
(* If deadlines can always be set, a RUNNING job with a timeout is always  *)
(* watched, also while a CANCEL of it is under way and if its signal fails.*)
(***************************************************************************)
THEOREM TimeoutsAreGuarded ==
    ASSUME "schedule" \notin Faults
    PROVE  Spec => []TimedJobsAreGuarded
<1>1. Init => GuardInv
  BY DEF Init, GuardInv, TimedJobsAreGuarded
<1>2. DaemonInv /\ DaemonInv' /\ OutcomeInv /\ GuardInv /\ [Next]_vars => GuardInv'
  <2> SUFFICES ASSUME DaemonInv, DaemonInv', OutcomeInv, GuardInv, [Next]_vars
               PROVE  GuardInv'
    OBVIOUS
  <2>1. CancelKeepsDeadline'
    BY NextKeepsCancelDeadline
  <2>2. ASSUME NEW j \in timed', job_state'[j] = "RUNNING", pc' # "dead"
        PROVE  Guarded(j)'
    <3>1. j \in JobId
      BY <2>2 DEF DaemonInv, TypeOK
    <3>2. j \in timed /\ job_state[j] = "RUNNING" /\ pc # "dead" => Guarded(j)
      BY DEF GuardInv, TimedJobsAreGuarded, Guarded, Gone
    <3> QED
      BY <2>2, <3>1, <3>2, NextKeepsGuard DEF GuardInv, CancelKeepsDeadline
  <2>3. TimedJobsAreGuarded'
    BY <2>2 DEF TimedJobsAreGuarded, Guarded, Gone
  <2> QED
    BY <2>1, <2>3 DEF GuardInv, CancelKeepsDeadline
<1>3. GuardInv => TimedJobsAreGuarded
  BY DEF GuardInv
<1> QED
  BY <1>1, <1>2, <1>3, DaemonInvariance, OutcomeInvariance, PTL DEF Spec

-----------------------------------------------------------------------------
\* Slots

LEMMA NextKeepsPump ==
    ASSUME "schedule" \notin Faults, DaemonInv, PumpInv, [Next]_vars
    PROVE  PumpInv'
<1> SUFFICES ASSUME pc' \notin {"pump", "register", "abandon", "started"}
             PROVE  nothingToStart'
  BY DEF PumpInv
<1>1. ASSUME schedulerVars' = schedulerVars, nothingToStart PROVE nothingToStart'
  BY <1>1 DEF schedulerVars, nothingToStart, SlotFree
<1> USE DEF PumpInv, Goto, Call
<1>2. ASSUME NEW t, Submit(t) PROVE nothingToStart'
  BY <1>2 DEF Submit
<1>3. ASSUME NEW j \in JobId, CancelQueued(j) PROVE nothingToStart'
  <2>1. /\ nothingToStart /\ cancelQueuedJob(j) /\ SchedulerInv
    BY <1>3 DEF CancelQueued, controlVars, DaemonInv
  <2>2. waiting_jobs # <<>> /\ active_job_ids' = active_job_ids
    BY <2>1 DEF cancelQueuedJob
  <2> QED
    BY <2>1, <2>2 DEF nothingToStart, SlotFree
<1>4. ASSUME NEW j \in JobId, CancelRunning(j) PROVE nothingToStart'
  BY <1>1, <1>4 DEF CancelRunning
<1>5. CASE Event
  BY <1>1, <1>5 DEF Event, TimerEvent, PipeEvent, SigchldEvent
<1>6. ASSUME NEW j \in JobId, Reap(j) \/ Deadline(j) \/ Notify(j) \/ PumpStart(j)
      PROVE  nothingToStart'
  BY <1>1, <1>6 DEF Reap, Deadline, Notify, PumpStart
<1>7. CASE ReapDone \/ DeadlineDone \/ NotifyDone \/ PumpDone
  BY <1>1, <1>7 DEF ReapDone, DeadlineDone, NotifyDone, PumpDone
<1>8. CASE Terminate \/ Sigterm \/ Kill \/ Sigkill
  BY <1>1, <1>8 DEF Terminate, Sigterm, Kill, Sigkill
<1>9. CASE SignalFindsNoGroup \/ SignalFails \/ Grace \/ GraceFails
  BY <1>1, <1>9 DEF SignalFindsNoGroup, SignalFails, Grace, GraceFails
<1>10. CASE \/ StartedFailed \/ StartedRunning \/ StartedScheduleFails
            \/ AbandonPipes \/ AbandonChild
  BY <1>10 DEF StartedFailed, StartedRunning, StartedScheduleFails, AbandonPipes,
     AbandonChild
<1>11. CASE Environment
  BY <1>1, <1>11 DEF Environment, controlVars
<1>12. CASE UNCHANGED vars
  BY <1>1, <1>12 DEF vars, controlVars
<1> QED
  BY <1>2, <1>3, <1>4, <1>5, <1>6, <1>7, <1>8, <1>9, <1>10, <1>11, <1>12
  DEF Next, Request, Handler

(***************************************************************************)
(* If deadlines can always be set, the daemon never goes back to waiting   *)
(* for events with a job in the queue and a slot for it.  A failed launch  *)
(* or registration does not matter: its slot goes to the next job at once. *)
(***************************************************************************)
THEOREM NoSlotIsLeftIdle ==
    ASSUME "schedule" \notin Faults
    PROVE  Spec => []NoJobWaitsForAFreeSlot
<1>1. Init => PumpInv
  BY DEF Init, SchedulerInit, PumpInv, nothingToStart
<1>2. DaemonInv /\ PumpInv /\ [Next]_vars => PumpInv'
  BY NextKeepsPump
<1>3. PumpInv => NoJobWaitsForAFreeSlot
  BY DEF PumpInv, NoJobWaitsForAFreeSlot
<1> QED
  BY <1>1, <1>2, <1>3, DaemonInvariance, PTL DEF Spec
=============================================================================
