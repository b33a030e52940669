----------------------------- MODULE Processes ------------------------------
(***************************************************************************)
(* What the kernel and the jobs' own processes do, as far as runnerd can   *)
(* see it.  A job has a direct child (forked by launchProcess) and perhaps *)
(* descendants ("group": in the child's process group; "escaped": in a     *)
(* session of their own, out of reach of kill(-pgid)).  The daemon holds   *)
(* the read ends of the job's pipes; a pipe is at end of file once no      *)
(* process holds its write end and what was written has been read.  Bytes  *)
(* in a pipe whose read end was closed stay in unread: they are lost.      *)
(*                                                                         *)
(* The child's code up to execve is the daemon's own                       *)
(* (src/process_launcher.cpp); what runs after it is external and          *)
(* unconstrained.                                                          *)
(***************************************************************************)
EXTENDS Job

CONSTANTS
    Pipes,          \* the pipes of a job, kStartupError among them
    DataPipes,      \* the pipes on which the modelled jobs write output
    KinKinds,       \* the kinds of descendants the modelled jobs may have
    ExitStatuses    \* the wait statuses children end with of their own accord

ASSUME ProcessesAssumption ==
    /\ "kStartupError" \in Pipes
    /\ DataPipes \subseteq Pipes \ {"kStartupError"}
    /\ KinKinds \subseteq {"group", "escaped"}
    /\ ExitStatuses \subseteq {"exit0", "exitN", "signal"}

VARIABLES
    child,          \* the direct child of each job
    wait_status,    \* how it ended: what waitpid reports
    kin,            \* the kinds of live descendants
    held,           \* the pipes whose write end some process holds
    unread,         \* the pipes with bytes the daemon has not read
    signals,        \* the strongest signal sent to the process group
    sigchld,        \* a SIGCHLD is pending on the signalfd
    tracked_fds     \* <<job, pipe>> whose read end is open: ProcessMonitor's

processVars == <<child, wait_status, kin, held, unread, signals, sigchld>>

ChildState == {"none", "starting", "running", "zombie", "reaped"}
WaitStatus == {"none", "exit0", "exitN", "signal"}
Signal == {"none", "SIGTERM", "SIGKILL"}

ProcessesTypeOK ==
    /\ child \in [JobId -> ChildState]
    /\ wait_status \in [JobId -> WaitStatus]
    /\ kin \in [JobId -> SUBSET {"group", "escaped"}]
    /\ held \in [JobId -> SUBSET Pipes]
    /\ unread \in [JobId -> SUBSET Pipes]
    /\ signals \in [JobId -> Signal]
    /\ sigchld \in BOOLEAN

ProcessesInit ==
    /\ child = [j \in JobId |-> "none"]
    /\ wait_status = [j \in JobId |-> "none"]
    /\ kin = [j \in JobId |-> {}]
    /\ held = [j \in JobId |-> {}]
    /\ unread = [j \in JobId |-> {}]
    /\ signals = [j \in JobId |-> "none"]
    /\ sigchld = FALSE

ChildAlive(j) == child[j] \in {"starting", "running"}

\* The group of an exited child exists as long as the zombie or a member does;
\* kill(-pgid) fails with ESRCH when it does not.
GroupExists(j) == ChildAlive(j) \/ child[j] = "zombie" \/ "group" \in kin[j]

Killed(j) == signals[j] = "SIGKILL"

\* Some process of the job still executes instructions of the program.
Acts(j) == \/ (child[j] = "running" \/ "group" \in kin[j]) /\ ~Killed(j)
           \/ "escaped" \in kin[j]

\* The write ends left when the live processes become c (child) and k (kin).
HeldBy(j, c, k) == IF c \/ k # {} THEN held[j] ELSE {}

-----------------------------------------------------------------------------

\* execve succeeds and closes the startup-error pipe (O_CLOEXEC).
Exec(j) ==
    /\ child[j] = "starting"
    /\ ~Killed(j)
    /\ child' = [child EXCEPT ![j] = "running"]
    /\ held' = [held EXCEPT ![j] = @ \ {"kStartupError"}]
    /\ UNCHANGED <<wait_status, kin, unread, signals, sigchld>>

\* A step of the child before or at execve fails: it writes the error record
\* and calls _exit(127).  Nothing is written if the daemon has closed the pipe.
StartupFails(j) ==
    /\ child[j] = "starting"
    /\ ~Killed(j)
    /\ child' = [child EXCEPT ![j] = "zombie"]
    /\ wait_status' = [wait_status EXCEPT ![j] = "exitN"]
    /\ held' = [held EXCEPT ![j] = {}]
    /\ unread' = [unread EXCEPT ![j] =
                     @ \cup {k \in {"kStartupError"} : <<j, k>> \in tracked_fds}]
    /\ sigchld' = TRUE
    /\ UNCHANGED <<kin, signals>>

\* A write that does not fail with EPIPE.
Write(j, k) ==
    /\ Acts(j)
    /\ k \in held[j] \cap DataPipes
    /\ <<j, k>> \in tracked_fds
    /\ unread' = [unread EXCEPT ![j] = @ \cup {k}]
    /\ UNCHANGED <<child, wait_status, kin, held, signals, sigchld>>

\* The last process that holds the write end of k closes it.
ClosePipe(j, k) ==
    /\ Acts(j)
    /\ k \in held[j] \ {"kStartupError"}
    /\ held' = [held EXCEPT ![j] = @ \ {k}]
    /\ UNCHANGED <<child, wait_status, kin, unread, signals, sigchld>>

Fork(j) ==
    /\ child[j] = "running"
    /\ ~Killed(j)
    /\ "group" \in KinKinds
    /\ kin' = [kin EXCEPT ![j] = @ \cup {"group"}]
    /\ UNCHANGED <<child, wait_status, held, unread, signals, sigchld>>

\* Descendants leave the process group (setsid, setpgid), all or some of them.
Escape(j) ==
    /\ "group" \in kin[j]
    /\ ~Killed(j)
    /\ "escaped" \in KinKinds
    /\ \E stay \in {{}, {"group"}} :
          kin' = [kin EXCEPT ![j] = {"escaped"} \cup stay]
    /\ UNCHANGED <<child, wait_status, held, unread, signals, sigchld>>

\* The direct child ends; before execve only a signal ends it silently.
ChildExit(j, status) ==
    /\ ChildAlive(j)
    /\ Killed(j) \/ child[j] = "starting" => status = "signal"
    /\ child' = [child EXCEPT ![j] = "zombie"]
    /\ wait_status' = [wait_status EXCEPT ![j] = status]
    /\ held' = [held EXCEPT ![j] =
                   HeldBy(j, FALSE, kin[j]) \ {"kStartupError"}]
    /\ sigchld' = TRUE
    /\ UNCHANGED <<kin, unread, signals>>

\* The last descendant of a kind ends.  It is not runnerd's to reap.
KinExit(j, kind) ==
    /\ kind \in kin[j]
    /\ kin' = [kin EXCEPT ![j] = @ \ {kind}]
    /\ held' = [held EXCEPT ![j] = HeldBy(j, ChildAlive(j), kin[j] \ {kind})]
    /\ UNCHANGED <<child, wait_status, unread, signals, sigchld>>

ProcessStep(j) ==
    \/ Exec(j)
    \/ StartupFails(j)
    \/ \E k \in Pipes : Write(j, k) \/ ClosePipe(j, k)
    \/ Fork(j)
    \/ Escape(j)
    \/ \E status \in ExitStatuses \cup {"signal"} : ChildExit(j, status)
    \/ \E kind \in KinKinds : KinExit(j, kind)

-----------------------------------------------------------------------------

\* The system calls of the daemon.

\* fork in launchProcess: the child runs the launcher's code.
SpawnChild(j) ==
    /\ child' = [child EXCEPT ![j] = "starting"]
    /\ held' = [held EXCEPT ![j] = Pipes]
    /\ UNCHANGED <<wait_status, kin, unread, signals, sigchld>>

\* The child dies of SIGKILL, or had ended before it, and waitpid returns.  Its
\* descendants keep the write ends they hold.
ReapKilled(j) ==
    /\ child' = [child EXCEPT ![j] = "reaped"]
    /\ wait_status' = [wait_status EXCEPT ![j] = IF ChildAlive(j) THEN "signal" ELSE @]
    /\ held' = [held EXCEPT ![j] =
                   HeldBy(j, FALSE, kin[j]) \ {"kStartupError"}]
    /\ sigchld' = TRUE
    /\ UNCHANGED <<kin, unread>>

\* kill(pid, SIGKILL), which does not reach the descendants, and waitpid(pid).
killAndReapChild(j) == ReapKilled(j) /\ UNCHANGED signals

\* kill(-pgid, SIGKILL) and waitpid(pid).
killAndReapProcess(j) ==
    ReapKilled(j) /\ signals' = [signals EXCEPT ![j] = "SIGKILL"]

\* kill(-pgid, signal) on a group that exists.
SignalGroup(j, signal) ==
    /\ GroupExists(j)
    /\ signals' = [signals EXCEPT ![j] = signal]
    /\ UNCHANGED <<child, wait_status, kin, held, unread, sigchld>>
=============================================================================
