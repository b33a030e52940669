----------------------------- MODULE Lifecycle ------------------------------
(***************************************************************************)
(* Daemons that start on one path, serve, launch processes, and end by an  *)
(* exception or a crash at any point, with nothing but the path and the    *)
(* children of the last one left for the next.                             *)
(***************************************************************************)
EXTENDS UnixSocket, ProcessLauncher

VARIABLE
    contended       \* history: two daemons were on their way to a socket, or away
                    \*   from one, at one time

vars == <<descriptorVars, socketVars, launcherVars, contended>>

Init == DescriptorsInit /\ PathInit /\ LauncherInit /\ contended = FALSE

IsAlive(d) == step[d] \notin {"off", "gone"}

Contention ==
    \E d, e \in Daemons : d # e /\ {step[d], step[e]} \cap {"off", "serving", "gone"} = {}

Observe == contended' = (contended \/ Contention')

\* A step of the start-up, and one of launchProcess or of a child.
OnThePath == UNCHANGED launcherVars /\ Observe
InLaunch == UNCHANGED socketVars /\ Observe

Start(d) == Starts(d) /\ OnThePath

\* An exception leaves main's try block, but not from within launchProcess.
Fail(d) ==
    /\ ~IsLaunching(d)
    /\ Fails(d)
    /\ OnThePath

\* The unlink after the listener is closed, whatever the path names by now, and
\* the end of main.
Exit(d) ==
    /\ step[d] = "closed"
    /\ path' = NoFile
    /\ GoesTo(d, "gone")
    /\ ParentDies(d)
    /\ Observe
    /\ UNCHANGED faults

\* The process is killed at any point.  No signal is handled that would end it.
Crash(d) ==
    /\ IsAlive(d)
    /\ Fault
    /\ GoesTo(d, IF step[d] \in {"lstat", "connect", "unlink", "bind"} THEN "off" ELSE "gone")
    /\ ParentDies(d)
    /\ Observe
    /\ UNCHANGED path

Launch(d, k) ==
    /\ step[d] = "serving"
    /\ Fork(d, k)
    /\ InLaunch

Daemon(d) ==
    \/ StartUp(d) /\ OnThePath
    \/ Exit(d)
    \/ \E k \in Children : ppid[k] = d /\ LauncherStep(k) /\ InLaunch

Child(k) == ChildStep(k) /\ InLaunch

Next ==
    \/ \E d \in Daemons : Start(d) \/ Daemon(d) \/ Fail(d) \/ Crash(d)
    \/ \E d \in Daemons, k \in Children :
          \/ Launch(d, k)
          \/ ppid[k] = d /\ LaunchFails(k) /\ InLaunch
    \/ \E k \in Children :
          \/ Child(k)
          \/ ChildFails(k) /\ InLaunch
          \/ ChildEnds(k) /\ InLaunch

Spec == Init /\ [][Next]_vars

(***************************************************************************)
(* Processes go on while they live, and somebody starts a daemon whenever  *)
(* none is running.  Nothing is assumed of programs.                       *)
(***************************************************************************)
Fairness ==
    /\ \A d \in Daemons : WF_vars(Daemon(d))
    /\ \A k \in Children : WF_vars(Child(k))
    /\ WF_vars((\A d \in Daemons : ~IsAlive(d)) /\ \E d \in Daemons : Start(d))

FairSpec == Spec /\ Fairness

-----------------------------------------------------------------------------

\* A daemon holds its listening socket from bind to close, and only children
\* that it forked and that have not come to execve hold it besides.
LifecycleTypeOK ==
    /\ path \in {NoFile, Foreign, Left} \cup Daemons
    /\ step \in [Daemons -> {"off", "lstat", "connect", "unlink", "bind", "chmod",
                             "listen", "serving", "closed", "gone"}]
    /\ child \in [Children -> BeforeExec \cup {"none", "program", "dead"}]
    /\ launcher \in [Children -> {"none", "close", "setpgid", "nonblocking",
                                  "launched", "failed"}]
    /\ ppid \in [Children -> Daemons \cup {Reaper}]
    /\ pdeathsig \cup own_group \cup reported \cup ran \subseteq Children
    /\ faults \in 0 .. MaxFaults
    /\ \A d \in Daemons :
          /\ d \in holders[d] <=> step[d] \in {"chmod", "listen", "serving"}
          /\ holders[d] \subseteq {d} \cup {k \in Children : child[k] \in BeforeExec}

(***************************************************************************)
(* No program runs without its daemon: prctl and the check of getppid      *)
(* after it leave no moment at which the daemon could die unnoticed.       *)
(***************************************************************************)
NoOrphanPrograms ==
    \A k \in Children : child[k] = "program" => ppid[k] # Reaper

(***************************************************************************)
(* When launchProcess has returned, the signals of cancel and timeout      *)
(* reach the child: it leads its own group, whether daemon or child came   *)
(* first, and wherever the child is by now.                                *)
(***************************************************************************)
LaunchedChildHasItsGroup ==
    \A k \in Children :
        launcher[k] = "launched" /\ child[k] # "dead" => k \in own_group

(***************************************************************************)
(* The start-up pipe tells the truth to the monitor: it ends exactly when  *)
(* the child runs its program or is dead, whoever else was forked in the   *)
(* meantime, and an error in it means that the program never ran.          *)
(***************************************************************************)
StartupPipeIsTrue ==
    \A k \in Children :
        /\ launcher[k] = "launched" => (holders[k] = {} <=> child[k] \notin BeforeExec)
        /\ ~(k \in reported /\ k \in ran)

(***************************************************************************)
(* The path leads to the daemon that serves, of which there is one at      *)
(* most, unless two of them were starting or exiting at one time.          *)
(***************************************************************************)
PathLeadsToTheDaemon ==
    ~contended => \A d \in Daemons : step[d] = "serving" => path = d

(***************************************************************************)
(* A crash does not lock the next daemon out: neither the socket it leaves *)
(* behind nor the children that still hold it keep a new one from serving  *)
(* in the end.  Only a file that is not the daemon's does.                 *)
(***************************************************************************)
RestartSucceeds ==
    path # Foreign ~> contended \/ \E d \in Daemons : step[d] = "serving" /\ path = d

(***************************************************************************)
(* What the comments at both unlinks say: the socket that is removed is    *)
(* one that an earlier daemon left, or the daemon's own.                   *)
(***************************************************************************)
OnlyStaleSocketsAreRemoved ==
    [][\A d \in Daemons : path = d /\ path' # d => step[d] \in {"closed", "gone"}]_vars
=============================================================================
