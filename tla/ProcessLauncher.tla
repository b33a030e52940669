-------------------------- MODULE ProcessLauncher ---------------------------
(***************************************************************************)
(* launchProcess after its fork (src/process_launcher.cpp), where daemon   *)
(* and child run side by side, and the daemon may die at any moment.       *)
(*                                                                         *)
(* child is the call a child is about to make on its way to execve, then   *)
(* "program" and "dead"; launcher is where the daemon is with it: "close"  *)
(* the write ends, "setpgid", "nonblocking", and then "launched" or        *)
(* "failed".                                                               *)
(***************************************************************************)
EXTENDS Descriptors

VARIABLES
    child,
    launcher,
    ppid,           \* the child's parent: the daemon, or who adopts orphans
    pdeathsig,      \* the children that are killed with their parent
    own_group,      \* those that lead a process group of their own
    reported,       \* those that wrote a ChildStartupError
    ran             \* those whose program was started

launcherVars == <<child, launcher, ppid, pdeathsig, own_group, reported, ran>>

Reaper == "reaper"
BeforeExec == {"prctl", "getppid", "setpgid", "dup2", "execve"}

LauncherInit ==
    /\ child = [k \in Children |-> "none"]
    /\ launcher = [k \in Children |-> "none"]
    /\ ppid = [k \in Children |-> Reaper]
    /\ pdeathsig = {} /\ own_group = {} /\ reported = {} /\ ran = {}

\* The daemon's thread is in launchProcess.
IsLaunching(d) ==
    \E k \in Children : ppid[k] = d /\ launcher[k] \in {"close", "setpgid", "nonblocking"}

ChildGoesTo(k, s) == child' = [child EXCEPT ![k] = s]
LauncherGoesTo(k, s) == launcher' = [launcher EXCEPT ![k] = s]

Fork(d, k) ==
    /\ child[k] = "none"
    /\ ~IsLaunching(d)
    /\ ChildGoesTo(k, "prctl")
    /\ LauncherGoesTo(k, "close")
    /\ ppid' = [ppid EXCEPT ![k] = d]
    /\ holders' = Inherit(d, k)
    /\ UNCHANGED <<pdeathsig, own_group, reported, ran, faults>>

-----------------------------------------------------------------------------
\* The child

reportChildStartupError(k) ==
    /\ reported' = reported \cup {k}
    /\ ChildGoesTo(k, "dead")
    /\ holders' = Without({k})
    /\ UNCHANGED <<launcher, ppid, pdeathsig, own_group, ran>>

Prctl(k) ==
    /\ child[k] = "prctl"
    /\ pdeathsig' = pdeathsig \cup {k}
    /\ ChildGoesTo(k, "getppid")
    /\ UNCHANGED <<launcher, ppid, own_group, reported, ran, descriptorVars>>

\* Goes on, whoever the parent is.
GetppidIgnored(k) ==
    /\ child[k] = "getppid"
    /\ ChildGoesTo(k, "setpgid")
    /\ UNCHANGED <<launcher, ppid, pdeathsig, own_group, reported, ran, descriptorVars>>

Getppid(k) ==
    /\ child[k] = "getppid"
    /\ \/ /\ ppid[k] # Reaper
          /\ ChildGoesTo(k, "setpgid")
          /\ UNCHANGED <<launcher, ppid, pdeathsig, own_group, reported, ran, holders>>
       \/ ppid[k] = Reaper /\ reportChildStartupError(k)
    /\ UNCHANGED faults

ChildSetpgid(k) ==
    /\ child[k] = "setpgid"
    /\ own_group' = own_group \cup {k}
    /\ ChildGoesTo(k, "dup2")
    /\ UNCHANGED <<launcher, ppid, pdeathsig, reported, ran, descriptorVars>>

\* The three duplicateOrReport, and the closes after them.
Dup2(k) ==
    /\ child[k] = "dup2"
    /\ ChildGoesTo(k, "execve")
    /\ UNCHANGED <<launcher, ppid, pdeathsig, own_group, reported, ran, descriptorVars>>

Execve(k) ==
    /\ child[k] = "execve"
    /\ ChildGoesTo(k, "program")
    /\ ran' = ran \cup {k}
    /\ holders' = Without({k})
    /\ UNCHANGED <<launcher, ppid, pdeathsig, own_group, reported, faults>>

\* No such program.
ExecveFails(k) ==
    /\ child[k] = "execve"
    /\ reportChildStartupError(k)
    /\ UNCHANGED faults

\* prctl, setpgid or a dup2 fails.
ChildFails(k) ==
    /\ child[k] \in {"prctl", "setpgid", "dup2"}
    /\ Fault
    /\ reportChildStartupError(k)

ChildStep(k) ==
    Prctl(k) \/ Getppid(k) \/ ChildSetpgid(k) \/ Dup2(k) \/ Execve(k) \/ ExecveFails(k)

-----------------------------------------------------------------------------
\* The daemon, while it lives

\* The daemon keeps its copies of the write ends.
ParentKeepsWriteEnds(k) ==
    /\ launcher[k] = "close"
    /\ LauncherGoesTo(k, "setpgid")
    /\ UNCHANGED <<child, ppid, pdeathsig, own_group, reported, ran, descriptorVars>>

ParentClosesWriteEnds(k) ==
    /\ launcher[k] = "close"
    /\ LauncherGoesTo(k, "setpgid")
    /\ holders' = [holders EXCEPT ![k] = @ \ {ppid[k]}]
    /\ UNCHANGED <<child, ppid, pdeathsig, own_group, reported, ran, faults>>

\* Leaves it to the child.
ParentDoesNotSetpgid(k) ==
    /\ launcher[k] = "setpgid"
    /\ LauncherGoesTo(k, "nonblocking")
    /\ UNCHANGED <<child, ppid, pdeathsig, own_group, reported, ran, descriptorVars>>

\* EACCES after the child's execve and ESRCH after its end are no errors.
setParentProcessGroup(k) ==
    /\ launcher[k] = "setpgid"
    /\ own_group' = IF child[k] \in BeforeExec THEN own_group \cup {k} ELSE own_group
    /\ LauncherGoesTo(k, "nonblocking")
    /\ UNCHANGED <<child, ppid, pdeathsig, reported, ran, descriptorVars>>

SetNonBlocking(k) ==
    /\ launcher[k] = "nonblocking"
    /\ LauncherGoesTo(k, "launched")
    /\ UNCHANGED <<child, ppid, pdeathsig, own_group, reported, ran, descriptorVars>>

\* setpgid or setNonBlocking throws: killAndReapChild.
LaunchFails(k) ==
    /\ launcher[k] \in {"setpgid", "nonblocking"}
    /\ Fault
    /\ LauncherGoesTo(k, "failed")
    /\ ChildGoesTo(k, "dead")
    /\ holders' = Without({k})
    /\ UNCHANGED <<ppid, pdeathsig, own_group, reported, ran>>

LauncherStep(k) == ParentClosesWriteEnds(k) \/ setParentProcessGroup(k) \/ SetNonBlocking(k)

-----------------------------------------------------------------------------
\* The ends of a child

\* A launched child gets a signal with its process group, or its program ends.
ChildEnds(k) ==
    /\ \/ launcher[k] = "launched" /\ child[k] \in BeforeExec /\ k \in own_group
       \/ child[k] = "program"
    /\ ChildGoesTo(k, "dead")
    /\ holders' = Without({k})
    /\ UNCHANGED <<launcher, ppid, pdeathsig, own_group, reported, ran, faults>>

\* The daemon has died: its children are killed, those that asked for it, and
\* adopted.
ParentDies(d) ==
    LET orphans == {k \in Children : ppid[k] = d}
        killed == orphans \cap pdeathsig
    IN  /\ child' = [k \in Children |-> IF k \in killed THEN "dead" ELSE child[k]]
        /\ ppid' = [k \in Children |-> IF k \in orphans THEN Reaper ELSE ppid[k]]
        /\ holders' = Without({d} \cup killed)
        /\ UNCHANGED <<launcher, pdeathsig, own_group, reported, ran>>
=============================================================================
