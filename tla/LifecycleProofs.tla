-------------------------- MODULE LifecycleProofs ---------------------------
(***************************************************************************)
(* Lifecycle for any number of daemons and children and any number of      *)
(* crashes and failing calls: no program outlives its daemon, launched     *)
(* children lead their group, the start-up pipe tells the truth, and the   *)
(* path leads to the daemon that serves.                                   *)
(***************************************************************************)
EXTENDS Lifecycle, TLAPS

AfterPrctl == {"getppid", "setpgid", "dup2", "execve", "program"}
AfterGetppid == {"setpgid", "dup2", "execve", "program"}
AfterSetpgid == {"dup2", "execve", "program"}

(***************************************************************************)
(* What holds of one child at every step of it and of its daemon.  Each of *)
(* the three safety properties needs the calls that came before: a child   *)
(* past getppid has a parent because it was in pdeathsig when it looked;   *)
(* one past setpgid has its group, and so has one whose daemon came first; *)
(* and a daemon holds the pipe of no child but the one it is launching, so *)
(* that no child forked later inherits it.                                 *)
(***************************************************************************)
DiesWithParent(k) ==
    /\ child[k] \in AfterPrctl => k \in pdeathsig
    /\ child[k] \in {"none", "prctl"} => k \notin pdeathsig
    /\ child[k] \in AfterGetppid => ppid[k] # Reaper

HasGroup(k) ==
    /\ child[k] \in AfterSetpgid => k \in own_group
    /\ launcher[k] \in {"nonblocking", "launched"} /\ child[k] # "dead" => k \in own_group

PipeOK(k) ==
    /\ holders[k] \subseteq Daemons \cup {k}
    /\ k \in holders[k] <=> child[k] \in BeforeExec
    /\ \A d \in Daemons : d \in holders[k] => launcher[k] = "close" /\ ppid[k] = d

ReportOK(k) ==
    /\ k \in reported => child[k] = "dead"
    /\ k \in ran => child[k] \in {"program", "dead"}
    /\ ~(k \in reported /\ k \in ran)

ChildInv(k) ==
    /\ child[k] = "none" <=> launcher[k] = "none"
    /\ DiesWithParent(k)
    /\ HasGroup(k)
    /\ PipeOK(k)
    /\ ReportOK(k)

(***************************************************************************)
(* From bind to close a daemon owns the path.  Unless daemons contended,   *)
(* the path then names its socket and no other daemon is past connect,     *)
(* where it finds the owner listening and gives up.                        *)
(***************************************************************************)
Owner(d) == step[d] \in {"chmod", "listen", "serving"}

PathOK ==
    /\ Contention => contended
    /\ contended \in BOOLEAN
    /\ ~contended =>
          \A d \in Daemons : Owner(d) =>
              /\ path = d
              /\ \A e \in Daemons \ {d} : step[e] \in {"off", "gone", "lstat", "connect"}

HoldersOK == holders \in [Daemons \cup Children -> SUBSET (Daemons \cup Children)]

\* The inductive invariant of daemons and children.
LifecycleInv ==
    /\ LifecycleTypeOK
    /\ HoldersOK
    /\ \A k \in Children : ChildInv(k)
    /\ PathOK

-----------------------------------------------------------------------------
\* What the three kinds of steps have in common.

\* The step leaves child k alone.
SameChild(k) ==
    /\ child'[k] = child[k] /\ launcher'[k] = launcher[k] /\ ppid'[k] = ppid[k]
    /\ holders'[k] = holders[k]
    /\ k \in pdeathsig' <=> k \in pdeathsig
    /\ k \in own_group' <=> k \in own_group
    /\ k \in reported' <=> k \in reported
    /\ k \in ran' <=> k \in ran

LEMMA SameChildKeepsInv ==
    ASSUME NEW k \in Children, ChildInv(k), SameChild(k)
    PROVE  ChildInv(k)'
BY DEF ChildInv, DiesWithParent, HasGroup, PipeOK, ReportOK, SameChild

\* The listening sockets: the last part of the type invariant.
ListenersOK ==
    \A d \in Daemons :
        /\ d \in holders[d] <=> step[d] \in {"chmod", "listen", "serving"}
        /\ holders[d] \subseteq {d} \cup {k \in Children : child[k] \in BeforeExec}

\* The rest of it.
TypesOK ==
    /\ path \in {NoFile, Foreign, Left} \cup Daemons
    /\ step \in [Daemons -> {"off", "lstat", "connect", "unlink", "bind", "chmod",
                             "listen", "serving", "closed", "gone"}]
    /\ child \in [Children -> BeforeExec \cup {"none", "program", "dead"}]
    /\ launcher \in [Children -> {"none", "close", "setpgid", "nonblocking",
                                  "launched", "failed"}]
    /\ ppid \in [Children -> Daemons \cup {Reaper}]
    /\ pdeathsig \cup own_group \cup reported \cup ran \subseteq Children
    /\ faults \in 0 .. MaxFaults

LEMMA TypesAreTypes == LifecycleTypeOK <=> TypesOK /\ ListenersOK
BY DEF LifecycleTypeOK, TypesOK, ListenersOK

\* A failing call or a crash is counted within the bound.
LEMMA FaultsInRange ==
    ASSUME faults \in 0 .. MaxFaults, Fault \/ UNCHANGED faults
    PROVE  faults' \in 0 .. MaxFaults
BY DescriptorsAssumption DEF Fault

LEMMA InitEstablishesInv == Init => LifecycleInv
<1> SUFFICES ASSUME Init PROVE LifecycleInv
  OBVIOUS
<1> USE DEF Init, DescriptorsInit, PathInit, LauncherInit
<1>1. TypesOK
  BY DescriptorsAssumption DEF TypesOK
<1>2. ListenersOK /\ HoldersOK
  BY DEF ListenersOK, HoldersOK
<1>3. ASSUME NEW k \in Children PROVE ChildInv(k)
  BY DEF ChildInv, DiesWithParent, HasGroup, PipeOK, ReportOK, BeforeExec,
         AfterPrctl, AfterGetppid, AfterSetpgid
<1>4. PathOK
  BY DEF PathOK, Contention, Owner
<1> QED
  BY <1>1, <1>2, <1>3, <1>4, TypesAreTypes DEF LifecycleInv

-----------------------------------------------------------------------------
\* Steps of daemons on the path

PathStep(d) == Starts(d) \/ StartUp(d) \/ Fails(d)

\* They open and close the daemon's own listening socket and nothing else.
LEMMA PathStepHolders ==
    ASSUME LifecycleInv, NEW d \in Daemons, PathStep(d)
    PROVE  /\ HoldersOK'
           /\ \A f \in (Daemons \cup Children) \ {d} : holders'[f] = holders[f]
           /\ holders'[d] \in {holders[d], {d}, holders[d] \ {d}}
<1> USE DEF LifecycleInv, HoldersOK
<1>1. holders' \in {holders, [holders EXCEPT ![d] = {d}], [holders EXCEPT ![d] = @ \ {d}]}
  BY DEF PathStep, Starts, StartUp, Lstat, Connect, Unlink, Bind, BindFails, Chmod,
         Listen, Fails, CloseListener, descriptorVars
<1> QED
  BY <1>1

LEMMA PathStepKeepsTypes ==
    ASSUME LifecycleInv, NEW d \in Daemons, PathStep(d), UNCHANGED launcherVars
    PROVE  TypesOK'
<1>1. TypesOK
  BY TypesAreTypes DEF LifecycleInv
<1>2. Fault \/ UNCHANGED faults
  BY DEF PathStep, Starts, StartUp, Lstat, Connect, Unlink, Bind, BindFails, Chmod,
         Listen, Fails, descriptorVars
<1>3. faults' \in 0 .. MaxFaults
  BY <1>1, <1>2, FaultsInRange DEF TypesOK
<1>4. path' \in {path, NoFile, d}
  BY DEF PathStep, Starts, StartUp, Lstat, Connect, Unlink, Bind, BindFails, Chmod,
         Listen, Fails, CloseListener
<1>5. \E s \in {"off", "lstat", "connect", "unlink", "bind", "chmod", "listen",
                "serving", "closed", "gone"} : GoesTo(d, s)
  BY DEF PathStep, Starts, StartUp, Lstat, Connect, Unlink, Bind, BindFails, Chmod,
         Listen, Fails, CloseListener
<1>6. step' \in [Daemons -> {"off", "lstat", "connect", "unlink", "bind", "chmod",
                             "listen", "serving", "closed", "gone"}]
  BY <1>1, <1>5 DEF TypesOK, GoesTo
<1> QED
  BY <1>1, <1>3, <1>4, <1>6 DEF TypesOK, launcherVars

LEMMA PathStepKeepsListeners ==
    ASSUME LifecycleInv, NEW d \in Daemons, PathStep(d), UNCHANGED launcherVars
    PROVE  ListenersOK'
<1>1. TypesOK /\ ListenersOK /\ HoldersOK
  BY TypesAreTypes DEF LifecycleInv
<1>2. /\ \A f \in (Daemons \cup Children) \ {d} : holders'[f] = holders[f]
      /\ holders'[d] \in {holders[d], {d}, holders[d] \ {d}}
      /\ child' = child
  BY PathStepHolders DEF launcherVars
<1>3. ASSUME NEW e \in Daemons \ {d}
      PROVE  holders'[e] = holders[e] /\ step'[e] = step[e]
  <2>1. step'[e] = step[e]
    BY <1>1 DEF PathStep, Starts, StartUp, Lstat, Connect, Unlink, Bind, BindFails,
                Chmod, Listen, Fails, CloseListener, TypesOK, GoesTo
  <2> QED
    BY <1>2, <2>1
<1>4. holders'[d] \subseteq {d} \cup {k \in Children : child[k] \in BeforeExec}
  BY <1>1, <1>2 DEF ListenersOK
<1>5. d \in holders'[d] <=> step'[d] \in {"chmod", "listen", "serving"}
  <2> USE <1>1 DEF TypesOK, HoldersOK, ListenersOK, GoesTo
  <2>1. CASE Starts(d) \/ Lstat(d) \/ Connect(d) \/ Unlink(d) \/ BindFails(d) \/ Listen(d)
    BY <2>1 DEF Starts, Lstat, Connect, Unlink, BindFails, Listen, descriptorVars
  <2>2. CASE Bind(d)
    BY <2>2 DEF Bind
  <2>3. CASE Chmod(d)
    BY <2>3 DEF Chmod, CloseListener
  <2>4. CASE Fails(d)
    BY <2>4 DEF Fails, CloseListener
  <2> QED
    BY <2>1, <2>2, <2>3, <2>4 DEF PathStep, StartUp
<1> QED
  BY <1>1, <1>2, <1>3, <1>4, <1>5 DEF ListenersOK

\* What is left to show of PathOK after a step that was observed.
LEMMA ObservedStep ==
    ASSUME PathOK, Observe,
           ~contended /\ ~Contention /\ ~Contention' =>
              \A e \in Daemons : Owner(e)' =>
                  /\ path' = e
                  /\ \A f \in Daemons \ {e} : step'[f] \in {"off", "gone", "lstat", "connect"}
    PROVE  PathOK'
BY DEF PathOK, Observe

\* No daemon but d owns the path, and none moves: ownership can only end.
LEMMA PathStepKeepsPath ==
    ASSUME LifecycleInv, NEW d \in Daemons, PathStep(d), Observe
    PROVE  PathOK'
<1>1. TypesOK /\ ListenersOK /\ PathOK
  BY TypesAreTypes DEF LifecycleInv
<1> SUFFICES ASSUME ~contended, ~Contention, ~Contention', NEW e \in Daemons, Owner(e)'
             PROVE  /\ path' = e
                    /\ \A f \in Daemons \ {e} : step'[f] \in {"off", "gone", "lstat", "connect"}
  BY <1>1, ObservedStep
<1> DEFINE Quiet == {"off", "gone", "lstat", "connect"}
           Rest == {"off", "serving", "gone"}
<1>2. /\ step'[d] \in {"off", "lstat", "connect", "unlink", "bind", "chmod", "listen",
                       "serving", "closed", "gone"}
      /\ \A f \in Daemons \ {d} : step'[f] = step[f]
  <2>1. \E s \in {"off", "lstat", "connect", "unlink", "bind", "chmod", "listen",
                  "serving", "closed", "gone"} : GoesTo(d, s)
    BY DEF PathStep, Starts, StartUp, Lstat, Connect, Unlink, Bind, BindFails, Chmod,
           Listen, Fails, CloseListener
  <2> QED
    BY <1>1, <2>1 DEF TypesOK, GoesTo
<1>3. \A g, h \in Daemons : g # h => step[g] \in Rest \/ step[h] \in Rest
  BY DEF Contention
<1>4. \A g \in Daemons : Owner(g) =>
         path = g /\ \A f \in Daemons \ {g} : step[f] \in Quiet
  BY <1>1 DEF PathOK
<1>5. CASE e # d
  \* e was the owner, so that d is at most at connect, and finds e listening.
  <2>1. Owner(e) /\ path = e /\ \A f \in Daemons \ {e} : step[f] \in Quiet
    BY <1>2, <1>4, <1>5 DEF Owner
  <2>2. step[d] \in Quiet
    BY <1>5, <2>1
  <2>3. step[d] \in {"lstat", "connect"} => step[e] = "serving"
    BY <1>3, <1>5, <2>1 DEF Owner
  <2>4. path # NoFile /\ path # Foreign
    BY <2>1, UnixSocketAssumption
  <2>5. path' = path /\ step'[d] \in Quiet
    <3>1. CASE Starts(d)
      BY <1>1, <3>1 DEF Starts, TypesOK, GoesTo
    <3>2. CASE Lstat(d)
      BY <1>1, <2>4, <3>2 DEF Lstat, TypesOK, GoesTo
    <3>3. CASE Connect(d)
      <4>1. IsListening
        BY <1>1, <2>1, <2>3, <3>3 DEF Connect, IsListening, ListenersOK
      <4> QED
        BY <1>1, <3>3, <4>1 DEF Connect, TypesOK, GoesTo
    <3>4. CASE Fails(d)
      BY <1>1, <2>2, <3>4 DEF Fails, TypesOK, GoesTo
    <3>5. CASE Unlink(d) \/ Bind(d) \/ BindFails(d) \/ Chmod(d) \/ Listen(d)
      BY <2>2, <3>5 DEF Unlink, Bind, BindFails, Chmod, Listen
    <3> QED
      BY <3>1, <3>2, <3>3, <3>4, <3>5 DEF PathStep, StartUp
  <2> QED
    BY <1>2, <2>1, <2>5
<1>6. CASE e = d
  <2>1. CASE Bind(d)
    \* The others are not on their way; one that served would own the path.
    <3>1. path' = d /\ step[d] = "bind"
      BY <2>1 DEF Bind
    <3>2. ASSUME NEW f \in Daemons \ {d} PROVE step[f] \in Quiet
      <4>1. step[f] \in Rest
        BY <1>3, <3>1
      <4>2. step[f] # "serving"
        BY <1>4, <3>1 DEF Owner
      <4> QED
        BY <4>1, <4>2
    <3> QED
      BY <1>2, <1>6, <3>1, <3>2
  <2>2. CASE Chmod(d) \/ Listen(d)
    <3>1. Owner(d)
      BY <2>2 DEF Chmod, Listen, Owner
    <3>2. path' = path
      BY <2>2 DEF Chmod, Listen, CloseListener
    <3> QED
      BY <1>2, <1>4, <1>6, <3>1, <3>2
  <2>3. CASE Starts(d) \/ Lstat(d) \/ Connect(d) \/ Unlink(d) \/ BindFails(d) \/ Fails(d)
    <3>1. step'[d] \in {"lstat", "bind", "off", "connect", "unlink", "closed"}
      BY <1>1, <2>3 DEF Starts, Lstat, Connect, Unlink, BindFails, Fails, CloseListener,
                        TypesOK, GoesTo
    <3> QED
      BY <1>6, <3>1 DEF Owner
  <2> QED
    BY <2>1, <2>2, <2>3 DEF PathStep, StartUp
<1> QED
  BY <1>5, <1>6

LEMMA PathStepKeepsInv ==
    ASSUME LifecycleInv, NEW d \in Daemons, PathStep(d), OnThePath
    PROVE  LifecycleInv'
<1>1. UNCHANGED launcherVars /\ Observe
  BY DEF OnThePath
<1>2. ASSUME NEW k \in Children PROVE ChildInv(k)'
  <2>1. holders'[k] = holders[k]
    BY PathStepHolders, DescriptorsAssumption
  <2>2. SameChild(k)
    BY <1>1, <2>1 DEF SameChild, launcherVars
  <2> QED
    BY <2>2, SameChildKeepsInv DEF LifecycleInv
<1>3. TypesOK' /\ ListenersOK'
  BY <1>1, PathStepKeepsTypes, PathStepKeepsListeners
<1>4. LifecycleTypeOK'
  BY <1>3 DEF LifecycleTypeOK, TypesOK, ListenersOK
<1> QED
  BY <1>1, <1>2, <1>4, PathStepHolders, PathStepKeepsPath DEF LifecycleInv

-----------------------------------------------------------------------------
\* Steps of launchProcess and of a child

\* What a step that concerns child k alone has to show.
LEMMA LaunchStepKeepsInv ==
    ASSUME LifecycleInv, InLaunch, NEW k \in Children,
           TypesOK', HoldersOK', ChildInv(k)',
           \A c \in Children \ {k} : SameChild(c),
           \A d \in Daemons :
              /\ d \in holders'[d] <=> d \in holders[d]
              /\ holders'[d] \subseteq holders[d] \cup {k}
              /\ k \in holders'[d] => child'[k] \in BeforeExec
    PROVE  LifecycleInv'
<1>1. TypesOK /\ ListenersOK /\ PathOK
  BY TypesAreTypes DEF LifecycleInv
<1>2. path' = path /\ step' = step /\ Observe
  BY DEF InLaunch, socketVars
<1>3. ASSUME NEW c \in Children PROVE ChildInv(c)'
  BY SameChildKeepsInv DEF LifecycleInv
<1>4. ListenersOK'
  <2>1. ASSUME NEW d \in Daemons, NEW x \in holders'[d], x # d
        PROVE  x \in Children /\ child'[x] \in BeforeExec
    <3>1. CASE x = k
      BY <3>1
    <3>2. CASE x # k
      BY <1>1, <2>1, <3>2 DEF ListenersOK, SameChild
    <3> QED
      BY <3>1, <3>2
  <2> QED
    BY <1>1, <1>2, <2>1 DEF ListenersOK
<1>5. LifecycleTypeOK'
  BY <1>4 DEF LifecycleTypeOK, TypesOK, ListenersOK
<1>6. PathOK'
  BY <1>1, <1>2, ObservedStep DEF PathOK, Owner
<1> QED
  BY <1>3, <1>5, <1>6 DEF LifecycleInv

\* The end or the execve of child k takes no pipe from anybody else.
LEMMA WithoutChild ==
    ASSUME LifecycleInv, NEW k \in Children, holders' = Without({k})
    PROVE  /\ HoldersOK'
           /\ \A c \in Children \ {k} : holders'[c] = holders[c]
           /\ holders'[k] = holders[k] \ {k}
           /\ \A d \in Daemons : /\ d \in holders'[d] <=> d \in holders[d]
                                 /\ holders'[d] \subseteq holders[d]
                                 /\ k \notin holders'[d]
<1>1. HoldersOK /\ Daemons \cap Children = {}
  BY DescriptorsAssumption DEF LifecycleInv
<1>2. \A f \in Daemons \cup Children : holders'[f] = holders[f] \ {k}
  BY DEF Without
<1>3. HoldersOK'
  BY <1>1 DEF Without, HoldersOK
<1>4. ASSUME NEW c \in Children \ {k} PROVE holders'[c] = holders[c]
  <2>1. holders[c] \subseteq Daemons \cup {c}
    BY DEF LifecycleInv, ChildInv, PipeOK
  <2> QED
    BY <1>1, <1>2, <2>1
<1> QED
  BY <1>1, <1>2, <1>3, <1>4

\* prctl, getppid with a parent, setpgid and dup2: the child goes on.
ChildGoesOn(k) ==
    \/ Prctl(k)
    \/ /\ child[k] = "getppid" /\ ppid[k] # Reaper /\ ChildGoesTo(k, "setpgid")
       /\ UNCHANGED <<launcher, ppid, pdeathsig, own_group, reported, ran, holders, faults>>
    \/ ChildSetpgid(k)
    \/ Dup2(k)

LEMMA ChildGoesOnKeepsInv ==
    ASSUME LifecycleInv, NEW k \in Children, ChildGoesOn(k), InLaunch
    PROVE  LifecycleInv'
<1>1. TypesOK /\ HoldersOK /\ ChildInv(k)
  BY TypesAreTypes DEF LifecycleInv
<1>2. path' = path /\ step' = step
  BY DEF InLaunch, socketVars
<1> USE DEF ChildGoesOn, Prctl, ChildSetpgid, Dup2, ChildGoesTo, descriptorVars
<1>3. holders' = holders /\ child'[k] \in BeforeExec
  BY <1>1 DEF TypesOK, BeforeExec
<1>4. TypesOK'
  BY <1>1, <1>2 DEF TypesOK, BeforeExec
<1>5. ChildInv(k)'
  BY <1>1 DEF TypesOK, ChildInv, DiesWithParent, HasGroup, PipeOK, ReportOK,
              BeforeExec, AfterPrctl, AfterGetppid, AfterSetpgid
<1>6. \A c \in Children \ {k} : SameChild(c)
  BY <1>1 DEF TypesOK, SameChild
<1>7. HoldersOK'
  BY <1>1, <1>3 DEF HoldersOK
<1> QED
  BY <1>3, <1>4, <1>5, <1>6, <1>7, LaunchStepKeepsInv

\* The child runs its program, reports an error and ends, is killed, or ends.
ChildLeaves(k) ==
    \/ Execve(k)
    \/ child[k] = "getppid" /\ reportChildStartupError(k) /\ UNCHANGED faults
    \/ ExecveFails(k)
    \/ ChildFails(k)
    \/ LaunchFails(k)
    \/ ChildEnds(k)

LEMMA ChildLeavesKeepsInv ==
    ASSUME LifecycleInv, NEW k \in Children, ChildLeaves(k), InLaunch
    PROVE  LifecycleInv'
<1>1. TypesOK /\ HoldersOK /\ ChildInv(k)
  BY TypesAreTypes DEF LifecycleInv
<1>2. path' = path /\ step' = step
  BY DEF InLaunch, socketVars
<1> USE DEF ChildLeaves, Execve, reportChildStartupError, ExecveFails, ChildFails,
            LaunchFails, ChildEnds, ChildGoesTo, LauncherGoesTo
<1>3. holders' = Without({k}) /\ child'[k] \in {"program", "dead"}
  BY <1>1 DEF TypesOK
<1>4. /\ HoldersOK'
      /\ \A c \in Children \ {k} : holders'[c] = holders[c]
      /\ holders'[k] = holders[k] \ {k}
      /\ \A d \in Daemons : /\ d \in holders'[d] <=> d \in holders[d]
                            /\ holders'[d] \subseteq holders[d]
                            /\ k \notin holders'[d]
  BY <1>3, WithoutChild
<1>5. TypesOK'
  <2>1. faults' \in 0 .. MaxFaults
    BY <1>1, FaultsInRange DEF TypesOK
  <2> QED
    BY <1>1, <1>2, <2>1 DEF TypesOK
<1>6. PipeOK(k)'
  <2>1. CASE LaunchFails(k)
    BY <1>1, <1>3, <1>4, <2>1 DEF ChildInv, PipeOK, TypesOK, BeforeExec
  <2>2. CASE ~LaunchFails(k)
    <3>1. launcher' = launcher /\ ppid' = ppid
      BY <2>2
    <3> QED
      BY <1>1, <1>3, <1>4, <3>1 DEF ChildInv, PipeOK, BeforeExec
  <2> QED
    BY <2>1, <2>2
<1>7. ChildInv(k)'
  BY <1>1, <1>6 DEF TypesOK, ChildInv, DiesWithParent, HasGroup, ReportOK,
                    BeforeExec, AfterPrctl, AfterGetppid, AfterSetpgid
<1>8. \A c \in Children \ {k} : SameChild(c)
  BY <1>1, <1>4 DEF TypesOK, SameChild
<1> QED
  BY <1>4, <1>5, <1>7, <1>8, LaunchStepKeepsInv

\* The daemon's own steps: after the first it holds no pipe's write end.
LEMMA LauncherStepKeepsInv ==
    ASSUME LifecycleInv, NEW d \in Daemons, NEW k \in Children, ppid[k] = d,
           LauncherStep(k), InLaunch
    PROVE  LifecycleInv'
<1>1. TypesOK /\ HoldersOK /\ ListenersOK /\ ChildInv(k) /\ d # k
  BY TypesAreTypes, DescriptorsAssumption DEF LifecycleInv
<1>2. path' = path /\ step' = step
  BY DEF InLaunch, socketVars
<1> USE DEF LauncherStep, ParentClosesWriteEnds, setParentProcessGroup, SetNonBlocking,
            LauncherGoesTo, descriptorVars
<1>3. TypesOK'
  BY <1>1, <1>2 DEF TypesOK
<1>4. /\ HoldersOK' /\ child' = child /\ ppid' = ppid
      /\ \A f \in (Daemons \cup Children) \ {k} : holders'[f] = holders[f]
  BY <1>1 DEF HoldersOK
<1>5. PipeOK(k)'
  <2>1. CASE ParentClosesWriteEnds(k)
    BY <1>1, <2>1 DEF HoldersOK, TypesOK, ChildInv, PipeOK
  <2>2. CASE setParentProcessGroup(k) \/ SetNonBlocking(k)
    <3>1. holders' = holders /\ launcher[k] # "close"
      BY <2>2
    <3> QED
      BY <1>1, <1>4, <3>1 DEF ChildInv, PipeOK
  <2> QED
    BY <2>1, <2>2
<1>6. ChildInv(k)'
  BY <1>1, <1>5 DEF TypesOK, ChildInv, DiesWithParent, HasGroup, ReportOK,
                    BeforeExec, AfterPrctl, AfterGetppid, AfterSetpgid
<1>7. \A c \in Children \ {k} : SameChild(c)
  BY <1>1, <1>4 DEF TypesOK, SameChild
<1>8. \A e \in Daemons : holders'[e] = holders[e]
  BY <1>4, DescriptorsAssumption
<1>9. \A e \in Daemons : k \in holders'[e] => child'[k] \in BeforeExec
  BY <1>1, <1>4, <1>8, DescriptorsAssumption DEF ListenersOK
<1> QED
  BY <1>3, <1>4, <1>6, <1>7, <1>8, <1>9, LaunchStepKeepsInv

(***************************************************************************)
(* fork: the daemon is not in another launch, so it holds the write end of *)
(* no other child's pipe, and the new child inherits none.                 *)
(***************************************************************************)
LEMMA LaunchKeepsInv ==
    ASSUME LifecycleInv, NEW d \in Daemons, NEW k \in Children, Launch(d, k)
    PROVE  LifecycleInv'
<1>1. /\ TypesOK /\ HoldersOK /\ ListenersOK /\ ChildInv(k)
      /\ d # k /\ Daemons \cap Children = {}
  BY TypesAreTypes, DescriptorsAssumption DEF LifecycleInv
<1>2. path' = path /\ step' = step /\ InLaunch
  BY DEF Launch, InLaunch, socketVars
<1> USE DEF Launch, Fork, ChildGoesTo, LauncherGoesTo
<1>3. TypesOK'
  BY <1>1, <1>2 DEF TypesOK, BeforeExec
<1>4. /\ HoldersOK' /\ holders'[k] = {d, k}
      /\ \A f \in (Daemons \cup Children) \ {k} :
            holders'[f] = IF d \in holders[f] THEN holders[f] \cup {k} ELSE holders[f]
  BY <1>1 DEF HoldersOK, Inherit
<1>5. child'[k] = "prctl" /\ launcher'[k] = "close" /\ ppid'[k] = d
  BY <1>1 DEF TypesOK
<1>6. ChildInv(k)'
  BY <1>1, <1>4, <1>5 DEF ChildInv, DiesWithParent, HasGroup, PipeOK, ReportOK,
     BeforeExec, AfterPrctl, AfterGetppid, AfterSetpgid
<1>7. ASSUME NEW c \in Children \ {k} PROVE SameChild(c)
  <2>1. d \notin holders[c]
    <3>1. d \in holders[c] => launcher[c] = "close" /\ ppid[c] = d
      BY DEF LifecycleInv, ChildInv, PipeOK
    <3> QED
      BY <3>1 DEF IsLaunching
  <2>2. holders'[c] = holders[c]
    BY <1>4, <2>1
  <2> QED
    BY <1>1, <2>2 DEF TypesOK, SameChild
<1>8. ASSUME NEW e \in Daemons
      PROVE  /\ e \in holders'[e] <=> e \in holders[e]
             /\ holders'[e] \subseteq holders[e] \cup {k}
             /\ k \in holders'[e] => child'[k] \in BeforeExec
  <2>1. e # k /\ child'[k] \in BeforeExec
    BY <1>1, <1>5 DEF BeforeExec
  <2>2. holders'[e] = IF d \in holders[e] THEN holders[e] \cup {k} ELSE holders[e]
    BY <1>4, <2>1
  <2> QED
    BY <2>1, <2>2
<1> QED
  BY <1>2, <1>3, <1>4, <1>6, <1>7, <1>8, LaunchStepKeepsInv

-----------------------------------------------------------------------------
\* The end of a daemon

\* Its children that asked for it die with it, and it holds nothing any more.
LEMMA ParentDiesKeepsChildren ==
    ASSUME LifecycleInv, NEW d \in Daemons, ParentDies(d), NEW k \in Children
    PROVE  ChildInv(k)'
<1>1. /\ TypesOK /\ HoldersOK /\ ChildInv(k)
      /\ d # k /\ Daemons \cap Children = {}
  BY TypesAreTypes, DescriptorsAssumption DEF LifecycleInv
<1> DEFINE killed == {c \in Children : ppid[c] = d} \cap pdeathsig
<1>2. /\ child'[k] = IF k \in killed THEN "dead" ELSE child[k]
      /\ ppid'[k] = IF ppid[k] = d THEN Reaper ELSE ppid[k]
      /\ holders'[k] = holders[k] \ ({d} \cup killed)
      /\ UNCHANGED <<launcher, pdeathsig, own_group, reported, ran>>
  BY DEF ParentDies, Without
<1>3. PipeOK(k)'
  <2>1. holders[k] \subseteq Daemons \cup {k} /\ killed \subseteq Children
    BY <1>1 DEF ChildInv, PipeOK
  <2>2. k \in holders'[k] <=> child'[k] \in BeforeExec
    BY <1>1, <1>2 DEF ChildInv, PipeOK, BeforeExec
  <2>3. ASSUME NEW e \in Daemons, e \in holders'[k]
        PROVE  launcher'[k] = "close" /\ ppid'[k] = e
    BY <1>1, <1>2, <2>3 DEF ChildInv, PipeOK
  <2> QED
    BY <1>2, <2>1, <2>2, <2>3 DEF PipeOK
<1>4. ReportOK(k)' /\ HasGroup(k)'
  BY <1>1, <1>2 DEF ChildInv, ReportOK, HasGroup, AfterSetpgid
<1>5. DiesWithParent(k)'
  BY <1>1, <1>2 DEF ChildInv, DiesWithParent, AfterPrctl, AfterGetppid
<1>6. child'[k] = "none" <=> launcher'[k] = "none"
  BY <1>1, <1>2 DEF ChildInv, DiesWithParent
<1> QED
  BY <1>3, <1>4, <1>5, <1>6 DEF ChildInv

\* A daemon that ends owns nothing; the path goes only with a clean exit.
LEMMA DaemonEndsKeepsInv ==
    ASSUME LifecycleInv, NEW d \in Daemons, Exit(d) \/ Crash(d)
    PROVE  LifecycleInv'
<1>1. /\ TypesOK /\ HoldersOK /\ ListenersOK /\ PathOK
      /\ Daemons \cap Children = {}
  BY TypesAreTypes, DescriptorsAssumption DEF LifecycleInv
<1>2. /\ ParentDies(d) /\ Observe
      /\ step'[d] \in {"off", "gone"}
      /\ \A e \in Daemons \ {d} : step'[e] = step[e]
      /\ step' \in [Daemons -> {"off", "lstat", "connect", "unlink", "bind", "chmod",
                                "listen", "serving", "closed", "gone"}]
  BY <1>1 DEF Exit, Crash, GoesTo, TypesOK
<1>3. TypesOK'
  <2>1. faults' \in 0 .. MaxFaults
    BY <1>1, FaultsInRange DEF TypesOK, Exit, Crash
  <2>2. path' \in {NoFile, Foreign, Left} \cup Daemons
    BY <1>1 DEF TypesOK, Exit, Crash
  <2> QED
    BY <1>1, <1>2, <2>1, <2>2 DEF TypesOK, ParentDies
<1> DEFINE killed == {c \in Children : ppid[c] = d} \cap pdeathsig
<1>4. /\ \A f \in Daemons \cup Children : holders'[f] = holders[f] \ ({d} \cup killed)
      /\ \A k \in Children : child'[k] = IF k \in killed THEN "dead" ELSE child[k]
      /\ HoldersOK'
  BY <1>1, <1>2 DEF ParentDies, Without, HoldersOK
<1>5. ListenersOK'
  <2>1. ASSUME NEW e \in Daemons
        PROVE  e \in holders'[e] <=> step'[e] \in {"chmod", "listen", "serving"}
    BY <1>1, <1>2, <1>4 DEF ListenersOK
  <2>2. ASSUME NEW e \in Daemons, NEW x \in holders'[e], x # e
        PROVE  x \in Children /\ child'[x] \in BeforeExec
    BY <1>1, <1>4, <2>2 DEF ListenersOK
  <2> QED
    BY <2>1, <2>2 DEF ListenersOK
<1>6. PathOK'
  <2> SUFFICES ASSUME ~contended, NEW e \in Daemons, Owner(e)'
               PROVE  /\ path' = e
                      /\ \A f \in Daemons \ {e} :
                            step'[f] \in {"off", "gone", "lstat", "connect"}
    BY <1>1, <1>2, ObservedStep
  <2>1. e # d /\ Owner(e)
    BY <1>2 DEF Owner
  <2>2. path = e /\ \A f \in Daemons \ {e} : step[f] \in {"off", "gone", "lstat", "connect"}
    BY <1>1, <2>1 DEF PathOK
  <2>3. path' = path
    BY <2>1, <2>2 DEF Exit, Crash
  <2> QED
    BY <1>2, <2>1, <2>2, <2>3
<1>7. \A k \in Children : ChildInv(k)'
  BY <1>2, ParentDiesKeepsChildren
<1>8. LifecycleTypeOK'
  BY <1>3, <1>5 DEF LifecycleTypeOK, TypesOK, ListenersOK
<1> QED
  BY <1>4, <1>6, <1>7, <1>8 DEF LifecycleInv

LEMMA StutterKeepsInv == LifecycleInv /\ UNCHANGED vars => LifecycleInv'
<1> SUFFICES ASSUME LifecycleInv, UNCHANGED vars PROVE LifecycleInv'
  OBVIOUS
<1> USE DEF vars, descriptorVars, socketVars, launcherVars
<1>1. LifecycleTypeOK' /\ HoldersOK'
  BY DEF LifecycleInv, LifecycleTypeOK, HoldersOK
<1>2. PathOK'
  BY DEF LifecycleInv, PathOK, Contention, Owner
<1>3. ASSUME NEW k \in Children PROVE ChildInv(k)'
  BY SameChildKeepsInv DEF LifecycleInv, SameChild
<1> QED
  BY <1>1, <1>2, <1>3 DEF LifecycleInv

-----------------------------------------------------------------------------

(***************************************************************************)
(* The inductive invariant holds for any number of daemons and children,   *)
(* wherever crashes and failing calls strike.                              *)
(***************************************************************************)
THEOREM LifecycleInvariance == Spec => []LifecycleInv
<1>1. LifecycleInv /\ [Next]_vars => LifecycleInv'
  <2> SUFFICES ASSUME LifecycleInv, Next PROVE LifecycleInv'
    BY StutterKeepsInv
  <2>1. ASSUME NEW d \in Daemons, Start(d) \/ Fail(d) PROVE LifecycleInv'
    BY <2>1, PathStepKeepsInv DEF Start, Fail, PathStep
  <2>2. ASSUME NEW d \in Daemons, StartUp(d) /\ OnThePath PROVE LifecycleInv'
    BY <2>2, PathStepKeepsInv DEF PathStep
  <2>3. ASSUME NEW d \in Daemons, Exit(d) \/ Crash(d) PROVE LifecycleInv'
    BY <2>3, DaemonEndsKeepsInv
  <2>4. ASSUME NEW d \in Daemons, NEW k \in Children, ppid[k] = d, LauncherStep(k), InLaunch
        PROVE  LifecycleInv'
    BY <2>4, LauncherStepKeepsInv
  <2>5. ASSUME NEW d \in Daemons, NEW k \in Children, Launch(d, k) PROVE LifecycleInv'
    BY <2>5, LaunchKeepsInv
  <2>6. ASSUME NEW k \in Children, InLaunch,
               LaunchFails(k) \/ ChildFails(k) \/ ChildEnds(k)
        PROVE  LifecycleInv'
    BY <2>6, ChildLeavesKeepsInv DEF ChildLeaves
  <2>7. ASSUME NEW k \in Children, Child(k) PROVE LifecycleInv'
    <3>1. (ChildGoesOn(k) \/ ChildLeaves(k)) /\ InLaunch
      BY <2>7 DEF Child, ChildStep, Getppid, ChildGoesOn, ChildLeaves
    <3> QED
      BY <3>1, ChildGoesOnKeepsInv, ChildLeavesKeepsInv
  <2> QED
    BY <2>1, <2>2, <2>3, <2>4, <2>5, <2>6, <2>7 DEF Next, Daemon
<1> QED
  BY <1>1, InitEstablishesInv, PTL DEF Spec

(***************************************************************************)
(* Every variable keeps its type, and a listening socket is held by its    *)
(* daemon from bind to close, and by children on their way to execve.      *)
(***************************************************************************)
THEOREM LifecycleTypeCorrect == Spec => []LifecycleTypeOK
<1>1. LifecycleInv => LifecycleTypeOK
  BY DEF LifecycleInv
<1> QED
  BY <1>1, LifecycleInvariance, PTL

(***************************************************************************)
(* No program runs without its daemon, at whichever step of the child the  *)
(* daemon dies.                                                            *)
(***************************************************************************)
THEOREM NoProgramIsOrphaned == Spec => []NoOrphanPrograms
<1>1. LifecycleInv => NoOrphanPrograms
  BY DEF LifecycleInv, ChildInv, DiesWithParent, AfterGetppid, NoOrphanPrograms
<1> QED
  BY <1>1, LifecycleInvariance, PTL

(***************************************************************************)
(* The setpgid of daemon and child may come in either order: a child that  *)
(* launchProcess has returned leads its own group as long as it lives.     *)
(***************************************************************************)
THEOREM LaunchedChildLeadsItsGroup == Spec => []LaunchedChildHasItsGroup
<1>1. LifecycleInv => LaunchedChildHasItsGroup
  BY DEF LifecycleInv, ChildInv, HasGroup, LaunchedChildHasItsGroup
<1> QED
  BY <1>1, LifecycleInvariance, PTL

(***************************************************************************)
(* The end of file on the start-up pipe means that the child runs its      *)
(* program or is dead, and an error in it that the program never ran.      *)
(***************************************************************************)
THEOREM StartupPipeTellsTheTruth == Spec => []StartupPipeIsTrue
<1>1. LifecycleInv => StartupPipeIsTrue
  <2> SUFFICES ASSUME LifecycleInv, NEW k \in Children
               PROVE  /\ launcher[k] = "launched" =>
                            (holders[k] = {} <=> child[k] \notin BeforeExec)
                      /\ ~(k \in reported /\ k \in ran)
    BY DEF StartupPipeIsTrue
  <2> QED
    BY DEF LifecycleInv, ChildInv, PipeOK, ReportOK
<1> QED
  BY <1>1, LifecycleInvariance, PTL

(***************************************************************************)
(* Unless two daemons were on their way to or from the socket at one time, *)
(* the path names the socket of every daemon that serves: there is one.    *)
(***************************************************************************)
THEOREM PathIsTheDaemons == Spec => []PathLeadsToTheDaemon
<1>1. LifecycleInv => PathLeadsToTheDaemon
  BY DEF LifecycleInv, PathOK, Owner, PathLeadsToTheDaemon
<1> QED
  BY <1>1, LifecycleInvariance, PTL
=============================================================================
