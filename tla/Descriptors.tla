---------------------------- MODULE Descriptors -----------------------------
(***************************************************************************)
(* What the kernel keeps for the daemons and the children they fork        *)
(* (external): who holds which descriptor that others wait for.  A daemon  *)
(* names its listening socket as well, and a child the write end of its    *)
(* start-up error pipe.  Each process is started or forked once.           *)
(***************************************************************************)
EXTENDS Naturals, FiniteSets

CONSTANTS
    Daemons,        \* the runnerd processes, one after another or at once
    Children,       \* the processes they fork
    MaxFaults       \* crashes and failing system calls in a behaviour

ASSUME DescriptorsAssumption ==
    /\ Daemons \cap Children = {}
    /\ MaxFaults \in Nat

VARIABLES
    holders,        \* the processes that have each descriptor open
    faults          \* how often something has failed

descriptorVars == <<holders, faults>>

DescriptorsInit ==
    /\ holders = [f \in Daemons \cup Children |-> {}]
    /\ faults = 0

\* fork: the child has what the parent has, and this pipe is new.
Inherit(d, k) ==
    [f \in Daemons \cup Children |->
        IF f = k THEN {d, k}
        ELSE IF d \in holders[f] THEN holders[f] \cup {k}
        ELSE holders[f]]

\* These processes end, or their descriptors are closed by execve: all of them
\* are O_CLOEXEC.
Without(processes) == [f \in Daemons \cup Children |-> holders[f] \ processes]

Fault == faults < MaxFaults /\ faults' = faults + 1
=============================================================================
