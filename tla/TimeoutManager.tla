--------------------------- MODULE TimeoutManager ---------------------------
(***************************************************************************)
(* TimeoutManager (include/runnerd/timeout_manager.h,                      *)
(* src/timeout_manager.cpp): one timerfd for all deadlines, a heap whose   *)
(* entries are dropped lazily, and the generation of each job's one valid  *)
(* entry.                                                                  *)
(*                                                                         *)
(* Time.  now is the steady clock, one tick is its resolution (1 ns), so   *)
(* the shortest timer the code can set is one tick.  A function that reads *)
(* the clock twice may see it advance in between: those actions choose the *)
(* second reading, `later`.  The clock stops at MaxTime and schedule keeps *)
(* every deadline within it.                                               *)
(*                                                                         *)
(* The timerfd (external) is timer, the time it fires (0: disarmed), and   *)
(* readable, the unread expirations.  epoll_wait copies readiness into the *)
(* batch of events (event), and other handlers of the batch may run before *)
(* handleReadable does.                                                    *)
(***************************************************************************)
EXTENDS Job, Integers, FiniteSets

CONSTANTS
    GenerationSpace,    \* number of values of a generation: 2^64 in the code
    Timeouts,           \* the timeouts callers ask for, in ticks
    MaxTime             \* bound of the clock

ASSUME TimeoutManagerAssumption ==
    /\ GenerationSpace \in Nat /\ GenerationSpace > 1
    /\ Timeouts \in SUBSET (Nat \ {0})
    /\ MaxTime \in Nat /\ MaxTime > 0

VARIABLES
    now,
    deadlines,          \* the heap: a set of entries, ordered by Precedes
    active_generations, \* generation of the valid entry of each job, or 0
    next_generation,
    timer,
    readable,
    event

timeoutVars == <<now, deadlines, active_generations, next_generation,
                 timer, readable, event>>

Generation == 1 .. (GenerationSpace - 1)

DeadlineEntry ==
    [deadline : 1 .. MaxTime, job_id : JobId, generation : Generation]

TimeoutInit ==
    /\ now = 0
    /\ deadlines = {}
    /\ active_generations = [j \in JobId |-> 0]
    /\ next_generation = 1
    /\ timer = 0
    /\ readable = FALSE
    /\ event = FALSE

\* EarlierDeadline, which says nothing of two entries of one job that are due
\* at the same time.
Precedes(a, b) ==
    \/ a.deadline < b.deadline
    \/ a.deadline = b.deadline /\ a.job_id < b.job_id

isCurrent(entry, generations) == generations[entry.job_id] = entry.generation

Current(entries, generations) ==
    {e \in entries : isCurrent(e, generations)}

\* The heaps that popping stale entries off the top may leave: entries that
\* precede every valid one go, the ones that tie with it may stay behind it.
discardStaleEntries(entries, generations) ==
    LET valid == Current(entries, generations)
        behind == {e \in entries : \E v \in valid : v = e \/ Precedes(v, e)}
        tied == {e \in entries \ behind : \E v \in valid : ~Precedes(e, v)}
    IN {behind \cup ties : ties \in SUBSET tied}

\* The time left is passed on as it is, and 0 disarms a timerfd.
remainingUnclamped(deadline, t) ==
    IF deadline <= t THEN 0 ELSE deadline - t

\* it_value of timerfd_settime: 0 would disarm the timer.
remaining(deadline, t) ==
    IF deadline <= t THEN 1 ELSE deadline - t

\* timerfd_settime at time t: arms the timer, or disarms it.
settime(value, t) == timer' = IF value = 0 THEN 0 ELSE t + value

\* Only an earlier deadline is worth a new timer setting, or so it seems.
armToNextDeadlineKeepsTimer(entries, generations, t) ==
    /\ deadlines' \in discardStaleEntries(entries, generations)
    /\ IF Current(entries, generations) = {} THEN timer' = 0
       ELSE \E top \in Current(entries, generations) :
              /\ \A e \in Current(entries, generations) : ~Precedes(e, top)
              /\ IF timer # 0 THEN UNCHANGED timer
                 ELSE settime(remaining(top.deadline, t), t)
    /\ readable' = FALSE

\* Waits for the first valid entry, if any; unread expirations are dropped.
armToNextDeadline(entries, generations, t) ==
    /\ deadlines' \in discardStaleEntries(entries, generations)
    /\ IF Current(entries, generations) = {} THEN timer' = 0
       ELSE \E top \in Current(entries, generations) :
              /\ \A e \in Current(entries, generations) : ~Precedes(e, top)
              /\ settime(remaining(top.deadline, t), t)
    /\ readable' = FALSE

NewEntry(j, timeout) ==
    [deadline |-> now + timeout, job_id |-> j, generation |-> next_generation]

\* The test for an exhausted generation counter is left out.
scheduleIgnoresExhaustion(j, timeout) ==
    /\ now + timeout <= MaxTime
    /\ next_generation' = (next_generation + 1) % GenerationSpace
    /\ active_generations' = [active_generations EXCEPT ![j] = next_generation]
    /\ \E later \in now .. MaxTime :
          /\ now' = later
          /\ armToNextDeadline(deadlines \cup {NewEntry(j, timeout)},
                               active_generations', later)
    /\ UNCHANGED event

\* The code throws, and changes nothing, when next_generation is 0.
schedule(j, timeout) ==
    /\ next_generation # 0
    /\ now + timeout <= MaxTime
    /\ next_generation' = (next_generation + 1) % GenerationSpace
    /\ active_generations' = [active_generations EXCEPT ![j] = next_generation]
    /\ \E later \in now .. MaxTime :
          /\ now' = later
          /\ armToNextDeadline(deadlines \cup {NewEntry(j, timeout)},
                               active_generations', later)
    /\ UNCHANGED event

\* Drops the timer with the deadline.
cancelDisarms(j) ==
    /\ active_generations' = [active_generations EXCEPT ![j] = 0]
    /\ timer' = 0
    /\ UNCHANGED <<now, deadlines, next_generation, readable, event>>

\* The heap entry stays, stale, and the timer may wake the loop for nothing.
cancel(j) ==
    /\ active_generations' = [active_generations EXCEPT ![j] = 0]
    /\ UNCHANGED <<now, deadlines, next_generation, timer, readable, event>>

\* The valid entries that are due at time t.
Due(t) == {e \in Current(deadlines, active_generations) : e.deadline <= t}

\* Reports one job per wake-up.
handleReadableOnlyOne ==
    /\ event
    /\ event' = FALSE
    /\ UNCHANGED next_generation
    /\ \E reported \in SUBSET Due(now) :
          /\ Cardinality(reported) <= 1
          /\ Due(now) # {} => reported # {}
          /\ active_generations' =
                [j \in JobId |-> IF \E e \in reported : e.job_id = j
                                 THEN 0 ELSE active_generations[j]]
          /\ \E later \in now .. MaxTime :
                /\ now' = later
                /\ armToNextDeadline(deadlines \ reported, active_generations', later)

\* The due entries leave the heap, their jobs keep the generation.
handleReadableKeepsGeneration ==
    /\ event
    /\ event' = FALSE
    /\ UNCHANGED <<next_generation, active_generations>>
    /\ \E later \in now .. MaxTime :
          /\ now' = later
          /\ armToNextDeadline(deadlines \ Due(now), active_generations, later)

\* The due entries leave the heap, their jobs are returned to the caller.  The
\* read may find nothing: schedule may have re-armed the timer since epoll_wait.
handleReadable ==
    /\ event
    /\ event' = FALSE
    /\ UNCHANGED next_generation
    /\ active_generations' =
          [j \in JobId |-> IF \E e \in Due(now) : e.job_id = j
                           THEN 0 ELSE active_generations[j]]
    /\ \E later \in now .. MaxTime :
          /\ now' = later
          /\ armToNextDeadline(deadlines \ Due(now), active_generations', later)

Tick ==
    /\ now < MaxTime
    /\ now' = now + 1
    /\ UNCHANGED <<deadlines, active_generations, next_generation,
                   timer, readable, event>>

\* The one tick that an overdue deadline waits may lie beyond the bound.
TimerFires ==
    /\ timer # 0
    /\ timer <= now \/ now = MaxTime
    /\ timer' = 0
    /\ readable' = TRUE
    /\ UNCHANGED <<now, deadlines, active_generations, next_generation, event>>

\* epoll_wait reports the timerfd (level triggered).
PollTimer ==
    /\ readable
    /\ ~event
    /\ event' = TRUE
    /\ UNCHANGED <<now, deadlines, active_generations, next_generation,
                   timer, readable>>

TimeoutNext ==
    \/ \E j \in JobId, timeout \in Timeouts : schedule(j, timeout)
    \/ \E j \in JobId : cancel(j)
    \/ handleReadable
    \/ Tick
    \/ TimerFires
    \/ PollTimer

TimeoutSpec == TimeoutInit /\ [][TimeoutNext]_timeoutVars

\* Time passes, the kernel fires due timers and reports them, and the event loop
\* handles every event of a batch.  Nothing is assumed of the callers.
FairTimeoutSpec ==
    /\ TimeoutSpec
    /\ WF_timeoutVars(Tick)
    /\ WF_timeoutVars(TimerFires)
    /\ WF_timeoutVars(PollTimer)
    /\ WF_timeoutVars(handleReadable)

-----------------------------------------------------------------------------

TimeoutTypeOK ==
    /\ now \in 0 .. MaxTime
    /\ deadlines \in SUBSET DeadlineEntry
    /\ active_generations \in [JobId -> Generation \cup {0}]
    /\ next_generation \in 0 .. (GenerationSpace - 1)
    /\ timer \in 0 .. (MaxTime + 1)
    /\ readable \in BOOLEAN
    /\ event \in BOOLEAN

(***************************************************************************)
(* The generation of every job that has a deadline belongs to an entry of  *)
(* the heap, one that lazy deletion has not dropped, and no two entries    *)
(* share a generation: an old entry never passes for a new deadline.       *)
(***************************************************************************)
GenerationsIdentifyEntries ==
    /\ \A j \in JobId : active_generations[j] # 0 =>
          \E e \in deadlines : e.job_id = j /\ isCurrent(e, active_generations)
    /\ \A e, f \in deadlines : e.generation = f.generation => e = f

(***************************************************************************)
(* No lost wake-up: for every valid deadline the timer has fired unread,   *)
(* or is set to fire by the deadline, or one tick from now if that is past *)
(* (cancel leaves the timer alone, schedule drops an unread expiration,    *)
(* and a timer value of 0 would disarm it).                                *)
(***************************************************************************)
DeadlineIsWatched ==
    \A e \in Current(deadlines, active_generations) :
        \/ readable
        \/ timer # 0 /\ (timer <= e.deadline \/ timer <= now + 1)

\* A step that consumes the event reports the due jobs and keeps the others.
ReportsTheDue ==
    event /\ ~event' =>
        \A j \in JobId : active_generations[j] # 0 =>
            \/ /\ active_generations'[j] = 0
               /\ \E e \in Current(deadlines, active_generations) :
                     e.job_id = j /\ e.deadline <= now
            \/ /\ active_generations'[j] = active_generations[j]
               /\ \E e \in Current(deadlines, active_generations) :
                     e.job_id = j /\ e.deadline > now

(***************************************************************************)
(* handleReadable reports the jobs whose deadline has passed, all of them  *)
(* and no other: not a cancelled or replaced one, none ahead of its time.  *)
(***************************************************************************)
ReportsExactlyTheDue == [][ReportsTheDue]_timeoutVars

\* The timeless view of the manager that Runnerd uses.
AbstractDeadlines == INSTANCE Deadlines WITH
    active_deadlines <- {j \in JobId : active_generations[j] # 0},
    armed <- timer # 0 \/ readable \/ event

(***************************************************************************)
(* The heap, the generations and the timerfd implement Deadlines: what     *)
(* Runnerd assumes of schedule, cancel and handleReadable is what the code *)
(* of TimeoutManager does.                                                 *)
(***************************************************************************)
ImplementsDeadlines == AbstractDeadlines!DeadlinesSpec

(***************************************************************************)
(* Every deadline is reported, cancelled or replaced in the end.           *)
(***************************************************************************)
EveryDeadlineIsReported ==
    \A j \in JobId, g \in Generation :
        active_generations[j] = g ~> active_generations[j] # g
=============================================================================
