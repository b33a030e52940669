------------------------ MODULE TimeoutManagerProofs ------------------------
(***************************************************************************)
(* TimeoutManager for every number of jobs and generations, all timeouts   *)
(* and any length of time: no entry of the heap passes for another, no     *)
(* wake-up is lost, exactly the due jobs are reported, and the manager     *)
(* implements the Deadlines that the daemon is built on.                   *)
(***************************************************************************)
EXTENDS TimeoutManager, TLAPS

(***************************************************************************)
(* The counter is ahead of every generation in the heap until it is used   *)
(* up; without this a new entry could share its generation with an old one *)
(* that lazy deletion has left behind.                                     *)
(***************************************************************************)
CounterIsAhead ==
    next_generation # 0 => \A e \in deadlines : e.generation < next_generation

\* The inductive invariant of the manager.
TimeoutInv ==
    /\ TimeoutTypeOK
    /\ GenerationsIdentifyEntries
    /\ CounterIsAhead
    /\ DeadlineIsWatched

-----------------------------------------------------------------------------

\* Popping stale entries leaves part of the heap, and every valid entry in it.
LEMMA DiscardKeepsCurrent ==
    ASSUME NEW entries, NEW generations,
           NEW left \in discardStaleEntries(entries, generations)
    PROVE  /\ left \subseteq entries
           /\ Current(entries, generations) \subseteq left
           /\ Current(left, generations) = Current(entries, generations)
<1>1. left \subseteq entries /\ Current(entries, generations) \subseteq left
  BY DEF discardStaleEntries, Current
<1> QED
  BY <1>1 DEF Current

(***************************************************************************)
(* The timer after armToNextDeadline: it is set exactly when a valid entry *)
(* exists, and then for the earliest of them or, if that is past, for the  *)
(* next tick.                                                              *)
(***************************************************************************)
LEMMA ArmSetsTimer ==
    ASSUME NEW entries \in SUBSET DeadlineEntry, NEW generations,
           NEW t \in 0 .. MaxTime,
           armToNextDeadline(entries, generations, t)
    PROVE  /\ timer' \in 0 .. (MaxTime + 1)
           /\ timer' # 0 <=> Current(entries, generations) # {}
           /\ \A e \in Current(entries, generations) :
                 timer' <= e.deadline \/ timer' <= t + 1
<1> DEFINE valid == Current(entries, generations)
<1>1. valid \subseteq DeadlineEntry
  BY DEF Current
<1>2. CASE valid = {}
  BY <1>2, TimeoutManagerAssumption DEF armToNextDeadline
<1>3. CASE valid # {}
  <2>1. PICK top \in valid :
           /\ \A e \in valid : ~Precedes(e, top)
           /\ settime(remaining(top.deadline, t), t)
    BY <1>3 DEF armToNextDeadline
  <2>2. /\ top.deadline \in 1 .. MaxTime
        /\ \A e \in valid : e.deadline \in 1 .. MaxTime
    BY <1>1, <2>1 DEF DeadlineEntry
  <2>3. /\ t \in Nat /\ t <= MaxTime /\ MaxTime \in Nat
        /\ top.deadline \in Nat /\ 1 <= top.deadline /\ top.deadline <= MaxTime
    BY <2>2, TimeoutManagerAssumption
  <2>4. timer' = IF top.deadline <= t THEN t + 1 ELSE top.deadline
    <3>1. CASE top.deadline <= t
      BY <2>1, <3>1 DEF settime, remaining
    <3>2. CASE ~(top.deadline <= t)
      <4>1. timer' = IF top.deadline - t = 0 THEN 0 ELSE t + (top.deadline - t)
        BY <2>1, <3>2 DEF settime, remaining
      <4> QED
        BY <2>3, <3>2, <4>1
    <3> QED
      BY <3>1, <3>2
  <2>5. timer' \in 0 .. (MaxTime + 1) /\ timer' # 0
    BY <2>3, <2>4
  <2>6. ASSUME NEW e \in valid PROVE timer' <= e.deadline \/ timer' <= t + 1
    <3>1. e.deadline >= top.deadline
      BY <2>1, <2>2, <2>3 DEF Precedes
    <3> QED
      BY <2>2, <2>3, <2>4, <3>1
  <2> QED
    BY <1>3, <2>5, <2>6
<1> QED
  BY <1>2, <1>3

\* What a step that ends in armToNextDeadline owes the rest of the invariant.
LEMMA ArmKeepsInv ==
    ASSUME TimeoutInv,
           NEW entries \in SUBSET DeadlineEntry, now' \in 0 .. MaxTime,
           armToNextDeadline(entries, active_generations', now'),
           active_generations' \in [JobId -> Generation \cup {0}],
           next_generation' \in 0 .. (GenerationSpace - 1),
           event' \in BOOLEAN,
           \A j \in JobId : active_generations'[j] # 0 =>
               \E e \in entries : e.job_id = j /\ isCurrent(e, active_generations'),
           \A e, f \in entries : e.generation = f.generation => e = f,
           next_generation' # 0 => \A e \in entries : e.generation < next_generation'
    PROVE  TimeoutInv'
<1> DEFINE valid == Current(entries, active_generations')
<1>1. /\ deadlines' \subseteq entries /\ valid \subseteq deadlines'
      /\ Current(deadlines', active_generations') = valid
      /\ readable' = FALSE
  BY DiscardKeepsCurrent DEF armToNextDeadline
<1>2. /\ timer' \in 0 .. (MaxTime + 1)
      /\ timer' # 0 <=> valid # {}
      /\ \A e \in valid : timer' <= e.deadline \/ timer' <= now' + 1
  BY ArmSetsTimer
<1>3. TimeoutTypeOK'
  BY <1>1, <1>2 DEF TimeoutTypeOK
<1>4. GenerationsIdentifyEntries'
  <2>1. ASSUME NEW j \in JobId, active_generations'[j] # 0
        PROVE  \E e \in deadlines' : e.job_id = j /\ isCurrent(e, active_generations')
    BY <1>1, <2>1 DEF Current
  <2> QED
    BY <1>1, <2>1 DEF GenerationsIdentifyEntries
<1>5. CounterIsAhead'
  BY <1>1 DEF CounterIsAhead
<1>6. DeadlineIsWatched'
  BY <1>1, <1>2 DEF DeadlineIsWatched
<1> QED
  BY <1>3, <1>4, <1>5, <1>6 DEF TimeoutInv

\* ++next_generation: a larger generation, or 0 when the counter is used up.
LEMMA NextGenerationIsLarger ==
    ASSUME NEW n \in Generation
    PROVE  LET m == (n + 1) % GenerationSpace
           IN  m \in 0 .. (GenerationSpace - 1) /\ (m # 0 => m = n + 1)
<1>1. GenerationSpace \in Nat /\ GenerationSpace > 1 /\ n \in 1 .. (GenerationSpace - 1)
  BY TimeoutManagerAssumption DEF Generation
<1>2. CASE n + 1 = GenerationSpace
  <2>1. (n + 1) % GenerationSpace = 0
    BY <1>1, <1>2
  <2> QED
    BY <1>1, <2>1
<1>3. CASE n + 1 < GenerationSpace
  <2>1. (n + 1) % GenerationSpace = n + 1
    BY <1>1, <1>3
  <2> QED
    BY <1>1, <1>3, <2>1
<1> QED
  BY <1>1, <1>2, <1>3

\* An instant that follows now, as the second reading of the clock may be.
LEMMA LaterIsInRange ==
    ASSUME TimeoutTypeOK, NEW later \in now .. MaxTime
    PROVE  later \in 0 .. MaxTime
BY TimeoutManagerAssumption DEF TimeoutTypeOK

LEMMA InitEstablishesInv == TimeoutInit => TimeoutInv
<1> SUFFICES ASSUME TimeoutInit PROVE TimeoutInv
  OBVIOUS
<1>1. 0 \in 0 .. MaxTime /\ 0 \in 0 .. (MaxTime + 1) /\ 1 \in 0 .. (GenerationSpace - 1)
  BY TimeoutManagerAssumption
<1>2. TimeoutTypeOK
  BY <1>1 DEF TimeoutInit, TimeoutTypeOK
<1> QED
  BY <1>2 DEF TimeoutInit, TimeoutInv, GenerationsIdentifyEntries, CounterIsAhead,
              DeadlineIsWatched, Current

\* The entry that schedule adds is well formed, and newer than all others.
LEMMA NewEntryIsNew ==
    ASSUME TimeoutInv, NEW j \in JobId, NEW timeout \in Timeouts,
           next_generation # 0, now + timeout <= MaxTime
    PROVE  /\ NewEntry(j, timeout) \in DeadlineEntry
           /\ next_generation \in Generation
           /\ \A e \in deadlines : e.generation < next_generation
           /\ \A e \in deadlines : e.generation \in Generation
<1>1. /\ now \in Nat /\ timeout \in Nat /\ timeout > 0 /\ MaxTime \in Nat
      /\ GenerationSpace \in Nat /\ next_generation \in 0 .. (GenerationSpace - 1)
      /\ deadlines \subseteq DeadlineEntry
  BY TimeoutManagerAssumption DEF TimeoutInv, TimeoutTypeOK
<1>2. now + timeout \in 1 .. MaxTime
  BY <1>1
<1>3. next_generation \in Generation
  BY <1>1 DEF Generation
<1>4. \A e \in deadlines : e.generation < next_generation
  BY DEF TimeoutInv, CounterIsAhead
<1> QED
  BY <1>1, <1>2, <1>3, <1>4 DEF NewEntry, DeadlineEntry

\* schedule: no old entry has the generation of the new one.
LEMMA ScheduleKeepsInv ==
    ASSUME TimeoutInv, NEW j \in JobId, NEW timeout \in Timeouts, schedule(j, timeout)
    PROVE  TimeoutInv'
<1> DEFINE entry == NewEntry(j, timeout)
           entries == deadlines \cup {entry}
<1>1. /\ next_generation # 0 /\ now + timeout <= MaxTime
      /\ next_generation' = (next_generation + 1) % GenerationSpace
      /\ active_generations' = [active_generations EXCEPT ![j] = next_generation]
      /\ event' = event
  BY DEF schedule
<1>2. now' \in now .. MaxTime /\ armToNextDeadline(entries, active_generations', now')
  BY DEF schedule
<1>3. /\ entry \in DeadlineEntry /\ next_generation \in Generation
      /\ \A e \in deadlines : e.generation < next_generation
      /\ \A e \in deadlines : e.generation \in Generation
  BY <1>1, NewEntryIsNew
<1>4. entry.generation = next_generation /\ entry.job_id = j
  BY DEF NewEntry
<1>5. /\ next_generation' \in 0 .. (GenerationSpace - 1)
      /\ next_generation' # 0 => next_generation' = next_generation + 1
  BY <1>1, <1>3, NextGenerationIsLarger
<1> HIDE DEF entry
<1>6. now' \in 0 .. MaxTime
  BY <1>2, LaterIsInRange DEF TimeoutInv
<1>7. /\ entries \in SUBSET DeadlineEntry /\ event' \in BOOLEAN
      /\ active_generations' \in [JobId -> Generation \cup {0}]
  BY <1>1, <1>3 DEF TimeoutInv, TimeoutTypeOK
<1>8. ASSUME NEW i \in JobId, active_generations'[i] # 0
      PROVE  \E e \in entries : e.job_id = i /\ isCurrent(e, active_generations')
  <2>1. CASE i = j
    BY <1>1, <1>4, <2>1 DEF isCurrent, TimeoutInv, TimeoutTypeOK
  <2>2. CASE i # j
    <3>1. active_generations'[i] = active_generations[i]
      BY <1>1, <2>2 DEF TimeoutInv, TimeoutTypeOK
    <3>2. PICK e \in deadlines : e.job_id = i /\ isCurrent(e, active_generations)
      BY <1>8, <3>1 DEF TimeoutInv, GenerationsIdentifyEntries
    <3> QED
      BY <3>1, <3>2 DEF isCurrent
  <2> QED
    BY <2>1, <2>2
<1>9. \A e, f \in entries : e.generation = f.generation => e = f
  <2>1. \A e \in deadlines : e.generation # entry.generation
    <3> SUFFICES ASSUME NEW e \in deadlines PROVE e.generation # next_generation
      BY <1>4
    <3> QED
      BY <1>3 DEF Generation
  <2> QED
    BY <2>1 DEF TimeoutInv, GenerationsIdentifyEntries
<1>10. next_generation' # 0 => \A e \in entries : e.generation < next_generation'
  BY <1>3, <1>4, <1>5, TimeoutManagerAssumption DEF Generation
<1> QED
  BY <1>2, <1>5, <1>6, <1>7, <1>8, <1>9, <1>10, ArmKeepsInv

\* cancel: what is valid afterwards was valid, and watched, before.
LEMMA CancelKeepsInv ==
    ASSUME TimeoutInv, NEW j \in JobId, cancel(j)
    PROVE  TimeoutInv'
<1> USE DEF TimeoutInv, cancel
<1>1. active_generations \in [JobId -> Generation \cup {0}]
  BY DEF TimeoutTypeOK
<1>2. /\ active_generations' \in [JobId -> Generation \cup {0}]
      /\ active_generations'[j] = 0
      /\ \A i \in JobId \ {j} : active_generations'[i] = active_generations[i]
  BY <1>1
<1>3. TimeoutTypeOK'
  BY <1>2 DEF TimeoutTypeOK
<1>4. GenerationsIdentifyEntries'
  <2>1. ASSUME NEW i \in JobId, active_generations'[i] # 0
        PROVE  \E e \in deadlines : e.job_id = i /\ isCurrent(e, active_generations')
    <3>1. i # j /\ active_generations'[i] = active_generations[i]
      BY <1>2, <2>1
    <3>2. PICK e \in deadlines : e.job_id = i /\ isCurrent(e, active_generations)
      BY <2>1, <3>1 DEF GenerationsIdentifyEntries
    <3> QED
      BY <3>1, <3>2 DEF isCurrent
  <2> QED
    BY <2>1 DEF GenerationsIdentifyEntries
<1>5. CounterIsAhead'
  BY DEF CounterIsAhead
<1>6. DeadlineIsWatched'
  <2>1. ASSUME NEW e \in Current(deadlines, active_generations')
        PROVE  e \in Current(deadlines, active_generations)
    <3>1. /\ e \in deadlines /\ e.job_id \in JobId /\ e.generation \in Generation
          /\ active_generations'[e.job_id] = e.generation
      BY DEF Current, isCurrent, TimeoutTypeOK, DeadlineEntry
    <3>2. e.generation # 0
      BY <3>1, TimeoutManagerAssumption DEF Generation
    <3> QED
      BY <1>2, <3>1, <3>2 DEF Current, isCurrent
  <2> QED
    BY <2>1 DEF DeadlineIsWatched
<1> QED
  BY <1>3, <1>4, <1>5, <1>6

\* The deadline of a job is the one valid entry that names it.
LEMMA OneValidEntryPerJob ==
    ASSUME TimeoutInv,
           NEW e \in Current(deadlines, active_generations),
           NEW f \in Current(deadlines, active_generations),
           e.job_id = f.job_id
    PROVE  e = f
BY DEF TimeoutInv, GenerationsIdentifyEntries, Current, isCurrent

\* handleReadable: a job that is not reported keeps its entry in the heap.
LEMMA HandleReadableKeepsInv ==
    ASSUME TimeoutInv, handleReadable
    PROVE  TimeoutInv'
<1> DEFINE entries == deadlines \ Due(now)
<1>1. /\ next_generation' = next_generation /\ event' = FALSE
      /\ active_generations' =
            [j \in JobId |-> IF \E e \in Due(now) : e.job_id = j
                             THEN 0 ELSE active_generations[j]]
  BY DEF handleReadable
<1>2. now' \in now .. MaxTime /\ armToNextDeadline(entries, active_generations', now')
  BY DEF handleReadable
<1>3. now' \in 0 .. MaxTime
  BY <1>2, LaterIsInRange DEF TimeoutInv
<1>4. /\ entries \in SUBSET DeadlineEntry /\ event' \in BOOLEAN
      /\ active_generations' \in [JobId -> Generation \cup {0}]
      /\ next_generation' \in 0 .. (GenerationSpace - 1)
  BY <1>1 DEF TimeoutInv, TimeoutTypeOK
<1>5. ASSUME NEW j \in JobId, active_generations'[j] # 0
      PROVE  \E e \in entries : e.job_id = j /\ isCurrent(e, active_generations')
  <2>1. /\ ~ \E e \in Due(now) : e.job_id = j
        /\ active_generations'[j] = active_generations[j]
    BY <1>1, <1>5
  <2>2. PICK e \in deadlines : e.job_id = j /\ isCurrent(e, active_generations)
    BY <1>5, <2>1 DEF TimeoutInv, GenerationsIdentifyEntries
  <2> QED
    BY <2>1, <2>2 DEF isCurrent
<1>6. /\ \A e, f \in entries : e.generation = f.generation => e = f
      /\ next_generation' # 0 => \A e \in entries : e.generation < next_generation'
  BY <1>1 DEF TimeoutInv, GenerationsIdentifyEntries, CounterIsAhead
<1> QED
  BY <1>2, <1>3, <1>4, <1>5, <1>6, ArmKeepsInv

\* Every other step leaves the heap and the generations as they are.
LEMMA TimerKeepsInv ==
    ASSUME TimeoutInv, Tick \/ TimerFires \/ PollTimer \/ UNCHANGED timeoutVars
    PROVE  TimeoutInv'
<1> USE DEF TimeoutInv
<1>1. UNCHANGED <<deadlines, active_generations, next_generation>>
  BY DEF Tick, TimerFires, PollTimer, timeoutVars
<1>2. GenerationsIdentifyEntries' /\ CounterIsAhead'
  BY <1>1 DEF GenerationsIdentifyEntries, CounterIsAhead, isCurrent
<1>3. CASE Tick
  <2>1. now' = now + 1 /\ now' \in 0 .. MaxTime
    BY <1>3, TimeoutManagerAssumption DEF Tick, TimeoutTypeOK
  <2>2. TimeoutTypeOK'
    BY <1>3, <2>1 DEF Tick, TimeoutTypeOK
  <2>3. ASSUME NEW e \in Current(deadlines, active_generations)
        PROVE  readable \/ (timer # 0 /\ (timer <= e.deadline \/ timer <= now' + 1))
    BY <2>1, TimeoutManagerAssumption DEF DeadlineIsWatched, TimeoutTypeOK
  <2>4. DeadlineIsWatched'
    BY <1>3, <2>3 DEF Tick, DeadlineIsWatched
  <2> QED
    BY <1>2, <2>2, <2>4
<1>4. CASE TimerFires
  <2>1. timer' \in 0 .. (MaxTime + 1)
    BY <1>4, TimeoutManagerAssumption DEF TimerFires
  <2>2. TimeoutTypeOK'
    BY <1>4, <2>1 DEF TimerFires, TimeoutTypeOK
  <2>3. DeadlineIsWatched'
    BY <1>4 DEF TimerFires, DeadlineIsWatched
  <2> QED
    BY <1>2, <2>2, <2>3
<1>5. CASE PollTimer
  BY <1>2, <1>5 DEF PollTimer, TimeoutTypeOK, DeadlineIsWatched
<1>6. CASE UNCHANGED timeoutVars
  BY <1>2, <1>6 DEF timeoutVars, TimeoutTypeOK, DeadlineIsWatched
<1> QED
  BY <1>3, <1>4, <1>5, <1>6

LEMMA NextKeepsInv == TimeoutInv /\ [TimeoutNext]_timeoutVars => TimeoutInv'
<1> SUFFICES ASSUME TimeoutInv, [TimeoutNext]_timeoutVars PROVE TimeoutInv'
  OBVIOUS
<1>1. ASSUME NEW j \in JobId, NEW timeout \in Timeouts, schedule(j, timeout)
      PROVE  TimeoutInv'
  BY <1>1, ScheduleKeepsInv
<1>2. ASSUME NEW j \in JobId, cancel(j) PROVE TimeoutInv'
  BY <1>2, CancelKeepsInv
<1>3. CASE handleReadable
  BY <1>3, HandleReadableKeepsInv
<1>4. CASE Tick \/ TimerFires \/ PollTimer \/ UNCHANGED timeoutVars
  BY <1>4, TimerKeepsInv
<1> QED
  BY <1>1, <1>2, <1>3, <1>4 DEF TimeoutNext

(***************************************************************************)
(* The inductive invariant holds for every number of jobs, generations and *)
(* ticks, whatever the callers of schedule and cancel do.                  *)
(***************************************************************************)
THEOREM InvariantHolds == TimeoutSpec => []TimeoutInv
BY InitEstablishesInv, NextKeepsInv, PTL DEF TimeoutSpec

(***************************************************************************)
(* TimeoutManager's state is well typed: generations stay within the       *)
(* counter's width, and the timer is never set beyond one tick after the   *)
(* last deadline.                                                          *)
(***************************************************************************)
THEOREM TimeoutManagerTypeCorrect == TimeoutSpec => []TimeoutTypeOK
<1>1. TimeoutInv => TimeoutTypeOK
  BY DEF TimeoutInv
<1> QED
  BY <1>1, InvariantHolds, PTL

(***************************************************************************)
(* Lazy deletion never confuses two deadlines: every job that has one has  *)
(* its entry in the heap, and no two entries share a generation.           *)
(***************************************************************************)
THEOREM GenerationsAreExact == TimeoutSpec => []GenerationsIdentifyEntries
<1>1. TimeoutInv => GenerationsIdentifyEntries
  BY DEF TimeoutInv
<1> QED
  BY <1>1, InvariantHolds, PTL

(***************************************************************************)
(* No wake-up is lost, whichever calls re-arm the timerfd or leave it: for *)
(* every valid deadline it has fired unread, or will fire by the deadline  *)
(* or on the next tick.                                                    *)
(***************************************************************************)
THEOREM NoLostWakeUp == TimeoutSpec => []DeadlineIsWatched
<1>1. TimeoutInv => DeadlineIsWatched
  BY DEF TimeoutInv
<1> QED
  BY <1>1, InvariantHolds, PTL

\* Only handleReadable consumes the event.
LEMMA NextReportsTheDue ==
    TimeoutInv /\ [TimeoutNext]_timeoutVars => [ReportsTheDue]_timeoutVars
<1> SUFFICES ASSUME TimeoutInv, [TimeoutNext]_timeoutVars, event, event' = FALSE,
                    NEW j \in JobId, active_generations[j] # 0
             PROVE  \/ /\ active_generations'[j] = 0
                       /\ \E e \in Current(deadlines, active_generations) :
                             e.job_id = j /\ e.deadline <= now
                    \/ /\ active_generations'[j] = active_generations[j]
                       /\ \E e \in Current(deadlines, active_generations) :
                             e.job_id = j /\ e.deadline > now
  <2>1. TimeoutInv /\ [TimeoutNext]_timeoutVars /\ ~event' => event' = FALSE
    <3>1. TimeoutInv /\ [TimeoutNext]_timeoutVars => event' \in BOOLEAN
      BY NextKeepsInv DEF TimeoutInv, TimeoutTypeOK
    <3> QED
      BY <3>1
  <2> QED
    BY <2>1 DEF ReportsTheDue
<1>1. handleReadable
  BY DEF TimeoutNext, schedule, cancel, Tick, TimerFires, PollTimer, timeoutVars
<1>2. PICK e \in Current(deadlines, active_generations) : e.job_id = j
  BY DEF TimeoutInv, GenerationsIdentifyEntries, Current
<1>3. e.deadline \in Nat /\ now \in Nat
  BY TimeoutManagerAssumption DEF TimeoutInv, TimeoutTypeOK, DeadlineEntry, Current
<1>4. active_generations'[j] = IF \E f \in Due(now) : f.job_id = j
                               THEN 0 ELSE active_generations[j]
  BY <1>1 DEF handleReadable
<1>5. CASE e.deadline <= now
  BY <1>2, <1>4, <1>5 DEF Due
<1>6. CASE e.deadline > now
  <2>1. ~ \E f \in Due(now) : f.job_id = j
    <3> SUFFICES ASSUME NEW f \in Due(now), f.job_id = j PROVE FALSE
      OBVIOUS
    <3>1. f \in Current(deadlines, active_generations) /\ f.deadline <= now
      BY DEF Due
    <3>2. f = e
      BY <1>2, <3>1, OneValidEntryPerJob
    <3> QED
      BY <1>3, <1>6, <3>1, <3>2
  <2> QED
    BY <1>2, <1>4, <1>6, <2>1
<1> QED
  BY <1>3, <1>5, <1>6

(***************************************************************************)
(* A wake-up reports the jobs whose deadline has passed, every one of them *)
(* and no job that was cancelled, rescheduled or is not due yet.           *)
(***************************************************************************)
THEOREM ReportsAreExact == TimeoutSpec => ReportsExactlyTheDue
BY InvariantHolds, NextReportsTheDue, PTL DEF TimeoutSpec, ReportsExactlyTheDue

-----------------------------------------------------------------------------

\* The active deadlines of the abstract manager, and its alarm.
ActiveJobs == {j \in JobId : active_generations[j] # 0}
Armed == timer # 0 \/ readable \/ event

\* After armToNextDeadline the timer is set exactly when a job has a deadline.
LEMMA ArmedAfterArming ==
    ASSUME TimeoutInv', NEW entries \in SUBSET DeadlineEntry, now' \in 0 .. MaxTime,
           armToNextDeadline(entries, active_generations', now')
    PROVE  timer' # 0 <=> ActiveJobs' # {}
<1>1. /\ Current(deadlines', active_generations') = Current(entries, active_generations')
      /\ timer' # 0 <=> Current(entries, active_generations') # {}
  BY DiscardKeepsCurrent, ArmSetsTimer DEF armToNextDeadline
<1>2. ASSUME NEW e \in Current(deadlines', active_generations') PROVE e.job_id \in ActiveJobs'
  <2>1. e.job_id \in JobId /\ e.generation \in Generation
    BY DEF TimeoutInv, TimeoutTypeOK, DeadlineEntry, Current
  <2>2. e.generation # 0
    BY <2>1, TimeoutManagerAssumption DEF Generation
  <2> QED
    BY <2>1, <2>2 DEF ActiveJobs, Current, isCurrent
<1>3. ASSUME NEW j \in ActiveJobs' PROVE Current(deadlines', active_generations') # {}
  BY DEF ActiveJobs, TimeoutInv, GenerationsIdentifyEntries, Current
<1> QED
  BY <1>1, <1>2, <1>3

\* schedule replaces the deadline of its job and sets the timer.
LEMMA ScheduleRefines ==
    ASSUME TimeoutInv, TimeoutInv', NEW j \in JobId, NEW timeout \in Timeouts,
           schedule(j, timeout)
    PROVE  ActiveJobs' = ActiveJobs \cup {j} /\ Armed'
<1> DEFINE entries == deadlines \cup {NewEntry(j, timeout)}
<1>1. /\ next_generation # 0 /\ now + timeout <= MaxTime
      /\ active_generations' = [active_generations EXCEPT ![j] = next_generation]
      /\ armToNextDeadline(entries, active_generations', now')
  BY DEF schedule
<1>2. ActiveJobs' = ActiveJobs \cup {j}
  BY <1>1 DEF ActiveJobs, TimeoutInv, TimeoutTypeOK
<1>3. entries \in SUBSET DeadlineEntry /\ now' \in 0 .. MaxTime
  BY <1>1, NewEntryIsNew DEF TimeoutInv, TimeoutTypeOK
<1>4. timer' # 0
  BY <1>1, <1>2, <1>3, ArmedAfterArming
<1> QED
  BY <1>2, <1>4 DEF Armed

\* handleReadable forgets the jobs it reports; the timer is set for the rest.
LEMMA HandleReadableRefines ==
    ASSUME TimeoutInv, TimeoutInv', handleReadable
    PROVE  LET expired == {e.job_id : e \in Due(now)}
           IN  /\ Armed /\ expired \in SUBSET JobId /\ expired \subseteq ActiveJobs
               /\ ActiveJobs' = ActiveJobs \ expired
               /\ Armed' <=> ActiveJobs' # {}
<1> DEFINE expired == {e.job_id : e \in Due(now)}
           entries == deadlines \ Due(now)
<1>1. /\ event /\ event' = FALSE /\ readable' = FALSE
      /\ armToNextDeadline(entries, active_generations', now')
      /\ active_generations' =
            [j \in JobId |-> IF \E e \in Due(now) : e.job_id = j
                             THEN 0 ELSE active_generations[j]]
  BY DEF handleReadable, armToNextDeadline
<1>2. ASSUME NEW e \in Due(now) PROVE e.job_id \in ActiveJobs
  <2>1. /\ e.job_id \in JobId /\ e.generation \in Generation
        /\ active_generations[e.job_id] = e.generation
    BY DEF TimeoutInv, TimeoutTypeOK, DeadlineEntry, Due, Current, isCurrent
  <2>2. e.generation # 0
    BY <2>1, TimeoutManagerAssumption DEF Generation
  <2> QED
    BY <2>1, <2>2 DEF ActiveJobs
<1>3. expired \subseteq ActiveJobs /\ expired \in SUBSET JobId
  BY <1>2 DEF ActiveJobs
<1>4. ActiveJobs' = ActiveJobs \ expired
  BY <1>1 DEF ActiveJobs
<1>5. entries \in SUBSET DeadlineEntry /\ now' \in 0 .. MaxTime
  BY DEF TimeoutInv, TimeoutTypeOK
<1>6. timer' # 0 <=> ActiveJobs' # {}
  BY <1>1, <1>5, ArmedAfterArming
<1>7. Armed /\ (Armed' <=> ActiveJobs' # {})
  BY <1>1, <1>6 DEF Armed
<1> QED
  BY <1>3, <1>4, <1>7

\* The other steps are invisible, or the cancellation of one deadline.
LEMMA OtherStepsRefine ==
    ASSUME TimeoutInv
    PROVE  /\ \A j \in JobId : cancel(j) =>
                 ActiveJobs' = ActiveJobs \ {j} /\ (Armed' <=> Armed)
           /\ Tick \/ TimerFires \/ PollTimer \/ UNCHANGED timeoutVars =>
                 ActiveJobs' = ActiveJobs /\ (Armed' <=> Armed)
<1>1. ASSUME NEW j \in JobId, cancel(j)
      PROVE  ActiveJobs' = ActiveJobs \ {j} /\ (Armed' <=> Armed)
  BY <1>1 DEF cancel, ActiveJobs, Armed, TimeoutInv, TimeoutTypeOK
<1>2. ASSUME Tick \/ TimerFires \/ PollTimer \/ UNCHANGED timeoutVars
      PROVE  ActiveJobs' = ActiveJobs /\ (Armed' <=> Armed)
  BY <1>2 DEF Tick, TimerFires, PollTimer, timeoutVars, ActiveJobs, Armed
<1> QED
  BY <1>1, <1>2

\* Every step is a step of Deadlines, or leaves its two variables alone.
LEMMA NextRefines ==
    TimeoutInv /\ TimeoutInv' /\ [TimeoutNext]_timeoutVars =>
        [AbstractDeadlines!DeadlinesNext]_(AbstractDeadlines!deadlineVars)
<1> SUFFICES ASSUME TimeoutInv, TimeoutInv', [TimeoutNext]_timeoutVars
             PROVE  [AbstractDeadlines!DeadlinesNext]_(AbstractDeadlines!deadlineVars)
  OBVIOUS
<1> USE DEF AbstractDeadlines!DeadlinesNext, AbstractDeadlines!deadlineVars
<1>0. AbstractDeadlines!JobId = JobId
  BY DEF AbstractDeadlines!JobId, JobId
<1>1. ASSUME NEW j \in JobId, NEW timeout \in Timeouts, schedule(j, timeout)
      PROVE  AbstractDeadlines!DeadlinesNext
  <2>1. ActiveJobs' = ActiveJobs \cup {j} /\ Armed'
    BY <1>1, ScheduleRefines
  <2>2. AbstractDeadlines!schedule(j)
    BY <2>1 DEF ActiveJobs, Armed, AbstractDeadlines!schedule
  <2> QED
    BY <1>0, <2>2
<1>2. ASSUME NEW j \in JobId, cancel(j)
      PROVE  AbstractDeadlines!DeadlinesNext
  <2>1. ActiveJobs' = ActiveJobs \ {j} /\ (Armed' <=> Armed)
    BY <1>2, OtherStepsRefine
  <2>2. AbstractDeadlines!cancel(j)
    BY <2>1 DEF ActiveJobs, Armed, AbstractDeadlines!cancel
  <2> QED
    BY <1>0, <2>2
<1>3. CASE handleReadable
  <2>1. PICK expired \in SUBSET JobId :
           /\ Armed /\ expired \subseteq ActiveJobs
           /\ ActiveJobs' = ActiveJobs \ expired
           /\ Armed' <=> ActiveJobs' # {}
    BY <1>3, HandleReadableRefines
  <2>2. AbstractDeadlines!handleReadable(expired)
    BY <2>1 DEF ActiveJobs, Armed, AbstractDeadlines!handleReadable
  <2>3. AbstractDeadlines!DeadlinesNext
    BY <1>0, <2>1, <2>2
  <2> QED
    BY <2>3
<1>4. CASE Tick \/ TimerFires \/ PollTimer \/ UNCHANGED timeoutVars
  <2>1. ActiveJobs' = ActiveJobs /\ (Armed' <=> Armed)
    BY <1>4, OtherStepsRefine
  <2> QED
    BY <2>1 DEF ActiveJobs, Armed
<1> QED
  BY <1>1, <1>2, <1>3, <1>4 DEF TimeoutNext

(***************************************************************************)
(* TimeoutManager implements Deadlines for every instance: what Runnerd    *)
(* assumes of schedule, cancel and handleReadable holds of the heap with   *)
(* its stale entries, the generations and the one timerfd.                 *)
(***************************************************************************)
THEOREM ManagerImplementsDeadlines == TimeoutSpec => ImplementsDeadlines
<1>1. TimeoutInit => AbstractDeadlines!DeadlinesInit
  BY DEF TimeoutInit, AbstractDeadlines!DeadlinesInit
<1> QED
  BY <1>1, InvariantHolds, NextRefines, PTL
  DEF TimeoutSpec, ImplementsDeadlines, AbstractDeadlines!DeadlinesSpec
=============================================================================
