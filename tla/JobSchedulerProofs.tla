------------------------- MODULE JobSchedulerProofs -------------------------
(***************************************************************************)
(* The invariants of JobScheduler, for every max_running and every number  *)
(* of jobs.  Each member function is shown to keep SchedulerInv on its own *)
(* (the lemmas <function>KeepsInv), so that RunnerdProofs can use the same *)
(* facts for the scheduler inside the daemon.                              *)
(***************************************************************************)
EXTENDS JobScheduler, SequenceTheorems, FiniteSetTheorems, TLAPS

(***************************************************************************)
(* The inductive invariant.  That a job waits once needs the set to mirror *)
(* the deque (enqueue looks at the set), that no job waits and runs needs  *)
(* the deque to hold it once (or a copy would stay behind when it starts), *)
(* and the bound on the slots needs the set of slots to be one of jobs,    *)
(* hence finite.                                                           *)
(***************************************************************************)
SchedulerInv ==
    /\ SchedulerTypeOK
    /\ JobsAreHeldOnce
    /\ NoMoreThanMaxRunning

-----------------------------------------------------------------------------

\* Appending to a queue adds one element at its end.
LEMMA AppendToSet ==
    ASSUME NEW S, NEW s \in Seq(S), NEW x \in S
    PROVE  ToSet(Append(s, x)) = ToSet(s) \cup {x}
<1> DEFINE t == Append(s, x)
<1>1. /\ t \in Seq(S) /\ Len(t) = Len(s) + 1
      /\ \A i \in 1 .. Len(s) : t[i] = s[i]
      /\ t[Len(s) + 1] = x
  BY AppendProperties
<1>2. /\ DOMAIN t = 1 .. (Len(s) + 1) /\ DOMAIN s = 1 .. Len(s) /\ Len(s) \in Nat
  BY <1>1, LenProperties
<1> HIDE DEF t
<1>3. ToSet(t) = ToSet(s) \cup {x}
  BY <1>1, <1>2 DEF ToSet
<1> QED
  BY <1>3 DEF t

\* A queue without duplicates stays one when a new element is appended.
LEMMA AppendKeepsDistinct ==
    ASSUME NEW S, NEW s \in Seq(S), NEW x \in S, x \notin ToSet(s),
           \A p, q \in DOMAIN s : s[p] = s[q] => p = q
    PROVE  /\ Append(s, x) \in Seq(S)
           /\ \A p, q \in DOMAIN Append(s, x) :
                 Append(s, x)[p] = Append(s, x)[q] => p = q
<1> DEFINE t == Append(s, x)
<1>1. /\ t \in Seq(S) /\ Len(t) = Len(s) + 1
      /\ \A i \in 1 .. Len(s) : t[i] = s[i]
      /\ t[Len(s) + 1] = x
  BY AppendProperties
<1>2. /\ DOMAIN t = 1 .. (Len(s) + 1) /\ DOMAIN s = 1 .. Len(s) /\ Len(s) \in Nat
  BY <1>1, LenProperties
<1>3. \A i \in DOMAIN s : s[i] # x
  BY DEF ToSet
<1> HIDE DEF t
<1>4. \A p, q \in DOMAIN t : t[p] = t[q] => p = q
  BY <1>1, <1>2, <1>3
<1> QED
  BY <1>1, <1>4 DEF t

\* Taking the head of a queue without duplicates removes that one element.
LEMMA TailToSet ==
    ASSUME NEW S, NEW s \in Seq(S), s # <<>>,
           \A p, q \in DOMAIN s : s[p] = s[q] => p = q
    PROVE  /\ Tail(s) \in Seq(S) /\ Head(s) \in ToSet(s)
           /\ ToSet(Tail(s)) = ToSet(s) \ {Head(s)}
           /\ \A p \in DOMAIN Tail(s) : p + 1 \in DOMAIN s /\ Tail(s)[p] = s[p + 1]
           /\ \A p, q \in DOMAIN Tail(s) : Tail(s)[p] = Tail(s)[q] => p = q
<1> DEFINE t == Tail(s)
<1>1. /\ t \in Seq(S) /\ Len(t) = Len(s) - 1
      /\ \A i \in 1 .. Len(t) : t[i] = s[i + 1]
  BY HeadTailProperties
<1>2. /\ Len(s) \in Nat \ {0} /\ DOMAIN s = 1 .. Len(s) /\ DOMAIN t = 1 .. Len(t)
      /\ Head(s) = s[1]
  BY <1>1, LenProperties, EmptySeq
<1> HIDE DEF t
<1>3. \A p \in DOMAIN t : p + 1 \in DOMAIN s /\ t[p] = s[p + 1]
  BY <1>1, <1>2
<1>4. \A p, q \in DOMAIN t : t[p] = t[q] => p = q
  BY <1>1, <1>2, <1>3
<1>5. ToSet(t) \subseteq ToSet(s) \ {Head(s)}
  BY <1>1, <1>2, <1>3 DEF ToSet
<1>6. ASSUME NEW x \in ToSet(s) \ {Head(s)} PROVE x \in ToSet(t)
  <2>1. PICK i \in DOMAIN s : x = s[i]
    BY DEF ToSet
  <2>2. i - 1 \in DOMAIN t /\ t[i - 1] = s[i]
    BY <1>1, <1>2, <2>1
  <2> QED
    BY <2>1, <2>2 DEF ToSet
<1>7. Head(s) \in ToSet(s)
  BY <1>2 DEF ToSet
<1> QED
  BY <1>1, <1>3, <1>4, <1>5, <1>6, <1>7 DEF t

\* Removing position i closes the gap and keeps the order of the rest.
LEMMA RemoveAtPositions ==
    ASSUME NEW S, NEW s \in Seq(S), NEW i \in DOMAIN s
    PROVE  /\ RemoveAt(s, i) \in Seq(S)
           /\ DOMAIN RemoveAt(s, i) = 1 .. (Len(s) - 1)
           /\ \A k \in 1 .. (Len(s) - 1) :
                 RemoveAt(s, i)[k] = IF k < i THEN s[k] ELSE s[k + 1]
<1>1. Len(s) \in Nat /\ DOMAIN s = 1 .. Len(s) /\ \A k \in 1 .. Len(s) : s[k] \in S
  BY LenProperties
<1> DEFINE a == SubSeq(s, 1, i - 1)
           b == SubSeq(s, i + 1, Len(s))
<1>2. /\ a \in Seq(S) /\ Len(a) = i - 1
      /\ \A k \in 1 .. (i - 1) : a[k] = s[k]
  <2>1. \A k \in 1 .. (i - 1) : s[k] \in S
    BY <1>1
  <2>2. /\ a \in Seq(S) /\ Len(a) = IF 1 <= i - 1 THEN i - 1 - 1 + 1 ELSE 0
        /\ \A k \in 1 .. (i - 1 - 1 + 1) : a[k] = s[1 + k - 1]
    BY <1>1, <2>1, SubSeqProperties
  <2> QED
    BY <1>1, <2>2
<1>3. /\ b \in Seq(S) /\ Len(b) = Len(s) - i
      /\ \A k \in 1 .. (Len(s) - i) : b[k] = s[i + k]
  <2>1. \A k \in (i + 1) .. Len(s) : s[k] \in S
    BY <1>1
  <2>2. /\ b \in Seq(S)
        /\ Len(b) = IF i + 1 <= Len(s) THEN Len(s) - (i + 1) + 1 ELSE 0
        /\ \A k \in 1 .. (Len(s) - (i + 1) + 1) : b[k] = s[(i + 1) + k - 1]
    BY <1>1, <2>1, SubSeqProperties
  <2> HIDE DEF a, b
  <2>3. i \in 1 .. Len(s)
    BY <1>1
  <2>4. /\ Len(s) - (i + 1) + 1 = Len(s) - i
        /\ \A k \in 1 .. (Len(s) - i) : (i + 1) + k - 1 = i + k
        /\ i + 1 > Len(s) => Len(s) - i = 0
    BY <1>1, <2>3
  <2> QED
    BY <1>1, <2>2, <2>3, <2>4
<1> HIDE DEF a, b
<1>4. /\ a \o b \in Seq(S) /\ Len(a \o b) = Len(s) - 1
      /\ \A k \in 1 .. (Len(s) - 1) :
            (a \o b)[k] = IF k <= i - 1 THEN a[k] ELSE b[k - (i - 1)]
  <2>1. /\ a \o b \in Seq(S) /\ Len(a \o b) = Len(a) + Len(b)
        /\ \A k \in 1 .. (Len(a) + Len(b)) :
              (a \o b)[k] = IF k <= Len(a) THEN a[k] ELSE b[k - Len(a)]
    BY <1>2, <1>3, ConcatProperties
  <2>2. Len(a) + Len(b) = Len(s) - 1
    BY <1>1, <1>2, <1>3
  <2> QED
    BY <1>2, <2>1, <2>2
<1>5. ASSUME NEW k \in 1 .. (Len(s) - 1)
      PROVE  (a \o b)[k] = IF k < i THEN s[k] ELSE s[k + 1]
  <2>1. i \in 1 .. Len(s)
    BY <1>1
  <2>2. CASE k < i
    <3>1. k \in 1 .. (i - 1)
      BY <1>1, <2>1, <2>2
    <3> QED
      BY <1>2, <1>4, <2>1, <2>2, <3>1
  <2>3. CASE ~(k < i)
    <3>1. /\ k - (i - 1) \in 1 .. (Len(s) - i) /\ ~(k <= i - 1)
          /\ i + (k - (i - 1)) = k + 1
      BY <1>1, <2>1, <2>3
    <3>2. b[k - (i - 1)] = s[i + (k - (i - 1))]
      BY <1>3, <3>1
    <3> QED
      BY <1>4, <2>3, <3>1, <3>2
  <2> QED
    BY <2>2, <2>3
<1>6. DOMAIN (a \o b) = 1 .. (Len(s) - 1)
  BY <1>4, LenProperties
<1>7. RemoveAt(s, i) = a \o b
  BY DEF RemoveAt, a, b
<1> QED
  BY <1>4, <1>5, <1>6, <1>7

\* In a queue without duplicates, removing position i removes that one element.
LEMMA RemoveAtToSet ==
    ASSUME NEW S, NEW s \in Seq(S), NEW i \in DOMAIN s,
           \A p, q \in DOMAIN s : s[p] = s[q] => p = q
    PROVE  /\ ToSet(RemoveAt(s, i)) = ToSet(s) \ {s[i]}
           /\ \A p, q \in DOMAIN RemoveAt(s, i) :
                 RemoveAt(s, i)[p] = RemoveAt(s, i)[q] => p = q
<1>1. Len(s) \in Nat /\ DOMAIN s = 1 .. Len(s)
  BY LenProperties
<1> DEFINE t == RemoveAt(s, i)
<1>2. /\ DOMAIN t = 1 .. (Len(s) - 1)
      /\ \A k \in 1 .. (Len(s) - 1) : t[k] = IF k < i THEN s[k] ELSE s[k + 1]
  BY RemoveAtPositions
<1> HIDE DEF t
<1>3. \A p, q \in DOMAIN t : t[p] = t[q] => p = q
  BY <1>1, <1>2, SMTT(30)
<1>4. ASSUME NEW x \in ToSet(t) PROVE x \in ToSet(s) \ {s[i]}
  <2>1. PICK k \in DOMAIN t : x = t[k]
    BY DEF ToSet
  <2>2. \E m \in DOMAIN s : m # i /\ x = s[m]
    BY <1>1, <1>2, <2>1
  <2> QED
    BY <2>2 DEF ToSet
<1>5. ASSUME NEW x \in ToSet(s) \ {s[i]} PROVE x \in ToSet(t)
  <2>1. PICK m \in DOMAIN s : x = s[m] /\ m # i
    BY DEF ToSet
  <2>2. \E k \in DOMAIN t : x = t[k]
    <3>1. CASE m < i
      BY <1>1, <1>2, <2>1, <3>1
    <3>2. CASE m > i
      <4>1. m - 1 \in DOMAIN t /\ t[m - 1] = s[m]
        BY <1>1, <1>2, <2>1, <3>2
      <4> QED
        BY <2>1, <4>1
    <3> QED
      BY <1>1, <2>1, <3>1, <3>2
  <2> QED
    BY <2>2 DEF ToSet
<1>6. ToSet(t) = ToSet(s) \ {s[i]}
  BY <1>4, <1>5
<1> QED
  BY <1>3, <1>6 DEF t

\* Every set of jobs is finite: there are finitely many ids.
LEMMA JobSetsAreFinite ==
    ASSUME NEW T \in SUBSET JobId
    PROVE  IsFiniteSet(T) /\ Cardinality(T) \in Nat
<1>1. IsFiniteSet(JobId)
  BY JobIdSpaceAssumption, FS_Interval DEF JobId
<1> QED
  BY <1>1, FS_Subset, FS_CardinalityType

-----------------------------------------------------------------------------

\* enqueue adds a job that neither waits nor runs, at the end.
LEMMA EnqueueKeepsInv ==
    ASSUME SchedulerInv, NEW j \in JobId \cup {0}, enqueue(j)
    PROVE  SchedulerInv'
<1>1. j \in JobId
  BY DEF enqueue
<1>2. ToSet(waiting_jobs') = ToSet(waiting_jobs) \cup {j}
  BY <1>1, AppendToSet DEF SchedulerInv, SchedulerTypeOK, enqueue
<1>3. /\ waiting_jobs' \in Seq(JobId)
      /\ \A p, q \in DOMAIN waiting_jobs' :
            waiting_jobs'[p] = waiting_jobs'[q] => p = q
  BY <1>1, AppendKeepsDistinct
  DEF SchedulerInv, SchedulerTypeOK, JobsAreHeldOnce, enqueue
<1> QED
  BY <1>1, <1>2, <1>3 DEF SchedulerInv, SchedulerTypeOK, JobsAreHeldOnce, NoMoreThanMaxRunning, enqueue

\* takeNextJobToStart moves the first job from the queue to a free slot.
LEMMA TakeKeepsInv ==
    ASSUME SchedulerInv, NEW j, takeNextJobToStart(j)
    PROVE  SchedulerInv' /\ j \in JobId /\ j \in waiting_job_ids
<1>1. /\ waiting_jobs' \in Seq(JobId) /\ j \in ToSet(waiting_jobs)
      /\ ToSet(waiting_jobs') = ToSet(waiting_jobs) \ {j}
      /\ \A p, q \in DOMAIN waiting_jobs' :
            waiting_jobs'[p] = waiting_jobs'[q] => p = q
  BY TailToSet
  DEF SchedulerInv, SchedulerTypeOK, JobsAreHeldOnce, takeNextJobToStart
<1>2. j \in JobId /\ j \in waiting_job_ids
  BY <1>1 DEF SchedulerInv, SchedulerTypeOK, JobsAreHeldOnce
<1>3. NoMoreThanMaxRunning'
  <2>1. IsFiniteSet(active_job_ids) /\ Cardinality(active_job_ids) \in Nat
    BY JobSetsAreFinite DEF SchedulerInv, SchedulerTypeOK
  <2>2. Cardinality(active_job_ids \cup {j}) <= Cardinality(active_job_ids) + 1
    BY <2>1, FS_AddElement, SMTT(30)
  <2>3. IsFiniteSet(active_job_ids \cup {j}) /\ Cardinality(active_job_ids \cup {j}) \in Nat
    BY <1>2, JobSetsAreFinite DEF SchedulerInv, SchedulerTypeOK
  <2> QED
    BY <2>1, <2>2, <2>3, MaxRunningAssumption
    DEF NoMoreThanMaxRunning, takeNextJobToStart, SlotFree
<1> QED
  BY <1>1, <1>2, <1>3 DEF SchedulerInv, SchedulerTypeOK, JobsAreHeldOnce, takeNextJobToStart

\* onJobReachedTerminalState gives one slot back.
LEMMA ReleaseKeepsInv ==
    ASSUME SchedulerInv, NEW j, onJobReachedTerminalState(j)
    PROVE  SchedulerInv'
<1>1. IsFiniteSet(active_job_ids) /\ Cardinality(active_job_ids) \in Nat
  BY JobSetsAreFinite DEF SchedulerInv, SchedulerTypeOK
<1>2. Cardinality(active_job_ids \ {j}) <= Cardinality(active_job_ids)
  BY <1>1, FS_RemoveElement
<1>3. Cardinality(active_job_ids \ {j}) \in Nat
  BY JobSetsAreFinite DEF SchedulerInv, SchedulerTypeOK
<1>4. NoMoreThanMaxRunning'
  BY <1>1, <1>2, <1>3, MaxRunningAssumption
  DEF SchedulerInv, NoMoreThanMaxRunning, onJobReachedTerminalState
<1> QED
  BY <1>4 DEF SchedulerInv, SchedulerTypeOK, JobsAreHeldOnce, onJobReachedTerminalState

\* cancelQueuedJob takes a job out of the deque and of its mirror set.
LEMMA CancelQueuedKeepsInv ==
    ASSUME SchedulerInv, NEW j, cancelQueuedJob(j)
    PROVE  SchedulerInv'
<1>1. PICK i \in DOMAIN waiting_jobs :
         waiting_jobs[i] = j /\ waiting_jobs' = RemoveAt(waiting_jobs, i)
  BY DEF cancelQueuedJob
<1>2. /\ waiting_jobs \in Seq(JobId)
      /\ \A p, q \in DOMAIN waiting_jobs : waiting_jobs[p] = waiting_jobs[q] => p = q
  BY DEF SchedulerInv, SchedulerTypeOK, JobsAreHeldOnce
<1>3. waiting_jobs' \in Seq(JobId)
  BY <1>1, <1>2, RemoveAtPositions
<1>4. /\ ToSet(waiting_jobs') = ToSet(waiting_jobs) \ {j}
      /\ \A p, q \in DOMAIN waiting_jobs' :
            waiting_jobs'[p] = waiting_jobs'[q] => p = q
  BY <1>1, <1>2, RemoveAtToSet
<1> QED
  BY <1>3, <1>4 DEF SchedulerInv, SchedulerTypeOK, JobsAreHeldOnce, NoMoreThanMaxRunning, cancelQueuedJob

\* SchedulerInv depends on the scheduler's own state only.
LEMMA StutterKeepsInv ==
    ASSUME SchedulerInv, UNCHANGED schedulerVars
    PROVE  SchedulerInv'
BY DEF SchedulerInv, SchedulerTypeOK, JobsAreHeldOnce,
   NoMoreThanMaxRunning, schedulerVars

\* A new scheduler has no job: the constructor's state.
LEMMA InitSchedulerInv == SchedulerInit => SchedulerInv
<1> SUFFICES ASSUME SchedulerInit PROVE SchedulerInv
  OBVIOUS
<1>1. waiting_jobs \in Seq(JobId) /\ DOMAIN waiting_jobs = {} /\ ToSet(waiting_jobs) = {}
  BY EmptySeq, LenProperties DEF SchedulerInit, ToSet
<1>2. Cardinality(active_job_ids) = 0
  BY FS_EmptySet DEF SchedulerInit
<1> QED
  BY <1>1, <1>2, MaxRunningAssumption DEF SchedulerInit, SchedulerInv,
     SchedulerTypeOK, JobsAreHeldOnce, NoMoreThanMaxRunning

-----------------------------------------------------------------------------

(***************************************************************************)
(* The invariant of the scheduler alone, whoever calls it and however.     *)
(***************************************************************************)
THEOREM SchedulerInvariance == SchedulerSpec => []SchedulerInv
<1>1. SchedulerInv /\ [SchedulerNext]_schedulerVars => SchedulerInv'
  <2> SUFFICES ASSUME SchedulerInv, [SchedulerNext]_schedulerVars
               PROVE  SchedulerInv'
    OBVIOUS
  <2>1. CASE UNCHANGED schedulerVars
    BY <2>1, StutterKeepsInv
  <2>2. ASSUME NEW j \in JobId \cup {0}, enqueue(j) PROVE SchedulerInv'
    BY <2>2, EnqueueKeepsInv
  <2>3. ASSUME NEW j \in JobId \cup {0}, takeNextJobToStart(j) PROVE SchedulerInv'
    BY <2>3, TakeKeepsInv
  <2>4. ASSUME NEW j \in JobId \cup {0}, onJobReachedTerminalState(j)
        PROVE  SchedulerInv'
    BY <2>4, ReleaseKeepsInv
  <2>5. ASSUME NEW j \in JobId \cup {0}, cancelQueuedJob(j) PROVE SchedulerInv'
    BY <2>5, CancelQueuedKeepsInv
  <2> QED
    BY <2>1, <2>2, <2>3, <2>4, <2>5 DEF SchedulerNext
<1> QED
  BY <1>1, InitSchedulerInv, PTL DEF SchedulerSpec

(***************************************************************************)
(* At most max_running jobs ever occupy a slot.                            *)
(***************************************************************************)
THEOREM SchedulerBound == SchedulerSpec => []NoMoreThanMaxRunning
<1>1. SchedulerInv => NoMoreThanMaxRunning
  BY DEF SchedulerInv
<1> QED
  BY <1>1, SchedulerInvariance, PTL

(***************************************************************************)
(* The deque and its mirror set never disagree, and no job waits twice or  *)
(* waits and runs.                                                         *)
(***************************************************************************)
THEOREM SchedulerHoldsJobsOnce == SchedulerSpec => []JobsAreHeldOnce
<1>1. SchedulerInv => JobsAreHeldOnce
  BY DEF SchedulerInv
<1> QED
  BY <1>1, SchedulerInvariance, PTL

(***************************************************************************)
(* The scheduler's state is well typed whatever callers pass: the reserved *)
(* id 0 never gets into the queue or a slot.                               *)
(***************************************************************************)
THEOREM SchedulerTypeCorrect == SchedulerSpec => []SchedulerTypeOK
<1>1. SchedulerInv => SchedulerTypeOK
  BY DEF SchedulerInv
<1> QED
  BY <1>1, SchedulerInvariance, PTL

-----------------------------------------------------------------------------

\* What NoOvertaking says of jobs that wait before and after a step.
KeepsOrder(s, t) ==
    \A p, q \in DOMAIN s : p < q =>
        \A x, y \in DOMAIN t : t[x] = s[p] /\ t[y] = s[q] => x < y

\* A step that adds no job to the slots only has to keep the order.
LEMMA OrderSuffices ==
    ASSUME SchedulerInv, active_job_ids' \subseteq active_job_ids,
           KeepsOrder(waiting_jobs, waiting_jobs')
    PROVE  NoOvertaking
<1>1. \A q \in DOMAIN waiting_jobs : waiting_jobs[q] \notin active_job_ids'
  BY DEF SchedulerInv, JobsAreHeldOnce, ToSet
<1> QED
  BY <1>1 DEF NoOvertaking, KeepsOrder

LEMMA EnqueueKeepsOrder ==
    ASSUME SchedulerInv, NEW j \in JobId, enqueue(j)
    PROVE  KeepsOrder(waiting_jobs, waiting_jobs')
<1> DEFINE s == waiting_jobs
           t == waiting_jobs'
<1>1. /\ s \in Seq(JobId) /\ j \notin ToSet(s) /\ t = Append(s, j)
      /\ \A p, q \in DOMAIN s : s[p] = s[q] => p = q
  BY DEF SchedulerInv, SchedulerTypeOK, JobsAreHeldOnce, enqueue
<1>2. /\ Len(t) = Len(s) + 1 /\ \A i \in 1 .. Len(s) : t[i] = s[i]
      /\ t[Len(s) + 1] = j /\ t \in Seq(JobId)
  BY <1>1, AppendProperties
<1>3. DOMAIN t = 1 .. (Len(s) + 1) /\ DOMAIN s = 1 .. Len(s) /\ Len(s) \in Nat
  BY <1>1, <1>2, LenProperties
<1>4. \A i \in DOMAIN s : s[i] # j
  BY <1>1 DEF ToSet
<1> HIDE DEF s, t
<1>5. \A p \in DOMAIN s, x \in DOMAIN t : t[x] = s[p] => x = p
  BY <1>1, <1>2, <1>3, <1>4
<1>6. KeepsOrder(s, t)
  BY <1>5 DEF KeepsOrder
<1> QED
  BY <1>6 DEF s, t

LEMMA TakeKeepsOrder ==
    ASSUME SchedulerInv, NEW j, takeNextJobToStart(j)
    PROVE  NoOvertaking
<1> DEFINE s == waiting_jobs
           t == waiting_jobs'
<1>1. /\ s \in Seq(JobId) /\ s # <<>> /\ t = Tail(s) /\ j = Head(s)
      /\ \A p, q \in DOMAIN s : s[p] = s[q] => p = q
      /\ waiting_job_ids = ToSet(s) /\ waiting_job_ids \cap active_job_ids = {}
      /\ active_job_ids' = active_job_ids \cup {j}
  BY DEF SchedulerInv, SchedulerTypeOK, JobsAreHeldOnce,
         takeNextJobToStart
<1>2. \A x \in DOMAIN t : x + 1 \in DOMAIN s /\ t[x] = s[x + 1]
  BY <1>1, TailToSet
<1>3. /\ Len(s) \in Nat /\ Len(s) > 0 /\ DOMAIN s = 1 .. Len(s) /\ j = s[1]
      /\ \A q \in DOMAIN s : s[q] \notin active_job_ids
      /\ \A x \in DOMAIN t : x \in Nat
  <2>1. Len(s) \in Nat /\ Len(s) > 0 /\ DOMAIN s = 1 .. Len(s) /\ j = s[1]
    BY <1>1, LenProperties, EmptySeq
  <2>2. t \in Seq(JobId)
    BY <1>1, TailToSet
  <2>3. \A x \in DOMAIN t : x \in Nat
    BY <2>2, LenProperties
  <2> QED
    BY <1>1, <2>1, <2>3 DEF ToSet
<1> HIDE DEF s, t
<1>4. ASSUME NEW p \in DOMAIN s, NEW q \in DOMAIN s, p < q
      PROVE  s[q] \notin active_job_ids'
  <2>1. q # 1 /\ 1 \in DOMAIN s
    BY <1>3, <1>4
  <2> QED
    BY <1>1, <1>3, <2>1
<1>5. \A p \in DOMAIN s, x \in DOMAIN t : t[x] = s[p] => p = x + 1
  BY <1>1, <1>2
<1>6. ASSUME NEW p \in DOMAIN s, NEW q \in DOMAIN s, p < q,
             NEW x \in DOMAIN t, NEW y \in DOMAIN t, t[x] = s[p], t[y] = s[q]
      PROVE  x < y
  <2>1. p = x + 1 /\ q = y + 1
    BY <1>5, <1>6
  <2> QED
    BY <1>3, <1>6, <2>1
<1> QED
  BY <1>4, <1>6 DEF NoOvertaking, s, t

LEMMA CancelQueuedKeepsOrder ==
    ASSUME SchedulerInv, NEW j, cancelQueuedJob(j)
    PROVE  KeepsOrder(waiting_jobs, waiting_jobs')
<1> DEFINE s == waiting_jobs
           t == waiting_jobs'
<1>1. PICK i \in DOMAIN s : t = RemoveAt(s, i)
  BY DEF cancelQueuedJob
<1>2. s \in Seq(JobId) /\ \A p, q \in DOMAIN s : s[p] = s[q] => p = q
  BY DEF SchedulerInv, SchedulerTypeOK, JobsAreHeldOnce
<1>3. Len(s) \in Nat /\ DOMAIN s = 1 .. Len(s)
  BY <1>2, LenProperties
<1>4. /\ DOMAIN t = 1 .. (Len(s) - 1)
      /\ \A k \in 1 .. (Len(s) - 1) : t[k] = IF k < i THEN s[k] ELSE s[k + 1]
  BY <1>1, <1>2, RemoveAtPositions
<1> HIDE DEF s, t
<1>5. ASSUME NEW p \in DOMAIN s, NEW x \in DOMAIN t, t[x] = s[p]
      PROVE  p = IF x < i THEN x ELSE x + 1
  BY <1>2, <1>3, <1>4, <1>5, SMTT(30)
<1>6. ASSUME NEW p \in DOMAIN s, NEW q \in DOMAIN s, p < q,
             NEW x \in DOMAIN t, NEW y \in DOMAIN t, t[x] = s[p], t[y] = s[q]
      PROVE  x < y
  <2>1. /\ p = IF x < i THEN x ELSE x + 1
        /\ q = IF y < i THEN y ELSE y + 1
    BY <1>5, <1>6
  <2> QED
    BY <1>3, <1>4, <1>6, <2>1
<1> QED
  BY <1>6 DEF KeepsOrder, s, t

\* A queue that a step leaves alone keeps its order.
LEMMA SameQueueKeepsOrder ==
    ASSUME SchedulerInv, waiting_jobs' = waiting_jobs
    PROVE  KeepsOrder(waiting_jobs, waiting_jobs')
BY DEF SchedulerInv, JobsAreHeldOnce, KeepsOrder

(***************************************************************************)
(* First in, first out, for every number of slots and jobs: no start, end  *)
(* or cancellation lets a waiting job overtake another, and a job starts   *)
(* only when none is ahead of it.                                          *)
(***************************************************************************)
THEOREM SchedulerIsFifo == SchedulerSpec => FirstInFirstOut
<1>1. SchedulerInv /\ [SchedulerNext]_schedulerVars => [NoOvertaking]_schedulerVars
  <2> SUFFICES ASSUME SchedulerInv, SchedulerNext PROVE NoOvertaking
    OBVIOUS
  <2>1. ASSUME NEW j \in JobId \cup {0}, enqueue(j) PROVE NoOvertaking
    <3>1. j \in JobId /\ active_job_ids' = active_job_ids
      BY <2>1 DEF enqueue
    <3> QED
      BY <2>1, <3>1, EnqueueKeepsOrder, OrderSuffices
  <2>2. ASSUME NEW j \in JobId \cup {0}, takeNextJobToStart(j) PROVE NoOvertaking
    BY <2>2, TakeKeepsOrder
  <2>3. ASSUME NEW j \in JobId \cup {0}, onJobReachedTerminalState(j)
        PROVE  NoOvertaking
    <3>1. active_job_ids' \subseteq active_job_ids /\ waiting_jobs' = waiting_jobs
      BY <2>3 DEF onJobReachedTerminalState
    <3> QED
      BY <3>1, SameQueueKeepsOrder, OrderSuffices
  <2>4. ASSUME NEW j \in JobId \cup {0}, cancelQueuedJob(j) PROVE NoOvertaking
    <3>1. active_job_ids' = active_job_ids
      BY <2>4 DEF cancelQueuedJob
    <3> QED
      BY <2>4, <3>1, CancelQueuedKeepsOrder, OrderSuffices
  <2> QED
    BY <2>1, <2>2, <2>3, <2>4 DEF SchedulerNext
<1> QED
  BY <1>1, SchedulerInvariance, PTL DEF SchedulerSpec, FirstInFirstOut
=============================================================================
