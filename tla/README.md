# A TLA+ model of runnerd

runnerd is a Linux daemon that runs local jobs: clients submit commands over a
Unix socket, the daemon queues them, starts at most `max_running` at a time,
collects their output, enforces timeouts and cancellations, and reaps their
processes. It is one thread around `epoll_wait`. Nothing in it runs in
parallel, and yet almost everything in it races: the jobs' processes fork,
write, close pipes and exit between any two system calls of the daemon, and
`epoll` reports the consequences (pipe readable, pipe hung up, SIGCHLD, timer,
client request) in any order.

This directory holds a specification of the daemon, TLC configurations that
check it on small instances, and TLAPS proofs of its safety properties and of its
two refinements for every number of jobs, slots, clients and processes. It has
three layers: the jobs
(`Runnerd`), the client connections (`Connections`), and the processes
themselves, from start to crash (`Lifecycle`). `PROJECT.json` maps each definition
to the source lines it models.

## The system's parts

| Part (source) | State | Operations | Talks to |
|---|---|---|---|
| Job (`job.cpp`) | `state`, `termination_cause`, exit code or signal | `canTransition`, `transitionJob`, `isTerminal` | used by all |
| JobScheduler (`job_scheduler.cpp`) | FIFO `waiting_jobs_`, its mirror `waiting_job_ids_`, `active_job_ids_` (slots) | `enqueue`, `takeNextJobToStart`, `onJobReachedTerminalState`, `cancelQueuedJob` | called by the daemon |
| TimeoutManager (`timeout_manager.cpp`) | a heap of deadlines with stale entries, the valid generation of each job, one timerfd | `schedule`, `cancel`, `handleReadable` | called by the daemon, woken through epoll |
| ProcessMonitor (`process_monitor.cpp`) | `active_jobs_` (one ActiveProcess per live job), `pid_to_job_`, `tracked_fds_`, the signalfd | `startJob`, `handleFileDescriptorEvent`, `requestTerminate`, `forceKill`; settles jobs in `tryFinalizeJob` | changes the job table; calls back into the daemon's `terminal_job_notifications` |
| ProcessLauncher (`process_launcher.cpp`) | none of its own; the child's parent, group, parent-death signal and descriptors | `launchProcess`: pipes, fork, setpgid, execve; the child reports errors through a pipe | called by `startJob` |
| Daemon, jobs (`runnerd_main.cpp`) | job table, `next_job_id`, `terminal_job_notifications` | `handleRequest` (SUBMIT, CANCEL, queries), `handleDeadlineEvent`, `processTerminalJobNotifications`, `pumpScheduler`, the loop of `main` | owns and connects all of the above |
| Daemon, clients (`runnerd_main.cpp`) | a `Connection` per client: decoder, write buffer and offset, `read_closed`, epoll interest | `acceptClients`, `handleClientRead`, `handleClientWrite`, `updateClientEvents`, `closeClient` | sockets; shares descriptor numbers and batches of events with the monitor |
| Frame protocol (`protocol.cpp`) | a byte buffer per connection | `encodeFrame`, `FrameDecoder`, encoding and decoding of requests | daemon and client |
| Unix socket (`unix_socket.cpp`) | the socket path | `createUnixListener` (with removal of a stale socket), `connectUnixSocket` | daemon and client; another daemon on the same path |
| runnerctl (`runnerctl_main.cpp`) | none | one request, one answer, an exit code | daemon |

What is hard, and what makes each part correct:

* **Scheduler.** Two containers and a set that must change together, and a slot
  that is reserved on one path and released on two others. Correct if the
  containers agree, the order is FIFO, at most `max_running` slots are taken,
  and no slot is lost.
* **Timeouts.** Cancelled and replaced deadlines stay in the heap; the timer is
  re-armed while an expiration is unread; a value of 0 disarms it; the clock
  moves while the code computes. Correct if every valid deadline is reported
  once, never before its time, and no wake-up is lost.
* **Monitor.** A job is over when its child is reaped *and* its three pipes are
  at end of file, which happens in any order, and may be discovered by a pipe
  event, by SIGCHLD, or by the code that is about to send a signal. Between
  `waitpid` and `kill` the world goes on. Correct if a job is settled once,
  truthfully, with all its output, and leaves nothing behind.
* **Daemon.** Natural exit, cancellation and timeout race for each job; starting
  a job, setting a deadline or sending a signal can fail. Correct if the first
  cause wins, SIGTERM comes before SIGKILL, a termination always ends, and every
  settled job gives its slot to the next one.
* **Connections.** A stream may be cut anywhere, inside the length field too;
  requests are pipelined, writes are short, a client may stop sending, stop
  reading or vanish; and the events of one batch outlive the descriptors they
  name. Correct if every request is handled once and as sent, every answer
  arrives whole and in order, a connection is closed only for a reason and in
  the end always.
* **Protocol and runnerctl.** Lengths and numbers at the limits of their types.
  Correct if what one side encodes the other decodes, nothing else is accepted,
  and what runnerctl prints is what happened.
* **Processes and path.** The daemon may die between any two system calls, its
  child may be anywhere between fork and `execve`, and a second daemon may be
  started meanwhile. Correct if no program is left without its daemon, the
  start-up pipe says neither too early nor wrongly that the program runs, and
  the path leads to the daemon that serves, after a crash too.

The `hazards` of `PROJECT.json` list these at their source lines.

## The modules

```
Job ── JobScheduler ───────────────┐
 ├──── Deadlines ──────────────────┼── Runnerd ── MCRunnerd
 ├──── Processes ── ProcessMonitor ┘      │
 │         ▲ implements                   │ implements
 ├──── TimeoutManager → Deadlines     JobService

Protocol ─┐
Sockets  ─┴─ Runnerctl ── Connections ── MCConnections, Codec

Descriptors ─┬─ UnixSocket ──────┐
             └─ ProcessLauncher ─┴─ Lifecycle

JobSchedulerProofs ── RunnerdProofs ── RunnerdOutcomeProofs
ProtocolProofs ── ConnectionsProofs ── RunnerctlProofs
TimeoutManagerProofs      LifecycleProofs
```

* `Job`: states, causes and legal transitions (`job.cpp`). `JobIdSpace` is the
  number of values of a JobId (2^64 in the code), so the counter really wraps.
* `JobScheduler`: one operator per member function. `SchedulerSpec` is the
  scheduler alone with arbitrary callers; `Runnerd` uses the same operators.
  Where the code throws and changes nothing, the operator is disabled; that the
  daemon never makes such a call is proved (`InternalChecksHold`).
* `TimeoutManager`: clock, heap, generations, timerfd. A function that reads the
  clock twice may see two times. `epoll_wait` copies readiness into `event`, and
  `schedule` may clear the expiration before it is read. The heap is a set
  ordered by `EarlierDeadline`; entries of one job due at the same instant tie,
  so which of them `discardStaleEntries` pops is left open.
* `Deadlines`: what the daemon may rely on, without time. `TimeoutManager`
  implements it (`ImplementsDeadlines`), and `Runnerd` uses it, which makes a
  deadline able to expire at any moment.
* `Processes`: the kernel and the jobs' processes (external, apart from the
  child's code up to `execve` and the daemon's system calls). A job has a direct
  child and perhaps descendants, inside or outside of its process group. A pipe
  is reduced to: does some process hold its write end, are bytes unread. A write
  to a pipe that the daemon has closed leaves nothing.
* `ProcessMonitor`: one operator per member function or branch of it.
  `child_exited` is `child[j] = "reaped"`; a pipe's descriptor, its eof flag and
  its `tracked_fds_` entry change together and are one element of `tracked_fds`.
  A `startJob` that fails after fork takes three operators: `startJobForks` (from here
  the child runs), `closeUnread` (`launchProcess`'s catch, `~LaunchedProcessGuard` and
  `abandonStartedJob` all close the pipes first) and `startJobAbandoned` (then they
  kill and reap: `launchProcess` the child alone, the other two its group).
* `Runnerd`: the daemon. `pc` is where the thread is; handlers are cut where they
  loop, between `waitpid` and `kill`, and between fork, close and kill of a start that
  fails (`AbandonPipes`, `AbandonChild`), so the environment can act there: an
  abandoned child may exec, write, fork, let a descendant escape or exit by itself. `cur` is the job in hand and `ret` the caller: it tells whether an
  exception is caught by the client branch (the daemon goes on) or ends `main`.
  `Faults` switches on failures of `launch` (before fork), `register` (after
  it), `kill` (EPERM) and `schedule` (timerfd or generation exhaustion).
* `JobService`: what a client may expect, in five actions.
* `Protocol`: the wire format and its decoders, as operators on sequences of
  bytes. A byte has `ByteValues` values, the words of the protocol (`PING`, `OK`,
  a state's name) are one byte each, and the widths of a `uint32_t` and of a JobId
  are constants, so that lengths and ids reach the limits of their types. What
  the code rejects is `Reject`, what it accepts `Accept(value)`. Numbers, the
  parsers' loops and streams of frames are recursive functions, about which
  `ProtocolProofs` can reason; `Spelled` is the reference for the parsers.
* `Sockets`: Unix stream connections as the kernel keeps them (external): two
  ends, bytes under way, a full buffer, shutdown, close, and the reset that
  follows a close with bytes unread.
* `Runnerctl`: the clients. runnerctl sends its one request, reads until a frame
  is complete, and turns the response or the disconnection into a result; any
  other client sends a stream in pieces, shuts down, reads or closes at will.
* `Connections`: the daemon's side. `pc` is where the thread is: one read, one
  frame, one write at a time, so that clients act in between. A `batch` of events
  is taken from epoll and worked off in any order while descriptors are closed
  and the lowest free number is given away again. Jobs appear only as pipes that
  occupy numbers and hang up. A request may also throw: at once (`RequestThrows`: no
  id left, a header too large) or, with the `Faults` of this module, after it has
  taken effect (`RequestFails`: `schedule` in the pump of a SUBMIT; in a CANCEL,
  `schedule` and then the `kill` that replaces it). Either way `main` closes the
  connection without an answer. `handled` and `answers` record the requests
  answered on each connection, `fresh` which connections the batch itself has
  accepted.
* `Codec`: one input, which grows byte by byte, and what encoders, decoders and
  parsers must make of it. It has no clients.
* `Descriptors`: who holds a listening socket or the write end of a start-up
  pipe, across fork, execve, close and death (external), and the number of faults.
* `UnixSocket`: `createUnixListener`, one action per system call that others may
  come between (`lstat`, the probing `connect`, `unlink`, `bind`, `chmod`,
  `listen`), and what `main` does with the path when it ends.
* `ProcessLauncher`: parent and child between fork and `execve`, each system call
  an action of its own: both call `setpgid`, the child asks for the parent-death
  signal and looks at `getppid` afterwards, errors go to the start-up pipe.
* `Lifecycle`: several daemons, at once or one after the other, on one path, with
  their children; each may fail or crash at any step. `contended` records that
  two of them were starting or ending at one time.

An operator placed before a definition as a plausible mistake in it
(`enqueueAcceptsZero` before `enqueue`, `closeClientKeepsEntry` before
`closeClient`) is a faulty variant of it. It is not part of any specification; it
serves to confirm that a property would notice.

## The runs

| Run | Instance | Shows |
|---|---|---|
| `scheduler` | 5 ids, 2 slots | every sequence of calls on the scheduler alone |
| `timeouts` | 2 jobs, 3 generations, timeouts of 1 and 3 ticks, clock to 5 | no deadline lost, early, doubled or mixed up; implements `Deadlines`; every deadline is reported (liveness) |
| `slots` | 3 jobs, 2 slots, one pipe, register and schedule faults, waiting jobs and the first running one may be cancelled | slots, queue and job table agree; no `logic_error`; of two children that exit at once none is forgotten; a grace period that cannot be set becomes an immediate SIGKILL; implements `JobService` |
| `outcome` | 1 job, 3 pipes, output on two, both kinds of descendants, register and kill faults | no output lost; the outcome is true; settled jobs leave nothing; timed jobs are guarded; signals in order; timed and terminating jobs end, even if they ignore SIGTERM, unless a descendant has left the group |
| `queue_live` | 2 jobs with timeouts, 1 slot, launch fault, queued jobs may be cancelled | no idle slot while a job waits; a settled job frees its slot; no job waits for ever; types, with the ids used up |
| `connections` | runnerctl submitting, one other client, 2 descriptor numbers, one pipe, schedule and kill faults | descriptors have one owner; requests and answers are exact; connections are closed for a reason, and in the end; runnerctl tells the truth and never hangs |
| `codec` | payloads of up to 8 bytes, texts of up to 4 characters, every job id of 2 bytes | the wire format and the number parsers agree with reference definitions |
| `lifecycle` | 2 daemons, 2 children, 1 fault | no orphan programs; a launched child has its group; the start-up pipe is true; the path leads to the daemon; a restart succeeds |
| `lost_notification` | 2 jobs, 1 slot, running jobs may be cancelled | *violated*, see below |
| `natural_exit` | 1 job, one descendant | *violated*, see below |
| `stale_event` | as `connections` | *violated*, see below |
| `stale_socket` | 2 daemons, no fault | *violated*, see below |

Bounds. Three jobs on two slots is the least that has two running jobs and one
that waits for either of them; and two zombies at one time, with one SIGCHLD
between them, take two running jobs. The scheduler run has five so that a cancellation
in the middle of a queue of three happens with both slots taken; FIFO order is
its subject, and in `slots` that of the refinement of `JobService`. `JobIdSpace`
and `GenerationSpace` are small enough for both counters to be exhausted within
the runs. One job with all pipes is enough for `outcome`, whose properties
concern one job at a time; jobs meet only in the scheduler, the notifications and
the thread, which `slots` covers. There a job has the startup-error pipe only: the
number of pipes does not matter to slots, that the child and one pipe end
independently does. Of the running jobs clients cancel the first, next to one that
runs and one that waits; the others terminate by their timeouts, at the same time
or not (cancelling all of them takes 3.1 million states for the 1.3 million here).
With the `schedule` fault a free slot may stay unused until
the next event (`pumpScheduler` is left by an exception), so that
`NoJobWaitsForAFreeSlot` belongs to `queue_live`, which is without it.

In `connections` two descriptor numbers for two clients and a pipe make every
number change hands and `accept4` fail. Sockets and reads of four bytes make
every answer of more than two bytes a short write, and every request arrive in
several reads; the other client's bytes may be cut inside the length field
(`CutPoints`), and its stream is a SUBMIT, or two pipelined requests, one of them a
CANCEL, followed by a header that declares too much. runnerctl's request enters its socket at once, as one `write` of a short
frame does. With two job ids of which 0 is none, the second SUBMIT finds the ids
used up.

In `codec` every state is an input: all payloads of up to eight bytes over four
values, which is one more than a frame may hold there, all texts of up to four
digits and spaces, and, as the numbers these spell, every job id; with a
`uint32_t` of one byte and a JobId of two, texts and lengths exceed both types.

In `lifecycle` two daemons are the race for the path or a crash and its restart,
two children are what lets one inherit the other's pipe, and one fault is a crash
or a failing system call at any place; that three daemons at once change nothing
is proved for the invariants, and not checked for `RestartSucceeds`.

Deadlock checking is off in all runs but `scheduler`: a daemon without jobs or
clients may wait for ever once ids are used up, `pc = "dead"` is final, and in
`lifecycle` each child is used once.

Fairness (`Fairness` in `Runnerd`, `Connections` and `Lifecycle`,
`FairTimeoutSpec` in `TimeoutManager`). The thread runs on while it is in a
handler. `epoll` is level triggered and serves its ready list in turn, so a
descriptor that is ready again and again is handled: strong fairness of SIGCHLD,
of each pipe and of the timer. An active deadline expires, which is what
`EveryDeadlineIsReported` shows of `TimeoutManager`. A process that was sent
SIGKILL ends. Nothing is assumed of clients, nor of processes that were not
killed. A descendant that has left its group is not reached by SIGKILL and need not
end, so a job whose pipe it holds may stay TERMINATING for ever. That follows from
the code and the docs promise nothing else; `TimedJobsEnd` and
`TerminatingJobsEnd` therefore except jobs with such a descendant, as long as it
lives, and the end of the daemon (an EPERM from `kill` under a deadline).

In `Connections` the daemon's thread and runnerctl go on while they are not
blocked (weak fairness), and the other clients read what they are sent; that they
ever send, shut down or close is not assumed. A batch holds every descriptor that
is ready and is worked off completely, hence no strong fairness is needed there.
In `Lifecycle` live processes go on, and somebody starts a daemon while none is
running; no program is assumed to end.

### Four disagreements

* **A settled job that keeps its slot** (`lost_notification`). The loop of `main`
  processes the terminal notifications after a timer event and after an event of
  the monitor, but not after a client's request. A CANCEL can settle the job
  itself: SIGCHLD has been handled, the pipes have not, and
  `finishExitedChildBeforeSignal` drains them to end of file. The notification
  stays queued, all descriptors of the job are closed, and if no other job of the
  monitor produces an event, its slot is never given back and the FIFO stands
  still, where `docs/requirements.md:24` says a settled job's slot is released
  and the head of the queue started. For a job with a timeout the deadline is
  usually still active and its expiry heals it later; a job without one, as in
  this run, has nothing left to wake the daemon.
* **A child that has exited is still cancelled** (`natural_exit`).
  `docs/requirements.md:152` says that a direct child that has exited before the
  signal keeps its true result. When a descendant still holds a pipe, the code
  reaps the child, does not settle the job, and goes on to SIGTERM and CANCELLED.
  The comment in the code intends this; the document does not say so.
* **An old event that closes a new client** (`stale_event`). Within one batch the
  timer settles a job and closes its pipe, `acceptClients` gets the number for a
  new client, and the pipe's EPOLLHUP, still in the batch, is taken for the
  client's. The comments at `runnerd_main.cpp:923` and `:952` say that old events do
  no harm and that EPOLLHUP means that the connection has hung up.
  `CloseIsCausedUnlessFresh` shows that nothing else goes wrong: only a connection
  accepted in the same batch can be hit. Its request may have been handled by
  then; runnerctl sees a disconnection, never a false answer.
* **A socket that is not stale is removed** (`stale_socket`). A socket that is bound
  and not yet listening refuses connections like one left behind, and whatever the
  path names at the time of the `unlink` is removed, where the comment at
  `unix_socket.cpp:99` says that it is an old one. Two daemons that start together
  can both end up serving, one of them out of reach. `PathLeadsToTheDaemon` shows
  that this takes two daemons starting or ending at one time.

## The proofs

Every invariant and action property of the passing runs is a theorem, and so are
the two refinements; liveness is left to TLC. `NoMoreThanMaxRunning`, the bound on the
slots, is proved of the scheduler and of the daemon and in no run. Where a run has
two jobs or two clients, the theorem has any number.

**Scheduler.** `JobSchedulerProofs` proves, for every `max_running > 0` and every
number of ids, that `SchedulerInv` is an invariant of the scheduler under any
caller, and that its order is FIFO. Facts about sequences (`Append`, `Tail`,
`RemoveAt` as sets, and without duplicates) come first, then one lemma per member
function. The parts of `SchedulerInv` hold each other up: that a job waits once
rests on the mirror set, which `enqueue` looks at; that a waiting job is not active
rests on its waiting once.

**Timeouts.** `TimeoutManagerProofs` proves `TimeoutInv` for every number of jobs and
generations and any length of time. `GenerationsIdentifyEntries` is not inductive
by itself: a new entry could share its generation with one that lazy deletion has
left behind, which `CounterIsAhead` excludes until the counter is used up. With it
follow that no wake-up is lost, that exactly the due jobs are reported, and that
`TimeoutManager` implements `Deadlines`. This is what entitles `Runnerd` to use
`Deadlines` in its place.

**Daemon.** `RunnerdProofs` proves `DaemonInv`, an inductive invariant of the whole
daemon with clients, processes and every fault at once, and from it `TypeOK`,
`SlotsAccountedFor`, `NoMoreThanMaxRunning` (of the daemon), `InternalChecksHold`,
`TerminalJobsLeaveNothing`, `NoOutputLost` and `ZombiesAreNoticed`. Besides the scheduler's invariant it
has five parts. `SlotsAccountedFor` needs `NotificationsOK` (a notification is of a
settled job and is queued once, otherwise the second release would throw) and
`ControlOK` (each location of the thread knows the state of the job in hand).
`TableOK` ties the monitor's table, the deadlines and the id counter to the job
states; the counter needs *all* ids from `next_job_id` on to be absent. `PipesOK`
strengthens `NoOutputLost` with what processes can still do: a child in startup
holds the startup-error pipe, a job that is settled has no live child, a job that
never started holds no pipe. `NoOutputLost` speaks of the jobs that came to be RUNNING.
It is false of a job that `startJob` abandons after fork (`GivenUp`): the pipes are
closed with output or a startup error in them, or with an escaped descendant still
writing. While the thread is there (`Abandoning`) a job has a child but no
ActiveProcess and no RUNNING state; `ControlOK` and `PipesOK` say of this job
(`InHand`) what they say of the others by their state. `ZombiesAreNoticed` is inductive
with the types: whoever makes a zombie raises SIGCHLD, and the loop that has read it
is left only when `waitpid` finds no more. The lemmas follow the code:
`TryFinalizeJobCases` (leave alone or settle), `DrainKeepsPipes`, and one lemma per
group of actions.

`RunnerdOutcomeProofs` adds `OutcomeInv`: `OutcomeIsTrue` speaks of settled jobs only,
so `OutcomeOK` says what is known of cause, result and signals in every state
before, `DeadlinesOK` which deadlines belong to which caller of the termination,
and `IdsOK` that ids are given in order. Both invariants together show that every
step maps to a step of `JobService` or to none; one lemma per action names the step
it maps to. The service's queue is `QueuedJobs`: a job that is being abandoned has left
the deque, but to a client it is QUEUED until it is FAILED.

The same module proves `SignalsInOrder` under every fault, and three properties that
need some calls to succeed; each theorem names them.
`TimedJobsAreGuarded` and `NoJobWaitsForAFreeSlot` exclude the `schedule` fault (a job
that is started without its deadline has no guard, and the exception leaves
`pumpScheduler` early). Their inductive forms are `GuardInv`, which covers a CANCEL
whose signal fails and that goes back to `epoll_wait`, and `PumpInv`, which says the
same of every location outside of the pump. `TerminationEscalates` excludes only
that `kill` and `schedule` *both* fail, and there the proof attempt found a real
case: a CANCEL sends SIGTERM, the grace deadline cannot be set, and the SIGKILL
sent in its stead fails with EPERM. That call is not in the `try` of `cancelJob`, so
the connection is closed without an answer (`RequestFails` in `Connections`), and the
job stays TERMINATING with neither deadline nor SIGKILL, where the comment at
`runnerd_main.cpp:185` says that it must not stay so for ever. Any other combination
of faults is proved.

**Processes and path.** `LifecycleProofs` proves `LifecycleInv` for any number of
daemons and children and of crashes and faults. Its `ChildInv` records which calls
lie behind a child at each location: a program cannot be orphaned because the
parent-death signal was set, and `getppid` looked at, before. `PathOK` follows the
path through a start: who may name it, and that without contention the others
have not come further than the probing `connect`. From it follow `NoOrphanPrograms`,
`LaunchedChildHasItsGroup`, `StartupPipeIsTrue` and `PathLeadsToTheDaemon`; the last
holds for more than two daemons as well.

**Connections.** `ConnectionsProofs` proves four invariants on top of each other, for
any number of clients, all buffer sizes, and any streams and answers.

* `DescriptorsInv`: types, the backlog (who waits in it waits once, so `accept4` never
  meets a client twice) and `DescriptorsHaveOneOwner`.
* `AnswersInv`: what is received, under way and unsent is the answers so far. It needs
  that nothing is answered or under way before the client is accepted.
* `FramesInv`: what is handled, buffered and under way is what the client has sent. In
  the loop that pops frames only its own client may have complete ones, and until a
  client is accepted all its bytes are in the socket.
* `ClosingInv`: an event that says that a connection has hung up is true of the
  present owner of the number, unless that one is younger than the event; and the end
  of a stream stays its end. From all four follows `CloseIsCausedUnlessFresh`; its
  reasons (`MayClose`) include the exceptions of a request that has taken effect.

**Protocol.** `ProtocolProofs` holds what is true of the wire format for every base,
width and length. A frame that is popped and encoded again is the bytes it was
(`FrameAtHead`), one more frame is appended to the stream of the others
(`EncodeAllAppend`); `FramesInv` rests on these. Numbers go through their big-endian
form in both directions (`BigEndianOfValue`, `ValueOfBigEndian`), hence ids do
(`JobIdsComeThrough`, `JobIdsAreExact`), and so do job specifications: the loop of
`decodeSubmitRequest` stands, after each turn, where the loop of the encoder stood
(`ArgumentsAreRead`), and what it has accepted is, encoded again, what it has read
(`LoopIsExact`). `ParsersAreExact` compares the decimal parsers with `Spelled`: the
test before each digit fails if and only if the number spelled so far exceeds the
type, and then every longer text does so as well. `DecimalsComeBack` is the way back
from `std::to_string`.

These are facts about recursive functions. The induction is the least-number
principle (`LeastNumber`): were the claim false for some index, it would be for a
least one, which the recursion refutes. `IterationExists` shows in the same way that
a recursive function satisfies its equation.

**runnerctl.** `RunnerctlProofs` first puts encoders and decoders together: the daemon
decodes what the command line meant (`RequestsAreAsMeant`), runnerctl understands
every answer to its request (`ResponsesAreUnderstood`), and `CodecIsExact` and
`DecimalsAreExact` hold of every input, not only of those that the run enumerates.
`RunnerctlTellsTheTruth` then needs two invariants more than `ConnectionsProofs` has.
`ResultInv` says of a finished runnerctl that the first frame it received gave its
result. `HandledInv` says that the requests answered on a connection are a beginning of
what its client sends (also after it is closed, where `FramesInv` is silent), that each
has an answer, one that `handleRequest` gives, that ids answered so far are below
`next_job_id`, and that two accepted SUBMITs have different answers. Its step is the one of
`HandleRequest`: the new id is not among the earlier ones, and different ids have
different decimal texts (`DifferentIds`, from `DecimalsComeBack`). A SUBMIT that fails
uses its id up, which is then in no answer (`RequestFailsHistory`). From it
follows that what was handled of a runnerctl is at most its one request, because its
stream is one frame (`OnlyOneFrame`); from `AnswersInv` that what it received is a
prefix of the one answer's frame; together (`Conversation`, `TruthFollows`) that the
frame it has read is this answer. The same invariant gives that no two accepted
SUBMITs of any clients are answered with the same id (`EverySubmitHasItsOwnId`).

The assumptions are those of the modules: `JobIdSpace > 1`, `max_running > 0`
(the constructor rejects 0), the startup-error pipe is one of the pipes, clients
send bytes and a runnerctl that sends has a command line of which it can make a
request (`RequestsAssumption`), an answer fits into a frame (`AnswersAssumption`: 23
bytes at most, of 64 KiB, and `makeListResponse` checks its size),
a path that names a daemon's socket names no other file (`UnixSocketAssumption`), the
other constants range over what they stand for. Some
of the constants, such as `Faults`, `DataPipes` and `KinKinds`, restrict behaviours in
the TLC instances; the theorems hold for every choice of them except where they
say otherwise.

Only model-checked is liveness, which is out of the prover's reach:
`EveryDeadlineIsReported`, `TimedJobsEnd`, `TerminatingJobsEnd`,
`SettledJobFreesItsSlot`, `QueuedJobsLeaveTheQueue`, `ConversationsEnd` and
`RestartSucceeds`. The four violations are counterexamples that TLC finds.

## Not modelled

* The grammar of both command lines (which option may follow which) and all
  usage, log and error texts; the numbers in them are in `Protocol`.
* The content of LIST and STATUS answers and of job output: an answer is one of
  the forms it may have, output is whether bytes are unread.
* `Runnerd` and `Connections` are not composed. `Connections` takes any answer that
  some state of the jobs calls for, and any pipe may hang up or be closed where
  the handlers of `Runnerd` do so. The exceptions that close a connection are in both:
  `RequestFails` has what the client sees of them, `StartedScheduleFails` and
  `SignalFails` what becomes of the job.
* Time in `Runnerd`: a deadline may expire at any moment. That SIGKILL comes after
  SIGTERM is shown, that the grace period lies between them is not.
* More than 64 ready descriptors: a batch holds them all.
* Pids and their reuse: after the child is reaped, `kill(-pgid)` may meet another
  group that has been given the number.
* A direct child that leaves its own process group (its descendants may), and a SIGKILL
  that fails when a child is abandoned after fork: the daemon would wait in `waitpid`
  for the child to end by itself.
* runnerctl's refused `connect` (it reports an error and does nothing else),
  failures of `fcntl` and `epoll_ctl` on a client, of the system calls of
  `launchProcess` before fork, and `ensureStandardDescriptors`.
* Programs that clear the parent-death signal (set-user-ID programs and those that
  do so themselves), and descendants in `Lifecycle`; `Processes` has those.
* Files of others that appear at the socket path after the first daemon has
  started, and the length of the path.
* Failures the code answers by ending the daemon without further state (read,
  `epoll_ctl`, `waitpid`, signalfd errors), and `std::bad_alloc`.
* INTERRUPTED: no code leads there.
