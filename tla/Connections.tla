---------------------------- MODULE Connections -----------------------------
(***************************************************************************)
(* The daemon's side of its client connections (src/runnerd_main.cpp) and  *)
(* the part of main's loop that Runnerd leaves out: descriptor numbers and *)
(* the batch of events that epoll_wait returns, which is worked off while  *)
(* descriptors are closed and their numbers given away again.              *)
(*                                                                         *)
(* Jobs appear as far as they use descriptors: a pipe of the process       *)
(* monitor is a number in pipes, hung up once its writers are gone.        *)
(* Handlers that settle or start jobs close and open such pipes.  What a   *)
(* request does to its job is Runnerd's subject; here it yields one of the *)
(* answers that the job's state may call for.                              *)
(*                                                                         *)
(* pc is where the thread is: "loop" in main's loop, before an event of    *)
(* the batch or, when the batch is empty, in epoll_wait; "accept" in       *)
(* acceptClients; "read" before a read and "parse" before a popFrame of    *)
(* handleClientRead; "write" before a write of handleClientWrite; "dead"   *)
(* after an exception left the loop.                                       *)
(***************************************************************************)
EXTENDS Runnerctl

CONSTANTS
    FdLimit,        \* descriptors the daemon may open: RLIMIT_NOFILE
    MaxPipes,       \* pipes of jobs open at one time
    JobIdSpace,     \* values of a JobId, as in Job
    Faults          \* the calls of a request that may fail: see RequestMayFail

ASSUME ConnectionsAssumption ==
    /\ FdLimit \in Nat \ {0}
    /\ MaxPipes \in Nat
    /\ JobIdSpace \in 2 .. FieldValues(JobIdSize)
    /\ Faults \subseteq {"schedule", "kill"}

\* The answers fit into a frame: 23 bytes at most, of 64 KiB, for those that end in
\* a number; makeListResponse sees to it that a list does.
ASSUME AnswersAssumption ==
    /\ kMaxFrameSize >= 3
    /\ \A job_id \in 1 .. JobIdSpace - 1 : 2 + Len(ToDecimal(job_id)) <= kMaxFrameSize

VARIABLES
    pc,
    batch,          \* the events of epoll_wait not handled yet
    event,          \* the one in hand
    connections,    \* the Connection of each client, and its descriptor
    pipes,          \* the monitor's tracked_fds_
    hung_up,        \* those whose writers are gone
    next_job_id,
    handled,        \* history: the requests answered on each connection,
    answers,        \*   their answers,
    fresh           \*   and the connections accepted in this batch

jobVars == <<pipes, hung_up, next_job_id>>
historyVars == <<handled, answers, fresh>>
daemonVars == <<pc, batch, event, connections, jobVars, historyVars>>
vars == <<socketVars, clientVars, daemonVars>>

Fds == 1 .. FdLimit
listen_fd == 0
timer_fd == -1
NoEvent == [fd |-> 0, mask |-> {}]

\* A Connection as it is accepted at fd; interest is what epoll_ctl registered.
Connection(fd) ==
    [fd |-> fd, decoder |-> <<>>, write_buffer |-> <<>>, write_offset |-> 0,
     read_closed |-> FALSE, interest |-> {"EPOLLIN"}]

NoConnection == Connection(0)

Init ==
    /\ SocketsInit
    /\ ClientsInit
    /\ pc = "loop"
    /\ batch = {}
    /\ event = NoEvent
    /\ connections = [c \in Clients |-> NoConnection]
    /\ pipes = {}
    /\ hung_up = {}
    /\ next_job_id = 1
    /\ handled = [c \in Clients |-> <<>>]
    /\ answers = [c \in Clients |-> <<>>]
    /\ fresh = {}

Connected == {c \in Clients : connections[c].fd # 0}
FreeFds == Fds \ (pipes \cup {connections[c].fd : c \in Connected})

\* connections.find(fd): the clients, one at most.
ClientsAt(fd) == {c \in Connected : connections[c].fd = fd}
Current == CHOOSE c \in Connected : connections[c].fd = event.fd

Unsent(c) ==
    LET con == connections[c] IN
    SubSeq(con.write_buffer, con.write_offset + 1, Len(con.write_buffer))
hasPendingWrite(c) == connections[c].write_offset < Len(connections[c].write_buffer)

-----------------------------------------------------------------------------
\* epoll

\* EPOLLIN stands for EPOLLIN | EPOLLRDHUP: they are registered and tested
\* together.  EPOLLHUP and EPOLLERR are reported whatever is registered.
ClientMask(c) ==
    {e \in connections[c].interest :
        \/ e = "EPOLLIN" /\ (to_daemon[c] # <<>> \/ client_end[c] # "open")
        \/ e = "EPOLLOUT" /\ (Room(c) > 0 \/ Gone(client_end[c]))}
    \cup (IF Gone(client_end[c]) THEN {"EPOLLHUP"} ELSE {})
    \cup (IF client_end[c] = "reset" THEN {"EPOLLERR"} ELSE {})

\* A pipe that hung up, with output still unread or without; events of pipes that
\* did not hang up have no effect here.
PipeMasks == {{"EPOLLHUP"}, {"EPOLLIN", "EPOLLHUP"}}

Events(fd, masks) == {[fd |-> fd, mask |-> m] : m \in masks \ {{}}}

\* All descriptors that are ready; the timer of a job may be at any time.
EpollWait ==
    /\ pc = "loop"
    /\ batch = {}
    /\ \E masks \in [hung_up -> PipeMasks],
          timer \in IF pipes = {} THEN {{}} ELSE {{}, {"EPOLLIN"}} :
          batch' = UNION (
              {Events(listen_fd, {IF backlog = <<>> THEN {} ELSE {"EPOLLIN"}}),
               Events(timer_fd, {timer})}
              \cup {Events(fd, {masks[fd]}) : fd \in hung_up}
              \cup {Events(connections[c].fd, {ClientMask(c)}) : c \in Connected})
    /\ batch' # {}
    /\ fresh' = {}
    /\ UNCHANGED <<socketVars, clientVars, pc, event, connections, jobVars,
                   handled, answers>>

Dispatch(e) == pc = "loop" /\ e \in batch /\ batch' = batch \ {e}

-----------------------------------------------------------------------------
\* The other users of descriptors

\* Some pipes that hung up are closed and perhaps one is opened.
PipesChange(closed, mayOpen) ==
    /\ hung_up' = hung_up \ closed
    /\ \/ pipes' = pipes \ closed
       \/ /\ mayOpen
          /\ Cardinality(pipes \ closed) < MaxPipes
          /\ \E fd \in FreeFds \cup closed : pipes' = (pipes \ closed) \cup {fd}

\* handleDeadlineEvent may settle jobs, of which some pipes had hung up, and
\* processTerminalJobNotifications then starts others.
TimerEvent(e) ==
    /\ Dispatch(e)
    /\ e.fd = timer_fd
    /\ \E closed \in SUBSET hung_up : PipesChange(closed, TRUE)
    /\ UNCHANGED <<socketVars, clientVars, pc, event, connections, next_job_id, historyVars>>

\* The monitor reads its pipe to the end of file and closes it.  A pipe that has
\* taken the number of the one that hung up has nothing to read yet.
PipeEvent(e) ==
    /\ Dispatch(e)
    /\ e.fd \in pipes
    /\ PipesChange({e.fd} \cap hung_up, TRUE)
    /\ UNCHANGED <<socketVars, clientVars, pc, event, connections, next_job_id, historyVars>>

\* The event's descriptor has been closed since epoll_wait.
OldEvent(e) ==
    /\ Dispatch(e)
    /\ e.fd \in FreeFds
    /\ UNCHANGED <<socketVars, clientVars, pc, event, connections, jobVars, historyVars>>

\* The last writer of a job's pipe ends (external).
PipeHangsUp(fd) ==
    /\ fd \in pipes \ hung_up
    /\ hung_up' = hung_up \cup {fd}
    /\ UNCHANGED <<socketVars, clientVars, pc, batch, event, connections, pipes,
                   next_job_id, historyVars>>

-----------------------------------------------------------------------------
\* acceptClients

ListenEvent(e) ==
    /\ Dispatch(e)
    /\ e.fd = listen_fd
    /\ pc' = "accept"
    /\ UNCHANGED <<socketVars, clientVars, event, connections, jobVars, historyVars>>

\* accept4 takes the lowest free number.
Accept4 ==
    /\ pc = "accept"
    /\ backlog # <<>>
    /\ FreeFds # {}
    /\ LET c == Head(backlog)
           fd == CHOOSE n \in FreeFds : \A m \in FreeFds : n <= m
       IN  /\ connections' = [connections EXCEPT ![c] = Connection(fd)]
           /\ daemon_end' = [daemon_end EXCEPT ![c] = "open"]
           /\ fresh' = fresh \cup {c}
    /\ backlog' = Tail(backlog)
    /\ UNCHANGED <<client_end, to_daemon, to_client>>
    /\ UNCHANGED <<clientVars, pc, batch, event, jobVars, handled, answers>>

AcceptDone ==
    /\ pc = "accept"
    /\ backlog = <<>>
    /\ pc' = "loop"
    /\ UNCHANGED <<socketVars, clientVars, batch, event, connections, jobVars, historyVars>>

\* EMFILE: the exception leaves main's loop, and the process ends.
AcceptFails ==
    /\ pc = "accept"
    /\ backlog # <<>>
    /\ FreeFds = {}
    /\ DaemonDies
    /\ connections' = [c \in Clients |-> NoConnection]
    /\ pipes' = {} /\ hung_up' = {} /\ batch' = {}
    /\ pc' = "dead"
    /\ UNCHANGED <<clientVars, event, next_job_id, historyVars>>

-----------------------------------------------------------------------------
\* The client branch of main's loop

\* The descriptor is closed and its Connection stays.
closeClientKeepsEntry(c, unread) ==
    /\ DaemonCloses(c, unread)
    /\ pc' = "loop" /\ event' = NoEvent
    /\ UNCHANGED <<clientVars, connections, historyVars>>

\* The connection is closed with these bytes of the client unread.
closeClient(c, unread) ==
    /\ DaemonCloses(c, unread)
    /\ connections' = [connections EXCEPT ![c] = NoConnection]
    /\ pc' = "loop" /\ event' = NoEvent
    /\ UNCHANGED <<clientVars, historyVars>>

ClientEvent(e) ==
    /\ Dispatch(e)
    /\ ClientsAt(e.fd) # {}
    /\ "EPOLLERR" \notin e.mask
    /\ event' = e
    /\ pc' = IF "EPOLLIN" \in e.mask THEN "read" ELSE "write"
    /\ UNCHANGED <<socketVars, clientVars, connections, jobVars, historyVars>>

ClientError(e) ==
    /\ Dispatch(e)
    /\ "EPOLLERR" \in e.mask
    /\ \E c \in ClientsAt(e.fd) : closeClient(c, to_daemon[c])
    /\ UNCHANGED jobVars

-----------------------------------------------------------------------------
\* handleClientRead

\* Where the loops go on: with the next frame, or with the next read.
AfterBytes(buffer) == IF IsOversized(buffer) \/ hasFrame(buffer) THEN "parse" ELSE "read"

\* What is left of an incomplete frame is forgotten.
ReadForgetsRest(c) ==
    /\ pc = "read"
    /\ to_daemon[c] # <<>>
    /\ connections' = [connections EXCEPT ![c].decoder = Chunk(to_daemon[c])]
    /\ pc' = AfterBytes(Chunk(to_daemon[c]))
    /\ to_daemon' = [to_daemon EXCEPT ![c] = AfterChunk(@)]
    /\ UNCHANGED <<client_end, daemon_end, to_client, backlog>>
    /\ UNCHANGED <<clientVars, batch, event, jobVars, historyVars>>

\* One read with data.
Read(c) ==
    /\ pc = "read"
    /\ to_daemon[c] # <<>>
    /\ LET fed == feed(connections[c].decoder, Chunk(to_daemon[c])) IN
       /\ fed.ok
       /\ connections' = [connections EXCEPT ![c].decoder = fed.value]
       /\ pc' = AfterBytes(fed.value)
    /\ to_daemon' = [to_daemon EXCEPT ![c] = AfterChunk(@)]
    /\ UNCHANGED <<client_end, daemon_end, to_client, backlog>>
    /\ UNCHANGED <<clientVars, batch, event, jobVars, historyVars>>

\* feed throws: the length field that is now complete is too large.
FeedThrows(c) ==
    /\ pc = "read"
    /\ to_daemon[c] # <<>>
    /\ ~feed(connections[c].decoder, Chunk(to_daemon[c])).ok
    /\ closeClient(c, AfterChunk(to_daemon[c]))
    /\ UNCHANGED <<batch, jobVars>>

\* ECONNRESET.
ReadFails(c) ==
    /\ pc = "read"
    /\ to_daemon[c] = <<>> /\ client_end[c] = "reset"
    /\ closeClient(c, <<>>)
    /\ UNCHANGED <<batch, jobVars>>

\* EAGAIN, or the end of the stream.
ReadDone(c) ==
    /\ pc = "read"
    /\ to_daemon[c] = <<>> /\ client_end[c] # "reset"
    /\ connections' = [connections EXCEPT ![c].read_closed = client_end[c] # "open"]
    /\ pc' = "write"
    /\ UNCHANGED <<socketVars, clientVars, batch, event, jobVars, historyVars>>

\* A SUBMIT that decodes and passes the check.
IsAcceptable(request) ==
    LET spec == decodeSubmitRequest(request) IN spec.ok /\ validateJobSpec(spec.value)

\* The answers of the three requests about jobs, in any state of the jobs.
makeListResponse == {<<OK>>, <<OK, Newline, Text>>, Error}
makeStatusResponse == {<<OK, Space, Text>>, Error}
cancelJob == {<<OK, Space, Cancelled>>, <<OK, Space, Terminating>>, Error}

\* What handleRequest may answer, with this id to give.
Answers(request, job_id) ==
    CASE request = <<PING>>              -> {<<PONG>>}
      [] request = <<LIST>>              -> makeListResponse
      [] decodeStatusRequest(request).ok -> makeStatusResponse
      [] decodeCancelRequest(request).ok -> cancelJob
      [] IsAcceptable(request)           -> {<<OK, Space>> \o ToDecimal(job_id)}
      [] OTHER                           -> {Error}

\* A new id for every SUBMIT, whose job may be started at once.  A CANCEL of a
\* job whose child has exited closes the pipes that have hung up.
RequestEffects(request) ==
    CASE IsAcceptable(request) ->
            /\ next_job_id' = (next_job_id + 1) % JobIdSpace
            /\ PipesChange({}, TRUE)
      [] decodeCancelRequest(request).ok ->
            /\ UNCHANGED next_job_id
            /\ \E closed \in SUBSET hung_up : PipesChange(closed, FALSE)
      [] OTHER -> UNCHANGED jobVars

\* popFrame, handleRequest and the answer, for one complete frame.
HandleRequest(c) ==
    LET buffer == connections[c].decoder
        request == FirstFrame(buffer)
    IN  /\ pc = "parse"
        /\ ~IsOversized(buffer) /\ hasFrame(buffer)
        /\ IsAcceptable(request) => next_job_id # 0
        /\ RequestEffects(request)
        /\ \E answer \in Answers(request, next_job_id) :
              /\ connections' = [connections EXCEPT
                                    ![c].decoder = popFrame(buffer),
                                    ![c].write_buffer = @ \o encodeFrame(answer)]
              /\ answers' = [answers EXCEPT ![c] = Append(@, answer)]
        /\ handled' = [handled EXCEPT ![c] = Append(@, request)]
        /\ pc' = AfterBytes(popFrame(buffer))
        /\ UNCHANGED <<socketVars, clientVars, batch, event, fresh>>

\* A call that throws after the request has taken effect: schedule, for the timeout
\* of a job that pumpScheduler has started in a SUBMIT; kill, where a CANCEL whose
\* grace deadline could not be set sends SIGKILL (EPERM of its SIGTERM is answered
\* with ERR).
RequestMayFail(request) ==
    \/ "schedule" \in Faults /\ IsAcceptable(request) /\ next_job_id # 0
    \/ {"schedule", "kill"} \subseteq Faults /\ decodeCancelRequest(request).ok

\* The job stays submitted or terminating, and the client is not told.
RequestFails(c) ==
    LET buffer == connections[c].decoder
        request == FirstFrame(buffer)
    IN  /\ pc = "parse"
        /\ ~IsOversized(buffer) /\ hasFrame(buffer)
        /\ RequestMayFail(request)
        /\ RequestEffects(request)
        /\ closeClient(c, to_daemon[c])
        /\ UNCHANGED batch

\* hasFrame throws for a length that is too large; handleRequest throws when the
\* job ids are used up.  Nothing has changed yet.
RequestThrows(c) ==
    /\ pc = "parse"
    /\ \/ IsOversized(connections[c].decoder)
       \/ /\ hasFrame(connections[c].decoder) /\ next_job_id = 0
          /\ IsAcceptable(FirstFrame(connections[c].decoder))
    /\ closeClient(c, to_daemon[c])
    /\ UNCHANGED <<batch, jobVars>>

-----------------------------------------------------------------------------
\* handleClientWrite and what follows it

\* A short write counts as a whole one.
WriteForgetsShortWrite(c) ==
    /\ pc = "write"
    /\ "EPOLLOUT" \in event.mask
    /\ hasPendingWrite(c) /\ ~Gone(client_end[c]) /\ Room(c) > 0
    /\ LET n == IF Len(Unsent(c)) < Room(c) THEN Len(Unsent(c)) ELSE Room(c) IN
       /\ to_client' = [to_client EXCEPT ![c] = @ \o SubSeq(Unsent(c), 1, n)]
       /\ connections' = [connections EXCEPT ![c].write_offset =
                                                  Len(connections[c].write_buffer)]
    /\ UNCHANGED <<client_end, daemon_end, to_daemon, backlog>>
    /\ UNCHANGED <<clientVars, pc, batch, event, jobVars, historyVars>>

\* One write; it takes what fits.
Write(c) ==
    /\ pc = "write"
    /\ "EPOLLOUT" \in event.mask
    /\ hasPendingWrite(c) /\ ~Gone(client_end[c]) /\ Room(c) > 0
    /\ LET n == IF Len(Unsent(c)) < Room(c) THEN Len(Unsent(c)) ELSE Room(c) IN
       /\ to_client' = [to_client EXCEPT ![c] = @ \o SubSeq(Unsent(c), 1, n)]
       /\ connections' = [connections EXCEPT ![c].write_offset = @ + n]
    /\ UNCHANGED <<client_end, daemon_end, to_daemon, backlog>>
    /\ UNCHANGED <<clientVars, pc, batch, event, jobVars, historyVars>>

\* EPIPE.
WriteFails(c) ==
    /\ pc = "write"
    /\ "EPOLLOUT" \in event.mask
    /\ hasPendingWrite(c) /\ Gone(client_end[c])
    /\ closeClient(c, to_daemon[c])
    /\ UNCHANGED <<batch, jobVars>>

\* Everything is written, EAGAIN, or there was no EPOLLOUT.
WriteIsDone(c) ==
    /\ pc = "write"
    /\ \/ "EPOLLOUT" \notin event.mask
       \/ ~hasPendingWrite(c)
       \/ ~Gone(client_end[c]) /\ Room(c) = 0

\* Does not look at the answers that are not sent yet.
IsOverAtEndOfStream(c) == "EPOLLHUP" \in event.mask \/ connections[c].read_closed

\* The connection has hung up, or has nothing left to do.
IsOver(c) ==
    \/ "EPOLLHUP" \in event.mask
    \/ connections[c].read_closed /\ ~hasPendingWrite(c)

Finish(c) ==
    /\ WriteIsDone(c)
    /\ IsOver(c)
    /\ closeClient(c, to_daemon[c])
    /\ UNCHANGED <<batch, jobVars>>

\* Asks for EPOLLOUT only after the client has stopped sending.
WantedEventsLate(c) == IF connections[c].read_closed THEN {"EPOLLOUT"} ELSE {"EPOLLIN"}

WantedEvents(c) ==
    (IF connections[c].read_closed THEN {} ELSE {"EPOLLIN"})
    \cup (IF hasPendingWrite(c) THEN {"EPOLLOUT"} ELSE {})

\* Clears the buffer and forgets to reset the offset.
updateClientEventsKeepsOffset(c) ==
    /\ WriteIsDone(c)
    /\ ~IsOver(c)
    /\ connections' = [connections EXCEPT
                          ![c].write_buffer = IF hasPendingWrite(c) THEN @ ELSE <<>>,
                          ![c].interest = WantedEvents(c)]
    /\ pc' = "loop" /\ event' = NoEvent
    /\ UNCHANGED <<socketVars, clientVars, batch, jobVars, historyVars>>

\* handleClientWrite has cleared a buffer that is written completely.
updateClientEvents(c) ==
    /\ WriteIsDone(c)
    /\ ~IsOver(c)
    /\ connections' = [connections EXCEPT
                          ![c].write_buffer = IF hasPendingWrite(c) THEN @ ELSE <<>>,
                          ![c].write_offset = IF hasPendingWrite(c) THEN @ ELSE 0,
                          ![c].interest = WantedEvents(c)]
    /\ pc' = "loop" /\ event' = NoEvent
    /\ UNCHANGED <<socketVars, clientVars, batch, jobVars, historyVars>>

-----------------------------------------------------------------------------

ClientBranch(c) ==
    \/ Read(c) \/ FeedThrows(c) \/ ReadFails(c) \/ ReadDone(c)
    \/ HandleRequest(c) \/ RequestFails(c) \/ RequestThrows(c)
    \/ Write(c) \/ WriteFails(c)
    \/ Finish(c) \/ updateClientEvents(c)

Daemon ==
    \/ EpollWait
    \/ \E e \in batch : \/ TimerEvent(e) \/ PipeEvent(e) \/ OldEvent(e)
                        \/ ListenEvent(e) \/ ClientEvent(e) \/ ClientError(e)
    \/ Accept4 \/ AcceptDone \/ AcceptFails
    \/ pc \in {"read", "parse", "write"} /\ ClientBranch(Current)

Client(c) ==
    /\ \/ pc # "dead" /\ Connects(c)
       \/ RunnerctlStep(c) \/ OtherStep(c)
    /\ UNCHANGED daemonVars

Next ==
    \/ Daemon
    \/ \E c \in Clients : Client(c)
    \/ \E fd \in Fds : PipeHangsUp(fd)

Spec == Init /\ [][Next]_vars

(***************************************************************************)
(* The daemon's thread goes on while it can, which in epoll_wait means     *)
(* that something is ready; runnerctl goes on while it is not blocked; the *)
(* other clients read what they are sent.  That they ever send, shut down  *)
(* or close is not assumed.                                                *)
(***************************************************************************)
Fairness ==
    /\ WF_vars(Daemon)
    /\ \A c \in Runnerctls : WF_vars(RunnerctlStep(c) /\ UNCHANGED daemonVars)
    /\ \A c \in Clients \ Runnerctls : WF_vars(OtherReads(c) /\ UNCHANGED daemonVars)

FairSpec == Spec /\ Fairness

-----------------------------------------------------------------------------

ConnectionsTypeOK ==
    /\ SocketsTypeOK
    /\ ClientsTypeOK
    /\ pc \in {"loop", "accept", "read", "parse", "write", "dead"}
    /\ \A e \in batch \cup {event} :
          /\ e.fd \in Fds \cup {listen_fd, timer_fd}
          /\ e.mask \subseteq {"EPOLLIN", "EPOLLOUT", "EPOLLHUP", "EPOLLERR"}
    /\ \A c \in Clients :
          /\ connections[c].fd \in Fds \cup {0}
          /\ connections[c].write_offset \in 0 .. Len(connections[c].write_buffer)
          /\ connections[c].interest \subseteq {"EPOLLIN", "EPOLLOUT"}
    /\ hung_up \subseteq pipes /\ pipes \subseteq Fds
    /\ next_job_id \in 0 .. JobIdSpace - 1

(***************************************************************************)
(* Descriptors are never mixed up, although numbers are given away again   *)
(* in the middle of a batch: a number is one client's or one pipe's, the   *)
(* daemon keeps a Connection for exactly the sockets it has open, and the  *)
(* Connection that a handler works on is there until the handler returns.  *)
(***************************************************************************)
DescriptorsHaveOneOwner ==
    /\ \A c \in Clients : daemon_end[c] = "open" <=> c \in Connected
    /\ \A c, d \in Connected : connections[c].fd = connections[d].fd => c = d
    /\ \A c \in Connected : connections[c].fd \notin pipes
    /\ pc \in {"read", "parse", "write"} => ClientsAt(event.fd) # {}

(***************************************************************************)
(* However a client's bytes are cut, pipelined and read, the daemon takes  *)
(* them apart exactly: the requests it has handled, put back into frames,  *)
(* followed by the bytes in the decoder and in the socket, are what the    *)
(* client has sent.  And nothing is left lying: outside of the loop that   *)
(* pops frames no decoder holds a complete frame or a length too large.    *)
(***************************************************************************)
FramesAreExact ==
    \A c \in Connected :
        LET buffer == connections[c].decoder IN
        /\ EncodeAll(handled[c]) \o buffer \o to_daemon[c] = SubSeq(stream[c], 1, sent[c])
        /\ pc # "parse" => ~IsOversized(buffer) /\ ~hasFrame(buffer)

(***************************************************************************)
(* No answer is lost, doubled, torn or overtaken: what a client has read,  *)
(* what is on its way and what the daemon has not written yet are the      *)
(* answers in the order of the requests; after a close, a beginning.       *)
(***************************************************************************)
AnswersAreExact ==
    \A c \in Clients :
        /\ c \in Connected /\ ~Gone(client_end[c]) =>
              received[c] \o to_client[c] \o Unsent(c) = EncodeAll(answers[c])
        /\ IsPrefix(received[c] \o to_client[c], EncodeAll(answers[c]))

\* The reasons for which the daemon may close a connection: the client has
\* closed; the client sends no more, every request it sent completely is answered
\* and every answer is written; the next frame is too large; its SUBMIT finds no
\* id left; this step handles its next request, and a call that may fail does; or
\* the daemon itself ends.
MayClose(c) ==
    LET rest == connections[c].decoder \o to_daemon[c] IN
    \/ Gone(client_end[c])
    \/ /\ client_end[c] = "half" /\ ~hasFrame(rest)
       /\ received[c] \o to_client[c] = EncodeAll(answers[c])
    \/ IsOversized(rest)
    \/ next_job_id = 0 /\ hasFrame(rest) /\ IsAcceptable(FirstFrame(rest))
    \/ /\ pc = "parse" /\ hasFrame(rest)
       /\ RequestMayFail(FirstFrame(rest)) /\ RequestEffects(FirstFrame(rest))
    \/ pc' = "dead"

(***************************************************************************)
(* The daemon closes no connection without one of these reasons, except    *)
(* possibly one that it accepted in the current batch of events (see       *)
(* CloseIsCaused).                                                         *)
(***************************************************************************)
CloseIsCausedUnlessFresh ==
    [][\A c \in Connected :
          Gone(daemon_end'[c]) => MayClose(c) \/ c \in fresh]_vars

(***************************************************************************)
(* What the comments of main's loop say of the client branch: EPOLLHUP     *)
(* means that this connection has hung up, and events from before a        *)
(* descriptor was closed do no harm.  Without the exception above.         *)
(***************************************************************************)
CloseIsCaused ==
    [][\A c \in Connected : Gone(daemon_end'[c]) => MayClose(c)]_vars

SubmittedId(c) == parseSubmitSuccessResponse(FirstFrame(received[c])).value

Submitted ==
    {c \in Runnerctls : result[c] = "success" /\ command_line[c].command = "submit"}

\* The daemon decodes what the command line says.
IsAsMeant(request, line) ==
    CASE line.command = "submit" -> decodeSubmitRequest(request) = Accept(line.spec)
      [] line.command = "status" -> decodeStatusRequest(request) = Accept(line.job_id)
      [] line.command = "cancel" -> decodeCancelRequest(request) = Accept(line.job_id)
      [] line.command = "ping"   -> request = <<PING>>
      [] line.command = "list"   -> request = <<LIST>>

(***************************************************************************)
(* runnerctl tells the truth: it meets no response that it does not        *)
(* understand; when it reports a success or an error, the daemon has       *)
(* handled its request, once and as it was meant; and the id that a submit *)
(* prints is its job's, which no other submit prints.                      *)
(***************************************************************************)
RunnerctlTellsTheTruth ==
    /\ \A c \in Runnerctls :
          /\ result[c] # "unexpected"
          /\ result[c] \in {"success", "error"} =>
                /\ Len(handled[c]) = 1 /\ IsAsMeant(handled[c][1], command_line[c])
                /\ FirstFrame(received[c]) = answers[c][1]
    /\ \A c, d \in Submitted : SubmittedId(c) = SubmittedId(d) => c = d

\* runnerctl waits for its response, or the daemon's end is left to be closed.
Unfinished(c) ==
    \/ c \in Runnerctls /\ client_end[c] = "open"
    \/ daemon_end[c] \in {"backlog", "open"} /\ client_end[c] # "open"

(***************************************************************************)
(* Every conversation comes to its end: runnerctl never hangs, it gets a   *)
(* response or a disconnection whatever the other clients and the jobs do; *)
(* and no connection leaks: once a client sends no more, or has closed,    *)
(* the daemon finishes its answers and closes, too.                        *)
(***************************************************************************)
ConversationsEnd ==
    \A c \in Clients :
        Unfinished(c) ~> (/\ Gone(daemon_end[c])
                          /\ c \in Runnerctls => Gone(client_end[c]))
=============================================================================
