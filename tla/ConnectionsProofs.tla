-------------------------- MODULE ConnectionsProofs --------------------------
(***************************************************************************)
(* The daemon's connections for any number of clients, any descriptor      *)
(* limit, buffer sizes and requests: descriptors are never mixed up, no    *)
(* answer is lost, doubled, torn or overtaken, every stream of requests is *)
(* taken apart exactly, and connections are closed for a reason only.      *)
(***************************************************************************)
EXTENDS Connections, ProtocolProofs

-----------------------------------------------------------------------------
\* Reads and answers

\* One read.
LEMMA ChunkType ==
    ASSUME NEW bytes \in Seq(Byte)
    PROVE  /\ Chunk(bytes) \in Seq(Byte) /\ AfterChunk(bytes) \in Seq(Byte)
           /\ Len(AfterChunk(bytes)) <= Len(bytes)
           /\ Chunk(bytes) \o AfterChunk(bytes) = bytes
<1> DEFINE n == IF Len(bytes) < ReadSize THEN Len(bytes) ELSE ReadSize
<1>1. n \in 0 .. Len(bytes) /\ Len(bytes) \in Nat
  BY RunnerctlAssumption
<1>2. Chunk(bytes) = SubSeq(bytes, 1, n)
  BY DEF Chunk
<1> HIDE DEF n
<1>3. /\ SubSeq(bytes, 1, n) \in Seq(Byte) /\ Len(SubSeq(bytes, 1, n)) = n
      /\ SubSeq(bytes, n + 1, Len(bytes)) \in Seq(Byte)
      /\ Len(SubSeq(bytes, n + 1, Len(bytes))) = Len(bytes) - n
      /\ SubSeq(bytes, 1, n) \o SubSeq(bytes, n + 1, Len(bytes)) = bytes
  BY <1>1, Cut
<1>4. AfterChunk(bytes) = SubSeq(bytes, n + 1, Len(bytes))
  BY <1>2, <1>3 DEF AfterChunk
<1>5. Len(bytes) - n <= Len(bytes)
  BY <1>1
<1> QED
  BY <1>2, <1>3, <1>4, <1>5, Zenon

LEMMA AnswersType ==
    ASSUME NEW request, NEW job_id \in Nat, NEW answer \in Answers(request, job_id)
    PROVE  answer \in Seq(Byte)
<1>1. /\ {Nul, Slash, Space, Newline, PONG, OK, ERR, Cancelled, Terminating, Text} \subseteq Byte
  BY ProtocolAssumption
     DEF Byte, Nul, Slash, Space, Newline, PONG, OK, ERR, Cancelled, Terminating, Text
<1>2. /\ <<PONG>> \in Seq(Byte) /\ <<OK>> \in Seq(Byte) /\ <<OK, Newline, Text>> \in Seq(Byte)
      /\ <<OK, Space, Text>> \in Seq(Byte) /\ <<OK, Space, Cancelled>> \in Seq(Byte)
      /\ <<OK, Space, Terminating>> \in Seq(Byte) /\ <<ERR, Space, Text>> \in Seq(Byte)
      /\ <<OK, Space>> \in Seq(Byte)
  BY <1>1
<1>3. <<OK, Space>> \o ToDecimal(job_id) \in Seq(Byte)
  BY <1>2, ToDecimalType, ConcatProperties
<1>4. \/ answer \in {<<PONG>>} \/ answer \in makeListResponse \/ answer \in makeStatusResponse
      \/ answer \in cancelJob \/ answer \in {<<OK, Space>> \o ToDecimal(job_id)}
      \/ answer \in {Error}
  BY Zenon DEF Answers
<1> QED
  BY <1>2, <1>3, <1>4, Zenon DEF makeListResponse, makeStatusResponse, cancelJob, Error

\* What runnerctl sends for each command.
LEMMA RequestOf ==
    ASSUME NEW line
    PROVE  /\ line.command = "ping" => makeRequestPayload(line) = <<PING>>
           /\ line.command = "list" => makeRequestPayload(line) = <<LIST>>
           /\ line.command = "submit" =>
                 makeRequestPayload(line) = encodeSubmitRequest(line.spec).value
           /\ line.command = "status" =>
                 makeRequestPayload(line) = appendJobId(<<kStatusCommand>>, line.job_id)
           /\ line.command = "cancel" =>
                 makeRequestPayload(line) = appendJobId(<<kCancelCommand>>, line.job_id)
BY DEF makeRequestPayload, encodeStatusRequest, encodeCancelRequest

LEMMA RequestType ==
    ASSUME NEW line, IsSendable(line)
    PROVE  makeRequestPayload(line) \in Seq(Byte)
<1>1. {PING, LIST, kStatusCommand, kCancelCommand} \subseteq Byte
  BY ProtocolAssumption DEF Byte, PING, LIST, kStatusCommand, kCancelCommand
<1>2. <<PING>> \in Seq(Byte) /\ <<LIST>> \in Seq(Byte)
  BY <1>1
<1>3. CASE line.command \in {"ping", "list"}
  BY <1>2, <1>3, RequestOf, Zenon
<1>4. CASE line.command = "submit" /\ line.spec \in JobSpec /\ encodeSubmitRequest(line.spec).ok
  <2>1. encodeSubmitRequest(line.spec).value = SubmitPayload(line.spec)
    BY <1>4 DEF encodeSubmitRequest, Accept, Reject
  <2> QED
    BY <1>4, <2>1, RequestOf, SubmitPayloadType, Zenon
<1>5. CASE line.command \in {"status", "cancel"} /\ line.job_id \in 1 .. FieldValues(JobIdSize) - 1
  <2>1. line.job_id \in Nat
    BY <1>5, FieldSizes
  <2> QED
    BY <1>1, <1>5, <2>1, RequestOf, AppendJobIdType, Zenon
<1> QED
  BY <1>3, <1>4, <1>5 DEF IsSendable

-----------------------------------------------------------------------------
\* Types and descriptors

ConnectionType ==
    [fd : Fds \cup {0}, decoder : Seq(Byte), write_buffer : Seq(Byte), write_offset : Nat,
     read_closed : BOOLEAN, interest : SUBSET {"EPOLLIN", "EPOLLOUT"}]

EventType ==
    [fd : Fds \cup {listen_fd, timer_fd},
     mask : SUBSET {"EPOLLIN", "EPOLLOUT", "EPOLLHUP", "EPOLLERR"}]

SocketsInv ==
    /\ client_end \in [Clients -> {"new", "open", "half", "closed", "reset"}]
    /\ daemon_end \in [Clients -> {"none", "backlog", "open", "closed", "reset"}]
    /\ to_daemon \in [Clients -> Seq(Byte)]
    /\ to_client \in [Clients -> Seq(Byte)]
    /\ \A c \in Clients : Len(to_client[c]) <= SocketBuffer
    /\ backlog \in Seq(Clients)

ClientsInv ==
    /\ stream \in [Clients -> Seq(Byte)]
    /\ sent \in [Clients -> Nat]
    /\ \A c \in Clients : sent[c] <= Len(stream[c])
    /\ received \in [Clients -> Seq(Byte)]
    /\ result \in [Clients -> {"none", "success", "error", "unexpected", "failed"}]

DaemonInv ==
    /\ pc \in {"loop", "accept", "read", "parse", "write", "dead"}
    /\ batch \subseteq EventType
    /\ event \in EventType
    /\ connections \in [Clients -> ConnectionType]
    /\ \A c \in Clients : connections[c].write_offset <= Len(connections[c].write_buffer)
    /\ pipes \subseteq Fds
    /\ hung_up \subseteq pipes
    /\ next_job_id \in 0 .. JobIdSpace - 1
    /\ handled \in [Clients -> Seq(Seq(Byte))]
    /\ answers \in [Clients -> Seq(Seq(Byte))]

\* Who waits in the backlog waits once, and was never accepted.
BacklogInv ==
    /\ \A i \in 1 .. Len(backlog) : daemon_end[backlog[i]] = "backlog"
    /\ \A i, j \in 1 .. Len(backlog) : backlog[i] = backlog[j] => i = j
    /\ \A c \in Clients : client_end[c] = "new" => daemon_end[c] = "none"

(***************************************************************************)
(* The inductive invariant of the descriptors.  The types are in it since  *)
(* a Connection must keep its fields, and the backlog since accept4 must   *)
(* not meet a client twice.                                                *)
(***************************************************************************)
DescriptorsInv ==
    /\ SocketsInv
    /\ ClientsInv
    /\ DaemonInv
    /\ BacklogInv
    /\ DescriptorsHaveOneOwner

LEMMA DescriptorsInvInit ==
    ASSUME Init
    PROVE  DescriptorsInv
<1> USE DEF Init, SocketsInit, ClientsInit
<1>1. <<>> \in Seq(Byte) /\ <<>> \in Seq(Seq(Byte)) /\ <<>> \in Seq(Clients) /\ Len(<<>>) = 0
  BY EmptySeq
<1>2. SocketsInv
  BY <1>1, SocketsAssumption DEF SocketsInv
<1>3. ClientsInv
  <2>1. \A line \in CommandLines : encodeFrame(makeRequestPayload(line)) \in Seq(Byte)
    BY RequestsAssumption, RequestType, EncodeFrameType
  <2>2. stream \in [Clients -> Seq(Byte)]
    BY <2>1, RequestsAssumption
  <2> QED
    BY <1>1, <2>2 DEF ClientsInv
<1>4. DaemonInv
  <2>1. NoConnection \in ConnectionType
    BY <1>1 DEF NoConnection, Connection, ConnectionType
  <2>2. NoEvent \in EventType
    BY DEF NoEvent, EventType, listen_fd
  <2>3. NoConnection.write_offset = 0 /\ NoConnection.write_buffer = <<>>
    BY DEF NoConnection, Connection
  <2>4. 1 \in 0 .. JobIdSpace - 1
    BY ConnectionsAssumption
  <2> QED
    BY <1>1, <2>1, <2>2, <2>3, <2>4 DEF DaemonInv
<1>5. BacklogInv
  BY <1>1 DEF BacklogInv
<1>6. DescriptorsHaveOneOwner
  <2>1. \A c \in Clients : connections[c].fd = 0
    BY DEF NoConnection, Connection
  <2> QED
    BY <2>1 DEF DescriptorsHaveOneOwner, Connected
<1> QED
  BY <1>2, <1>3, <1>4, <1>5, <1>6 DEF DescriptorsInv

\* The Connection that a handler works on.
LEMMA CurrentIsConnected ==
    ASSUME DescriptorsInv, pc \in {"read", "parse", "write"}
    PROVE  Current \in Connected /\ Current \in Clients /\ connections[Current].fd = event.fd
BY DEF DescriptorsInv, DescriptorsHaveOneOwner, Current, ClientsAt, Connected

\* Pipes take only numbers that no client has.
LEMMA PipesChangeSafely ==
    ASSUME DescriptorsInv, NEW closed \in SUBSET hung_up, NEW mayOpen,
           PipesChange(closed, mayOpen)
    PROVE  /\ pipes' \subseteq Fds /\ hung_up' \subseteq pipes'
           /\ \A c \in Connected : connections[c].fd \notin pipes'
BY DEF DescriptorsInv, DaemonInv, DescriptorsHaveOneOwner, PipesChange, FreeFds

\* Steps that leave sockets and Connections alone.
LEMMA DescriptorsElsewhere ==
    ASSUME DescriptorsInv,
           UNCHANGED <<socketVars, clientVars, connections, handled, answers>>,
           DaemonInv',
           \A c \in Connected : connections[c].fd \notin pipes',
           pc' \in {"read", "parse", "write"} => ClientsAt(event'.fd) # {}
    PROVE  DescriptorsInv'
<1>1. SocketsInv' /\ ClientsInv' /\ BacklogInv'
  BY DEF DescriptorsInv, SocketsInv, ClientsInv, BacklogInv, socketVars, clientVars
<1>2. DescriptorsHaveOneOwner'
  BY DEF DescriptorsInv, DescriptorsHaveOneOwner, Connected, ClientsAt, socketVars
<1> QED
  BY <1>1, <1>2 DEF DescriptorsInv

LEMMA EpollWaitDescriptors ==
    ASSUME DescriptorsInv, EpollWait
    PROVE  DescriptorsInv'
<1>1. batch' \subseteq EventType
  <2>1. PICK masks \in [hung_up -> PipeMasks], timer \in {{}, {"EPOLLIN"}} :
            batch' = UNION (
              {Events(listen_fd, {IF backlog = <<>> THEN {} ELSE {"EPOLLIN"}}),
               Events(timer_fd, {timer})}
              \cup {Events(fd, {masks[fd]}) : fd \in hung_up}
              \cup {Events(connections[c].fd, {ClientMask(c)}) : c \in Connected})
    BY DEF EpollWait
  <2> SUFFICES ASSUME NEW e \in batch' PROVE e \in EventType
    OBVIOUS
  <2>2. \/ e \in Events(listen_fd, {IF backlog = <<>> THEN {} ELSE {"EPOLLIN"}})
        \/ e \in Events(timer_fd, {timer})
        \/ \E fd \in hung_up : e \in Events(fd, {masks[fd]})
        \/ \E c \in Connected : e \in Events(connections[c].fd, {ClientMask(c)})
    BY <2>1, Zenon
  <2>3. ASSUME NEW fd \in Fds \cup {listen_fd, timer_fd},
               NEW m \in SUBSET {"EPOLLIN", "EPOLLOUT", "EPOLLHUP", "EPOLLERR"},
               e \in Events(fd, {m})
        PROVE  e \in EventType
    <3>1. e = [fd |-> fd, mask |-> m]
      BY <2>3, Zenon DEF Events
    <3> QED
      BY <3>1 DEF EventType
  <2>4. \A fd \in hung_up : fd \in Fds
                            /\ masks[fd] \in SUBSET {"EPOLLIN", "EPOLLOUT", "EPOLLHUP", "EPOLLERR"}
    BY <2>1 DEF DescriptorsInv, DaemonInv, PipeMasks
  <2>5. \A c \in Connected : connections[c].fd \in Fds
    BY DEF DescriptorsInv, DaemonInv, ConnectionType, Connected
  <2>6. \A c \in Connected :
           ClientMask(c) \in SUBSET {"EPOLLIN", "EPOLLOUT", "EPOLLHUP", "EPOLLERR"}
    BY DEF DescriptorsInv, DaemonInv, ConnectionType, Connected, ClientMask
  <2> QED
    BY <2>1, <2>2, <2>3, <2>4, <2>5, <2>6
<1>2. DaemonInv'
  BY <1>1 DEF EpollWait, DescriptorsInv, DaemonInv, jobVars
<1> QED
  BY <1>2, DescriptorsElsewhere
     DEF EpollWait, DescriptorsInv, DescriptorsHaveOneOwner, jobVars

LEMMA OtherEventsDescriptors ==
    ASSUME DescriptorsInv, NEW e \in batch,
           TimerEvent(e) \/ PipeEvent(e) \/ OldEvent(e) \/ ListenEvent(e) \/ ClientEvent(e)
    PROVE  DescriptorsInv'
<1> USE DEF Dispatch, historyVars
<1>1. e \in EventType /\ batch' \subseteq EventType
  BY DEF DescriptorsInv, DaemonInv, TimerEvent, PipeEvent, OldEvent, ListenEvent, ClientEvent
<1>2. CASE TimerEvent(e) \/ PipeEvent(e)
  <2>1. \E closed \in SUBSET hung_up : PipesChange(closed, TRUE)
    BY <1>2 DEF TimerEvent, PipeEvent
  <2>2. /\ pipes' \subseteq Fds /\ hung_up' \subseteq pipes'
        /\ \A c \in Connected : connections[c].fd \notin pipes'
    BY <2>1, PipesChangeSafely
  <2>3. DaemonInv'
    BY <1>1, <1>2, <2>2 DEF DescriptorsInv, DaemonInv, TimerEvent, PipeEvent
  <2> QED
    BY <1>2, <2>2, <2>3, DescriptorsElsewhere DEF TimerEvent, PipeEvent
<1>3. CASE OldEvent(e) \/ ListenEvent(e)
  <2>1. DaemonInv'
    BY <1>1, <1>3 DEF DescriptorsInv, DaemonInv, OldEvent, ListenEvent, jobVars
  <2> QED
    BY <1>3, <2>1, DescriptorsElsewhere
       DEF DescriptorsInv, DescriptorsHaveOneOwner, OldEvent, ListenEvent, jobVars
<1>4. CASE ClientEvent(e)
  <2>1. DaemonInv'
    BY <1>1, <1>4 DEF DescriptorsInv, DaemonInv, ClientEvent, jobVars
  <2> QED
    BY <1>4, <2>1, DescriptorsElsewhere
       DEF DescriptorsInv, DescriptorsHaveOneOwner, ClientEvent, jobVars
<1> QED
  BY <1>2, <1>3, <1>4

LEMMA LoopDescriptors ==
    ASSUME DescriptorsInv, AcceptDone \/ \E fd \in Fds : PipeHangsUp(fd)
    PROVE  DescriptorsInv'
<1>1. DaemonInv'
  BY DEF DescriptorsInv, DaemonInv, AcceptDone, PipeHangsUp, jobVars, historyVars
<1> QED
  BY <1>1, DescriptorsElsewhere
     DEF DescriptorsInv, DescriptorsHaveOneOwner, AcceptDone, PipeHangsUp, jobVars, historyVars

\* accept4 finds a client that waits, and gives it a number of its own.
LEMMA AcceptedFd ==
    ASSUME DescriptorsInv, Accept4
    PROVE  /\ Head(backlog) \in Clients /\ daemon_end[Head(backlog)] = "backlog"
           /\ \E fd \in FreeFds :
                 connections' = [connections EXCEPT ![Head(backlog)] = Connection(fd)]
<1>1. backlog \in Seq(Clients) /\ backlog # <<>>
  BY DEF DescriptorsInv, SocketsInv, Accept4
<1>2. Head(backlog) = backlog[1] /\ 1 \in 1 .. Len(backlog) /\ Head(backlog) \in Clients
  BY <1>1
<1>3. daemon_end[Head(backlog)] = "backlog"
  BY <1>2 DEF DescriptorsInv, BacklogInv
<1>4. FreeFds \in SUBSET Nat /\ FreeFds # {}
  BY ConnectionsAssumption DEF FreeFds, Fds, Accept4
<1>5. \E n \in FreeFds : \A m \in FreeFds : n <= m
  BY <1>4, LeastNumber
<1> DEFINE fd == CHOOSE n \in FreeFds : \A m \in FreeFds : n <= m
<1>6. fd \in FreeFds
  BY <1>5
<1>7. connections' = [connections EXCEPT ![Head(backlog)] = Connection(fd)]
  BY DEF Accept4
<1> QED
  BY <1>2, <1>3, <1>6, <1>7

\* A Connection as it is accepted, or as it is forgotten.
LEMMA NewConnection ==
    ASSUME NEW fd \in Fds \cup {0}
    PROVE  /\ Connection(fd) \in ConnectionType
           /\ Connection(fd).fd = fd
           /\ Connection(fd).decoder = <<>>
           /\ Connection(fd).write_buffer = <<>> /\ Connection(fd).write_offset = 0
           /\ Connection(fd).read_closed = FALSE
<1>1. <<>> \in Seq(Byte)
  BY EmptySeq
<1> QED
  BY <1>1 DEF Connection, ConnectionType

LEMMA Accept4Descriptors ==
    ASSUME DescriptorsInv, Accept4
    PROVE  DescriptorsInv'
<1> DEFINE c == Head(backlog)
<1>1. c \in Clients /\ daemon_end[c] = "backlog"
  BY AcceptedFd
<1>2. PICK fd \in FreeFds : connections' = [connections EXCEPT ![c] = Connection(fd)]
  BY AcceptedFd
<1>3. backlog \in Seq(Clients) /\ backlog # <<>> /\ backlog' = Tail(backlog)
  BY DEF DescriptorsInv, SocketsInv, Accept4
<1>4. /\ backlog' \in Seq(Clients) /\ Len(backlog') = Len(backlog) - 1 /\ c = backlog[1]
      /\ Len(backlog) \in Nat \ {0}
      /\ \A i \in 1 .. Len(backlog') : backlog'[i] = backlog[i + 1]
  BY <1>3
<1>5. /\ daemon_end' = [daemon_end EXCEPT ![c] = "open"]
      /\ UNCHANGED <<client_end, to_daemon, to_client, clientVars, pc, batch, event, jobVars,
                     handled, answers>>
  BY DEF Accept4
<1>6. fd \in Fds /\ fd # 0 /\ fd \notin pipes /\ \A d \in Connected : connections[d].fd # fd
  BY ConnectionsAssumption DEF FreeFds, Fds
<1>7. /\ Connection(fd) \in ConnectionType /\ Connection(fd).fd = fd
      /\ Connection(fd).write_buffer = <<>> /\ Connection(fd).write_offset = 0
  BY <1>6, NewConnection
<1> HIDE DEF c
<1>8. SocketsInv'
  BY <1>1, <1>4, <1>5 DEF DescriptorsInv, SocketsInv
<1>9. ClientsInv'
  BY <1>5 DEF DescriptorsInv, ClientsInv, clientVars
<1>10. DaemonInv'
  <2>1. connections' \in [Clients -> ConnectionType]
    BY <1>1, <1>2, <1>7 DEF DescriptorsInv, DaemonInv
  <2>2. \A d \in Clients : connections'[d].write_offset <= Len(connections'[d].write_buffer)
    BY <1>1, <1>2, <1>7 DEF DescriptorsInv, DaemonInv
  <2> QED
    BY <1>5, <2>1, <2>2 DEF DescriptorsInv, DaemonInv, jobVars
<1>11. BacklogInv'
  <2>1. \A i \in 1 .. Len(backlog') :
            daemon_end[backlog'[i]] = "backlog" /\ backlog'[i] # c /\ backlog'[i] \in Clients
    <3> SUFFICES ASSUME NEW i \in 1 .. Len(backlog')
                 PROVE  /\ daemon_end[backlog'[i]] = "backlog" /\ backlog'[i] # c
                        /\ backlog'[i] \in Clients
      OBVIOUS
    <3>1. /\ i + 1 \in 1 .. Len(backlog) /\ 1 \in 1 .. Len(backlog) /\ i + 1 # 1
          /\ backlog'[i] = backlog[i + 1]
      BY <1>4
    <3>2. backlog[i + 1] \in Clients /\ daemon_end[backlog[i + 1]] = "backlog"
      BY <1>3, <3>1 DEF DescriptorsInv, BacklogInv
    <3>3. backlog[i + 1] # backlog[1]
      BY <3>1, Zenon DEF DescriptorsInv, BacklogInv
    <3> QED
      BY <1>4, <3>1, <3>2, <3>3
  <2>2. \A i, j \in 1 .. Len(backlog') : backlog'[i] = backlog'[j] => i = j
    BY <1>4 DEF DescriptorsInv, BacklogInv
  <2>3. \A i \in 1 .. Len(backlog') : daemon_end'[backlog'[i]] = "backlog"
    BY <1>5, <2>1 DEF DescriptorsInv, SocketsInv
  <2>4. \A d \in Clients : client_end'[d] = "new" => daemon_end'[d] = "none"
    BY <1>1, <1>5 DEF DescriptorsInv, BacklogInv, SocketsInv
  <2> QED
    BY <2>2, <2>3, <2>4 DEF BacklogInv
<1>12. DescriptorsHaveOneOwner'
  <2>1. \A d \in Clients : connections'[d].fd = IF d = c THEN fd ELSE connections[d].fd
    BY <1>1, <1>2, <1>7 DEF DescriptorsInv, DaemonInv
  <2>2. \A d \in Clients : daemon_end'[d] = IF d = c THEN "open" ELSE daemon_end[d]
    BY <1>1, <1>5 DEF DescriptorsInv, SocketsInv
  <2>3. pc' = "accept" /\ pipes' = pipes
    BY <1>5 DEF Accept4, jobVars
  <2> QED
    BY <1>1, <1>6, <2>1, <2>2, <2>3
       DEF DescriptorsInv, DescriptorsHaveOneOwner, Connected
<1> QED
  BY <1>8, <1>9, <1>10, <1>11, <1>12 DEF DescriptorsInv

LEMMA AcceptFailsDescriptors ==
    ASSUME DescriptorsInv, AcceptFails
    PROVE  DescriptorsInv'
<1> USE DEF AcceptFails, DaemonDies
<1>1. <<>> \in Seq(Byte) /\ <<>> \in Seq(Clients) /\ Len(<<>>) = 0
  BY EmptySeq
<1>2. \A c \in Clients :
         /\ daemon_end'[c] \in {"none", "closed", "reset"}
         /\ daemon_end[c] = "none" => daemon_end'[c] = "none"
  BY DEF DescriptorsInv, SocketsInv, ClosedWith
<1>3. DOMAIN daemon_end' = Clients /\ daemon_end' = [c \in Clients |-> daemon_end'[c]]
  OBVIOUS
<1>4. SocketsInv'
  BY <1>1, <1>2, <1>3 DEF DescriptorsInv, SocketsInv
<1>5. ClientsInv'
  BY DEF DescriptorsInv, ClientsInv, clientVars
<1>6. \A c \in Clients : connections'[c] = Connection(0)
  BY DEF NoConnection
<1>7. DaemonInv'
  <2>1. /\ Connection(0) \in ConnectionType
        /\ Connection(0).write_buffer = <<>> /\ Connection(0).write_offset = 0
    BY NewConnection
  <2> QED
    BY <1>1, <1>6, <2>1 DEF DescriptorsInv, DaemonInv, historyVars, NoConnection
<1>8. BacklogInv'
  BY <1>1, <1>2 DEF DescriptorsInv, BacklogInv
<1>9. DescriptorsHaveOneOwner'
  <2>1. \A c \in Clients : connections'[c].fd = 0
    BY <1>6, NewConnection
  <2> QED
    BY <1>2, <2>1 DEF DescriptorsHaveOneOwner, Connected
<1> QED
  BY <1>4, <1>5, <1>7, <1>8, <1>9 DEF DescriptorsInv

\* What a request does to ids and pipes keeps both in order.
LEMMA JobsChangeSafely ==
    ASSUME DescriptorsInv, NEW request, UNCHANGED jobVars \/ RequestEffects(request)
    PROVE  /\ pipes' \subseteq Fds /\ hung_up' \subseteq pipes'
           /\ \A d \in Connected : connections[d].fd \notin pipes'
           /\ next_job_id' \in 0 .. JobIdSpace - 1
<1>1. \/ /\ next_job_id' = (next_job_id + 1) % JobIdSpace
         /\ PipesChange({}, TRUE)
      \/ /\ UNCHANGED next_job_id
         /\ \E closed \in SUBSET hung_up : PipesChange(closed, FALSE)
      \/ UNCHANGED jobVars
  BY DEF RequestEffects
<1>2. next_job_id \in 0 .. JobIdSpace - 1 /\ JobIdSpace \in Nat \ {0}
  BY ConnectionsAssumption DEF DescriptorsInv, DaemonInv
<1>3. next_job_id' \in 0 .. JobIdSpace - 1
  <2>1. (next_job_id + 1) % JobIdSpace \in 0 .. JobIdSpace - 1
    BY <1>2
  <2>2. next_job_id' \in {(next_job_id + 1) % JobIdSpace, next_job_id}
    BY <1>1, Zenon DEF jobVars
  <2> QED
    BY <1>2, <2>1, <2>2
<1>4. CASE \E closed \in SUBSET hung_up, m \in BOOLEAN : PipesChange(closed, m)
  <2>1. PICK closed \in SUBSET hung_up, m \in BOOLEAN : PipesChange(closed, m)
    BY <1>4
  <2> QED
    BY <1>3, <2>1, PipesChangeSafely
<1>5. CASE UNCHANGED jobVars
  BY <1>3, <1>5 DEF jobVars, DescriptorsInv, DaemonInv, DescriptorsHaveOneOwner
<1>6. {} \in SUBSET hung_up /\ TRUE \in BOOLEAN /\ FALSE \in BOOLEAN
  OBVIOUS
<1> QED
  BY <1>1, <1>4, <1>5, <1>6, Zenon

\* closeClient gives up the descriptor and the Connection together.
LEMMA CloseDescriptors ==
    ASSUME DescriptorsInv, NEW c \in Connected, NEW unread, closeClient(c, unread),
           batch' \subseteq batch, NEW request, UNCHANGED jobVars \/ RequestEffects(request)
    PROVE  DescriptorsInv'
<1> USE DEF closeClient, DaemonCloses
<1>1. c \in Clients /\ daemon_end[c] = "open" /\ <<>> \in Seq(Byte) /\ Len(<<>>) = 0
  BY EmptySeq DEF Connected, DescriptorsInv, DescriptorsHaveOneOwner
<1>2. /\ Connection(0) \in ConnectionType /\ Connection(0).fd = 0
      /\ Connection(0).write_buffer = <<>> /\ Connection(0).write_offset = 0
      /\ NoConnection = Connection(0)
  BY NewConnection DEF NoConnection
<1>3. \A d \in Clients :
         /\ connections'[d] = IF d = c THEN Connection(0) ELSE connections[d]
         /\ daemon_end'[d] = IF d = c THEN ClosedWith(unread) ELSE daemon_end[d]
  BY <1>1, <1>2 DEF DescriptorsInv, SocketsInv, DaemonInv
<1>4. ClosedWith(unread) \in {"closed", "reset"}
  BY DEF ClosedWith
<1>5. SocketsInv'
  BY <1>1, <1>4 DEF DescriptorsInv, SocketsInv
<1>6. ClientsInv'
  BY DEF DescriptorsInv, ClientsInv, clientVars
<1>7. DaemonInv'
  <2>1. connections' \in [Clients -> ConnectionType]
    BY <1>2 DEF DescriptorsInv, DaemonInv
  <2>2. \A d \in Clients : connections'[d].write_offset <= Len(connections'[d].write_buffer)
    BY <1>1, <1>2, <1>3 DEF DescriptorsInv, DaemonInv
  <2>3. NoEvent \in EventType
    BY DEF NoEvent, EventType, listen_fd
  <2> QED
    BY <2>1, <2>2, <2>3, JobsChangeSafely DEF DescriptorsInv, DaemonInv, historyVars
<1>8. BacklogInv'
  <2>1. \A i \in 1 .. Len(backlog) : backlog[i] \in Clients /\ backlog[i] # c
    BY <1>1 DEF DescriptorsInv, SocketsInv, BacklogInv
  <2> QED
    BY <1>1, <1>3, <2>1 DEF DescriptorsInv, BacklogInv
<1>9. DescriptorsHaveOneOwner'
  <2>1. \A d \in Connected : connections[d].fd \notin pipes'
    BY JobsChangeSafely
  <2> QED
    BY <1>2, <1>3, <1>4, <2>1 DEF DescriptorsInv, DescriptorsHaveOneOwner, Connected
<1> QED
  BY <1>5, <1>6, <1>7, <1>8, <1>9 DEF DescriptorsInv

\* A handler changes the Connection of its client, but not the descriptor.
LEMMA DescriptorsKept ==
    ASSUME DescriptorsInv, SocketsInv', ClientsInv', DaemonInv',
           UNCHANGED <<client_end, daemon_end, backlog>>,
           \A c \in Clients : connections'[c].fd = connections[c].fd,
           \A c \in Connected : connections[c].fd \notin pipes',
           \/ pc' \notin {"read", "parse", "write"}
           \/ pc \in {"read", "parse", "write"} /\ event' = event
    PROVE  DescriptorsInv'
<1>1. BacklogInv'
  BY DEF DescriptorsInv, BacklogInv
<1>2. DescriptorsHaveOneOwner'
  BY DEF DescriptorsInv, DescriptorsHaveOneOwner, Connected, ClientsAt
<1> QED
  BY <1>1, <1>2 DEF DescriptorsInv

\* The field of a Connection that is assigned, and the others.
LEMMA DecoderChange ==
    ASSUME DaemonInv, NEW c \in Clients, NEW v \in Seq(Byte),
           connections' = [connections EXCEPT ![c].decoder = v]
    PROVE  /\ connections' \in [Clients -> ConnectionType]
           /\ connections'[c].decoder = v
           /\ \A d \in Clients :
                 /\ connections'[d].fd = connections[d].fd
                 /\ connections'[d].write_buffer = connections[d].write_buffer
                 /\ connections'[d].write_offset = connections[d].write_offset
                 /\ connections'[d].read_closed = connections[d].read_closed
                 /\ d # c => connections'[d] = connections[d]
BY ZenonT(30) DEF DaemonInv, ConnectionType

LEMMA ReadDescriptors ==
    ASSUME DescriptorsInv, NEW c \in Connected, Read(c)
    PROVE  DescriptorsInv'
<1> DEFINE fed == feed(connections[c].decoder, Chunk(to_daemon[c]))
<1>1. /\ c \in Clients /\ to_daemon[c] \in Seq(Byte)
      /\ connections[c].decoder \in Seq(Byte)
  BY DEF Connected, DescriptorsInv, SocketsInv, DaemonInv, ConnectionType
<1>2. Chunk(to_daemon[c]) \in Seq(Byte) /\ AfterChunk(to_daemon[c]) \in Seq(Byte)
  BY <1>1, ChunkType
<1>3. connections[c].decoder \o Chunk(to_daemon[c]) \in Seq(Byte)
  BY <1>1, <1>2, ConcatProperties
<1>4. fed.value = connections[c].decoder \o Chunk(to_daemon[c])
  BY DEF Read, feed, Accept, Reject
<1>5. /\ connections' = [connections EXCEPT ![c].decoder = fed.value]
      /\ pc' = AfterBytes(fed.value)
  BY DEF Read
<1> HIDE DEF fed
<1>6. /\ connections' \in [Clients -> ConnectionType]
      /\ \A d \in Clients :
                 /\ connections'[d].fd = connections[d].fd
                 /\ connections'[d].write_buffer = connections[d].write_buffer
                 /\ connections'[d].write_offset = connections[d].write_offset
  BY <1>1, <1>3, <1>4, <1>5, DecoderChange DEF DescriptorsInv
<1>7. SocketsInv'
  BY <1>1, <1>2 DEF DescriptorsInv, SocketsInv, Read
<1>8. ClientsInv'
  BY DEF DescriptorsInv, ClientsInv, Read, clientVars
<1>9. DaemonInv'
  BY <1>5, <1>6 DEF DescriptorsInv, DaemonInv, Read, AfterBytes, jobVars, historyVars
<1> QED
  BY <1>6, <1>7, <1>8, <1>9, DescriptorsKept
     DEF DescriptorsInv, DescriptorsHaveOneOwner, Read, jobVars

LEMMA ReadDoneDescriptors ==
    ASSUME DescriptorsInv, NEW c \in Connected, ReadDone(c)
    PROVE  DescriptorsInv'
<1> USE DEF ReadDone
<1> DEFINE closed == client_end[c] # "open"
<1>1. /\ c \in Clients /\ closed \in BOOLEAN
      /\ connections' = [connections EXCEPT ![c].read_closed = closed]
  BY DEF Connected
<1> HIDE DEF closed
<1>2. /\ connections' \in [Clients -> ConnectionType]
      /\ \A d \in Clients :
                 /\ connections'[d].fd = connections[d].fd
                 /\ connections'[d].write_buffer = connections[d].write_buffer
                 /\ connections'[d].write_offset = connections[d].write_offset
  <2> HIDE DEF ReadDone
  <2> QED
    BY <1>1, ZenonT(30) DEF DescriptorsInv, DaemonInv, ConnectionType
<1>3. SocketsInv' /\ ClientsInv'
  BY DEF DescriptorsInv, SocketsInv, ClientsInv, socketVars, clientVars
<1>4. DaemonInv'
  BY <1>2 DEF DescriptorsInv, DaemonInv, jobVars, historyVars
<1> QED
  BY <1>2, <1>3, <1>4, DescriptorsKept
     DEF DescriptorsInv, DescriptorsHaveOneOwner, jobVars, socketVars

\* What popFrame, handleRequest and the answer do.
LEMMA HandleRequestEffect ==
    ASSUME DescriptorsInv, NEW c \in Connected, HandleRequest(c)
    PROVE  \E answer \in Seq(Byte) :
              /\ answers' = [answers EXCEPT ![c] = Append(@, answer)]
              /\ encodeFrame(answer) \in Seq(Byte)
              /\ connections' \in [Clients -> ConnectionType]
              /\ connections'[c].decoder = popFrame(connections[c].decoder)
              /\ connections'[c].write_buffer = connections[c].write_buffer \o encodeFrame(answer)
              /\ connections'[c].write_offset = connections[c].write_offset
              /\ connections'[c].read_closed = connections[c].read_closed
              /\ connections'[c].fd = connections[c].fd
              /\ \A d \in Clients \ {c} : connections'[d] = connections[d]
<1> DEFINE buffer == connections[c].decoder
           con == connections[c]
<1>1. /\ c \in Clients /\ next_job_id \in Nat /\ buffer \in Seq(Byte)
      /\ con.write_buffer \in Seq(Byte)
      /\ connections \in [Clients -> ConnectionType]
  BY DEF Connected, DescriptorsInv, DaemonInv, ConnectionType
<1>2. PICK answer \in Answers(FirstFrame(buffer), next_job_id) :
         /\ connections' = [connections EXCEPT
                               ![c].decoder = popFrame(buffer),
                               ![c].write_buffer = @ \o encodeFrame(answer)]
         /\ answers' = [answers EXCEPT ![c] = Append(@, answer)]
  BY DEF HandleRequest
<1>3. answer \in Seq(Byte) /\ encodeFrame(answer) \in Seq(Byte)
  BY <1>1, AnswersType, EncodeFrameType
<1>4. popFrame(buffer) \in Seq(Byte)
  BY <1>1, FrameAtHead DEF HandleRequest
<1>5. con.write_buffer \o encodeFrame(answer) \in Seq(Byte)
  BY <1>1, <1>3, ConcatProperties
<1> DEFINE new == [con EXCEPT !.decoder = popFrame(buffer),
                              !.write_buffer = con.write_buffer \o encodeFrame(answer)]
<1>6. connections' = [connections EXCEPT ![c] = new]
  BY <1>1, <1>2 DEF ConnectionType
<1>7. /\ new \in ConnectionType
      /\ new.decoder = popFrame(buffer)
      /\ new.write_buffer = con.write_buffer \o encodeFrame(answer)
      /\ new.write_offset = con.write_offset /\ new.read_closed = con.read_closed
      /\ new.fd = con.fd
  <2>1. con \in ConnectionType
    BY <1>1
  <2> HIDE DEF con
  <2> QED
    BY <1>4, <1>5, <2>1 DEF ConnectionType
<1>8. /\ connections' \in [Clients -> ConnectionType]
      /\ connections'[c] = new
      /\ \A d \in Clients \ {c} : connections'[d] = connections[d]
  <2> HIDE DEF new
  <2> QED
    BY <1>1, <1>6, <1>7
<1> HIDE DEF new
<1> QED
  BY <1>2, <1>3, <1>7, <1>8

LEMMA HandleRequestDescriptors ==
    ASSUME DescriptorsInv, NEW c \in Connected, HandleRequest(c)
    PROVE  DescriptorsInv'
<1>1. PICK answer \in Seq(Byte) :
              /\ answers' = [answers EXCEPT ![c] = Append(@, answer)]
              /\ encodeFrame(answer) \in Seq(Byte)
              /\ connections' \in [Clients -> ConnectionType]
              /\ connections'[c].decoder = popFrame(connections[c].decoder)
              /\ connections'[c].write_buffer = connections[c].write_buffer \o encodeFrame(answer)
              /\ connections'[c].write_offset = connections[c].write_offset
              /\ connections'[c].fd = connections[c].fd
              /\ \A d \in Clients \ {c} : connections'[d] = connections[d]
  BY HandleRequestEffect
<1>2. /\ c \in Clients /\ connections[c].decoder \in Seq(Byte)
      /\ connections[c].write_buffer \in Seq(Byte) /\ connections[c].write_offset \in Nat
      /\ connections[c].write_offset <= Len(connections[c].write_buffer)
  BY DEF Connected, DescriptorsInv, DaemonInv, ConnectionType
<1>3. FirstFrame(connections[c].decoder) \in Seq(Byte)
  BY <1>2, FrameAtHead DEF HandleRequest
<1>4. SocketsInv' /\ ClientsInv'
  BY DEF DescriptorsInv, SocketsInv, ClientsInv, socketVars, clientVars, HandleRequest
<1>5. answers' \in [Clients -> Seq(Seq(Byte))] /\ handled' \in [Clients -> Seq(Seq(Byte))]
  <2>1. handled' = [handled EXCEPT ![c] = Append(@, FirstFrame(connections[c].decoder))]
    BY DEF HandleRequest
  <2>2. handled[c] \in Seq(Seq(Byte)) /\ answers[c] \in Seq(Seq(Byte))
    BY <1>2 DEF DescriptorsInv, DaemonInv
  <2>3. /\ Append(handled[c], FirstFrame(connections[c].decoder)) \in Seq(Seq(Byte))
        /\ Append(answers[c], answer) \in Seq(Seq(Byte))
    BY <1>3, <2>2, AppendProperties
  <2> QED
    BY <1>1, <2>1, <2>3 DEF DescriptorsInv, DaemonInv
<1>6. \A d \in Clients : connections'[d].write_offset <= Len(connections'[d].write_buffer)
  <2>1. Len(connections'[c].write_buffer) =
            Len(connections[c].write_buffer) + Len(encodeFrame(answer))
    BY <1>1, <1>2, ConcatProperties
  <2>2. connections'[c].write_offset <= Len(connections'[c].write_buffer)
    BY <1>1, <1>2, <2>1
  <2> QED
    BY <1>1, <2>2 DEF DescriptorsInv, DaemonInv
<1>7. /\ pipes' \subseteq Fds /\ hung_up' \subseteq pipes'
      /\ \A d \in Connected : connections[d].fd \notin pipes'
      /\ next_job_id' \in 0 .. JobIdSpace - 1
  BY JobsChangeSafely DEF HandleRequest
<1>8. pc' \in {"read", "parse"} /\ pc = "parse" /\ UNCHANGED <<batch, event>>
  BY DEF HandleRequest, AfterBytes
<1>9. DaemonInv'
  BY <1>1, <1>5, <1>6, <1>7, <1>8 DEF DescriptorsInv, DaemonInv
<1>10. \A d \in Clients : connections'[d].fd = connections[d].fd
  BY <1>1
<1> QED
  BY <1>4, <1>7, <1>8, <1>9, <1>10, DescriptorsKept DEF HandleRequest, socketVars

\* What is not sent yet.
LEMMA UnsentType ==
    ASSUME DescriptorsInv, NEW c \in Clients
    PROVE  /\ Unsent(c) \in Seq(Byte)
           /\ Len(Unsent(c)) = Len(connections[c].write_buffer) - connections[c].write_offset
           /\ connections[c].write_buffer \in Seq(Byte)
           /\ connections[c].write_offset \in 0 .. Len(connections[c].write_buffer)
           /\ SubSeq(connections[c].write_buffer, 1, connections[c].write_offset) \in Seq(Byte)
<1>1. /\ connections[c].write_buffer \in Seq(Byte)
      /\ connections[c].write_offset \in 0 .. Len(connections[c].write_buffer)
  BY DEF DescriptorsInv, DaemonInv, ConnectionType
<1> QED
  BY <1>1, Cut DEF Unsent

\* One write moves the first n bytes that are not sent yet to the socket.
LEMMA WriteEffect ==
    ASSUME DescriptorsInv, NEW c \in Connected, Write(c)
    PROVE  \E n \in Nat :
              /\ n <= Len(Unsent(c)) /\ n <= Room(c) /\ n > 0
              /\ to_client' = [to_client EXCEPT ![c] = @ \o SubSeq(Unsent(c), 1, n)]
              /\ connections' \in [Clients -> ConnectionType]
              /\ connections'[c].write_offset = connections[c].write_offset + n
              /\ connections'[c].write_buffer = connections[c].write_buffer
              /\ connections'[c].decoder = connections[c].decoder
              /\ connections'[c].read_closed = connections[c].read_closed
              /\ connections'[c].fd = connections[c].fd
              /\ \A d \in Clients \ {c} : connections'[d] = connections[d]
<1> DEFINE n == IF Len(Unsent(c)) < Room(c) THEN Len(Unsent(c)) ELSE Room(c)
<1>1. c \in Clients /\ connections \in [Clients -> ConnectionType] /\ connections[c].write_offset \in Nat
  BY DEF Connected, DescriptorsInv, DaemonInv, ConnectionType
<1>2. Len(Unsent(c)) \in Nat /\ Room(c) \in Nat /\ Room(c) > 0 /\ Len(Unsent(c)) > 0
  <2>1. to_client[c] \in Seq(Byte) /\ Len(to_client[c]) <= SocketBuffer /\ SocketBuffer \in Nat
    BY <1>1, SocketsAssumption DEF DescriptorsInv, SocketsInv
  <2>2. connections[c].write_offset < Len(connections[c].write_buffer)
    BY DEF Write, hasPendingWrite
  <2> QED
    BY <1>1, <2>1, <2>2, UnsentType, SMTT(30) DEF Room, Write
<1>3. /\ to_client' = [to_client EXCEPT ![c] = @ \o SubSeq(Unsent(c), 1, n)]
      /\ connections' = [connections EXCEPT ![c].write_offset = @ + n]
  BY DEF Write
<1>4. n \in Nat /\ n <= Len(Unsent(c)) /\ n <= Room(c) /\ n > 0
  BY <1>2
<1> HIDE DEF n
<1>5. connections[c].write_offset + n \in Nat
  BY <1>1, <1>4
<1>6. /\ connections' \in [Clients -> ConnectionType]
      /\ connections'[c].write_offset = connections[c].write_offset + n
      /\ connections'[c].write_buffer = connections[c].write_buffer
      /\ connections'[c].decoder = connections[c].decoder
      /\ connections'[c].read_closed = connections[c].read_closed
      /\ connections'[c].fd = connections[c].fd
      /\ \A d \in Clients \ {c} : connections'[d] = connections[d]
  BY <1>1, <1>3, <1>5 DEF ConnectionType
<1> QED
  BY <1>3, <1>4, <1>6

LEMMA WriteDescriptors ==
    ASSUME DescriptorsInv, NEW c \in Connected, Write(c)
    PROVE  DescriptorsInv'
<1>1. PICK n \in Nat :
              /\ n <= Len(Unsent(c)) /\ n <= Room(c)
              /\ to_client' = [to_client EXCEPT ![c] = @ \o SubSeq(Unsent(c), 1, n)]
              /\ connections' \in [Clients -> ConnectionType]
              /\ connections'[c].write_offset = connections[c].write_offset + n
              /\ connections'[c].write_buffer = connections[c].write_buffer
              /\ connections'[c].fd = connections[c].fd
              /\ \A d \in Clients \ {c} : connections'[d] = connections[d]
  BY WriteEffect
<1>2. /\ c \in Clients /\ Unsent(c) \in Seq(Byte)
      /\ Len(Unsent(c)) = Len(connections[c].write_buffer) - connections[c].write_offset
      /\ connections[c].write_offset \in 0 .. Len(connections[c].write_buffer)
      /\ Len(connections[c].write_buffer) \in Nat
  BY UnsentType DEF Connected
<1>3. SubSeq(Unsent(c), 1, n) \in Seq(Byte) /\ Len(SubSeq(Unsent(c), 1, n)) = n
  BY <1>1, <1>2, n \in 0 .. Len(Unsent(c)), Cut
<1>4. SocketsInv'
  <2>1. to_client[c] \in Seq(Byte) /\ Len(to_client[c]) \in Nat /\ SocketBuffer \in Nat
    BY <1>2, SocketsAssumption DEF DescriptorsInv, SocketsInv
  <2>2. /\ to_client[c] \o SubSeq(Unsent(c), 1, n) \in Seq(Byte)
        /\ Len(to_client[c] \o SubSeq(Unsent(c), 1, n)) = Len(to_client[c]) + n
    BY <1>3, <2>1, ConcatProperties
  <2>3. Len(to_client[c]) + n <= SocketBuffer
    BY <1>1, <2>1 DEF Room
  <2> QED
    BY <1>1, <1>2, <2>2, <2>3, ZenonT(30) DEF DescriptorsInv, SocketsInv, Write
<1>5. ClientsInv'
  BY DEF DescriptorsInv, ClientsInv, clientVars, Write
<1>6. \A d \in Clients : connections'[d].write_offset <= Len(connections'[d].write_buffer)
  <2>1. connections'[c].write_offset <= Len(connections'[c].write_buffer)
    BY <1>1, <1>2
  <2> QED
    BY <1>1, <2>1 DEF DescriptorsInv, DaemonInv
<1>7. DaemonInv'
  BY <1>1, <1>6 DEF DescriptorsInv, DaemonInv, Write, jobVars, historyVars
<1>8. \A d \in Clients : connections'[d].fd = connections[d].fd
  BY <1>1
<1> QED
  BY <1>4, <1>5, <1>7, <1>8, DescriptorsKept
     DEF DescriptorsInv, DescriptorsHaveOneOwner, Write, jobVars

\* updateClientEvents keeps what is not sent, or clears the buffer.
LEMMA UpdateEffect ==
    ASSUME DescriptorsInv, NEW c \in Connected, updateClientEvents(c)
    PROVE  /\ connections' \in [Clients -> ConnectionType]
           /\ \/ /\ hasPendingWrite(c)
                 /\ connections'[c].write_offset = connections[c].write_offset
                 /\ connections'[c].write_buffer = connections[c].write_buffer
              \/ /\ ~hasPendingWrite(c)
                 /\ connections'[c].write_offset = 0
                 /\ connections'[c].write_buffer = <<>>
           /\ connections'[c].decoder = connections[c].decoder
           /\ connections'[c].read_closed = connections[c].read_closed
           /\ connections'[c].fd = connections[c].fd
           /\ \A d \in Clients \ {c} : connections'[d] = connections[d]
<1> DEFINE con == connections[c]
           buffer == IF hasPendingWrite(c) THEN con.write_buffer ELSE <<>>
           offset == IF hasPendingWrite(c) THEN con.write_offset ELSE 0
           interest == WantedEvents(c)
           new == [con EXCEPT !.write_buffer = buffer, !.write_offset = offset,
                              !.interest = interest]
<1>1. /\ c \in Clients /\ connections \in [Clients -> ConnectionType] /\ con \in ConnectionType
      /\ <<>> \in Seq(Byte)
  BY EmptySeq DEF Connected, DescriptorsInv, DaemonInv
<1>2. connections' = [connections EXCEPT ![c] = new]
  BY <1>1 DEF updateClientEvents, ConnectionType
<1>3. interest \subseteq {"EPOLLIN", "EPOLLOUT"}
  BY DEF WantedEvents
<1>4. buffer \in Seq(Byte) /\ offset \in Nat
  BY <1>1 DEF ConnectionType
<1>5. /\ new \in ConnectionType
      /\ new.write_buffer = buffer /\ new.write_offset = offset
      /\ new.decoder = con.decoder /\ new.read_closed = con.read_closed /\ new.fd = con.fd
  <2> HIDE DEF con, buffer, offset, interest
  <2> QED
    BY <1>1, <1>3, <1>4 DEF ConnectionType
<1>6. /\ connections' \in [Clients -> ConnectionType]
      /\ connections'[c] = new
      /\ \A d \in Clients \ {c} : connections'[d] = connections[d]
  <2> HIDE DEF new
  <2> QED
    BY <1>1, <1>2, <1>5
<1> HIDE DEF new
<1> QED
  BY <1>5, <1>6

LEMMA UpdateDescriptors ==
    ASSUME DescriptorsInv, NEW c \in Connected, updateClientEvents(c)
    PROVE  DescriptorsInv'
<1>1. /\ connections' \in [Clients -> ConnectionType]
      /\ \/ /\ connections'[c].write_offset = connections[c].write_offset
            /\ connections'[c].write_buffer = connections[c].write_buffer
         \/ /\ connections'[c].write_offset = 0
            /\ connections'[c].write_buffer = <<>>
      /\ connections'[c].fd = connections[c].fd
      /\ \A d \in Clients \ {c} : connections'[d] = connections[d]
  BY UpdateEffect
<1>2. SocketsInv' /\ ClientsInv'
  BY DEF DescriptorsInv, SocketsInv, ClientsInv, socketVars, clientVars, updateClientEvents
<1>3. \A d \in Clients : connections'[d].write_offset <= Len(connections'[d].write_buffer)
  <2>1. Len(<<>>) = 0 /\ c \in Clients
    BY EmptySeq DEF Connected
  <2>2. \A d \in Clients : connections[d].write_offset <= Len(connections[d].write_buffer)
    BY DEF DescriptorsInv, DaemonInv
  <2>3. connections'[c].write_offset <= Len(connections'[c].write_buffer)
    BY <1>1, <2>1, <2>2
  <2> QED
    BY <1>1, <2>2, <2>3
<1>4. NoEvent \in EventType
  BY DEF NoEvent, EventType, listen_fd
<1>5. DaemonInv'
  BY <1>1, <1>3, <1>4 DEF DescriptorsInv, DaemonInv, updateClientEvents, jobVars, historyVars
<1>6. \A d \in Clients : connections'[d].fd = connections[d].fd
  BY <1>1
<1> QED
  BY <1>2, <1>5, <1>6, DescriptorsKept
     DEF DescriptorsInv, DescriptorsHaveOneOwner, updateClientEvents, jobVars, socketVars

\* Steps of the clients.
LEMMA ClientDescriptors ==
    ASSUME DescriptorsInv, SocketsInv', ClientsInv', UNCHANGED <<daemonVars, daemon_end, backlog>>,
           \A c \in Clients : client_end'[c] = "new" => client_end[c] = "new"
    PROVE  DescriptorsInv'
<1>1. DaemonInv'
  BY DEF DescriptorsInv, DaemonInv, daemonVars, jobVars, historyVars
<1>2. BacklogInv'
  BY DEF DescriptorsInv, BacklogInv
<1>3. DescriptorsHaveOneOwner'
  BY DEF DescriptorsInv, DescriptorsHaveOneOwner, Connected, ClientsAt, daemonVars, jobVars
<1> QED
  BY <1>1, <1>2, <1>3 DEF DescriptorsInv

LEMMA ConnectsDescriptors ==
    ASSUME DescriptorsInv, NEW c \in Clients, Connects(c), UNCHANGED daemonVars
    PROVE  DescriptorsInv'
<1> USE DEF Connects, connect
<1>1. daemon_end[c] = "none" /\ backlog \in Seq(Clients)
  BY DEF DescriptorsInv, BacklogInv, SocketsInv
<1>2. /\ backlog' \in Seq(Clients) /\ Len(backlog') = Len(backlog) + 1 /\ Len(backlog) \in Nat
      /\ \A i \in 1 .. Len(backlog) : backlog'[i] = backlog[i] /\ backlog[i] \in Clients
      /\ backlog'[Len(backlog) + 1] = c
  BY <1>1
<1>3. \A d \in Clients :
         /\ daemon_end'[d] = IF d = c THEN "backlog" ELSE daemon_end[d]
         /\ client_end'[d] = IF d = c THEN "open" ELSE client_end[d]
  BY DEF DescriptorsInv, SocketsInv
<1>4. SocketsInv'
  BY <1>2 DEF DescriptorsInv, SocketsInv
<1>5. ClientsInv'
  BY DEF DescriptorsInv, ClientsInv, clientVars
<1>6. DaemonInv'
  BY DEF DescriptorsInv, DaemonInv, daemonVars, jobVars, historyVars
<1>7. BacklogInv'
  <2>1. \A i \in 1 .. Len(backlog) : daemon_end[backlog[i]] = "backlog" /\ backlog[i] # c
    BY <1>1 DEF DescriptorsInv, BacklogInv
  <2>2. \A i \in 1 .. Len(backlog') : i \in 1 .. Len(backlog) \/ i = Len(backlog) + 1
    BY <1>2
  <2>3. \A i \in 1 .. Len(backlog') : daemon_end'[backlog'[i]] = "backlog"
    BY <1>2, <1>3, <2>1, <2>2
  <2>4. \A i, j \in 1 .. Len(backlog') : backlog'[i] = backlog'[j] => i = j
    BY <1>2, <2>1, <2>2 DEF DescriptorsInv, BacklogInv
  <2>5. \A d \in Clients : client_end'[d] = "new" => daemon_end'[d] = "none"
    BY <1>3 DEF DescriptorsInv, BacklogInv
  <2> QED
    BY <2>3, <2>4, <2>5 DEF BacklogInv
<1>8. DescriptorsHaveOneOwner'
  BY <1>1, <1>3
     DEF DescriptorsInv, DescriptorsHaveOneOwner, Connected, ClientsAt, daemonVars, jobVars
<1> QED
  BY <1>4, <1>5, <1>6, <1>7, <1>8 DEF DescriptorsInv

LEMMA SendsDescriptors ==
    ASSUME DescriptorsInv, NEW c \in Clients, NEW end \in Nat, end <= Len(stream[c]),
           SendsTo(c, end), UNCHANGED daemonVars
    PROVE  DescriptorsInv'
<1>1. stream[c] \in Seq(Byte) /\ sent[c] \in Nat /\ sent[c] < end /\ to_daemon[c] \in Seq(Byte)
  BY DEF DescriptorsInv, ClientsInv, SocketsInv, SendsTo
<1>2. SubSeq(stream[c], sent[c] + 1, end) \in Seq(Byte)
  <2>1. \A i \in sent[c] + 1 .. end : stream[c][i] \in Byte
    BY <1>1
  <2> QED
    BY <1>1, <2>1, SubSeqProperties
<1>3. to_daemon[c] \o SubSeq(stream[c], sent[c] + 1, end) \in Seq(Byte)
  BY <1>1, <1>2, ConcatProperties
<1>4. SocketsInv'
  BY <1>3 DEF DescriptorsInv, SocketsInv, SendsTo
<1>5. ClientsInv'
  BY DEF DescriptorsInv, ClientsInv, SendsTo
<1> QED
  BY <1>4, <1>5, ClientDescriptors DEF SendsTo

LEMMA EndsDescriptors ==
    ASSUME DescriptorsInv, NEW c \in Clients, NEW read \in Seq(Byte), NEW unread,
           NEW outcome \in {"success", "error", "unexpected", "failed"},
           RunnerctlEnds(c, outcome, read, unread), UNCHANGED daemonVars
    PROVE  DescriptorsInv'
<1> USE DEF RunnerctlEnds, ClientCloses
<1>1. <<>> \in Seq(Byte) /\ Len(<<>>) = 0 /\ SocketBuffer \in Nat
  BY EmptySeq, SocketsAssumption
<1>2. ClosedWith(unread) \in {"closed", "reset"}
  BY DEF ClosedWith
<1>3. SocketsInv'
  BY <1>1, <1>2 DEF DescriptorsInv, SocketsInv
<1>4. ClientsInv'
  BY DEF DescriptorsInv, ClientsInv
<1>5. \A d \in Clients : client_end'[d] = "new" => client_end[d] = "new"
  BY <1>2 DEF DescriptorsInv, SocketsInv
<1> QED
  BY <1>3, <1>4, <1>5, ClientDescriptors

\* A client takes the bytes of one read.
Takes(c) ==
    /\ to_client[c] # <<>>
    /\ received' = [received EXCEPT ![c] = received[c] \o Chunk(to_client[c])]
    /\ to_client' = [to_client EXCEPT ![c] = AfterChunk(to_client[c])]
    /\ UNCHANGED <<client_end, daemon_end, to_daemon, backlog>>
    /\ UNCHANGED <<command_line, stream, sent, result>>

LEMMA TakesDescriptors ==
    ASSUME DescriptorsInv, NEW c \in Clients, Takes(c), UNCHANGED daemonVars
    PROVE  DescriptorsInv'
<1> USE DEF Takes
<1>1. to_client[c] \in Seq(Byte) /\ received[c] \in Seq(Byte) /\ Len(to_client[c]) <= SocketBuffer
      /\ Len(to_client[c]) \in Nat /\ SocketBuffer \in Nat
  BY SocketsAssumption DEF DescriptorsInv, SocketsInv, ClientsInv
<1>2. /\ Chunk(to_client[c]) \in Seq(Byte) /\ AfterChunk(to_client[c]) \in Seq(Byte)
      /\ Len(AfterChunk(to_client[c])) <= Len(to_client[c])
  BY <1>1, ChunkType
<1>3. received[c] \o Chunk(to_client[c]) \in Seq(Byte)
  BY <1>1, <1>2, ConcatProperties
<1>4. Len(AfterChunk(to_client[c])) <= SocketBuffer
  BY <1>1, <1>2, Len(AfterChunk(to_client[c])) \in Nat
<1>5. SocketsInv'
  BY <1>2, <1>4 DEF DescriptorsInv, SocketsInv
<1>6. ClientsInv'
  BY <1>3 DEF DescriptorsInv, ClientsInv
<1> QED
  BY <1>5, <1>6, ClientDescriptors

\* What a read of runnerctl comes to.
LEMMA RunnerctlReadsEffect ==
    ASSUME NEW c, RunnerctlReads(c)
    PROVE  \/ Takes(c)
           \/ /\ to_client[c] # <<>>
              /\ \E outcome \in {"success", "error", "unexpected", "failed"} :
                    RunnerctlEnds(c, outcome, received[c] \o Chunk(to_client[c]),
                                  AfterChunk(to_client[c]))
<1> DEFINE read == received[c] \o Chunk(to_client[c])
           verdict == handleResponse(command_line[c].command, FirstFrame(read))
<1>1. verdict \in {"success", "error", "unexpected", "failed"}
  BY DEF handleResponse
<1>2. \/ RunnerctlEnds(c, "failed", read, AfterChunk(to_client[c]))
      \/ RunnerctlEnds(c, verdict, read, AfterChunk(to_client[c]))
      \/ Takes(c)
  <2>1. CASE ~feed(received[c], Chunk(to_client[c])).ok
    BY <2>1, Zenon DEF RunnerctlReads
  <2>2. CASE feed(received[c], Chunk(to_client[c])).ok /\ hasFrame(read)
    BY <2>2, Zenon DEF RunnerctlReads
  <2>3. CASE feed(received[c], Chunk(to_client[c])).ok /\ ~hasFrame(read)
    BY <2>3 DEF RunnerctlReads, Takes
  <2> QED
    BY <2>1, <2>2, <2>3
<1>3. to_client[c] # <<>>
  BY DEF RunnerctlReads
<1> HIDE DEF verdict, read
<1> QED
  BY <1>1, <1>2, <1>3, Zenon DEF read

LEMMA OtherClosesDescriptors ==
    ASSUME DescriptorsInv, NEW c \in Clients, OtherCloses(c) \/ OtherShutsDown(c),
           UNCHANGED daemonVars
    PROVE  DescriptorsInv'
<1> USE DEF OtherCloses, OtherShutsDown, ClientCloses
<1>1. <<>> \in Seq(Byte) /\ Len(<<>>) = 0 /\ SocketBuffer \in Nat
  BY EmptySeq, SocketsAssumption
<1>2. ClosedWith(to_client[c]) \in {"closed", "reset"}
  BY DEF ClosedWith
<1>3. SocketsInv'
  <2>1. CASE OtherCloses(c)
    BY <1>1, <1>2, <2>1 DEF DescriptorsInv, SocketsInv
  <2>2. CASE OtherShutsDown(c)
    BY <2>2 DEF DescriptorsInv, SocketsInv
  <2> QED
    BY <2>1, <2>2
<1>4. ClientsInv'
  BY DEF DescriptorsInv, ClientsInv, clientVars
<1>5. \A d \in Clients : client_end'[d] = "new" => client_end[d] = "new"
  BY <1>2 DEF DescriptorsInv, SocketsInv
<1> QED
  BY <1>3, <1>4, <1>5, ClientDescriptors

\* All that a client may do.
LEMMA ClientEffect ==
    ASSUME DescriptorsInv, NEW c \in Clients, Client(c)
    PROVE  /\ UNCHANGED daemonVars
           /\ \/ Connects(c)
              \/ \E end \in Nat : end <= Len(stream[c]) /\ SendsTo(c, end)
              \/ \E outcome \in {"success", "error", "unexpected", "failed"} :
                    \/ RunnerctlEnds(c, outcome, received[c], to_client[c])
                    \/ RunnerctlEnds(c, outcome, received[c], <<>>)
                    \/ /\ to_client[c] # <<>>
                       /\ RunnerctlEnds(c, outcome, received[c] \o Chunk(to_client[c]),
                                        AfterChunk(to_client[c]))
              \/ Takes(c)
              \/ OtherCloses(c)
              \/ OtherShutsDown(c)
<1>1. Len(stream[c]) \in Nat /\ CutPoints \subseteq Nat
  BY RunnerctlAssumption DEF DescriptorsInv, ClientsInv
<1>2. CASE Connects(c)
  BY <1>2 DEF Client
<1>3. CASE RunnerctlStep(c)
  <2>1. /\ UNCHANGED daemonVars
        /\ \/ SendsTo(c, Len(stream[c])) \/ RunnerctlCannotSend(c)
           \/ RunnerctlReads(c) \/ RunnerctlSeesTheEnd(c)
    BY <1>3 DEF Client, RunnerctlStep
  <2>2. CASE SendsTo(c, Len(stream[c]))
    BY <1>1, <2>1, <2>2
  <2>3. CASE RunnerctlCannotSend(c) \/ RunnerctlSeesTheEnd(c)
    BY <2>1, <2>3 DEF RunnerctlCannotSend, RunnerctlSeesTheEnd
  <2>4. CASE RunnerctlReads(c)
    BY <2>1, <2>4, RunnerctlReadsEffect, Zenon
  <2> QED
    BY <2>1, <2>2, <2>3, <2>4
<1>4. CASE OtherStep(c)
  <2>1. OtherReads(c) => Takes(c)
    BY DEF OtherReads, Takes
  <2> QED
    BY <1>1, <1>4, <2>1 DEF Client, OtherStep
<1> QED
  BY <1>2, <1>3, <1>4 DEF Client

LEMMA ClientStepDescriptors ==
    ASSUME DescriptorsInv, NEW c \in Clients, Client(c)
    PROVE  DescriptorsInv'
<1>1. /\ received[c] \in Seq(Byte) /\ received[c] \o Chunk(to_client[c]) \in Seq(Byte)
  <2>1. received[c] \in Seq(Byte) /\ to_client[c] \in Seq(Byte)
    BY DEF DescriptorsInv, ClientsInv, SocketsInv
  <2> QED
    BY <2>1, ChunkType, ConcatProperties
<1>2. CASE Connects(c)
  BY <1>2, ClientEffect, ConnectsDescriptors
<1>3. CASE \E end \in Nat : end <= Len(stream[c]) /\ SendsTo(c, end)
  BY <1>3, ClientEffect, SendsDescriptors
<1>4. CASE \E outcome \in {"success", "error", "unexpected", "failed"} :
              \/ RunnerctlEnds(c, outcome, received[c], to_client[c])
              \/ RunnerctlEnds(c, outcome, received[c], <<>>)
              \/ RunnerctlEnds(c, outcome, received[c] \o Chunk(to_client[c]),
                               AfterChunk(to_client[c]))
  BY <1>1, <1>4, ClientEffect, EndsDescriptors
<1>5. CASE Takes(c)
  BY <1>5, ClientEffect, TakesDescriptors
<1>6. CASE OtherCloses(c) \/ OtherShutsDown(c)
  BY <1>6, ClientEffect, OtherClosesDescriptors
<1> QED
  BY <1>2, <1>3, <1>4, <1>5, <1>6, ClientEffect

\* The ways in which a handler or the loop closes a connection.
LEMMA ClosingSteps ==
    ASSUME NEW c,
           \/ FeedThrows(c) \/ ReadFails(c) \/ RequestFails(c) \/ RequestThrows(c)
           \/ WriteFails(c) \/ Finish(c)
    PROVE  /\ UNCHANGED batch /\ \E unread : closeClient(c, unread)
           /\ UNCHANGED jobVars \/ RequestEffects(FirstFrame(connections[c].decoder))
BY DEF FeedThrows, ReadFails, RequestFails, RequestThrows, WriteFails, Finish

LEMMA DescriptorsInvStep ==
    ASSUME DescriptorsInv, [Next]_vars
    PROVE  DescriptorsInv'
<1>1. CASE EpollWait
  BY <1>1, EpollWaitDescriptors
<1>2. CASE \E e \in batch : \/ TimerEvent(e) \/ PipeEvent(e) \/ OldEvent(e)
                            \/ ListenEvent(e) \/ ClientEvent(e)
  BY <1>2, OtherEventsDescriptors
<1>3. CASE \E e \in batch : ClientError(e)
  <2>1. PICK e \in batch, c \in Connected : closeClient(c, to_daemon[c]) /\ batch' \subseteq batch
    BY <1>3 DEF ClientError, ClientsAt, Dispatch
  <2>2. UNCHANGED jobVars
    BY <1>3 DEF ClientError
  <2> QED
    BY <2>1, <2>2, CloseDescriptors
<1>4. CASE Accept4
  BY <1>4, Accept4Descriptors
<1>5. CASE AcceptDone \/ \E fd \in Fds : PipeHangsUp(fd)
  BY <1>5, LoopDescriptors
<1>6. CASE AcceptFails
  BY <1>6, AcceptFailsDescriptors
<1>7. CASE pc \in {"read", "parse", "write"} /\ ClientBranch(Current)
  <2>1. Current \in Connected
    BY <1>7, CurrentIsConnected
  <2>2. CASE \/ FeedThrows(Current) \/ ReadFails(Current) \/ RequestFails(Current)
             \/ RequestThrows(Current) \/ WriteFails(Current) \/ Finish(Current)
    <3>1. /\ batch' \subseteq batch /\ \E unread : closeClient(Current, unread)
          /\ \/ UNCHANGED jobVars
             \/ RequestEffects(FirstFrame(connections[Current].decoder))
      BY <2>2, ClosingSteps
    <3> QED
      BY <2>1, <3>1, CloseDescriptors
  <2> QED
    BY <1>7, <2>1, <2>2, ReadDescriptors, ReadDoneDescriptors, HandleRequestDescriptors,
       WriteDescriptors, UpdateDescriptors
    DEF ClientBranch
<1>8. CASE \E c \in Clients : Client(c)
  BY <1>8, ClientStepDescriptors
<1>9. CASE UNCHANGED vars
  BY <1>9
     DEF DescriptorsInv, SocketsInv, ClientsInv, DaemonInv, BacklogInv, DescriptorsHaveOneOwner,
         Connected, ClientsAt, vars, socketVars, clientVars, daemonVars, jobVars, historyVars
<1> QED
  BY <1>1, <1>2, <1>3, <1>4, <1>5, <1>6, <1>7, <1>8, <1>9 DEF Next, Daemon

\* The inductive invariant holds.
THEOREM DescriptorsInvariance ==
    Spec => []DescriptorsInv
<1>1. Init => DescriptorsInv
  BY DescriptorsInvInit
<1>2. DescriptorsInv /\ [Next]_vars => DescriptorsInv'
  BY DescriptorsInvStep
<1> QED
  BY <1>1, <1>2, PTL DEF Spec

(***************************************************************************)
(* Whatever epoll reports and in which order the daemon works it off,      *)
(* every descriptor number has one owner, and no handler works on a        *)
(* Connection that is gone, for any number of clients and descriptors.     *)
(***************************************************************************)
THEOREM DescriptorsAreNotMixedUp ==
    Spec => []DescriptorsHaveOneOwner
<1>1. DescriptorsInv => DescriptorsHaveOneOwner
  BY DEF DescriptorsInv
<1> QED
  BY <1>1, DescriptorsInvariance, PTL

\* The types, the limit of the socket buffer and the bounds of the write offset.
THEOREM ConnectionsTypeCorrect ==
    Spec => []ConnectionsTypeOK
<1>1. ASSUME DescriptorsInv PROVE ConnectionsTypeOK
  <2>1. SocketsTypeOK /\ ClientsTypeOK
    BY <1>1 DEF DescriptorsInv, SocketsInv, ClientsInv, SocketsTypeOK, ClientsTypeOK
  <2>2. \A e \in batch \cup {event} :
          /\ e.fd \in Fds \cup {listen_fd, timer_fd}
          /\ e.mask \subseteq {"EPOLLIN", "EPOLLOUT", "EPOLLHUP", "EPOLLERR"}
    BY <1>1 DEF DescriptorsInv, DaemonInv, EventType
  <2>3. \A c \in Clients :
          /\ connections[c].fd \in Fds \cup {0}
          /\ connections[c].write_offset \in 0 .. Len(connections[c].write_buffer)
          /\ connections[c].interest \subseteq {"EPOLLIN", "EPOLLOUT"}
    BY <1>1 DEF DescriptorsInv, DaemonInv, ConnectionType
  <2> QED
    BY <1>1, <2>1, <2>2, <2>3 DEF ConnectionsTypeOK, DescriptorsInv, DaemonInv
<1> QED
  BY <1>1, DescriptorsInvariance, PTL

-----------------------------------------------------------------------------
\* Answers

(***************************************************************************)
(* The inductive invariant of the answers: nothing is answered, and        *)
(* nothing on its way, before the client is accepted.                      *)
(***************************************************************************)
AnswersInv ==
    /\ AnswersAreExact
    /\ \A c \in Clients : daemon_end[c] \in {"none", "backlog"} =>
          answers[c] = <<>> /\ received[c] = <<>> /\ to_client[c] = <<>>

\* The part of the invariant about one client.
AnswersOf(c) ==
    /\ c \in Connected /\ ~Gone(client_end[c]) =>
          received[c] \o to_client[c] \o Unsent(c) = EncodeAll(answers[c])
    /\ IsPrefix(received[c] \o to_client[c], EncodeAll(answers[c]))
    /\ daemon_end[c] \in {"none", "backlog"} =>
          answers[c] = <<>> /\ received[c] = <<>> /\ to_client[c] = <<>>

LEMMA AnswersInvIsLocal ==
    AnswersInv <=> \A c \in Clients : AnswersOf(c)
BY Zenon DEF AnswersInv, AnswersAreExact, AnswersOf

LEMMA EmptyAnswers ==
    <<>> \o <<>> = <<>> /\ IsPrefix(<<>> \o <<>>, EncodeAll(<<>>))
<1>1. <<>> \in Seq(Byte)
  BY EmptySeq
<1>2. <<>> \o <<>> = <<>>
  BY <1>1, ConcatEmptySeq
<1>3. IsPrefix(<<>>, <<>>)
  BY <1>1, <1>2, PrefixOfConcat
<1> QED
  BY <1>2, <1>3, EncodeAllEmpty

LEMMA AnswersInvInit ==
    ASSUME Init
    PROVE  AnswersInv
<1> SUFFICES ASSUME NEW c \in Clients PROVE AnswersOf(c)
  BY AnswersInvIsLocal
<1>1. received[c] = <<>> /\ to_client[c] = <<>> /\ answers[c] = <<>>
  BY DEF Init, SocketsInit, ClientsInit
<1>2. c \notin Connected
  BY NewConnection DEF Init, Connected, NoConnection
<1> QED
  BY <1>1, <1>2, EmptyAnswers DEF AnswersOf

\* A client whose bytes and answers stay as they are.
LEMMA AnswersKept ==
    ASSUME NEW c \in Clients, AnswersOf(c),
           received'[c] = received[c], to_client'[c] = to_client[c], answers'[c] = answers[c],
           (c \in Connected)' /\ ~Gone(client_end'[c]) =>
              c \in Connected /\ ~Gone(client_end[c]) /\ Unsent(c)' = Unsent(c),
           daemon_end'[c] \in {"none", "backlog"} => daemon_end[c] \in {"none", "backlog"}
    PROVE  AnswersOf(c)'
BY DEF AnswersOf

\* The same for a step in which nothing of it changes.
LEMMA AnswersUntouched ==
    ASSUME NEW c \in Clients, AnswersOf(c),
           received'[c] = received[c], to_client'[c] = to_client[c], answers'[c] = answers[c],
           connections'[c] = connections[c], client_end'[c] = client_end[c],
           daemon_end'[c] = daemon_end[c]
    PROVE  AnswersOf(c)'
BY AnswersKept DEF Connected, Unsent

\* Steps that concern no answer at all.
LEMMA AnswersElsewhere ==
    ASSUME AnswersInv,
           UNCHANGED <<received, to_client, answers, connections, client_end, daemon_end>>
    PROVE  AnswersInv'
BY DEF AnswersInv, AnswersAreExact, Connected, Unsent

\* Steps about one client: it is enough to look at that one.
LEMMA AnswersOfOne ==
    ASSUME AnswersInv, NEW c \in Clients, AnswersOf(c)',
           \A d \in Clients \ {c} :
              /\ received'[d] = received[d] /\ to_client'[d] = to_client[d]
              /\ answers'[d] = answers[d] /\ connections'[d] = connections[d]
              /\ client_end'[d] = client_end[d] /\ daemon_end'[d] = daemon_end[d]
    PROVE  AnswersInv'
<1> SUFFICES ASSUME NEW d \in Clients PROVE AnswersOf(d)'
  BY Zenon DEF AnswersInv, AnswersAreExact, AnswersOf
<1> QED
  BY AnswersInvIsLocal, AnswersUntouched

LEMMA QuietAnswers ==
    ASSUME AnswersInv,
           \/ EpollWait \/ AcceptDone \/ \E fd \in Fds : PipeHangsUp(fd)
           \/ \E e \in batch : \/ TimerEvent(e) \/ PipeEvent(e) \/ OldEvent(e)
                               \/ ListenEvent(e) \/ ClientEvent(e)
    PROVE  AnswersInv'
BY AnswersElsewhere
   DEF EpollWait, AcceptDone, PipeHangsUp, TimerEvent, PipeEvent, OldEvent, ListenEvent,
       ClientEvent, socketVars, clientVars, historyVars

LEMMA Accept4Answers ==
    ASSUME DescriptorsInv, AnswersInv, Accept4
    PROVE  AnswersInv'
<1>1. PICK c \in Clients : c = Head(backlog) /\ daemon_end[c] = "backlog"
  BY AcceptedFd
<1>2. PICK fd \in FreeFds : connections' = [connections EXCEPT ![c] = Connection(fd)]
  BY <1>1, AcceptedFd
<1>3. /\ daemon_end' = [daemon_end EXCEPT ![c] = "open"]
      /\ UNCHANGED <<client_end, to_client, received, answers>>
  BY <1>1 DEF Accept4, clientVars
<1>4. answers[c] = <<>> /\ received[c] = <<>> /\ to_client[c] = <<>>
  BY <1>1 DEF AnswersInv
<1>5. Unsent(c)' = <<>>
  <2>1. connections'[c] = Connection(fd) /\ fd \in Fds \cup {0}
    BY <1>1, <1>2 DEF DescriptorsInv, DaemonInv, FreeFds
  <2>2. connections'[c].write_buffer = <<>> /\ connections'[c].write_offset = 0
    BY <2>1, NewConnection
  <2>3. Unsent(c)' = SubSeq(<<>>, 1, 0)
    BY <2>2, EmptySeq DEF Unsent
  <2> QED
    BY <2>3, SubSeqEmpty
<1>6. AnswersOf(c)'
  <2>1. daemon_end'[c] = "open"
    BY <1>1, <1>3 DEF DescriptorsInv, SocketsInv
  <2> QED
    BY <1>3, <1>4, <1>5, <2>1, EmptyAnswers, EncodeAllEmpty DEF AnswersOf
<1>7. \A d \in Clients \ {c} :
         connections'[d] = connections[d] /\ daemon_end'[d] = daemon_end[d]
  BY <1>2, <1>3 DEF DescriptorsInv, DaemonInv, SocketsInv
<1> QED
  BY <1>1, <1>3, <1>6, <1>7, AnswersOfOne

LEMMA CloseAnswers ==
    ASSUME DescriptorsInv, AnswersInv, NEW c \in Connected, NEW unread, closeClient(c, unread)
    PROVE  AnswersInv'
<1> USE DEF closeClient, DaemonCloses
<1>1. c \in Clients /\ AnswersOf(c)
  BY AnswersInvIsLocal DEF Connected
<1>2. UNCHANGED <<client_end, to_client, received, answers>>
  BY DEF clientVars, historyVars
<1>3. connections'[c].fd = 0
  BY <1>1, NewConnection DEF NoConnection, DescriptorsInv, DaemonInv
<1>4. daemon_end'[c] \in {"closed", "reset"}
  BY <1>1 DEF ClosedWith, DescriptorsInv, SocketsInv
<1>5. AnswersOf(c)'
  BY <1>1, <1>2, <1>3, <1>4, AnswersKept DEF Connected
<1>6. \A d \in Clients \ {c} :
         connections'[d] = connections[d] /\ daemon_end'[d] = daemon_end[d]
  BY DEF DescriptorsInv, DaemonInv, SocketsInv
<1> QED
  BY <1>1, <1>2, <1>5, <1>6, AnswersOfOne

LEMMA AcceptFailsAnswers ==
    ASSUME DescriptorsInv, AnswersInv, AcceptFails
    PROVE  AnswersInv'
<1> SUFFICES ASSUME NEW c \in Clients PROVE AnswersOf(c)'
  BY Zenon DEF AnswersInv, AnswersAreExact, AnswersOf
<1>1. connections'[c].fd = 0
  BY NewConnection DEF AcceptFails, NoConnection
<1>2. daemon_end'[c] \in {"none", "backlog"} => daemon_end[c] \in {"none", "backlog"}
  BY DEF AcceptFails, DaemonDies, ClosedWith, DescriptorsInv, SocketsInv
<1>3. UNCHANGED <<client_end, to_client, received, answers>>
  BY DEF AcceptFails, DaemonDies, clientVars, historyVars
<1> QED
  BY <1>1, <1>2, <1>3, AnswersInvIsLocal, AnswersKept DEF Connected

\* Reading and the bookkeeping of events leave the write buffer alone.
LEMMA ReadAnswers ==
    ASSUME DescriptorsInv, AnswersInv, NEW c \in Connected, Read(c) \/ ReadDone(c)
    PROVE  AnswersInv'
<1>1. c \in Clients /\ AnswersOf(c)
  BY AnswersInvIsLocal DEF Connected
<1>2. UNCHANGED <<client_end, daemon_end, to_client, received, answers>>
  BY DEF Read, ReadDone, clientVars, socketVars, historyVars
<1>3. /\ connections'[c].write_buffer = connections[c].write_buffer
      /\ connections'[c].write_offset = connections[c].write_offset
      /\ \A d \in Clients \ {c} : connections'[d] = connections[d]
  BY <1>1 DEF Read, ReadDone, DescriptorsInv, DaemonInv, ConnectionType
<1>4. AnswersOf(c)'
  BY <1>1, <1>2, <1>3, AnswersKept DEF Unsent
<1> QED
  BY <1>1, <1>2, <1>3, <1>4, AnswersOfOne

LEMMA UpdateAnswers ==
    ASSUME DescriptorsInv, AnswersInv, NEW c \in Connected, updateClientEvents(c)
    PROVE  AnswersInv'
<1>1. c \in Clients /\ AnswersOf(c)
  BY AnswersInvIsLocal DEF Connected
<1>2. UNCHANGED <<client_end, daemon_end, to_client, received, answers>>
  BY DEF updateClientEvents, clientVars, socketVars, historyVars
<1>3. Unsent(c)' = Unsent(c)
  <2>1. CASE hasPendingWrite(c)
    BY <2>1, UpdateEffect DEF Unsent
  <2>2. CASE ~hasPendingWrite(c)
    <3>1. connections'[c].write_offset = 0 /\ connections'[c].write_buffer = <<>>
      BY <2>2, UpdateEffect
    <3>2. Unsent(c)' = <<>>
      BY <3>1, EmptySeq, SubSeqEmpty DEF Unsent
    <3>3. connections[c].write_offset = Len(connections[c].write_buffer)
          /\ Len(connections[c].write_buffer) \in Nat
      BY <1>1, <2>2, UnsentType DEF hasPendingWrite
    <3>4. Unsent(c) = <<>>
      BY <3>3, SubSeqEmpty DEF Unsent
    <3> QED
      BY <3>2, <3>4
  <2> QED
    BY <2>1, <2>2
<1>4. \A d \in Clients \ {c} : connections'[d] = connections[d]
  BY UpdateEffect
<1>5. AnswersOf(c)'
  <2>1. connections'[c].fd = connections[c].fd
    BY UpdateEffect
  <2> QED
    BY <1>1, <1>2, <1>3, <2>1, AnswersKept DEF Connected
<1> QED
  BY <1>1, <1>2, <1>4, <1>5, AnswersOfOne

\* What has been read and what is under way.
LEMMA OnTheWay ==
    ASSUME DescriptorsInv, NEW c \in Clients
    PROVE  /\ received[c] \in Seq(Byte) /\ to_client[c] \in Seq(Byte)
           /\ received[c] \o to_client[c] \in Seq(Byte)
           /\ answers[c] \in Seq(Seq(Byte)) /\ EncodeAll(answers[c]) \in Seq(Byte)
<1>1. /\ received[c] \in Seq(Byte) /\ to_client[c] \in Seq(Byte)
      /\ answers[c] \in Seq(Seq(Byte)) /\ <<>> \in Seq(Byte)
  BY EmptySeq DEF DescriptorsInv, ClientsInv, SocketsInv, DaemonInv
<1> QED
  BY <1>1, ConcatProperties, EncodeAllAppend

\* An answer f is appended to a buffer of which the bytes p are sent and u are not.
LEMMA AnswerAppended ==
    ASSUME NEW S, NEW p \in Seq(S), NEW u \in Seq(S), NEW f \in Seq(S)
    PROVE  SubSeq((p \o u) \o f, Len(p) + 1, Len((p \o u) \o f)) = u \o f
<1>1. u \o f \in Seq(S)
  BY ConcatProperties
<1>2. (p \o u) \o f = p \o (u \o f)
  BY ConcatAssociative, SMTT(30)
<1>3. SubSeq(p \o (u \o f), Len(p) + 1, Len(p \o (u \o f))) = u \o f
  BY <1>1, CutUnique
<1> QED
  BY <1>2, <1>3

\* Of such a buffer the bytes x are written, and the bytes y are not.
LEMMA BytesWritten ==
    ASSUME NEW S, NEW p \in Seq(S), NEW x \in Seq(S), NEW y \in Seq(S)
    PROVE  SubSeq(p \o (x \o y), (Len(p) + Len(x)) + 1, Len(p \o (x \o y))) = y
<1>1. p \o x \in Seq(S) /\ Len(p \o x) = Len(p) + Len(x)
  BY ConcatProperties
<1>2. (p \o x) \o y = p \o (x \o y)
  BY ConcatAssociative, SMTT(30)
<1>3. SubSeq((p \o x) \o y, Len(p \o x) + 1, Len((p \o x) \o y)) = y
  BY <1>1, CutUnique
<1> QED
  BY <1>1, <1>2, <1>3

LEMMA Regroup ==
    ASSUME NEW S, NEW r \in Seq(S), NEW u \in Seq(S), NEW f \in Seq(S)
    PROVE  r \o (u \o f) = (r \o u) \o f
BY ConcatAssociative, SMTT(30)

LEMMA LongerPrefix ==
    ASSUME NEW s \in Seq(Byte), NEW t \in Seq(Byte), NEW u \in Seq(Byte), IsPrefix(s, t)
    PROVE  IsPrefix(s, t \o u)
<1>1. PICK v \in Seq(Byte) : t = s \o v
  BY PrefixHasRest
<1>2. (s \o v) \o u = s \o (v \o u) /\ v \o u \in Seq(Byte)
  <2>1. v \o u \in Seq(Byte)
    BY ConcatProperties, Zenon
  <2>2. (s \o v) \o u = s \o (v \o u)
    BY ConcatAssociative, SMTT(30)
  <2> QED
    BY <2>1, <2>2
<1>3. IsPrefix(s, s \o (v \o u))
  BY <1>2, PrefixOfConcat
<1> QED
  BY <1>1, <1>2, <1>3, Zenon

LEMMA ShorterPrefix ==
    ASSUME NEW s \in Seq(Byte), NEW t \in Seq(Byte), NEW u \in Seq(Byte), IsPrefix(s \o t, u)
    PROVE  IsPrefix(s, u)
<1>1. s \o t \in Seq(Byte)
  BY ConcatProperties
<1>2. PICK v \in Seq(Byte) : u = (s \o t) \o v
  BY <1>1, PrefixHasRest, ZenonT(30)
<1>3. (s \o t) \o v = s \o (t \o v) /\ t \o v \in Seq(Byte)
  <2>1. t \o v \in Seq(Byte)
    BY ConcatProperties, Zenon
  <2>2. (s \o t) \o v = s \o (t \o v)
    BY ConcatAssociative, SMTT(30)
  <2> QED
    BY <2>1, <2>2
<1>4. IsPrefix(s, s \o (t \o v))
  BY <1>3, PrefixOfConcat
<1> QED
  BY <1>2, <1>3, <1>4, Zenon

LEMMA HandleRequestAnswers ==
    ASSUME DescriptorsInv, AnswersInv, NEW c \in Connected, HandleRequest(c)
    PROVE  AnswersInv'
<1>1. PICK answer \in Seq(Byte) :
              /\ answers' = [answers EXCEPT ![c] = Append(@, answer)]
              /\ encodeFrame(answer) \in Seq(Byte)
              /\ connections'[c].write_buffer = connections[c].write_buffer \o encodeFrame(answer)
              /\ connections'[c].write_offset = connections[c].write_offset
              /\ connections'[c].fd = connections[c].fd
              /\ \A d \in Clients \ {c} : connections'[d] = connections[d]
  BY HandleRequestEffect
<1>2. c \in Clients /\ AnswersOf(c)
  BY AnswersInvIsLocal DEF Connected
<1>3. UNCHANGED <<client_end, daemon_end, to_client, received>>
  BY DEF HandleRequest, socketVars, clientVars
<1> DEFINE R == received[c] \o to_client[c]
           E == EncodeAll(answers[c])
           F == encodeFrame(answer)
           B == connections[c].write_buffer
           P == SubSeq(B, 1, connections[c].write_offset)
           U == Unsent(c)
<1>4. /\ R \in Seq(Byte) /\ E \in Seq(Byte) /\ F \in Seq(Byte) /\ B \in Seq(Byte)
      /\ P \in Seq(Byte) /\ U \in Seq(Byte) /\ answers[c] \in Seq(Seq(Byte))
      /\ connections[c].write_offset \in 0 .. Len(B)
  BY <1>1, <1>2, OnTheWay, UnsentType
<1>5. P \o U = B /\ Len(P) = connections[c].write_offset
  BY <1>4, Cut DEF Unsent
<1>6. EncodeAll(answers'[c]) = E \o F
  <2>1. answers'[c] = Append(answers[c], answer)
    BY <1>1, <1>2 DEF DescriptorsInv, DaemonInv
  <2> QED
    BY <1>4, <2>1, EncodeAllAppend
<1>7. Unsent(c)' = U \o F /\ R \o (U \o F) = (R \o U) \o F
  <2>1. Unsent(c)' = SubSeq(B \o F, Len(P) + 1, Len(B \o F))
    BY <1>1, <1>5 DEF Unsent
  <2>2. R \in Seq(Byte) /\ U \in Seq(Byte) /\ F \in Seq(Byte) /\ P \in Seq(Byte)
    BY <1>4
  <2> HIDE DEF U, P, B, F, R
  <2>3. SubSeq((P \o U) \o F, Len(P) + 1, Len((P \o U) \o F)) = U \o F
    BY ONLY <2>2, AnswerAppended, ZenonT(60)
  <2>4. R \in Seq(Byte) /\ U \in Seq(Byte) /\ F \in Seq(Byte)
    BY ONLY <2>2
  <2>5. R \o (U \o F) = (R \o U) \o F
    BY ONLY <2>4, Regroup
  <2> QED
    BY <1>5, <2>1, <2>3, <2>5, Zenon
<1>8. R' = R /\ (c \in Connected)' /\ daemon_end'[c] = "open"
  BY <1>1, <1>2, <1>3 DEF Connected, DescriptorsInv, DescriptorsHaveOneOwner
<1>9. ~Gone(client_end'[c]) => R \o (U \o F) = E \o F
  <2>1. ~Gone(client_end'[c]) => R \o U = E
    BY <1>2, <1>3 DEF AnswersOf
  <2> QED
    BY <1>7, <2>1, Zenon
<1>10. IsPrefix(R, E \o F)
  BY <1>2, <1>4, LongerPrefix DEF AnswersOf
<1>11. AnswersOf(c)'
  <2>1. received'[c] \o to_client'[c] = R
    BY <1>3
  <2> HIDE DEF R, U, E, F
  <2> QED
    BY <1>6, <1>7, <1>8, <1>9, <1>10, <2>1, Zenon DEF AnswersOf
<1> QED
  BY <1>1, <1>2, <1>3, <1>11, AnswersOfOne DEF DescriptorsInv, DaemonInv

LEMMA WriteAnswers ==
    ASSUME DescriptorsInv, AnswersInv, NEW c \in Connected, Write(c)
    PROVE  AnswersInv'
<1>1. PICK n \in Nat :
              /\ n <= Len(Unsent(c)) /\ n > 0
              /\ to_client' = [to_client EXCEPT ![c] = @ \o SubSeq(Unsent(c), 1, n)]
              /\ connections'[c].write_offset = connections[c].write_offset + n
              /\ connections'[c].write_buffer = connections[c].write_buffer
              /\ \A d \in Clients \ {c} : connections'[d] = connections[d]
  BY WriteEffect
<1>2. c \in Clients /\ AnswersOf(c)
  BY AnswersInvIsLocal DEF Connected
<1>3. UNCHANGED <<client_end, daemon_end, received, answers>> /\ ~Gone(client_end[c])
  BY DEF Write, clientVars, historyVars
<1> DEFINE r == received[c]
           t == to_client[c]
           E == EncodeAll(answers[c])
           B == connections[c].write_buffer
           P == SubSeq(B, 1, connections[c].write_offset)
           U == Unsent(c)
           X == SubSeq(U, 1, n)
           Y == SubSeq(U, n + 1, Len(U))
<1>4. /\ r \in Seq(Byte) /\ t \in Seq(Byte) /\ E \in Seq(Byte) /\ B \in Seq(Byte)
      /\ P \in Seq(Byte) /\ U \in Seq(Byte)
      /\ connections[c].write_offset \in 0 .. Len(B)
  BY <1>2, OnTheWay, UnsentType
<1>5. P \o U = B /\ Len(P) = connections[c].write_offset
  BY <1>4, Cut DEF Unsent
<1>6. X \in Seq(Byte) /\ Y \in Seq(Byte) /\ X \o Y = U /\ Len(X) = n
  <2>1. n \in 0 .. Len(U)
    BY <1>1, <1>4
  <2> HIDE DEF U
  <2> QED
    BY <1>4, <2>1, Cut
<1>7. to_client'[c] = t \o X
  BY <1>1, <1>2 DEF DescriptorsInv, SocketsInv
<1>8. Unsent(c)' = Y
  <2>1. Unsent(c)' = SubSeq(B, (Len(P) + Len(X)) + 1, Len(B))
    BY <1>1, <1>5, <1>6 DEF Unsent
  <2>2. P \in Seq(Byte) /\ X \in Seq(Byte) /\ Y \in Seq(Byte)
    BY <1>4, <1>6
  <2>3. P \o (X \o Y) = B
    BY <1>5, <1>6
  <2> HIDE DEF P, X, Y, B
  <2>4. SubSeq(P \o (X \o Y), (Len(P) + Len(X)) + 1, Len(P \o (X \o Y))) = Y
    BY ONLY <2>2, BytesWritten
  <2> QED
    BY <2>1, <2>3, <2>4, Zenon
<1>9. /\ (r \o (t \o X)) \o Y = E
      /\ IsPrefix(r \o (t \o X), E)
  <2>1. (r \o t) \o U = E
    BY <1>2, <1>3 DEF AnswersOf
  <2>2. r \in Seq(Byte) /\ t \in Seq(Byte) /\ X \in Seq(Byte) /\ Y \in Seq(Byte)
    BY <1>4, <1>6
  <2> HIDE DEF r, t, X, Y, U, E
  <2>3. (r \o (t \o X)) \o Y = (r \o t) \o (X \o Y)
    <3> DEFINE z == r \o t
    <3>1. r \in Seq(Byte) /\ t \in Seq(Byte) /\ X \in Seq(Byte)
      BY <2>2
    <3>2. r \o (t \o X) = (r \o t) \o X
      BY ONLY <3>1, Regroup
    <3>3. z \in Seq(Byte) /\ X \in Seq(Byte) /\ Y \in Seq(Byte)
      BY <2>2, ConcatProperties
    <3> HIDE DEF z
    <3>4. z \o (X \o Y) = (z \o X) \o Y
      BY ONLY <3>3, Regroup
    <3> QED
      BY <3>2, <3>4, Zenon DEF z
  <2>4. (r \o (t \o X)) \o Y = E
    BY <1>6, <2>1, <2>3, Zenon
  <2>5. t \o X \in Seq(Byte)
    BY ONLY <2>2, ConcatProperties
  <2>6. r \o (t \o X) \in Seq(Byte)
    BY ONLY <2>2, <2>5, ConcatProperties
  <2>7. IsPrefix(r \o (t \o X), (r \o (t \o X)) \o Y)
    BY ONLY <2>2, <2>6, PrefixOfConcat
  <2> QED
    BY <2>4, <2>7, Zenon
<1>10. daemon_end'[c] = "open"
  BY <1>2, <1>3 DEF DescriptorsInv, DescriptorsHaveOneOwner
<1>11. AnswersOf(c)'
  <2>1. received'[c] = r /\ answers'[c] = answers[c]
    BY <1>3
  <2> HIDE DEF r, t, X, Y
  <2> QED
    BY <1>7, <1>8, <1>9, <1>10, <2>1 DEF AnswersOf
<1> QED
  BY <1>1, <1>2, <1>3, <1>11, AnswersOfOne DEF DescriptorsInv, SocketsInv

\* A client reads: the bytes move from the socket to what it has received.
LEMMA TakesAnswers ==
    ASSUME DescriptorsInv, AnswersInv, NEW c \in Clients, Takes(c), UNCHANGED daemonVars
    PROVE  AnswersInv'
<1> USE DEF Takes
<1>1. UNCHANGED <<client_end, daemon_end, connections, answers>>
  BY DEF daemonVars, historyVars
<1>2. AnswersOf(c) /\ daemon_end[c] \notin {"none", "backlog"}
  BY AnswersInvIsLocal DEF AnswersOf
<1> DEFINE r == received[c]
           X == Chunk(to_client[c])
           Y == AfterChunk(to_client[c])
<1>3. r \in Seq(Byte) /\ X \in Seq(Byte) /\ Y \in Seq(Byte) /\ X \o Y = to_client[c]
  BY OnTheWay, ChunkType
<1>4. received'[c] = r \o X /\ to_client'[c] = Y
  BY DEF DescriptorsInv, ClientsInv, SocketsInv
<1> HIDE DEF r, X, Y
<1>5. r \o (X \o Y) = (r \o X) \o Y
  <2>1. r \in Seq(Byte) /\ X \in Seq(Byte) /\ Y \in Seq(Byte)
    BY <1>3
  <2> QED
    BY ONLY <2>1, Regroup
<1>6. received'[c] \o to_client'[c] = received[c] \o to_client[c]
  BY <1>3, <1>4, <1>5, Zenon DEF r
<1>7. Unsent(c)' = Unsent(c) /\ (c \in Connected)' = (c \in Connected)
  BY <1>1 DEF Unsent, Connected
<1>8. AnswersOf(c)'
  BY <1>1, <1>2, <1>6, <1>7 DEF AnswersOf
<1> QED
  BY <1>1, <1>8, AnswersOfOne DEF DescriptorsInv, ClientsInv, SocketsInv

\* A client closes when it has received these bytes: no more than had been sent.
LEMMA LeavesAnswers ==
    ASSUME DescriptorsInv, AnswersInv, NEW c \in Clients, NEW unread,
           NEW read \in Seq(Byte), NEW rest \in Seq(Byte),
           read \o rest = received[c] \o to_client[c],
           daemon_end[c] \in {"none", "backlog"} => read = <<>>,
           received' = [received EXCEPT ![c] = read],
           ClientCloses(c, unread), UNCHANGED daemonVars
    PROVE  AnswersInv'
<1> USE DEF ClientCloses
<1>1. UNCHANGED <<daemon_end, connections, answers>> /\ AnswersOf(c)
  BY AnswersInvIsLocal DEF daemonVars, historyVars
<1>2. received'[c] = read /\ to_client'[c] = <<>> /\ Gone(client_end'[c])
  BY DEF DescriptorsInv, ClientsInv, SocketsInv, Gone, ClosedWith
<1>3. EncodeAll(answers[c]) \in Seq(Byte)
  BY OnTheWay
<1>4. IsPrefix(read, EncodeAll(answers[c]))
  BY <1>1, <1>3, ShorterPrefix DEF AnswersOf
<1>5. read \o <<>> = read
  BY ConcatEmptySeq
<1>6. AnswersOf(c)'
  BY <1>1, <1>2, <1>4, <1>5 DEF AnswersOf
<1> QED
  BY <1>1, <1>6, AnswersOfOne DEF DescriptorsInv, ClientsInv, SocketsInv

LEMMA EndsAnswers ==
    ASSUME DescriptorsInv, AnswersInv, NEW c \in Clients, NEW outcome, NEW unread, NEW read,
           RunnerctlEnds(c, outcome, read, unread),
           \/ read = received[c]
           \/ read = received[c] \o Chunk(to_client[c]) /\ to_client[c] # <<>>,
           UNCHANGED daemonVars
    PROVE  AnswersInv'
<1>1. received' = [received EXCEPT ![c] = read] /\ ClientCloses(c, unread)
  BY DEF RunnerctlEnds
<1>2. received[c] \in Seq(Byte) /\ to_client[c] \in Seq(Byte)
  BY OnTheWay
<1>3. daemon_end[c] \in {"none", "backlog"} => received[c] = <<>> /\ to_client[c] = <<>>
  BY DEF AnswersInv
<1>4. CASE read = received[c]
  BY <1>1, <1>2, <1>3, <1>4, LeavesAnswers
<1>5. CASE read = received[c] \o Chunk(to_client[c]) /\ to_client[c] # <<>>
  <2> DEFINE r == received[c]
             X == Chunk(to_client[c])
             Y == AfterChunk(to_client[c])
  <2>1. r \in Seq(Byte) /\ X \in Seq(Byte) /\ Y \in Seq(Byte) /\ X \o Y = to_client[c]
    BY <1>2, ChunkType
  <2> HIDE DEF r, X, Y
  <2>2. r \o (X \o Y) = (r \o X) \o Y /\ r \o X \in Seq(Byte)
    <3>1. r \in Seq(Byte) /\ X \in Seq(Byte) /\ Y \in Seq(Byte)
      BY <2>1
    <3>2. r \o X \in Seq(Byte)
      BY ONLY <3>1, ConcatProperties
    <3> QED
      BY ONLY <3>1, <3>2, Regroup
  <2>3. read = r \o X
    BY <1>5 DEF r, X
  <2>4. read \o Y = received[c] \o to_client[c]
    BY <2>1, <2>2, <2>3, Zenon DEF r
  <2>5. read \in Seq(Byte) /\ Y \in Seq(Byte)
    BY <2>1, <2>2, <2>3
  <2> QED
    BY <1>1, <1>3, <1>5, <2>4, <2>5, LeavesAnswers
<1> QED
  BY <1>4, <1>5

LEMMA ClientAnswers ==
    ASSUME DescriptorsInv, AnswersInv, NEW c \in Clients, Client(c)
    PROVE  AnswersInv'
<1>1. UNCHANGED daemonVars
  BY ClientEffect
<1>2. received[c] \in Seq(Byte) /\ to_client[c] \in Seq(Byte) /\ AnswersOf(c)
  BY OnTheWay, AnswersInvIsLocal
<1>3. UNCHANGED <<connections, answers>>
  BY <1>1 DEF daemonVars, historyVars
<1>4. CASE Connects(c)
  <2>1. client_end[c] = "new" /\ connect(c) /\ received' = received
    BY <1>4 DEF Connects, clientVars
  <2>2. c \notin Connected /\ daemon_end[c] = "none"
    BY <2>1 DEF DescriptorsInv, BacklogInv, DescriptorsHaveOneOwner
  <2>3. AnswersOf(c)'
    BY <1>2, <1>3, <2>1, <2>2, AnswersKept DEF connect, Connected
  <2> QED
    BY <1>3, <2>1, <2>3, AnswersOfOne DEF connect, DescriptorsInv, SocketsInv
<1>5. CASE \E end \in Nat : end <= Len(stream[c]) /\ SendsTo(c, end)
  BY <1>3, <1>5, AnswersElsewhere DEF SendsTo
<1>6. CASE \E outcome \in {"success", "error", "unexpected", "failed"} :
              \/ RunnerctlEnds(c, outcome, received[c], to_client[c])
              \/ RunnerctlEnds(c, outcome, received[c], <<>>)
              \/ /\ to_client[c] # <<>>
                 /\ RunnerctlEnds(c, outcome, received[c] \o Chunk(to_client[c]),
                                  AfterChunk(to_client[c]))
  BY <1>1, <1>6, EndsAnswers
<1>7. CASE Takes(c)
  BY <1>1, <1>7, TakesAnswers
<1>8. CASE OtherCloses(c)
  <2>1. ClientCloses(c, to_client[c]) /\ received' = received
    BY <1>8 DEF OtherCloses, clientVars
  <2>2. received' = [received EXCEPT ![c] = received[c]]
    BY <2>1 DEF DescriptorsInv, ClientsInv
  <2>3. daemon_end[c] \in {"none", "backlog"} => received[c] = <<>>
    BY DEF AnswersInv
  <2> QED
    BY <1>1, <1>2, <2>1, <2>2, <2>3, LeavesAnswers
<1>9. CASE OtherShutsDown(c)
  <2>1. /\ client_end' = [client_end EXCEPT ![c] = "half"] /\ client_end[c] = "open"
        /\ UNCHANGED <<daemon_end, to_client, received>>
    BY <1>9 DEF OtherShutsDown, clientVars
  <2>2. AnswersOf(c)'
    BY <1>2, <1>3, <2>1, AnswersKept DEF Gone, Unsent, Connected
  <2> QED
    BY <1>3, <2>1, <2>2, AnswersOfOne DEF DescriptorsInv, SocketsInv
<1> QED
  BY <1>4, <1>5, <1>6, <1>7, <1>8, <1>9, ClientEffect

LEMMA AnswersInvStep ==
    ASSUME DescriptorsInv, AnswersInv, [Next]_vars
    PROVE  AnswersInv'
<1>1. CASE \/ EpollWait \/ AcceptDone \/ \E fd \in Fds : PipeHangsUp(fd)
           \/ \E e \in batch : \/ TimerEvent(e) \/ PipeEvent(e) \/ OldEvent(e)
                               \/ ListenEvent(e) \/ ClientEvent(e)
  BY <1>1, QuietAnswers
<1>2. CASE \E e \in batch : ClientError(e)
  <2>1. PICK c \in Connected : closeClient(c, to_daemon[c])
    BY <1>2 DEF ClientError, ClientsAt
  <2> QED
    BY <2>1, CloseAnswers
<1>3. CASE Accept4
  BY <1>3, Accept4Answers
<1>4. CASE AcceptFails
  BY <1>4, AcceptFailsAnswers
<1>5. CASE pc \in {"read", "parse", "write"} /\ ClientBranch(Current)
  <2>1. Current \in Connected
    BY <1>5, CurrentIsConnected
  <2>2. CASE \/ FeedThrows(Current) \/ ReadFails(Current) \/ RequestFails(Current)
             \/ RequestThrows(Current) \/ WriteFails(Current) \/ Finish(Current)
    <3>1. \E unread : closeClient(Current, unread)
      BY <2>2, ClosingSteps
    <3> QED
      BY <2>1, <3>1, CloseAnswers
  <2> QED
    BY <1>5, <2>1, <2>2, ReadAnswers, HandleRequestAnswers, WriteAnswers, UpdateAnswers
    DEF ClientBranch
<1>6. CASE \E c \in Clients : Client(c)
  BY <1>6, ClientAnswers
<1>7. CASE UNCHANGED vars
  BY <1>7, AnswersElsewhere
     DEF vars, socketVars, clientVars, daemonVars, historyVars
<1> QED
  BY <1>1, <1>2, <1>3, <1>4, <1>5, <1>6, <1>7 DEF Next, Daemon

(***************************************************************************)
(* However writes are cut short, whenever clients read, shut down, close   *)
(* or are reset, and whatever the other connections do, what reaches a     *)
(* client is its answers in the order of its requests: none is lost,       *)
(* doubled, torn or overtaken.  For every limit of the socket buffer and   *)
(* of descriptors.                                                         *)
(***************************************************************************)
THEOREM AnswersArriveExactly ==
    Spec => []AnswersAreExact
<1>1. Init => AnswersInv
  BY AnswersInvInit
<1>2. DescriptorsInv /\ AnswersInv /\ [Next]_vars => AnswersInv'
  BY AnswersInvStep
<1>3. AnswersInv => AnswersAreExact
  BY DEF AnswersInv
<1> QED
  BY <1>1, <1>2, <1>3, DescriptorsInvariance, PTL DEF Spec

-----------------------------------------------------------------------------
\* Requests

(***************************************************************************)
(* The part of the inductive invariant of the requests that is about one   *)
(* client.  The loop that pops frames may leave complete ones in the       *)
(* decoder of its own client only; until a client is accepted, all that it *)
(* sent is in the socket.                                                  *)
(***************************************************************************)
FramesOf(c) ==
    LET con == connections[c] IN
    /\ c \in Connected =>
          EncodeAll(handled[c]) \o con.decoder \o to_daemon[c] = SubSeq(stream[c], 1, sent[c])
    /\ c \in Connected /\ (pc # "parse" \/ con.fd # event.fd) =>
          ~IsOversized(con.decoder) /\ ~hasFrame(con.decoder)
    /\ daemon_end[c] \in {"none", "backlog"} =>
          handled[c] = <<>> /\ to_daemon[c] = SubSeq(stream[c], 1, sent[c])
    /\ daemon_end[c] = "none" => client_end[c] = "new" /\ sent[c] = 0

FramesInv == \A c \in Clients : FramesOf(c)

LEMMA FramesInvMeans ==
    ASSUME FramesInv
    PROVE  FramesAreExact
BY DEF FramesInv, FramesOf, FramesAreExact, Connected

LEMMA NoBytes ==
    /\ ~IsOversized(<<>>) /\ ~hasFrame(<<>>)
    /\ \A s \in Seq(Byte) : (EncodeAll(<<>>) \o <<>>) \o s = s
    /\ \A s \in Seq(Byte) : SubSeq(s, 1, 0) = <<>>
<1>1. Len(<<>>) = 0 /\ <<>> \in Seq(Byte)
  BY EmptySeq
<1>2. ~HasHeader(<<>>)
  BY <1>1, ProtocolAssumption DEF HasHeader, kFrameHeaderSize
<1>3. <<>> \o <<>> = <<>> /\ \A s \in Seq(Byte) : <<>> \o s = s
  BY <1>1, ConcatEmptySeq
<1>4. \A s \in Seq(Byte) : (EncodeAll(<<>>) \o <<>>) \o s = s
  BY <1>3, EncodeAllEmpty
<1>5. \A s \in Seq(Byte) : SubSeq(s, 1, 0) = <<>>
  BY SubSeqEmpty
<1> QED
  BY <1>2, <1>4, <1>5 DEF IsOversized, hasFrame

LEMMA FramesInvInit ==
    ASSUME Init
    PROVE  FramesInv
<1> SUFFICES ASSUME NEW c \in Clients PROVE FramesOf(c)
  BY DEF FramesInv
<1>1. c \notin Connected
  BY NewConnection DEF Init, Connected, NoConnection
<1>2. /\ handled[c] = <<>> /\ to_daemon[c] = <<>> /\ sent[c] = 0 /\ client_end[c] = "new"
  BY DEF Init, SocketsInit, ClientsInit
<1>3. stream[c] \in Seq(Byte)
  BY DescriptorsInvInit DEF DescriptorsInv, ClientsInv
<1> QED
  BY <1>1, <1>2, <1>3, NoBytes DEF FramesOf

\* A client whose bytes and requests stay as they are.
LEMMA FramesKept ==
    ASSUME NEW c \in Clients, FramesOf(c),
           handled'[c] = handled[c], to_daemon'[c] = to_daemon[c],
           stream'[c] = stream[c], sent'[c] = sent[c],
           (c \in Connected)' =>
              /\ c \in Connected /\ connections'[c].decoder = connections[c].decoder
              /\ pc' # "parse" \/ connections'[c].fd # event'.fd =>
                    pc # "parse" \/ connections[c].fd # event.fd,
           daemon_end'[c] \in {"none", "backlog"} => daemon_end[c] \in {"none", "backlog"},
           daemon_end'[c] = "none" => daemon_end[c] = "none" /\ client_end'[c] = client_end[c]
    PROVE  FramesOf(c)'
BY DEF FramesOf

\* The same for a step in which nothing of it changes.
LEMMA FramesUntouched ==
    ASSUME NEW c \in Clients, FramesOf(c),
           handled'[c] = handled[c], to_daemon'[c] = to_daemon[c],
           stream'[c] = stream[c], sent'[c] = sent[c],
           connections'[c].decoder = connections[c].decoder,
           connections'[c].fd = connections[c].fd,
           client_end'[c] = client_end[c], daemon_end'[c] = daemon_end[c],
           pc # "parse" \/ connections[c].fd # event.fd \/ (pc' = "parse" /\ event' = event)
    PROVE  FramesOf(c)'
BY FramesKept DEF Connected

\* Steps that concern no byte of a client.
LEMMA FramesElsewhere ==
    ASSUME FramesInv,
           UNCHANGED <<handled, to_daemon, stream, sent, connections, client_end, daemon_end>>,
           pc # "parse" \/ (pc' = "parse" /\ event' = event)
    PROVE  FramesInv'
<1> SUFFICES ASSUME NEW c \in Clients PROVE FramesOf(c)'
  BY Zenon DEF FramesInv
<1> QED
  BY FramesUntouched DEF FramesInv

\* Steps about one client, or its handler: the loop that pops frames is not in
\* the way of the others.
LEMMA FramesOfOne ==
    ASSUME DescriptorsInv, FramesInv, NEW c \in Clients, FramesOf(c)',
           \A d \in Clients \ {c} :
              /\ handled'[d] = handled[d] /\ to_daemon'[d] = to_daemon[d]
              /\ stream'[d] = stream[d] /\ sent'[d] = sent[d]
              /\ connections'[d] = connections[d]
              /\ client_end'[d] = client_end[d] /\ daemon_end'[d] = daemon_end[d],
           \/ pc # "parse"
           \/ c \in Connected /\ connections[c].fd = event.fd
           \/ pc' = "parse" /\ event' = event
    PROVE  FramesInv'
<1> SUFFICES ASSUME NEW d \in Clients PROVE FramesOf(d)'
  BY Zenon DEF FramesInv
<1>1. CASE d = c
  BY <1>1
<1>2. CASE d # c /\ d \in Connected
  <2>1. c \in Connected /\ connections[c].fd = event.fd => connections[d].fd # event.fd
    <3>1. \A a, b \in Connected : connections[a].fd = connections[b].fd => a = b
      BY DEF DescriptorsInv, DescriptorsHaveOneOwner
    <3> QED
      BY <1>2, <3>1
  <2> QED
    BY <1>2, <2>1, FramesUntouched DEF FramesInv
<1>3. CASE d # c /\ d \notin Connected
  BY <1>3, FramesKept DEF FramesInv, Connected
<1> QED
  BY <1>1, <1>2, <1>3

LEMMA QuietFrames ==
    ASSUME FramesInv,
           \/ EpollWait \/ AcceptDone \/ \E fd \in Fds : PipeHangsUp(fd)
           \/ \E e \in batch : \/ TimerEvent(e) \/ PipeEvent(e) \/ OldEvent(e)
                               \/ ListenEvent(e) \/ ClientEvent(e)
    PROVE  FramesInv'
<1>1. UNCHANGED <<handled, to_daemon, stream, sent, connections, client_end, daemon_end>>
  BY DEF EpollWait, AcceptDone, PipeHangsUp, TimerEvent, PipeEvent, OldEvent, ListenEvent,
         ClientEvent, socketVars, clientVars, historyVars
<1>2. pc # "parse" \/ (pc' = "parse" /\ event' = event)
  BY DEF EpollWait, AcceptDone, PipeHangsUp, TimerEvent, PipeEvent, OldEvent, ListenEvent,
         ClientEvent, Dispatch
<1> QED
  BY <1>1, <1>2, FramesElsewhere

LEMMA Accept4Frames ==
    ASSUME DescriptorsInv, FramesInv, Accept4
    PROVE  FramesInv'
<1>1. PICK c \in Clients : c = Head(backlog) /\ daemon_end[c] = "backlog"
  BY AcceptedFd
<1>2. PICK fd \in FreeFds : connections' = [connections EXCEPT ![c] = Connection(fd)]
  BY <1>1, AcceptedFd
<1>3. /\ daemon_end' = [daemon_end EXCEPT ![c] = "open"] /\ pc = "accept"
      /\ UNCHANGED <<client_end, to_daemon, stream, sent, handled>>
  BY <1>1 DEF Accept4, clientVars
<1>4. handled[c] = <<>> /\ to_daemon[c] = SubSeq(stream[c], 1, sent[c])
  BY <1>1 DEF FramesInv, FramesOf
<1>5. connections'[c].decoder = <<>>
  <2>1. connections'[c] = Connection(fd) /\ fd \in Fds \cup {0}
    BY <1>1, <1>2 DEF DescriptorsInv, DaemonInv, FreeFds
  <2> QED
    BY <2>1, NewConnection
<1>6. FramesOf(c)'
  <2>1. daemon_end'[c] = "open" /\ to_daemon[c] \in Seq(Byte)
    BY <1>1, <1>3 DEF DescriptorsInv, SocketsInv
  <2> QED
    BY <1>3, <1>4, <1>5, <2>1, NoBytes DEF FramesOf
<1>7. \A d \in Clients \ {c} :
         connections'[d] = connections[d] /\ daemon_end'[d] = daemon_end[d]
  BY <1>2, <1>3 DEF DescriptorsInv, DaemonInv, SocketsInv
<1> QED
  BY <1>1, <1>3, <1>6, <1>7, FramesOfOne

LEMMA CloseFrames ==
    ASSUME DescriptorsInv, FramesInv, NEW c \in Connected, NEW unread, closeClient(c, unread),
           pc # "parse" \/ connections[c].fd = event.fd
    PROVE  FramesInv'
<1> USE DEF closeClient, DaemonCloses
<1>1. c \in Clients
  BY DEF Connected
<1>2. UNCHANGED <<client_end, stream, sent, handled>>
  BY DEF clientVars, historyVars
<1>3. connections'[c].fd = 0
  BY <1>1, NewConnection DEF NoConnection, DescriptorsInv, DaemonInv
<1>4. daemon_end'[c] \in {"closed", "reset"}
  BY <1>1 DEF ClosedWith, DescriptorsInv, SocketsInv
<1>5. FramesOf(c)'
  BY <1>3, <1>4 DEF FramesOf, Connected
<1>6. \A d \in Clients \ {c} :
         /\ connections'[d] = connections[d] /\ daemon_end'[d] = daemon_end[d]
         /\ to_daemon'[d] = to_daemon[d]
  BY DEF DescriptorsInv, DaemonInv, SocketsInv
<1> QED
  BY <1>1, <1>2, <1>5, <1>6, FramesOfOne

\* Who has not connected has sent nothing that is lost with the daemon.
LEMMA AcceptFailsFrames ==
    ASSUME DescriptorsInv, FramesInv, AcceptFails
    PROVE  FramesInv'
<1> SUFFICES ASSUME NEW c \in Clients PROVE FramesOf(c)'
  BY Zenon DEF FramesInv
<1>1. connections'[c].fd = 0
  BY NewConnection DEF AcceptFails, NoConnection
<1>2. daemon_end'[c] \in {"none", "backlog"} => daemon_end[c] = "none"
  BY DEF AcceptFails, DaemonDies, ClosedWith, DescriptorsInv, SocketsInv
<1>3. UNCHANGED <<client_end, stream, sent, handled>> /\ to_daemon'[c] = <<>>
  BY DEF AcceptFails, DaemonDies, clientVars, historyVars
<1>4. stream[c] \in Seq(Byte)
  BY DEF DescriptorsInv, ClientsInv
<1> QED
  BY <1>1, <1>2, <1>3, <1>4, NoBytes DEF FramesInv, FramesOf, Connected

LEMMA ReadFrames ==
    ASSUME DescriptorsInv, FramesInv, NEW c \in Connected, connections[c].fd = event.fd, Read(c)
    PROVE  FramesInv'
<1> DEFINE H == EncodeAll(handled[c])
           D == connections[c].decoder
           X == Chunk(to_daemon[c])
           Y == AfterChunk(to_daemon[c])
<1>1. /\ c \in Clients /\ to_daemon[c] \in Seq(Byte) /\ D \in Seq(Byte)
      /\ handled[c] \in Seq(Seq(Byte)) /\ <<>> \in Seq(Byte)
  BY EmptySeq DEF Connected, DescriptorsInv, SocketsInv, DaemonInv, ConnectionType
<1>2. X \in Seq(Byte) /\ Y \in Seq(Byte) /\ X \o Y = to_daemon[c] /\ H \in Seq(Byte)
  BY <1>1, ChunkType, EncodeAllAppend
<1>3. feed(D, X).value = D \o X
  BY DEF Read, feed, Accept, Reject
<1>4. /\ connections' = [connections EXCEPT ![c].decoder = D \o X]
      /\ pc' = AfterBytes(D \o X) /\ pc = "read" /\ event' = event
      /\ to_daemon' = [to_daemon EXCEPT ![c] = Y]
      /\ UNCHANGED <<client_end, daemon_end, stream, sent, handled>>
  BY <1>3 DEF Read, clientVars, historyVars
<1>5. D \o X \in Seq(Byte)
  BY <1>1, <1>2, ConcatProperties
<1>6. /\ connections'[c].decoder = D \o X /\ connections'[c].fd = connections[c].fd
      /\ \A d \in Clients \ {c} : connections'[d] = connections[d]
  BY <1>1, <1>4, <1>5, DecoderChange DEF DescriptorsInv
<1>7. to_daemon'[c] = Y /\ \A d \in Clients \ {c} : to_daemon'[d] = to_daemon[d]
  BY <1>1, <1>4 DEF DescriptorsInv, SocketsInv
<1>8. (H \o (D \o X)) \o Y = SubSeq(stream[c], 1, sent[c])
  <2>1. (H \o D) \o to_daemon[c] = SubSeq(stream[c], 1, sent[c])
    BY <1>1 DEF FramesInv, FramesOf
  <2>2. H \in Seq(Byte) /\ D \in Seq(Byte) /\ X \in Seq(Byte) /\ Y \in Seq(Byte)
    BY <1>1, <1>2
  <2> HIDE DEF H, D, X, Y
  <2>3. (H \o (D \o X)) \o Y = (H \o D) \o (X \o Y)
    <3> DEFINE Z == H \o D
    <3>1. H \in Seq(Byte) /\ D \in Seq(Byte) /\ X \in Seq(Byte)
      BY <2>2
    <3>2. H \o (D \o X) = (H \o D) \o X
      BY ONLY <3>1, Regroup
    <3>3. Z \in Seq(Byte) /\ X \in Seq(Byte) /\ Y \in Seq(Byte)
      BY <2>2, ConcatProperties
    <3> HIDE DEF Z
    <3>4. Z \o (X \o Y) = (Z \o X) \o Y
      BY ONLY <3>3, Regroup
    <3> QED
      BY <3>2, <3>4, Zenon DEF Z
  <2> QED
    BY <1>2, <2>1, <2>3, Zenon
<1>9. pc' # "parse" => ~IsOversized(D \o X) /\ ~hasFrame(D \o X)
  BY <1>4 DEF AfterBytes
<1>10. daemon_end'[c] = "open"
  BY <1>1, <1>4 DEF DescriptorsInv, DescriptorsHaveOneOwner
<1>11. FramesOf(c)'
  <2> HIDE DEF D, X, Y
  <2> QED
    BY <1>4, <1>6, <1>7, <1>8, <1>9, <1>10 DEF FramesOf
<1> QED
  BY <1>1, <1>4, <1>6, <1>7, <1>11, FramesOfOne

LEMMA HandleRequestFrames ==
    ASSUME DescriptorsInv, FramesInv, NEW c \in Connected, connections[c].fd = event.fd,
           HandleRequest(c)
    PROVE  FramesInv'
<1> DEFINE H == EncodeAll(handled[c])
           D == connections[c].decoder
           request == FirstFrame(D)
           F == encodeFrame(request)
           P == popFrame(D)
<1>1. /\ c \in Clients /\ to_daemon[c] \in Seq(Byte) /\ D \in Seq(Byte)
      /\ handled[c] \in Seq(Seq(Byte)) /\ <<>> \in Seq(Byte)
  BY EmptySeq DEF Connected, DescriptorsInv, SocketsInv, DaemonInv, ConnectionType
<1>2. /\ pc = "parse" /\ hasFrame(D) /\ pc' = AfterBytes(P) /\ event' = event
      /\ handled' = [handled EXCEPT ![c] = Append(@, request)]
      /\ UNCHANGED <<client_end, daemon_end, to_daemon, stream, sent>>
  BY DEF HandleRequest, socketVars, clientVars
<1>3. request \in Seq(Byte) /\ P \in Seq(Byte) /\ F \o P = D
  BY <1>1, <1>2, FrameAtHead
<1>4. H \in Seq(Byte) /\ F \in Seq(Byte) /\ EncodeAll(Append(handled[c], request)) = H \o F
  BY <1>1, <1>3, EncodeFrameType, EncodeAllAppend
<1>5. handled'[c] = Append(handled[c], request)
      /\ \A d \in Clients \ {c} : handled'[d] = handled[d]
  BY <1>1, <1>2 DEF DescriptorsInv, DaemonInv
<1>6. /\ connections'[c].decoder = P /\ connections'[c].fd = connections[c].fd
      /\ \A d \in Clients \ {c} : connections'[d] = connections[d]
  BY HandleRequestEffect
<1>7. ((H \o F) \o P) \o to_daemon[c] = SubSeq(stream[c], 1, sent[c])
  <2>1. (H \o D) \o to_daemon[c] = SubSeq(stream[c], 1, sent[c])
    BY <1>1 DEF FramesInv, FramesOf
  <2>2. H \in Seq(Byte) /\ F \in Seq(Byte) /\ P \in Seq(Byte)
    BY <1>3, <1>4
  <2> HIDE DEF H, F, P, D
  <2>3. H \o (F \o P) = (H \o F) \o P
    BY ONLY <2>2, Regroup
  <2> QED
    BY <1>3, <2>1, <2>3, Zenon
<1>8. pc' # "parse" => ~IsOversized(P) /\ ~hasFrame(P)
  BY <1>2 DEF AfterBytes
<1>9. daemon_end'[c] = "open"
  BY <1>1, <1>2 DEF DescriptorsInv, DescriptorsHaveOneOwner
<1>10. FramesOf(c)'
  <2>1. EncodeAll(handled'[c]) = H \o F
    BY <1>4, <1>5
  <2> HIDE DEF H, F, P
  <2> QED
    BY <1>2, <1>6, <1>7, <1>8, <1>9, <2>1 DEF FramesOf
<1> QED
  BY <1>1, <1>2, <1>5, <1>6, <1>10, FramesOfOne

\* Nothing else that a handler does concerns the bytes of its client.
LEMMA OtherHandlersFrames ==
    ASSUME DescriptorsInv, FramesInv, NEW c \in Connected, connections[c].fd = event.fd,
           ReadDone(c) \/ Write(c) \/ updateClientEvents(c)
    PROVE  FramesInv'
<1>1. /\ c \in Clients /\ pc # "parse"
      /\ UNCHANGED <<client_end, daemon_end, to_daemon, stream, sent, handled>>
  BY DEF Connected, ReadDone, Write, updateClientEvents, WriteIsDone, socketVars, clientVars,
         historyVars
<1>2. /\ connections'[c].decoder = connections[c].decoder
      /\ connections'[c].fd = connections[c].fd
      /\ \A d \in Clients \ {c} : connections'[d] = connections[d]
  <2>1. CASE ReadDone(c)
    BY <1>1, <2>1 DEF ReadDone, DescriptorsInv, DaemonInv, ConnectionType
  <2>2. CASE Write(c)
    BY <2>2, WriteEffect
  <2>3. CASE updateClientEvents(c)
    BY <2>3, UpdateEffect
  <2> QED
    BY <2>1, <2>2, <2>3
<1>3. FramesOf(c)'
  BY <1>1, <1>2, FramesUntouched DEF FramesInv
<1> QED
  BY <1>1, <1>2, <1>3, FramesOfOne

\* A client that has connected is known to the daemon or waits for it.
LEMMA ClientIsThere ==
    ASSUME NEW c \in Clients, Client(c)
    PROVE  Connects(c) \/ client_end[c] \in {"open", "half"}
BY DEF Client, RunnerctlStep, SendsTo, RunnerctlCannotSend, RunnerctlReads,
       RunnerctlSeesTheEnd, OtherStep, OtherReads, OtherShutsDown, OtherCloses

\* One more piece of the stream.
LEMMA NextPiece ==
    ASSUME NEW s \in Seq(Byte), NEW i \in Nat, NEW j \in Nat, i < j, j <= Len(s)
    PROVE  /\ SubSeq(s, i + 1, j) \in Seq(Byte)
           /\ SubSeq(s, 1, i) \o SubSeq(s, i + 1, j) = SubSeq(s, 1, j)
<1>1. \A k \in i + 1 .. j : s[k] \in Byte
  OBVIOUS
<1>2. SubSeq(s, i + 1, j) \in Seq(Byte)
  BY <1>1, SubSeqProperties
<1>3. 1 \in 1 .. Len(s) + 1 /\ i \in 1 - 1 .. Len(s) /\ j \in i .. Len(s)
  OBVIOUS
<1>4. SubSeq(s, 1, i) \o SubSeq(s, i + 1, j) = SubSeq(s, 1, j)
  BY <1>3, ConcatAdjacentSubSeq
<1> QED
  BY <1>2, <1>4

LEMMA SendsFrames ==
    ASSUME DescriptorsInv, FramesInv, NEW c \in Clients, NEW end \in Nat,
           end <= Len(stream[c]), SendsTo(c, end), UNCHANGED daemonVars
    PROVE  FramesInv'
<1> DEFINE H == EncodeAll(handled[c])
           D == connections[c].decoder
           T == to_daemon[c]
           S == SubSeq(stream[c], sent[c] + 1, end)
           G == H \o D
<1>1. /\ stream[c] \in Seq(Byte) /\ sent[c] \in Nat /\ sent[c] < end
      /\ T \in Seq(Byte) /\ D \in Seq(Byte) /\ handled[c] \in Seq(Seq(Byte))
      /\ <<>> \in Seq(Byte) /\ client_end[c] = "open"
  BY EmptySeq DEF DescriptorsInv, ClientsInv, SocketsInv, DaemonInv, ConnectionType, SendsTo
<1>2. S \in Seq(Byte) /\ SubSeq(stream[c], 1, sent[c]) \o S = SubSeq(stream[c], 1, end)
  BY <1>1, NextPiece
<1>3. H \in Seq(Byte) /\ G \in Seq(Byte)
  BY <1>1, EncodeAllAppend, ConcatProperties
<1>4. /\ to_daemon'[c] = T \o S /\ sent'[c] = end
      /\ \A d \in Clients \ {c} : to_daemon'[d] = to_daemon[d] /\ sent'[d] = sent[d]
      /\ UNCHANGED <<client_end, daemon_end, stream, connections, handled, pc, event>>
  BY DEF SendsTo, DescriptorsInv, ClientsInv, SocketsInv, daemonVars, historyVars
<1>5. FramesOf(c)
  BY DEF FramesInv
<1>6. c \in Connected => G \o (T \o S) = SubSeq(stream[c], 1, end)
  <2>1. c \in Connected => G \o T = SubSeq(stream[c], 1, sent[c])
    BY <1>5 DEF FramesOf
  <2>2. G \in Seq(Byte) /\ T \in Seq(Byte) /\ S \in Seq(Byte)
    BY <1>1, <1>2, <1>3
  <2> HIDE DEF G, T, S
  <2>3. G \o (T \o S) = (G \o T) \o S
    BY ONLY <2>2, Regroup
  <2> QED
    BY <1>2, <2>1, <2>3, Zenon
<1>7. daemon_end[c] # "none"
  BY <1>1, <1>5 DEF FramesOf
<1>8. daemon_end[c] \in {"none", "backlog"} =>
         handled[c] = <<>> /\ T \o S = SubSeq(stream[c], 1, end)
  BY <1>2, <1>5 DEF FramesOf
<1>9. FramesOf(c)'
  <2>1. (c \in Connected)' = (c \in Connected)
    BY <1>4 DEF Connected
  <2>2. (c \in Connected)' =>
           EncodeAll(handled'[c]) \o connections'[c].decoder \o to_daemon'[c]
             = SubSeq(stream'[c], 1, sent'[c])
    BY <1>4, <1>6, <2>1
  <2> HIDE DEF T, S
  <2> QED
    BY <1>4, <1>5, <1>7, <1>8, <2>1, <2>2 DEF FramesOf
<1> QED
  BY <1>4, <1>9, FramesOfOne

LEMMA ClientFrames ==
    ASSUME DescriptorsInv, FramesInv, NEW c \in Clients, Client(c)
    PROVE  FramesInv'
<1>1. UNCHANGED daemonVars /\ FramesOf(c)
  BY ClientEffect DEF FramesInv
<1>2. UNCHANGED <<pc, event, connections, handled>>
  BY <1>1 DEF daemonVars, historyVars
<1>3. CASE Connects(c)
  <2>1. client_end[c] = "new" /\ connect(c) /\ stream' = stream /\ sent' = sent
    BY <1>3 DEF Connects, clientVars
  <2>2. c \notin Connected /\ daemon_end[c] = "none"
    BY <2>1 DEF DescriptorsInv, BacklogInv, DescriptorsHaveOneOwner
  <2>3. daemon_end'[c] = "backlog"
    BY <2>1 DEF connect, DescriptorsInv, SocketsInv
  <2>4. FramesOf(c)'
    BY <1>1, <1>2, <2>1, <2>2, <2>3, FramesKept DEF connect, Connected
  <2> QED
    BY <1>2, <2>1, <2>4, FramesOfOne DEF connect, DescriptorsInv, SocketsInv
<1>4. CASE \E end \in Nat : end <= Len(stream[c]) /\ SendsTo(c, end)
  BY <1>1, <1>4, SendsFrames
<1>5. CASE /\ client_end[c] \in {"open", "half"}
           /\ \/ \E outcome, read, unread : RunnerctlEnds(c, outcome, read, unread)
              \/ Takes(c) \/ OtherCloses(c) \/ OtherShutsDown(c)
  <2>1. /\ UNCHANGED <<daemon_end, to_daemon, stream, sent>>
        /\ \A d \in Clients \ {c} : client_end'[d] = client_end[d]
    BY <1>5 DEF RunnerctlEnds, Takes, OtherCloses, OtherShutsDown, ClientCloses, clientVars,
                DescriptorsInv, SocketsInv
  <2>2. daemon_end[c] # "none"
    BY <1>1, <1>5 DEF FramesOf
  <2>3. FramesOf(c)'
    BY <1>1, <1>2, <2>1, <2>2, FramesKept DEF Connected
  <2> QED
    BY <1>2, <2>1, <2>3, FramesOfOne
<1> QED
  BY <1>3, <1>4, <1>5, ClientEffect, ClientIsThere

LEMMA FramesInvStep ==
    ASSUME DescriptorsInv, FramesInv, [Next]_vars
    PROVE  FramesInv'
<1>1. CASE \/ EpollWait \/ AcceptDone \/ \E fd \in Fds : PipeHangsUp(fd)
           \/ \E e \in batch : \/ TimerEvent(e) \/ PipeEvent(e) \/ OldEvent(e)
                               \/ ListenEvent(e) \/ ClientEvent(e)
  BY <1>1, QuietFrames
<1>2. CASE \E e \in batch : ClientError(e)
  <2>1. PICK c \in Connected : closeClient(c, to_daemon[c]) /\ pc = "loop"
    BY <1>2 DEF ClientError, ClientsAt, Dispatch
  <2> QED
    BY <2>1, CloseFrames
<1>3. CASE Accept4
  BY <1>3, Accept4Frames
<1>4. CASE AcceptFails
  BY <1>4, AcceptFailsFrames
<1>5. CASE pc \in {"read", "parse", "write"} /\ ClientBranch(Current)
  <2>1. PICK c \in Connected : c = Current /\ connections[c].fd = event.fd
    BY <1>5, CurrentIsConnected
  <2>2. CASE \/ FeedThrows(c) \/ ReadFails(c) \/ RequestFails(c)
             \/ RequestThrows(c) \/ WriteFails(c) \/ Finish(c)
    <3>1. \E unread : closeClient(c, unread)
      BY <2>2, ClosingSteps
    <3> QED
      BY <2>1, <3>1, CloseFrames
  <2> QED
    BY <1>5, <2>1, <2>2, ReadFrames, HandleRequestFrames, OtherHandlersFrames DEF ClientBranch
<1>6. CASE \E c \in Clients : Client(c)
  BY <1>6, ClientFrames
<1>7. CASE UNCHANGED vars
  BY <1>7, FramesElsewhere DEF vars, socketVars, clientVars, daemonVars, historyVars
<1> QED
  BY <1>1, <1>2, <1>3, <1>4, <1>5, <1>6, <1>7 DEF Next, Daemon

(***************************************************************************)
(* Whatever a client sends, in whichever pieces, and whichever number of   *)
(* bytes a read takes, the daemon takes the stream apart exactly, and      *)
(* outside of the loop that pops frames no complete frame is left lying.   *)
(* Rests on the codec: the length field that encodeFrame writes for the    *)
(* frame at the head of a buffer is the one that was read there.           *)
(***************************************************************************)
THEOREM RequestsAreTakenApartExactly ==
    Spec => []FramesAreExact
<1>1. Init => FramesInv
  BY FramesInvInit
<1>2. DescriptorsInv /\ FramesInv /\ [Next]_vars => FramesInv'
  BY FramesInvStep
<1>3. FramesInv => FramesAreExact
  BY FramesInvMeans
<1> QED
  BY <1>1, <1>2, <1>3, DescriptorsInvariance, PTL DEF Spec

-----------------------------------------------------------------------------
\* Closing

HangsUp(e) == "EPOLLHUP" \in e.mask \/ "EPOLLERR" \in e.mask

(***************************************************************************)
(* The inductive invariant of the reasons for closing: an event that says  *)
(* that a connection has hung up is true, whoever had the number when      *)
(* epoll_wait reported it, unless the connection is younger than the       *)
(* event; and the end of a stream that was seen stays its end.             *)
(***************************************************************************)
ClosingInv ==
    /\ pc \notin {"read", "parse", "write"} => event = NoEvent
    /\ \A c \in Connected : \A e \in batch \cup {event} :
          e.fd = connections[c].fd /\ HangsUp(e) => Gone(client_end[c]) \/ c \in fresh
    /\ \A c \in Connected : connections[c].read_closed =>
          client_end[c] \notin {"new", "open"} /\ to_daemon[c] = <<>>

LEMMA ClosingInvInit ==
    ASSUME Init
    PROVE  ClosingInv
<1>1. \A c \in Clients : connections[c].fd = 0
  BY NewConnection DEF Init, NoConnection
<1> QED
  BY <1>1 DEF Init, ClosingInv, Connected

\* Steps that bring no new events.
LEMMA ClosingKept ==
    ASSUME ClosingInv, batch' \subseteq batch, event' \in batch \cup {event, NoEvent},
           pc' \notin {"read", "parse", "write"} => event' = NoEvent,
           \A c \in Clients : connections'[c].fd # 0 =>
              /\ \/ c \in fresh'
                 \/ /\ connections'[c].fd = connections[c].fd
                    /\ Gone(client_end[c]) => Gone(client_end'[c])
                    /\ c \in fresh => c \in fresh'
              /\ connections'[c].read_closed =>
                    client_end'[c] \notin {"new", "open"} /\ to_daemon'[c] = <<>>
    PROVE  ClosingInv'
<1>1. ~HangsUp(NoEvent)
  BY DEF HangsUp, NoEvent
<1>2. ASSUME NEW c \in Clients, connections'[c].fd # 0, NEW e \in batch' \cup {event'},
             e.fd = connections'[c].fd, HangsUp(e)
      PROVE  Gone(client_end'[c]) \/ c \in fresh'
  <2>1. e \in batch \cup {event}
    BY <1>1, <1>2
  <2>2. CASE /\ connections'[c].fd = connections[c].fd
             /\ Gone(client_end[c]) => Gone(client_end'[c])
             /\ c \in fresh => c \in fresh'
    <3>1. c \in Connected
      BY <1>2, <2>2 DEF Connected
    <3>2. Gone(client_end[c]) \/ c \in fresh
      BY <1>2, <2>1, <2>2, <3>1 DEF ClosingInv
    <3> QED
      BY <2>2, <3>2
  <2> QED
    BY <1>2, <2>2
<1>3. \A c \in Clients : connections'[c].fd # 0 =>
         \A e \in batch' \cup {event'} :
            e.fd = connections'[c].fd /\ HangsUp(e) => Gone(client_end'[c]) \/ c \in fresh'
  BY <1>2
<1> QED
  BY <1>3 DEF ClosingInv, Connected

\* epoll_wait reports what is so, and of the present owners of the numbers.
LEMMA EpollWaitClosing ==
    ASSUME DescriptorsInv, ClosingInv, EpollWait
    PROVE  ClosingInv'
<1>1. /\ pc' = "loop" /\ event' = NoEvent
      /\ UNCHANGED <<connections, client_end, to_daemon>>
  BY DEF EpollWait, ClosingInv, socketVars
<1>2. ASSUME NEW c \in Connected, NEW e \in batch', e.fd = connections[c].fd, HangsUp(e)
      PROVE  Gone(client_end[c])
  <2>1. PICK masks \in [hung_up -> PipeMasks], timer \in {{}, {"EPOLLIN"}} :
            batch' = UNION (
              {Events(listen_fd, {IF backlog = <<>> THEN {} ELSE {"EPOLLIN"}}),
               Events(timer_fd, {timer})}
              \cup {Events(fd, {masks[fd]}) : fd \in hung_up}
              \cup {Events(connections[d].fd, {ClientMask(d)}) : d \in Connected})
    BY DEF EpollWait
  <2>2. \/ e \in Events(listen_fd, {IF backlog = <<>> THEN {} ELSE {"EPOLLIN"}})
        \/ e \in Events(timer_fd, {timer})
        \/ \E fd \in hung_up : e \in Events(fd, {masks[fd]})
        \/ \E d \in Connected : e \in Events(connections[d].fd, {ClientMask(d)})
    BY <2>1, Zenon
  <2>3. ASSUME NEW fd, NEW m, e \in Events(fd, {m})
        PROVE  e.fd = fd /\ e.mask = m
    <3>1. e = [fd |-> fd, mask |-> m]
      BY <2>3, Zenon DEF Events
    <3> QED
      BY <3>1
  <2>4. connections[c].fd \in Fds /\ connections[c].fd \notin pipes
        /\ Fds \cap {listen_fd, timer_fd} = {}
    BY DEF DescriptorsInv, DaemonInv, ConnectionType, Connected, DescriptorsHaveOneOwner, Fds,
           listen_fd, timer_fd
  <2>5. PICK d \in Connected : e \in Events(connections[d].fd, {ClientMask(d)})
    <3>1. e.fd # listen_fd /\ e.fd # timer_fd /\ e.fd \notin hung_up
      BY <1>2, <2>4 DEF DescriptorsInv, DaemonInv
    <3> QED
      BY <2>2, <2>3, <3>1
  <2>6. e.fd = connections[d].fd /\ e.mask = ClientMask(d)
    BY <2>3, <2>5
  <2>7. c = d
    BY <1>2, <2>6 DEF DescriptorsInv, DescriptorsHaveOneOwner
  <2>8. "EPOLLHUP" \in ClientMask(c) \/ "EPOLLERR" \in ClientMask(c)
    BY <1>2, <2>6, <2>7 DEF HangsUp
  <2> QED
    BY <2>8 DEF ClientMask, Gone, DescriptorsInv, DaemonInv, ConnectionType, Connected
<1>3. ~HangsUp(NoEvent)
  BY DEF HangsUp, NoEvent
<1>4. \A c \in Connected : \A e \in batch' \cup {event'} :
          e.fd = connections[c].fd /\ HangsUp(e) => Gone(client_end[c])
  BY <1>1, <1>2, <1>3
<1> QED
  BY <1>1, <1>4 DEF ClosingInv, Connected

LEMMA EventsClosing ==
    ASSUME ClosingInv,
           \/ AcceptDone \/ \E fd \in Fds : PipeHangsUp(fd)
           \/ \E e \in batch : \/ TimerEvent(e) \/ PipeEvent(e) \/ OldEvent(e)
                               \/ ListenEvent(e) \/ ClientEvent(e)
    PROVE  ClosingInv'
<1>1. UNCHANGED <<connections, client_end, to_daemon, fresh>>
  BY DEF AcceptDone, PipeHangsUp, TimerEvent, PipeEvent, OldEvent, ListenEvent, ClientEvent,
         socketVars, historyVars
<1>2. /\ batch' \subseteq batch /\ event' \in batch \cup {event, NoEvent}
      /\ pc' \notin {"read", "parse", "write"} => event' = NoEvent
  BY DEF AcceptDone, PipeHangsUp, TimerEvent, PipeEvent, OldEvent, ListenEvent, ClientEvent,
         Dispatch, ClosingInv
<1>3. \A c \in Clients : connections[c].fd # 0 /\ connections[c].read_closed =>
         client_end[c] \notin {"new", "open"} /\ to_daemon[c] = <<>>
  BY DEF ClosingInv, Connected
<1> QED
  BY <1>1, <1>2, <1>3, ClosingKept

LEMMA Accept4Closing ==
    ASSUME DescriptorsInv, ClosingInv, Accept4
    PROVE  ClosingInv'
<1>1. PICK c \in Clients : c = Head(backlog) /\ daemon_end[c] = "backlog"
  BY AcceptedFd
<1>2. PICK fd \in FreeFds : connections' = [connections EXCEPT ![c] = Connection(fd)]
  BY <1>1, AcceptedFd
<1>3. /\ fresh' = fresh \cup {c} /\ pc' = "accept" /\ pc = "accept"
      /\ UNCHANGED <<client_end, to_daemon, batch, event>>
  BY <1>1 DEF Accept4
<1>4. connections'[c].read_closed = FALSE
  <2>1. connections'[c] = Connection(fd) /\ fd \in Fds \cup {0}
    BY <1>1, <1>2 DEF DescriptorsInv, DaemonInv, FreeFds
  <2> QED
    BY <2>1, NewConnection
<1>5. \A d \in Clients \ {c} : connections'[d] = connections[d]
  BY <1>2 DEF DescriptorsInv, DaemonInv
<1>6. event' = NoEvent
  BY <1>3 DEF ClosingInv
<1>7. \A d \in Clients : connections[d].fd # 0 /\ connections[d].read_closed =>
         client_end[d] \notin {"new", "open"} /\ to_daemon[d] = <<>>
  BY DEF ClosingInv, Connected
<1> QED
  BY <1>3, <1>4, <1>5, <1>6, <1>7, ClosingKept

LEMMA CloseClosing ==
    ASSUME DescriptorsInv, ClosingInv, NEW c \in Connected, NEW unread, closeClient(c, unread),
           batch' \subseteq batch
    PROVE  ClosingInv'
<1> USE DEF closeClient, DaemonCloses
<1>1. c \in Clients /\ UNCHANGED <<client_end, fresh>> /\ event' = NoEvent /\ pc' = "loop"
  BY DEF Connected, historyVars
<1>2. connections'[c].fd = 0
  BY <1>1, NewConnection DEF NoConnection, DescriptorsInv, DaemonInv
<1>3. \A d \in Clients \ {c} :
         connections'[d] = connections[d] /\ to_daemon'[d] = to_daemon[d]
  BY DEF DescriptorsInv, DaemonInv, SocketsInv
<1>4. \A d \in Clients : connections[d].fd # 0 /\ connections[d].read_closed =>
         client_end[d] \notin {"new", "open"} /\ to_daemon[d] = <<>>
  BY DEF ClosingInv, Connected
<1> HIDE DEF closeClient, DaemonCloses
<1> QED
  BY <1>1, <1>2, <1>3, <1>4, ClosingKept

LEMMA AcceptFailsClosing ==
    ASSUME ClosingInv, AcceptFails
    PROVE  ClosingInv'
<1>1. \A c \in Clients : connections'[c].fd = 0
  BY NewConnection DEF AcceptFails, NoConnection
<1>2. event' = NoEvent
  BY DEF AcceptFails, ClosingInv
<1> QED
  BY <1>1, <1>2 DEF ClosingInv, Connected

\* The handlers that keep the connection.
LEMMA HandlersClosing ==
    ASSUME DescriptorsInv, ClosingInv, NEW c \in Connected,
           Read(c) \/ ReadDone(c) \/ HandleRequest(c) \/ Write(c) \/ updateClientEvents(c)
    PROVE  ClosingInv'
<1>1. c \in Clients /\ UNCHANGED <<client_end, fresh, batch>>
  BY DEF Connected, Read, ReadDone, HandleRequest, Write, updateClientEvents, socketVars,
         historyVars
<1>2. /\ event' \in {event, NoEvent}
      /\ pc' \notin {"read", "parse", "write"} => event' = NoEvent
  BY DEF Read, ReadDone, HandleRequest, Write, updateClientEvents, AfterBytes
<1>3. /\ \A d \in Clients \ {c} :
            connections'[d] = connections[d] /\ to_daemon'[d] = to_daemon[d]
      /\ connections'[c].fd = connections[c].fd
  <2>1. CASE Read(c)
    <3>1. /\ to_daemon[c] \in Seq(Byte) /\ connections[c].decoder \in Seq(Byte)
      BY <1>1 DEF DescriptorsInv, SocketsInv, DaemonInv, ConnectionType
    <3>2. connections[c].decoder \o Chunk(to_daemon[c]) \in Seq(Byte)
      BY <3>1, ChunkType, ConcatProperties
    <3>3. connections' = [connections EXCEPT ![c].decoder =
                              connections[c].decoder \o Chunk(to_daemon[c])]
      BY <2>1 DEF Read, feed, Accept, Reject
    <3>4. \A d \in Clients \ {c} : to_daemon'[d] = to_daemon[d]
      BY <2>1 DEF Read, DescriptorsInv, SocketsInv
    <3> QED
      BY <1>1, <3>2, <3>3, <3>4, DecoderChange DEF DescriptorsInv
  <2>2. CASE ReadDone(c)
    BY <1>1, <2>2 DEF ReadDone, DescriptorsInv, DaemonInv, ConnectionType, socketVars
  <2>3. CASE HandleRequest(c)
    <3>1. to_daemon' = to_daemon
      BY <2>3 DEF HandleRequest, socketVars
    <3> QED
      BY <2>3, <3>1, HandleRequestEffect
  <2>4. CASE Write(c)
    <3>1. to_daemon' = to_daemon
      BY <2>4 DEF Write
    <3> QED
      BY <2>4, <3>1, WriteEffect
  <2>5. CASE updateClientEvents(c)
    <3>1. to_daemon' = to_daemon
      BY <2>5 DEF updateClientEvents, socketVars
    <3> QED
      BY <2>5, <3>1, UpdateEffect
  <2> QED
    BY <2>1, <2>2, <2>3, <2>4, <2>5
<1>4. connections'[c].read_closed => client_end[c] \notin {"new", "open"} /\ to_daemon'[c] = <<>>
  <2>1. connections[c].read_closed => client_end[c] \notin {"new", "open"} /\ to_daemon[c] = <<>>
    BY DEF ClosingInv
  <2>2. CASE Read(c)
    <3>1. /\ to_daemon[c] \in Seq(Byte) /\ connections[c].decoder \in Seq(Byte)
      BY <1>1 DEF DescriptorsInv, SocketsInv, DaemonInv, ConnectionType
    <3>2. connections[c].decoder \o Chunk(to_daemon[c]) \in Seq(Byte)
      BY <3>1, ChunkType, ConcatProperties
    <3>3. /\ connections' = [connections EXCEPT ![c].decoder =
                              connections[c].decoder \o Chunk(to_daemon[c])]
          /\ to_daemon[c] # <<>>
      BY <2>2 DEF Read, feed, Accept, Reject
    <3> QED
      BY <1>1, <2>1, <3>2, <3>3, DecoderChange DEF DescriptorsInv
  <2>3. CASE ReadDone(c)
    <3>1. daemon_end[c] = "open" /\ client_end[c] # "new"
      BY <1>1 DEF DescriptorsInv, DescriptorsHaveOneOwner, BacklogInv
    <3>2. connections'[c].read_closed = (client_end[c] # "open") /\ to_daemon'[c] = <<>>
      BY <1>1, <2>3 DEF ReadDone, DescriptorsInv, DaemonInv, ConnectionType, socketVars
    <3> QED
      BY <3>1, <3>2
  <2>4. CASE HandleRequest(c)
    BY <2>1, <2>4, HandleRequestEffect DEF HandleRequest, socketVars
  <2>5. CASE Write(c)
    BY <2>1, <2>5, WriteEffect DEF Write
  <2>6. CASE updateClientEvents(c)
    BY <2>1, <2>6, UpdateEffect DEF updateClientEvents, socketVars
  <2> QED
    BY <2>2, <2>3, <2>4, <2>5, <2>6
<1>5. \A d \in Clients : connections[d].fd # 0 /\ connections[d].read_closed =>
         client_end[d] \notin {"new", "open"} /\ to_daemon[d] = <<>>
  BY DEF ClosingInv, Connected
<1> QED
  BY <1>1, <1>2, <1>3, <1>4, <1>5, ClosingKept

LEMMA ClientClosing ==
    ASSUME DescriptorsInv, ClosingInv, NEW c \in Clients, Client(c)
    PROVE  ClosingInv'
<1>1. UNCHANGED <<pc, batch, event, connections, fresh>>
  BY ClientEffect DEF daemonVars, historyVars
<1>2. /\ \A d \in Clients \ {c} : client_end'[d] = client_end[d] /\ to_daemon'[d] = to_daemon[d]
      /\ Gone(client_end[c]) => Gone(client_end'[c])
      /\ c \in Connected /\ client_end[c] \notin {"new", "open"} =>
            client_end'[c] \notin {"new", "open"} /\ to_daemon'[c] = to_daemon[c]
  <2>1. CASE Connects(c)
    BY <2>1 DEF Connects, connect, Gone, DescriptorsInv, SocketsInv
  <2>2. CASE \E end \in Nat : end <= Len(stream[c]) /\ SendsTo(c, end)
    BY <2>2 DEF SendsTo, DescriptorsInv, SocketsInv
  <2>3. CASE \/ \E outcome, read, unread : RunnerctlEnds(c, outcome, read, unread)
             \/ OtherCloses(c)
    <3>1. PICK unread : ClientCloses(c, unread)
      BY <2>3 DEF RunnerctlEnds, OtherCloses
    <3>2. ClosedWith(unread) \in {"closed", "reset"}
      BY DEF ClosedWith
    <3> QED
      BY <3>1, <3>2 DEF ClientCloses, Gone, DescriptorsInv, SocketsInv
  <2>4. CASE Takes(c)
    BY <2>4 DEF Takes
  <2>5. CASE OtherShutsDown(c)
    BY <2>5 DEF OtherShutsDown, Gone, DescriptorsInv, SocketsInv
  <2> QED
    BY <2>1, <2>2, <2>3, <2>4, <2>5, ClientEffect
<1>3. \A d \in Clients : connections[d].fd # 0 /\ connections[d].read_closed =>
         client_end[d] \notin {"new", "open"} /\ to_daemon[d] = <<>>
  BY DEF ClosingInv, Connected
<1>4. \A d \in Clients : connections'[d].fd # 0 =>
         /\ Gone(client_end[d]) => Gone(client_end'[d])
         /\ connections'[d].read_closed =>
               client_end'[d] \notin {"new", "open"} /\ to_daemon'[d] = <<>>
  BY <1>1, <1>2, <1>3 DEF Connected
<1>5. pc' \notin {"read", "parse", "write"} => event' = NoEvent
  BY <1>1 DEF ClosingInv
<1> QED
  BY <1>1, <1>4, <1>5, ClosingKept

LEMMA ClosingInvStep ==
    ASSUME DescriptorsInv, ClosingInv, [Next]_vars
    PROVE  ClosingInv'
<1>1. CASE EpollWait
  BY <1>1, EpollWaitClosing
<1>2. CASE \/ AcceptDone \/ \E fd \in Fds : PipeHangsUp(fd)
           \/ \E e \in batch : \/ TimerEvent(e) \/ PipeEvent(e) \/ OldEvent(e)
                               \/ ListenEvent(e) \/ ClientEvent(e)
  BY <1>2, EventsClosing
<1>3. CASE \E e \in batch : ClientError(e)
  <2>1. PICK c \in Connected : closeClient(c, to_daemon[c]) /\ batch' \subseteq batch
    BY <1>3 DEF ClientError, ClientsAt, Dispatch
  <2> QED
    BY <2>1, CloseClosing
<1>4. CASE Accept4
  BY <1>4, Accept4Closing
<1>5. CASE AcceptFails
  BY <1>5, AcceptFailsClosing
<1>6. CASE pc \in {"read", "parse", "write"} /\ ClientBranch(Current)
  <2>1. PICK c \in Connected : c = Current
    BY <1>6, CurrentIsConnected
  <2>2. CASE \/ FeedThrows(c) \/ ReadFails(c) \/ RequestFails(c)
             \/ RequestThrows(c) \/ WriteFails(c) \/ Finish(c)
    <3>1. batch' \subseteq batch /\ \E unread : closeClient(c, unread)
      BY <2>2, ClosingSteps
    <3> QED
      BY <3>1, CloseClosing
  <2> QED
    BY <1>6, <2>1, <2>2, HandlersClosing DEF ClientBranch
<1>7. CASE \E c \in Clients : Client(c)
  BY <1>7, ClientClosing
<1>8. CASE UNCHANGED vars
  BY <1>8 DEF ClosingInv, Connected, vars, socketVars, clientVars, daemonVars, historyVars
<1> QED
  BY <1>1, <1>2, <1>3, <1>4, <1>5, <1>6, <1>7, <1>8 DEF Next, Daemon

\* A piece of a sequence stays where it is when something is appended.
LEMMA PieceStays ==
    ASSUME NEW S, NEW s \in Seq(S), NEW t \in Seq(S), NEW i \in Nat \ {0}, NEW j \in Nat,
           j <= Len(s), i <= j + 1
    PROVE  SubSeq(s \o t, i, j) = SubSeq(s, i, j)
<1>1. /\ s \o t \in Seq(S) /\ Len(s \o t) = Len(s) + Len(t)
      /\ Len(s) \in Nat /\ Len(t) \in Nat
      /\ \A k \in 1 .. Len(s) : (s \o t)[k] = s[k] /\ s[k] \in S
  BY ConcatProperties
<1> DEFINE u == s \o t
<1>2. /\ u \in Seq(S) /\ j <= Len(u) /\ Len(u) \in Nat
      /\ \A k \in 1 .. Len(s) : u[k] = s[k]
  BY <1>1
<1> HIDE DEF u
<1>3. \A k \in 1 .. (j + 1) - i : SubSeq(s, i, j)[k] = s[(i + k) - 1]
  BY <1>1
<1>4. \A k \in 1 .. (j + 1) - i : SubSeq(u, i, j)[k] = u[(i + k) - 1]
  BY <1>2
<1>5. SubSeq(s, i, j) \in Seq(S) /\ Len(SubSeq(s, i, j)) = (j + 1) - i
  BY <1>1, SubSeqProperties
<1>6. SubSeq(u, i, j) \in Seq(S) /\ Len(SubSeq(u, i, j)) = (j + 1) - i
  <2>1. \A k \in i .. j : u[k] \in S
    BY <1>1, <1>2
  <2> QED
    BY <1>2, <2>1, SubSeqProperties
<1>7. \A k \in 1 .. (j + 1) - i : SubSeq(u, i, j)[k] = SubSeq(s, i, j)[k]
  <2>1. \A k \in 1 .. (j + 1) - i : (i + k) - 1 \in 1 .. Len(s)
    BY <1>1
  <2> QED
    BY <1>2, <1>3, <1>4, <2>1
<1> QED
  BY <1>5, <1>6, <1>7, SeqEqual DEF u

\* What a decoder sees at the head of its buffer, more bytes do not change.
LEMMA HeadStays ==
    ASSUME NEW buffer \in Seq(Byte), NEW data \in Seq(Byte)
    PROVE  /\ IsOversized(buffer) => IsOversized(buffer \o data)
           /\ hasFrame(buffer) => /\ hasFrame(buffer \o data)
                                 /\ FirstFrame(buffer \o data) = FirstFrame(buffer)
<1> DEFINE k == kFrameHeaderSize
           more == buffer \o data
<1>1. /\ k \in Nat \ {0} /\ Len(buffer) \in Nat /\ Len(data) \in Nat
      /\ Len(more) = Len(buffer) + Len(data)
  BY ProtocolAssumption, ConcatProperties DEF kFrameHeaderSize
<1>2. HasHeader(buffer) => HasHeader(more) /\ payloadSize(more) = payloadSize(buffer)
  <2> SUFFICES ASSUME HasHeader(buffer)
               PROVE  HasHeader(more) /\ payloadSize(more) = payloadSize(buffer)
    OBVIOUS
  <2>1. k <= Len(buffer)
    BY <1>1 DEF HasHeader
  <2>2. 1 \in Nat \ {0} /\ 1 <= k + 1
    BY <1>1
  <2>3. SubSeq(more, 1, k) = SubSeq(buffer, 1, k)
    BY <1>1, <2>1, <2>2, PieceStays
  <2>4. HasHeader(more)
    BY <1>1, <2>1 DEF HasHeader
  <2> QED
    BY <2>3, <2>4 DEF payloadSize
<1>3. HasHeader(buffer) => payloadSize(buffer) \in Nat
  <2> SUFFICES ASSUME HasHeader(buffer) PROVE payloadSize(buffer) \in Nat
    OBVIOUS
  <2>1. k \in 0 .. Len(buffer)
    BY <1>1 DEF HasHeader
  <2>2. SubSeq(buffer, 1, k) \in Seq(Byte)
    BY <2>1, Cut
  <2> QED
    BY <2>2, BigEndianOfValue DEF payloadSize
<1>4. IsOversized(buffer) => IsOversized(more)
  BY <1>2 DEF IsOversized
<1>5. ASSUME hasFrame(buffer)
      PROVE  hasFrame(more) /\ FirstFrame(more) = FirstFrame(buffer)
  <2> DEFINE n == payloadSize(buffer)
  <2>1. /\ HasHeader(buffer) /\ Len(buffer) - k >= n /\ n \in Nat
        /\ HasHeader(more) /\ payloadSize(more) = n
    BY <1>2, <1>3, <1>5 DEF hasFrame
  <2> HIDE DEF n
  <2>2. Len(more) - k >= n /\ k + n <= Len(buffer) /\ k + 1 <= (k + n) + 1
    BY <1>1, <2>1
  <2>3. hasFrame(more)
    BY <2>1, <2>2 DEF hasFrame
  <2>4. k + 1 \in Nat \ {0} /\ k + n \in Nat
    BY <1>1, <2>1
  <2>5. SubSeq(more, k + 1, k + n) = SubSeq(buffer, k + 1, k + n)
    BY <2>2, <2>4, PieceStays
  <2> QED
    BY <2>1, <2>3, <2>5 DEF FirstFrame, n
<1> QED
  BY <1>4, <1>5

\* The handlers close for a reason.
LEMMA HandlerHasAReason ==
    ASSUME DescriptorsInv, AnswersInv, FramesInv, ClosingInv,
           NEW c \in Connected, connections[c].fd = event.fd,
           \/ FeedThrows(c) \/ ReadFails(c) \/ RequestFails(c) \/ RequestThrows(c)
           \/ WriteFails(c) \/ Finish(c)
    PROVE  MayClose(c) \/ c \in fresh
<1> DEFINE D == connections[c].decoder
           T == to_daemon[c]
<1>1. c \in Clients /\ D \in Seq(Byte) /\ T \in Seq(Byte)
  BY DEF Connected, DescriptorsInv, SocketsInv, DaemonInv, ConnectionType
<1>2. CASE FeedThrows(c)
  <2> DEFINE X == Chunk(T)
             Y == AfterChunk(T)
  <2>1. X \in Seq(Byte) /\ Y \in Seq(Byte) /\ X \o Y = T
    BY <1>1, ChunkType
  <2>2. IsOversized(D \o X)
    BY <1>2 DEF FeedThrows, feed, Accept, Reject
  <2>3. D \in Seq(Byte) /\ X \in Seq(Byte) /\ Y \in Seq(Byte)
    BY <1>1, <2>1
  <2> HIDE DEF D, T, X, Y
  <2>4. D \o (X \o Y) = (D \o X) \o Y
    BY ONLY <2>3, Regroup
  <2>5. D \o X \in Seq(Byte)
    BY ONLY <2>3, ConcatProperties
  <2>6. IsOversized((D \o X) \o Y)
    BY <2>2, <2>3, <2>5, HeadStays
  <2>7. IsOversized(D \o T)
    BY <2>1, <2>4, <2>6, Zenon
  <2> QED
    BY <2>7 DEF MayClose, D, T
<1>3. CASE ReadFails(c) \/ WriteFails(c)
  BY <1>3 DEF ReadFails, WriteFails, MayClose, Gone
<1>4. CASE RequestThrows(c)
  <2>1. \/ IsOversized(D)
        \/ hasFrame(D) /\ next_job_id = 0 /\ IsAcceptable(FirstFrame(D))
    BY <1>4 DEF RequestThrows
  <2>2. \/ IsOversized(D \o T)
        \/ /\ next_job_id = 0 /\ hasFrame(D \o T)
           /\ IsAcceptable(FirstFrame(D \o T))
    <3>1. CASE IsOversized(D)
      BY <1>1, <3>1, HeadStays
    <3>2. CASE hasFrame(D) /\ next_job_id = 0 /\ IsAcceptable(FirstFrame(D))
      <4>1. hasFrame(D \o T) /\ FirstFrame(D \o T) = FirstFrame(D)
        BY <1>1, <3>2, HeadStays
      <4> HIDE DEF D, T
      <4> QED
        BY <3>2, <4>1, Zenon
    <3> QED
      BY <2>1, <3>1, <3>2
  <2> QED
    BY <2>2 DEF MayClose
<1>5. CASE RequestFails(c)
  <2>1. /\ pc = "parse" /\ hasFrame(D)
        /\ RequestMayFail(FirstFrame(D)) /\ RequestEffects(FirstFrame(D))
    BY <1>5 DEF RequestFails
  <2>2. hasFrame(D \o T) /\ FirstFrame(D \o T) = FirstFrame(D)
    BY <1>1, <2>1, HeadStays
  <2>3. RequestMayFail(FirstFrame(D \o T)) /\ RequestEffects(FirstFrame(D \o T))
    BY <2>1, <2>2, Zenon
  <2> QED
    BY <2>1, <2>2, <2>3 DEF MayClose
<1>6. CASE Finish(c) /\ "EPOLLHUP" \in event.mask
  <2>1. Gone(client_end[c]) \/ c \in fresh
    BY <1>6 DEF ClosingInv, HangsUp
  <2> QED
    BY <2>1 DEF MayClose
<1>7. CASE Finish(c) /\ connections[c].read_closed /\ ~hasPendingWrite(c) /\ ~Gone(client_end[c])
  <2>1. client_end[c] = "half" /\ T = <<>>
    BY <1>1, <1>7 DEF ClosingInv, DescriptorsInv, SocketsInv, Gone
  <2>2. ~hasFrame(D)
    BY <1>1, <1>7 DEF FramesInv, FramesOf, Finish, WriteIsDone
  <2>3. D \o T = D
    BY <1>1, <2>1, ConcatEmptySeq
  <2>4. Unsent(c) = <<>>
    <3>1. connections[c].write_offset = Len(connections[c].write_buffer)
          /\ Len(connections[c].write_buffer) \in Nat
      BY <1>1, <1>7, UnsentType DEF hasPendingWrite
    <3> QED
      BY <3>1, SubSeqEmpty DEF Unsent
  <2>5. received[c] \o to_client[c] = EncodeAll(answers[c])
    <3>1. (received[c] \o to_client[c]) \o Unsent(c) = EncodeAll(answers[c])
      BY <1>1, <1>7 DEF AnswersInv, AnswersAreExact
    <3>2. received[c] \o to_client[c] \in Seq(Byte)
      BY <1>1, OnTheWay
    <3>3. (received[c] \o to_client[c]) \o <<>> = received[c] \o to_client[c]
      BY <3>2, ConcatEmptySeq
    <3> QED
      BY <2>4, <3>1, <3>3
  <2> QED
    BY <2>1, <2>2, <2>3, <2>5 DEF MayClose
<1>8. CASE Gone(client_end[c])
  BY <1>8 DEF MayClose
<1> QED
  BY <1>2, <1>3, <1>4, <1>5, <1>6, <1>7, <1>8 DEF Finish, IsOver

\* closeClient closes the one connection.
LEMMA OnlyOneCloses ==
    ASSUME DescriptorsInv, NEW c \in Connected, NEW d \in Connected, NEW unread,
           closeClient(d, unread), Gone(daemon_end'[c])
    PROVE  c = d
<1>1. c \in Clients /\ daemon_end[c] = "open"
  BY DEF Connected, DescriptorsInv, DescriptorsHaveOneOwner
<1> QED
  BY <1>1 DEF closeClient, DaemonCloses, Gone, DescriptorsInv, SocketsInv

LEMMA CloseHasAReason ==
    ASSUME DescriptorsInv, AnswersInv, FramesInv, ClosingInv, [Next]_vars,
           NEW c \in Connected, Gone(daemon_end'[c])
    PROVE  MayClose(c) \/ c \in fresh
<1>1. c \in Clients /\ daemon_end[c] = "open"
  BY DEF Connected, DescriptorsInv, DescriptorsHaveOneOwner
<1>2. CASE daemon_end'[c] = daemon_end[c] \/ daemon_end'[c] \in {"open", "backlog"}
  BY <1>1, <1>2 DEF Gone
<1>3. CASE \/ EpollWait \/ AcceptDone \/ \E fd \in Fds : PipeHangsUp(fd)
           \/ \E e \in batch : \/ TimerEvent(e) \/ PipeEvent(e) \/ OldEvent(e)
                               \/ ListenEvent(e) \/ ClientEvent(e)
           \/ UNCHANGED vars
  <2>1. daemon_end' = daemon_end
    BY <1>3 DEF EpollWait, AcceptDone, PipeHangsUp, TimerEvent, PipeEvent, OldEvent,
                ListenEvent, ClientEvent, socketVars, vars
  <2> QED
    BY <1>2, <2>1
<1>4. CASE \E e \in batch : ClientError(e)
  <2>1. PICK e \in batch, d \in Connected :
           /\ connections[d].fd = e.fd /\ "EPOLLERR" \in e.mask
           /\ closeClient(d, to_daemon[d])
    BY <1>4 DEF ClientError, ClientsAt
  <2>2. c = d
    BY <2>1, OnlyOneCloses
  <2>3. Gone(client_end[c]) \/ c \in fresh
    BY <2>1, <2>2 DEF ClosingInv, HangsUp
  <2> QED
    BY <2>3 DEF MayClose
<1>5. CASE Accept4
  <2>1. daemon_end' = [daemon_end EXCEPT ![Head(backlog)] = "open"]
    BY <1>5 DEF Accept4
  <2>2. daemon_end'[c] = "open"
    BY <1>1, <2>1 DEF DescriptorsInv, SocketsInv
  <2> QED
    BY <1>2, <2>2
<1>6. CASE AcceptFails
  BY <1>6 DEF AcceptFails, MayClose
<1>7. CASE pc \in {"read", "parse", "write"} /\ ClientBranch(Current)
  <2>1. PICK d \in Connected : d = Current /\ connections[d].fd = event.fd
    BY <1>7, CurrentIsConnected
  <2>2. CASE \/ FeedThrows(d) \/ ReadFails(d) \/ RequestFails(d)
             \/ RequestThrows(d) \/ WriteFails(d) \/ Finish(d)
    <3>1. c = d
      BY <2>2, ClosingSteps, OnlyOneCloses
    <3> QED
      BY <2>1, <2>2, <3>1, HandlerHasAReason
  <2>3. CASE \/ Read(d) \/ ReadDone(d) \/ HandleRequest(d) \/ Write(d)
             \/ updateClientEvents(d)
    <3>1. daemon_end' = daemon_end
      BY <2>3 DEF Read, ReadDone, HandleRequest, Write, updateClientEvents, socketVars
    <3> QED
      BY <1>2, <3>1
  <2> QED
    BY <1>7, <2>1, <2>2, <2>3 DEF ClientBranch
<1>8. CASE \E d \in Clients : Client(d)
  <2>1. PICK d \in Clients : Client(d)
    BY <1>8
  <2>2. daemon_end' = daemon_end \/ daemon_end' = [daemon_end EXCEPT ![d] = "backlog"]
    BY <2>1, ClientEffect
       DEF Connects, connect, SendsTo, RunnerctlEnds, ClientCloses, Takes, OtherCloses,
           OtherShutsDown
  <2>3. daemon_end'[c] \in {"open", "backlog"}
    BY <1>1, <2>2 DEF DescriptorsInv, SocketsInv
  <2> QED
    BY <1>2, <2>3
<1> QED
  BY <1>3, <1>4, <1>5, <1>6, <1>7, <1>8 DEF Next, Daemon

(***************************************************************************)
(* The daemon closes a connection only for a reason that its client could  *)
(* know of, unless it accepted the connection in the batch of events it is *)
(* working off.  The exception is the one that the run stale_event shows   *)
(* to be needed.                                                           *)
(***************************************************************************)
THEOREM ConnectionsCloseForAReason ==
    Spec => CloseIsCausedUnlessFresh
<1>1. Init => AnswersInv /\ FramesInv /\ ClosingInv
  BY AnswersInvInit, FramesInvInit, ClosingInvInit
<1>2. DescriptorsInv /\ AnswersInv /\ FramesInv /\ ClosingInv /\ [Next]_vars
         => AnswersInv' /\ FramesInv' /\ ClosingInv'
  BY AnswersInvStep, FramesInvStep, ClosingInvStep
<1>3. DescriptorsInv /\ AnswersInv /\ FramesInv /\ ClosingInv /\ [Next]_vars
         => [\A c \in Connected :
                Gone(daemon_end'[c]) => MayClose(c) \/ c \in fresh]_vars
  BY CloseHasAReason
<1> QED
  BY <1>1, <1>2, <1>3, DescriptorsInvariance, PTL DEF Spec, CloseIsCausedUnlessFresh
=============================================================================
