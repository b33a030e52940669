----------------------------- MODULE Runnerctl ------------------------------
(***************************************************************************)
(* The clients.  runnerctl (src/runnerctl_main.cpp) connects, writes one   *)
(* request, reads until it has one response, tells what it means and       *)
(* closes.  The other clients are any program (external): they send what   *)
(* they like, in pieces, pipelined, read or do not read, shut down their   *)
(* sending direction and close at any moment.                              *)
(***************************************************************************)
EXTENDS Sockets

CONSTANTS
    Runnerctls,     \* the clients that are runnerctl
    CommandLines,   \* the command lines they may have been given
    Streams,        \* what the other clients may send
    CutPoints,      \* the places where what another client sends may be cut
    ReadSize        \* the size of a read buffer: 4096 in the code

ASSUME RunnerctlAssumption ==
    /\ Runnerctls \subseteq Clients
    /\ CutPoints \subseteq Nat
    /\ ReadSize \in Nat \ {0}

VARIABLES
    command_line,   \* of each runnerctl
    stream,         \* the bytes each client is going to send
    sent,           \* how many of them it has sent
    received,       \* the bytes it has read
    result          \* how runnerctl ended

clientVars == <<command_line, stream, sent, received, result>>

NoCommandLine == [command |-> "none"]

makeRequestPayload(line) ==
    CASE line.command = "ping"   -> <<PING>>
      [] line.command = "list"   -> <<LIST>>
      [] line.command = "submit" -> encodeSubmitRequest(line.spec).value
      [] line.command = "status" -> encodeStatusRequest(line.job_id)
      [] line.command = "cancel" -> encodeCancelRequest(line.job_id)

\* A command line of which runnerctl makes a request.  With any other it sends nothing:
\* parseCommandLine refuses it, or encodeSubmitRequest or encodeFrame throws and it
\* closes the connection again, as the other clients may at any time.
IsSendable(line) ==
    /\ \/ line.command \in {"ping", "list"}
       \/ line.command = "submit" /\ line.spec \in JobSpec /\ encodeSubmitRequest(line.spec).ok
       \/ line.command \in {"status", "cancel"} /\ line.job_id \in 1 .. FieldValues(JobIdSize) - 1
    /\ Len(makeRequestPayload(line)) <= kMaxFrameSize

\* Everyone sends bytes.
ASSUME RequestsAssumption ==
    /\ Streams \subseteq Seq(Byte)
    /\ \A line \in CommandLines : IsSendable(line)

ClientsInit ==
    /\ command_line \in [Clients -> CommandLines \cup {NoCommandLine}]
    /\ stream \in [Clients -> Streams \cup {encodeFrame(makeRequestPayload(line)) :
                                              line \in CommandLines}]
    /\ \A c \in Clients :
          IF c \in Runnerctls
            THEN /\ command_line[c] # NoCommandLine
                 /\ stream[c] = encodeFrame(makeRequestPayload(command_line[c]))
            ELSE command_line[c] = NoCommandLine /\ stream[c] \in Streams
    /\ sent = [c \in Clients |-> 0]
    /\ received = [c \in Clients |-> <<>>]
    /\ result = [c \in Clients |-> "none"]

ClientsTypeOK ==
    /\ \A c \in Clients : sent[c] \in 0 .. Len(stream[c]) /\ received[c] \in Seq(Byte)
    /\ result \in [Clients -> {"none", "success", "error", "unexpected", "failed"}]

-----------------------------------------------------------------------------

\* connectUnixSocket, while the daemon listens; otherwise it throws at once.
Connects(c) ==
    /\ client_end[c] = "new"
    /\ connect(c)
    /\ UNCHANGED clientVars

\* The bytes up to end become readable for the daemon.
SendsTo(c, end) ==
    /\ client_end[c] = "open"
    /\ sent[c] < end
    /\ ~Gone(daemon_end[c])
    /\ to_daemon' = [to_daemon EXCEPT ![c] = @ \o SubSeq(stream[c], sent[c] + 1, end)]
    /\ sent' = [sent EXCEPT ![c] = end]
    /\ UNCHANGED <<client_end, daemon_end, to_client, backlog>>
    /\ UNCHANGED <<command_line, stream, received, result>>

\* The bytes one read takes.
Chunk(bytes) == SubSeq(bytes, 1, IF Len(bytes) < ReadSize THEN Len(bytes) ELSE ReadSize)
AfterChunk(bytes) == SubSeq(bytes, Len(Chunk(bytes)) + 1, Len(bytes))

\* runnerctl ends with this result, with these bytes read and these not.
RunnerctlEnds(c, outcome, read, unread) ==
    /\ result' = [result EXCEPT ![c] = outcome]
    /\ received' = [received EXCEPT ![c] = read]
    /\ ClientCloses(c, unread)
    /\ UNCHANGED <<command_line, stream, sent>>

\* writeAll: EPIPE.
RunnerctlCannotSend(c) ==
    /\ client_end[c] = "open"
    /\ sent[c] < Len(stream[c])
    /\ Gone(daemon_end[c])
    /\ RunnerctlEnds(c, "failed", received[c], to_client[c])

\* Takes whatever the first read returns for the response.
RunnerctlReadsOnce(c) ==
    /\ client_end[c] = "open"
    /\ sent[c] = Len(stream[c])
    /\ to_client[c] # <<>>
    /\ LET read == received[c] \o Chunk(to_client[c])
           unread == AfterChunk(to_client[c])
           payload == SubSeq(read, kFrameHeaderSize + 1, Len(read))
       IN  RunnerctlEnds(c, handleResponse(command_line[c].command, payload), read, unread)

\* readFrame, one read, and the rest of main once there is a frame.
RunnerctlReads(c) ==
    /\ client_end[c] = "open"
    /\ sent[c] = Len(stream[c])
    /\ to_client[c] # <<>>
    /\ LET decoder == feed(received[c], Chunk(to_client[c]))
           read == received[c] \o Chunk(to_client[c])
           unread == AfterChunk(to_client[c])
       IN  IF ~decoder.ok
             THEN RunnerctlEnds(c, "failed", read, unread)
           ELSE IF hasFrame(read)
             THEN RunnerctlEnds(c, handleResponse(command_line[c].command, FirstFrame(read)),
                                read, unread)
           ELSE /\ received' = [received EXCEPT ![c] = read]
                /\ to_client' = [to_client EXCEPT ![c] = unread]
                /\ UNCHANGED <<client_end, daemon_end, to_daemon, backlog>>
                /\ UNCHANGED <<command_line, stream, sent, result>>

\* readFrame: the server disconnected, or ECONNRESET.
RunnerctlSeesTheEnd(c) ==
    /\ client_end[c] = "open"
    /\ sent[c] = Len(stream[c])
    /\ AtEnd(c)
    /\ RunnerctlEnds(c, "failed", received[c], <<>>)

RunnerctlStep(c) ==
    /\ c \in Runnerctls
    /\ \/ SendsTo(c, Len(stream[c])) \/ RunnerctlCannotSend(c)
       \/ RunnerctlReads(c) \/ RunnerctlSeesTheEnd(c)

-----------------------------------------------------------------------------

OtherReads(c) ==
    /\ c \notin Runnerctls
    /\ client_end[c] \in {"open", "half"}
    /\ to_client[c] # <<>>
    /\ received' = [received EXCEPT ![c] = @ \o Chunk(to_client[c])]
    /\ to_client' = [to_client EXCEPT ![c] = AfterChunk(@)]
    /\ UNCHANGED <<client_end, daemon_end, to_daemon, backlog>>
    /\ UNCHANGED <<command_line, stream, sent, result>>

OtherShutsDown(c) ==
    /\ client_end[c] = "open"
    /\ client_end' = [client_end EXCEPT ![c] = "half"]
    /\ UNCHANGED <<daemon_end, to_daemon, to_client, backlog>>
    /\ UNCHANGED clientVars

OtherCloses(c) ==
    /\ client_end[c] \in {"open", "half"}
    /\ ClientCloses(c, to_client[c])
    /\ UNCHANGED clientVars

OtherStep(c) ==
    /\ c \notin Runnerctls
    /\ \/ \E end \in {n \in CutPoints \cup {Len(stream[c])} : n <= Len(stream[c])} :
             SendsTo(c, end)
       \/ OtherReads(c) \/ OtherShutsDown(c) \/ OtherCloses(c)
=============================================================================
