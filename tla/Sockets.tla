------------------------------ MODULE Sockets -------------------------------
(***************************************************************************)
(* The Unix stream sockets between the daemon and its clients, as the      *)
(* kernel keeps them (external).  Each client connects once.  client_end   *)
(* and daemon_end are the two ends of its connection:                      *)
(*                                                                         *)
(*   "new", "none"   not connected yet                                     *)
(*   "backlog"       connected, not accepted yet (the daemon's end only)   *)
(*   "open"                                                                *)
(*   "half"          the client has shut down its sending direction        *)
(*   "closed"                                                              *)
(*   "reset"         closed with bytes unread: the peer gets ECONNRESET    *)
(***************************************************************************)
EXTENDS Protocol, FiniteSets

CONSTANTS
    Clients,        \* the programs that connect to the daemon
    SocketBuffer    \* bytes that fit in the socket towards a client

ASSUME SocketsAssumption == SocketBuffer \in Nat \ {0}

VARIABLES
    client_end,
    daemon_end,
    to_daemon,      \* bytes under way in each direction
    to_client,
    backlog         \* the clients that wait to be accepted, in order

socketVars == <<client_end, daemon_end, to_daemon, to_client, backlog>>

SocketsTypeOK ==
    /\ client_end \in [Clients -> {"new", "open", "half", "closed", "reset"}]
    /\ daemon_end \in [Clients -> {"none", "backlog", "open", "closed", "reset"}]
    /\ \A c \in Clients :
          /\ to_daemon[c] \in Seq(Byte)
          /\ to_client[c] \in Seq(Byte) /\ Len(to_client[c]) <= SocketBuffer
    /\ backlog \in Seq(Clients)

SocketsInit ==
    /\ client_end = [c \in Clients |-> "new"]
    /\ daemon_end = [c \in Clients |-> "none"]
    /\ to_daemon = [c \in Clients |-> <<>>]
    /\ to_client = [c \in Clients |-> <<>>]
    /\ backlog = <<>>

Gone(end) == end \in {"closed", "reset"}

\* How an end looks once it is closed with these bytes unread.
ClosedWith(unread) == IF unread = <<>> THEN "closed" ELSE "reset"

connect(c) ==
    /\ client_end' = [client_end EXCEPT ![c] = "open"]
    /\ daemon_end' = [daemon_end EXCEPT ![c] = "backlog"]
    /\ backlog' = Append(backlog, c)
    /\ UNCHANGED <<to_daemon, to_client>>

\* The client closes after it has read all but these bytes.
ClientCloses(c, unread) ==
    /\ client_end' = [client_end EXCEPT ![c] = ClosedWith(unread)]
    /\ to_client' = [to_client EXCEPT ![c] = <<>>]
    /\ UNCHANGED <<daemon_end, to_daemon, backlog>>

\* The daemon closes its end after it has read all but these bytes.
DaemonCloses(c, unread) ==
    /\ daemon_end' = [daemon_end EXCEPT ![c] = ClosedWith(unread)]
    /\ to_daemon' = [to_daemon EXCEPT ![c] = <<>>]
    /\ UNCHANGED <<client_end, to_client, backlog>>

\* All of the daemon's descriptors are closed at once; a connection that it has
\* not accepted is reset.
DaemonDies ==
    /\ daemon_end' = [c \in Clients |->
          CASE daemon_end[c] = "open"    -> ClosedWith(to_daemon[c])
            [] daemon_end[c] = "backlog" -> "reset"
            [] OTHER                     -> daemon_end[c]]
    /\ to_daemon' = [c \in Clients |-> <<>>]
    /\ backlog' = <<>>
    /\ UNCHANGED <<client_end, to_client>>

\* The daemon has closed its end and the client has read all that came before.
AtEnd(c) == Gone(daemon_end[c]) /\ to_client[c] = <<>>

Room(c) == SocketBuffer - Len(to_client[c])
=============================================================================
