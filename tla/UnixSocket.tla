----------------------------- MODULE UnixSocket -----------------------------
(***************************************************************************)
(* How a daemon comes by its socket and leaves it (src/unix_socket.cpp and *)
(* both ends of main in src/runnerd_main.cpp).  One action is one system   *)
(* call: other daemons may act on the same path in between.                *)
(*                                                                         *)
(* step is the call a daemon is about to make: "lstat", "connect" and      *)
(* "unlink" in removeStaleSocketIfNeeded; "bind", "chmod" and "listen" in  *)
(* createUnixListener; "serving" in main's loop; "closed" before the last  *)
(* unlink.  It is "off" before the daemon runs, and again after a start    *)
(* that made no socket; "gone" after it has ended.                         *)
(***************************************************************************)
EXTENDS Descriptors

VARIABLES
    path,           \* what the path names: a file or the socket of a daemon
    step

socketVars == <<path, step>>

NoFile == "none"
Foreign == "foreign"    \* not a socket, or not this user's
Left == "left"          \* a socket whose daemon was killed long ago

\* A path that names a daemon's socket names no other file.
ASSUME UnixSocketAssumption == Daemons \cap {NoFile, Foreign, Left} = {}

PathInit ==
    /\ path \in {NoFile, Foreign, Left}
    /\ step = [d \in Daemons |-> "off"]

GoesTo(d, s) == step' = [step EXCEPT ![d] = s]

\* Somebody could accept what connects to the socket that the path names.
IsListening ==
    /\ path \in Daemons
    /\ holders[path] # {}
    /\ step[path] \notin {"chmod", "listen"}

Starts(d) ==
    /\ step[d] = "off"
    /\ GoesTo(d, "lstat")
    /\ UNCHANGED <<path, descriptorVars>>

Lstat(d) ==
    /\ step[d] = "lstat"
    /\ GoesTo(d, CASE path = NoFile  -> "bind"
                   [] path = Foreign -> "off"
                   [] OTHER          -> "connect")
    /\ UNCHANGED <<path, descriptorVars>>

\* Takes every socket for a stale one.
ConnectUnasked(d) ==
    /\ step[d] = "connect"
    /\ GoesTo(d, "unlink")
    /\ UNCHANGED <<path, descriptorVars>>

\* "runnerd is already running", or ECONNREFUSED or ENOENT.
Connect(d) ==
    /\ step[d] = "connect"
    /\ GoesTo(d, IF IsListening THEN "off" ELSE "unlink")
    /\ UNCHANGED <<path, descriptorVars>>

\* Leaves the stale socket where it is.
UnlinkSkipped(d) ==
    /\ step[d] = "unlink"
    /\ GoesTo(d, "bind")
    /\ UNCHANGED <<path, descriptorVars>>

\* Whatever the path names by now.
Unlink(d) ==
    /\ step[d] = "unlink"
    /\ path' = NoFile
    /\ GoesTo(d, "bind")
    /\ UNCHANGED descriptorVars

Bind(d) ==
    /\ step[d] = "bind"
    /\ path = NoFile
    /\ path' = d
    /\ GoesTo(d, "chmod")
    /\ holders' = [holders EXCEPT ![d] = {d}]
    /\ UNCHANGED faults

\* EADDRINUSE.
BindFails(d) ==
    /\ step[d] = "bind"
    /\ path # NoFile
    /\ GoesTo(d, "off")
    /\ UNCHANGED <<path, descriptorVars>>

\* The descriptor stays open.
CloseListenerForgotten(d) ==
    /\ GoesTo(d, "closed")
    /\ UNCHANGED <<holders, path>>

CloseListener(d) ==
    /\ GoesTo(d, "closed")
    /\ holders' = [holders EXCEPT ![d] = @ \ {d}]
    /\ UNCHANGED path

\* The file that the path names by now gets its mode; ENOENT is an error.
Chmod(d) ==
    /\ step[d] = "chmod"
    /\ \/ /\ path # NoFile
          /\ GoesTo(d, "listen")
          /\ UNCHANGED <<path, holders>>
       \/ path = NoFile /\ CloseListener(d)
    /\ UNCHANGED faults

Listen(d) ==
    /\ step[d] = "listen"
    /\ GoesTo(d, "serving")
    /\ UNCHANGED <<path, descriptorVars>>

\* A call fails in createUnixListener, or an exception leaves main's loop.
Fails(d) ==
    /\ Fault
    /\ \/ /\ step[d] \in {"lstat", "connect", "unlink", "bind"}
          /\ GoesTo(d, "off")
          /\ UNCHANGED <<path, holders>>
       \/ /\ step[d] \in {"chmod", "listen", "serving"}
          /\ CloseListener(d)

StartUp(d) ==
    \/ Lstat(d) \/ Connect(d) \/ Unlink(d) \/ Bind(d) \/ BindFails(d)
    \/ Chmod(d) \/ Listen(d)
=============================================================================
