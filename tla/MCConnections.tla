--------------------------- MODULE MCConnections ----------------------------
(* Connections for TLC. *)
EXTENDS Connections

Bin == [argv |-> <<<<Slash>>>>, timeout |-> NoTimeout]

JustSubmit == {[command |-> "submit", spec |-> Bin]}

\* A ping and a cancel with a header after them that declares too much, and a
\* submit.
SomeStreams == {encodeFrame(<<PING>>) \o encodeFrame(encodeCancelRequest(1))
                    \o BigEndian(kMaxFrameSize + 1, UintSize),
                encodeFrame(SubmitPayload(Bin))}
=============================================================================
