-------------------------- MODULE MCTimeoutManager --------------------------
(* TimeoutManager under every sequence of calls on two job ids. *)
EXTENDS TimeoutManager

MCTimeouts == {1, 3}
=============================================================================
