--------------------------- MODULE MCJobScheduler ---------------------------
(* JobScheduler alone, under every sequence of calls on five job ids. *)
EXTENDS JobScheduler
=============================================================================
