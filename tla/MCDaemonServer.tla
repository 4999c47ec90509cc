--------------------------- MODULE MCDaemonServer ---------------------------
(* TLC instance of DaemonServer. *)
EXTENDS DaemonServer
=============================================================================
