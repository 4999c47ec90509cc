---------------------------- MODULE MCDaemonLock ----------------------------
(* TLC instance of DaemonLock. *)
EXTENDS DaemonLock, TLC

Symmetry == Permutations(Proc) \cup Permutations(Pid)
=============================================================================
