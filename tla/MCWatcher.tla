----------------------------- MODULE MCWatcher -----------------------------
(* TLC instance of Watcher. *)
EXTENDS Watcher
=============================================================================
