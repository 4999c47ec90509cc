---------------------------- MODULE IndexWriter -----------------------------
(***************************************************************************)
(* What every part of the program that opens the index relies on: SQLite   *)
(* connections to one codegraph.db are opened by one process at a time     *)
(* (db/connection.go, "A1: single-writer lock").                           *)
(***************************************************************************)
CONSTANT Process
VARIABLE writers   \* the processes with an open connection

Init == writers = {}

Open(p)  == writers = {} /\ writers' = {p}
Close(p) == p \in writers /\ writers' = writers \ {p}

Next == \E p \in Process : Open(p) \/ Close(p)

Spec == Init /\ [][Next]_writers
=============================================================================
