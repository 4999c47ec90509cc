---------------------------- MODULE MCIndexGraph ----------------------------
(***************************************************************************)
(* Three files.  The caller calls s, with or without an import that        *)
(* reaches library 1; either library may define s, once or twice, or not.  *)
(* Seen from the caller both libraries are in its directory, so that two   *)
(* definitions tie unless the import decides.                              *)
(***************************************************************************)
EXTENDS IndexGraph, TLC

CONSTANTS caller, lib1, lib2, s, emit

MCFile == {caller, lib1, lib2}

Has(defs, twice, calls, imports) ==
  [defs |-> defs, twice |-> twice, calls |-> calls, imports |-> imports]
Empty   == Has({}, {}, {}, {})
Defines == Has({s}, {}, {}, {})
Doubled == Has({s, emit}, {s}, {}, {})
Calls   == Has({}, {}, {s, emit}, {})
Imports == Has({}, {}, {s}, {lib1})

MCContents == (caller :> {Calls, Imports}) @@ (lib1 :> {Empty, Defines})
                @@ (lib2 :> {Empty, Defines, Doubled})
MCNearness == [f \in MCFile |-> [g \in MCFile |-> IF f = g THEN "file" ELSE "dir"]]
MCReaches == [n \in MCFile \cup {s, emit} |-> {n} \cap MCFile]

\* SelfImport: a file defines s and then imports a module of that name.
SelfContents == [f \in MCFile |->
                   IF f = lib1 THEN {Defines, Has({s}, {}, {}, {s})} ELSE {Calls}]
=============================================================================
