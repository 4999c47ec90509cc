-------------------------- MODULE MCIndexLifecycle --------------------------
(***************************************************************************)
(* Instance of IndexLifecycle: files are interchangeable.                  *)
(***************************************************************************)
EXTENDS IndexLifecycle, TLC

FileSymmetry == Permutations(File)
=============================================================================
