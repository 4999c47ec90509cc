--------------------------- MODULE MCProjectCache ---------------------------
(* TLC instance of ProjectCache. *)
EXTENDS ProjectCache, TLC

Symmetric == Permutations(Root \ Extra) \cup Permutations(Caller)
=============================================================================
