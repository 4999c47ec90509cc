------------------------------- MODULE Sessions -------------------------------
(***************************************************************************)
(* What Workspace must answer for every input of its algorithms: a         *)
(* directory below a root, the start of a session, a path given to a tool. *)
(* The builders of the inputs are in MCAlgorithms, the proofs for every    *)
(* input in Projects_proofs.                                               *)
(***************************************************************************)
EXTENDS Workspace

VARIABLE input

Path  == Seq(Name)
Dir   == Path \ {NoPath}
World == [home : Path, marked : SUBSET Path, indexed : SUBSET Dir,
          rules : SUBSET [pat : Path, anchored : BOOLEAN], all : BOOLEAN]

\* No configured workdir lies in another.
NotNested(configured) ==
    \A i, j \in DOMAIN configured : IsPrefix(configured[i], configured[j]) => configured[i] = configured[j]

\* An input is a question the program can be asked.
InputOK ==
    /\ input.of = "walk" => /\ input.w \in World /\ input.root \in Path /\ input.path \in Path
                            /\ IsPrefix(input.root, input.path)
    /\ input.of = "session" => /\ input.w \in World /\ input.cwd \in Dir /\ input.explicit \in Dir \cup {NoPath}
                               /\ input.configured \in Seq(Dir) /\ NotNested(input.configured)
    /\ input.of = "call" => input.w \in World /\ input.workdirs \in Seq(Dir) /\ input.path \in Path

\* Below every root the indexer, ripgrep and the git assist see the same
\* directories (BuiltinSkipGlobs, GitDirtySourceFiles).
OneVisibility == input.of = "walk" => SameVisibility(input.w, input.root, input.path)

\* The directory a session starts in is walked from a root of the daemon
\* that serves the session (NarrowExcludedWorkdirs, resolveSessionRoot).
SessionSeesItsTree ==
    input.of = "session" => SessionSees(input.w, input.explicit, input.cwd, input.configured)

\* The project a path selects in home mode is taken off it exactly once
\* (adoptDetectedProject, stripDetectedProjectPrefix).
SelectorKept == input.of = "call" => SelectorKeepsPlace(input.w, input.workdirs, input.path)
=============================================================================
