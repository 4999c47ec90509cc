------------------------------ MODULE Workspace ------------------------------
(***************************************************************************)
(* Which tree a session indexes, and which directories of it every reader  *)
(* sees: the start of the process (config.LoadConfig, main.go), the skip   *)
(* rules of the walker (ShouldSkipDirIn), the globs that give ripgrep the  *)
(* same rules (BuiltinSkipGlobs), the git assist, the climb to the nearest *)
(* index (FindNearestCodeGraphRootBounded) and the project a tool call     *)
(* resolves to (internal/server/project.go).                               *)
(*                                                                         *)
(* A path is the sequence of its segments, resolved and clean: symbolic    *)
(* links, case folding and Windows separators are left out.  A world w is  *)
(* what the file system and the configuration answer:                      *)
(*   home      $HOME            marked    directories with a project marker *)
(*   indexed   directories with a real .codegraph                          *)
(*   rules     exclude_dirs, as [pat, anchored]; their globs are those of  *)
(*             GlobRules, here a pattern names itself                      *)
(*   all       CODEGRAPH_GO_HOME_INDEX_ALL                                 *)
(***************************************************************************)
EXTENDS Naturals, Sequences, SequencesExt, FiniteSetsExt

CONSTANTS Name,                \* what a segment can be
          skipDirNames,        \* names that are never project source
          skipPathFragments    \* runs of segments that mark cache trees

ASSUME NameAssumption == {"go", "pkg", "bin", "src"} \cup skipDirNames \subseteq Name
ASSUME RunAssumption  == skipPathFragments \subseteq Seq(Name) \ {<<>>}

NoPath == <<"(none)">>

From(p, i)  == SubSeq(p, i, Len(p))
Rel(wd, p)  == From(p, Len(wd) + 1)
Base(p)     == Last(p)
EndsIn(p, run) == Len(run) <= Len(p) /\ From(p, Len(p) - Len(run) + 1) = run
Holds(p, run)  == \E i \in DOMAIN p : IsPrefix(run, From(p, i))
\* The directories between wd and p, p among them.
Steps(wd, p) == {SubSeq(p, 1, k) : k \in Len(wd) + 1 .. Len(p)}

-----------------------------------------------------------------------------
(* The walker: internal/extraction/skip.go.                                *)

goSegments == {<<"go", "pkg">>, <<"go", "bin">>, <<"go", "src">>}

isGopathRoot(w, p) ==
    \/ p = <<"root", "go">>
    \/ p = Append(w.home, "go")
    \/ Len(p) = 3 /\ p[1] \in {"home", "Users"} /\ p[3] = "go"

isGoToolchainPath(w, p) ==
    \/ \E run \in goSegments : Holds(p, run)
    \/ p # <<>> /\ Base(p) = "go" /\ isGopathRoot(w, p)

HasProjectMarker(w, p) == p \in w.marked
IsBroadWorkdir(w, p)   == p \in {<<>>, <<"home">>, <<"Users">>, <<"root">>, w.home}

\* A bare rule names directories anywhere; one with a slash, or anchored,
\* names a path below the workdir and its subtree.
ruleSkips(rule, wd, p) ==
    IF ~rule.anchored /\ Len(rule.pat) = 1 THEN Base(p) = rule.pat[1]
    ELSE IsStrictPrefix(wd, p) /\ IsPrefix(rule.pat, Rel(wd, p))

\* Only direct children that look like projects, and are not hidden.
Hidden == {".wt", ".local", ".x"}
homeModeSkips(w, wd, p) ==
    /\ IsBroadWorkdir(w, wd) /\ ~w.all /\ IsPrefix(wd, p) /\ Len(p) = Len(wd) + 1
    /\ Base(p) \in Hidden \/ ~HasProjectMarker(w, p)

ShouldSkipDirIn(w, wd, p) ==
    /\ p # wd
    /\ LET target == IF IsPrefix(wd, p) THEN Rel(wd, p) ELSE p
       IN  \/ Base(p) \in skipDirNames
           \/ \E rule \in w.rules : ruleSkips(rule, wd, p)
           \/ isGoToolchainPath(w, target)
           \/ target = <<"go">> /\ isGopathRoot(w, p)
           \/ \E run \in skipPathFragments : Holds(target, run)
           \/ homeModeSkips(w, wd, p)

\* The pass over wd enters p; it descends step by step.
visitIndexable(w, wd, p) ==
    IsPrefix(wd, p) /\ \A d \in Steps(wd, p) : ~ShouldSkipDirIn(w, wd, d)

-----------------------------------------------------------------------------
(* The readers that do not walk.                                           *)

\* The three shapes of glob: a name, a run at any depth, /go at the top.
M_BuiltinSkipGlobs(w, root) ==
    {[top |-> FALSE, run |-> run] : run \in {<<n>> : n \in skipDirNames} \cup skipPathFragments \cup goSegments}
BuiltinSkipGlobs(w, root) ==
    LET glob(top, run) == [top |-> top, run |-> run]
    IN  {glob(FALSE, <<n>>) : n \in skipDirNames}
        \cup {glob(FALSE, run) : run \in skipPathFragments \cup goSegments}
        \cup {glob(TRUE, run) : run \in {r \in {<<"go">>} : isGopathRoot(w, root \o r)}}

\* "!g/" and "!g/**" of ripgrep run in root: the directory and its subtree.
rgHides(w, root, p) ==
    \E d \in Steps(root, p), g \in BuiltinSkipGlobs(w, root) :
        IF g.top THEN Rel(root, d) = g.run ELSE EndsIn(Rel(root, d), g.run)

\* git reports paths relative to its own top directory; the assist reads
\* them as relative to the workdir, and drops what lies in a skipped tree.
GitDirtySourceFiles(w, wd, repo, changed) ==
    {f \in {wd \o Rel(repo, c) : c \in changed} :
        \A d \in Steps(wd, Front(f)) : ~ShouldSkipDirIn(w, wd, d)}

-----------------------------------------------------------------------------
(* The root of a session.                                                  *)

\* -workdir goes in front of the configured ones; without any, the cwd.
LoadConfig(explicit, configured, cwd) ==
    LET given == IF explicit = NoPath \/ Contains(configured, explicit) THEN configured
                 ELSE <<explicit>> \o configured
    IN  IF given = <<>> THEN <<cwd>> ELSE given

NarrowExcludedWorkdirs(w, explicit, cwd, workdirs) ==
    LET target == IF explicit = NoPath THEN cwd ELSE explicit
        blind(wd) == IsStrictPrefix(wd, target) /\ ~visitIndexable(w, wd, target)
    IN  IF \E wd \in ToSet(workdirs) : blind(wd) THEN <<target>> ELSE workdirs

ValidateWorkdirs(workdirs, allowlist) ==
    \A wd \in ToSet(workdirs) : \E root \in allowlist : IsPrefix(root, wd)

\* The nearest index at or above start, unless its own pass skips start.
M_FindNearestCodeGraphRootBounded(w, start) ==
    LET above == {k \in 0 .. Len(start) : SubSeq(start, 1, k) \in w.indexed}
        cand  == SubSeq(start, 1, Max(above))
    IN  IF above = {} \/ ShouldSkipDirIn(w, cand, start) THEN NoPath ELSE cand
FindNearestCodeGraphRootBounded(w, start) ==
    LET above == {k \in 0 .. Len(start) : SubSeq(start, 1, k) \in w.indexed}
        cand  == SubSeq(start, 1, Max(above))
    IN  IF above = {} \/ \E d \in Steps(cand, start) : ShouldSkipDirIn(w, cand, d) THEN NoPath
        ELSE cand

\* The first workdir that finds an index, or else the first one itself.
resolveSessionRoot(w, workdirs) ==
    LET found == {i \in DOMAIN workdirs : FindNearestCodeGraphRootBounded(w, workdirs[i]) # NoPath}
    IN  IF found = {} THEN workdirs[1] ELSE FindNearestCodeGraphRootBounded(w, workdirs[Min(found)])

\* main, in the client and in the daemon: the workdirs of a process.
SessionWorkdirs(w, explicit, cwd, configured) ==
    NarrowExcludedWorkdirs(w, explicit, cwd, LoadConfig(explicit, configured, cwd))
DaemonWorkdirs(w, root, configured) == SessionWorkdirs(w, root, root, configured)

-----------------------------------------------------------------------------
(* The project a tool call is about.                                       *)

\* A home-mode selector: the first segment of a path names a marked
\* directory of a workdir.
detectedProjectDirs(w, wd) ==
    {d \in w.marked : /\ IsPrefix(wd, d) /\ Len(d) = Len(wd) + 1 /\ Base(d) \notin Hidden
                      /\ ~ShouldSkipDirIn(w, wd, d)}
detectProject(w, workdirs, path) ==
    LET offered == {i \in DOMAIN workdirs : path # <<>> /\ workdirs[i] \o SubSeq(path, 1, 1)
                                                           \in detectedProjectDirs(w, workdirs[i])}
    IN  IF offered # {} /\ \E wd \in ToSet(workdirs) : IsBroadWorkdir(w, wd)
        THEN workdirs[Min(offered)] \o SubSeq(path, 1, 1) ELSE NoPath

\* The selector is taken off the path that named it.
M_adoptDetectedProject(w, workdirs, path) ==
    [project |-> detectProject(w, workdirs, path), path |-> path]
adoptDetectedProject(w, workdirs, path) ==
    LET found == detectProject(w, workdirs, path)
    IN  [project |-> found, path |-> IF found = NoPath THEN path ELSE Tail(path)]

projectRootAllowed(workdirs, root) == \E wd \in ToSet(workdirs) : IsPrefix(wd, root)
resolveProject(w, workdirs, project) ==
    LET root == FindNearestCodeGraphRootBounded(w, project)
    IN  IF project = NoPath THEN workdirs[1]
        ELSE IF root # NoPath /\ projectRootAllowed(workdirs, root) THEN root ELSE NoPath

\* Where a search of a tool call starts.  At a broad root without a path,
\* the projects, never the whole home.
rgSearchRoots(w, workdirs, path) ==
    LET call == adoptDetectedProject(w, workdirs, path)
        root == resolveProject(w, workdirs, call.project)
    IN  IF root = NoPath THEN {}
        ELSE IF call.path = <<>> /\ IsBroadWorkdir(w, root)
             THEN UNION {detectedProjectDirs(w, wd) : wd \in ToSet(workdirs)}
             ELSE {root \o call.path}

-----------------------------------------------------------------------------
(* What must hold.                                                         *)

\* Two cases in which the walker hides more than the globs say: the top
\* level of a broad root, and a directory whose path below the root reads
\* like a GOPATH root.
WalkerOnly(w, root, p) ==
    \E d \in Steps(root, p) : homeModeSkips(w, root, d) \/ isGopathRoot(w, Rel(root, d))

\* The pass, ripgrep and the git assist see the same directories of a root
\* (BuiltinSkipGlobs: "so the rg fallback and the walker can never drift
\* apart").
SameVisibility(w, root, p) ==
    LET walked == visitIndexable([w EXCEPT !.rules = {}], root, p)
    IN  /\ walked => ~rgHides(w, root, p)
        /\ ~WalkerOnly(w, root, p) => (walked <=> ~rgHides(w, root, p))
        /\ visitIndexable(w, root, p) <=> Append(p, "f") \in GitDirtySourceFiles(w, root, root, {Append(p, "f")})

\* A session started in a directory that a workdir holds is served by a
\* daemon one of whose roots walks that directory: the client narrows its
\* workdirs, attaches to a root, and the daemon spawned for that root reads
\* the configuration again with it as -workdir.  And narrowing never turns
\* an accepted list of workdirs into a refused one (main.go: "the target
\* stays a descendant of a config workdir, so ValidateWorkdirs still passes").
SessionSees(w, explicit, cwd, configured) ==
    LET target == IF explicit = NoPath THEN cwd ELSE explicit
        loaded == LoadConfig(explicit, configured, cwd)
        used == NarrowExcludedWorkdirs(w, explicit, cwd, loaded)
        allowlist == IF configured = <<>> THEN {w.home} ELSE ToSet(configured)
        served == DaemonWorkdirs(w, resolveSessionRoot(w, used), configured)
    IN  ValidateWorkdirs(loaded, allowlist) =>
           /\ ValidateWorkdirs(used, allowlist)
           /\ (\E wd \in ToSet(loaded) : IsPrefix(wd, target))
                 => \E root \in ToSet(served) : visitIndexable(w, root, target)

\* A path whose first segment selects an indexed project is read in that
\* project, as the place the whole path names (adoptDetectedProject:
\* "path=myrepo must not become myrepo/myrepo").
SelectorKeepsPlace(w, workdirs, path) ==
    LET call == adoptDetectedProject(w, workdirs, path)
    IN  call.project \in w.indexed /\ (call.path # <<>> \/ ~IsBroadWorkdir(w, call.project))
          => \E wd \in ToSet(workdirs) : rgSearchRoots(w, workdirs, path) = {wd \o path}
=============================================================================
