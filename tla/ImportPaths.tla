----------------------------- MODULE ImportPaths -----------------------------
(***************************************************************************)
(* Which files an import statement reaches (ResolveImportPath), for Go,    *)
(* Rust, TypeScript and JavaScript, and Python.  The resolver prefers the  *)
(* candidates that lie in these files.                                     *)
(*                                                                         *)
(* A path is a sequence of names, a file the path of its name without the  *)
(* extension and the extension.  What a manifest says is given as read;    *)
(* the caches of parsed manifests are left out.  A tree `t' is a record:   *)
(*   workdir, files                                                        *)
(*   gomod    directory -> [module, replace: module path -> directory]     *)
(*   cargo    directory -> [package, members: set of patterns]             *)
(*   config   set of [dir, name, base, paths: set of alias patterns]       *)
(*   npm      [package, globs: sequence of patterns]                       *)
(*   package  directory -> name in its package.json                        *)
(* Of the names that are never entered (hidden ones, dependencies) and of  *)
(* the suffixes a few stand for all; walks are not limited in depth.       *)
(* Left out: Rust's ./ and ../ specifiers, and the languages of files that *)
(* are none of these four.                                                 *)
(***************************************************************************)
EXTENDS Naturals, Sequences, SequencesExt, FiniteSets, FiniteSetsExt

File(stem, ext) == [stem |-> stem, ext |-> ext]
Dir(f) == Front(f.stem)
Parent(p) == IF p = <<>> THEN p ELSE Front(p)
UpBy(p, n) == SubSeq(p, 1, IF n > Len(p) THEN 0 ELSE Len(p) - n)
Rest(p, prefix) == SubSeq(p, Len(prefix) + 1, Len(p))
Longest(paths) == CHOOSE p \in paths : \A q \in paths : Len(q) <= Len(p)

\* filepath.Clean: ".." takes the name before it away.
Clean(path) == FoldLeft(LAMBDA p, name : CASE name = ".." -> Parent(p) [] name = "." -> p [] OTHER -> Append(p, name),
                        <<>>, path)

\* The directories from dir upwards, as far as stop.
Climb(dir, stop) == IF IsPrefix(stop, dir) THEN {p \in Prefixes(dir) : Len(p) >= Len(stop)} ELSE Prefixes(dir)
Directories(t) == UNION {Prefixes(Dir(f)) : f \in t.files}

\* The file itself if the import names it, and what each suffix makes of it:
\* those of a file, and those of the file that stands for a directory.
TryList(exts, inside, insideExts) == [exts |-> exts, inside |-> inside, insideExts |-> insideExts]
expandWithExt(t, base, suffixes) ==
    t.files \cap ({base} \cup (IF base.ext # "" THEN {}
                              ELSE {File(base.stem, e) : e \in suffixes.exts}
                                     \cup {File(Append(base.stem, suffixes.inside), e) : e \in suffixes.insideExts}))

moduleExts == {".ts", ".tsx", ".js", ".jsx", ".mjs", ".cjs", ".d.ts"}
indexExts  == {".ts", ".tsx", ".js", ".jsx"}
jsExts == TryList(moduleExts, "index", indexExts)
pyExts == TryList({".py"}, "__init__", {".py"})

-----------------------------------------------------------------------------
(* Go.                                                                     *)

\* LoadGoModule of the workdir, else of the nearest directory above.
goModule(t, fromDir) ==
    IF t.workdir \in DOMAIN t.gomod THEN {t.workdir}
    ELSE LET above == Climb(fromDir, t.workdir) \cap DOMAIN t.gomod
         IN  IF above = {} THEN {} ELSE {Longest(above)}

\* The longest replaced module that holds the package wins, then the module itself.
ResolveGoImport(mod, root, spec) ==
    LET replaced == {old \in DOMAIN mod.replace : IsPrefix(old, spec)}
    IN  IF replaced # {} THEN {mod.replace[Longest(replaced)] \o Rest(spec, Longest(replaced))}
        ELSE IF IsPrefix(mod.module, spec) THEN {root \o Rest(spec, mod.module)} ELSE {}

ListGoPackageFiles(t, dir) ==
    LET here == {f \in t.files : f.ext \in {".go", "_test.go"} /\ Dir(f) = dir}
        code == {f \in here : f.ext = ".go"}
    IN  IF code # {} THEN code ELSE here

isRelative(spec) == Len(spec) > 1 /\ Head(spec) \in {".", ".."}
\* A relative specifier is taken for the path of a file.
resolveGoImportPath(t, fromDir, spec) ==
    IF isRelative(spec) THEN expandWithExt(t, File(Clean(fromDir \o spec), ""), TryList({".go"}, "", {}))
    ELSE UNION {UNION {ListGoPackageFiles(t, dir) : dir \in ResolveGoImport(t.gomod[root], root, spec)} :
                  root \in goModule(t, fromDir)}

-----------------------------------------------------------------------------
(* Rust.                                                                   *)

rustCrateEntryFiles(t, src) == {File(Append(src, n), ".rs") : n \in {"lib", "main"}} \cap t.files
hasRustEntry(t, dir) == rustCrateEntryFiles(t, dir) # {}

\* The src directory of the crate that holds a file: none or one.
findRustCrateSrcRoot(t, from, stop) ==
    LET isRoot == {d \in Climb(Dir(from), stop) : hasRustEntry(t, d) \/ (d \in DOMAIN t.cargo /\ hasRustEntry(t, Append(d, "src")))}
    IN  IF isRoot # {} THEN {IF hasRustEntry(t, Longest(isRoot)) THEN Longest(isRoot) ELSE Append(Longest(isRoot), "src")}
        ELSE {src \in {Append(stop, "src")} : hasRustEntry(t, src)}

\* Mutant: mod.rs is taken for a module of its own.
M_rustSelfModuleDir(from) == IF Last(from.stem) \in {"lib", "main"} THEN Dir(from) ELSE from.stem
\* The directory that holds the submodules of a file.
rustSelfModuleDir(from) == IF Last(from.stem) \in {"mod", "lib", "main"} THEN Dir(from) ELSE from.stem

Supers(segs) == Len(SelectSeq(segs, LAMBDA s : s = "super"))
Named(segs)  == SelectSeq(segs, LAMBDA s : s \notin {"self", "crate", "super"})
ModuleFiles(t, module) == {File(module, ".rs"), File(Append(module, "mod"), ".rs")} \cap t.files

\* Every segment must have a file; foo.rs is preferred to foo/mod.rs.
resolveRustModuleUnder(t, src, from, anchor, segs) ==
    LET start == CASE anchor = "crate" -> UpBy(src, Supers(segs))
                   [] anchor = "self"  -> UpBy(rustSelfModuleDir(from), Supers(segs))
                   [] anchor = "super" -> UpBy(rustSelfModuleDir(from), Supers(segs) + 1)
        target == start \o Named(segs)
    IN  IF Named(segs) = <<>> THEN rustCrateEntryFiles(t, src)
        ELSE IF \E n \in 1 .. Len(Named(segs)) : ModuleFiles(t, start \o SubSeq(Named(segs), 1, n)) = {} THEN {}
        ELSE IF File(target, ".rs") \in t.files THEN {File(target, ".rs")} ELSE ModuleFiles(t, target)

\* A member is a directory or a pattern of as many segments, below whose
\* literal part no skipped directory is entered.
cargoSkipDir == {"target", "node_modules", "dist", "build", ".git"}
isGlob(seg) == seg \in {"*", "**"}
cargoGlobMatch(pattern, path) ==
    /\ Len(pattern) = Len(path)
    /\ \A i \in DOMAIN path : isGlob(pattern[i]) \/ pattern[i] = path[i]
expandCargoMembers(t, root, pattern) ==
    IF ~\E i \in DOMAIN pattern : isGlob(pattern[i]) THEN {root \o pattern}
    ELSE LET first == CHOOSE i \in DOMAIN pattern : isGlob(pattern[i]) /\ \A j \in 1 .. (i - 1) : ~isGlob(pattern[j])
         IN  {root \o p : p \in {q \in {Rest(d, root) : d \in {x \in Directories(t) : IsPrefix(root, x)}} :
                 /\ cargoGlobMatch(pattern, q)
                 /\ \A i \in first .. Len(q) : q[i] \notin cargoSkipDir}}

\* LoadCargoWorkspace: the crates of a workspace by name.  Cargo refuses two
\* packages of one name; a name is taken in the spelling of its imports.
crateNamed(t, root, name) ==
    LET members == UNION {expandCargoMembers(t, root, p) : p \in t.cargo[root].members}
    IN  {d \in ({root} \cup members) \cap DOMAIN t.cargo : t.cargo[d].package = name}
hasCrates(t, root) ==
    /\ root \in DOMAIN t.cargo
    /\ \E d \in {root} \cup UNION {expandCargoMembers(t, root, p) : p \in t.cargo[root].members} :
          d \in DOMAIN t.cargo /\ t.cargo[d].package # ""

\* The workspace of the workdir, or of the nearest manifest above the file.
cargoRoot(t, from) ==
    LET above == Climb(Dir(from), t.workdir) \cap DOMAIN t.cargo
    IN  IF ~hasCrates(t, t.workdir) /\ above # {} /\ hasCrates(t, Longest(above)) THEN Longest(above) ELSE t.workdir

\* A path may end in a symbol of its module.
orItsParent(t, src, from, anchor, segs) ==
    LET whole == resolveRustModuleUnder(t, src, from, anchor, segs)
        front == IF Len(segs) > 1 THEN resolveRustModuleUnder(t, src, from, anchor, Front(segs)) ELSE {}
    IN  IF whole # {} THEN whole ELSE IF front # {} THEN front ELSE rustCrateEntryFiles(t, src)

ResolveCargoImport(t, from, segs) ==
    LET root   == cargoRoot(t, from)
        crates == IF hasCrates(t, root) THEN crateNamed(t, root, Head(segs)) ELSE {}
        own    == findRustCrateSrcRoot(t, from, root)
    IN  IF Head(segs) \in {"crate", "self", "super"}
        THEN UNION {resolveRustModuleUnder(t, src, from, Head(segs), Tail(segs)) : src \in own}
        ELSE IF crates # {}
        THEN UNION {IF Len(segs) = 1 THEN rustCrateEntryFiles(t, Append(d, "src"))
                    ELSE orItsParent(t, Append(d, "src"), from, "crate", Tail(segs)) : d \in crates}
        ELSE UNION {orItsParent(t, src, from, "self", segs) : src \in own}

-----------------------------------------------------------------------------
(* TypeScript and JavaScript.                                              *)

\* An alias pattern is [prefix, suffix, star, targets]; a target [pre, post].
aliasMatches(pat, spec) ==
    IF pat.star THEN /\ Len(spec) > Len(pat.prefix) + Len(pat.suffix)
                     /\ IsPrefix(pat.prefix, spec) /\ IsSuffix(pat.suffix, spec)
    ELSE spec = pat.prefix
\* The sort of parseTsconfigAliases: longer prefix first, then the literal one.
aliasBefore(p, q) == Len(p.prefix) > Len(q.prefix) \/ (Len(p.prefix) = Len(q.prefix) /\ ~p.star /\ q.star)

\* Targets of the first pattern that matches, without those outside of the project.
ApplyAliases(spec, config) ==
    LET fits == {p \in config.paths : aliasMatches(p, spec)}
        pat  == CHOOSE p \in fits : \A q \in fits \ {p} : ~aliasBefore(q, p)
        captured == SubSeq(spec, Len(pat.prefix) + 1, Len(spec) - Len(pat.suffix))
        bases == [i \in DOMAIN pat.targets |->
                     Clean(config.base \o pat.targets[i].pre \o (IF pat.star THEN captured ELSE <<>>) \o pat.targets[i].post)]
    IN  IF fits = {} THEN <<>> ELSE SelectSeq(bases, LAMBDA b : IsPrefix(config.dir, b))

\* tsconfig.json, else jsconfig.json: the first with a paths block.
LoadProjectAliases(t, dir) ==
    LET usable(name) == {c \in t.config : c.dir = dir /\ c.name = name /\ c.paths # {}}
    IN  IF usable("tsconfig") # {} THEN usable("tsconfig") ELSE usable("jsconfig")
aliased(t, dir, spec) == LET c == LoadProjectAliases(t, dir) IN IF c = {} THEN <<>> ELSE ApplyAliases(spec, CHOOSE x \in c : TRUE)

\* findNearestConfigDir, unless it is the workdir.
nearConfigDir(t, fromDir) ==
    LET above == Climb(fromDir, t.workdir) \cap {c.dir : c \in t.config}
    IN  IF above = {} \/ Longest(above) = t.workdir THEN {} ELSE {Longest(above)}

\* matchSegments: "**" stands for any number of segments.
matchSegments(glob, path) ==
    LET m[i \in 1 .. (Len(glob) + 1), j \in 1 .. (Len(path) + 1)] ==
          IF i > Len(glob) THEN j > Len(path)
          ELSE IF glob[i] = "**" THEN \E k \in j .. (Len(path) + 1) : m[i + 1, k]
          ELSE j <= Len(path) /\ glob[i] \in {"*", path[j]} /\ m[i + 1, j + 1]
    IN  m[1, 1]

\* A pattern with ** is walked from its literal part, never through hidden
\* directories and dependencies; any other only looks at the last name.
hiddenName(n) == n \in {"node_modules", ".git"}
expandWorkspaceGlob(t, pattern) ==
    LET below == {d \in Directories(t) : IsPrefix(t.workdir, d)}
        deep  == \E i \in DOMAIN pattern : pattern[i] = "**"
        first == CHOOSE i \in DOMAIN pattern : pattern[i] = "**" /\ \A j \in 1 .. (i - 1) : pattern[j] # "**"
        fits(d) == LET rel == Rest(d, t.workdir)
                   IN  IF deep THEN /\ Len(rel) >= first /\ SubSeq(rel, 1, first - 1) = SubSeq(pattern, 1, first - 1)
                                    /\ \A i \in first .. Len(rel) : ~hiddenName(rel[i])
                                    /\ matchSegments(SubSeq(pattern, first, Len(pattern)), SubSeq(rel, first, Len(rel)))
                       ELSE Len(rel) = Len(pattern) /\ matchSegments(pattern, rel) /\ (rel = <<>> \/ ~hiddenName(Last(rel)))
    IN  {d \in below : fits(d)}

\* LoadWorkspacePackages and ResolveWorkspaceImport: the root, then the first
\* pattern that finds the package; the longest package name wins.
packageDirs(t, name) ==
    IF t.npm.package = name THEN {t.workdir}
    ELSE LET found(i) == {d \in expandWorkspaceGlob(t, t.npm.globs[i]) \cap DOMAIN t.package : t.package[d] = name}
             hits == {i \in DOMAIN t.npm.globs : found(i) # {}}
         IN  IF hits = {} THEN {} ELSE {CHOOSE d \in found(Min(hits)) : TRUE}
ResolveWorkspaceImport(t, spec) ==
    LET names == {n \in Prefixes(spec) \ {<<>>} : packageDirs(t, n) # {}}
        name  == Longest(names)
    IN  IF names = {} THEN <<>> ELSE <<(CHOOSE d \in packageDirs(t, name) : TRUE) \o Rest(spec, name)>>

ApplyFallbackAliases(spec) ==
    IF Len(spec) < 2 THEN <<>>
    ELSE IF Head(spec) \in {"@", "~", "@src", "src"} THEN <<<<"src">> \o Tail(spec)>>
    ELSE IF Head(spec) \in {"@app", "app"} THEN <<<<"app">> \o Tail(spec)>> ELSE <<>>

\* The places a name is looked for, in order; the first with a file is it.
jsBases(t, fromDir, spec) ==
    LET near(S) == IF S = {} THEN <<>> ELSE aliased(t, CHOOSE d \in S : TRUE, spec)
        fallback == ApplyFallbackAliases(spec)
    IN  aliased(t, t.workdir, spec) \o near(nearConfigDir(t, fromDir)) \o ResolveWorkspaceImport(t, spec)
        \o (IF fallback = <<>> THEN <<>> ELSE <<t.workdir \o fallback[1]>>) \o <<t.workdir \o spec>>
resolveJSImportPath(t, fromDir, spec, ext) ==
    LET reach(base) == expandWithExt(t, File(base, ext), jsExts)
        bases == jsBases(t, fromDir, spec)
        hits  == {i \in DOMAIN bases : reach(bases[i]) # {}}
    IN  IF hits = {} THEN {} ELSE reach(bases[Min(hits)])

\* A specifier that starts with a dot, `ups' of its segments being "..".
resolveJSRelative(t, fromDir, ups, spec, ext) == expandWithExt(t, File(UpBy(fromDir, ups) \o spec, ext), jsExts)

-----------------------------------------------------------------------------
(* Python: `dots' leading dots, then names.                                *)

resolvePythonImportPath(t, fromDir, dots, names) ==
    LET reach(base) == expandWithExt(t, File(base, ""), pyExts)
    IN  IF dots > 0 THEN reach(UpBy(fromDir, dots - 1) \o names) ELSE reach(fromDir \o names) \cup reach(t.workdir \o names)

-----------------------------------------------------------------------------
(* What the languages mean.                                                *)

\* The module path of a Rust file in the crate whose sources lie in src.
RustModule(src, f) == LET p == Rest(f.stem, src) IN IF Last(p) \in {"mod", "lib", "main"} THEN Front(p) ELSE p
RustMeant(src, from, anchor, ups, names) ==
    CASE anchor = "crate" -> names
      [] anchor = "self"  -> RustModule(src, from) \o names
      [] anchor = "super" -> UpBy(RustModule(src, from), ups) \o names

\* A path from crate, self or super reaches the one module of that name in
\* the importing file's own crate, if there is a file for every module from
\* the anchor to it (resolveRustModuleUnder).
RustAnchored(t, from, anchor, ups, names) ==
    LET segs == (IF anchor = "super" THEN [i \in 1 .. ups |-> "super"] ELSE <<anchor>>) \o names
        reached == ResolveCargoImport(t, from, segs)
    IN  \A src \in findRustCrateSrcRoot(t, from, cargoRoot(t, from)) :
          LET meant == RustMeant(src, from, anchor, ups, names)
              files(p) == {f \in t.files : f.ext = ".rs" /\ IsPrefix(src, f.stem) /\ RustModule(src, f) = p}
          IN  IsPrefix(src, Dir(from)) /\ (anchor = "super" => ups <= Len(RustModule(src, from))) =>
                 /\ reached \subseteq files(meant) /\ Cardinality(reached) <= 1
                 /\ reached # {} <=> \A n \in 0 .. (Len(names) - 1) : files(UpBy(meant, n)) # {}

\* A path into another crate reaches files of that crate only, and always
\* some if the crate has an entry file (ResolveCargoImport).
RustForeign(t, from, segs) ==
    LET reached == ResolveCargoImport(t, from, segs)
    IN  \A d \in crateNamed(t, t.workdir, Head(segs)) :
          /\ \A f \in reached : IsPrefix(Append(d, "src"), f.stem)
          /\ hasRustEntry(t, Append(d, "src")) => reached # {}

\* A Go import reaches the files of one directory: the one its path names
\* below the longest replaced module, or below the module (ResolveGoImport); a
\* relative one the file of that path, and not a directory's as in Go.
InModule(t, spec, f) ==
    LET holds(m, old) == IsPrefix(old, spec) /\ Dir(f) = m \o Rest(spec, old)
    IN  \E root \in DOMAIN t.gomod :
          LET mod == t.gomod[root]
          IN  \/ \E old \in DOMAIN mod.replace :
                    holds(mod.replace[old], old) /\ \A x \in DOMAIN mod.replace : IsPrefix(x, spec) => Len(x) <= Len(old)
              \/ holds(root, mod.module) /\ \A x \in DOMAIN mod.replace : ~IsPrefix(x, spec)
GoExact(t, fromDir, spec) ==
    \A f \in resolveGoImportPath(t, fromDir, spec) :
       IF isRelative(spec) THEN f.stem = Clean(fromDir \o spec) ELSE InModule(t, spec, f)

\* A declared alias beats every convention: where the literal pattern, or the
\* wildcard with the longest prefix, leads to a file of the project, that
\* file is reached (ApplyAliases, resolveJSImportPath).
AliasWins(t, fromDir, spec) ==
    LET reached == resolveJSImportPath(t, fromDir, spec, "")
        fits(c) == {p \in c.paths : aliasMatches(p, spec)}
        best(c, p) == p \in fits(c) /\ \A q \in fits(c) \ {p} : IF p.star THEN q.star /\ Len(q.prefix) < Len(p.prefix) ELSE q.star
        place(c, p, x) == Clean(c.base \o x.pre \o (IF p.star THEN Rest(SubSeq(spec, 1, Len(spec) - Len(p.suffix)), p.prefix) ELSE <<>>) \o x.post)
        there(b) == expandWithExt(t, File(b, ""), jsExts)
    IN  \A c \in LoadProjectAliases(t, t.workdir) : \A p \in {q \in c.paths : best(c, q)} :
          LET places == {place(c, p, p.targets[i]) : i \in DOMAIN p.targets}
              live   == {b \in places : IsPrefix(t.workdir, b) /\ there(b) # {}}
          IN  live # {} => \E b \in live : reached = there(b)

\* A glob of the workspace finds the packages it would by npm's rule: ** is any
\* number of directories, and nothing inside node_modules is a package
\* (expandDoubleStarGlob).  A glob without ** is not that careful: p/*/q also
\* finds p/node_modules/q, for only the last name is looked at
\* (expandWorkspaceGlob).
NpmMatch(glob, path) ==
    LET stars == {i \in DOMAIN glob : glob[i] = "**"}
    IN  \E take \in [stars -> 0 .. Len(path)] :
          LET w(i) == IF i \in stars THEN take[i] ELSE 1
              at[i \in 1 .. (Len(glob) + 1)] == IF i = 1 THEN 1 ELSE at[i - 1] + w(i - 1)
          IN  /\ at[Len(glob) + 1] = Len(path) + 1
              /\ \A i \in DOMAIN glob \ stars : at[i] <= Len(path) /\ glob[i] \in {"*", path[at[i]]}
GlobExact(t, glob) ==
    LET rel(d) == Rest(d, t.workdir)
        below == {d \in Directories(t) : IsPrefix(t.workdir, d) /\ NpmMatch(glob, rel(d))}
        deep == \E i \in DOMAIN glob : glob[i] = "**"
        walked(d) == ~\E i \in DOMAIN rel(d) : hiddenName(rel(d)[i]) /\ (deep \/ i = Len(rel(d)))
        itself == {d \in below : \A i \in DOMAIN glob : i <= Len(rel(d)) \/ glob[i] = "**"} \cap {d \in below : rel(d) = SelectSeq(glob, LAMBDA s : s # "**")}
    IN  expandWorkspaceGlob(t, glob) = {d \in below : walked(d)} \ (IF Last(glob) = "**" THEN itself ELSE {})

\* A relative import of a script reaches the modules of that name, with any of
\* the suffixes, and those of the directory's index, with four of them, and
\* nothing else (jsExts, expandWithExt).
RelativeExact(t, fromDir, ups, names) ==
    LET isIndex(f) == Last(f.stem) = "index"
    IN  resolveJSRelative(t, fromDir, ups, names, "")
          = {f \in t.files : /\ f.ext \in (IF isIndex(f) THEN indexExts ELSE moduleExts)
                             /\ UpBy(fromDir, ups) \o names = (IF isIndex(f) THEN Front(f.stem) ELSE f.stem)}

\* A relative Python import of n dots reaches the module of that name in the
\* package n - 1 levels above, and nothing else (resolvePythonImportPath).
PythonModule(f) == IF Last(f.stem) = "__init__" THEN Front(f.stem) ELSE f.stem
PythonExact(t, fromDir, dots, names) ==
    resolvePythonImportPath(t, fromDir, dots, names)
      = {f \in t.files : f.ext = ".py" /\ PythonModule(f) = UpBy(fromDir, dots - 1) \o names}
=============================================================================
