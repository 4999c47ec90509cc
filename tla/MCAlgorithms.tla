---------------------------- MODULE MCAlgorithms -----------------------------
(***************************************************************************)
(* TLC instance of the algorithms: each behaviour builds the input of one  *)
(* of them step by step, and the invariants ask of every input built what  *)
(* the algorithm must answer.  Sessions has those of Workspace, and        *)
(* GraphAnswers those of GraphTools and Explore.                           *)
(***************************************************************************)
EXTENDS GraphAnswers, Integers, TLC

CONSTANTS MaxRule,       \* characters of a rule without a class
          MaxClass,      \* members of a class
          MaxPath,       \* segments of a path
          MaxTarget,     \* segments of the directory a session starts in
          MaxEdges,      \* edges of a call graph
          MaxFlowEdges,  \* edges of a graph that explore walks
          MaxImports,    \* import statements
          MaxSources     \* files of a source tree

Rules == INSTANCE GlobRules
Import == INSTANCE ImportPaths

MCName == STRING
MCFragments == {<<".local", "lib">>}

vars == <<input>>

Init == input = [of |-> "nothing"]
Fresh == input.of = "nothing"

-----------------------------------------------------------------------------
(* A rule of exclude_dirs, and the directory names it is tried on.         *)

A == 97
B == 98
Alphabet == {A, Rules!Star, Rules!Quest, Rules!LBr, Rules!RBr, Rules!Bs, Rules!Bang, Rules!Caret,
             Rules!Minus, Rules!Slash, Rules!LCurl}
Members  == {A, B, Rules!Bs, Rules!Bang, Rules!Caret, Rules!Minus, Rules!Slash, Rules!RBr, Rules!LCurl}
Contexts == {<<<<>>, <<>>>>, <<<<A>>, <<A>>>>, <<<<Rules!Slash>>, <<>>>>, <<<<>>, <<Rules!Slash, A>>>>,
             <<<<Rules!Star>>, <<Rules!Star, B>>>>}

StartRule == Fresh /\ input' = [of |-> "rule", raw |-> <<>>]
GrowRule  == /\ input.of = "rule" /\ Len(input.raw) < MaxRule
             /\ \E c \in Alphabet : input' = [input EXCEPT !.raw = Append(@, c)]
StartClass == /\ Fresh
              /\ \E neg \in {<<>>, <<Rules!Caret>>}, x \in Contexts : input' = [of |-> "class", neg |-> neg, around |-> x, raw |-> <<>>]
GrowClass == /\ input.of = "class" /\ Len(input.raw) < MaxClass
             /\ \E c \in Members : input' = [input EXCEPT !.raw = Append(@, c)]
Raw == IF input.of = "rule" THEN input.raw
       ELSE input.around[1] \o <<Rules!LBr>> \o input.neg \o input.raw \o <<Rules!RBr>> \o input.around[2]

Names == LET chars == (Members \ {Rules!Slash}) \cup {Rules!LBr, Rules!Star}
         IN  {<<c>> : c \in chars} \cup {<<c, d>> : c \in chars, d \in chars} \cup {<<A, c, A>> : c \in chars}
Deep  == {<<c, Rules!Slash, d>> : c \in {A, B, Rules!Minus, Rules!Bs}, d \in {A, B}}
Itself(raw) == LET pat == Rules!normalizeExcludeRule(raw).pat IN IF pat = <<>> THEN {} ELSE {pat}

\* A rule of exclude_dirs hides the same directories from the indexer and
\* from ripgrep, and never breaks the ripgrep call (rgExcludeArgs: "the two
\* sides cannot drift and no rule can break rg's glob parser").  They do
\* drift for a class that takes a separator between two stars, as *[/a]*b:
\* ripgrep may then hide directories that are indexed.
RulesAgree ==
    input.of \in {"rule", "class"} => Rules!EnginesAgree(Raw, Names \cup Deep \cup Itself(Raw))

-----------------------------------------------------------------------------
(* A directory below a root.                                               *)

Segments == {"root", "home", "u", "go", "pkg", ".wt", ".local", "lib"}
Plain == [home |-> <<"home", "u">>, rules |-> {}, marked |-> {}, indexed |-> {}, all |-> FALSE]
Worlds == {Plain, [Plain EXCEPT !.all = TRUE, !.rules = {[pat |-> <<"go">>, anchored |-> TRUE]}]}

StartWalk == Fresh /\ \E w \in Worlds : input' = [of |-> "walk", w |-> w, root |-> <<>>, path |-> <<>>]
Descend == /\ input.of = "walk" /\ Len(input.path) < MaxPath
           /\ \E s \in Segments, inside \in BOOLEAN :
                 /\ inside \/ input.root = input.path
                 /\ input' = [input EXCEPT !.path = Append(@, s), !.root = IF inside THEN @ ELSE Append(@, s)]

-----------------------------------------------------------------------------
(* A session: where it starts, what is configured, what is indexed.        *)

Elsewhere == <<"root", ".wt", "b">>
Places(p) == Prefixes(p) \cup {Elsewhere}
Apart(x, y) == ~IsPrefix(x, y) /\ ~IsPrefix(y, x)
Exclusions == {{}, {[pat |-> <<"a">>, anchored |-> TRUE]}, {[pat |-> <<"a", "a">>, anchored |-> FALSE]}}

StartSession == Fresh /\ input' = [of |-> "target", target |-> <<>>]
GrowTarget == /\ input.of = "target" /\ Len(input.target) < MaxTarget
              /\ \E s \in {"root", "a", ".wt"} : input' = [input EXCEPT !.target = Append(@, s)]
\* No configured workdir lies in another.
Configure == /\ input.of = "target"
             /\ \E rules \in Exclusions, indexed \in SUBSET Places(input.target), marked \in {{}, Prefixes(input.target)},
                   explicit \in {NoPath, input.target}, x \in Places(input.target), y \in Places(input.target) :
                   \E configured \in {<<>>, <<x>>} \cup (IF Apart(x, y) THEN {<<x, y>>} ELSE {}) :
                      input' = [of |-> "session", explicit |-> explicit, cwd |-> input.target, configured |-> configured,
                                w |-> [home |-> <<"root">>, rules |-> rules, marked |-> marked, indexed |-> indexed, all |-> FALSE]]

Select == /\ Fresh
          /\ \E home \in {<<"home", "u">>, <<"v">>}, p \in {"p", "q", ".x", ".wt"}, rest \in {<<>>, <<"p">>, <<"q">>, <<"p", "p">>} :
             \E marked \in SUBSET {home \o <<p>>, home \o <<p, "p">>, <<"home", "p">>}, indexed \in SUBSET {home, home \o <<p>>, <<"home", "p">>},
                workdirs \in {<<home>>, <<<<"home">>, home>>, <<home, <<"home">>>>} :
                   input' = [of |-> "call", path |-> <<p>> \o rest, workdirs |-> workdirs,
                             w |-> [home |-> <<"home", "u">>, rules |-> {}, marked |-> marked, indexed |-> indexed, all |-> FALSE]]

-----------------------------------------------------------------------------
(* A call graph and the questions about it; a tree of tests.               *)

Node(name, tail, kind, file) == [name |-> name, tail |-> tail, kind |-> kind, file |-> file, line |-> 1]
NodeKinds == {Node("f", "f", "function", 1), Node("A.f", "f", "method", 2), Node("g", "g", "function", 1), Node("f", "f", "file", 2)}
Edges == {[src |-> s, dst |-> d, kind |-> "calls", line |-> 0] : s \in 1 .. 3, d \in 1 .. 3}
         \cup {[src |-> 3, dst |-> 1, kind |-> "references", line |-> 7], [src |-> 2, dst |-> 1, kind |-> "imports", line |-> 7]}
MCQuestion == [name : {"f"}, path : {{}}, glob : {{}}, file : {{}, {1}}, max : 0 .. 2, depth : {-1, 1, 5}]

StartGraph == Fresh /\ \E n \in [1 .. 3 -> NodeKinds] : input' = [of |-> "graph", node |-> n, edges |-> {}]
AddEdge == /\ input.of = "graph" /\ Cardinality(input.edges) < MaxEdges
           /\ \E e \in Edges \ input.edges : input' = [input EXCEPT !.edges = @ \cup {e}]

Dirs == {<<"a">>, <<"b">>, <<"a", "c">>}
File(dir, test) == [dir |-> dir, base |-> "x", test |-> test, inside |-> TRUE]
Files == {File(d, t) : d \in Dirs, t \in BOOLEAN}
Outside == [File(<<"b">>, FALSE) EXCEPT !.inside = FALSE]
Packages == {<<"m", "a">>, <<"m", "b">>, <<"m", "a", "c">>, <<"n">>, <<"b">>}
Manifests == {<<>> :> <<"m">>, <<"a">> :> <<"n">>, <<"z">> :> <<"n">>}

MCChange == {{f, File(<<"b">>, TRUE)} : f \in Files \cup {Outside}}

StartTree == Fresh /\ \E mod \in Manifests, npm \in Manifests : input' = [of |-> "tree", mod |-> mod, npm |-> npm, files |-> Files, imports |-> {}]
AddImport == /\ input.of = "tree" /\ Cardinality(input.imports) < MaxImports
             /\ \E i \in Files \X Packages : input' = [input EXCEPT !.imports = @ \cup {i}]

-----------------------------------------------------------------------------
(* An index that explore is asked about.                                   *)

Token(x) == [full |-> x, tail |-> x, segs |-> {x}]
Queries == {<<"f">>, <<"f", "g">>, <<"f", "g", "c">>, <<"x", "f">>}
Ask(tokens, root, max, skipCode) ==
    [tokens |-> [k \in DOMAIN tokens |-> Token(tokens[k])], root |-> root, text |-> 1 .. 2, max |-> max, skipCode |-> skipCode]
Shown(name, kind, file, body) ==
    [name |-> name, kind |-> kind, container |-> IF file = 1 THEN "c" ELSE "d", file |-> file, meta |-> 100, body |-> body]

StartFlow == Fresh /\ \E n \in [1 .. 4 -> {"f", "g", "x"}] :
    input' = [of |-> "flow", node |-> [i \in 1 .. 4 |-> Shown(n[i], "function", i, 100)], edges |-> {}, low |-> {}, count |-> 10]
AddFlowEdge == /\ input.of = "flow" /\ Cardinality(input.edges) < MaxFlowEdges
               /\ \E s \in 1 .. 4, d \in 1 .. 4 : /\ s # d
                    /\ input' = [input EXCEPT !.edges = @ \cup {[src |-> s, dst |-> d, kind |-> "calls"]}]

StartAnswer == Fresh /\ \E b \in [1 .. 4 -> {0, 3000, 30000}] : input' = [of |-> "sizes", body |-> b]
Fill == /\ input.of = "sizes"
        /\ \E at \in [1 .. 4 -> 1 .. 3], low \in {{}, {3}}, count \in {100, 6000} :
              input' = [of |-> "answer", low |-> low, count |-> count, edges |-> {[src |-> 1, dst |-> 2, kind |-> "calls"]},
                        node |-> [i \in 1 .. 4 |-> Shown(<<"f", "g", "x", "x">>[i], IF i = 4 THEN "type" ELSE "function", at[i], input.body[i])]]

MCFlowQuery == {Ask(t, root, 0, TRUE) : t \in Queries, root \in {1 .. 4, {1, 2, 3}}}
MCAnswerQuery == {Ask(t, 1 .. 3, max, skipCode) : t \in {<<"f", "g">>, <<"x", "f">>}, max \in {0, 1}, skipCode \in BOOLEAN}

-----------------------------------------------------------------------------
(* Source trees, and the imports of every file of them.                    *)

W == <<"w">>
Rs(p) == Import!File(W \o p, ".rs")
Py(p) == Import!File(W \o p, ".py")
Ts(p) == Import!File(W \o p, ".ts")
Go(p) == Import!File(W \o p, ".go")
Pools == [rust   |-> {Rs(<<"src", "lib">>), Rs(<<"src", "a">>), Rs(<<"src", "a", "mod">>), Rs(<<"src", "a", "b">>), Rs(<<"src", "a", "b", "c">>),
                      Rs(<<"k", "src", "lib">>), Rs(<<"k", "src", "a">>), Rs(<<"target", "src", "lib">>)},
          python |-> {Py(<<"a">>), Py(<<"__init__">>), Py(<<"a", "__init__">>), Py(<<"a", "b">>), Py(<<"a", "b", "__init__">>), Py(<<"a", "a">>)},
          script |-> {Ts(<<"a">>), Ts(<<"src", "a">>), Ts(<<"src", "a", "index">>), Import!File(W \o <<"src", "a", "index">>, ".d.ts"),
                      Import!File(W \o <<"lib", "a">>, ".mjs"), Ts(<<"p", "a">>), Ts(<<"p", "q", "a">>), Ts(<<"p", "node_modules", "q", "a">>)},
          go     |-> {Go(<<"a", "x">>), Import!File(W \o <<"a", "x">>, "_test.go"), Go(<<"r", "a", "x">>), Go(<<"r", "a", "b", "x">>), Go(<<"s", "x">>), Go(<<"x">>)}]
Target(p) == [pre |-> p, post |-> <<>>]
Alias(prefix, star, targets) == [prefix |-> prefix, suffix |-> <<>>, star |-> star, targets |-> targets]
Paths == {Alias(<<"@">>, TRUE, <<Target(<<"lib">>), Target(<<"src">>)>>), Alias(<<"@", "a">>, FALSE, <<Target(<<"p", "a">>)>>),
          Alias(<<"@", "a">>, TRUE, <<Target(<<"src">>)>>), Alias(<<"q">>, TRUE, <<Target(<<"..", "x">>), Target(<<"p">>)>>)}
Globs == {<<"*">>, <<"p", "**">>, <<"**", "q">>, <<"p", "**", "q">>, <<"**", "p", "**">>, <<"p", "*", "q">>, <<"p", "*">>}
Project == [workdir |-> W, files |-> {},
            gomod   |-> W :> [module |-> <<"m">>, replace |-> <<"m", "a">> :> W \o <<"r", "a">> @@ <<"m", "a", "b">> :> W \o <<"s">> @@ <<"n">> :> W \o <<"s">>],
            cargo   |-> W :> [package |-> "r", members |-> {<<"*">>}] @@ W \o <<"k">> :> [package |-> "k", members |-> {}]
                        @@ W \o <<"target">> :> [package |-> "k", members |-> {}],
            config  |-> {},
            npm     |-> [package |-> <<"r">>, globs |-> <<<<"p", "**">>, <<"*">>>>],
            package |-> W \o <<"p">> :> <<"@", "p">> @@ W \o <<"p", "q">> :> <<"@", "p", "q">> @@ W \o <<"lib">> :> <<"@", "p">>]

StartSources == Fresh /\ \E l \in DOMAIN Pools, ps \in SUBSET Paths :
    /\ l = "script" \/ ps = {}
    /\ input' = [of |-> "sources", lang |-> l,
                 t |-> [Project EXCEPT !.config = {[dir |-> W, name |-> "tsconfig", base |-> W, paths |-> ps],
                                                  [dir |-> W \o <<"p">>, name |-> "jsconfig", base |-> W \o <<"p">>, paths |-> {Alias(<<"@">>, TRUE, <<Target(<<>>)>>)}]}]]
AddSource == /\ input.of = "sources" /\ Cardinality(input.t.files) < MaxSources
             /\ \E f \in Pools[input.lang] \ input.t.files : input' = [input EXCEPT !.t.files = @ \cup {f}]

RustNames == {<<"a">>, <<"b">>, <<"a", "b">>, <<"b", "c">>, <<"a", "b", "c">>}
\* An import reaches the files its language means, in its own crate, package
\* or module and nowhere else, for every way a tree is laid out
\* (ResolveImportPath); with the exceptions that ImportPaths names.
ImportsReachTheirTarget ==
    input.of = "sources" => \A from \in input.t.files :
      CASE input.lang = "rust" ->
             /\ \A names \in RustNames : /\ \A anchor \in {"crate", "self"} : Import!RustAnchored(input.t, from, anchor, 0, names)
                                         /\ \A ups \in 1 .. 3 : Import!RustAnchored(input.t, from, "super", ups, names)
             /\ \A segs \in {<<"k">>, <<"k", "a">>, <<"k", "a", "S">>, <<"k", "S">>} : Import!RustForeign(input.t, from, segs)
        [] input.lang = "python" ->
             \A dots \in 1 .. 3, names \in {<<>>, <<"a">>, <<"b">>, <<"a", "b">>} : Import!PythonExact(input.t, Import!Dir(from), dots, names)
        [] input.lang = "script" ->
             /\ \A spec \in {<<"@", "a">>, <<"@", "a", "a">>, <<"q", "a">>, <<"@", "p", "q", "a">>} : Import!AliasWins(input.t, Import!Dir(from), spec)
             /\ \A ups \in 0 .. 2, names \in {<<"a">>, <<"src", "a">>} : Import!RelativeExact(input.t, Import!Dir(from), ups, names)
             /\ \A glob \in Globs : Import!GlobExact(input.t, glob)
        [] input.lang = "go" ->
             \A spec \in {<<"m">>, <<"m", "a">>, <<"m", "a", "b">>, <<"m", "r", "a">>, <<"n">>, <<"x">>, <<".", "x">>, <<"..", "a", "x">>} : Import!GoExact(input.t, Import!Dir(from), spec)

-----------------------------------------------------------------------------
Next == \/ StartRule \/ GrowRule \/ StartClass \/ GrowClass
        \/ StartWalk \/ Descend
        \/ StartSession \/ GrowTarget \/ Configure \/ Select
        \/ StartGraph \/ AddEdge \/ StartTree \/ AddImport
        \/ StartFlow \/ AddFlowEdge \/ StartAnswer \/ Fill \/ StartSources \/ AddSource
Spec == Init /\ [][Next]_vars
=============================================================================
