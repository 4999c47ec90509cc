----------------------------- MODULE GraphTools ------------------------------
(***************************************************************************)
(* What the graph tools answer from an index: callers, callees and impact  *)
(* of a name (internal/tools/graph.go over internal/db/query_edges.go) and *)
(* the tests affected by changed files (internal/tools/affected.go).       *)
(*                                                                         *)
(* An index g has                                                          *)
(*   node    [id -> [name, tail, kind, file, line]], ids in order of row;  *)
(*           tail is what follows the last dot of the name                 *)
(*   edges   [src, dst, kind, line]: one per call site, which is a row     *)
(* A question q is [name, path, file, glob, max, depth]; its filters are   *)
(* the sets of files they accept, NoHint for none.  Source text, the row   *)
(* limits of the queries and the ripgrep fallbacks are left out.           *)
(***************************************************************************)
EXTENDS Naturals, Sequences, SequencesExt, FiniteSets, FiniteSetsExt

CONSTANTS NoHint, defaultGraphMax, maxGraphResults, defaultImpactDepth, maxImpactDepth,
          defaultAffectedDepth, maxAffectedDepth

ASSUME LimitAssumption ==
    {defaultGraphMax, maxGraphResults, defaultImpactDepth, maxImpactDepth,
     defaultAffectedDepth, maxAffectedDepth} \subseteq Nat \ {0}

structuralEdgeSQL == {"calls", "references", "bridge"}

\* A finite set in the order of a query, which is the relation Before; ties
\* come in any order.
Ordered(S, Before) ==
    CHOOSE s \in [1 .. Cardinality(S) -> S] :
        IsInjective(s) /\ \A j \in DOMAIN s : \A i \in 1 .. j - 1 : <<s[j], s[i]>> \notin Before
Ascending(S) == Ordered(S, {p \in S \X S : p[1] < p[2]})

GraphHit(g, id, line, kind) == [id |-> id, name |-> g.node[id].name, file |-> g.node[id].file, line |-> line, kind |-> kind]
GetCallersWithKind(g, id) ==
    LET sites == {e \in g.edges : e.dst = id /\ e.kind \in structuralEdgeSQL}
        rows  == Ordered(sites, {p \in sites \X sites : \/ p[1].src < p[2].src
                                                        \/ p[1].src = p[2].src /\ p[1].line < p[2].line})
        shown(e) == IF e.line > 0 THEN e.line ELSE g.node[e.src].line
    IN  [k \in DOMAIN rows |-> GraphHit(g, rows[k].src, shown(rows[k]), rows[k].kind)]
GetCalleesWithKind(g, id) ==
    LET sites == {e \in g.edges : e.src = id /\ e.kind \in structuralEdgeSQL}
        rows  == Ordered(sites, {p \in sites \X sites : p[1].dst < p[2].dst})
    IN  [k \in DOMAIN rows |-> GraphHit(g, rows[k].dst, g.node[rows[k].dst].line, rows[k].kind)]

\* The definitions a name stands for.  Without an exact one the text search
\* offers names that end in it; a hint at a file only narrows.
resolveDefs(g, q) ==
    LET exact == {i \in DOMAIN g.node : g.node[i].name = q.name}
        nodes == IF exact # {} THEN exact ELSE {i \in DOMAIN g.node : g.node[i].tail = q.name}
        fits(hint, i) == hint = NoHint \/ g.node[i].file \in hint
        defs == {i \in nodes : g.node[i].kind \notin {"file", "module"} /\ fits(q.path, i) /\ fits(q.glob, i)}
        hinted == {i \in defs : fits(q.file, i)}
    IN  Ascending(IF hinted # {} THEN hinted ELSE defs)

clampGraphMax(v) == IF v < 1 THEN defaultGraphMax ELSE Min({v, maxGraphResults})

Key(hit) == <<hit.name, hit.file, hit.line>>
\* One row: one seen before is passed over, and the first one past the
\* limit ends the answer.
M_Take(got, row, max) ==
    IF got.more THEN got
    ELSE IF Len(got.hits) = max THEN [got EXCEPT !.more = TRUE]
    ELSE IF \E i \in DOMAIN got.hits : Key(got.hits[i]) = Key(row) THEN got
    ELSE [got EXCEPT !.hits = Append(@, row)]
Take(got, row, max) ==
    IF got.more \/ \E i \in DOMAIN got.hits : Key(got.hits[i]) = Key(row) THEN got
    ELSE IF Len(got.hits) = max THEN [got EXCEPT !.more = TRUE]
    ELSE [got EXCEPT !.hits = Append(@, row)]
\* The loop over the rows of one definition, and over the definitions.
Collect(before, rows, max) ==
    LET got[i \in 0 .. Len(rows)] == IF i = 0 THEN before ELSE Take(got[i - 1], rows[i], max) IN got[Len(rows)]
CollectAll(lists, max) ==
    LET got[i \in 0 .. Len(lists)] == IF i = 0 THEN [hits |-> <<>>, more |-> FALSE] ELSE Collect(got[i - 1], lists[i], max)
    IN  got[Len(lists)]

NoAnswer == [found |-> FALSE, hits |-> <<>>, more |-> FALSE]
Answer(lists, max) ==
    LET got == CollectAll(lists, max)
    IN  IF \A i \in DOMAIN lists : lists[i] = <<>> THEN NoAnswer ELSE [found |-> TRUE, hits |-> got.hits, more |-> got.more]
ToolCallersGraph(g, q) ==
    LET defs == resolveDefs(g, q)
    IN  Answer([k \in DOMAIN defs |-> GetCallersWithKind(g, defs[k])], clampGraphMax(q.max))
ToolCalleesGraph(g, q) ==
    LET defs == resolveDefs(g, q)
    IN  Answer([k \in DOMAIN defs |-> GetCalleesWithKind(g, defs[k])], clampGraphMax(q.max))

-----------------------------------------------------------------------------
(* Impact: a search against the edges, counting the hits of each file.     *)

impactDepth(d) == IF d < 1 THEN defaultImpactDepth ELSE Min({d, maxImpactDepth})

\* One round of the loop; queue holds the nodes to search with their
\* distance, files the file of each row in the order they come.
ImpactRound(g, depth, s) ==
    LET cur  == Head(s.queue)
        rows == IF cur.d < depth THEN GetCallersWithKind(g, cur.id) ELSE <<>>
        new  == Ascending({rows[k].id : k \in DOMAIN rows} \ s.visited)
    IN  IF s.queue = <<>> THEN s
        ELSE [queue   |-> Tail(s.queue) \o [k \in DOMAIN new |-> [id |-> new[k], d |-> cur.d + 1]],
              visited |-> s.visited \cup ToSet(new),
              files   |-> s.files \o [k \in DOMAIN rows |-> rows[k].file]]
\* A node is put in the queue once, so that the queue is empty after as many
\* rounds as there are nodes.
ImpactSearch(g, depth, defs) ==
    LET at[k \in Nat] == IF k = 0 THEN [queue |-> [i \in DOMAIN defs |-> [id |-> defs[i], d |-> 0]],
                                       visited |-> ToSet(defs), files |-> <<>>]
                         ELSE ImpactRound(g, depth, at[k - 1])
    IN  at[Cardinality(DOMAIN g.node)].files

\* The files, most hits first, then by name (a file is a number here).
HitCount(s, x) == Cardinality({k \in DOMAIN s : s[k] = x})
ToolImpactGraph(g, q) ==
    LET defs  == resolveDefs(g, q)
        found == ImpactSearch(g, impactDepth(q.depth), defs)
        files == ToSet(found)
        list  == Ordered(files, {p \in files \X files : \/ HitCount(found, p[1]) > HitCount(found, p[2])
                                                        \/ HitCount(found, p[1]) = HitCount(found, p[2]) /\ p[1] < p[2]})
        max   == clampGraphMax(q.max)
    IN  IF list = <<>> THEN NoAnswer
        ELSE [found |-> TRUE, hits |-> SubSeq(list, 1, Min({Len(list), max})), more |-> Len(list) > max]

-----------------------------------------------------------------------------
(* What the three must answer, stated over the edges themselves.           *)

Into(g, S) == {e \in g.edges : e.dst \in S /\ e.kind \in structuralEdgeSQL}
Within(g, S, n) == LET R[k \in Nat] == IF k = 0 THEN S ELSE R[k - 1] \cup {e.src : e \in Into(g, R[k - 1])} IN R[n]

\* An answer of at most max of the wanted hits, without repetition, that
\* says whether it leaves any out, and is none when there are none.
Covers(answer, shown, wanted, max) ==
    /\ answer.found <=> wanted # {}
    /\ ToSet(shown) \subseteq wanted /\ IsInjective(shown)
    /\ Len(shown) = Min({max, Cardinality(wanted)})
    /\ answer.more <=> Cardinality(wanted) > max

\* Callers and callees name every call site of every definition of the
\* name once, up to the limit, and impact the files of all that reach it in
\* the given number of calls, through cycles and from every definition.
GraphAnswersExact(g, q) ==
    LET defs == ToSet(resolveDefs(g, q))
        max  == clampGraphMax(q.max)
        site(e) == <<g.node[e.src].name, g.node[e.src].file, IF e.line > 0 THEN e.line ELSE g.node[e.src].line>>
        callee(e) == <<g.node[e.dst].name, g.node[e.dst].file, g.node[e.dst].line>>
        callers == ToolCallersGraph(g, q)
        callees == ToolCalleesGraph(g, q)
        impact  == ToolImpactGraph(g, q)
    IN  /\ Covers(callers, [k \in DOMAIN callers.hits |-> Key(callers.hits[k])], {site(e) : e \in Into(g, defs)}, max)
        /\ Covers(callees, [k \in DOMAIN callees.hits |-> Key(callees.hits[k])],
                  {callee(e) : e \in {e \in g.edges : e.src \in defs /\ e.kind \in structuralEdgeSQL}}, max)
        /\ Covers(impact, impact.hits,
                  {g.node[e.src].file : e \in Into(g, Within(g, defs, impactDepth(q.depth) - 1))}, max)

-----------------------------------------------------------------------------
(* Affected tests.  A tree t has                                           *)
(*   mod, npm   [directory -> name] where a go.mod or package.json names   *)
(*              one; imports: <<file, import path>> of the index           *)
(*   files      the files of the index, as [dir, base, test]               *)

clampedDepth(d) == IF d < 1 \/ d > maxAffectedDepth THEN defaultAffectedDepth ELSE d

\* The nearest name at or above dir, with the rest of the path behind it.
Named(names, dir) ==
    LET above == {k \in 0 .. Len(dir) : SubSeq(dir, 1, k) \in DOMAIN names}
        k == Max(above)
    IN  IF above = {} THEN <<>> ELSE names[SubSeq(dir, 1, k)] \o SubSeq(dir, k + 1, Len(dir))
fileToPackage(t, dir) ==
    LET go == Named(t.mod, dir)
        js == Named(t.npm, dir)
    IN  IF go # <<>> THEN go ELSE IF js # <<>> THEN js ELSE <<Last(dir)>>

\* By the package or anything below it.
findImportersCtx(t, file) == {i[1] : i \in {i \in t.imports : IsPrefix(fileToPackage(t, file.dir), i[2])}}
\* Tests of a directory rarely import what they test.
testsBeside(t, file) == IF file.test THEN {} ELSE {f \in t.files : f.dir = file.dir /\ f.test}

\* One file of the queue: one marked before is not searched again.
Visit(t, at, file) ==
    LET now == at.marked \cup {file} \cup testsBeside(t, file)
    IN  IF file \in at.marked THEN at
        ELSE [marked |-> now, next |-> at.next \o SetToSeq(findImportersCtx(t, file) \ now)]
Level(t, queue, marked) ==
    LET at[i \in 0 .. Len(queue)] == IF i = 0 THEN [marked |-> marked, next |-> <<>>] ELSE Visit(t, at[i - 1], queue[i])
    IN  at[Len(queue)]
\* An empty queue ends the loop: a level without files marks none.
Levels(t, n, queue) ==
    LET at[k \in Nat] == IF k = 0 THEN [marked |-> {}, next |-> queue]
                         ELSE LET last == at[k - 1] IN Level(t, last.next, last.marked)
    IN  at[n].marked
\* Inputs outside the workspace are reported, not searched.
ToolAffected(t, inputs, depth) ==
    {f \in Levels(t, clampedDepth(depth), SetToSeq({f \in inputs : f.inside})) : f.test}

\* No test is missed or invented: exactly the tests among the changed files
\* and those that import them, directly or through others, and beside them,
\* although a file marked by the test beside it is never searched itself.
Reach(t, start, n) ==
    LET R[k \in Nat] == IF k = 0 THEN start ELSE R[k - 1] \cup UNION {findImportersCtx(t, f) : f \in R[k - 1]} IN R[n]
AffectedExact(t, inputs, depth) ==
    LET reached == Reach(t, {f \in inputs : f.inside}, clampedDepth(depth) - 1)
    IN  ToolAffected(t, inputs, depth)
          = {f \in reached \cup UNION {testsBeside(t, f) : f \in reached} : f.test}
=============================================================================
