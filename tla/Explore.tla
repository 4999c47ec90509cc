------------------------------- MODULE Explore -------------------------------
(***************************************************************************)
(* The explore tool: the flow among the symbols a query names              *)
(* (internal/tools/explore_flow.go), the symbols it shows and how they are *)
(* packed into an answer of bounded size (exploreQuery, gatherExploreNodes *)
(* of internal/tools/graph.go, and explore_budget.go).                     *)
(*                                                                         *)
(* An index g has                                                          *)
(*   node   [id -> [name, kind, container, file, meta, body]]: meta is the *)
(*          length of the lines about the node, body of its source         *)
(*   edges  [src, dst, kind], one of each pair; low, the files of tests    *)
(*   count  of its files                                                   *)
(* A query q has tokens, each [full, tail, segs]; root, the files under    *)
(* the asked path; text, what a text search of the query finds; max and    *)
(* skipCode.  Names are folded, a body is cut at the exact length, and the *)
(* caps on named symbols (40) and on nodes searched (1500) are left out.   *)
(***************************************************************************)
EXTENDS GraphTools

CONSTANTS specificMax, pickMax, seedMax, maxHops

ASSUME ExploreAssumption == {specificMax, pickMax, seedMax, maxHops} \subseteq Nat \ {0} /\ maxHops > 1

Upto(s, n) == SubSeq(s, 1, Min({n, Len(s)}))
isExploreCallable(kind) == kind \in {"function", "method", "component", "constructor"}

\* By the whole token, else by its last segment.
NamedBy(g, t) ==
    LET by(name) == {i \in DOMAIN g.node : g.node[i].name = name}
    IN  IF by(t.full) # {} THEN by(t.full) ELSE by(t.tail)
findCallableSymbols(g, t) == {i \in NamedBy(g, t) : isExploreCallable(g.node[i].kind)}

\* The symbols a token names, inside the root: few are all meant, of many
\* the ones whose container is named too.
Hits(g, q, t) == {i \in findCallableSymbols(g, t) : g.node[i].file \in q.root}
specific(g, q, t) == Cardinality(Hits(g, q, t)) <= specificMax
picked(g, q, t) ==
    LET segPool == UNION {q.tokens[k].segs : k \in DOMAIN q.tokens}
        hits == Hits(g, q, t)
    IN  Upto(Ascending(IF specific(g, q, t) THEN hits ELSE {i \in hits : g.node[i].container \in segPool}), pickMax)
\* Those of new that are shown and not in the list yet, while there is room.
AddAll(out, new, shown, room) ==
    LET at[i \in 0 .. Len(new)] ==
          IF i = 0 THEN out
          ELSE IF Len(at[i - 1]) >= room \/ new[i] \notin shown \ ToSet(at[i - 1]) THEN at[i - 1]
          ELSE Append(at[i - 1], new[i])
    IN  at[Len(new)]
AddEach(out, new, shown) == AddAll(out, new, shown, Len(out) + Len(new))
namedOrder(g, q) ==
    LET at[k \in 0 .. Len(q.tokens)] == IF k = 0 THEN <<>> ELSE AddEach(at[k - 1], picked(g, q, q.tokens[k]), DOMAIN g.node)
    IN  at[Len(q.tokens)]

\* The search from one seed, in the order of the queue.  parent holds what
\* has been seen; an unnamed node may follow only a named one.
M_Callees(g, q, id) == {e.dst : e \in {e \in g.edges : e.src = id /\ e.kind \in structuralEdgeSQL}}
Callees(g, q, id) == {e.dst : e \in {e \in g.edges : e.src = id /\ e.kind \in structuralEdgeSQL
                                                     /\ g.node[e.dst].file \in q.root}}
FlowRound(g, q, named, s) ==
    LET cur == Head(s.queue)
        now == IF cur.id \in named /\ cur.d > s.deep.d THEN cur ELSE s.deep
        new == Ascending({c \in Callees(g, q, cur.id) \ DOMAIN s.parent :
                              cur.d < maxHops - 1 /\ (c \in named \/ cur.streak = 0)})
        streak(c) == IF c \in named THEN 0 ELSE cur.streak + 1
    IN  IF s.queue = <<>> THEN s
        ELSE [queue  |-> Tail(s.queue) \o [k \in DOMAIN new |-> [id |-> new[k], d |-> cur.d + 1, streak |-> streak(new[k])]],
              parent |-> [c \in DOMAIN s.parent \cup ToSet(new) |-> IF c \in DOMAIN s.parent THEN s.parent[c] ELSE cur.id],
              deep   |-> now]
FlowSearch(g, q, named, seed) ==
    LET start == [id |-> seed, d |-> 0, streak |-> 0]
        at[k \in Nat] == IF k = 0 THEN [queue |-> <<start>>, parent |-> [c \in {seed} |-> seed], deep |-> start]
                         ELSE FlowRound(g, q, named, at[k - 1])
    IN  at[Cardinality(DOMAIN g.node)]
\* From id back to the seed, turned round.
Chain(parent, seed, id) ==
    LET up[k \in Nat] == IF k = 0 THEN id ELSE parent[up[k - 1]]
        n == Min({k \in 0 .. Cardinality(DOMAIN parent) : up[k] = seed})
    IN  [k \in 1 .. n + 1 |-> up[n + 1 - k]]

FlowFrom(g, q, named, seed) ==
    LET s == FlowSearch(g, q, named, seed) IN IF s.deep.d = 0 THEN <<>> ELSE Chain(s.parent, seed, s.deep.id)

\* The first of the longest chains; fewer than two named symbols have none.
Longest(g, q, order) ==
    LET seeds == Upto(order, seedMax)
        best[k \in 0 .. Len(seeds)] ==
          IF k = 0 THEN <<>>
          ELSE LET chain == FlowFrom(g, q, ToSet(order), seeds[k])
               IN  IF Len(chain) > Len(best[k - 1]) THEN chain ELSE best[k - 1]
    IN  IF Len(order) < 2 THEN [path |-> <<>>, named |-> <<>>] ELSE [path |-> best[Len(seeds)], named |-> order]
buildFlowFromNamedSymbols(g, q) == Longest(g, q, IF Len(q.tokens) < 2 THEN <<>> ELSE namedOrder(g, q))

\* The flow is the spine of the answer: a chain of calls inside the root
\* from a named symbol to another, without two unnamed ones in a row or a
\* repetition, and as far as the calls reach: its length is the distance of
\* the named symbol that is farthest from its seed.
CallStep(g, q, named, a, b) == (a \in named \/ b \in named) /\ b \in Callees(g, q, a)
Spread(g, q, named, seed, n) ==
    LET R[k \in Nat] == IF k = 0 THEN {seed} ELSE R[k - 1] \cup {b \in DOMAIN g.node : \E a \in R[k - 1] : CallStep(g, q, named, a, b)}
    IN  R[n]
IsCallPath(g, q, path, named, seeds) ==
    LET far == {k \in 1 .. maxHops - 1 : \E s \in seeds, n \in named :
                    n \in Spread(g, q, named, s, k) \ Spread(g, q, named, s, k - 1)}
    IN  /\ path # <<>> =>
              /\ \A k \in 1 .. Len(path) - 1 : CallStep(g, q, named, path[k], path[k + 1])
              /\ IsInjective(path) /\ {path[1], path[Len(path)]} \subseteq named
              /\ {g.node[n].file : n \in ToSet(path)} \subseteq q.root
        /\ Len(path) = IF far = {} THEN 0 ELSE Max(far) + 1
FlowIsCallPath(g, q) ==
    LET flow == buildFlowFromNamedSymbols(g, q)
    IN  IsCallPath(g, q, flow.path, ToSet(flow.named), ToSet(Upto(flow.named, seedMax)))

-----------------------------------------------------------------------------
(* The answer.                                                             *)

\* explore_budget.go: by the number of files of the index.
GetExploreOutputBudget(n) ==
    [max |-> IF n < 150 THEN 13000 ELSE IF n < 500 THEN 18000 ELSE 24000,
     files |-> IF n < 150 THEN 4 ELSE IF n < 500 THEN 5 ELSE 8,
     perFile |-> IF n < 500 THEN 3800 ELSE IF n < 5000 THEN 6500 ELSE 7000,
     excludeLow |-> n < 500, tells |-> n >= 500]

\* Spine and named symbols first, then what each token finds, to a cap.
gatherExploreNodes(g, q, flow, capN) ==
    LET shown == {i \in DOMAIN g.node : g.node[i].kind \notin {"file", "module"} /\ g.node[i].file \in q.root}
        found(t) == IF findCallableSymbols(g, t) # {} THEN findCallableSymbols(g, t) ELSE NamedBy(g, t)
        at[k \in 0 .. Len(q.tokens)] == IF k = 0 THEN AddEach(<<>>, flow.path \o flow.named, shown)
                                        ELSE AddAll(at[k - 1], Ascending(found(q.tokens[k])), shown, capN)
        out == at[Len(q.tokens)]
    IN  IF out = <<>> THEN AddEach(<<>>, Upto(Ascending(q.text), capN), shown) ELSE out

\* Files in the order of their score; equal ones by name (a number here).
Score(g, flow, nodes, f) ==
    LET worth(i) == (IF i \in ToSet(flow.path) THEN 100 ELSE 0) + (IF i \in ToSet(flow.named) THEN 50 ELSE 0)
                    + (IF isExploreCallable(g.node[i].kind) THEN 1 ELSE 0)
        sum[k \in 0 .. Len(nodes)] == IF k = 0 THEN 0 ELSE sum[k - 1] + IF g.node[nodes[k]].file = f THEN worth(nodes[k]) ELSE 0
    IN  sum[Len(nodes)]
Groups(g, flow, nodes) ==
    LET s(f) == Score(g, flow, nodes, f)
        files == {g.node[nodes[k]].file : k \in DOMAIN nodes}
    IN  Ordered(files, {p \in files \X files : s(p[1]) > s(p[2]) \/ (s(p[1]) = s(p[2]) /\ p[1] < p[2])})

Minus(a, b) == IF a > b THEN a - b ELSE 0
Larger(a, b) == IF a > b THEN a ELSE b
fences == 12
trimNote == 35

\* One symbol in the section of the file f.  A body is cut to the room that
\* is left; where none is left a spine symbol is written whole.
AddSymbol(g, flow, b, f, room, skipCode, necessary, total, sec, i) ==
    LET n == g.node[i]
        taken == sec.used + n.meta + 32
        left  == Minus(room, taken)
        body  == IF n.body = 0 THEN 0 ELSE IF skipCode THEN fences
                 ELSE fences + IF left > 0 /\ n.body > left THEN left + trimNote ELSE n.body
        crowded == n.body > 0 /\ ~skipCode /\ left < 80 /\ sec.used > 0 /\ i \notin ToSet(flow.path)
        over == ~necessary /\ total + sec.size + n.meta + body + 200 > b.max
        size == n.meta + body
    IN  IF sec.done \/ n.file # f \/ crowded THEN sec
        ELSE IF over THEN [sec EXCEPT !.done = TRUE]
        ELSE [size |-> sec.size + size, used |-> sec.used + size, done |-> sec.used + size >= room]

\* What a file may take: its share, a spine file more of what remains.
fileRoom(b, total, necessary) ==
    LET remaining == Minus(b.max, total + 200)
        spine == IF remaining > 0 THEN Min({(b.perFile * 5) \div 2, remaining}) ELSE (b.perFile * 5) \div 2
    IN  IF necessary THEN Larger(b.perFile, spine) ELSE Min({b.perFile, remaining})

hardCeiling(b) == Larger(b.max, Min({(b.max * 3) \div 2, 25000}))
Necessary(g, flow, nodes, f) ==
    \E k \in DOMAIN nodes : g.node[nodes[k]].file = f /\ nodes[k] \in ToSet(flow.path) \cup ToSet(flow.named)

Section(g, flow, b, f, room, skipCode, necessary, total, nodes) ==
    LET at[k \in 0 .. Len(nodes)] == IF k = 0 THEN [size |-> 60, used |-> 0, done |-> FALSE]
                                     ELSE AddSymbol(g, flow, b, f, room, skipCode, necessary, total, at[k - 1], nodes[k])
    IN  at[Len(nodes)]
\* One file of the answer: shown, put off, or never reached.
AddFile(g, q, flow, b, maxFiles, nodes, ans, f) ==
    LET must == Necessary(g, flow, nodes, f)
        sec == Section(g, flow, b, f, fileRoom(b, ans.total, must), q.skipCode, must, ans.total, nodes)
        skip == \/ Len(ans.shown) >= maxFiles
                \/ b.excludeLow /\ ~must /\ f \in g.low
                \/ ~must /\ ans.total > (b.max * 9) \div 10
                \/ ~must /\ ans.total + sec.size + 200 > b.max
        total == ans.total + sec.size + 1
    IN  IF ans.full THEN ans
        ELSE IF skip THEN [ans EXCEPT !.skipped = Append(@, f)]
        ELSE [ans EXCEPT !.shown = Append(@, f), !.total = total, !.full = total >= hardCeiling(b)]

maxFilesOf(q, b) == IF q.max < 1 THEN b.files ELSE Min({q.max, 100})
\* The header and the flow take some 160 characters.
Pack(g, q, b, flow, nodes) ==
    LET files == Groups(g, flow, nodes)
        at[k \in 0 .. Len(files)] ==
          IF k = 0 THEN [shown |-> <<>>, skipped |-> <<>>, total |-> 160, full |-> FALSE, nodes |-> nodes, flow |-> flow]
          ELSE AddFile(g, q, flow, b, maxFilesOf(q, b), nodes, at[k - 1], files[k])
    IN  at[Len(files)]
PackFor(g, q, b, flow) == Pack(g, q, b, flow, gatherExploreNodes(g, q, flow, maxFilesOf(q, b) * 4))
exploreQuery(g, q) == PackFor(g, q, GetExploreOutputBudget(g.count), buildFlowFromNamedSymbols(g, q))

\* No file is lost in the packing: each is shown or put off, once, unless
\* the answer has reached its ceiling; a file of the spine or of a named
\* symbol is put off only for the limit on files; and files that are
\* neither never push an answer past what its tier allows, which grows with
\* the index (explore_budget.go: "a larger tier never gets a smaller").
IsPacked(g, q, b, ans) ==
    LET must(f) == Necessary(g, ans.flow, ans.nodes, f)
        all == {g.node[ans.nodes[k]].file : k \in DOMAIN ans.nodes}
    IN  /\ IsInjective(ans.shown \o ans.skipped) /\ ToSet(ans.shown \o ans.skipped) \subseteq all
        /\ ~ans.full => ToSet(ans.shown \o ans.skipped) = all
        /\ \A f \in ToSet(ans.skipped) : must(f) => Len(ans.shown) = maxFilesOf(q, b)
        /\ (\A f \in ToSet(ans.shown) : ~must(f)) => ans.total <= b.max
        /\ \A n \in {0, 149, 150, 499, 500, 4999, 5000, 15000} : n <= g.count =>
              LET s == GetExploreOutputBudget(n) IN s.max <= b.max /\ s.perFile <= b.perFile
AnswerIsPacked(g, q) == IsPacked(g, q, GetExploreOutputBudget(g.count), exploreQuery(g, q))
=============================================================================
