----------------------------- MODULE GraphAnswers -----------------------------
(***************************************************************************)
(* What GraphTools and Explore must answer about every index and every     *)
(* tree that is built as an input: the questions asked of each are         *)
(* constants.  The builders are in MCAlgorithms, the proofs in             *)
(* Projects_proofs.                                                        *)
(***************************************************************************)
EXTENDS Sessions, Explore, Integers

CONSTANTS Question,  \* of an index: the arguments of callers, callees and impact
          Change,    \* of a tree: sets of changed files
          Depth,     \* of a tree: how far to follow importers, as asked
          FlowQuery, AnswerQuery \* of an index, with sizes: what explore is asked

\* An index as the store keeps it: rows with ids, edges between them.  Files
\* are numbered in the order of their names.
IsIndex(g) ==
    /\ IsFiniteSet(DOMAIN g.node) /\ DOMAIN g.node \subseteq Nat
    /\ \A i \in DOMAIN g.node : g.node[i].file \in Nat
    /\ IsFiniteSet(g.edges)
    /\ \A e \in g.edges : {e.src, e.dst} \subseteq DOMAIN g.node /\ e.line \in Nat

\* The import statements of a tree are finitely many.
IsTree(t) == IsFiniteSet(t.imports)

\* An index with the sizes of what it shows.
IsSized(g) ==
    /\ IsFiniteSet(DOMAIN g.node) /\ DOMAIN g.node \subseteq Nat
    /\ \A i \in DOMAIN g.node : {g.node[i].file, g.node[i].meta, g.node[i].body} \subseteq Nat
    /\ IsFiniteSet(g.edges)
    /\ \A e \in g.edges : {e.src, e.dst} \subseteq DOMAIN g.node
    /\ g.count \in Nat

ASSUME QuestionAssumption == \A q \in Question : {q.max, q.depth} \subseteq Int
ASSUME ChangeAssumption   == (\A S \in Change : IsFiniteSet(S)) /\ Depth \subseteq Int

\* What explore is asked: the words, and what a text search finds for them.
IsQuery(q) ==
    /\ Len(q.tokens) \in Nat /\ DOMAIN q.tokens = 1 .. Len(q.tokens)
    /\ IsFiniteSet(q.text) /\ q.text \subseteq Nat /\ q.max \in Int

ASSUME QueryAssumption == \A q \in FlowQuery \cup AnswerQuery : IsQuery(q)

\* Callers, callees, impact and affected tests are complete and exact.
GraphToolsExact ==
    /\ input.of = "graph" => \A q \in Question : GraphAnswersExact(input, q)
    /\ input.of = "tree" => \A changed \in Change, depth \in Depth : AffectedExact(input, changed, depth)

\* The flow that explore shows is a call path, the longest of the shortest
\* ones, and its answer accounts for every file within its budget.
ExploreHonest ==
    /\ input.of = "flow" => \A q \in FlowQuery : FlowIsCallPath(input, q)
    /\ input.of = "answer" => \A q \in AnswerQuery : AnswerIsPacked(input, q)
=============================================================================
