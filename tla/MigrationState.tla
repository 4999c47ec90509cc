--------------------------- MODULE MigrationState ---------------------------
(***************************************************************************)
(* A database as db.Open sees it (internal/db/schema.sql, migrate.go), and *)
(* what Open promises of it.  The steps of Open are in Migration.          *)
(***************************************************************************)
EXTENDS Naturals, FiniteSets

CONSTANTS
    Row,        \* edges
    MaxFaults   \* crashes and failed statements in a behaviour

ASSUME MigrationAssumption == IsFiniteSet(Row) /\ MaxFaults \in Nat

VARIABLES
    table,      \* per table other than edges and nodes_fts: its columns, or that it is absent
    edgesTable, \* the edges table: its unique key, whether its columns are current, its rows
    edgesNew,   \* the copy that a rebuild of edges makes
    fts,        \* nodes_fts, without or with the tokenize clause, and whether it covers nodes
    idx,        \* the indexes that exist, of those that Open makes sure of
    fk,         \* foreign_keys of the connection
    pc,         \* how far Open is
    index,      \* the edges that the index consists of
    faults

Table   == {"nodes", "files", "refs", "facts"}
Indexes == {"edges", "provenance", "factsHash", "added"}
NoTable == [key |-> 0, current |-> FALSE, rows |-> {}]
NoFTS   == [made |-> "no", full |-> FALSE]
Keyed(k, cur, rs) == [key |-> k, current |-> cur, rows |-> rs]

-----------------------------------------------------------------------------
TypeOK ==
    /\ table \in [Table -> {"absent", "old", "current"}]
    /\ edgesTable \in [key : {0, 3, 5}, current : BOOLEAN, rows : SUBSET Row]
    /\ edgesNew \in [key : {0, 5}, current : BOOLEAN, rows : SUBSET Row]
    /\ fts \in [made : {"no", "plain", "token"}, full : BOOLEAN]
    /\ idx \subseteq Indexes /\ fk \in BOOLEAN /\ index \subseteq Row /\ faults \in 0 .. MaxFaults

\* A rebuild of the edges table that died anywhere loses no edge: the table
\* that Open trusts holds all of them ("edges_new as the only copy of the edge
\* data, and schema.sql would otherwise recreate an empty edges, orphaning every
\* row", migrate.go).
EdgesSurvive == (IF edgesTable # NoTable THEN edgesTable.rows ELSE edgesNew.rows) = index

\* Whatever was found on the disk and however often Open died before, the
\* database that it returns has the current keys, columns, indexes and a full
\* text index of every node, enforces foreign keys, and has no copy left.
OpenedIsCurrent ==
    pc = "open" =>
        /\ edgesTable.key = 5 /\ edgesTable.current /\ edgesNew = NoTable
        /\ \A t \in Table : table[t] = "current"
        /\ fts = [made |-> "token", full |-> TRUE] /\ idx = Indexes /\ fk
=============================================================================
