----------------------------- MODULE Migration -----------------------------
(***************************************************************************)
(* db.Open from the index lock on: the repair of an interrupted rebuild of *)
(* the edges table, schema.sql, ensureSchema and the two FTS steps         *)
(* (internal/db/connection.go, migrate.go), on any database that a         *)
(* released build can have left behind.                                    *)
(*                                                                         *)
(* A statement that commits on its own is one step, and so is a            *)
(* transaction: the process may die between any two, and any of them may   *)
(* fail, which makes Open return.  The lock admits one opener at a time.   *)
(* The columns that ALTER TABLE adds to a table are added in one step: the *)
(* next Open adds those that a crash left out.                             *)
(***************************************************************************)
EXTENDS MigrationState

disk == <<table, edgesTable, edgesNew, fts, idx>>
vars == <<disk, fk, pc, index, faults>>

(***************************************************************************)
(* What Open may find.  Builds before the transaction rebuilt edges one    *)
(* statement after the other and could die after each: behind CREATE,      *)
(* INSERT .. SELECT, DROP and RENAME.                                      *)
(***************************************************************************)
Interrupted(rs) ==
    {<<Keyed(3, TRUE, rs), Keyed(5, TRUE, {})>>, <<Keyed(3, TRUE, rs), Keyed(5, TRUE, rs)>>,
     <<NoTable, Keyed(5, TRUE, rs)>>, <<Keyed(5, TRUE, rs), NoTable>>}
AtRest(rs) == {<<Keyed(3, FALSE, rs), NoTable>>, <<Keyed(3, TRUE, rs), NoTable>>}
Fresh == [t \in Table |-> "absent"]
Old   == {"old", "current"}

Init ==
    /\ \/ /\ table = Fresh /\ edgesTable = NoTable /\ edgesNew = NoTable /\ fts = NoFTS /\ index = {}
       \/ /\ index \in SUBSET Row
          /\ table \in [Table -> Old \cup {"absent"}] /\ table["nodes"] \in Old /\ table["files"] \in Old
          /\ \E found \in Interrupted(index) \cup AtRest(index) :
                edgesTable = found[1] /\ edgesNew = found[2]
          /\ fts \in {NoFTS, [made |-> "plain", full |-> TRUE], [made |-> "token", full |-> TRUE]}
    /\ idx = {} /\ fk = FALSE /\ pc = "closed" /\ faults = 0

To(p) == pc' = p
At(p, q) == pc = p /\ pc' = q

\* The lock is taken, the connection is new: foreign_keys=ON.
Lock == /\ At("closed", "recover") /\ fk' = TRUE /\ UNCHANGED <<disk, index, faults>>

(***************************************************************************)
(* recoverEdgesRebuild: with edges in place a copy is stale; without it    *)
(* the copy holds the only rows and is renamed and indexed at once.        *)
(***************************************************************************)
M_Recover ==
    /\ At("recover", "schema")
    /\ edgesNew' = NoTable
    /\ UNCHANGED <<table, edgesTable, idx, fts, fk, index, faults>>

Recover ==
    /\ At("recover", "schema")
    /\ IF edgesNew = NoTable \/ edgesTable # NoTable
         THEN UNCHANGED <<edgesTable, idx>>
         ELSE edgesTable' = edgesNew /\ idx' = idx \cup {"edges", "provenance"}
    /\ edgesNew' = NoTable
    /\ UNCHANGED <<table, fts, fk, index, faults>>

(***************************************************************************)
(* schema.sql: CREATE TABLE and CREATE INDEX IF NOT EXISTS, in its order.  *)
(***************************************************************************)
Made(t) == t \in Table => table[t] # "absent"
Before(t) ==
    CASE t = "nodes" -> {} [] t = "edges" -> {"nodes"} [] t = "files" -> {"nodes", "edges"}
      [] t = "refs" -> {"nodes", "files"} [] t = "facts" -> Table \ {"facts"}

CreateTable(t) ==
    /\ pc = "schema" /\ To("schema") /\ ~Made(t) /\ \A u \in Before(t) : Made(u)
    /\ table' = [table EXCEPT ![t] = "current"]
    /\ UNCHANGED <<edgesTable, edgesNew, fts, idx, fk, index, faults>>

CreateEdges ==
    /\ pc = "schema" /\ To("schema") /\ edgesTable = NoTable /\ Made("nodes")
    /\ edgesTable' = Keyed(5, TRUE, {})
    /\ UNCHANGED <<table, edgesNew, fts, idx, fk, index, faults>>

\* A new nodes_fts has no row for the nodes that exist.
CreateFTS(from, to) ==
    /\ pc = from /\ To(to) /\ fts = NoFTS /\ edgesTable # NoTable /\ \A t \in Table \ {"facts"} : Made(t)
    /\ fts' = [made |-> "token", full |-> FALSE]
    /\ UNCHANGED <<table, edgesTable, edgesNew, idx, fk, index, faults>>

SchemaIndexes ==
    /\ At("schema", "nodeColumns")
    /\ edgesTable # NoTable /\ fts # NoFTS /\ \A t \in Table : Made(t)
    /\ idx' = idx \cup {"edges", "factsHash"}
    /\ UNCHANGED <<table, edgesTable, edgesNew, fts, fk, index, faults>>

(***************************************************************************)
(* ensureSchema.                                                           *)
(***************************************************************************)
AddColumns(t, p, q) ==
    /\ At(p, q) /\ table' = [table EXCEPT ![t] = "current"]
    /\ UNCHANGED <<edgesTable, edgesNew, fts, idx, fk, index, faults>>

M_AddEdgeColumns ==
    /\ At("edgeColumns", "dropStale")
    /\ UNCHANGED <<table, edgesTable, edgesNew, fts, idx, fk, index, faults>>

AddEdgeColumns ==
    /\ At("edgeColumns", "dropStale") /\ edgesTable' = [edgesTable EXCEPT !.current = TRUE]
    /\ UNCHANGED <<table, edgesNew, fts, idx, fk, index, faults>>

\* rebuildEdgesUniqueKey: nothing to do when the key has line and col.
DropStale ==
    /\ pc = "dropStale" /\ edgesNew' = NoTable
    /\ IF edgesTable.key = 5 THEN To("factsKey") /\ UNCHANGED fk ELSE To("rebuild") /\ fk' = FALSE
    /\ UNCHANGED <<table, edgesTable, fts, idx, index, faults>>

\* The copy reads every current column of edges; DROP takes the indexes along.
Rebuild ==
    /\ At("rebuild", "fkOn") /\ edgesTable.current
    /\ edgesTable' = [edgesTable EXCEPT !.key = 5] /\ edgesNew' = NoTable
    /\ idx' = idx \cup {"edges", "provenance"}
    /\ UNCHANGED <<table, fts, fk, index, faults>>

\* A failed transaction is rolled back, a copy left behind is dropped.
RebuildFails ==
    /\ At("rebuild", "closed") /\ edgesNew' = NoTable /\ fk' = FALSE
    /\ edgesTable.current => faults < MaxFaults
    /\ faults' = IF edgesTable.current THEN faults + 1 ELSE faults
    /\ UNCHANGED <<table, edgesTable, fts, idx, index>>

ForeignKeysOn ==
    /\ At("fkOn", "factsKey") /\ fk' = TRUE /\ UNCHANGED <<disk, index, faults>>

\* rebuildFactsHashKey: UNIQUE(content_hash) of the table becomes an index per
\* target, in one transaction.  The other tables and the indexes follow.
FactsKey ==
    /\ At("factsKey", "fileColumns")
    /\ table' = [table EXCEPT !["facts"] = "current"] /\ idx' = idx \cup {"factsHash"}
    /\ UNCHANGED <<edgesTable, edgesNew, fts, fk, index, faults>>

EnsureIndexes ==
    /\ At("indexes", "tokenize") /\ idx' = idx \cup {"provenance", "added"}
    /\ UNCHANGED <<table, edgesTable, edgesNew, fts, fk, index, faults>>

(***************************************************************************)
(* ensureFTSTokenize and ensureFTSBackfill.                                *)
(***************************************************************************)
DropFTS ==
    /\ pc = "tokenize"
    /\ IF fts.made = "token" THEN To("backfill") /\ UNCHANGED fts
                             ELSE To("remakeFTS") /\ fts' = NoFTS
    /\ UNCHANGED <<table, edgesTable, edgesNew, idx, fk, index, faults>>

M_Backfill(p, q) == At(p, q) /\ UNCHANGED <<disk, fk, index, faults>>

\* The rows of nodes_fts_docsize are compared with those of nodes.
Backfill(p, q) ==
    /\ At(p, q) /\ fts' = [fts EXCEPT !.full = TRUE]
    /\ UNCHANGED <<table, edgesTable, edgesNew, idx, fk, index, faults>>

(***************************************************************************)
(* The open index, and what ends it or an Open.                            *)
(***************************************************************************)
AddEdge(r) ==
    /\ pc = "open" /\ To("open") /\ r \notin index
    /\ edgesTable' = [edgesTable EXCEPT !.rows = @ \cup {r}] /\ index' = index \cup {r}
    /\ UNCHANGED <<table, edgesNew, fts, idx, fk, faults>>

Close == At("open", "closed") /\ fk' = FALSE /\ UNCHANGED <<disk, index, faults>>

\* The process dies, or a statement fails; nothing of the statement is left.
Fault ==
    /\ pc # "closed" /\ faults < MaxFaults /\ faults' = faults + 1
    /\ To("closed") /\ fk' = FALSE /\ UNCHANGED <<disk, index>>

OpenStep ==
    \/ Lock \/ Recover
    \/ \E t \in Table : CreateTable(t)
    \/ CreateEdges \/ CreateFTS("schema", "schema") \/ SchemaIndexes
    \/ AddColumns("nodes", "nodeColumns", "edgeColumns")
    \/ AddEdgeColumns \/ DropStale \/ Rebuild \/ RebuildFails \/ ForeignKeysOn
    \/ FactsKey
    \/ AddColumns("files", "fileColumns", "refColumns") \/ AddColumns("refs", "refColumns", "indexes")
    \/ EnsureIndexes \/ DropFTS \/ CreateFTS("remakeFTS", "retoken")
    \/ Backfill("retoken", "backfill") \/ Backfill("backfill", "open")

Next == OpenStep \/ Fault \/ Close \/ \E r \in Row : AddEdge(r)

Spec == Init /\ [][Next]_vars /\ WF_vars(OpenStep)

-----------------------------------------------------------------------------

\* No database left behind keeps Open from succeeding once faults stop.
OpensAtLast == (pc = "closed") ~> (pc = "open")
=============================================================================
