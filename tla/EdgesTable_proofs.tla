-------------------------- MODULE EdgesTable_proofs --------------------------
(***************************************************************************)
(* Proofs about the two components that rewrite the table of edges:        *)
(* Migration, whose Open rebuilds it under a wider key, and Synthesis,     *)
(* whose passes replace the edges they made.  For any set of edges and any *)
(* number of faults no edge is lost in a rebuild, and what Open returns is *)
(* current.  For any files and texts every edge stands for something in    *)
(* them, and everything in them for an edge or a ref.                      *)
(***************************************************************************)
EXTENDS Synthesis, MigrationState, TLAPS

(***************************************************************************)
(* Migration.                                                              *)
(***************************************************************************)
M == INSTANCE Migration

\* A table that is absent has nothing, and one with the wide key has every
\* column: only the copy of a rebuild has that key before it is in place.
Tables ==
    /\ edgesTable.key = 0 => edgesTable = M!NoTable
    /\ edgesNew.key = 0 => edgesNew = M!NoTable
    /\ edgesTable.key = 5 => edgesTable.current
    /\ edgesNew.key = 5 => edgesNew.current

\* The places of Open behind each of its steps.
AfterIndexes  == {"tokenize", "remakeFTS", "retoken", "backfill", "open"}
AfterRefs     == {"indexes"} \cup AfterIndexes
AfterFiles    == {"refColumns"} \cup AfterRefs
AfterFacts    == {"fileColumns"} \cup AfterFiles
AfterKey      == {"fkOn", "factsKey"} \cup AfterFacts
AfterEdges    == {"dropStale", "rebuild"} \cup AfterKey
AfterNodes    == {"edgeColumns"} \cup AfterEdges
AfterSchema   == {"nodeColumns"} \cup AfterNodes
AfterRecovery == {"schema"} \cup AfterSchema

\* What has been done stays done while this Open goes on.
Recovered == pc \in AfterRecovery => edgesNew = M!NoTable
Created   == pc \in AfterSchema => /\ edgesTable # M!NoTable /\ \A t \in M!Table : table[t] # "absent"
                                   /\ "edges" \in idx /\ "factsHash" \in idx
Upgraded  ==
    /\ pc \in AfterNodes => table["nodes"] = "current"
    /\ pc \in AfterEdges => edgesTable.current
    /\ pc \in AfterKey => edgesTable.key = 5
    /\ pc \in AfterFacts => table["facts"] = "current"
    /\ pc \in AfterFiles => table["files"] = "current"
    /\ pc \in AfterRefs => table["refs"] = "current"
    /\ pc \in AfterIndexes => "provenance" \in idx /\ "added" \in idx
Searchable ==
    /\ pc \in {"retoken", "backfill", "open"} => fts.made = "token"
    /\ pc = "open" => fts.full
Enforced == pc \in ({"recover"} \cup AfterRecovery) \ {"rebuild", "fkOn"} => fk

Inv == /\ M!TypeOK /\ M!EdgesSurvive /\ Tables
       /\ Recovered /\ Created /\ Upgraded /\ Searchable /\ Enforced
-----------------------------------------------------------------------------
USE MigrationAssumption DEF MigrationAssumption
USE DEF M!disk, M!At, M!To

\* The types of the two tables of edges and of the text index.
EdgeTable == [key : {0, 3, 5}, current : BOOLEAN, rows : SUBSET Row]
EdgeCopy  == [key : {0, 5}, current : BOOLEAN, rows : SUBSET Row]
TextIndex == [made : {"no", "plain", "token"}, full : BOOLEAN]

(* What the steps write is of these types.                                 *)
LEMMA Records ==
    /\ M!NoTable \in EdgeTable /\ M!NoTable \in EdgeCopy /\ M!NoFTS \in TextIndex
    /\ \A rs \in SUBSET Row, cur \in BOOLEAN : M!Keyed(3, cur, rs) \in EdgeTable
    /\ \A rs \in SUBSET Row : M!Keyed(5, TRUE, rs) \in EdgeTable /\ M!Keyed(5, TRUE, rs) \in EdgeCopy
    /\ \A m \in {"no", "plain", "token"}, b \in BOOLEAN : [made |-> m, full |-> b] \in TextIndex
  BY DEF M!NoTable, M!Keyed, M!NoFTS, EdgeTable, EdgeCopy, TextIndex

(* A pair has its two parts.                                              *)
LEMMA Pairs == \A x, y : <<x, y>>[1] = x /\ <<x, y>>[2] = y
  OBVIOUS

(* Whatever database is found, it holds the index.                         *)
LEMMA Found == M!Init => Inv
  <1> SUFFICES ASSUME M!Init PROVE Inv
    OBVIOUS
  <1>1. M!TypeOK
    <2>1. table \in [M!Table -> {"absent", "old", "current"}]
      BY DEF M!Init, M!Fresh, M!Old
    <2>2. idx \subseteq M!Indexes /\ fk \in BOOLEAN /\ faults \in 0 .. MaxFaults
      <3>1. idx = {} /\ fk = FALSE /\ faults = 0
        BY Zenon DEF M!Init
      <3>2. 0 \in 0 .. MaxFaults
        OBVIOUS
      <3> QED BY <3>1, <3>2, Zenon
    <2>3. fts \in TextIndex
      <3>1. fts \in {M!NoFTS, [made |-> "plain", full |-> TRUE], [made |-> "token", full |-> TRUE]}
        BY Zenon DEF M!Init
      <3> QED BY <3>1, Records
    <2>4. CASE edgesTable = M!NoTable /\ edgesNew = M!NoTable /\ index = {} /\ fts = M!NoFTS
      BY <2>1, <2>4, <2>2, Records DEF M!TypeOK, EdgeTable, EdgeCopy, TextIndex
    <2>5. CASE index \in SUBSET Row /\ \E found \in M!Interrupted(index) \cup M!AtRest(index) :
                                           edgesTable = found[1] /\ edgesNew = found[2]
      <3>1. PICK found \in M!Interrupted(index) \cup M!AtRest(index) : edgesTable = found[1] /\ edgesNew = found[2]
        BY <2>5
      <3>2. edgesTable \in EdgeTable /\ edgesNew \in EdgeCopy
        <4>1. CASE found \in M!Interrupted(index)
          <5>1. \/ edgesTable = M!Keyed(3, TRUE, index) /\ edgesNew = M!Keyed(5, TRUE, {})
                \/ edgesTable = M!Keyed(3, TRUE, index) /\ edgesNew = M!Keyed(5, TRUE, index)
                \/ edgesTable = M!NoTable /\ edgesNew = M!Keyed(5, TRUE, index)
                \/ edgesTable = M!Keyed(5, TRUE, index) /\ edgesNew = M!NoTable
            <6>1. \/ found = <<M!Keyed(3, TRUE, index), M!Keyed(5, TRUE, {})>>
                  \/ found = <<M!Keyed(3, TRUE, index), M!Keyed(5, TRUE, index)>>
                  \/ found = <<M!NoTable, M!Keyed(5, TRUE, index)>>
                  \/ found = <<M!Keyed(5, TRUE, index), M!NoTable>>
              BY <4>1, Zenon DEF M!Interrupted
            <6>2. CASE found = <<M!Keyed(3, TRUE, index), M!Keyed(5, TRUE, {})>>
              BY <3>1, <6>2, Pairs, Zenon
            <6>3. CASE found = <<M!Keyed(3, TRUE, index), M!Keyed(5, TRUE, index)>>
              BY <3>1, <6>3, Pairs, Zenon
            <6>4. CASE found = <<M!NoTable, M!Keyed(5, TRUE, index)>>
              BY <3>1, <6>4, Pairs, Zenon
            <6>5. CASE found = <<M!Keyed(5, TRUE, index), M!NoTable>>
              BY <3>1, <6>5, Pairs, Zenon
            <6> QED BY <6>1, <6>2, <6>3, <6>4, <6>5
          <5> QED BY <2>5, <5>1, Records
        <4>2. CASE found \in M!AtRest(index)
          <5>1. \/ edgesTable = M!Keyed(3, FALSE, index) /\ edgesNew = M!NoTable
                \/ edgesTable = M!Keyed(3, TRUE, index) /\ edgesNew = M!NoTable
            <6>1. found = <<M!Keyed(3, FALSE, index), M!NoTable>> \/ found = <<M!Keyed(3, TRUE, index), M!NoTable>>
              BY <4>2, Zenon DEF M!AtRest
            <6>2. CASE found = <<M!Keyed(3, FALSE, index), M!NoTable>>
              BY <3>1, <6>2, Pairs, Zenon
            <6>3. CASE found = <<M!Keyed(3, TRUE, index), M!NoTable>>
              BY <3>1, <6>3, Pairs, Zenon
            <6> QED BY <6>1, <6>2, <6>3
          <5> QED BY <2>5, <5>1, Records
        <4> QED BY <3>1, <4>1, <4>2
      <3> QED BY <2>1, <2>5, <2>2, <2>3, <3>2 DEF M!TypeOK, EdgeTable, EdgeCopy, TextIndex
    <2> QED BY <2>4, <2>5 DEF M!Init
  <1>2. M!EdgesSurvive /\ Tables
    BY DEF M!Init, M!EdgesSurvive, Tables, M!Interrupted, M!AtRest, M!NoTable, M!Keyed
  <1>3. pc = "closed"
    BY DEF M!Init
  <1>4. Recovered /\ Created /\ Upgraded /\ Searchable /\ Enforced
    BY <1>3 DEF Recovered, Created, Upgraded, Searchable, Enforced, AfterRecovery, AfterSchema,
                AfterNodes, AfterEdges, AfterKey, AfterFacts, AfterFiles, AfterRefs, AfterIndexes
  <1> QED BY <1>1, <1>2, <1>4 DEF Inv

USE DEF M!NoTable, M!NoFTS, M!Keyed

(* Types.                                                                  *)
LEMMA TypeStep == Inv /\ [M!Next]_(M!vars) => M!TypeOK'
  <1> SUFFICES ASSUME Inv, [M!Next]_(M!vars) PROVE M!TypeOK'
    OBVIOUS
  <1> USE DEF Inv, M!TypeOK
  <1>1. CASE UNCHANGED M!vars
    BY <1>1 DEF M!vars
  <1>2. CASE M!Lock \/ M!ForeignKeysOn \/ M!Close
    BY <1>2 DEF M!Lock, M!ForeignKeysOn, M!Close
  <1>16. CASE M!Fault
    <2>1. faults' \in 0 .. MaxFaults
      BY <1>16 DEF M!Fault
    <2> QED BY <1>16, <2>1 DEF M!Fault
  <1>3. CASE M!Recover
    BY <1>3 DEF M!Recover, M!Indexes
  <1>4. CASE \E t \in M!Table : M!CreateTable(t)
    BY <1>4 DEF M!CreateTable
  <1>5. CASE M!CreateEdges
    BY <1>5 DEF M!CreateEdges
  <1>6. CASE M!CreateFTS("schema", "schema") \/ M!CreateFTS("remakeFTS", "retoken")
    <2>1. fts' \in TextIndex
      BY <1>6, Records DEF M!CreateFTS
    <2> QED BY <1>6, <2>1 DEF M!CreateFTS, TextIndex
  <1>17. CASE M!DropFTS
    <2>1. fts' = fts \/ fts' = M!NoFTS
      BY <1>17 DEF M!DropFTS
    <2> QED BY <1>17, <2>1, Records DEF M!DropFTS, TextIndex
  <1>7. CASE M!SchemaIndexes \/ M!EnsureIndexes
    BY <1>7 DEF M!SchemaIndexes, M!EnsureIndexes, M!Indexes
  <1>8. ASSUME NEW t \in M!Table, NEW p, NEW q, M!AddColumns(t, p, q) PROVE M!TypeOK'
    BY <1>8 DEF M!AddColumns
  <1>9. CASE M!AddEdgeColumns
    BY <1>9 DEF M!AddEdgeColumns
  <1>10. CASE M!DropStale
    <2>1. fk' \in BOOLEAN /\ edgesNew' \in [key : {0, 5}, current : BOOLEAN, rows : SUBSET Row]
      BY <1>10 DEF M!DropStale
    <2> QED BY <1>10, <2>1 DEF M!DropStale
  <1>18. CASE M!RebuildFails
    <2>1. faults' \in 0 .. MaxFaults
      BY <1>18 DEF M!RebuildFails
    <2>2. edgesNew' \in [key : {0, 5}, current : BOOLEAN, rows : SUBSET Row] /\ fk' \in BOOLEAN
      BY <1>18 DEF M!RebuildFails
    <2> QED BY <1>18, <2>1, <2>2 DEF M!RebuildFails
  <1>11. CASE M!Rebuild
    BY <1>11 DEF M!Rebuild, M!Indexes
  <1>12. CASE M!FactsKey
    BY <1>12 DEF M!FactsKey, M!Table, M!Indexes
  <1>13. CASE M!Backfill("retoken", "backfill") \/ M!Backfill("backfill", "open")
    BY <1>13 DEF M!Backfill
  <1>14. ASSUME NEW r \in Row, M!AddEdge(r) PROVE M!TypeOK'
    BY <1>14 DEF M!AddEdge
  <1>15. {"nodes", "files", "refs"} \subseteq M!Table
    BY DEF M!Table
  <1> QED BY <1>1, <1>2, <1>3, <1>4, <1>5, <1>6, <1>7, <1>8, <1>9, <1>10, <1>11, <1>12, <1>13,
             <1>14, <1>15, <1>16, <1>17, <1>18 DEF M!Next, M!OpenStep

(* The edges: a step either leaves both tables alone, renames the only     *)
(* copy, drops a copy that is not needed, or makes an empty table when     *)
(* there is nothing to hold.                                               *)
LEMMA EdgesStep == Inv /\ [M!Next]_(M!vars) => (M!EdgesSurvive /\ Tables /\ Recovered)'
  <1> SUFFICES ASSUME Inv, [M!Next]_(M!vars) PROVE (M!EdgesSurvive /\ Tables /\ Recovered)'
    OBVIOUS
  <1> USE DEF Inv, M!TypeOK, M!EdgesSurvive, Tables, Recovered, AfterRecovery, AfterSchema, AfterNodes,
              AfterEdges, AfterKey, AfterFacts, AfterFiles, AfterRefs, AfterIndexes
  <1>1. CASE UNCHANGED M!vars
    BY <1>1 DEF M!vars
  <1>2. CASE M!Lock \/ M!ForeignKeysOn \/ M!Close \/ M!Fault
    BY <1>2 DEF M!Lock, M!ForeignKeysOn, M!Close, M!Fault
  <1>3. CASE M!Recover
    BY <1>3 DEF M!Recover
  <1>4. ASSUME NEW t \in M!Table, M!CreateTable(t) PROVE (M!EdgesSurvive /\ Tables /\ Recovered)'
    BY <1>4 DEF M!CreateTable
  <1>5. CASE M!CreateEdges
    BY <1>5 DEF M!CreateEdges
  <1>6. CASE M!CreateFTS("schema", "schema") \/ M!CreateFTS("remakeFTS", "retoken") \/ M!DropFTS
    BY <1>6 DEF M!CreateFTS, M!DropFTS
  <1>7. CASE M!SchemaIndexes \/ M!EnsureIndexes \/ M!FactsKey
    BY <1>7 DEF M!SchemaIndexes, M!EnsureIndexes, M!FactsKey
  <1>8. CASE \/ M!AddColumns("nodes", "nodeColumns", "edgeColumns")
             \/ M!AddColumns("files", "fileColumns", "refColumns")
             \/ M!AddColumns("refs", "refColumns", "indexes")
    BY <1>8 DEF M!AddColumns
  <1>9. CASE M!AddEdgeColumns
    BY <1>9 DEF M!AddEdgeColumns, Created
  <1>10. CASE M!DropStale \/ M!RebuildFails
    BY <1>10 DEF M!DropStale, M!RebuildFails, Created
  <1>11. CASE M!Rebuild
    BY <1>11 DEF M!Rebuild, Created
  <1>12. CASE M!Backfill("retoken", "backfill") \/ M!Backfill("backfill", "open")
    BY <1>12 DEF M!Backfill
  <1>13. ASSUME NEW r \in Row, M!AddEdge(r) PROVE (M!EdgesSurvive /\ Tables /\ Recovered)'
    BY <1>13 DEF M!AddEdge, Created
  <1> QED BY <1>1, <1>2, <1>3, <1>4, <1>5, <1>6, <1>7, <1>8, <1>9, <1>10, <1>11, <1>12, <1>13
          DEF M!Next, M!OpenStep

(* What an Open has done stays done.                                       *)
LEMMA StagesStep == Inv /\ [M!Next]_(M!vars) => (Created /\ Upgraded /\ Searchable /\ Enforced)'
  <1> SUFFICES ASSUME Inv, [M!Next]_(M!vars) PROVE (Created /\ Upgraded /\ Searchable /\ Enforced)'
    OBVIOUS
  <1> USE DEF Inv, M!TypeOK, Tables, Created, Upgraded, Searchable, Enforced, AfterRecovery, AfterSchema,
              AfterNodes, AfterEdges, AfterKey, AfterFacts, AfterFiles, AfterRefs, AfterIndexes
  <1>1. CASE UNCHANGED M!vars
    BY <1>1 DEF M!vars
  <1>2. CASE M!Lock \/ M!ForeignKeysOn \/ M!Close \/ M!Fault
    BY <1>2 DEF M!Lock, M!ForeignKeysOn, M!Close, M!Fault
  <1>3. CASE M!Recover
    BY <1>3 DEF M!Recover
  <1>4. ASSUME NEW t \in M!Table, M!CreateTable(t) PROVE (Created /\ Upgraded /\ Searchable /\ Enforced)'
    BY <1>4 DEF M!CreateTable
  <1>5. CASE M!CreateEdges
    BY <1>5 DEF M!CreateEdges
  <1>6. CASE M!CreateFTS("schema", "schema") \/ M!CreateFTS("remakeFTS", "retoken") \/ M!DropFTS
    BY <1>6 DEF M!CreateFTS, M!DropFTS
  <1>7. CASE M!SchemaIndexes
    BY <1>7 DEF M!SchemaIndexes, M!Made
  <1>8. CASE M!EnsureIndexes \/ M!FactsKey
    BY <1>8 DEF M!EnsureIndexes, M!FactsKey, M!Table
  <1>9. CASE \/ M!AddColumns("nodes", "nodeColumns", "edgeColumns")
             \/ M!AddColumns("files", "fileColumns", "refColumns")
             \/ M!AddColumns("refs", "refColumns", "indexes")
    BY <1>9 DEF M!AddColumns, M!Table
  <1>10. CASE M!AddEdgeColumns
    BY <1>10 DEF M!AddEdgeColumns
  <1>11. CASE M!DropStale \/ M!RebuildFails
    BY <1>11 DEF M!DropStale, M!RebuildFails
  <1>12. CASE M!Rebuild
    BY <1>12 DEF M!Rebuild
  <1>13. CASE M!Backfill("retoken", "backfill") \/ M!Backfill("backfill", "open")
    BY <1>13 DEF M!Backfill
  <1>14. ASSUME NEW r \in Row, M!AddEdge(r) PROVE (Created /\ Upgraded /\ Searchable /\ Enforced)'
    BY <1>14 DEF M!AddEdge
  <1> QED BY <1>1, <1>2, <1>3, <1>4, <1>5, <1>6, <1>7, <1>8, <1>9, <1>10, <1>11, <1>12, <1>13, <1>14
          DEF M!Next, M!OpenStep

(* Hence the invariant is inductive.                                       *)
LEMMA Inductive == Inv /\ [M!Next]_(M!vars) => Inv'
  BY TypeStep, EdgesStep, StagesStep DEF Inv

(* EdgesSurvive: recoverEdgesRebuild, the schema and the rebuild lose no   *)
(* edge, wherever a build with or without the transaction died (migrate.go *)
(* 245-300).                                                               *)
THEOREM EdgesSurviveHolds == M!Spec => []EdgesSurvive
  <1>1. Inv => EdgesSurvive
    BY DEF Inv, EdgesSurvive, M!EdgesSurvive, NoTable
  <1> QED BY Found, Inductive, <1>1, PTL DEF M!Spec

(* OpenedIsCurrent: an Open that returns has passed every step of the      *)
(* upgrade, those of an earlier one that died included.                    *)
THEOREM OpenedIsCurrentHolds == M!Spec => []OpenedIsCurrent
  <1>1. Inv => OpenedIsCurrent
    <2> SUFFICES ASSUME Inv, pc = "open" PROVE OpenedIsCurrent
      BY DEF OpenedIsCurrent
    <2> USE DEF AfterRecovery, AfterSchema, AfterNodes, AfterEdges, AfterKey, AfterFacts, AfterFiles,
                AfterRefs, AfterIndexes
    <2>1. edgesTable.key = 5 /\ edgesTable.current /\ edgesNew = M!NoTable /\ fk
      BY DEF Inv, Upgraded, Recovered, Enforced
    <2>2. \A t \in M!Table : table[t] = "current"
      BY DEF Inv, Upgraded, M!Table
    <2>3. fts = [made |-> "token", full |-> TRUE]
      BY DEF Inv, M!TypeOK, Searchable
    <2>4. idx = M!Indexes
      BY DEF Inv, M!TypeOK, Created, Upgraded, M!Indexes
    <2> QED BY <2>1, <2>2, <2>3, <2>4 DEF OpenedIsCurrent, NoTable, Table, M!Table, Indexes, M!Indexes
  <1> QED BY Found, Inductive, <1>1, PTL DEF M!Spec

HIDE MigrationAssumption DEF MigrationAssumption, M!disk, M!At, M!To, M!NoTable, M!NoFTS, M!Keyed

-----------------------------------------------------------------------------
(***************************************************************************)
(* Synthesis.                                                              *)
(***************************************************************************)
\* Files have texts of their own, and a pass is idle or not.
Typed ==
    /\ disk \in [File -> UNION {Texts[f] : f \in File}]
    /\ indexed \in [File -> UNION {Texts[f] : f \in File}]
    /\ \A f \in File : disk[f] \in Texts[f] /\ indexed[f] \in Texts[f]
    /\ pass = Idle \/ pass.at # "idle"
    /\ pass = [at |-> pass.at, files |-> pass.files, all |-> pass.all]

\* What refs hold; and a site that the indexed text of its file states.
IsSite(r) == r = [from |-> r.from, name |-> r.name, kind |-> r.kind, line |-> r.line]
OwnSite(s) == s.from.file \in File /\ s \in Sites(indexed[s.from.file])
\* Every ref and every stated edge stands for a site of its file's rows, or
\* for a made edge that was parked.
Accounted ==
    /\ \A r \in refs : IsSite(r) /\ (OwnSite(r) \/ r \in lent)
    /\ \A e \in edges \ Made : OwnSite(Site(e)) \/ Site(e) \in lent
\* The other way round: a stated site waits, has a stated edge, or had one
\* that a pass took over or that went with its target's file.
Known(s) == s \in refs \cup robbed \cup cut \/ \E e \in edges \ Made : s = Site(e)
Remembered ==
    \A f \in File : \A s \in Sites(indexed[f]) : s.name \notin Noisy => Known(s)
\* SynthesizedCurrent with its definitions at hand.
Caught ==
    pass = Idle /\ dirty = {} /\ ~chained /\ ~late
      => {Pair(e) : e \in Made} = {Pair(o) : o \in AllOffered}

\* A site is of a node of its text, and of its file when the text is one that
\* the file may have.
LEMMA SiteShape ==
  ASSUME NEW t, NEW s \in Sites(t)
  PROVE  s.from \in t.nodes /\ s.kind \in {"calls", "bridge"} /\ IsSite(s)
  BY DEF Sites, Stated, enclosingFn, IsSite

LEMMA SiteFile ==
  ASSUME NEW f \in File, NEW t \in Texts[f], NEW s \in Sites(t)
  PROVE  s.from.file = f /\ s.kind \in {"calls", "bridge"} /\ IsSite(s)
  BY SiteShape, SynthesisAssumption DEF SynthesisAssumption

\* Indexing links sites of the text only, resolution finds nodes of the name
\* asked for, and rows of one key stand for one site: an upsert never
\* replaces the edge of another site.
LEMMA LinkedSites ==
  ASSUME NEW t, NEW e \in Linked(t)
  PROVE  Site(e) \in Sites(t) /\ e.made = "stated"
  <1>1. PICK s \in Sites(t) : \E n \in SameFile(t, s) : e = Edge(s.from, n, s.kind, s.line, "stated")
    BY DEF Linked
  <1>0. PICK n \in SameFile(t, s) : e = Edge(s.from, n, s.kind, s.line, "stated")
    BY <1>1
  <1>2. n.name = s.name
    BY <1>0 DEF SameFile
  <1>3. Site(e) = s
    BY <1>0, <1>2, SiteShape DEF Site, Edge, IsSite
  <1> QED BY <1>0, <1>3 DEF Edge

LEMMA ResolvedName ==
  ASSUME NEW r, NEW n \in resolveOne(r)
  PROVE  n.name = r.name
  BY DEF resolveOne, Named

LEMMA SameSite ==
  ASSUME NEW x, NEW e, Key(x) = Key(e)
  PROVE  Site(x) = Site(e)
  BY DEF Key, Site

\* After the first index pass.
LEMMA Start == Init => Typed /\ Accounted /\ Remembered
  <1> SUFFICES ASSUME Init PROVE Typed /\ Accounted /\ Remembered
    OBVIOUS
  <1>1. Typed
    BY DEF Init, Typed, Idle
  <1>2. ASSUME NEW f \in File, NEW s \in Sites(disk[f]) PROVE OwnSite(s) /\ IsSite(s)
    <2>1. disk[f] \in Texts[f] /\ indexed = disk
      BY DEF Init
    <2>2. s.from.file = f /\ IsSite(s)
      BY <1>2, <2>1, SiteFile
    <2> QED BY <1>2, <2>1, <2>2 DEF OwnSite
  <1>3. ASSUME NEW e \in edges PROVE OwnSite(Site(e)) /\ e \notin Made
    <2>1. PICK f \in File : e \in Linked(disk[f])
      BY DEF Init
    <2> QED BY <1>2, <2>1, LinkedSites DEF Made
  <1> DEFINE unlinked == (UNION {Sites(disk[g]) : g \in File}) \ {Site(e) : e \in edges}
  <1>6. PICK dropped \in SUBSET {s \in unlinked : s.name \in Noisy} : refs = unlinked \ dropped
    BY Zenon DEF Init
  <1>4. ASSUME NEW r \in refs PROVE OwnSite(r) /\ IsSite(r)
    BY <1>2, <1>6
  <1>5. Remembered
    <2> SUFFICES ASSUME NEW f \in File, NEW s \in Sites(disk[f]), s.name \notin Noisy
                    PROVE  s \in refs \/ \E e \in edges \ Made : s = Site(e)
      BY DEF Init, Remembered, Known
    <2>1. s \in UNION {Sites(disk[g]) : g \in File}
      OBVIOUS
    <2>2. CASE s \in {Site(e) : e \in edges}
      BY <1>3, <2>2
    <2>3. CASE s \notin {Site(e) : e \in edges}
      BY <1>6, <2>1, <2>3
    <2> QED BY <2>2, <2>3
  <1> QED BY <1>1, <1>3, <1>4, <1>5 DEF Accounted

\* Replacing a file's rows: its sites are stated anew, and each edge into it
\* is a ref again, so that the sites of the other files keep theirs.
LEMMA IndexStep ==
  ASSUME Typed, Accounted, Remembered, NEW f \in File, Index(f)
  PROVE  Typed' /\ Accounted' /\ Remembered'
  <1>0. Typed'
    <2>1. CASE indexed[f] = disk[f]
      BY <2>1 DEF Index, Typed, Idle, tables
    <2>2. CASE indexed[f] # disk[f]
      <3>1. disk' = disk /\ indexed' = [indexed EXCEPT ![f] = disk[f]]
        BY <2>2 DEF Index
      <3>2. disk[f] \in Texts[f] /\ Texts[f] \subseteq UNION {Texts[g] : g \in File}
        <4>1. disk[f] \in Texts[f]
          BY DEF Typed
        <4> QED BY <4>1
      <3>3. /\ indexed' \in [File -> UNION {Texts[g] : g \in File}]
            /\ \A g \in File : indexed'[g] \in Texts[g]
        BY <3>1, <3>2 DEF Typed
      <3>4. /\ pass'.at # "idle"
            /\ pass' = [at |-> pass'.at, files |-> pass'.files, all |-> pass'.all]
        BY DEF Index, Typed
      <3> QED BY <3>1, <3>3, <3>4 DEF Typed
    <2> QED BY <2>1, <2>2
  <1>1. CASE indexed[f] = disk[f]
    <2>1. UNCHANGED <<indexed, edges, refs, lent, robbed, cut>>
      BY <1>1 DEF Index, tables, histories
    <2>2. Accounted'
      BY <2>1 DEF Accounted, OwnSite, Made
    <2>3. Remembered'
      BY <2>1 DEF Remembered, Known, Made
    <2> QED BY <1>0, <2>2, <2>3
  <1>2. CASE indexed[f] # disk[f]
    <2> DEFINE t == disk[f]
    <2>1. /\ indexed' = [indexed EXCEPT ![f] = t]
          /\ edges' = Kept(f) \cup Linked(t)
          /\ refs' = {r \in refs : r.from.file # f} \cup {Site(e) : e \in Inbound(f)}
                        \cup {s \in Sites(t) \ {Site(e) : e \in Linked(t)} : Parks(s)}
          /\ lent' = {r \in lent : r.from.file # f} \cup {Site(e) : e \in Inbound(f) \cap Made}
          /\ robbed' = {s \in robbed : s.from.file # f}
          /\ cut' = {s \in cut : s.from.file # f}
      BY <1>2 DEF Index
    <2>2. t \in Texts[f] /\ indexed'[f] = t /\ \A g \in File \ {f} : indexed'[g] = indexed[g]
      BY <2>1 DEF Typed
    <2>3. ASSUME NEW s \in Sites(t) PROVE OwnSite(s)' /\ IsSite(s)
      BY <2>2, SiteFile DEF OwnSite
    <2>4. ASSUME NEW s, s.from.file # f, OwnSite(s) \/ s \in lent PROVE OwnSite(s)' \/ s \in lent'
      BY <2>1, <2>2, <2>4 DEF OwnSite
    <2>5. ASSUME NEW e \in edges \ Made, e.src.file # f PROVE OwnSite(Site(e))' \/ Site(e) \in lent'
      <3>1. Site(e).from = e.src
        BY DEF Site
      <3> QED BY <2>4, <2>5, <3>1 DEF Accounted
    <2>6. ASSUME NEW r \in refs' PROVE IsSite(r) /\ (OwnSite(r)' \/ r \in lent')
      <3>1. CASE r \in refs /\ r.from.file # f
        BY <2>4, <3>1 DEF Accounted
      <3>2. CASE \E e \in Inbound(f) : r = Site(e)
        <4>1. PICK e \in Inbound(f) : r = Site(e)
          BY <3>2
        <4>2. IsSite(r) /\ e \in edges /\ e.src.file # f
          BY <4>1 DEF Inbound, IsSite, Site
        <4>3. CASE e \in Made
          BY <2>1, <4>1, <4>2, <4>3
        <4>4. CASE e \notin Made
          BY <2>5, <4>1, <4>2, <4>4
        <4> QED BY <4>3, <4>4
      <3>3. CASE r \in Sites(t)
        BY <2>3, <3>3
      <3> QED BY <2>1, <3>1, <3>2, <3>3
    <2>7. ASSUME NEW e \in edges' \ Made' PROVE OwnSite(Site(e))' \/ Site(e) \in lent'
      <3>1. CASE e \in Kept(f)
        BY <2>5, <3>1 DEF Kept, Made
      <3>2. CASE e \in Linked(t)
        BY <2>3, <3>2, LinkedSites
      <3> QED BY <2>1, <3>1, <3>2
    <2>8. Accounted'
      BY <2>6, <2>7 DEF Accounted, IsSite, Site
    <2>9. ASSUME NEW g \in File, NEW s \in Sites(indexed'[g]), s.name \notin Noisy
          PROVE  s \in refs' \cup robbed' \cup cut' \/ \E e \in edges' \ Made' : s = Site(e)
      <3>1. CASE g = f /\ \E e \in Linked(t) : s = Site(e)
        BY <2>1, <3>1, LinkedSites DEF Made
      <3>2. CASE g = f /\ ~\E e \in Linked(t) : s = Site(e)
        <4>1. s \in Sites(t) /\ Parks(s)
          BY <2>2, <2>9, <3>2 DEF Parks
        <4> QED BY <2>1, <3>2, <4>1
      <3>3. CASE g # f
        <4>1. s \in Sites(indexed[g]) /\ s.from.file # f /\ s.kind \in {"calls", "bridge"}
          <5>1. indexed'[g] = indexed[g] /\ indexed[g] \in Texts[g]
            BY <2>2, <3>3 DEF Typed
          <5>2. s \in Sites(indexed[g])
            BY <2>9, <5>1
          <5>3. s.from.file = g /\ s.kind \in {"calls", "bridge"}
            BY <5>1, <5>2, SiteFile
          <5> QED BY <3>3, <5>2, <5>3
        <4>2. CASE s \in refs \cup robbed \cup cut
          BY <2>1, <4>1, <4>2
        <4>3. CASE \E e \in edges \ Made : s = Site(e)
          <5>1. PICK e \in edges \ Made : s = Site(e)
            BY <4>3
          <5>2. e.src.file # f /\ e.kind \in {"calls", "bridge"}
            BY <4>1, <5>1 DEF Site
          <5>3. e \in Kept(f) \/ e \in Inbound(f)
            BY <5>2 DEF Kept, Inbound
          <5> QED BY <2>1, <5>1, <5>3 DEF Made
        <4> QED BY <2>9, <4>1, <4>2, <4>3 DEF Remembered, Known
      <3> QED BY <3>1, <3>2, <3>3
    <2>10. Remembered'
      BY <2>9 DEF Remembered, Known
    <2> QED BY <1>0, <2>8, <2>10
  <1> QED BY <1>1, <1>2

\* A file that is cleared has no sites left; those of the others whose edge
\* led to it are noted as cut.
LEMMA DeleteStep ==
  ASSUME Typed, Accounted, Remembered, NEW f \in File, Delete(f)
  PROVE  Typed' /\ Accounted' /\ Remembered'
  <1>1. /\ indexed' = [indexed EXCEPT ![f] = NoText] /\ disk' = disk /\ disk[f] = NoText
        /\ edges' = Kept(f) /\ refs' = {r \in refs : r.from.file # f}
        /\ lent' = {r \in lent : r.from.file # f} /\ robbed' = {s \in robbed : s.from.file # f}
        /\ cut' = {s \in cut : s.from.file # f} \cup {Site(e) : e \in Inbound(f) \ Made}
    BY DEF Delete
  <1>2. indexed'[f] = NoText /\ \A g \in File \ {f} : indexed'[g] = indexed[g]
    BY <1>1 DEF Typed
  <1>3. Typed'
    <2>1. pass' = Idle \/ pass'.at # "idle"
      BY DEF Delete, Typed, Idle
    <2>2. pass' = [at |-> pass'.at, files |-> pass'.files, all |-> pass'.all]
      BY DEF Delete, Typed
    <2>3. NoText \in Texts[f] /\ NoText \in UNION {Texts[g] : g \in File}
      <3>1. NoText \in Texts[f]
        BY <1>1 DEF Typed
      <3> QED BY <3>1
    <2>4. /\ indexed' \in [File -> UNION {Texts[g] : g \in File}]
          /\ \A g \in File : indexed'[g] \in Texts[g]
      <3> HIDE DEF NoText
      <3> QED BY <1>1, <2>3 DEF Typed
    <2> QED BY <1>1, <2>1, <2>2, <2>4 DEF Typed
  <1>4. Sites(NoText) = {}
    BY DEF Sites, Stated, enclosingFn, NoText
  <1> HIDE DEF NoText
  <1>5. ASSUME NEW s, s.from.file # f, OwnSite(s) \/ s \in lent PROVE OwnSite(s)' \/ s \in lent'
    BY <1>1, <1>2, <1>5 DEF OwnSite
  <1>6. Accounted'
    <2>1. \A r \in refs' : IsSite(r) /\ (OwnSite(r)' \/ r \in lent')
      BY <1>1, <1>5 DEF Accounted
    <2>2. ASSUME NEW e \in edges' \ Made' PROVE OwnSite(Site(e))' \/ Site(e) \in lent'
      <3>1. e \in edges \ Made /\ Site(e).from.file # f
        BY <1>1 DEF Kept, Made, Site
      <3> QED BY <1>5, <3>1 DEF Accounted
    <2> QED BY <2>1, <2>2 DEF Accounted, IsSite, Site
  <1>7. ASSUME NEW g \in File, NEW s \in Sites(indexed'[g]), s.name \notin Noisy
        PROVE  s \in refs' \cup robbed' \cup cut' \/ \E e \in edges' \ Made' : s = Site(e)
    <2>1. g # f /\ indexed'[g] = indexed[g] /\ indexed[g] \in Texts[g]
      BY <1>2, <1>4, <1>7 DEF Typed
    <2>2. s \in Sites(indexed[g]) /\ s.from.file # f /\ s.kind \in {"calls", "bridge"}
      BY <1>7, <2>1, SiteFile
    <2>3. CASE s \in refs \cup robbed \cup cut
      BY <1>1, <2>2, <2>3
    <2>4. CASE \E e \in edges \ Made : s = Site(e)
      <3>1. PICK e \in edges \ Made : s = Site(e)
        BY <2>4
      <3>2. e.src.file # f /\ e.kind \in {"calls", "bridge"}
        BY <2>2, <3>1 DEF Site
      <3>3. e \in Kept(f) \/ e \in Inbound(f)
        BY <3>2 DEF Kept, Inbound
      <3> QED BY <1>1, <3>1, <3>3 DEF Made
    <2> QED BY <1>7, <2>2, <2>3, <2>4 DEF Remembered, Known
  <1>8. Remembered'
    BY <1>7 DEF Remembered, Known
  <1> QED BY <1>3, <1>6, <1>8

\* The scrub removes refs of noisy names only.
LEMMA ScrubStep ==
  ASSUME Typed, Accounted, Remembered, Scrub
  PROVE  Typed' /\ Accounted' /\ Remembered'
  <1>1. /\ UNCHANGED <<disk, indexed, edges, lent, robbed, cut>>
        /\ pass' = [pass EXCEPT !.at = "synthesize"]
    BY DEF Scrub, histories
  <1>2. PICK gone \in SUBSET {r \in refs : Scrubbed(r)} : refs' = refs \ gone
    <2>1. CASE refs' = refs \ {r \in {q \in refs : Scrubbed(q)} : Named(r.name) = {}}
      BY <2>1
    <2>2. CASE \E gone \in SUBSET {r \in refs : Scrubbed(r)} : refs' = refs \ gone
      BY <2>2
    <2> QED BY <2>1, <2>2 DEF Scrub
  <1>3. \A r \in gone : r.name \in Noisy
    BY <1>2 DEF Scrubbed
  <1>4. Typed'
    BY <1>1 DEF Typed
  <1>5. \A s : OwnSite(s)' <=> OwnSite(s)
    BY <1>1 DEF OwnSite
  <1>6. Accounted'
    BY <1>1, <1>2, <1>5 DEF Accounted, IsSite, Site, Made
  <1>7. Remembered'
    BY <1>1, <1>2, <1>3 DEF Remembered, Known, Made
  <1> QED BY <1>4, <1>6, <1>7

\* Resolution turns refs into stated edges of the same sites.
LEMMA ResolveStep ==
  ASSUME Typed, Accounted, Remembered, Resolve
  PROVE  Typed' /\ Accounted' /\ Remembered'
  <1>1. PICK found \in SUBSET refs :
            /\ \A r \in found : resolveOne(r) # {}
            /\ edges' = Upsert(edges, UNION {{Edge(r.from, n, r.kind, r.line, "stated") :
                                                   n \in resolveOne(r)} : r \in found})
            /\ refs' = refs \ found
    BY DEF Resolve
  <1>2. /\ UNCHANGED <<disk, indexed, lent, robbed, cut>>
        /\ pass' = [pass EXCEPT !.at = "scrub"] /\ pass.at = "index"
    BY DEF Resolve, histories
  <1> DEFINE new == UNION {{Edge(r.from, n, r.kind, r.line, "stated") : n \in resolveOne(r)} : r \in found}
  <1>3. ASSUME NEW r \in found, NEW n \in resolveOne(r)
        PROVE  Site(Edge(r.from, n, r.kind, r.line, "stated")) = r
    BY <1>1, ResolvedName DEF Accounted, IsSite, Site, Edge
  <1>4. ASSUME NEW e \in new PROVE Site(e) \in found /\ e.made = "stated"
    BY <1>3 DEF Edge
  <1>5. ASSUME NEW r \in found PROVE \E e \in new : Site(e) = r
    BY <1>1, <1>3
  <1>6. edges' = {e \in edges : \A x \in new : Key(x) # Key(e)} \cup new
    BY <1>1 DEF Upsert
  <1> HIDE DEF new
  <1>7. Typed'
    BY <1>2 DEF Typed
  <1>8. \A s : OwnSite(s)' <=> OwnSite(s)
    BY <1>2 DEF OwnSite
  <1>9. Accounted'
    <2>1. ASSUME NEW e \in edges' \ Made' PROVE OwnSite(Site(e)) \/ Site(e) \in lent
      BY <1>1, <1>4, <1>6 DEF Accounted, Made
    <2> QED BY <1>1, <1>2, <1>8, <2>1 DEF Accounted, IsSite, Site
  <1>10. ASSUME NEW f \in File, NEW s \in Sites(indexed[f]), s.name \notin Noisy
         PROVE  s \in refs' \cup robbed' \cup cut' \/ \E e \in edges' \ Made' : s = Site(e)
    <2>1. CASE s \in robbed \cup cut \/ (s \in refs /\ s \notin found)
      BY <1>1, <1>2, <2>1
    <2>2. CASE s \in found
      BY <1>4, <1>5, <1>6, <2>2 DEF Made
    <2>3. CASE \E e \in edges \ Made : s = Site(e)
      <3>1. PICK e \in edges \ Made : s = Site(e)
        BY <2>3
      <3>2. CASE \E x \in new : Key(x) = Key(e)
        BY <1>4, <1>6, <3>1, <3>2, SameSite DEF Made
      <3>3. CASE \A x \in new : Key(x) # Key(e)
        BY <1>6, <3>1, <3>3 DEF Made
      <3> QED BY <3>2, <3>3
    <2> QED BY <1>10, <2>1, <2>2, <2>3 DEF Remembered, Known
  <1> QED BY <1>2, <1>7, <1>9, <1>10 DEF Remembered, Known

\* However the passes' offers are merged, what is added is made, and has an
\* edge for each pair that is offered and for no other.
LEMMA MergedMade ==
  ASSUME NEW new \in Merged
  PROVE  (\A e \in new : e.made = "made") /\ {Pair(e) : e \in new} = {Pair(o) : o \in AllOffered}
  <1> DEFINE all == AllOffered
             sole == {o \in all : \A p \in all : Pair(p) = Pair(o) => p = o}
             OnePerPair(U) == \A o \in all \ sole : \E p \in U : \A q \in U : Pair(q) = Pair(o) <=> q = p
             E(o) == Edge(o.src, o.tgt, o.kind, o.line, "made")
  <1>1. PICK U \in SUBSET (all \ sole) : OnePerPair(U) /\ new = {E(o) : o \in sole \cup U}
    BY DEF Merged
  <1>2. \A o : Pair(E(o)) = Pair(o) /\ E(o).made = "made"
    BY DEF Edge, Pair
  <1>3. \A o \in all : \E p \in sole \cup U : Pair(p) = Pair(o)
    BY <1>1
  <1> HIDE DEF E, sole
  <1>4. \A e \in new : e.made = "made" /\ \E o \in all : Pair(e) = Pair(o)
    <2>1. sole \subseteq all
      BY DEF sole
    <2> QED BY <1>1, <1>2, <2>1
  <1>5. \A o \in all : \E e \in new : Pair(e) = Pair(o)
    <2> SUFFICES ASSUME NEW o \in all PROVE \E e \in new : Pair(e) = Pair(o)
      OBVIOUS
    <2>1. PICK p \in sole \cup U : Pair(p) = Pair(o)
      BY <1>3
    <2>2. E(p) \in new /\ Pair(E(p)) = Pair(o)
      BY <1>1, <1>2, <2>1
    <2> QED BY <2>2
  <1> QED BY <1>4, <1>5

\* A run of the passes adds no stated edge, and removes one only by taking its
\* key, which the history notes.
LEMMA SynthesizeStep ==
  ASSUME Typed, Accounted, Remembered, NEW new, Synthesize(new), \A e \in new : e.made = "made"
  PROVE  Typed' /\ Accounted' /\ Remembered'
  <1>0. Typed'
    BY DEF Synthesize, Typed, Idle
  <1>1. ReplaceSynthesizedEdges(new) /\ robbed' = robbed \cup TakenOver(new)
    BY DEF Synthesize
  <1>2. UNCHANGED <<disk, indexed, refs, lent, cut>>
    BY DEF Synthesize
  <1>3. /\ edges' = {e \in edges \ Made : \A x \in new : Key(x) # Key(e)} \cup new
        /\ \A e \in new : e.made = "made"
    BY <1>1 DEF ReplaceSynthesizedEdges, Upsert
  <1>4. edges' \ Made' \subseteq edges \ Made
    BY <1>3 DEF Made
  <1>5. \A s : OwnSite(s)' <=> OwnSite(s)
    BY <1>2 DEF OwnSite
  <1>6. Accounted'
    <2>1. \A e \in edges' \ Made' : OwnSite(Site(e)) \/ Site(e) \in lent
      BY <1>4 DEF Accounted
    <2> QED BY <1>2, <1>5, <2>1 DEF Accounted, IsSite, Site
  <1>7. ASSUME NEW e \in edges \ Made
        PROVE  Site(e) \in robbed' \/ e \in edges' \ Made'
    <2>1. CASE \E x \in new : Key(x) = Key(e)
      BY <1>1, <2>1 DEF TakenOver
    <2>2. CASE \A x \in new : Key(x) # Key(e)
      BY <1>3, <2>2 DEF Made
    <2> QED BY <2>1, <2>2
  <1>8. Remembered'
    BY <1>1, <1>2, <1>7 DEF Remembered, Known
  <1> QED BY <1>0, <1>6, <1>8

\* Six passes read the files, the nodes and the refs only.
LEMMA SameOffers ==
  ASSUME UNCHANGED <<disk, indexed, refs>>
  PROVE  /\ eventEmitterEdges' = eventEmitterEdges /\ reactRenderEdges' = reactRenderEdges
         /\ reactJSXChildEdges' = reactJSXChildEdges /\ bridgeSymbolEdges' = bridgeSymbolEdges
         /\ cFnPointerDispatchEdges' = cFnPointerDispatchEdges
         /\ goframeRouteEdges' = goframeRouteEdges
  <1>1. eventEmitterEdges' = eventEmitterEdges
    BY DEF eventEmitterEdges, Emitters, Handlers, LastEmit, pickCallable,
       pickByProximity, Nodes, Named, Listed
  <1>2. reactRenderEdges' = reactRenderEdges
    BY DEF reactRenderEdges, classMethods, Nodes
  <1>3. reactJSXChildEdges' = reactJSXChildEdges
    BY DEF reactJSXChildEdges, pickByProximity, Nodes, Named
  <1>4. bridgeSymbolEdges' = bridgeSymbolEdges
    BY DEF bridgeSymbolEdges, Nodes, Named
  <1>5. cFnPointerDispatchEdges' = cFnPointerDispatchEdges
    BY DEF cFnPointerDispatchEdges, Nodes, Named, Listed
  <1>6. goframeRouteEdges' = goframeRouteEdges
    BY DEF goframeRouteEdges, Nodes, Named
  <1> QED BY <1>1, <1>2, <1>3, <1>4, <1>5, <1>6

\* So does all that the seventh asks of an edge.
LEMMA SameCallbacks ==
  ASSUME UNCHANGED <<disk, indexed>>
  PROVE  /\ Nodes' = Nodes /\ \A e : Callbacks(e)' = Callbacks(e)
         /\ \A n : /\ registrarField(n)' = registrarField(n)
                 /\ dispatcherField(n)' = dispatcherField(n)
         /\ \A e : Registers(e)' <=> Registers(e)
  <1>1. Nodes' = Nodes /\ \A e : Callbacks(e)' = Callbacks(e)
    BY DEF Callbacks, pickCallable, pickByProximity, Nodes, Named
  <1>2. \A n : registrarField(n)' = registrarField(n) /\ dispatcherField(n)' = dispatcherField(n)
    BY DEF registrarField, dispatcherField
  <1> QED BY <1>1, <1>2 DEF Registers

\* What the seventh offers comes of the edges that register a callback.
ChannelOffer(o) ==
    \E e \in edges, d \in Nodes :
       /\ Registers(e) /\ e.tgt \in Nodes /\ e.tgt.kind \in {"method", "function"}
       /\ d.kind \in {"method", "function"} /\ d.file = e.tgt.file
       /\ registrarField(e.tgt) \cap dispatcherField(d) # {}
       /\ \E t \in Callbacks(e) \ {d} : o = [src |-> d, tgt |-> t, kind |-> "calls", line |-> d.line]

LEMMA ChannelOffers == \A o : o \in fieldChannelEdges <=> ChannelOffer(o)
  <1> SUFFICES ASSUME NEW o PROVE o \in fieldChannelEdges <=> ChannelOffer(o)
    OBVIOUS
  <1> DEFINE methods == {n \in Nodes : n.kind \in {"method", "function"}}
             served(e) == {n \in methods : n.file = e.tgt.file
                                             /\ registrarField(e.tgt) \cap dispatcherField(n) # {}}
  <1>1. o \in fieldChannelEdges <=>
          \E e \in edges : /\ e.tgt \in methods /\ e.kind = "calls"
                           /\ \E d \in served(e) : o \in Offer(d, Callbacks(e), "calls", d.line)
    BY DEF fieldChannelEdges
  <1>2. \A d, e : o \in Offer(d, Callbacks(e), "calls", d.line)
          <=> \E t \in Callbacks(e) \ {d} : o = [src |-> d, tgt |-> t, kind |-> "calls", line |-> d.line]
    BY DEF Offer
  <1> QED BY <1>1, <1>2 DEF Registers, ChannelOffer

\* A run that neither removes nor adds an edge of that kind leaves what the
\* passes offer as it was: a second run would find the same.
LEMMA SynthesizeOffers ==
  ASSUME Typed, NEW new, Synthesize(new), ~chained'
  PROVE  AllOffered' = AllOffered
  <1>1. /\ ReplaceSynthesizedEdges(new)
        /\ chained' <=> \E e \in Made \cup new : Registers(e)
    BY DEF Synthesize
  <1>2. UNCHANGED <<disk, indexed, refs>>
    BY DEF Synthesize
  <1>3. edges' = {e \in edges \ Made : \A x \in new : Key(x) # Key(e)} \cup new
    BY <1>1 DEF ReplaceSynthesizedEdges, Upsert
  <1>4. \A e \in Made \cup new : ~Registers(e)
    BY <1>1
  <1>5. ASSUME NEW x, NEW e, Key(x) = Key(e), Registers(e) PROVE Registers(x)
    <2>1. x.src = e.src /\ x.tgt = e.tgt /\ x.kind = e.kind /\ x.line = e.line
      BY <1>5 DEF Key
    <2> QED BY <1>5, <2>1 DEF Registers, Callbacks
  <1>6. \A e : e \in edges /\ Registers(e) <=> e \in edges' /\ Registers(e)
    BY <1>3, <1>4, <1>5
  <1>7. fieldChannelEdges' = fieldChannelEdges
    <2>1. (\A o : o \in fieldChannelEdges <=> ChannelOffer(o))'
      BY ChannelOffers, PTL
    <2>2. \A o : ChannelOffer(o)' <=> ChannelOffer(o)
      BY <1>2, <1>6, SameCallbacks DEF ChannelOffer
    <2>5. \A o : o \in fieldChannelEdges' <=> o \in fieldChannelEdges
      BY <2>1, <2>2, ChannelOffers
    <2> QED BY <2>5 DEF fieldChannelEdges
  <1>8. Passes' = Passes
    BY <1>2, <1>7, SameOffers DEF Passes
  <1> QED BY <1>8 DEF AllOffered, Pair

\* All made edges are of the last run.
LEMMA MadeOfNew ==
  ASSUME NEW new \in Merged, ReplaceSynthesizedEdges(new)
  PROVE  Made' = new
  BY MergedMade DEF ReplaceSynthesizedEdges, Upsert, Made

\* The invariant is inductive.  A run of the passes that adds all it is
\* offered has caught up; after any other step files are dirty, the pass is
\* not over, or the history notes what is missing.
LEMMA CaughtStep ==
  ASSUME Typed, Accounted, Remembered, Caught, [Next]_vars
  PROVE  Typed' /\ Accounted' /\ Remembered' /\ Caught'
  <1>1. CASE UNCHANGED vars
    <2>0. /\ UNCHANGED <<disk, indexed, edges, refs, lent, robbed, cut>>
          /\ UNCHANGED <<dirty, pass, chained, late>>
      BY <1>1 DEF vars, tables, histories
    <2>1. Passes' = Passes
      <3>1. fieldChannelEdges' = fieldChannelEdges
        BY <2>0 DEF fieldChannelEdges, Callbacks, pickCallable, pickByProximity,
           Nodes, Named, registrarField, dispatcherField
      <3> QED BY <2>0, <3>1, SameOffers DEF Passes
    <2>2. AllOffered' = AllOffered
      BY <2>1 DEF AllOffered, Pair
    <2>3. Caught'
      BY <2>0, <2>2 DEF Caught, Made, Pair
    <2>4. Typed' /\ Accounted' /\ Remembered'
      BY <2>0 DEF Typed, Accounted, Remembered, Known, OwnSite, IsSite, Made
    <2> QED BY <2>3, <2>4
  <1>2. ASSUME NEW f \in File, Edit(f) PROVE Typed' /\ Accounted' /\ Remembered' /\ Caught'
    <2>1. /\ UNCHANGED <<indexed, edges, refs, pass, lent, robbed, cut>> /\ dirty' # {}
          /\ \E t \in Texts[f] : disk' = [disk EXCEPT ![f] = t]
      BY <1>2 DEF Edit, tables, histories
    <2>2. Typed'
      <3>1. PICK t \in Texts[f] : disk' = [disk EXCEPT ![f] = t]
        BY <2>1
      <3>2. t \in UNION {Texts[g] : g \in File}
        OBVIOUS
      <3>3. /\ disk' \in [File -> UNION {Texts[g] : g \in File}]
            /\ \A g \in File : disk'[g] \in Texts[g]
        BY <3>1, <3>2 DEF Typed
      <3> QED BY <2>1, <3>3 DEF Typed
    <2>3. Accounted' /\ Remembered'
      BY <2>1 DEF Accounted, Remembered, Known, OwnSite, Made
    <2>4. Caught'
      BY <2>1 DEF Caught
    <2> QED BY <2>2, <2>3, <2>4
  <1>3. ASSUME NEW f \in File, Index(f) PROVE Typed' /\ Accounted' /\ Remembered' /\ Caught'
    <2>1. pass' # Idle
      BY <1>3 DEF Index, Idle, Typed
    <2>2. Caught'
      BY <2>1 DEF Caught
    <2> QED BY <1>3, <2>2, IndexStep
  <1>4. ASSUME NEW f \in File, Delete(f) PROVE Typed' /\ Accounted' /\ Remembered' /\ Caught'
    <2>1. late'
      BY <1>4 DEF Delete
    <2>2. Caught'
      BY <2>1 DEF Caught
    <2> QED BY <1>4, <2>2, DeleteStep
  <1>5. CASE Resolve
    <2>1. pass' # Idle
      BY <1>5 DEF Resolve, Typed, Idle
    <2>2. Caught'
      BY <2>1 DEF Caught
    <2> QED BY <1>5, <2>2, ResolveStep
  <1>6. CASE Scrub
    <2>1. pass' # Idle
      BY <1>6 DEF Scrub, Typed, Idle
    <2>2. Caught'
      BY <2>1 DEF Caught
    <2> QED BY <1>6, <2>2, ScrubStep
  <1>7. CASE SynthesizeAll
    <2>1. PICK new \in Merged : Synthesize(new)
      BY <1>7 DEF SynthesizeAll
    <2>2. Caught'
      <3> SUFFICES ASSUME ~chained' PROVE {Pair(e) : e \in Made'} = {Pair(o) : o \in AllOffered'}
        BY DEF Caught, Pair
      <3>1. AllOffered' = AllOffered
        BY <2>1, SynthesizeOffers
      <3>2. Made' = new
        BY <2>1, MadeOfNew DEF Synthesize
      <3> QED BY <3>1, <3>2, MergedMade
    <2>3. Typed' /\ Accounted' /\ Remembered'
      BY <2>1, MergedMade, SynthesizeStep
    <2> QED BY <2>2, <2>3
  <1>8. CASE SynthesizePart
    <2>1. PICK new \in Merged : \E found \in SUBSET new : Synthesize(found)
      BY <1>8 DEF SynthesizePart
    <2>2. PICK found \in SUBSET new : Synthesize(found)
      BY <2>1
    <2>3. \A e \in found : e.made = "made"
      BY MergedMade
    <2>4. late'
      BY <1>8 DEF SynthesizePart
    <2>5. Caught'
      BY <2>4 DEF Caught
    <2> QED BY <2>2, <2>3, <2>5, SynthesizeStep
  <1>9. CASE SynthesisFails
    <2>1. /\ UNCHANGED <<disk, indexed, edges, refs, lent, robbed, cut>>
          /\ pass' = Idle
          /\ dirty' # {} \/ late'
      BY <1>9 DEF SynthesisFails, tables, histories
    <2>2. Typed'
      BY <2>1 DEF Typed, Idle
    <2>3. Accounted' /\ Remembered'
      BY <2>1 DEF Accounted, Remembered, Known, OwnSite, Made
    <2>4. Caught'
      BY <2>1 DEF Caught
    <2> QED BY <2>2, <2>3, <2>4
  <1> QED BY <1>1, <1>2, <1>3, <1>4, <1>5, <1>6, <1>7, <1>8, <1>9 DEF Next

\* Hence it always holds.
LEMMA Throughout == Spec => [](Typed /\ Accounted /\ Remembered /\ Caught)
  <1>1. Init => Caught
    BY DEF Init, Caught, Idle
  <1> QED BY <1>1, Start, CaughtStep, PTL DEF Spec

(* SynthesizedCurrent, for every set of files and texts, every fan-out cap *)
(* and any number of edits, deletions and failures: at rest the made edges *)
(* are those that the patterns offer now, unless a made edge registers a   *)
(* callback, or the last change was one that no whole run of the passes    *)
(* followed.                                                               *)
THEOREM SynthesizedCurrentHolds == Spec => []SynthesizedCurrent
  <1>1. Caught => SynthesizedCurrent
    BY DEF Caught, SynthesizedCurrent, AtRest
  <1> QED BY <1>1, Throughout, PTL

(* EdgesJustified: an edge that no pass made is one that its file states,  *)
(* or comes of a made edge that ParkInboundRefsForFile parked.             *)
THEOREM EdgesJustifiedHolds == Spec => []EdgesJustified
  <1>1. Accounted => EdgesJustified
    <2> SUFFICES ASSUME Accounted, NEW e \in edges \ Made
                    PROVE  Site(e) \in Sites(indexed[e.src.file]) \cup lent
      BY DEF EdgesJustified
    <2> QED BY DEF Accounted, OwnSite, Site
  <1> QED BY <1>1, Throughout, PTL

(* CallsKept: however often files are replaced and passes fail, a call of  *)
(* an indexed file has an edge or a ref, unless a pass took its edge over, *)
(* the file it led to was removed, or its name is noise.                   *)
THEOREM CallsKeptHolds == Spec => []CallsKept
  <1>1. Remembered => CallsKept
    BY DEF Remembered, Known, CallsKept
  <1> QED BY <1>1, Throughout, PTL
=============================================================================
