----------------------------- MODULE IndexGraph -----------------------------
(***************************************************************************)
(* The symbol graph of one index under the passes that keep it current:    *)
(* what happens to call and import edges when files are re-indexed one by  *)
(* one, by parallel workers, with a crash between any two transactions.    *)
(*                                                                         *)
(* A file's content is what the extractor finds in it: the symbols it      *)
(* defines (`twice`: those it defines more than once), the names it calls  *)
(* and the names it imports.  A node is known by its name and the file     *)
(* column of its row: a definition of s in f, the file node of f (its name *)
(* is the path), the module node of an import spec (name and file are the  *)
(* spec).  A call site is a pair <<file, name>>.                           *)
(***************************************************************************)
EXTENDS Naturals, FiniteSets

CONSTANTS File,         \* storage keys
          Symbol,       \* names a definition can have
          Noisy,        \* the noisyRefNames among them
          Contents,     \* [File -> set of contents the file may have]
          Nearness,     \* where a candidate's file lies, seen from a caller's
          Reaches,      \* [name -> files an import of that name reaches]
          MaxAttempts,  \* maxResolveAttempts
          Workers,      \* config.IndexWorkers
          MaxEdits, MaxCrashes,           \* bounds
          Gone, NoRow, Dead

Name == File \cup Symbol
Proximity == {"file", "dir", "kin", "sub", "far"}
Content == [defs : SUBSET Symbol, twice : SUBSET Symbol,
            calls : SUBSET Symbol, imports : SUBSET Name]

ASSUME GraphAssumption ==
  /\ File \cap Symbol = {}
  /\ Noisy \subseteq Symbol
  /\ Contents \in [File -> SUBSET Content]
  /\ \A f \in File : \A c \in Contents[f] : c.twice \subseteq c.defs
  /\ Nearness \in [File -> [File -> Proximity]]
  /\ Reaches \in [Name -> SUBSET File]
  /\ MaxAttempts \in Nat \ {0} /\ Workers \in Nat \ {0}
  /\ MaxEdits \in Nat /\ MaxCrashes \in Nat
  /\ Gone \notin Content /\ NoRow \notin Content /\ Dead \notin Name

VARIABLES
  disk,     \* [File -> content or Gone]
  row,      \* files and nodes: the content each file was indexed with
  modules,  \* names that have a module node
  imps,     \* import edges <<file, name, file column of the target node>>
  edges,    \* call edges <<file, name, file of the target node>>
  ref,      \* unresolved_refs: call site -> its row
  pass,     \* the running index pass
  job,      \* [File -> the worker that indexes it]
  todo,     \* the batch of refs the resolver still has to try
  half,     \* the ref of the batch whose edge was written without it
  erred,    \* history: refs whose attempt in this pass met an error
  started,  \* the first pass of this process is over
  edits, crashes,                                  \* spent bounds
  cut,      \* history: sites whose target was deleted with its file
  torn      \* history: sites parked for a replacement that did not happen, or
            \* linked by a fallback that did not remove their refs

batch == <<todo, half, erred>>
vars == <<disk, row, modules, imps, edges, ref, pass, job, batch, started,
          edits, crashes, cut, torn>>

Site == File \X Symbol
Status == {"none", "pending", "failed", "abandoned"}
NoRef == [status |-> "none", attempts |-> 0]
NoJob == [at |-> "none"]
Work == [at : {"linked", "parked"}, content : Content,
         owner : UNION {[I -> Name \cup {Dead}] : I \in SUBSET Name},
         fresh : SUBSET Name, parks : SUBSET Symbol]
Pass == [kind : {"idle", "all", "changes", "resolve all", "resolve changes"},
         prune : SUBSET File, files : SUBSET File, keys : SUBSET File]
Idle == [kind |-> "idle", prune |-> {}, files |-> {}, keys |-> {}]

Indexed(f) == row[f] # NoRow

----------------------------------------------------------------------------
(* Queries *)

Definers(s) == {f \in File : Indexed(f) /\ s \in row[f].defs}

\* GetNodeByName: the file column of every node with the name.
Owners(n) ==
  (IF n \in modules THEN {n} ELSE {})
    \cup {f \in File : Indexed(f) /\ (n = f \/ n \in row[f].defs)}

hasProjectSymbol(s) == Owners(s) # {}
ShouldParkRef(s) == s \notin Noisy \/ hasProjectSymbol(s)

FilterByImports(f, cands) ==
  {g \in cands : \E e \in imps : e[1] = f /\ g \in Reaches[e[2]]}

Score(f, g) == CASE Nearness[f][g] = "file" -> 3
                 [] Nearness[f][g] = "dir"  -> 2
                 [] Nearness[f][g] = "kin"  -> 1
                 [] OTHER                   -> 0

\* MatchName: the one definition with the best score, or none when two tie.
MatchName(f, s, cands) ==
  {g \in cands : /\ s \notin row[g].twice
                 /\ \A h \in cands \ {g} : Score(f, h) < Score(f, g)}

\* The unique callable of the whole index, close to the caller or imported.
UniqueCallable(f, s, cands, reached) ==
  {g \in cands : /\ cands = {g} /\ s \notin row[g].twice
                 /\ g \in reached \/ Nearness[f][g] \in {"dir", "sub"}}

\* The set of the target chosen when the imports reach `reached`, or {}.
Preferred(f, s, reached) ==
  LET cands    == Definers(s)
      imported == MatchName(f, s, reached)
      close    == {g \in MatchName(f, s, cands) : Score(f, g) > 0}
  IN  IF imported # {} THEN imported
      ELSE IF close # {} THEN close
      ELSE UniqueCallable(f, s, cands, reached)

resolveOne(f, s) == Preferred(f, s, FilterByImports(f, Definers(s)))

\* An error in reading the imports counts as there being none.
resolveBlind(f, s) == Preferred(f, s, {})

----------------------------------------------------------------------------
(* The effect of DELETE FROM nodes WHERE file = f, with its cascades *)

KeptImps(f)  == {e \in imps : e[1] # f /\ e[3] # f}
\* Mutant: foreign keys off, so that only the file's own edges go.
M_KeptEdges(f) == {e \in edges : e[1] # f}
KeptEdges(f) == {e \in edges : e[1] # f /\ e[3] # f}
KeptRefs(f)  == [r \in Site |-> IF r[1] = f THEN NoRef ELSE ref[r]]

\* The import targets that other workers looked up among the deleted nodes.
Orphaned(jobs, f) ==
  [g \in File |->
     IF jobs[g].at = "none" THEN jobs[g]
     ELSE [jobs[g] EXCEPT !.owner =
             [n \in DOMAIN @ |-> IF @[n] = f /\ n \notin jobs[g].fresh
                                 THEN Dead ELSE @[n]]]]

ClearFile(f) ==
  /\ row' = [row EXCEPT ![f] = NoRow]
  /\ modules' = modules \ {f}
  /\ imps' = KeptImps(f)
  /\ edges' = KeptEdges(f)
  /\ ref' = KeptRefs(f)
  /\ job' = Orphaned(job, f)
  /\ cut' = {r \in cut : r[1] # f}
              \cup {<<e[1], e[2]>> : e \in {e \in edges : e[3] = f /\ e[1] # f}}
  /\ torn' = {r \in torn : r[1] # f}

----------------------------------------------------------------------------
(* The world outside: edits and deletions of files, the end of the process *)

Edit(f) ==
  /\ edits < MaxEdits
  /\ \E c \in Contents[f] \cup {Gone} :
       /\ c # disk[f]
       /\ disk' = [disk EXCEPT ![f] = c]
  /\ edits' = edits + 1
  /\ UNCHANGED <<row, modules, imps, edges, ref, pass, job, batch, started,
                 crashes, cut, torn>>

ParkedFiles == {f \in File : job[f].at = "parked"}
Inbound(f) == {e \in edges : e[3] = f /\ e[1] # f}
\* Mutant: callers of a definition the new content drops are not parked.
M_InboundSites(f) ==
  {<<e[1], e[2]>> : e \in {e \in Inbound(f) : disk[f] = Gone \/ e[2] \in disk[f].defs}}
InboundSites(f) == {<<e[1], e[2]>> : e \in Inbound(f)}

\* A crash, or a shutdown: an interrupted pass writes nothing more and skips
\* the resolution.
Crash ==
  /\ crashes < MaxCrashes
  /\ pass.kind # "idle"
  /\ crashes' = crashes + 1
  /\ torn' = torn \cup half \cup UNION {InboundSites(f) : f \in ParkedFiles}
  /\ pass' = Idle
  /\ job' = [f \in File |-> NoJob]
  /\ todo' = {} /\ half' = {} /\ erred' = {}
  /\ started' = FALSE
  /\ UNCHANGED <<disk, row, modules, imps, edges, ref, edits, cut>>

----------------------------------------------------------------------------
(* A pass: prune, index the files, resolve *)

BeginIndexAll ==
  /\ pass.kind = "idle"
  /\ LET jobs == {f \in File : disk[f] # Gone}
     IN  pass' = [kind |-> "all", keys |-> {}, files |-> jobs,
                  prune |-> {f \in File : Indexed(f)} \ jobs]
  /\ UNCHANGED <<disk, row, modules, imps, edges, ref, job, batch, started,
                 edits, crashes, cut, torn>>

BeginIndexChanges ==
  /\ pass.kind = "idle" /\ started
  /\ \E files \in SUBSET File \ {{}} :
       pass' = [kind |-> "changes", keys |-> {}, files |-> files, prune |-> {}]
  /\ UNCHANGED <<disk, row, modules, imps, edges, ref, job, batch, started,
                 edits, crashes, cut, torn>>

\* pruneMissingFiles
Prune(f) ==
  /\ f \in pass.prune
  /\ pass' = [pass EXCEPT !.prune = @ \ {f}]
  /\ ClearFile(f)
  /\ UNCHANGED <<disk, batch, started, edits, crashes>>

Free == Cardinality({f \in File : job[f].at # "none"})
          < (IF pass.kind = "all" THEN Workers ELSE 1)
Takes(f) == pass.kind \in {"all", "changes"} /\ pass.prune = {}
              /\ f \in pass.files /\ Free

Taken(f) == [pass EXCEPT !.files = @ \ {f},
               !.keys = IF pass.kind = "changes" THEN @ \cup {f} ELSE @]

\* A deleted file of a batch: its rows go, and it is no key of the resolution.
DeleteMissing(f) ==
  /\ pass.kind = "changes" /\ Takes(f) /\ disk[f] = Gone
  /\ pass' = [pass EXCEPT !.files = @ \ {f}]
  /\ ClearFile(f)
  /\ UNCHANGED <<disk, batch, started, edits, crashes>>

\* The gates find the bytes unchanged, or reading or extraction fails: the old
\* rows stay.
KeepOld(f) ==
  /\ Takes(f) /\ (pass.kind = "changes" => disk[f] # Gone)
  /\ pass' = Taken(f)
  /\ UNCHANGED <<disk, row, modules, imps, edges, ref, job, batch, started,
                 edits, crashes, cut, torn>>

\* indexFile up to the writes: extraction, same-file links, and the look-up
\* of the import targets, outside any transaction.
Link(f) ==
  /\ Takes(f) /\ disk[f] \notin {Gone, row[f]}
  /\ LET c == disk[f]
         fresh == {n \in c.imports : Owners(n) = {}}
     IN \E owner \in [c.imports -> Name] :
          /\ \A n \in c.imports :
               owner[n] \in IF n \in fresh \cup modules THEN {n} ELSE Owners(n)
          /\ job' = [job EXCEPT ![f] =
               [at |-> "linked", content |-> c, owner |-> owner, fresh |-> fresh,
                parks |-> {s \in c.calls \ (c.defs \ c.twice) : ShouldParkRef(s)}]]
  /\ pass' = Taken(f)
  /\ UNCHANGED <<disk, row, modules, imps, edges, ref, batch, started, edits,
                 crashes, cut, torn>>

\* The edges other files have into f become pending refs again, each keeping
\* the attempts of a row that is already there (db/query_refs.go).
ParkInboundRefsForFile(f) ==
  /\ job[f].at = "linked"
  /\ ref' = [r \in Site |-> IF r \in InboundSites(f)
                            THEN [ref[r] EXCEPT !.status = "pending"] ELSE ref[r]]
  /\ job' = [job EXCEPT ![f].at = "parked"]
  /\ UNCHANGED <<disk, row, modules, imps, edges, pass, batch, started, edits,
                 crashes, cut, torn>>

\* A target that is no row when the edge is inserted breaks the foreign key:
\* one that another worker deleted, and one the transaction itself deletes
\* because its file column is f.
ForeignKeysHold(f) ==
  \A n \in DOMAIN job[f].owner : job[f].owner[n] \notin {Dead, f}

ReplaceFileIndex(f) ==
  /\ job[f].at = "parked" /\ ForeignKeysHold(f)
  /\ LET j == job[f]
         c == j.content
     IN /\ row' = [row EXCEPT ![f] = c]
        /\ modules' = (modules \ {f}) \cup j.fresh
        /\ imps' = KeptImps(f) \cup {<<f, n, j.owner[n]>> : n \in DOMAIN j.owner}
        /\ edges' = KeptEdges(f)
                      \cup {<<f, s, f>> : s \in c.calls \cap (c.defs \ c.twice)}
        /\ ref' = [r \in Site |-> IF r[1] # f THEN ref[r]
                                  ELSE IF r[2] \in j.parks
                                       THEN [status |-> "pending", attempts |-> 0]
                                       ELSE NoRef]
  /\ job' = Orphaned([job EXCEPT ![f] = NoJob], f)
  /\ cut' = {r \in cut : r[1] # f}
  /\ torn' = {r \in torn : r[1] # f}
  /\ UNCHANGED <<disk, pass, batch, started, edits, crashes>>

\* The transaction rolls back, for a foreign key or any other error of the
\* database; the parked refs of the callers stay.
ReplaceFails(f) ==
  /\ job[f].at = "parked"
  /\ job' = [job EXCEPT ![f] = NoJob]
  /\ torn' = torn \cup InboundSites(f)
  /\ UNCHANGED <<disk, row, modules, imps, edges, ref, pass, batch, started, edits,
                 crashes, cut>>

----------------------------------------------------------------------------
(* Resolution *)

ChangedNames(keys) == keys \cup UNION {row[f].defs : f \in {f \in keys : Indexed(f)}}

\* The refs ResolveAll tries, and ResolveForFiles.
RetryAll == {r \in Site : \/ ref[r].status = "pending"
                          \/ ref[r].status = "failed" /\ Owners(r[2]) # {}}
\* Mutant: failed refs are retried only for the files of the pass.
M_RetryFor(keys) ==
  {r \in Site : \/ ref[r].status \in {"pending", "failed"} /\ r[1] \in keys
                \/ ref[r].status = "pending" /\ r[2] \in ChangedNames(keys)}
RetryFor(keys) == {r \in Site : /\ ref[r].status \in {"pending", "failed"}
                                /\ r[1] \in keys \/ r[2] \in ChangedNames(keys)}

\* The listing of the refs may fail: none is tried, and the pass goes on.
BeginResolve ==
  /\ pass.kind \in {"all", "changes"} /\ pass.prune = {} /\ pass.files = {}
  /\ \A f \in File : job[f].at = "none"
  /\ \/ /\ todo' = IF pass.keys = {} THEN RetryAll ELSE RetryFor(pass.keys)
        /\ UNCHANGED erred
     \/ UNCHANGED todo /\ erred' = Site
  /\ pass' = [pass EXCEPT !.kind = IF @ = "all" THEN "resolve all" ELSE "resolve changes"]
  /\ UNCHANGED <<disk, row, modules, imps, edges, ref, job, half, started, edits,
                 crashes, cut, torn>>

Resolving == pass.kind \in {"resolve all", "resolve changes"}

WriteEdge(r) ==
  \E g \in resolveOne(r[1], r[2]) \cup resolveBlind(r[1], r[2]) :
    edges' = edges \cup {<<r[1], r[2], g>>}

\* The batch transaction: the edge and the end of the ref are one step.
ApplyResolvedRef(r) ==
  /\ Resolving /\ r \in todo /\ half = {}
  /\ WriteEdge(r)
  /\ ref' = [ref EXCEPT ![r] = NoRef]
  /\ todo' = todo \ {r}
  /\ UNCHANGED <<disk, row, modules, imps, pass, job, half, erred, started,
                 edits, crashes, cut, torn>>

\* The batch failed and every plan is applied on its own: UpsertEdge, and
\* DeleteUnresolvedRef after it, each its own transaction.
UpsertEdge(r) ==
  /\ Resolving /\ r \in todo /\ half = {}
  /\ WriteEdge(r)
  /\ half' = {r}
  /\ UNCHANGED <<disk, row, modules, imps, ref, pass, job, todo, erred, started,
                 edits, crashes, cut, torn>>

DeleteUnresolvedRef(r) ==
  /\ r \in half /\ half' = {}
  /\ ref' = [ref EXCEPT ![r] = NoRef]
  /\ todo' = todo \ {r}
  /\ UNCHANGED <<disk, row, modules, imps, edges, pass, job, erred, started,
                 edits, crashes, cut, torn>>

\* The counter is only compared with the limit, so it saturates there.
Attempted(r) ==
  LET n == ref[r].attempts + 1
  IN  [status |-> IF n >= MaxAttempts THEN "abandoned" ELSE "failed",
       attempts |-> IF n >= MaxAttempts THEN MaxAttempts ELSE n]

MarkUnresolvedFailed(r) ==
  /\ Resolving /\ r \in todo /\ half = {}
  /\ resolveOne(r[1], r[2]) = {}
  /\ ref' = [ref EXCEPT ![r] = Attempted(r)]
  /\ todo' = todo \ {r}
  /\ UNCHANGED <<disk, row, modules, imps, edges, pass, job, half, erred, started,
                 edits, crashes, cut, torn>>

\* A look-up, the imports' included, or a write of the fallback fails: it counts
\* as an attempt of the ref, whether it has a target or not, unless that is not
\* written either.
AttemptErrs(r) ==
  /\ Resolving /\ r \in todo /\ half \subseteq {r}
  /\ ref' \in {ref, [ref EXCEPT ![r] = Attempted(r)]}
  /\ todo' = todo \ {r} /\ half' = {}
  /\ erred' = erred \cup {r} /\ torn' = torn \cup half
  /\ UNCHANGED <<disk, row, modules, imps, edges, pass, job, started, edits,
                 crashes, cut>>

\* scrubNoise, and the end of the pass
EndPass ==
  /\ Resolving /\ todo = {}
  /\ ref' = [r \in Site |->
       IF /\ ref[r].status \in {"pending", "failed"}
          /\ r[2] \in Noisy /\ ~hasProjectSymbol(r[2])
          /\ pass.kind = "resolve all" \/ r[1] \in pass.keys
       THEN NoRef ELSE ref[r]]
  /\ started' = TRUE
  /\ pass' = Idle /\ erred' = {}
  /\ UNCHANGED <<disk, row, modules, imps, edges, job, todo, half, edits, crashes,
                 cut, torn>>

----------------------------------------------------------------------------
Init ==
  /\ disk \in [File -> (UNION {Contents[f] : f \in File}) \cup {Gone}]
  /\ \A f \in File : disk[f] \in Contents[f] \cup {Gone}
  /\ row = [f \in File |-> NoRow]
  /\ modules = {} /\ imps = {} /\ edges = {}
  /\ ref = [r \in Site |-> NoRef]
  /\ pass = Idle
  /\ job = [f \in File |-> NoJob]
  /\ todo = {} /\ half = {} /\ erred = {}
  /\ started = FALSE
  /\ edits = 0 /\ crashes = 0
  /\ cut = {} /\ torn = {}

Next ==
  \/ \E f \in File : \/ Edit(f) \/ Prune(f) \/ DeleteMissing(f) \/ KeepOld(f)
                     \/ Link(f) \/ ParkInboundRefsForFile(f)
                     \/ ReplaceFileIndex(f) \/ ReplaceFails(f)
  \/ \E r \in Site : \/ ApplyResolvedRef(r) \/ UpsertEdge(r) \/ DeleteUnresolvedRef(r)
                     \/ MarkUnresolvedFailed(r) \/ AttemptErrs(r)
  \/ BeginIndexAll \/ BeginIndexChanges \/ BeginResolve \/ EndPass \/ Crash

Spec == Init /\ [][Next]_vars

----------------------------------------------------------------------------
(* Properties *)

\* Every variable has its type; a row that may still be retried has attempts
\* left (query_refs.go:567-586), and only files of the pass have workers.
TypeOK ==
  /\ disk \in [File -> Content \cup {Gone}]
  /\ row \in [File -> Content \cup {NoRow}]
  /\ modules \subseteq Name
  /\ imps \subseteq File \X Name \X Name
  /\ edges \subseteq File \X Symbol \X File
  /\ ref \in [Site -> [status : Status, attempts : 0..MaxAttempts]]
  /\ \A r \in Site : ref[r].status = "failed" => ref[r].attempts < MaxAttempts
  /\ job \in [File -> {NoJob} \cup Work]
  /\ pass \in Pass
  /\ todo \subseteq Site /\ half \subseteq Site /\ erred \subseteq Site
  /\ started \in BOOLEAN /\ edits \in Nat /\ crashes \in Nat
  /\ cut \subseteq Site /\ torn \subseteq Site

\* A call site of an indexed file is never forgotten: it is an edge, or a row
\* of unresolved_refs, whatever was re-indexed, deleted or interrupted since.
\* The exceptions the code makes: a noisy name that nothing defines, and a
\* site whose target was deleted with its file (query_refs.go:56-60).
SitesAccounted ==
  \A f \in File : Indexed(f) =>
    \A s \in row[f].calls \ Noisy :
      \/ \E g \in File : <<f, s, g>> \in edges
      \/ ref[<<f, s>>].status # "none"
      \/ <<f, s>> \in cut

\* No edge outlives what it stands for: its source file, as indexed, still
\* makes the call and its target file, as indexed, still has the definition.
\* Rows are replaced one file at a time, and the edges of both sides with them.
EdgesMatchRows ==
  \A e \in edges :
    /\ Indexed(e[1]) /\ e[2] \in row[e[1]].calls
    /\ Indexed(e[3]) /\ e[2] \in row[e[3]].defs

\* A call site has one target, and at rest it is not both linked and waiting,
\* unless its refs were parked for a replacement that then did not happen, or a
\* fallback wrote its edge and, by an error or a crash, did not remove its ref
\* (resolver.go:222-234, 261-268).
LinkedOnce ==
  \A r \in Site \ torn :
    LET targets == {g \in File : <<r[1], r[2], g>> \in edges}
    IN  /\ \A g, h \in targets : g = h
        /\ pass.kind = "idle" /\ targets # {} => ref[r].status = "none"

\* A pass leaves no ref that could be linked: none at all after IndexAll, none
\* of its files or of a name its files define after IndexChanges
\* (resolver.go:293-377).  The exception is a ref whose listing, look-up or
\* write met an error in that pass (57-70, 209-213, 386-413): it counts as a
\* failed attempt, and the pass says so only in its log.
ResolvedAtRest ==
  [][EndPass =>
       \A r \in Site \ erred :
         /\ ref'[r].status \in {"pending", "failed"}
         /\ \/ pass.keys = {}
            \/ r[1] \in pass.keys
            \/ r[2] \in ChangedNames(pass.keys)
         => resolveOne(r[1], r[2]) = {}]_vars
=============================================================================
