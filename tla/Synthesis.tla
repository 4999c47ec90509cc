------------------------------ MODULE Synthesis ------------------------------
(***************************************************************************)
(* Edges for calls that no line of code states: SynthesizeAll and its      *)
(* seven passes (internal/resolution/synthesize.go, synth_fnptr.go,        *)
(* synth_goframe.go), ReplaceSynthesizedEdges (internal/db/query_edges.go),*)
(* and how they share the edges table with the calls that indexing and     *)
(* resolution write (ParkInboundRefsForFile, ResolveForFiles), and with    *)
(* what removes them (ClearFile, ScrubNoisyFailedRefsForFiles).            *)
(*                                                                         *)
(* A text is what the extractor and the passes' patterns find in a file.   *)
(* The passes read nodes and edges from the index but the patterns from    *)
(* the file as it is now.  A node is its row; an edge has the key of its   *)
(* row, <<src, tgt, kind, line>> (the column is 0 for every edge), and     *)
(* whether its provenance and metadata say that a pass made it.            *)
(*                                                                         *)
(* Left out: the caps of 40 callbacks, 30 JSX children and 800 or 2000     *)
(* edges of a pass, which the instances do not reach, import edges and     *)
(* failures of indexing and resolution (IndexGraph has them), and later    *)
(* full passes than the first.                                             *)
(***************************************************************************)
EXTENDS Naturals, FiniteSets

CONSTANTS
    File,
    Texts,          \* [File -> the texts it may have]
    Nearness,       \* [File -> [File -> where a candidate's file lies, seen from the first]]
    Registrar, Dispatcher,      \* names that match registrarNameRe, dispatcherNameRe
    Controller,     \* files below a controller directory
    Addon,          \* [File -> its addon root]
    EventFanoutCap, \* eventFanoutCap (6 in the code)
    Noisy,          \* names that IsNoisyRefName tells
    MaxEdits, MaxFailures

VARIABLES
    disk,       \* [File -> text]
    indexed,    \* [File -> text that its rows were made from]
    edges,
    refs,       \* unresolved_refs
    dirty,      \* files the watcher has yet to hand to a pass
    pass,       \* the running pass; all: the one over the whole workspace
    edits, failures,
    lent,       \* history: refs that were parked from an edge a pass had made
    robbed,     \* history: call sites whose edge a pass has taken over
    cut,        \* history: call sites whose edge went with the file it leads to
    chained,    \* history: whether an edge the passes made registers a callback
    late        \* history: the passes have not run, or not found all, and no run is due

tables == <<indexed, edges, refs>>
histories == <<lent, robbed, cut>>
vars == <<disk, tables, dirty, pass, edits, failures, histories, chained, late>>

Idle == [at |-> "idle", files |-> {}, all |-> FALSE]
\* The text of a file that is not there.
NoText == [nodes |-> {}, calls |-> {}, bridges |-> {}, stores |-> {}, loops |-> {}, args |-> {},
           emits |-> {}, ons |-> {}, setStates |-> {}, tags |-> {}, assigns |-> {}, invokes |-> {},
           routes |-> {}, params |-> {}]

ASSUME SynthesisAssumption ==
    /\ \A f \in File : \A t \in Texts[f] :
          /\ DOMAIN t = DOMAIN NoText
          /\ \A n \in t.nodes : n.file = f /\ n.line > 0 /\ n.line <= n.end
    /\ Nearness \in [File -> [File -> {"file", "dir", "kin", "sub", "far"}]]
    /\ Controller \subseteq File
    /\ EventFanoutCap \in Nat \ {0} /\ IsFiniteSet(Noisy) /\ MaxEdits \in Nat /\ MaxFailures \in Nat

Listed == {f \in File : indexed[f] # NoText}
Nodes == UNION {indexed[f].nodes : f \in File}
Named(name) == {n \in Nodes : n.name = name}

isCallableKind(n) == n.kind \in {"function", "method", "component", "constructor"}
callTarget(n)     == n.kind \in {"function", "method", "class", "route"}
Covers(n, line)   == n.line <= line /\ line <= n.end

\* enclosingFn: the callable around the line that starts last.
enclosingFn(nodes, line) ==
    LET around == {n \in nodes : isCallableKind(n) /\ Covers(n, line)}
    IN  {n \in around : \A m \in around : m.line <= n.line}

Edge(src, tgt, kind, line, made) ==
    [src |-> src, tgt |-> tgt, kind |-> kind, line |-> line, made |-> made]
Key(e)  == <<e.src, e.tgt, e.kind, e.line>>
Site(e) == [from |-> e.src, name |-> e.tgt.name, kind |-> e.kind, line |-> e.line]

\* INSERT .. ON CONFLICT(source_id, target_id, kind, line, col) DO UPDATE
Upsert(old, new) == {e \in old : \A x \in new : Key(x) # Key(e)} \cup new

(***************************************************************************)
(* Indexing a file and resolving what refers to it.                        *)
(***************************************************************************)
\* The calls and bridges a text states, as refs of the enclosing function.
Stated(t, found, kind) ==
    UNION {{[from |-> n, name |-> c.name, kind |-> kind, line |-> c.line] :
              n \in enclosingFn(t.nodes, c.line)} : c \in found}
Sites(t) == Stated(t, t.calls, "calls") \cup Stated(t, t.bridges, "bridge")

\* A call of the only definition in the same file is linked at once.
SameFile(t, s) ==
    LET own == {n \in t.nodes : n.name = s.name /\ callTarget(n) /\ n # s.from}
    IN  IF s.kind = "calls" /\ Cardinality(own) = 1 THEN own ELSE {}
Linked(t) == UNION {{Edge(s.from, n, s.kind, s.line, "stated") : n \in SameFile(t, s)} : s \in Sites(t)}

\* ShouldParkRef, and the refs that scrubNoise would have none of.
Parks(s)    == s.name \notin Noisy \/ Named(s.name) # {}
Scrubbed(r) == r.name \in Noisy /\ (pass.all \/ pass.files = {} \/ r.from.file \in pass.files)

M_Inbound(f) == {}

\* parkInboundEdgesForNode: every edge from another file, whoever made it.
Inbound(f) == {e \in edges : e.tgt.file = f /\ e.src.file # f /\ e.kind \in {"calls", "bridge"}}

M_Kept(f) == {e \in edges : e.tgt.file # f}

\* The edges of a file's old rows go with them (ON DELETE CASCADE).
Kept(f) == {e \in edges : e.src.file # f /\ e.tgt.file # f}

Score(from, n) ==
    (CASE Nearness[from.file][n.file] = "file" -> 100
       [] Nearness[from.file][n.file] = "dir"  -> 50
       [] Nearness[from.file][n.file] = "kin"  -> 20
       [] OTHER -> 0)
    + (CASE n.kind \in {"function", "method"} -> 5 [] n.kind = "route" -> 3 [] OTHER -> 0)

\* resolveOne without imports: the best of the candidates that are near, or
\* the only callable of that name if it is in the directory or below.
resolveOne(s) ==
    LET cands == {n \in Named(s.name) : callTarget(n) /\ n # s.from}
        near  == {n \in cands : Nearness[s.from.file][n.file] \in {"file", "dir", "kin"}}
        best  == {n \in near : \A m \in cands \ {n} : Score(s.from, m) < Score(s.from, n)}
        only  == {n \in cands : cands = {n} /\ Nearness[s.from.file][n.file] = "sub"}
    IN  IF best # {} THEN best ELSE only

(***************************************************************************)
(* The passes.  Each offers the set of edges it would add.                 *)
(***************************************************************************)
Offer(src, tgts, kind, line) ==
    {[src |-> src, tgt |-> t, kind |-> kind, line |-> line] : t \in tgts \ {src}}

callableProximityScore(n, callers, regs) ==
    LET seen(fs, near) == \E f \in fs : Nearness[f][n.file] = near
    IN  CASE seen(callers, "file") -> 1 [] seen(callers, "dir") -> 2
          [] seen(regs, "file") -> 3    [] seen(regs, "dir") -> 4
          [] seen(callers, "sub") -> 10 [] OTHER -> 100

\* The nearest of the named nodes, as a set; among equals the database order
\* decides, here any fixed one.
pickByProximity(name, kinds, callers, regs) ==
    LET cands == {n \in Named(name) : n.kind \in kinds}
        best  == {n \in cands : \A m \in cands : callableProximityScore(n, callers, regs)
                                                   <= callableProximityScore(m, callers, regs)}
    IN  IF best = {} THEN {} ELSE {CHOOSE n \in best : TRUE}
pickCallable(name, callers, regs) == pickByProximity(name, {"function", "method"}, callers, regs)

\* The first match of a pattern in the lines of a node.
FirstIn(n, found) ==
    LET inside == {s \in found : Covers(n, s.line)}
    IN  {s.field : s \in {t \in inside : \A u \in inside : t.line <= u.line}}
registrarField(n)  == IF n.name \in Registrar THEN FirstIn(n, disk[n.file].stores) ELSE {}
dispatcherField(n) == IF n.name \in Dispatcher THEN FirstIn(n, disk[n.file].loops) ELSE {}

\* What the call at e passes to the registrar.
Callbacks(e) ==
    UNION {pickCallable(a.arg, {e.src.file}, {e.tgt.file}) :
             a \in {b \in disk[e.src.file].args : b.line = e.line /\ b.via = e.tgt.name}}

\* Registrars and dispatchers of one field: the dispatcher calls what the
\* calls of the registrar pass to it, the edges of earlier passes included.
fieldChannelEdges ==
    LET methods == {n \in Nodes : n.kind \in {"method", "function"}}
    IN  UNION {UNION {Offer(d, Callbacks(e), "calls", d.line) :
                        d \in {n \in methods : n.file = e.tgt.file
                                 /\ registrarField(e.tgt) \cap dispatcherField(n) # {}}} :
                 e \in {x \in edges : x.tgt \in methods /\ x.kind = "calls"}}

Emitters(event) ==
    UNION {UNION {enclosingFn(indexed[f].nodes, s.line) : s \in {x \in disk[f].emits : x.event = event}} :
             f \in Listed}
Handlers(event) ==
    UNION {UNION {pickCallable(s.handler, {}, {f}) : s \in {x \in disk[f].ons : x.event = event}} :
             f \in Listed}
\* Of several emits of an event in one function the last is kept.
LastEmit(d, event) ==
    {s.line : s \in {x \in disk[d.file].emits : x.event = event /\ d \in enclosingFn(indexed[d.file].nodes, x.line)
        /\ \A y \in disk[d.file].emits : y.event = event /\ d \in enclosingFn(indexed[d.file].nodes, y.line)
             => y.line <= x.line}}
eventEmitterEdges ==
    LET events == UNION {{s.event : s \in disk[f].emits} : f \in Listed}
        small  == {v \in events : /\ Cardinality(Emitters(v)) <= EventFanoutCap
                                  /\ Cardinality(Handlers(v)) <= EventFanoutCap}
    IN  UNION {UNION {UNION {Offer(d, Handlers(v), "calls", line) : line \in LastEmit(d, v)} :
                        d \in Emitters(v)} : v \in small}

classMethods(c) == {n \in indexed[c.file].nodes : n.kind = "method" /\ Covers(c, n.line)}
reactRenderEdges ==
    LET rendered(c) == {n \in classMethods(c) : n.name = "render"}
        setsState(n) == \E s \in indexed[n.file].setStates : Covers(n, s.line)
    IN  UNION {UNION {Offer(n, rendered(c), "calls", n.line) : n \in {m \in classMethods(c) : setsState(m)}} :
                 c \in {n \in Nodes : n.kind = "class"}}

reactJSXChildEdges ==
    LET Children(p) == UNION {pickByProximity(s.name, {"component", "function", "class"}, {p.file}, {}) :
                                s \in {x \in disk[p.file].tags : Covers(p, x.line)}}
    IN  UNION {Offer(p, Children(p), "calls", p.line) : p \in {n \in Nodes : isCallableKind(n)}}

\* Bridges that resolution left: the only callable, or the only symbol, of
\* the name wherever it is.
bridgeSymbolEdges ==
    LET Target(r) ==
            LET cands == Named(r.name) \ {r.from}
                calls == {n \in cands : isCallableKind(n)}
                pool  == IF calls = {} THEN Named(r.name) ELSE calls
            IN  IF Cardinality(pool) = 1 THEN pool ELSE {}
    IN  UNION {Offer(r.from, Target(r), "bridge", r.line) : r \in {x \in refs : x.kind = "bridge"}}

cFnPointerDispatchEdges ==
    LET InFile(f, name) == {n \in indexed[f].nodes : n.name = name /\ isCallableKind(n)}
        Pick(s) == IF s = {} THEN {} ELSE {CHOOSE n \in s : TRUE}
        Assigned(f, a) == IF InFile(f, a.handler) # {} THEN Pick(InFile(f, a.handler))
                          ELSE Pick({n \in Named(a.handler) : isCallableKind(n)})
        Registered(field) == UNION {UNION {Assigned(f, a) : a \in {x \in disk[f].assigns : x.field = field}} :
                                      f \in Listed}
    IN  UNION {UNION {UNION {Offer(d, Registered(s.field), "calls", s.line) :
                               d \in enclosingFn(indexed[f].nodes, s.line)} : s \in disk[f].invokes} : f \in Listed}

\* A route is served by the method that takes its request type; when several
\* do, by the one in a controller directory, then by the one of its addon.
selectGoFrameHandler(cands, file) ==
    LET inDir == {n \in cands : n.file \in Controller}
        pool  == IF inDir = {} THEN cands ELSE inDir
        same  == {n \in pool : Addon[n.file] = Addon[file]}
    IN  IF Cardinality(cands) = 1 THEN cands
        ELSE IF Cardinality(inDir) = 1 THEN inDir
        ELSE IF Cardinality(same) = 1 THEN same ELSE {}
goframeRouteEdges ==
    LET Takers(type) == {n \in Nodes : n.kind = "method" /\ \E p \in indexed[n.file].params :
                                          p.fn = n.name /\ p.type = type}
        Serving(r, join) == selectGoFrameHandler(
            IF Takers(join.key) # {} THEN Takers(join.key) ELSE Takers(join.bare), r.file)
    IN  UNION {UNION {Offer(r, Serving(r, join), "calls", r.line) :
                        join \in {x \in indexed[r.file].routes : x.name = r.name}} :
                 r \in {n \in Nodes : n.kind = "route"}}

Passes == <<fieldChannelEdges, eventEmitterEdges, reactRenderEdges, reactJSXChildEdges,
            bridgeSymbolEdges, cFnPointerDispatchEdges, goframeRouteEdges>>

\* One edge per source, target and kind: the first pass that offers it.  Go
\* visits events in any order, so that one of several lines is as good.
Pair(o) == <<o.src, o.tgt, o.kind>>
AllOffered ==
    LET offers == Passes
        pairs  == [i \in DOMAIN offers |-> {Pair(o) : o \in offers[i]}]
    IN  UNION {{o \in offers[i] : \A j \in 1 .. i - 1 : Pair(o) \notin pairs[j]} : i \in DOMAIN offers}
Merged ==
    LET all  == AllOffered
        sole == {o \in all : \A p \in all : Pair(p) = Pair(o) => p = o}
        OnePerPair(S) == \A o \in all \ sole : \E p \in S : \A q \in S : Pair(q) = Pair(o) <=> q = p
    IN  {{Edge(o.src, o.tgt, o.kind, o.line, "made") : o \in sole \cup S} :
           S \in {T \in SUBSET (all \ sole) : OnePerPair(T)}}

Made == {e \in edges : e.made = "made"}

(***************************************************************************)
(* Actions.                                                                *)
(***************************************************************************)
\* In the first pass every file has been written; nothing was parked, for
\* nothing was resolved yet.  A noisy name was parked if its symbol was there.
Init ==
    /\ disk \in [File -> UNION {Texts[f] : f \in File}] /\ \A f \in File : disk[f] \in Texts[f]
    /\ indexed = disk
    /\ edges = UNION {Linked(disk[f]) : f \in File}
    /\ LET open == (UNION {Sites(disk[f]) : f \in File}) \ {Site(e) : e \in edges}
       IN  \E dropped \in SUBSET {s \in open : s.name \in Noisy} : refs = open \ dropped
    /\ dirty = {} /\ pass = [at |-> "index", files |-> File, all |-> TRUE]
    /\ edits = 0 /\ failures = 0 /\ lent = {} /\ robbed = {} /\ cut = {}
    /\ chained = FALSE /\ late = FALSE

\* A file is written, made or removed.
Edit(f) ==
    /\ edits < MaxEdits /\ edits' = edits + 1
    /\ \E t \in Texts[f] \ {disk[f]} : disk' = [disk EXCEPT ![f] = t]
    /\ dirty' = dirty \cup {f}
    /\ UNCHANGED <<tables, pass, failures, histories, chained, late>>

Takes(f) == f \in dirty /\ (pass = Idle \/ (pass.at = "index" /\ ~pass.all))

\* One file of a batch: inbound edges are parked, the rows replaced; edges
\* and refs of the old rows go with them.  Unchanged bytes keep their rows.
Index(f) ==
    /\ Takes(f) /\ disk[f] # NoText /\ dirty' = dirty \ {f}
    /\ pass' = [pass EXCEPT !.at = "index", !.files = @ \cup {f}]
    /\ IF indexed[f] = disk[f] THEN UNCHANGED <<tables, histories>>
       ELSE LET t == disk[f]
                own == Linked(t)
            IN  /\ indexed' = [indexed EXCEPT ![f] = t]
                /\ edges' = Kept(f) \cup own
                /\ refs' = {r \in refs : r.from.file # f} \cup {Site(e) : e \in Inbound(f)}
                             \cup {s \in Sites(t) \ {Site(e) : e \in own} : Parks(s)}
                /\ lent' = {r \in lent : r.from.file # f}
                             \cup {Site(e) : e \in Inbound(f) \cap Made}
                /\ robbed' = {s \in robbed : s.from.file # f}
                /\ cut' = {s \in cut : s.from.file # f}
    /\ UNCHANGED <<disk, edits, failures, chained, late>>

\* ClearFile of a file that is gone: nothing is parked.  The watcher runs no
\* pass for it; in a batch (IndexChanges) it counts for none of its files.
Delete(f) ==
    /\ Takes(f) /\ disk[f] = NoText /\ dirty' = dirty \ {f}
    /\ pass' \in {pass, [pass EXCEPT !.at = "index"]}
    /\ indexed' = [indexed EXCEPT ![f] = NoText]
    /\ edges' = Kept(f)
    /\ refs' = {r \in refs : r.from.file # f}
    /\ lent' = {r \in lent : r.from.file # f}
    /\ robbed' = {s \in robbed : s.from.file # f}
    /\ cut' = {s \in cut : s.from.file # f} \cup {Site(e) : e \in Inbound(f) \ Made}
    /\ late' = TRUE
    /\ UNCHANGED <<disk, edits, failures, chained>>

\* ResolveForFiles: the refs of the batch's files and those that wait for a
\* name they define; ResolveAll when the batch has no files.
Resolve ==
    /\ pass.at = "index" /\ pass' = [pass EXCEPT !.at = "scrub"]
    /\ LET names == {n.name : n \in UNION {indexed[f].nodes : f \in pass.files}}
           tried == {r \in refs : pass.all \/ pass.files = {} \/ r.from.file \in pass.files
                                    \/ r.name \in names}
           found == {r \in tried : resolveOne(r) # {}}
       IN  /\ edges' = Upsert(edges, UNION {{Edge(r.from, n, r.kind, r.line, "stated") : n \in resolveOne(r)} :
                                              r \in found})
           /\ refs' = refs \ found
    /\ UNCHANGED <<disk, indexed, dirty, edits, failures, histories, chained, late>>

\* scrubNoise: noisy names without a symbol go.  An error of the removal ends
\* it, one of the lookup takes the symbol for absent; neither is reported.
Scrub ==
    /\ pass.at = "scrub" /\ pass' = [pass EXCEPT !.at = "synthesize"]
    /\ LET noise == {r \in refs : Scrubbed(r)}
       IN  \/ refs' = refs \ {r \in noise : Named(r.name) = {}} /\ UNCHANGED failures
           \/ /\ failures < MaxFailures /\ failures' = failures + 1
              /\ \E gone \in SUBSET noise : refs' = refs \ gone
    /\ UNCHANGED <<disk, indexed, edges, dirty, edits, histories, chained, late>>

M_ReplaceSynthesizedEdges(new) == edges' = Upsert(edges, new)

\* In one transaction: all edges of earlier passes go, the new ones are
\* upserted.
ReplaceSynthesizedEdges(new) == edges' = Upsert(edges \ Made, new)

Registers(e) == e.kind = "calls" /\ registrarField(e.tgt) # {} /\ Callbacks(e) # {}
TakenOver(new) == {Site(e) : e \in {x \in edges \ Made : \E y \in new : Key(x) = Key(y)}}

Synthesize(new) ==
    /\ pass.at = "synthesize" /\ pass' = Idle
    /\ ReplaceSynthesizedEdges(new)
    /\ robbed' = robbed \cup TakenOver(new)
    /\ chained' = \E e \in Made \cup new : Registers(e)
    /\ UNCHANGED <<disk, indexed, refs, dirty, edits, lent, cut>>

SynthesizeAll ==
    /\ \E new \in Merged : Synthesize(new)
    /\ late' = FALSE /\ UNCHANGED failures

\* A read of a file or of the index fails within a pass, which skips what it
\* was for and reports nothing: fewer edges replace the old ones.
SynthesizePart ==
    /\ failures < MaxFailures /\ failures' = failures + 1
    /\ \E new \in Merged : \E found \in SUBSET new : Synthesize(found)
    /\ late' = TRUE

\* A pass or the transaction fails and the old edges stay.  The watcher hands
\* the batch to a pass again, unless its retries are spent; after the full
\* pass and git's changes the server only logs the failure.
SynthesisFails ==
    /\ pass.at = "synthesize" /\ failures < MaxFailures /\ failures' = failures + 1
    /\ pass' = Idle
    /\ \/ /\ ~pass.all /\ pass.files # {}
          /\ dirty' = dirty \cup pass.files /\ UNCHANGED late
       \/ dirty' = dirty /\ late' = TRUE
    /\ UNCHANGED <<disk, tables, edits, histories, chained>>

Next ==
    \/ \E f \in File : Edit(f) \/ Index(f) \/ Delete(f)
    \/ Resolve \/ Scrub \/ SynthesizeAll \/ SynthesizePart \/ SynthesisFails

Spec == Init /\ [][Next]_vars

-----------------------------------------------------------------------------
AtRest == pass = Idle /\ dirty = {}

\* Once a run of the passes has caught up with the edits, the made edges are
\* what the patterns offer for the files as they are: none survives from an
\* earlier run, none is missing after a failed one that is retried, and no
\* read of a file that had changed since it was indexed is left in them.  Not
\* so after the changes that no run of the passes follows, nor after a read
\* error in the last run (late): ClearFile by the watcher, a failed run that
\* nobody retries.  And not for the edges that come of made edges (chained):
\* the pass of registered callbacks reads the table, in which those of the
\* previous run still are (synthesize.go:522).
SynthesizedCurrent ==
    AtRest /\ ~chained /\ ~late => {Pair(e) : e \in Made} = {Pair(o) : o \in AllOffered}

\* Every edge stands for something: a call or bridge that its file states, or
\* a pattern; but for the made edges that were parked as refs when the file of
\* their target was replaced, which come back as if the code stated them.
EdgesJustified ==
    AtRest => \A e \in edges \ Made : Site(e) \in Sites(indexed[e.src.file]) \cup lent

\* No call site of an indexed file is forgotten: it has an edge or waits.  But
\* for those whose edge a pass has taken over, for the next pass removes it;
\* those whose edge went with the file it led to, for ClearFile parks nothing
\* (query_files.go:132); and noisy names, which wait only while a symbol has
\* the name (noise.go).
CallsKept ==
    AtRest => \A f \in File : \A s \in Sites(indexed[f]) :
                 s.name \in Noisy \/ s \in refs \cup robbed \cup cut \cup {Site(e) : e \in edges}
=============================================================================
