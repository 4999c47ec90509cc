-------------------------- MODULE IndexGraph_proofs --------------------------
(***************************************************************************)
(* The safety properties of IndexGraph for any number of files, symbols,   *)
(* workers, contents and edits.                                            *)
(*                                                                         *)
(* SitesAccounted and LinkedOnce are about edges and refs at rest; what    *)
(* makes them inductive is what holds in between: while a worker has       *)
(* parked the callers of its file and not yet replaced it, exactly the     *)
(* edges into that file are both linked and waiting.                       *)
(***************************************************************************)
EXTENDS IndexGraph, TLAPS

(* The resolver runs alone, after the last worker has finished, and a file *)
(* that is still to be taken has no worker.                                *)
Stages ==
  /\ todo # {} => Resolving
  /\ half \subseteq todo
  /\ \A f \in pass.files : job[f].at = "none"
  /\ pass.kind \notin {"all", "changes"} =>
       /\ pass.prune = {} /\ pass.files = {}
       /\ \A f \in File : job[f].at = "none"

(* Refs belong to call sites of the indexed content.                       *)
RefsMatch ==
  \A f \in File, s \in Symbol : ref[<<f, s>>].status # "none" =>
    Indexed(f) /\ s \in row[f].calls

TodoWaits == \A r \in todo : ref[r].status # "none"

(* A worker links or parks every call site of the content it has read.     *)
JobsLink ==
  \A f \in File : job[f].at # "none" =>
    LET c == job[f].content
    IN  /\ job[f].parks \subseteq c.calls \ (c.defs \ c.twice)
        /\ (c.calls \ (c.defs \ c.twice)) \ Noisy \subseteq job[f].parks

(* Once parked, every caller from another file waits.                      *)
ParkedWait ==
  \A f, g \in File, s \in Symbol :
    job[f].at = "parked" /\ <<g, s, f>> \in edges /\ g # f
      => ref[<<g, s>>].status # "none"

(* ... and nobody else is linked and waiting.                              *)
OnlyParkedWait ==
  \A f, g \in File, s \in Symbol :
    /\ <<f, s, g>> \in edges /\ ref[<<f, s>>].status # "none"
    /\ <<f, s>> \notin torn \cup half
    => job[g].at = "parked" /\ g # f

(* The fallback has one ref under way, and its edge is there.              *)
HalfLinked ==
  \A r \in half : half = {r} /\ \E d \in File : <<r[1], r[2], d>> \in edges

OneTarget ==
  \A f, g, h \in File, s \in Symbol :
    <<f, s, g>> \in edges /\ <<f, s, h>> \in edges /\ <<f, s>> \notin torn => g = h

EdgesMatch ==
  \A f, g \in File, s \in Symbol : <<f, s, g>> \in edges =>
    Indexed(f) /\ s \in row[f].calls /\ Indexed(g) /\ s \in row[g].defs

Core == /\ Stages /\ RefsMatch /\ TodoWaits /\ JobsLink /\ ParkedWait
        /\ OnlyParkedWait /\ HalfLinked /\ OneTarget /\ EdgesMatch /\ SitesAccounted

-----------------------------------------------------------------------------
(* Types *)

(* A worker whose targets a deletion has orphaned is still a worker.       *)
LEMMA OrphanedType ==
  ASSUME NEW jobs \in [File -> {NoJob} \cup Work], NEW f \in File
  PROVE  /\ Orphaned(jobs, f) \in [File -> {NoJob} \cup Work]
         /\ \A g \in File :
              /\ Orphaned(jobs, f)[g].at = jobs[g].at
              /\ jobs[g].at # "none" =>
                   /\ Orphaned(jobs, f)[g].content = jobs[g].content
                   /\ Orphaned(jobs, f)[g].parks = jobs[g].parks
  <1> DEFINE J == Orphaned(jobs, f)
             Owner(g) == [n \in DOMAIN jobs[g].owner |->
                            IF jobs[g].owner[n] = f /\ n \notin jobs[g].fresh
                            THEN Dead ELSE jobs[g].owner[n]]
  <1>1. ASSUME NEW g \in File
        PROVE  /\ J[g] \in {NoJob} \cup Work
               /\ J[g].at = jobs[g].at
               /\ jobs[g].at # "none" => /\ J[g].content = jobs[g].content
                                         /\ J[g].parks = jobs[g].parks
    <2>1. CASE jobs[g].at = "none"
      BY <2>1 DEF Orphaned
    <2>2. CASE jobs[g].at # "none"
      <3>1. jobs[g] \in Work
        BY <2>2 DEF NoJob
      <3>2. J[g] = [jobs[g] EXCEPT !.owner = Owner(g)]
        BY <2>2 DEF Orphaned
      <3>3. PICK I \in SUBSET Name : jobs[g].owner \in [I -> Name \cup {Dead}]
        BY <3>1 DEF Work
      <3>4. Owner(g) \in [I -> Name \cup {Dead}]
        BY <3>3
      <3>5. Owner(g) \in UNION {[K -> Name \cup {Dead}] : K \in SUBSET Name}
        BY <3>4
      <3> HIDE DEF Owner, J
      <3>6. J[g] \in Work
        BY <3>1, <3>2, <3>5 DEF Work
      <3> QED BY <3>1, <3>2, <3>6 DEF Work
    <2> QED BY <2>1, <2>2
  <1>2. J = [g \in File |-> J[g]]
    BY DEF Orphaned
  <1> QED BY <1>1, <1>2

LEMMA ClearType ==
  ASSUME TypeOK, NEW f \in File, ClearFile(f)
  PROVE  /\ row' \in [File -> Content \cup {NoRow}]
         /\ modules' \subseteq Name
         /\ imps' \subseteq File \X Name \X Name
         /\ edges' \subseteq File \X Symbol \X File
         /\ ref' \in [Site -> [status : Status, attempts : 0..MaxAttempts]]
         /\ \A r \in Site : ref'[r].status = "failed" => ref'[r].attempts < MaxAttempts
         /\ job' \in [File -> {NoJob} \cup Work]
         /\ cut' \subseteq Site /\ torn' \subseteq Site
  <1>1. NoRef \in [status : Status, attempts : 0..MaxAttempts]
    BY GraphAssumption DEF NoRef, Status
  <1>2. row' \in [File -> Content \cup {NoRow}] /\ modules' \subseteq Name
    BY DEF TypeOK, ClearFile
  <1>3. imps' \subseteq imps /\ edges' \subseteq edges /\ torn' \subseteq torn
    BY DEF ClearFile, KeptImps, KeptEdges
  <1>4. /\ ref' \in [Site -> [status : Status, attempts : 0..MaxAttempts]]
        /\ \A r \in Site : ref'[r].status = "failed" => ref'[r].attempts < MaxAttempts
    BY <1>1 DEF TypeOK, ClearFile, KeptRefs, NoRef
  <1>5. job' \in [File -> {NoJob} \cup Work]
    BY OrphanedType DEF TypeOK, ClearFile
  <1>6. cut' \subseteq Site
    BY DEF TypeOK, ClearFile, Site
  <1> QED BY <1>2, <1>3, <1>4, <1>5, <1>6 DEF TypeOK

(* What the resolver chooses defines the name.                             *)
LEMMA ChoiceDefines ==
  ASSUME NEW f, NEW s, NEW reached \in SUBSET Definers(s)
  PROVE  Preferred(f, s, reached) \subseteq Definers(s)
  BY DEF Preferred, MatchName, UniqueCallable

LEMMA WritesTo ==
  ASSUME NEW r, WriteEdge(r)
  PROVE  \E d \in Definers(r[2]) : edges' = edges \cup {<<r[1], r[2], d>>}
  <1>1. FilterByImports(r[1], Definers(r[2])) \subseteq Definers(r[2])
    BY DEF FilterByImports
  <1>2. /\ resolveOne(r[1], r[2]) \subseteq Definers(r[2])
        /\ resolveBlind(r[1], r[2]) \subseteq Definers(r[2])
    BY <1>1, ChoiceDefines DEF resolveOne, resolveBlind
  <1> QED BY <1>2 DEF WriteEdge

LEMMA RefType ==
  ASSUME TypeOK, NEW r \in Site,
         NEW new \in [status : Status, attempts : 0..MaxAttempts],
         new.status = "failed" => new.attempts < MaxAttempts,
         ref' = ref \/ ref' = [ref EXCEPT ![r] = new]
  PROVE  /\ ref' \in [Site -> [status : Status, attempts : 0..MaxAttempts]]
         /\ \A q \in Site : ref'[q].status = "failed" => ref'[q].attempts < MaxAttempts
  <1> DEFINE T == [status : Status, attempts : 0..MaxAttempts]
  <1>1. ref \in [Site -> T] /\ new \in T
    BY DEF TypeOK
  <1>2. \A q \in Site : ref[q].status = "failed" => ref[q].attempts < MaxAttempts
    BY DEF TypeOK
  <1> HIDE DEF T
  <1>3. ref' \in [Site -> T]
    BY <1>1
  <1>4. \A q \in Site : ref'[q] = ref[q] \/ ref'[q] = new
    BY <1>1
  <1>5. \A q \in Site : ref'[q].status = "failed" => ref'[q].attempts < MaxAttempts
    BY <1>2, <1>4
  <1> QED BY <1>3, <1>5 DEF T

LEMMA WriteType ==
  ASSUME TypeOK, NEW r \in Site, WriteEdge(r)
  PROVE  edges' \subseteq File \X Symbol \X File
  <1>1. PICK d \in Definers(r[2]) : edges' = edges \cup {<<r[1], r[2], d>>}
    BY WritesTo
  <1>2. d \in File /\ r[1] \in File /\ r[2] \in Symbol
    BY DEF Definers, Site
  <1> QED BY <1>1, <1>2 DEF TypeOK

LEMMA TypeStep == TypeOK /\ [Next]_vars => TypeOK'
  <1> SUFFICES ASSUME TypeOK, [Next]_vars PROVE TypeOK'
    OBVIOUS
  <1> USE GraphAssumption
  <1>1. CASE UNCHANGED vars
    BY <1>1 DEF vars, batch, TypeOK
  <1>2. CASE \E f \in File : Edit(f)
    BY <1>2 DEF Edit, TypeOK, batch
  <1>3. CASE \E f \in File : Prune(f) \/ DeleteMissing(f)
    <2> PICK f \in File : Prune(f) \/ DeleteMissing(f)
      BY <1>3
    <2>1. pass' \in Pass
      <3>1. CASE Prune(f)
        BY <3>1 DEF Prune, TypeOK, Pass
      <3>2. CASE DeleteMissing(f)
        BY <3>2 DEF DeleteMissing, TypeOK, Pass
      <3> QED BY <3>1, <3>2
    <2>2. ClearFile(f) /\ UNCHANGED <<disk, batch, started, edits, crashes>>
      BY DEF Prune, DeleteMissing
    <2> QED BY <2>1, <2>2, ClearType DEF TypeOK, batch
  <1>4. CASE \E f \in File : KeepOld(f)
    <2>1. PICK f \in File : KeepOld(f)
      BY <1>4
    <2>2. Taken(f) \in Pass
      BY <2>1 DEF Taken, TypeOK, Pass
    <2>3. pass' \in Pass
      BY <2>1, <2>2 DEF KeepOld
    <2> QED BY <2>1, <2>3 DEF KeepOld, TypeOK, batch
  <1>5. CASE \E f \in File : Link(f)
    <2> PICK f \in File : Link(f)
      BY <1>5
    <2>1. pass' \in Pass
      BY DEF Link, Taken, TypeOK, Pass
    <2>2. disk[f] \in Content
      BY DEF Link, TypeOK
    <2>3. job' \in [File -> {NoJob} \cup Work]
      <3> DEFINE c == disk[f]
                 fresh == {n \in c.imports : Owners(n) = {}}
                 parks == {s \in c.calls \ (c.defs \ c.twice) : ShouldParkRef(s)}
      <3>1. PICK owner \in [c.imports -> Name] :
              job' = [job EXCEPT ![f] = [at |-> "linked", content |-> c,
                        owner |-> owner, fresh |-> fresh, parks |-> parks]]
        BY DEF Link
      <3>2. c.imports \in SUBSET Name /\ fresh \in SUBSET Name /\ parks \in SUBSET Symbol
        BY <2>2 DEF Content
      <3>3. owner \in [c.imports -> Name \cup {Dead}]
        OBVIOUS
      <3>4. owner \in UNION {[K -> Name \cup {Dead}] : K \in SUBSET Name}
        BY <3>2, <3>3
      <3> HIDE DEF fresh, parks
      <3>5. [at |-> "linked", content |-> c, owner |-> owner, fresh |-> fresh,
             parks |-> parks] \in Work
        BY <2>2, <3>2, <3>4 DEF Work
      <3> QED BY <3>1, <3>5 DEF TypeOK
    <2> QED BY <2>1, <2>3 DEF Link, TypeOK, batch
  <1>6. CASE \E f \in File : ParkInboundRefsForFile(f)
    <2> PICK f \in File : ParkInboundRefsForFile(f)
      BY <1>6
    <2>1. /\ ref' \in [Site -> [status : Status, attempts : 0..MaxAttempts]]
          /\ \A r \in Site : ref'[r].status = "failed" => ref'[r].attempts < MaxAttempts
      BY DEF ParkInboundRefsForFile, TypeOK, Status
    <2>2. job[f] \in Work
      BY DEF ParkInboundRefsForFile, TypeOK, NoJob
    <2>3. [job[f] EXCEPT !.at = "parked"] \in Work
      BY <2>2 DEF Work
    <2>4. job' \in [File -> {NoJob} \cup Work]
      BY <2>3 DEF ParkInboundRefsForFile, TypeOK
    <2> QED BY <2>1, <2>4 DEF ParkInboundRefsForFile, TypeOK, batch
  <1>7. CASE \E f \in File : ReplaceFileIndex(f)
    <2> PICK f \in File : ReplaceFileIndex(f)
      BY <1>7
    <2> DEFINE j == job[f]
               c == job[f].content
    <2>1. /\ j \in Work /\ c \in Content
          /\ j.fresh \subseteq Name /\ j.parks \subseteq Symbol
      BY DEF ReplaceFileIndex, TypeOK, NoJob, Work
    <2>2. c.calls \subseteq Symbol /\ c.imports \subseteq Name
      BY <2>1 DEF Content
    <2>3. row' \in [File -> Content \cup {NoRow}] /\ modules' \subseteq Name
      BY <2>1 DEF ReplaceFileIndex, TypeOK
    <2>4. imps' \subseteq File \X Name \X Name
      <3>1. job[f] \in Work
        BY <2>1
      <3>2. \A n \in DOMAIN job[f].owner : n \in Name /\ job[f].owner[n] \in Name
        <4>1. PICK I \in SUBSET Name : job[f].owner \in [I -> Name \cup {Dead}]
          BY ONLY <3>1 DEF Work
        <4> QED BY <4>1 DEF ReplaceFileIndex, ForeignKeysHold
      <3>3. KeptImps(f) \subseteq File \X Name \X Name
        BY DEF KeptImps, TypeOK
      <3> QED BY <3>2, <3>3 DEF ReplaceFileIndex
    <2>5. edges' \subseteq File \X Symbol \X File
      BY <2>2 DEF ReplaceFileIndex, KeptEdges, TypeOK
    <2>6. /\ ref' \in [Site -> [status : Status, attempts : 0..MaxAttempts]]
          /\ \A r \in Site : ref'[r].status = "failed" => ref'[r].attempts < MaxAttempts
      BY DEF ReplaceFileIndex, TypeOK, NoRef, Status
    <2>7. job' \in [File -> {NoJob} \cup Work]
      <3>1. [job EXCEPT ![f] = NoJob] \in [File -> {NoJob} \cup Work]
        BY DEF TypeOK
      <3> QED BY <3>1, OrphanedType DEF ReplaceFileIndex
    <2>8. cut' \subseteq Site /\ torn' \subseteq Site
      BY DEF ReplaceFileIndex, TypeOK
    <2> QED BY <2>3, <2>4, <2>5, <2>6, <2>7, <2>8 DEF ReplaceFileIndex, TypeOK, batch
  <1>8. CASE \E f \in File : ReplaceFails(f)
    <2>1. PICK f \in File : ReplaceFails(f)
      BY <1>8
    <2>2. torn' \subseteq Site
      BY <2>1 DEF ReplaceFails, InboundSites, Inbound, TypeOK, Site
    <2> QED BY <2>1, <2>2 DEF ReplaceFails, TypeOK, batch
  <1>9. CASE \E r \in Site : ApplyResolvedRef(r) \/ UpsertEdge(r) \/ DeleteUnresolvedRef(r)
    <2> PICK r \in Site : ApplyResolvedRef(r) \/ UpsertEdge(r) \/ DeleteUnresolvedRef(r)
      BY <1>9
    <2>1. edges' \subseteq File \X Symbol \X File
      <3>1. CASE WriteEdge(r)
        BY <3>1, WriteType
      <3>2. CASE edges' = edges
        BY <3>2 DEF TypeOK
      <3> QED BY <3>1, <3>2 DEF ApplyResolvedRef, UpsertEdge, DeleteUnresolvedRef
    <2>2. NoRef \in [status : Status, attempts : 0..MaxAttempts]
      BY DEF NoRef, Status
    <2>3. ref' = ref \/ ref' = [ref EXCEPT ![r] = NoRef]
      BY DEF ApplyResolvedRef, UpsertEdge, DeleteUnresolvedRef
    <2>4. /\ ref' \in [Site -> [status : Status, attempts : 0..MaxAttempts]]
          /\ \A q \in Site : ref'[q].status = "failed" => ref'[q].attempts < MaxAttempts
      <3>1. NoRef.status = "none"
        BY DEF NoRef
      <3> QED BY <2>2, <2>3, <3>1, RefType
    <2>5. todo' \subseteq Site /\ half' \subseteq Site /\ erred' = erred
      BY DEF ApplyResolvedRef, UpsertEdge, DeleteUnresolvedRef, TypeOK
    <2>6. UNCHANGED <<disk, row, modules, imps, pass, job, started, edits, crashes, cut, torn>>
      BY DEF ApplyResolvedRef, UpsertEdge, DeleteUnresolvedRef
    <2> QED BY <2>1, <2>4, <2>5, <2>6 DEF TypeOK
  <1>10. CASE \E r \in Site : MarkUnresolvedFailed(r) \/ AttemptErrs(r)
    <2> PICK r \in Site : MarkUnresolvedFailed(r) \/ AttemptErrs(r)
      BY <1>10
    <2>1. ref' = ref \/ ref' = [ref EXCEPT ![r] = Attempted(r)]
      BY DEF MarkUnresolvedFailed, AttemptErrs
    <2>2. /\ Attempted(r) \in [status : Status, attempts : 0..MaxAttempts]
          /\ Attempted(r).status = "failed" => Attempted(r).attempts < MaxAttempts
      <3>1. ref[r].attempts \in 0..MaxAttempts
        BY DEF TypeOK
      <3> QED BY <3>1 DEF Attempted, Status
    <2>3. /\ ref' \in [Site -> [status : Status, attempts : 0..MaxAttempts]]
          /\ \A q \in Site : ref'[q].status = "failed" => ref'[q].attempts < MaxAttempts
      BY <2>1, <2>2, RefType
    <2>4. /\ todo' \subseteq Site /\ half' \subseteq Site
          /\ erred' \subseteq Site /\ torn' \subseteq Site
      BY DEF MarkUnresolvedFailed, AttemptErrs, TypeOK
    <2>5. UNCHANGED <<disk, row, modules, imps, edges, pass, job, started, edits, crashes, cut>>
      BY DEF MarkUnresolvedFailed, AttemptErrs
    <2> QED BY <2>3, <2>4, <2>5 DEF TypeOK
  <1>11. CASE BeginIndexAll \/ BeginIndexChanges
    <2>1. pass' \in Pass
      <3>1. CASE BeginIndexAll
        BY <3>1 DEF BeginIndexAll, Pass
      <3>2. CASE BeginIndexChanges
        BY <3>2 DEF BeginIndexChanges, Pass
      <3> QED BY <1>11, <3>1, <3>2
    <2> QED BY <1>11, <2>1 DEF BeginIndexAll, BeginIndexChanges, TypeOK, batch
  <1>12. CASE BeginResolve
    <2>1. pass' \in Pass
      BY <1>12 DEF BeginResolve, TypeOK, Pass
    <2>2. todo' \subseteq Site /\ erred' \subseteq Site /\ half' = half
      BY <1>12 DEF BeginResolve, RetryAll, RetryFor, TypeOK
    <2> QED BY <1>12, <2>1, <2>2 DEF BeginResolve, TypeOK
  <1>13. CASE EndPass
    <2>1. Idle \in Pass /\ NoRef \in [status : Status, attempts : 0..MaxAttempts]
      BY DEF Idle, Pass, NoRef, Status
    <2>2. /\ ref' \in [Site -> [status : Status, attempts : 0..MaxAttempts]]
          /\ \A r \in Site : ref'[r].status = "failed" => ref'[r].attempts < MaxAttempts
      BY <1>13, <2>1 DEF EndPass, TypeOK, NoRef
    <2> QED BY <1>13, <2>1, <2>2 DEF EndPass, TypeOK
  <1>14. CASE Crash
    <2>1. torn' \subseteq Site
      BY <1>14 DEF Crash, InboundSites, Inbound, ParkedFiles, TypeOK, Site
    <2>2. Idle \in Pass
      BY DEF Idle, Pass
    <2>3. job' \in [File -> {NoJob} \cup Work] /\ crashes' \in Nat
      BY <1>14 DEF Crash, TypeOK
    <2>4. UNCHANGED <<disk, row, modules, imps, edges, ref, edits, cut>>
      BY <1>14 DEF Crash
    <2>5. pass' \in Pass /\ todo' = {} /\ half' = {} /\ erred' = {} /\ started' = FALSE
      BY <1>14, <2>2 DEF Crash
    <2> QED BY <2>1, <2>3, <2>4, <2>5 DEF TypeOK
  <1> QED BY <1>1, <1>2, <1>3, <1>4, <1>5, <1>6, <1>7, <1>8, <1>9, <1>10, <1>11,
             <1>12, <1>13, <1>14 DEF Next

(* Every variable keeps its type, and a ref that may be retried has        *)
(* attempts left, whatever the passes, edits and crashes.                  *)
THEOREM TypeCorrect == Spec => []TypeOK
  <1>1. Init => TypeOK
    <2>1. Idle \in Pass /\ NoRef \in [status : Status, attempts : 0..MaxAttempts]
      BY GraphAssumption DEF Idle, Pass, NoRef, Status
    <2>2. NoRef.status = "none"
      BY DEF NoRef
    <2>3. ASSUME Init PROVE disk \in [File -> Content \cup {Gone}]
      <3>1. disk = [f \in File |-> disk[f]]
        BY <2>3 DEF Init
      <3>2. \A f \in File : disk[f] \in Content \cup {Gone}
        BY <2>3, GraphAssumption DEF Init
      <3> QED BY <3>1, <3>2
    <2>4. ASSUME Init
          PROVE  /\ ref \in [Site -> [status : Status, attempts : 0..MaxAttempts]]
                 /\ \A r \in Site : ref[r].status = "failed" => ref[r].attempts < MaxAttempts
      BY <2>1, <2>2, <2>4 DEF Init
    <2>5. ASSUME Init
          PROVE  /\ row \in [File -> Content \cup {NoRow}]
                 /\ job \in [File -> {NoJob} \cup Work]
                 /\ pass \in Pass
      BY <2>1, <2>5 DEF Init
    <2>6. ASSUME Init
          PROVE  /\ modules = {} /\ imps = {} /\ edges = {} /\ todo = {}
                 /\ half = {} /\ erred = {} /\ started = FALSE /\ edits = 0 /\ crashes = 0
                 /\ cut = {} /\ torn = {}
      BY <2>6 DEF Init
    <2> QED BY <2>3, <2>4, <2>5, <2>6 DEF TypeOK
  <1> QED BY <1>1, TypeStep, PTL DEF Spec
-----------------------------------------------------------------------------
(* The invariant *)

(* Which sites a park reaches: callers from other files.                   *)
LEMMA InboundIff ==
  ASSUME TypeOK, NEW f \in File, NEW g \in File, NEW s \in Symbol
  PROVE  <<g, s>> \in InboundSites(f) <=> <<g, s, f>> \in edges /\ g # f
  <1>1. ASSUME <<g, s>> \in InboundSites(f)
        PROVE  <<g, s, f>> \in edges /\ g # f
    <2>1. PICK e \in edges : e[3] = f /\ e[1] # f /\ <<g, s>> = <<e[1], e[2]>>
      BY <1>1 DEF InboundSites, Inbound
    <2>2. e = <<e[1], e[2], e[3]>>
      BY <2>1 DEF TypeOK
    <2> QED BY <2>1, <2>2
  <1>2. ASSUME <<g, s, f>> \in edges, g # f
        PROVE  <<g, s>> \in InboundSites(f)
    BY <1>2 DEF InboundSites, Inbound
  <1> QED BY <1>1, <1>2

(* A step that touches no row, edge, ref or worker.                        *)
LEMMA Quiet ==
  ASSUME Core, Stages', UNCHANGED <<row, edges, ref, job, todo, half, cut, torn>>
  PROVE  Core'
  <1>1. RefsMatch' /\ TodoWaits' /\ JobsLink'
    BY DEF Core, RefsMatch, TodoWaits, JobsLink, Indexed
  <1>2. ParkedWait' /\ OnlyParkedWait' /\ OneTarget'
    BY DEF Core, ParkedWait, OnlyParkedWait, OneTarget
  <1>3. EdgesMatch' /\ SitesAccounted' /\ HalfLinked'
    BY DEF Core, EdgesMatch, SitesAccounted, HalfLinked, Indexed
  <1> QED BY <1>1, <1>2, <1>3 DEF Core

(* Edits, the beginning of a pass, and a file whose old rows stay.         *)
LEMMA QuietSteps ==
  ASSUME TypeOK, Core,
         \/ \E f \in File : Edit(f) \/ KeepOld(f)
         \/ BeginIndexAll \/ BeginIndexChanges
         \/ UNCHANGED vars
  PROVE  Core'
  <1>1. UNCHANGED <<row, edges, ref, job, todo, half, cut, torn>>
    BY DEF Edit, KeepOld, BeginIndexAll, BeginIndexChanges, vars, batch
  <1>2. Stages'
    <2>1. CASE \/ \E f \in File : Edit(f)
               \/ UNCHANGED vars
      BY <2>1 DEF Edit, vars, batch, Core, Stages, Resolving
    <2>2. ASSUME NEW f \in File, KeepOld(f) PROVE Stages'
      <3>1. /\ pass'.kind = pass.kind /\ pass.kind \in {"all", "changes"}
            /\ pass'.files \subseteq pass.files
        BY <2>2 DEF KeepOld, Takes, Taken, TypeOK, Pass
      <3> QED BY <1>1, <3>1 DEF Core, Stages, Resolving
    <2>3. CASE BeginIndexAll \/ BeginIndexChanges
      <3>1. pass.kind = "idle" /\ pass'.kind \in {"all", "changes"} /\ pass'.files \subseteq File
        BY <2>3 DEF BeginIndexAll, BeginIndexChanges
      <3> QED BY <1>1, <3>1 DEF Core, Stages, Resolving
    <2> QED BY <2>1, <2>2, <2>3
  <1> QED BY <1>1, <1>2, Quiet

(* Deleting the rows of a file: its own sites go with it, and the callers  *)
(* from other files are the ones `cut` remembers.                          *)
LEMMA ClearSteps ==
  ASSUME TypeOK, Core, NEW f \in File, Prune(f) \/ DeleteMissing(f)
  PROVE  Core'
  <1>1. ClearFile(f) /\ UNCHANGED <<todo, half>>
    BY DEF Prune, DeleteMissing, batch
  <1>2. /\ pass.kind \in {"all", "changes"} /\ pass'.kind = pass.kind
        /\ pass'.files \subseteq pass.files
    <2>1. CASE Prune(f)
      BY <2>1 DEF Prune, Core, Stages, TypeOK, Pass
    <2>2. CASE DeleteMissing(f)
      BY <2>2 DEF DeleteMissing, TypeOK, Pass
    <2> QED BY <2>1, <2>2
  <1>3. \A g \in File : row'[g] = IF g = f THEN NoRow ELSE row[g]
    BY <1>1 DEF ClearFile, TypeOK
  <1>4. \A g, h \in File, s \in Symbol :
          <<g, s, h>> \in edges' <=> <<g, s, h>> \in edges /\ g # f /\ h # f
    BY <1>1 DEF ClearFile, KeptEdges
  <1>5. \A g \in File, s \in Symbol :
          ref'[<<g, s>>] = IF g = f THEN NoRef ELSE ref[<<g, s>>]
    BY <1>1 DEF ClearFile, KeptRefs, Site
  <1>6. \A g \in File : /\ job'[g].at = job[g].at
                        /\ job[g].at # "none" => /\ job'[g].content = job[g].content
                                                 /\ job'[g].parks = job[g].parks
    BY <1>1, OrphanedType DEF ClearFile, TypeOK
  <1>7. \A g \in File, s \in Symbol :
          /\ <<g, s, f>> \in edges /\ g # f => <<g, s>> \in cut'
          /\ <<g, s>> \in cut /\ g # f => <<g, s>> \in cut'
    BY <1>1 DEF ClearFile
  <1>8. \A g \in File, s \in Symbol : <<g, s>> \in torn' <=> <<g, s>> \in torn /\ g # f
    BY <1>1 DEF ClearFile
  <1>9. todo = {} /\ half = {} /\ NoRef.status = "none"
    BY <1>2 DEF Core, Stages, Resolving, NoRef
  <1>10. Stages'
    BY <1>1, <1>2, <1>6, <1>9, GraphAssumption DEF Core, Stages, TypeOK, Pass
  <1>11. RefsMatch'
    BY <1>3, <1>5, <1>9 DEF Core, RefsMatch, Indexed
  <1>12. TodoWaits'
    BY <1>1, <1>9 DEF TodoWaits
  <1>13. JobsLink'
    BY <1>6 DEF Core, JobsLink
  <1>14. ParkedWait'
    BY <1>4, <1>5, <1>6 DEF Core, ParkedWait
  <1>15. OnlyParkedWait'
    BY <1>1, <1>4, <1>5, <1>6, <1>8, <1>9 DEF Core, OnlyParkedWait
  <1>16. OneTarget'
    BY <1>4, <1>8 DEF Core, OneTarget
  <1>17. EdgesMatch'
    BY <1>3, <1>4 DEF Core, EdgesMatch, Indexed
  <1>18. SitesAccounted'
    <2> SUFFICES ASSUME NEW g \in File, Indexed(g)', NEW s \in (row[g].calls \ Noisy)'
                 PROVE  \/ \E h \in File : <<g, s, h>> \in edges'
                        \/ ref'[<<g, s>>].status # "none"
                        \/ <<g, s>> \in cut'
      BY DEF SitesAccounted
    <2>1. g # f /\ Indexed(g) /\ s \in row[g].calls \ Noisy
      BY <1>3 DEF Indexed
    <2>2. s \in Symbol
      BY <2>1 DEF TypeOK, Content, Indexed
    <2> QED BY <1>4, <1>5, <1>7, <2>1, <2>2 DEF Core, SitesAccounted
  <1>19. HalfLinked'
    BY <1>1, <1>9 DEF HalfLinked
  <1> QED BY <1>10, <1>11, <1>12, <1>13, <1>14, <1>15, <1>16, <1>17, <1>18, <1>19 DEF Core

(* A worker starts: it links or parks every call of what it has read.      *)
LEMMA LinkStep ==
  ASSUME TypeOK, Core, NEW f \in File, Link(f)
  PROVE  Core'
  <1>1. /\ pass.kind \in {"all", "changes"} /\ pass'.kind = pass.kind
        /\ f \in pass.files /\ pass'.files = pass.files \ {f}
    BY DEF Link, Takes, Taken, TypeOK, Pass
  <1>2. UNCHANGED <<row, edges, ref, todo, half, cut, torn>>
    BY DEF Link, batch
  <1>3. job[f].at = "none"
    BY <1>1 DEF Core, Stages
  <1>4. /\ job'[f].at = "linked" /\ job'[f].content = disk[f]
        /\ job'[f].parks = {s \in disk[f].calls \ (disk[f].defs \ disk[f].twice) :
                              ShouldParkRef(s)}
        /\ \A g \in File \ {f} : job'[g] = job[g]
    BY DEF Link, TypeOK
  <1>5. Stages'
    <2>1. todo' = {} /\ half' = {}
      BY <1>1, <1>2 DEF Core, Stages, Resolving
    <2>2. pass.files \subseteq File
      BY DEF TypeOK, Pass
    <2>3. \A g \in pass'.files : job'[g].at = "none"
      BY <1>1, <1>4, <2>2 DEF Core, Stages
    <2> QED
      BY <1>1, <2>1, <2>3 DEF Stages
  <1>6. JobsLink'
    BY <1>4 DEF Core, JobsLink, ShouldParkRef
  <1>7. RefsMatch' /\ TodoWaits' /\ EdgesMatch' /\ SitesAccounted'
    BY <1>2 DEF Core, RefsMatch, TodoWaits, EdgesMatch, SitesAccounted, Indexed
  <1>8. ParkedWait' /\ OneTarget'
    BY <1>2, <1>4 DEF Core, ParkedWait, OneTarget
  <1>9. OnlyParkedWait'
    BY <1>2, <1>3, <1>4 DEF Core, OnlyParkedWait
  <1>10. HalfLinked'
    BY <1>2 DEF Core, HalfLinked
  <1> QED BY <1>5, <1>6, <1>7, <1>8, <1>9, <1>10 DEF Core

(* The callers of a file are parked: they are linked and waiting until the *)
(* file is replaced.                                                       *)
LEMMA ParkStep ==
  ASSUME TypeOK, Core, NEW f \in File, ParkInboundRefsForFile(f)
  PROVE  Core'
  <1>1. UNCHANGED <<row, edges, pass, todo, half, cut, torn>> /\ job[f].at = "linked"
    BY DEF ParkInboundRefsForFile, batch
  <1>2. \A g \in File, s \in Symbol :
          /\ <<g, s, f>> \in edges /\ g # f => ref'[<<g, s>>].status = "pending"
          /\ ~(<<g, s, f>> \in edges /\ g # f) => ref'[<<g, s>>] = ref[<<g, s>>]
    <2>1. ref' = [r \in Site |-> IF r \in InboundSites(f)
                                THEN [ref[r] EXCEPT !.status = "pending"] ELSE ref[r]]
      BY DEF ParkInboundRefsForFile
    <2>2. \A r \in Site : ref[r] \in [status : Status, attempts : 0..MaxAttempts]
      BY DEF TypeOK
    <2> TAKE g \in File, s \in Symbol
    <2>3. <<g, s>> \in Site
      BY DEF Site
    <2>4. <<g, s>> \in InboundSites(f) <=> <<g, s, f>> \in edges /\ g # f
      BY InboundIff
    <2> QED BY <2>1, <2>2, <2>3, <2>4
  <1>3. job[f] \in Work
    BY <1>1 DEF TypeOK, NoJob
  <1>4. /\ job'[f].at = "parked" /\ job'[f].content = job[f].content
        /\ job'[f].parks = job[f].parks
        /\ \A g \in File \ {f} : job'[g] = job[g]
    BY <1>3 DEF ParkInboundRefsForFile, TypeOK, Work
  <1>5. pass.kind \in {"all", "changes"} /\ todo = {} /\ half = {} /\ f \notin pass.files
    BY <1>1 DEF Core, Stages, Resolving
  <1>6. Stages'
    <2>1. pass.files \subseteq File
      BY DEF TypeOK, Pass
    <2>2. \A g \in pass.files : job'[g].at = "none"
      BY <1>4, <1>5, <2>1 DEF Core, Stages
    <2>3. todo' = {} /\ half' = {} /\ pass' = pass
      BY <1>1, <1>5 DEF ParkInboundRefsForFile
    <2> QED
      BY <1>5, <2>2, <2>3 DEF Stages
  <1>7. RefsMatch'
    BY <1>1, <1>2 DEF Core, RefsMatch, EdgesMatch, Indexed
  <1>8. TodoWaits'
    BY <1>1, <1>5 DEF TodoWaits
  <1>9. JobsLink'
    BY <1>1, <1>4 DEF Core, JobsLink
  <1>10. ParkedWait'
    <2> SUFFICES ASSUME NEW h \in File, NEW g \in File, NEW s \in Symbol,
                        job'[h].at = "parked", <<g, s, h>> \in edges, g # h
                 PROVE  ref'[<<g, s>>].status # "none"
      BY <1>1 DEF ParkedWait
    <2>1. CASE h = f
      BY <1>2, <2>1
    <2>2. CASE h # f
      <3>1. ref[<<g, s>>].status # "none"
        BY <1>4, <2>2 DEF Core, ParkedWait
      <3> QED BY <1>2, <3>1
    <2> QED BY <2>1, <2>2
  <1>11. OnlyParkedWait'
    <2> SUFFICES ASSUME NEW h \in File, NEW g \in File, NEW s \in Symbol,
                        <<g, s, h>> \in edges, ref'[<<g, s>>].status # "none",
                        <<g, s>> \notin torn \cup half
                 PROVE  job'[h].at = "parked" /\ h # g
      BY <1>1 DEF OnlyParkedWait
    <2>1. CASE ref[<<g, s>>].status # "none"
      BY <1>4, <2>1 DEF Core, OnlyParkedWait
    <2>2. CASE ref[<<g, s>>].status = "none"
      <3>1. <<g, s, f>> \in edges /\ g # f
        BY <1>2, <2>2
      <3> QED BY <1>4, <3>1 DEF Core, OneTarget
    <2> QED BY <2>1, <2>2
  <1>12. OneTarget' /\ EdgesMatch'
    BY <1>1 DEF Core, OneTarget, EdgesMatch, Indexed
  <1>13. SitesAccounted'
    <2> SUFFICES ASSUME NEW g \in File, Indexed(g), NEW s \in row[g].calls \ Noisy
                 PROVE  \/ \E h \in File : <<g, s, h>> \in edges
                        \/ ref'[<<g, s>>].status # "none"
                        \/ <<g, s>> \in cut
      BY <1>1 DEF SitesAccounted, Indexed
    <2>1. s \in Symbol
      BY DEF TypeOK, Content, Indexed
    <2> QED BY <1>2, <2>1 DEF Core, SitesAccounted
  <1>14. HalfLinked'
    BY <1>1, <1>5 DEF HalfLinked
  <1> QED BY <1>6, <1>7, <1>8, <1>9, <1>10, <1>11, <1>12, <1>13, <1>14 DEF Core

(* The rows of a file are replaced: its sites become links or refs, and    *)
(* the edges of others into it were parked before they go.                 *)
LEMMA ReplaceStep ==
  ASSUME TypeOK, Core, NEW f \in File, ReplaceFileIndex(f)
  PROVE  Core'
  <1> DEFINE c == job[f].content
             local == c.calls \cap (c.defs \ c.twice)
             parks == job[f].parks
  <1>1. /\ UNCHANGED <<pass, todo, half>> /\ job[f].at = "parked"
        /\ job[f] \in Work /\ c \in Content /\ c # NoRow
    BY GraphAssumption DEF ReplaceFileIndex, TypeOK, NoJob, Work, batch
  <1>2. /\ parks \subseteq c.calls \ local
        /\ c.calls \ Noisy \subseteq local \cup parks
        /\ c.calls \subseteq Symbol
    BY <1>1 DEF Core, JobsLink, Content
  <1>3. pass.kind \in {"all", "changes"} /\ todo = {} /\ half = {} /\ f \notin pass.files
    BY <1>1 DEF Core, Stages, Resolving
  <1>4. /\ row'[f] = c
        /\ \A g \in File \ {f} : row'[g] = row[g]
    BY DEF ReplaceFileIndex, TypeOK
  <1>5. \A g, h \in File, s \in Symbol :
          <<g, s, h>> \in edges' <=>
            \/ <<g, s, h>> \in edges /\ g # f /\ h # f
            \/ g = f /\ h = f /\ s \in local
    BY DEF ReplaceFileIndex, KeptEdges
  <1>6. /\ \A g \in File \ {f}, s \in Symbol : ref'[<<g, s>>] = ref[<<g, s>>]
        /\ \A s \in Symbol : ref'[<<f, s>>].status # "none" <=> s \in parks
    BY DEF ReplaceFileIndex, Site, NoRef
  <1>7. \A g \in File : job'[g].at = IF g = f THEN "none" ELSE job[g].at
    <2>1. [job EXCEPT ![f] = NoJob] \in [File -> {NoJob} \cup Work]
      BY DEF TypeOK
    <2> QED BY <2>1, OrphanedType DEF ReplaceFileIndex, NoJob, TypeOK
  <1>8. \A g \in File \ {f} : job[g].at # "none" =>
          job'[g].content = job[g].content /\ job'[g].parks = job[g].parks
    <2>1. [job EXCEPT ![f] = NoJob] \in [File -> {NoJob} \cup Work]
      BY DEF TypeOK
    <2> QED BY <2>1, OrphanedType DEF ReplaceFileIndex, TypeOK
  <1>9. \A g \in File, s \in Symbol :
          /\ <<g, s>> \in cut' <=> <<g, s>> \in cut /\ g # f
          /\ <<g, s>> \in torn' <=> <<g, s>> \in torn /\ g # f
    BY DEF ReplaceFileIndex
  <1> HIDE DEF local
  <1>10. Stages'
    BY <1>1, <1>3, <1>7, GraphAssumption DEF Core, Stages, TypeOK, Pass
  <1>11. RefsMatch'
    <2> SUFFICES ASSUME NEW g \in File, NEW s \in Symbol, ref'[<<g, s>>].status # "none"
                 PROVE  row'[g] # NoRow /\ s \in row'[g].calls
      BY DEF RefsMatch, Indexed
    <2>1. CASE g = f
      BY <1>1, <1>2, <1>4, <1>6, <2>1
    <2>2. CASE g # f
      BY <1>4, <1>6, <2>2 DEF Core, RefsMatch, Indexed
    <2> QED BY <2>1, <2>2
  <1>12. TodoWaits'
    BY <1>1, <1>3 DEF TodoWaits
  <1>13. JobsLink'
    BY <1>7, <1>8 DEF Core, JobsLink
  <1>14. ParkedWait'
    <2> SUFFICES ASSUME NEW h \in File, NEW g \in File, NEW s \in Symbol,
                        job'[h].at = "parked", <<g, s, h>> \in edges', g # h
                 PROVE  ref'[<<g, s>>].status # "none"
      BY DEF ParkedWait
    <2>1. h # f /\ g # f /\ <<g, s, h>> \in edges /\ job[h].at = "parked"
      BY <1>5, <1>7
    <2> QED BY <1>6, <2>1 DEF Core, ParkedWait
  <1>15. OnlyParkedWait'
    <2> SUFFICES ASSUME NEW h \in File, NEW g \in File, NEW s \in Symbol,
                        <<g, s, h>> \in edges', ref'[<<g, s>>].status # "none",
                        <<g, s>> \notin torn' \cup half
                 PROVE  job'[h].at = "parked" /\ h # g
      BY <1>1 DEF OnlyParkedWait
    <2>1. h # f /\ g # f /\ <<g, s, h>> \in edges
      BY <1>2, <1>5, <1>6
    <2>2. job[h].at = "parked" /\ h # g
      BY <1>6, <1>9, <2>1 DEF Core, OnlyParkedWait
    <2> QED BY <1>7, <2>1, <2>2
  <1>16. OneTarget'
    <2> SUFFICES ASSUME NEW g \in File, NEW h \in File, NEW k \in File, NEW s \in Symbol,
                        <<g, s, h>> \in edges', <<g, s, k>> \in edges',
                        <<g, s>> \notin torn'
                 PROVE  h = k
      BY DEF OneTarget
    <2>1. CASE g = f
      BY <1>5, <2>1
    <2>2. CASE g # f
      BY <1>5, <1>9, <2>2 DEF Core, OneTarget
    <2> QED BY <2>1, <2>2
  <1>17. EdgesMatch'
    <2> SUFFICES ASSUME NEW g \in File, NEW h \in File, NEW s \in Symbol,
                        <<g, s, h>> \in edges'
                 PROVE  /\ row'[g] # NoRow /\ s \in row'[g].calls
                        /\ row'[h] # NoRow /\ s \in row'[h].defs
      BY DEF EdgesMatch, Indexed
    <2>1. CASE g = f
      BY <1>1, <1>4, <1>5, <2>1 DEF local
    <2>2. CASE g # f
      BY <1>4, <1>5, <2>2 DEF Core, EdgesMatch, Indexed
    <2> QED BY <2>1, <2>2
  <1>18. SitesAccounted'
    <2> SUFFICES ASSUME NEW g \in File, row'[g] # NoRow, NEW s \in row'[g].calls \ Noisy
                 PROVE  \/ \E h \in File : <<g, s, h>> \in edges'
                        \/ ref'[<<g, s>>].status # "none"
                        \/ <<g, s>> \in cut'
      BY DEF SitesAccounted, Indexed
    <2>1. CASE g = f
      BY <1>2, <1>4, <1>5, <1>6, <2>1
    <2>2. CASE g # f
      <3>1. row[g] # NoRow /\ s \in row[g].calls \ Noisy
        BY <1>4, <2>2
      <3>2. s \in Symbol
        BY <3>1 DEF TypeOK, Content
      <3>3. \/ \E h \in File : <<g, s, h>> \in edges
            \/ ref[<<g, s>>].status # "none"
            \/ <<g, s>> \in cut
        BY <3>1 DEF Core, SitesAccounted, Indexed
      <3>4. <<g, s, f>> \in edges => ref[<<g, s>>].status # "none"
        BY <1>1, <2>2, <3>2 DEF Core, ParkedWait
      <3> QED BY <1>5, <1>6, <1>9, <2>2, <3>2, <3>3, <3>4
    <2> QED BY <2>1, <2>2
  <1>19. HalfLinked'
    BY <1>1, <1>3 DEF HalfLinked
  <1> QED BY <1>10, <1>11, <1>12, <1>13, <1>14, <1>15, <1>16, <1>17, <1>18, <1>19 DEF Core

(* The replacement rolls back: its parked callers are linked and waiting.  *)
LEMMA RollbackStep ==
  ASSUME TypeOK, Core, NEW f \in File, ReplaceFails(f)
  PROVE  Core'
  <1>1. UNCHANGED <<row, edges, ref, todo, half, cut, pass>> /\ job[f].at = "parked"
    BY DEF ReplaceFails, batch
  <1>2. job'[f].at = "none" /\ \A g \in File \ {f} : job'[g] = job[g]
    BY DEF ReplaceFails, NoJob, TypeOK
  <1>3. \A g \in File, s \in Symbol :
          <<g, s>> \in torn' <=> \/ <<g, s>> \in torn
                                 \/ <<g, s, f>> \in edges /\ g # f
    <2> TAKE g \in File, s \in Symbol
    <2>1. <<g, s>> \in InboundSites(f) <=> <<g, s, f>> \in edges /\ g # f
      BY InboundIff
    <2> QED BY <2>1 DEF ReplaceFails
  <1>4. Stages'
    <2>1. pass.kind \in {"all", "changes"} /\ todo = {} /\ half = {} /\ f \notin pass.files
      BY <1>1 DEF Core, Stages, Resolving
    <2>2. pass.files \subseteq File
      BY DEF TypeOK, Pass
    <2>3. \A g \in pass'.files : job'[g].at = "none"
      BY <1>1, <1>2, <2>2 DEF Core, Stages
    <2> QED BY <1>1, <2>1, <2>3 DEF Stages
  <1>5. RefsMatch' /\ TodoWaits' /\ EdgesMatch' /\ SitesAccounted'
    BY <1>1 DEF Core, RefsMatch, TodoWaits, EdgesMatch, SitesAccounted, Indexed
  <1>6. JobsLink' /\ ParkedWait'
    BY <1>1, <1>2 DEF Core, JobsLink, ParkedWait
  <1>7. OnlyParkedWait'
    <2> SUFFICES ASSUME NEW h \in File, NEW g \in File, NEW s \in Symbol,
                        <<g, s, h>> \in edges, ref[<<g, s>>].status # "none",
                        <<g, s>> \notin torn' \cup half
                 PROVE  job'[h].at = "parked" /\ h # g
      BY <1>1 DEF OnlyParkedWait
    <2>1. job[h].at = "parked" /\ h # g
      BY <1>3 DEF Core, OnlyParkedWait
    <2> QED BY <1>2, <1>3, <2>1
  <1>8. OneTarget' /\ HalfLinked'
    BY <1>1, <1>3 DEF Core, OneTarget, HalfLinked
  <1> QED BY <1>4, <1>5, <1>6, <1>7, <1>8 DEF Core

(* The process ends: whoever was parked stays linked and waiting.          *)
LEMMA CrashStep ==
  ASSUME TypeOK, Core, Crash
  PROVE  Core'
  <1>1. UNCHANGED <<row, edges, ref, cut>> /\ todo' = {} /\ half' = {} /\ pass' = Idle
    BY DEF Crash
  <1>2. \A g \in File : job'[g].at = "none"
    BY DEF Crash, NoJob
  <1>3. /\ torn \cup half \subseteq torn'
        /\ \A g, h \in File, s \in Symbol :
             job[h].at = "parked" /\ <<g, s, h>> \in edges /\ g # h => <<g, s>> \in torn'
    <2>1. \A h \in File : job[h].at = "parked" => InboundSites(h) \subseteq torn'
      BY DEF Crash, ParkedFiles
    <2>2. torn \cup half \subseteq torn'
      BY DEF Crash
    <2>3. ASSUME NEW g \in File, NEW h \in File, NEW s \in Symbol,
                 job[h].at = "parked", <<g, s, h>> \in edges, g # h
          PROVE  <<g, s>> \in torn'
      <3>1. <<g, s>> \in InboundSites(h)
        BY <2>3, InboundIff
      <3> QED BY <2>1, <2>3, <3>1
    <2> QED BY <2>2, <2>3
  <1>4. Stages'
    BY <1>1, <1>2 DEF Stages, Idle
  <1>5. RefsMatch' /\ TodoWaits' /\ EdgesMatch' /\ SitesAccounted'
    BY <1>1 DEF Core, RefsMatch, TodoWaits, EdgesMatch, SitesAccounted, Indexed
  <1>6. JobsLink' /\ ParkedWait'
    BY <1>2 DEF JobsLink, ParkedWait
  <1>7. OnlyParkedWait'
    BY <1>1, <1>2, <1>3 DEF Core, OnlyParkedWait
  <1>8. OneTarget' /\ HalfLinked'
    BY <1>1, <1>3 DEF Core, OneTarget, HalfLinked
  <1> QED BY <1>4, <1>5, <1>6, <1>7, <1>8 DEF Core

(* Resolution starts when no worker is left: nobody is parked, so nobody   *)
(* outside `torn` is both linked and waiting.                              *)
LEMMA BeginResolveStep ==
  ASSUME TypeOK, Core, BeginResolve
  PROVE  Core'
  <1>1. UNCHANGED <<row, edges, ref, job, half, cut, torn>> /\ todo = {} /\ half = {}
    BY DEF BeginResolve, Core, Stages, Resolving
  <1>2. Stages'
    <2>1. /\ pass'.kind \in {"resolve all", "resolve changes"}
          /\ pass'.prune = {} /\ pass'.files = {}
          /\ \A f \in File : job'[f].at = "none"
      BY <1>1 DEF BeginResolve, TypeOK, Pass
    <2> QED BY <1>1, <2>1 DEF Stages, Resolving
  <1>3. TodoWaits'
    <2>1. \A r \in todo' : ref[r].status \in {"pending", "failed"}
      BY <1>1 DEF BeginResolve, RetryAll, RetryFor
    <2> QED BY <1>1, <2>1 DEF TodoWaits
  <1>4. RefsMatch' /\ JobsLink' /\ ParkedWait' /\ OnlyParkedWait'
    BY <1>1 DEF Core, RefsMatch, JobsLink, ParkedWait, OnlyParkedWait, Indexed
  <1>5. OneTarget' /\ EdgesMatch' /\ SitesAccounted' /\ HalfLinked'
    BY <1>1 DEF Core, OneTarget, EdgesMatch, SitesAccounted, HalfLinked, Indexed
  <1> QED BY <1>2, <1>3, <1>4, <1>5 DEF Core

(* An edge is written for a ref that had none, for nobody is parked.       *)
LEMMA Written ==
  ASSUME TypeOK, Core, NEW r \in todo, Resolving, half = {}, WriteEdge(r),
         UNCHANGED <<row, torn>>
  PROVE  /\ OneTarget' /\ EdgesMatch'
         /\ edges \subseteq edges'
         /\ \E d \in File : <<r[1], r[2], d>> \in edges'
         /\ \A g, h \in File, t \in Symbol :
              <<g, t, h>> \in edges' => <<g, t, h>> \in edges \/ <<g, t>> = r
  <1>1. PICK f \in File, s \in Symbol : r = <<f, s>>
    BY DEF Site, TypeOK
  <1>2. PICK d \in Definers(s) : edges' = edges \cup {<<f, s, d>>}
    BY <1>1, WritesTo
  <1>3. d \in File /\ Indexed(d) /\ s \in row[d].defs
    BY <1>2 DEF Definers
  <1>4. ref[<<f, s>>].status # "none" /\ Indexed(f) /\ s \in row[f].calls
    BY <1>1 DEF Core, TodoWaits, RefsMatch
  <1>5. \A g \in File : job[g].at = "none"
    BY DEF Core, Stages, Resolving
  <1>6. \A g \in File : <<f, s, g>> \in edges => <<f, s>> \in torn
    BY <1>4, <1>5 DEF Core, OnlyParkedWait
  <1>7. OneTarget'
    <2> SUFFICES ASSUME NEW g \in File, NEW h \in File, NEW k \in File, NEW t \in Symbol,
                        <<g, t, h>> \in edges', <<g, t, k>> \in edges',
                        <<g, t>> \notin torn
                 PROVE  h = k
      BY DEF OneTarget
    <2>1. CASE g = f /\ t = s
      BY <1>2, <1>6, <2>1
    <2>2. CASE ~(g = f /\ t = s)
      BY <1>2, <2>2 DEF Core, OneTarget
    <2> QED BY <2>1, <2>2
  <1>8. EdgesMatch'
    BY <1>2, <1>3, <1>4 DEF Core, EdgesMatch, Indexed
  <1>9. /\ edges \subseteq edges'
        /\ \E k \in File : <<r[1], r[2], k>> \in edges'
        /\ \A g, h \in File, t \in Symbol :
             <<g, t, h>> \in edges' => <<g, t, h>> \in edges \/ <<g, t>> = r
    BY <1>1, <1>2, <1>3
  <1> QED BY <1>7, <1>8, <1>9

(* In the batch's transaction the ref becomes an edge.                     *)
LEMMA ApplyStep ==
  ASSUME TypeOK, Core, NEW r \in Site, ApplyResolvedRef(r)
  PROVE  Core'
  <1>1. /\ UNCHANGED <<row, job, pass, half, cut, torn>> /\ todo' = todo \ {r}
        /\ r \in todo /\ Resolving /\ half = {} /\ WriteEdge(r)
    BY DEF ApplyResolvedRef
  <1>2. /\ OneTarget' /\ EdgesMatch'
        /\ edges \subseteq edges'
        /\ \E d \in File : <<r[1], r[2], d>> \in edges'
        /\ \A g, h \in File, t \in Symbol :
             <<g, t, h>> \in edges' => <<g, t, h>> \in edges \/ <<g, t>> = r
    BY <1>1, Written
  <1>3. /\ ref'[r].status = "none"
        /\ \A q \in Site \ {r} : ref'[q] = ref[q]
    BY DEF ApplyResolvedRef, NoRef, TypeOK
  <1>4. \A g \in File : job[g].at = "none"
    BY <1>1 DEF Core, Stages, Resolving
  <1>5. Stages'
    BY <1>1 DEF Core, Stages, Resolving
  <1>6. \A g \in File, t \in Symbol :
          ref'[<<g, t>>].status # "none" => ref[<<g, t>>].status # "none"
    BY <1>3 DEF Site
  <1>7. RefsMatch'
    BY <1>1, <1>6 DEF Core, RefsMatch, Indexed
  <1>8. TodoWaits'
    BY <1>1, <1>3 DEF Core, TodoWaits, TypeOK
  <1>9. JobsLink' /\ ParkedWait'
    BY <1>1, <1>4 DEF JobsLink, ParkedWait
  <1>10. OnlyParkedWait'
    <2> SUFFICES ASSUME NEW g \in File, NEW h \in File, NEW t \in Symbol,
                        <<g, t, h>> \in edges', ref'[<<g, t>>].status # "none",
                        <<g, t>> \notin torn
                 PROVE  FALSE
      BY <1>1 DEF OnlyParkedWait
    <2>1. <<g, t, h>> \in edges
      BY <1>2, <1>3
    <2> QED BY <1>1, <1>4, <1>6, <2>1 DEF Core, OnlyParkedWait
  <1>11. SitesAccounted'
    <2> SUFFICES ASSUME NEW g \in File, row[g] # NoRow, NEW t \in row[g].calls \ Noisy
                 PROVE  \/ \E h \in File : <<g, t, h>> \in edges'
                        \/ ref'[<<g, t>>].status # "none"
                        \/ <<g, t>> \in cut
      BY <1>1 DEF SitesAccounted, Indexed
    <2>1. CASE <<g, t>> = r
      BY <1>2, <2>1
    <2>2. CASE <<g, t>> # r
      <3>1. t \in Symbol
        BY DEF TypeOK, Content
      <3>2. ref'[<<g, t>>] = ref[<<g, t>>]
        BY <1>3, <2>2, <3>1 DEF Site
      <3> QED BY <1>2, <3>2 DEF Core, SitesAccounted, Indexed
    <2> QED BY <2>1, <2>2
  <1>12. HalfLinked'
    BY <1>1 DEF HalfLinked
  <1> QED BY <1>2, <1>5, <1>7, <1>8, <1>9, <1>10, <1>11, <1>12 DEF Core

(* The fallback writes the edge, and the ref is the one that still waits.  *)
LEMMA UpsertStep ==
  ASSUME TypeOK, Core, NEW r \in Site, UpsertEdge(r)
  PROVE  Core'
  <1>1. /\ UNCHANGED <<row, ref, job, pass, todo, cut, torn>> /\ half' = {r}
        /\ r \in todo /\ Resolving /\ half = {} /\ WriteEdge(r)
    BY DEF UpsertEdge
  <1>2. /\ OneTarget' /\ EdgesMatch'
        /\ edges \subseteq edges'
        /\ \E d \in File : <<r[1], r[2], d>> \in edges'
        /\ \A g, h \in File, t \in Symbol :
             <<g, t, h>> \in edges' => <<g, t, h>> \in edges \/ <<g, t>> = r
    BY <1>1, Written
  <1>3. \A g \in File : job[g].at = "none"
    BY <1>1 DEF Core, Stages, Resolving
  <1>4. Stages'
    BY <1>1 DEF Core, Stages, Resolving
  <1>5. RefsMatch' /\ TodoWaits' /\ JobsLink' /\ ParkedWait'
    BY <1>1, <1>3 DEF Core, RefsMatch, TodoWaits, JobsLink, ParkedWait, Indexed
  <1>6. OnlyParkedWait'
    BY <1>1, <1>2 DEF Core, OnlyParkedWait
  <1>7. SitesAccounted'
    <2> SUFFICES ASSUME NEW g \in File, row[g] # NoRow, NEW t \in row[g].calls \ Noisy
                 PROVE  \/ \E h \in File : <<g, t, h>> \in edges'
                        \/ ref[<<g, t>>].status # "none"
                        \/ <<g, t>> \in cut
      BY <1>1 DEF SitesAccounted, Indexed
    <2> QED BY <1>2 DEF Core, SitesAccounted, Indexed
  <1>8. HalfLinked'
    BY <1>1, <1>2 DEF HalfLinked
  <1> QED BY <1>2, <1>4, <1>5, <1>6, <1>7, <1>8 DEF Core

(* ... until its ref is removed.                                           *)
LEMMA DeleteStep ==
  ASSUME TypeOK, Core, NEW r \in Site, DeleteUnresolvedRef(r)
  PROVE  Core'
  <1>1. /\ UNCHANGED <<row, edges, job, pass, cut, torn>> /\ todo' = todo \ {r}
        /\ half' = {} /\ half \subseteq todo /\ r \in half
    BY DEF DeleteUnresolvedRef, Core, Stages
  <1>2. Resolving /\ \A g \in File : job[g].at = "none"
    BY <1>1 DEF Core, Stages, Resolving
  <1>3. /\ ref'[r].status = "none"
        /\ \A q \in Site \ {r} : ref'[q] = ref[q]
    BY DEF DeleteUnresolvedRef, NoRef, TypeOK
  <1>4. \A g \in File, t \in Symbol :
          ref'[<<g, t>>].status # "none" =>
            ref[<<g, t>>].status # "none" /\ <<g, t>> # r
    BY <1>3 DEF Site
  <1>5. Stages'
    BY <1>1, <1>2 DEF Core, Stages, Resolving
  <1>6. RefsMatch'
    BY <1>1, <1>4 DEF Core, RefsMatch, Indexed
  <1>7. TodoWaits'
    BY <1>1, <1>3 DEF Core, TodoWaits, TypeOK
  <1>8. JobsLink' /\ ParkedWait' /\ OneTarget' /\ EdgesMatch'
    BY <1>1, <1>2 DEF Core, JobsLink, ParkedWait, OneTarget, EdgesMatch, Indexed
  <1>9. half = {r} /\ \E d \in File : <<r[1], r[2], d>> \in edges
    BY <1>1 DEF Core, HalfLinked
  <1>10. OnlyParkedWait'
    BY <1>1, <1>4, <1>9 DEF Core, OnlyParkedWait
  <1>11. SitesAccounted'
    <2> SUFFICES ASSUME NEW g \in File, row[g] # NoRow, NEW t \in row[g].calls \ Noisy
                 PROVE  \/ \E h \in File : <<g, t, h>> \in edges
                        \/ ref'[<<g, t>>].status # "none"
                        \/ <<g, t>> \in cut
      BY <1>1 DEF SitesAccounted, Indexed
    <2>1. CASE <<g, t>> = r
      BY <1>9, <2>1
    <2>2. CASE <<g, t>> # r
      <3>1. t \in Symbol
        BY DEF TypeOK, Content
      <3>2. ref'[<<g, t>>] = ref[<<g, t>>]
        BY <1>3, <2>2, <3>1 DEF Site
      <3> QED BY <3>2 DEF Core, SitesAccounted, Indexed
    <2> QED BY <2>1, <2>2
  <1>12. HalfLinked'
    BY <1>1 DEF HalfLinked
  <1> QED BY <1>5, <1>6, <1>7, <1>8, <1>10, <1>11, <1>12 DEF Core

(* A failed attempt leaves the ref waiting.                                *)
LEMMA MarkStep ==
  ASSUME TypeOK, Core, NEW r \in Site, MarkUnresolvedFailed(r) \/ AttemptErrs(r)
  PROVE  Core'
  <1>1. /\ UNCHANGED <<row, edges, job, pass, cut>> /\ todo' = todo \ {r}
        /\ half' = {} /\ torn \cup half \subseteq torn'
        /\ r \in todo /\ Resolving
    BY DEF MarkUnresolvedFailed, AttemptErrs
  <1>2. ref[r].status # "none"
    BY <1>1 DEF Core, TodoWaits
  <1>3. Attempted(r).status # "none"
    BY DEF Attempted
  <1>4. \A q \in Site : ref'[q].status # "none" <=> ref[q].status # "none"
    <2>1. ref' = ref \/ ref' = [ref EXCEPT ![r] = Attempted(r)]
      BY DEF MarkUnresolvedFailed, AttemptErrs
    <2> QED BY <1>2, <1>3, <2>1 DEF TypeOK
  <1>5. \A g \in File, s \in Symbol :
          ref'[<<g, s>>].status # "none" <=> ref[<<g, s>>].status # "none"
    BY <1>4 DEF Site
  <1>6. Stages' /\ JobsLink'
    BY <1>1 DEF Core, Stages, Resolving, JobsLink
  <1>7. RefsMatch' /\ ParkedWait'
    BY <1>1, <1>5 DEF Core, RefsMatch, ParkedWait, Indexed
  <1>8. OnlyParkedWait'
    BY <1>1, <1>5 DEF Core, OnlyParkedWait
  <1>9. TodoWaits'
    BY <1>1, <1>4 DEF Core, TodoWaits, TypeOK
  <1>10. OneTarget' /\ EdgesMatch'
    BY <1>1 DEF Core, OneTarget, EdgesMatch, Indexed
  <1>12. HalfLinked'
    BY <1>1 DEF HalfLinked
  <1>11. SitesAccounted'
    <2> SUFFICES ASSUME NEW g \in File, row[g] # NoRow, NEW s \in row[g].calls \ Noisy
                 PROVE  \/ \E h \in File : <<g, s, h>> \in edges
                        \/ ref'[<<g, s>>].status # "none"
                        \/ <<g, s>> \in cut
      BY <1>1 DEF SitesAccounted, Indexed
    <2>1. s \in Symbol
      BY DEF TypeOK, Content
    <2> QED BY <1>5, <2>1 DEF Core, SitesAccounted, Indexed
  <1> QED BY <1>6, <1>7, <1>8, <1>9, <1>10, <1>11, <1>12 DEF Core

(* The end of a pass drops refs of noisy names only.                       *)
LEMMA EndStep ==
  ASSUME TypeOK, Core, EndPass
  PROVE  Core'
  <1>1. /\ UNCHANGED <<row, edges, job, todo, half, cut, torn>>
        /\ todo = {} /\ half = {} /\ pass' = Idle
    BY DEF EndPass, Core, Stages
  <1>2. \A f \in File : job[f].at = "none"
    BY DEF EndPass, Core, Stages, Resolving
  <1>3. \A g \in File, s \in Symbol :
          /\ ref'[<<g, s>>].status # "none" => ref[<<g, s>>].status # "none"
          /\ s \notin Noisy => ref'[<<g, s>>] = ref[<<g, s>>]
    BY DEF EndPass, NoRef, Site
  <1>4. Stages' /\ TodoWaits'
    BY <1>1, <1>2 DEF Stages, Idle, TodoWaits
  <1>5. RefsMatch' /\ JobsLink' /\ ParkedWait'
    BY <1>1, <1>2, <1>3 DEF Core, RefsMatch, JobsLink, ParkedWait, Indexed
  <1>6. OnlyParkedWait'
    BY <1>1, <1>3 DEF Core, OnlyParkedWait
  <1>7. OneTarget' /\ EdgesMatch' /\ HalfLinked'
    BY <1>1 DEF Core, OneTarget, EdgesMatch, HalfLinked, Indexed
  <1>8. SitesAccounted'
    <2> SUFFICES ASSUME NEW g \in File, row[g] # NoRow, NEW s \in row[g].calls \ Noisy
                 PROVE  \/ \E h \in File : <<g, s, h>> \in edges
                        \/ ref'[<<g, s>>].status # "none"
                        \/ <<g, s>> \in cut
      BY <1>1 DEF SitesAccounted, Indexed
    <2>1. s \in Symbol
      BY DEF TypeOK, Content
    <2> QED BY <1>3, <2>1 DEF Core, SitesAccounted, Indexed
  <1> QED BY <1>4, <1>5, <1>6, <1>7, <1>8 DEF Core

-----------------------------------------------------------------------------
(* Theorems *)

(* The invariant holds of every behaviour.                                 *)
LEMMA CoreHolds == Spec => [](TypeOK /\ Core)
  <1>1. Init => Core
    <2> SUFFICES ASSUME Init PROVE Core
      OBVIOUS
    <2>1. /\ row = [f \in File |-> NoRow] /\ edges = {} /\ todo = {} /\ half = {}
          /\ ref = [r \in Site |-> NoRef] /\ job = [f \in File |-> NoJob]
          /\ pass = Idle
      BY DEF Init
    <2>2. /\ \A f \in File : job[f].at = "none" /\ ~Indexed(f)
          /\ \A f \in File, s \in Symbol : ref[<<f, s>>].status = "none"
      BY <2>1 DEF NoJob, NoRef, Site, Indexed
    <2>3. Stages /\ RefsMatch /\ TodoWaits /\ JobsLink
      BY <2>1, <2>2 DEF Stages, Idle, RefsMatch, TodoWaits, JobsLink
    <2>4. ParkedWait /\ OnlyParkedWait /\ HalfLinked /\ OneTarget /\ EdgesMatch /\ SitesAccounted
      BY <2>1, <2>2 DEF ParkedWait, OnlyParkedWait, HalfLinked, OneTarget, EdgesMatch, SitesAccounted
    <2> QED BY <2>3, <2>4 DEF Core
  <1>2. TypeOK /\ Core /\ [Next]_vars => Core'
    <2> SUFFICES ASSUME TypeOK, Core, [Next]_vars PROVE Core'
      OBVIOUS
    <2>1. CASE \/ \E f \in File : Edit(f) \/ KeepOld(f)
               \/ BeginIndexAll \/ BeginIndexChanges
               \/ UNCHANGED vars
      BY <2>1, QuietSteps
    <2>2. CASE \E f \in File : Prune(f) \/ DeleteMissing(f)
      BY <2>2, ClearSteps
    <2>3. CASE \E f \in File : Link(f)
      BY <2>3, LinkStep
    <2>4. CASE \E f \in File : ParkInboundRefsForFile(f)
      BY <2>4, ParkStep
    <2>5. CASE \E f \in File : ReplaceFileIndex(f)
      BY <2>5, ReplaceStep
    <2>6. CASE \E f \in File : ReplaceFails(f)
      BY <2>6, RollbackStep
    <2>7. CASE \E r \in Site : ApplyResolvedRef(r)
      BY <2>7, ApplyStep
    <2>8. CASE \E r \in Site : MarkUnresolvedFailed(r) \/ AttemptErrs(r)
      BY <2>8, MarkStep
    <2>12. CASE \E r \in Site : UpsertEdge(r)
      BY <2>12, UpsertStep
    <2>13. CASE \E r \in Site : DeleteUnresolvedRef(r)
      BY <2>13, DeleteStep
    <2>9. CASE BeginResolve
      BY <2>9, BeginResolveStep
    <2>10. CASE EndPass
      BY <2>10, EndStep
    <2>11. CASE Crash
      BY <2>11, CrashStep
    <2> QED BY <2>1, <2>2, <2>3, <2>4, <2>5, <2>6, <2>7, <2>8, <2>9, <2>10, <2>11,
               <2>12, <2>13 DEF Next
  <1> QED BY <1>1, <1>2, TypeCorrect, PTL DEF Spec

(* No pass, deletion, race of workers or crash loses a call site: it is an *)
(* edge, a row of unresolved_refs, or its target's file was deleted.       *)
THEOREM SitesAccountedHolds == Spec => []SitesAccounted
  <1>1. Core => SitesAccounted
    BY DEF Core
  <1> QED BY <1>1, CoreHolds, PTL

(* No edge outlives the call or the definition it stands for.              *)
THEOREM EdgesMatchRowsHolds == Spec => []EdgesMatchRows
  <1>1. TypeOK /\ Core => EdgesMatchRows
    <2> SUFFICES ASSUME TypeOK, Core, NEW e \in edges
                 PROVE  /\ Indexed(e[1]) /\ e[2] \in row[e[1]].calls
                        /\ Indexed(e[3]) /\ e[2] \in row[e[3]].defs
      BY DEF EdgesMatchRows
    <2>1. e = <<e[1], e[2], e[3]>> /\ e[1] \in File /\ e[2] \in Symbol /\ e[3] \in File
      BY DEF TypeOK
    <2> QED BY <2>1 DEF Core, EdgesMatch
  <1> QED BY <1>1, CoreHolds, PTL

(* A call site has one target, and at rest it is not linked and waiting:   *)
(* but for a park whose replacement did not happen, and a fallback that    *)
(* wrote the edge and not the end of the ref.                              *)
THEOREM LinkedOnceHolds == Spec => []LinkedOnce
  <1>1. TypeOK /\ Core => LinkedOnce
    <2> SUFFICES ASSUME TypeOK, Core, NEW r \in Site \ torn
                 PROVE  LET targets == {g \in File : <<r[1], r[2], g>> \in edges}
                        IN  /\ \A g, h \in targets : g = h
                            /\ pass.kind = "idle" /\ targets # {} => ref[r].status = "none"
      BY DEF LinkedOnce
    <2>1. PICK f \in File, s \in Symbol : r = <<f, s>>
      BY DEF Site
    <2>2. \A g, h \in File : <<f, s, g>> \in edges /\ <<f, s, h>> \in edges => g = h
      BY <2>1 DEF Core, OneTarget
    <2>3. ASSUME NEW g \in File, <<f, s, g>> \in edges, pass.kind = "idle"
          PROVE  ref[r].status = "none"
      <3>1. job[g].at = "none" /\ half = {}
        BY <2>3 DEF Core, Stages, Resolving
      <3> QED BY <2>1, <2>3, <3>1 DEF Core, OnlyParkedWait
    <2> QED BY <2>1, <2>2, <2>3
  <1> QED BY <1>1, CoreHolds, PTL
-----------------------------------------------------------------------------
(* What the resolver would choose, and the references a pass promises to   *)
(* try: those of its files and of the names its files define, or all.      *)
Choice == [r \in Site |-> resolveOne(r[1], r[2])]
Promised == {r \in Site : \/ pass.keys = {}
                          \/ r[1] \in pass.keys
                          \/ r[2] \in ChangedNames(pass.keys)}

(* While the resolver runs, what it promised and no longer has in its      *)
(* batch has no target, unless its attempt met an error.                   *)
Tried == Resolving =>
  \A r \in Promised \ (todo \cup erred) : ref[r].status \in {"pending", "failed"} => Choice[r] = {}

LEMMA SameChoice == UNCHANGED <<row, imps>> => Choice' = Choice
  <1> SUFFICES ASSUME UNCHANGED <<row, imps>> PROVE Choice' = Choice
    OBVIOUS
  <1> QED BY DEF Choice, resolveOne, Preferred, Definers, Indexed, FilterByImports,
                 MatchName, Score, UniqueCallable

LEMMA SamePromise ==
  ASSUME UNCHANGED row, pass'.keys = pass.keys
  PROVE  Promised' = Promised
  BY DEF Promised, ChangedNames, Indexed

(* A name without a node cannot be resolved.                               *)
LEMMA NoCandidate ==
  ASSUME NEW r \in Site, Owners(r[2]) = {}
  PROVE  Choice[r] = {}
  <1>1. Definers(r[2]) = {}
    BY DEF Definers, Owners
  <1>2. /\ FilterByImports(r[1], {}) = {} /\ MatchName(r[1], r[2], {}) = {}
        /\ UniqueCallable(r[1], r[2], {}, {}) = {}
    BY DEF FilterByImports, MatchName, UniqueCallable
  <1> QED BY <1>1, <1>2 DEF Choice, resolveOne, Preferred

LEMMA TriedStep == TypeOK /\ Core /\ Tried /\ [Next]_vars => Tried'
  <1> SUFFICES ASSUME TypeOK, Core, Tried, [Next]_vars PROVE Tried'
    OBVIOUS
  <1>1. ASSUME UNCHANGED <<row, imps, pass, ref, todo, erred>> PROVE Tried'
    BY <1>1, SameChoice, SamePromise DEF Tried, Resolving
  <1>2. CASE \/ \E f \in File : Edit(f)
             \/ UNCHANGED vars
    BY <1>1, <1>2 DEF Edit, vars, batch
  <1>3. ASSUME NEW f \in File,
               \/ Prune(f) \/ DeleteMissing(f) \/ KeepOld(f) \/ Link(f)
               \/ ParkInboundRefsForFile(f) \/ ReplaceFileIndex(f) \/ ReplaceFails(f)
        PROVE  Tried'
    <2>1. ~Resolving
      BY <1>3 DEF Prune, DeleteMissing, KeepOld, Link, Takes, ParkInboundRefsForFile,
                  ReplaceFileIndex, ReplaceFails, Core, Stages, Resolving
    <2>2. pass'.kind = pass.kind
      BY <1>3 DEF TypeOK, Pass, Prune, DeleteMissing, KeepOld, Link, Taken,
                  ParkInboundRefsForFile, ReplaceFileIndex, ReplaceFails
    <2> QED BY <2>1, <2>2 DEF Tried, Resolving
  <1>4. CASE BeginIndexAll \/ BeginIndexChanges \/ EndPass \/ Crash
    <2>1. CASE BeginIndexAll
      <3>1. pass'.kind = "all"
        BY <2>1 DEF BeginIndexAll
      <3> QED BY <3>1 DEF Tried, Resolving
    <2>2. CASE BeginIndexChanges
      <3>1. pass'.kind = "changes"
        BY <2>2 DEF BeginIndexChanges
      <3> QED BY <3>1 DEF Tried, Resolving
    <2>3. CASE EndPass \/ Crash
      <3>1. pass' = Idle
        BY <2>3, Zenon DEF EndPass, Crash
      <3>2. pass'.kind = "idle"
        BY <3>1 DEF Idle
      <3> QED BY <3>2 DEF Tried, Resolving
    <2> QED BY <1>4, <2>1, <2>2, <2>3
  <1>5. CASE BeginResolve
    <2>1. UNCHANGED <<row, imps, ref>> /\ pass'.keys = pass.keys
      BY <1>5 DEF BeginResolve, TypeOK, Pass
    <2>2. ASSUME NEW r \in Promised \ (todo' \cup erred'),
                 ref[r].status \in {"pending", "failed"}
          PROVE  Choice[r] = {}
      <3>4. todo' = IF pass.keys = {} THEN RetryAll ELSE RetryFor(pass.keys)
        BY <1>5, <2>2 DEF BeginResolve, Promised
      <3>1. r \in Site
        BY DEF Promised
      <3>2. CASE pass.keys = {}
        <4>1. Owners(r[2]) = {}
          BY <2>2, <3>1, <3>2, <3>4 DEF RetryAll
        <4> QED BY <3>1, <4>1, NoCandidate
      <3>3. CASE pass.keys # {}
        BY <2>2, <3>1, <3>3, <3>4 DEF RetryFor, Promised
      <3> QED BY <3>2, <3>3
    <2>3. Choice' = Choice /\ Promised' = Promised
      BY <2>1, SameChoice, SamePromise
    <2> QED BY <2>1, <2>2, <2>3 DEF Tried
  <1>6. ASSUME NEW r \in Site, UpsertEdge(r) PROVE Tried'
    BY <1>1, <1>6 DEF UpsertEdge
  <1>7. ASSUME NEW r \in Site,
               \/ ApplyResolvedRef(r) \/ DeleteUnresolvedRef(r)
               \/ MarkUnresolvedFailed(r) \/ AttemptErrs(r)
        PROVE  Tried'
    <2>1. UNCHANGED <<row, imps, pass>> /\ todo' = todo \ {r} /\ erred \subseteq erred'
      BY <1>7 DEF ApplyResolvedRef, DeleteUnresolvedRef, MarkUnresolvedFailed, AttemptErrs
    <2>2. Choice' = Choice /\ Promised' = Promised
      BY <2>1, SameChoice, SamePromise
    <2>3. \A q \in Site : q # r => ref'[q] = ref[q]
      BY <1>7 DEF ApplyResolvedRef, DeleteUnresolvedRef, MarkUnresolvedFailed, AttemptErrs, TypeOK
    <2>4. ref'[r].status = "none" \/ Choice[r] = {} \/ r \in erred'
      <3>1. CASE ApplyResolvedRef(r) \/ DeleteUnresolvedRef(r)
        BY <3>1 DEF ApplyResolvedRef, DeleteUnresolvedRef, TypeOK, NoRef
      <3>2. CASE MarkUnresolvedFailed(r)
        BY <3>2 DEF MarkUnresolvedFailed, Choice
      <3>3. CASE AttemptErrs(r)
        BY <3>3 DEF AttemptErrs
      <3> QED BY <1>7, <3>1, <3>2, <3>3
    <2>5. Promised \subseteq Site
      BY DEF Promised
    <2>6. ASSUME Resolving, NEW q \in Promised \ (todo' \cup erred'),
                 ref'[q].status \in {"pending", "failed"}
          PROVE  Choice[q] = {}
      <3>1. CASE q = r
        BY <2>4, <2>6, <3>1
      <3>2. CASE q # r
        <4>1. q \in Promised \ (todo \cup erred) /\ ref'[q] = ref[q]
          BY <2>1, <2>3, <2>5, <3>2
        <4> QED BY <2>6, <4>1 DEF Tried
      <3> QED BY <3>1, <3>2
    <2> QED BY <2>1, <2>2, <2>6 DEF Tried, Resolving
  <1> QED BY <1>2, <1>3, <1>4, <1>5, <1>6, <1>7 DEF Next

(* A pass leaves no reference that it promised to try and that could be    *)
(* linked, except those whose listing, look-up or write met an error in it.*)
THEOREM ResolvedAtRestHolds == Spec => ResolvedAtRest
  <1>1. Init => Tried
    BY DEF Init, Idle, Tried, Resolving
  <1>2. TypeOK /\ Core /\ Tried /\ [Next]_vars =>
          [EndPass =>
             \A r \in Site \ erred :
               /\ ref'[r].status \in {"pending", "failed"}
               /\ \/ pass.keys = {}
                  \/ r[1] \in pass.keys
                  \/ r[2] \in ChangedNames(pass.keys)
               => resolveOne(r[1], r[2]) = {}]_vars
    <2> SUFFICES ASSUME TypeOK, Tried, EndPass, NEW r \in Site \ erred,
                        ref'[r].status \in {"pending", "failed"},
                        \/ pass.keys = {}
                        \/ r[1] \in pass.keys
                        \/ r[2] \in ChangedNames(pass.keys)
                 PROVE  resolveOne(r[1], r[2]) = {}
      OBVIOUS
    <2>1. Resolving /\ r \in Promised \ (todo \cup erred)
      BY DEF EndPass, Promised
    <2>2. ref[r].status \in {"pending", "failed"}
      BY DEF EndPass, TypeOK, NoRef
    <2> QED BY <2>1, <2>2 DEF Tried, Choice
  <1> QED BY <1>1, <1>2, CoreHolds, TriedStep, PTL DEF Spec, ResolvedAtRest
=============================================================================
