--------------------------- MODULE IndexLifecycle ---------------------------
(***************************************************************************)
(* One project root's index from process start to process end: the         *)
(* goroutine backgroundIndexAndWatch (internal/server/server.go), the pass *)
(* it runs (IndexAll, RebuildAll, IndexChanges of internal/extraction) and *)
(* the schema revision that says whether the index on disk may be trusted  *)
(* (internal/db/meta.go), while the user edits files, the process is shut  *)
(* down or killed, and other versions of the program run in turn.          *)
(*                                                                         *)
(* A file's content is a version, its extracted rows are the version and   *)
(* the program revision they were extracted from; a content hash is the    *)
(* version itself.  Size and mtime are only ever compared with the stored  *)
(* pair, so they are the set `quiet' of files for which the two agree.     *)
(***************************************************************************)
EXTENDS Integers, FiniteSets

CONSTANTS
    File,
    Rev,          \* program revisions (IndexSchemaRevision), 1 the oldest
    MaxVer        \* bound: contents a file takes are 1..MaxVer

ASSUME RevAssumption == Rev \subseteq Nat \ {0}
ASSUME VerAssumption == MaxVer \in Nat \ {0}

VARIABLES
    disk,      \* per file: the content on disk, 0 when there is none
    quiet,     \* files whose stored size and mtime are those on disk
    rows,      \* per file: the indexed version (0: none) and its extractor
    rev,       \* the meta row index_schema_revision, 0 when there is none
    prog,      \* the revision of the running program
    primary,   \* whether the root is the primary or an additional workdir
    pc,        \* where backgroundIndexAndWatch is
    pass,      \* the pass under way: "all", "rebuild" or "changes"
    watching,  \* whether a watcher is installed for the root
    bgDone,    \* whether BgDone, the shutdown channel, is closed
    err,       \* whether the pass has an error to return
    walkErr,   \* whether the walk met an unreadable directory
    walked,    \* the walk's job list
    info,      \* jobs whose walk-time os.FileInfo agreed with the stored one
    jobs,      \* jobs not yet taken by a worker
    held,      \* per file: the content a worker has read, 0 when none has
    failed,    \* history: files this pass kept the old index of
    still      \* history: files that were on disk at the walk, unedited since

index  == <<rows, rev>>
bg     == <<primary, prog, watching>>
walk   == <<walkErr, walked, info, still>>
work   == <<jobs, held, failed>>
vars   == <<disk, quiet, index, bg, pc, pass, bgDone, err, walk, work>>

None    == [ver |-> 0, gen |-> 0]
Row     == {None} \cup [ver : 1..MaxVer, gen : Rev]
Forced   == pass = "rebuild"
Indexed == {f \in File : rows[f] # None}
Idle    == {"down", "idle"}

TypeOK ==
    /\ disk \in [File -> 0..MaxVer]
    /\ rows \in [File -> Row]
    /\ rev \in Rev \cup {0}
    /\ prog \in Rev
    /\ pc \in Idle \cup {"check", "wipe", "walk", "prune", "jobs", "resolve",
                         "synth", "mark", "assist", "watch"}
    /\ pass \in {"all", "rebuild", "changes"}
    /\ {primary, watching, bgDone, err, walkErr} \subseteq BOOLEAN
    /\ UNION {quiet, walked, info, jobs, failed, still} \subseteq File
    /\ held \in [File -> 0..MaxVer]

\* A fresh project, or one an earlier program left: every index is reached
\* from the empty one.
Init ==
    /\ disk \in [File -> 0..MaxVer]
    /\ quiet = {}
    /\ rows = [f \in File |-> None]
    /\ rev = 0
    /\ prog \in Rev
    /\ primary \in BOOLEAN
    /\ pc = "down" /\ pass = "all" /\ watching = FALSE /\ bgDone = FALSE
    /\ err = FALSE /\ walkErr = FALSE
    /\ walked = {} /\ info = {} /\ still = {}
    /\ jobs = {} /\ failed = {} /\ held = [f \in File |-> 0]

-----------------------------------------------------------------------------
(* The environment. *)

\* The user creates, edits or deletes f.  An edit may keep size and mtime.
Edit(f) ==
    /\ disk' \in {[disk EXCEPT ![f] = v] : v \in (0..MaxVer) \ {disk[f]}}
    /\ quiet' \in {quiet \ {f}} \cup {q \in {quiet} : disk'[f] # 0}
    /\ still' = still \ {f}
    /\ UNCHANGED <<index, bg, pc, pass, bgDone, err, walkErr, walked, info, work>>

\* touch, checkout: the mtime moves, the content does not.
Touch(f) ==
    /\ f \in quiet
    /\ quiet' = quiet \ {f}
    /\ UNCHANGED <<disk, index, bg, pc, pass, bgDone, err, walk, work>>

\* The process starts, in this or a newer version of the program.
Start(p) ==
    /\ pc = "down"
    /\ p >= prog
    /\ prog' = p
    /\ pc' = "check"
    /\ bgDone' = FALSE /\ watching' = FALSE
    /\ UNCHANGED <<disk, quiet, index, primary, pass, err, walk, work>>

Shutdown ==
    /\ pc # "down" /\ ~bgDone
    /\ bgDone' = TRUE
    /\ UNCHANGED <<disk, quiet, index, bg, pc, pass, err, walk, work>>

\* The process ends: after BgWg.Wait when it was shut down, or at any moment
\* when it is killed.  What its workers had read is gone.
End ==
    /\ pc' = "down"
    /\ watching' = FALSE
    /\ err' = FALSE /\ walkErr' = FALSE /\ pass' = "all"
    /\ walked' = {} /\ info' = {} /\ still' = {}
    /\ jobs' = {} /\ failed' = {} /\ held' = [f \in File |-> 0]
    /\ UNCHANGED <<disk, quiet, index, prog, primary, bgDone>>

Exit  == pc = "idle" /\ bgDone /\ End
Crash == pc # "down" /\ End

-----------------------------------------------------------------------------
(* backgroundIndexAndWatch up to the pass. *)

\* Everything a pass leaves besides its effect on the database.
Goto(next) ==
    /\ pc' = next
    /\ UNCHANGED <<disk, quiet, index, bg, bgDone>>

NeedsRebuild == rev # prog

\* `select { case <-s.BgDone: return }'; an additional workdir's pass reads
\* BgDone only in its walk.
Check ==
    /\ pc = "check" /\ ~(primary /\ bgDone)
    /\ pass' = IF NeedsRebuild THEN "rebuild" ELSE "all"
    /\ err' = FALSE
    /\ Goto(IF NeedsRebuild THEN "wipe" ELSE "walk")
    /\ UNCHANGED <<walk, work>>

\* NeedsRebuild fails: no pass this time.  The primary root is watched all
\* the same, an additional one is closed.
CheckFails ==
    /\ pc = "check"
    /\ Goto(IF primary THEN "watch" ELSE "idle")
    /\ UNCHANGED <<pass, err, walk, work>>

\* A BgDone test between two stages.
Bail ==
    /\ bgDone /\ pc \in {"check", "assist", "watch"}
    /\ Goto("idle")
    /\ UNCHANGED <<pass, err, walk, work>>

\* WipeIndex: one transaction over every table but meta.
Wipe ==
    /\ pc = "wipe"
    /\ rows' = [f \in File |-> None]
    /\ quiet' = {}
    /\ pc' = "walk"
    /\ UNCHANGED <<disk, rev, bg, bgDone, pass, err, walk, work>>

\* Where the goroutine goes when the pass has returned.
AfterPass(failing) ==
    IF pass = "changes" THEN IF watching THEN "idle" ELSE "watch"
    ELSE IF primary THEN "assist"
    ELSE IF failing THEN "idle" ELSE "watch"

\* The pass returns an error: the revision is not marked.
Fail ==
    /\ err' = TRUE
    /\ Goto(AfterPass(TRUE))

M_WipeFails ==
    /\ pc = "wipe"
    /\ Goto("walk")
    /\ UNCHANGED <<pass, err, walk, work>>

WipeFails ==
    /\ pc = "wipe"
    /\ Fail
    /\ UNCHANGED <<pass, walk, work>>

-----------------------------------------------------------------------------
(* IndexAll. *)

\* collectIndexJobs: a directory the walk cannot read hides its files and is
\* counted; the walk goes on.
Walk(unread) ==
    /\ pc = "walk" /\ ~bgDone
    /\ walked' = {f \in File : disk[f] # 0} \ unread
    /\ walkErr' = (unread # {})
    /\ still' = {f \in File : disk[f] # 0}
    /\ info' = quiet \cap walked'
    /\ failed' = {}
    /\ Goto("prune")
    /\ UNCHANGED <<pass, err, jobs, held>>

WalkInterrupted ==
    /\ pc = "walk" /\ bgDone
    /\ Fail
    /\ UNCHANGED <<pass, walk, work>>

M_Prune(dropped, ok) ==
    /\ pc = "prune"
    /\ dropped \subseteq Indexed \ walked
    /\ ok => dropped = Indexed \ walked
    /\ rows' = [f \in File |-> IF f \in dropped THEN None ELSE rows[f]]
    /\ err' = (err \/ ~ok)
    /\ quiet' = quiet \ dropped
    /\ jobs' = walked
    /\ pc' = "jobs"
    /\ UNCHANGED <<disk, rev, bg, bgDone, pass, walk, held, failed>>

\* pruneMissingFiles drops the rows the walk found no file for, one ClearFile
\* at a time; some may fail.  An incomplete walk prunes nothing.
Prune(dropped, ok) ==
    /\ pc = "prune"
    /\ LET missing == IF walkErr THEN {} ELSE Indexed \ walked IN
       /\ dropped \subseteq missing
       /\ ok => dropped = missing
       /\ walkErr => ok
    /\ rows' = [f \in File |-> IF f \in dropped THEN None ELSE rows[f]]
    /\ err' = (err \/ ~ok)
    /\ quiet' = quiet \ dropped
    /\ jobs' = walked
    /\ pc' = "jobs"
    /\ UNCHANGED <<disk, rev, bg, bgDone, pass, walk, held, failed>>

\* A worker takes f while no shutdown is asked for.  IndexChanges works alone
\* and stats the file as it gets to it.
Taken(f) ==
    /\ pc = "jobs" /\ f \in jobs /\ ~bgDone
    /\ pass = "changes" => \A g \in File : held[g] = 0
    /\ jobs' = jobs \ {f}
    /\ UNCHANGED <<disk, rev, bg, bgDone, pc, pass, walk, failed>>

SameMeta(f) == IF pass = "changes" THEN f \in quiet ELSE f \in info
M_SameHash(f) == SameMeta(f) \/ rows[f].ver = disk[f]

SameHash(f) == rows[f].ver = disk[f]

\* The content gate: identical bytes are not extracted again.  indexFile's own
\* gate, reached when the metadata differed, refreshes the stored metadata.
Skip(f) ==
    /\ Taken(f)
    /\ disk[f] # 0 /\ ~Forced /\ SameHash(f)
    /\ quiet' = IF SameMeta(f) THEN quiet ELSE quiet \cup {f}
    /\ UNCHANGED <<rows, held, err>>

\* The bytes that will be hashed and extracted are read.  indexFile extracts
\* equal bytes too when its own look-up of the stored hash fails.
Read(f) ==
    /\ Taken(f)
    /\ disk[f] # 0 /\ (Forced \/ ~SameHash(f) \/ ~SameMeta(f))
    /\ held' = [held EXCEPT ![f] = disk[f]]
    /\ UNCHANGED <<rows, quiet, err>>

\* A deleted file: an error of the walk's job, a ClearFile for IndexChanges.
\* Any other failure of the gates' queries leaves the file as it was.
Gone(f) ==
    /\ Taken(f)
    /\ pass = "changes" /\ disk[f] = 0
    /\ rows' = [rows EXCEPT ![f] = None]
    /\ quiet' = quiet \ {f}
    /\ UNCHANGED <<held, err>>

GateFails(f) ==
    /\ Taken(f)
    /\ err' = TRUE
    /\ UNCHANGED <<rows, quiet, held>>

\* Done with the bytes a worker held.
Settled(f) ==
    /\ pc = "jobs" /\ held[f] # 0
    /\ held' = [held EXCEPT ![f] = 0]
    /\ UNCHANGED <<disk, rev, bg, bgDone, pc, pass, walk, jobs>>

\* ReplaceFileIndex: rows of the bytes read, metadata of the file as it is now.
Replace(f) ==
    /\ Settled(f)
    /\ rows' = [rows EXCEPT ![f] = [ver |-> held[f], gen |-> prog]]
    /\ quiet' = IF disk[f] = 0 THEN quiet \ {f} ELSE quiet \cup {f}
    /\ UNCHANGED <<err, failed>>

\* ErrKeepOldIndex: counted, not an error of the pass.
KeepOld(f) ==
    /\ Settled(f)
    /\ failed' = failed \cup {f}
    /\ UNCHANGED <<rows, quiet, err>>

\* Parking or replacing fails, or the worker panics.
JobFails(f) ==
    /\ Settled(f)
    /\ err' = TRUE
    /\ UNCHANGED <<rows, quiet, failed>>

\* After a shutdown request the remaining jobs are drained unindexed.
Drain ==
    /\ pc = "jobs" /\ bgDone /\ jobs # {}
    /\ jobs' = {}
    /\ UNCHANGED <<disk, quiet, index, bg, pc, pass, bgDone, err, walk, held, failed>>

JobsEnd ==
    /\ pc = "jobs" /\ jobs = {} /\ \A f \in File : held[f] = 0
    /\ IF bgDone THEN Fail ELSE err' = err /\ Goto("resolve")
    /\ UNCHANGED <<pass, walk, work>>

\* ResolveAll or ResolveForFiles; only IndexAll tests BgDone after it.
Resolve(ok) ==
    /\ pc = "resolve"
    /\ IF bgDone /\ pass # "changes"
       THEN Fail
       ELSE err' = (err \/ ~ok) /\ Goto("synth")
    /\ UNCHANGED <<pass, walk, work>>

\* runSynthesis ends the pass.
Synth(ok) ==
    /\ pc = "synth"
    /\ err' = (err \/ ~ok)
    /\ Goto(IF err' \/ pass = "changes" THEN AfterPass(err') ELSE "mark")
    /\ UNCHANGED <<pass, walk, work>>

-----------------------------------------------------------------------------
(* backgroundIndexAndWatch after the pass. *)

\* markSchemaRevision in RebuildAll, SetSchemaRevision in the server.
Mark ==
    /\ pc = "mark"
    /\ rev' = prog
    /\ pc' = AfterPass(FALSE)
    /\ UNCHANGED <<disk, quiet, rows, bg, bgDone, pass, err, walk, work>>

\* RebuildAll returns the failure to mark; the server only logs its own.
MarkFails ==
    /\ pc = "mark"
    /\ err' = Forced
    /\ Goto(AfterPass(Forced))
    /\ UNCHANGED <<pass, walk, work>>

\* IndexChanges of `batch': the files git reports dirty, or the watcher's.
Changes(batch) ==
    /\ pass' = "changes"
    /\ jobs' = batch
    /\ err' = FALSE
    /\ failed' = {}
    /\ UNCHANGED <<held, walk>>

Assist(dirty) ==
    /\ pc = "assist"
    /\ IF dirty = {}
       THEN Goto("watch") /\ UNCHANGED <<pass, err, walk, work>>
       ELSE ~bgDone /\ Changes(dirty) /\ Goto("jobs")

\* startWatcherWithRetry gives a watcher or, after its attempts, none; with
\* noSync there is none either.
Watch(ok) ==
    /\ pc = "watch" /\ ~bgDone
    /\ watching' = ok
    /\ pc' = "idle"
    /\ UNCHANGED <<disk, quiet, index, primary, prog, pass, bgDone, err, walk, work>>

Sync(batch) ==
    /\ pc = "idle" /\ watching /\ ~bgDone
    /\ batch # {}
    /\ Changes(batch)
    /\ Goto("jobs")

-----------------------------------------------------------------------------
Worker(f) == Skip(f) \/ Read(f) \/ Gone(f) \/ GateFails(f)
             \/ Replace(f) \/ KeepOld(f) \/ JobFails(f)

Goroutine ==
    \/ Check \/ CheckFails \/ Bail
    \/ Wipe \/ WipeFails
    \/ \E unread \in SUBSET File : Walk(unread)
    \/ WalkInterrupted
    \/ \E dropped \in SUBSET File, ok \in BOOLEAN : Prune(dropped, ok)
    \/ \E f \in File : Worker(f)
    \/ Drain \/ JobsEnd
    \/ \E ok \in BOOLEAN : Resolve(ok) \/ Synth(ok)
    \/ Mark \/ MarkFails
    \/ \E dirty \in SUBSET File : Assist(dirty)
    \/ \E ok \in BOOLEAN : Watch(ok)

Environment ==
    \/ \E f \in File : Edit(f) \/ Touch(f)
    \/ \E p \in Rev : Start(p)
    \/ Shutdown \/ Exit \/ Crash

Next ==
    \/ Goroutine
    \/ \E batch \in SUBSET File : Sync(batch)
    \/ Environment

Spec == Init /\ [][Next]_vars

-----------------------------------------------------------------------------
(* Properties. *)

\* While the stored revision is the running program's, no row was extracted by
\* another version: a certified index is never a mixture (meta.go, RebuildAll).
RevisionHonest ==
    pc # "down" /\ rev = prog =>
        \A f \in Indexed : rows[f].gen = prog

\* When a pass is about to mark the revision, every file its walk found and
\* nobody touched since is indexed with its present content, unless its
\* extraction failed: no shutdown, lost job, panic or skipped gate slips
\* through to the mark.
MarkedPassIsComplete ==
    pc = "mark" =>
        \A f \in walked \cap still : f \in failed \/ rows[f].ver = disk[f]

\* A file that stays on disk keeps its rows through prunes, failed extractions,
\* shutdowns and crashes; only a rebuild, which starts from an index of another
\* revision, drops them.
KeepsLiveFiles ==
    [][\A f \in File :
          rows[f] # None /\ rows'[f] = None /\ f \in still
          => pc = "wipe" /\ rev # prog]_vars
=============================================================================
