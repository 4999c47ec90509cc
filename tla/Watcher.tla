------------------------------ MODULE Watcher ------------------------------
(***************************************************************************)
(* Auto-sync of one project root: the file-system watcher                  *)
(* (internal/sync/watcher.go), the incremental pass it drives              *)
(* (IndexChanges in internal/extraction/orchestrator.go) and the shutdown  *)
(* that ends both (OpenServerState's cleanup in internal/server/server.go).*)
(*                                                                         *)
(* Three goroutines: the event loop, the pass it spawns (one at a time) and*)
(* the shutdown; users edit files all the while, and every system call of  *)
(* the pass is a step of its own.  The tree has files below the root and   *)
(* one directory, which is also moved in and out as a whole.  Files are    *)
(* abstracted to their content and `rows` to the content each files row    *)
(* was built from (its content_hash; size and mtime only save a read).     *)
(***************************************************************************)
EXTENDS Integers, FiniteSets, Sequences

CONSTANTS
    File,        \* source files below the root
    InTree,      \* those in the directory that moves
    Text,        \* contents of a source file of at most maxIndexFileSize
    Broken,      \* those the extractors may fail on
    QueueLen,    \* capacity of the kernel's event queue
    MaxRetries,  \* maxPendingRetries (3 in the code)
    MaxEdits     \* bound: how many times the users change the tree

ASSUME FileAssumption ==
    /\ IsFiniteSet(File) /\ InTree \subseteq File
    /\ File \cap {"tree", "newTree", "overflow", "nobody"} = {}
ASSUME TextAssumption ==
    /\ Broken \subseteq Text
    /\ Text \cap {"absent", "link", "huge", "dir", "error"} = {}
ASSUME BoundAssumption ==
    QueueLen \in Nat \ {0} /\ MaxRetries \in Nat \ {0} /\ MaxEdits \in Nat

VARIABLES
    disk,      \* per file: its content, "absent", "link" or "huge"
    treeUp,    \* whether the directory exists
    watched,   \* whether it is registered with fsnotify (the root always is)
    events,    \* what the kernel has queued for the loop
    edits,     \* how many changes the users made
    excuse,    \* history: why a file's row may be out of date for good
    loop,      \* the event loop: where it is
    pending,   \* w.pending: the paths that have an entry
    older,     \* the pairs of them of which the first has the older `since`
    retries,   \* pendingEntry.retries
    pass,      \* processPending: where it is
    jobs,      \* its jobs not yet looked at
    own,       \* paths whose pending entry is still the one the pass took
    batch,     \* `undecided`
    todo,      \* files of the batch IndexChanges has still to do
    cur,       \* the path in hand and what the last system call saw
    failed,    \* IndexFailedFiles
    keys,      \* storeKeys
    bad,       \* IndexChanges returns an error, or PartialFailures() > 0
    rows,      \* per file: the content its index rows were extracted from
    unresolved,\* files written since a resolution pass last covered them
    server     \* how far the cleanup of OpenServerState is

tree == <<disk, treeUp, watched, events, edits>>
queue == <<pending, older, retries>>
work == <<jobs, batch, todo, cur, failed, keys, bad>>
index == <<rows, unresolved>>
vars == <<tree, excuse, loop, queue, pass, own, work, index, server>>

Path == File \cup {"tree"}
Content == Text \cup {"absent", "link", "huge"}
Excuses == {"none", "unwatched", "overflow", "dropped", "torn", "forgotten"}
LoopPhase == {"off", "select", "walk", "walkFiles", "rescan", "rescanFiles", "ended"}
PassPhase == {"idle", "judge", "delete", "index", "write", "finish"}

Interrupted == server # "up"                     \* BgDone is closed
IsStopped   == server \in {"stopped", "closed"}  \* w.done is closed
Below(p)    == IF p = "tree" THEN InTree ELSE {p}
Nothing     == [path |-> "nobody", saw |-> "absent"]
Excuse(S, why) == [f \in File |-> IF f \in S THEN why ELSE excuse[f]]

Init ==
    /\ disk \in [File -> {"absent"} \cup Text]
    /\ treeUp = (\E f \in InTree : disk[f] # "absent")
    /\ rows = disk
    /\ watched = FALSE /\ events = <<>> /\ edits = 0
    /\ excuse = [f \in File |-> "none"]
    /\ loop = "off" /\ pending = {} /\ older = {} /\ retries = [p \in Path |-> 0]
    /\ pass = "idle" /\ jobs = {} /\ own = {} /\ batch = {} /\ todo = {}
    /\ cur = Nothing /\ failed = {} /\ keys = {} /\ bad = FALSE
    /\ unresolved = {} /\ server = "up"

(***************************************************************************)
(* The users.  Before Start has registered the directory that holds a file *)
(* nobody hears of a change; when the kernel's queue is full it queues one *)
(* overflow mark and forgets the rest.                                     *)
(***************************************************************************)
Notify(e, heard, S) ==
    IF loop = "off" \/ ~heard
    THEN excuse' = Excuse(S, "unwatched") /\ UNCHANGED events
    ELSE IF Len(events) < QueueLen
    THEN events' = Append(events, e) /\ UNCHANGED excuse
    ELSE /\ excuse' = Excuse(S, "overflow")
         /\ events' = IF events[Len(events)] = "overflow" THEN events ELSE Append(events, "overflow")

UserStep == edits < MaxEdits /\ edits' = edits + 1

Edit(f, c) ==
    /\ UserStep /\ disk[f] # c /\ (f \in InTree => treeUp)
    /\ disk' = [disk EXCEPT ![f] = c]
    /\ Notify(f, f \notin InTree \/ watched, {f})
    /\ UNCHANGED <<treeUp, watched, loop, queue, pass, own, work, index, server>>

\* The directory is renamed away: one event, none for what it holds.
MoveTreeOut ==
    /\ UserStep /\ treeUp /\ treeUp' = FALSE /\ watched' = FALSE
    /\ disk' = [f \in File |-> IF f \in InTree THEN "absent" ELSE disk[f]]
    /\ Notify("tree", TRUE, InTree)
    /\ UNCHANGED <<loop, queue, pass, own, work, index, server>>

MoveTreeIn(c) ==
    /\ UserStep /\ ~treeUp /\ treeUp' = TRUE
    /\ disk' = [f \in File |-> IF f \in InTree THEN c ELSE disk[f]]
    /\ Notify("newTree", TRUE, InTree)
    /\ UNCHANGED <<watched, loop, queue, pass, own, work, index, server>>

(***************************************************************************)
(* Start and the event loop.                                               *)
(***************************************************************************)
\* A registration that fails is a blind spot, not an error.
Start ==
    /\ loop = "off" /\ server = "up" /\ loop' = "select"
    /\ watched' \in {treeUp, FALSE}
    /\ UNCHANGED <<disk, treeUp, events, edits, excuse, queue, pass, own, work, index, server>>

\* The paths of S get an entry with since: time.Now(), those of stay keep theirs.
Restamp(stay, S) ==
    /\ pending' = stay \cup S
    /\ older' = (older \cap (stay \X stay)) \cup (stay \X S)

\* pending[p] = &pendingEntry{since: time.Now()} for every path of S: a new
\* entry, which the pass that took the old one does not touch.
M_StillOwn(S) == own
StillOwn(S) == own \ S

Queue(S) ==
    /\ Restamp(pending \ S, S)
    /\ retries' = [p \in Path |-> IF p \in S THEN 0 ELSE retries[p]]
    /\ own' = StillOwn(S)
    /\ excuse' = Excuse(UNION {Below(p) : p \in S}, "none")

TakeEvent == loop = "select" /\ events # <<>> /\ events' = Tail(events)

\* A source file queues whatever happened to it; the directory's name, which
\* has no language, only when it is removed or renamed.
LoopQueues ==
    /\ TakeEvent /\ Head(events) \in Path /\ Queue({Head(events)})
    /\ UNCHANGED <<disk, treeUp, watched, edits, loop, pass, work, index, server>>

\* A created directory is walked if it is still there; an overflow walks all.
LoopWalks ==
    /\ TakeEvent
    /\ \/ Head(events) = "newTree" /\ loop' = IF treeUp THEN "walk" ELSE "select"
       \/ Head(events) = "overflow" /\ loop' = "rescan"
    /\ UNCHANGED <<disk, treeUp, watched, edits, excuse, queue, pass, own, work, index, server>>

\* watchTree registers a directory before it lists it.
WalkAdds ==
    /\ \/ loop = "walk" /\ loop' = "walkFiles"
       \/ loop = "rescan" /\ loop' = "rescanFiles"
    /\ watched' \in IF treeUp THEN {TRUE, watched} ELSE {watched}
    /\ UNCHANGED <<disk, treeUp, events, edits, excuse, queue, pass, own, work, index, server>>

M_Present(S) == {f \in S : rows[f] = "absent"}
Present(S) == {f \in S : disk[f] # "absent"}

WalkQueues ==
    /\ loop \in {"walkFiles", "rescanFiles"} /\ loop' = "select"
    /\ Queue(Present(IF loop = "walkFiles" THEN InTree ELSE File))
    /\ UNCHANGED <<tree, pass, work, index, server>>

LoopExits ==
    /\ loop = "select" /\ IsStopped /\ loop' = "ended"
    /\ UNCHANGED <<tree, excuse, queue, pass, own, work, index, server>>

(***************************************************************************)
(* processPending.  A tick that finds a pass running, or nothing old       *)
(* enough, changes nothing.                                                *)
(***************************************************************************)
\* The pass returns; its locals are gone.
EndPass ==
    /\ pass' = "idle" /\ jobs' = {} /\ own' = {} /\ batch' = {} /\ todo' = {}
    /\ cur' = Nothing /\ failed' = {} /\ keys' = {} /\ bad' = FALSE

\* With an entry that has waited for the debounce all older ones have.
Take(S) ==
    /\ loop = "select" /\ pass = "idle" /\ ~IsStopped
    /\ S # {} /\ \A o \in older : o[2] \in S => o[1] \in S
    /\ jobs' = S /\ own' = S
    /\ pass' = "judge"
    /\ UNCHANGED <<tree, excuse, loop, queue, batch, todo, cur, failed, keys, bad, index, server>>

\* requeue counts a failed attempt against the entry and gives up on it when
\* the budget is spent.
Spent(S) == {p \in S : retries[p] + 1 >= MaxRetries}

M_Counted(kept, removed) ==
    [p \in Path |-> IF p \in kept \cup removed THEN 0 ELSE retries[p]]
Counted(kept, removed) ==
    [p \in Path |-> IF p \in kept THEN retries[p] + 1
                    ELSE IF p \in removed THEN 0 ELSE retries[p]]

\* settled(good), requeue(again).  Both leave an entry that replaced the
\* pass's own alone; requeue does nothing after Stop.  (Only a pass removes
\* entries, so its job always has one.)
Return(good, again, forgotten) ==
    LET mine == (IF IsStopped THEN {} ELSE again) \cap own
        gone == Spent(mine)
        kept == mine \ gone
        removed == gone \cup (good \cap own)
    IN  /\ Restamp(pending \ (kept \cup removed), kept)
        /\ retries' = Counted(kept, removed)
        /\ excuse' = [f \in File |->
                        IF \E p \in gone : f \in Below(p) THEN "dropped"
                        ELSE IF "tree" \in kept /\ f \in InTree THEN "torn"
                        ELSE IF f \in forgotten \cap own /\ excuse[f] = "none" THEN "forgotten"
                        ELSE excuse[f]]

\* Lstat: a regular file joins the batch, a failure is retried, anything else
\* (gone, a directory, not regular) loses its rows.
Lstat(p) ==
    /\ pass = "judge" /\ p \in jobs /\ jobs' = jobs \ {p}
    /\ LET saw == IF p = "tree" THEN (IF treeUp THEN "dir" ELSE "absent") ELSE disk[p]
       IN  \/ /\ saw \in Text \cup {"huge"}
              /\ batch' = batch \cup {p} /\ UNCHANGED <<pass, cur, queue, excuse>>
           \/ /\ saw \in {"absent", "dir", "link"}
              /\ pass' = "delete" /\ cur' = [path |-> p, saw |-> saw]
              /\ UNCHANGED <<batch, queue, excuse>>
           \/ Return({}, {p}, {}) /\ UNCHANGED <<pass, cur, batch>>
    /\ UNCHANGED <<tree, loop, own, todo, failed, keys, bad, index, server>>

\* ClearFile of every file of S, each in a transaction of its own.
ClearFiles(S) ==
    /\ rows' = [f \in File |-> IF f \in S THEN "absent" ELSE rows[f]]
    /\ unresolved' = unresolved \ S

\* DeleteTree or DeleteFile; some of the files may fail.
Delete ==
    /\ pass = "delete" /\ pass' = "judge" /\ cur' = Nothing
    /\ LET p == cur.path
       IN  \/ ClearFiles(Below(p)) /\ Return({p}, {}, {})
           \/ \E S \in SUBSET Below(p) \ {Below(p)} : ClearFiles(S) /\ Return({}, {p}, {})
    /\ UNCHANGED <<tree, loop, jobs, own, batch, todo, failed, keys, bad, server>>

Judged ==
    /\ pass = "judge" /\ jobs = {}
    /\ IF batch = {} \/ IsStopped
       THEN EndPass
       ELSE pass' = "index" /\ todo' = batch /\ UNCHANGED <<jobs, own, batch, cur, failed, keys, bad>>
    /\ UNCHANGED <<tree, excuse, loop, queue, index, server>>

(***************************************************************************)
(* IndexChanges(batch).                                                    *)
(***************************************************************************)
PassOnly == UNCHANGED <<tree, excuse, loop, queue, jobs, own, batch, server>>

Interrupt ==
    /\ pass = "index" /\ Interrupted /\ EndPass
    /\ UNCHANGED <<tree, excuse, loop, queue, index, server>>

\* Stat, Lstat, ReadFile.  A file that became a symlink is skipped, unless the
\* link leads nowhere; one past the size limit is skipped and keeps its rows.
ReadFile(f) ==
    /\ pass = "index" /\ ~Interrupted /\ f \in todo /\ todo' = todo \ {f}
    /\ \/ /\ disk[f] \in Text \cup {"absent"}
          /\ cur' = [path |-> f, saw |-> disk[f]] /\ pass' = "write"
          /\ UNCHANGED <<failed, keys, bad>>
       \/ /\ disk[f] = "link"
          /\ cur' = [path |-> f, saw |-> "absent"] /\ pass' = "write"
          /\ UNCHANGED <<failed, keys, bad>>
       \/ disk[f] = "link" /\ keys' = keys \cup {f} /\ UNCHANGED <<pass, cur, failed, bad>>
       \/ disk[f] = "huge" /\ UNCHANGED <<pass, cur, failed, keys, bad>>
       \/ /\ failed' = failed \cup {f} /\ bad' = TRUE
          /\ UNCHANGED <<pass, cur, keys>>
    /\ PassOnly /\ UNCHANGED index

\* What a failed extraction must not replace.
HasSymbols(f) == rows[f] \in Text \ Broken

\* indexFile, or DeleteFile when Stat found nothing.  Bytes the row was built
\* from are not extracted again; bytes the extractors fail on leave the old
\* rows and their hash (ErrKeepOldIndex); any database error fails the file.
Written(f, c) ==
    \/ /\ rows[f] # c /\ (c \in Broken => ~HasSymbols(f))
       /\ rows' = [rows EXCEPT ![f] = c] /\ unresolved' = unresolved \cup {f}
       /\ UNCHANGED <<failed, bad>>
    \/ rows[f] = c /\ UNCHANGED <<index, failed, bad>>

WriteFile ==
    /\ pass = "write" /\ pass' = "index" /\ cur' = Nothing
    /\ LET f == cur.path
           c == cur.saw
       IN  /\ \/ c = "absent" /\ ClearFiles({f}) /\ UNCHANGED <<failed, bad>>
              \/ c # "absent" /\ Written(f, c)
              \/ failed' = failed \cup {f} /\ bad' = TRUE /\ UNCHANGED index
           /\ keys' = IF c = "absent" THEN keys ELSE keys \cup {f}
    /\ PassOnly /\ UNCHANGED todo

\* ResolveForFiles and runSynthesis over the files this pass looked at.
Resolve ==
    /\ pass = "index" /\ ~Interrupted /\ todo = {} /\ pass' = "finish"
    /\ \/ unresolved' = unresolved \ keys /\ UNCHANGED bad
       \/ bad' = TRUE /\ UNCHANGED unresolved
    /\ PassOnly /\ UNCHANGED <<todo, cur, failed, keys, rows>>

\* requeueFailed: only what failed is retried, or everything when nothing is
\* known to have failed on its own.  So a resolution that failed beside a file
\* is not retried for the others.
M_Again == IF ~bad THEN {} ELSE failed
Again == IF ~bad THEN {} ELSE IF failed = {} THEN batch ELSE failed

Finish ==
    /\ pass = "finish" /\ EndPass
    /\ Return(batch \ Again, Again, IF failed = {} THEN {} ELSE unresolved \ Again)
    /\ UNCHANGED <<tree, loop, index, server>>

(***************************************************************************)
(* The cleanup of OpenServerState: close BgDone, stop the watcher (which   *)
(* gives up waiting after stopGracePeriod), WaitIdle, close the database.  *)
(***************************************************************************)
CloseBgDone ==
    /\ server = "up" /\ server' = "bgDone"
    /\ UNCHANGED <<tree, excuse, loop, queue, pass, own, work, index>>

StopWatcher ==
    /\ server = "bgDone" /\ server' = IF loop = "off" THEN "closed" ELSE "stopped"
    /\ UNCHANGED <<tree, excuse, loop, queue, pass, own, work, index>>

M_CloseDB ==
    /\ server = "stopped" /\ loop = "ended" /\ server' = "closed"
    /\ UNCHANGED <<tree, excuse, loop, queue, pass, own, work, index>>

CloseDB ==
    /\ server = "stopped" /\ loop = "ended" /\ pass = "idle" /\ server' = "closed"
    /\ UNCHANGED <<tree, excuse, loop, queue, pass, own, work, index>>

-----------------------------------------------------------------------------
Users    == \/ \E f \in File, c \in Content : Edit(f, c)
            \/ MoveTreeOut \/ \E c \in Text : MoveTreeIn(c)
LoopStep == LoopQueues \/ LoopWalks \/ WalkAdds \/ WalkQueues \/ LoopExits
PassStep == \/ \E p \in Path : Lstat(p)
            \/ \E f \in File : ReadFile(f)
            \/ Delete \/ Judged \/ Interrupt \/ WriteFile \/ Resolve \/ Finish
Tick     == \E S \in SUBSET pending : Take(S)
ServerStep == StopWatcher \/ CloseDB

Next == Users \/ Start \/ LoopStep \/ Tick \/ PassStep \/ CloseBgDone \/ ServerStep

\* Every goroutine runs; the ticker ticks and what is pending grows old.
Fairness == /\ WF_vars(LoopStep) /\ WF_vars(Tick) /\ WF_vars(PassStep)
            /\ WF_vars(ServerStep)

Spec == Init /\ [][Next]_vars
FairSpec == Spec /\ Fairness

-----------------------------------------------------------------------------
TypeOK ==
    /\ disk \in [File -> Content] /\ treeUp \in BOOLEAN /\ watched \in BOOLEAN
    /\ events \in Seq(Path \cup {"newTree", "overflow"}) /\ Len(events) <= QueueLen + 1
    /\ edits \in 0 .. MaxEdits /\ excuse \in [File -> Excuses]
    /\ loop \in LoopPhase /\ pass \in PassPhase
    /\ pending \subseteq Path /\ older \subseteq pending \X pending
    /\ retries \in [Path -> 0 .. MaxRetries - 1]
    /\ jobs \subseteq Path /\ own \subseteq Path
    /\ batch \subseteq File /\ todo \subseteq batch
    /\ cur \in [path : Path \cup {"nobody"}, saw : Content \cup {"dir"}]
    /\ failed \subseteq batch /\ keys \subseteq batch /\ bad \in BOOLEAN
    /\ rows \in [File -> Text \cup {"absent"}] /\ unresolved \subseteq File
    /\ server \in {"up", "bgDone", "stopped", "closed"}

Quiet == /\ server = "up" /\ loop = "select" /\ pass = "idle"
         /\ events = <<>> /\ pending = {}
Current(f) == rows[f] = IF disk[f] \in Text THEN disk[f] ELSE "absent"

\* When the watcher has nothing left to do the index is what a fresh pass
\* would build, whatever raced with the passes, except for the files the code
\* gives up on: changed unheard in an unwatched directory or lost in an
\* overflow and gone, dropped after MaxRetries failures, cleared by a retry of
\* DeleteTree, or grown past the size limit (watcher.go:359-382, 430-439).
Converged ==
    Quiet => \A f \in File :
        Current(f) \/ excuse[f] \notin {"none", "forgotten"} \/ disk[f] = "huge"

\* At rest every call and reference that was extracted has been through a
\* resolution pass, or its file was dropped, or the failure was shadowed by
\* another file's (watcher.go:403-428, 516-534).
ResolvedAtRest ==
    Quiet => \A f \in unresolved : excuse[f] # "none" \/ disk[f] = "huge"

\* An overflow costs no file that exists: the rescan finds every one
\* (watcher.go:311-323).
OverflowSparesThePresent ==
    Quiet => \A f \in File :
        excuse[f] = "overflow" => disk[f] \notin Text

\* The pass never outlives the database (watcher.go:201-209, server.go:225-231).
NoPassAfterClose == server = "closed" => pass = "idle" /\ loop \in {"off", "ended"}

\* A path that keeps failing does not keep the watcher busy: it comes to rest
\* (watcher.go:19-24).
ComesToRest == <>[](loop = "off" \/ Quiet \/ server = "closed")
=============================================================================
