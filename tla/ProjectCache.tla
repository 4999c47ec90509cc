---------------------------- MODULE ProjectCache ----------------------------
(***************************************************************************)
(* The databases of other projects that tool calls open: resolveProject,   *)
(* releaseProject and closeProjectCache (internal/server/project.go,       *)
(* server.go), with the handles that backgroundIndexAndWatch opens for the *)
(* additional workdirs (ExtraDBs).                                         *)
(*                                                                         *)
(* Everything in resolveProject after the look at ExtraDBs happens under   *)
(* ProjectMu and is one step here, db.Open included; between the two       *)
(* mutexes another goroutine may run.  The flock is per open file, so that *)
(* a second db.Open of a root fails in the same process as well.           *)
(***************************************************************************)
EXTENDS Integers, Sequences, FiniteSets

CONSTANTS
    Root,      \* index roots other than the session's default
    Extra,     \* those of them that are additional workdirs
    Caller,    \* concurrent tool calls
    MaxLRU     \* ProjectMaxLRU (10 in the code)

ASSUME CacheAssumption == Extra \subseteq Root /\ MaxLRU \in Nat \ {0} /\ IsFiniteSet(Caller)

VARIABLES
    cached,    \* keys of ProjectCache
    pending,   \* keys of ProjectPendingClose
    lru,       \* ProjectLRU, oldest first
    refs,      \* dbEntry.refs of the root's entry
    handle,    \* roots whose database the cache has open
    bg,        \* per additional workdir: what the background goroutine did
    outside,   \* roots whose flock another process holds
    call,      \* per tool call: where it is, and with which root
    server     \* how far OpenServerState's cleanup is

cache == <<cached, pending, lru, refs, handle>>
vars  == <<cache, bg, outside, call, server>>

Idle == [at |-> "idle"]
Calls == {Idle} \cup [at : {"lookup", "inCache", "inExtra", "release", "releaseExtra"}, root : Root]

Init ==
    /\ cached = {} /\ pending = {} /\ lru = <<>>
    /\ refs = [r \in Root |-> 0] /\ handle = {}
    /\ bg = [r \in Extra |-> "todo"] /\ outside = {}
    /\ call = [c \in Caller |-> Idle] /\ server = "up"

BgOpen  == {r \in Extra : bg[r] \in {"open", "watched"}}
Watched == {r \in Extra : bg[r] = "watched"}
\* db.Open takes the flock.
Free(r) == r \notin handle \cup BgOpen \cup outside

Go(c, place, r) == call' = [call EXCEPT ![c] = [at |-> place, root |-> r]]

(***************************************************************************)
(* resolveProject and releaseProject.                                      *)
(***************************************************************************)
\* Under ExtraMu: a watched root has its long-lived handle.
Resolve(c) ==
    /\ server = "up" /\ call[c] = Idle
    /\ \E r \in Root : Go(c, IF r \in Watched THEN "inExtra" ELSE "lookup", r)
    /\ UNCHANGED <<cache, bg, outside, server>>

Listed(r)  == \E i \in 1 .. Len(lru) : lru[i] = r
Without(r) ==
    LET i == CHOOSE i \in 1 .. Len(lru) : lru[i] = r
    IN  SubSeq(lru, 1, i - 1) \o SubSeq(lru, i + 1, Len(lru))

\* touchProjectLRU, and one more user.
Hit(c, r) ==
    /\ r \in cached /\ lru' = IF Listed(r) THEN Append(Without(r), r) ELSE lru
    /\ refs' = [refs EXCEPT ![r] = @ + 1]
    /\ Go(c, "inCache", r) /\ UNCHANGED <<cached, pending, handle>>

Full   == Len(lru) >= MaxLRU
Oldest == Head(lru)

M_Admit(r, out, inUse) ==
    /\ cached' = (cached \ out) \cup {r}
    /\ lru' = Append(IF out = {} THEN lru ELSE Tail(lru), r)
    /\ pending' = pending \ {r}
    /\ handle' = (handle \ out) \cup {r}
    /\ refs' = [refs EXCEPT ![r] = @ + 1]

\* Make room: the oldest entry leaves the cache; it is closed when nobody
\* uses it, else its close waits in ProjectPendingClose.
Admit(r, out, inUse) ==
    /\ cached' = (cached \ out) \cup {r}
    /\ lru' = Append(IF out = {} THEN lru ELSE Tail(lru), r)
    /\ pending' = (pending \ {r}) \cup (out \cap inUse)
    /\ handle' = (handle \ {e \in out : refs[e] = 0}) \cup {r}
    /\ refs' = [refs EXCEPT ![r] = @ + 1]

Evicted == IF Full THEN {Oldest} ELSE {}

\* A call finds the root among the entries that wait for their close, or
\* opens it.  A failed open restores what was evicted for it.
Revive(c, r)   == r \in pending /\ Admit(r, Evicted, {e \in Root : refs[e] # 0}) /\ Go(c, "inCache", r)
OpenNew(c, r)  ==
    /\ r \notin cached \cup pending /\ Free(r)
    /\ Admit(r, Evicted, {e \in Root : refs[e] > 0}) /\ Go(c, "inCache", r)
OpenFails(c, r) ==
    /\ r \notin cached \cup pending /\ ~Free(r)
    /\ call' = [call EXCEPT ![c] = Idle] /\ UNCHANGED cache

Lookup(c) ==
    /\ call[c].at = "lookup"
    /\ LET r == call[c].root IN Hit(c, r) \/ Revive(c, r) \/ OpenNew(c, r) \/ OpenFails(c, r)
    /\ UNCHANGED <<bg, outside, server>>

\* Under ExtraMu: nothing to release for a watched root.  A call that used
\* the handle of an additional workdir which is closed by now goes on to the
\* cache, like one that used the cache.
Release(c) ==
    /\ call[c].at \in {"inCache", "inExtra"}
    /\ IF call[c].root \in Watched
         THEN call' = [call EXCEPT ![c] = Idle]
         ELSE Go(c, IF call[c].at = "inCache" THEN "release" ELSE "releaseExtra", call[c].root)
    /\ UNCHANGED <<cache, bg, outside, server>>

M_Drop(r) ==
    IF r \in pending \/ r \in cached
    THEN refs' = [refs EXCEPT ![r] = @ - 1] /\ UNCHANGED <<handle, pending>>
    ELSE UNCHANGED <<refs, handle, pending>>

\* The last user of an evicted entry closes it.
Drop(r) ==
    IF r \in pending
    THEN /\ refs' = [refs EXCEPT ![r] = @ - 1]
         /\ IF refs[r] = 1 THEN handle' = handle \ {r} /\ pending' = pending \ {r}
                           ELSE UNCHANGED <<handle, pending>>
    ELSE /\ refs' = IF r \in cached THEN [refs EXCEPT ![r] = @ - 1] ELSE refs
         /\ UNCHANGED <<handle, pending>>

ReleaseCached(c) ==
    /\ call[c].at \in {"release", "releaseExtra"} /\ Drop(call[c].root)
    /\ call' = [call EXCEPT ![c] = Idle]
    /\ UNCHANGED <<cached, lru, bg, outside, server>>

(***************************************************************************)
(* The additional workdirs, other processes, and the end.                  *)
(***************************************************************************)
Background(r, to) == bg' = [bg EXCEPT ![r] = to] /\ UNCHANGED <<outside, call, server>>

\* Opened for the first pass; a root that cannot be opened is skipped for
\* good, "blocked" when it is this process's own cache that has it open.
OpenExtra(r) ==
    /\ server = "up" /\ bg[r] = "todo"
    /\ Background(r, IF Free(r) THEN "open" ELSE IF r \in handle THEN "blocked" ELSE "skipped")
    /\ UNCHANGED cache

\* The pass or the watcher failed, there is no watcher, or BgDone is closed.
CloseExtra(r) == bg[r] = "open" /\ Background(r, "skipped") /\ UNCHANGED cache

\* ExtraDBs gets the handle; an entry of the cache for the root is dropped.
RegisterExtra(r) ==
    /\ bg[r] = "open" /\ Background(r, "watched")
    /\ cached' = cached \ {r}
    /\ lru' = IF r \in cached /\ Listed(r) THEN Without(r) ELSE lru
    /\ handle' = IF r \in cached /\ refs[r] = 0 THEN handle \ {r} ELSE handle
    /\ pending' = IF r \in cached /\ refs[r] > 0 THEN pending \cup {r} ELSE pending
    /\ UNCHANGED refs

OtherProcess(r) ==
    /\ \/ Free(r) /\ outside' = outside \cup {r}
       \/ r \in outside /\ outside' = outside \ {r}
    /\ UNCHANGED <<cache, bg, call, server>>

\* The background goroutine has ended; the additional workdirs are closed.
CloseExtras ==
    /\ server = "up" /\ server' = "extrasClosed"
    /\ \A r \in Extra : bg[r] # "open"
    /\ bg' = [r \in Extra |-> "skipped"] /\ UNCHANGED <<cache, outside, call>>

Unused == {r \in cached \cup pending : refs[r] = 0}
\* Entries in use are left to the end of the process.
CloseProjectCache ==
    /\ server = "extrasClosed" /\ server' = "closed"
    /\ handle' = handle \ Unused
    /\ cached' = cached \ Unused /\ pending' = pending \ Unused /\ lru' = <<>>
    /\ UNCHANGED <<refs, bg, outside, call>>

Next ==
    \/ \E c \in Caller : Resolve(c) \/ Lookup(c) \/ Release(c) \/ ReleaseCached(c)
    \/ \E r \in Extra : OpenExtra(r) \/ CloseExtra(r) \/ RegisterExtra(r)
    \/ \E r \in Root : OtherProcess(r)
    \/ CloseExtras
    \/ CloseProjectCache

Spec == Init /\ [][Next]_vars

-----------------------------------------------------------------------------
\* While the server is up, ProjectLRU lists each cached root once.
TypeOK ==
    /\ cached \subseteq Root /\ pending \subseteq Root /\ handle \subseteq Root
    /\ outside \subseteq Root
    /\ lru \in Seq(Root) /\ refs \in [Root -> Int]
    /\ bg \in [Extra -> {"todo", "open", "watched", "skipped", "blocked"}]
    /\ call \in [Caller -> Calls] /\ server \in {"up", "extrasClosed", "closed"}
    /\ server = "up" => cached = {lru[i] : i \in 1 .. Len(lru)}
    /\ \A i, j \in 1 .. Len(lru) : lru[i] = lru[j] => i = j

\* The calls that resolved r from the cache and have not released it.
Users(r) == {c \in Caller : call[c].at \in {"inCache", "release"} /\ call[c].root = r}

\* The roots the cache alone opens.  At the end of the process the handle of
\* an additional workdir is closed while a call may still hold it, and its
\* release is then charged to whatever entry the cache has for that root.
Owned == {r \in Root : server = "up" \/ r \notin Extra}

\* No eviction, drop or shutdown closes the database under a tool call that
\* resolved it from the cache and has not released it (dbEntry: "so concurrent
\* tool calls don't race with LRU eviction").
InUseIsOpen == \A r \in Owned : Users(r) # {} => r \in handle

\* No handle is forgotten: an open one is found in the cache, or its users
\* close it when they go; so at most MaxLRU stay open without a user.
NothingLeaks ==
    /\ handle \cap Owned = (cached \cup pending) \cap Owned /\ cached \cap pending = {}
    /\ \A r \in pending \cap Owned : refs[r] = Cardinality(Users(r)) /\ refs[r] > 0
    /\ server = "up" => Cardinality({r \in handle : Users(r) = {}}) <= MaxLRU

-----------------------------------------------------------------------------
\* Who may hold the flock of a root.
Holder  == {"cache", "background", "outside"}
Held    == [cache |-> handle, background |-> BgOpen, outside |-> outside]
Holders(r) == {h \in Holder : r \in Held[h]}

\* To each root they are writers of one index, one at a time.
Flock(r) == INSTANCE IndexWriter WITH Process <- Holder, writers <- Holders(r)
=============================================================================
