# codegraph-go: a formal model

codegraph-go keeps a symbol graph of a source tree in `.codegraph/codegraph.db`
and answers questions about it over MCP. One background daemon per project root
owns the database, keeps it in step with the files and serves every client.
This directory models the parts of it whose correctness depends on order: who
owns the index, when a daemon may stop, how a client finds or replaces one, what
the watcher does with a tree that changes while it looks, when an index may be
called complete, how an old database becomes a current one, and what becomes of
the edges of the graph when its files are re-indexed one by one. It also models
the pure algorithms that decide which files, imports and symbols an answer is
about, and checks them on every small input.

## 1. Inventory

| component | source (src/internal/...) | state | operations | what is hard | what makes it correct |
|---|---|---|---|---|---|
| daemon lifecycle | daemon/server.go | counters, conns, idle timer, wait group, stopping flag | Start, acceptLoop, serveConn, addClient, dropClient, finishConn, armIdleTimer, stopIfIdle, Stop, finishShutdown | goroutines that register, time out and stop at the same time | exact counters; no stop under a served connection; every stop ends; an unused daemon stops |
| pidfile lock, sockets | daemon/lock.go, paths.go, RunAsDaemon | `daemon.pid`, socket paths | TryAcquireLock, ClearStaleLock, RewriteLock, bind, cleanupArtifacts | system calls of several processes interleave; crashes leave files | stale files never block; a clean exit leaves none |
| index connection | db/connection.go | flock on `codegraph.lock`, SQLite handle | Open, Close | error paths, process death | one writer |
| recovery | daemon/recovery.go, pidfd.go, lock.go | none of its own | probe the flock, identify the holder, kill it | pid reuse, probes with effects | never kills a healthy or foreign process |
| client | daemon/proxy.go, spawn.go, hello.go, cmd | a connection or a direct session | EnsureAndDial, spawn, fallback | timeouts against slow starts | ends in exactly one way of being served |
| server state | server/server.go | database, orchestrator, watcher, BgDone | OpenServerState and its cleanup, backgroundIndexAndWatch | order of shutdown, rebuild interrupted | nothing uses a closed database; a revision is recorded only for a complete index |
| watcher | sync/watcher.go | pending map, running pass | event loop, processPending, Stop, WaitIdle | changes during a pass, overflow, retries | convergence; termination |
| orchestrator, index writer | extraction/orchestrator*.go, index_writer.go | rows of `files`, nodes, edges, refs | IndexAll, IndexChanges, RebuildAll, DeleteFile, DeleteTree, indexFile | failures half-way, keep-old decisions | rows follow content; a failure is retried |
| store | db/query_*.go, meta.go, migrate.go, wal.go | tables | ReplaceFileIndex, ClearFile, WipeIndex, migrations | two transactions for one change, cascades, crashes | incremental result equals the full one |
| resolution, synthesis | db/resolve.go, resolution/*.go | unresolved_refs, edges | ResolveForFiles, ranking of candidates, synthesis | attempt budget, order dependence | every resolvable reference is resolved |
| schema migration | db/connection.go, migrate.go | tables, indexes, copies of a rebuild | Open, recoverEdgesRebuild, ensureSchema | a crash or error between any two statements, builds that left other states | no edge lost; what is opened is current; opened at last |
| file selection, workspace | extraction/skip.go, git_assist.go, cgdir, config, cmd | none | skip rules, their translation to ripgrep globs, root of a session | two engines for one rule, roots in roots | both see one tree, and a session sees its own |
| import paths | resolution/*_workspace.go, workspace_packages.go, import_resolver.go, path_aliases.go | caches of manifests | ResolveImportPath | module trees, replaces, globs | the files the language would load |
| extractors | extraction/treesitter*.go, extractor_*.go, frameworks.go | none | text to symbols | | functions of their input |
| project cache | server/project.go, server.go | open databases with reference counts | resolveProject, releaseProject, closeProjectCache | eviction under use, two owners of one root | a database in use is open; none is forgotten |
| MCP tools | server/tools.go, tools/*.go | none | read-only queries | cycles, caps, depths, budgets | the answer is what the graph says, up to the stated limits |
| support | safelog, limits, registry, ppid, search | | | | |

How they interact: clients reach a daemon through its socket (daemon lifecycle)
or start one (client -> lock); the daemon that wins the pidfile binds the socket
and only then opens the database (lock -> connection), starts the first index
pass and the watcher (server state -> watcher -> orchestrator -> store), and
tears all of it down in the opposite order.  `PROJECT.json` lists every
component with its status and, under `hazards`, each thing in this code that is
hard to test, at its line.

## 2. Modules

| module | models | stands on |
|---|---|---|
| `IndexWriter` | abstract: connections to one index, one process at a time | |
| `DaemonLock` | RunAsDaemon, lock.go, Start's socket steps, cleanupArtifacts, db.Open/Close, for several processes and crashes | implements `IndexWriter` |
| `DaemonServer` | one daemon from Start to exit: every goroutine of server.go | abstracts the system calls `DaemonLock` details |
| `Watcher` | watcher.go, IndexChanges, the cleanup of OpenServerState | |
| `IndexLifecycle` | backgroundIndexAndWatch of one root, IndexAll, RebuildAll, IndexChanges, prune, worker pool, meta.go, from start to start | takes the watcher (`Watcher`) as a source of batches |
| `IndexGraph` | index_writer.go, ReplaceFileIndex, ClearFile, ParkInboundRefsForFile, unresolved_refs, resolver.go: call and import edges through passes | the passes `IndexLifecycle` and `Watcher` schedule |
| `Client` | EnsureAndDial, SpawnDetached, KillStaleDaemon, the invisible-holder cleanup, direct mode: clients among daemons that start, hang, die and reuse pids | contracts `DaemonLock` into one step per phase |
| `ProjectCache` | resolveProject, releaseProject, closeProjectCache, the handles of additional workdirs | implements `IndexWriter` for each root |
| `MigrationState`, `Migration` | the database as Open sees it and what Open promises of it; db.Open behind the flock: recoverEdgesRebuild, schema.sql, ensureSchema, FTS | the exclusion of `IndexWriter` |
| `Synthesis` | SynthesizeAll, its seven passes, ReplaceSynthesizedEdges, and how made edges and stated ones share a table | the pass of `IndexGraph` |
| `GlobRules` | one exclude rule in the walker and in ripgrep | |
| `Workspace` | LoadConfig's workdirs, skip rules, globs, the climb to `.codegraph`, the project of a tool call | |
| `Sessions` | what Workspace must answer for each kind of input, and which inputs there are | `Workspace` |
| `GraphTools`, `Explore` | callers, callees, impact, affected tests; explore's choice, flow and packing | |
| `GraphAnswers` | what GraphTools and Explore must answer about each kind of input, and which inputs the store can hold | `GraphTools`, `Explore`, `Sessions` |
| `ImportPaths` | ResolveImportPath for Rust, Go, TypeScript/JavaScript, Python | |
| `DaemonLock_proofs`, `DaemonServer_proofs`, `IndexGraph_proofs`, `IndexLifecycle_proofs`, `Watcher_proofs`, `EdgesTable_proofs` (of `Migration` and `Synthesis`), `Projects_proofs` (of `ProjectCache`, `Workspace` with `Sessions`, `ImportPaths`, `GraphTools` and `Explore` with `GraphAnswers`), `Client_proofs` | theorems | |
| `MC*` | instances for TLC; `MCAlgorithms` builds the inputs of the five algorithm modules step by step | |

### DaemonServer

One action per critical section of `d.mu`; what the code does outside the lock
is an action of its own (the read of `d.stopping` in armIdleTimer, `wg.Add` in
acceptLoop, the session-limit test in serveConn). A connection's `conn[c]` is
the program counter of its goroutine, `timer[t]` that of a timer callback,
`accept.at` that of the accept loop, `shut.at` the shutdown sequence and
`main` RunAsDaemon's goroutine. `clients`, `inFlight`, `conns`, `idleTimer`
and `wg` are the fields of the struct. A closed connection may dial again, so
there is no bound on how many sessions a behaviour has. Start is two steps: it
arms the idle timer before it counts and starts the accept loop
(server.go:171-174), and the timer may fire in between (`main = "track"`).

Fairness: every goroutine that can run runs; nothing is assumed of dialling,
of errors, signals or the workdir; a session is only assumed to return when its
connection was closed or its context cancelled, which is what the MCP transport
does.

### DaemonLock

One action per system call on the shared files: link, read, remove, bind,
rename, flock. `pc[p]` is RunAsDaemon's goroutine, `stop[p]` a shutdown that
runs beside it. A `Proc` is one incarnation of a daemon, so a restart is
another one; its `pid` is a name that others may get after it, another daemon or
one of the `strangers`. The code asks about pids only (IsProcessAlive), and so do
Judge and MayClear. A `Guest` takes the flock without being a daemon: the probe of
recovery.go, a direct session, a command-line pass. `Crash` may happen at any
point and drops the flock and the connections but no file. The reads that the
code makes twice (ClearStaleLock reads again what TryAcquireLock has read) are
separate steps with a local variable for what was seen. Open has its connection
from the first Exec on; an error after that closes it, and the deferred call
drops the flock (ConnFails, Unwind). `.codegraph` is not
replaced under the processes, so the directory-identity guard always lets a
removal through, except before Start recorded the identity.

Fairness (only for StaleFilesNeverBlock): a live process takes its next step.

### Watcher

Three goroutines: the event loop, the pass (at most one), the shutdown. Users
change files at any point; each system call of the pass is a step. A file is
abstracted to its content, and its rows to the content they were built from;
`Broken` contents are those the extractors may fail on, and the code keeps the
old rows for them. One directory is also moved in and out as a whole, which
gives one event and a tree walk or a DeleteTree. Time is abstracted:
`older` says which of two entries of `pending` has the older `since`, and any
set of entries may be ripe that has with an entry all older ones. `own` says which entries are still the
pointer the pass took (`cur == job.e` in the code). `excuse` is a history
variable: for each file, the reason the code accepts for a row that stays out
of date; Converged forbids all others.

Fairness: the loop, the ticker and the pass run; nothing is assumed of users.

### IndexLifecycle

One root over any number of program runs. `pc` is backgroundIndexAndWatch,
including the pass it calls; `pass` says which (`all`, `rebuild`, `changes`).
The worker pool is `jobs` and `held`: a worker reads a file in one step and
writes its rows in another, and any file may be next. Every operation that can
fail has a failing twin. A file is its content; a row is the content it was
extracted from and the revision of the extractor; the stored hash equals the
content, and stored size and mtime only matter as equal or not to the present
ones, the set `quiet` (an edit may leave a file in it, which is why the code has
a content gate). `Crash` loses everything but disk and database. `primary` is
fixed at the start: an additional workdir skips the git assist and gives up its
watcher when its pass fails. `failed` and `still` are history: the files whose
old rows were kept on purpose, and the files untouched since the walk.
Sizes, ignore rules and symbolic links, which decide what belongs to the index
at all, are left out.

Programs are only ever followed by the same or a newer revision: WipeIndex keeps
the stored revision, so an older program that starts after a newer one's failed
rebuild would find its own revision and trust the newer one's rows.

### IndexGraph

What one pass after the other does to the graph. A file's content is what the
extractor finds in it: definitions (`twice` are those it has more than once),
calls, imports. A node is its name and the file column of its row; database ids
are left out, and with them the only way an id can dangle: another worker
deletes an import target that was looked up outside the transaction, which is
the value `Dead` in the worker's `owner`.

| variable | code |
|---|---|
| `row` | rows of `files` and the symbol and file nodes, as the content they were built from |
| `modules` | module nodes, one per import spec |
| `imps`, `edges` | `edges` of kind imports, and of the kinds that are parked (calls, references, ...) |
| `ref` | `unresolved_refs` with status and attempts |
| `pass`, `job` | IndexAll or IndexChanges, its queue, and the worker of each file |
| `todo` | the batch of ResolveAll or ResolveForFiles |
| `half` | the fallback between its two writes |
| `cut`, `torn`, `erred` | history: sites whose target was deleted with its file; sites parked for a replacement that did not happen, or linked by a fallback that did not remove the reference; sites the pass met an error for |

A worker takes three steps, as the code has three places where the database
lock is released: `Link` (indexFile up to its writes), `ParkInboundRefsForFile`,
`ReplaceFileIndex` or its failure. A resolution takes one step per reference:
within a batch nothing a reference depends on changes, so that a batch of 500 in
one transaction and one reference per transaction lead to the same states. The
fallback for a batch that failed takes two, as UpsertEdge and DeleteUnresolvedRef
are transactions of their own, and an error or a crash may come between them.
Every look-up and write of a reference may fail: that costs it an attempt, and the
error of the look-up of its imports makes it be resolved as if there were none
(`resolveBlind`). Which files an import reaches and how
near two files are is given by constants (`Reaches`, `Nearness`), as
ResolveImportPath and filepath.Dir are functions of paths; a definition in the
caller's own file outranks one in its directory, and so on (`Score`). A call of
a name its own file defines twice is parked: the rule that links it when exactly
one definition contains the line is left out, as are qualified names, routes and
bridges, the ceiling of 80 candidates, and the synthesis of edges after the
resolution.

### Client

Processes are incarnations, numbered in the order of their start times, and a
pid is a name that a later one may get. `at[c]` is the program counter of one
client with the local variables it has there: the pid it read, the incarnation
its pidfd pins, what the spawn is waiting for. The daemons' side is contracted:
`boot`, `named` (pidfile), `bound` (socket), `serving` (flock), and the phases of
an exit that may hang in any of them. The dial, the half-dead check with its
startup grace, the kill with SIGTERM, grace and SIGKILL, the identity check
before each signal, the systemd-run wrapper with its window, the polling, the
/proc scan for invisible holders and the two ways into direct mode are steps.
Other clients are seen as spawns, deployments that remove files, and foreign
processes that take a freed pid.

The several /proc reads of one identity check are one step. A dial is two steps:
the connection, and the greeting that is read without a deadline (hello.go:57). A
legacy pidfile's record fails the check, as in the code.

Fairness (only for EveryCallEnds): a client takes its next step, and a poll that
is at its deadline again and again between two dials ends there (time passes).
Nothing is assumed of the daemons: none owes a greeting. A call to one that is up
and does not greet waits for ever, and EveryCallEnds has this for its exception
(`Waits`).

### ProjectCache

One step per hold of a mutex. resolveProject looks at ExtraDBs under one and at
the cache under another, and the background goroutine of an additional workdir
may come between. `handle` is what the cache has open, `refs` the count of the
entry, `pending` the entries evicted under use. After the shutdown has closed the
additional handles a call that used one releases it into the cache, which is the
code's `releaseProject` and harmless: `Owned` says to whom a handle belongs.

### Migration

One step per statement that commits on its own. A database may be new, of any
released build, or left by a crash in the old rebuild, which ran its statements
without a transaction: CREATE, INSERT, DROP, RENAME. `index` is the set of edges
that all of it stands for. Every statement may fail, and the process may die
between any two.

Fairness (only for OpensAtLast): an opener goes on, and after `MaxFaults` faults
there are no more.

### Synthesis

A text is what the extractor and the patterns of the seven passes find in a file:
registrars and dispatchers, event emitters and listeners, components, function
pointer tables, gin middleware, native bridges, routes of a controller directory. Passes
read nodes from the index and patterns from the files as they are now. An edge is the key of
its row and whether a pass made it, as the upsert sees it. `lent`, `robbed` and
`chained` are history: references parked from a made edge, stated edges that an
upsert took over, and whether a made edge registers a callback. The last is an
exception of SynthesizedCurrent: the pass of registered callbacks reads the calls
of a registrar from the table (synthesize.go:522), where the edges of the
previous run still are, so that a run after such an edge was made can offer
more than the one that made it. Ties between candidates are fixed by CHOOSE; where the code ranges over a
Go map, the choice is any. The caps of a pass are left out, but for the event
fan-out.

A run is index, resolution, scrub of noisy names and passes (`pass`), over the
files of a batch or over all. A file may be removed: ClearFile takes the edges
that lead into it and parks nothing (`cut`), and no run of the passes need follow
when the watcher calls it. A failed run is handed to a pass again only by the
watcher, and only within its retries; a read error inside a pass is not reported
and a smaller set replaces the old one (SynthesizePart). After either the made
edges may be out of date at rest (`late`), until a whole run. Such an error could
also bring an event below the fan-out cap or make a second choice of handler win,
which would offer an edge that the files do not: those two are left out, as are
later full passes and errors of the resolution (IndexGraph has these).

### GlobRules, Workspace, Sessions, GraphTools, Explore, ImportPaths

Operators with the names of the functions. GlobRules works on character codes,
because its subject is where a character stands: a rule is read by
filepath.Match and, rewritten by RgExcludeGlobs, by ripgrep's globs, and both
must match the same paths. filepath.Match reads a pattern in chunks between stars
and takes the first place where a chunk fits (`GoChunks`); ripgrep's globs try
them all (`Matches`). Workspace works on segments; Sessions says what must be true of its answers. GraphTools answers over a
set of nodes and edges, by the loops of the code as recursive functions, and is compared
with reachability and counting (GraphAnswers asks it of each input); Explore
is compared with what a reader of its answer is told: what it shows fits, what it
lists as left out was left out, and a flow is a path, as long as the calls allow. ImportPaths is compared
with a definition of each language's modules: which files the import statement
of a file means; Rust's ./ and ../ specifiers and the languages of other files
are left out. The references are beside the algorithms in the modules.

## 3. Runs

| run | checks | bounds |
|---|---|---|
| `daemon_server` | NoStrandedSession, the action properties CleanupAfterDrain, IdleStopSparesServed and WaitGroupNeverRevived, StopDrains, IdleDaemonStops | 2 connections (each may reconnect for ever), 2 timers, session limit 1, 2 permanent accept errors; 543,304 states |
| `daemon_lock` | single writer as a refinement, ServingOwnsIndex, CleanExitLeavesNothing | 3 daemons, 1 guest, 3 pids (no strangers), O_EXCL fallback, 2 attempts; 3,136,307 states up to symmetry |
| `daemon_start` | StaleFilesNeverBlock | 2 daemons, 1 guest, 2 pids, 1 stranger at a time, hard links, 2 socket candidates; 279,465 states |
| `client` | no pinned signal reaches another process than the daemon that was checked (PinnedIsDaemon), a pidfile is cleared only when its daemon is gone (ClearedIsDead), one spawn leaves one process (OneChild), every call ends that is not left waiting for a greeting (EveryCallEnds) | 1 client, 3 incarnations, 2 pids, 2 events; 1,248,676 states |
| `watcher` | convergence, resolution, overflow, use after close, termination | 2 files (one in the directory), 2 contents (one breaks), queue of 1, 2 attempts, 2 changes; 986,881 states |
| `index_lifecycle` | RevisionHonest, MarkedPassIsComplete, KeepsLiveFiles | 2 files, 2 contents, 2 program revisions, unbounded edits and restarts; 2,740,396 states up to symmetry |
| `index_graph` | SitesAccounted, EdgesMatchRows, ResolvedAtRest | 3 files (a caller, two libraries), 2 names (one noisy), 2 workers, 2 attempts, 2 edits, 1 crash; 6,491,832 states |
| `migration` | EdgesSurvive, OpenedIsCurrent, OpensAtLast | 2 edges, 3 faults, every start of old builds; 48,722 states |
| `synthesis` | SynthesizedCurrent, EdgesJustified, CallsKept | 5 files (2 may be missing), 2 edits, 1 failure or read error, 1 noisy name, fan-out cap 2; 848,836 states |
| `project_cache` | InUseIsOpen, NothingLeaks | 3 roots (1 an additional workdir), 3 calls, cache of 2, unbounded calls; 10,833 states up to symmetry |
| `algorithms` | RulesAgree, OneVisibility, SessionSeesItsTree, SelectorKept, GraphToolsExact, ExploreHonest, ImportsReachTheirTarget | rules of 3 characters and classes of 3 members over 12 characters, paths of 4 segments, 3 nodes with 3 edges, 2 import statements over trees of 8 files; 266,285 states |
| `accept_deadlock` | a comment of the code (EveryStopDrains), refuted; see `findings` in PROJECT.json | 1 connection |

Why the bounds are enough. Two connections and two timers are what any race in
server.go needs: one connection that ends while another is between Accept and
registration, one callback that runs late while its successor is armed; the
counters tell apart 0, 1 and more. A third daemon is needed to come between the
read and the removal of ClearStaleLock; a stranger, or a second daemon with the
pid of the first, is what makes a record of the dead look alive. For Client three incarnations are a daemon,
the process that gets its pid, and the daemon that was spawned; with two events a
daemon dies and a stranger takes its pid within one call. Two changes give a change before and one
during a pass, and a queue of one makes the second one overflow; the invariant
behind the theorems about Watcher was also explored with three changes (21.0
million states) without an error. With two attempts both
a failure that is retried and one that is dropped happen. In IndexLifecycle
nothing is counted, so contents, revisions and files are only told apart: two of
each give a stale and a fresh one. In IndexGraph three files are a caller and two
candidates, the least that has a tie, an import that breaks it, and a definition
that moves from one file to another; two edits change the tie after it was
resolved, and two attempts abandon a reference within the run. Nothing else
counts files, and the theorems below do not bound them. Two edges and three
faults interrupt a rebuild, its recovery and the recovery after that. In Synthesis
each file plays one part (emitter, listener, dispatcher, component, driver),
two edits change both ends of a made edge, and one text makes a made edge
register a callback. A cache of two with three roots evicts
in every order, and three calls hold more than it has room for. A rule of three
characters has every pair of special characters with something beside it; a
class is its own family, because its members need room, and has a star on either
side in one of its contexts; graphs of three nodes have every
cycle and every diamond up to the edge limit.

## 4. Proofs

`DaemonServer_proofs` proves, for any finite set of connections, any timers and
limits, every safety property of the `daemon_server` run. The counters alone
are not inductive: that cleanup comes last needs `Tracking` (wg is the number of
connection goroutines plus one while the accept loop lives), `Holding` (which
connection the accept loop holds, and at which phase) and `Order` (what each
phase of the shutdown has already made true), all with the timer that fires while
Start has not counted the accept loop for their exception. Cardinalities change by one per
step, by lemma `Move`.

`DaemonLock_proofs` proves the safety properties of `daemon_lock` for any
number of daemons, guests, socket candidates and attempts, with and without
hard links, the refinement of `IndexWriter` included. `Ownership` ties flock
and connections to program counters and does not mention the pidfile: the
pidfile protocol is not what keeps the index safe; a pid that is reused changes
nothing in it. `Artifacts` says which files
can name a daemon at each point of its life.

`IndexLifecycle_proofs` proves the three properties of the `index_lifecycle`
run for any files, contents and revisions; RevisionHonest under the assumption
that no older program follows a newer one, the other two without it. `Progress`
is the heart of it: while a pass has no error and no job was drained, each file
of its walk that nobody touched waits, is held with its present content, was
counted as failed, or is indexed. It needs `Seen` (what a worker holds of an
untouched file is what is on disk) and `Stages` (which pass can be where).
`Pure` extends RevisionHonest to the rebuild that is under way.

`IndexGraph_proofs` proves the two invariants and the action property of the
`index_graph` run, and LinkedOnce, for any files, names, contents, workers and
limits. At rest a call site is an edge or a
waiting reference; during a pass it may be both, and `Core` says exactly when:
the callers of a file wait from the moment it is parked until it is replaced
(`ParkedWait`), and nobody else is linked and waiting (`OnlyParkedWait`), except
in `torn` and between the two writes of a fallback (`half`). `JobsLink` says that what a worker holds links or parks every call it
has read, `Stages` that the resolver starts when no worker is left, so that a
reference it links has no edge yet (`ApplyStep`). There is one lemma per step.
ResolvedAtRest follows from `Tried`: while the resolver runs, a reference that the
pass promised to try, met no error for and no longer has in its batch has no target. The batch
begins with every promised reference whose name has a node (a name without one
cannot be chosen, `NoCandidate`), and nothing that a choice or the promise reads
changes until the pass ends (`SameChoice`, `SamePromise`).

`Watcher_proofs` proves the four safety properties of the `watcher` run for any
files, contents, queue, retry budget and number of changes. NoPassAfterClose has
an invariant of its own (`Shutdown`). Convergence is about what happens to a file
between two system calls of a pass, and its invariant `Live` says who still knows
that a file's rows are out of date (`Tracked`): an event in the kernel's queue or
a walk that will meet the file (`Heard`), an entry that the pass will leave
alone (`Waiting`), or the pass itself (`InWork`) -- and then what the pass saw of
the file is true or one of the first two makes up for it (`Fresh`). The hard case
is the directory that goes and comes back: a removal that is still pending must
not take the rows of a file that exists, which needs that events of the two come
in order (`BackAfterGone`), that the entry of the file is younger than the
directory's (`SurvivesTree`) and that a pass never takes the younger without the
older one (`TreeFirst`). `Owed` is the same account for the resolution pass that
a written file is due, and `Rescued` for an overflow. All of it holds while the
database is open (`Core`); it was first checked on the run with three changes
(21,049,487 states). The proof has one lemma per step; what users and the loop
do is carried by one (`Tidings`), for they change nothing the pass holds.

`EdgesTable_proofs` has the proofs of two components, as both rewrite the table
of edges. It extends Synthesis and MigrationState, and has the steps of Migration
as an INSTANCE, since both have an Init and a Next. Of Migration it proves that no edge is lost and that what Open hands out
is current, for any edges and any number of faults. EdgesSurvive is inductive with
the types and `Tables` (which keys a table can have). The other needs that what
an Open has done stays done: `Recovered`, `Created`, `Upgraded`, `Searchable` and
`Enforced` each say what holds behind a step of it, over the sets `After...` of
the places that follow. Of Synthesis it proves the three properties of the `synthesis` run for
any files, texts, nearness, fan-out cap, edits and failures. `Accounted` and
`Remembered` say that stated edges and references stand for the sites of the
indexed texts, and those for them, each with its exception (`lent`, `robbed`,
`cut`, noisy names);
they use that rows of one key stand for one site (`SameSite`), so that an upsert
never loses another site's edge. `Caught` needs that a run that adds and removes
no edge that registers a callback offers afterwards what it offered before
(`SynthesizeOffers`). This is where the exception was found: without `chained` the
step is not provable, and TLC found the counterexample as soon as an instance had
a text in which a made edge registers a callback.

`Client_proofs` proves the three safety properties of the `client` run for any
number of clients, pids, incarnations and events, with and without pidfds and
wrappers. `World` says that two live processes never share a pid. `Good` says
what a client's local variables mean: the pid it deals with is that of the
recorded and of the pinned incarnation, the two are one unless the recorded one
is dead, and past the check that follows pidfd_open a live pinned one is not foreign.
It is stated over an explicit state of the processes, so that one lemma
(`StaysGood`) carries it through whatever the daemons and the other clients do.

`Projects_proofs` is about what a session takes for its projects. It proves both
properties of the `project_cache` run for any
roots, any finite set of calls and any size of the cache. `Order` says that the
list names each cached root once, so that an eviction takes what is in the cache
and the list bounds it; `Counts` that an entry's count is the number of its users
(lemma `Move`: one call that moves changes one cardinality by one), which is what
makes refs = 0 a licence to close; `Apart` that no root has two handles at a
time, so that registering an additional workdir never meets an entry of the
cache (`NothingToDrop`) and a release is never charged to the wrong owner before
the shutdown. EachRootHasOneWriter is the refinement of `IndexWriter`, one
instance per root: cache, goroutine and other processes are its processes, and
`Alone` keeps at most one of them on the flock.

In the same module are the theorems about pure algorithms, each for every input.
Walker, ripgrep and git assist see the same directories
(SameVisibilityEverywhere): a directory is entered step by step, a glob hides
all below what it matches, and so a rule about the last segments of some step is
a glob that matches somewhere on the path; what the walker alone knows, the
GOPATH roots and the home mode, is where the definition of the model makes its
exception. EverySessionSees rests on `NearestIndex`: the bounded climb ends at
the deepest index between the start and the root. That list is not empty and
finite, but Max and Min are CHOOSEs, so that `MinIsLeast` and `MaxIsGreatest` are
proved first, from the well-foundedness of the natural numbers.
SelectorKeepsEveryPlace needs that what is taken off a path and what it is
appended to are the same segments. OneVisibilityHolds, SessionSeesItsTreeHolds and
SelectorKeptHolds state them for the variable of the `algorithms` run, under
`InputOK`, which is the type of an input and, for a session, that no configured
root lies in another. TLC found it true of all inputs that MCAlgorithms builds.
GoImportsExact, RelativeImportsExact and PythonImportsExact (a relative import of a
script has seven suffixes, and four for the index of a directory) say that an import
statement reaches exactly the files it means, for the languages whose resolution
does not recurse: the replacement that is taken is the longest that matches, and
adding suffixes to a name finds the modules of that name and no others. Their
premises (`GoTree`, `NamedFiles`) say that a module's name is a path and that a
file has a name and a suffix; the statement may not name the file that stands for
a directory (`index`, `__init__`) itself, which a reader of the language could
take either way.

GraphToolsExactHolds says that callers, callees, impact and the affected tests are
complete and exact for every index and every tree (`IsIndex`, `IsTree`: finite
sets of rows whose edges join rows), every question and every limit. What a loop
computes is an induction, and the induction theorems of the library cannot be
used; `Induct` gets it from the well-foundedness of the natural numbers, by the
least counterexample, and `Recursion` from it that a function given by its own
values exists and has them. Then each loop has an
invariant, as a state machine would. `Accounts`, of the rows of callers and
callees: what has been taken are the first distinct rows, and the answer says
there are more exactly when there are more than fit. `Searched`, of a level of the
affected files: the tests beside a marked file are marked, and what imports it is
marked or to come -- also if it is a test that was marked beside another file and is
never searched itself, because the two have one directory, so one package and the
same importers (`BesideSame`). Of the impact search, `Knows`: the queue
is in the order of distance and holds no node twice (`Ranked`), what waits is at its
exact distance (`Exact`), and the callers of all that was taken within the depth are
met and their files counted, so that all that is nearer than the head has been
met (`MetBelow`); a node enters the queue once, so that the search ends after as
many rounds as there are nodes. A query's order with ties is any order that respects
it (`OrderedLists`).

ExploreHonestHolds is about every index with sizes (`IsSized`) and every query
(`IsQuery`); TLC found these, `IsIndex` and `IsTree` true of all that MCAlgorithms
builds. The search for a flow is the search of impact once more, along the
steps that a flow may take (`Turned`), so that `Knows` carries it too: no two
unnamed symbols follow each other, which depends on a step's two ends only, since
a node waits with a streak of 0 exactly if it is named (`Streaks`). `FlowKnows`
adds what the flow needs: a node's parent is one step nearer to the seed, and the
deepest named symbol so far is as far as any that was taken. So the parents lead
back to the seed in as many steps as its distance, without a repetition
(`ChainExact`), and the flow of a query is as long as the farthest named symbol
of any seed is away (`LongestIsFlow`). For the packing, `Packed` is the invariant
of the loop over the files: shown and put-off ones are disjoint, each is there
once, together they are those that have had their turn unless the ceiling was
reached, a file of the spine is put off only at the limit on files, and without
one the answer keeps to its budget. Each file is one of three cases
(`AddFileDecides`).

All assume only the named ASSUMEs of the modules (the sets do not overlap with
the special values, the bounds are positive, the nodes of a text lie in its
file, skipped names are names and skipped runs not empty), which TLC evaluates in the runs.

Proved and not in the runs, where they held while the proofs were made: the type
invariants, the exact counters and the unarmed timer of DaemonServer, LinkedOnce
of IndexGraph.

Only model-checked: every liveness property (StopDrains, IdleDaemonStops,
StaleFilesNeverBlock, EveryCallEnds, ComesToRest, OpensAtLast), which the prover
cannot do, and two properties of `algorithms`. RulesAgree compares what two
RECURSIVE matchers of patterns compute, and such a module is out of the prover's
reach. Of ImportsReachTheirTarget the Go and the relative parts
are theorems; the Rust, alias and workspace parts walk module trees and globs
recursively. Every other property of a passing run is a theorem.

## 5. Divergences

What the code does otherwise than a comment says or a reader would expect. One is
kept as a run (`accept_deadlock`); the others were shown by TLC while the models were
written, and the models state them as an exception of a property or leave them
out of its scope.

Daemon and client:
- The idle timer is armed before Start counts the accept loop (server.go:171-173):
  one that fires in between begins a shutdown whose wait group is empty, cleans up
  while Start goes on, and sees the count raised after its Wait. Exceptions of
  CleanupAfterDrain and WaitGroupNeverRevived. The code has no least idle timeout.
- Whether a pidfile is stale is asked of the bare pid (server.go:670, lock.go:114): as
  long as a stranger has it, or the new daemon itself, a lone daemon yields.
  Exception of StaleFilesNeverBlock.
- A client reads the greeting without a deadline (hello.go:57, proxy.go:36-41), so
  its call hangs with a daemon that accepts and does not greet. Exception of
  EveryCallEnds.
- ClearStaleLock judges and removes by path: it can remove the pidfile of a daemon
  that wrote it in between (lock.go:102-119). The flock still keeps the index safe.
- KillStaleDaemon without pidfd signals by pid after ESRCH without a new check
  (lock.go:190-199); PinnedIsDaemon is about the pinned signals.
- The two guards of the recovery do not spare a healthy daemon in every timing: one that
  is slower to bind than the grace is killed.
- proxy.go says closing the listener unlinks the socket; server.go sets
  SetUnlinkOnClose(false).
- The cache can hold the flock of an additional workdir, whose watcher then never
  starts (server.go:74-77 against 490-520).

Index:
- An error of a reference's look-up or write counts as a failed attempt and can
  abandon a reference that has a target (resolver.go:57-70, 386-413); the fallback of
  a failed batch can leave a site linked and waiting (222-234). Exceptions of
  ResolvedAtRest and LinkedOnce.
- Made edges can stay out of date: nobody repeats a failed run of the passes after
  the full pass (orchestrator.go:418-420), or beyond the watcher's retries; errors
  of reads inside a pass are not reported (synthesize.go:267-298, 522-545); a file
  that the watcher clears is followed by no run. Exceptions of SynthesizedCurrent.
- The callers' edges of a file that is cleared are not parked (query_files.go:132),
  and noisy names without a symbol are scrubbed (noise.go). Exceptions of CallsKept
  and SitesAccounted.
- After a queue overflow, files removed in the meantime keep their rows until the
  next full pass (watcher.go:260-266).
- RebuildAll marks the revision although directories it could not read were
  skipped (orchestrator.go:143, 488; server.go:357).
- Import edges into a file are not rebuilt when that file is indexed after its
  importer (query_refs.go:39-42).
- A file that defines a name and imports a module of that name cannot be indexed
  again: its import's target is deleted with its own rows (index_writer.go:335-347).
- Parking takes made edges too, and they come back as stated ones (query_refs.go:154
  against query_edges.go:113-115); the upsert takes a stated edge over, which the
  next pass deletes with its own (query_edges.go:155).
- Running the synthesis again without a change is said to rebuild the same set
  (query_edges.go:113-114), but a made edge that registers a callback adds to
  what the next run finds (synthesize.go:522).

Algorithms:
- A rule with a class that may be a separator between two stars, `*[/a]*b` on a/b:
  filepath.Match takes the first place where the class fits and fails, the glob that
  ripgrep gets finds the other, although the comment there says "the two
  sides cannot drift" (rg_exclude.go:69-71). Exception of RulesAgree (`Drifts`): ripgrep may then leave out
  more than the walker, never less.
- git assist joins paths that are relative to the repository to the workdir
  (git_assist.go:70); they differ when the workdir is below the repository's root.
- The walker hides directories whose path below the workdir reads like a GOPATH
  root, and the top level of a home; the globs do not.
- With a home as workdir, path=myrepo/pkg selects the project and keeps `pkg`, but a
  project with a directory of its own name is read as the project.
- `-workdir` of a root that is already configured is not moved to the front
  (config.go:152-166). Nested configured roots exclude each other; SessionSeesItsTree
  is about roots that are not nested.
- affected counts the changed files as level one. The limits on rows of single
  queries, queries that fail (their error is read as no rows), the caps of 40 names
  and 1500 nodes (explore_flow.go:153, 193) and the final truncation of explore are
  outside the models. explore speaks of the longest flow and returns the shortest
  path to the farthest named symbol; it says "Complete source" also when bodies were
  trimmed, and after the hard ceiling the remaining files are not listed.
- Rust: `use std::...` and any unknown first segment reach the crate's own entry file, and a
  bare `super::*` or `self::*` too. Go: any replace that matches wins over a
  longer module path, and a nested go.mod is ignored when the workdir has one.
  A relative specifier is taken for the path of a file, not of a package.
  JavaScript: a workspace pattern that excludes ("!") is ignored, a glob without `**`
  looks at the last name only, so that p/*/q enters p/node_modules, and of the
  seven suffixes four are tried for an index. The caches of manifests are keyed
  by the root manifest's time.

## 6. Plan

Done: every module of section 2. Left, in this order:
1. the caches of parsed manifests in front of ImportPaths, with the trees changing
   under them;
2. the log ring of safelog and the ranking helpers of search/;
3. the extractors, as far as scope and containment of symbols are concerned
   (which definition encloses a call);
4. two clients in full at once, which a state space of the present kind does not
   leave room for in one run.

Proofs left: none of the safety properties of the state machines. The
algorithms that are still RECURSIVE operators (GlobRules, parts of ImportPaths)
would be rewritten with recursive functions, as GraphTools and Explore were.

## 7. Not modelled

Extraction of symbols from text by grammar and regular expression (the
languages' tables and the framework patterns are data more than control, and
their result is the content of the other models), rendering of tool
output, redaction and the log ring, the ranking helpers of search, resource
limits, the registry of running daemons, WAL checkpoints, the watchdog on the
parent process but for the stop it triggers, and the system-call hardening around
`.codegraph` (dirfd pinning and identity rechecks): it defends against a
directory that is replaced underneath, which DaemonLock excludes. `PROJECT.json` gives the status of each component.
