----------------------------- MODULE DaemonLock -----------------------------
(***************************************************************************)
(* Daemon processes of one project root that start, serve, stop and die    *)
(* while others do the same: the pidfile (internal/daemon/lock.go), the    *)
(* socket paths (Start and cleanupArtifacts in internal/daemon/server.go)  *)
(* and the flock on codegraph.lock (internal/db/connection.go).            *)
(*                                                                         *)
(* The three live in the file system, so every system call is a step and   *)
(* anything may happen between two.  A Proc is one incarnation of the      *)
(* daemon; a Guest is a process that takes the flock without being a       *)
(* daemon: a client's probe, a direct-mode session, a command-line pass.   *)
(* The pidfile holds a bare pid: the kernel gives the pid of a dead daemon *)
(* to a later one or to a process that has nothing to do with the program. *)
(* .codegraph is not replaced under the processes, so removeArtifact is    *)
(* os.Remove.                                                              *)
(***************************************************************************)
EXTENDS Integers, FiniteSets

CONSTANTS
    Proc, Guest,
    Pid,           \* process ids
    NoProc,        \* "nobody": a file that does not exist, a free lock, no pid
    Corrupt,       \* what DecodeLock makes of a half-written pidfile
    NumPaths,      \* number of socket candidates (1 or 2 in the code)
    MaxAttempts,   \* RunAsDaemon: maxAttempts (8 in the code)
    MaxStrangers,  \* bound on the strangers that live at a time
    HardLinks      \* whether the file system has hard links

ASSUME ProcAssumption ==
    /\ Proc \cap Guest = {}
    /\ NoProc \notin Proc \cup Guest \cup Pid
    /\ Corrupt \notin Proc \cup {NoProc}
ASSUME NumAssumption ==
    /\ NumPaths \in Nat \ {0}
    /\ MaxAttempts \in Nat \ {0}
    /\ MaxStrangers \in Nat
    /\ HardLinks \in BOOLEAN

VARIABLES
    pidfile,   \* who created the pidfile, and whether its content is there
    sock,      \* per candidate path: whose socket the path leads to
    flock,     \* who holds the exclusive flock
    open,      \* the processes with an open SQLite connection
    pc,        \* per daemon: where RunAsDaemon's goroutine is
    stop,      \* per daemon: how far the shutdown's cleanupArtifacts is
    existing,  \* per daemon: AcquireResult.Existing
    seen,      \* per daemon: the pidfile as its last ReadFile returned it
    attempt,   \* per daemon: the loop counter of RunAsDaemon
    path,      \* per daemon: index of the socket candidate it is at or bound
    guest,     \* per guest: how far its db.Open, Close or probe is
    pid,       \* per daemon: the pid it has or had
    strangers  \* pids of live processes that are no daemon of this project

files  == <<pidfile, sock>>
index  == <<flock, open>>
locals == <<existing, seen, attempt>>
pids   == <<pid, strangers>>
vars == <<files, index, pc, stop, locals, path, guest, pids>>

Acquiring == {"link", "write", "existing", "judge", "read", "clear", "remove",
              "reread", "clearAgain", "removeAgain", "retry"}
Binding   == {"start", "unlink", "bind", "chmod", "rewrite"}
Opening   == {"ready", "opening", "opened", "unwind"}
Up        == Opening \cup {"wait", "failed", "stopping"}
Leaving   == {"closing", "unlock"}
Final     == {"exit", "yielded", "gaveUp", "error", "dead"}
Phase     == {"off"} \cup Acquiring \cup Binding \cup Up \cup Leaving \cup Final
StopPhase == {"none", "readPid", "rmPid", "rmSock", "done"}
GuestPhase == {"off", "probe", "held", "open", "closing"}

Alive(p) == pc[p] \notin Final \cup {"off"}

\* IsProcessAlive: kill(pid, 0), which says nothing of who has the pid.
PidAlive(n) == n \in strangers \/ \E q \in Proc : Alive(q) /\ pid[q] = n
NoFile   == [by |-> NoProc, written |-> FALSE]

\* What a reader of the pidfile gets: ENOENT, a record, or no record.
Content == IF pidfile.by = NoProc THEN NoProc
           ELSE IF pidfile.written THEN pidfile.by ELSE Corrupt

Init ==
    /\ pidfile = NoFile /\ sock = [i \in 1 .. NumPaths |-> NoProc]
    /\ flock = NoProc /\ open = {}
    /\ pc = [p \in Proc |-> "off"]
    /\ stop = [p \in Proc |-> "none"]
    /\ existing = [p \in Proc |-> NoProc]
    /\ seen = [p \in Proc |-> NoProc]
    /\ attempt = [p \in Proc |-> 0]
    /\ path = [p \in Proc |-> 1]
    /\ guest = [g \in Guest |-> "off"]
    /\ pid = [p \in Proc |-> NoProc] /\ strangers = {}

GoTo(p, phase)   == pc' = [pc EXCEPT ![p] = phase]
StopTo(p, phase) == stop' = [stop EXCEPT ![p] = phase]

(***************************************************************************)
(* TryAcquireLock and the loop of RunAsDaemon around it.                   *)
(***************************************************************************)
Launch(p) ==
    /\ pc[p] = "off" /\ GoTo(p, "link")
    /\ \E n \in Pid : ~PidAlive(n) /\ pid' = [pid EXCEPT ![p] = n]
    /\ UNCHANGED <<files, index, stop, locals, path, guest, strangers>>

\* os.Link of a finished record, or O_EXCL creation of an empty file.
TryLink(p) ==
    /\ pc[p] = "link"
    /\ IF pidfile.by = NoProc
       THEN /\ pidfile' = [by |-> p, written |-> HardLinks]
            /\ GoTo(p, IF HardLinks THEN "start" ELSE "write")
       ELSE GoTo(p, "existing") /\ UNCHANGED pidfile
    /\ UNCHANGED <<sock, index, stop, locals, path, guest, pids>>

\* The record goes to the file p created, unlinked or not.
WriteRecord(p) ==
    /\ pc[p] = "write" /\ GoTo(p, "start")
    /\ pidfile' = IF pidfile.by = p THEN [pidfile EXCEPT !.written = TRUE] ELSE pidfile
    /\ UNCHANGED <<sock, index, stop, locals, path, guest, pids>>

ReadExisting(p) ==
    /\ pc[p] = "existing" /\ GoTo(p, "judge")
    /\ existing' = [existing EXCEPT ![p] = IF Content \in Proc THEN Content ELSE NoProc]
    /\ UNCHANGED <<files, index, stop, seen, attempt, path, guest, pids>>

M_Judge(p) ==
    /\ pc[p] = "judge"
    /\ GoTo(p, IF existing[p] # NoProc THEN "yielded" ELSE "read")
    /\ UNCHANGED <<files, index, stop, locals, path, guest, pids>>

\* A holder whose pid is in use makes the process exit.
Judge(p) ==
    /\ pc[p] = "judge"
    /\ GoTo(p, IF existing[p] # NoProc /\ PidAlive(pid[existing[p]])
               THEN "yielded" ELSE "read")
    /\ UNCHANGED <<files, index, stop, locals, path, guest, pids>>

(***************************************************************************)
(* ClearStaleLock(path, expected): the file is read, the pid in it asked   *)
(* for, and the path removed, whatever it names by then.  It is called     *)
(* with 0 and then, if a record was read, with that record's pid.          *)
(***************************************************************************)
ReadStale(p) ==
    /\ \/ pc[p] = "read" /\ GoTo(p, "clear")
       \/ pc[p] = "reread" /\ GoTo(p, "clearAgain")
    /\ seen' = [seen EXCEPT ![p] = Content]
    /\ UNCHANGED <<files, index, stop, existing, attempt, path, guest, pids>>

\* Nothing to do when the file was gone; a file without a record is removed,
\* one with a record if its pid is free.
MayClear(p, expected) ==
    /\ seen[p] # NoProc
    /\ seen[p] \in Proc => /\ expected = NoProc \/ pid[expected] = pid[seen[p]]
                           /\ ~PidAlive(pid[seen[p]])

AfterClear(p) == IF existing[p] # NoProc THEN "reread" ELSE "retry"

ClearStaleLock(p) ==
    /\ \/ pc[p] = "clear" /\ GoTo(p, IF MayClear(p, NoProc) THEN "remove" ELSE AfterClear(p))
       \/ /\ pc[p] = "clearAgain"
          /\ GoTo(p, IF MayClear(p, existing[p]) THEN "removeAgain" ELSE "retry")
    /\ UNCHANGED <<files, index, stop, locals, path, guest, pids>>

RemoveStale(p) ==
    /\ \/ pc[p] = "remove" /\ GoTo(p, AfterClear(p))
       \/ pc[p] = "removeAgain" /\ GoTo(p, "retry")
    /\ pidfile' = NoFile
    /\ UNCHANGED <<sock, index, stop, locals, path, guest, pids>>

Retry(p) ==
    /\ pc[p] = "retry"
    /\ attempt' = [attempt EXCEPT ![p] = @ + 1]
    /\ GoTo(p, IF attempt'[p] < MaxAttempts THEN "link" ELSE "gaveUp")
    /\ existing' = [existing EXCEPT ![p] = NoProc]
    /\ seen' = [seen EXCEPT ![p] = NoProc]
    /\ UNCHANGED <<files, index, stop, path, guest, pids>>

(***************************************************************************)
(* Start.                                                                  *)
(***************************************************************************)
\* cgdir.Ensure; on failure the guarded removal refuses and the pidfile stays.
StartEnsure(p) ==
    /\ pc[p] = "start"
    /\ GoTo(p, "unlink") \/ GoTo(p, "error")
    /\ UNCHANGED <<files, index, stop, locals, path, guest, pids>>

UnlinkSocket(p) ==
    /\ pc[p] = "unlink" /\ sock' = [sock EXCEPT ![path[p]] = NoProc] /\ GoTo(p, "bind")
    /\ UNCHANGED <<pidfile, index, stop, locals, path, guest, pids>>

\* Start returned an error: RunAsDaemon removes the pidfile, whoever it names.
StartFails(p) == GoTo(p, "error") /\ pidfile' = NoFile

Bind(p) ==
    /\ pc[p] = "bind" /\ sock[path[p]] = NoProc
    /\ sock' = [sock EXCEPT ![path[p]] = p] /\ GoTo(p, "chmod")
    /\ UNCHANGED <<pidfile, index, stop, locals, path, guest, pids>>

\* EADDRINUSE ends the search, another error moves on to the next candidate.
BindFails(p) ==
    /\ pc[p] = "bind"
    /\ \/ sock[path[p]] # NoProc /\ StartFails(p) /\ UNCHANGED path
       \/ path[p] = NumPaths /\ StartFails(p) /\ UNCHANGED path
       \/ /\ path[p] < NumPaths /\ path' = [path EXCEPT ![p] = @ + 1]
          /\ GoTo(p, "unlink") /\ UNCHANGED pidfile
    /\ UNCHANGED <<sock, index, stop, locals, guest, pids>>

Chmod(p) ==
    /\ pc[p] = "chmod" /\ GoTo(p, IF path[p] = 1 THEN "ready" ELSE "rewrite")
    /\ UNCHANGED <<files, index, stop, locals, path, guest, pids>>

ChmodFails(p) ==
    /\ pc[p] = "chmod" /\ StartFails(p)
    /\ sock' = [sock EXCEPT ![path[p]] = NoProc]
    /\ UNCHANGED <<index, stop, locals, path, guest, pids>>

\* RewriteLock renames a new record over the pidfile, whoever it names; its
\* error is only logged.
RewriteLock(p) ==
    /\ pc[p] = "rewrite" /\ GoTo(p, "ready")
    /\ pidfile' \in {pidfile, [by |-> p, written |-> TRUE]}
    /\ UNCHANGED <<sock, index, stop, locals, path, guest, pids>>

(***************************************************************************)
(* onReady: db.Open.  LOCK_EX | LOCK_NB first, the connection after it.    *)
(***************************************************************************)
TakeFlock(p) ==
    /\ pc[p] = "ready" /\ flock = NoProc /\ flock' = p /\ GoTo(p, "opening")
    /\ UNCHANGED <<files, open, stop, locals, path, guest, pids>>

M_OpenRefused(p) ==
    /\ pc[p] = "ready" /\ flock # NoProc /\ GoTo(p, "wait")
    /\ UNCHANGED <<files, index, stop, locals, path, guest, pids>>

\* ErrIndexInUse.
OpenRefused(p) ==
    /\ pc[p] = "ready" /\ flock # NoProc /\ GoTo(p, "failed")
    /\ UNCHANGED <<files, index, stop, locals, path, guest, pids>>

\* Nothing is open yet: cgdir.Ensure, pinDir and openLockFile before the
\* flock, recheckDir and pinnedDBPath under it, which the deferred call drops.
OpenFails(p) ==
    /\ pc[p] \in {"ready", "opening"} /\ GoTo(p, "failed")
    /\ flock' = IF flock = p THEN NoProc ELSE flock
    /\ UNCHANGED <<files, open, stop, locals, path, guest, pids>>

\* sql.Open and the first Exec; the pragmas, the recovery of the edges and the
\* schema follow on the open connection.
OpenConn(p) ==
    /\ pc[p] = "opening" /\ open' = open \cup {p} /\ GoTo(p, "opened")
    /\ UNCHANGED <<files, flock, stop, locals, path, guest, pids>>

OpenDone(p) ==
    /\ pc[p] = "opened" /\ GoTo(p, "wait")
    /\ UNCHANGED <<files, index, stop, locals, path, guest, pids>>

M_ConnFails(p) ==
    /\ pc[p] = "opened" /\ flock' = NoProc /\ GoTo(p, "unwind")
    /\ UNCHANGED <<files, open, stop, locals, path, guest, pids>>

\* One of them fails: conn.Close(), and the flock after it, in the deferred
\* call.
ConnFails(p) ==
    /\ pc[p] = "opened" /\ open' = open \ {p} /\ GoTo(p, "unwind")
    /\ UNCHANGED <<files, flock, stop, locals, path, guest, pids>>

Unwind(p) ==
    /\ pc[p] = "unwind" /\ flock' = NoProc /\ GoTo(p, "failed")
    /\ UNCHANGED <<files, open, stop, locals, path, guest, pids>>

(***************************************************************************)
(* Shutdown.  The idle timer, the watchdog and (once p waits) a signal may *)
(* start it at any time after Start; DaemonServer models what comes before *)
(* cleanupArtifacts.                                                       *)
(***************************************************************************)
Stop(p) ==
    /\ pc[p] \in Opening \cup {"wait", "failed"} /\ stop[p] = "none" /\ StopTo(p, "readPid")
    /\ UNCHANGED <<files, index, pc, locals, path, guest, pids>>

\* d.Stop("onReady failed"): at once back if a shutdown is already running,
\* and the process exits with whatever that shutdown has left to do.
StopOnReadyFailed(p) ==
    /\ pc[p] = "failed"
    /\ IF stop[p] = "none" THEN GoTo(p, "stopping") /\ StopTo(p, "readPid")
                           ELSE GoTo(p, "error") /\ UNCHANGED stop
    /\ UNCHANGED <<files, index, locals, path, guest, pids>>

M_CleanupReadPid(p) ==
    /\ Alive(p) /\ stop[p] = "readPid"
    /\ StopTo(p, IF Content \in Proc /\ pid[Content] # pid[p] THEN "rmPid" ELSE "rmSock")
    /\ UNCHANGED <<files, index, pc, locals, path, guest, pids>>

\* cleanupArtifacts: the pidfile is read, removed if it holds p's pid, and the
\* socket path is removed whoever it leads to.
CleanupReadPid(p) ==
    /\ Alive(p) /\ stop[p] = "readPid"
    /\ StopTo(p, IF Content \in Proc /\ pid[Content] = pid[p] THEN "rmPid" ELSE "rmSock")
    /\ UNCHANGED <<files, index, pc, locals, path, guest, pids>>

CleanupRemovePid(p) ==
    /\ Alive(p) /\ stop[p] = "rmPid" /\ pidfile' = NoFile /\ StopTo(p, "rmSock")
    /\ UNCHANGED <<sock, index, pc, locals, path, guest, pids>>

CleanupRemoveSock(p) ==
    /\ Alive(p) /\ stop[p] = "rmSock" /\ StopTo(p, "done")
    /\ sock' = [sock EXCEPT ![path[p]] = NoProc]
    /\ UNCHANGED <<pidfile, index, pc, locals, path, guest, pids>>

\* d.Wait returns: RunDaemonProcess closes the database and exits.
AfterWait(p) ==
    /\ stop[p] = "done"
    /\ \/ pc[p] = "wait" /\ GoTo(p, "closing")
       \/ pc[p] = "stopping" /\ GoTo(p, "error")
    /\ UNCHANGED <<files, index, stop, locals, path, guest, pids>>

\* DB.Close: the connection, then the flock.
CloseConn(p) ==
    /\ pc[p] = "closing" /\ open' = open \ {p} /\ GoTo(p, "unlock")
    /\ UNCHANGED <<files, flock, stop, locals, path, guest, pids>>

Unlock(p) ==
    /\ pc[p] = "unlock" /\ flock' = NoProc /\ GoTo(p, "exit")
    /\ UNCHANGED <<files, open, stop, locals, path, guest, pids>>

\* SIGKILL, a panic, power loss: the kernel drops the flock and the
\* connections; the files stay.
Crash(p) ==
    /\ Alive(p) /\ GoTo(p, "dead")
    /\ flock' = IF flock = p THEN NoProc ELSE flock
    /\ open' = open \ {p}
    /\ UNCHANGED <<files, stop, locals, path, guest, pids>>

(***************************************************************************)
(* Guests: invisibleHolderHoldsLock only takes and releases the flock (a   *)
(* probe); direct sessions, checkDirectFallbackSafe and the commands Open  *)
(* and Close the database.                                                 *)
(***************************************************************************)
GuestTo(g, phase) == guest' = [guest EXCEPT ![g] = phase]

GuestLock(g) ==
    /\ guest[g] = "off" /\ flock = NoProc /\ flock' = g
    /\ GuestTo(g, "probe") \/ GuestTo(g, "held")
    /\ UNCHANGED <<files, open, pc, stop, locals, path, pids>>

GuestOpen(g) ==
    /\ guest[g] = "held" /\ open' = open \cup {g} /\ GuestTo(g, "open")
    /\ UNCHANGED <<files, flock, pc, stop, locals, path, pids>>

GuestClose(g) ==
    /\ guest[g] = "open" /\ open' = open \ {g} /\ GuestTo(g, "closing")
    /\ UNCHANGED <<files, flock, pc, stop, locals, path, pids>>

\* The end of a probe, of a failed Open, of Close; or of the process.
GuestUnlock(g) ==
    /\ guest[g] # "off" /\ flock' = NoProc /\ open' = open \ {g} /\ GuestTo(g, "off")
    /\ UNCHANGED <<files, pc, stop, locals, path, pids>>

(***************************************************************************)
(* The kernel gives free pids to other programs.                           *)
(***************************************************************************)
StrangerBorn(n) ==
    /\ ~PidAlive(n) /\ Cardinality(strangers) < MaxStrangers
    /\ strangers' = strangers \cup {n}
    /\ UNCHANGED <<files, index, pc, stop, locals, path, guest, pid>>

StrangerDies(n) ==
    /\ n \in strangers /\ strangers' = strangers \ {n}
    /\ UNCHANGED <<files, index, pc, stop, locals, path, guest, pid>>

-----------------------------------------------------------------------------
Acquire(p) == \/ TryLink(p) \/ WriteRecord(p) \/ ReadExisting(p) \/ Judge(p)
              \/ ReadStale(p) \/ ClearStaleLock(p) \/ RemoveStale(p) \/ Retry(p)
Bring(p)   == \/ StartEnsure(p) \/ UnlinkSocket(p) \/ Bind(p) \/ BindFails(p)
              \/ Chmod(p) \/ ChmodFails(p) \/ RewriteLock(p)
OpenIndex(p) == \/ TakeFlock(p) \/ OpenRefused(p) \/ OpenFails(p) \/ OpenConn(p)
                \/ OpenDone(p) \/ ConnFails(p) \/ Unwind(p)
Leave(p)   == \/ StopOnReadyFailed(p) \/ CleanupReadPid(p) \/ CleanupRemovePid(p)
              \/ CleanupRemoveSock(p) \/ AfterWait(p) \/ CloseConn(p) \/ Unlock(p)
GuestStep(g) == GuestLock(g) \/ GuestOpen(g) \/ GuestClose(g) \/ GuestUnlock(g)

Step(p) == Acquire(p) \/ Bring(p) \/ OpenIndex(p) \/ Leave(p)
Next ==
    \/ \E p \in Proc : Launch(p) \/ Step(p) \/ Stop(p) \/ Crash(p)
    \/ \E g \in Guest : GuestStep(g)
    \/ \E n \in Pid : StrangerBorn(n) \/ StrangerDies(n)

\* A live process takes its next step, whatever the others do; nothing makes
\* anyone launch, stop or crash.
Fairness == \A p \in Proc : WF_vars(Step(p))

Spec == Init /\ [][Next]_vars
FairSpec == Spec /\ Fairness

-----------------------------------------------------------------------------
TypeOK ==
    /\ pidfile \in [by : Proc \cup {NoProc}, written : BOOLEAN]
    /\ sock \in [1 .. NumPaths -> Proc \cup {NoProc}]
    /\ flock \in Proc \cup Guest \cup {NoProc}
    /\ open \subseteq Proc \cup Guest
    /\ pc \in [Proc -> Phase] /\ stop \in [Proc -> StopPhase]
    /\ existing \in [Proc -> Proc \cup {NoProc}]
    /\ seen \in [Proc -> Proc \cup {NoProc, Corrupt}]
    /\ attempt \in [Proc -> 0 .. MaxAttempts]
    /\ path \in [Proc -> 1 .. NumPaths]
    /\ guest \in [Guest -> GuestPhase]
    /\ pid \in [Proc -> Pid \cup {NoProc}] /\ strangers \subseteq Pid

\* Whatever the pidfile protocol lets through, the index has one writer:
\* every connection is opened under the flock and closed before its release,
\* by Close and by an Open that fails with the connection open
\* (connection.go:88-110, 137-224, 252-275).
Writer == INSTANCE IndexWriter WITH Process <- Proc \cup Guest, writers <- open
ImplementsIndexWriter == Writer!Spec

\* A daemon past onReady owns the index until its artifacts are removed: no
\* DB-less daemon keeps the lock and the socket (server.go:640-655).
ServingOwnsIndex ==
    \A p \in Proc : pc[p] = "wait" => p \in open /\ flock = p

\* A daemon that stopped cleanly leaves neither a pidfile nor a socket of its
\* own behind, whatever was removed, replaced or relocated in its lifetime
\* (server.go:540-551).
CleanExitLeavesNothing ==
    \A p \in Proc : pc[p] = "exit" =>
        /\ pidfile.by # p
        /\ \A i \in 1 .. NumPaths : sock[i] # p

\* Files left by dead daemons do not keep a new one out: one that tries with
\* nobody else around, and with an attempt left after it has cleared them,
\* neither yields nor gives up, unless the pid in a dead daemon's pidfile is in
\* use again, by a stranger or by the new daemon itself (server.go:623-688,
\* lock.go:104-122, 578).
Alone(p) == /\ \A q \in Proc \ {p} : ~Alive(q)
            /\ \A g \in Guest : guest[g] = "off"
Recycled == Content \in Proc /\ ~Alive(Content) /\ PidAlive(pid[Content])
StaleFilesNeverBlock ==
    \A p \in Proc :
        (pc[p] = "link" /\ attempt[p] + 1 < MaxAttempts /\ Alone(p)) ~>
            (pc[p] \in {"wait", "error", "dead"} \/ ~Alone(p) \/ Recycled)
=============================================================================
