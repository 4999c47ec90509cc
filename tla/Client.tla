------------------------------- MODULE Client -------------------------------
(***************************************************************************)
(* The foreground process of codegraph-go: it dials the project's daemon,  *)
(* replaces one that is stale, half-dead or invisible, spawns a new one,   *)
(* and falls back to direct mode (EnsureAndDial in internal/daemon/        *)
(* proxy.go, SpawnDetached in spawn.go, KillStaleDaemon in lock.go, the    *)
(* invisible-holder cleanup in recovery.go, pidfd.go, and main.go).        *)
(*                                                                         *)
(* Processes are incarnations 1, 2, ... in the order of their start times: *)
(* the number is what /proc/<pid>/stat gives as the start time.  A pid is  *)
(* a name that a later incarnation may get once the earlier one is dead,   *)
(* so a pid that was read, checked or stored may name another process at   *)
(* the next step.  A daemon's own protocol (DaemonLock) appears here with  *)
(* one step for claiming the pidfile and one for each later phase.         *)
(***************************************************************************)
EXTENDS Integers, FiniteSets

CONSTANTS
    Conn,        \* the foreground clients modelled in full
    Other,       \* any other one, of which only spawns and locks are seen
    Pid,         \* the pids in use
    MaxProc,     \* bound: incarnations that exist over time
    MaxEvents,   \* bound: crashes, deployments, foreign processes, others' spawns
    Pidfd,       \* whether pidfd_open is available
    Scope        \* whether a CPU quota makes the spawn go through systemd-run

ASSUME ClientAssumption ==
    /\ MaxProc \in Nat \ {0} /\ MaxEvents \in Nat
    /\ Pidfd \in BOOLEAN /\ Scope \in BOOLEAN
    /\ Conn \cap (0 .. MaxProc) = {} /\ Other \notin Conn \cup (0 .. MaxProc)
    /\ 0 \notin Pid

Inc  == 1 .. MaxProc
Inc0 == 0 .. MaxProc      \* 0: nobody

VARIABLES
    born, pidOf, kind, phase, sig, exit,   \* the processes
    pidfile,   \* whom it names, and how its record reads
    sock,      \* whose socket answers at the path, 0 for nobody's
    flock,     \* who holds the index
    events,
    at         \* per client: where it is, with the local variables it has there

procs == <<born, pidOf, kind, phase, sig, exit>>
files == <<pidfile, sock>>
world == <<procs, files, flock, events>>
vars  == <<world, at>>

Kind    == {"ours", "old", "foreign"}
Phase   == {"unborn", "scope", "boot", "named", "bound", "serving", "stopping", "closing", "dead"}
Record  == {"none", "corrupt", "legacy", "fresh", "aged"}
NoFile  == [by |-> 0, record |-> "none"]
Loop    == {"dial", "halfDead", "read", "spawn", "window", "poll"}
Ending  == {"verify", "open", "check", "term", "wait", "recheck", "kill", "waitKill", "clear"}
Recover == {"probe", "probing", "scan", "grace", "next", "freed"}
Direct  == {"fallback", "tryOpen", "tried", "runDirect", "direct"}
Ended   == {"done", "failed"}
Place   == {"off"} \cup Loop \cup Ending \cup Recover \cup Direct \cup {"proxy", "drain"} \cup Ended

\* The local variables of EnsureAndDial and of the functions it calls; those
\* that are out of scope at a place have the value given here.
Locals(place) ==
    [pc |-> place,
     peer |-> 0,         \* whose greeting it waits for, 0 for nobody's
     mode |-> "stale",   \* which kind of termination is under way
     rec |-> 0,          \* the incarnation recorded in the pidfile that was read
     tgt |-> 0,          \* the pid being dealt with
     pin |-> 0,          \* the incarnation the pidfd refers to, 0 for none
     todo |-> {},        \* pids matched by the /proc scan and not yet handled
     killed |-> FALSE,   \* whether that pass has terminated a holder
     again |-> FALSE,    \* whether this is the second spawn
     kids |-> {}]        \* what SpawnDetached has started

Alive(i) == phase[i] \notin {"unborn", "dead"}
\* IsProcessAlive(p), and the process that a pid names: 0 when none.
Running(p) == {i \in Inc : Alive(i) /\ pidOf[i] = p}
Holder(p)  == IF Running(p) = {} THEN 0 ELSE CHOOSE i \in Running(p) : TRUE
PidAlive(p) == Running(p) # {}

\* The command line has -workdir <root> and the environment the daemon
\* marker, or the binary is this one.  A systemd-run wrapper carries both as
\* well, but never argv[0] of the program (isCodegraphCmdline).
IsDaemon(i) == i \in Inc /\ Alive(i) /\ kind[i] # "foreign"

Names == pidfile.record \in {"legacy", "fresh", "aged"}
NamesLive == Names /\ PidAlive(pidOf[pidfile.by])

\* A process that accepts connections, and greets them unless it hangs.
Greets(i) == i \in Inc /\ phase[i] \in {"bound", "serving"}
Answered  == sock # 0

Init ==
    /\ born = 1 /\ pidOf \in {[i \in Inc |-> p] : p \in Pid}
    /\ \E k \in {"ours", "old"} : kind = [i \in Inc |-> IF i = 1 THEN k ELSE "ours"]
    /\ sig = [i \in Inc |-> "none"] /\ exit = [i \in Inc |-> 0]
    /\ \E first \in {"serving", "stopping", "dead"} :
          /\ phase = [i \in Inc |-> IF i = 1 THEN first ELSE "unborn"]
          /\ flock = IF first = "dead" THEN 0 ELSE 1
          /\ pidfile \in {NoFile} \cup {[by |-> 1, record |-> r] :
                                          r \in {"aged", "legacy"} \cup
                                                (IF first = "dead" THEN {"corrupt"} ELSE {})}
    /\ sock = IF pidfile # NoFile /\ Greets(1) THEN 1 ELSE 0
    /\ events = 0
    /\ at = [c \in Conn |-> Locals("off")]

\* A new process: any pid that no live process has.
Born(k, first) ==
    /\ born < MaxProc /\ born' = born + 1
    /\ \E p \in {q \in Pid : ~PidAlive(q)} : pidOf' = [pidOf EXCEPT ![born + 1] = p]
    /\ kind' = [kind EXCEPT ![born + 1] = k]
    /\ phase' = [phase EXCEPT ![born + 1] = first]
    /\ UNCHANGED <<sig, exit>>

(***************************************************************************)
(* The daemons and everybody else.                                         *)
(***************************************************************************)
BecomeDead(i, code) ==
    /\ phase' = [phase EXCEPT ![i] = "dead"]
    /\ exit' = [exit EXCEPT ![i] = code]
    /\ sig' = [sig EXCEPT ![i] = "none"]
    /\ UNCHANGED <<born, pidOf, kind>>
Advance(i, to) ==
    /\ phase' = [phase EXCEPT ![i] = to]
    /\ UNCHANGED <<born, pidOf, kind, sig, exit>>
\* What the kernel does for a process that ends: its lock, its listener.
LetGo(i) == /\ flock' = IF flock = i THEN 0 ELSE flock
            /\ sock' = IF sock = i THEN 0 ELSE sock
RemoveOwn(i) ==
    /\ pidfile' = IF Names /\ pidfile.by = i THEN NoFile ELSE pidfile
    /\ sock' = 0

\* systemd-run turns into the daemon, or fails to make the scope.
Exec(i) ==
    /\ phase[i] = "scope"
    /\ \/ Advance(i, "boot")
       \/ BecomeDead(i, 1)
    /\ UNCHANGED <<files, flock>>

\* RunAsDaemon: yield to a live pid, else replace a stale pidfile by one's own.
Claim(i) ==
    /\ phase[i] = "boot" /\ kind[i] # "foreign"
    /\ IF NamesLive
       THEN BecomeDead(i, 0) /\ UNCHANGED pidfile
       ELSE Advance(i, "named") /\ pidfile' = [by |-> i, record |-> "fresh"]
    /\ UNCHANGED <<sock, flock>>

Bind(i) ==
    /\ phase[i] = "named" /\ Advance(i, "bound")
    /\ sock' = i
    /\ UNCHANGED <<pidfile, flock>>

\* onReady: db.Open takes the flock, or the daemon stops and cleans up.
Open(i) ==
    /\ phase[i] = "bound"
    /\ IF flock = 0
       THEN Advance(i, "serving") /\ flock' = i /\ UNCHANGED files
       ELSE BecomeDead(i, 1) /\ RemoveOwn(i) /\ UNCHANGED flock

\* Idle, or SIGTERM: from here on nobody is greeted any more.
Stop(i) ==
    /\ phase[i] = "serving" /\ Advance(i, "stopping")
    /\ sock' = IF sock = i THEN 0 ELSE sock
    /\ UNCHANGED <<pidfile, flock>>

\* cleanupArtifacts; then the database is closed and the process exits.
Cleanup(i) ==
    /\ phase[i] = "stopping" /\ Advance(i, "closing")
    /\ RemoveOwn(i) /\ UNCHANGED flock

Exit(i) ==
    /\ phase[i] = "closing" /\ BecomeDead(i, 0)
    /\ LetGo(i) /\ UNCHANGED pidfile

\* SIGTERM has its handler only after onReady; SIGKILL has none.
Fatal(i) == \/ sig[i] = "KILL"
            \/ sig[i] = "TERM" /\ phase[i] \in {"scope", "boot", "named", "bound"}
Die(i) ==
    /\ Alive(i) /\ Fatal(i) /\ BecomeDead(i, 1)
    /\ LetGo(i) /\ UNCHANGED pidfile

Crash(i) ==
    /\ Alive(i) /\ events < MaxEvents /\ events' = events + 1
    /\ BecomeDead(i, 1) /\ LetGo(i) /\ UNCHANGED pidfile

\* A process that has nothing to do with this project gets a free pid, or
\* another client spawns a daemon.
OtherBorn ==
    /\ events < MaxEvents /\ events' = events + 1
    /\ \E k \in {"foreign", "ours"} : Born(k, "boot")
    /\ UNCHANGED <<files, flock>>

\* Another client's probe or direct session.
OtherLocks ==
    /\ \/ flock = 0 /\ events < MaxEvents /\ events' = events + 1 /\ flock' = Other
       \/ flock = Other /\ flock' = 0 /\ UNCHANGED events
    /\ UNCHANGED <<procs, files>>

\* deploy.sh: rm -f daemon.pid daemon.sock, whoever runs.
Deploy ==
    /\ events < MaxEvents /\ events' = events + 1
    /\ pidfile' = NoFile /\ sock' = 0
    /\ UNCHANGED <<procs, flock>>

\* halfDeadStartupGrace passes.
GraceOver ==
    /\ pidfile.record = "fresh" /\ pidfile' = [pidfile EXCEPT !.record = "aged"]
    /\ UNCHANGED <<procs, sock, flock>>

DaemonStep(i) ==
    Exec(i) \/ Claim(i) \/ Bind(i) \/ Open(i) \/ Stop(i) \/ Cleanup(i) \/ Exit(i) \/ Die(i)

Environment ==
    /\ \/ (\E i \in Inc : DaemonStep(i)) /\ UNCHANGED events
       \/ \E i \in Inc : Crash(i)
       \/ OtherBorn
       \/ OtherLocks
       \/ Deploy
       \/ GraceOver /\ UNCHANGED events
    /\ UNCHANGED at

(***************************************************************************)
(* EnsureAndDial: dial, judge, replace, spawn, dial again.                 *)
(***************************************************************************)
pc(c) == at[c].pc
In(c, place)   == at[c].pc = place
GoTo(c, place) == at' = [at EXCEPT ![c].pc = place]
\* A function returns: its locals are gone.
Return(c, place) == at' = [at EXCEPT ![c] = Locals(place)]

Start(c) == In(c, "off") /\ GoTo(c, "dial") /\ UNCHANGED world

(***************************************************************************)
(* ConnectHello: the kernel connects the client to whoever listens at the  *)
(* path, and ReadHello waits, without a deadline, for the line that daemon *)
(* writes.                                                                 *)
(***************************************************************************)
Peer(c) == at[c].peer
Dialled(c) == pc(c) \in {"dial", "poll"} /\ Peer(c) # 0
Connect(c) == \E i \in Inc : sock = i /\ at' = [at EXCEPT ![c].peer = i]
HungUp(c, place) == at' = [at EXCEPT ![c] = [@ EXCEPT !.peer = 0, !.pc = place]]

\* DialAnyCandidate: another version is definitive for the first dial; a poll
\* dials again.
Hello(c) ==
    /\ Dialled(c) /\ Greets(Peer(c)) /\ UNCHANGED world
    /\ IF kind[Peer(c)] = "ours" THEN Return(c, "proxy")
       ELSE HungUp(c, IF In(c, "dial") THEN "read" ELSE "poll")

\* The daemon stops or dies: the connection is closed.
HelloFails(c) ==
    /\ Dialled(c) /\ ~Greets(Peer(c)) /\ UNCHANGED world
    /\ HungUp(c, IF In(c, "dial") THEN "halfDead" ELSE "poll")

Dial(c) ==
    /\ In(c, "dial") /\ Peer(c) = 0 /\ UNCHANGED world
    /\ IF Answered THEN Connect(c) ELSE GoTo(c, "halfDead")

HalfDead(c) ==
    /\ In(c, "halfDead") /\ UNCHANGED world
    /\ GoTo(c, IF NamesLive /\ pidfile.record = "aged" THEN "read" ELSE "spawn")

\* KillStaleDaemon reads the pidfile again; a legacy record cannot be verified.
ReadPidfile(c) ==
    /\ In(c, "read")
    /\ IF Names
       THEN /\ at' = [at EXCEPT ![c] = [@ EXCEPT !.rec = pidfile.by, !.tgt = pidOf[pidfile.by],
                        !.pc = IF ~NamesLive THEN "clear"
                               ELSE IF pidfile.record = "legacy" THEN "failed" ELSE "verify"]]
            /\ UNCHANGED pidfile
       ELSE pidfile' = NoFile /\ GoTo(c, "spawn")
    /\ UNCHANGED <<procs, sock, flock, events>>

(***************************************************************************)
(* Terminating a process: by its record (mode "stale", verifyDaemonIdentity*)
(* compares the start time) or by the /proc scan (mode "holder",           *)
(* liveInvisibleHolderMatch).  terminateStaleViaPidfd and terminateViaPidfd*)
(* when a pidfd pins the target, terminateStaleViaKill and terminateViaKill*)
(* when not.                                                               *)
(***************************************************************************)
Stale(c) == at[c].mode = "stale"

Confirmed(c) ==
    LET i == Holder(at[c].tgt) IN
    /\ IsDaemon(i)
    /\ IF Stale(c) THEN i = at[c].rec ELSE phase[i] # "scope"

\* The next candidate of the pass; the pidfd is closed.
NextOne(c, done) ==
    at' = [at EXCEPT ![c] = [@ EXCEPT !.pc = "next", !.tgt = 0, !.pin = 0,
                                        !.killed = at[c].killed \/ done]]

\* The target is gone: its stale record is cleared, or it counts as killed
\* when it was this client's signal.
Gone(c, done) == IF Stale(c) THEN GoTo(c, "clear") ELSE NextOne(c, done)

\* A failed check refuses a live process, and skips one matched by the scan.
Mismatch(c) == IF Stale(c) /\ PidAlive(at[c].tgt) THEN Return(c, "failed") ELSE Gone(c, FALSE)

\* The check before pidfd_open refuses a recorded process that fails it even
\* if it is gone by now.
Verify(c) ==
    /\ In(c, "verify") /\ UNCHANGED world
    /\ IF Confirmed(c) THEN GoTo(c, "open")
       ELSE IF Stale(c) THEN Return(c, "failed") ELSE NextOne(c, FALSE)

\* Without a pidfd the stale path signals next, the other one checks again.
OpenPidfd(c) ==
    /\ In(c, "open") /\ UNCHANGED world
    /\ LET i == IF Pidfd THEN Holder(at[c].tgt) ELSE 0 IN
       at' = [at EXCEPT ![c] = [@ EXCEPT !.pin = i,
                                         !.pc = IF i = 0 /\ Stale(c) THEN "term" ELSE "check"]]

M_Check(c) ==
    /\ In(c, "check") /\ UNCHANGED world
    /\ IF PidAlive(at[c].tgt) THEN GoTo(c, "term") ELSE Mismatch(c)

Check(c) ==
    /\ In(c, "check") /\ UNCHANGED world
    /\ IF Confirmed(c) THEN GoTo(c, "term") ELSE Mismatch(c)

\* Whom a signal reaches: the pinned incarnation, or whoever has the pid.
Reached(c) == IF at[c].pin = 0 THEN Holder(at[c].tgt)
              ELSE IF Alive(at[c].pin) THEN at[c].pin ELSE 0

Signal(i, s) ==
    /\ sig' = [sig EXCEPT ![i] = IF @ = "KILL" THEN @ ELSE s]
    /\ UNCHANGED <<born, pidOf, kind, phase, exit, files, flock, events>>

Term(c) ==
    /\ In(c, "term")
    /\ IF Reached(c) = 0
       THEN Gone(c, FALSE) /\ UNCHANGED world
       ELSE Signal(Reached(c), "TERM") /\ GoTo(c, "wait")

\* waitForExit: the pid is free, or the grace is over.
M_Wait(c) == In(c, "wait") /\ ~PidAlive(at[c].tgt) /\ Gone(c, TRUE) /\ UNCHANGED world

Wait(c) ==
    /\ In(c, "wait") /\ UNCHANGED world
    /\ IF PidAlive(at[c].tgt) THEN GoTo(c, "recheck") ELSE Gone(c, TRUE)

Recheck(c) ==
    /\ In(c, "recheck") /\ UNCHANGED world
    /\ IF Confirmed(c) THEN GoTo(c, "kill") ELSE Mismatch(c)

\* ESRCH from a pidfd is ignored; from kill(2) it is the end of the process.
Kill(c) ==
    /\ In(c, "kill")
    /\ IF Reached(c) # 0
       THEN Signal(Reached(c), "KILL") /\ GoTo(c, "waitKill")
       ELSE /\ IF at[c].pin # 0 THEN GoTo(c, "waitKill") ELSE Gone(c, FALSE)
            /\ UNCHANGED world

M_WaitKill(c) ==
    /\ In(c, "waitKill") /\ UNCHANGED world
    /\ IF PidAlive(at[c].tgt) /\ ~Stale(c) THEN Return(c, "failed") ELSE Gone(c, TRUE)

\* A survivor: a recorded one is logged and the client spawns nevertheless;
\* an invisible one ends the client (ErrInvisibleHolderSurvived).
WaitKill(c) ==
    /\ In(c, "waitKill") /\ UNCHANGED world
    /\ IF PidAlive(at[c].tgt) THEN Return(c, IF Stale(c) THEN "spawn" ELSE "failed")
       ELSE Gone(c, TRUE)

\* ClearStaleLock(pidPath, info.PID): only a record of that pid, and only
\* while no process has it.
Clear(c) ==
    /\ In(c, "clear") /\ Return(c, "spawn")
    /\ pidfile' = IF \/ pidfile.record = "corrupt"
                     \/ Names /\ pidOf[pidfile.by] = at[c].tgt /\ ~PidAlive(at[c].tgt)
                  THEN NoFile ELSE pidfile
    /\ UNCHANGED <<procs, sock, flock, events>>

(***************************************************************************)
(* SpawnDetached and the polling after it.                                 *)
(***************************************************************************)
SpawnError(c) == Return(c, "fallback") /\ UNCHANGED world

Child(c, first, place) ==
    /\ Born("ours", first)
    /\ at' = [at EXCEPT ![c] = [@ EXCEPT !.pc = place, !.kids = at[c].kids \cup {born + 1}]]
    /\ UNCHANGED <<files, flock, events>>

\* Through systemd-run, or directly: without a quota, or when systemd-run
\* itself could not be started.
Spawn(c) ==
    /\ In(c, "spawn")
    /\ \/ Scope /\ Child(c, "scope", "window")
       \/ Child(c, "boot", "poll")
       \/ SpawnError(c)

\* daemonAliveAt compares the start time as well.
DaemonAliveAt == Names /\ Alive(pidfile.by)

\* The wrapper ended within spawnEarlyExitWindow: once more without it if it
\* failed and no daemon is recorded.
WindowExit(c) ==
    /\ In(c, "window") /\ \A i \in at[c].kids : ~Alive(i)
    /\ IF (\E i \in at[c].kids : exit[i] # 0) /\ ~DaemonAliveAt
       THEN Child(c, "boot", "poll") \/ SpawnError(c)
       ELSE GoTo(c, "poll") /\ UNCHANGED world

M_WindowElapsed(c) ==
    /\ In(c, "window")
    /\ IF DaemonAliveAt THEN GoTo(c, "poll") /\ UNCHANGED world ELSE Child(c, "boot", "poll")

WindowElapsed(c) == In(c, "window") /\ GoTo(c, "poll") /\ UNCHANGED world

Poll(c) == In(c, "poll") /\ Peer(c) = 0 /\ Connect(c) /\ UNCHANGED world

\* The deadline, looked at between two dials.
PollOver(c) ==
    /\ In(c, "poll") /\ Peer(c) = 0 /\ UNCHANGED world
    /\ Return(c, IF at[c].again THEN "fallback" ELSE "probe")

(***************************************************************************)
(* The invisible-holder cleanup.                                           *)
(***************************************************************************)
\* The probe takes the lock it asks for, if it is free, for an instant.
TryFlock(c, got, held) ==
    /\ IF flock = 0 THEN flock' = c /\ GoTo(c, got) ELSE held /\ UNCHANGED flock
    /\ UNCHANGED <<procs, files, events>>
DropFlock(c, place) ==
    /\ flock' = 0 /\ Return(c, place) /\ UNCHANGED <<procs, files, events>>

Probe(c)   == In(c, "probe") /\ TryFlock(c, "probing", GoTo(c, "scan"))
Probing(c) == In(c, "probing") /\ DropFlock(c, "fallback")

Scan(c) ==
    /\ In(c, "scan") /\ UNCHANGED world
    /\ at' = [at EXCEPT ![c] = [@ EXCEPT !.pc = "grace",
                 !.todo = {pidOf[i] : i \in {j \in Inc : IsDaemon(j) /\ phase[j] # "scope"}}]]

\* newbornDaemonInStartupGrace spares every match.
Grace(c) ==
    /\ In(c, "grace") /\ UNCHANGED world
    /\ at' = [at EXCEPT ![c] = [@ EXCEPT !.pc = "next", !.mode = "holder",
                 !.todo = IF NamesLive /\ pidfile.record = "fresh" THEN {} ELSE at[c].todo]]

NextHolder(c) ==
    /\ In(c, "next") /\ UNCHANGED world
    /\ \E p \in at[c].todo :
          at' = [at EXCEPT ![c] = [@ EXCEPT !.pc = "verify", !.tgt = p, !.todo = at[c].todo \ {p}]]

\* Respawn after a kill; with nobody matched, wait for the flock first.
PassEnds(c) ==
    /\ In(c, "next") /\ at[c].todo = {} /\ UNCHANGED world
    /\ at' = [at EXCEPT ![c] = [Locals(IF at[c].killed THEN "spawn" ELSE "freed")
                                   EXCEPT !.again = TRUE]]

\* probeFlockFreed: polled for at most a second.
Freed(c) ==
    /\ In(c, "freed")
    /\ \/ TryFlock(c, "probing", FALSE)
       \/ flock # 0 /\ GoTo(c, "spawn") /\ UNCHANGED world

(***************************************************************************)
(* main after EnsureAndDial.                                               *)
(***************************************************************************)
\* checkDirectFallbackSafe opens the database and closes it again.
Fallback(c) ==
    /\ In(c, "fallback") /\ UNCHANGED world
    /\ Return(c, IF NamesLive THEN "failed" ELSE "tryOpen")
TryOpen(c)   == In(c, "tryOpen") /\ TryFlock(c, "tried", GoTo(c, "failed"))
Tried(c)     == In(c, "tried") /\ DropFlock(c, "runDirect")
RunDirect(c) == In(c, "runDirect") /\ TryFlock(c, "direct", GoTo(c, "failed"))
EndDirect(c) == In(c, "direct") /\ DropFlock(c, "done")

\* RunProxy: the host's input ends and the daemon's last answers are awaited
\* for a while, or the daemon closes, or the ppid watchdog closes.
StdinEnds(c) == In(c, "proxy") /\ GoTo(c, "drain") /\ UNCHANGED world
EndProxy(c)  == pc(c) \in {"proxy", "drain"} /\ GoTo(c, "done") /\ UNCHANGED world

DialStep(c) == Dial(c) \/ HelloFails(c) \/ HalfDead(c) \/ ReadPidfile(c)
KillStep(c) == \/ Verify(c) \/ OpenPidfd(c) \/ Check(c) \/ Term(c) \/ Wait(c)
               \/ Recheck(c) \/ Kill(c) \/ WaitKill(c) \/ Clear(c)
SpawnStep(c) == Spawn(c) \/ WindowExit(c) \/ WindowElapsed(c) \/ Poll(c) \/ PollOver(c)
PassStep(c) == \/ Probe(c) \/ Probing(c) \/ Scan(c) \/ Grace(c)
               \/ NextHolder(c) \/ PassEnds(c) \/ Freed(c)
MainStep(c) == Fallback(c) \/ TryOpen(c) \/ Tried(c) \/ RunDirect(c)
Session(c)  == EndDirect(c) \/ StdinEnds(c) \/ EndProxy(c)
Ensure(c)   == DialStep(c) \/ KillStep(c) \/ SpawnStep(c) \/ PassStep(c) \/ MainStep(c)

Next ==
    \/ Environment
    \/ \E c \in Conn : Start(c) \/ Hello(c) \/ Ensure(c) \/ Session(c)

\* A client takes its own steps, and time passes; no daemon owes a greeting.
Fairness == \A c \in Conn : WF_vars(Ensure(c)) /\ SF_vars(PollOver(c))
Spec == Init /\ [][Next]_vars /\ Fairness

-----------------------------------------------------------------------------
TypeOK ==
    /\ born \in Inc /\ pidOf \in [Inc -> Pid] /\ kind \in [Inc -> Kind]
    /\ phase \in [Inc -> Phase] /\ sig \in [Inc -> {"none", "TERM", "KILL"}]
    /\ exit \in [Inc -> {0, 1}]
    /\ pidfile \in [by : Inc0, record : Record] /\ (Names => pidfile.by \in Inc)
    /\ sock \in Inc0 /\ flock \in Inc0 \cup Conn \cup {Other} /\ events \in 0 .. MaxEvents
    /\ at \in [Conn -> [pc : Place, peer : Inc0, mode : {"stale", "holder"}, rec : Inc0,
                       tgt : Pid \cup {0}, pin : Inc0, todo : SUBSET Pid, killed : BOOLEAN,
                       again : BOOLEAN, kids : SUBSET Inc]]
    /\ \A c \in Conn : at[c].pin # 0 => pc(c) \in Ending    \* no pidfd leaks

\* A signal through a pidfd reaches a daemon of this project or nobody, even
\* if the pid went to a foreign process between the scan or the read of the
\* pidfile, the checks, pidfd_open and the signal (terminateStaleViaPidfd,
\* terminateViaPidfd).
PinnedIsDaemon ==
    \A c \in Conn :
        pc(c) \in {"term", "kill"} /\ at[c].pin # 0 /\ Alive(at[c].pin) => kind[at[c].pin] # "foreign"

\* KillStaleDaemon returns nil after a termination only when the recorded
\* incarnation is dead: never because its pid looked free too early, was
\* taken by another process, or the wait ran out.
ClearedIsDead == \A c \in Conn : pc(c) = "clear" => ~Alive(at[c].rec)

\* One SpawnDetached leaves at most one process: the fallback never joins a
\* systemd-run wrapper that is still on its way to becoming the daemon.
OneChild == \A c \in Conn : \A i, j \in at[c].kids : Alive(i) /\ Alive(j) => i = j

\* A client that has started ends up connected, in direct mode or with an
\* error, however the daemons it meets die or refuse to die, with one
\* exception: ReadHello has no deadline (hello.go:57, proxy.go:36), so a daemon
\* that accepts, lives and never greets keeps the call waiting as long.
Waits(c) == Dialled(c) /\ Greets(Peer(c))
EveryCallEnds ==
    \A c \in Conn :
        (pc(c) = "dial") ~> (pc(c) \in {"proxy", "drain", "direct"} \cup Ended \/ []Waits(c))
=============================================================================
