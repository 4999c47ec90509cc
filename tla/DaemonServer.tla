---------------------------- MODULE DaemonServer ----------------------------
(***************************************************************************)
(* One daemon process from Start to exit: internal/daemon/server.go.       *)
(*                                                                         *)
(* Its goroutines are the accept loop, one serveConn per connection, the   *)
(* idle-timer callbacks, the workdir watchdog, the signal watcher and the  *)
(* main goroutine of RunAsDaemon.  They share the Daemon struct; d.mu is   *)
(* never held across two of the steps below, so each critical section is   *)
(* one action, and what the code does outside the lock (reading            *)
(* d.stopping, wg.Add, closing a connection) is an action of its own.      *)
(***************************************************************************)
EXTENDS Integers, FiniteSets

CONSTANTS
    Conn,            \* client connections (a closed one may dial again)
    Timer,           \* time.AfterFunc timers that exist at the same time
    NoConn, NoTimer, \* "no connection", "nil"
    MaxSessions,     \* server.go: maxSessions (64 in the code)
    MaxPerm,         \* consecutive permanent accept errors tolerated (5)
    IdleEnabled      \* d.idleAfter > 0

ASSUME ConnAssumption == IsFiniteSet(Conn) /\ NoConn \notin Conn
ASSUME TimerAssumption ==
    /\ NoTimer \notin Timer
    /\ Timer \cap {"nobody", "main", "accept", "watchdog", "signal"} = {}
ASSUME BoundsAssumption ==
    MaxSessions \in Nat \ {0} /\ MaxPerm \in Nat \ {0} /\ IdleEnabled \in BOOLEAN

VARIABLES
    clients,    \* d.clients
    inFlight,   \* d.inFlight
    conns,      \* d.conns
    idleTimer,  \* d.idleTimer
    wg,         \* the counter of d.wg
    closed,     \* connections finishShutdown closed under their session
    conn,       \* per connection: where its serveConn goroutine is
    timer,      \* per timer: where its callback is
    accept,     \* the accept loop: where it is, the conn it holds, permErrs
    shut,       \* the shutdown sequence: who runs it and how far it is
    state,      \* server state behind stateOnce: "none", "ok" or "err"
    main        \* the goroutine inside RunAsDaemon

counters == <<clients, inFlight, conns>>
others   == <<state, main>>
vars == <<counters, idleTimer, wg, closed, conn, timer, accept, shut, others>>

(***************************************************************************)
(* Phases.  "none": not connected; "queued": in the listen backlog;        *)
(* "taken": returned by Accept; "counted": in d.inFlight, goroutine not    *)
(* yet spawned; the rest are the steps of serveConn and of its deferred    *)
(* calls, in program order.                                                *)
(***************************************************************************)
Registered == {"ensure", "serving", "drop"}
InServe    == {"hello", "add"} \cup Registered \cup {"dropArm", "dropLock", "finish"}
Counted    == InServe \cup {"counted"}
Tracked    == InServe \cup {"finArm", "finLock", "close"}
ConnPhase  == {"none", "queued", "taken", "counted"} \cup Tracked
TimerPhase == {"free", "armed", "fired", "rearm", "rearmLock", "stopper"}
AcceptPhase == {"off", "accept", "register", "spawn", "giveUp", "stopper", "ended"}
ShutPhase  == {"none", "begin", "closeListener", "cancel", "closeConns",
               "wait", "cleanup", "done"}
MainPhase  == {"start", "track", "onReady", "failed", "stopper", "wait", "exit"}

Stopping     == shut.at # "none"
Stopped      == shut.at = "done"
ListenerOpen == shut.at \in {"none", "begin", "closeListener"}
CtxDone      == shut.at \in {"closeConns", "wait", "cleanup", "done"}
Served       == clients > 0 \/ inFlight > 0
Running      == main # "exit"
In(S)        == {c \in Conn : conn[c] \in S}

Init ==
    /\ clients = 0 /\ inFlight = 0 /\ conns = {} /\ wg = 0 /\ closed = {}
    /\ idleTimer = NoTimer
    /\ conn = [c \in Conn |-> "none"]
    /\ timer = [t \in Timer |-> "free"]
    /\ accept = [at |-> "off", conn |-> NoConn, perm |-> 0]
    /\ shut = [by |-> "nobody", at |-> "none"]
    /\ state = "none" /\ main = "start"

(***************************************************************************)
(* Fragments shared by the actions.  `tm` is the timer function a fragment *)
(* starts from.                                                            *)
(***************************************************************************)
GoTo(c, phase) == conn' = [conn EXCEPT ![c] = phase]

\* "if d.idleTimer != nil { d.idleTimer.Stop(); d.idleTimer = nil }": Stop
\* does nothing to a timer whose callback has already started.
StopIdleTimer(tm) ==
    /\ idleTimer' = NoTimer
    /\ timer' = IF idleTimer # NoTimer /\ tm[idleTimer] = "armed"
                THEN [tm EXCEPT ![idleTimer] = "free"]
                ELSE tm

\* armIdleTimer: its first line, read without the lock ...
ArmSkipped == ~IdleEnabled \/ Stopping

\* ... and its critical section.
ArmLocked(tm) ==
    IF Served \/ idleTimer # NoTimer
    THEN timer' = tm /\ UNCHANGED idleTimer
    ELSE \E t \in Timer : /\ tm[t] = "free"
                          /\ timer' = [tm EXCEPT ![t] = "armed"]
                          /\ idleTimer' = t

\* Stop: the winner of stopping.CompareAndSwap(false, true) shuts down.
Win(who) == shut' = [by |-> who, at |-> "begin"]

\* stopIfIdle: the counters and the flag are examined, and the flag is set
\* and the idle timer stopped, under one hold of d.mu.
M_CanStopIdle == clients = 0 /\ ~Stopping
CanStopIdle == ~Served /\ ~Stopping
StopIdle(who, tm) ==
    /\ shut' = [by |-> who, at |-> "closeListener"]
    /\ StopIdleTimer(tm)

(***************************************************************************)
(* Start and the rest of RunAsDaemon's goroutine.                          *)
(***************************************************************************)
\* Start's d.armIdleTimer(), on a listener that is bound: the timer may fire
\* before the next statement runs, no lower bound is set for IdleTimeout.
Start ==
    /\ main = "start" /\ main' = "track"
    /\ IF IdleEnabled THEN ArmLocked(timer) ELSE UNCHANGED <<timer, idleTimer>>
    /\ UNCHANGED <<counters, wg, closed, conn, accept, shut, state>>

\* d.wg.Add(1); go d.acceptLoop(); go d.watchRootLiveness().
GoAcceptLoop(by) ==
    /\ main = "track" /\ main' = "onReady"
    /\ accept' = [accept EXCEPT !.at = "accept"] /\ wg' = wg + by
    /\ UNCHANGED <<counters, idleTimer, closed, conn, timer, shut, state>>
M_StartTracked   == GoAcceptLoop(2)
M_StartUntracked == GoAcceptLoop(0)
StartAcceptLoop  == GoAcceptLoop(1)

\* stateOnce.Do: the first caller opens the server state, which may fail.
Ensure == state' \in IF state = "none" THEN {"ok", "err"} ELSE {state}

OnReady ==
    /\ main = "onReady" /\ Ensure
    /\ main' = IF state' = "ok" THEN "wait" ELSE "failed"
    /\ UNCHANGED <<counters, idleTimer, wg, closed, conn, timer, accept, shut>>

\* d.Stop("onReady failed"); when another goroutine is already shutting down,
\* Stop returns at once and RunAsDaemon returns the error.
StopOnReadyFailed ==
    /\ main = "failed"
    /\ \/ ~Stopping /\ Win("main") /\ main' = "stopper"
       \/ Stopping /\ main' = "exit" /\ UNCHANGED shut
    /\ UNCHANGED <<counters, idleTimer, wg, closed, conn, timer, accept, state>>

Exit ==
    /\ main \in {"wait", "stopper"} /\ Stopped /\ main' = "exit"
    /\ UNCHANGED <<counters, idleTimer, wg, closed, conn, timer, accept, shut, state>>

(***************************************************************************)
(* acceptLoop.                                                             *)
(***************************************************************************)
Dial(c) ==
    /\ conn[c] = "none" /\ ListenerOpen /\ GoTo(c, "queued")
    /\ UNCHANGED <<counters, idleTimer, wg, closed, timer, accept, shut, others>>

AcceptConn(c) ==
    /\ accept.at = "accept" /\ ListenerOpen /\ conn[c] = "queued"
    /\ accept' = [at |-> "register", conn |-> c, perm |-> 0]
    /\ GoTo(c, "taken")
    /\ UNCHANGED <<counters, idleTimer, wg, closed, timer, shut, others>>

\* The listener is closed only by a shutdown: Accept fails, the loop returns.
AcceptClosed ==
    /\ accept.at = "accept" /\ shut.at \notin {"none", "begin", "closeListener"}
    /\ accept' = [accept EXCEPT !.at = "ended"] /\ wg' = wg - 1
    /\ UNCHANGED <<counters, idleTimer, closed, conn, timer, shut, others>>

\* A temporary error resets the count; the MaxPerm-th permanent one in a row
\* makes the loop give up.
AcceptError ==
    /\ accept.at = "accept" /\ ListenerOpen
    /\ \/ Stopping /\ accept' = [accept EXCEPT !.at = "ended"] /\ wg' = wg - 1
       \/ ~Stopping /\ accept' = [accept EXCEPT !.perm = 0] /\ UNCHANGED wg
       \/ /\ ~Stopping /\ accept.perm + 1 < MaxPerm /\ UNCHANGED wg
          /\ accept' = [accept EXCEPT !.perm = accept.perm + 1]
       \/ /\ ~Stopping /\ accept.perm + 1 >= MaxPerm /\ UNCHANGED wg
          /\ accept' = [accept EXCEPT !.at = "giveUp", !.perm = accept.perm + 1]
    /\ UNCHANGED <<counters, idleTimer, closed, conn, timer, shut, others>>

\* d.Stop("accept-permanent-failures"), called by the loop itself.  When it
\* wins, its finishShutdown waits on the wait group its own Done would release.
AcceptGivesUp ==
    /\ accept.at = "giveUp"
    /\ \/ /\ Stopping /\ accept' = [accept EXCEPT !.at = "ended"]
          /\ wg' = wg - 1 /\ UNCHANGED shut
       \/ /\ ~Stopping /\ Win("accept")
          /\ accept' = [accept EXCEPT !.at = "stopper"] /\ UNCHANGED wg
    /\ UNCHANGED <<counters, idleTimer, closed, conn, timer, others>>

\* The accepted connection is dropped when the daemon is stopping, or counted
\* in flight under the same d.mu that stopIfIdle holds.
Register ==
    /\ accept.at = "register" /\ ~Stopping
    /\ inFlight' = inFlight + 1 /\ StopIdleTimer(timer)
    /\ GoTo(accept.conn, "counted")
    /\ accept' = [accept EXCEPT !.at = "spawn"]
    /\ UNCHANGED <<clients, conns, wg, closed, shut, others>>

RegisterRefused ==
    /\ accept.at = "register" /\ Stopping
    /\ GoTo(accept.conn, "none") /\ wg' = wg - 1
    /\ accept' = [accept EXCEPT !.at = "ended", !.conn = NoConn]
    /\ UNCHANGED <<counters, idleTimer, closed, timer, shut, others>>

Spawn ==
    /\ accept.at = "spawn" /\ wg' = wg + 1 /\ GoTo(accept.conn, "hello")
    /\ accept' = [accept EXCEPT !.at = "accept", !.conn = NoConn]
    /\ UNCHANGED <<counters, idleTimer, closed, timer, shut, others>>

(***************************************************************************)
(* serveConn(c).                                                           *)
(***************************************************************************)
ConnOnly == UNCHANGED <<counters, idleTimer, wg, closed, timer, accept, shut, others>>

\* WriteHello, TryReadClientHello and the token check, any of which may
\* return; then ClientCount() >= maxSessions, a hold of d.mu that is released
\* before addClient takes it again.

Handshake(c) ==
    /\ conn[c] = "hello" /\ ConnOnly
    /\ GoTo(c, "finish") \/ GoTo(c, IF clients >= MaxSessions THEN "finish" ELSE "add")

M_AddClient(c) ==
    /\ conn[c] = "add" /\ clients' = clients + 1 /\ conns' = conns \cup {c}
    /\ StopIdleTimer(timer) /\ GoTo(c, "ensure")
    /\ UNCHANGED <<inFlight, wg, closed, accept, shut, others>>

AddClient(c) ==
    /\ conn[c] = "add" /\ ~Stopping
    /\ clients' = clients + 1 /\ conns' = conns \cup {c}
    /\ StopIdleTimer(timer) /\ GoTo(c, "ensure")
    /\ UNCHANGED <<inFlight, wg, closed, accept, shut, others>>

AddRefused(c) == conn[c] = "add" /\ Stopping /\ GoTo(c, "finish") /\ ConnOnly

\* The handler: the server state first, then the MCP session.
HandlerEnsure(c) ==
    /\ conn[c] = "ensure" /\ Ensure
    /\ GoTo(c, IF state' = "ok" THEN "serving" ELSE "drop")
    /\ UNCHANGED <<counters, idleTimer, wg, closed, timer, accept, shut, main>>

\* The peer hangs up, the session idles out, the handler panics, or the
\* shutdown has closed the connection or cancelled the context.
HandlerReturns(c) == conn[c] = "serving" /\ GoTo(c, "drop") /\ ConnOnly

DropClient(c) ==
    /\ conn[c] = "drop" /\ conns' = conns \ {c}
    /\ clients' = IF clients > 0 THEN clients - 1 ELSE clients
    /\ GoTo(c, IF clients' = 0 THEN "dropArm" ELSE "finish")
    /\ UNCHANGED <<inFlight, idleTimer, wg, closed, timer, accept, shut, others>>

M_FinishConn(c) ==
    /\ conn[c] = "finish"
    /\ inFlight' = IF inFlight > 0 THEN inFlight - 1 ELSE inFlight
    /\ GoTo(c, "close")
    /\ UNCHANGED <<clients, conns, idleTimer, wg, closed, timer, accept, shut, others>>

FinishConn(c) ==
    /\ conn[c] = "finish"
    /\ inFlight' = IF inFlight > 0 THEN inFlight - 1 ELSE inFlight
    /\ GoTo(c, IF clients = 0 /\ inFlight' = 0 THEN "finArm" ELSE "close")
    /\ UNCHANGED <<clients, conns, idleTimer, wg, closed, timer, accept, shut, others>>

\* armIdleTimer as dropClient and finishConn call it.
ConnArmCheck(c) ==
    /\ \/ conn[c] = "dropArm" /\ GoTo(c, IF ArmSkipped THEN "finish" ELSE "dropLock")
       \/ conn[c] = "finArm" /\ GoTo(c, IF ArmSkipped THEN "close" ELSE "finLock")
    /\ ConnOnly

ConnArm(c) ==
    /\ \/ conn[c] = "dropLock" /\ GoTo(c, "finish")
       \/ conn[c] = "finLock" /\ GoTo(c, "close")
    /\ ArmLocked(timer)
    /\ UNCHANGED <<counters, wg, closed, accept, shut, others>>

CloseConn(c) ==
    /\ conn[c] = "close" /\ GoTo(c, "none") /\ wg' = wg - 1
    /\ UNCHANGED <<counters, idleTimer, closed, timer, accept, shut, others>>

(***************************************************************************)
(* The idle-timer callback, the watchdog and the signal watcher.           *)
(***************************************************************************)
TimerFires(t) ==
    /\ timer[t] = "armed" /\ timer' = [timer EXCEPT ![t] = "fired"]
    /\ UNCHANGED <<counters, idleTimer, wg, closed, conn, accept, shut, others>>

TimerStopIfIdle(t) ==
    /\ timer[t] = "fired"
    /\ IF CanStopIdle
       THEN StopIdle(t, [timer EXCEPT ![t] = "stopper"])
       ELSE timer' = [timer EXCEPT ![t] = "rearm"] /\ UNCHANGED <<idleTimer, shut>>
    /\ UNCHANGED <<counters, wg, closed, conn, accept, others>>

TimerRearm(t) ==
    /\ \/ /\ timer[t] = "rearm" /\ UNCHANGED idleTimer
          /\ timer' = [timer EXCEPT ![t] = IF ArmSkipped THEN "free" ELSE "rearmLock"]
       \/ timer[t] = "rearmLock" /\ ArmLocked([timer EXCEPT ![t] = "free"])
    /\ UNCHANGED <<counters, wg, closed, conn, accept, shut, others>>

\* A tick of the workdir watchdog that finds the workdir gone.  The other
\* ticks, and its return once the context is done, change nothing.
WatchRoot ==
    /\ main \notin {"start", "track"} /\ CanStopIdle /\ StopIdle("watchdog", timer)
    /\ UNCHANGED <<counters, wg, closed, conn, accept, others>>

\* watchSignals is started after onReady; an earlier SIGTERM kills the process.
\* Stop does nothing when a shutdown has begun.
StopOnSignal ==
    /\ main = "wait" /\ ~Stopping /\ Win("signal")
    /\ UNCHANGED <<counters, idleTimer, wg, closed, conn, timer, accept, others>>

(***************************************************************************)
(* The shutdown sequence, run by whoever set the flag.                     *)
(***************************************************************************)
ShutTo(phase) == shut' = [shut EXCEPT !.at = phase]

BeginShutdown ==
    /\ shut.at = "begin" /\ ShutTo("closeListener") /\ StopIdleTimer(timer)
    /\ UNCHANGED <<counters, wg, closed, conn, accept, others>>

\* Closing the listener resets the connections still in its backlog.
CloseListener ==
    /\ shut.at = "closeListener" /\ ShutTo("cancel")
    /\ conn' = [c \in Conn |-> IF conn[c] = "queued" THEN "none" ELSE conn[c]]
    /\ UNCHANGED <<counters, idleTimer, wg, closed, timer, accept, others>>

Cancel ==
    /\ shut.at = "cancel" /\ ShutTo("closeConns")
    /\ UNCHANGED <<counters, idleTimer, wg, closed, conn, timer, accept, others>>

CloseConns ==
    /\ shut.at = "closeConns" /\ ShutTo("wait") /\ closed' = conns
    /\ UNCHANGED <<counters, idleTimer, wg, conn, timer, accept, others>>

M_AwaitDrain ==
    /\ shut.at = "wait" /\ clients = 0 /\ inFlight = 0 /\ ShutTo("cleanup")
    /\ UNCHANGED <<counters, idleTimer, wg, closed, conn, timer, accept, others>>

AwaitDrain ==
    /\ shut.at = "wait" /\ wg = 0 /\ ShutTo("cleanup")
    /\ UNCHANGED <<counters, idleTimer, wg, closed, conn, timer, accept, others>>

\* cleanupArtifacts, then close(d.stopped).
Cleanup ==
    /\ shut.at = "cleanup" /\ ShutTo("done")
    /\ UNCHANGED <<counters, idleTimer, wg, closed, conn, timer, accept, others>>

(***************************************************************************)
(* The specification.  Every goroutine that can run does run; sessions and *)
(* the outside world (dialling, accept errors, signals, removal of the     *)
(* workdir) promise nothing, except that a session whose connection was    *)
(* closed or whose context was cancelled returns.                          *)
(***************************************************************************)
MainStep   == Start \/ StartAcceptLoop \/ OnReady \/ StopOnReadyFailed \/ Exit
AcceptStep == AcceptClosed \/ AcceptGivesUp \/ Register \/ RegisterRefused \/ Spawn
ServeStep(c) == \/ Handshake(c) \/ AddClient(c) \/ AddRefused(c)
                \/ HandlerEnsure(c) \/ DropClient(c) \/ FinishConn(c)
                \/ ConnArmCheck(c) \/ ConnArm(c) \/ CloseConn(c)
TimerStep(t) == TimerFires(t) \/ TimerStopIfIdle(t) \/ TimerRearm(t)
ShutStep   == \/ BeginShutdown \/ CloseListener \/ Cancel \/ CloseConns
              \/ AwaitDrain \/ Cleanup

Next ==
    /\ Running
    /\ \/ MainStep \/ AcceptStep \/ AcceptError \/ ShutStep
       \/ \E c \in Conn : Dial(c) \/ AcceptConn(c) \/ ServeStep(c) \/ HandlerReturns(c)
       \/ \E t \in Timer : TimerStep(t)
       \/ WatchRoot \/ StopOnSignal

Fairness ==
    /\ WF_vars(Running /\ MainStep)
    /\ WF_vars(Running /\ AcceptStep)
    /\ WF_vars(Running /\ ShutStep)
    /\ \A c \in Conn : /\ WF_vars(Running /\ ServeStep(c))
                       /\ WF_vars(Running /\ HandlerReturns(c) /\ (c \in closed \/ CtxDone))
    /\ \A t \in Timer : WF_vars(Running /\ TimerStep(t))

Spec == Init /\ [][Next]_vars
FairSpec == Spec /\ Fairness

-----------------------------------------------------------------------------
TypeOK ==
    /\ clients \in Nat /\ inFlight \in Nat /\ wg \in Nat
    /\ conns \subseteq Conn /\ closed \subseteq Conn
    /\ idleTimer \in Timer \cup {NoTimer}
    /\ conn \in [Conn -> ConnPhase]
    /\ timer \in [Timer -> TimerPhase]
    /\ accept \in [at : AcceptPhase, conn : Conn \cup {NoConn}, perm : 0 .. MaxPerm]
    /\ shut \in [by : {"nobody", "main", "accept", "watchdog", "signal"} \cup Timer,
                 at : ShutPhase]
    /\ state \in {"none", "ok", "err"}
    /\ main \in MainPhase

\* The two counters stopIfIdle decides on never drift from the connections
\* that are really being served, whichever way a connection ends
\* (server.go:398, 477-520).
CountersExact ==
    /\ clients = Cardinality(conns)
    /\ conns = In(Registered)
    /\ inFlight = Cardinality(In(Counted))

\* No idle timer is armed while anybody is served: a stale timer would be
\* found non-nil by armIdleTimer and the idle exit would be lost
\* (server.go:399-402, 486-489, 528).
NoTimerWhileServed == Served => idleTimer = NoTimer

\* The lock and the socket are removed only after every session and the
\* accept loop are gone (server.go:331-333), unless the idle timer fired before
\* Start counted the loop (server.go:171-173): that loop starts afterwards, on a
\* closed listener, and takes no connection.
CleanupAfterDrain ==
    [][/\ shut'.at = "cleanup" /\ shut.at # "cleanup" =>
              /\ accept.at = "ended" \/ main = "track"
              /\ In({"none"}) = Conn
       /\ shut.at \in {"cleanup", "done"} => conn' = conn]_vars

\* A session cannot register past the shutdown and be stranded with nobody
\* left to close its connection (server.go:474-477).
NoStrandedSession ==
    shut.at \in {"wait", "cleanup", "done"} =>
        \A c \in Conn : conn[c] \in Registered => c \in closed

\* An autonomous stop (idle timer, workdir watchdog) never starts under a
\* connection that has been accepted and counted (server.go:268-274).
IdleStopSparesServed ==
    [][Stopping' /\ ~Stopping /\ shut'.by \in Timer \cup {"watchdog"}
        => In(Counted) = {}]_vars

\* A shutdown that may have found the wait group empty is joined by no new
\* goroutine (server.go:404, 332), except by the accept loop itself, when a
\* timer has begun the shutdown before Start's own wg.Add (server.go:171-173).
WaitGroupNeverRevived ==
    [][wg = 0 /\ Stopping /\ wg' # 0 =>
           main = "track" /\ main' # "track" /\ shut.by \in Timer]_vars

\* A shutdown begun by anybody but the accept loop reaches close(d.stopped),
\* so Wait returns (server.go:318-334).
StopDrains == (Stopping /\ shut.by # "accept") ~> (Stopped \/ ~Running)

\* Any shutdown reaches it: what server.go:182-184 asks of every goroutine
\* that calls Stop.  acceptLoop is one and is tracked by d.wg.
EveryStopDrains == Stopping ~> (Stopped \/ ~Running)

\* A daemon nobody uses for good ends: the idle timer is never lost between
\* the last dropClient, finishConn and the callback that refused to stop.
IdleDaemonStops ==
    IdleEnabled => (<>[](~Served) => <>(Stopping \/ ~Running))
=============================================================================
