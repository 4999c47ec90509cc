------------------------ MODULE DaemonServer_proofs ------------------------
(***************************************************************************)
(* Safety of one daemon process, for every set of connections and timers   *)
(* and every cap: the counters never drift, an autonomous stop never       *)
(* starts under a served connection, and the lock and the socket outlive   *)
(* every session.                                                          *)
(*                                                                         *)
(* None of these is inductive.  The argument is Inv below: d.wg counts     *)
(* exactly the spawned goroutines and the accept loop (Tracking), the      *)
(* accept loop holds the only connection that is accepted and not yet      *)
(* spawned (Holding), and the shutdown's phases bound what can still       *)
(* happen (Order).                                                         *)
(***************************************************************************)
EXTENDS DaemonServer, FiniteSetTheorems, TLAPS

LiveAccept == {"accept", "register", "spawn", "giveUp", "stopper"}

Tracking ==
    wg = Cardinality(In(Tracked)) + (IF accept.at \in LiveAccept THEN 1 ELSE 0)

Holding ==
    /\ accept.at = "register" => accept.conn \in Conn /\ conn[accept.conn] = "taken"
    /\ accept.at = "spawn" => accept.conn \in Conn /\ conn[accept.conn] = "counted"
    /\ \A c \in Conn : /\ conn[c] = "taken" => accept.at = "register" /\ accept.conn = c
                       /\ conn[c] = "counted" => accept.at = "spawn" /\ accept.conn = c

(* Start has not yet counted the accept loop.                              *)
Early == main \in {"start", "track"}

Order ==
    /\ accept.at = "off" <=> Early
    /\ Early => /\ wg = 0 /\ accept.perm = 0
                /\ \A c \in Conn : conn[c] \in {"none", "queued"}
    /\ main = "start" =>
           ~Stopping /\ idleTimer = NoTimer /\ \A t \in Timer : timer[t] = "free"
    /\ main = "track" /\ Stopping => shut.by \in Timer
    /\ shut.at \in {"cancel", "closeConns", "wait", "cleanup", "done"} =>
           \A c \in Conn : conn[c] # "queued"
    /\ shut.at \in {"cleanup", "done"} =>
           /\ \A c \in Conn : conn[c] = "none"
           /\ accept.at \in {"off", "accept", "ended"}
    /\ accept.at = "accept" => accept.perm < MaxPerm
    /\ accept.at \in {"register", "spawn"} => accept.perm = 0

Inv == TypeOK /\ CountersExact /\ Tracking /\ Holding /\ Order
           /\ NoTimerWhileServed /\ NoStrandedSession
-----------------------------------------------------------------------------
(* Moving one connection to another phase changes the size of each set of  *)
(* connections by one at most.                                             *)
LEMMA Move ==
    ASSUME TypeOK, NEW c \in Conn, NEW p, NEW S, GoTo(c, p)
    PROVE  /\ In(S)' = IF p \in S THEN In(S) \cup {c} ELSE In(S) \ {c}
           /\ Cardinality(In(S)) \in Nat /\ Cardinality(In(S)') \in Nat
           /\ Cardinality(In(S)') = Cardinality(In(S))
                  + (IF p \in S THEN 1 ELSE 0) - (IF conn[c] \in S THEN 1 ELSE 0)
<1>1. In(S)' = IF p \in S THEN In(S) \cup {c} ELSE In(S) \ {c}
  BY DEF TypeOK, GoTo, In
<1>2. IsFiniteSet(In(S)) /\ Cardinality(In(S)) \in Nat
  <2>1. In(S) \subseteq Conn
    BY DEF In
  <2> QED
    BY <2>1, ConnAssumption, FS_Subset, FS_CardinalityType
<1>3. c \in In(S) <=> conn[c] \in S
  BY DEF In
<1>4. CASE p \in S
  BY <1>1, <1>2, <1>3, <1>4, FS_AddElement, FS_CardinalityType
<1>5. CASE p \notin S
  <2>1. In(S)' = In(S) \ {c}
    BY <1>1, <1>5
  <2>2. /\ IsFiniteSet(In(S) \ {c})
        /\ Cardinality(In(S) \ {c}) = IF c \in In(S) THEN Cardinality(In(S)) - 1
                                                    ELSE Cardinality(In(S))
    BY <1>2, FS_RemoveElement
  <2>3. Cardinality(In(S) \ {c}) \in Nat
    BY <2>2, FS_CardinalityType
  <2> QED
    BY <1>1, <1>2, <1>3, <1>5, <2>1, <2>2, <2>3
<1> QED
  BY <1>1, <1>2, <1>4, <1>5

(* A step that moves no connection leaves every such set alone.            *)
LEMMA Stay == ASSUME UNCHANGED conn, NEW S PROVE In(S)' = In(S)
  BY DEF In

(* Each set of connections is finite, so the counters can be compared      *)
(* with its size.                                                          *)
LEMMA CountType == ASSUME NEW S PROVE IsFiniteSet(In(S)) /\ Cardinality(In(S)) \in Nat
<1>1. In(S) \subseteq Conn
  BY DEF In
<1> QED
  BY <1>1, ConnAssumption, FS_Subset, FS_CardinalityType
(* What a move means for the three sets of connections Inv counts. *)
Moved(c, p) ==
    /\ conn' = [conn EXCEPT ![c] = p]
    /\ \A S \in {Tracked, Counted} :
           /\ Cardinality(In(S)) \in Nat
           /\ Cardinality(In(S)') \in Nat
           /\ Cardinality(In(S)') = Cardinality(In(S))
                  + (IF p \in S THEN 1 ELSE 0) - (IF conn[c] \in S THEN 1 ELSE 0)
    /\ In(Registered)' = IF p \in Registered THEN In(Registered) \cup {c}
                                             ELSE In(Registered) \ {c}

(* Move, for the three sets at once.                                       *)
LEMMA Counts ==
    ASSUME TypeOK, NEW c \in Conn, NEW p \in ConnPhase, GoTo(c, p)
    PROVE  Moved(c, p)
<1>1. In(Registered)' = IF p \in Registered THEN In(Registered) \cup {c}
                                           ELSE In(Registered) \ {c}
  BY Move
<1>2. ASSUME NEW S
      PROVE  /\ Cardinality(In(S)) \in Nat
             /\ Cardinality(In(S)') \in Nat
             /\ Cardinality(In(S)') = Cardinality(In(S))
                  + (IF p \in S THEN 1 ELSE 0) - (IF conn[c] \in S THEN 1 ELSE 0)
  BY Move
<1> QED
  BY <1>1, <1>2 DEF Moved, GoTo

(* The two fragments that touch d.idleTimer keep its type, and arming does *)
(* nothing while anybody is served (server.go:399-402, 522-538).           *)
LEMMA StopTimer ==
    ASSUME TypeOK, NEW tm \in [Timer -> TimerPhase], StopIdleTimer(tm)
    PROVE  idleTimer' = NoTimer /\ timer' \in [Timer -> TimerPhase]
  BY DEF StopIdleTimer, TypeOK, TimerPhase

(* See StopTimer.                                                          *)
LEMMA ArmTimer ==
    ASSUME TypeOK, NEW tm \in [Timer -> TimerPhase], ArmLocked(tm)
    PROVE  /\ idleTimer' \in Timer \cup {NoTimer} /\ timer' \in [Timer -> TimerPhase]
           /\ Served => idleTimer' = idleTimer
  BY DEF ArmLocked, TypeOK, TimerPhase

USE DEF Early, Registered, InServe, Counted, Tracked, ConnPhase, Stopping, Served, Running, ListenerOpen

(* A step of serveConn after which the connection is counted, tracked and   *)
(* registered as before.                                                   *)
LEMMA ServeMove ==
    ASSUME Inv, NEW c \in Conn, NEW p \in Tracked, GoTo(c, p),
           conn[c] \in Tracked,
           p \in Counted <=> conn[c] \in Counted,
           p \in Registered <=> conn[c] \in Registered,
           UNCHANGED <<counters, wg, closed, accept, shut, main>>,
           idleTimer' \in Timer \cup {NoTimer},
           timer' \in [Timer -> TimerPhase],
           Served => idleTimer' = idleTimer,
           state' \in {"none", "ok", "err"}
    PROVE  Inv'
<1>1. TypeOK
  BY DEF Inv
<1>2. Moved(c, p)
  BY <1>1, Counts
<1>3. /\ In(Registered)' = In(Registered)
      /\ Cardinality(In(Counted)') = Cardinality(In(Counted))
      /\ Cardinality(In(Tracked)') = Cardinality(In(Tracked))
  <2>1. c \in In(Registered) <=> conn[c] \in Registered
    BY DEF In
  <2>2. In(Registered)' = In(Registered)
    BY <1>2, <2>1 DEF Moved
  <2> QED
    BY <1>2, <2>2 DEF Moved
<1>4. TypeOK'
  BY <1>1, <1>2 DEF TypeOK, Moved, counters
<1>5. CountersExact' /\ Tracking'
  BY <1>3 DEF Inv, CountersExact, Tracking, counters
<1>6. Holding' /\ Order'
  BY <1>1, <1>2 DEF Inv, TypeOK, Holding, Order, Moved, counters
<1>7. NoTimerWhileServed'
  BY DEF Inv, NoTimerWhileServed, counters
<1>8. NoStrandedSession'
  BY <1>1, <1>2 DEF Inv, TypeOK, NoStrandedSession, Moved, counters
<1> QED
  BY <1>4, <1>5, <1>6, <1>7, <1>8 DEF Inv

(* The steps of serveConn that ServeMove covers (server.go:409-472).      *)
LEMMA ServeMoveSteps ==
    ASSUME Inv, NEW c \in Conn,
           \/ Handshake(c) \/ AddRefused(c) \/ HandlerEnsure(c) \/ HandlerReturns(c)
           \/ ConnArmCheck(c) \/ ConnArm(c)
    PROVE  Inv'
<1>1. TypeOK
  BY DEF Inv
<1>2. CASE Handshake(c)
  BY <1>1, <1>2, ServeMove DEF Handshake, ConnOnly, others, TypeOK
<1>3. CASE AddRefused(c)
  BY <1>1, <1>3, ServeMove DEF AddRefused, ConnOnly, others, TypeOK
<1>4. CASE HandlerEnsure(c)
  BY <1>1, <1>4, ServeMove DEF HandlerEnsure, Ensure, others, TypeOK
<1>5. CASE HandlerReturns(c)
  BY <1>1, <1>5, ServeMove DEF HandlerReturns, ConnOnly, others, TypeOK
<1>6. CASE ConnArmCheck(c)
  BY <1>1, <1>6, ServeMove DEF ConnArmCheck, ConnOnly, others, TypeOK
<1>7. CASE ConnArm(c)
  <2>1. /\ idleTimer' \in Timer \cup {NoTimer} /\ timer' \in [Timer -> TimerPhase]
        /\ Served => idleTimer' = idleTimer
    BY <1>1, <1>7, ArmTimer DEF ConnArm, TypeOK
  <2> QED
    BY <1>1, <1>7, <2>1, ServeMove DEF ConnArm, others, TypeOK
<1> QED
  BY <1>2, <1>3, <1>4, <1>5, <1>6, <1>7

(* addClient: the session is registered (server.go:478-491).              *)
LEMMA AddClientStep ==
    ASSUME Inv, NEW c \in Conn, AddClient(c) PROVE Inv'
<1>1. PICK p \in {"ensure"} : GoTo(c, p) /\ conn[c] = "add"
  BY DEF AddClient
<1>2. TypeOK
  BY DEF Inv
<1>3. Moved(c, p)
  BY <1>1, <1>2, Counts
<1>4. idleTimer' = NoTimer /\ timer' \in [Timer -> TimerPhase]
  BY <1>2, StopTimer DEF AddClient, TypeOK
<1>5. CountersExact' /\ Tracking'
  <2>1. clients' = Cardinality(conns')
    <3>1. IsFiniteSet(conns) /\ c \notin conns
      BY <1>1, CountType DEF Inv, CountersExact, In
    <3> QED
      BY <3>1, FS_AddElement DEF Inv, CountersExact, AddClient
  <2>2. conns' = In(Registered)'
    <3>1. c \in In(Registered) <=> conn[c] \in Registered
      BY DEF In
    <3> QED
      BY <1>1, <1>3, <3>1 DEF Inv, CountersExact, AddClient, ConnOnly, counters, others, Moved
  <2>3. inFlight' = Cardinality(In(Counted)')
    BY <1>1, <1>2, <1>3 DEF Inv, CountersExact, TypeOK, AddClient, ConnOnly, counters, others, Moved
  <2>4. wg' = Cardinality(In(Tracked)') + (IF accept'.at \in LiveAccept THEN 1 ELSE 0)
    BY <1>1, <1>2, <1>3 DEF Inv, Tracking, TypeOK, LiveAccept, AddClient, ConnOnly, counters, others, Moved
  <2> QED
    BY <2>1, <2>2, <2>3, <2>4 DEF CountersExact, Tracking
<1>6. TypeOK'
  BY <1>1, <1>2, <1>3, <1>4, <1>5, BoundsAssumption DEF CountersExact, Tracking, TypeOK, AcceptPhase, AddClient, ConnOnly, counters, others, Moved, Ensure
<1>7. Holding' /\ Order'
  BY <1>1, <1>2, <1>3 DEF Inv, TypeOK, Holding, Order, Tracking, AddClient, ConnOnly, counters, others, Moved
<1>8. NoTimerWhileServed' /\ NoStrandedSession'
  BY <1>1, <1>2, <1>3, <1>4 DEF Inv, TypeOK, NoTimerWhileServed, NoStrandedSession, AddClient, ConnOnly, counters, others, Moved
<1> QED
  BY <1>5, <1>6, <1>7, <1>8 DEF Inv

(* dropClient: the session is unregistered (server.go:509-520).           *)
LEMMA DropClientStep ==
    ASSUME Inv, NEW c \in Conn, DropClient(c) PROVE Inv'
<1>1. PICK p \in {"dropArm", "finish"} : GoTo(c, p) /\ conn[c] = "drop"
  BY DEF DropClient
<1>2. TypeOK
  BY DEF Inv
<1>3. Moved(c, p)
  BY <1>1, <1>2, Counts
<1>4. idleTimer' = idleTimer /\ timer' = timer
  BY DEF DropClient, ConnOnly
<1>5. CountersExact' /\ Tracking'
  <2>1. clients' = Cardinality(conns')
    <3>1. IsFiniteSet(conns) /\ c \in conns
      BY <1>1, CountType DEF Inv, CountersExact, In
    <3>2. IsFiniteSet(conns \ {c}) /\ Cardinality(conns \ {c}) = Cardinality(conns) - 1
      BY <3>1, FS_RemoveElement
    <3>3. Cardinality(conns \ {c}) \in Nat /\ Cardinality(conns) \in Nat
      BY <3>1, <3>2, FS_CardinalityType
    <3> QED
      BY <3>2, <3>3 DEF Inv, CountersExact, DropClient
  <2>2. conns' = In(Registered)'
    <3>1. c \in In(Registered) <=> conn[c] \in Registered
      BY DEF In
    <3> QED
      BY <1>1, <1>3, <3>1 DEF Inv, CountersExact, DropClient, ConnOnly, counters, others, Moved
  <2>3. inFlight' = Cardinality(In(Counted)')
    BY <1>1, <1>2, <1>3 DEF Inv, CountersExact, TypeOK, DropClient, ConnOnly, counters, others, Moved
  <2>4. wg' = Cardinality(In(Tracked)') + (IF accept'.at \in LiveAccept THEN 1 ELSE 0)
    BY <1>1, <1>2, <1>3 DEF Inv, Tracking, TypeOK, LiveAccept, DropClient, ConnOnly, counters, others, Moved
  <2> QED
    BY <2>1, <2>2, <2>3, <2>4 DEF CountersExact, Tracking
<1>6. TypeOK'
  BY <1>1, <1>2, <1>3, <1>4, <1>5, BoundsAssumption DEF CountersExact, Tracking, TypeOK, AcceptPhase, DropClient, ConnOnly, counters, others, Moved, Ensure
<1>7. Holding' /\ Order'
  BY <1>1, <1>2, <1>3 DEF Inv, TypeOK, Holding, Order, Tracking, DropClient, ConnOnly, counters, others, Moved
<1>8. NoTimerWhileServed' /\ NoStrandedSession'
  BY <1>1, <1>2, <1>3, <1>4 DEF Inv, TypeOK, NoTimerWhileServed, NoStrandedSession, DropClient, ConnOnly, counters, others, Moved
<1> QED
  BY <1>5, <1>6, <1>7, <1>8 DEF Inv

(* finishConn: the connection leaves d.inFlight (server.go:497-507).      *)
LEMMA FinishConnStep ==
    ASSUME Inv, NEW c \in Conn, FinishConn(c) PROVE Inv'
<1>1. PICK p \in {"finArm", "close"} : GoTo(c, p) /\ conn[c] = "finish"
  BY DEF FinishConn
<1>2. TypeOK
  BY DEF Inv
<1>3. Moved(c, p)
  BY <1>1, <1>2, Counts
<1>4. idleTimer' = idleTimer /\ timer' = timer
  BY DEF FinishConn, ConnOnly
<1>5. CountersExact' /\ Tracking'
  <2>1. clients' = Cardinality(conns')
    BY <1>1, <1>2, <1>3 DEF Inv, CountersExact, FinishConn, ConnOnly, counters, others, Moved
  <2>2. conns' = In(Registered)'
    <3>1. c \in In(Registered) <=> conn[c] \in Registered
      BY DEF In
    <3> QED
      BY <1>1, <1>3, <3>1 DEF Inv, CountersExact, FinishConn, ConnOnly, counters, others, Moved
  <2>3. inFlight' = Cardinality(In(Counted)')
    BY <1>1, <1>2, <1>3 DEF Inv, CountersExact, TypeOK, FinishConn, ConnOnly, counters, others, Moved
  <2>4. wg' = Cardinality(In(Tracked)') + (IF accept'.at \in LiveAccept THEN 1 ELSE 0)
    BY <1>1, <1>2, <1>3 DEF Inv, Tracking, TypeOK, LiveAccept, FinishConn, ConnOnly, counters, others, Moved
  <2> QED
    BY <2>1, <2>2, <2>3, <2>4 DEF CountersExact, Tracking
<1>6. TypeOK'
  BY <1>1, <1>2, <1>3, <1>4, <1>5, BoundsAssumption DEF CountersExact, Tracking, TypeOK, AcceptPhase, FinishConn, ConnOnly, counters, others, Moved, Ensure
<1>7. Holding' /\ Order'
  BY <1>1, <1>2, <1>3 DEF Inv, TypeOK, Holding, Order, Tracking, FinishConn, ConnOnly, counters, others, Moved
<1>8. NoTimerWhileServed' /\ NoStrandedSession'
  BY <1>1, <1>2, <1>3, <1>4 DEF Inv, TypeOK, NoTimerWhileServed, NoStrandedSession, FinishConn, ConnOnly, counters, others, Moved
<1> QED
  BY <1>5, <1>6, <1>7, <1>8 DEF Inv

(* The goroutine of a connection ends: wg.Done (server.go:410).           *)
LEMMA CloseConnStep ==
    ASSUME Inv, NEW c \in Conn, CloseConn(c) PROVE Inv'
<1>1. PICK p \in {"none"} : GoTo(c, p) /\ conn[c] = "close"
  BY DEF CloseConn
<1>2. TypeOK
  BY DEF Inv
<1>3. Moved(c, p)
  BY <1>1, <1>2, Counts
<1>4. idleTimer' = idleTimer /\ timer' = timer
  BY DEF CloseConn, ConnOnly
<1>5. CountersExact' /\ Tracking'
  <2>1. clients' = Cardinality(conns')
    BY <1>1, <1>2, <1>3 DEF Inv, CountersExact, CloseConn, ConnOnly, counters, others, Moved
  <2>2. conns' = In(Registered)'
    <3>1. conn[c] \notin Registered /\ p \notin Registered
      BY <1>1
    <3>2. c \notin In(Registered)
      BY <3>1 DEF In
    <3>3. In(Registered)' = In(Registered) \ {c}
      BY <1>3, <3>1 DEF Moved
    <3>4. conns' = conns /\ conns = In(Registered)
      BY DEF Inv, CountersExact, CloseConn, counters
    <3> QED
      BY <3>2, <3>3, <3>4
  <2>3. inFlight' = Cardinality(In(Counted)')
    BY <1>1, <1>2, <1>3 DEF Inv, CountersExact, TypeOK, CloseConn, ConnOnly, counters, others, Moved
  <2>4. wg' = Cardinality(In(Tracked)') + (IF accept'.at \in LiveAccept THEN 1 ELSE 0)
    BY <1>1, <1>2, <1>3 DEF Inv, Tracking, TypeOK, LiveAccept, CloseConn, ConnOnly, counters, others, Moved
  <2> QED
    BY <2>1, <2>2, <2>3, <2>4 DEF CountersExact, Tracking
<1>6. TypeOK'
  BY <1>1, <1>2, <1>3, <1>4, <1>5, BoundsAssumption DEF CountersExact, Tracking, TypeOK, AcceptPhase, CloseConn, ConnOnly, counters, others, Moved, Ensure
<1>7. Holding' /\ Order'
  BY <1>1, <1>2, <1>3 DEF Inv, TypeOK, Holding, Order, Tracking, CloseConn, ConnOnly, counters, others, Moved
<1>8. NoTimerWhileServed' /\ NoStrandedSession'
  BY <1>1, <1>2, <1>3, <1>4 DEF Inv, TypeOK, NoTimerWhileServed, NoStrandedSession, CloseConn, ConnOnly, counters, others, Moved
<1> QED
  BY <1>5, <1>6, <1>7, <1>8 DEF Inv

(* A client dials.                                                        *)
LEMMA DialStep ==
    ASSUME Inv, NEW c \in Conn, Dial(c) PROVE Inv'
<1>1. PICK p \in {"queued"} : GoTo(c, p) /\ conn[c] = "none"
  BY DEF Dial
<1>2. TypeOK
  BY DEF Inv
<1>3. Moved(c, p)
  BY <1>1, <1>2, Counts
<1>4. idleTimer' = idleTimer /\ timer' = timer
  BY DEF Dial, ConnOnly
<1>5. CountersExact' /\ Tracking'
  <2>1. clients' = Cardinality(conns')
    BY <1>1, <1>2, <1>3 DEF Inv, CountersExact, Dial, ConnOnly, counters, others, Moved
  <2>2. conns' = In(Registered)'
    <3>1. c \in In(Registered) <=> conn[c] \in Registered
      BY DEF In
    <3> QED
      BY <1>1, <1>3, <3>1 DEF Inv, CountersExact, Dial, ConnOnly, counters, others, Moved
  <2>3. inFlight' = Cardinality(In(Counted)')
    BY <1>1, <1>2, <1>3 DEF Inv, CountersExact, TypeOK, Dial, ConnOnly, counters, others, Moved
  <2>4. wg' = Cardinality(In(Tracked)') + (IF accept'.at \in LiveAccept THEN 1 ELSE 0)
    BY <1>1, <1>2, <1>3 DEF Inv, Tracking, TypeOK, LiveAccept, Dial, ConnOnly, counters, others, Moved
  <2> QED
    BY <2>1, <2>2, <2>3, <2>4 DEF CountersExact, Tracking
<1>6. TypeOK'
  BY <1>1, <1>2, <1>3, <1>4, <1>5, BoundsAssumption DEF CountersExact, Tracking, TypeOK, AcceptPhase, Dial, ConnOnly, counters, others, Moved, Ensure
<1>7. Holding' /\ Order'
  BY <1>1, <1>2, <1>3 DEF Inv, TypeOK, Holding, Order, Tracking, Dial, ConnOnly, counters, others, Moved
<1>8. NoTimerWhileServed' /\ NoStrandedSession'
  BY <1>1, <1>2, <1>3, <1>4 DEF Inv, TypeOK, NoTimerWhileServed, NoStrandedSession, Dial, ConnOnly, counters, others, Moved
<1> QED
  BY <1>5, <1>6, <1>7, <1>8 DEF Inv

(* Accept returns a connection (server.go:359).                           *)
LEMMA AcceptConnStep ==
    ASSUME Inv, NEW c \in Conn, AcceptConn(c) PROVE Inv'
<1>1. PICK p \in {"taken"} : GoTo(c, p) /\ conn[c] = "queued"
  BY DEF AcceptConn
<1>2. TypeOK
  BY DEF Inv
<1>3. Moved(c, p)
  BY <1>1, <1>2, Counts
<1>4. idleTimer' = idleTimer /\ timer' = timer
  BY DEF AcceptConn, ConnOnly
<1>5. CountersExact' /\ Tracking'
  <2>1. clients' = Cardinality(conns')
    BY <1>1, <1>2, <1>3 DEF Inv, CountersExact, AcceptConn, ConnOnly, counters, others, Moved
  <2>2. conns' = In(Registered)'
    <3>1. c \in In(Registered) <=> conn[c] \in Registered
      BY DEF In
    <3> QED
      BY <1>1, <1>3, <3>1 DEF Inv, CountersExact, AcceptConn, ConnOnly, counters, others, Moved
  <2>3. inFlight' = Cardinality(In(Counted)')
    BY <1>1, <1>2, <1>3 DEF Inv, CountersExact, TypeOK, AcceptConn, ConnOnly, counters, others, Moved
  <2>4. wg' = Cardinality(In(Tracked)') + (IF accept'.at \in LiveAccept THEN 1 ELSE 0)
    BY <1>1, <1>2, <1>3 DEF Inv, Tracking, TypeOK, LiveAccept, AcceptConn, ConnOnly, counters, others, Moved
  <2> QED
    BY <2>1, <2>2, <2>3, <2>4 DEF CountersExact, Tracking
<1>6. TypeOK'
  BY <1>1, <1>2, <1>3, <1>4, <1>5, BoundsAssumption DEF CountersExact, Tracking, TypeOK, AcceptPhase, AcceptConn, ConnOnly, counters, others, Moved, Ensure
<1>7. Holding' /\ Order'
  BY <1>1, <1>2, <1>3 DEF Inv, TypeOK, Holding, Order, Tracking, AcceptConn, ConnOnly, counters, others, Moved
<1>8. NoTimerWhileServed' /\ NoStrandedSession'
  BY <1>1, <1>2, <1>3, <1>4 DEF Inv, TypeOK, NoTimerWhileServed, NoStrandedSession, AcceptConn, ConnOnly, counters, others, Moved
<1> QED
  BY <1>5, <1>6, <1>7, <1>8 DEF Inv

(* The phases after the listener is closed.                               *)
Late == {"cancel", "closeConns", "wait", "cleanup", "done"}

(* An empty wait group under a closed listener leaves nobody, and an       *)
(* accept loop that ended or was never counted (server.go:331-333).        *)
LEMMA Drained ==
    ASSUME Inv, wg = 0, shut.at \in Late
    PROVE  (\A c \in Conn : conn[c] = "none") /\ accept.at \in {"off", "ended"}
<1>1. IsFiniteSet(In(Tracked)) /\ Cardinality(In(Tracked)) \in Nat
  BY CountType
<1>2. Cardinality(In(Tracked)) = 0 /\ accept.at \notin LiveAccept
  BY <1>1 DEF Inv, Tracking
<1>3. In(Tracked) = {}
  BY <1>1, <1>2, FS_EmptySet
<1>4. accept.at \in {"off", "ended"}
  BY <1>2 DEF Inv, TypeOK, AcceptPhase, LiveAccept
<1>5. \A c \in Conn : conn[c] = "none"
  BY <1>3, <1>4 DEF Inv, TypeOK, Order, Holding, In, Late
<1> QED
  BY <1>4, <1>5

(* A step that touches neither the connections nor the accept loop.       *)
LEMMA Quiet ==
    ASSUME Inv, UNCHANGED <<counters, wg, closed, conn, accept>>,
           idleTimer' \in Timer \cup {NoTimer},
           timer' \in [Timer -> TimerPhase],
           Served => idleTimer' \in {idleTimer, NoTimer},
           shut' \in [by : {"nobody", "main", "accept", "watchdog", "signal"} \cup Timer,
                      at : ShutPhase],
           shut'.at \in Late => shut.at \in Late,
           shut'.at \in {"wait", "cleanup", "done"} => shut.at \in {"wait", "cleanup", "done"},
           shut'.at \in {"cleanup", "done"} => shut.at \in {"cleanup", "done"} \/ wg = 0,
           main = "track" /\ shut'.at # "none" => shut'.by \in Timer,
           state' \in {"none", "ok", "err"},
           main # "start", main' \in MainPhase \ {"start"}, Early' <=> Early
    PROVE  Inv'
<1>1. TypeOK
  BY DEF Inv
<1>2. /\ In(Registered)' = In(Registered)
      /\ In(Counted)' = In(Counted) /\ In(Tracked)' = In(Tracked)
  BY Stay
<1>3. TypeOK'
  BY <1>1 DEF TypeOK, counters
<1>4. CountersExact' /\ Tracking'
  BY <1>2 DEF Inv, CountersExact, Tracking, counters
<1>5. Holding' /\ Order'
  <2>1. Holding'
    BY <1>1 DEF Inv, Holding
  <2>2. shut'.at \in {"cleanup", "done"} =>
            (\A c \in Conn : conn[c] = "none") /\ accept.at \in {"off", "accept", "ended"}
    <3>1. ASSUME shut'.at \in {"cleanup", "done"}, wg = 0
          PROVE  (\A c \in Conn : conn[c] = "none") /\ accept.at \in {"off", "ended"}
      BY <3>1, Drained DEF Late
    <3> QED
      BY <3>1 DEF Inv, Order
  <2> QED
    BY <1>1, <2>1, <2>2 DEF Inv, Order, Late
<1>6. NoTimerWhileServed' /\ NoStrandedSession'
  BY DEF Inv, NoTimerWhileServed, NoStrandedSession, counters
<1> QED
  BY <1>3, <1>4, <1>5, <1>6 DEF Inv

(* The steps Quiet covers.                                                *)
LEMMA QuietSteps ==
    ASSUME Inv,
           \/ OnReady \/ StopOnReadyFailed \/ Exit \/ WatchRoot \/ StopOnSignal
           \/ BeginShutdown \/ Cancel \/ AwaitDrain \/ Cleanup
    PROVE  Inv'
<1>1. TypeOK
  BY DEF Inv
<1>2. main # "start" /\ (main = "track" /\ Stopping => shut.by \in Timer)
  BY DEF Inv, Order, OnReady, StopOnReadyFailed, Exit, WatchRoot, StopOnSignal,
         BeginShutdown, Cancel, AwaitDrain, Cleanup
<1>3. CASE OnReady
  BY <1>1, <1>2, <1>3, Quiet DEF OnReady, Ensure, TypeOK, ShutPhase, MainPhase, Late, others
<1>4. CASE StopOnReadyFailed
  BY <1>1, <1>2, <1>4, Quiet DEF StopOnReadyFailed, Win, TypeOK, ShutPhase, MainPhase, Late, others
<1>5. CASE Exit
  BY <1>1, <1>2, <1>5, Quiet DEF Exit, TypeOK, ShutPhase, MainPhase, Late, others
<1>6. CASE WatchRoot
  <2>1. idleTimer' = NoTimer /\ timer' \in [Timer -> TimerPhase]
    BY <1>1, <1>6, StopTimer DEF WatchRoot, StopIdle, TypeOK
  <2> QED
    BY <1>1, <1>2, <1>6, <2>1, Quiet DEF WatchRoot, StopIdle, TypeOK, ShutPhase, MainPhase, Late, others
<1>7. CASE StopOnSignal
  BY <1>1, <1>2, <1>7, Quiet DEF StopOnSignal, Win, TypeOK, ShutPhase, MainPhase, Late, others
<1>8. CASE BeginShutdown
  <2>1. idleTimer' = NoTimer /\ timer' \in [Timer -> TimerPhase]
    BY <1>1, <1>8, StopTimer DEF BeginShutdown, TypeOK
  <2> QED
    BY <1>1, <1>2, <1>8, <2>1, Quiet
    DEF BeginShutdown, ShutTo, TypeOK, ShutPhase, MainPhase, Late, others
<1>9. CASE Cancel
  BY <1>1, <1>2, <1>9, Quiet DEF Cancel, ShutTo, TypeOK, ShutPhase, MainPhase, Late, others
<1>10. CASE AwaitDrain
  BY <1>1, <1>2, <1>10, Quiet DEF AwaitDrain, ShutTo, TypeOK, ShutPhase, MainPhase, Late, others
<1>11. CASE Cleanup
  BY <1>1, <1>2, <1>11, Quiet
  DEF Cleanup, ShutTo, TypeOK, ShutPhase, MainPhase, Late, others
<1> QED
  BY <1>3, <1>4, <1>5, <1>6, <1>7, <1>8, <1>9, <1>10, <1>11

(* The idle-timer callback (server.go:275-296, 522-538).                  *)
LEMMA TimerSteps == ASSUME Inv, NEW t \in Timer, TimerStep(t) PROVE Inv'
<1>1. TypeOK
  BY DEF Inv
<1>2. main # "start" /\ (main = "track" /\ Stopping => shut.by \in Timer)
  BY DEF Inv, Order, TimerStep, TimerFires, TimerStopIfIdle, TimerRearm
<1>3. \A p \in TimerPhase : [timer EXCEPT ![t] = p] \in [Timer -> TimerPhase]
  BY <1>1 DEF TypeOK
<1>4. {"free", "fired", "rearm", "rearmLock", "stopper"} \subseteq TimerPhase
  BY DEF TimerPhase
<1>5. CASE TimerFires(t)
  BY <1>1, <1>2, <1>3, <1>4, <1>5, Quiet DEF TimerFires, TypeOK, ShutPhase, MainPhase, Late, others
<1>6. CASE TimerStopIfIdle(t)
  <2>1. CASE CanStopIdle
    <3>1. idleTimer' = NoTimer /\ timer' \in [Timer -> TimerPhase]
      BY <1>1, <1>3, <1>4, <1>6, <2>1, StopTimer DEF TimerStopIfIdle, StopIdle
    <3> QED
      BY <1>1, <1>2, <1>6, <2>1, <3>1, Quiet
      DEF TimerStopIfIdle, StopIdle, TypeOK, ShutPhase, MainPhase, Late, others
  <2>2. CASE ~CanStopIdle
    BY <1>1, <1>2, <1>3, <1>4, <1>6, <2>2, Quiet
    DEF TimerStopIfIdle, TypeOK, ShutPhase, MainPhase, Late, others
  <2> QED
    BY <2>1, <2>2
<1>7. CASE TimerRearm(t)
  <2>1. /\ idleTimer' \in Timer \cup {NoTimer} /\ timer' \in [Timer -> TimerPhase]
        /\ Served => idleTimer' = idleTimer
    <3>1. CASE timer[t] = "rearm"
      BY <1>1, <1>3, <1>4, <1>7, <3>1 DEF TypeOK, TimerRearm
    <3>2. CASE timer[t] = "rearmLock"
      BY <1>1, <1>3, <1>4, <1>7, <3>2, ArmTimer DEF TypeOK, TimerRearm
    <3> QED
      BY <1>7, <3>1, <3>2 DEF TimerRearm
  <2> QED
    BY <1>1, <1>2, <1>7, <2>1, Quiet DEF TimerRearm, TypeOK, ShutPhase, MainPhase, Late, others
<1> QED
  BY <1>5, <1>6, <1>7 DEF TimerStep

(* Start arms the idle timer (server.go:171).                             *)
LEMMA StartStep ==
    ASSUME Inv, Start PROVE Inv'
<1>0. TypeOK
  BY DEF Inv
<1>1. /\ main = "start" /\ main' = "track"
      /\ UNCHANGED <<counters, wg, closed, conn, accept, shut, state>>
  BY DEF Start
<1>2. /\ idleTimer' \in Timer \cup {NoTimer} /\ timer' \in [Timer -> TimerPhase]
      /\ Served => idleTimer' = idleTimer
  <2>1. CASE IdleEnabled
    BY <1>0, <2>1, ArmTimer DEF Start, TypeOK
  <2>2. CASE ~IdleEnabled
    BY <1>0, <2>2 DEF Start, TypeOK
  <2> QED
    BY <2>1, <2>2, BoundsAssumption
<1>3. /\ In(Registered)' = In(Registered)
      /\ In(Counted)' = In(Counted) /\ In(Tracked)' = In(Tracked)
  BY <1>1, Stay
<1>4. CountersExact' /\ Tracking'
  BY <1>1, <1>3 DEF Inv, CountersExact, Tracking, counters
<1>5. TypeOK'
  BY <1>0, <1>1, <1>2 DEF TypeOK, MainPhase, counters
<1>6. Holding' /\ Order'
  BY <1>0, <1>1 DEF Inv, Holding, Order, counters
<1>7. NoTimerWhileServed' /\ NoStrandedSession'
  BY <1>1, <1>2 DEF Inv, NoTimerWhileServed, NoStrandedSession, counters
<1> QED
  BY <1>4, <1>5, <1>6, <1>7 DEF Inv

(* Start counts and starts the accept loop (server.go:173-185).           *)
LEMMA StartAcceptLoopStep ==
    ASSUME Inv, StartAcceptLoop PROVE Inv'
<1>0. TypeOK
  BY DEF Inv
<1>1. /\ main = "track" /\ main' = "onReady" /\ wg' = wg + 1
      /\ accept' = [accept EXCEPT !.at = "accept"]
      /\ UNCHANGED <<counters, idleTimer, closed, conn, timer, shut, state>>
  BY DEF StartAcceptLoop, GoAcceptLoop
<1>2. /\ In(Registered)' = In(Registered)
      /\ In(Counted)' = In(Counted) /\ Cardinality(In(Counted)) \in Nat
      /\ In(Tracked)' = In(Tracked) /\ Cardinality(In(Tracked)) \in Nat
  BY <1>1, Stay, CountType
<1>3. accept.at = "off" /\ wg = 0 /\ accept.perm = 0
  BY <1>1 DEF Inv, Order
<1>4. CountersExact' /\ Tracking'
  BY <1>0, <1>1, <1>2, <1>3 DEF Inv, CountersExact, Tracking, TypeOK, LiveAccept, counters
<1>5. TypeOK'
  BY <1>0, <1>1, <1>3 DEF TypeOK, AcceptPhase, MainPhase, counters
<1>6. Holding' /\ Order'
  BY <1>0, <1>1, <1>3, BoundsAssumption DEF Inv, TypeOK, Holding, Order, counters
<1>7. NoTimerWhileServed' /\ NoStrandedSession'
  BY <1>0, <1>1 DEF Inv, TypeOK, NoTimerWhileServed, NoStrandedSession, counters
<1> QED
  BY <1>4, <1>5, <1>6, <1>7 DEF Inv

(* acceptLoop returns once the listener is closed.                        *)
LEMMA AcceptClosedStep ==
    ASSUME Inv, AcceptClosed PROVE Inv'
<1>1. TypeOK
  BY DEF Inv
<1>2. /\ In(Registered)' = In(Registered)
      /\ In(Counted)' = In(Counted) /\ Cardinality(In(Counted)) \in Nat
      /\ In(Tracked)' = In(Tracked) /\ Cardinality(In(Tracked)) \in Nat
  BY Stay, CountType DEF AcceptClosed, counters, others
<1>3. /\ idleTimer' \in Timer \cup {NoTimer} /\ timer' \in [Timer -> TimerPhase]
      /\ clients > 0 \/ inFlight > 0 => idleTimer' \in {idleTimer, NoTimer}
  BY <1>1 DEF AcceptClosed, counters, others, TypeOK
<1>4. CountersExact' /\ Tracking'
  BY <1>1, <1>2 DEF Inv, Order, CountersExact, Tracking, TypeOK, LiveAccept, AcceptClosed, counters, others
<1>5. TypeOK'
  BY <1>1, <1>2, <1>3, <1>4, BoundsAssumption
  DEF CountersExact, Tracking, TypeOK, AcceptPhase, ShutPhase, MainPhase, AcceptClosed, counters, others
<1>6. Holding' /\ Order'
  BY <1>1, <1>2, BoundsAssumption DEF Inv, TypeOK, Holding, Order, Tracking, LiveAccept, AcceptClosed, counters, others
<1>7. NoTimerWhileServed'
  BY <1>3 DEF Inv, NoTimerWhileServed, AcceptClosed, counters, others
<1>8. NoStrandedSession'
  BY DEF Inv, NoStrandedSession, AcceptClosed, counters, others
<1> QED
  BY <1>4, <1>5, <1>6, <1>7, <1>8 DEF Inv

(* acceptLoop after MaxPerm permanent errors (server.go:374-378).         *)
LEMMA AcceptGivesUpStep ==
    ASSUME Inv, AcceptGivesUp PROVE Inv'
<1>1. TypeOK
  BY DEF Inv
<1>2. /\ In(Registered)' = In(Registered)
      /\ In(Counted)' = In(Counted) /\ Cardinality(In(Counted)) \in Nat
      /\ In(Tracked)' = In(Tracked) /\ Cardinality(In(Tracked)) \in Nat
  BY Stay, CountType DEF AcceptGivesUp, Win, counters, others
<1>3. /\ idleTimer' \in Timer \cup {NoTimer} /\ timer' \in [Timer -> TimerPhase]
      /\ clients > 0 \/ inFlight > 0 => idleTimer' \in {idleTimer, NoTimer}
  BY <1>1 DEF AcceptGivesUp, Win, counters, others, TypeOK
<1>4. CountersExact' /\ Tracking'
  BY <1>1, <1>2 DEF Inv, Order, CountersExact, Tracking, TypeOK, LiveAccept, AcceptGivesUp, Win, counters, others
<1>5. TypeOK'
  BY <1>1, <1>2, <1>3, <1>4, BoundsAssumption
  DEF CountersExact, Tracking, TypeOK, AcceptPhase, ShutPhase, MainPhase, AcceptGivesUp, Win, counters, others
<1>6. Holding' /\ Order'
  BY <1>1, <1>2, BoundsAssumption DEF Inv, TypeOK, Holding, Order, Tracking, LiveAccept, AcceptGivesUp, Win, counters, others
<1>7. NoTimerWhileServed'
  BY <1>3 DEF Inv, NoTimerWhileServed, AcceptGivesUp, Win, counters, others
<1>8. NoStrandedSession'
  BY DEF Inv, NoStrandedSession, AcceptGivesUp, Win, counters, others
<1> QED
  BY <1>4, <1>5, <1>6, <1>7, <1>8 DEF Inv

(* finishShutdown closes the registered connections (server.go:326-330).  *)
LEMMA CloseConnsStep ==
    ASSUME Inv, CloseConns PROVE Inv'
<1>0. TypeOK
  BY DEF Inv
<1>1. /\ shut.at = "closeConns" /\ shut' = [shut EXCEPT !.at = "wait"]
      /\ closed' = conns
      /\ UNCHANGED <<counters, idleTimer, wg, conn, timer, accept, others>>
  BY DEF CloseConns, ShutTo
<1>2. /\ In(Registered)' = In(Registered)
      /\ In(Counted)' = In(Counted) /\ Cardinality(In(Counted)) \in Nat
      /\ In(Tracked)' = In(Tracked) /\ Cardinality(In(Tracked)) \in Nat
  BY <1>1, Stay, CountType
<1>3. /\ idleTimer' \in Timer \cup {NoTimer} /\ timer' \in [Timer -> TimerPhase]
      /\ clients > 0 \/ inFlight > 0 => idleTimer' \in {idleTimer, NoTimer}
  BY <1>0, <1>1 DEF TypeOK
<1>4. CountersExact' /\ Tracking'
  BY <1>1, <1>0, <1>2 DEF Inv, Order, CountersExact, Tracking, TypeOK, LiveAccept, counters, others
<1>5. TypeOK'
  BY <1>1, <1>0, <1>2, <1>3, <1>4, BoundsAssumption
  DEF CountersExact, Tracking, TypeOK, AcceptPhase, ShutPhase, MainPhase, counters, others
<1>6. Holding' /\ Order'
  BY <1>1, <1>0, <1>2, <1>3, BoundsAssumption
  DEF Inv, TypeOK, Holding, Order, Tracking, LiveAccept, counters, others
<1>7. NoTimerWhileServed'
  BY <1>1, <1>0, <1>3 DEF Inv, TypeOK, NoTimerWhileServed, counters, others
<1>8. NoStrandedSession'
  BY <1>1, <1>2 DEF Inv, CountersExact, NoStrandedSession, In, counters, others
<1> QED
  BY <1>4, <1>5, <1>6, <1>7, <1>8 DEF Inv

(* An error of Accept (server.go:361-386).                                *)
LEMMA AcceptErrorStep ==
    ASSUME Inv, AcceptError PROVE Inv'
<1>0. TypeOK
  BY DEF Inv
<1>1. /\ accept.at = "accept" /\ main # "start"
      /\ \/ Stopping /\ accept' = [accept EXCEPT !.at = "ended"] /\ wg' = wg - 1
         \/ /\ ~Stopping /\ wg' = wg
            /\ accept' \in [at : AcceptPhase, conn : Conn \cup {NoConn}, perm : 0 .. MaxPerm]
            /\ \/ accept'.at = "giveUp"
               \/ accept'.at = "accept" /\ accept'.perm < MaxPerm
      /\ UNCHANGED <<counters, idleTimer, closed, conn, timer, shut, others>>
  <2>1. accept.at = "accept" /\ main # "start" /\ accept.perm < MaxPerm /\ accept.perm \in 0 .. MaxPerm
    BY <1>0 DEF AcceptError, Inv, Order, TypeOK
  <2>3. CASE Stopping
    BY <2>1, <2>3 DEF AcceptError
  <2>4. CASE ~Stopping
    <3>1. \/ accept' = [accept EXCEPT !.perm = 0]
          \/ /\ accept.perm + 1 < MaxPerm
             /\ accept' = [accept EXCEPT !.perm = accept.perm + 1]
          \/ accept' = [accept EXCEPT !.at = "giveUp", !.perm = accept.perm + 1]
      BY <2>4 DEF AcceptError
    <3>2. /\ 0 \in 0 .. MaxPerm /\ 0 < MaxPerm
          /\ accept.perm + 1 \in 0 .. MaxPerm
          /\ "accept" \in AcceptPhase /\ "giveUp" \in AcceptPhase
      BY <2>1, BoundsAssumption DEF AcceptPhase
    <3>3. accept \in [at : AcceptPhase, conn : Conn \cup {NoConn}, perm : 0 .. MaxPerm]
      BY <1>0 DEF TypeOK
    <3> QED
      BY <2>1, <2>4, <3>1, <3>2, <3>3 DEF AcceptError
  <2> QED
    BY <2>3, <2>4
<1>2. /\ In(Registered)' = In(Registered)
      /\ In(Counted)' = In(Counted) /\ Cardinality(In(Counted)) \in Nat
      /\ In(Tracked)' = In(Tracked) /\ Cardinality(In(Tracked)) \in Nat
  BY <1>1, Stay, CountType
<1>3. /\ idleTimer' \in Timer \cup {NoTimer} /\ timer' \in [Timer -> TimerPhase]
      /\ clients > 0 \/ inFlight > 0 => idleTimer' \in {idleTimer, NoTimer}
  BY <1>0, <1>1 DEF TypeOK
<1>4. CountersExact' /\ Tracking'
  BY <1>1, <1>0, <1>2 DEF Inv, Order, CountersExact, Tracking, TypeOK, LiveAccept, counters, others
<1>5. TypeOK'
  BY <1>1, <1>0, <1>2, <1>3, <1>4, BoundsAssumption
  DEF CountersExact, Tracking, TypeOK, AcceptPhase, ShutPhase, MainPhase, counters, others
<1>6. Holding' /\ Order'
  BY <1>1, <1>0, <1>2, <1>3, BoundsAssumption
  DEF Inv, TypeOK, Holding, Order, Tracking, LiveAccept, counters, others
<1>7. NoTimerWhileServed'
  BY <1>1, <1>0, <1>3 DEF Inv, TypeOK, NoTimerWhileServed, counters, others
<1>8. NoStrandedSession'
  BY <1>1, <1>2 DEF Inv, CountersExact, NoStrandedSession, In, counters, others
<1> QED
  BY <1>4, <1>5, <1>6, <1>7, <1>8 DEF Inv

(* The accepted connection is counted in flight (server.go:387-403).      *)
LEMMA RegisterStep ==
    ASSUME Inv, Register PROVE Inv'
<1>0. /\ accept.conn \in Conn /\ conn[accept.conn] = "taken"
      /\ GoTo(accept.conn, "counted")
  BY DEF Register, Inv, Holding
<1>1. TypeOK
  BY DEF Inv
<1>2. Moved(accept.conn, "counted")
  BY <1>0, <1>1, Counts DEF Register
<1>3. /\ idleTimer' \in Timer \cup {NoTimer} /\ timer' \in [Timer -> TimerPhase]
      /\ clients > 0 \/ inFlight > 0 => idleTimer' \in {idleTimer, NoTimer}
      /\ inFlight' # inFlight => idleTimer' = NoTimer
  BY <1>1, StopTimer DEF TypeOK, Register, counters, others
<1>4. CountersExact' /\ Tracking'
  <2>1. In(Registered)' = In(Registered)
    <3>1. accept.conn \notin In(Registered)
      BY <1>0 DEF In
    <3> QED
      BY <1>2, <3>1 DEF Moved
  <2> QED
    BY <1>0, <1>1, <1>2, <2>1 DEF Inv, CountersExact, Tracking, TypeOK, LiveAccept, Moved, Register, counters, others
<1>5. TypeOK'
  <2>1. Cardinality(In(Tracked)') \in Nat /\ Cardinality(In(Counted)') \in Nat
    BY <1>2 DEF Moved
  <2>2. wg' \in Nat /\ clients' \in Nat /\ inFlight' \in Nat
    BY <1>1, <1>4, <2>1 DEF CountersExact, Tracking, TypeOK, Register, counters, others
  <2>3. accept' \in [at : AcceptPhase, conn : Conn \cup {NoConn}, perm : 0 .. MaxPerm]
    BY <1>0, <1>1 DEF TypeOK, AcceptPhase, Register, counters, others
  <2> QED
    BY <1>0, <1>1, <1>2, <1>3, <2>2, <2>3 DEF TypeOK, Moved, Register, counters, others
<1>6. Holding' /\ Order'
  BY <1>0, <1>1, <1>2, BoundsAssumption DEF Inv, TypeOK, Holding, Order, Tracking, LiveAccept, Moved, Register, counters, others
<1>7. NoTimerWhileServed'
  BY <1>0, <1>1, <1>3 DEF Inv, TypeOK, NoTimerWhileServed, Register, counters, others
<1>8. NoStrandedSession'
  BY <1>0, <1>1, <1>2 DEF Inv, TypeOK, NoStrandedSession, Moved, Register, counters, others
<1> QED
  BY <1>4, <1>5, <1>6, <1>7, <1>8 DEF Inv

(* ... or dropped by a daemon that is stopping.                           *)
LEMMA RegisterRefusedStep ==
    ASSUME Inv, RegisterRefused PROVE Inv'
<1>0. /\ accept.conn \in Conn /\ conn[accept.conn] = "taken"
      /\ GoTo(accept.conn, "none")
  BY DEF RegisterRefused, Inv, Holding
<1>1. TypeOK
  BY DEF Inv
<1>2. Moved(accept.conn, "none")
  BY <1>0, <1>1, Counts DEF RegisterRefused
<1>3. /\ idleTimer' \in Timer \cup {NoTimer} /\ timer' \in [Timer -> TimerPhase]
      /\ clients > 0 \/ inFlight > 0 => idleTimer' \in {idleTimer, NoTimer}
      /\ inFlight' # inFlight => idleTimer' = NoTimer
  BY <1>1, StopTimer DEF TypeOK, RegisterRefused, counters, others
<1>4. CountersExact' /\ Tracking'
  <2>1. In(Registered)' = In(Registered)
    <3>1. accept.conn \notin In(Registered)
      BY <1>0 DEF In
    <3> QED
      BY <1>2, <3>1 DEF Moved
  <2> QED
    BY <1>0, <1>1, <1>2, <2>1 DEF Inv, CountersExact, Tracking, TypeOK, LiveAccept, Moved, RegisterRefused, counters, others
<1>5. TypeOK'
  <2>1. Cardinality(In(Tracked)') \in Nat /\ Cardinality(In(Counted)') \in Nat
    BY <1>2 DEF Moved
  <2>2. wg' \in Nat /\ clients' \in Nat /\ inFlight' \in Nat
    BY <1>1, <1>4, <2>1 DEF CountersExact, Tracking, TypeOK, RegisterRefused, counters, others
  <2>3. accept' \in [at : AcceptPhase, conn : Conn \cup {NoConn}, perm : 0 .. MaxPerm]
    BY <1>0, <1>1 DEF TypeOK, AcceptPhase, RegisterRefused, counters, others
  <2> QED
    BY <1>0, <1>1, <1>2, <1>3, <2>2, <2>3 DEF TypeOK, Moved, RegisterRefused, counters, others
<1>6. Holding' /\ Order'
  BY <1>0, <1>1, <1>2, BoundsAssumption DEF Inv, TypeOK, Holding, Order, Tracking, LiveAccept, Moved, RegisterRefused, counters, others
<1>7. NoTimerWhileServed'
  BY <1>0, <1>1, <1>3 DEF Inv, TypeOK, NoTimerWhileServed, RegisterRefused, counters, others
<1>8. NoStrandedSession'
  BY <1>0, <1>1, <1>2 DEF Inv, TypeOK, NoStrandedSession, Moved, RegisterRefused, counters, others
<1> QED
  BY <1>4, <1>5, <1>6, <1>7, <1>8 DEF Inv

(* wg.Add and the goroutine of the connection (server.go:404-405).        *)
LEMMA SpawnStep ==
    ASSUME Inv, Spawn PROVE Inv'
<1>0. /\ accept.conn \in Conn /\ conn[accept.conn] = "counted"
      /\ GoTo(accept.conn, "hello")
  BY DEF Spawn, Inv, Holding
<1>1. TypeOK
  BY DEF Inv
<1>2. Moved(accept.conn, "hello")
  BY <1>0, <1>1, Counts DEF Spawn
<1>3. /\ idleTimer' \in Timer \cup {NoTimer} /\ timer' \in [Timer -> TimerPhase]
      /\ clients > 0 \/ inFlight > 0 => idleTimer' \in {idleTimer, NoTimer}
      /\ inFlight' # inFlight => idleTimer' = NoTimer
  BY <1>1, StopTimer DEF TypeOK, Spawn, counters, others
<1>4. CountersExact' /\ Tracking'
  <2>1. In(Registered)' = In(Registered)
    <3>1. accept.conn \notin In(Registered)
      BY <1>0 DEF In
    <3> QED
      BY <1>2, <3>1 DEF Moved
  <2> QED
    BY <1>0, <1>1, <1>2, <2>1 DEF Inv, CountersExact, Tracking, TypeOK, LiveAccept, Moved, Spawn, counters, others
<1>5. TypeOK'
  <2>1. Cardinality(In(Tracked)') \in Nat /\ Cardinality(In(Counted)') \in Nat
    BY <1>2 DEF Moved
  <2>2. wg' \in Nat /\ clients' \in Nat /\ inFlight' \in Nat
    BY <1>1, <1>4, <2>1 DEF CountersExact, Tracking, TypeOK, Spawn, counters, others
  <2>3. accept' \in [at : AcceptPhase, conn : Conn \cup {NoConn}, perm : 0 .. MaxPerm]
    BY <1>0, <1>1 DEF TypeOK, AcceptPhase, Spawn, counters, others
  <2> QED
    BY <1>0, <1>1, <1>2, <1>3, <2>2, <2>3 DEF TypeOK, Moved, Spawn, counters, others
<1>6. Holding' /\ Order'
  BY <1>0, <1>1, <1>2, BoundsAssumption DEF Inv, TypeOK, Holding, Order, Tracking, LiveAccept, Moved, Spawn, counters, others
<1>7. NoTimerWhileServed'
  BY <1>0, <1>1, <1>3 DEF Inv, TypeOK, NoTimerWhileServed, Spawn, counters, others
<1>8. NoStrandedSession'
  BY <1>0, <1>1, <1>2 DEF Inv, TypeOK, NoStrandedSession, Moved, Spawn, counters, others
<1> QED
  BY <1>4, <1>5, <1>6, <1>7, <1>8 DEF Inv

(* The listener is closed and its backlog reset (server.go:311-315).      *)
LEMMA CloseListenerStep == ASSUME Inv, CloseListener PROVE Inv'
<1>1. TypeOK
  BY DEF Inv
<1>2. /\ In(Registered)' = In(Registered)
      /\ In(Counted)' = In(Counted) /\ Cardinality(In(Counted)) \in Nat
      /\ In(Tracked)' = In(Tracked) /\ Cardinality(In(Tracked)) \in Nat
  <2>1. \A c \in Conn : conn'[c] = conn[c] \/ (conn[c] = "queued" /\ conn'[c] = "none")
    <3>1. conn' = [c \in Conn |-> IF conn[c] = "queued" THEN "none" ELSE conn[c]]
      BY DEF CloseListener
    <3> QED
      BY <3>1
  <2>2. /\ In(Registered)' = In(Registered)
        /\ In(Counted)' = In(Counted)
        /\ In(Tracked)' = In(Tracked)
    BY <2>1 DEF In
  <2>3. Cardinality(In(Counted)) \in Nat /\ Cardinality(In(Tracked)) \in Nat
    BY CountType
  <2> QED
    BY <2>2, <2>3
<1>3. TypeOK'
  BY <1>1 DEF TypeOK, ShutPhase, CloseListener, ShutTo, counters, others
<1>4. CountersExact' /\ Tracking'
  BY <1>1, <1>2 DEF Inv, CountersExact, Tracking, CloseListener, counters, others
<1>5. Holding' /\ Order'
  BY <1>1 DEF Inv, TypeOK, Holding, Order, CloseListener, ShutTo, counters, others
<1>6. NoTimerWhileServed' /\ NoStrandedSession'
  BY <1>1 DEF Inv, TypeOK, NoTimerWhileServed, NoStrandedSession, CloseListener, ShutTo,
              counters, others
<1> QED
  BY <1>3, <1>4, <1>5, <1>6 DEF Inv

-----------------------------------------------------------------------------
(* The invariant holds initially ...                                      *)
LEMMA InvInit == Init => Inv
<1> SUFFICES ASSUME Init PROVE Inv
  OBVIOUS
<1>1. In(Registered) = {} /\ In(Counted) = {} /\ In(Tracked) = {}
  BY DEF Init, In
<1>2. Cardinality({}) = 0
  BY FS_EmptySet
<1>3. TypeOK
  BY BoundsAssumption DEF Init, TypeOK, TimerPhase, AcceptPhase, ShutPhase, MainPhase
<1>4. CountersExact /\ Tracking
  BY <1>1, <1>2 DEF Init, CountersExact, Tracking, LiveAccept
<1>5. Holding /\ Order /\ NoTimerWhileServed /\ NoStrandedSession
  BY <1>3 DEF Init, TypeOK, Holding, Order, NoTimerWhileServed, NoStrandedSession
<1> QED
  BY <1>3, <1>4, <1>5 DEF Inv

(* ... and every step preserves it.                                       *)
LEMMA InvNext == Inv /\ [Next]_vars => Inv'
<1> SUFFICES ASSUME Inv, [Next]_vars PROVE Inv'
  OBVIOUS
<1>1. CASE MainStep
  BY <1>1, StartStep, StartAcceptLoopStep, QuietSteps DEF MainStep
<1>2. CASE AcceptStep
  BY <1>2, AcceptClosedStep, AcceptGivesUpStep, RegisterStep, RegisterRefusedStep, SpawnStep
  DEF AcceptStep
<1>3. CASE AcceptError
  BY <1>3, AcceptErrorStep
<1>4. CASE ShutStep
  BY <1>4, QuietSteps, CloseListenerStep, CloseConnsStep DEF ShutStep
<1>5. ASSUME NEW c \in Conn, Dial(c) \/ AcceptConn(c) \/ ServeStep(c) \/ HandlerReturns(c)
      PROVE  Inv'
  BY <1>5, ServeMoveSteps, AddClientStep, DropClientStep, FinishConnStep, CloseConnStep,
     DialStep, AcceptConnStep DEF ServeStep
<1>6. ASSUME NEW t \in Timer, TimerStep(t) PROVE Inv'
  BY <1>6, TimerSteps
<1>7. CASE WatchRoot \/ StopOnSignal
  BY <1>7, QuietSteps
<1>8. CASE UNCHANGED vars
  <2>1. UNCHANGED In(Registered) /\ UNCHANGED In(Counted) /\ UNCHANGED In(Tracked)
    BY <1>8, Stay DEF vars
  <2> QED
    BY <1>8, <2>1 DEF vars, counters, others, Inv, TypeOK, CountersExact, Tracking, Holding,
       Order, NoTimerWhileServed, NoStrandedSession
<1> QED
  BY <1>1, <1>2, <1>3, <1>4, <1>5, <1>6, <1>7, <1>8 DEF Next

(* The strengthened invariant: wg counts the goroutines the shutdown waits *)
(* for, and the counters the connections served (server.go:356-538).       *)
THEOREM Invariant == Spec => []Inv
  BY InvInit, InvNext, PTL DEF Spec

(* Every variable keeps its type; wg never goes negative, which the        *)
(* runtime would report as a panic (server.go:172, 404, 410).              *)
THEOREM TypeCorrect == Spec => []TypeOK
<1>1. Inv => TypeOK
  BY DEF Inv
<1> QED
  BY <1>1, Invariant, PTL

(* clients, inFlight and conns describe exactly the connections served     *)
(* (server.go:398, 477-520).                                               *)
THEOREM CountersAreExact == Spec => []CountersExact
<1>1. Inv => CountersExact
  BY DEF Inv
<1> QED
  BY <1>1, Invariant, PTL

(* No idle timer is armed while anybody is served (server.go:399-402,      *)
(* 486-489, 528).                                                          *)
THEOREM ServedHasNoTimer == Spec => []NoTimerWhileServed
<1>1. Inv => NoTimerWhileServed
  BY DEF Inv
<1> QED
  BY <1>1, Invariant, PTL

(* Every session registered when the shutdown starts to wait was closed    *)
(* (server.go:474-491, 326-332).                                           *)
THEOREM NobodyStranded == Spec => []NoStrandedSession
<1>1. Inv => NoStrandedSession
  BY DEF Inv
<1> QED
  BY <1>1, Invariant, PTL

(* The artifacts are removed after the last goroutine: wg = 0 leaves       *)
(* nobody but an accept loop that Start has not yet counted, and the one   *)
(* it starts then takes no connection (server.go:171-173, 331-333).        *)
THEOREM CleanupIsLast == Spec => CleanupAfterDrain
<1> DEFINE Last == /\ shut'.at = "cleanup" /\ shut.at # "cleanup" =>
                          /\ accept.at = "ended" \/ main = "track"
                          /\ In({"none"}) = Conn
                   /\ shut.at \in {"cleanup", "done"} => conn' = conn
<1>1. Inv /\ [Next]_vars => [Last]_vars
  <2> SUFFICES ASSUME Inv, Next PROVE Last
    BY DEF Last
  <2>1. shut'.at = "cleanup" /\ shut.at # "cleanup" => AwaitDrain
    <3>1. CASE MainStep
      BY <3>1 DEF MainStep, Start, StartAcceptLoop, GoAcceptLoop, OnReady, StopOnReadyFailed,
                  Exit, Win
    <3>2. CASE AcceptStep \/ AcceptError
      BY <3>2 DEF AcceptStep, AcceptClosed, AcceptGivesUp, Register, RegisterRefused,
                  Spawn, AcceptError, Win
    <3>3. CASE ShutStep
      BY <3>3 DEF ShutStep, BeginShutdown, CloseListener, Cancel, CloseConns, Cleanup,
                  ShutTo, Inv, TypeOK
    <3>4. ASSUME NEW c \in Conn, Dial(c) \/ AcceptConn(c) \/ ServeStep(c) \/ HandlerReturns(c)
          PROVE  shut' = shut
      BY <3>4 DEF Dial, AcceptConn, ServeStep, HandlerReturns, Handshake, AddClient,
         AddRefused, HandlerEnsure, DropClient, FinishConn, ConnArmCheck, ConnArm, CloseConn,
         ConnOnly
    <3>5. ASSUME NEW t \in Timer, TimerStep(t) PROVE shut'.at = "cleanup" => shut' = shut
      BY <3>5 DEF TimerStep, TimerFires, TimerStopIfIdle, TimerRearm, StopIdle
    <3>6. CASE WatchRoot \/ StopOnSignal
      BY <3>6 DEF WatchRoot, StopOnSignal, Win, StopIdle
    <3> QED
      BY <3>1, <3>2, <3>3, <3>4, <3>5, <3>6 DEF Next
  <2>2. ASSUME AwaitDrain
        PROVE  (accept.at = "ended" \/ main = "track") /\ In({"none"}) = Conn
    <3>1. (\A c \in Conn : conn[c] = "none") /\ accept.at \in {"off", "ended"}
      BY <2>2, Drained DEF AwaitDrain, Late
    <3>2. main # "start"
      BY <2>2 DEF AwaitDrain, Inv, Order
    <3> QED
      BY <3>1, <3>2 DEF Inv, Order, In
  <2>3. ASSUME shut.at \in {"cleanup", "done"} PROVE conn' = conn
    <3>1. (\A c \in Conn : conn[c] = "none") /\ accept.at \in {"off", "accept", "ended"}
      BY <2>3 DEF Inv, Order
    <3>2. CASE MainStep
      BY <3>2 DEF MainStep, Start, StartAcceptLoop, GoAcceptLoop, OnReady, StopOnReadyFailed,
                  Exit
    <3>3. CASE AcceptStep \/ AcceptError
      BY <3>1, <3>3 DEF AcceptStep, AcceptClosed, AcceptGivesUp, Register, RegisterRefused,
                  Spawn, AcceptError
    <3>4. CASE ShutStep
      BY <2>3, <3>4 DEF ShutStep, BeginShutdown, CloseListener, Cancel, CloseConns, AwaitDrain,
                  Cleanup
    <3>5. ASSUME NEW c \in Conn, Dial(c) \/ AcceptConn(c) \/ ServeStep(c) \/ HandlerReturns(c)
          PROVE  FALSE
      BY <2>3, <3>1, <3>5 DEF Dial, AcceptConn, ServeStep, HandlerReturns, Handshake, AddClient,
         AddRefused, HandlerEnsure, DropClient, FinishConn, ConnArmCheck, ConnArm, CloseConn
    <3>6. ASSUME NEW t \in Timer, TimerStep(t) PROVE conn' = conn
      BY <3>6 DEF TimerStep, TimerFires, TimerStopIfIdle, TimerRearm
    <3>7. CASE WatchRoot \/ StopOnSignal
      BY <3>7 DEF WatchRoot, StopOnSignal
    <3> QED
      BY <3>2, <3>3, <3>4, <3>5, <3>6, <3>7 DEF Next
  <2> QED
    BY <2>1, <2>2, <2>3 DEF Last
<1> QED
  BY <1>1, Invariant, PTL DEF Spec, CleanupAfterDrain

(* An autonomous stop begins only when no accepted connection is counted   *)
(* (server.go:268-296).                                                    *)
THEOREM IdleStopIsSafe == Spec => IdleStopSparesServed
<1>1. Inv /\ [Next]_vars =>
        [Stopping' /\ ~Stopping /\ shut'.by \in Timer \cup {"watchdog"}
            => In(Counted) = {}]_vars
  <2> SUFFICES ASSUME Inv, Next, Stopping', ~Stopping, shut'.by \in Timer \cup {"watchdog"}
               PROVE  In(Counted) = {}
    OBVIOUS
  <2>1. ASSUME CanStopIdle PROVE In(Counted) = {}
    <3>1. IsFiniteSet(In(Counted)) /\ Cardinality(In(Counted)) = 0
      BY <2>1, CountType DEF CanStopIdle, Inv, TypeOK, CountersExact
    <3> QED
      BY <3>1, FS_EmptySet
  <2>2. CanStopIdle
    <3>1. shut' # shut /\ Timer \cap {"main", "accept", "signal"} = {}
      BY TimerAssumption
    <3>2. CASE MainStep
      BY <3>1, <3>2 DEF MainStep, Start, StartAcceptLoop, GoAcceptLoop, OnReady, StopOnReadyFailed, Exit, Win
    <3>3. CASE AcceptStep \/ AcceptError
      BY <3>1, <3>3 DEF AcceptStep, AcceptClosed, AcceptGivesUp, Register, RegisterRefused,
                        Spawn, AcceptError, Win
    <3>4. CASE ShutStep
      BY <3>4 DEF ShutStep, BeginShutdown, CloseListener, Cancel, CloseConns, AwaitDrain,
                  Cleanup
    <3>5. ASSUME NEW c \in Conn, Dial(c) \/ AcceptConn(c) \/ ServeStep(c) \/ HandlerReturns(c)
          PROVE  CanStopIdle
      BY <3>1, <3>5 DEF Dial, AcceptConn, ServeStep, HandlerReturns, Handshake, AddClient,
         AddRefused, HandlerEnsure, DropClient, FinishConn, ConnArmCheck, ConnArm, CloseConn,
         ConnOnly
    <3>6. ASSUME NEW t \in Timer, TimerStep(t) PROVE CanStopIdle
      BY <3>1, <3>6 DEF TimerStep, TimerFires, TimerStopIfIdle, TimerRearm
    <3>7. CASE WatchRoot \/ StopOnSignal
      BY <3>1, <3>7 DEF WatchRoot, StopOnSignal, Win
    <3> QED
      BY <3>2, <3>3, <3>4, <3>5, <3>6, <3>7 DEF Next
  <2> QED
    BY <2>1, <2>2
<1> QED
  BY <1>1, Invariant, PTL DEF Spec, IdleStopSparesServed

(* Once the wait group is empty under a shutdown, no goroutine joins it but *)
(* the accept loop of a Start that an idle timer overtook                  *)
(* (server.go:171-173, 332, 404).                                          *)
THEOREM WaitGroupStaysEmpty == Spec => WaitGroupNeverRevived
<1> DEFINE Overtaken == main = "track" /\ main' # "track" /\ shut.by \in Timer
<1>1. Inv /\ [Next]_vars => [wg = 0 /\ Stopping /\ wg' # 0 => Overtaken]_vars
  <2> SUFFICES ASSUME Inv, Next, wg = 0, Stopping PROVE wg' = 0 \/ Overtaken
    OBVIOUS
  <2>1. IsFiniteSet(In(Tracked)) /\ Cardinality(In(Tracked)) \in Nat
    BY CountType
  <2>2. In(Tracked) = {} /\ accept.at \notin LiveAccept
    <3>1. Cardinality(In(Tracked)) = 0 /\ accept.at \notin LiveAccept
      BY <2>1 DEF Inv, Tracking
    <3> QED
      BY <2>1, <3>1, FS_EmptySet
  <2>3. CASE MainStep
    <3>1. CASE StartAcceptLoop
      BY <3>1 DEF StartAcceptLoop, GoAcceptLoop, Inv, Order
    <3>2. CASE ~StartAcceptLoop
      BY <2>3, <3>2 DEF MainStep, Start, OnReady, StopOnReadyFailed, Exit
    <3> QED
      BY <3>1, <3>2
  <2>4. CASE AcceptStep \/ AcceptError
    BY <2>2, <2>4 DEF AcceptStep, AcceptError, AcceptClosed, AcceptGivesUp, Register,
                      RegisterRefused, Spawn, LiveAccept
  <2>5. CASE ShutStep
    BY <2>5 DEF ShutStep, BeginShutdown, CloseListener, Cancel, CloseConns, AwaitDrain, Cleanup
  <2>6. ASSUME NEW c \in Conn, Dial(c) \/ AcceptConn(c) \/ ServeStep(c) \/ HandlerReturns(c)
        PROVE  wg' = 0
    <3>1. conn[c] \notin Tracked
      BY <2>2 DEF In
    <3> QED
      BY <2>6, <3>1 DEF Dial, AcceptConn, ServeStep, HandlerReturns, Handshake, AddClient,
         AddRefused, HandlerEnsure, DropClient, FinishConn, ConnArmCheck, ConnArm, CloseConn,
         ConnOnly
  <2>7. ASSUME NEW t \in Timer, TimerStep(t) PROVE wg' = 0
    BY <2>7 DEF TimerStep, TimerFires, TimerStopIfIdle, TimerRearm
  <2>8. CASE WatchRoot \/ StopOnSignal
    BY <2>8 DEF WatchRoot, StopOnSignal
  <2> QED
    BY <2>3, <2>4, <2>5, <2>6, <2>7, <2>8 DEF Next
<1> QED
  BY <1>1, Invariant, PTL DEF Spec, WaitGroupNeverRevived
=============================================================================
