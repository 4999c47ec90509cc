---------------------------- MODULE Client_proofs ----------------------------
(***************************************************************************)
(* Proofs about Client, for any number of clients, pids, incarnations and  *)
(* events: whom a pinned signal can reach, when a pidfile is cleared, and  *)
(* how many processes one spawn leaves.                                    *)
(***************************************************************************)
EXTENDS Client, TLAPS

Life == <<born, pidOf, kind, phase>>

\* Incarnations are born in their order, no two live ones have the same pid,
\* and a pidfile names one that was born.
World ==
    /\ born \in Inc /\ pidOf \in [Inc -> Pid]
    /\ kind \in [Inc -> Kind] /\ phase \in [Inc -> Phase]
    /\ \A i \in Inc : phase[i] = "unborn" <=> i > born
    /\ \A i, j \in Inc : Alive(i) /\ Alive(j) /\ pidOf[i] = pidOf[j] => i = j
    /\ pidfile \in [by : Inc0, record : Record]
    /\ Names => pidfile.by \in 1 .. born

AllLocals == [pc : Place, peer : Inc0, mode : {"stale", "holder"}, rec : Inc0, tgt : Pid \cup {0},
            pin : Inc0, todo : SUBSET Pid, killed : BOOLEAN, again : BOOLEAN, kids : SUBSET Inc]

\* The places between a check of the target and its end.
Signalling == {"term", "wait", "recheck", "kill", "waitKill"}

\* What the locals l of a client say about processes b, po, ki and ph: a
\* termination deals with the pid of the recorded or the pinned incarnation,
\* the two are one unless the recorded one is dead, past the check no live
\* pinned one is foreign, a record is cleared when the
\* recorded one is dead, and of what it spawned one is alive at most.
Good(l, b, po, ki, ph) ==
    /\ l.mode = "holder" => l.pc \in {"next"} \cup (Ending \ {"clear"})
    /\ l.pc = "next" => l.mode = "holder"
    /\ l.pc \in Ending /\ l.mode = "stale" => l.rec \in 1 .. b /\ po[l.rec] = l.tgt
    /\ l.pin # 0 => l.pin \in 1 .. b /\ po[l.pin] = l.tgt /\ l.pc \in Ending
    /\ l.pin # 0 /\ l.mode = "stale" => l.pin = l.rec \/ ph[l.rec] = "dead"
    /\ l.pin # 0 /\ l.pc \in Signalling /\ ph[l.pin] # "dead" => ki[l.pin] # "foreign"
    /\ l.pc = "clear" => ph[l.rec] = "dead"
    /\ l.kids # {} => l.pc \in {"window", "poll"}
    /\ l.kids \subseteq 1 .. b
    /\ \A i, j \in l.kids : ph[i] # "dead" /\ ph[j] # "dead" => i = j

Inv ==
    /\ World
    /\ at \in [Conn -> AllLocals]
    /\ \A c \in Conn : Good(at[c], born, pidOf, kind, phase)

\* What time does to processes: those that were born keep pid and kind, and
\* the dead stay dead.
Later(b, po, ki, ph) ==
    /\ born <= b /\ b \in Inc
    /\ \A i \in 1 .. born : /\ po[i] = pidOf[i] /\ ki[i] = kind[i]
                            /\ phase[i] = "dead" => ph[i] = "dead"
-----------------------------------------------------------------------------
USE ClientAssumption DEF Inc, Inc0

(* What a client knows stays true while others go on.                      *)
LEMMA StaysGood ==
    ASSUME born \in Inc, NEW l \in AllLocals, NEW b, NEW po, NEW ki, NEW ph,
           Good(l, born, pidOf, kind, phase), Later(b, po, ki, ph)
    PROVE  Good(l, b, po, ki, ph)
  <1>1. \A i \in 1 .. born : i \in 1 .. b /\ po[i] = pidOf[i] /\ ki[i] = kind[i] /\ (ph[i] # "dead" => phase[i] # "dead")
    BY DEF Later
  <1>2. l.pin # 0 => l.pin \in 1 .. born
    BY DEF Good
  <1>3. l.pc \in Ending /\ l.mode = "stale" => l.rec \in 1 .. born
    BY DEF Good
  <1>4. l.pc = "clear" => l.pc \in Ending /\ l.mode = "stale"
    BY DEF Good, Ending, AllLocals
  <1>5. l.kids \subseteq 1 .. born
    BY DEF Good
  <1>6. l.pc = "clear" => ph[l.rec] = "dead"
    BY <1>1, <1>3, <1>4 DEF Good
  <1>7. l.pin # 0 => l.pin \in 1 .. b /\ po[l.pin] = l.tgt /\ l.pc \in Ending
    BY <1>1, <1>2 DEF Good
  <1>8. l.pin # 0 /\ l.pc \in Signalling /\ ph[l.pin] # "dead" => ki[l.pin] # "foreign"
    BY <1>1, <1>2 DEF Good
  <1>9. l.kids \subseteq 1 .. b /\ \A i, j \in l.kids : ph[i] # "dead" /\ ph[j] # "dead" => i = j
    BY <1>1, <1>5 DEF Good
  <1>10. l.pc \in Ending /\ l.mode = "stale" => l.rec \in 1 .. b /\ po[l.rec] = l.tgt
    BY <1>1, <1>3 DEF Good
  <1>11. l.pin # 0 /\ l.mode = "stale" => l.pin = l.rec \/ ph[l.rec] = "dead"
    BY <1>1, <1>3, <1>7 DEF Good
  <1> QED BY <1>6, <1>7, <1>8, <1>9, <1>10, <1>11 DEF Good

(* A step of one client, in whatever world it leaves.                      *)
LEMMA Moved ==
    ASSUME Inv, World', Later(born', pidOf', kind', phase'),
           NEW c \in Conn, NEW l \in AllLocals, at' = [at EXCEPT ![c] = l],
           Good(l, born', pidOf', kind', phase')
    PROVE  Inv'
  <1>1. at' \in [Conn -> AllLocals]
    BY DEF Inv
  <1>2. ASSUME NEW d \in Conn PROVE Good(at'[d], born', pidOf', kind', phase')
    <2>1. CASE d = c
      BY <2>1 DEF Inv
    <2>2. CASE d # c
      <3>1. at'[d] = at[d] /\ at[d] \in AllLocals /\ Good(at[d], born, pidOf, kind, phase) /\ born \in Inc
        BY <2>2 DEF Inv, World
      <3>2. Good(at[d], born', pidOf', kind', phase')
        BY <3>1, StaysGood
      <3> QED BY <3>1, <3>2
    <2> QED BY <2>1, <2>2
  <1> QED BY <1>1, <1>2 DEF Inv

(* A step of one client that touches no process.                           *)
LEMMA MovedAlone ==
    ASSUME Inv, UNCHANGED Life, pidfile' \in {pidfile, NoFile},
           NEW c \in Conn, NEW l \in AllLocals, at' = [at EXCEPT ![c] = l],
           Good(l, born, pidOf, kind, phase)
    PROVE  Inv'
  <1>1. World'
    BY DEF Inv, World, Life, Alive, Names, NoFile, Record
  <1>2. Later(born', pidOf', kind', phase')
    BY DEF Later, Life, Inv, World
  <1>3. Good(l, born', pidOf', kind', phase')
    BY DEF Life
  <1> QED BY <1>1, <1>2, <1>3, Moved

(* Nothing is known, and nothing need be, where no termination, pass or    *)
(* spawn is under way.                                                     *)
Calm == Place \ (Ending \cup {"next", "window", "poll"})
Free == Place \ (Ending \cup {"next"})

LEMMA Fresh ==
    ASSUME NEW place \in Free, NEW b, NEW po, NEW ki, NEW ph
    PROVE  Locals(place) \in AllLocals /\ Good(Locals(place), b, po, ki, ph)
  BY DEF Free, Locals, AllLocals, Good, Signalling, Ending

(* A call returns, or main goes on.                                        *)
LEMMA Returns ==
    ASSUME Inv, UNCHANGED Life, pidfile' \in {pidfile, NoFile},
           NEW c \in Conn, NEW place \in Free, Return(c, place)
    PROVE  Inv'
  BY Fresh, MovedAlone DEF Return

LEMMA Goes ==
    ASSUME Inv, UNCHANGED Life, pidfile' \in {pidfile, NoFile},
           NEW c \in Conn, pc(c) \in Calm, NEW place \in Free, GoTo(c, place)
    PROVE  Inv'
  <1> DEFINE l == [at[c] EXCEPT !.pc = place]
  <1>1. at[c] \in AllLocals /\ Good(at[c], born, pidOf, kind, phase)
    BY DEF Inv
  <1>2. at[c].pc \in Calm /\ at[c].mode = "stale" /\ at[c].pin = 0 /\ at[c].kids = {}
    BY <1>1 DEF pc, Calm, Good, Ending, AllLocals
  <1>3. l \in AllLocals /\ l.pc = place /\ l.mode = "stale" /\ l.pin = 0 /\ l.kids = {}
    BY <1>1, <1>2 DEF AllLocals, Free
  <1>4. at' = [at EXCEPT ![c] = l]
    BY DEF GoTo
  <1> HIDE DEF l
  <1>5. Good(l, born, pidOf, kind, phase)
    BY <1>3 DEF Good, Free, Ending, Signalling
  <1> QED BY <1>3, <1>4, <1>5, MovedAlone
-----------------------------------------------------------------------------
(* A process is born, under a pid that is free.                            *)
LEMMA Birth ==
    ASSUME World, NEW k \in Kind, NEW first \in {"scope", "boot"}, Born(k, first), UNCHANGED pidfile
    PROVE  World' /\ Later(born', pidOf', kind', phase') /\ born' = born + 1
  <1>1. PICK p \in {q \in Pid : ~PidAlive(q)} :
          /\ born < MaxProc /\ born' = born + 1
          /\ pidOf' = [pidOf EXCEPT ![born + 1] = p]
          /\ kind' = [kind EXCEPT ![born + 1] = k]
          /\ phase' = [phase EXCEPT ![born + 1] = first]
    BY DEF Born
  <1>0. born + 1 \in Inc
    BY <1>1 DEF World
  <1>2. p \in Pid /\ \A i \in Inc : Alive(i) => pidOf[i] # p
    BY DEF PidAlive, Running
  <1>3. \A i \in 1 .. born : i \in Inc /\ i # born + 1
    BY DEF World
  <1>4. Later(born', pidOf', kind', phase')
    BY <1>0, <1>1, <1>3 DEF Later, World
  <1>5. /\ born' \in Inc /\ pidOf' \in [Inc -> Pid] /\ kind' \in [Inc -> Kind]
        /\ phase' \in [Inc -> Phase]
    BY <1>0, <1>1, <1>2 DEF World, Phase
  <1>6. \A i \in Inc : phase'[i] = "unborn" <=> i > born'
    BY <1>0, <1>1 DEF World
  <1>7. ASSUME NEW i \in Inc, NEW j \in Inc, Alive(i)', Alive(j)', pidOf'[i] = pidOf'[j] PROVE i = j
    <2>1. \A n \in Inc \ {born + 1} : pidOf'[n] = pidOf[n] /\ (Alive(n)' => Alive(n))
      BY <1>0, <1>1 DEF World, Alive
    <2>2. pidOf'[born + 1] = p
      BY <1>0, <1>1 DEF World
    <2> QED BY <1>2, <1>7, <2>1, <2>2 DEF World
  <1>8. pidfile' \in [by : Inc0, record : Record] /\ (Names' => pidfile'.by \in 1 .. born')
    BY <1>0, <1>1 DEF World, Names
  <1> QED BY <1>1, <1>4, <1>5, <1>6, <1>7, <1>8 DEF World

(* A live process goes on or dies, and may write or remove the pidfile.    *)
LEMMA Ageing ==
    ASSUME World, NEW i \in Inc, Alive(i), NEW to \in Phase \ {"unborn"},
           phase' = [phase EXCEPT ![i] = to], UNCHANGED <<born, pidOf, kind>>,
           pidfile' \in {pidfile, NoFile, [by |-> i, record |-> "fresh"]}
    PROVE  World' /\ Later(born', pidOf', kind', phase')
  <1>1. i \in 1 .. born
    BY DEF World, Alive
  <1>2. phase' \in [Inc -> Phase] /\ \A n \in Inc : phase'[n] = "unborn" <=> n > born'
    BY <1>1 DEF World
  <1>3. \A n \in Inc : Alive(n)' => Alive(n)
    BY DEF World, Alive
  <1>4. \A m, n \in Inc : Alive(m)' /\ Alive(n)' /\ pidOf'[m] = pidOf'[n] => m = n
    BY <1>3 DEF World
  <1>5. pidfile' \in [by : Inc0, record : Record] /\ (Names' => pidfile'.by \in 1 .. born')
    BY <1>1 DEF World, Names, NoFile, Record
  <1>6. Later(born', pidOf', kind', phase')
    BY <1>3 DEF Later, World, Alive
  <1> QED BY <1>2, <1>4, <1>5, <1>6 DEF World

LEMMA Elsewhere ==
    ASSUME World, UNCHANGED Life,
           \/ pidfile' \in {pidfile, NoFile}
           \/ Names /\ pidfile' = [pidfile EXCEPT !.record = "aged"]
    PROVE  World' /\ Later(born', pidOf', kind', phase')
  <1>1. pidfile' \in [by : Inc0, record : Record] /\ (Names' => pidfile'.by \in 1 .. born)
    BY DEF World, Names, NoFile, Record
  <1>2. UNCHANGED <<born, pidOf, kind, phase>>
    BY DEF Life
  <1>3. World'
    BY <1>1, <1>2 DEF World, Alive
  <1>4. Later(born', pidOf', kind', phase')
    BY <1>2 DEF World, Later
  <1> QED BY <1>3, <1>4

(* The daemons and everybody else.                                         *)
LEMMA EnvironmentStep == World /\ Environment => World' /\ Later(born', pidOf', kind', phase')
  <1> SUFFICES ASSUME World, Environment PROVE World' /\ Later(born', pidOf', kind', phase')
    OBVIOUS
  <1>1. ASSUME NEW i \in Inc, DaemonStep(i) PROVE World' /\ Later(born', pidOf', kind', phase')
    <2>1. Alive(i)
      BY <1>1 DEF DaemonStep, Exec, Claim, Bind, Open, Stop, Cleanup, Exit, Die, Alive
    <2>2. PICK to \in Phase \ {"unborn"} :
            phase' = [phase EXCEPT ![i] = to] /\ UNCHANGED <<born, pidOf, kind>>
      BY <1>1 DEF DaemonStep, Exec, Claim, Bind, Open, Stop, Cleanup, Exit, Die, Advance, BecomeDead, Phase
    <2>3. pidfile' \in {pidfile, NoFile, [by |-> i, record |-> "fresh"]}
      BY <1>1 DEF DaemonStep, Exec, Claim, Bind, Open, Stop, Cleanup, Exit, Die, RemoveOwn, files
    <2> QED BY <2>1, <2>2, <2>3, Ageing
  <1>2. ASSUME NEW i \in Inc, Crash(i) PROVE World' /\ Later(born', pidOf', kind', phase')
    <2>1. Alive(i) /\ "dead" \in Phase \ {"unborn"} /\ phase' = [phase EXCEPT ![i] = "dead"]
          /\ UNCHANGED <<born, pidOf, kind>> /\ pidfile' = pidfile
      BY <1>2 DEF Crash, BecomeDead, Phase
    <2> QED BY <2>1, Ageing
  <1>3. CASE OtherBorn
    <2>1. PICK k \in {"foreign", "ours"} : Born(k, "boot") /\ UNCHANGED pidfile
      BY <1>3 DEF OtherBorn, files
    <2> QED BY <2>1, Birth DEF Kind
  <1>4. CASE OtherLocks \/ Deploy
    <2>1. UNCHANGED Life /\ pidfile' \in {pidfile, NoFile}
      BY <1>4 DEF OtherLocks, Deploy, procs, files, Life
    <2> QED BY <2>1, Elsewhere
  <1>5. CASE GraceOver
    <2>1. Names /\ pidfile' = [pidfile EXCEPT !.record = "aged"] /\ UNCHANGED Life
      BY <1>5 DEF GraceOver, Names, procs, Life
    <2> QED BY <2>1, Elsewhere
  <1> QED BY <1>1, <1>2, <1>3, <1>4, <1>5 DEF Environment

-----------------------------------------------------------------------------
(* Whom a pid names.                                                       *)
LEMMA Holders ==
    ASSUME World, NEW p
    PROVE  /\ Holder(p) \in Inc0
           /\ Holder(p) = 0 <=> ~PidAlive(p)
           /\ Holder(p) # 0 => Holder(p) \in 1 .. born /\ Alive(Holder(p)) /\ pidOf[Holder(p)] = p
           /\ \A i \in Inc : Alive(i) /\ pidOf[i] = p => Holder(p) = i
  <1>1. CASE Running(p) = {}
    BY <1>1 DEF Holder, Running, PidAlive
  <1>2. CASE Running(p) # {}
    <2>1. Holder(p) \in Running(p)
      BY <1>2 DEF Holder
    <2>2. Holder(p) \in Inc /\ Alive(Holder(p)) /\ pidOf[Holder(p)] = p
      BY <2>1 DEF Running
    <2>3. Holder(p) \in 1 .. born
      BY <2>2 DEF World, Alive
    <2>4. \A i \in Inc : Alive(i) /\ pidOf[i] = p => Holder(p) = i
      BY <2>2 DEF World
    <2> QED BY <1>2, <2>2, <2>3, <2>4 DEF PidAlive
  <1> QED BY <1>1, <1>2

(* A dial connects, is greeted in vain, or sees its connection closed.     *)
LEMMA Peers ==
    ASSUME Inv, UNCHANGED Life, pidfile' = pidfile, NEW c \in Conn,
           NEW l \in AllLocals, at' = [at EXCEPT ![c] = l],
           \/ pc(c) = "dial" /\ l.pc \in {"dial", "read", "halfDead"}
           \/ pc(c) = "poll" /\ l.pc = "poll",
           l.mode = at[c].mode, l.pin = at[c].pin, l.kids = at[c].kids
    PROVE  Inv'
  <1>1. at[c] \in AllLocals /\ Good(at[c], born, pidOf, kind, phase)
    BY DEF Inv
  <1>2. at[c].pc = pc(c) /\ at[c].mode = "stale" /\ at[c].pin = 0
    BY <1>1 DEF pc, Good, Ending, AllLocals
  <1>3. Good(l, born, pidOf, kind, phase)
    BY <1>1, <1>2 DEF Good, Ending, Signalling
  <1> QED BY <1>3, MovedAlone

LEMMA Connects ==
    ASSUME Inv, UNCHANGED Life, pidfile' = pidfile, NEW c \in Conn,
           pc(c) \in {"dial", "poll"}, Connect(c)
    PROVE  Inv'
  <1>1. PICK i \in Inc : at' = [at EXCEPT ![c].peer = i]
    BY DEF Connect
  <1> DEFINE l == [at[c] EXCEPT !.peer = i]
  <1>2. at[c] \in AllLocals /\ at[c].pc = pc(c)
    BY DEF Inv, pc
  <1>3. at' = [at EXCEPT ![c] = l]
    BY <1>1
  <1>4. /\ l \in AllLocals /\ l.pc = pc(c) /\ l.mode = at[c].mode /\ l.pin = at[c].pin
        /\ l.kids = at[c].kids
    BY <1>2 DEF AllLocals
  <1> HIDE DEF l
  <1> QED BY <1>3, <1>4, Peers

LEMMA Hellos ==
    ASSUME Inv, NEW c \in Conn, Hello(c) \/ HelloFails(c)
    PROVE  Inv'
  <1>1. UNCHANGED Life /\ pidfile' = pidfile /\ pc(c) \in {"dial", "poll"}
    BY DEF Hello, HelloFails, Dialled, world, procs, files, Life
  <1>2. CASE Return(c, "proxy")
    BY <1>1, <1>2, Returns DEF Free, Place, Ending
  <1>3. ASSUME NEW place \in Place, HungUp(c, place),
               \/ pc(c) = "dial" /\ place \in {"dial", "read", "halfDead"}
               \/ pc(c) = "poll" /\ place = "poll"
        PROVE  Inv'
    <2> DEFINE l == [at[c] EXCEPT !.peer = 0, !.pc = place]
    <2>1. at' = [at EXCEPT ![c] = l]
      <3>1. at' = [at EXCEPT ![c] = [at[c] EXCEPT !.peer = 0, !.pc = place]]
        BY <1>3, Zenon DEF HungUp
      <3> QED BY <3>1, Zenon
    <2>2. at[c] \in AllLocals
      BY DEF Inv
    <2>3. /\ l \in AllLocals /\ l.pc = place /\ l.mode = at[c].mode /\ l.pin = at[c].pin
          /\ l.kids = at[c].kids
      <3>1. place \in Place /\ 0 \in Inc0
        OBVIOUS
      <3>2. [at[c] EXCEPT !.peer = 0] \in AllLocals
        BY <2>2, <3>1 DEF AllLocals
      <3>3. l = [[at[c] EXCEPT !.peer = 0] EXCEPT !.pc = place]
        OBVIOUS
      <3> QED BY <2>2, <3>1, <3>2, <3>3 DEF AllLocals
    <2> HIDE DEF l
    <2> QED BY <1>1, <1>3, <2>1, <2>3, Peers
  <1>4. \/ Return(c, "proxy")
        \/ pc(c) = "dial" /\ (HungUp(c, "read") \/ HungUp(c, "halfDead"))
        \/ pc(c) = "poll" /\ HungUp(c, "poll")
    BY <1>1 DEF Hello, HelloFails, In, pc
  <1> QED BY <1>2, <1>3, <1>4 DEF Place, Loop

(* Dial, and the read of the pidfile.                                      *)
LEMMA DialSteps ==
    ASSUME Inv, NEW c \in Conn, DialStep(c)
    PROVE  Inv'
  <1>1. CASE Dial(c)
    <2>1. UNCHANGED Life /\ pidfile' = pidfile /\ pc(c) = "dial"
      BY <1>1 DEF Dial, In, pc, world, procs, files, Life
    <2>2. CASE Connect(c)
      BY <2>1, <2>2, Connects
    <2>3. CASE GoTo(c, "halfDead")
      BY <2>1, <2>3, Goes DEF Calm, Free, Place, Loop, Ending
    <2> QED BY <1>1, <2>2, <2>3 DEF Dial
  <1>2. CASE HalfDead(c)
    <2>1. UNCHANGED Life /\ pidfile' = pidfile /\ pc(c) \in Calm
      BY <1>2 DEF HalfDead, In, pc, Calm, Place, Loop, Ending, world, procs, files, Life
    <2>2. \E place \in Free : GoTo(c, place)
      BY <1>2 DEF HalfDead, Free, Place, Loop, Ending
    <2> QED BY <2>1, <2>2, Goes
  <1>3. CASE ReadPidfile(c)
    <2>1. UNCHANGED Life /\ pc(c) \in Calm /\ at[c].pc = "read"
      BY <1>3 DEF ReadPidfile, In, pc, Calm, Place, Loop, Ending, procs, Life
    <2>2. CASE ~Names
      <3>1. pidfile' = NoFile /\ GoTo(c, "spawn") /\ "spawn" \in Free
        BY <1>3, <2>2 DEF ReadPidfile, Free, Place, Loop, Ending
      <3> QED BY <2>1, <3>1, Goes
    <2>3. CASE Names
      <3> DEFINE place == IF ~NamesLive THEN "clear" ELSE IF pidfile.record = "legacy" THEN "failed" ELSE "verify"
      <3> DEFINE l == [at[c] EXCEPT !.rec = pidfile.by, !.tgt = pidOf[pidfile.by], !.pc = place]
      <3>1. at' = [at EXCEPT ![c] = l] /\ pidfile' = pidfile
        BY <1>3, <2>3 DEF ReadPidfile
      <3>2. at[c] \in AllLocals /\ Good(at[c], born, pidOf, kind, phase)
        BY DEF Inv
      <3>3. at[c].mode = "stale" /\ at[c].pin = 0 /\ at[c].kids = {}
        BY <2>1, <3>2 DEF Good, Ending, AllLocals
      <3>4. pidfile.by \in 1 .. born /\ pidfile.by \in Inc /\ pidOf[pidfile.by] \in Pid
        BY <2>3 DEF Inv, World
      <3>5. place \in {"clear", "failed", "verify"} /\ place \in Place
        BY DEF Place, Ended, Ending
      <3>6. place = "clear" => phase[pidfile.by] = "dead"
        <4>1. place = "clear" => ~PidAlive(pidOf[pidfile.by])
          BY <2>3 DEF NamesLive
        <4>2. place = "clear" => ~Alive(pidfile.by)
          BY <3>4, <4>1 DEF PidAlive, Running
        <4> QED BY <3>4, <4>2 DEF Alive, Inv, World
      <3> HIDE DEF place
      <3>7. /\ l \in AllLocals /\ l.pc = place /\ l.rec = pidfile.by /\ l.tgt = pidOf[pidfile.by]
            /\ l.mode = "stale" /\ l.pin = 0 /\ l.kids = {}
        <4> DEFINE q == pidOf[pidfile.by]
        <4>1. q \in Pid /\ pidfile.by \in Inc0
          BY <3>4
        <4>2. l = [at[c] EXCEPT !.rec = pidfile.by, !.tgt = q, !.pc = place]
          OBVIOUS
        <4> HIDE DEF q, l
        <4>3. /\ l \in AllLocals /\ l.pc = place /\ l.rec = pidfile.by /\ l.tgt = q
              /\ l.mode = at[c].mode /\ l.pin = at[c].pin /\ l.kids = at[c].kids
          BY <3>2, <3>5, <4>1, <4>2 DEF AllLocals
        <4> QED BY <3>3, <4>3 DEF q
      <3> HIDE DEF l
      <3>8. Good(l, born, pidOf, kind, phase)
        BY <3>4, <3>5, <3>6, <3>7 DEF Good, Signalling
      <3> QED BY <2>1, <3>1, <3>7, <3>8, MovedAlone
    <2> QED BY <2>2, <2>3
  <1> QED BY <1>1, <1>2, <1>3, Hellos DEF DialStep
-----------------------------------------------------------------------------
(* Terminating a process: on to another step of it,                        *)
LEMMA Onward ==
    ASSUME Inv, UNCHANGED Life, UNCHANGED pidfile,
           NEW c \in Conn, pc(c) \in Ending, NEW place \in Ending, GoTo(c, place),
           place \in Signalling /\ at[c].pin # 0 /\ phase[at[c].pin] # "dead" => kind[at[c].pin] # "foreign",
           place = "clear" => at[c].mode = "stale" /\ phase[at[c].rec] = "dead"
    PROVE  Inv'
  <1> DEFINE l == [at[c] EXCEPT !.pc = place]
  <1>1. at[c] \in AllLocals /\ Good(at[c], born, pidOf, kind, phase) /\ at[c].pc \in Ending
    BY DEF Inv, pc
  <1>2. at' = [at EXCEPT ![c] = l]
    BY DEF GoTo
  <1>3. /\ l \in AllLocals /\ l.pc = place /\ l.mode = at[c].mode /\ l.pin = at[c].pin
        /\ l.rec = at[c].rec /\ l.tgt = at[c].tgt /\ l.kids = at[c].kids
    BY <1>1 DEF AllLocals, Place
  <1>4. at[c].kids = {}
    BY <1>1 DEF Good, Ending
  <1> HIDE DEF l
  <1>5. Good(l, born, pidOf, kind, phase)
    BY <1>1, <1>3, <1>4 DEF Good, Ending, AllLocals
  <1> QED BY <1>2, <1>3, <1>5, MovedAlone

(* on to the next candidate of a pass,                                     *)
LEMMA Skips ==
    ASSUME Inv, UNCHANGED Life, UNCHANGED pidfile,
           NEW c \in Conn, pc(c) \in Ending, ~Stale(c), NEW done \in BOOLEAN, NextOne(c, done)
    PROVE  Inv'
  <1>1. at[c] \in AllLocals /\ Good(at[c], born, pidOf, kind, phase) /\ at[c].pc \in Ending
    BY DEF Inv, pc
  <1>2. at[c].mode = "holder" /\ at[c].kids = {}
    BY <1>1 DEF Good, Ending, Stale, AllLocals
  <1>3. PICK k \in BOOLEAN :
           at' = [at EXCEPT ![c] = [at[c] EXCEPT !.pc = "next", !.tgt = 0, !.pin = 0, !.killed = k]]
    <2>1. CASE at[c].killed \/ done
      <3>1. (at[c].killed \/ done) = TRUE
        BY <2>1
      <3> QED BY <3>1 DEF NextOne
    <2>2. CASE ~(at[c].killed \/ done)
      <3>1. (at[c].killed \/ done) = FALSE
        BY <2>2
      <3> QED BY <3>1 DEF NextOne
    <2> QED BY <2>1, <2>2
  <1> DEFINE l == [at[c] EXCEPT !.pc = "next", !.tgt = 0, !.pin = 0, !.killed = k]
  <1>4. l \in AllLocals /\ l.pc = "next" /\ l.mode = "holder" /\ l.pin = 0 /\ l.kids = {}
    <2>1. "next" \in Place
      BY DEF Place, Recover
    <2>2. 0 \in Inc0 /\ 0 \in Pid \cup {0}
      OBVIOUS
    <2>3. l.pc = "next" /\ l.mode = "holder" /\ l.pin = 0 /\ l.kids = {}
      BY <1>1, <1>2 DEF AllLocals
    <2>4. l \in AllLocals
      BY <1>1, <2>1, <2>2 DEF AllLocals
    <2> QED BY <2>3, <2>4
  <1> HIDE DEF l
  <1>5. Good(l, born, pidOf, kind, phase)
    BY <1>4 DEF Good, Signalling, Ending
  <1>6. at' = [at EXCEPT ![c] = l]
    BY <1>3 DEF l
  <1> QED BY <1>4, <1>5, <1>6, MovedAlone

(* or to its end.                                                          *)
LEMMA Ends ==
    ASSUME Inv, UNCHANGED Life, UNCHANGED pidfile,
           NEW c \in Conn, pc(c) \in Ending, NEW done \in BOOLEAN, Gone(c, done),
           Stale(c) => phase[at[c].rec] = "dead"
    PROVE  Inv'
  <1>1. CASE Stale(c)
    <2>1. GoTo(c, "clear") /\ "clear" \in Ending /\ "clear" \notin Signalling /\ at[c].mode = "stale"
      BY <1>1 DEF Gone, Stale, Ending, Signalling
    <2> QED BY <1>1, <2>1, Onward
  <1>2. CASE ~Stale(c)
    BY <1>2, Skips DEF Gone
  <1> QED BY <1>1, <1>2

(* The recorded incarnation is dead when its pid is free, and when the     *)
(* signal had nobody to reach.                                             *)
LEMMA RecordedIsDead ==
    ASSUME Inv, NEW c \in Conn, pc(c) \in Ending, Stale(c), ~PidAlive(at[c].tgt) \/ Reached(c) = 0
    PROVE  phase[at[c].rec] = "dead"
  <1>1. Good(at[c], born, pidOf, kind, phase) /\ at[c].pc \in Ending /\ at[c].mode = "stale" /\ World
    BY DEF Inv, pc, Stale
  <1>2. at[c].rec \in 1 .. born /\ at[c].rec \in Inc /\ pidOf[at[c].rec] = at[c].tgt
    BY <1>1 DEF Good, World
  <1>3. CASE ~PidAlive(at[c].tgt)
    <2>1. ~Alive(at[c].rec)
      BY <1>2, <1>3 DEF PidAlive, Running
    <2> QED BY <1>1, <1>2, <2>1 DEF Alive, World
  <1>4. CASE Reached(c) = 0 /\ at[c].pin = 0
    <2>1. ~PidAlive(at[c].tgt)
      BY <1>1, <1>4, Holders DEF Reached
    <2> QED BY <1>3, <2>1
  <1>5. CASE Reached(c) = 0 /\ at[c].pin # 0
    <2>1. at[c].pin \in 1 .. born /\ at[c].pin \in Inc
      BY <1>1, <1>5 DEF Good, World
    <2>2. phase[at[c].pin] = "dead"
      BY <1>1, <1>5, <2>1 DEF Reached, Alive, World
    <2> QED BY <1>1, <1>5, <2>2 DEF Good
  <1> QED BY <1>3, <1>4, <1>5

(* A check that succeeds finds no foreign process behind a live pidfd.     *)
LEMMA ConfirmedPin ==
    ASSUME Inv, NEW c \in Conn, Confirmed(c), at[c].pin # 0, phase[at[c].pin] # "dead"
    PROVE  kind[at[c].pin] # "foreign"
  <1>1. at[c].pin \in 1 .. born /\ at[c].pin \in Inc /\ pidOf[at[c].pin] = at[c].tgt /\ World
    BY DEF Inv, Good, World
  <1>2. Alive(at[c].pin)
    BY <1>1 DEF Alive, World
  <1>3. Holder(at[c].tgt) = at[c].pin
    BY <1>1, <1>2, Holders
  <1> QED BY <1>3 DEF Confirmed, IsDaemon

LEMMA Mismatches ==
    ASSUME Inv, UNCHANGED Life, UNCHANGED pidfile, NEW c \in Conn, pc(c) \in Ending, Mismatch(c)
    PROVE  Inv'
  <1>1. CASE Stale(c) /\ PidAlive(at[c].tgt)
    <2>1. Return(c, "failed") /\ "failed" \in Free
      BY <1>1 DEF Mismatch, Free, Place, Ended, Ending
    <2> QED BY <2>1, Returns
  <1>2. CASE ~(Stale(c) /\ PidAlive(at[c].tgt))
    <2>1. Gone(c, FALSE)
      BY <1>2 DEF Mismatch
    <2> QED BY <1>2, <2>1, Ends, RecordedIsDead
  <1> QED BY <1>1, <1>2

LEMMA KillSteps ==
    ASSUME Inv, NEW c \in Conn, KillStep(c)
    PROVE  Inv'
  <1>1. pc(c) \in Ending /\ UNCHANGED Life
    BY DEF KillStep, Verify, OpenPidfd, Check, Term, Wait, Recheck, Kill, WaitKill, Clear, In, pc, Ending,
           Signal, world, procs, files, Life
  <1>2. World /\ at[c] \in AllLocals /\ Good(at[c], born, pidOf, kind, phase) /\ at[c].pc \in Ending
    BY <1>1 DEF Inv, pc
  <1>3. "failed" \in Free /\ "spawn" \in Free
    BY DEF Free, Place, Ended, Ending, Loop
  <1>4. CASE Verify(c)
    <2>1. UNCHANGED pidfile
      BY <1>4 DEF Verify, world, files
    <2>2. CASE Confirmed(c)
      <3>1. GoTo(c, "open") /\ "open" \in Ending /\ "open" \notin Signalling
        BY <1>4, <2>2 DEF Verify, Ending, Signalling
      <3> QED BY <1>1, <2>1, <3>1, Onward
    <2>3. CASE ~Confirmed(c) /\ Stale(c)
      BY <1>1, <1>3, <1>4, <2>1, <2>3, Returns DEF Verify
    <2>4. CASE ~Confirmed(c) /\ ~Stale(c)
      BY <1>1, <1>4, <2>1, <2>4, Skips DEF Verify
    <2> QED BY <2>2, <2>3, <2>4
  <1>5. CASE OpenPidfd(c)
    <2> DEFINE i == IF Pidfd THEN Holder(at[c].tgt) ELSE 0
    <2> DEFINE place == IF i = 0 /\ Stale(c) THEN "term" ELSE "check"
    <2> DEFINE l == [at[c] EXCEPT !.pin = i, !.pc = place]
    <2>1. at' = [at EXCEPT ![c] = l] /\ UNCHANGED pidfile
      BY <1>5 DEF OpenPidfd, world, files
    <2>2. /\ i \in Inc0
          /\ i # 0 => i \in 1 .. born /\ pidOf[i] = at[c].tgt /\ place = "check"
      BY <1>2, Holders
    <2>3. i # 0 /\ at[c].mode = "stale" => i = at[c].rec \/ phase[at[c].rec] = "dead"
      <3>1. CASE at[c].mode = "stale"
        <4>1. at[c].rec \in 1 .. born /\ at[c].rec \in Inc /\ pidOf[at[c].rec] = at[c].tgt
          BY <1>2, <3>1 DEF Good, World
        <4>2. Alive(at[c].rec) => Holder(at[c].tgt) = at[c].rec
          BY <1>2, <4>1, Holders
        <4>3. Alive(at[c].rec) \/ phase[at[c].rec] = "dead"
          BY <1>2, <4>1 DEF Alive, World
        <4> QED BY <4>2, <4>3
      <3> QED BY <3>1
    <2>4. place \in {"term", "check"} /\ place \in Place
      BY DEF Place, Ending
    <2> HIDE DEF i, place
    <2>5. /\ l \in AllLocals /\ l.pc = place /\ l.mode = at[c].mode /\ l.pin = i
          /\ l.rec = at[c].rec /\ l.tgt = at[c].tgt /\ l.kids = at[c].kids
      BY <1>2, <2>2, <2>4 DEF AllLocals
    <2>6. at[c].kids = {}
      BY <1>2 DEF Good, Ending
    <2> HIDE DEF l
    <2>7. Good(l, born, pidOf, kind, phase)
      BY <1>2, <2>2, <2>3, <2>4, <2>5, <2>6 DEF Good, Ending, Signalling
    <2> QED BY <1>1, <2>1, <2>5, <2>7, MovedAlone
  <1>6. CASE Check(c)
    <2>1. UNCHANGED pidfile
      BY <1>6 DEF Check, world, files
    <2>2. CASE Confirmed(c)
      <3>1. GoTo(c, "term") /\ "term" \in Ending
        BY <1>6, <2>2 DEF Check, Ending
      <3> QED BY <1>1, <2>1, <2>2, <3>1, ConfirmedPin, Onward
    <2> QED BY <1>1, <1>6, <2>1, <2>2, Mismatches DEF Check
  <1>7. CASE Term(c)
    <2>1. UNCHANGED pidfile /\ at[c].pc \in Signalling
      BY <1>7 DEF Term, Signal, world, files, In, Signalling
    <2>2. CASE Reached(c) = 0
      BY <1>1, <1>7, <2>1, <2>2, Ends, RecordedIsDead DEF Term
    <2>3. CASE Reached(c) # 0
      <3>1. GoTo(c, "wait") /\ "wait" \in Ending /\ "wait" # "clear"
        BY <1>7, <2>3 DEF Term, Ending
      <3>2. at[c].pin # 0 /\ phase[at[c].pin] # "dead" => kind[at[c].pin] # "foreign"
        BY <1>2, <2>1 DEF Good
      <3> QED BY <1>1, <2>1, <3>1, <3>2, Onward
    <2> QED BY <2>2, <2>3
  <1>8. CASE Wait(c)
    <2>1. UNCHANGED pidfile /\ at[c].pc \in Signalling
      BY <1>8 DEF Wait, world, files, In, Signalling
    <2>2. CASE ~PidAlive(at[c].tgt)
      BY <1>1, <1>8, <2>1, <2>2, Ends, RecordedIsDead DEF Wait
    <2>3. CASE PidAlive(at[c].tgt)
      <3>1. GoTo(c, "recheck") /\ "recheck" \in Ending /\ "recheck" # "clear"
        BY <1>8, <2>3 DEF Wait, Ending
      <3>2. at[c].pin # 0 /\ phase[at[c].pin] # "dead" => kind[at[c].pin] # "foreign"
        BY <1>2, <2>1 DEF Good
      <3> QED BY <1>1, <2>1, <3>1, <3>2, Onward
    <2> QED BY <2>2, <2>3
  <1>9. CASE Recheck(c)
    <2>1. UNCHANGED pidfile
      BY <1>9 DEF Recheck, world, files
    <2>2. CASE Confirmed(c)
      <3>1. GoTo(c, "kill") /\ "kill" \in Ending /\ "kill" # "clear"
        BY <1>9, <2>2 DEF Recheck, Ending
      <3> QED BY <1>1, <2>1, <2>2, <3>1, ConfirmedPin, Onward
    <2> QED BY <1>1, <1>9, <2>1, <2>2, Mismatches DEF Recheck
  <1>10. CASE Kill(c)
    <2>1. UNCHANGED pidfile /\ at[c].pc \in Signalling
      BY <1>10 DEF Kill, Signal, world, files, In, Signalling
    <2>2. CASE GoTo(c, "waitKill")
      <3>1. "waitKill" \in Ending /\ "waitKill" # "clear"
        BY DEF Ending
      <3>2. at[c].pin # 0 /\ phase[at[c].pin] # "dead" => kind[at[c].pin] # "foreign"
        BY <1>2, <2>1 DEF Good
      <3> QED BY <1>1, <2>1, <2>2, <3>1, <3>2, Onward
    <2>3. CASE ~GoTo(c, "waitKill")
      <3>1. Reached(c) = 0 /\ Gone(c, FALSE)
        BY <1>10, <2>3 DEF Kill
      <3> QED BY <1>1, <2>1, <3>1, Ends, RecordedIsDead
    <2> QED BY <2>2, <2>3
  <1>11. CASE WaitKill(c)
    <2>1. UNCHANGED pidfile
      BY <1>11 DEF WaitKill, world, files
    <2>2. CASE ~PidAlive(at[c].tgt)
      BY <1>1, <1>11, <2>1, <2>2, Ends, RecordedIsDead DEF WaitKill
    <2>3. CASE PidAlive(at[c].tgt)
      <3>1. \E place \in Free : Return(c, place)
        BY <1>3, <1>11, <2>3 DEF WaitKill
      <3> QED BY <1>1, <2>1, <3>1, Returns
    <2> QED BY <2>2, <2>3
  <1>12. CASE Clear(c)
    <2>1. pidfile' \in {pidfile, NoFile} /\ Return(c, "spawn")
      BY <1>12 DEF Clear
    <2> QED BY <1>1, <1>3, <2>1, Returns
  <1> QED BY <1>4, <1>5, <1>6, <1>7, <1>8, <1>9, <1>10, <1>11, <1>12 DEF KillStep
-----------------------------------------------------------------------------
(* A client that knows only of what it has spawned.                        *)
LEMMA Knows ==
    ASSUME Inv, NEW c \in Conn, pc(c) \notin Ending \cup {"next"}
    PROVE  /\ at[c] \in AllLocals /\ at[c].mode = "stale" /\ at[c].pin = 0
           /\ at[c].kids \subseteq 1 .. born
           /\ \A i, j \in at[c].kids : phase[i] # "dead" /\ phase[j] # "dead" => i = j
           /\ pc(c) \notin {"window", "poll"} => at[c].kids = {}
  BY DEF Inv, Good, pc, AllLocals

(* One more process, once those that were spawned before are dead.         *)
LEMMA Spawned ==
    ASSUME Inv, NEW c \in Conn, pc(c) \notin Ending \cup {"next"},
           \A i \in at[c].kids : phase[i] = "dead",
           NEW first \in {"scope", "boot"}, NEW place \in {"window", "poll"}, Child(c, first, place)
    PROVE  Inv'
  <1>1. Born("ours", first) /\ UNCHANGED pidfile /\ World /\ "ours" \in Kind
    BY DEF Child, files, Inv, Kind
  <1>2. World' /\ Later(born', pidOf', kind', phase') /\ born' = born + 1
    BY <1>1, Birth
  <1> DEFINE l == [at[c] EXCEPT !.pc = place, !.kids = at[c].kids \cup {born + 1}]
  <1>3. at' = [at EXCEPT ![c] = l]
    BY DEF Child
  <1>4. born \in Inc /\ born + 1 \in Inc
    BY <1>2 DEF Inv, World, Later
  <1>5. at[c].kids \subseteq 1 .. born /\ at[c] \in AllLocals /\ at[c].mode = "stale" /\ at[c].pin = 0
    BY Knows
  <1>6. place \in Place /\ place \notin Ending \cup {"next"}
    BY DEF Place, Loop, Ending
  <1>7. at[c].kids \cup {born + 1} \in SUBSET Inc /\ at[c].kids \cup {born + 1} \subseteq 1 .. born + 1
    BY <1>4, <1>5
  <1>8. l.pc = place /\ l.mode = "stale" /\ l.pin = 0 /\ l.kids = at[c].kids \cup {born + 1}
    BY <1>5 DEF AllLocals
  <1>9. l \in AllLocals
    <2> DEFINE ks == at[c].kids \cup {born + 1}
    <2>1. ks \in SUBSET Inc
      BY <1>7
    <2>2. l = [at[c] EXCEPT !.pc = place, !.kids = ks]
      OBVIOUS
    <2> HIDE DEF l, ks
    <2> QED BY <1>5, <1>6, <2>1, <2>2 DEF AllLocals
  <1> HIDE DEF l
  <1>10. \A i \in at[c].kids : phase'[i] = "dead"
    BY <1>2, <1>5 DEF Later
  <1>11. Good(l, born', pidOf', kind', phase')
    BY <1>2, <1>6, <1>7, <1>8, <1>10 DEF Good, Signalling, Ending
  <1> QED BY <1>2, <1>3, <1>9, <1>11, Moved

LEMMA SpawnSteps ==
    ASSUME Inv, NEW c \in Conn, SpawnStep(c)
    PROVE  Inv'
  <1>1. pc(c) \notin Ending \cup {"next"}
    BY DEF SpawnStep, Spawn, WindowExit, WindowElapsed, Poll, PollOver, In, pc, Ending
  <1>2. /\ at[c].kids \subseteq 1 .. born /\ at[c] \in AllLocals /\ at[c].mode = "stale" /\ at[c].pin = 0
        /\ \A i, j \in at[c].kids : phase[i] # "dead" /\ phase[j] # "dead" => i = j
        /\ pc(c) = "spawn" => at[c].kids = {}
    BY <1>1, Knows
  <1>3. ASSUME SpawnError(c) PROVE Inv'
    <2>1. Return(c, "fallback") /\ "fallback" \in Free /\ UNCHANGED Life /\ pidfile' = pidfile
      BY <1>3 DEF SpawnError, Free, Place, Direct, Ending, world, procs, files, Life
    <2> QED BY <2>1, Returns
  <1>4. ASSUME GoTo(c, "poll"), UNCHANGED world PROVE Inv'
    <2> DEFINE l == [at[c] EXCEPT !.pc = "poll"]
    <2>1. at' = [at EXCEPT ![c] = l] /\ "poll" \in Place /\ "poll" \notin Ending
      BY <1>4 DEF GoTo, Place, Loop, Ending
    <2>2. l \in AllLocals /\ l.pc = "poll" /\ l.mode = "stale" /\ l.pin = 0 /\ l.kids = at[c].kids
      BY <1>2, <2>1 DEF AllLocals
    <2> HIDE DEF l
    <2>3. Good(l, born, pidOf, kind, phase)
      BY <1>2, <2>1, <2>2 DEF Good
    <2> QED BY <1>4, <2>1, <2>2, <2>3, MovedAlone DEF world, procs, files, Life
  <1>5. CASE Spawn(c)
    <2>1. \A i \in at[c].kids : phase[i] = "dead"
      BY <1>2, <1>5 DEF Spawn, In, pc
    <2> QED BY <1>1, <1>3, <1>5, <2>1, Spawned DEF Spawn
  <1>6. CASE WindowExit(c)
    <2>1. \A i \in at[c].kids : phase[i] = "dead"
      <3>1. \A i \in at[c].kids : ~Alive(i) /\ i \in Inc /\ ~(i > born)
        BY <1>2, <1>6 DEF WindowExit, Inv, World
      <3> QED BY <3>1 DEF Alive, Inv, World
    <2>2. CASE Child(c, "boot", "poll")
      BY <1>1, <2>1, <2>2, Spawned
    <2> QED BY <1>3, <1>4, <1>6, <2>2 DEF WindowExit
  <1>7. CASE WindowElapsed(c)
    BY <1>4, <1>7 DEF WindowElapsed
  <1>8. CASE PollOver(c)
    <2>1. \E place \in Free : Return(c, place)
      BY <1>8 DEF PollOver, Free, Place, Direct, Recover, Ending
    <2>2. UNCHANGED Life /\ pidfile' = pidfile
      BY <1>8 DEF PollOver, world, procs, files, Life
    <2> QED BY <2>1, <2>2, Returns
  <1>9. CASE Poll(c)
    <2>1. UNCHANGED Life /\ pidfile' = pidfile /\ pc(c) = "poll" /\ Connect(c)
      BY <1>9 DEF Poll, In, pc, world, procs, files, Life
    <2> QED BY <2>1, Connects
  <1> QED BY <1>5, <1>6, <1>7, <1>8, <1>9 DEF SpawnStep

(* The cleanup of invisible holders.                                       *)
LEMMA PassSteps ==
    ASSUME Inv, NEW c \in Conn, PassStep(c)
    PROVE  Inv'
  <1>1. UNCHANGED Life /\ UNCHANGED pidfile
    BY DEF PassStep, Probe, Probing, Scan, Grace, NextHolder, PassEnds, Freed, TryFlock, DropFlock,
           world, procs, files, Life
  <1>2. at[c] \in AllLocals /\ Good(at[c], born, pidOf, kind, phase)
    BY DEF Inv
  <1>3. at[c].pc \notin Ending \cup {"window", "poll"}
    BY DEF PassStep, Probe, Probing, Scan, Grace, NextHolder, PassEnds, Freed, In, Ending
  <1>4. at[c].pin = 0 /\ at[c].kids = {} /\ (at[c].pc # "next" => at[c].mode = "stale")
    BY <1>2, <1>3 DEF Good, AllLocals
  <1>5. ASSUME NEW l \in AllLocals, at' = [at EXCEPT ![c] = l], l.pin = 0, l.kids = {},
               \/ l.mode = "stale" /\ l.pc \in Free
               \/ l.mode = "holder" /\ l.pc \in {"next", "verify"}
        PROVE  Inv'
    <2>1. Good(l, born, pidOf, kind, phase)
      BY <1>5 DEF Good, Free, Ending, Signalling
    <2> QED BY <1>1, <1>5, <2>1, MovedAlone
  <1>6. CASE Probe(c) \/ Freed(c)
    <2>1. pc(c) \in Calm
      BY <1>6 DEF Probe, Freed, In, pc, Calm, Place, Recover, Ending
    <2>2. \E place \in Free : GoTo(c, place)
      BY <1>6 DEF Probe, Freed, TryFlock, Free, Place, Recover, Loop, Ending
    <2> QED BY <1>1, <2>1, <2>2, Goes
  <1>7. CASE Probing(c)
    <2>1. Return(c, "fallback") /\ "fallback" \in Free
      BY <1>7 DEF Probing, DropFlock, Free, Place, Direct, Ending
    <2> QED BY <1>1, <2>1, Returns
  <1>8. CASE Scan(c)
    <2> DEFINE found == {pidOf[i] : i \in {j \in Inc : IsDaemon(j) /\ phase[j] # "scope"}}
    <2> DEFINE l == [at[c] EXCEPT !.pc = "grace", !.todo = found]
    <2>1. at' = [at EXCEPT ![c] = l] /\ at[c].pc = "scan"
      BY <1>8 DEF Scan, In
    <2>2. found \in SUBSET Pid
      BY DEF Inv, World
    <2> HIDE DEF found
    <2>3. "grace" \in Free /\ "grace" \in Place
      BY DEF Free, Place, Recover, Ending
    <2>4. l \in AllLocals /\ l.pc = "grace" /\ l.mode = "stale" /\ l.pin = 0 /\ l.kids = {}
      BY <1>2, <1>4, <2>1, <2>2, <2>3 DEF AllLocals
    <2> HIDE DEF l
    <2> QED BY <1>5, <2>1, <2>3, <2>4
  <1>9. CASE Grace(c)
    <2>1. PICK left \in SUBSET Pid :
            at' = [at EXCEPT ![c] = [at[c] EXCEPT !.pc = "next", !.mode = "holder", !.todo = left]]
      <3>1. at[c].todo \in SUBSET Pid /\ {} \in SUBSET Pid
        BY <1>2 DEF AllLocals
      <3> QED BY <1>9, <3>1 DEF Grace
    <2> DEFINE l == [at[c] EXCEPT !.pc = "next", !.mode = "holder", !.todo = left]
    <2>2. "next" \in Place
      BY DEF Place, Recover
    <2>3. l \in AllLocals /\ l.pc = "next" /\ l.mode = "holder" /\ l.pin = 0 /\ l.kids = {}
      BY <1>2, <1>4, <2>2 DEF AllLocals
    <2>4. at' = [at EXCEPT ![c] = l]
      BY <2>1
    <2> HIDE DEF l
    <2> QED BY <1>5, <2>3, <2>4
  <1>10. CASE NextHolder(c)
    <2>1. PICK p \in at[c].todo :
            at' = [at EXCEPT ![c] = [at[c] EXCEPT !.pc = "verify", !.tgt = p, !.todo = at[c].todo \ {p}]]
      BY <1>10 DEF NextHolder
    <2> DEFINE left == at[c].todo \ {p}
    <2> DEFINE l == [at[c] EXCEPT !.pc = "verify", !.tgt = p, !.todo = left]
    <2>2. "verify" \in Place /\ p \in Pid /\ left \in SUBSET Pid
      BY <1>2 DEF Place, Ending, AllLocals
    <2>3. at' = [at EXCEPT ![c] = l] /\ at[c].mode = "holder"
      BY <1>2, <1>10, <2>1 DEF NextHolder, In, Good
    <2> HIDE DEF left
    <2>4. l \in AllLocals /\ l.pc = "verify" /\ l.mode = "holder" /\ l.pin = 0 /\ l.kids = {}
      BY <1>2, <1>4, <2>2, <2>3 DEF AllLocals
    <2> HIDE DEF l
    <2> QED BY <1>5, <2>3, <2>4
  <1>11. CASE PassEnds(c)
    <2>1. PICK place \in {"spawn", "freed"} : at' = [at EXCEPT ![c] = [Locals(place) EXCEPT !.again = TRUE]]
      BY <1>11 DEF PassEnds
    <2> DEFINE l == [Locals(place) EXCEPT !.again = TRUE]
    <2>2. place \in Free
      BY DEF Free, Place, Loop, Recover, Ending
    <2>3. l \in AllLocals /\ l.pc = place /\ l.mode = "stale" /\ l.pin = 0 /\ l.kids = {}
      <3> DEFINE k == Locals(place)
      <3>1. k \in AllLocals
        BY <2>2, Fresh
      <3>2. k.pc = place /\ k.mode = "stale" /\ k.pin = 0 /\ k.kids = {}
        BY DEF Locals
      <3> HIDE DEF k
      <3>3. /\ [k EXCEPT !.again = TRUE] \in AllLocals
            /\ [k EXCEPT !.again = TRUE].pc = place /\ [k EXCEPT !.again = TRUE].mode = "stale"
            /\ [k EXCEPT !.again = TRUE].pin = 0 /\ [k EXCEPT !.again = TRUE].kids = {}
        BY <3>1, <3>2 DEF AllLocals
      <3> QED BY <3>3 DEF k
    <2>4. at' = [at EXCEPT ![c] = l]
      BY <2>1
    <2> HIDE DEF l
    <2> QED BY <1>5, <2>2, <2>3, <2>4
  <1> QED BY <1>6, <1>7, <1>8, <1>9, <1>10, <1>11 DEF PassStep

(* main, and the session.                                                  *)
LEMMA MainSteps ==
    ASSUME Inv, NEW c \in Conn, Start(c) \/ MainStep(c) \/ Session(c)
    PROVE  Inv'
  <1>1. UNCHANGED Life /\ pidfile' = pidfile
    BY DEF Start, MainStep, Session, Fallback, TryOpen, Tried, RunDirect, EndDirect, StdinEnds, EndProxy,
           TryFlock, DropFlock, world, procs, files, Life
  <1>2. pc(c) \in Calm
    BY DEF Start, MainStep, Session, Fallback, TryOpen, Tried, RunDirect, EndDirect, StdinEnds, EndProxy,
           In, pc, Calm, Place, Direct, Ending
  <1>3. \E place \in Free : Return(c, place) \/ GoTo(c, place)
    BY DEF Start, MainStep, Session, Fallback, TryOpen, Tried, RunDirect, EndDirect, StdinEnds, EndProxy,
           TryFlock, DropFlock, Free, Place, Loop, Direct, Ended, Ending
  <1> QED BY <1>1, <1>2, <1>3, Returns, Goes

-----------------------------------------------------------------------------
LEMMA Beginning == Init => Inv
  <1> SUFFICES ASSUME Init PROVE Inv
    OBVIOUS
  <1>1. World
    BY DEF Init, World, Alive, Names, NoFile, Record, Kind, Phase
  <1>2. "off" \in Free
    BY DEF Free, Place, Ending
  <1>3. \A c \in Conn : at[c] = Locals("off")
    BY DEF Init
  <1>4. Locals("off") \in AllLocals /\ Good(Locals("off"), born, pidOf, kind, phase)
    BY <1>2, Fresh
  <1>5. at \in [Conn -> AllLocals]
    BY <1>4 DEF Init
  <1> QED BY <1>1, <1>3, <1>4, <1>5 DEF Inv

LEMMA Inductive == Spec => []Inv
  <1>1. ASSUME Inv, [Next]_vars PROVE Inv'
    <2>1. CASE UNCHANGED vars
      <3>1. UNCHANGED Life /\ pidfile' = pidfile /\ at' = at
        BY <2>1 DEF vars, world, procs, files, Life
      <3>2. World'
        BY <1>1, <3>1, Elsewhere DEF Inv
      <3>3. \A c \in Conn : Good(at'[c], born', pidOf', kind', phase')
        BY <1>1, <3>1 DEF Inv, Life
      <3> QED BY <1>1, <3>1, <3>2, <3>3 DEF Inv
    <2>2. CASE Environment
      <3>1. World' /\ Later(born', pidOf', kind', phase') /\ at' = at
        BY <1>1, <2>2, EnvironmentStep DEF Inv, Environment
      <3>2. ASSUME NEW c \in Conn PROVE Good(at[c], born', pidOf', kind', phase')
        BY <1>1, <3>1, StaysGood DEF Inv, World
      <3> QED BY <1>1, <3>1, <3>2 DEF Inv
    <2>3. ASSUME NEW c \in Conn, Start(c) \/ Hello(c) \/ Ensure(c) \/ Session(c) PROVE Inv'
      BY <1>1, <2>3, Hellos, DialSteps, KillSteps, SpawnSteps, PassSteps, MainSteps DEF Ensure
    <2> QED BY <1>1, <2>1, <2>2, <2>3 DEF Next
  <1> QED BY <1>1, Beginning, PTL DEF Spec

(* A signal through a pidfd reaches a daemon of this project or nobody,    *)
(* however pids are reused.                                                *)
THEOREM PinnedIsDaemonHolds == Spec => []PinnedIsDaemon
  <1>1. Inv => PinnedIsDaemon
    BY DEF Inv, Good, PinnedIsDaemon, Signalling, Alive, pc
  <1> QED BY <1>1, Inductive, PTL

(* KillStaleDaemon returns nil after a termination only when the recorded  *)
(* incarnation is dead.                                                    *)
THEOREM ClearedIsDeadHolds == Spec => []ClearedIsDead
  <1>1. Inv => ClearedIsDead
    BY DEF Inv, Good, ClearedIsDead, Alive, pc
  <1> QED BY <1>1, Inductive, PTL

(* One SpawnDetached leaves at most one process.                           *)
THEOREM OneChildHolds == Spec => []OneChild
  <1>1. Inv => OneChild
    BY DEF Inv, Good, OneChild, Alive
  <1> QED BY <1>1, Inductive, PTL
=============================================================================
