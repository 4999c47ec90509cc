------------------------ MODULE DaemonLock_proofs --------------------------
(***************************************************************************)
(* Safety of the lock protocol, for every set of daemons and guests, every *)
(* list of socket candidates and every number of attempts, with or without *)
(* hard links: the index has one writer, a serving daemon is that writer,  *)
(* and a daemon that stopped cleanly left nothing behind.                  *)
(*                                                                         *)
(* The pidfile plays no part in the first two: ClearStaleLock may remove   *)
(* it under its owner, and Ownership ties the flock and the connections to *)
(* the program counters alone.  The third needs Artifacts: which files may *)
(* name a daemon at each point of its life.                                *)
(***************************************************************************)
EXTENDS DaemonLock, TLAPS

Holding == {"opening", "opened", "unwind", "wait", "closing", "unlock"}

Ownership ==
    /\ \A p \in Proc :
          /\ flock = p <=> pc[p] \in Holding
          /\ p \in open <=> pc[p] \in {"opened", "wait", "closing"}
    /\ \A g \in Guest :
          /\ flock = g <=> guest[g] # "off"
          /\ g \in open <=> guest[g] = "open"

Unbound == {"off", "start", "unlink", "bind"} \cup Acquiring

Artifacts ==
    \A p \in Proc :
        /\ pc[p] \in {"off"} \cup Acquiring \cup Binding => stop[p] = "none"
        /\ pc[p] \in Unbound => \A i \in 1 .. NumPaths : sock[i] # p
        /\ \A i \in 1 .. NumPaths : sock[i] = p => i = path[p]
        /\ pidfile.by = p /\ ~pidfile.written => pc[p] \in {"write", "dead"}
        /\ stop[p] \in {"rmSock", "done"} => pidfile.by # p
        /\ stop[p] = "done" => \A i \in 1 .. NumPaths : sock[i] # p
        /\ pc[p] \in Leaving \cup {"exit"} => stop[p] = "done"

Attempts ==
    \A p \in Proc : pc[p] \in {"off"} \cup Acquiring => attempt[p] < MaxAttempts

Inv == TypeOK /\ Ownership /\ Artifacts /\ Attempts
-----------------------------------------------------------------------------
USE DEF Acquiring, Binding, Opening, Up, Leaving, Final, Phase, StopPhase, GuestPhase,
        Unbound, Holding, NoFile, Content, Alive, GoTo, StopTo, GuestTo, StartFails,
        files, index, locals, pids

(* The two values a pidfile may be replaced by.                            *)
LEMMA NoFileType == NoFile \in [by : Proc \cup {NoProc}, written : BOOLEAN]
  OBVIOUS

(* See NoFileType.                                                         *)
LEMMA Records ==
    ASSUME NEW p \in Proc
    PROVE  [by |-> p, written |-> TRUE] \in [by : Proc \cup {NoProc}, written : BOOLEAN]
  OBVIOUS

(* A step of a program counter keeps its type.                             *)
LEMMA GoToType ==
    ASSUME pc \in [Proc -> Phase], NEW p \in Proc, NEW phase \in Phase, GoTo(p, phase)
    PROVE  pc' \in [Proc -> Phase]
  OBVIOUS

(* Nor does a step of a daemon without the flock to one without it disturb *)
(* who holds what.                                                         *)
LEMMA OwnershipKept ==
    ASSUME TypeOK, Ownership, NEW p \in Proc, NEW phase \in Phase, GoTo(p, phase),
           pc[p] \notin Holding, phase \notin Holding, UNCHANGED <<index, guest>>
    PROVE  Ownership'
<1>1. \A q \in Proc : (pc'[q] \in Holding <=> pc[q] \in Holding)
                    /\ (pc'[q] \in {"opened", "wait", "closing"}
                          <=> pc[q] \in {"opened", "wait", "closing"})
  BY DEF TypeOK
<1> QED
  BY <1>1 DEF Ownership

(* The invariant holds initially.                                          *)
LEMMA InitInv == Init => Inv
  BY ProcAssumption, NumAssumption DEF Init, Inv, TypeOK, Ownership, Artifacts, Attempts

(* The steps of TryAcquireLock, ClearStaleLock and the loop around them.  *)
LEMMA AcquireStep ==
    ASSUME Inv, NEW p \in Proc, Acquire(p)
    PROVE  Inv'
<1> USE ProcAssumption, NumAssumption DEF Inv
<1>1. CASE TryLink(p)
  <2>1. TypeOK'
    <3>1. pidfile' \in [by : Proc \cup {NoProc}, written : BOOLEAN]
      BY <1>1 DEF TryLink, TypeOK
    <3>2. pc' \in [Proc -> Phase]
      <4>1. GoTo(p, "start") \/ GoTo(p, "write") \/ GoTo(p, "existing")
        BY <1>1 DEF TryLink
      <4> QED
        BY <4>1, GoToType DEF TypeOK
    <3>3. UNCHANGED <<sock, index, stop, locals, path, guest, pids>>
      BY <1>1 DEF TryLink
    <3> QED
      BY <3>1, <3>2, <3>3 DEF TypeOK
  <2>2. Ownership'
    <3>1. \E phase \in {"start", "write", "existing"} : GoTo(p, phase)
      BY <1>1 DEF TryLink
    <3>2. pc[p] \notin Holding /\ UNCHANGED <<index, guest>>
      BY <1>1 DEF TryLink
    <3> QED
      BY <3>1, <3>2, OwnershipKept
  <2>3. Artifacts'
    BY <1>1 DEF TryLink, TypeOK, Artifacts
  <2>4. Attempts'
    BY <1>1 DEF TryLink, TypeOK, Attempts
  <2> QED
    BY <2>1, <2>2, <2>3, <2>4
<1>2. CASE WriteRecord(p)
  <2>1. TypeOK'
    BY <1>2 DEF WriteRecord, TypeOK, Attempts
  <2>2. Ownership'
    BY <1>2 DEF WriteRecord, TypeOK, Ownership
  <2>3. Artifacts'
    BY <1>2 DEF WriteRecord, TypeOK, Artifacts
  <2>4. Attempts'
    BY <1>2 DEF WriteRecord, TypeOK, Attempts
  <2> QED
    BY <2>1, <2>2, <2>3, <2>4
<1>3. CASE ReadExisting(p)
  <2>1. TypeOK'
    BY <1>3 DEF ReadExisting, TypeOK, Attempts
  <2>2. Ownership'
    BY <1>3 DEF ReadExisting, TypeOK, Ownership
  <2>3. Artifacts'
    BY <1>3 DEF ReadExisting, TypeOK, Artifacts
  <2>4. Attempts'
    BY <1>3 DEF ReadExisting, TypeOK, Attempts
  <2> QED
    BY <2>1, <2>2, <2>3, <2>4
<1>4. CASE Judge(p)
  <2>1. TypeOK'
    <3>1. UNCHANGED <<files, index, stop, locals, path, guest, pids>>
      BY <1>4 DEF Judge
    <3>2. pc' \in [Proc -> Phase]
      <4>1. GoTo(p, "yielded") \/ GoTo(p, "read")
        BY <1>4 DEF Judge
      <4> QED
        BY <4>1, GoToType DEF TypeOK
    <3> QED
      BY <3>1, <3>2 DEF TypeOK
  <2>2. Ownership'
    BY <1>4 DEF Judge, TypeOK, Ownership
  <2>3. Artifacts'
    BY <1>4 DEF Judge, TypeOK, Artifacts
  <2>4. Attempts'
    BY <1>4 DEF Judge, TypeOK, Attempts
  <2> QED
    BY <2>1, <2>2, <2>3, <2>4
<1>5. CASE ReadStale(p)
  <2>1. TypeOK'
    <3>1. Content \in Proc \cup {NoProc, Corrupt}
      BY DEF TypeOK
    <3>2. seen' \in [Proc -> Proc \cup {NoProc, Corrupt}]
      BY <1>5, <3>1 DEF ReadStale, TypeOK
    <3>3. pc' \in [Proc -> Phase]
      <4>1. GoTo(p, "clear") \/ GoTo(p, "clearAgain")
        BY <1>5 DEF ReadStale
      <4> QED
        BY <4>1, GoToType DEF TypeOK
    <3>4. UNCHANGED <<files, index, stop, existing, attempt, path, guest, pids>>
      BY <1>5 DEF ReadStale
    <3> QED
      BY <3>2, <3>3, <3>4 DEF TypeOK
  <2>2. Ownership'
    <3>1. \E phase \in {"clear", "clearAgain"} : GoTo(p, phase)
      BY <1>5 DEF ReadStale
    <3>2. pc[p] \notin Holding /\ UNCHANGED <<index, guest>>
      BY <1>5 DEF ReadStale
    <3> QED
      BY <3>1, <3>2, OwnershipKept
  <2>3. Artifacts'
    BY <1>5 DEF ReadStale, TypeOK, Artifacts
  <2>4. Attempts'
    BY <1>5 DEF ReadStale, TypeOK, Attempts
  <2> QED
    BY <2>1, <2>2, <2>3, <2>4
<1>6. CASE ClearStaleLock(p)
  <2>0. /\ pc[p] \in {"clear", "clearAgain"}
        /\ \E phase \in {"remove", "removeAgain", "reread", "retry"} : GoTo(p, phase)
        /\ UNCHANGED <<files, index, stop, locals, path, guest, pids>>
    BY <1>6 DEF ClearStaleLock, AfterClear
  <2>1. TypeOK'
    <3>1. pc' \in [Proc -> Phase]
      BY <2>0, GoToType DEF TypeOK
    <3> QED
      BY <2>0, <3>1 DEF TypeOK
  <2>2. Ownership'
    BY <2>0 DEF TypeOK, Ownership
  <2>3. Artifacts'
    BY <2>0 DEF TypeOK, Artifacts
  <2>4. Attempts'
    BY <2>0 DEF TypeOK, Attempts
  <2> QED
    BY <2>1, <2>2, <2>3, <2>4
<1>7. CASE RemoveStale(p)
  <2>0. /\ pc[p] \in {"remove", "removeAgain"} /\ pidfile' = NoFile
        /\ \E phase \in {"reread", "retry"} : GoTo(p, phase)
        /\ UNCHANGED <<sock, index, stop, locals, path, guest, pids>>
    BY <1>7 DEF RemoveStale, AfterClear
  <2>1. TypeOK'
    <3>1. pc' \in [Proc -> Phase]
      BY <2>0, GoToType DEF TypeOK
    <3> QED
      BY <2>0, <3>1, NoFileType DEF TypeOK
  <2>2. Ownership'
    BY <2>0 DEF TypeOK, Ownership
  <2>3. Artifacts'
    BY <2>0 DEF TypeOK, Artifacts
  <2>4. Attempts'
    BY <2>0 DEF TypeOK, Attempts
  <2> QED
    BY <2>1, <2>2, <2>3, <2>4
<1>8. CASE Retry(p)
  <2>1. TypeOK'
    BY <1>8 DEF Retry, TypeOK, Attempts
  <2>2. Ownership'
    BY <1>8 DEF Retry, TypeOK, Ownership
  <2>3. Artifacts'
    BY <1>8 DEF Retry, TypeOK, Artifacts
  <2>4. Attempts'
    BY <1>8 DEF Retry, TypeOK, Attempts
  <2> QED
    BY <2>1, <2>2, <2>3, <2>4
<1> QED
  BY <1>1, <1>2, <1>3, <1>4, <1>5, <1>6, <1>7, <1>8 DEF Acquire

(* The steps of Start.                                                    *)
LEMMA BringStep ==
    ASSUME Inv, NEW p \in Proc, Bring(p)
    PROVE  Inv'
<1> USE ProcAssumption, NumAssumption DEF Inv
<1>1. CASE StartEnsure(p)
  <2>1. TypeOK'
    <3>1. pc' \in [Proc -> Phase]
      <4>1. GoTo(p, "unlink") \/ GoTo(p, "error")
        BY <1>1 DEF StartEnsure
      <4> QED
        BY <4>1, GoToType DEF TypeOK
    <3>2. UNCHANGED <<files, index, stop, locals, path, guest, pids>>
      BY <1>1 DEF StartEnsure
    <3> QED
      BY <3>1, <3>2 DEF TypeOK
  <2>2. Ownership'
    <3>1. \E phase \in {"unlink", "error"} : GoTo(p, phase)
      BY <1>1 DEF StartEnsure
    <3>2. pc[p] \notin Holding /\ UNCHANGED <<index, guest>>
      BY <1>1 DEF StartEnsure
    <3> QED
      BY <3>1, <3>2, OwnershipKept
  <2>3. Artifacts'
    BY <1>1 DEF StartEnsure, TypeOK, Artifacts
  <2>4. Attempts'
    BY <1>1 DEF StartEnsure, TypeOK, Attempts
  <2> QED
    BY <2>1, <2>2, <2>3, <2>4
<1>2. CASE UnlinkSocket(p)
  <2>1. TypeOK'
    BY <1>2 DEF UnlinkSocket, TypeOK, Attempts
  <2>2. Ownership'
    BY <1>2 DEF UnlinkSocket, TypeOK, Ownership
  <2>3. Artifacts'
    BY <1>2 DEF UnlinkSocket, TypeOK, Artifacts
  <2>4. Attempts'
    BY <1>2 DEF UnlinkSocket, TypeOK, Attempts
  <2> QED
    BY <2>1, <2>2, <2>3, <2>4
<1>3. CASE Bind(p)
  <2>1. TypeOK'
    BY <1>3 DEF Bind, TypeOK, Attempts
  <2>2. Ownership'
    BY <1>3 DEF Bind, TypeOK, Ownership
  <2>3. Artifacts'
    BY <1>3 DEF Bind, TypeOK, Artifacts
  <2>4. Attempts'
    BY <1>3 DEF Bind, TypeOK, Attempts
  <2> QED
    BY <2>1, <2>2, <2>3, <2>4
<1>4. CASE BindFails(p)
  <2>0. /\ pc[p] = "bind"
        /\ \E phase \in {"error", "unlink"} : pc' = [pc EXCEPT ![p] = phase]
        /\ path' \in [Proc -> 1 .. NumPaths]
        /\ pidfile' \in {pidfile, NoFile}
        /\ UNCHANGED <<sock, index, stop, locals, guest, pids>>
    BY <1>4 DEF BindFails, TypeOK
  <2>1. TypeOK'
    <3>1. pidfile' \in [by : Proc \cup {NoProc}, written : BOOLEAN]
      BY <2>0, NoFileType DEF TypeOK
    <3>2. pc' \in [Proc -> Phase]
      BY <2>0 DEF TypeOK
    <3> QED
      BY <2>0, <3>1, <3>2 DEF TypeOK
  <2>2. Ownership'
    BY <2>0 DEF TypeOK, Ownership
  <2>3. Artifacts'
    BY <1>4 DEF BindFails, TypeOK, Artifacts
  <2>4. Attempts'
    BY <1>4 DEF BindFails, TypeOK, Attempts
  <2> QED
    BY <2>1, <2>2, <2>3, <2>4
<1>5. CASE Chmod(p)
  <2>1. TypeOK'
    BY <1>5 DEF Chmod, TypeOK, Attempts
  <2>2. Ownership'
    BY <1>5 DEF Chmod, TypeOK, Ownership
  <2>3. Artifacts'
    BY <1>5 DEF Chmod, TypeOK, Artifacts
  <2>4. Attempts'
    BY <1>5 DEF Chmod, TypeOK, Attempts
  <2> QED
    BY <2>1, <2>2, <2>3, <2>4
<1>6. CASE ChmodFails(p)
  <2>1. TypeOK'
    BY <1>6 DEF ChmodFails, TypeOK, Attempts
  <2>2. Ownership'
    BY <1>6 DEF ChmodFails, TypeOK, Ownership
  <2>3. Artifacts'
    BY <1>6 DEF ChmodFails, TypeOK, Artifacts
  <2>4. Attempts'
    BY <1>6 DEF ChmodFails, TypeOK, Attempts
  <2> QED
    BY <2>1, <2>2, <2>3, <2>4
<1>7. CASE RewriteLock(p)
  <2>1. TypeOK'
    <3>1. pidfile' \in [by : Proc \cup {NoProc}, written : BOOLEAN]
      BY <1>7, Records DEF RewriteLock, TypeOK
    <3> QED
      BY <1>7, <3>1 DEF RewriteLock, TypeOK
  <2>2. Ownership'
    BY <1>7 DEF RewriteLock, TypeOK, Ownership
  <2>3. Artifacts'
    BY <1>7 DEF RewriteLock, TypeOK, Artifacts
  <2>4. Attempts'
    BY <1>7 DEF RewriteLock, TypeOK, Attempts
  <2> QED
    BY <2>1, <2>2, <2>3, <2>4
<1> QED
  BY <1>1, <1>2, <1>3, <1>4, <1>5, <1>6, <1>7 DEF Bring

(* The steps of db.Open.                                                  *)
LEMMA OpenStep ==
    ASSUME Inv, NEW p \in Proc, OpenIndex(p)
    PROVE  Inv'
<1> USE ProcAssumption, NumAssumption DEF Inv
<1>1. CASE TakeFlock(p)
  <2>1. TypeOK'
    BY <1>1 DEF TakeFlock, TypeOK, Attempts
  <2>2. Ownership'
    BY <1>1 DEF TakeFlock, TypeOK, Ownership
  <2>3. Artifacts'
    BY <1>1 DEF TakeFlock, TypeOK, Artifacts
  <2>4. Attempts'
    BY <1>1 DEF TakeFlock, TypeOK, Attempts
  <2> QED
    BY <2>1, <2>2, <2>3, <2>4
<1>2. CASE OpenRefused(p)
  <2>1. TypeOK'
    BY <1>2 DEF OpenRefused, TypeOK, Attempts
  <2>2. Ownership'
    BY <1>2 DEF OpenRefused, TypeOK, Ownership
  <2>3. Artifacts'
    BY <1>2 DEF OpenRefused, TypeOK, Artifacts
  <2>4. Attempts'
    BY <1>2 DEF OpenRefused, TypeOK, Attempts
  <2> QED
    BY <2>1, <2>2, <2>3, <2>4
<1>3. CASE OpenConn(p)
  <2>1. TypeOK'
    BY <1>3 DEF OpenConn, TypeOK, Attempts
  <2>2. Ownership'
    BY <1>3 DEF OpenConn, TypeOK, Ownership
  <2>3. Artifacts'
    BY <1>3 DEF OpenConn, TypeOK, Artifacts
  <2>4. Attempts'
    BY <1>3 DEF OpenConn, TypeOK, Attempts
  <2> QED
    BY <2>1, <2>2, <2>3, <2>4
<1>4. CASE OpenFails(p)
  <2>1. TypeOK'
    BY <1>4 DEF OpenFails, TypeOK, Attempts
  <2>2. Ownership'
    BY <1>4 DEF OpenFails, TypeOK, Ownership
  <2>3. Artifacts'
    BY <1>4 DEF OpenFails, TypeOK, Artifacts
  <2>4. Attempts'
    BY <1>4 DEF OpenFails, TypeOK, Attempts
  <2> QED
    BY <2>1, <2>2, <2>3, <2>4
<1>5. CASE OpenDone(p)
  <2>1. TypeOK'
    BY <1>5 DEF OpenDone, TypeOK, Attempts
  <2>2. Ownership'
    BY <1>5 DEF OpenDone, TypeOK, Ownership
  <2>3. Artifacts'
    BY <1>5 DEF OpenDone, TypeOK, Artifacts
  <2>4. Attempts'
    BY <1>5 DEF OpenDone, TypeOK, Attempts
  <2> QED
    BY <2>1, <2>2, <2>3, <2>4
<1>6. CASE ConnFails(p)
  <2>1. TypeOK'
    BY <1>6 DEF ConnFails, TypeOK, Attempts
  <2>2. Ownership'
    BY <1>6 DEF ConnFails, TypeOK, Ownership
  <2>3. Artifacts'
    BY <1>6 DEF ConnFails, TypeOK, Artifacts
  <2>4. Attempts'
    BY <1>6 DEF ConnFails, TypeOK, Attempts
  <2> QED
    BY <2>1, <2>2, <2>3, <2>4
<1>7. CASE Unwind(p)
  <2>1. TypeOK'
    BY <1>7 DEF Unwind, TypeOK, Attempts
  <2>2. Ownership'
    BY <1>7 DEF Unwind, TypeOK, Ownership
  <2>3. Artifacts'
    BY <1>7 DEF Unwind, TypeOK, Artifacts
  <2>4. Attempts'
    BY <1>7 DEF Unwind, TypeOK, Attempts
  <2> QED
    BY <2>1, <2>2, <2>3, <2>4
<1> QED
  BY <1>1, <1>2, <1>3, <1>4, <1>5, <1>6, <1>7 DEF OpenIndex

(* The steps of the shutdown.                                             *)
LEMMA LeaveStep ==
    ASSUME Inv, NEW p \in Proc, Leave(p)
    PROVE  Inv'
<1> USE ProcAssumption, NumAssumption DEF Inv
<1>1. CASE StopOnReadyFailed(p)
  <2>1. TypeOK'
    <3>1. UNCHANGED <<files, index, locals, path, guest, pids>>
      BY <1>1 DEF StopOnReadyFailed
    <3>2. pc' \in [Proc -> Phase]
      <4>1. GoTo(p, "stopping") \/ GoTo(p, "error")
        BY <1>1 DEF StopOnReadyFailed
      <4> QED
        BY <4>1, GoToType DEF TypeOK
    <3>3. stop' \in [Proc -> StopPhase]
      <4>1. stop' = stop \/ StopTo(p, "readPid")
        BY <1>1 DEF StopOnReadyFailed
      <4>2. stop \in [Proc -> StopPhase]
        BY DEF TypeOK
      <4> QED
        BY <4>1, <4>2
    <3> QED
      BY <3>1, <3>2, <3>3 DEF TypeOK
  <2>2. Ownership'
    <3>1. \E phase \in {"stopping", "error"} : GoTo(p, phase)
      BY <1>1 DEF StopOnReadyFailed
    <3>2. pc[p] \notin Holding /\ UNCHANGED <<index, guest>>
      BY <1>1 DEF StopOnReadyFailed
    <3> QED
      BY <3>1, <3>2, OwnershipKept
  <2>3. Artifacts'
    BY <1>1 DEF StopOnReadyFailed, TypeOK, Artifacts
  <2>4. Attempts'
    BY <1>1 DEF StopOnReadyFailed, TypeOK, Attempts
  <2> QED
    BY <2>1, <2>2, <2>3, <2>4
<1>2. CASE CleanupReadPid(p)
  <2>1. TypeOK'
    BY <1>2 DEF CleanupReadPid, TypeOK, Attempts
  <2>2. Ownership'
    BY <1>2 DEF CleanupReadPid, TypeOK, Ownership
  <2>3. Artifacts'
    BY <1>2 DEF CleanupReadPid, TypeOK, Artifacts
  <2>4. Attempts'
    BY <1>2 DEF CleanupReadPid, TypeOK, Attempts
  <2> QED
    BY <2>1, <2>2, <2>3, <2>4
<1>3. CASE CleanupRemovePid(p)
  <2>1. TypeOK'
    BY <1>3 DEF CleanupRemovePid, TypeOK, Attempts
  <2>2. Ownership'
    BY <1>3 DEF CleanupRemovePid, TypeOK, Ownership
  <2>3. Artifacts'
    BY <1>3 DEF CleanupRemovePid, TypeOK, Artifacts
  <2>4. Attempts'
    BY <1>3 DEF CleanupRemovePid, TypeOK, Attempts
  <2> QED
    BY <2>1, <2>2, <2>3, <2>4
<1>4. CASE CleanupRemoveSock(p)
  <2>1. TypeOK'
    BY <1>4 DEF CleanupRemoveSock, TypeOK, Attempts
  <2>2. Ownership'
    BY <1>4 DEF CleanupRemoveSock, TypeOK, Ownership
  <2>3. Artifacts'
    BY <1>4 DEF CleanupRemoveSock, TypeOK, Artifacts
  <2>4. Attempts'
    BY <1>4 DEF CleanupRemoveSock, TypeOK, Attempts
  <2> QED
    BY <2>1, <2>2, <2>3, <2>4
<1>5. CASE AfterWait(p)
  <2>1. TypeOK'
    BY <1>5 DEF AfterWait, TypeOK, Attempts
  <2>2. Ownership'
    BY <1>5 DEF AfterWait, TypeOK, Ownership
  <2>3. Artifacts'
    BY <1>5 DEF AfterWait, TypeOK, Artifacts
  <2>4. Attempts'
    BY <1>5 DEF AfterWait, TypeOK, Attempts
  <2> QED
    BY <2>1, <2>2, <2>3, <2>4
<1>6. CASE CloseConn(p)
  <2>1. TypeOK'
    BY <1>6 DEF CloseConn, TypeOK, Attempts
  <2>2. Ownership'
    BY <1>6 DEF CloseConn, TypeOK, Ownership
  <2>3. Artifacts'
    BY <1>6 DEF CloseConn, TypeOK, Artifacts
  <2>4. Attempts'
    BY <1>6 DEF CloseConn, TypeOK, Attempts
  <2> QED
    BY <2>1, <2>2, <2>3, <2>4
<1>7. CASE Unlock(p)
  <2>1. TypeOK'
    BY <1>7 DEF Unlock, TypeOK, Attempts
  <2>2. Ownership'
    BY <1>7 DEF Unlock, TypeOK, Ownership
  <2>3. Artifacts'
    BY <1>7 DEF Unlock, TypeOK, Artifacts
  <2>4. Attempts'
    BY <1>7 DEF Unlock, TypeOK, Attempts
  <2> QED
    BY <2>1, <2>2, <2>3, <2>4
<1> QED
  BY <1>1, <1>2, <1>3, <1>4, <1>5, <1>6, <1>7 DEF Leave

(* Launch, the start of a shutdown and a crash.                            *)
LEMMA LifeStep ==
    ASSUME Inv, NEW p \in Proc, Launch(p) \/ Stop(p) \/ Crash(p)
    PROVE  Inv'
<1> USE ProcAssumption, NumAssumption DEF Inv
<1>1. CASE Launch(p)
  <2>1. TypeOK'
    BY <1>1 DEF Launch, TypeOK
  <2>2. Ownership'
    BY <1>1 DEF Launch, TypeOK, Ownership
  <2>3. Artifacts'
    BY <1>1 DEF Launch, TypeOK, Artifacts
  <2>4. Attempts'
    BY <1>1 DEF Launch, TypeOK, Attempts
  <2> QED
    BY <2>1, <2>2, <2>3, <2>4
<1>2. CASE Stop(p)
  <2>1. TypeOK'
    BY <1>2 DEF Stop, TypeOK
  <2>2. Ownership'
    BY <1>2 DEF Stop, TypeOK, Ownership
  <2>3. Artifacts'
    BY <1>2 DEF Stop, TypeOK, Artifacts
  <2>4. Attempts'
    BY <1>2 DEF Stop, TypeOK, Attempts
  <2> QED
    BY <2>1, <2>2, <2>3, <2>4
<1>3. CASE Crash(p)
  <2>1. TypeOK'
    BY <1>3 DEF Crash, TypeOK
  <2>2. Ownership'
    BY <1>3 DEF Crash, TypeOK, Ownership
  <2>3. Artifacts'
    BY <1>3 DEF Crash, TypeOK, Artifacts
  <2>4. Attempts'
    BY <1>3 DEF Crash, TypeOK, Attempts
  <2> QED
    BY <2>1, <2>2, <2>3, <2>4
<1> QED
  BY <1>1, <1>2, <1>3

(* The guests touch neither the files nor the daemons.                     *)
LEMMA GuestInv ==
    ASSUME Inv, NEW g \in Guest, GuestStep(g)
    PROVE  Inv'
<1> USE ProcAssumption DEF Inv
<1>1. UNCHANGED <<files, pc, stop, locals, path, pids>>
  BY DEF GuestStep, GuestLock, GuestOpen, GuestClose, GuestUnlock
<1>2. Artifacts' /\ Attempts'
  BY <1>1 DEF Artifacts, Attempts
<1>3. TypeOK'
  <2>1. flock' \in Proc \cup Guest \cup {NoProc}
    BY DEF GuestStep, GuestLock, GuestOpen, GuestClose, GuestUnlock, TypeOK
  <2>2. open' \subseteq Proc \cup Guest
    BY DEF GuestStep, GuestLock, GuestOpen, GuestClose, GuestUnlock, TypeOK
  <2>3. guest' \in [Guest -> GuestPhase]
    <3>1. \E phase \in GuestPhase : GuestTo(g, phase)
      BY DEF GuestStep, GuestLock, GuestOpen, GuestClose, GuestUnlock
    <3> QED
      BY <3>1 DEF TypeOK
  <2> QED
    BY <1>1, <2>1, <2>2, <2>3 DEF TypeOK
<1>4. Ownership'
  <2>1. CASE GuestLock(g)
    BY <2>1 DEF GuestLock, TypeOK, Ownership
  <2>2. CASE GuestOpen(g)
    BY <2>2 DEF GuestOpen, TypeOK, Ownership
  <2>3. CASE GuestClose(g)
    BY <2>3 DEF GuestClose, TypeOK, Ownership
  <2>4. CASE GuestUnlock(g)
    BY <2>4 DEF GuestUnlock, TypeOK, Ownership
  <2> QED
    BY <2>1, <2>2, <2>3, <2>4 DEF GuestStep
<1> QED
  BY <1>2, <1>3, <1>4

(* Nor do the pids of other programs.                                      *)
LEMMA StrangerInv ==
    ASSUME Inv, NEW n \in Pid, StrangerBorn(n) \/ StrangerDies(n)
    PROVE  Inv'
<1>1. UNCHANGED <<files, index, pc, stop, locals, path, guest, pid>>
  BY DEF StrangerBorn, StrangerDies
<1>2. strangers' \subseteq Pid
  BY DEF StrangerBorn, StrangerDies, Inv, TypeOK
<1>3. TypeOK'
  BY <1>1, <1>2 DEF Inv, TypeOK
<1> QED
  BY <1>1, <1>3 DEF Inv, Ownership, Artifacts, Attempts

(* Every step preserves the invariant.                                     *)
LEMMA NextInv == Inv /\ [Next]_vars => Inv'
<1> SUFFICES ASSUME Inv, [Next]_vars PROVE Inv'
  OBVIOUS
<1>1. CASE UNCHANGED vars
  BY <1>1 DEF Inv, TypeOK, Ownership, Artifacts, Attempts, vars
<1>2. CASE Next
  BY <1>2, AcquireStep, BringStep, OpenStep, LeaveStep, LifeStep, GuestInv, StrangerInv
  DEF Next, Step
<1> QED
  BY <1>1, <1>2

(* The strengthened invariant: who holds the flock, who has a connection   *)
(* open, and which files may name whom (lock.go, server.go:76-186,         *)
(* 540-551, connection.go:88-275).                                         *)
THEOREM Invariant == Spec => []Inv
<1> QED
  BY InitInv, NextInv, PTL DEF Spec
-----------------------------------------------------------------------------
(* Every variable has its type, for every instance (lock.go, server.go).   *)
THEOREM TypeCorrect == Spec => []TypeOK
<1>1. Inv => TypeOK
  BY DEF Inv
<1> QED
  BY <1>1, Invariant, PTL

(* A daemon past onReady owns the index until it closes it                 *)
(* (server.go:640-655).                                                    *)
THEOREM ServingOwns == Spec => []ServingOwnsIndex
<1>1. Inv => ServingOwnsIndex
  BY DEF Inv, Ownership, ServingOwnsIndex
<1> QED
  BY <1>1, Invariant, PTL

(* A daemon that stopped cleanly leaves no pidfile and no socket of its    *)
(* own (server.go:540-551).                                                *)
THEOREM CleanExit == Spec => []CleanExitLeavesNothing
<1>1. Inv => CleanExitLeavesNothing
  BY DEF Inv, Artifacts, CleanExitLeavesNothing
<1> QED
  BY <1>1, Invariant, PTL
-----------------------------------------------------------------------------
(* The pidfile, socket and flock protocol implements the one-writer index, *)
(* under the mapping writers <- open: on every path, that of an Open which *)
(* fails with its connection open included, the connection is closed       *)
(* before the flock is released (connection.go:88-224, 252-275).           *)
THEOREM Refinement == Spec => ImplementsIndexWriter
<1>1. Init => Writer!Init
  BY DEF Init, Writer!Init
<1>2. ASSUME Inv, NEW x \in Proc \cup Guest, flock = x, x \notin open
      PROVE  open = {}
  <2>1. ASSUME NEW y \in open PROVE flock = y
    <3>1. y \in Proc \cup Guest
      BY <1>2, <2>1 DEF Inv, TypeOK
    <3>2. CASE y \in Proc
      BY <1>2, <2>1, <3>2 DEF Inv, Ownership
    <3>3. CASE y \in Guest
      BY <1>2, <2>1, <3>3 DEF Inv, Ownership
    <3> QED
      BY <3>1, <3>2, <3>3
  <2> QED
    BY <1>2, <2>1
<1>3. ASSUME Inv, NEW x \in Proc \cup Guest, x \in open
      PROVE  open = {x}
  <2>1. ASSUME NEW y \in open PROVE y \in Proc \cup Guest /\ flock = y
    BY <1>3, <2>1 DEF Inv, TypeOK, Ownership
  <2>2. ASSUME NEW y \in open PROVE y = x
    BY <1>3, <2>1
  <2> QED
    BY <1>3, <2>2
<1>4. Inv /\ [Next]_vars => [Writer!Next]_open
  <2> SUFFICES ASSUME Inv, [Next]_vars PROVE [Writer!Next]_open
    OBVIOUS
  <2>1. CASE UNCHANGED vars
    BY <2>1 DEF vars
  <2>2. ASSUME NEW x \in Proc \cup Guest, open' = open \ {x} PROVE [Writer!Next]_open
    <3>1. CASE x \in open
      BY <2>2, <3>1 DEF Writer!Next, Writer!Close
    <3>2. CASE x \notin open
      BY <2>2, <3>2
    <3> QED
      BY <3>1, <3>2
  <2>3. ASSUME NEW x \in Proc \cup Guest, flock = x, x \notin open, open' = open \cup {x}
        PROVE  [Writer!Next]_open
    <3>1. open = {}
      BY <1>2, <2>3
    <3> QED
      BY <2>3, <3>1 DEF Writer!Next, Writer!Open
  <2>4. ASSUME NEW p \in Proc, Step(p) \/ Launch(p) \/ Stop(p) \/ Crash(p)
        PROVE  [Writer!Next]_open
    <3>1. CASE OpenConn(p)
      <4>1. flock = p /\ p \notin open /\ open' = open \cup {p}
        BY <3>1 DEF OpenConn, Inv, Ownership
      <4> QED
        BY <4>1, <2>3
    <3>2. CASE CloseConn(p) \/ ConnFails(p) \/ Crash(p)
      BY <3>2, <2>2 DEF CloseConn, ConnFails, Crash
    <3>3. CASE ~(OpenConn(p) \/ CloseConn(p) \/ ConnFails(p) \/ Crash(p))
      <4>1. UNCHANGED open
        BY <2>4, <3>3 DEF Step, Launch, Stop, Acquire, TryLink, WriteRecord, ReadExisting,
           Judge, ReadStale, ClearStaleLock, RemoveStale, Retry, Bring, StartEnsure, UnlinkSocket, Bind,
           BindFails, Chmod, ChmodFails, RewriteLock, OpenIndex, TakeFlock, OpenRefused,
           OpenFails, OpenDone, Unwind, Leave, StopOnReadyFailed, CleanupReadPid, CleanupRemovePid,
           CleanupRemoveSock, AfterWait, Unlock
      <4> QED
        BY <4>1
    <3> QED
      BY <3>1, <3>2, <3>3
  <2>5. ASSUME NEW g \in Guest, GuestStep(g) PROVE [Writer!Next]_open
    <3>1. CASE GuestLock(g)
      BY <3>1 DEF GuestLock
    <3>2. CASE GuestOpen(g)
      <4>1. flock = g /\ g \notin open /\ open' = open \cup {g}
        BY <3>2 DEF GuestOpen, Inv, Ownership
      <4> QED
        BY <4>1, <2>3
    <3>3. CASE GuestClose(g) \/ GuestUnlock(g)
      BY <3>3, <2>2 DEF GuestClose, GuestUnlock
    <3> QED
      BY <2>5, <3>1, <3>2, <3>3 DEF GuestStep
  <2>6. ASSUME NEW n \in Pid, StrangerBorn(n) \/ StrangerDies(n) PROVE [Writer!Next]_open
    BY <2>6 DEF StrangerBorn, StrangerDies
  <2> QED
    BY <2>1, <2>4, <2>5, <2>6 DEF Next
<1> QED
  BY <1>1, <1>4, Invariant, PTL DEF Spec, ImplementsIndexWriter, Writer!Spec
=============================================================================
