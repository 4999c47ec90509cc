--------------------------- MODULE Watcher_proofs ---------------------------
(***************************************************************************)
(* Proofs about Watcher, for every set of files and contents, every event  *)
(* queue and retry budget and any number of changes.                       *)
(***************************************************************************)
EXTENDS Watcher, TLAPS

\* A pass is begun by a loop that was started, and none is begun once the
\* watcher is told to stop; the database is closed after both have ended.
Shutdown ==
    /\ loop = "off" => pass = "idle"
    /\ server = "closed" => pass = "idle" /\ loop \in {"off", "ended"}

Good(f) == excuse[f] \in {"none", "forgotten"}
Told == {events[i] : i \in 1 .. Len(events)}

\* What the loop has yet to hear of f: an event of its own or of what holds
\* it, or, as f exists, a walk that will find it.
Heard(f) ==
    \/ \E p \in Told \cap Path : f \in Below(p)
    \/ /\ disk[f] # "absent"
       /\ \/ f \in InTree /\ ("newTree" \in Told \/ loop \in {"walk", "walkFiles"})
          \/ "overflow" \in Told \/ loop \in {"rescan", "rescanFiles"}

\* What the running pass still has before it, and the entries it leaves to
\* the next one.
InHand == jobs \cup batch \cup (IF pass = "delete" THEN {cur.path} ELSE {})
Mine   == own \cap InHand
Waiting == pending \ Mine
Covered(f) == Heard(f) \/ \E p \in Waiting : f \in Below(p)

\* What the pass will do for f, if its view of the file is not out of date.
InWork(f) ==
    \/ \E p \in own \cap jobs : f \in Below(p)
    \/ pass = "delete" /\ cur.path \in own /\ f \in Below(cur.path) /\ disk[f] \notin Text
    \/ f \in own \cap batch /\ (pass \in {"judge", "delete"} \/ f \in todo \cup failed)
    \/ pass = "write" /\ cur.path = f /\ f \in own

Shape ==
    /\ InHand \subseteq pending /\ own \subseteq Path
    /\ jobs \cap batch = {} /\ (pass = "delete" => cur.path \notin jobs \cup batch)
    /\ pass = "idle" => jobs = {} /\ batch = {} /\ own = {}
    /\ pass \in {"idle", "judge", "delete"} => todo = {} /\ failed = {} /\ keys = {} /\ ~bad
    /\ pass \notin {"judge", "delete"} => jobs = {}
    /\ pass = "finish" => todo = {}
    /\ failed # {} => bad
    /\ loop = "off" => events = <<>>
    /\ \A f \in InTree : disk[f] # "absent" => treeUp

\* Whoever hears that the directory went hears afterwards that it is back.
BackAfterGone ==
    treeUp => \A i \in 1 .. Len(events) : events[i] = "tree" =>
        \E j \in i + 1 .. Len(events) : events[j] \in {"newTree", "overflow"}

\* A file that exists is not lost to the removal of the directory that is
\* still pending: it is younger, or yet to be heard of.
SurvivesTree ==
    "tree" \in pending => \A f \in InTree :
        Good(f) /\ disk[f] \in Text => Heard(f) \/ <<"tree", f>> \in older

\* What the pass has in hand is not younger than a directory it has left
\* behind.
TreeFirst == \A f \in Mine : <<"tree", f>> \in older => "tree" \in Mine

\* A view of the file that is out of date does not go unnoticed.
Fresh(f) ==
    /\ f \in batch => disk[f] # "link" \/ Covered(f)
    /\ pass = "write" /\ cur.path = f =>
          disk[f] = "huge" \/ Covered(f) \/ cur.saw = (IF disk[f] \in Text THEN disk[f] ELSE "absent")
    /\ pass = "delete" /\ f \in Below(cur.path) => disk[f] \notin Text \/ Covered(f) \/ f \in own \cap (jobs \cup batch)

Tracked(f) == Current(f) \/ disk[f] = "huge" \/ Covered(f) \/ InWork(f)

\* Extracted references of f have a resolution pass before them.
Owed(f) ==
    f \in unresolved =>
        \/ disk[f] = "huge" \/ Covered(f)
        \/ \E p \in own \cap jobs : f \in Below(p)
        \/ pass = "delete" /\ cur.path \in own /\ f \in Below(cur.path)
        \/ f \in own \cap batch /\ (pass \in {"judge", "delete"} \/ f \in todo \cup failed \cup keys)
        \/ pass = "write" /\ cur.path = f /\ f \in own
Settled == pass = "finish" /\ ~bad => unresolved \cap keys = {}

Rescued == \A f \in File : excuse[f] = "overflow" => disk[f] = "absent" \/ Heard(f)

Live ==
    /\ Shape /\ BackAfterGone /\ SurvivesTree /\ TreeFirst /\ Settled
    /\ \A f \in File : Good(f) => Fresh(f) /\ Tracked(f)
    /\ \A f \in File : excuse[f] = "none" => Owed(f)
    /\ Rescued
Core == server = "up" => Live
-----------------------------------------------------------------------------
USE DEF tree, queue, work, index, Interrupted, IsStopped

(* Shutdown is inductive.                                                  *)
LEMMA ShutdownStep == Shutdown /\ [Next]_vars => Shutdown'
  <1> SUFFICES ASSUME Shutdown, [Next]_vars PROVE Shutdown'
    OBVIOUS
  <1> USE DEF Shutdown
  <1>1. CASE UNCHANGED vars
    BY <1>1 DEF vars
  <1>2. CASE Users
    BY <1>2 DEF Users, Edit, MoveTreeOut, MoveTreeIn
  <1>3. CASE Start \/ LoopStep
    BY <1>3 DEF Start, LoopStep, TakeEvent, LoopQueues, LoopWalks, WalkAdds, WalkQueues, LoopExits
  <1>4. CASE Tick
    BY <1>4 DEF Tick, Take
  <1>5. CASE PassStep
    <2>1. pass # "idle" /\ UNCHANGED <<loop, server>>
      BY <1>5 DEF PassStep, PassOnly, Lstat, ReadFile, Delete, Judged, Interrupt, WriteFile,
                  Resolve, Finish
    <2> QED BY <2>1
  <1>6. CASE CloseBgDone \/ ServerStep
    BY <1>6 DEF CloseBgDone, ServerStep, StopWatcher, CloseDB
  <1> QED BY <1>1, <1>2, <1>3, <1>4, <1>5, <1>6 DEF Next

(* NoPassAfterClose: neither the pass nor the loop outlives the database,  *)
(* whatever the grace period of Stop (server.go:225-231).                  *)
THEOREM NoPassAfterCloseHolds == Spec => []NoPassAfterClose
  <1>1. Init => Shutdown
    BY DEF Init, Shutdown
  <1>2. Shutdown => NoPassAfterClose
    BY DEF Shutdown, NoPassAfterClose
  <1> QED BY <1>1, <1>2, ShutdownStep, PTL DEF Spec

-----------------------------------------------------------------------------
(* Types.                                                                  *)

\* An entry that is stamped anew keeps `older` a relation on `pending`.
LEMMA RestampType ==
  ASSUME NEW stay, NEW S, stay \subseteq Path, S \subseteq Path, Restamp(stay, S)
  PROVE  pending' = stay \cup S /\ pending' \subseteq Path /\ older' \subseteq pending' \X pending'
  BY DEF Restamp

\* What exceeds the capacity of the queue is the overflow mark.
Brim == Len(events) = QueueLen + 1 => events[Len(events)] = "overflow"
\* What a pass holds between two of its system calls.
Held ==
    /\ pass = "write" => cur.path \in batch /\ cur.saw \in Text \cup {"absent"}
    /\ pass = "delete" => cur.path \in Path
Typed == TypeOK /\ Brim /\ Held

\* The queue takes at most the overflow mark beyond its capacity.
LEMMA NotifyType ==
  ASSUME Typed, NEW e \in Path \cup {"newTree"}, NEW heard, NEW S, Notify(e, heard, S)
  PROVE  /\ events' \in Seq(Path \cup {"newTree", "overflow"}) /\ Len(events') <= QueueLen + 1
         /\ excuse' \in [File -> Excuses] /\ Brim'
  <1>1. QueueLen \in Nat \ {0}
    BY BoundAssumption
  <1>2. Len(events) \in Nat
    BY DEF Typed, TypeOK
  <1>3. excuse' \in [File -> Excuses]
    BY DEF Typed, TypeOK, Notify, Excuse, Excuses
  <1>4. CASE UNCHANGED events
    BY <1>3, <1>4 DEF Typed, TypeOK, Brim
  <1>5. CASE Len(events) < QueueLen /\ events' = Append(events, e)
    BY <1>1, <1>2, <1>3, <1>5 DEF Typed, TypeOK, Brim
  <1>6. CASE events[Len(events)] # "overflow" /\ events' = Append(events, "overflow") /\ ~(Len(events) < QueueLen)
    <2>1. Len(events) = QueueLen
      BY <1>1, <1>2, <1>6 DEF Typed, TypeOK, Brim
    <2> QED BY <1>1, <1>3, <1>6, <2>1 DEF Typed, TypeOK, Brim
  <1> QED BY <1>4, <1>5, <1>6 DEF Notify

\* So do the new entries of the loop and those that a pass gives back.
LEMMA QueueType ==
  ASSUME TypeOK, NEW S \in SUBSET Path, Queue(S)
  PROVE  /\ pending' \subseteq Path /\ older' \subseteq pending' \X pending' /\ own' \subseteq Path
         /\ retries' \in [Path -> 0 .. MaxRetries - 1] /\ excuse' \in [File -> Excuses]
  <1>1. Restamp(pending \ S, S) /\ pending \ S \subseteq Path
    BY DEF Queue, TypeOK
  <1>2. pending' \subseteq Path /\ older' \subseteq pending' \X pending'
    BY <1>1, RestampType
  <1>3. retries' \in [Path -> 0 .. MaxRetries - 1]
    BY BoundAssumption DEF Queue, TypeOK
  <1>4. own' \subseteq Path /\ excuse' \in [File -> Excuses]
    BY DEF Queue, StillOwn, Excuse, Excuses, TypeOK
  <1> QED BY <1>2, <1>3, <1>4

LEMMA ReturnType ==
  ASSUME TypeOK, NEW good, NEW again, NEW forgotten, Return(good, again, forgotten)
  PROVE  /\ pending' \subseteq Path /\ older' \subseteq pending' \X pending'
         /\ retries' \in [Path -> 0 .. MaxRetries - 1] /\ excuse' \in [File -> Excuses]
  <1> DEFINE mine == (IF IsStopped THEN {} ELSE again) \cap own
             kept == mine \ Spent(mine)
             removed == Spent(mine) \cup (good \cap own)
  <1>1. kept \subseteq Path
    BY DEF TypeOK
  <1>2. Restamp(pending \ (kept \cup removed), kept) /\ retries' = Counted(kept, removed)
    BY DEF Return
  <1>3. pending' \subseteq Path /\ older' \subseteq pending' \X pending'
    BY <1>1, <1>2, RestampType DEF TypeOK
  <1>4. ASSUME NEW p \in kept PROVE retries[p] + 1 < MaxRetries
    BY <1>1, BoundAssumption DEF Spent, TypeOK
  <1>5. retries' \in [Path -> 0 .. MaxRetries - 1]
    <2> HIDE DEF kept, removed
    <2> QED BY <1>1, <1>2, <1>4, BoundAssumption DEF Counted, TypeOK
  <1>6. excuse' \in [File -> Excuses]
    BY DEF Return, Excuses, TypeOK
  <1> QED BY <1>3, <1>5, <1>6

\* One lemma per group of actions.
LEMMA UsersType == Typed /\ Users => Typed'
  <1> SUFFICES ASSUME Typed, Users PROVE Typed'
    OBVIOUS
  <1>1. UserStep /\ UNCHANGED <<loop, queue, pass, own, work, index, server>>
    BY DEF Users, Edit, MoveTreeOut, MoveTreeIn
  <1>0. Held'
    BY <1>1 DEF Held, Typed
  <1>2. edits' \in 0 .. MaxEdits
    BY <1>1, BoundAssumption DEF UserStep, Typed, TypeOK
  <1> DEFINE Queued == \E e \in Path \cup {"newTree"}, heard \in BOOLEAN, S \in SUBSET File :
                          Notify(e, heard, S)
             Tree == disk' \in [File -> Content] /\ treeUp' \in BOOLEAN /\ watched' \in BOOLEAN
  <1>3. Tree /\ Queued
    <2>1. ASSUME NEW f \in File, NEW c \in Content, Edit(f, c) PROVE Tree /\ Queued
      <3>1. Notify(f, f \notin InTree \/ watched, {f}) /\ f \in Path /\ (f \notin InTree \/ watched) \in BOOLEAN
        BY <2>1 DEF Edit, Path
      <3> QED BY <2>1, <3>1 DEF Edit, Typed, TypeOK
    <2>2. CASE MoveTreeOut
      <3>1. Notify("tree", TRUE, InTree) /\ InTree \in SUBSET File
        BY <2>2, FileAssumption DEF MoveTreeOut
      <3> QED BY <2>2, <3>1 DEF MoveTreeOut, Path, Content, Typed, TypeOK
    <2>3. ASSUME NEW c \in Text, MoveTreeIn(c) PROVE Tree /\ Queued
      <3>1. Notify("newTree", TRUE, InTree) /\ InTree \in SUBSET File
        BY <2>3, FileAssumption DEF MoveTreeIn
      <3> QED BY <2>3, <3>1 DEF MoveTreeIn, Path, Content, Typed, TypeOK
    <2> QED BY <2>1, <2>2, <2>3 DEF Users
  <1>5. /\ events' \in Seq(Path \cup {"newTree", "overflow"}) /\ Len(events') <= QueueLen + 1
        /\ excuse' \in [File -> Excuses] /\ Brim'
    BY <1>3, NotifyType
  <1> QED BY <1>0, <1>1, <1>2, <1>3, <1>5 DEF Typed, TypeOK

(* An event that is taken leaves the rest in order.                        *)
LEMMA TakenEvent ==
  ASSUME TypeOK, TakeEvent
  PROVE  /\ events' \in Seq(Path \cup {"newTree", "overflow"})
         /\ Head(events) \in Path \cup {"newTree", "overflow"}
         /\ Len(events') = Len(events) - 1 /\ Len(events) \in Nat \ {0}
         /\ \A i \in 1 .. Len(events') : events'[i] = events[i + 1]
         /\ Head(events) = events[1]
  BY DEF TakeEvent, TypeOK

LEMMA LoopType == Typed /\ (Start \/ LoopStep) => Typed'
  <1> SUFFICES ASSUME Typed, Start \/ LoopStep PROVE Typed'
    OBVIOUS
  <1> USE DEF Typed
  <1>0. Held'
    BY DEF Held, Start, LoopStep, LoopQueues, LoopWalks, WalkAdds, WalkQueues, LoopExits
  <1>1. CASE Start \/ WalkAdds \/ LoopExits
    BY <1>0, <1>1 DEF Start, WalkAdds, LoopExits, TypeOK, LoopPhase, Brim
  <1>2. ASSUME TakeEvent
        PROVE  /\ events' \in Seq(Path \cup {"newTree", "overflow"})
               /\ Len(events') <= QueueLen + 1 /\ Brim'
    BY <1>2, TakenEvent, BoundAssumption DEF TypeOK, Brim
  <1>3. CASE LoopQueues
    <2>1. Queue({Head(events)}) /\ {Head(events)} \in SUBSET Path
      BY <1>3 DEF LoopQueues
    <2> QED BY <1>0, <1>2, <1>3, <2>1, QueueType DEF LoopQueues, TakeEvent, TypeOK
  <1>4. CASE LoopWalks
    BY <1>0, <1>2, <1>4 DEF LoopWalks, TakeEvent, TypeOK, LoopPhase
  <1>5. CASE WalkQueues
    <2>1. PICK S \in SUBSET Path : Queue(S)
      BY <1>5, FileAssumption DEF WalkQueues, Present, Path
    <2> QED BY <1>0, <1>5, <2>1, QueueType DEF WalkQueues, TypeOK, LoopPhase, Brim
  <1> QED BY <1>1, <1>3, <1>4, <1>5 DEF LoopStep

LEMMA PassType == Typed /\ (Tick \/ PassStep) => Typed'
  <1> SUFFICES ASSUME Typed, Tick \/ PassStep PROVE Typed'
    OBVIOUS
  <1> USE DEF Typed
  <1>0. UNCHANGED tree /\ UNCHANGED <<loop, server>> /\ Brim'
    BY DEF Tick, Take, PassStep, PassOnly, Lstat, ReadFile, Delete, Judged, Interrupt, WriteFile,
           Resolve, Finish, Brim
  <1> USE DEF Brim
  <1>1. CASE Tick
    BY <1>1, <1>0 DEF Tick, Take, TypeOK, PassPhase, Held
  <1>2. ASSUME NEW p \in Path, Lstat(p) PROVE Typed'
    <2>1. CASE UNCHANGED <<pass, cur, batch>> /\ Return({}, {p}, {})
      BY <1>0, <1>2, <2>1, ReturnType DEF Lstat, TypeOK, Held
    <2>2. CASE UNCHANGED <<batch, queue, excuse>>
      BY <1>0, <1>2, <2>2 DEF Lstat, TypeOK, PassPhase, Content, Held
    <2>3. CASE UNCHANGED <<pass, cur, queue, excuse>> /\ batch' = batch \cup {p}
                /\ (IF p = "tree" THEN (IF treeUp THEN "dir" ELSE "absent") ELSE disk[p]) \in Text \cup {"huge"}
      <3>1. p \in File
        BY <2>3, TextAssumption DEF Path
      <3> QED BY <1>0, <1>2, <2>3, <3>1 DEF Lstat, TypeOK, Held
    <2> QED BY <1>2, <2>1, <2>2, <2>3 DEF Lstat
  <1>3. CASE Delete
    <2>1. rows' \in [File -> Text \cup {"absent"}] /\ unresolved' \subseteq File
      BY <1>3 DEF Delete, ClearFiles, TypeOK
    <2>2. \E good, again, forgotten : Return(good, again, forgotten)
      BY <1>3 DEF Delete
    <2> QED BY <1>3, <1>0, <2>1, <2>2, ReturnType DEF Delete, TypeOK, PassPhase, Nothing, Content, Held
  <1>4. CASE Judged \/ Interrupt
    <2>1. CASE Judged /\ ~(batch = {} \/ IsStopped)
      BY <2>1, <1>0 DEF Judged, TypeOK, PassPhase, Held
    <2>2. CASE EndPass /\ UNCHANGED <<tree, excuse, loop, queue, index, server>>
      BY <2>2, <1>0 DEF EndPass, TypeOK, PassPhase, Nothing, Content, Held
    <2> QED BY <1>4, <2>1, <2>2 DEF Judged, Interrupt
  <1>5. ASSUME NEW f \in File, ReadFile(f) PROVE Typed'
    <2>1. f \in batch
      BY <1>5 DEF ReadFile, TypeOK
    <2>2. \/ cur' = cur /\ pass' = pass
          \/ cur' = [path |-> f, saw |-> disk[f]] /\ disk[f] \in Text \cup {"absent"}
          \/ cur' = [path |-> f, saw |-> "absent"]
      BY <1>5 DEF ReadFile
    <2>3. cur' \in [path : Path \cup {"nobody"}, saw : Content \cup {"dir"}]
      BY <2>2 DEF TypeOK, Path, Content
    <2>4. pass' \in PassPhase /\ todo' \subseteq batch /\ failed' \subseteq batch /\ keys' \subseteq batch
            /\ bad' \in BOOLEAN
      BY <1>5, <2>1 DEF ReadFile, PassPhase, TypeOK
    <2>5. UNCHANGED <<index, excuse, queue, jobs, own, batch>>
      BY <1>5 DEF ReadFile, PassOnly
    <2>6. Held'
      BY <1>5, <2>1, <2>2, <2>5 DEF Held, ReadFile
    <2> QED BY <1>0, <2>3, <2>4, <2>5, <2>6 DEF TypeOK
  <1>6. CASE WriteFile
    <2>1. cur.path \in batch /\ cur.path \in File /\ cur.saw \in Text \cup {"absent"}
      BY <1>6 DEF WriteFile, Held, TypeOK
    <2>2. rows' \in [File -> Text \cup {"absent"}] /\ unresolved' \subseteq File
      <3>1. CASE ClearFiles({cur.path}) \/ UNCHANGED index
        BY <3>1 DEF ClearFiles, TypeOK
      <3>2. CASE Written(cur.path, cur.saw)
        BY <2>1, <3>2 DEF Written, TypeOK
      <3> QED BY <1>6, <3>1, <3>2 DEF WriteFile
    <2>3. failed' \subseteq batch /\ keys' \subseteq batch /\ bad' \in BOOLEAN
      BY <1>6, <2>1 DEF WriteFile, Written, TypeOK
    <2>4. cur' = Nothing /\ pass' = "index" /\ UNCHANGED <<excuse, queue, jobs, own, batch, todo>>
      BY <1>6 DEF WriteFile, PassOnly
    <2> QED BY <1>0, <2>2, <2>3, <2>4 DEF TypeOK, PassPhase, Content, Nothing, Held
  <1>7. CASE Resolve
    BY <1>0, <1>7 DEF Resolve, PassOnly, TypeOK, PassPhase, Held
  <1>8. CASE Finish
    <2>1. \E good, again, forgotten : Return(good, again, forgotten)
      BY <1>8 DEF Finish
    <2> QED BY <1>0, <1>8, <2>1, ReturnType DEF Finish, EndPass, TypeOK, PassPhase, Nothing, Content, Held
  <1> QED BY <1>1, <1>2, <1>3, <1>4, <1>5, <1>6, <1>7, <1>8 DEF PassStep

LEMMA TypedInit == Init => Typed
  <1> SUFFICES ASSUME Init PROVE Typed
    OBVIOUS
  <1>1. retries \in [Path -> 0 .. MaxRetries - 1]
    BY BoundAssumption DEF Init
  <1>2. events \in Seq(Path \cup {"newTree", "overflow"}) /\ Len(events) = 0
    BY DEF Init
  <1>3. disk \in [File -> Content] /\ treeUp \in BOOLEAN /\ excuse \in [File -> Excuses]
    BY DEF Init, Content, Excuses
  <1>4. Brim /\ Held /\ Len(events) <= QueueLen + 1
    BY <1>2, BoundAssumption DEF Init, Brim, Held
  <1>5. cur \in [path : Path \cup {"nobody"}, saw : Content \cup {"dir"}] /\ edits \in 0 .. MaxEdits
    BY BoundAssumption DEF Init, Nothing, Content
  <1>6. rows \in [File -> Text \cup {"absent"}] /\ unresolved \subseteq File
    BY DEF Init
  <1> QED BY <1>1, <1>2, <1>3, <1>4, <1>5, <1>6 DEF Init, Typed, TypeOK, LoopPhase, PassPhase

LEMMA TypedStep == Typed /\ [Next]_vars => Typed'
  <1>1. Typed /\ (UNCHANGED vars \/ CloseBgDone \/ ServerStep) => Typed'
    BY DEF vars, CloseBgDone, ServerStep, StopWatcher, CloseDB, Typed, TypeOK, Brim, Held
  <1> QED BY <1>1, UsersType, LoopType, PassType DEF Next

(* Every variable keeps its type; the queue of events holds no more than   *)
(* its capacity and the overflow mark.                                     *)
THEOREM TypeCorrect == Spec => []TypeOK
  <1>1. Typed => TypeOK
    BY DEF Typed
  <1> QED BY <1>1, TypedInit, TypedStep, PTL DEF Spec

-----------------------------------------------------------------------------
(* Convergence.  What of Live only depends on the loop and the users by    *)
(* what is heard of each file survives their steps if that does.           *)
Steady(f) == disk'[f] = disk[f] /\ excuse'[f] = excuse[f] /\ (Heard(f) => Heard(f)')
News(f)   == (Good(f)' => Heard(f)') /\ (excuse'[f] = "overflow" => disk'[f] = "absent" \/ Heard(f)')

\* A step of the users or the loop leaves the pass's view of a file in order if
\* the file is as it was and no less heard of, or is news.
LEMMA Tidings ==
  ASSUME Typed, Live, UNCHANGED <<queue, pass, own, work, index, server>>,
         \A f \in File : Steady(f) \/ News(f)
  PROVE  /\ SurvivesTree' /\ TreeFirst' /\ Settled' /\ Rescued'
         /\ \A f \in File : Good(f)' => Fresh(f)' /\ Tracked(f)'
         /\ \A f \in File : excuse'[f] = "none" => Owed(f)'
  <1>1. InHand' = InHand /\ Mine' = Mine /\ Waiting' = Waiting
    BY DEF InHand, Mine, Waiting
  <1>2. TreeFirst' /\ Settled'
    BY <1>1 DEF Live, TreeFirst, Settled
  <1>3. SurvivesTree'
    BY FileAssumption DEF Live, SurvivesTree, Steady, News, Good
  <1>4. Rescued'
    BY DEF Live, Rescued, Steady, News
  <1>5. ASSUME NEW f \in File, Good(f)' PROVE Fresh(f)' /\ Tracked(f)'
    <2>1. CASE Heard(f)'
      BY <2>1 DEF Covered, Fresh, Tracked
    <2>2. CASE ~Heard(f)'
      <3>1. Steady(f) /\ Good(f) /\ (Covered(f) => Covered(f)')
        BY <1>1, <1>5, <2>2 DEF Steady, News, Good, Covered
      <3>2. Fresh(f) /\ Tracked(f)
        BY <3>1 DEF Live
      <3>3. Fresh(f)'
        BY <3>1, <3>2 DEF Steady, Fresh
      <3>4. Tracked(f)'
        BY <3>1, <3>2 DEF Steady, Tracked, InWork, Current
      <3> QED BY <3>3, <3>4
    <2> QED BY <2>1, <2>2
  <1>6. ASSUME NEW f \in File, excuse'[f] = "none" PROVE Owed(f)'
    <2>1. CASE Heard(f)'
      BY <2>1 DEF Covered, Owed
    <2>2. CASE ~Heard(f)'
      <3>1. Steady(f) /\ excuse[f] = "none" /\ (Covered(f) => Covered(f)')
        BY <1>1, <1>6, <2>2 DEF Steady, News, Good, Covered
      <3> QED BY <3>1 DEF Live, Owed, Steady
    <2> QED BY <2>1, <2>2
  <1> QED BY <1>2, <1>3, <1>4, <1>5, <1>6

(* What the kernel does with an event.                                     *)
Pushed(e) ==
    /\ Len(events) \in Nat /\ Len(events') = Len(events) + 1 /\ events'[Len(events) + 1] = e
    /\ \A i \in 1 .. Len(events) : events'[i] = events[i]
Marked == UNCHANGED events /\ Len(events) \in Nat \ {0} /\ events[Len(events)] = "overflow"

\* A change is not watched, or is queued, or leaves the overflow mark.
LEMMA NotifyCases ==
  ASSUME Typed, NEW e, NEW heard, NEW S, Notify(e, heard, S)
  PROVE  \/ (loop = "off" \/ ~heard) /\ UNCHANGED events /\ excuse' = Excuse(S, "unwatched")
         \/ loop # "off" /\ Pushed(e) /\ UNCHANGED excuse
         \/ loop # "off" /\ (Marked \/ Pushed("overflow")) /\ excuse' = Excuse(S, "overflow")
  <1>1. QueueLen \in Nat \ {0} /\ Len(events) \in Nat
    BY BoundAssumption DEF Typed, TypeOK
  <1>2. CASE loop = "off" \/ ~heard
    BY <1>1, <1>2 DEF Notify
  <1>3. CASE Len(events) < QueueLen /\ loop # "off" /\ heard
    <2>1. events' = Append(events, e) /\ UNCHANGED excuse
      BY <1>3 DEF Notify
    <2> QED BY <1>3, <2>1 DEF Typed, TypeOK, Pushed
  <1>4. CASE ~(Len(events) < QueueLen) /\ loop # "off" /\ heard
    <2>1. CASE events[Len(events)] = "overflow" /\ UNCHANGED events
      BY <1>1, <1>4, <2>1 DEF Notify, Marked
    <2>2. CASE events' = Append(events, "overflow")
      <3>1. Pushed("overflow")
        BY <2>2 DEF Typed, TypeOK, Pushed
      <3> QED BY <1>4, <3>1 DEF Notify
    <2> QED BY <1>4, <2>1, <2>2 DEF Notify
  <1> QED BY <1>2, <1>3, <1>4

(* The files of S have changed, and the kernel has queued e or the mark of *)
(* an overflow, or nobody hears of it.                                     *)
LEMMA ToldOf ==
  ASSUME NEW e, Pushed(e)
  PROVE  e \in Told' /\ Told \subseteq Told'
  BY DEF Pushed, Told

\* The mark stays and nothing before it is lost.
LEMMA MarkedTold ==
  ASSUME Marked
  PROVE  "overflow" \in Told' /\ Told \subseteq Told'
  BY DEF Marked, Told

(* A change of the files of S, of which the kernel queues e.               *)
LEMMA ChangeLive ==
  ASSUME Typed, Live, UNCHANGED <<loop, queue, pass, own, work, index, server>>,
         NEW e \in Path \cup {"newTree"}, NEW heard, NEW S \in SUBSET File,
         Notify(e, heard, S),
         \A f \in File \ S : disk'[f] = disk[f],
         \A f \in S : (e \in Path /\ f \in Below(e)) \/ (f \in InTree /\ e = "newTree" /\ disk'[f] # "absent"),
         ~treeUp' \/ (treeUp /\ e # "tree") \/ (heard /\ e = "newTree"),
         \A f \in InTree : disk'[f] = "absent" \/ treeUp'
  PROVE  Live'
  <1> DEFINE Unheard == (loop = "off" \/ ~heard) /\ UNCHANGED events /\ excuse' = Excuse(S, "unwatched")
             Sent == loop # "off" /\ Pushed(e) /\ UNCHANGED excuse
             Lost == loop # "off" /\ (Marked \/ Pushed("overflow")) /\ excuse' = Excuse(S, "overflow")
  <1>0. Unheard \/ Sent \/ Lost
    BY NotifyCases
  <1>1. \A f \in File : Steady(f) \/ News(f)
    <2> SUFFICES ASSUME NEW f \in File PROVE Steady(f) \/ News(f)
      OBVIOUS
    <2>0. Told \subseteq Told'
      BY <1>0, ToldOf, MarkedTold DEF Told
    <2>1. CASE f \notin S
      <3>1. excuse'[f] = excuse[f]
        BY <1>0, <2>1 DEF Excuse
      <3> QED BY <2>0, <2>1, <3>1 DEF Steady, Heard
    <2>2. CASE f \in S
      <3>1. CASE Unheard
        BY <2>2, <3>1 DEF Excuse, News, Good
      <3>2. CASE Sent
        BY <2>2, <3>2, ToldOf DEF News, Heard
      <3>3. CASE Lost
        <4>1. "overflow" \in Told' /\ excuse'[f] = "overflow"
          BY <2>2, <3>3, ToldOf, MarkedTold DEF Excuse
        <4> QED BY <4>1 DEF News, Good, Heard
      <3> QED BY <1>0, <3>1, <3>2, <3>3
    <2> QED BY <2>1, <2>2
  <1>2. BackAfterGone'
    <2> SUFFICES ASSUME treeUp', NEW i \in 1 .. Len(events'), events'[i] = "tree"
                 PROVE  \E j \in i + 1 .. Len(events') : events'[j] \in {"newTree", "overflow"}
      BY DEF BackAfterGone
    <2>2. e # "tree"
      OBVIOUS
    <2>3. CASE UNCHANGED events /\ treeUp
      BY <2>3 DEF Live, BackAfterGone
    <2>4. CASE Pushed(e) \/ Pushed("overflow")
      <3>1. i \in 1 .. Len(events) /\ events[i] = "tree"
        BY <2>2, <2>4 DEF Pushed
      <3>2. CASE treeUp
        <4>1. PICK j \in i + 1 .. Len(events) : events[j] \in {"newTree", "overflow"}
          BY <3>1, <3>2 DEF Live, BackAfterGone
        <4> QED BY <2>4, <3>1, <4>1 DEF Pushed
      <3>3. CASE ~treeUp
        BY <2>4, <3>1, <3>3 DEF Pushed
      <3> QED BY <3>2, <3>3
    <2>5. CASE UNCHANGED events /\ ~treeUp
      <3>1. loop # "off"
        BY <2>5 DEF Live, Shape
      <3>2. Marked
        BY <1>0, <2>5, <3>1 DEF Pushed
      <3> QED BY <2>2, <3>2 DEF Marked
    <2> QED BY <1>0, <2>3, <2>4, <2>5 DEF Marked
  <1>3. Shape'
    <2>1. InHand' = InHand
      BY DEF InHand
    <2>2. loop' = "off" => events' = <<>>
      BY <1>0 DEF Live, Shape
    <2> QED BY <2>1, <2>2 DEF Live, Shape
  <1> QED BY <1>1, <1>2, <1>3, Tidings DEF Live

\* A change reaches the loop, or has its excuse.
LEMMA UsersLive == Typed /\ Live /\ Users => Live'
  <1> SUFFICES ASSUME Typed, Live, Users PROVE Live'
    OBVIOUS
  <1>0. UNCHANGED <<loop, queue, pass, own, work, index, server>>
    BY DEF Users, Edit, MoveTreeOut, MoveTreeIn
  <1>1. ASSUME NEW f \in File, NEW c \in Content, Edit(f, c) PROVE Live'
    <2>1. /\ Notify(f, f \notin InTree \/ watched, {f}) /\ f \in Path /\ (f \notin InTree \/ watched) \in BOOLEAN
          /\ f # "tree" /\ f \in Below(f) /\ treeUp' = treeUp /\ (f \in InTree => treeUp)
          /\ \A g \in File \ {f} : disk'[g] = disk[g]
      BY <1>1, FileAssumption DEF Edit, Path, Below, Typed, TypeOK
    <2>2. \A g \in InTree : disk'[g] = "absent" \/ treeUp'
      BY <2>1, FileAssumption DEF Live, Shape
    <2>3. ~treeUp' \/ (treeUp /\ f # "tree")
      BY <2>1
    <2>4. PICK heard \in BOOLEAN : Notify(f, heard, {f})
      BY <2>1
    <2>5. {f} \in SUBSET File /\ \A g \in {f} : f \in Path /\ g \in Below(f)
      BY <2>1
    <2> QED BY <1>0, <2>1, <2>2, <2>3, <2>4, <2>5, ChangeLive
  <1>2. CASE MoveTreeOut
    <2>1. /\ Notify("tree", TRUE, InTree) /\ InTree \in SUBSET File /\ "tree" \in Path /\ Below("tree") = InTree
          /\ ~treeUp' /\ (\A g \in InTree : disk'[g] = "absent") /\ \A g \in File \ InTree : disk'[g] = disk[g]
      BY <1>2, FileAssumption DEF MoveTreeOut, Path, Below
    <2> QED BY <1>0, <2>1, ChangeLive
  <1>3. ASSUME NEW c \in Text, MoveTreeIn(c) PROVE Live'
    <2>1. /\ Notify("newTree", TRUE, InTree) /\ InTree \in SUBSET File /\ treeUp' /\ c # "absent"
          /\ (\A g \in InTree : disk'[g] = c) /\ \A g \in File \ InTree : disk'[g] = disk[g]
      BY <1>3, FileAssumption, TextAssumption DEF MoveTreeIn
    <2>2. /\ \A g \in InTree : g \in InTree /\ "newTree" = "newTree" /\ disk'[g] # "absent"
          /\ \A g \in InTree : disk'[g] = "absent" \/ treeUp'
      BY <2>1
    <2> QED BY <1>0, <2>1, <2>2, ChangeLive
  <1> QED BY <1>1, <1>2, <1>3 DEF Users

(* An event is taken from the head of the queue.                           *)
LEMMA TakenTold ==
  ASSUME Typed, TakeEvent
  PROVE  Told = Told' \cup {Head(events)} /\ loop = "select"
  <1>1. /\ Len(events') = Len(events) - 1 /\ Len(events) \in Nat \ {0} /\ Head(events) = events[1]
        /\ \A i \in 1 .. Len(events') : events'[i] = events[i + 1]
    BY TakenEvent DEF Typed
  <1>2. ASSUME NEW i \in 1 .. Len(events) PROVE events[i] \in Told' \cup {Head(events)}
    <2>1. CASE i = 1
      BY <1>1, <2>1
    <2>2. CASE i # 1
      <3>1. i - 1 \in 1 .. Len(events') /\ events[i] = events'[i - 1]
        BY <1>1, <2>2
      <3> QED BY <3>1 DEF Told
    <2> QED BY <2>1, <2>2
  <1>3. ASSUME NEW i \in 1 .. Len(events') PROVE events'[i] \in Told
    BY <1>1 DEF Told
  <1>4. Head(events) \in Told
    BY <1>1 DEF Told
  <1> QED BY <1>2, <1>3, <1>4 DEF Told, TakeEvent

\* Taking an event keeps the order of what is behind it.
LEMMA TakenBack ==
  ASSUME Typed, BackAfterGone, TakeEvent, UNCHANGED treeUp
  PROVE  /\ BackAfterGone'
         /\ treeUp /\ Head(events) = "tree" => "newTree" \in Told' \/ "overflow" \in Told'
  <1>1. /\ Len(events') = Len(events) - 1 /\ Len(events) \in Nat \ {0} /\ Head(events) = events[1]
        /\ \A i \in 1 .. Len(events') : events'[i] = events[i + 1]
    BY TakenEvent DEF Typed
  <1>2. ASSUME treeUp, NEW i \in 1 .. Len(events), events[i] = "tree"
        PROVE  \E j \in i .. Len(events') : events'[j] \in {"newTree", "overflow"}
    <2>1. PICK j \in i + 1 .. Len(events) : events[j] \in {"newTree", "overflow"}
      BY <1>2 DEF BackAfterGone
    <2>2. j - 1 \in i .. Len(events') /\ j - 1 \in 1 .. Len(events') /\ events'[j - 1] = events[j]
      BY <1>1
    <2> QED BY <2>1, <2>2
  <1>3. BackAfterGone'
    <2> SUFFICES ASSUME treeUp, NEW i \in 1 .. Len(events'), events'[i] = "tree"
                 PROVE  \E j \in i + 1 .. Len(events') : events'[j] \in {"newTree", "overflow"}
      BY DEF BackAfterGone
    <2>1. i + 1 \in 1 .. Len(events) /\ events[i + 1] = "tree"
      BY <1>1
    <2> QED BY <1>2, <2>1
  <1>4. ASSUME treeUp, Head(events) = "tree" PROVE "newTree" \in Told' \/ "overflow" \in Told'
    <2>1. 1 \in 1 .. Len(events) /\ events[1] = "tree"
      BY <1>1, <1>4
    <2>2. PICK j \in 1 .. Len(events') : events'[j] \in {"newTree", "overflow"}
      BY <1>2, <1>4, <2>1
    <2> QED BY <2>2 DEF Told
  <1> QED BY <1>3, <1>4

(* The loop starts, or goes on to a walk, and queues nothing.              *)
LEMMA WalkLive == Typed /\ Live /\ (Start \/ LoopWalks \/ WalkAdds) => Live'
  <1> SUFFICES ASSUME Typed, Live, Start \/ LoopWalks \/ WalkAdds PROVE Live'
    OBVIOUS
  <1>0. UNCHANGED <<disk, treeUp, excuse, queue, pass, own, work, index, server>> /\ loop' # "off"
    BY DEF Start, LoopWalks, WalkAdds
  <1>1. BackAfterGone' /\ \A f \in File : Heard(f) => Heard(f)'
    <2>1. CASE Start
      <3>1. UNCHANGED events /\ loop = "off"
        BY <2>1 DEF Start
      <3> QED BY <1>0, <3>1 DEF Heard, Told, Live, BackAfterGone
    <2>2. CASE WalkAdds
      <3>1. /\ UNCHANGED events
            /\ \/ loop = "walk" /\ loop' = "walkFiles"
               \/ loop = "rescan" /\ loop' = "rescanFiles"
        BY <2>2 DEF WalkAdds
      <3> QED BY <1>0, <3>1 DEF Heard, Told, Live, BackAfterGone
    <2>3. CASE LoopWalks
      <3>1. Told = Told' \cup {Head(events)} /\ loop = "select" /\ Head(events) \notin Path
        BY <2>3, TakenTold, FileAssumption DEF LoopWalks, Path
      <3>2. BackAfterGone'
        BY <1>0, <2>3, TakenBack DEF LoopWalks, Live
      <3>3. \/ Head(events) = "newTree" /\ (treeUp => loop' = "walk")
            \/ Head(events) = "overflow" /\ loop' = "rescan"
        BY <2>3 DEF LoopWalks
      <3>4. ASSUME NEW f \in File, Heard(f) PROVE Heard(f)'
        <4>1. f \in InTree /\ disk[f] # "absent" => treeUp
          BY DEF Live, Shape
        <4> QED BY <1>0, <3>1, <3>3, <3>4, <4>1 DEF Heard
      <3> QED BY <3>2, <3>4
    <2> QED BY <2>1, <2>2, <2>3
  <1>2. \A f \in File : Steady(f)
    BY <1>0, <1>1 DEF Steady
  <1>3. Shape'
    <2>1. InHand' = InHand
      BY <1>0 DEF InHand
    <2> QED BY <1>0, <2>1 DEF Live, Shape
  <1> QED BY <1>0, <1>1, <1>2, <1>3, Tidings DEF Live

(* Files that are queued are covered; the running pass loses them.         *)
LEMMA QueueLive ==
  ASSUME Typed, Live, NEW S \in SUBSET Path, Queue(S),
         UNCHANGED <<disk, treeUp, pass, work, index, server>>,
         \A f \in File : Heard(f) => Heard(f)' \/ \E p \in S : f \in Below(p),
         "tree" \in S => \A f \in InTree : disk[f] \in Text => Heard(f)',
         BackAfterGone', loop' # "off"
  PROVE  Live'
  <1> DEFINE Hit(f) == \E p \in S : f \in Below(p)
  <1>1. /\ pending' = pending \cup S /\ own' = own \ S
        /\ older' = (older \cap ((pending \ S) \X (pending \ S))) \cup ((pending \ S) \X S)
    BY DEF Queue, Restamp, StillOwn
  <1>2. InHand' = InHand /\ Mine' = Mine \ S /\ S \subseteq Waiting' /\ Waiting \subseteq Waiting'
    BY <1>1 DEF InHand, Mine, Waiting
  <1>3. \A f \in File : Hit(f) => Covered(f)'
    BY <1>2 DEF Covered, Below
  <1>4. \A f \in File : excuse'[f] = IF Hit(f) THEN "none" ELSE excuse[f]
    BY DEF Queue, Excuse
  <1>5. \A f \in File : f \in Below(f) /\ f # "tree"
    BY FileAssumption DEF Below
  <1>6. \A f \in File : f \in S => Hit(f)
    BY <1>5
  <1>7. ASSUME NEW f \in File, ~Hit(f) PROVE (Covered(f) => Covered(f)') /\ (InWork(f) => InWork(f)')
    <2>1. f \notin S
      BY <1>6, <1>7
    <2> QED BY <1>1, <1>2, <1>7, <2>1 DEF Covered, InWork, Below
  <1>8. ASSUME NEW f \in File, Good(f)' PROVE Fresh(f)' /\ Tracked(f)'
    <2>1. CASE Covered(f)'
      BY <2>1 DEF Fresh, Tracked
    <2>2. CASE ~Covered(f)'
      <3>1. ~Hit(f) /\ Good(f) /\ ~Covered(f) /\ f \notin S
        BY <1>3, <1>4, <1>6, <1>7, <1>8, <2>2 DEF Good
      <3>2. Fresh(f) /\ Tracked(f)
        BY <3>1 DEF Live
      <3> QED BY <1>1, <1>7, <3>1, <3>2 DEF Fresh, Tracked, Current, Below
    <2> QED BY <2>1, <2>2
  <1>9. ASSUME NEW f \in File, excuse'[f] = "none" PROVE Owed(f)'
    <2>1. CASE Covered(f)'
      BY <2>1 DEF Owed
    <2>2. CASE ~Covered(f)'
      <3>1. ~Hit(f) /\ excuse[f] = "none" /\ ~Covered(f) /\ f \notin S
        BY <1>3, <1>4, <1>6, <1>7, <1>9, <2>2
      <3>2. Owed(f)
        BY <3>1 DEF Live
      <3> QED BY <1>1, <3>1, <3>2 DEF Owed, Below
    <2> QED BY <2>1, <2>2
  <1>10. Rescued'
    BY <1>4, <1>6 DEF Live, Rescued
  <1>11. SurvivesTree'
    <2> SUFFICES ASSUME "tree" \in pending', NEW f \in InTree, Good(f)', disk[f] \in Text
                 PROVE  Heard(f)' \/ <<"tree", f>> \in older'
      BY DEF SurvivesTree
    <2>0. f \in File /\ f # "tree"
      BY FileAssumption
    <2>1. CASE "tree" \in S
      BY <2>1
    <2>2. CASE "tree" \notin S /\ f \in S
      BY <1>1, <2>2
    <2>3. CASE "tree" \notin S /\ f \notin S
      <3>1. ~Hit(f) /\ Good(f) /\ "tree" \in pending
        BY <1>1, <1>4, <2>0, <2>3 DEF Below, Good
      <3>2. Heard(f) \/ <<"tree", f>> \in older
        BY <3>1 DEF Live, SurvivesTree
      <3>3. <<"tree", f>> \in older => <<"tree", f>> \in (pending \ S) \X (pending \ S)
        BY <2>3 DEF Typed, TypeOK
      <3> QED BY <1>1, <2>0, <3>1, <3>2, <3>3
    <2> QED BY <2>1, <2>2, <2>3
  <1>12. TreeFirst'
    BY <1>1, <1>2 DEF Live, TreeFirst
  <1>13. Settled' /\ Shape'
    BY <1>1, <1>2 DEF Live, Settled, Shape
  <1> QED BY <1>8, <1>9, <1>10, <1>11, <1>12, <1>13 DEF Live

\* What the loop took from the queue is in `pending`.
LEMMA LoopLive == Typed /\ Live /\ (LoopQueues \/ WalkQueues) => Live'
  <1> SUFFICES ASSUME Typed, Live, LoopQueues \/ WalkQueues PROVE Live'
    OBVIOUS
  <1>1. CASE LoopQueues
    <2>1. /\ Queue({Head(events)}) /\ UNCHANGED <<disk, treeUp, loop, pass, work, index, server>>
          /\ TakeEvent /\ Head(events) \in Path
      BY <1>1 DEF LoopQueues
    <2>2. Told = Told' \cup {Head(events)} /\ loop = "select"
      BY <2>1, TakenTold
    <2>3. Head(events) \notin {"newTree", "overflow"}
      BY <2>1, FileAssumption DEF Path
    <2>4. /\ BackAfterGone'
          /\ treeUp /\ Head(events) = "tree" => "newTree" \in Told' \/ "overflow" \in Told'
      BY <2>1, TakenBack DEF Live
    <2>5. ASSUME NEW f \in File, Heard(f) PROVE Heard(f)' \/ \E p \in {Head(events)} : f \in Below(p)
      BY <2>1, <2>2, <2>3, <2>5 DEF Heard
    <2>6. "tree" \in {Head(events)} => \A f \in InTree : disk[f] \in Text => Heard(f)'
      <3> SUFFICES ASSUME "tree" = Head(events), NEW f \in InTree, disk[f] \in Text PROVE Heard(f)'
        OBVIOUS
      <3>1. disk[f] # "absent" /\ treeUp
        BY TextAssumption DEF Live, Shape
      <3> QED BY <2>1, <2>4, <3>1 DEF Heard
    <2>7. {Head(events)} \in SUBSET Path /\ loop' # "off"
      BY <2>1, <2>2
    <2> QED BY <2>1, <2>4, <2>5, <2>6, <2>7, QueueLive
  <1>2. CASE WalkQueues
    <2> DEFINE S == Present(IF loop = "walkFiles" THEN InTree ELSE File)
    <2>1. /\ Queue(S) /\ UNCHANGED <<tree, pass, work, index, server>> /\ loop' # "off"
          /\ loop \in {"walkFiles", "rescanFiles"} /\ S \in SUBSET Path /\ "tree" \notin S
      BY <1>2, FileAssumption DEF WalkQueues, Present, Path
    <2>2. BackAfterGone'
      BY <2>1 DEF Live, BackAfterGone
    <2>3. ASSUME NEW f \in File, Heard(f) PROVE Heard(f)' \/ \E p \in S : f \in Below(p)
      <3>1. f \in Below(f)
        BY FileAssumption DEF Below
      <3>2. CASE disk[f] # "absent" /\ ((loop = "walkFiles" /\ f \in InTree) \/ loop = "rescanFiles")
        BY <3>1, <3>2 DEF Present
      <3>3. CASE ~(disk[f] # "absent" /\ ((loop = "walkFiles" /\ f \in InTree) \/ loop = "rescanFiles"))
        BY <2>1, <2>3, <3>3 DEF Heard, Told
      <3> QED BY <3>2, <3>3
    <2> HIDE DEF S
    <2> QED BY <2>1, <2>2, <2>3, QueueLive
  <1> QED BY <1>1, <1>2

(* The steps of a pass.  None of them changes what is heard of a file.     *)
LEMMA PassHears ==
  ASSUME Live, UNCHANGED <<tree, loop>>
  PROVE  BackAfterGone' /\ \A f \in File : Heard(f)' <=> Heard(f)
  <1>1. BackAfterGone'
    BY DEF Live, BackAfterGone
  <1>2. \A f \in File : Heard(f)' <=> Heard(f)
    BY DEF Heard, Told
  <1> QED BY <1>1, <1>2

(* A pass begins.                                                          *)
LEMMA TickLive == Typed /\ Live /\ Tick => Live'
  <1> SUFFICES ASSUME Typed, Live, NEW S \in SUBSET pending, Take(S) PROVE Live'
    BY DEF Tick
  <1>1. /\ UNCHANGED <<tree, excuse, loop, queue, index, server, batch, todo, failed, keys, bad>>
        /\ pass = "idle" /\ pass' = "judge" /\ jobs' = S /\ own' = S /\ loop' # "off"
        /\ \A o \in older : o[2] \in S => o[1] \in S
    BY DEF Take
  <1>2. jobs = {} /\ batch = {} /\ own = {} /\ todo = {} /\ failed = {} /\ keys = {} /\ ~bad
    BY <1>1 DEF Live, Shape
  <1>3. Mine = {} /\ Waiting = pending /\ InHand' = S /\ Mine' = S /\ Waiting' = pending \ S
    BY <1>1, <1>2 DEF InHand, Mine, Waiting
  <1>4. BackAfterGone' /\ \A f \in File : Heard(f)' <=> Heard(f)
    BY <1>1, PassHears
  <1>5. ASSUME NEW f \in File, Covered(f) PROVE Covered(f)' \/ \E p \in own' \cap jobs' : f \in Below(p)
    BY <1>1, <1>3, <1>4, <1>5 DEF Covered, Below
  <1>6. ASSUME NEW f \in File, Good(f)' PROVE Fresh(f)' /\ Tracked(f)'
    <2>1. Fresh(f)'
      BY <1>1, <1>2 DEF Fresh
    <2>2. Tracked(f)
      BY <1>1, <1>6 DEF Live, Good
    <2>3. ~InWork(f)
      BY <1>1, <1>2 DEF InWork
    <2>4. CASE Covered(f)
      <3>1. Covered(f)' \/ InWork(f)'
        BY <1>5, <2>4 DEF InWork
      <3> QED BY <2>1, <3>1 DEF Tracked
    <2>5. CASE ~Covered(f)
      <3>1. Current(f) \/ disk[f] = "huge"
        BY <2>2, <2>3, <2>5 DEF Tracked
      <3>2. rows' = rows /\ disk' = disk
        BY <1>1
      <3> QED BY <2>1, <3>1, <3>2 DEF Tracked, Current
    <2> QED BY <2>4, <2>5
  <1>7. ASSUME NEW f \in File, excuse'[f] = "none" PROVE Owed(f)'
    <2>1. Owed(f)
      BY <1>1, <1>7 DEF Live
    <2> QED BY <1>1, <1>2, <1>5, <2>1 DEF Owed, Below
  <1>8. Shape' /\ Settled'
    BY <1>1, <1>2, <1>3 DEF Live, Shape, Settled, Typed, TypeOK
  <1>9. TreeFirst'
    <2> SUFFICES ASSUME NEW f \in S, <<"tree", f>> \in older PROVE "tree" \in S
      BY <1>1, <1>3 DEF TreeFirst
    <2>1. <<"tree", f>>[2] \in S => <<"tree", f>>[1] \in S
      BY <1>1
    <2> QED BY <2>1
  <1>10. SurvivesTree' /\ Rescued'
    BY <1>1, <1>4, FileAssumption DEF Live, SurvivesTree, Rescued, Good
  <1> QED BY <1>4, <1>6, <1>7, <1>8, <1>9, <1>10 DEF Live

(* A step of the pass that leaves the pending entries alone and has the    *)
(* same paths in hand before and after.                                    *)
LEMMA KeptLive ==
  ASSUME Live, UNCHANGED <<tree, loop, queue, excuse>>, Mine' = Mine
  PROVE  /\ SurvivesTree' /\ TreeFirst' /\ Rescued' /\ BackAfterGone'
         /\ \A f \in File : Covered(f)' <=> Covered(f)
         /\ \A f \in File : (Good(f)' <=> Good(f)) /\ excuse'[f] = excuse[f]
  <1>1. BackAfterGone' /\ \A f \in File : Heard(f)' <=> Heard(f)
    BY PassHears
  <1>2. \A f \in File : Covered(f)' <=> Covered(f)
    BY <1>1 DEF Covered, Waiting, Below
  <1>3. SurvivesTree' /\ TreeFirst' /\ Rescued'
    BY <1>1, FileAssumption DEF Live, SurvivesTree, TreeFirst, Rescued, Good
  <1> QED BY <1>1, <1>2, <1>3 DEF Good

(* What a pass returns: an entry that is retried waits again, and a file   *)
(* for which the pass gives up has an excuse.                              *)
LEMMA ReturnLive ==
  ASSUME Typed, Live, server = "up", UNCHANGED <<tree, loop>>,
         NEW good, NEW again, NEW forgotten, Return(good, again, forgotten),
         (good \cup again) \cap own \subseteq InHand,
         Mine' \subseteq Mine \ (good \cup again),
         "tree" \in Mine \ (good \cup again) => "tree" \in Mine' \/ Mine' = {},
         \A f \in good \cap own \cap InTree :
            Good(f) /\ disk[f] \in Text /\ <<"tree", f>> \in older => Heard(f)
  PROVE  /\ SurvivesTree' /\ TreeFirst' /\ Rescued' /\ BackAfterGone'
         /\ \A f \in File : Covered(f) => Covered(f)'
         /\ \A f \in File : Good(f)' => /\ Good(f) /\ (f \in again \cap own => Covered(f)')
                                       /\ (f \in InTree => "tree" \notin again \cap own)
         /\ \A f \in File : excuse'[f] = "none" => excuse[f] = "none" /\ f \notin forgotten \cap own
         /\ pending \ ((good \cup again) \cap own) \subseteq pending'
  <1> DEFINE mine == again \cap own
             kept == mine \ Spent(mine)
             removed == Spent(mine) \cup (good \cap own)
             stay == pending \ (kept \cup removed)
  <1>0. ~IsStopped
    OBVIOUS
  <1>1. /\ pending' = stay \cup kept
        /\ older' = (older \cap (stay \X stay)) \cup (stay \X kept)
        /\ excuse' = [f \in File |->
                        IF \E p \in Spent(mine) : f \in Below(p) THEN "dropped"
                        ELSE IF "tree" \in kept /\ f \in InTree THEN "torn"
                        ELSE IF f \in forgotten \cap own /\ excuse[f] = "none" THEN "forgotten"
                        ELSE excuse[f]]
    BY <1>0 DEF Return, Restamp
  <1>2. Spent(mine) \subseteq mine
    BY DEF Spent
  <1>3. BackAfterGone' /\ \A f \in File : Heard(f)' <=> Heard(f)
    BY PassHears
  <1>4. \A f \in File : f \in Below(f) /\ f # "tree" /\ (f \in InTree => f \in Below("tree"))
    BY FileAssumption DEF Below
  <1>5. ASSUME NEW f \in File, Good(f)'
        PROVE  Good(f) /\ (f \in mine => f \in kept) /\ (f \in InTree => "tree" \notin mine)
    <2>1. f \in mine => f \in kept
      BY <1>1, <1>4, <1>5 DEF Good
    <2>2. f \in InTree => "tree" \notin mine
      BY <1>1, <1>4, <1>5 DEF Good
    <2>3. Good(f)
      BY <1>1, <1>5 DEF Good
    <2> QED BY <2>1, <2>2, <2>3
  <1>6. ASSUME NEW f \in File, excuse'[f] = "none" PROVE excuse[f] = "none" /\ f \notin forgotten \cap own
    BY <1>1, <1>6
  <1>7. ASSUME NEW f \in File, excuse'[f] = "overflow" PROVE excuse[f] = "overflow"
    BY <1>1, <1>7
  <1>8. Waiting \subseteq Waiting' /\ kept \subseteq Waiting'
    BY <1>1, <1>2 DEF Waiting, Mine
  <1>9. \A f \in File : Covered(f) => Covered(f)'
    BY <1>3, <1>8 DEF Covered, Below
  <1>10. \A f \in kept \cap File : Covered(f)'
    BY <1>4, <1>8 DEF Covered, Below
  <1>11. Rescued'
    BY <1>3, <1>7 DEF Live, Rescued
  <1>12. TreeFirst'
    <2> SUFFICES ASSUME NEW f \in Mine', <<"tree", f>> \in older' PROVE "tree" \in Mine'
      BY DEF TreeFirst
    <2>1. f \in Mine /\ f \notin kept
      OBVIOUS
    <2>2. <<"tree", f>> \in older /\ "tree" \in stay
      BY <1>1, <2>1
    <2>3. "tree" \in Mine
      BY <2>1, <2>2 DEF Live, TreeFirst
    <2>4. "tree" \notin good \cup again
      BY <1>2, <2>2, <2>3 DEF Mine
    <2> QED BY <2>3, <2>4
  <1>13. SurvivesTree'
    <2> SUFFICES ASSUME "tree" \in pending', NEW f \in InTree, Good(f)', disk[f] \in Text
                 PROVE  Heard(f)' \/ <<"tree", f>> \in older'
      BY DEF SurvivesTree
    <2>0. f \in File
      BY FileAssumption
    <2>1. Good(f) /\ (f \in mine => f \in kept) /\ "tree" \notin mine
      BY <1>5, <2>0
    <2>2. "tree" \in stay
      BY <1>1, <2>1
    <2>3. Heard(f) \/ <<"tree", f>> \in older
      BY <2>1, <2>2 DEF Live, SurvivesTree
    <2>4. CASE <<"tree", f>> \in older /\ ~Heard(f)
      <3>1. f \in pending /\ f \notin good \cap own
        BY <2>1, <2>4 DEF Typed, TypeOK
      <3>2. f \in stay \/ f \in kept
        BY <1>2, <2>1, <3>1
      <3> QED BY <1>1, <2>2, <2>4, <3>2
    <2> QED BY <1>3, <2>0, <2>3, <2>4
  <1>14. pending \ ((good \cup again) \cap own) \subseteq pending'
    BY <1>1, <1>2
  <1> QED BY <1>3, <1>5, <1>6, <1>9, <1>10, <1>11, <1>12, <1>13, <1>14

\* The look at a path decides between indexing, deleting and giving it back;
\* whatever changes after it is heard of.
LEMMA LstatLive ==
  ASSUME Typed, Live, server = "up", NEW p \in Path, Lstat(p)
  PROVE  Live'
  <1> DEFINE saw == IF p = "tree" THEN (IF treeUp THEN "dir" ELSE "absent") ELSE disk[p]
  <1>1. /\ UNCHANGED <<tree, loop, own, todo, failed, keys, bad, index, server>>
        /\ pass = "judge" /\ p \in jobs /\ jobs' = jobs \ {p}
    BY DEF Lstat
  <1>2. /\ InHand = jobs \cup batch /\ todo = {} /\ failed = {} /\ keys = {} /\ ~bad
        /\ p \notin batch /\ jobs \cap batch = {} /\ jobs \subseteq pending
    BY <1>1 DEF InHand, Live, Shape
  <1>3. \A f \in File : f \in Below(f) /\ f # "tree" /\ (f \in InTree <=> f \in Below("tree"))
    BY FileAssumption DEF Below
  <1>4. ASSUME saw \in Text \cup {"huge"}, batch' = batch \cup {p}, UNCHANGED <<pass, cur, queue, excuse>>
        PROVE  Live'
    <2>1. p # "tree" /\ p \in File
      BY <1>4, TextAssumption DEF Path
    <2>2. InHand' = InHand /\ Mine' = Mine
      BY <1>1, <1>2, <1>4 DEF InHand, Mine
    <2>3. /\ SurvivesTree' /\ TreeFirst' /\ Rescued' /\ BackAfterGone'
          /\ \A f \in File : Covered(f)' <=> Covered(f)
          /\ \A f \in File : (Good(f)' <=> Good(f)) /\ excuse'[f] = excuse[f]
      BY <1>1, <1>4, <2>2, KeptLive
    <2>4. Shape' /\ Settled'
      BY <1>1, <1>2, <1>4, <2>2 DEF Live, Shape, Settled
    <2>5. \A f \in File : f \in Below(p) => f = p
      BY <2>1 DEF Below
    <2>6. ASSUME NEW f \in File, Good(f) PROVE Fresh(f)' /\ Tracked(f)'
      <3>1. Fresh(f) /\ Tracked(f)
        BY <2>6 DEF Live
      <3>2. Fresh(f)'
        BY <1>1, <1>4, <2>1, <2>3, <3>1, TextAssumption DEF Fresh
      <3>3. InWork(f) => InWork(f)'
        BY <1>1, <1>4, <2>5 DEF InWork
      <3>4. Tracked(f)'
        BY <1>1, <2>3, <3>1, <3>3 DEF Tracked, Current
      <3> QED BY <3>2, <3>4
    <2>7. ASSUME NEW f \in File, excuse[f] = "none" PROVE Owed(f)'
      <3>1. Owed(f)
        BY <2>7 DEF Live
      <3> QED BY <1>1, <1>4, <2>3, <2>5, <3>1 DEF Owed
    <2> QED BY <2>3, <2>4, <2>6, <2>7 DEF Live
  <1>5. ASSUME saw \in {"absent", "dir", "link"}, pass' = "delete", cur' = [path |-> p, saw |-> saw],
               UNCHANGED <<batch, queue, excuse>>
        PROVE  Live'
    <2>1. cur'.path = p
      BY <1>5
    <2>2. InHand' = InHand /\ Mine' = Mine
      BY <1>1, <1>2, <1>5, <2>1 DEF InHand, Mine
    <2>3. /\ SurvivesTree' /\ TreeFirst' /\ Rescued' /\ BackAfterGone'
          /\ \A f \in File : Covered(f)' <=> Covered(f)
          /\ \A f \in File : (Good(f)' <=> Good(f)) /\ excuse'[f] = excuse[f]
      BY <1>1, <1>5, <2>2, KeptLive
    <2>4. Shape' /\ Settled'
      BY <1>1, <1>2, <1>5, <2>1, <2>2 DEF Live, Shape, Settled
    <2>5. ASSUME NEW f \in File, Good(f), f \in Below(p)
          PROVE  disk[f] \notin Text \/ Covered(f) \/ f \in own' \cap (jobs' \cup batch')
      <3>1. CASE p # "tree"
        <4>1. f = p
          BY <2>5, <3>1 DEF Below
        <4> QED BY <1>5, <3>1, <4>1, TextAssumption
      <3>2. CASE p = "tree" /\ ~treeUp
        <4>1. f \in InTree /\ disk[f] = "absent"
          BY <1>3, <2>5, <3>2 DEF Live, Shape
        <4> QED BY <4>1, TextAssumption
      <3>3. CASE p = "tree" /\ disk[f] \in Text
        <4>1. f \in InTree /\ "tree" \in pending
          BY <1>1, <1>2, <1>3, <2>5, <3>3
        <4>2. Heard(f) \/ <<"tree", f>> \in older
          BY <2>5, <3>3, <4>1 DEF Live, SurvivesTree
        <4>3. CASE <<"tree", f>> \in older
          <5>1. f \in pending
            BY <4>3 DEF Typed, TypeOK
          <5>2. CASE f \in Waiting
            BY <1>3, <5>2 DEF Covered
          <5>3. CASE f \in Mine
            BY <1>1, <1>2, <1>3, <1>5, <3>3, <5>3 DEF Mine
          <5> QED BY <5>1, <5>2, <5>3 DEF Waiting
        <4> QED BY <4>2, <4>3 DEF Covered
      <3> QED BY <3>1, <3>2, <3>3
    <2>6. ASSUME NEW f \in File, Good(f) PROVE Fresh(f)' /\ Tracked(f)'
      <3>1. Fresh(f) /\ Tracked(f)
        BY <2>6 DEF Live
      <3>2. Fresh(f)'
        BY <1>1, <1>5, <2>1, <2>3, <2>5, <2>6, <3>1 DEF Fresh
      <3>3. InWork(f) => InWork(f)' \/ Covered(f)
        <4>1. CASE \E q \in own \cap jobs : q # p /\ f \in Below(q)
          BY <1>1, <4>1 DEF InWork
        <4>2. CASE p \in own /\ f \in Below(p)
          <5>1. CASE disk[f] \notin Text
            BY <1>1, <1>5, <2>1, <4>2, <5>1 DEF InWork
          <5>2. CASE f \in own' \cap (jobs' \cup batch')
            BY <1>3, <1>5, <5>2 DEF InWork
          <5> QED BY <2>5, <2>6, <4>2, <5>1, <5>2
        <4>3. CASE f \in own \cap batch
          BY <1>1, <1>5, <4>3 DEF InWork
        <4> QED BY <1>1, <4>1, <4>2, <4>3 DEF InWork
      <3>4. Tracked(f)'
        BY <1>1, <2>3, <3>1, <3>3 DEF Tracked, Current
      <3> QED BY <3>2, <3>4
    <2>7. ASSUME NEW f \in File, excuse[f] = "none" PROVE Owed(f)'
      <3>1. Owed(f)
        BY <2>7 DEF Live
      <3> QED BY <1>1, <1>5, <2>1, <2>3, <3>1 DEF Owed
    <2> QED BY <2>3, <2>4, <2>6, <2>7 DEF Live
  <1>6. ASSUME Return({}, {p}, {}), UNCHANGED <<pass, cur, batch>>
        PROVE  Live'
    <2>1. InHand' = InHand \ {p} /\ Mine' = Mine \ {p}
      BY <1>1, <1>2, <1>6 DEF InHand, Mine
    <2>2. ({} \cup {p}) \cap own \subseteq InHand /\ Mine' \subseteq Mine \ ({} \cup {p})
          /\ ("tree" \in Mine \ ({} \cup {p}) => "tree" \in Mine' \/ Mine' = {})
      BY <1>1, <1>2, <2>1
    <2>3. /\ SurvivesTree' /\ TreeFirst' /\ Rescued' /\ BackAfterGone'
          /\ \A f \in File : Covered(f) => Covered(f)'
          /\ \A f \in File : Good(f)' => /\ Good(f) /\ (f \in {p} \cap own => Covered(f)')
                                        /\ (f \in InTree => "tree" \notin {p} \cap own)
          /\ \A f \in File : excuse'[f] = "none" => excuse[f] = "none" /\ f \notin {} \cap own
          /\ pending \ (({} \cup {p}) \cap own) \subseteq pending'
      BY <1>1, <1>6, <2>2, ReturnLive
    <2>4. Shape' /\ Settled'
      BY <1>1, <1>2, <1>6, <2>1, <2>3 DEF Live, Shape, Settled
    <2>5. ASSUME NEW f \in File, Good(f)', p \in own, f \in Below(p) PROVE Covered(f)'
      BY <1>3, <2>3, <2>5 DEF Below
    <2>6. ASSUME NEW f \in File, Good(f)' PROVE Fresh(f)' /\ Tracked(f)'
      <3>1. Good(f) /\ Fresh(f) /\ Tracked(f)
        BY <2>3, <2>6 DEF Live
      <3>2. Fresh(f)'
        BY <1>1, <1>6, <2>3, <3>1 DEF Fresh
      <3>3. InWork(f) => InWork(f)' \/ Covered(f)'
        BY <1>1, <1>6, <2>5, <2>6 DEF InWork
      <3>4. Tracked(f)'
        BY <1>1, <2>3, <3>1, <3>3 DEF Tracked, Current
      <3> QED BY <3>2, <3>4
    <2>7. ASSUME NEW f \in File, excuse'[f] = "none" PROVE Owed(f)'
      <3>1. Owed(f) /\ Good(f)'
        BY <2>3, <2>7 DEF Live, Good
      <3> QED BY <1>1, <1>6, <2>3, <2>5, <3>1 DEF Owed
    <2> QED BY <2>3, <2>4, <2>6, <2>7 DEF Live
  <1> QED BY <1>4, <1>5, <1>6 DEF Lstat

\* Rows are deleted of files that are gone, or that will be indexed again.
LEMMA DeleteLive ==
  ASSUME Typed, Live, server = "up", Delete
  PROVE  Live'
  <1> DEFINE p == cur.path
  <1>1. /\ UNCHANGED <<tree, loop, jobs, own, batch, todo, failed, keys, bad, server>>
        /\ pass = "delete" /\ pass' = "judge"
    BY DEF Delete
  <1>2. /\ InHand = jobs \cup batch \cup {p} /\ todo = {} /\ failed = {} /\ keys = {} /\ ~bad
        /\ p \notin jobs \cup batch /\ jobs \cap batch = {} /\ p \in Path
    BY <1>1 DEF InHand, Live, Shape, Typed, Held
  <1>3. InHand' = InHand \ {p} /\ Mine' = Mine \ {p}
    BY <1>1, <1>2 DEF InHand, Mine
  <1>4. \A f \in File : f \in Below(f) /\ f # "tree" /\ (f \in InTree <=> f \in Below("tree"))
    BY FileAssumption DEF Below
  <1>5. ASSUME NEW f \in File, Good(f), f \in Below(p), disk[f] \in Text
        PROVE  Covered(f) \/ f \in own \cap (jobs \cup batch)
    <2>1. Fresh(f)
      BY <1>5 DEF Live
    <2> QED BY <1>1, <1>5, <2>1 DEF Fresh
  <1>6. ASSUME NEW good, NEW again, good \cup again = {p}, Return(good, again, {}),
               NEW S \in SUBSET Below(p), ClearFiles(S), again = {} => S = Below(p)
        PROVE  Live'
    <2>1. (good \cup again) \cap own \subseteq InHand /\ Mine' \subseteq Mine \ (good \cup again)
          /\ ("tree" \in Mine \ (good \cup again) => "tree" \in Mine' \/ Mine' = {})
      BY <1>2, <1>3, <1>6
    <2>2. ASSUME NEW f \in good \cap own \cap InTree, Good(f), disk[f] \in Text, <<"tree", f>> \in older
          PROVE  Heard(f)
      <3>1. f = p /\ f \in File /\ f \in Mine
        BY <1>2, <1>6, FileAssumption DEF Mine
      <3>2. "tree" \in Mine
        BY <2>2, <3>1 DEF Live, TreeFirst
      <3>3. Covered(f)
        BY <1>2, <1>4, <1>5, <2>2, <3>1
      <3> QED BY <3>1, <3>2, <3>3 DEF Covered, Waiting, Below
    <2>3. /\ SurvivesTree' /\ TreeFirst' /\ Rescued' /\ BackAfterGone'
          /\ \A f \in File : Covered(f) => Covered(f)'
          /\ \A f \in File : Good(f)' => /\ Good(f) /\ (f \in again \cap own => Covered(f)')
                                        /\ (f \in InTree => "tree" \notin again \cap own)
          /\ \A f \in File : excuse'[f] = "none" => excuse[f] = "none" /\ f \notin {} \cap own
          /\ pending \ ((good \cup again) \cap own) \subseteq pending'
      BY <1>1, <1>6, <2>1, <2>2, ReturnLive
    <2>4. Shape' /\ Settled'
      BY <1>1, <1>2, <1>3, <1>6, <2>3 DEF Live, Shape, Settled
    <2>5. ASSUME NEW f \in File, Good(f)', p \in own, f \in Below(p), f \notin S PROVE Covered(f)'
      <3>1. p \in again
        BY <1>6, <2>5
      <3> QED BY <1>4, <2>3, <2>5, <3>1 DEF Below
    <2>6. ASSUME NEW f \in File, Good(f)' PROVE Fresh(f)' /\ Tracked(f)'
      <3>1. Good(f) /\ Fresh(f) /\ Tracked(f)
        BY <2>3, <2>6 DEF Live
      <3>2. Fresh(f)'
        BY <1>1, <2>3, <3>1 DEF Fresh
      <3>3. CASE f \in S
        <4>1. rows'[f] = "absent" /\ f \in Below(p)
          BY <1>6, <3>3 DEF ClearFiles
        <4>2. CASE disk[f] \notin Text
          BY <1>1, <3>2, <4>1, <4>2 DEF Tracked, Current
        <4>3. CASE Covered(f)
          BY <2>3, <3>2, <4>3 DEF Tracked
        <4>4. CASE f \in own \cap (jobs \cup batch)
          <5>1. InWork(f)'
            BY <1>1, <1>4, <4>4 DEF InWork
          <5> QED BY <3>2, <5>1 DEF Tracked
        <4> QED BY <1>5, <3>1, <4>1, <4>2, <4>3, <4>4
      <3>4. CASE f \notin S
        <4>1. rows'[f] = rows[f]
          BY <1>6, <3>4 DEF ClearFiles
        <4>2. InWork(f) => InWork(f)' \/ Covered(f)'
          BY <1>1, <2>5, <2>6, <3>4 DEF InWork
        <4>3. Tracked(f)'
          BY <1>1, <2>3, <3>1, <4>1, <4>2 DEF Tracked, Current
        <4> QED BY <3>2, <4>3
      <3> QED BY <3>3, <3>4
    <2>7. ASSUME NEW f \in File, excuse'[f] = "none" PROVE Owed(f)'
      <3>1. Owed(f) /\ Good(f)'
        BY <2>3, <2>7 DEF Live, Good
      <3>2. unresolved' = unresolved \ S
        BY <1>6 DEF ClearFiles
      <3>3. CASE f \notin S
        BY <1>1, <2>3, <2>5, <3>1, <3>2, <3>3 DEF Owed
      <3>4. CASE f \in S
        BY <3>2, <3>4 DEF Owed
      <3> QED BY <3>3, <3>4
    <2> QED BY <2>3, <2>4, <2>6, <2>7 DEF Live
  <1>7. CASE ClearFiles(Below(p)) /\ Return({p}, {}, {})
    <2>1. {p} \cup {} = {p} /\ Below(p) \in SUBSET Below(p)
      OBVIOUS
    <2> QED BY <1>6, <1>7, <2>1
  <1>8. ASSUME NEW S \in SUBSET Below(p) \ {Below(p)}, ClearFiles(S), Return({}, {p}, {}) PROVE Live'
    <2>1. {} \cup {p} = {p} /\ {p} # {} /\ S \in SUBSET Below(p)
      OBVIOUS
    <2> QED BY <1>6, <1>8, <2>1
  <1> QED BY <1>7, <1>8 DEF Delete

\* With every job looked at the batch is handed to IndexChanges.
LEMMA JudgedLive ==
  ASSUME Typed, Live, server = "up", Judged
  PROVE  Live'
  <1>1. /\ UNCHANGED <<tree, excuse, loop, queue, index, server>> /\ pass = "judge" /\ jobs = {}
        /\ todo = {} /\ failed = {} /\ keys = {} /\ ~bad /\ InHand = batch
    BY DEF Judged, Live, Shape, InHand
  <1>2. \/ batch = {} /\ EndPass
        \/ pass' = "index" /\ todo' = batch /\ UNCHANGED <<jobs, own, batch, cur, failed, keys, bad>>
    BY DEF Judged
  <1>3. InHand' = InHand /\ Mine' = Mine
    BY <1>1, <1>2 DEF InHand, Mine, EndPass
  <1>4. /\ SurvivesTree' /\ TreeFirst' /\ Rescued' /\ BackAfterGone'
        /\ \A f \in File : Covered(f)' <=> Covered(f)
        /\ \A f \in File : (Good(f)' <=> Good(f)) /\ excuse'[f] = excuse[f]
    BY <1>1, <1>3, KeptLive
  <1>5. Shape' /\ Settled'
    BY <1>1, <1>2, <1>3 DEF Live, Shape, Settled, EndPass
  <1>6. ASSUME NEW f \in File, Good(f) PROVE Fresh(f)' /\ Tracked(f)'
    <2>1. Fresh(f) /\ Tracked(f)
      BY <1>6 DEF Live
    <2>2. Fresh(f)'
      BY <1>1, <1>2, <1>4, <2>1 DEF Fresh, EndPass
    <2>3. InWork(f) => InWork(f)'
      BY <1>1, <1>2 DEF InWork
    <2>4. Tracked(f)'
      BY <1>1, <1>4, <2>1, <2>3 DEF Tracked, Current
    <2> QED BY <2>2, <2>4
  <1>7. ASSUME NEW f \in File, excuse[f] = "none" PROVE Owed(f)'
    <2>1. Owed(f)
      BY <1>7 DEF Live
    <2> QED BY <1>1, <1>2, <1>4, <2>1 DEF Owed
  <1> QED BY <1>4, <1>5, <1>6, <1>7 DEF Live

\* What was read is written, or the file is among those that failed.
LEMMA ReadFileLive ==
  ASSUME Typed, Live, server = "up", NEW f \in File, ReadFile(f)
  PROVE  Live'
  <1>1. /\ UNCHANGED <<tree, excuse, loop, queue, jobs, own, batch, server, index>> /\ pass = "index"
        /\ f \in todo /\ todo' = todo \ {f} /\ jobs = {} /\ InHand = batch /\ f \in batch
    BY DEF ReadFile, PassOnly, Live, Shape, InHand, Typed, TypeOK
  <1>2. pass' \in {"index", "write"} /\ failed \subseteq failed' /\ keys \subseteq keys'
        /\ (failed' # {} => bad')
    BY <1>1 DEF ReadFile, Live, Shape
  <1>3. InHand' = InHand /\ Mine' = Mine
    BY <1>1, <1>2 DEF InHand, Mine
  <1>4. /\ SurvivesTree' /\ TreeFirst' /\ Rescued' /\ BackAfterGone'
        /\ \A g \in File : Covered(g)' <=> Covered(g)
        /\ \A g \in File : (Good(g)' <=> Good(g)) /\ excuse'[g] = excuse[g]
    BY <1>1, <1>3, KeptLive
  <1>5. Shape' /\ Settled'
    BY <1>1, <1>2, <1>3 DEF Live, Shape, Settled
  <1>6. \/ pass' = "write" /\ cur' = [path |-> f, saw |-> IF disk[f] \in Text THEN disk[f] ELSE "absent"]
        \/ pass' = "index" /\ (disk[f] \in {"link", "huge"} \/ f \in failed')
    BY <1>1, TextAssumption DEF ReadFile
  <1>7. cur'.path = f \/ pass' = "index"
    BY <1>6
  <1>8. ASSUME NEW g \in File, Good(g) PROVE Fresh(g)' /\ Tracked(g)'
    <2>1. Fresh(g) /\ Tracked(g)
      BY <1>8 DEF Live
    <2>2. Fresh(g)'
      BY <1>1, <1>4, <1>6, <2>1 DEF Fresh
    <2>3. CASE g # f
      <3>1. InWork(g) => InWork(g)'
        BY <1>1, <1>2, <2>3 DEF InWork
      <3> QED BY <1>1, <1>4, <2>1, <2>2, <3>1 DEF Tracked, Current
    <2>4. CASE g = f
      <3>1. InWork(f) => InWork(f)' \/ disk[f] = "link" \/ disk[f] = "huge"
        BY <1>1, <1>2, <1>6 DEF InWork
      <3>2. disk[f] = "link" => Covered(f)
        BY <1>1, <2>1, <2>4 DEF Fresh
      <3> QED BY <1>1, <1>4, <2>1, <2>2, <2>4, <3>1, <3>2 DEF Tracked, Current
    <2> QED BY <2>3, <2>4
  <1>9. ASSUME NEW g \in File, excuse[g] = "none" PROVE Owed(g)'
    <2>1. Owed(g) /\ Fresh(g)
      BY <1>9 DEF Live, Good
    <2>2. CASE g # f
      BY <1>1, <1>2, <1>4, <2>1, <2>2 DEF Owed
    <2>3. CASE g = f
      <3>1. disk[f] = "link" => Covered(f)
        BY <1>1, <2>1, <2>3 DEF Fresh
      <3> QED BY <1>1, <1>2, <1>4, <1>6, <2>1, <2>3, <3>1 DEF Owed
    <2> QED BY <2>2, <2>3
  <1> QED BY <1>4, <1>5, <1>8, <1>9 DEF Live

\* What is written is what the file has, or the change since is heard of; it
\* owes a resolution pass from then on.
LEMMA WriteFileLive ==
  ASSUME Typed, Live, server = "up", WriteFile
  PROVE  Live'
  <1> DEFINE f == cur.path
             c == cur.saw
  <1>1. /\ UNCHANGED <<tree, excuse, loop, queue, jobs, own, batch, server, todo>>
        /\ pass = "write" /\ pass' = "index" /\ jobs = {} /\ InHand = batch
        /\ f \in batch /\ f \in File /\ c \in Text \cup {"absent"}
    BY DEF WriteFile, PassOnly, Live, Shape, InHand, Typed, TypeOK, Held
  <1>2. /\ failed \subseteq failed' /\ (failed' # {} => bad')
        /\ keys' = IF c = "absent" THEN keys ELSE keys \cup {f}
    BY DEF WriteFile, Written, Live, Shape
  <1>3. InHand' = InHand /\ Mine' = Mine
    BY <1>1 DEF InHand, Mine
  <1>4. /\ SurvivesTree' /\ TreeFirst' /\ Rescued' /\ BackAfterGone'
        /\ \A g \in File : Covered(g)' <=> Covered(g)
        /\ \A g \in File : (Good(g)' <=> Good(g)) /\ excuse'[g] = excuse[g]
    BY <1>1, <1>3, KeptLive
  <1>5. Shape' /\ Settled'
    BY <1>1, <1>2, <1>3 DEF Live, Shape, Settled
  <1>6. \/ rows'[f] = c /\ (c = "absent" => f \notin unresolved')
        \/ f \in failed' /\ UNCHANGED index
    BY <1>1 DEF WriteFile, ClearFiles, Written, Typed, TypeOK
  <1>7. \A g \in File \ {f} : rows'[g] = rows[g] /\ (g \in unresolved' => g \in unresolved)
    BY <1>1 DEF WriteFile, ClearFiles, Written, Typed, TypeOK
  <1>8. f \in own \/ Covered(f)
    BY <1>1, FileAssumption DEF Live, Shape, Covered, Waiting, Mine, Below
  <1>9. ASSUME NEW g \in File, Good(g) PROVE Fresh(g)' /\ Tracked(g)'
    <2>1. Fresh(g) /\ Tracked(g)
      BY <1>9 DEF Live
    <2>2. Fresh(g)'
      BY <1>1, <1>4, <2>1 DEF Fresh
    <2>3. CASE g # f
      <3>1. InWork(g) => InWork(g)'
        BY <1>1, <1>2, <2>3 DEF InWork
      <3> QED BY <1>1, <1>4, <1>7, <2>1, <2>2, <2>3, <3>1 DEF Tracked, Current
    <2>4. CASE g = f /\ rows'[f] = c
      <3>1. disk[f] = "huge" \/ Covered(f) \/ c = (IF disk[f] \in Text THEN disk[f] ELSE "absent")
        BY <1>1, <2>1, <2>4 DEF Fresh
      <3> QED BY <1>1, <1>4, <2>2, <2>4, <3>1 DEF Tracked, Current
    <2>5. CASE g = f /\ f \in failed' /\ UNCHANGED index
      <3>1. Covered(g) \/ InWork(g)'
        BY <1>1, <1>8, <2>5 DEF InWork
      <3> QED BY <1>4, <2>2, <2>5, <3>1 DEF Tracked
    <2> QED BY <1>6, <2>3, <2>4, <2>5
  <1>10. ASSUME NEW g \in File, excuse[g] = "none" PROVE Owed(g)'
    <2>1. Owed(g)
      BY <1>10 DEF Live
    <2>2. CASE g # f
      BY <1>1, <1>2, <1>4, <1>7, <2>1, <2>2 DEF Owed
    <2>3. CASE g = f
      BY <1>1, <1>2, <1>4, <1>6, <1>8, <2>3 DEF Owed
    <2> QED BY <2>2, <2>3
  <1> QED BY <1>4, <1>5, <1>9, <1>10 DEF Live

\* The pass resolves what it wrote, or reports an error.
LEMMA ResolveLive ==
  ASSUME Typed, Live, server = "up", Resolve
  PROVE  Live'
  <1>1. /\ UNCHANGED <<tree, excuse, loop, queue, jobs, own, batch, server, todo, cur, failed, keys, rows>>
        /\ pass = "index" /\ pass' = "finish" /\ todo = {} /\ jobs = {} /\ InHand = batch
        /\ unresolved' \subseteq unresolved /\ (bad => bad')
        /\ (bad' \/ unresolved' = unresolved \ keys)
    BY DEF Resolve, PassOnly, Live, Shape, InHand
  <1>2. InHand' = InHand /\ Mine' = Mine
    BY <1>1 DEF InHand, Mine
  <1>3. /\ SurvivesTree' /\ TreeFirst' /\ Rescued' /\ BackAfterGone'
        /\ \A f \in File : Covered(f)' <=> Covered(f)
        /\ \A f \in File : (Good(f)' <=> Good(f)) /\ excuse'[f] = excuse[f]
    BY <1>1, <1>2, KeptLive
  <1>4. Shape' /\ Settled'
    BY <1>1, <1>2 DEF Live, Shape, Settled
  <1>5. ASSUME NEW f \in File, Good(f) PROVE Fresh(f)' /\ Tracked(f)'
    <2>1. Fresh(f) /\ Tracked(f)
      BY <1>5 DEF Live
    <2>2. Fresh(f)'
      BY <1>1, <1>3, <2>1 DEF Fresh
    <2>3. InWork(f) => InWork(f)'
      BY <1>1 DEF InWork
    <2> QED BY <1>1, <1>3, <2>1, <2>2, <2>3 DEF Tracked, Current
  <1>6. ASSUME NEW f \in File, excuse[f] = "none" PROVE Owed(f)'
    <2>1. Owed(f)
      BY <1>6 DEF Live
    <2> QED BY <1>1, <1>3, <2>1 DEF Owed
  <1> QED BY <1>3, <1>4, <1>5, <1>6 DEF Live

\* What failed is entered again or given up with an excuse, unless a younger
\* entry took its place; with an error so is what was written.
LEMMA FinishLive ==
  ASSUME Typed, Live, server = "up", Finish
  PROVE  Live'
  <1> DEFINE forgotten == IF failed = {} THEN {} ELSE unresolved \ Again
  <1>1. /\ UNCHANGED <<tree, loop, index, server>> /\ pass = "finish" /\ pass' = "idle"
        /\ jobs = {} /\ todo = {} /\ InHand = batch /\ (failed # {} => bad) /\ failed \subseteq batch
        /\ jobs' = {} /\ own' = {} /\ batch' = {} /\ todo' = {} /\ failed' = {} /\ keys' = {} /\ ~bad'
        /\ Return(batch \ Again, Again, forgotten) /\ batch \subseteq File
    BY DEF Finish, EndPass, Live, Shape, InHand, Typed, TypeOK
  <1>2. InHand' = {} /\ Mine' = {} /\ Again \subseteq batch
    BY <1>1 DEF InHand, Mine, Again
  <1>3. "tree" \notin Mine
    BY <1>1, FileAssumption DEF Mine
  <1>4. ASSUME NEW f \in (batch \ Again) \cap own \cap InTree, <<"tree", f>> \in older PROVE Heard(f)
    <2>1. f \in Mine
      BY <1>1 DEF Mine
    <2> QED BY <1>3, <1>4, <2>1 DEF Live, TreeFirst
  <1>5. ((batch \ Again) \cup Again) \cap own \subseteq InHand /\ Mine' \subseteq Mine \ ((batch \ Again) \cup Again)
    BY <1>1, <1>2
  <1>6. /\ SurvivesTree' /\ TreeFirst' /\ Rescued' /\ BackAfterGone'
        /\ \A f \in File : Covered(f) => Covered(f)'
        /\ \A f \in File : Good(f)' => /\ Good(f) /\ (f \in Again \cap own => Covered(f)')
                                      /\ (f \in InTree => "tree" \notin Again \cap own)
        /\ \A f \in File : excuse'[f] = "none" => excuse[f] = "none" /\ f \notin forgotten \cap own
        /\ pending \ (((batch \ Again) \cup Again) \cap own) \subseteq pending'
    BY <1>1, <1>2, <1>4, <1>5, ReturnLive
  <1>7. Shape' /\ Settled'
    BY <1>1, <1>2 DEF Live, Shape, Settled
  <1>8. ASSUME NEW f \in File, Good(f)' PROVE Fresh(f)' /\ Tracked(f)'
    <2>1. Good(f) /\ Tracked(f)
      BY <1>6, <1>8 DEF Live
    <2>2. Fresh(f)'
      BY <1>1 DEF Fresh
    <2>3. InWork(f) => f \in Again \cap own
      BY <1>1 DEF InWork, Again
    <2> QED BY <1>1, <1>6, <1>8, <2>1, <2>2, <2>3 DEF Tracked, Current
  <1>9. ASSUME NEW f \in File, excuse'[f] = "none" PROVE Owed(f)'
    <2>1. excuse[f] = "none" /\ Owed(f) /\ Good(f)' /\ f \notin forgotten \cap own
      BY <1>6, <1>9 DEF Live, Good
    <2>2. ASSUME f \in unresolved, f \in own \cap batch, f \in failed \cup keys PROVE f \in Again
      <3>1. CASE ~bad
        BY <1>1, <2>2, <3>1 DEF Live, Settled
      <3>2. CASE bad /\ failed = {}
        BY <2>2, <3>2 DEF Again
      <3>3. CASE bad /\ failed # {}
        BY <2>1, <2>2, <3>3 DEF Again
      <3> QED BY <3>1, <3>2, <3>3
    <2> QED BY <1>1, <1>6, <2>1, <2>2 DEF Owed
  <1> QED BY <1>6, <1>7, <1>8, <1>9 DEF Live

(* While the server is up every step of every goroutine preserves Live.    *)
LEMMA CoreStep == Typed /\ Core /\ [Next]_vars => Core'
  <1> SUFFICES ASSUME Typed, Core, [Next]_vars, server' = "up" PROVE Live'
    BY DEF Core
  <1>1. server = "up" /\ ~ServerStep /\ ~CloseBgDone
    BY DEF vars, Next, Users, Edit, MoveTreeOut, MoveTreeIn, Start, LoopStep, LoopQueues, LoopWalks, WalkAdds,
           WalkQueues, LoopExits, Tick, Take, PassStep, Lstat, ReadFile, Delete, Judged, Interrupt, WriteFile,
           Resolve, Finish, PassOnly, CloseBgDone, ServerStep, StopWatcher, CloseDB
  <1>2. Live
    BY <1>1 DEF Core
  <1>3. CASE UNCHANGED vars
    BY <1>2, <1>3 DEF vars, Live, Shape, BackAfterGone, SurvivesTree, TreeFirst, Settled, Good, Told, Heard,
              InHand, Mine, Waiting, Covered, InWork, Fresh, Tracked, Owed, Rescued, Current
  <1>4. CASE Users \/ Tick
    BY <1>2, <1>4, UsersLive, TickLive
  <1>5. CASE Start \/ LoopStep
    <2>1. ~LoopExits
      BY <1>1 DEF LoopExits
    <2> QED BY <1>2, <1>5, <2>1, WalkLive, LoopLive DEF LoopStep
  <1>6. CASE PassStep
    <2>1. ~Interrupt
      BY <1>1 DEF Interrupt
    <2> QED BY <1>1, <1>2, <1>6, <2>1, LstatLive, ReadFileLive, DeleteLive, JudgedLive, WriteFileLive,
               ResolveLive, FinishLive DEF PassStep
  <1> QED BY <1>1, <1>3, <1>4, <1>5, <1>6 DEF Next

\* At the start the rows are those of a full pass, and no event is owed.
LEMMA CoreInit == Init => Core
  <1> SUFFICES ASSUME Init PROVE Live
    BY DEF Core
  <1>1. /\ jobs = {} /\ own = {} /\ batch = {} /\ todo = {} /\ failed = {} /\ keys = {} /\ ~bad
        /\ pass = "idle" /\ pending = {} /\ older = {} /\ unresolved = {} /\ rows = disk
        /\ \A f \in File : excuse[f] = "none" /\ disk[f] \in {"absent"} \cup Text
        /\ events = <<>> /\ Len(events) = 0 /\ treeUp = (\E f \in InTree : disk[f] # "absent")
    BY DEF Init
  <1>2. Shape /\ BackAfterGone /\ SurvivesTree /\ Settled /\ Rescued
    BY <1>1 DEF Shape, InHand, BackAfterGone, SurvivesTree, Settled, Rescued
  <1>3. TreeFirst
    BY <1>1 DEF TreeFirst
  <1>4. \A f \in File : Fresh(f) /\ Tracked(f) /\ Owed(f)
    BY <1>1 DEF Fresh, Tracked, Current, Owed
  <1> QED BY <1>2, <1>3, <1>4 DEF Live

(* In a state of rest nothing is heard of, in hand or waiting.             *)
LEMMA AtRest ==
  ASSUME Typed, Core, Quiet, NEW f \in File
  PROVE  Live /\ ~Covered(f) /\ ~InWork(f) /\ ~Heard(f) /\ own = {} /\ jobs = {} /\ pass = "idle"
  <1>1. Live /\ pass = "idle" /\ loop = "select" /\ events = <<>> /\ pending = {}
    BY DEF Quiet, Core
  <1>2. own = {} /\ jobs = {} /\ batch = {}
    BY <1>1 DEF Live, Shape
  <1>3. Told = {}
    BY <1>1 DEF Told
  <1>4. ~Heard(f)
    BY <1>1, <1>3 DEF Heard
  <1>5. ~Covered(f) /\ ~InWork(f)
    BY <1>1, <1>2, <1>4 DEF Covered, Waiting, InWork
  <1> QED BY <1>1, <1>2, <1>4, <1>5

\* Together they are inductive.
LEMMA CoreHolds == Spec => [](Typed /\ Core)
  <1>1. Init => Typed
    BY TypedInit
  <1>2. Typed /\ [Next]_vars => Typed'
    BY TypedStep
  <1> QED BY <1>1, <1>2, CoreInit, CoreStep, PTL DEF Spec

(* Converged: whatever raced with the passes, a watcher at rest leaves the *)
(* index a fresh pass would build, but for the files the code gives up on. *)
THEOREM ConvergedHolds == Spec => []Converged
  <1>1. Typed /\ Core => Converged
    <2> SUFFICES ASSUME Typed, Core, Quiet, NEW f \in File, excuse[f] \in {"none", "forgotten"}
                 PROVE  Current(f) \/ disk[f] = "huge"
      BY DEF Converged
    <2>1. Live /\ ~Covered(f) /\ ~InWork(f)
      BY AtRest
    <2>2. Tracked(f)
      BY <2>1 DEF Live, Good
    <2> QED BY <2>1, <2>2 DEF Tracked
  <1> QED BY <1>1, CoreHolds, PTL

(* ResolvedAtRest: what was extracted has been through a resolution pass,  *)
(* unless the code gave its file up.                                       *)
THEOREM ResolvedAtRestHolds == Spec => []ResolvedAtRest
  <1>1. Typed /\ Core => ResolvedAtRest
    <2> SUFFICES ASSUME Typed, Core, Quiet, NEW f \in unresolved, excuse[f] = "none" PROVE disk[f] = "huge"
      BY DEF ResolvedAtRest
    <2>1. f \in File
      BY DEF Typed, TypeOK
    <2>2. Live /\ ~Covered(f) /\ own = {} /\ pass = "idle"
      BY <2>1, AtRest
    <2>3. Owed(f)
      BY <2>1, <2>2 DEF Live
    <2> QED BY <2>2, <2>3 DEF Owed
  <1> QED BY <1>1, CoreHolds, PTL

(* OverflowSparesThePresent: when events were lost, the rescan finds every *)
(* file that exists.                                                       *)
THEOREM OverflowSparesThePresentHolds == Spec => []OverflowSparesThePresent
  <1>1. Typed /\ Core => OverflowSparesThePresent
    <2> SUFFICES ASSUME Typed, Core, Quiet, NEW f \in File, excuse[f] = "overflow" PROVE disk[f] \notin Text
      BY DEF OverflowSparesThePresent
    <2>1. Live /\ ~Heard(f)
      BY AtRest
    <2>2. disk[f] = "absent"
      BY <2>1 DEF Live, Rescued
    <2> QED BY <2>2, TextAssumption
  <1> QED BY <1>1, CoreHolds, PTL
=============================================================================
