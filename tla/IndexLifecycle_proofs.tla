----------------------- MODULE IndexLifecycle_proofs -----------------------
(***************************************************************************)
(* Proofs about IndexLifecycle, for every set of files, every set of       *)
(* program revisions and any number of starts, edits and crashes.          *)
(***************************************************************************)
EXTENDS IndexLifecycle, TLAPS

\* Where a pass of IndexAll or RebuildAll is once the index may be written.
Walking == {"walk", "prune", "jobs", "resolve", "synth", "mark"}

\* The parts of TypeOK the other parts need.
Shape ==
    /\ rev \in Rev \cup {0} /\ prog \in Rev
    /\ rows \in [File -> Row] /\ held \in [File -> 0..MaxVer]
    /\ disk \in [File -> 0..MaxVer] /\ pass \in {"all", "rebuild", "changes"}
    /\ walked \subseteq File /\ still \subseteq File

\* What the place in backgroundIndexAndWatch says of the pass and the revision.
Stages ==
    /\ pc = "wipe" => pass = "rebuild" /\ rev # prog
    /\ pc \in {"walk", "prune", "mark"} => pass # "changes"
    /\ pc \in Walking /\ pass = "all" => rev = prog

\* Every row is of the running program once the revision is, and already while
\* a rebuild works towards it.
Pure ==
    /\ rev <= prog
    /\ rev = prog \/ (pass = "rebuild" /\ pc \in Walking)
       => \A f \in Indexed : rows[f].gen = prog

\* What the walk and the workers know of the files nobody touched since.
Seen ==
    /\ \A f \in still : disk[f] # 0 /\ held[f] \in {0, disk[f]}
    /\ pc # "jobs" => \A f \in File : held[f] = 0
    /\ pc = "prune" /\ ~walkErr => still \subseteq walked

\* How a pass that has not failed got on with file f.
Handled(f) ==
    \/ pc = "prune"
    \/ pc = "jobs" /\ f \in jobs
    \/ pc = "jobs" /\ held[f] = disk[f]
    \/ f \in failed
    \/ rows[f].ver = disk[f]

\* A pass that will mark the revision has lost no file so far.
Progress ==
    pc \in Walking \ {"walk"} /\ pass # "changes" /\ ~err /\ ~(pc = "jobs" /\ bgDone)
    => \A f \in walked \cap still : Handled(f)

\* No error can reach the mark.
CleanMark == pc = "mark" => ~err

Inv == Shape /\ Stages /\ Seen /\ Progress /\ CleanMark
-----------------------------------------------------------------------------
USE DEF index, bg, walk, work, None, Row, Forced, Indexed, Idle, NeedsRebuild,
        Goto, Fail, AfterPass, End, Changes, Taken, Settled, SameMeta, SameHash,
        Walking

(* The invariant holds initially.                                          *)
LEMMA InitInv == Init => Inv /\ Pure
  BY RevAssumption, VerAssumption
     DEF Init, Inv, Shape, Stages, Pure, Seen, Progress, CleanMark, Handled

(* The environment's steps: edits, starts, shutdowns and deaths.           *)
LEMMA EnvironmentStep ==
    ASSUME Inv, Environment
    PROVE  Inv'
  <1> USE RevAssumption, VerAssumption DEF Inv, Shape, Stages, Seen, Progress, CleanMark, Handled
  <1>1. CASE \E f \in File : Edit(f) \/ Touch(f)
    BY <1>1 DEF Edit, Touch
  <1>2. CASE \E p \in Rev : Start(p)
    BY <1>2 DEF Start
  <1>3. CASE Shutdown
    BY <1>3 DEF Shutdown
  <1>4. CASE Exit \/ Crash
    BY <1>4 DEF Exit, Crash
  <1> QED BY <1>1, <1>2, <1>3, <1>4 DEF Environment

(* The stages before and after the pass.                                   *)
LEMMA StageStep ==
    ASSUME Inv,
           \/ Check \/ CheckFails \/ Bail \/ Wipe \/ WipeFails
           \/ Mark \/ MarkFails
           \/ \E dirty \in SUBSET File : Assist(dirty)
           \/ \E ok \in BOOLEAN : Watch(ok)
           \/ \E batch \in SUBSET File : Sync(batch)
    PROVE  Inv'
  <1> USE RevAssumption, VerAssumption DEF Inv, Shape, Stages, Seen, Progress, CleanMark, Handled
  <1>1. CASE Check \/ CheckFails \/ Bail
    BY <1>1 DEF Check, CheckFails, Bail
  <1>2. CASE Wipe \/ WipeFails
    BY <1>2 DEF Wipe, WipeFails
  <1>3. CASE Mark \/ MarkFails
    BY <1>3 DEF Mark, MarkFails
  <1>4. CASE \E dirty \in SUBSET File : Assist(dirty)
    BY <1>4 DEF Assist
  <1>5. CASE \E ok \in BOOLEAN : Watch(ok)
    BY <1>5 DEF Watch
  <1>6. CASE \E batch \in SUBSET File : Sync(batch)
    BY <1>6 DEF Sync
  <1> QED BY <1>1, <1>2, <1>3, <1>4, <1>5, <1>6

(* The walk and what follows it, up to the workers and after them.         *)
LEMMA PassStep ==
    ASSUME Inv,
           \/ \E unread \in SUBSET File : Walk(unread)
           \/ WalkInterrupted
           \/ \E dropped \in SUBSET File, ok \in BOOLEAN : Prune(dropped, ok)
           \/ Drain \/ JobsEnd
           \/ \E ok \in BOOLEAN : Resolve(ok) \/ Synth(ok)
    PROVE  Inv'
  <1> USE RevAssumption, VerAssumption DEF Inv, Shape, Stages, Seen, Progress, CleanMark, Handled
  <1>1. CASE \E unread \in SUBSET File : Walk(unread)
    BY <1>1 DEF Walk
  <1>2. CASE WalkInterrupted
    BY <1>2 DEF WalkInterrupted
  <1>3. CASE \E dropped \in SUBSET File, ok \in BOOLEAN : Prune(dropped, ok)
    BY <1>3 DEF Prune
  <1>4. CASE Drain
    BY <1>4 DEF Drain
  <1>5. CASE JobsEnd
    BY <1>5 DEF JobsEnd
  <1>6. CASE \E ok \in BOOLEAN : Resolve(ok)
    BY <1>6 DEF Resolve
  <1>7. CASE \E ok \in BOOLEAN : Synth(ok)
    BY <1>7 DEF Synth
  <1> QED BY <1>1, <1>2, <1>3, <1>4, <1>5, <1>6, <1>7

(* A worker's step on one file: the others' state is untouched, and its own *)
(* is skipped with equal bytes, read, replaced with the bytes it holds,     *)
(* kept, or an error.                                                       *)
LEMMA WorkerStep ==
    ASSUME Inv, NEW f \in File, Worker(f)
    PROVE  Inv'
  <1> USE RevAssumption, VerAssumption DEF Inv, Shape, Stages, Seen, Progress, CleanMark, Handled
  <1>1. CASE Skip(f)
    BY <1>1 DEF Skip
  <1>2. CASE Read(f)
    BY <1>2 DEF Read
  <1>3. CASE Gone(f) \/ GateFails(f)
    BY <1>3 DEF Gone, GateFails
  <1>4. CASE Replace(f)
    <2>1. [ver |-> held[f], gen |-> prog] \in Row
      BY <1>4 DEF Replace
    <2>2. Shape'
      BY <1>4, <2>1 DEF Replace
    <2>3. Stages' /\ Seen' /\ CleanMark'
      BY <1>4 DEF Replace
    <2>4. Progress'
      <3> SUFFICES ASSUME pc \in Walking \ {"walk"}, pass # "changes", ~err,
                          ~(pc = "jobs" /\ bgDone), NEW g \in walked \cap still
                   PROVE  Handled(g)'
        BY <1>4 DEF Replace
      <3>1. Handled(g)
        OBVIOUS
      <3>2. CASE g = f
        BY <1>4, <3>1, <3>2 DEF Replace
      <3>3. CASE g # f
        BY <1>4, <3>1, <3>3 DEF Replace
      <3> QED BY <3>2, <3>3
    <2> QED BY <2>2, <2>3, <2>4
  <1>5. CASE KeepOld(f) \/ JobFails(f)
    BY <1>5 DEF KeepOld, JobFails
  <1> QED BY <1>1, <1>2, <1>3, <1>4, <1>5 DEF Worker

(* The invariant is inductive.                                             *)
LEMMA NextInv == Inv /\ [Next]_vars => Inv'
  <1> SUFFICES ASSUME Inv, [Next]_vars PROVE Inv'
    OBVIOUS
  <1>1. CASE UNCHANGED vars
    BY <1>1 DEF vars, Inv, Shape, Stages, Seen, Progress, CleanMark, Handled
  <1>2. CASE Next
    BY <1>2, EnvironmentStep, StageStep, PassStep, WorkerStep DEF Next, Goroutine
  <1> QED BY <1>1, <1>2

(* The invariant holds always.                                             *)
THEOREM Invariance == Spec => []Inv
  BY InitInv, NextInv, PTL DEF Spec
-----------------------------------------------------------------------------
(* MarkedPassIsComplete, whatever the versions of the programs.            *)
THEOREM MarkedPassIsCompleteHolds == Spec => []MarkedPassIsComplete
  <1>1. Inv => MarkedPassIsComplete
    BY DEF Inv, Stages, Progress, CleanMark, Handled, MarkedPassIsComplete
  <1> QED BY <1>1, Invariance, PTL

(* KeepsLiveFiles: a prune follows a complete walk, and IndexChanges clears *)
(* only files it found deleted.                                            *)
THEOREM KeepsLiveFilesHolds == Spec => KeepsLiveFiles
  <1> DEFINE Kept == \A f \in File :
                        rows[f] # None /\ rows'[f] = None /\ f \in still
                        => pc = "wipe" /\ rev # prog
  <1>1. Inv /\ [Next]_vars => [Kept]_vars
    <2> SUFFICES ASSUME Inv, Next, NEW f \in File,
                        rows[f] # None, rows'[f] = None, f \in still
                 PROVE  pc = "wipe" /\ rev # prog
      BY DEF Kept
    <2>1. CASE Wipe
      BY <2>1 DEF Wipe, Inv, Stages
    <2>2. CASE \E dropped \in SUBSET File, ok \in BOOLEAN : Prune(dropped, ok)
      BY <2>2 DEF Prune, Inv, Shape, Seen
    <2>3. CASE \E g \in File : Worker(g)
      <3>1. PICK g \in File : Worker(g)
        BY <2>3
      <3>2. CASE Gone(g)
        BY <3>2 DEF Gone, Inv, Shape, Seen
      <3>3. CASE Replace(g)
        BY <3>3, RevAssumption DEF Replace, Inv, Shape
      <3>4. CASE Skip(g) \/ Read(g) \/ GateFails(g) \/ KeepOld(g) \/ JobFails(g)
        BY <3>4 DEF Skip, Read, GateFails, KeepOld, JobFails
      <3> QED BY <3>1, <3>2, <3>3, <3>4 DEF Worker
    <2>4. rows' = rows \/ Wipe \/ (\E g \in File : Worker(g))
          \/ \E dropped \in SUBSET File, ok \in BOOLEAN : Prune(dropped, ok)
      BY DEF Next, Goroutine, Environment, Edit, Touch, Start, Shutdown, Exit, Crash,
             Check, CheckFails, Bail, WipeFails, Walk, WalkInterrupted, Drain, JobsEnd,
             Resolve, Synth, Mark, MarkFails, Assist, Watch, Sync
    <2> QED BY <2>1, <2>2, <2>3, <2>4
  <1> QED BY <1>1, Invariance, PTL DEF Spec, KeepsLiveFiles, Kept

(* Purity rests on the order of programs: none follows a newer one.         *)
LEMMA PureStep ==
    ASSUME Inv, Pure, [Next]_vars
    PROVE  Pure'
  <1> USE RevAssumption DEF Inv, Shape, Stages, Pure
  <1>1. CASE UNCHANGED vars
    BY <1>1 DEF vars
  <1>2. CASE Environment
    BY <1>2 DEF Environment, Edit, Touch, Start, Shutdown, Exit, Crash
  <1>3. CASE \E f \in File : Worker(f)
    <2> PICK f \in File : Worker(f)
      BY <1>3
    <2>1. CASE Replace(f)
      BY <2>1 DEF Replace
    <2>2. CASE ~Replace(f)
      BY <2>2 DEF Worker, Skip, Read, Gone, GateFails, KeepOld, JobFails
    <2> QED BY <2>1, <2>2
  <1>4. CASE Wipe
    BY <1>4 DEF Wipe
  <1>8. CASE Mark
    <2>1. pass \in {"all", "rebuild"} => \A f \in Indexed : rows[f].gen = prog
      BY <1>8 DEF Mark
    <2>2. pass \in {"all", "rebuild"}
      BY <1>8 DEF Mark
    <2> QED BY <1>8, <2>1, <2>2 DEF Mark
  <1>5. CASE \E dropped \in SUBSET File, ok \in BOOLEAN : Prune(dropped, ok)
    BY <1>5 DEF Prune
  <1>6. CASE \/ Check \/ CheckFails \/ Bail \/ WipeFails \/ MarkFails
             \/ \E unread \in SUBSET File : Walk(unread)
             \/ WalkInterrupted \/ Drain \/ JobsEnd
    BY <1>6 DEF Check, CheckFails, Bail, WipeFails, MarkFails, Walk, WalkInterrupted,
                Drain, JobsEnd
  <1>7. CASE \/ \E ok \in BOOLEAN : Resolve(ok) \/ Synth(ok) \/ Watch(ok)
             \/ \E batch \in SUBSET File : Assist(batch) \/ Sync(batch)
    BY <1>7 DEF Resolve, Synth, Watch, Assist, Sync
  <1> QED BY <1>1, <1>2, <1>3, <1>4, <1>5, <1>6, <1>7, <1>8 DEF Next, Goroutine

(* RevisionHonest, as long as programs are only upgraded.                  *)
THEOREM RevisionHonestHolds == Spec => []RevisionHonest
  <1>1. Inv /\ Pure /\ [Next]_vars => (Inv /\ Pure)'
    BY NextInv, PureStep
  <1>2. Inv /\ Pure => RevisionHonest
    BY DEF Pure, RevisionHonest
  <1> QED BY InitInv, <1>1, <1>2, PTL DEF Spec
=============================================================================
