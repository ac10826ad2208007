--------------------------- MODULE DevRunnerProofs ---------------------------
(***************************************************************************)
(* The supervisor's ownership of processes, and what the binaries it       *)
(* stages were built from, for every set of editions, every number of      *)
(* saves and faults, and every placement of saves.                         *)
(***************************************************************************)
EXTENDS DevRunner, FiniteSetTheorems, TLAPS

InitSteps ==
  {"initGraph", "initCompile", "initStamp", "initBuild", "initObserve",
   "initStage", "initPublish", "initSpawn"}

(***************************************************************************)
(* NoOrphans and LastKnownGood need to know when each process exists, and  *)
(* that a candidate that reported readiness has drawn.                     *)
(***************************************************************************)
Owned ==
  /\ pc \in InitSteps => app = None
  /\ pc \notin {"await", "swap"} => cand = None
  /\ pc \in {"await", "swap"} => cand # None
  /\ pc = "done" => app = None \/ app.state = "dead"

HasDrawn ==
  cand # None => /\ cand.state = "drawn" => cand.shown # None
                 /\ pc = "swap" => cand.shown # None

IInv == TypeOK /\ Owned /\ HasDrawn

-----------------------------------------------------------------------------
(* Drawing, dying and spawning yield processes. *)
LEMMA ProcessFacts ==
  ASSUME TypeOK, NEW p \in Process
  PROVE  /\ Draw(p) \in Process
         /\ Draw(p).bin = p.bin /\ Draw(p).reads = p.reads
         /\ Draw(p).shown # None /\ Draw(p).state = "drawn"
         /\ [p EXCEPT !.state = "dead"] \in Process
         /\ [p EXCEPT !.state = "dead"].bin = p.bin
         /\ [p EXCEPT !.state = "dead"].reads = p.reads
         /\ [p EXCEPT !.state = "dead"].shown = p.shown
         /\ [p EXCEPT !.state = "dead"].state = "dead"
<1>1. Rendered(p) \in IceEditions
  BY DEF Rendered, TypeOK, Process, Content
<1>2. QED
  BY <1>1, NoneAssumption DEF Draw, Process

LEMMA SpawnedFacts ==
  ASSUME TypeOK
  PROVE  /\ Spawned("starting") \in Process
         /\ Spawned("starting").state = "starting"
  BY DEF Spawned, Process, TypeOK

(* What the runner reads from the disk is an edition and a known graph. *)
LEMMA DiskFacts ==
  ASSUME TypeOK
  PROVE  /\ disk.ice \in IceEditions /\ disk.rust \in RustEditions
         /\ disk.rust.graph \in Graphs
         /\ snap.ice \in IceEditions
         /\ \A ps \in SUBSET Files : Stamped(ps) \in Content
  BY DEF TypeOK, Content, Graphs, Stamped

(* A scan of known files is a scan. *)
LEMMA ScanFacts ==
  ASSUME NEW ps \in SUBSET Files, NEW full \in BOOLEAN
  PROVE  /\ [full |-> full, paths |-> ps] \in Scan
         /\ [full |-> full, paths |-> ps].paths = ps
  BY DEF Scan

(* The runner starts with no process. *)
LEMMA InitIInv == Init => IInv
<1> SUFFICES ASSUME Init PROVE IInv
  OBVIOUS
<1>1. disk \in Content /\ graph \in Graphs /\ db \in IceEditions
  <2>1. disk \in Content
    BY DEF Init
  <2>2. disk.rust \in RustEditions /\ disk.ice \in IceEditions
    BY <2>1 DEF Content
  <2>3. QED
    BY <2>1, <2>2 DEF Init, Graphs
<1>2. edits \in 0 .. MaxEdits /\ faults \in 0 .. MaxFaults
  BY BoundsAssumption DEF Init
<1>3. TypeOK
  BY <1>1, <1>2 DEF Init, TypeOK, Steps, Files, Scan
<1>4. QED
  BY <1>3 DEF Init, IInv, Owned, HasDrawn, InitSteps

(* Every action keeps the types. *)
LEMMA StepTypeOK == TypeOK /\ [Next]_vars => TypeOK'
<1> SUFFICES ASSUME TypeOK, [Next]_vars PROVE TypeOK'
  OBVIOUS
<1> USE ProcessFacts, SpawnedFacts, DiskFacts, BoundsAssumption
    DEF TypeOK, Steps, env, memory, procs, CargoGraph
<1>1. ASSUME NEW f \in Files, Save(f) PROVE TypeOK'
  <2>1. \A c \in Content1(f, disk) : c \in Content
    BY DEF Content1, Content, Files
  <2>2. PICK c \in Content1(f, disk) : disk' = c /\ saved' = saved \cup {c}
    BY <1>1 DEF Save
  <2>3. edits' \in 0 .. MaxEdits
    BY <1>1 DEF Save
  <2>4. notified' \in SUBSET Files
    BY <1>1 DEF Save
  <2>5. QED
    BY <1>1, <2>1, <2>2, <2>3, <2>4 DEF Save
<1>2. CASE Interrupt
  BY <1>2 DEF Interrupt
<1>3. CASE InitFault
  <2>1. /\ faults' \in 0 .. MaxFaults /\ Exit
        /\ UNCHANGED <<env, stop, memory, file>>
    BY <1>3 DEF InitFault, Fault
  <2>2. QED
    BY <2>1 DEF Exit, Killed
<1>4. CASE InitGraph
  BY <1>4 DEF InitGraph, Exit, Killed
<1>5. CASE InitCompile
  BY <1>5 DEF InitCompile, Exit, Killed
<1>6. CASE InitStamp
  BY <1>6 DEF InitStamp
<1>7. CASE InitBuild
  BY <1>7 DEF InitBuild, Exit, Killed
<1>8. CASE InitObserve
  BY <1>8 DEF InitObserve, Fault
<1>9. CASE InitPublish
  BY <1>9 DEF InitPublish, PublishTemplate, Fault
<1>10. CASE InitSpawn
  BY <1>10 DEF InitSpawn
<1>11. CASE LoopExit
  BY <1>11 DEF LoopExit, Exit, Killed, Fault
<1>12. CASE Wait
  <2>1. scan' \in Scan /\ scan'.paths \in SUBSET Files
    <3>1. \/ scan' = [full |-> TRUE, paths |-> Files]
          \/ scan' = [full |-> FALSE, paths |-> notified]
      BY <1>12 DEF Wait
    <3>2. notified \in SUBSET Files
      OBVIOUS
    <3>3. Files \in SUBSET Files
      OBVIOUS
    <3>4. CASE scan' = [full |-> TRUE, paths |-> Files]
      BY ONLY <3>3, <3>4, ScanFacts
    <3>5. CASE scan' = [full |-> FALSE, paths |-> notified]
      BY ONLY <3>2, <3>5, ScanFacts
    <3>6. QED
      BY <3>1, <3>4, <3>5
  <2>2. snap' \in Content
    BY <1>12, <2>1 DEF Wait
  <2>3. notified' \in SUBSET Files
    BY <1>12 DEF Wait
  <2>4. QED
    BY <1>12, <2>1, <2>2, <2>3 DEF Wait
<1>13. CASE Settle
  BY <1>13 DEF Settle, Stamped
<1>14. CASE RefreshGraph("graph", "compile")
  BY <1>14 DEF RefreshGraph, Fault, Idle
<1>15. CASE Compile
  BY <1>15 DEF Compile
<1>16. CASE Rejected
  BY <1>16 DEF Rejected, Fault, Idle
<1>17. CASE Recheck
  BY <1>17 DEF Recheck
<1>18. CASE Confirm
  BY <1>18 DEF Confirm
<1>19. CASE RefreshGraph("regraph", "offer")
  BY <1>19 DEF RefreshGraph, Fault, Idle
<1>20. CASE Reload
  BY <1>20 DEF Reload, ViewOnly, Fault, Idle
<1>21. CASE NoReload
  BY <1>21 DEF NoReload, Idle
<1>22. CASE Build
  BY <1>22 DEF Build, Fault, Exit, Killed, Idle
<1>23. CASE Observe
  BY <1>23 DEF Observe, Fault, Idle
<1>24. CASE Stage
  BY <1>24 DEF Stage, Fault, Idle
<1>25. CASE Publish
  BY <1>25 DEF Publish, PublishTemplate, Fault
<1>26. CASE Spawn
  BY <1>26 DEF Spawn, Fault, Idle
<1>27. CASE AwaitReady
  BY <1>27 DEF AwaitReady, Ready
<1>28. CASE AwaitFailed
  BY <1>28 DEF AwaitFailed, DropCandidate, Fault, Idle
<1>29. CASE Swap
  <2>1. faults' \in 0 .. MaxFaults /\ observed' = snap /\ cand' = None
    BY <1>29 DEF Swap, DropCandidate, Fault
  <2>2. app' \in Process \cup {None} \cup {Killed(app)}
    BY <1>29 DEF Swap
  <2>3. app' \in Process \cup {None}
    BY <2>2 DEF Killed
  <2>4. QED
    BY <1>29, <2>1, <2>3 DEF Swap, DropCandidate, Idle
<1>30. CASE AppDraw
  BY <1>30 DEF AppDraw
<1>31. CASE CandidateDraw
  BY <1>31 DEF CandidateDraw
<1>32. CASE AppFailsToStart
  BY <1>32 DEF AppFailsToStart
<1>33. CASE AppExits
  BY <1>33 DEF AppExits, Fault
<1>34. CASE CandidateExits
  BY <1>34 DEF CandidateExits, Fault
<1>35. CASE UNCHANGED vars
  BY <1>35 DEF vars, env, memory, procs
<1>36. QED
  BY <1>1, <1>2, <1>3, <1>4, <1>5, <1>6, <1>7, <1>8, <1>9, <1>10,
     <1>11, <1>12, <1>13, <1>14, <1>15, <1>16, <1>17, <1>18, <1>19, <1>20,
     <1>21, <1>22, <1>23, <1>24, <1>25, <1>26, <1>27, <1>28, <1>29, <1>30,
     <1>31, <1>32, <1>33, <1>34, <1>35
  DEF Next, Runner, Apps, Initial

(* Every action keeps the ownership of the processes, given their types. *)
LEMMA StepOwned == IInv /\ [Next]_vars => Owned' /\ HasDrawn'
<1> SUFFICES ASSUME TypeOK, Owned, HasDrawn, [Next]_vars
             PROVE  Owned' /\ HasDrawn'
  BY DEF IInv
<1> USE ProcessFacts, SpawnedFacts, NoneAssumption
    DEF TypeOK, Owned, HasDrawn, InitSteps, CargoGraph, env, memory, procs
<1>1. ASSUME NEW f \in Files, Save(f) PROVE Owned' /\ HasDrawn'
  BY <1>1 DEF Save, Content1, Files, Content
<1>2. CASE Interrupt
  BY <1>2 DEF Interrupt
<1>3. CASE InitFault
  BY <1>3 DEF InitFault, Fault, Exit, Killed
<1>4. CASE InitGraph
  BY <1>4 DEF InitGraph, Exit, Killed
<1>5. CASE InitCompile
  BY <1>5 DEF InitCompile, Exit, Killed
<1>6. CASE InitStamp
  BY <1>6 DEF InitStamp
<1>7. CASE InitBuild
  BY <1>7 DEF InitBuild, Exit, Killed
<1>8. CASE InitObserve
  BY <1>8 DEF InitObserve
<1>9. CASE InitPublish
  BY <1>9 DEF InitPublish, PublishTemplate, Fault
<1>10. CASE InitSpawn
  BY <1>10 DEF InitSpawn
<1>11. CASE LoopExit
  BY <1>11 DEF LoopExit, Exit, Killed
<1>12. CASE Wait
  BY <1>12 DEF Wait, Files, Scan
<1>13. CASE Settle
  BY <1>13 DEF Settle, Stamped
<1>14. CASE RefreshGraph("graph", "compile")
  BY <1>14 DEF RefreshGraph, Fault, Idle
<1>15. CASE Compile
  BY <1>15 DEF Compile
<1>16. CASE Rejected
  BY <1>16 DEF Rejected, Idle
<1>17. CASE Recheck
  BY <1>17 DEF Recheck
<1>18. CASE Confirm
  BY <1>18 DEF Confirm
<1>19. CASE RefreshGraph("regraph", "offer")
  BY <1>19 DEF RefreshGraph, Fault, Idle
<1>20. CASE Reload
  BY <1>20 DEF Reload, ViewOnly, Fault, Idle
<1>21. CASE NoReload
  BY <1>21 DEF NoReload, Idle
<1>22. CASE Build
  BY <1>22 DEF Build, Exit, Killed, Idle
<1>23. CASE Observe
  BY <1>23 DEF Observe, Idle
<1>24. CASE Stage
  BY <1>24 DEF Stage, Fault, Idle
<1>25. CASE Publish
  BY <1>25 DEF Publish, PublishTemplate, Fault
<1>26. CASE Spawn
  BY <1>26 DEF Spawn, Fault, Idle
<1>27. CASE AwaitReady
  BY <1>27 DEF AwaitReady, Ready
<1>28. CASE AwaitFailed
  BY <1>28 DEF AwaitFailed, DropCandidate, Fault, Idle
<1>29. CASE Swap
  BY <1>29 DEF Swap, DropCandidate, Killed, Fault, Idle
<1>30. CASE AppDraw
  BY <1>30 DEF AppDraw
<1>31. CASE CandidateDraw
  BY <1>31 DEF CandidateDraw
<1>32. CASE AppFailsToStart
  BY <1>32 DEF AppFailsToStart
<1>33. CASE AppExits
  BY <1>33 DEF AppExits, Fault
<1>34. CASE CandidateExits
  BY <1>34 DEF CandidateExits, Fault
<1>35. CASE UNCHANGED vars
  BY <1>35 DEF vars, env, memory, procs
<1>36. QED
  BY <1>1, <1>2, <1>3, <1>4, <1>5, <1>6, <1>7, <1>8, <1>9, <1>10,
     <1>11, <1>12, <1>13, <1>14, <1>15, <1>16, <1>17, <1>18, <1>19, <1>20,
     <1>21, <1>22, <1>23, <1>24, <1>25, <1>26, <1>27, <1>28, <1>29, <1>30,
     <1>31, <1>32, <1>33, <1>34, <1>35
  DEF Next, Runner, Apps, Initial

(***************************************************************************)
(* The strengthened invariant holds of every behaviour.                    *)
(***************************************************************************)
THEOREM Invariance == Spec => []IInv
<1>1. IInv /\ [Next]_vars => IInv'
  BY StepTypeOK, StepOwned DEF IInv
<1>2. QED
  BY InitIInv, <1>1, PTL DEF Spec

(* Every variable keeps its type; a live template is a publishable edition. *)
THEOREM TypeCorrect == Spec => []TypeOK
<1>1. IInv => TypeOK
  BY DEF IInv
<1>2. QED
  BY Invariance, <1>1, PTL

(* ChildGuard's promise: nobody outlives the runner, and a candidate exists *)
(* only between its spawn and its adoption or disposal.                    *)
THEOREM NoOrphansCorrect == Spec => []NoOrphans
<1>1. IInv => NoOrphans
  BY DEF IInv, Owned, NoOrphans
<1>2. QED
  BY Invariance, <1>1, PTL

(* The running app is only replaced by a candidate that drew a frame.      *)
THEOREM LastKnownGoodCorrect == Spec => LastKnownGood
<1> DEFINE Kept == (app # None /\ app' # app /\ pc' # "done")
                     => \/ app'.bin = app.bin /\ app'.reads = app.reads
                        \/ cand # None /\ app' = cand /\ cand.shown # None
<1>1. IInv /\ [Next]_vars => [Kept]_vars
  <2> SUFFICES ASSUME TypeOK, Owned, HasDrawn, [Next]_vars PROVE Kept
    BY DEF IInv
  <2> USE ProcessFacts, NoneAssumption
      DEF TypeOK, Owned, HasDrawn, InitSteps, CargoGraph, env, memory, procs
  <2>1. ASSUME NEW f \in Files, Save(f) PROVE Kept
    BY <2>1 DEF Save, Content1, Files, Content
  <2>2. CASE Interrupt
    BY <2>2 DEF Interrupt
  <2>3. CASE InitFault
    BY <2>3 DEF InitFault, Fault, Exit, Killed
  <2>4. CASE InitGraph
    BY <2>4 DEF InitGraph, Exit, Killed
  <2>5. CASE InitCompile
    BY <2>5 DEF InitCompile, Exit, Killed
  <2>6. CASE InitStamp
    BY <2>6 DEF InitStamp
  <2>7. CASE InitBuild
    BY <2>7 DEF InitBuild, Exit, Killed
  <2>8. CASE InitObserve
    BY <2>8 DEF InitObserve
  <2>9. CASE InitPublish
    BY <2>9 DEF InitPublish, PublishTemplate, Fault
  <2>10. CASE InitSpawn
    BY <2>10 DEF InitSpawn
  <2>11. CASE LoopExit
    BY <2>11 DEF LoopExit, Exit, Killed
  <2>12. CASE Wait
    BY <2>12 DEF Wait, Files, Scan
  <2>13. CASE Settle
    BY <2>13 DEF Settle, Stamped
  <2>14. CASE RefreshGraph("graph", "compile")
    BY <2>14 DEF RefreshGraph, Fault, Idle
  <2>15. CASE Compile
    BY <2>15 DEF Compile
  <2>16. CASE Rejected
    BY <2>16 DEF Rejected, Idle
  <2>17. CASE Recheck
    BY <2>17 DEF Recheck
  <2>18. CASE Confirm
    BY <2>18 DEF Confirm
  <2>19. CASE RefreshGraph("regraph", "offer")
    BY <2>19 DEF RefreshGraph, Fault, Idle
  <2>20. CASE Reload
    BY <2>20 DEF Reload, ViewOnly, Fault, Idle
  <2>21. CASE NoReload
    BY <2>21 DEF NoReload, Idle
  <2>22. CASE Build
    BY <2>22 DEF Build, Exit, Killed, Idle
  <2>23. CASE Observe
    BY <2>23 DEF Observe, Idle
  <2>24. CASE Stage
    BY <2>24 DEF Stage, Fault, Idle
  <2>25. CASE Publish
    BY <2>25 DEF Publish, PublishTemplate, Fault
  <2>26. CASE Spawn
    BY <2>26 DEF Spawn, Fault, Idle
  <2>27. CASE AwaitReady
    BY <2>27 DEF AwaitReady, Ready
  <2>28. CASE AwaitFailed
    BY <2>28 DEF AwaitFailed, DropCandidate, Fault, Idle
  <2>29. CASE Swap
    BY <2>29 DEF Swap, DropCandidate, Killed, Fault, Idle
  <2>30. CASE AppDraw
    BY <2>30 DEF AppDraw
  <2>31. CASE CandidateDraw
    BY <2>31 DEF CandidateDraw
  <2>32. CASE AppFailsToStart
    BY <2>32 DEF AppFailsToStart
  <2>33. CASE AppExits
    BY <2>33 DEF AppExits, Fault
  <2>34. CASE CandidateExits
    BY <2>34 DEF CandidateExits, Fault
  <2>35. CASE UNCHANGED vars
    BY <2>35 DEF vars, env, memory, procs
  <2>36. QED
    BY <2>1, <2>2, <2>3, <2>4, <2>5, <2>6, <2>7, <2>8, <2>9, <2>10,
       <2>11, <2>12, <2>13, <2>14, <2>15, <2>16, <2>17, <2>18, <2>19, <2>20,
       <2>21, <2>22, <2>23, <2>24, <2>25, <2>26, <2>27, <2>28, <2>29, <2>30,
       <2>31, <2>32, <2>33, <2>34, <2>35
    DEF Next, Runner, Apps, Initial
<1>2. QED
  BY Invariance, <1>1, PTL DEF Spec, LastKnownGood
-----------------------------------------------------------------------------
(***************************************************************************)
(* What is staged was built from what was checked.                         *)
(***************************************************************************)

\* There are at most as many contents as saves, and the one the disk has.
Counted ==
  /\ IsFiniteSet(saved) /\ Cardinality(saved) <= edits + 1
  /\ disk \in saved

\* What the rechecks agreed to was once on the disk.
Rechecked ==
  pc \in {"confirm", "regraph", "offer", "build", "observe"} => snap \in saved

\* After cargo has read the disk, only an undone save can bring the disk back
\* to the settled stamps.
Compiled ==
  pc = "observe" /\ NeverUndone /\ disk = snap => built = snap

Settled == Counted /\ Rechecked /\ Compiled /\ BuildMatchesStamps

\* A save that keeps NeverUndone brings a content nobody has seen.
LEMMA SaveIsNews ==
  ASSUME TypeOK, Counted, NEW c, saved' = saved \cup {c}, edits' = edits + 1
  PROVE  /\ IsFiniteSet(saved') /\ Cardinality(saved') <= edits' + 1
         /\ NeverUndone' => NeverUndone /\ c \notin saved
<1>1. /\ IsFiniteSet(saved \cup {c})
      /\ Cardinality(saved \cup {c}) =
           IF c \in saved THEN Cardinality(saved) ELSE Cardinality(saved) + 1
  BY FS_AddElement DEF Counted
<1>2. Cardinality(saved) \in Nat /\ edits \in Nat
  BY FS_CardinalityType, BoundsAssumption DEF Counted, TypeOK
<1>3. Cardinality(saved') = IF c \in saved THEN Cardinality(saved) ELSE Cardinality(saved) + 1
  BY <1>1
<1>4. Cardinality(saved) <= edits + 1
  BY DEF Counted
<1>5. NeverUndone' <=> Cardinality(saved') = edits' + 1
  BY DEF NeverUndone
<1>6. NeverUndone <=> Cardinality(saved) = edits + 1
  BY DEF NeverUndone
<1>7. QED
  BY <1>1, <1>2, <1>3, <1>4, <1>5, <1>6

LEMMA StepSettled == TypeOK /\ Settled /\ [Next]_vars => Settled'
<1> SUFFICES ASSUME TypeOK, Settled, [Next]_vars PROVE Settled'
  OBVIOUS
<1> USE DEF Settled, Counted, Rechecked, Compiled, BuildMatchesStamps, NeverUndone,
            env, memory, procs
<1>1. ASSUME NEW f \in Files, Save(f) PROVE Settled'
  <2>1. PICK c : disk' = c /\ saved' = saved \cup {c} /\ edits' = edits + 1
    BY <1>1 DEF Save
  <2>2. UNCHANGED <<pc, snap, built>>
    BY <1>1 DEF Save
  <2>3. /\ IsFiniteSet(saved') /\ Cardinality(saved') <= edits' + 1
        /\ NeverUndone' => NeverUndone /\ c \notin saved
    BY <2>1, SaveIsNews DEF Settled
  <2>4. QED
    BY <2>1, <2>2, <2>3
<1>2. CASE Interrupt \/ Apps
  BY <1>2 DEF Interrupt, Apps, AppDraw, CandidateDraw, AppFailsToStart, AppExits, CandidateExits
<1>3. CASE Initial
  BY <1>3 DEF Initial, InitFault, InitGraph, InitCompile, InitStamp, InitBuild, InitObserve,
              InitPublish, InitSpawn, Fault, Exit, Killed
<1>4. CASE LoopExit \/ Wait \/ Settle
  BY <1>4 DEF LoopExit, Wait, Settle, Exit, Killed
<1>5. CASE RefreshGraph("graph", "compile") \/ RefreshGraph("regraph", "offer")
  BY <1>5 DEF RefreshGraph, Idle
<1>6. CASE Compile \/ Rejected
  BY <1>6 DEF Compile, Rejected, Idle
<1>7. CASE Recheck \/ Confirm
  BY <1>7 DEF Recheck, Confirm
<1>8. CASE Reload \/ NoReload
  BY <1>8 DEF Reload, NoReload, Idle
<1>9. CASE Build
  BY <1>9 DEF Build, Exit, Killed, Idle
<1>10. CASE Observe
  BY <1>10 DEF Observe, Idle
<1>11. CASE Stage \/ Publish \/ Spawn
  BY <1>11 DEF Stage, Publish, Spawn, Idle
<1>12. CASE AwaitReady \/ AwaitFailed \/ Swap
  BY <1>12 DEF AwaitReady, AwaitFailed, Swap, DropCandidate, Idle
<1>13. CASE UNCHANGED vars
  BY <1>13 DEF vars
<1>14. QED
  BY <1>1, <1>2, <1>3, <1>4, <1>5, <1>6, <1>7, <1>8, <1>9, <1>10, <1>11, <1>12, <1>13
  DEF Next, Runner

(* A binary that gets as far as staging compiled exactly the content the    *)
(* runner settled on, if no save was undone: cargo read the disk long after *)
(* the stamps were taken, and build_observation_reuses_snapshot compares    *)
(* the disk once more with what was checked.                                *)
THEOREM BuildMatches == Spec => []BuildMatchesStamps
<1>1. Init => Settled
  <2> SUFFICES ASSUME Init PROVE Settled
    OBVIOUS
  <2>1. IsFiniteSet(saved) /\ Cardinality(saved) = 1
    BY FS_Singleton DEF Init
  <2>2. QED
    BY <2>1 DEF Init, Settled, Counted, Rechecked, Compiled, BuildMatchesStamps
<1>2. Settled => BuildMatchesStamps
  BY DEF Settled
<1>3. QED
  BY <1>1, <1>2, StepSettled, TypeCorrect, PTL DEF Spec
=============================================================================
