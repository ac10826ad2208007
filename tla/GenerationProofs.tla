-------------------------- MODULE GenerationProofs ---------------------------
(***************************************************************************)
(* Publishing a generation is safe, and implements GenerationStore, for    *)
(* every set of builders, directories, roots, texts and renderings.        *)
(*                                                                         *)
(* What commit may skip was validated when the transaction began, so the   *)
(* argument is about what cannot change in between: the lock makes its     *)
(* holder the only one to touch the directory (OneHolder), and each phase  *)
(* of the holder relates its transaction to the files and the manifest     *)
(* (the facts of InPhase).                                                 *)
(***************************************************************************)
EXTENDS GenerationPublish, TLAPS

OneHolder == \A b \in Builder : pc[b] \in Held <=> lock = b

\* What a builder read is below its directory.
ReadsBelow(b) ==
  pc[b] # "idle" =>
    /\ dir[b] \in Directory
    /\ \A r \in Root : src[b][r] # None => DirectoryOf[r] = dir[b]

\* Either the manifest is kept, or it was given up, whole or not.
Sweeping(b) ==
  pc[b] = "sweep" =>
    /\ obsolete[b] = Untracked(mem[b])
    /\ \/ mem[b] = manifest /\ Whole
       \/ mem[b] = Blank

\* Until commit, the directory is exactly what the manifest says.
Recovered(b) ==
  /\ pc[b] \in {"open", "staged"} => files = manifest
  /\ pc[b] = "open" => mem[b] = manifest

\* The new manifest: the directory's roots as read, the others as they were.
Compiled(b) ==
  /\ pc[b] \in {"staged", "replace", "named"} =>
       \A o \in Within(dir[b]) : mem[b][o] = Generated(src[b], o)
  /\ pc[b] \in {"staged", "replace"} =>
       \A o \in Output \ Within(dir[b]) : mem[b][o] = manifest[o]

\* What is neither to be written nor to be removed is in place.
Unstaged(b) ==
  pc[b] \in {"staged", "replace", "named"} =>
    \A o \in Tracked(mem[b]) \ staged[b] : files[o] = mem[b][o]
Removing(b) == pc[b] = "replace" => obsolete[b] = Untracked(mem[b])
Named(b) == pc[b] = "named" => files = manifest /\ mem[b] = manifest

InPhase(b) ==
  /\ Sweeping(b)
  /\ Recovered(b)
  /\ Compiled(b)
  /\ Unstaged(b)
  /\ Removing(b)
  /\ Named(b)

IInv ==
  /\ OneHolder
  /\ StagingIsKept
  /\ \A b \in Builder : ReadsBelow(b)
  /\ \A b \in Builder : InPhase(b)
-----------------------------------------------------------------------------
(***************************************************************************)
(* Type correctness.                                                       *)
(***************************************************************************)

LEMMA BlankType == Blank \in Files /\ NoRoots \in Roots
BY DEF Blank, Files, NoRoots, Roots

\* A root without a text generates nothing, and one with a text what its
\* rendering says.
LEMMA GeneratedType ==
  ASSUME NEW roots \in Roots, NEW o \in Output
  PROVE  Generated(roots, o) \in Content \cup {None}
<1>1. o[1] \in Root /\ o[2] \in Slot
  BY DEF Output
<1>2. CASE roots[o[1]] = None
  BY <1>2 DEF Generated
<1>3. CASE roots[o[1]] # None
  <2>1. roots[o[1]] \in Text
    BY <1>1, <1>3 DEF Roots
  <2>2. QED
    BY <1>1, <1>3, <2>1, SourcesAssumption DEF Generated
<1>4. QED
  BY <1>2, <1>3

\* The manifest a compilation leaves is a manifest, and names what is staged.
LEMMA RecordedType ==
  ASSUME NEW roots \in Roots, NEW m \in Files, NEW d
  PROVE  /\ Recorded(m, d, roots) \in Files
         /\ Changed(m, roots) \subseteq Output
         /\ \A o \in Changed(m, roots) : Recorded(m, d, roots)[o] # None
<1>1. \A o \in Output : Generated(roots, o) \in Content \cup {None}
  BY GeneratedType
<1>2. \A o \in Output : m[o] \in Content \cup {None}
  BY DEF Files
<1>3. Recorded(m, d, roots) \in Files
  BY <1>1, <1>2 DEF Recorded, Files
<1>4. \A o \in Changed(m, roots) : Recorded(m, d, roots)[o] # None
  BY DEF Changed, Recorded, Produced
<1>5. QED
  BY <1>3, <1>4 DEF Changed, Produced

LEMMA PhaseNames ==
  /\ Phases = {"idle", "waiting", "locked", "clean", "sweep", "open", "staged",
               "replace", "named"}
  /\ Held = {"locked", "clean", "sweep", "open", "staged", "replace", "named"}
  /\ Staging = {"open", "staged", "replace", "named"}
BY DEF Phases, Held, Staging

\* The end of a call keeps the types, whatever becomes of the staging
\* directory.
LEMMA EndType ==
  ASSUME TypeOK, NEW b \in Builder, End(b), temps' \subseteq Builder
  PROVE  TypeOK'
BY BlankType, PhaseNames DEF TypeOK, End, Goto, Released

\* Every variable keeps its type in every step of developers and builders; an
\* output is staged only if the manifest to be written names it.
THEOREM TypeCorrect == Spec => []TypeOK
<1>1. Init => TypeOK
  BY BlankType, PhaseNames DEF Init, TypeOK
<1>2. TypeOK /\ [Next]_vars => TypeOK'
  <2>. SUFFICES ASSUME TypeOK, [Next]_vars PROVE TypeOK'
    OBVIOUS
  <2>. USE PhaseNames
  <2>1. CASE UNCHANGED vars
    BY <2>1 DEF TypeOK, vars, shared, reads, tx
  <2>2. ASSUME NEW r \in Root, NEW t \in Text \cup {None}, Edit(r, t)
        PROVE  TypeOK'
    BY <2>2 DEF TypeOK, Edit, Roots, shared, reads, tx
  <2>3. ASSUME NEW b \in Builder, NEW d \in Directory, Scan(b, d)
        PROVE  TypeOK'
    <3>1. [r \in Root |-> IF DirectoryOf[r] = d THEN text[r] ELSE None] \in Roots
      BY DEF TypeOK, Roots
    <3>2. QED
      BY <2>3, <3>1 DEF TypeOK, Scan, Goto, shared, tx
  <2>4. ASSUME NEW b \in Builder, Acquire(b) \/ CleanUp(b) PROVE TypeOK'
    BY <2>4 DEF TypeOK, Acquire, CleanUp, Goto, shared, reads, tx
  <2>5. ASSUME NEW b \in Builder, Load(b) PROVE TypeOK'
    <3>1. PICK kept \in Loaded :
            /\ mem' = [mem EXCEPT ![b] = kept]
            /\ obsolete' = [obsolete EXCEPT ![b] = Untracked(kept)]
      BY <2>5 DEF Load
    <3>2. kept \in Files
      BY BlankType DEF TypeOK, Loaded
    <3>3. Untracked(kept) \subseteq Output
      BY DEF Untracked
    <3>4. QED
      BY <2>5, <3>1, <3>2, <3>3 DEF TypeOK, Load, Goto, shared, reads
  <2>6. ASSUME NEW b \in Builder, Sweep(b) PROVE TypeOK'
    <3>1. \A o \in Output : [files EXCEPT ![o] = None] \in Files
      BY DEF TypeOK, Files
    <3>2. CASE manifest' = Blank /\ UNCHANGED <<files, obsolete>>
      BY <2>6, <3>2, BlankType DEF TypeOK, Sweep, reads
    <3>3. ASSUME NEW o \in obsolete[b], files' = [files EXCEPT ![o] = None],
                 obsolete' = [obsolete EXCEPT ![b] = @ \ {o}],
                 UNCHANGED manifest
          PROVE  TypeOK'
      BY <2>6, <3>1, <3>3 DEF TypeOK, Sweep, reads
    <3>4. QED
      BY <2>6, <3>2, <3>3 DEF Sweep
  <2>7. ASSUME NEW b \in Builder, Open(b) PROVE TypeOK'
    BY <2>7 DEF TypeOK, Open, Goto, reads, tx
  <2>8. ASSUME NEW b \in Builder, Compile(b) PROVE TypeOK'
    <3>. DEFINE m == Recorded(mem[b], dir[b], src[b])
                c == Changed(mem[b], src[b])
    <3>1. /\ m \in Files
          /\ c \subseteq Output
          /\ \A o \in c : m[o] # None
      BY RecordedType DEF TypeOK
    <3>2. mem' = [mem EXCEPT ![b] = m] /\ staged' = [staged EXCEPT ![b] = c]
      BY <2>8 DEF Compile
    <3>. HIDE DEF m, c
    <3>3. QED
      BY <2>8, <3>1, <3>2 DEF TypeOK, Compile, Goto, shared, reads
  <2>9. ASSUME NEW b \in Builder, Commit(b) PROVE TypeOK'
    <3>1. Untracked(mem[b]) \subseteq Output
      BY DEF Untracked
    <3>2. QED
      BY <2>9, <3>1 DEF TypeOK, Commit, Goto, shared, reads
  <2>10. ASSUME NEW b \in Builder, Replace(b) PROVE TypeOK'
    <3>1. PICK o \in staged[b] :
            /\ files' = [files EXCEPT ![o] = mem[b][o]]
            /\ staged' = [staged EXCEPT ![b] = @ \ {o}]
      BY <2>10 DEF Replace
    <3>2. files' \in Files
      BY <3>1 DEF TypeOK, Files
    <3>3. QED
      BY <2>10, <3>1, <3>2 DEF TypeOK, Replace, reads
  <2>11. ASSUME NEW b \in Builder, RemoveObsolete(b) PROVE TypeOK'
    <3>1. PICK o \in obsolete[b] :
            /\ files' = [files EXCEPT ![o] = None]
            /\ obsolete' = [obsolete EXCEPT ![b] = @ \ {o}]
      BY <2>11 DEF RemoveObsolete
    <3>2. files' \in Files
      BY <3>1 DEF TypeOK, Files
    <3>3. QED
      BY <2>11, <3>1, <3>2 DEF TypeOK, RemoveObsolete, reads
  <2>12. ASSUME NEW b \in Builder, WriteManifest(b) PROVE TypeOK'
    BY <2>12 DEF TypeOK, WriteManifest, InPlace, Goto, reads, tx
  <2>13. ASSUME NEW b \in Builder, Finish(b) \/ Fail(b) \/ Crash(b)
         PROVE  TypeOK'
    <3>1. End(b) /\ temps' \subseteq Builder
      BY <2>13 DEF Finish, Fail, Crash, TypeOK
    <3>2. QED
      BY <3>1, EndType
  <2>14. QED
    BY <2>1, <2>2, <2>3, <2>4, <2>5, <2>6, <2>7, <2>8, <2>9, <2>10, <2>11,
       <2>12, <2>13 DEF Next, Step
<1>3. QED
  BY <1>1, <1>2, PTL DEF Spec
-----------------------------------------------------------------------------
(***************************************************************************)
(* The inductive invariant.                                                *)
(***************************************************************************)

LEMMA NotHeld ==
  ASSUME NEW b, pc[b] \notin Held
  PROVE  InPhase(b)
BY PhaseNames DEF InPhase, Sweeping, Recovered, Compiled, Unstaged, Removing,
   Named

\* A step inside a transaction has to account only for its own phase.
LEMMA HolderStep ==
  ASSUME TypeOK, TypeOK', IInv, NEW b \in Builder, NEW p \in Held,
         pc[b] \in Held, pc' = [pc EXCEPT ![b] = p],
         UNCHANGED <<lock, dir, src>>,
         p \in Staging => b \in temps',
         InPhase(b)'
  PROVE  IInv'
<1>. USE PhaseNames
<1>1. lock = b /\ \A c \in Builder \ {b} : pc[c] \notin Held
  BY DEF IInv, OneHolder
<1>2. pc'[b] = p /\ \A c \in Builder \ {b} : pc'[c] = pc[c]
  BY DEF TypeOK
<1>3. OneHolder'
  BY <1>1, <1>2 DEF OneHolder
<1>4. StagingIsKept'
  BY <1>1, <1>2 DEF StagingIsKept
<1>5. \A c \in Builder : ReadsBelow(c)'
  BY <1>2 DEF IInv, ReadsBelow
<1>6. ASSUME NEW c \in Builder PROVE InPhase(c)'
  <2>1. CASE c # b
    BY <2>1, <1>1, <1>2 DEF InPhase, Sweeping, Recovered, Compiled, Unstaged,
       Removing, Named
  <2>2. QED
    BY <2>1
<1>7. QED
  BY <1>3, <1>4, <1>5, <1>6 DEF IInv

\* Of two manifests that name the same files, one is the other.
LEMMA SameFiles ==
  ASSUME NEW f \in Files, NEW g \in Files, \A o \in Output : f[o] = g[o]
  PROVE  f = g
BY DEF Files

LEMMA EditStep ==
  ASSUME IInv, NEW r, NEW t, Edit(r, t)
  PROVE  IInv'
BY DEF Edit, IInv, OneHolder, StagingIsKept, ReadsBelow, InPhase, Sweeping,
   Recovered, Compiled, Unstaged, Removing, Named, Whole, Validates, Tracked,
   Untracked, shared, reads, tx

LEMMA ScanStep ==
  ASSUME TypeOK, IInv, NEW b \in Builder, NEW d \in Directory, Scan(b, d)
  PROVE  IInv'
<1>. USE PhaseNames
<1>1. /\ pc'[b] = "waiting" /\ pc[b] = "idle"
      /\ \A c \in Builder \ {b} :
           pc'[c] = pc[c] /\ dir'[c] = dir[c] /\ src'[c] = src[c]
      /\ UNCHANGED <<lock, shared, tx>>
  BY DEF Scan, Goto, TypeOK
<1>2. dir'[b] = d /\ src'[b] = [r \in Root |->
                                  IF DirectoryOf[r] = d THEN text[r] ELSE None]
  BY DEF Scan, TypeOK
<1>3. OneHolder' /\ StagingIsKept'
  BY <1>1 DEF IInv, OneHolder, StagingIsKept, shared
<1>4. \A c \in Builder : ReadsBelow(c)'
  BY <1>1, <1>2 DEF IInv, ReadsBelow
<1>5. ASSUME NEW c \in Builder PROVE InPhase(c)'
  <2>1. CASE c # b
    BY <1>1, <2>1 DEF IInv, InPhase, Sweeping, Recovered, Compiled, Unstaged,
       Removing, Named, Whole, Validates, Tracked, Untracked, shared, tx
  <2>2. CASE c = b
    BY <1>1, <2>2 DEF InPhase, Sweeping, Recovered, Compiled, Unstaged,
       Removing, Named
  <2>3. QED
    BY <2>1, <2>2
<1>6. QED
  BY <1>3, <1>4, <1>5 DEF IInv

LEMMA AcquireStep ==
  ASSUME TypeOK, IInv, NEW b \in Builder, Acquire(b)
  PROVE  IInv'
<1>. USE PhaseNames
<1>1. /\ lock = None /\ lock' = b /\ pc[b] = "waiting" /\ pc'[b] = "locked"
      /\ \A c \in Builder \ {b} : pc'[c] = pc[c]
      /\ UNCHANGED <<shared, reads, tx>>
  BY DEF Acquire, LockFree, Goto, TypeOK
<1>2. \A c \in Builder : pc[c] \notin Held
  BY <1>1, NoneAssumption DEF IInv, OneHolder
<1>3. OneHolder' /\ StagingIsKept'
  BY <1>1, <1>2 DEF OneHolder, StagingIsKept
<1>4. \A c \in Builder : ReadsBelow(c)'
  BY <1>1 DEF IInv, ReadsBelow, reads
<1>5. \A c \in Builder : InPhase(c)'
  BY <1>1, <1>2 DEF InPhase, Sweeping, Recovered, Compiled, Unstaged,
     Removing, Named
<1>6. QED
  BY <1>3, <1>4, <1>5 DEF IInv

\* The end of a call, at whatever point: nobody else is in a transaction.
LEMMA EndStep ==
  ASSUME TypeOK, IInv, NEW b \in Builder, pc[b] # "idle", End(b),
         temps' \in {temps, temps \ {b}}
  PROVE  IInv'
<1>. USE PhaseNames
<1>1. /\ pc'[b] = "idle" /\ lock' = (IF lock = b THEN None ELSE lock)
      /\ \A c \in Builder \ {b} :
           /\ pc'[c] = pc[c] /\ dir'[c] = dir[c] /\ src'[c] = src[c]
           /\ mem'[c] = mem[c] /\ staged'[c] = staged[c]
           /\ obsolete'[c] = obsolete[c]
      /\ UNCHANGED <<files, manifest>>
  BY DEF End, Goto, Released, TypeOK
<1>2. OneHolder' /\ StagingIsKept'
  BY <1>1, NoneAssumption DEF IInv, OneHolder, StagingIsKept
<1>3. \A c \in Builder : ReadsBelow(c)'
  BY <1>1 DEF IInv, ReadsBelow
<1>4. ASSUME NEW c \in Builder PROVE InPhase(c)'
  <2>1. CASE c # b
    BY <1>1, <2>1 DEF IInv, InPhase, Sweeping, Recovered, Compiled, Unstaged,
       Removing, Named, Whole, Validates, Tracked, Untracked
  <2>2. CASE c = b
    BY <1>1, <2>2 DEF InPhase, Sweeping, Recovered, Compiled, Unstaged,
       Removing, Named
  <2>3. QED
    BY <2>1, <2>2
<1>5. QED
  BY <1>2, <1>3, <1>4 DEF IInv
-----------------------------------------------------------------------------
(***************************************************************************)
(* The steps of a transaction.                                             *)
(***************************************************************************)

LEMMA CleanUpStep ==
  ASSUME TypeOK, TypeOK', IInv, NEW b \in Builder, CleanUp(b)
  PROVE  IInv'
<1>. USE PhaseNames
<1>1. pc' = [pc EXCEPT ![b] = "clean"] /\ pc[b] \in Held
  BY DEF CleanUp, Goto
<1>2. InPhase(b)'
  BY <1>1 DEF TypeOK, InPhase, Sweeping, Recovered, Compiled, Unstaged,
     Removing, Named
<1>3. QED
  BY <1>1, <1>2, HolderStep DEF CleanUp, reads

LEMMA LoadStep ==
  ASSUME TypeOK, TypeOK', IInv, NEW b \in Builder, Load(b)
  PROVE  IInv'
<1>. USE PhaseNames
<1>1. PICK kept \in Loaded :
        /\ mem' = [mem EXCEPT ![b] = kept]
        /\ obsolete' = [obsolete EXCEPT ![b] = Untracked(kept)]
  BY DEF Load
<1>2. /\ pc' = [pc EXCEPT ![b] = "sweep"] /\ pc[b] = "clean"
      /\ pc'[b] = "sweep" /\ mem'[b] = kept
      /\ obsolete'[b] = Untracked(kept) /\ UNCHANGED <<files, manifest>>
  BY <1>1 DEF Load, Goto, TypeOK, shared
<1>3. (kept = manifest /\ Whole) \/ kept = Blank
  BY DEF Loaded, Whole
<1>4. Sweeping(b)'
  BY <1>2, <1>3 DEF Sweeping, Untracked, Whole, Validates, Tracked
<1>5. InPhase(b)'
  BY <1>2, <1>4 DEF InPhase, Recovered, Compiled, Unstaged, Removing, Named
<1>6. QED
  BY <1>2, <1>5, HolderStep DEF Load, reads

\* A removed file was named by no manifest that is kept.
LEMMA SweepStep ==
  ASSUME TypeOK, TypeOK', IInv, NEW b \in Builder, Sweep(b)
  PROVE  IInv'
<1>. USE PhaseNames
<1>1. /\ pc[b] = "sweep" /\ pc'[b] = "sweep" /\ mem'[b] = mem[b]
      /\ pc' = [pc EXCEPT ![b] = "sweep"]
  BY DEF Sweep, TypeOK
<1>2. Sweeping(b)
  BY DEF IInv, InPhase
<1>3. Sweeping(b)'
  <2>1. CASE manifest # mem[b] /\ manifest' = Blank
               /\ UNCHANGED <<files, obsolete>>
    BY <1>1, <1>2, <2>1 DEF Sweeping, Untracked, Whole, Validates, Tracked,
       Blank
  <2>2. ASSUME NEW o \in obsolete[b], files' = [files EXCEPT ![o] = None],
               obsolete' = [obsolete EXCEPT ![b] = @ \ {o}],
               UNCHANGED manifest
        PROVE  Sweeping(b)'
    <3>1. obsolete[b] = Untracked(mem[b])
      BY <1>1, <1>2 DEF Sweeping
    <3>2. \A x \in Output : files'[x] = IF x = o THEN None ELSE files[x]
      BY <2>2, <3>1 DEF TypeOK, Files, Untracked
    <3>3. obsolete'[b] = Untracked(mem[b])'
      BY <1>1, <2>2, <3>1, <3>2 DEF TypeOK, Untracked
    <3>4. CASE mem[b] = manifest /\ Whole
      <4>1. manifest[o] = None
        BY <3>1, <3>4 DEF Untracked
      <4>2. Whole'
        BY <2>2, <3>2, <3>4, <4>1 DEF Whole, Validates, Tracked
      <4>3. QED
        BY <1>1, <2>2, <3>3, <3>4, <4>2 DEF Sweeping
    <3>5. CASE mem[b] = Blank
      BY <1>1, <3>3, <3>5 DEF Sweeping
    <3>6. QED
      BY <1>1, <1>2, <3>4, <3>5 DEF Sweeping
  <2>3. QED
    BY <2>1, <2>2 DEF Sweep
<1>4. InPhase(b)'
  BY <1>1, <1>3 DEF InPhase, Recovered, Compiled, Unstaged, Removing, Named
<1>5. QED
  BY <1>1, <1>4, HolderStep DEF Sweep, reads

\* Once swept, the directory is exactly what the manifest names.
LEMMA OpenStep ==
  ASSUME TypeOK, TypeOK', IInv, NEW b \in Builder, Open(b)
  PROVE  IInv'
<1>. USE PhaseNames
<1>1. /\ pc[b] = "sweep" /\ pc'[b] = "open"
      /\ pc' = [pc EXCEPT ![b] = "open"]
      /\ obsolete[b] = {} /\ mem[b] = manifest
      /\ UNCHANGED <<files, manifest, mem>>
  BY DEF Open, Goto, TypeOK, tx
<1>2. Untracked(manifest) = {} /\ Whole
  <2>1. Sweeping(b)
    BY DEF IInv, InPhase
  <2>2. manifest = Blank => Whole
    BY DEF Whole, Validates, Tracked, Blank
  <2>3. QED
    BY <1>1, <2>1, <2>2 DEF Sweeping
<1>3. \A o \in Output : files[o] = manifest[o]
  BY <1>2 DEF Untracked, Whole, Validates, Tracked
<1>4. files = manifest
  BY <1>3, SameFiles DEF TypeOK
<1>5. InPhase(b)'
  BY <1>1, <1>4 DEF InPhase, Sweeping, Recovered, Compiled, Unstaged, Removing,
     Named
<1>6. b \in temps'
  BY DEF Open
<1>7. QED
  BY <1>1, <1>5, <1>6, HolderStep DEF Open, reads

\* The manifest of the new generation: of the directory, what was read; of the
\* others, what was there.  What it does not stage is on disk.
LEMMA CompileStep ==
  ASSUME TypeOK, TypeOK', IInv, NEW b \in Builder, Compile(b)
  PROVE  IInv'
<1>. USE PhaseNames
<1>1. /\ pc[b] = "open" /\ pc'[b] = "staged"
      /\ pc' = [pc EXCEPT ![b] = "staged"]
      /\ mem'[b] = Recorded(mem[b], dir[b], src[b])
      /\ staged'[b] = Changed(mem[b], src[b])
      /\ UNCHANGED <<files, manifest, temps, dir, src>>
  BY DEF Compile, Goto, TypeOK, shared, reads
<1>2. files = manifest /\ mem[b] = manifest
  BY <1>1 DEF IInv, InPhase, Recovered
<1>3. \A r \in Root : src[b][r] # None => DirectoryOf[r] = dir[b]
  BY <1>1 DEF IInv, ReadsBelow
<1>4. \A o \in Within(dir[b]) : mem'[b][o] = Generated(src[b], o)
  BY <1>1 DEF Within, Recorded, Produced, Stale
<1>5. ASSUME NEW o \in Output \ Within(dir[b])
      PROVE  mem'[b][o] = manifest[o]
  <2>1. o[1] \in Root /\ DirectoryOf[o[1]] # dir[b]
    BY <1>5 DEF Output, Within
  <2>2. src[b][o[1]] = None
    BY <1>3, <2>1
  <2>3. QED
    BY <1>1, <1>2, <2>1, <2>2 DEF Recorded, Produced, Stale, Generated
<1>6. \A o \in Tracked(mem'[b]) \ staged'[b] : files[o] = mem'[b][o]
  BY <1>1, <1>2 DEF Tracked, Recorded, Changed
<1>7. InPhase(b)'
  <2>1. Compiled(b)'
    BY <1>1, <1>4, <1>5 DEF Compiled, Within, Generated
  <2>2. Unstaged(b)'
    BY <1>1, <1>6 DEF Unstaged, Tracked
  <2>3. QED
    BY <1>1, <1>2, <2>1, <2>2 DEF InPhase, Sweeping, Recovered, Removing, Named
<1>8. b \in temps'
  BY <1>1 DEF IInv, StagingIsKept
<1>9. QED
  BY <1>1, <1>7, <1>8, HolderStep DEF Compile, reads

\* With nothing staged, nothing untracked and the same manifest, the directory
\* is the new generation already, and may be left as it is.
LEMMA CommitStep ==
  ASSUME TypeOK, TypeOK', IInv, NEW b \in Builder, Commit(b)
  PROVE  IInv'
<1>. USE PhaseNames
<1>. DEFINE same == staged[b] = {} /\ Untracked(mem[b]) = {} /\ mem[b] = manifest
<1>0. PICK p \in {"replace", "named"} :
        (p = "named" => same) /\ pc' = [pc EXCEPT ![b] = p]
  BY DEF Commit, Goto
<1>1. /\ pc[b] = "staged" /\ pc'[b] = p /\ pc' = [pc EXCEPT ![b] = p]
      /\ obsolete'[b] = Untracked(mem[b])
      /\ UNCHANGED <<files, manifest, temps, dir, src, mem, staged>>
  BY <1>0 DEF Commit, TypeOK, shared, reads
<1>2. files = manifest /\ Compiled(b) /\ Unstaged(b)
  BY <1>1 DEF IInv, InPhase, Recovered
<1>3. InPhase(b)'
  <2>1. Compiled(b)' /\ Unstaged(b)'
    BY <1>1, <1>2 DEF Compiled, Unstaged, Within, Generated, Tracked
  <2>2. Removing(b)' /\ Named(b)'
    BY <1>0, <1>1, <1>2 DEF Removing, Named, Untracked
  <2>3. QED
    BY <1>1, <2>1, <2>2 DEF InPhase, Sweeping, Recovered
<1>4. b \in temps'
  BY <1>1 DEF IInv, StagingIsKept
<1>5. QED
  BY <1>1, <1>3, <1>4, HolderStep DEF Commit, reads

LEMMA ReplaceStep ==
  ASSUME TypeOK, TypeOK', IInv, NEW b \in Builder, Replace(b)
  PROVE  IInv'
<1>. USE PhaseNames
<1>1. /\ pc[b] = "replace" /\ pc'[b] = "replace"
      /\ pc' = [pc EXCEPT ![b] = "replace"]
      /\ UNCHANGED <<manifest, temps, dir, src, mem, obsolete>>
  BY DEF Replace, TypeOK, reads
<1>2. PICK o \in staged[b] :
        /\ files' = [files EXCEPT ![o] = mem[b][o]]
        /\ staged' = [staged EXCEPT ![b] = @ \ {o}]
  BY DEF Replace
<1>3. /\ o \in Output /\ mem[b][o] # None
      /\ staged'[b] = staged[b] \ {o}
      /\ \A x \in Output : files'[x] = IF x = o THEN mem[b][o] ELSE files[x]
  BY <1>2 DEF TypeOK, Files
<1>4. Compiled(b) /\ Unstaged(b) /\ Removing(b)
  BY DEF IInv, InPhase
<1>5. InPhase(b)'
  <2>1. Compiled(b)'
    BY <1>1, <1>4 DEF Compiled, Within, Generated
  <2>2. Unstaged(b)'
    BY <1>1, <1>3, <1>4 DEF Unstaged, Tracked
  <2>3. Removing(b)'
    BY <1>1, <1>3, <1>4 DEF Removing, Untracked
  <2>4. QED
    BY <1>1, <2>1, <2>2, <2>3 DEF InPhase, Sweeping, Recovered, Named
<1>6. b \in temps'
  BY <1>1 DEF IInv, StagingIsKept
<1>7. QED
  BY <1>1, <1>5, <1>6, HolderStep DEF Replace, reads

LEMMA RemoveStep ==
  ASSUME TypeOK, TypeOK', IInv, NEW b \in Builder, RemoveObsolete(b)
  PROVE  IInv'
<1>. USE PhaseNames
<1>1. /\ pc[b] = "replace" /\ pc'[b] = "replace"
      /\ pc' = [pc EXCEPT ![b] = "replace"]
      /\ UNCHANGED <<manifest, temps, dir, src, mem, staged>>
  BY DEF RemoveObsolete, TypeOK, reads
<1>2. PICK o \in obsolete[b] :
        /\ files' = [files EXCEPT ![o] = None]
        /\ obsolete' = [obsolete EXCEPT ![b] = @ \ {o}]
  BY DEF RemoveObsolete
<1>3. Compiled(b) /\ Unstaged(b) /\ Removing(b)
  BY DEF IInv, InPhase
<1>4. /\ o \in Output /\ mem[b][o] = None
      /\ obsolete'[b] = obsolete[b] \ {o}
      /\ \A x \in Output : files'[x] = IF x = o THEN None ELSE files[x]
  BY <1>1, <1>2, <1>3 DEF TypeOK, Files, Removing, Untracked
<1>5. InPhase(b)'
  <2>1. Compiled(b)'
    BY <1>1, <1>3 DEF Compiled, Within, Generated
  <2>2. Unstaged(b)'
    BY <1>1, <1>3, <1>4 DEF Unstaged, Tracked
  <2>3. Removing(b)'
    BY <1>1, <1>3, <1>4 DEF Removing, Untracked
  <2>4. QED
    BY <1>1, <2>1, <2>2, <2>3 DEF InPhase, Sweeping, Recovered, Named
<1>6. b \in temps'
  BY <1>1 DEF IInv, StagingIsKept
<1>7. QED
  BY <1>1, <1>5, <1>6, HolderStep DEF RemoveObsolete, reads

\* With every output in place, the directory is what the new manifest says.
LEMMA InPlaceIsWritten ==
  ASSUME TypeOK, IInv, NEW b \in Builder, WriteManifest(b)
  PROVE  files = mem[b]
<1>1. pc[b] = "replace" /\ staged[b] = {} /\ obsolete[b] = {}
  BY DEF WriteManifest, InPlace
<1>2. Unstaged(b) /\ Removing(b)
  BY DEF IInv, InPhase
<1>3. \A o \in Output : files[o] = mem[b][o]
  BY <1>1, <1>2 DEF Unstaged, Removing, Tracked, Untracked
<1>4. QED
  BY <1>3, SameFiles DEF TypeOK

LEMMA WriteStep ==
  ASSUME TypeOK, TypeOK', IInv, NEW b \in Builder, WriteManifest(b)
  PROVE  IInv'
<1>. USE PhaseNames
<1>1. /\ pc[b] = "replace" /\ pc'[b] = "named"
      /\ pc' = [pc EXCEPT ![b] = "named"]
      /\ manifest' = mem[b]
      /\ UNCHANGED <<files, temps, dir, src, mem, staged>>
  BY DEF WriteManifest, Goto, TypeOK, reads, tx
<1>2. files = mem[b]
  BY InPlaceIsWritten
<1>3. InPhase(b)'
  <2>1. Compiled(b)' /\ Unstaged(b)'
    BY <1>1, <1>2 DEF IInv, InPhase, Compiled, Unstaged, Within, Generated,
       Tracked
  <2>2. QED
    BY <1>1, <1>2, <2>1 DEF InPhase, Sweeping, Recovered, Removing, Named
<1>4. b \in temps'
  BY <1>1 DEF IInv, StagingIsKept
<1>5. QED
  BY <1>1, <1>3, <1>4, HolderStep DEF WriteManifest, reads
-----------------------------------------------------------------------------
(***************************************************************************)
(* Safety.                                                                 *)
(***************************************************************************)

LEMMA InitInv == Init => IInv
<1>. SUFFICES ASSUME Init PROVE IInv
  OBVIOUS
<1>1. \A b \in Builder : pc[b] = "idle" /\ lock = None
  BY DEF Init
<1>2. QED
  BY <1>1, PhaseNames, NoneAssumption DEF IInv, OneHolder, StagingIsKept,
     ReadsBelow, InPhase, Sweeping, Recovered, Compiled, Unstaged, Removing,
     Named

LEMMA NextInv ==
  ASSUME TypeOK, TypeOK', IInv, [Next]_vars
  PROVE  IInv'
<1>1. CASE UNCHANGED vars
  BY <1>1 DEF vars, shared, reads, tx, IInv, OneHolder, StagingIsKept,
     ReadsBelow, InPhase, Sweeping, Recovered, Compiled, Unstaged, Removing,
     Named, Whole, Validates, Tracked, Untracked, Generated, Within
<1>2. ASSUME NEW b \in Builder, Finish(b) \/ Fail(b) \/ Crash(b)
      PROVE  IInv'
  <2>1. /\ pc[b] # "idle" /\ End(b)
        /\ temps' \in {temps, temps \ {b}}
    BY <1>2, PhaseNames DEF Finish, Fail, Crash
  <2>2. QED
    BY <2>1, EndStep
<1>3. QED
  BY <1>1, <1>2, EditStep, ScanStep, AcquireStep, CleanUpStep, LoadStep,
     SweepStep, OpenStep, CompileStep, CommitStep, ReplaceStep, RemoveStep,
     WriteStep DEF Next, Step

LEMMA Invariance == Spec => [](TypeOK /\ IInv)
<1>1. IInv /\ TypeOK /\ TypeOK' /\ [Next]_vars => IInv'
  BY NextInv
<1>2. QED
  BY <1>1, InitInv, TypeCorrect, PTL DEF Spec

\* No process takes a live transaction's staging directory for one that a
\* crash left behind.
THEOREM StagingKept == Spec => []StagingIsKept
<1>1. IInv => StagingIsKept
  BY DEF IInv
<1>2. QED
  BY <1>1, Invariance, PTL

\* What commit leaves as it was has the content the new manifest records.
THEOREM UnstagedInPlace == Spec => []UnstagedIsInPlace
<1>1. IInv => UnstagedIsInPlace
  BY DEF IInv, InPhase, Unstaged, UnstagedIsInPlace
<1>2. QED
  BY <1>1, Invariance, PTL

\* A successful call leaves exactly the files its manifest names, and of its
\* directory exactly what the roots it read generate.
THEOREM PublishedAsRead == Spec => []PublishedIsWhatWasRead
<1>1. IInv => PublishedIsWhatWasRead
  BY PhaseNames DEF IInv, InPhase, Named, Compiled, PublishedIsWhatWasRead
<1>2. QED
  BY <1>1, Invariance, PTL
-----------------------------------------------------------------------------
(***************************************************************************)
(* GenerationPublish implements GenerationStore.                           *)
(***************************************************************************)

\* Of the builders, only the lock's holder can be replacing the generation.
LEMMA WriterIsHolder ==
  ASSUME IInv
  PROVE  /\ \A b \in Builder : Replacing(b) => Writer = b
         /\ (\A b \in Builder : ~Replacing(b)) => Writer = None
<1>1. \A b, c \in Builder : Replacing(b) /\ Replacing(c) => b = c
  BY PhaseNames DEF IInv, OneHolder, Replacing
<1>2. QED
  BY <1>1 DEF Writer

\* A step that leaves the manifest, and whether it validates, and in which
\* nobody was or is replacing the generation is a stutter of the store.
LEMMA QuietStep ==
  ASSUME IInv, IInv', manifest' = manifest, Whole' = Whole,
         \A b \in Builder : Replacing(b)' <=> Replacing(b)
  PROVE  UNCHANGED Store!vars
<1>1. Writer' = Writer
  <2>1. CASE \A b \in Builder : ~Replacing(b)
    <3>1. Writer = None
      BY <2>1, WriterIsHolder
    <3>2. Writer' = None
      BY <2>1 DEF Writer
    <3>3. QED
      BY <3>1, <3>2
  <2>2. ASSUME NEW b \in Builder, Replacing(b)
        PROVE  Writer' = Writer
    <3>1. Writer = b
      BY <2>2, WriterIsHolder
    <3>2. \A c \in Builder : Replacing(c)' => c = b
      BY <2>2, PhaseNames DEF IInv, OneHolder, Replacing
    <3>3. Replacing(b)'
      BY <2>2
    <3>4. Writer' = b
      BY <3>2, <3>3 DEF Writer
    <3>5. QED
      BY <3>1, <3>4
  <2>3. QED
    BY <2>1, <2>2
<1>2. QED
  BY <1>1 DEF Store!vars

\* While its holder moves files, the store is being replaced by the holder.
LEMMA FilesStep ==
  ASSUME TypeOK, IInv, IInv', NEW b \in Builder,
         Replace(b) \/ RemoveObsolete(b)
  PROVE  [Store!Next]_Store!vars
<1>. USE PhaseNames
<1>1. /\ pc[b] = "replace" /\ pc' = pc /\ manifest' = manifest
      /\ dir[b] \in Directory
  BY DEF Replace, RemoveObsolete, IInv, ReadsBelow
<1>2. CASE Whole' = Whole
  BY <1>1, <1>2, QuietStep DEF Replacing
<1>3. CASE Whole /\ ~Whole'
  <2>1. Replacing(b)' /\ \A c \in Builder : Replacing(c)' => c = b
    BY <1>1, <1>3 DEF IInv, OneHolder, Replacing
  <2>2. Writer' = b
    BY <2>1 DEF Writer
  <2>3. Store!Unsettle(b)
    BY <1>1, <1>3, <2>2 DEF Store!Unsettle
  <2>4. QED
    BY <2>3 DEF Store!Next
<1>4. CASE ~Whole /\ Whole'
  <2>1. Writer = b
    BY <1>1, <1>4, WriterIsHolder DEF Replacing
  <2>2. Writer' = None
    BY <1>4 DEF Writer, Replacing
  <2>3. Store!Publish(b, dir[b])
    BY <1>1, <1>4, <2>1, <2>2 DEF Store!Publish, TypeOK, Files
  <2>4. QED
    BY <1>1, <2>3 DEF Store!Next
<1>5. QED
  BY <1>2, <1>3, <1>4 DEF Whole, Validates

\* The manifest makes it a generation again: the directory's roots as read,
\* the others as they were.
LEMMA ManifestStep ==
  ASSUME TypeOK, TypeOK', IInv, IInv', NEW b \in Builder, WriteManifest(b)
  PROVE  [Store!Next]_Store!vars
<1>. USE PhaseNames
<1>1. /\ pc[b] = "replace" /\ pc'[b] = "named" /\ manifest' = mem[b]
      /\ files' = files /\ dir[b] \in Directory
  BY DEF WriteManifest, Goto, TypeOK, IInv, ReadsBelow
<1>2. Whole'
  BY <1>1, InPlaceIsWritten DEF Whole, Validates
<1>3. Whole \/ Writer = b
  BY <1>1, WriterIsHolder DEF Replacing
<1>4. Writer' = None
  BY <1>2 DEF Writer, Replacing
<1>5. \A o \in Output \ Within(dir[b]) : manifest'[o] = manifest[o]
  BY <1>1 DEF IInv, InPhase, Compiled
<1>6. Store!Publish(b, dir[b])
  BY <1>2, <1>3, <1>4, <1>5 DEF Store!Publish, TypeOK, Files
<1>7. QED
  BY <1>1, <1>6 DEF Store!Next

\* A file removed before a transaction starts was of no generation, or of one
\* that was given up; and the manifest goes only when it was given up.
LEMMA RecoveryStep ==
  ASSUME TypeOK, TypeOK', IInv, IInv', NEW b \in Builder, Sweep(b)
  PROVE  [Store!Next]_Store!vars
<1>. USE PhaseNames
<1>1. pc[b] = "sweep" /\ pc' = pc /\ mem' = mem /\ lock = b
  BY DEF Sweep, IInv, OneHolder
<1>2. \A c \in Builder : ~Replacing(c) /\ ~Replacing(c)'
  BY <1>1 DEF IInv, OneHolder, Replacing
<1>3. Writer = None /\ Writer' = None
  BY <1>2 DEF Writer
<1>4. Sweeping(b) /\ Sweeping(b)'
  BY DEF IInv, InPhase
<1>5. CASE manifest' = manifest
  <2>1. CASE Whole' = Whole
    BY <1>2, <1>5, <2>1, QuietStep
  <2>2. CASE Whole /\ ~Whole'
    <3>1. Store!Abandon
      BY <1>3, <1>5, <2>2 DEF Store!Abandon
    <3>2. QED
      BY <3>1 DEF Store!Next
  <2>3. CASE ~Whole /\ Whole'
    <3>1. \A x \in Output : files'[x] = None \/ files'[x] = files[x]
      BY <2>3 DEF Sweep, TypeOK, Files
    <3>2. \A x \in Tracked(manifest) : files'[x] = manifest[x]
      BY <1>5, <2>3 DEF Whole, Validates, Tracked
    <3>3. Whole
      BY <3>1, <3>2 DEF Whole, Validates, Tracked
    <3>4. QED
      BY <2>3, <3>3
  <2>4. QED
    BY <2>1, <2>2, <2>3 DEF Whole, Validates
<1>6. CASE manifest' # manifest
  <2>1. manifest # mem[b] /\ manifest' = Blank
    BY <1>6 DEF Sweep
  <2>2. Whole'
    BY <2>1 DEF Whole, Validates, Tracked, Blank
  <2>3. Store!Discard
    BY <1>3, <2>1, <2>2 DEF Store!Discard, Store!Blank, Blank
  <2>4. QED
    BY <2>3 DEF Store!Next
<1>7. QED
  BY <1>5, <1>6

\* A commit that ends half way is an interruption; any other end is nothing.
LEMMA AbortStep ==
  ASSUME TypeOK, IInv, IInv', NEW b \in Builder,
         Finish(b) \/ Fail(b) \/ Crash(b)
  PROVE  [Store!Next]_Store!vars
<1>. USE PhaseNames
<1>1. /\ manifest' = manifest /\ Whole' = Whole /\ pc'[b] = "idle"
      /\ \A c \in Builder \ {b} : pc'[c] = pc[c]
  BY DEF Finish, Fail, Crash, End, Goto, TypeOK, Whole, Validates, Tracked
<1>2. CASE Replacing(b)
  <2>1. Writer = b
    BY <1>2, WriterIsHolder
  <2>2. \A c \in Builder : ~Replacing(c)'
    BY <1>1, <1>2 DEF Replacing, IInv, OneHolder
  <2>3. Writer' = None
    BY <2>2 DEF Writer
  <2>4. Store!Interrupt
    BY <1>1, <1>2, <2>1, <2>3, NoneAssumption DEF Store!Interrupt, Replacing
  <2>5. QED
    BY <2>4 DEF Store!Next
<1>3. CASE ~Replacing(b)
  BY <1>1, <1>3, QuietStep DEF Replacing
<1>4. QED
  BY <1>2, <1>3

\* Before its commit moves a file, a builder changes nothing of the store.
LEMMA OtherStep ==
  ASSUME TypeOK, IInv, IInv', NEW b \in Builder,
         \/ \E d \in Directory : Scan(b, d)
         \/ Acquire(b) \/ CleanUp(b) \/ Load(b) \/ Open(b)
         \/ Compile(b) \/ Commit(b)
  PROVE  UNCHANGED Store!vars
<1>. USE PhaseNames
<1>1. /\ files' = files /\ manifest' = manifest
      /\ pc[b] # "replace"
      /\ \A c \in Builder \ {b} : pc'[c] = pc[c]
  BY DEF Scan, Acquire, CleanUp, Load, Open, Compile, Commit, Goto, shared,
     TypeOK
<1>2. Whole' = Whole
  BY <1>1 DEF Whole, Validates, Tracked
<1>3. pc'[b] = "replace" => Whole
  <2>1. CASE Commit(b)
    <3>1. files = manifest
      BY <2>1 DEF Commit, IInv, InPhase, Recovered
    <3>2. QED
      BY <3>1 DEF Whole, Validates
  <2>2. CASE ~Commit(b)
    BY <2>2 DEF Scan, Acquire, CleanUp, Load, Open, Compile, Goto, TypeOK
  <2>3. QED
    BY <2>1, <2>2
<1>4. \A c \in Builder : Replacing(c)' <=> Replacing(c)
  BY <1>1, <1>2, <1>3 DEF Replacing
<1>5. QED
  BY <1>1, <1>2, <1>4, QuietStep

LEMMA StoreStep ==
  ASSUME TypeOK, TypeOK', IInv, IInv', [Next]_vars
  PROVE  [Store!Next]_Store!vars
<1>1. CASE UNCHANGED vars \/ \E r \in Root, t \in Text \cup {None} : Edit(r, t)
  <2>1. UNCHANGED <<files, manifest, pc>>
    BY <1>1 DEF vars, shared, Edit
  <2>2. QED
    BY <2>1, QuietStep DEF Replacing, Whole, Validates, Tracked
<1>2. QED
  BY <1>1, OtherStep, RecoveryStep, FilesStep, ManifestStep, AbortStep
     DEF Next, Step

LEMMA StoreInit == Init => Store!Init
<1>. SUFFICES ASSUME Init PROVE Store!Init
  OBVIOUS
<1>1. Whole
  BY DEF Init, Whole, Validates, Tracked, Blank
<1>2. Writer = None
  BY <1>1 DEF Writer, Replacing
<1>3. QED
  BY <1>1, <1>2 DEF Init, Store!Init, Store!Blank, Blank

\* For those who look at the directory from outside, generations follow each
\* other at once, whatever builders do, fail at or are killed in; a commit
\* keeps other directories' outputs; and what was interrupted, or cannot be read,
\* is discarded as a whole, never while a builder is replacing it.
THEOREM Implements == Spec => ImplementsStore
<1>1. TypeOK /\ IInv /\ TypeOK' /\ IInv' /\ [Next]_vars
        => [Store!Next]_Store!vars
  BY StoreStep
<1>2. QED
  BY <1>1, StoreInit, Invariance, PTL DEF Spec, ImplementsStore, Store!Spec
=============================================================================
