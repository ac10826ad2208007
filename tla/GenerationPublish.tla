-------------------------- MODULE GenerationPublish --------------------------
(***************************************************************************)
(* How a build script publishes the Rust generated from Ice sources:       *)
(* ui_lang_build::compile_dir reads the roots below a directory, takes the *)
(* generation lock, repairs what an earlier process left, compiles into a  *)
(* staging directory, and moves the changed outputs into place one file at *)
(* a time, the manifest last.                                              *)
(*                                                                         *)
(* Builders are processes that may run at the same time, compile different *)
(* directories into one OUT_DIR (examples/showcase/build.rs does), fail at *)
(* any call, or be killed between any two of them.  Every change of the    *)
(* shared directory is a step of its own.  A digest is modelled by the     *)
(* content it is taken of.                                                 *)
(***************************************************************************)
EXTENDS FiniteSets

CONSTANTS
  Builder,      \* processes that run a build script
  Directory,    \* source directories compile_dir is called with
  Root,         \* paths of app and daemon sources
  DirectoryOf,  \* the source directory a root is below
  Text,         \* contents a root can have
  Failing,      \* those that do not compile
  Slot,         \* files one root is split into: its own and one per group
  Main,         \* the root's own file
  Content,      \* contents of a generated file
  Rendering,    \* what a text generates: a content, or None, for each slot
  None          \* absence of a source, an output or a lock holder

ASSUME SourcesAssumption ==
  /\ DirectoryOf \in [Root -> Directory]
  /\ Failing \subseteq Text
  /\ Main \in Slot
  /\ Rendering \in [Text -> [Slot -> Content \cup {None}]]
  /\ \A t \in Text : Rendering[t][Main] # None

ASSUME NoneAssumption ==
  /\ None \notin Text
  /\ None \notin Content
  /\ None \notin Builder

\* A file name is the digest of the root's path and the slot, so it names both.
Output == Root \X Slot
Files == [Output -> Content \cup {None}]
Blank == [o \in Output |-> None]
Within(d) == {o \in Output : DirectoryOf[o[1]] = d}

VARIABLES
  text,      \* what the source files hold now
  files,     \* the .rs files of the generated directory
  manifest,  \* the manifest there; Blank if there is none
  temps,     \* whose transaction directories are left there
  lock,      \* who holds .generation.lock
  pc,        \* where each builder is
  dir,       \* the directory it compiles
  src,       \* the roots it read
  mem,       \* its transaction's manifest
  staged,    \* outputs in its staging directory still to be put in place
  obsolete   \* outputs it has still to remove

shared == <<files, manifest, temps>>
reads  == <<dir, src>>
tx     == <<mem, staged, obsolete>>
vars   == <<text, shared, lock, pc, reads, tx>>

Phases ==
  {"idle", "waiting", "locked", "clean", "sweep", "open", "staged", "replace",
   "named"}

\* The phases in which a GenerationTransaction, or its lock, is alive.
Held == Phases \ {"idle", "waiting"}

\* The phases in which the transaction's staging directory is in use.
Staging == {"open", "staged", "replace", "named"}

Roots == [Root -> Text \cup {None}]
NoRoots == [r \in Root |-> None]

TypeOK ==
  /\ text \in Roots
  /\ files \in Files
  /\ manifest \in Files
  /\ temps \subseteq Builder
  /\ lock \in Builder \cup {None}
  /\ pc \in [Builder -> Phases]
  /\ dir \in [Builder -> Directory \cup {None}]
  /\ src \in [Builder -> Roots]
  /\ mem \in [Builder -> Files]
  /\ staged \in [Builder -> SUBSET Output]
  /\ obsolete \in [Builder -> SUBSET Output]
  /\ \A b \in Builder : \A o \in staged[b] :
       pc[b] \in {"staged", "replace"} /\ mem[b][o] # None

Init ==
  /\ text \in Roots
  /\ files = Blank
  /\ manifest = Blank
  /\ temps = {}
  /\ lock = None
  /\ pc = [b \in Builder |-> "idle"]
  /\ dir = [b \in Builder |-> None]
  /\ src = [b \in Builder |-> NoRoots]
  /\ mem = [b \in Builder |-> Blank]
  /\ staged = [b \in Builder |-> {}]
  /\ obsolete = [b \in Builder |-> {}]

Goto(b, phase) == pc' = [pc EXCEPT ![b] = phase]
-----------------------------------------------------------------------------
(***************************************************************************)
(* The developer and the build script.                                     *)
(***************************************************************************)

\* A root is saved, created, or deleted.
Edit(r, t) ==
  /\ text[r] # t
  /\ text' = [text EXCEPT ![r] = t]
  /\ UNCHANGED <<shared, lock, pc, reads, tx>>

\* The roots below d are read before anything is locked; without any there is
\* no transaction.  (What they import is read later, while compiling.)
Scan(b, d) ==
  LET found == [r \in Root |-> IF DirectoryOf[r] = d THEN text[r] ELSE None] IN
  /\ pc[b] = "idle"
  /\ found # NoRoots
  /\ dir' = [dir EXCEPT ![b] = d]
  /\ src' = [src EXCEPT ![b] = found]
  /\ Goto(b, "waiting")
  /\ UNCHANGED <<text, shared, lock, tx>>
-----------------------------------------------------------------------------
(***************************************************************************)
(* GenerationTransaction::begin.                                           *)
(***************************************************************************)

LockFreeMutant == TRUE   \* a lock that is shared
LockFree == lock = None

Acquire(b) ==
  /\ pc[b] = "waiting"
  /\ LockFree
  /\ lock' = b
  /\ Goto(b, "locked")
  /\ UNCHANGED <<text, shared, reads, tx>>

\* cleanup_stale_temporary_entries
CleanUp(b) ==
  /\ pc[b] = "locked"
  /\ temps' = {}
  /\ Goto(b, "clean")
  /\ UNCHANGED <<text, files, manifest, lock, reads, tx>>

Tracked(m) == {o \in Output : m[o] # None}

\* read_generated_manifest: each output it names is there, with its digest.
ValidatesMutant(m) == \A o \in Tracked(m) : files[o] # None   \* digests unread
Validates(m) == \A o \in Tracked(m) : files[o] = m[o]

\* obsolete_generated_outputs
UntrackedMutant(m) == {}   \* a lost group keeps its file
Untracked(m) == {o \in Output : files[o] # None /\ m[o] = None}

\* load_or_recover_generated_manifest: a manifest that does not validate is
\* given up with every output, and the transaction starts from none.  So is one
\* that would validate, when reading it or one of its outputs fails.
Loaded == {Blank} \cup {m \in {manifest} : Validates(m)}

Load(b) ==
  /\ pc[b] = "clean"
  /\ \E kept \in Loaded :
       /\ mem' = [mem EXCEPT ![b] = kept]
       /\ obsolete' = [obsolete EXCEPT ![b] = Untracked(kept)]
  /\ Goto(b, "sweep")
  /\ UNCHANGED <<text, shared, lock, reads, staged>>

\* remove_untracked_generated, or reset_generated_cache: one file is removed.
Sweep(b) ==
  /\ pc[b] = "sweep"
  /\ \/ \E o \in obsolete[b] :
          /\ files' = [files EXCEPT ![o] = None]
          /\ obsolete' = [obsolete EXCEPT ![b] = @ \ {o}]
          /\ UNCHANGED manifest
     \/ /\ manifest # mem[b]
        /\ manifest' = Blank
        /\ UNCHANGED <<files, obsolete>>
  /\ UNCHANGED <<text, temps, lock, pc, reads, mem, staged>>

\* create_staging_directory
Open(b) ==
  /\ pc[b] = "sweep"
  /\ obsolete[b] = {}
  /\ manifest = mem[b]
  /\ temps' = temps \cup {b}
  /\ Goto(b, "open")
  /\ UNCHANGED <<text, files, manifest, lock, reads, tx>>
-----------------------------------------------------------------------------
(***************************************************************************)
(* compile_one for each root, and prune_generated.                         *)
(***************************************************************************)

Compiles(roots) == \A r \in Root : roots[r] \notin Failing

Generated(roots, o) ==
  IF roots[o[1]] = None THEN None ELSE Rendering[roots[o[1]]][o[2]]

Produced(roots) == {o \in Output : Generated(roots, o) # None}

\* An output recorded with the content it already has is not staged.
ChangedMutant(m, roots) == {o \in Output : m[o] # Generated(roots, o)}
Changed(m, roots) == {o \in Produced(roots) : m[o] # Generated(roots, o)}

\* record, for each output; retain_source_outputs, for each root compiled; and
\* prune_generated, for the roots of d that are gone.
StaleMutant(d, roots, o) == o \notin Produced(roots)   \* of every directory
Stale(d, roots, o) ==
  /\ o \notin Produced(roots)
  /\ roots[o[1]] # None \/ DirectoryOf[o[1]] = d

Recorded(m, d, roots) ==
  [o \in Output |-> IF o \in Produced(roots) THEN Generated(roots, o)
                    ELSE IF Stale(d, roots, o) THEN None
                    ELSE m[o]]

Compile(b) ==
  /\ pc[b] = "open"
  /\ Compiles(src[b])
  /\ mem' = [mem EXCEPT ![b] = Recorded(mem[b], dir[b], src[b])]
  /\ staged' = [staged EXCEPT ![b] = Changed(mem[b], src[b])]
  /\ Goto(b, "staged")
  /\ UNCHANGED <<text, shared, lock, reads, obsolete>>
-----------------------------------------------------------------------------
(***************************************************************************)
(* GenerationTransaction::commit.                                          *)
(***************************************************************************)

\* With nothing to write, nothing is written; but a manifest that cannot be read
\* (file_contents_equal) is written again.
Commit(b) ==
  LET gone == Untracked(mem[b])
      same == staged[b] = {} /\ gone = {} /\ mem[b] = manifest
  IN
  /\ pc[b] = "staged"
  /\ obsolete' = [obsolete EXCEPT ![b] = gone]
  /\ Goto(b, "replace") \/ (same /\ Goto(b, "named"))
  /\ UNCHANGED <<text, shared, lock, reads, mem, staged>>

Replace(b) ==
  /\ pc[b] = "replace"
  /\ \E o \in staged[b] :
       /\ files' = [files EXCEPT ![o] = mem[b][o]]
       /\ staged' = [staged EXCEPT ![b] = @ \ {o}]
  /\ UNCHANGED <<text, manifest, temps, lock, pc, reads, mem, obsolete>>

RemoveObsolete(b) ==
  /\ pc[b] = "replace"
  /\ staged[b] = {}
  /\ \E o \in obsolete[b] :
       /\ files' = [files EXCEPT ![o] = None]
       /\ obsolete' = [obsolete EXCEPT ![b] = @ \ {o}]
  /\ UNCHANGED <<text, manifest, temps, lock, pc, reads, mem, staged>>

\* The manifest waits for every output.
InPlace(b) == staged[b] = {} /\ obsolete[b] = {}

WriteManifest(b) ==
  /\ pc[b] = "replace"
  /\ InPlace(b)
  /\ manifest' = mem[b]
  /\ Goto(b, "named")
  /\ UNCHANGED <<text, files, temps, lock, reads, tx>>
-----------------------------------------------------------------------------
(***************************************************************************)
(* The end of a transaction, and of a process.                             *)
(***************************************************************************)

Released(b) == IF lock = b THEN None ELSE lock

\* What a process knows ends with its call; the files stay.
End(b) ==
  /\ lock' = Released(b)
  /\ Goto(b, "idle")
  /\ dir' = [dir EXCEPT ![b] = None]
  /\ src' = [src EXCEPT ![b] = NoRoots]
  /\ mem' = [mem EXCEPT ![b] = Blank]
  /\ staged' = [staged EXCEPT ![b] = {}]
  /\ obsolete' = [obsolete EXCEPT ![b] = {}]
  /\ UNCHANGED <<text, files, manifest>>

Finish(b) ==
  /\ pc[b] = "named"
  /\ temps' = temps \ {b}
  /\ End(b)

\* A root does not compile, or a call of the file system fails: the dropped
\* transaction removes its staging directory if it can.
Fail(b) ==
  /\ pc[b] \in Held
  /\ temps' \in {temps, temps \ {b}}
  /\ End(b)

\* The process is killed.
Crash(b) ==
  /\ pc[b] # "idle"
  /\ End(b)
  /\ UNCHANGED temps

Step(b) ==
  \/ Acquire(b) \/ CleanUp(b) \/ Load(b) \/ Sweep(b) \/ Open(b) \/ Compile(b)
  \/ Commit(b) \/ Replace(b) \/ RemoveObsolete(b) \/ WriteManifest(b)
  \/ Finish(b) \/ Fail(b)

Next ==
  \/ \E r \in Root : \E t \in Text \cup {None} : Edit(r, t)
  \/ \E b \in Builder :
       (\E d \in Directory : Scan(b, d)) \/ Step(b) \/ Crash(b)

Spec == Init /\ [][Next]_vars
-----------------------------------------------------------------------------
(***************************************************************************)
(* Properties.                                                             *)
(***************************************************************************)

\* A live transaction's staging directory is there: no other process takes it
\* for one left by a crash (cleanup_stale_temporary_entries removes them all).
StagingIsKept == \A b \in Builder : pc[b] \in Staging => b \in temps

\* What commit does not write is already in place: an output whose entry did
\* not change is on disk as the entry says, although stage looked only at the
\* manifest, and also while other outputs are being replaced.
UnstagedIsInPlace ==
  \A b \in Builder : pc[b] \in {"staged", "replace", "named"} =>
    \A o \in Tracked(mem[b]) \ staged[b] : files[o] = mem[b][o]

\* A call that succeeds leaves exactly the files the manifest names, and for
\* its directory exactly what the roots it read generate: the outputs of a
\* renamed group or a deleted root are gone.
PublishedIsWhatWasRead ==
  \A b \in Builder : pc[b] = "named" =>
    /\ files = manifest
    /\ \A o \in Within(dir[b]) : files[o] = Generated(src[b], o)

(***************************************************************************)
(* The directory implements GenerationStore.  The generation is the one    *)
(* the manifest names, which stays the old one until commit replaces the   *)
(* manifest; it is whole if the manifest validates; and a publisher is     *)
(* replacing it while its commit is under way.                             *)
(***************************************************************************)
Whole == Validates(manifest)

Replacing(b) == pc[b] = "replace" /\ ~Whole

Writer ==
  IF \E b \in Builder : Replacing(b) THEN CHOOSE b \in Builder : Replacing(b)
  ELSE None

Store == INSTANCE GenerationStore WITH
           Publisher <- Builder,
           gen <- manifest, whole <- Whole, writer <- Writer

\* Whatever builders do, fail at, or are killed in, the directory changes from
\* one generation to the next at once: an interrupted commit, or a generation
\* that a builder cannot read, is discarded as a whole, and never while another
\* builder replaces it; a failed batch publishes nothing; and a directory's
\* publication keeps the outputs that others have in the generation.
ImplementsStore == Store!Spec
=============================================================================
