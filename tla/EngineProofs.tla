---------------------------- MODULE EngineProofs ----------------------------
(***************************************************************************)
(* What the engine keeps for every set of digests and names, every input   *)
(* and every combination of faults: its types, the placement of files by   *)
(* visibility, a manifest on disk that is the one in memory, no wallpaper  *)
(* lost to a root that is not mounted, and the confinement of a switch to  *)
(* safe mode.                                                              *)
(***************************************************************************)
EXTENDS Engine, TLAPS

-----------------------------------------------------------------------------
(* The operators the actions are built from.                               *)

LEMMA RootOfVisibility ==
  ASSUME NEW v \in Visibility
  PROVE  /\ RootOf(v) \in Managed
         /\ RootOf(v) \in Root
         /\ v # "unclassified" => RootOf(v) # "unclassified"
  BY DEF Visibility, RootOf, Managed, Root

LEMMA JobTypes ==
  /\ Idle \in Job /\ Saving \in Job
  /\ \A by \in Handler : Cycling(by) \in Job /\ Done(by) \in Job
  /\ \A h \in Hash, by \in Handler : Applying(h, by) \in Job
  BY DEF Job, Done

\* A job that holds the mutex names the handler it works for, and a pending
\* applyWallpaper names its wallpaper.
LEMMA JobFields ==
  ASSUME NEW j \in Job
  PROVE  /\ j.at \in {"apply", "cycle"} => j.by \in Handler
         /\ j.at = "apply" => j.target \in Hash
  BY DEF Job, Idle, Saving, Cycling, Applying, Handler

LEMMA TrackedEntry ==
  ASSUME TypeOK, NEW h \in Tracked
  PROVE  /\ h \in Hash
         /\ library.entry[h] \in Entry
         /\ PathOf(h) \in Path
         /\ VisOf(h) \in Visibility
  BY DEF TypeOK, Library, Tracked, Entry, PathOf, VisOf

\* Placement, on which only a new name that leads elsewhere has a hold.
Placed(lib)   == RenameInto = {} => WellPlaced(lib)
PlacementHeld == Placed(library) /\ Placed(disk)

LEMMA ForgetType ==
  ASSUME TypeOK, NEW h \in Hash
  PROVE  /\ Forget(h) \in Library
         /\ Placed(library) => Placed(Forget(h))
  BY DEF TypeOK, Library, Forget, Unshown, Placed, WellPlaced

LEMMA RegisterType ==
  ASSUME TypeOK, NEW h \in Hash, NEW p \in Path, NEW v \in Visibility
  PROVE  /\ Register(h, p, v) \in Library
         /\ Placed(library) /\ (RenameInto = {} => p.root = RootOf(v)) => Placed(Register(h, p, v))
<1>1. [path |-> p, vis |-> v] \in Entry
  BY DEF Entry
<1> QED BY <1>1 DEF TypeOK, Library, Register, Unshown, Placed, WellPlaced

LEMMA RelocateType ==
  ASSUME TypeOK, NEW h \in Hash, NEW p \in Path, NEW v \in Visibility
  PROVE  /\ Relocate(h, p, v) \in Library
         /\ Placed(library) /\ (RenameInto = {} => p.root = RootOf(v)) => Placed(Relocate(h, p, v))
<1>1. [path |-> p, vis |-> v] \in Entry
  BY DEF Entry
<1> QED BY <1>1 DEF TypeOK, Library, Relocate, Placed, WellPlaced

LEMMA MarkShownType ==
  ASSUME TypeOK, NEW h \in Hash
  PROVE  /\ MarkShown(h) \in Library
         /\ Placed(library) => Placed(MarkShown(h))
<1>1. Unshown(h) \union {<<g, h>> : g \in {g \in Hash : WasShown(g)} \union {h}}
        \in SUBSET (Hash \X Hash)
  BY DEF TypeOK, Library, Unshown
<1>2. [library.current EXCEPT ![library.mode] = h] \in [Mode -> Hash \union {None}]
  BY DEF TypeOK, Library
<1> QED BY <1>1, <1>2 DEF TypeOK, Library, MarkShown, Placed, WellPlaced

LEMMA MovedType ==
  ASSUME TypeOK, NEW p \in Path, NEW q \in Path
  PROVE  Moved(p, q) \in [Path -> Hash \union {None}]
  BY DEF TypeOK, Moved

LEMMA EmptyLibraryType == EmptyLibrary \in Library /\ Placed(EmptyLibrary)
  BY DEF EmptyLibrary, Library, Mode, Placed, WellPlaced

-----------------------------------------------------------------------------
(* Types and placement.                                                    *)

IInv == TypeOK /\ PlacementHeld

LEMMA ThrownType ==
  ASSUME TypeOK
  PROVE  Thrown \in Job
  BY JobTypes DEF Thrown, Handler

\* What every save preserves: whether it succeeds or throws, memory and disk each
\* hold a well-placed library.
LEMMA SaveKeeps ==
  ASSUME IInv, NEW lib \in Library, Placed(lib), NEW next \in Job, SaveThen(lib, next)
  PROVE  /\ library' \in Library /\ disk' \in Library
         /\ job' \in Job
         /\ PlacementHeld'
<1>1. library' = lib /\ disk' \in {lib, disk} /\ job' \in {next, Thrown}
  BY DEF SaveThen
<1>2. Placed(library)' /\ Placed(disk)'
  BY <1>1 DEF IInv, PlacementHeld, Placed, WellPlaced
<1> QED BY <1>1, <1>2, ThrownType DEF IInv, TypeOK, PlacementHeld

\* What an applyWallpaper preserves, wherever it continues.
LEMMA AttemptKeeps ==
  ASSUME IInv, NEW h \in Hash, NEW succeeded \in Job, NEW failed \in Job,
         Attempt(h, succeeded, failed)
  PROVE  /\ library' \in Library /\ disk' \in Library
         /\ job' \in Job
         /\ screen' \in Path \union {None}
         /\ PlacementHeld'
<1>1. Placed(library)
  BY DEF IInv, PlacementHeld
<1>2. CASE /\ Resolves(h)
           /\ screen' = PathOf(h)
           /\ SaveThen(MarkShown(h), succeeded)
  <2>1. PathOf(h) \in Path
    BY <1>2, TrackedEntry DEF IInv, Resolves
  <2>2. MarkShown(h) \in Library /\ Placed(MarkShown(h))
    BY <1>1, MarkShownType DEF IInv
  <2> QED BY <1>2, <2>1, <2>2, SaveKeeps
<1>3. CASE SaveThen(Forget(h), failed) /\ UNCHANGED screen
  <2>1. Forget(h) \in Library /\ Placed(Forget(h))
    BY <1>1, ForgetType DEF IInv
  <2> QED BY <1>3, <2>1, SaveKeeps DEF IInv, TypeOK
<1>4. CASE job' = failed /\ UNCHANGED <<screen, library, disk>>
  BY <1>4 DEF IInv, TypeOK, PlacementHeld, Placed, WellPlaced
<1> QED BY <1>2, <1>3, <1>4 DEF Attempt

\* The wallpaper an iteration of cycle() picks is one that may be shown.
LEMMA PickedIsAvailable ==
  ASSUME TypeOK, NEW seen, NEW h \in Picked(seen)
  PROVE  h \in Available
  BY DEF Picked, LeftBehind, Oldest, Candidates

LEMMA WorkKeeps == IInv /\ Work => IInv'
<1> SUFFICES ASSUME IInv, Work
             PROVE  IInv'
  OBVIOUS
<1>1. TypeOK /\ job \in Job
  BY DEF IInv, TypeOK
<1>2. CASE ApplyPending
  <2>1. /\ job.target \in Hash
        /\ job.by \in Handler
    BY <1>1, <1>2, JobFields DEF ApplyPending
  <2>2. /\ Done(job.by) \in Job
        /\ (IF job.by = "switch" THEN Cycling("switch") ELSE Done(job.by)) \in Job
    BY <2>1, JobTypes DEF Handler
  <2>3. /\ library' \in Library /\ disk' \in Library /\ job' \in Job
        /\ screen' \in Path \union {None}
        /\ PlacementHeld'
    BY <1>2, <2>1, <2>2, AttemptKeeps DEF ApplyPending
  <2> QED BY <1>1, <1>2, <2>3 DEF ApplyPending, IInv, TypeOK, world
<1>3. CASE CycleOnce
  <2>1. Done(job.by) \in Job
    BY <1>1, <1>3, JobFields, JobTypes DEF CycleOnce
  <2>2. PICK seen \in Observed : \E h \in Picked(seen) : Attempt(h, Done(job.by), job)
    BY <1>3 DEF CycleOnce
  <2>3. PICK h \in Picked(seen) : Attempt(h, Done(job.by), job)
    BY <2>2
  <2>4. h \in Hash
    BY <1>1, <2>3, PickedIsAvailable DEF Available, Tracked
  <2>5. /\ library' \in Library /\ disk' \in Library /\ job' \in Job
        /\ screen' \in Path \union {None}
        /\ PlacementHeld'
    BY <1>1, <2>1, <2>3, <2>4, AttemptKeeps
  <2> QED BY <1>1, <1>3, <2>5 DEF CycleOnce, IInv, TypeOK, world
<1>4. CASE NothingAvailable
  <2>1. Done(job.by) \in Job
    BY <1>1, <1>4, JobFields, JobTypes DEF NothingAvailable
  <2> QED BY <1>1, <1>4, <2>1
          DEF NothingAvailable, IInv, TypeOK, PlacementHeld, Placed, WellPlaced, world
<1>5. CASE SaveScanned
  <2>1. /\ library' \in Library /\ disk' \in Library /\ job' \in Job
        /\ PlacementHeld'
    BY <1>5, JobTypes, SaveKeeps DEF SaveScanned, IInv, TypeOK, PlacementHeld
  <2> QED BY <1>5, <2>1 DEF SaveScanned, IInv, TypeOK, world
<1> QED BY <1>2, <1>3, <1>4, <1>5 DEF Work

\* The two ways a file enters the library.
LEMMA IngestKeeps ==
  ASSUME IInv, NEW p \in Path, NEW v \in Visibility, CanIngest(p, v)
  PROVE  /\ fs' \in [Path -> Hash \union {None}]
         /\ Register(fs[p], Ingested(p, v), v) \in Library
         /\ Placed(Register(fs[p], Ingested(p, v), v))
         /\ \A by \in Handler : AfterIngest(p, v, by) \subseteq Job
<1>1. fs[p] \in Hash
  BY DEF IInv, TypeOK, CanIngest, Exists
<1>2. Ingested(p, v) \in Path /\ Ingested(p, v).root = RootOf(v)
  BY RootOfVisibility DEF Ingested, Path
<1>3. fs' \in [Path -> Hash \union {None}]
  BY <1>2, MovedType DEF CanIngest, IInv
<1>4. /\ Register(fs[p], Ingested(p, v), v) \in Library
      /\ Placed(Register(fs[p], Ingested(p, v), v))
  BY <1>1, <1>2, RegisterType DEF IInv, PlacementHeld
<1>5. \A by \in Handler : AfterIngest(p, v, by) \subseteq Job
  BY <1>1, JobTypes DEF AfterIngest
<1> QED BY <1>3, <1>4, <1>5

LEMMA CommandKeeps == IInv /\ Command => IInv'
<1> SUFFICES ASSUME IInv, Command
             PROVE  IInv'
  OBVIOUS
<1>1. TypeOK /\ Placed(library)
  BY DEF IInv, PlacementHeld
<1>2. CASE Cycle
  BY <1>2, JobTypes DEF Cycle, Handler, IInv, TypeOK, PlacementHeld, Placed, WellPlaced, world
<1>3. CASE SwitchMode
  <2>1. PICK m \in Mode :
          /\ library' = [library EXCEPT !.mode = m]
          /\ job' \in {Applying(library.current[m], "switch"), Cycling("switch")}
          /\ job' = Applying(library.current[m], "switch") => library.current[m] \in Tracked
    <3>1. (CHOOSE other \in Mode : other # library.mode) \in Mode
      <4>1. \E other \in Mode : other # library.mode
        BY DEF Mode
      <4> QED BY <4>1
    <3> QED BY <1>3, <3>1 DEF SwitchMode, Applying, Cycling
  <2>2. job' \in Job
    BY <2>1, JobTypes DEF Handler, Tracked
  <2>3. library' \in Library /\ Placed(library)'
    BY <1>1, <2>1 DEF TypeOK, Library, Placed, WellPlaced
  <2> QED BY <1>3, <2>2, <2>3 DEF SwitchMode, IInv, TypeOK, PlacementHeld, Placed, WellPlaced, world
<1>4. ASSUME NEW h \in Hash, Apply(h)
      PROVE  IInv'
  BY <1>4, JobTypes DEF Apply, Handler, IInv, TypeOK, PlacementHeld, Placed, WellPlaced, world
<1>5. ASSUME NEW h \in Hash, Delete(h)
      PROVE  IInv'
  <2>1. fs' \in [Path -> Hash \union {None}]
    BY <1>1, <1>5, TrackedEntry DEF Delete, TypeOK
  <2>2. Forget(h) \in Library /\ Placed(Forget(h))
    BY <1>1, ForgetType
  <2>3. library' \in Library /\ disk' \in Library /\ job' \in Job /\ PlacementHeld'
    BY <1>5, <2>2, SaveKeeps, JobTypes DEF Delete
  <2> QED BY <1>1, <1>5, <2>1, <2>3 DEF Delete, IInv, TypeOK, world
<1>6. ASSUME NEW h \in Hash, NEW v \in Visibility, Classify(h, v)
      PROVE  IInv'
  <2> DEFINE p == PathOf(h)
             q == [root |-> RootOf(v), name |-> p.name]
  <2>1. p \in Path /\ q \in Path /\ q.root = RootOf(v)
    BY <1>1, <1>6, TrackedEntry, RootOfVisibility DEF Classify, Path
  <2>2. CASE SaveThen(Forget(h), Idle) /\ UNCHANGED fs
    <3>1. Forget(h) \in Library /\ Placed(Forget(h))
      BY <1>1, ForgetType
    <3>2. library' \in Library /\ disk' \in Library /\ job' \in Job /\ PlacementHeld'
      BY <2>2, <3>1, SaveKeeps, JobTypes
    <3> QED BY <1>1, <1>6, <2>2, <3>2 DEF Classify, IInv, TypeOK, world
  <2>3. CASE fs' = Moved(p, q) /\ SaveThen(Relocate(h, q, v), Idle)
    <3>1. Relocate(h, q, v) \in Library /\ Placed(Relocate(h, q, v))
      BY <1>1, <2>1, RelocateType
    <3>2. library' \in Library /\ disk' \in Library /\ job' \in Job /\ PlacementHeld'
      BY <2>3, <3>1, SaveKeeps, JobTypes
    <3>3. fs' \in [Path -> Hash \union {None}]
      BY <1>1, <2>1, <2>3, MovedType
    <3> QED BY <1>1, <1>6, <3>2, <3>3 DEF Classify, IInv, TypeOK, world
  <2> QED BY <1>6, <2>2, <2>3 DEF Classify
<1>7. ASSUME NEW h \in Hash, NEW q \in Path, Rename(h, q)
      PROVE  IInv'
  <2> DEFINE p == PathOf(h)
  <2>1. /\ p \in Path /\ VisOf(h) \in Visibility
        /\ RenameInto = {} => q.root = RootOf(VisOf(h))
    <3>1. h \in Tracked /\ (RenameInto = {} => q.root = p.root)
      BY <1>7 DEF Rename
    <3>2. RenameInto = {} => p.root = RootOf(VisOf(h))
      BY <1>1, <3>1 DEF Placed, WellPlaced, Tracked, PathOf, VisOf
    <3> QED BY <1>1, <3>1, <3>2, TrackedEntry
  <2>2. CASE SaveThen(Forget(h), Idle) /\ UNCHANGED fs
    <3>1. Forget(h) \in Library /\ Placed(Forget(h))
      BY <1>1, ForgetType
    <3>2. library' \in Library /\ disk' \in Library /\ job' \in Job /\ PlacementHeld'
      BY <2>2, <3>1, SaveKeeps, JobTypes
    <3> QED BY <1>1, <1>7, <2>2, <3>2 DEF Rename, IInv, TypeOK, world
  <2>3. CASE fs' = Moved(p, q) /\ SaveThen(Relocate(h, q, VisOf(h)), Idle)
    <3>1. Relocate(h, q, VisOf(h)) \in Library /\ Placed(Relocate(h, q, VisOf(h)))
      BY <1>1, <2>1, RelocateType
    <3>2. library' \in Library /\ disk' \in Library /\ job' \in Job /\ PlacementHeld'
      BY <2>3, <3>1, SaveKeeps, JobTypes
    <3>3. fs' \in [Path -> Hash \union {None}]
      BY <1>1, <2>1, <2>3, MovedType
    <3> QED BY <1>1, <1>7, <3>2, <3>3 DEF Rename, IInv, TypeOK, world
  <2> QED BY <1>7, <2>2, <2>3 DEF Rename
<1>8. ASSUME NEW p \in Path, Scan(p)
      PROVE  IInv'
  <2> DEFINE v == IF DefaultIngestion = "current" THEN library.mode ELSE DefaultIngestion
  <2>1. v \in Visibility
    BY <1>1, InputAssumption DEF TypeOK, Library, Mode, Visibility
  <2>2. /\ CanIngest(p, v)
        /\ library' = Register(fs[p], Ingested(p, v), v)
        /\ job' \in AfterIngest(p, v, "scan")
        /\ UNCHANGED <<world, screen, disk>>
    BY <1>8 DEF Scan
  <2> HIDE DEF v
  <2>3. /\ fs' \in [Path -> Hash \union {None}]
        /\ library' \in Library /\ Placed(library') /\ job' \in Job
    BY <2>1, <2>2, IngestKeeps DEF Handler
  <2>4. Placed(library)' /\ Placed(disk)'
    BY <2>2, <2>3 DEF WellPlaced, IInv, PlacementHeld
  <2> QED BY <1>1, <2>2, <2>3, <2>4 DEF IInv, TypeOK, PlacementHeld, world
<1>9. ASSUME NEW p \in Path, NEW v \in {"safe", "unsafe"}, Ingest(p, v)
      PROVE  IInv'
  <2>1. v \in Visibility
    BY DEF Visibility
  <2>2. PICK next \in AfterIngest(p, v, "command") :
          SaveThen(Register(fs[p], Ingested(p, v), v), next)
    BY <1>9 DEF Ingest
  <2>3. /\ fs' \in [Path -> Hash \union {None}]
        /\ Register(fs[p], Ingested(p, v), v) \in Library
        /\ Placed(Register(fs[p], Ingested(p, v), v))
        /\ next \in Job
    BY <1>9, <2>1, <2>2, IngestKeeps DEF Ingest, Handler
  <2>4. library' \in Library /\ disk' \in Library /\ job' \in Job /\ PlacementHeld'
    BY <2>2, <2>3, SaveKeeps
  <2> QED BY <1>1, <1>9, <2>3, <2>4 DEF Ingest, IInv, TypeOK, world
<1>10. \A v \in ClassifyAs : v \in Visibility
  BY InputAssumption
<1> QED
  BY <1>2, <1>3, <1>4, <1>5, <1>6, <1>7, <1>8, <1>9, <1>10 DEF Command

LEMMA WorldKeeps == IInv /\ World => IInv'
<1> SUFFICES ASSUME IInv, World
             PROVE  IInv'
  OBVIOUS
<1>1. CASE SetterChanges
  BY <1>1, InputAssumption DEF SetterChanges, IInv, TypeOK, PlacementHeld, Placed, WellPlaced
<1>2. CASE Restart
  BY <1>2, JobTypes DEF Restart, IInv, TypeOK, PlacementHeld, Placed, WellPlaced, world
<1>3. ASSUME NEW n \in Names, NEW h \in Hash, Download(n, h)
      PROVE  IInv'
  BY <1>3 DEF Download, IInv, TypeOK, PlacementHeld, Placed, WellPlaced, world
<1>4. ASSUME NEW p \in Path, RemoveFile(p)
      PROVE  IInv'
  BY <1>4 DEF RemoveFile, IInv, TypeOK, PlacementHeld, Placed, WellPlaced, world
<1>5. ASSUME NEW p \in Path, ShowExternally(p)
      PROVE  IInv'
  BY <1>5 DEF ShowExternally, IInv, TypeOK, PlacementHeld, Placed, WellPlaced, world
<1>6. ASSUME NEW r \in Removable, Remount(r)
      PROVE  IInv'
  <2>1. r \in Root
    BY InputAssumption DEF Managed
  <2> QED BY <1>6, <2>1 DEF Remount, IInv, TypeOK, PlacementHeld, Placed, WellPlaced
<1> QED BY <1>1, <1>2, <1>3, <1>4, <1>5, <1>6 DEF World

LEMMA InitIInv == Init => IInv
  BY EmptyLibraryType, JobTypes, InputAssumption
     DEF Init, IInv, TypeOK, PlacementHeld, Placed, WellPlaced

LEMMA NextKeeps == IInv /\ [Next]_vars => IInv'
<1>1. IInv /\ UNCHANGED vars => IInv'
  BY DEF vars, IInv, TypeOK, PlacementHeld, Placed, WellPlaced
<1> QED BY <1>1, WorkKeeps, CommandKeeps, WorldKeeps DEF Next

LEMMA IInvariant == Spec => []IInv
  BY InitIInv, NextKeeps, PTL DEF Spec

\* The engine's state keeps its types through every command, fault and restart.
THEOREM TypeCorrect == Spec => []TypeOK
<1>1. IInv => TypeOK
  BY DEF IInv
<1> QED BY <1>1, IInvariant, PTL

\* As long as new names are plain ones, a wallpaper is tracked under the root of its
\* visibility, in memory and on disk, whatever the other inputs and the faults.
THEOREM FilePlacement == RenameInto = {} => (Spec => []Placement)
<1> SUFFICES ASSUME RenameInto = {} PROVE Spec => []Placement
  OBVIOUS
<1>1. IInv => Placement
  BY DEF IInv, PlacementHeld, Placed, Placement
<1> QED BY <1>1, IInvariant, PTL

-----------------------------------------------------------------------------
(* The manifest on disk is the one in memory.                              *)

SameButMode == disk = [library EXCEPT !.mode = disk.mode]

LEMMA SavePersists ==
  ASSUME TypeOK, NEW lib \in Library, NEW next, SaveThen(lib, next), "save" \notin Faults
  PROVE  SameButMode' /\ job' = next
  BY DEF SaveThen, SameButMode, Library

LEMMA AttemptPersists ==
  ASSUME IInv, NEW h \in Hash, NEW succeeded, NEW failed,
         Attempt(h, succeeded, failed), "save" \notin Faults
  PROVE  /\ job' \in {succeeded, failed}
         /\ SameButMode => SameButMode'
<1>1. Forget(h) \in Library /\ MarkShown(h) \in Library
  BY ForgetType, MarkShownType DEF IInv
<1>2. CASE SaveThen(MarkShown(h), succeeded)
  BY <1>1, <1>2, SavePersists DEF IInv
<1>3. CASE SaveThen(Forget(h), failed)
  BY <1>1, <1>3, SavePersists DEF IInv
<1>4. CASE job' = failed /\ UNCHANGED <<screen, library, disk>>
  BY <1>4 DEF SameButMode
<1> QED BY <1>2, <1>3, <1>4 DEF Attempt

LEMMA HandlerOfDone ==
  ASSUME NEW by \in Handler
  PROVE  Done(by).by = "scan" <=> by = "scan"
  BY DEF Done, Idle, Saving, Handler

LEMMA PersistedStep == IInv /\ Persisted /\ [Next]_vars => Persisted'
<1> SUFFICES ASSUME IInv, Persisted, [Next]_vars, "save" \notin Faults, job'.by # "scan"
             PROVE  SameButMode'
  BY DEF Persisted, SameButMode
<1>1. job.by # "scan" => SameButMode
  BY DEF Persisted, SameButMode
<1>2. TypeOK /\ job \in Job
  BY DEF IInv, TypeOK
<1>3. CASE ApplyPending
  <2>1. job.target \in Hash /\ job.by \in Handler
    BY <1>2, <1>3, JobFields DEF ApplyPending
  <2>2. Attempt(job.target, Done(job.by),
                IF job.by = "switch" THEN Cycling("switch") ELSE Done(job.by))
    BY <1>3 DEF ApplyPending
  <2>3. job.by # "scan"
    BY <2>1, <2>2, HandlerOfDone, AttemptPersists DEF Cycling
  <2> QED BY <1>1, <2>1, <2>2, <2>3, AttemptPersists
<1>4. CASE CycleOnce
  <2>1. job.by \in Handler
    BY <1>2, <1>4, JobFields DEF CycleOnce
  <2>2. PICK seen \in Observed : \E h \in Picked(seen) : Attempt(h, Done(job.by), job)
    BY <1>4 DEF CycleOnce
  <2>3. PICK h \in Picked(seen) : Attempt(h, Done(job.by), job)
    BY <2>2
  <2>4. h \in Hash
    BY <1>2, <2>3, PickedIsAvailable DEF Available, Tracked
  <2>5. job.by # "scan"
    BY <2>1, <2>3, <2>4, HandlerOfDone, AttemptPersists
  <2> QED BY <1>1, <2>3, <2>4, <2>5, AttemptPersists
<1>5. CASE NothingAvailable
  <2>1. job.by # "scan"
    BY <1>2, <1>5, JobFields, HandlerOfDone DEF NothingAvailable
  <2> QED BY <1>1, <1>5, <2>1 DEF NothingAvailable, SameButMode
<1>6. CASE SaveScanned
  BY <1>2, <1>6, SavePersists DEF SaveScanned, TypeOK
<1>7. CASE Command
  <2>0. job = Idle
    BY <1>7 DEF Command, Cycle, Apply, SwitchMode, Ingest, Scan, CanIngest, Classify, Delete,
                Rename
  <2>1. SameButMode
    BY <1>1, <2>0 DEF Idle
  <2>2. CASE Cycle
    BY <2>1, <2>2 DEF Cycle, SameButMode
  <2>3. CASE SwitchMode
    BY <1>2, <2>1, <2>3 DEF SwitchMode, SameButMode, TypeOK, Library
  <2>4. ASSUME NEW h \in Hash, Apply(h)
        PROVE  SameButMode'
    BY <2>1, <2>4 DEF Apply, SameButMode
  <2>5. ASSUME NEW h \in Hash, Delete(h)
        PROVE  SameButMode'
    BY <1>2, <2>5, ForgetType, SavePersists DEF Delete
  <2>6. ASSUME NEW h \in Hash, NEW v \in Visibility, Classify(h, v)
        PROVE  SameButMode'
    <3> DEFINE q == [root |-> RootOf(v), name |-> PathOf(h).name]
    <3>1. q \in Path
      BY <1>2, <2>6, TrackedEntry, RootOfVisibility DEF Classify, Path
    <3>2. Relocate(h, q, v) \in Library /\ Forget(h) \in Library
      BY <1>2, <3>1, RelocateType, ForgetType
    <3>3. SaveThen(Forget(h), Idle) \/ SaveThen(Relocate(h, q, v), Idle)
      BY <2>6 DEF Classify
    <3> HIDE DEF q
    <3> QED BY <1>2, <3>2, <3>3, SavePersists
  <2>7. ASSUME NEW h \in Hash, NEW q \in Path, Rename(h, q)
        PROVE  SameButMode'
    <3>1. VisOf(h) \in Visibility
      BY <1>2, <2>7, TrackedEntry DEF Rename
    <3>2. Relocate(h, q, VisOf(h)) \in Library /\ Forget(h) \in Library
      BY <1>2, <3>1, RelocateType, ForgetType
    <3>3. SaveThen(Forget(h), Idle) \/ SaveThen(Relocate(h, q, VisOf(h)), Idle)
      BY <2>7 DEF Rename
    <3> QED BY <1>2, <3>2, <3>3, SavePersists
  <2>8. ASSUME NEW p \in Path, Scan(p)
        PROVE  FALSE
    <3>1. PICK v : job' \in AfterIngest(p, v, "scan")
      BY <2>8 DEF Scan
    <3> QED BY <3>1 DEF AfterIngest, Done, Saving, Applying, Cycling
  <2>9. ASSUME NEW p \in Path, NEW v \in {"safe", "unsafe"}, Ingest(p, v)
        PROVE  SameButMode'
    <3>1. Register(fs[p], Ingested(p, v), v) \in Library
      BY <2>9, IngestKeeps DEF Ingest, Visibility
    <3> QED BY <1>2, <2>9, <3>1, SavePersists DEF Ingest
  <2>10. \A v \in ClassifyAs : v \in Visibility
    BY InputAssumption
  <2> QED
    BY <1>7, <2>2, <2>3, <2>4, <2>5, <2>6, <2>7, <2>8, <2>9, <2>10 DEF Command
<1>8. CASE World
  <2>1. CASE Restart
    BY <1>2, <2>1 DEF Restart, SameButMode, TypeOK, Library
  <2>2. CASE UNCHANGED <<library, disk, job>>
    BY <1>1, <2>2 DEF SameButMode
  <2> QED BY <1>8, <2>1, <2>2
          DEF World, SetterChanges, Download, RemoveFile, ShowExternally, Remount
<1>9. CASE UNCHANGED vars
  BY <1>1, <1>9 DEF vars, SameButMode
<1> QED BY <1>3, <1>4, <1>5, <1>6, <1>7, <1>8, <1>9 DEF Next, Work

\* As long as no save throws, the manifest on disk has every wallpaper, current
\* wallpaper and showing of the one in memory whenever no scan is under way.
THEOREM Persistence == Spec => []Persisted
<1>1. Init => Persisted
  BY DEF Init, Persisted, EmptyLibrary
<1> QED BY <1>1, PersistedStep, IInvariant, PTL DEF Spec

-----------------------------------------------------------------------------
(* What applying and cycling may do.                                       *)

\* Nothing is seen where no directory is, and a root on its own disk hides nothing
\* unless a start-up made a directory in its place.
InSight ==
  /\ "downloads" \in mounted
  /\ \A p \in Path : ~Directory(p.root) => fs[p] = None
  /\ \A p \in Path : p.root \in mounted \ standin => hidden[p] = None

\* No file is put where no directory is.
FilesOnlyIn == \A p \in Path : ~Directory(p.root) => fs'[p] \in {fs[p], None}

LEMMA MovedInto ==
  ASSUME TypeOK, NEW p \in Path, NEW q \in Path, Directory(q.root), fs' = Moved(p, q)
  PROVE  FilesOnlyIn
  BY DEF TypeOK, Moved, FilesOnlyIn

LEMMA CommandsKeepSight ==
  ASSUME TypeOK, InSight, Command
  PROVE  FilesOnlyIn /\ UNCHANGED world
<1>1. CASE Cycle \/ SwitchMode \/ \E h \in Hash : Apply(h)
  BY <1>1 DEF Cycle, SwitchMode, Apply, FilesOnlyIn
<1>2. ASSUME NEW h \in Hash, Delete(h)
      PROVE  FilesOnlyIn /\ UNCHANGED world
  BY <1>2, TrackedEntry DEF Delete, FilesOnlyIn, TypeOK
<1>3. ASSUME NEW h \in Hash, NEW v \in Visibility, Classify(h, v)
      PROVE  FilesOnlyIn /\ UNCHANGED world
  <2> DEFINE q == [root |-> RootOf(v), name |-> PathOf(h).name]
  <2>1. PathOf(h) \in Path /\ q \in Path
    BY <1>3, TrackedEntry, RootOfVisibility DEF Classify, Path
  <2>2. UNCHANGED fs \/ (fs' = Moved(PathOf(h), q) /\ Directory(q.root))
    BY <1>3 DEF Classify
  <2> QED BY <1>3, <2>1, <2>2, MovedInto DEF Classify, FilesOnlyIn
<1>4. ASSUME NEW h \in Hash, NEW q \in Path, Rename(h, q)
      PROVE  FilesOnlyIn /\ UNCHANGED world
  <2>1. PathOf(h) \in Path
    BY <1>4, TrackedEntry DEF Rename
  <2>2. UNCHANGED fs \/ (fs' = Moved(PathOf(h), q) /\ Directory(q.root))
    BY <1>4 DEF Rename
  <2> QED BY <1>4, <2>1, <2>2, MovedInto DEF Rename, FilesOnlyIn
<1>5. ASSUME NEW p \in Path, NEW v \in Visibility, CanIngest(p, v)
      PROVE  FilesOnlyIn
  <2>1. Ingested(p, v) \in Path /\ Ingested(p, v).root = RootOf(v)
    BY RootOfVisibility DEF Ingested, Path
  <2> QED BY <1>5, <2>1, MovedInto DEF CanIngest
<1>6. ASSUME NEW p \in Path, Scan(p)
      PROVE  FilesOnlyIn /\ UNCHANGED world
  <2>1. PICK v \in Visibility : CanIngest(p, v)
    BY <1>6, InputAssumption DEF Scan, TypeOK, Library, Mode, Visibility
  <2> QED BY <1>5, <1>6, <2>1 DEF Scan
<1>7. ASSUME NEW p \in Path, NEW v \in {"safe", "unsafe"}, Ingest(p, v)
      PROVE  FilesOnlyIn /\ UNCHANGED world
  BY <1>5, <1>7 DEF Ingest, Visibility
<1>8. \A v \in ClassifyAs : v \in Visibility
  BY InputAssumption
<1> QED BY <1>1, <1>2, <1>3, <1>4, <1>6, <1>7, <1>8 DEF Command

LEMMA SightStep == IInv /\ InSight /\ [Next]_vars => InSight'
<1> SUFFICES ASSUME IInv, InSight, [Next]_vars
             PROVE  InSight'
  OBVIOUS
<1>1. TypeOK
  BY DEF IInv
<1>2. ASSUME FilesOnlyIn, UNCHANGED <<hidden, mounted, standin>>
      PROVE  InSight'
  BY <1>2 DEF InSight, FilesOnlyIn, Directory
<1>3. CASE Work
  <2>1. UNCHANGED <<fs, world>>
    BY <1>3 DEF Work, ApplyPending, CycleOnce, NothingAvailable, SaveScanned
  <2> QED BY <1>2, <2>1 DEF world, FilesOnlyIn
<1>4. CASE Command
  BY <1>1, <1>2, <1>4, CommandsKeepSight DEF world
<1>5. CASE UNCHANGED vars \/ SetterChanges \/ \E p \in Path : ShowExternally(p)
  BY <1>2, <1>5 DEF vars, SetterChanges, ShowExternally, world, FilesOnlyIn
<1>6. ASSUME NEW n \in Names, NEW h \in Hash, Download(n, h)
      PROVE  InSight'
  <2>1. fs' = [fs EXCEPT ![[root |-> "downloads", name |-> n]] = h]
    BY <1>6 DEF Download
  <2>2. \A p \in Path : ~Directory(p.root) => p.root # "downloads"
    BY DEF InSight, Directory
  <2>3. FilesOnlyIn
    BY <1>1, <2>1, <2>2 DEF FilesOnlyIn, TypeOK
  <2> QED BY <1>2, <1>6, <2>3 DEF Download, world
<1>7. ASSUME NEW p \in Path, RemoveFile(p)
      PROVE  InSight'
  <2>1. FilesOnlyIn
    BY <1>1, <1>7 DEF RemoveFile, FilesOnlyIn, TypeOK
  <2> QED BY <1>2, <1>7, <2>1 DEF RemoveFile, world
<1>8. CASE Restart
  BY <1>8 DEF Restart, InSight, Directory
<1>9. ASSUME NEW r \in Removable, Remount(r)
      PROVE  InSight'
  <2>1. r # "downloads"
    BY InputAssumption DEF Managed
  <2>2. "downloads" \in mounted'
    BY <1>9, <2>1 DEF Remount, InSight
  <2>3. ASSUME NEW p \in Path, p.root # r
        PROVE  /\ fs'[p] = fs[p] /\ hidden'[p] = hidden[p]
               /\ p.root \in mounted' <=> p.root \in mounted
    BY <1>9, <2>3 DEF Remount
  <2>4. ASSUME NEW p \in Path, p.root = r
        PROVE  /\ fs'[p] = hidden[p] /\ hidden'[p] = fs[p]
               /\ p.root \in mounted' <=> p.root \notin mounted
    BY <1>9, <2>4 DEF Remount
  <2>5. standin' = standin
    BY <1>9 DEF Remount
  <2> QED BY <2>2, <2>3, <2>4, <2>5 DEF InSight, Directory
<1> QED BY <1>3, <1>4, <1>5, <1>6, <1>7, <1>8, <1>9 DEF Next, World

\* applyWallpaper drops no other wallpaper than the one it was called for, and that
\* one only when resolve says that its file is missing.
LEMMA AttemptDrops ==
  ASSUME TypeOK, NEW g \in Hash, NEW succeeded, NEW failed, Attempt(g, succeeded, failed),
         NEW h \in Tracked, library'.entry[h] = None
  PROVE  FileMissing(h)
<1>1. h \in Hash /\ library.entry[h] # None
  BY DEF Tracked
<1>2. library' \in {MarkShown(g), library} \/ (FileMissing(g) /\ library' = Forget(g))
  BY DEF Attempt, SaveThen
<1>3. library' # library
  BY <1>1
<1>4. library' # MarkShown(g)
  <2>1. MarkShown(g).entry = library.entry
    BY DEF MarkShown, TypeOK, Library
  <2> QED BY <1>1, <2>1
<1>5. CASE FileMissing(g) /\ library' = Forget(g)
  <2>1. g = h
    BY <1>1, <1>5 DEF Forget, TypeOK, Library
  <2> QED BY <1>5, <2>1
<1> QED BY <1>2, <1>3, <1>4, <1>5

LEMMA DropsOnlyMissing ==
  ASSUME IInv, [Next]_vars, job.at \in {"apply", "cycle"}, ~Restart,
         NEW h \in Tracked, library'.entry[h] = None
  PROVE  FileMissing(h) /\ UNCHANGED <<fs, hidden>>
<1>1. TypeOK /\ job \in Job
  BY DEF IInv, TypeOK
<1>2. library' # library
  BY DEF Tracked
<1>3. CASE ApplyPending
  <2>1. job.target \in Hash
    BY <1>1, <1>3, JobFields DEF ApplyPending
  <2> QED BY <1>1, <1>3, <2>1, AttemptDrops DEF ApplyPending, world
<1>4. CASE CycleOnce
  <2>1. PICK seen \in Observed : \E g \in Picked(seen) : Attempt(g, Done(job.by), job)
    BY <1>4 DEF CycleOnce
  <2>2. PICK g \in Picked(seen) : Attempt(g, Done(job.by), job)
    BY <2>1
  <2>3. g \in Hash
    BY <1>1, <2>2, PickedIsAvailable DEF Available, Tracked
  <2> QED BY <1>1, <1>4, <2>2, <2>3, AttemptDrops DEF CycleOnce, world
<1>5. ~NothingAvailable /\ ~SaveScanned
  BY <1>2 DEF NothingAvailable, SaveScanned, SaveThen
<1>6. ~Command
  <2>1. Command => job = Idle
    BY DEF Command, Cycle, Apply, SwitchMode, Ingest, Scan, CanIngest, Classify, Delete, Rename
  <2> QED BY <2>1 DEF Idle
<1>7. ~World
  BY <1>2 DEF World, SetterChanges, Download, RemoveFile, ShowExternally, Remount
<1>8. ~UNCHANGED vars
  BY <1>2 DEF vars
<1> QED BY <1>3, <1>4, <1>5, <1>6, <1>7, <1>8 DEF Next, Work

\* However often applying and cycling fail while a disk is away, the wallpapers on it
\* stay in the manifest, unless a start-up made a directory in place of their root.
THEOREM UnmountedWallpapersKept == Spec => UnmountedSurvive
<1> DEFINE Kept == \A h \in Tracked :
                      PathOf(h).root = RootOf(VisOf(h)) /\ PathOf(h).root \notin standin
                      => ~CycleForgetsStored(h)
<1>1. Init => InSight
  BY DEF Init, InSight, Directory, Root
<1>2. ASSUME IInv, InSight, [Next]_vars, NEW h \in Tracked,
             PathOf(h).root = RootOf(VisOf(h)), PathOf(h).root \notin standin,
             CycleForgetsStored(h)
      PROVE  FALSE
  <2>1. FileMissing(h) /\ UNCHANGED <<fs, hidden>>
    BY <1>2, DropsOnlyMissing DEF CycleForgetsStored, ForgottenStored
  <2>2. PathOf(h) \in Path /\ h \in Hash
    BY <1>2, TrackedEntry DEF IInv
  <2>3. fs[PathOf(h)] = None /\ PathOf(h).root \in mounted
    BY <1>2, <2>1 DEF FileMissing, Exists, Directory
  <2>4. hidden[PathOf(h)] = None
    BY <1>2, <2>2, <2>3 DEF InSight
  <2>5. h \in {fs'[PathOf(h)], hidden'[PathOf(h)]}
    BY <1>2 DEF CycleForgetsStored, ForgottenStored
  <2> QED BY <2>1, <2>2, <2>3, <2>4, <2>5, NoneAssumption
<1>3. IInv /\ InSight /\ [Next]_vars => [Kept]_vars
  BY <1>2
<1>4. Spec => [][Kept]_vars
  BY <1>1, <1>3, SightStep, IInvariant, PTL DEF Spec
<1> QED BY <1>4 DEF UnmountedSurvive

\* What confinement needs and the code never checks again: the wallpaper that a mode
\* switch or the scanner is about to apply may be shown in the mode.
SwitchTarget == job.at = "apply" /\ job.by # "command" => job.target \in Available

LEMMA WorkTargets == IInv /\ Work => job'.at # "apply"
<1> SUFFICES ASSUME IInv, Work
             PROVE  job'.at # "apply"
  OBVIOUS
<1>1. Thrown.at # "apply"
  BY DEF Thrown, Cycling, Idle
<1>2. \A by \in Handler : Done(by).at # "apply" /\ Cycling(by).at # "apply"
  BY DEF Done, Cycling, Idle, Saving
<1>3. job \in Job
  BY DEF IInv, TypeOK
<1>4. ASSUME NEW h, NEW succeeded, NEW failed, Attempt(h, succeeded, failed)
      PROVE  job' \in {succeeded, failed, Thrown}
  BY <1>4 DEF Attempt, SaveThen
<1>5. CASE ApplyPending
  <2>1. job.by \in Handler
    BY <1>3, <1>5, JobFields DEF ApplyPending
  <2> QED BY <1>1, <1>2, <1>4, <1>5, <2>1 DEF ApplyPending, Cycling
<1>6. CASE CycleOnce
  <2>1. job.by \in Handler /\ job.at # "apply"
    BY <1>3, <1>6, JobFields DEF CycleOnce
  <2> QED BY <1>1, <1>2, <1>4, <1>6, <2>1 DEF CycleOnce
<1>7. CASE NothingAvailable
  <2>1. job.by \in Handler
    BY <1>3, <1>7, JobFields DEF NothingAvailable
  <2> QED BY <1>2, <1>7, <2>1 DEF NothingAvailable
<1>8. CASE SaveScanned
  BY <1>1, <1>8 DEF SaveScanned, SaveThen, Idle
<1> QED BY <1>5, <1>6, <1>7, <1>8 DEF Work

LEMMA SwitchTargetStep == IInv /\ SwitchTarget /\ [Next]_vars => SwitchTarget'
<1> SUFFICES ASSUME IInv, SwitchTarget, [Next]_vars, job'.at = "apply", job'.by # "command"
             PROVE  job'.target \in Available'
  BY DEF SwitchTarget
<1>1. ~Work
  BY WorkTargets
<1>2. CASE Command
  <2>1. SwitchMode \/ \E p \in Path : Scan(p)
    <3>1. ~(Cycle \/ \E h \in Hash : Apply(h))
      BY DEF Cycle, Apply, Cycling, Applying
    <3>2. \A lib : ~SaveThen(lib, Idle) \/ job' \in {Idle, Cycling("switch")}
      BY DEF SaveThen, Thrown
    <3>3. \A h \in Hash : ~Delete(h) /\ (\A v \in ClassifyAs : ~Classify(h, v))
                                  /\ (\A q \in Path : ~Rename(h, q))
      BY <3>2 DEF Delete, Classify, Rename, Idle, Cycling
    <3>4. \A p, v : \A next \in AfterIngest(p, v, "command") :
            next.at = "apply" => next.by = "command"
      BY DEF AfterIngest, Done, Idle, Applying, Cycling
    <3>5. ASSUME NEW p \in Path, NEW v \in {"safe", "unsafe"}, Ingest(p, v)
          PROVE  FALSE
      <4>1. PICK next \in AfterIngest(p, v, "command") :
              SaveThen(Register(fs[p], Ingested(p, v), v), next)
        BY <3>5 DEF Ingest
      <4>2. next.at = "apply" => next.by = "command"
        BY <3>4
      <4>3. job' \in {next, Idle, Cycling("switch")}
        BY <4>1 DEF SaveThen, Thrown
      <4> QED BY <4>2, <4>3 DEF Idle, Cycling
    <3> QED BY <1>2, <3>1, <3>3, <3>5 DEF Command
  <2>2. CASE SwitchMode
    <3> DEFINE m == CHOOSE other \in Mode : other # library.mode
               h == library.current[m]
    <3>1. /\ library' = [library EXCEPT !.mode = m]
          /\ job' = IF h \in Tracked /\ VisOf(h) \in Eligible(m)
                    THEN Applying(h, "switch") ELSE Cycling("switch")
      BY <2>2 DEF SwitchMode
    <3>2. h \in Tracked /\ VisOf(h) \in Eligible(m) /\ job'.target = h
      BY <3>1 DEF Applying, Cycling
    <3>3. library'.mode = m /\ library'.entry = library.entry
      <4> HIDE DEF m
      <4> QED BY <3>1 DEF IInv, TypeOK, Library
    <3> HIDE DEF m, h
    <3> QED BY <3>2, <3>3 DEF Available, Tracked, VisOf
  <2>3. ASSUME NEW p \in Path, Scan(p)
        PROVE  job'.target \in Available'
    <3>1. PICK v : /\ CanIngest(p, v)
                   /\ library' = Register(fs[p], Ingested(p, v), v)
                   /\ job' \in AfterIngest(p, v, "scan")
      BY <2>3 DEF Scan
    <3>2. v \in Eligible(library.mode) /\ job'.target = fs[p]
      BY <3>1 DEF AfterIngest, Done, Saving, Applying, Cycling
    <3>3. fs[p] \in Hash
      BY <3>1 DEF CanIngest, Exists, IInv, TypeOK
    <3>4. /\ library'.mode = library.mode
          /\ library'.entry[fs[p]] = [path |-> Ingested(p, v), vis |-> v]
      BY <3>1, <3>3 DEF Register, IInv, TypeOK, Library
    <3>5. [path |-> Ingested(p, v), vis |-> v] # None
      <4>1. v \in Visibility
        BY <3>2 DEF Eligible, Visibility
      <4>2. Ingested(p, v) \in Path
        BY <4>1, RootOfVisibility DEF Ingested, Path
      <4> QED BY <4>1, <4>2, NoneAssumption DEF Entry
    <3> QED BY <3>2, <3>3, <3>4, <3>5 DEF Available, Tracked, VisOf
  <2> QED BY <2>1, <2>2, <2>3
<1>3. CASE World
  <2>1. ~Restart
    BY DEF Restart, Idle
  <2>2. library' = library /\ job' = job
    BY <1>3, <2>1 DEF World, SetterChanges, Download, RemoveFile, ShowExternally, Remount
  <2> QED BY <2>2 DEF SwitchTarget, Available, Tracked, VisOf
<1>4. CASE UNCHANGED vars
  BY <1>4 DEF vars, SwitchTarget, Available, Tracked, VisOf
<1> QED BY <1>1, <1>2, <1>3, <1>4 DEF Next

LEMMA ConfinementStep == IInv /\ SwitchTarget /\ [Next]_vars => [SwitchConfined]_vars
<1> SUFFICES ASSUME IInv, SwitchTarget, Next, "save" \notin Faults,
                    job.by = "switch", job' = Idle, ~Restart
             PROVE  Available = {} \/ screen' \in {PathOf(h) : h \in Available}
  BY DEF SwitchConfined
<1>1. job # Idle /\ Cycling("switch") # Idle /\ job # Saving
  BY DEF Idle, Cycling, Saving
<1>2. CASE ApplyPending
  <2>1. job.target \in Available
    BY <1>2 DEF ApplyPending, SwitchTarget
  <2>2. screen' = PathOf(job.target)
    BY <1>1, <1>2 DEF ApplyPending, Attempt, SaveThen
  <2> QED BY <2>1, <2>2
<1>3. CASE CycleOnce
  <2>1. PICK seen \in Observed : \E h \in Picked(seen) : Attempt(h, Done(job.by), job)
    BY <1>3 DEF CycleOnce
  <2>2. PICK h \in Picked(seen) : Attempt(h, Done(job.by), job)
    BY <2>1
  <2>3. screen' = PathOf(h)
    BY <1>1, <2>2 DEF Attempt, SaveThen
  <2>4. h \in Available
    BY <2>2, PickedIsAvailable DEF IInv
  <2> QED BY <2>3, <2>4
<1>4. CASE NothingAvailable
  BY <1>4 DEF NothingAvailable
<1>5. ~SaveScanned
  <2>1. job \in Job
    BY DEF IInv, TypeOK
  <2>2. job.at # "save"
    BY <2>1 DEF Job, Idle, Saving, Cycling, Applying
  <2> QED BY <2>2 DEF SaveScanned
<1>6. ~Command
  BY <1>1 DEF Command, Cycle, Apply, SwitchMode, Ingest, Scan, CanIngest, Classify, Delete,
              Rename
<1>7. ~World
  BY <1>1 DEF World, SetterChanges, Download, RemoveFile, ShowExternally, Remount
<1> QED BY <1>2, <1>3, <1>4, <1>5, <1>6, <1>7 DEF Next, Work

\* When no save throws, a switch to safe mode that returns while a Safe wallpaper is
\* left has put one on the screen.
THEOREM ModeSwitchConfines == Spec => Confinement
<1>1. Init => SwitchTarget
  BY DEF Init, SwitchTarget, Idle
<1> QED
  BY <1>1, SwitchTargetStep, ConfinementStep, IInvariant, PTL DEF Spec, Confinement
=============================================================================
