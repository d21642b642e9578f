-------------------------- MODULE EngineFilesProofs --------------------------
(***************************************************************************)
(* Where the files are.  As long as different contents never share a file  *)
(* name, what the engine tracks is on disk where it says, in sight or not, *)
(* for every set of digests and names and every combination of faults but  *)
(* one; what it shows is what it tracks and not quarantined; and without   *)
(* removable disks, restarts and second downloads of a wallpaper, no file  *)
(* is in a managed root that the manifest does not know.                   *)
(***************************************************************************)
EXTENDS EngineProofs

-----------------------------------------------------------------------------
(* The invariants.                                                         *)

\* Users never give one name to two different contents.
OwnNamesOnly == \A g, h \in Hash : g # h => NamesOf[g] \intersect NamesOf[h] = {}

NamedIn(lib) ==
  \A h \in Hash : lib.entry[h] # None => lib.entry[h].path.name \in NamesOf[h]

\* Files and entries have names that users gave to their content.
Named ==
  /\ \A p \in Path : fs[p] # None => p.name \in NamesOf[fs[p]]
  /\ \A p \in Path : hidden[p] # None => p.name \in NamesOf[hidden[p]]
  /\ NamedIn(library) /\ NamedIn(disk)

Gone(p) == fs[p] = None /\ hidden[p] = None

\* No entry names a path without a file, in sight or not, unless somebody else
\* removed it.
PresentIn(lib) ==
  "remove" \notin Faults =>
    \A h \in Hash : lib.entry[h] # None => ~Gone(lib.entry[h].path)

Present == PresentIn(library) /\ ("restart" \in Faults => PresentIn(disk))

\* Only a new name that leads to the download directory puts a tracked wallpaper there.
HousedIn(lib) ==
  "downloads" \notin RenameInto =>
    \A h \in Hash : lib.entry[h] # None => lib.entry[h].path.root # "downloads"

Housed == HousedIn(library) /\ HousedIn(disk)

NInv == IInv /\ Named
PInv == NInv /\ Housed /\ Present

\* There is one file with a content at most.
OneCopy == \A p, q \in Path : fs[p] = fs[q] /\ fs[p] # None => p = q

FInv == NInv /\ OneCopy /\ FilesTracked

-----------------------------------------------------------------------------
(* What a step does to the files and to the entries of the manifest.       *)

\* After a handler the manifest on disk is the one in memory or still the old one.
WrittenUnless(excuse) == disk' = library' \/ (disk' = disk /\ excuse)

Keeps ==
  /\ UNCHANGED fs
  /\ library'.entry = library.entry
  /\ WrittenUnless(TRUE)

Forgets(h) ==
  /\ ~Exists(PathOf(h))
  /\ UNCHANGED fs
  /\ library'.entry = [library.entry EXCEPT ![h] = None]
  /\ WrittenUnless(TRUE)

Deletes(h) ==
  /\ fs' = IF Exists(PathOf(h)) THEN [fs EXCEPT ![PathOf(h)] = None] ELSE fs
  /\ library'.entry = [library.entry EXCEPT ![h] = None]
  /\ WrittenUnless("save" \in Faults)

Moves(p, q, v) ==
  /\ fs[p] \in Hash /\ q.name \in NamesOf[fs[p]]
  /\ q.root \in Managed \union RenameInto \/ \E h \in Tracked : PathOf(h).root = q.root
  /\ fs' = Moved(p, q)
  /\ library'.entry = [library.entry EXCEPT ![fs[p]] = [path |-> q, vis |-> v]]
  /\ WrittenUnless("save" \in Faults \/ p.root = "downloads")

Arrives(p, h) ==
  /\ p.root = "downloads" /\ p.name \in NamesOf[h] /\ fs[p] = None
  /\ Redownload \/ \A q \in Path : ~StoredAt(h, q)
  /\ fs' = [fs EXCEPT ![p] = h]
  /\ UNCHANGED <<library, disk>>

Vanishes(p) ==
  /\ "remove" \in Faults
  /\ fs' = [fs EXCEPT ![p] = None]
  /\ UNCHANGED <<library, disk>>

InPlace ==
  \/ Keeps \/ Restart
  \/ \E h \in Tracked : Forgets(h) \/ Deletes(h)
  \/ \E p, q \in Path, v \in Visibility : Moves(p, q, v)
  \/ \E p \in Path, h \in Hash : Arrives(p, h) \/ Vanishes(p)

FileStep == (InPlace /\ UNCHANGED hidden) \/ \E r \in Removable : Remount(r)

LEMMA SaveWrites ==
  ASSUME NEW lib, NEW next, SaveThen(lib, next)
  PROVE  library' = lib /\ WrittenUnless("save" \in Faults)
  BY DEF SaveThen, WrittenUnless

\* The engine never confuses two wallpapers: a file at the path of an entry, in sight
\* or not, has the content of that entry.
LEMMA ContentByName ==
  ASSUME OwnNamesOnly, NInv, NEW h \in Tracked
  PROVE  /\ fs[PathOf(h)] \in {h, None}
         /\ hidden[PathOf(h)] \in {h, None}
<1>1. PathOf(h) \in Path /\ h \in Hash
  BY TrackedEntry DEF NInv, IInv
<1>2. PathOf(h).name \in NamesOf[h]
  BY <1>1 DEF NInv, Named, NamedIn, Tracked, PathOf
<1>3. ASSUME NEW c \in Hash, PathOf(h).name \in NamesOf[c]
      PROVE  c = h
  BY <1>1, <1>2, <1>3 DEF OwnNamesOnly
<1>4. fs[PathOf(h)] # None => fs[PathOf(h)] = h
  BY <1>1, <1>3 DEF NInv, IInv, TypeOK, Named
<1>5. hidden[PathOf(h)] # None => hidden[PathOf(h)] = h
  BY <1>1, <1>3 DEF NInv, IInv, TypeOK, Named
<1> QED BY <1>4, <1>5

LEMMA EntriesAfter ==
  ASSUME TypeOK, NEW h \in Hash
  PROVE  /\ Forget(h).entry = [library.entry EXCEPT ![h] = None]
         /\ MarkShown(h).entry = library.entry
         /\ \A p, v : Register(h, p, v).entry = [library.entry EXCEPT ![h] = [path |-> p, vis |-> v]]
         /\ \A p, v : Relocate(h, p, v).entry = [library.entry EXCEPT ![h] = [path |-> p, vis |-> v]]
  BY DEF TypeOK, Library, Forget, MarkShown, Register, Relocate

LEMMA AttemptFiles ==
  ASSUME TypeOK, NEW h \in Hash, NEW succeeded, NEW failed,
         Attempt(h, succeeded, failed), UNCHANGED fs
  PROVE  Keeps \/ (h \in Tracked /\ Forgets(h))
<1>1. CASE Resolves(h) /\ SaveThen(MarkShown(h), succeeded)
  <2>1. library' = MarkShown(h) /\ WrittenUnless("save" \in Faults)
    BY <1>1, SaveWrites
  <2>2. MarkShown(h).entry = library.entry
    BY EntriesAfter
  <2> QED BY <2>1, <2>2 DEF Keeps, WrittenUnless
<1>2. CASE FileMissing(h) /\ SaveThen(Forget(h), failed)
  <2>1. library' = Forget(h) /\ WrittenUnless("save" \in Faults)
    BY <1>2, SaveWrites
  <2>2. Forget(h).entry = [library.entry EXCEPT ![h] = None]
    BY EntriesAfter
  <2> QED BY <1>2, <2>1, <2>2 DEF Forgets, FileMissing, WrittenUnless
<1>3. CASE UNCHANGED <<screen, library, disk>>
  BY <1>3 DEF Keeps, WrittenUnless
<1> QED BY <1>1, <1>2, <1>3 DEF Attempt

LEMMA WorkFiles ==
  ASSUME IInv, Work
  PROVE  InPlace /\ UNCHANGED hidden
<1>1. TypeOK /\ job \in Job
  BY DEF IInv, TypeOK
<1>2. CASE ApplyPending
  <2>1. job.target \in Hash
    BY <1>1, <1>2, JobFields DEF ApplyPending
  <2> QED BY <1>1, <1>2, <2>1, AttemptFiles DEF ApplyPending, InPlace, world
<1>3. CASE CycleOnce
  <2>1. PICK seen \in Observed : \E h \in Picked(seen) : Attempt(h, Done(job.by), job)
    BY <1>3 DEF CycleOnce
  <2>2. PICK h \in Picked(seen) : Attempt(h, Done(job.by), job)
    BY <2>1
  <2>3. h \in Hash
    BY <1>1, <2>2, PickedIsAvailable DEF Available, Tracked
  <2> QED BY <1>1, <1>3, <2>2, <2>3, AttemptFiles DEF CycleOnce, InPlace, world
<1>4. CASE NothingAvailable
  BY <1>4 DEF NothingAvailable, InPlace, Keeps, WrittenUnless, world
<1>5. CASE SaveScanned
  BY <1>5, SaveWrites DEF SaveScanned, InPlace, Keeps, WrittenUnless, world
<1> QED BY <1>2, <1>3, <1>4, <1>5 DEF Work

LEMMA CommandFiles ==
  ASSUME OwnNamesOnly, NInv, Command
  PROVE  InPlace /\ UNCHANGED hidden
<1>1. TypeOK /\ IInv
  BY DEF NInv, IInv
<1>2. CASE Cycle \/ \E h \in Hash : Apply(h)
  BY <1>2 DEF Cycle, Apply, InPlace, Keeps, WrittenUnless, world
<1>3. CASE SwitchMode
  BY <1>1, <1>3 DEF SwitchMode, InPlace, Keeps, WrittenUnless, world, TypeOK, Library
<1>4. ASSUME NEW h \in Hash, Delete(h)
      PROVE  InPlace /\ UNCHANGED hidden
  <2>1. h \in Tracked /\ Deletes(h)
    BY <1>1, <1>4, SaveWrites, EntriesAfter DEF Delete, Deletes
  <2> QED BY <1>4, <2>1 DEF InPlace, Delete, world
<1>5. ASSUME NEW h \in Hash, NEW q \in Path, NEW v \in Visibility,
             h \in Tracked, Exists(PathOf(h)), q.name \in NamesOf[h],
             q.root \in Managed \union RenameInto \union {PathOf(h).root},
             fs' = Moved(PathOf(h), q), SaveThen(Relocate(h, q, v), Idle)
      PROVE  InPlace
  <2>1. PathOf(h) \in Path
    BY <1>1, <1>5, TrackedEntry
  <2>2. fs[PathOf(h)] = h
    BY <1>5, ContentByName DEF Exists
  <2>3. library'.entry = [library.entry EXCEPT ![h] = [path |-> q, vis |-> v]]
        /\ WrittenUnless("save" \in Faults)
    <3>1. library' = Relocate(h, q, v) /\ WrittenUnless("save" \in Faults)
      BY <1>5, SaveWrites
    <3>2. Relocate(h, q, v).entry = [library.entry EXCEPT ![h] = [path |-> q, vis |-> v]]
      BY <1>1 DEF TypeOK, Library, Relocate
    <3> QED BY <3>1, <3>2
  <2>4. Moves(PathOf(h), q, v)
    BY <1>5, <2>2, <2>3 DEF Moves, WrittenUnless
  <2> QED BY <2>1, <2>4 DEF InPlace
<1>6. ASSUME NEW h \in Hash, h \in Tracked, ~Exists(PathOf(h)),
             SaveThen(Forget(h), Idle), UNCHANGED fs
      PROVE  InPlace
  <2>1. Forgets(h)
    BY <1>1, <1>6, SaveWrites, EntriesAfter DEF Forgets, WrittenUnless
  <2> QED BY <1>6, <2>1 DEF InPlace
<1>7. ASSUME NEW h \in Hash, NEW v \in Visibility, Classify(h, v)
      PROVE  InPlace /\ UNCHANGED hidden
  <2> DEFINE p == PathOf(h)
             q == [root |-> RootOf(v), name |-> p.name]
  <2>1. h \in Tracked /\ UNCHANGED hidden
    BY <1>7 DEF Classify, world
  <2>2. p \in Path /\ q \in Path /\ p.name \in NamesOf[h] /\ q.name = p.name /\ q.root \in Managed
    <3>1. p \in Path /\ p.name \in NamesOf[h]
      BY <1>1, <2>1, TrackedEntry DEF NInv, Named, NamedIn, Tracked, PathOf
    <3> QED BY <3>1, RootOfVisibility DEF Path
  <2>3. \/ ~Exists(p) /\ SaveThen(Forget(h), Idle) /\ UNCHANGED fs
        \/ Exists(p) /\ fs' = Moved(p, q) /\ SaveThen(Relocate(h, q, v), Idle)
    BY <1>7 DEF Classify
  <2> QED BY <2>1, <2>2, <2>3, <1>5, <1>6
<1>8. ASSUME NEW h \in Hash, NEW q \in Path, Rename(h, q)
      PROVE  InPlace /\ UNCHANGED hidden
  <2> DEFINE p == PathOf(h)
  <2>1. /\ h \in Tracked /\ UNCHANGED hidden
        /\ q.name \in NamesOf[h] /\ q.root \in RenameInto \union {p.root}
    BY <1>8 DEF Rename, world
  <2>2. VisOf(h) \in Visibility
    BY <1>1, <2>1, TrackedEntry
  <2>3. \/ ~Exists(p) /\ SaveThen(Forget(h), Idle) /\ UNCHANGED fs
        \/ Exists(p) /\ fs' = Moved(p, q) /\ SaveThen(Relocate(h, q, VisOf(h)), Idle)
    BY <1>8 DEF Rename
  <2> QED BY <2>1, <2>2, <2>3, <1>5, <1>6
<1>9. ASSUME NEW p \in Path, NEW v \in Visibility, CanIngest(p, v),
             library' = Register(fs[p], Ingested(p, v), v),
             WrittenUnless("save" \in Faults \/ p.root = "downloads")
      PROVE  InPlace
  <2>1. fs[p] \in Hash
    BY <1>1, <1>9 DEF TypeOK, CanIngest, Exists
  <2>2. /\ Ingested(p, v) \in Path /\ Ingested(p, v).name = p.name
        /\ Ingested(p, v).root \in Managed
    BY RootOfVisibility DEF Ingested, Path
  <2>3. p.name \in NamesOf[fs[p]]
    BY <1>9, <2>1, NoneAssumption DEF NInv, Named
  <2>4. Moves(p, Ingested(p, v), v)
    <3>1. library'.entry = [library.entry EXCEPT ![fs[p]] = [path |-> Ingested(p, v), vis |-> v]]
      <4>1. Register(fs[p], Ingested(p, v), v).entry =
              [library.entry EXCEPT ![fs[p]] = [path |-> Ingested(p, v), vis |-> v]]
        <5>1. \A q, w : Register(fs[p], q, w).entry =
                          [library.entry EXCEPT ![fs[p]] = [path |-> q, vis |-> w]]
          BY <1>1, <2>1, EntriesAfter
        <5> QED BY <5>1, Zenon
      <4> QED BY <1>9, <4>1, Zenon
    <3>2. fs' = Moved(p, Ingested(p, v))
      BY <1>9 DEF CanIngest
    <3> QED BY <1>9, <2>1, <2>2, <2>3, <3>1, <3>2, Zenon DEF Moves
  <2> QED BY <2>2, <2>4 DEF InPlace
<1>10. ASSUME NEW p \in Path, Scan(p)
       PROVE  InPlace /\ UNCHANGED hidden
  <2>1. PICK v \in Visibility :
          /\ CanIngest(p, v)
          /\ library' = Register(fs[p], Ingested(p, v), v)
    BY <1>1, <1>10, InputAssumption DEF Scan, TypeOK, Library, Mode, Visibility
  <2>2. p.root = "downloads" /\ disk' = disk /\ UNCHANGED hidden
    BY <1>10 DEF Scan, world
  <2> QED BY <2>1, <2>2, <1>9 DEF WrittenUnless
<1>11. ASSUME NEW p \in Path, NEW v \in {"safe", "unsafe"}, Ingest(p, v)
       PROVE  InPlace /\ UNCHANGED hidden
  <2>1. v \in Visibility
    BY DEF Visibility
  <2>2. library' = Register(fs[p], Ingested(p, v), v) /\ WrittenUnless("save" \in Faults)
    BY <1>11, SaveWrites DEF Ingest
  <2> QED BY <1>11, <2>1, <2>2, <1>9 DEF Ingest, WrittenUnless, world
<1>12. \A v \in ClassifyAs : v \in Visibility
  BY InputAssumption
<1> QED BY <1>2, <1>3, <1>4, <1>7, <1>8, <1>10, <1>11, <1>12 DEF Command

\* Every step is one of these.
LEMMA StepsOfFiles ==
  ASSUME OwnNamesOnly, NInv, [Next]_vars
  PROVE  FileStep
<1>1. CASE Work
  BY <1>1, WorkFiles DEF NInv, FileStep
<1>2. CASE Command
  BY <1>2, CommandFiles DEF FileStep
<1>3. CASE SetterChanges \/ (\E p \in Path : ShowExternally(p)) \/ UNCHANGED vars
  BY <1>3 DEF SetterChanges, ShowExternally, vars, world, FileStep, InPlace, Keeps, WrittenUnless
<1>4. CASE \E r \in Removable : Remount(r)
  BY <1>4 DEF FileStep
<1>5. CASE Restart
  BY <1>5 DEF FileStep, InPlace, Restart
<1>6. ASSUME NEW n \in Names, NEW h \in Hash, Download(n, h)
      PROVE  FileStep
  <2>1. [root |-> "downloads", name |-> n] \in Path
    BY DEF Path, Root
  <2>2. Arrives([root |-> "downloads", name |-> n], h) /\ UNCHANGED hidden
    BY <1>6 DEF Download, Arrives, world
  <2> QED BY <2>1, <2>2 DEF FileStep, InPlace
<1>7. ASSUME NEW p \in Path, RemoveFile(p)
      PROVE  FileStep
  <2>1. Vanishes(p) /\ UNCHANGED hidden /\ \E h \in Hash : TRUE
    BY <1>7 DEF RemoveFile, Vanishes, world, Exists, NInv, IInv, TypeOK
  <2> QED BY <2>1 DEF FileStep, InPlace
<1> QED BY <1>1, <1>2, <1>3, <1>4, <1>5, <1>6, <1>7 DEF Next, World

-----------------------------------------------------------------------------
(* Names stay with their content.                                          *)

\* The manifest on disk is one that was in memory.
LEMMA DiskAfter ==
  ASSUME FileStep
  PROVE  disk' = disk \/ disk' = library'
  BY DEF FileStep, InPlace, Keeps, Forgets, Deletes, Moves, Arrives, Vanishes, Restart, Remount,
         WrittenUnless

\* A file that appears at a path has a name that its content goes by.
LEMMA FilesAfter ==
  ASSUME TypeOK, InPlace, NEW p \in Path, fs'[p] # None, fs'[p] # fs[p]
  PROVE  p.name \in NamesOf[fs'[p]]
<1>1. fs' # fs
  OBVIOUS
<1>2. ASSUME NEW h \in Tracked, Deletes(h)
      PROVE  FALSE
  BY <1>1, <1>2, TrackedEntry DEF Deletes, TypeOK
<1>3. ASSUME NEW r \in Path, NEW q \in Path, NEW v \in Visibility, Moves(r, q, v)
      PROVE  p.name \in NamesOf[fs'[p]]
  <2>1. fs' = [fs EXCEPT ![r] = None, ![q] = fs[r]] /\ q.name \in NamesOf[fs[r]]
    BY <1>3 DEF Moves, Moved
  <2> QED BY <2>1 DEF TypeOK
<1>4. ASSUME NEW q \in Path, NEW h \in Hash, Arrives(q, h) \/ Vanishes(q)
      PROVE  p.name \in NamesOf[fs'[p]]
  BY <1>4 DEF Arrives, Vanishes, TypeOK
<1> QED BY <1>1, <1>2, <1>3, <1>4 DEF InPlace, Keeps, Restart, Forgets

\* An entry is the old one, the saved one, or that of the file that was moved.
LEMMA EntryAfter ==
  ASSUME TypeOK, InPlace \/ UNCHANGED library,
         NEW h \in Hash, library'.entry[h] # None
  PROVE  \/ library'.entry[h] = library.entry[h]
         \/ library'.entry[h] = disk.entry[h]
         \/ \E p, q \in Path, v \in Visibility : Moves(p, q, v) /\ fs[p] = h
                                              /\ library'.entry[h].path = q
<1>1. CASE UNCHANGED library \/ library'.entry = library.entry \/ Restart
  BY <1>1 DEF Restart
<1>2. ASSUME NEW g \in Tracked, Forgets(g) \/ Deletes(g)
      PROVE  library'.entry[h] = library.entry[h]
  BY <1>2 DEF Forgets, Deletes, TypeOK, Library
<1>3. ASSUME NEW p \in Path, NEW q \in Path, NEW v \in Visibility, Moves(p, q, v)
      PROVE  \/ library'.entry[h] = library.entry[h]
             \/ fs[p] = h /\ library'.entry[h].path = q
  <2>1. library'.entry = [library.entry EXCEPT ![fs[p]] = [path |-> q, vis |-> v]]
    BY <1>3 DEF Moves
  <2> QED BY <2>1 DEF TypeOK, Library
<1> QED BY <1>1, <1>2, <1>3 DEF InPlace, Keeps, Arrives, Vanishes

LEMMA NamedStep ==
  ASSUME TypeOK, TypeOK', Named, FileStep
  PROVE  Named'
<1>1. Path = Path' /\ Hash = Hash' /\ NamesOf' = NamesOf /\ None' = None
  OBVIOUS
<1>2. ASSUME NEW p \in Path
      PROVE  /\ fs'[p] # None => p.name \in NamesOf[fs'[p]]
             /\ hidden'[p] # None => p.name \in NamesOf[hidden'[p]]
  <2>1. CASE InPlace /\ UNCHANGED hidden
    <3>1. fs'[p] # None => p.name \in NamesOf[fs'[p]]
      BY <2>1, FilesAfter DEF Named
    <3> QED BY <2>1, <3>1 DEF Named
  <2>2. CASE \E r \in Removable : Remount(r)
    BY <2>2 DEF Remount, Named
  <2> QED BY <2>1, <2>2 DEF FileStep
<1>3. ASSUME NEW h \in Hash, library'.entry[h] # None
      PROVE  library'.entry[h].path.name \in NamesOf[h]
  <2>1. InPlace \/ UNCHANGED library
    BY DEF FileStep, Remount
  <2>2. CASE \E p, q \in Path, v \in Visibility : Moves(p, q, v) /\ fs[p] = h
                                              /\ library'.entry[h].path = q
    BY <2>2 DEF Moves
  <2> QED BY <1>3, <2>1, <2>2, EntryAfter DEF Named, NamedIn
<1>4. ASSUME NEW h \in Hash, disk'.entry[h] # None
      PROVE  disk'.entry[h].path.name \in NamesOf[h]
  BY <1>3, <1>4, DiskAfter DEF Named, NamedIn
<1> QED BY <1>2, <1>3, <1>4 DEF Named, NamedIn

LEMMA InitNamed == Init => NInv
  BY InitIInv DEF Init, NInv, Named, NamedIn, EmptyLibrary

LEMMA NamesKeep ==
  ASSUME OwnNamesOnly, NInv, [Next]_vars
  PROVE  NInv'
  BY NextKeeps, NamedStep, StepsOfFiles DEF NInv, IInv

-----------------------------------------------------------------------------
(* What is tracked is there.                                               *)

\* A restart never brings a wallpaper back whose file an operation of the engine
\* took away: the daemon is never restarted; or saves do not fail and nothing tracked
\* is in the download directory, where a scan would move it before it saves; or other
\* hands remove files anyway.
SavedOrUp ==
  \/ "remove" \in Faults \/ "restart" \notin Faults
  \/ "save" \notin Faults /\ "downloads" \notin RenameInto

LEMMA HousedStep ==
  ASSUME TypeOK, Housed, FileStep
  PROVE  Housed'
<1> SUFFICES ASSUME "downloads" \notin RenameInto PROVE Housed'
  BY DEF Housed, HousedIn
<1>1. ASSUME NEW h \in Hash, library'.entry[h] # None
      PROVE  library'.entry[h].path.root # "downloads"
  <2>1. InPlace \/ UNCHANGED library
    BY DEF FileStep, Remount
  <2>2. ASSUME NEW p \in Path, NEW q \in Path, NEW v \in Visibility, Moves(p, q, v)
        PROVE  q.root # "downloads"
    BY <2>2 DEF Moves, Managed, Housed, HousedIn, Tracked, PathOf
  <2> QED BY <1>1, <2>1, <2>2, EntryAfter DEF Housed, HousedIn
<1>2. ASSUME NEW h \in Hash, disk'.entry[h] # None
      PROVE  disk'.entry[h].path.root # "downloads"
  BY <1>1, <1>2, DiskAfter DEF Housed, HousedIn
<1> QED BY <1>1, <1>2 DEF Housed, HousedIn

\* A step that takes no file away and registers nothing.
LEMMA PresentWhereKept ==
  ASSUME "remove" \notin Faults, TypeOK, Present,
         \A p \in Path : Gone(p)' => Gone(p),
         \A h \in Hash : library'.entry[h] # None =>
            \/ library'.entry[h] = library.entry[h]
            \/ "restart" \in Faults /\ library'.entry[h] = disk.entry[h],
         disk' \in {disk, library'}
  PROVE  Present'
<1>1. \A h \in Hash : /\ library.entry[h] # None => library.entry[h].path \in Path
                      /\ disk.entry[h] # None => disk.entry[h].path \in Path
  BY DEF TypeOK, Library, Entry
<1>2. ASSUME NEW h \in Hash, library.entry[h] # None
      PROVE  ~Gone(library.entry[h].path) /\ library.entry[h].path \in Path
  BY <1>1, <1>2 DEF Present, PresentIn
<1>3. ASSUME NEW h \in Hash, disk.entry[h] # None, "restart" \in Faults
      PROVE  ~Gone(disk.entry[h].path) /\ disk.entry[h].path \in Path
  BY <1>1, <1>3 DEF Present, PresentIn
<1>4. ASSUME NEW h \in Hash, library'.entry[h] # None
      PROVE  ~(Gone(library.entry[h].path)')
  <2>1. PICK p \in Path : p = library'.entry[h].path /\ ~Gone(p)
    BY <1>2, <1>3, <1>4
  <2>2. ~(Gone(p)')
    BY <2>1
  <2> QED BY <2>1, <2>2 DEF Gone
<1>5. ASSUME NEW h \in Hash, disk'.entry[h] # None, "restart" \in Faults
      PROVE  ~(Gone(disk.entry[h].path)')
  <2>1. CASE disk' = library'
    BY <1>4, <1>5, <2>1 DEF Gone
  <2>2. CASE disk' = disk
    <3>1. PICK p \in Path : p = disk'.entry[h].path /\ ~Gone(p)
      BY <1>3, <1>5, <2>2
    <3>2. ~(Gone(p)')
      BY <3>1
    <3> QED BY <3>1, <3>2 DEF Gone
  <2> QED BY <2>1, <2>2
<1> QED BY <1>4, <1>5 DEF Present, PresentIn, Gone

LEMMA PresentStep ==
  ASSUME OwnNamesOnly, SavedOrUp, PInv, FileStep
  PROVE  Present'
<1> SUFFICES ASSUME "remove" \notin Faults PROVE Present'
  BY DEF Present, PresentIn
<1>1. TypeOK /\ NInv /\ Present
  BY DEF PInv, NInv, IInv
<1>2. /\ \A h \in Hash : library.entry[h] # None => ~Gone(library.entry[h].path)
      /\ "restart" \in Faults =>
           \A h \in Hash : disk.entry[h] # None => ~Gone(disk.entry[h].path)
  BY DEF PInv, Present, PresentIn
<1>3. disk' \in {disk, library'}
  BY DiskAfter
<1>4. CASE InPlace /\ UNCHANGED hidden /\ (Keeps \/ Restart)
  <2>1. \A p \in Path : Gone(p)' => Gone(p)
    BY <1>4 DEF Keeps, Restart, Gone
  <2>2. \A h \in Hash :
          \/ library'.entry[h] = library.entry[h]
          \/ "restart" \in Faults /\ library'.entry[h] = disk.entry[h]
    <3>1. CASE Keeps
      BY <3>1 DEF Keeps
    <3>2. CASE Restart
      BY <3>2 DEF Restart
    <3> QED BY <1>4, <3>1, <3>2
  <2> QED BY <1>1, <1>3, <2>1, <2>2, PresentWhereKept
<1>5. ASSUME NEW h \in Tracked, Forgets(h), UNCHANGED hidden
      PROVE  Present'
  <2>1. \A p \in Path : Gone(p)' => Gone(p)
    BY <1>5 DEF Forgets, Gone
  <2>2. \A g \in Hash : library'.entry[g] # None => library'.entry[g] = library.entry[g]
    BY <1>1, <1>5 DEF Forgets, TypeOK, Library
  <2> QED BY <1>1, <1>3, <2>1, <2>2, PresentWhereKept
<1>6. ASSUME NEW h \in Tracked, Deletes(h), UNCHANGED hidden
      PROVE  Present'
  <2>1. library'.entry = [library.entry EXCEPT ![h] = None]
        /\ fs' = IF Exists(PathOf(h)) THEN [fs EXCEPT ![PathOf(h)] = None] ELSE fs
    BY <1>6 DEF Deletes
  <2>2. ASSUME NEW g \in Hash, library'.entry[g] # None
        PROVE  ~(Gone(library.entry[g].path)')
    <3>1. g # h /\ library'.entry[g] = library.entry[g] /\ g \in Tracked
      BY <1>1, <2>1, <2>2 DEF TypeOK, Library, Tracked
    <3>2. PathOf(g) # PathOf(h)
      BY <1>1, <3>1, TrackedEntry DEF NInv, Named, NamedIn, OwnNamesOnly, Tracked, PathOf
    <3>3. ~Gone(PathOf(g)) /\ PathOf(g) \in Path /\ PathOf(h) \in Path
      BY <1>1, <1>2, <3>1, TrackedEntry DEF Tracked, PathOf
    <3>4. fs'[PathOf(g)] = fs[PathOf(g)]
      BY <1>1, <2>1, <3>2, <3>3 DEF TypeOK
    <3> QED BY <1>6, <3>1, <3>3, <3>4 DEF Gone, PathOf
  <2>3. "restart" \in Faults => disk' = library'
    BY <1>6 DEF Deletes, WrittenUnless, SavedOrUp
  <2> QED BY <2>2, <2>3 DEF Present, PresentIn, Gone
<1>7. ASSUME NEW p \in Path, NEW q \in Path, NEW v \in Visibility, Moves(p, q, v),
             UNCHANGED hidden
      PROVE  Present'
  <2>1. PICK c \in Hash : c = fs[p]
    BY <1>7 DEF Moves
  <2>2. /\ q.name \in NamesOf[c]
        /\ fs' = [fs EXCEPT ![p] = None, ![q] = c]
        /\ library'.entry = [library.entry EXCEPT ![c] = [path |-> q, vis |-> v]]
        /\ disk' = library' \/ (disk' = disk /\ ("save" \in Faults \/ p.root = "downloads"))
    BY <1>7, <2>1 DEF Moves, Moved, WrittenUnless
  <2>3. c # None /\ p.name \in NamesOf[c]
    BY <2>1, NoneAssumption DEF PInv, NInv, Named
  <2>4. fs'[q] = c
    BY <1>1, <2>2 DEF TypeOK
  <2>5. ASSUME NEW r \in Path, ~Gone(r), r # p
        PROVE  ~(Gone(r)')
    BY <1>1, <1>7, <2>2, <2>3, <2>5 DEF TypeOK, Gone
  <2>6. ASSUME NEW g \in Hash, library'.entry[g] # None
        PROVE  ~(Gone(library.entry[g].path)')
    <3>1. CASE g = c
      <4>1. library'.entry[g].path = q
        BY <1>1, <2>2, <3>1 DEF TypeOK, Library
      <4> QED BY <2>3, <2>4, <4>1 DEF Gone
    <3>2. CASE g # c
      <4>1. library'.entry[g] = library.entry[g] /\ g \in Tracked
        BY <1>1, <2>2, <2>6, <3>2 DEF TypeOK, Library, Tracked
      <4>2. ~Gone(PathOf(g)) /\ PathOf(g) \in Path /\ PathOf(g).name \in NamesOf[g]
        BY <1>1, <1>2, <4>1, TrackedEntry DEF NInv, Named, NamedIn, Tracked, PathOf
      <4>3. PathOf(g) # p
        BY <2>3, <3>2, <4>2 DEF OwnNamesOnly
      <4>4. ~(Gone(PathOf(g))')
        <5>1. PICK r \in Path : r = PathOf(g)
          BY <4>2
        <5>2. ~Gone(r) /\ r # p
          BY <4>2, <4>3, <5>1
        <5>3. ~(Gone(r)')
          BY <2>5, <5>2
        <5>4. PathOf(g)' = r
          BY <4>1, <5>1 DEF PathOf
        <5> QED BY <5>3, <5>4 DEF Gone
      <4> QED BY <4>4 DEF Gone, PathOf
    <3> QED BY <3>1, <3>2
  <2>7. ASSUME "restart" \in Faults, NEW g \in Hash, disk'.entry[g] # None, disk' # library'
        PROVE  ~(Gone(disk.entry[g].path)')
    <3>1. disk' = disk /\ p.root = "downloads" /\ "downloads" \notin RenameInto
      BY <2>2, <2>7 DEF SavedOrUp
    <3>2. disk.entry[g] \in Entry /\ disk.entry[g].path.root # "downloads"
      BY <1>1, <2>7, <3>1 DEF PInv, Housed, HousedIn, TypeOK, Library
    <3>3. PICK r \in Path : r = disk.entry[g].path
      BY <3>2 DEF Entry
    <3>4. r # p /\ ~Gone(r)
      BY <1>2, <2>7, <3>1, <3>2, <3>3
    <3>5. ~(Gone(r)')
      BY <2>5, <3>4
    <3> QED BY <3>1, <3>3, <3>5 DEF Gone
  <2> QED BY <2>6, <2>7 DEF Present, PresentIn, Gone
<1>8. ASSUME NEW p \in Path, NEW h \in Hash, Arrives(p, h), UNCHANGED hidden
      PROVE  Present'
  <2>1. fs' = [fs EXCEPT ![p] = h] /\ UNCHANGED <<library, disk>> /\ h # None
    BY <1>8, NoneAssumption DEF Arrives
  <2>2. \A r \in Path : Gone(r)' => Gone(r)
    BY <1>1, <1>8, <2>1 DEF TypeOK, Gone
  <2> QED BY <1>1, <1>3, <2>1, <2>2, PresentWhereKept
<1>9. ASSUME NEW r \in Removable, Remount(r)
      PROVE  Present'
  <2>1. \A p \in Path : Gone(p)' => Gone(p)
    BY <1>9 DEF Remount, Gone
  <2> QED BY <1>1, <1>3, <1>9, <2>1, PresentWhereKept DEF Remount
<1> QED BY <1>4, <1>5, <1>6, <1>7, <1>8, <1>9 DEF FileStep, InPlace, Vanishes

LEMMA PresentKeeps ==
  ASSUME OwnNamesOnly, SavedOrUp, PInv, [Next]_vars
  PROVE  PInv'
<1>1. FileStep /\ NInv' /\ TypeOK
  BY NamesKeep, StepsOfFiles DEF PInv, NInv, IInv
<1> QED BY <1>1, PresentStep, HousedStep DEF PInv

\* When users never give one name to two contents, a tracked wallpaper is where its
\* entry says: a file in sight there has the tracked digest, and one with that digest
\* is there, if only on a disk that is away, unless somebody else has removed it
\* (classify, renameWallpaper, ingest, scan and load).
THEOREM TrackedWhereTheyAre ==
  OwnNamesOnly /\ SavedOrUp => (Spec => []TrackedContent)
<1> SUFFICES ASSUME OwnNamesOnly, SavedOrUp PROVE Spec => []TrackedContent
  OBVIOUS
<1>1. Init => PInv
  BY InitNamed DEF PInv, Present, PresentIn, Housed, HousedIn, Init, EmptyLibrary
<1>2. PInv /\ [Next]_vars => PInv'
  BY PresentKeeps
<1>3. ASSUME PInv, NEW h \in Tracked
      PROVE  /\ fs[PathOf(h)] \in {h, None}
             /\ StoredAt(h, PathOf(h)) \/ "remove" \in Faults
  <2>1. fs[PathOf(h)] \in {h, None} /\ hidden[PathOf(h)] \in {h, None}
    BY <1>3, ContentByName DEF PInv
  <2>2. ~Gone(PathOf(h)) \/ "remove" \in Faults
    BY <1>3 DEF PInv, Present, PresentIn, Tracked, PathOf
  <2> QED BY <2>1, <2>2 DEF Gone, StoredAt
<1>4. PInv => TrackedContent
  BY <1>3 DEF TrackedContent
<1> QED BY <1>1, <1>2, <1>4, PTL DEF Spec

-----------------------------------------------------------------------------
(* What is shown.                                                          *)

\* What an applyWallpaper shows is the content it was called for, and not quarantined.
LEMMA AttemptShows ==
  ASSUME OwnNamesOnly, NInv, NEW h, NEW succeeded, NEW failed,
         Attempt(h, succeeded, failed), screen' # screen
  PROVE  h \in Tracked /\ fs[screen'] = h /\ VisOf(h) # "unclassified"
<1>1. Resolves(h) /\ screen' = PathOf(h)
  BY DEF Attempt
<1> QED BY <1>1, ContentByName DEF Resolves, Exists

\* When users never give one name to two contents, a file that the engine puts on the
\* screen is that of a tracked wallpaper that is not Unclassified, and only APPLY and
\* INGEST put one there that was not found eligible, wherever the files were renamed
\* to (resolve, toggleMode, resolveActiveIngestion and cycle).
THEOREM Quarantine == OwnNamesOnly => (Spec => QuarantineHeld)
<1> SUFFICES ASSUME OwnNamesOnly PROVE Spec => [][ShowsEligible]_vars
  BY DEF QuarantineHeld
<1>1. Init => NInv /\ SwitchTarget
  BY InitNamed DEF Init, SwitchTarget, Idle
<1>2. NInv /\ SwitchTarget /\ [Next]_vars => (NInv /\ SwitchTarget)'
  BY NamesKeep, SwitchTargetStep DEF NInv
<1>3. ASSUME NInv, SwitchTarget, Work, screen' # screen
      PROVE  \E h \in Tracked :
               /\ fs[screen'] = h
               /\ VisOf(h) # "unclassified"
               /\ VisOf(h) \in Eligible(library.mode) \/ job = Applying(h, "command")
  <2>1. TypeOK /\ job \in Job
    BY <1>3 DEF NInv, IInv, TypeOK
  <2>2. CASE ApplyPending
    <3>1. PICK h \in Hash, by \in Handler : job = Applying(h, by)
      BY <2>1, <2>2 DEF ApplyPending, Job, Idle, Saving, Cycling
    <3>2. h \in Tracked /\ fs[screen'] = h /\ VisOf(h) # "unclassified"
      BY <1>3, <2>2, <3>1, AttemptShows DEF ApplyPending, Applying
    <3>3. by # "command" => h \in Available
      BY <1>3, <3>1 DEF SwitchTarget, Applying
    <3> QED BY <3>1, <3>2, <3>3 DEF Available
  <2>3. CASE CycleOnce
    <3>1. PICK seen \in Observed : \E h \in Picked(seen) : Attempt(h, Done(job.by), job)
      BY <2>3 DEF CycleOnce
    <3>2. PICK h \in Picked(seen) : Attempt(h, Done(job.by), job)
      BY <3>1
    <3>3. h \in Tracked /\ fs[screen'] = h /\ VisOf(h) # "unclassified"
      BY <1>3, <3>2, AttemptShows
    <3>4. h \in Available
      BY <2>1, <3>2, PickedIsAvailable
    <3> QED BY <3>3, <3>4 DEF Available
  <2> QED BY <1>3, <2>2, <2>3 DEF Work, NothingAvailable, SaveScanned
<1>4. NInv /\ SwitchTarget /\ [Next]_vars => [ShowsEligible]_vars
  BY <1>3 DEF ShowsEligible
<1> QED BY <1>1, <1>2, <1>4, PTL DEF Spec

-----------------------------------------------------------------------------
(* What is there is tracked.                                               *)

LEMMA OneCopyStep ==
  ASSUME ~Redownload, TypeOK, OneCopy, InPlace
  PROVE  OneCopy'
<1> SUFFICES ASSUME NEW r \in Path, NEW s \in Path, fs'[r] = fs'[s], fs'[r] # None
             PROVE  r = s
  BY DEF OneCopy
<1>1. CASE UNCHANGED fs
  BY <1>1 DEF OneCopy
<1>2. ASSUME NEW p \in Path, fs' = [fs EXCEPT ![p] = None]
      PROVE  r = s
  BY <1>2 DEF OneCopy, TypeOK
<1>3. ASSUME NEW h \in Tracked, Deletes(h)
      PROVE  r = s
  BY <1>1, <1>2, <1>3, TrackedEntry DEF Deletes
<1>4. ASSUME NEW p \in Path, NEW q \in Path, NEW v \in Visibility, Moves(p, q, v)
      PROVE  r = s
  <2>1. fs' = [fs EXCEPT ![p] = None, ![q] = fs[p]]
    BY <1>4 DEF Moves, Moved
  <2> QED BY <2>1 DEF OneCopy, TypeOK
<1>5. ASSUME NEW p \in Path, NEW h \in Hash, Arrives(p, h)
      PROVE  r = s
  <2>1. fs' = [fs EXCEPT ![p] = h] /\ \A q \in Path : fs[q] # h
    BY <1>5 DEF Arrives, StoredAt
  <2> QED BY <2>1 DEF OneCopy, TypeOK
<1> QED BY <1>1, <1>2, <1>3, <1>4, <1>5 DEF InPlace, Keeps, Restart, Forgets, Vanishes

LEMMA FilesTrackedStep ==
  ASSUME "restart" \notin Faults, FInv, InPlace
  PROVE  FilesTracked'
<1> SUFFICES ASSUME NEW r \in Path, r.root \in Managed, fs'[r] # None
             PROVE  /\ fs'[r] \in Hash
                    /\ library'.entry[fs'[r]] # None
                    /\ library'.entry[fs'[r]].path = r
  BY DEF FilesTracked, Tracked, PathOf
<1>1. TypeOK
  BY DEF FInv, NInv, IInv
<1>2. ASSUME fs[r] # None
      PROVE  fs[r] \in Hash /\ library.entry[fs[r]] # None /\ library.entry[fs[r]].path = r
  BY <1>2 DEF FInv, FilesTracked, Tracked, PathOf
<1>3. CASE UNCHANGED fs /\ library'.entry = library.entry
  BY <1>2, <1>3
<1>4. ASSUME NEW h \in Tracked, Forgets(h) \/ Deletes(h)
      PROVE  /\ fs'[r] \in Hash
             /\ library'.entry[fs'[r]] # None
             /\ library'.entry[fs'[r]].path = r
  <2>1. PathOf(h) \in Path /\ h \in Hash
    BY <1>1, <1>4, TrackedEntry
  <2>2. fs'[PathOf(h)] = None
    BY <1>1, <1>4, <2>1 DEF Forgets, Deletes, Exists, TypeOK
  <2>3. r # PathOf(h) /\ fs'[r] = fs[r]
    BY <1>1, <1>4, <2>1, <2>2 DEF Forgets, Deletes, TypeOK
  <2>4. fs[r] # h
    BY <1>2, <2>3 DEF PathOf
  <2>5. library'.entry = [library.entry EXCEPT ![h] = None]
    BY <1>4 DEF Forgets, Deletes
  <2> QED BY <1>1, <1>2, <2>3, <2>4, <2>5 DEF TypeOK, Library
<1>5. ASSUME NEW p \in Path, NEW q \in Path, NEW v \in Visibility, Moves(p, q, v)
      PROVE  /\ fs'[r] \in Hash
             /\ library'.entry[fs'[r]] # None
             /\ library'.entry[fs'[r]].path = r
  <2>1. PICK c \in Hash : c = fs[p]
    BY <1>5 DEF Moves
  <2>2. /\ fs' = [fs EXCEPT ![p] = None, ![q] = c]
        /\ library'.entry = [library.entry EXCEPT ![c] = [path |-> q, vis |-> v]]
    BY <1>5, <2>1 DEF Moves, Moved
  <2>3. [path |-> q, vis |-> v] # None
    BY <1>5, NoneAssumption DEF Entry
  <2>4. CASE r = q
    BY <1>1, <2>2, <2>3, <2>4 DEF TypeOK, Library
  <2>5. CASE r # q
    <3>1. r # p /\ fs'[r] = fs[r]
      BY <1>1, <2>2, <2>5 DEF TypeOK
    <3>2. fs[r] # c
      BY <2>1, <3>1 DEF FInv, OneCopy
    <3> QED BY <1>1, <1>2, <2>2, <3>1, <3>2 DEF TypeOK, Library
  <2> QED BY <2>4, <2>5
<1>6. ASSUME NEW p \in Path, NEW h \in Hash, Arrives(p, h) \/ Vanishes(p)
      PROVE  fs'[r] = fs[r] /\ UNCHANGED library
  BY <1>1, <1>6 DEF Arrives, Vanishes, TypeOK, Managed
<1> QED BY <1>2, <1>3, <1>4, <1>5, <1>6 DEF InPlace, Keeps, Restart

\* When users never give one name to two contents, a wallpaper that is still on disk
\* does not arrive again, no disk is removable and the daemon stays up, every file in
\* a managed root is tracked where it is: no operation leaves a copy in the root of
\* another visibility (the moves of engine.hpp and wallpaperStore.hpp).
THEOREM EveryFileTracked ==
  OwnNamesOnly /\ ~Redownload /\ Removable = {} /\ "restart" \notin Faults
  => (Spec => []FilesTracked)
<1> SUFFICES ASSUME OwnNamesOnly, ~Redownload, Removable = {}, "restart" \notin Faults
             PROVE  Spec => []FilesTracked
  OBVIOUS
<1>1. Init => FInv
  BY InitNamed DEF FInv, OneCopy, FilesTracked, Init
<1>2. ASSUME FInv, [Next]_vars
      PROVE  FInv'
  <2>1. InPlace /\ NInv'
    BY <1>2, StepsOfFiles, NamesKeep DEF FInv, FileStep
  <2>2. OneCopy' /\ FilesTracked'
    BY <1>2, <2>1, OneCopyStep, FilesTrackedStep DEF FInv, NInv, IInv
  <2> QED BY <1>2, <2>1, <2>2 DEF FInv
<1>3. FInv => FilesTracked
  BY DEF FInv
<1> QED BY <1>1, <1>2, <1>3, PTL DEF Spec

\* As long as no disk is removable, no handler forgets a wallpaper whose file is
\* there (applyWallpaper, classify, renameWallpaper and deleteWallpaper): the step
\* that MCEngineUnmounted shows needs a disk that is away.
THEOREM MountedNotForgotten ==
  OwnNamesOnly /\ Removable = {} => (Spec => ForgottenWhenGone)
<1> DEFINE Step == \A h \in Tracked : ~ForgottenStored(h)
           MInv == NInv /\ \A p \in Path : hidden[p] = None
<1> SUFFICES ASSUME OwnNamesOnly, Removable = {}
             PROVE  Spec => [][Step]_vars
  BY DEF ForgottenWhenGone
<1>1. Init => MInv
  BY InitNamed DEF Init
<1>2. ASSUME MInv, [Next]_vars
      PROVE  MInv' /\ InPlace /\ UNCHANGED hidden
  BY <1>2, NamesKeep, StepsOfFiles DEF FileStep
<1>3. ASSUME MInv, [Next]_vars, NEW h \in Tracked, ForgottenStored(h)
      PROVE  FALSE
  <2>1. InPlace /\ UNCHANGED hidden /\ TypeOK
    BY <1>2, <1>3 DEF NInv, IInv
  <2>2. h \in Hash /\ library.entry[h] # None /\ library'.entry[h] = None /\ ~Restart
    BY <1>3 DEF Tracked, ForgottenStored
  <2>3. ASSUME NEW p \in Path, NEW q \in Path, NEW v \in Visibility, Moves(p, q, v)
        PROVE  FALSE
    <3>1. [path |-> q, vis |-> v] # None
      BY NoneAssumption DEF Entry
    <3> QED BY <2>1, <2>2, <2>3, <3>1 DEF Moves, TypeOK, Library
  <2>4. Forgets(h) \/ Deletes(h)
    <3>1. PICK g \in Tracked : Forgets(g) \/ Deletes(g)
      BY <2>1, <2>2, <2>3 DEF InPlace, Keeps, Arrives, Vanishes
    <3>2. library'.entry = [library.entry EXCEPT ![g] = None]
      BY <3>1 DEF Forgets, Deletes
    <3> QED BY <2>1, <2>2, <3>1, <3>2 DEF TypeOK, Library
  <2>5. PathOf(h) \in Path
    BY <2>1, TrackedEntry
  <2>6. fs'[PathOf(h)] = None
    BY <2>1, <2>4, <2>5 DEF Forgets, Deletes, Exists, TypeOK
  <2>7. hidden'[PathOf(h)] = None
    BY <1>3, <2>1, <2>5
  <2>8. h \in {fs'[PathOf(h)], hidden'[PathOf(h)]}
    BY <1>3 DEF ForgottenStored
  <2> QED BY <2>2, <2>6, <2>7, <2>8, NoneAssumption
<1>4. MInv /\ [Next]_vars => MInv'
  BY <1>2
<1>5. MInv /\ [Next]_vars => [Step]_vars
  BY <1>3
<1> QED BY <1>1, <1>4, <1>5, PTL DEF Spec
=============================================================================
