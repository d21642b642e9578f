------------------------------- MODULE Engine -------------------------------
(***************************************************************************)
(* The daemon's engine (lib/core/engine.hpp) with the wallpaper store, the *)
(* setter and the files it moves: what each command, the scanner and the   *)
(* auto-cycler do while they hold the engine mutex, in a world where files *)
(* disappear, roots are unmounted, the setter command fails, other         *)
(* programs set wallpapers and the daemon is restarted.                    *)
(*                                                                         *)
(* A handler that runs no external command is one step.  applyWallpaper    *)
(* and each iteration of the loop of cycle() are steps of their own, so    *)
(* the world can change between them; job says which one the holder of the *)
(* mutex is at.  The manifest is the abstract index that module Manifest   *)
(* implements: at most one entry for a digest.  Timestamps are reduced to  *)
(* the order they put on the wallpapers.  An operation of the code that    *)
(* throws before it changed anything is a stuttering step.                 *)
(***************************************************************************)
EXTENDS Naturals, FiniteSets

CONSTANTS
  Hash,             \* SHA-256 digests; a digest stands for the file's content
  Names,            \* file names
  None,             \* an absent optional, no file
  NamesOf,          \* NamesOf[h]: the names users give to files with content h
  Occurs,           \* <<m, n>>: name m is a substring of a path to a file n
  RenameInto,       \* roots that a new name with separators in it can lead to
  Redownload,       \* whether content that is still on disk may arrive again
  IngestFrom,       \* roots that users ingest files from
  ClassifyAs,       \* visibilities that users classify as
  ExternalRoots,    \* roots whose files other programs set as the wallpaper
  DefaultIngestion, \* Settings::defaultIngestionVisibility
  SetterFailures,   \* the sets of contents the setter command may fail on
  Removable,        \* managed roots on a disk that comes and goes
  Faults,           \* what else goes wrong
  MaxFiles          \* bound: files on disk at a time

Root       == {"public", "private", "unclassified", "downloads"}
Managed    == Root \ {"downloads"}
Path       == [root : Root, name : Names]
Mode       == {"safe", "unsafe"}
Visibility == {"safe", "unsafe", "unclassified"}
Entry      == [path : Path, vis : Visibility]

FaultKinds == {"remove", "getter", "save", "restart"}

ASSUME NoneAssumption  == None \notin Hash \union Path \union Entry
ASSUME InputAssumption ==
  /\ NamesOf \in [Hash -> SUBSET Names]
  /\ Occurs \subseteq Names \X Names
  /\ \A n \in Names : <<n, n>> \in Occurs
  /\ RenameInto \subseteq Root
  /\ IngestFrom \subseteq Root
  /\ ClassifyAs \subseteq Visibility
  /\ ExternalRoots \subseteq Root
  /\ DefaultIngestion \in Visibility \union {"current"}
  /\ SetterFailures \subseteq SUBSET Hash
  /\ Removable \subseteq Managed
  /\ Faults \subseteq FaultKinds

VARIABLES
  fs,          \* the content of every path, or None
  hidden,      \* files at the same paths out of sight: those of a disk that is away,
               \* or those below the one that is mounted
  mounted,     \* the roots whose own disk is there
  standin,     \* the roots that a start-up made a directory for while theirs was away
  unsettable,  \* the contents the setter command fails on at present
  screen,      \* what the getter command answers: the path last set, or None
  library,     \* Engine::manifest
  disk,        \* the manifest the file at manifestPath holds
  job          \* what the holder of the engine mutex is doing

vars  == <<fs, hidden, mounted, standin, unsettable, screen, library, disk, job>>
world == <<hidden, mounted, standin, unsettable>>

\* A Manifest with its State: current["safe"] is publicCurrent and
\* current["unsafe"] is privateCurrent.  <<g, h>> \in shown when g and h have a
\* lastShown and g's is not after h's.
Library == [mode    : Mode,
            current : [Mode -> Hash \union {None}],
            entry   : [Hash -> Entry \union {None}],
            shown   : SUBSET (Hash \X Hash)]

\* What the holder of the engine mutex is at: nothing, an applyWallpaper, the loop
\* of cycle(), or the save that ends the scanner's processFile.  by says which kind
\* of handler it is.
Idle            == [at |-> "idle",  target |-> None, by |-> "none"]
Applying(h, by) == [at |-> "apply", target |-> h,    by |-> by]
Cycling(by)     == [at |-> "cycle", target |-> None, by |-> by]
Saving          == [at |-> "save",  target |-> None, by |-> "scan"]

Handler == {"command", "switch", "scan"}
Job == {Idle, Saving} \union {Cycling(by) : by \in Handler}
       \union {Applying(h, by) : h \in Hash, by \in Handler}

\* Where the handler goes when its work with the screen is over: the scanner
\* still has to save.
Done(by) == IF by = "scan" THEN Saving ELSE Idle

\* Where an exception out of save() goes: toggleMode and setMode catch one from
\* applyWallpaper and cycle, anything else ends the handler.
Thrown == IF job.at = "apply" /\ job.by = "switch" THEN Cycling("switch") ELSE Idle

EmptyLibrary == [mode    |-> "safe",
                 current |-> [m \in Mode |-> None],
                 entry   |-> [h \in Hash |-> None],
                 shown   |-> {}]

Init ==
  /\ fs = [p \in Path |-> None]
  /\ hidden = [p \in Path |-> None]
  /\ mounted = Root
  /\ standin = {}
  /\ unsettable \in SetterFailures
  /\ screen = None
  /\ library = EmptyLibrary
  /\ disk = EmptyLibrary
  /\ job = Idle

-----------------------------------------------------------------------------
(* Reading the state.                                                      *)

RootOf(v) == CASE v = "safe"   -> "public"
               [] v = "unsafe" -> "private"
               [] OTHER        -> "unclassified"

\* Manifest::current: the visibilities a mode may show.
Eligible(m) == IF m = "safe" THEN {"safe"} ELSE {"safe", "unsafe"}

Tracked   == {h \in Hash : library.entry[h] # None}
PathOf(h) == library.entry[h].path
VisOf(h)  == library.entry[h].vis

Available == {h \in Tracked : VisOf(h) \in Eligible(library.mode)}

Directory(r) == r \in mounted \union standin
Exists(p)    == fs[p] # None

\* What the getter command may answer: it can also fail.
Observed == {screen} \union (IF "getter" \in Faults THEN {None} ELSE {})

\* Mutant of Resolves: resolve without its quarantine check.
ResolvesQuarantined(h) ==
  h \in Tracked /\ Directory(RootOf(VisOf(h))) /\ Exists(PathOf(h))

\* Mutant of FileMissing: resolve without its check of the root.
FileMissingOrUnmounted(h) ==
  h \in Tracked /\ VisOf(h) # "unclassified" /\ ~Exists(PathOf(h))

\* WallpaperStore::resolve returns the path, or the error FileMissing; in every
\* other case it returns another error.
Resolves(h) ==
  /\ h \in Tracked
  /\ VisOf(h) # "unclassified"
  /\ Directory(RootOf(VisOf(h)))
  /\ Exists(PathOf(h))

FileMissing(h) ==
  /\ h \in Tracked
  /\ VisOf(h) # "unclassified"
  /\ Directory(RootOf(VisOf(h)))
  /\ ~Exists(PathOf(h))

-----------------------------------------------------------------------------
(* Changing the manifest and the files.                                    *)

Unshown(h) == {pair \in library.shown : h \notin {pair[1], pair[2]}}

WasShown(h) == <<h, h>> \in library.shown

\* Mutant of Forget: the entry of a missing file stays.
ForgetNothing(h) == library

\* deleteWallpaper of the manifest.
Forget(h) == [library EXCEPT !.entry[h] = None, !.shown = Unshown(h)]

\* registerWallpaper: a new wallpaper, never shown, whatever was there before.
Register(h, p, v) ==
  [library EXCEPT !.entry[h] = [path |-> p, vis |-> v], !.shown = Unshown(h)]

\* Mutants of Relocate: one of the two fields is not updated.
RelocatePathOnly(h, p, v) == [library EXCEPT !.entry[h].path = p]
RelocateVisOnly(h, p, v)  == [library EXCEPT !.entry[h].vis = v]

\* The edit that ends classify and renameWallpaper.
Relocate(h, p, v) == [library EXCEPT !.entry[h] = [path |-> p, vis |-> v]]

\* Mutant of MarkShown: lastShown is not set.
MarkCurrentOnly(h) == [library EXCEPT !.current[library.mode] = h]

\* applyWallpaper after the setter ran: lastShown is now, and the mode's current
\* wallpaper is h.
MarkShown(h) ==
  [library EXCEPT
     !.current[library.mode] = h,
     !.shown = Unshown(h) \union {<<g, h>> : g \in {g \in Hash : WasShown(g)} \union {h}}]

\* FileSystem::move replaces whatever is at q.
Moved(p, q) == [fs EXCEPT ![p] = None, ![q] = fs[p]]

\* The manifest becomes lib and ManifestStore::save writes it; when save throws,
\* only the memory has changed.
SaveThen(lib, next) ==
  /\ library' = lib
  /\ \/ disk' = lib /\ job' = next
     \/ "save" \in Faults /\ disk' = disk /\ job' = Thrown

-----------------------------------------------------------------------------
(* What the engine does in steps: applying a wallpaper and cycling.        *)

\* applyWallpaper(h).  It succeeds, finds that the file is gone and forgets the
\* wallpaper, or fails and changes nothing.
Attempt(h, succeeded, failed) ==
  \/ /\ Resolves(h) /\ h \notin unsettable
     /\ screen' = PathOf(h)
     /\ SaveThen(MarkShown(h), succeeded)
  \/ /\ FileMissing(h)
     /\ SaveThen(Forget(h), failed)
     /\ UNCHANGED screen
  \/ /\ ~FileMissing(h) /\ (Resolves(h) => h \in unsettable)
     /\ job' = failed
     /\ UNCHANGED <<screen, library, disk>>

\* Mutant of ApplyPending: a mode switch does not cycle when its target fails.
ApplyPendingGivesUp ==
  /\ job.at = "apply"
  /\ Attempt(job.target, Done(job.by), Done(job.by))
  /\ UNCHANGED <<fs, world>>

\* The pending applyWallpaper of APPLY, of a mode switch, or of an ingestion of
\* the file on the screen.  Only a mode switch goes on to cycle when it fails.
ApplyPending ==
  /\ job.at = "apply"
  /\ Attempt(job.target, Done(job.by),
             IF job.by = "switch" THEN Cycling("switch") ELSE Done(job.by))
  /\ UNCHANGED <<fs, world>>

\* What cycle() leaves out when there is a choice: the mode's current wallpaper
\* and every wallpaper whose file name occurs in the path on the screen.
Excluded(seen) ==
  {h \in Available :
     \/ library.current[library.mode] = h
     \/ seen # None /\ <<PathOf(h).name, seen.name>> \in Occurs}

Candidates(seen) ==
  IF \E g, h \in Available : g # h THEN Available \ Excluded(seen) ELSE Available

\* std::min_element by lastShown: those never shown come first.
Oldest(S) ==
  IF \E h \in S : ~WasShown(h)
  THEN {h \in S : ~WasShown(h)}
  ELSE {h \in S : \A g \in S : <<h, g>> \in library.shown}

\* When every candidate was erased the code dereferences end() of the list, which is
\* undefined behaviour: the build reads what the erased list began with, which may be
\* any of the wallpapers that may be shown.
LeftBehind(seen) == IF Candidates(seen) = {} THEN Available ELSE {}

\* The wallpaper the iteration applies.
Picked(seen) == Oldest(Candidates(seen)) \union LeftBehind(seen)

\* One iteration of the loop of cycle().
CycleOnce ==
  /\ job.at = "cycle"
  /\ \E seen \in Observed : \E h \in Picked(seen) :
       Attempt(h, Done(job.by), job)
  /\ UNCHANGED <<fs, world>>

\* cycle() returns without saving when nothing may be shown.
NothingAvailable ==
  /\ job.at = "cycle"
  /\ Available = {}
  /\ job' = Done(job.by)
  /\ UNCHANGED <<fs, world, screen, library, disk>>

\* Mutant of SaveScanned: the scanner does not save.
SaveScannedForgotten ==
  /\ job.at = "save"
  /\ job' = Idle
  /\ UNCHANGED <<fs, world, screen, library, disk>>

\* The save at the end of the scanner's processFile.
SaveScanned ==
  /\ job.at = "save"
  /\ SaveThen(library, Idle)
  /\ UNCHANGED <<fs, world, screen>>

Work == ApplyPending \/ CycleOnce \/ NothingAvailable \/ SaveScanned

-----------------------------------------------------------------------------
(* The commands, the scanner and the auto-cycler.  Each takes the mutex.   *)

\* CYCLE and the auto-cycler's cycleNow.
Cycle ==
  /\ job = Idle
  /\ job' = Cycling("command")
  /\ UNCHANGED <<fs, world, screen, library, disk>>

\* APPLY: the mode is not consulted.
Apply(h) ==
  /\ job = Idle
  /\ job' = Applying(h, "command")
  /\ UNCHANGED <<fs, world, screen, library, disk>>

\* Mutant of SwitchMode: the mode's current wallpaper is applied unchecked.
SwitchModeUnchecked ==
  LET m == CHOOSE other \in Mode : other # library.mode
  IN /\ job = Idle
     /\ library' = [library EXCEPT !.mode = m]
     /\ job' = Applying(library.current[m], "switch")
     /\ UNCHANGED <<fs, world, screen, disk>>

\* TOGGLE, and SET_MODE of the other mode: go back to the wallpaper the mode last
\* had, if it may still be shown in it, and cycle otherwise.
SwitchMode ==
  LET m == CHOOSE other \in Mode : other # library.mode
      h == library.current[m]
  IN /\ job = Idle
     /\ library' = [library EXCEPT !.mode = m]
     /\ job' = IF h \in Tracked /\ VisOf(h) \in Eligible(m)
               THEN Applying(h, "switch") ELSE Cycling("switch")
     /\ UNCHANGED <<fs, world, screen, disk>>

\* WallpaperStore::ingest of the file at p: hash it, move it to the root of its
\* visibility, register it.
Ingested(p, v) == [root |-> RootOf(v), name |-> p.name]

\* resolveActiveIngestion: if p was on the screen, show it at its new path or
\* show something else.
AfterIngest(p, v, by) ==
  {IF seen # p THEN Done(by)
   ELSE IF v \in Eligible(library.mode) THEN Applying(fs[p], by)
   ELSE Cycling(by) : seen \in Observed}

CanIngest(p, v) ==
  /\ job = Idle
  /\ Exists(p)
  /\ Directory(RootOf(v))
  /\ fs' = Moved(p, Ingested(p, v))

\* INGEST_SAFE and INGEST_UNSAFE: saved before the screen is resolved.
Ingest(p, v) ==
  /\ p.root \in IngestFrom
  /\ CanIngest(p, v)
  /\ \E next \in AfterIngest(p, v, "command") :
       SaveThen(Register(fs[p], Ingested(p, v), v), next)
  /\ UNCHANGED <<world, screen>>

\* The scanner's processFile: saved after the screen is resolved.
Scan(p) ==
  LET v == IF DefaultIngestion = "current" THEN library.mode ELSE DefaultIngestion
  IN /\ p.root = "downloads"
     /\ CanIngest(p, v)
     /\ library' = Register(fs[p], Ingested(p, v), v)
     /\ job' \in AfterIngest(p, v, "scan")
     /\ UNCHANGED <<world, screen, disk>>

\* CLASSIFY: a file that does not exist costs the wallpaper its entry.
Classify(h, v) ==
  /\ job = Idle
  /\ h \in Tracked /\ VisOf(h) # v
  /\ LET p == PathOf(h)
         q == [root |-> RootOf(v), name |-> p.name]
     IN \/ /\ ~Exists(p)
           /\ SaveThen(Forget(h), Idle)
           /\ UNCHANGED fs
        \/ /\ Exists(p) /\ Directory(q.root)
           /\ fs' = Moved(p, q)
           /\ SaveThen(Relocate(h, q, v), Idle)
  /\ UNCHANGED <<world, screen>>

\* Mutant of Delete: the file stays.
DeleteEntryOnly(h) ==
  /\ job = Idle
  /\ h \in Tracked
  /\ SaveThen(Forget(h), Idle)
  /\ UNCHANGED <<fs, world, screen>>

\* DELETE: the file is removed if it exists.
Delete(h) ==
  /\ job = Idle
  /\ h \in Tracked
  /\ fs' = IF Exists(PathOf(h)) THEN [fs EXCEPT ![PathOf(h)] = None] ELSE fs
  /\ SaveThen(Forget(h), Idle)
  /\ UNCHANGED <<world, screen>>

\* RENAME: the new name is appended to the directory of the file unchecked, so that q
\* is in the same directory, or wherever separators in the name lead.  The visibility
\* stays.
Rename(h, q) ==
  /\ job = Idle
  /\ h \in Tracked
  /\ q.name \in NamesOf[h] /\ q.root \in RenameInto \union {PathOf(h).root}
  /\ LET p == PathOf(h)
     IN \/ /\ ~Exists(p)
           /\ SaveThen(Forget(h), Idle)
           /\ UNCHANGED fs
        \/ /\ Exists(p) /\ p # q /\ Directory(q.root)
           /\ fs' = Moved(p, q)
           /\ SaveThen(Relocate(h, q, VisOf(h)), Idle)
  /\ UNCHANGED <<world, screen>>

Command ==
  \/ Cycle \/ SwitchMode
  \/ \E h \in Hash :
       \/ Apply(h)
       \/ Delete(h)
       \/ \E v \in ClassifyAs : Classify(h, v)
       \/ \E q \in Path : Rename(h, q)
  \/ \E p \in Path :
       \/ Scan(p)
       \/ \E v \in {"safe", "unsafe"} : Ingest(p, v)

-----------------------------------------------------------------------------
(* The world around the daemon.                                            *)

\* The disks still hold a file with content h at p, in sight or not.
StoredAt(h, p) == h \in {fs[p], hidden[p]}

\* A file with content h arrives in the download directory.
Download(n, h) ==
  LET p == [root |-> "downloads", name |-> n]
  IN /\ fs[p] = None /\ n \in NamesOf[h]
     /\ Cardinality({q \in Path : fs[q] # None}) +
        Cardinality({q \in Path : hidden[q] # None}) < MaxFiles
     /\ Redownload \/ \A q \in Path : ~StoredAt(h, q)
     /\ fs' = [fs EXCEPT ![p] = h]
     /\ UNCHANGED <<world, screen, library, disk, job>>

\* Somebody else removes a file.
RemoveFile(p) ==
  /\ "remove" \in Faults
  /\ Exists(p)
  /\ fs' = [fs EXCEPT ![p] = None]
  /\ UNCHANGED <<world, screen, library, disk, job>>

\* Another program sets a file as the wallpaper.
ShowExternally(p) ==
  /\ p.root \in ExternalRoots
  /\ Exists(p)
  /\ screen' = p
  /\ UNCHANGED <<fs, world, library, disk, job>>

\* The disk of a managed root goes away with its files, or comes back with them: it
\* is mounted above the root, and what is seen at the paths of the root changes.
Remount(r) ==
  /\ mounted' = IF r \in mounted THEN mounted \ {r} ELSE mounted \union {r}
  /\ fs' = [p \in Path |-> IF p.root = r THEN hidden[p] ELSE fs[p]]
  /\ hidden' = [p \in Path |-> IF p.root = r THEN fs[p] ELSE hidden[p]]
  /\ UNCHANGED <<standin, unsettable, screen, library, disk, job>>

SetterChanges ==
  /\ unsettable' \in SetterFailures
  /\ UNCHANGED <<fs, hidden, mounted, standin, screen, library, disk, job>>

\* The daemon is killed and started again: it creates the directories that are not
\* there and loads the manifest from disk.
Restart ==
  /\ "restart" \in Faults
  /\ standin' = standin \union (Managed \ mounted)
  /\ library' = disk
  /\ job' = Idle
  /\ UNCHANGED <<fs, hidden, mounted, unsettable, screen, disk>>

World ==
  \/ SetterChanges \/ Restart
  \/ \E n \in Names, h \in Hash : Download(n, h)
  \/ \E p \in Path : RemoveFile(p) \/ ShowExternally(p)
  \/ \E r \in Removable : Remount(r)

Next == Work \/ Command \/ World

Spec == Init /\ [][Next]_vars

\* The holder of the mutex keeps running; nothing else is promised.
FairSpec == Spec /\ WF_vars(Work)

\* The auto-cycler's timer keeps going off as well.
CyclerSpec == FairSpec /\ WF_vars(Cycle)

-----------------------------------------------------------------------------
(* Properties.                                                             *)

\* The state the engine keeps has its type, in memory and on disk.
TypeOK ==
  /\ fs \in [Path -> Hash \union {None}]
  /\ hidden \in [Path -> Hash \union {None}]
  /\ mounted \subseteq Root
  /\ standin \subseteq Managed
  /\ unsettable \subseteq Hash
  /\ screen \in Path \union {None}
  /\ library \in Library
  /\ disk \in Library
  /\ job \in Job

\* File Placement: in memory and on disk, a wallpaper is tracked under the root
\* of its visibility, whatever was ingested, classified or reloaded.  A RENAME keeps
\* it there only as long as the new name is a plain one (RenameInto = {}).
WellPlaced(lib) ==
  \A h \in Hash :
    lib.entry[h] # None => lib.entry[h].path.root = RootOf(lib.entry[h].vis)

Placement == WellPlaced(library) /\ WellPlaced(disk)

\* Quarantine: a file that the engine puts on the screen, in whatever directory it is
\* by then, has the content of a tracked wallpaper that is not Unclassified; and only
\* a command that names it puts one on the screen that the mode does not show.
ShowsEligible ==
  Work /\ screen' # screen =>
    \E h \in Tracked :
      /\ fs[screen'] = h
      /\ VisOf(h) # "unclassified"
      /\ VisOf(h) \in Eligible(library.mode) \/ job = Applying(h, "command")

QuarantineHeld == [][ShowsEligible]_vars

\* When no save fails, a handler leaves the wallpapers, the current ones and the
\* history on disk as they are in memory, so that a restart loses none of them.
\* Only the scanner lags behind, between an ingestion and its save.
Persisted ==
  "save" \notin Faults /\ job.by # "scan" => disk = [library EXCEPT !.mode = disk.mode]

\* A tracked wallpaper is where its entry says: a file in sight there has the tracked
\* digest, and one with that digest is there, if only on a disk that is away, unless
\* somebody else has removed it.
TrackedContent ==
  \A h \in Tracked :
    /\ fs[PathOf(h)] \in {h, None}
    /\ StoredAt(h, PathOf(h)) \/ "remove" \in Faults

\* Every file in a managed root is tracked at the path where it is: no operation
\* leaves a copy of a wallpaper behind in the root of another visibility.
FilesTracked ==
  \A p \in Path : p.root \in Managed /\ fs[p] # None =>
    fs[p] \in Tracked /\ PathOf(fs[p]) = p

\* Strict State Confinement: when a switch to safe mode returns, a Safe wallpaper
\* was put on the screen, unless there is none left.  A save that throws can end
\* the switch earlier.
SwitchConfined ==
  /\ "save" \notin Faults
  /\ job.by = "switch" /\ library.mode = "safe"
  /\ job' = Idle /\ ~Restart
  => \/ Available = {}
     \/ screen' \in {PathOf(h) : h \in Available}

Confinement == [][SwitchConfined]_vars

\* The step erases the entry of h although a disk still holds its file.
ForgottenStored(h) ==
  /\ library'.entry[h] = None /\ ~Restart
  /\ h \in {fs'[PathOf(h)], hidden'[PathOf(h)]}

CycleForgetsStored(h) == job.at \in {"apply", "cycle"} /\ ForgottenStored(h)

\* Applying and cycling never forget a wallpaper whose file is on a disk that is away,
\* however often they fail: a missing root is not a missing file.  It holds as long as
\* no start-up made a directory in place of the root, for wallpapers that no RENAME took
\* out of the root that resolve looks at.
UnmountedSurvive ==
  [][\A h \in Tracked :
       PathOf(h).root = RootOf(VisOf(h)) /\ PathOf(h).root \notin standin
       => ~CycleForgetsStored(h)]_vars

\* Every handler returns and gives the mutex back: the loop of cycle() ends because
\* each iteration that shows nothing has one wallpaper less to try.
HandlersReturn == job.at # "idle" ~> job.at = "idle"

\* No name of h is part of a path to another wallpaper.
Distinct(h) ==
  \A g \in Hash \ {h} : \A m \in NamesOf[h], n \in NamesOf[g] : <<m, n>> \notin Occurs

OnlyCycling == <>[][Work \/ Cycle]_vars
ComesAgain(h) == []<>(h \in Available => screen = PathOf(h))

\* Oldest-shown rotation: once only the auto-cycler is at work, every wallpaper that
\* may be shown comes to the screen again and again, if its name is not part of a
\* path to another one.
Rotation == OnlyCycling => \A h \in {h \in Hash : Distinct(h)} : ComesAgain(h)

\* A wallpaper is only forgotten when its file is gone, or goes with it: a file on a
\* disk that is away is still there.
ForgottenWhenGone == [][\A h \in Tracked : ~ForgottenStored(h)]_vars
=============================================================================
