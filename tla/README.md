# Verification of occlude

TLA+ models of `occlude`, the wallpaper daemon in `src/`, with TLC runs and
TLAPS proofs. `PROJECT.json` maps every definition to the lines it models and
lists the runs, the theorems, the hazards and the findings.

    tlc -workers 2 -config MCEngineFiles.cfg MCEngine     # one run
    tlapm EngineProofs.tla                                # one proof module

## The system

`occluded` keeps a manifest of wallpapers, each classified as Safe, Unsafe or
Unclassified and kept in the root directory of its class. It answers commands on
a Unix socket, scans a download directory, and cycles the wallpaper on a timer.
`occlude` is its command line, `occlude-tui` its terminal interface.

| Component | State | Operations | Talks to | What makes it correct |
| :-- | :-- | :-- | :-- | :-- |
| Manifest (`lib/core/state`) | vector of wallpapers, table `byHash`, mode, current wallpaper of each mode | loadWallpaper, registerWallpaper, deleteWallpaper (swap and pop), in-place edits | called by the engine | the table is the inverse of the vector; seen from outside, a map keyed by digest |
| Engine (`lib/core/engine.hpp`) | owns the manifest and the settings | cycle, applyWallpaper, toggleMode, setMode, resolveActiveIngestion, classify, deleteWallpaper, renameWallpaper | stores, setter, files | entries and files agree; confinement; quarantine; the loop of cycle ends and rotates |
| WallpaperStore (`lib/io/wallpaperStore.hpp`) | none of its own | resolve, ingest | manifest, files | a missing root is not a missing file |
| ManifestStore (`lib/io/store.hpp`) | the file at `manifestPath` and its `.tmp` | load, save (write, sync, rename) | files | what is loaded is the last manifest saved |
| FileSystem (`lib/io/fs`) | the disk | exists, read, write, sync, move (rename, or copy and remove across devices), remove, hashFile | the OS | a move is all or nothing |
| Setter (`lib/io/setter.hpp`) | none | run, runYieldOutput | an external command | it returns |
| Scanner, auto-cycler (`apps/daemon`) | a thread each | scanNow and processFile; cycleNow | engine, under the engine mutex | a file is ingested once; each is serialised with the commands |
| Dispatcher, main loop | handlers | one command at a time | engine, under the engine mutex | every command is answered |
| IPC (`lib/ipc/ipc.hpp`) | a socket | accept, receive, send, connect | clients | one request, one answer; one daemon |
| TUI (`apps/tui`) | a cached dump, filter, selection, modals | keys, sync on a timer | IPC | it acts on what it shows |
| CLI, configuration, hash, log | none, or read once | | | |

What is hard here: three threads share the engine through one mutex, but the
world does not take it. Files vanish, roots are unmounted, other programs set
wallpapers, and the setter fails between any two steps. The manifest in memory, the
manifest on disk, the files and the screen are four copies of one truth, updated
one after the other, with a throw or a kill possible in between. The loop of
`cycle()` has no bound of its own. A file passes from a program that may still be
writing it to the scanner, which looks at it before it has the mutex. The terminal
interface acts on a copy of all this that is up to five seconds old.

## Modules

| Module | What it is |
| :-- | :-- |
| `WallpaperIndex` | abstract: a set of wallpapers in which no digest occurs twice |
| `Manifest` | `state.cpp`: vector and table; implements `WallpaperIndex` |
| `ManifestProofs` | the proofs about `Manifest` |
| `MCManifest` | the instance of `ManifestFile`, and with it of `Manifest`, for TLC |
| `Engine` | the engine, with the stores, the files, the screen and the world around them; built on the abstract index |
| `EngineProofs` | the proofs about `Engine`: types, placement, confinement, persistence, unmounted wallpapers |
| `EngineFilesProofs` | the proofs about `Engine` and its files, the quarantine included, from a premise on file names |
| `MCEngine` | its instances for TLC |
| `AtomicManifest` | abstract: the saved manifest changes from one version to the next at once |
| `ManifestStore` | `store.hpp` over `fs.cpp`: save step by step, and crashes; implements `AtomicManifest` |
| `ManifestStoreProofs` | the proofs about `ManifestStore` |
| `ManifestCodec` | the format of the manifest file, its writer and its reader |
| `ManifestFile` | `Manifest` composed with `ManifestCodec`: the file `save` makes of the vector in any state |
| `ManifestFileProofs` | the proofs about the format, for any manifest, and about `ManifestFile` |
| `MCManifestStore` | `ManifestStore` for TLC, with a symbolic format |
| `Ipc` | `ipc.hpp`: clients, daemons and the socket path |
| `IpcProofs` | the proofs about `Ipc` |
| `MCIpc` | its instance for TLC |
| `Daemon` | the threads of `occluded` around the engine mutex, and images on their way from the download directory into a root |
| `DaemonProofs` | the proofs about `Daemon` |
| `MCDaemon` | its instance for TLC |
| `Tui` | `occlude-tui` against a daemon that others use too |
| `TuiProofs` | the proofs about `Tui` |
| `MCTui` | its instance for TLC |

How they fit together: `Manifest` implements the index that `Engine` is built on;
`ManifestStore` implements the atomic save that `Engine` and `Daemon` take as one step;
`Daemon` takes the ingestion of `Engine` apart and lets the other handlers of
`Engine` be one step under the mutex; `Ipc` carries the commands, and `Tui` sends
them and takes one as executed or not.

### Manifest

`wallpapers` is the vector and `byHash` the table; slots count from 0 as in the
code. `PushBack`, `ReplaceInSlot`, `DeleteWallpaper` and `EditFirst` are the
operations; the fields nobody indexes by are one value, `data`. The refinement
maps the abstract set to the values of the vector, and `EachCall` adds to it which digest a
step is about: each call puts or drops the digest it was called for and leaves the wallpapers
of all others as they were.

### Engine

| Variable | Code |
| :-- | :-- |
| `library` | `Engine::manifest` with its `State`. `shown` is the order that the `lastShown` timestamps put on the wallpapers: timestamps are compared and never read otherwise |
| `disk` | what `ManifestStore::load` would read |
| `fs` | the content at every path that is in sight |
| `mounted`, `hidden` | the roots whose own disk is there; the files at the same paths out of sight: on a disk that is away, or below the one that is mounted |
| `standin` | the roots that a start-up made a directory for while their disk was away (`create_directories`, `main.cpp:28`) |
| `screen` | what the getter command reports |
| `unsettable` | the contents the setter command fails on just now |
| `job` | what the holder of the engine mutex is doing |

A digest stands for the content of a file. A path is a root and a file name, and stands for
where it leads, not for how it is spelt. RENAME joins the new name to the directory
unchecked (`engine.hpp:332`), so a name with separators leads into another directory:
`RenameInto` is the set of roots users name that way. Two
names matter to each other only through `Occurs`, because `cycle()` takes a
wallpaper for the one on the screen when its file name is a substring of the
reported path.

A managed root is below the mount point of its disk, so that the disk going away (`Remount`)
takes the root away with its files, and a daemon that is started meanwhile makes an
empty directory in its place. `resolve` then finds a root and no file, until the disk
is back and covers what was put there.

Granularity: a handler that runs no external command is one step. A handler that
does is split where external commands are: `applyWallpaper` is one step, and so is
each iteration of the loop of `cycle()`; the world moves between them, other handlers do
not, since the mutex is held. So TOGGLE is `SwitchMode`, then perhaps
`ApplyPending`, then some `CycleOnce`. The scanner saves in a step of its own
(`SaveScanned`), after the screen was resolved. `by` in `job` keeps what kind of
handler is running, because an exception out of `save` is caught in
`toggleMode` and `setMode`, where it leads to a cycle, and ends any other handler.
When every candidate of `cycle()` was erased the code dereferences `end()` of the list, which is
undefined. The build reads the pointer that the erased list began with, and that is one
of the wallpapers that may be shown; which one depends on what was erased, so
`LeftBehind` is all of them.

Operations that throw before they changed anything are stuttering steps. A save is
one step here, the whole file or an exception.

### ManifestStore

A file is two sequences of fields: `now`, what its readers get, and `disk`, what of it
would survive a power failure. `main` and `temp` are the files at `manifestPath` and
at `manifestPath.tmp`, `settled` is what the disk holds under the first name, because
a rename reaches the disk when the directory does and the code never syncs that.
`Save` is the edit and the call; `Open`, `Write` (a field at a time), `Close`,
`Sync` and `Rename` follow the code in order, and `Throw` is an exception out of
any of them. `Kill` and `PowerFailure` may come between any two steps, `Start` is
`load` at the next start-up. `Encode` and `Decode` are parameters with one
assumption: what was encoded is decoded again.

The refinement maps `AtomicManifest`'s `current` to what `load` would return now, its
`settled` to what it would return after a power failure, and `pending` to the
manifest in memory while a save is under way.

`ManifestCodec` writes and reads the file field by field as `BufferWriter` and
`BufferReader` do. A field of fixed size (an integer, a digest, a timestamp) is
one number, so that cutting the file inside such a field is the same as cutting it
before the field; widths and byte order are left out. As in the code, what is read goes into
the manifest by `loadWallpaper`: every slot comes back only because of `IndexConsistent`, since
two slots with one digest would be read into one.

### Ipc

What is sent is a text and a line break; a text is a sequence of words (from `Word`), and line
breaks (`Newline`) may be among them. CURRENT answers with what the getter printed less one
line break at its end (`dispatcher.cpp:125`, `setter.hpp:161`), so its answer may have several lines.
`receive` returns the first line of what comes: `Command(c)` is that of the request, `Reply(c)`
that of the answer, and what follows it is never delivered. `up` and `down` are the bytes on
their way in each connection; `text` is what an end has received so far or has left to
send. The daemon goes through `Launching` (`Server::create`) and `Looping` (`main`),
a client through one call: connect, send, receive. The socket path is one
variable; a daemon that is killed leaves it behind, one whose bind fails removes it
although it belongs to another (`BindFails`). Executing the command is one step
here; what it does is `Engine`.

### Daemon

| Variable | Code |
| :-- | :-- |
| `dl`, `root` | how much of an image the file under its name holds, in `defaultDownloadDirectory` and in its managed root |
| `open` | where the program that downloads it has its file open |
| `tracked`, `disk` | the digests in `Engine::manifest` and in the manifest file |
| `pc`, `todo`, `file`, `command` | where the scanner, the cycler and the main thread are: the entries `scanNow` has before it, the file `processFile` or `handleIngest` is at, the command being served |
| `mutex`, `step`, `digest` | the holder of `engineMutex`, what it is at, what its `hashFile` returned |
| `excused` | auxiliary: images whose ingestion was killed between move and save, or whose save threw, until a later save wrote them |

`NextEntry` is one turn of the loop in `scanNow`, without the mutex; `Acquire`
is the `lock_guard` of `processFile`, `cycleNow` and the handlers. Then `HashFile`;
`Rename`, or `CopyBegins`, `CopyEnds` and `RemoveSource` when the root is on another
device; `ResolveActive` and `SaveIngested`, in this order for the scanner and in the
other for INGEST. `Throws` is every exception under the mutex, with what catches it:
`processFile` itself, so that the scan goes on, or `main`, which answers `ERR`.
Outside the program, `Begin` and `Write` are a browser, which puts an empty
file under the final name and renames a temporary one over it, or a program that writes
in place; a file that is moved by a rename is followed by its writer, one that is copied is
not. `Create` may fail, and then `Stops` and `Exit` are the destructors at the end of
`main` in their order: cycler, scanner, mutex, engine. What the other holders of the
mutex do is `OtherWork`: they save, throw, or do neither.

### Tui

| Variable | Code |
| :-- | :-- |
| `tracked`, `mode` | what the daemon would answer to DUMP |
| `view`, `viewMode` | `allWallpapers`, `systemMode` |
| `list`, `cursor` | `filteredWallpapers`, `selectedIndex + 1` |
| `selected`, `filter` | `selectedHashes`, `filterText` |
| `layer` | which of the list, the search field and the five `show...Modal` gets the keys |
| `at`, `pending` | whether the thread waits for an event, for commands or for DUMP; the commands of the event still to be sent |
| `stale`, `asked` | auxiliary: others changed the daemon or a dump failed since the last dump; the wallpapers the open dialog was opened for |

One event is a key action followed by its requests: `Request` or `Confirm`, then
one `Send` per command, then `Dumped` or `DumpFails`. `Elsewhere` may come between any
two of them and is everything others do. `Send` executes the command or does not: the
daemon answered with an error, or was not reached. An executed TOGGLE may also forget wallpapers
whose files are gone, because the switch applies and cycles, and SCAN takes in
downloads, re-points tracked digests that it finds among them (`wallpaperStore.hpp:68`), and may
cycle too. `MayChange` says which wallpapers a command may change besides those it names, and
`ActsOnAsked` excepts these. `Type` rebuilds the list with the text as
it was before the key, as `FilterEventHandler` does. The three sort modes are one: after
every sort the list may be in any order. A dump that is answered can be parsed: the code
of the daemon writes what the code of the interface reads.

## Runs

| Run | Question | Bounds and why they are enough |
| :-- | :-- | :-- |
| `manifest` | Does the table stay the inverse of the vector, does every call of the vector act on its own digest as on a map, and is the file written of it recognised when it is cut short and read back when it is whole? | four digests: deleting at the front, in the middle, at the end and from a vector of one, in every order; two kinds of wallpaper and a current wallpaper, so that every optional field is once there and once not |
| `engine_files` | Does every file in a managed root have its entry, and does the quarantine hold? | two contents (one to act on and one to interfere), one of which has two names; renames into `unclassifiedRoot` and the download directory; ingestion from the download directory and from `publicRoot`. The view leaves out the manifest on disk, which nobody reads without a restart |
| `engine_faults` | What survives unmounts, setter outages and restarts? | two contents; the disk of `publicRoot` may go and come back at any time; the setter may fail for all contents; a restart between any two steps, which makes a directory where the disk is away |
| `engine_cycle` | Does every handler end, and does the rotation reach every wallpaper? | three Safe wallpapers: with two, excluding the current one leaves no choice; files removed at any time, saves that throw, a getter that fails; one name is part of another one, so that the substring test of `engine.hpp:62` leaves out a wallpaper that is not shown. The same view |
| `store` | Is a save atomic, whatever fails and whenever the daemon stops, and can it be started again? | three versions of two to four fields: old, new, and one before that whose `.tmp` is left over; calls that fail |
| `ipc` | Does each client get its own answer, and does the daemon survive its clients? | two daemons on one path; two clients, with requests of two, one or no words against reads of at most two words, so that lines arrive in pieces; a request and an answer with a line break within; a queue of one, so that a client may have to wait |
| `daemon` | Is an image ever lost, forgotten or left in the download directory, whatever the threads, the writers and the failures do, and is every command answered? | two images: one from a browser, whose moves may fail at any point and for ever, and one written in place, which must get past it; the scanner, the server with SCAN, INGEST, CURRENT or another command, and the cycler; kills and restarts without bound |
| `tui` | Does the interface act on what its user saw and asked for? | two wallpapers: with two, the cursor, the selection and the list can disagree; two names and two texts, one of which filters one name out; Safe and Unsafe |
| `store_short`, `engine_redownload`, `engine_broken`, `engine_unmounted` | the findings below | |

In `tui` no wallpaper is Unclassified, which only makes APPLY refuse more, to stay
at 1.2 million states. In `daemon` an image is downloaded once, and an
INGEST names an image whose download is over: `handleIngest` checks nothing
(`dispatcher.cpp:107`), so whoever ingests a file that is still being written gets it tracked by
the digest of its beginning, by his own command; `DownloadsHashedWhole` is about what the daemon
does of its own accord. In `engine_faults` and `engine_cycle` new names are plain ones
(`RenameInto = {}`): `Placement` is false otherwise, see the findings. `MaxFiles` bounds the files that exist at a time. In all passing runs a content has
names no other content has, and content that is still on disk is not
downloaded again (`Redownload = FALSE`): both restrictions are there because the code does not
survive their absence, see the findings.

Fairness. `FairSpec` has weak fairness of the step of whoever holds the mutex:
the holder is a running thread, and what it waits for are external commands,
assumed to end (`waitpid` has no timeout, so this is an assumption about the
configured command). `CyclerSpec` adds weak fairness of `Cycle`: the auto-cycler's
timer goes off again and again (`cycleIntervalSeconds` not 0). Nothing else is
promised: no client ever has to send a command. In `ManifestStore` a daemon that is down is
started again (`WF` of `Start`); a save need not end. In `Daemon` the scanner's interval
passes, threads go on, and a thread that waits for the mutex gets it some time (`SF` of
`Acquire`): a `std::mutex` does not promise this, but whoever releases it
sleeps or waits for a client before it asks again, apart from the finitely many entries of
a scan. No success of a move is assumed for the image that is obstructed. `ArrivalsTaken`
has the premises that the daemon stays up from some point on and that reading the
directory does not fail for ever. `Tui` promises nothing: all it says is safety. In `Ipc` each daemon that
serves goes on serving, its handlers return (`HandlersReturn` of `Engine`), and each client goes
on sending and reading until it is done or interrupted; nobody has to start a daemon.
`Rotation` has the premise that
from some point on only the auto-cycler is at work; otherwise deletes and
mode switches may starve anybody. It is about the wallpapers whose names are part of no path to
another one (`Distinct`), because others may starve, see the findings.

### Findings

Each is a run in which TLC finds a property violated.

1. `engine_redownload`, `FilesTracked`. Ingesting content that is already tracked
   under another visibility re-points the entry and leaves the old file in the old
   root: Unsafe content stays in `publicRoot`.
2. `engine_broken`, `HandlersReturn`. An image the setter rejects makes `cycle()` try it
   for ever with the mutex held; the log line says it was skipped.
   The iteration changes nothing, so in the trace it is a stuttering step that
   fairness demands and that leads nowhere.
3. `engine_unmounted`, `ForgottenWhenGone`. CLASSIFY, RENAME and DELETE take an unmounted
   root for a missing file and drop the entry.
4. `store_short`, `ImplementsCell`. `RealFileSystem::write` does not look at the stream
   after writing: on a full device `save` syncs and renames a piece of the manifest over
   the good one. The reader refuses it (`CutShortDetected`), so the daemon does not
   start any more. `src/README.md:173` calls saving "completely transaction-safe".

Each of the following was seen while modelling and is within the behaviour of the models; the
properties are stated so that they hold with it, and say what they leave out:

- RENAME with a name that has separators moves a Safe wallpaper out of `publicRoot` and
  leaves it Safe (`engine.hpp:332`), against the table at `src/README.md:91`. `Placement` is false
  with `RenameInto = {"private"}`. The quarantine does not depend on it: `resolve` goes by the
  visibility, and `QuarantineHeld` is about contents, not directories.
- A daemon that is started while the disk of a root is away makes an empty directory there,
  and the next cycle forgets every wallpaper of the root, one iteration after the other
  (`main.cpp:28`, `engine.hpp:221`). `UnmountedSurvive` is false without its condition on `standin`.
- When the mode's current wallpaper and the one on the screen are two different ones and no
  third may be shown, `cycle()` leaves out both and dereferences `end()` (`engine.hpp:80`). A mode
  switch, or another program that sets a wallpaper, is enough. The model takes `LeftBehind` there.
- A wallpaper whose name is part of the paths to two others is never shown while those take turns:
  with 1.jpg, 11.jpg and 21.jpg, 1.jpg is left out whenever one of the others is on the
  screen (`engine.hpp:62`), although it was shown longest ago, or never. `Rotation` is false without
  its condition `Distinct`.
- An answer to CURRENT of several lines is cut after the first (`setter.hpp:161`); nothing of the
  rest reaches another client.

Also seen: two files of one name in one root
replace each other (`fs.cpp:148`); a mode switch with nothing eligible is not
saved (`engine.hpp:43`); classifying the wallpaper on the screen as Unsafe in safe
mode leaves it there; a daemon killed between the scanner's move and its save
forgets the file, which `NoOrphans` has to except; a program that writes in place loses what
it writes between the copy and the remove of a move across devices, which
`NothingLost` has to except; APPLY does not look at the mode (`dispatcher.cpp:253`), only the
TUI does, on a cached copy; of two daemons started at once the loser removes the
winner's socket (`ipc.hpp:199`).

## Proofs

All constants are arbitrary: any sets of digests, names, images, clients and daemons, any
commands and any size of a read, any kinds of faults. Each assumption has a name, is declared
in the module that declares the constant, and is evaluated by TLC in every run of it:

| Module | Assumptions |
| :-- | :-- |
| `Engine`, `Daemon`, `Tui` | `InputAssumption`: the constants have their types. `NoneAssumption`: the absent value is nothing else |
| `Tui` | `FiniteAssumption`: there are finitely many wallpapers; `allWallpapers` is a vector |
| `Ipc` | `NoneAssumption`: clients and daemons are different things. `SizeAssumption`: a read takes at least one word, a queue at least one client. `TextAssumption`: what is sent is made of words and line breaks |
| `ManifestStore` | `CodecAssumption`: what was encoded is decoded again. `VersionAssumption`, `NoneAssumption`, `FaultsAssumption`: types |
| `ManifestFile` | `DataAssumption`: a wallpaper has the fields that `save` writes, and its path is a string |

Every inductive invariant below was checked by TLC on the instance of its module
before it was proved.

`ManifestProofs`. `IndexConsistent` strengthens `TypeOK` to an inductive invariant: the
slot a delete frees is valid only because the table is the inverse of the vector.
From it follows `FindIsExact`. For the refinement `ManifestImplementsIndex` there is one lemma per
operation on the set of values of the vector (`LoadPuts`, `EditPuts` and that of the swap-and-pop):
it puts or drops the digest it was called for and no other (`CallsAreTheirOwn`),
and so is a step of the index (`StepRefines`).

`ManifestFileProofs`. `Holds(F, o, w)` says that the fields `w` are in the file `F` after
the first `o`, and `After(F, n, r, o, v)` that a reader of the first `n` fields of `F` has
got `v` and is after the first `o`, or has thrown because there are not that many. One
lemma per part of the format takes `After` from the beginning of the part to its end; a
reader that has thrown stays so (`ThrownStays`). The vector is a loop of unknown length,
so `WallpapersAfter` is an induction, done by the least counterexample: it needs no rule of
induction, only that a set of naturals has a least member. The same argument shows that
the loops of the code, which are recursive functions here, have a value at all
(`WritingExists`, `ReadingExists`). `CutShortRefused` is `CutFile` for the manifests the
system reaches; that no digest occurs twice in them comes from `ManifestProofs`.
`FormatReadBack` says of the format of the code what `ManifestStore` assumes of any format,
so that `Atomic` holds of this one.

`ManifestStoreProofs`, for any versions and any format that satisfies `CodecAssumption`,
under the hypothesis that no write stops early. The inductive invariant says what the
`.tmp` holds at each step of `save` (a beginning of the manifest in memory, then all of it,
then all of it on the disk) and that only whole files get to `manifestPath`. `TypeCorrect`
and the refinement `Atomic` follow; the finding `store_short` shows
that the hypothesis is needed. The lemmas on `Prefix` say that the next field extends a
beginning and the last one completes it.

`EngineProofs`. `IInv` is `TypeOK /\ Placed`, and `Placed` is `Placement` when `RenameInto = {}`.
It is inductive: classification computes the new path from the new visibility, and a plain
name keeps the directory. It needs the disk as well as the memory, because a restart makes the one the other. The lemmas
`SaveKeeps` and `AttemptKeeps` say once what a save and an `applyWallpaper` preserve. On top of it:

- `Persistence`: every handler step outside the scanner writes what it changed.
- `UnmountedWallpapersKept`: `Attempt` forgets only what `FileMissing` found, so there is a
  directory at the root; without a stand-in it is that of the disk, and then the file is
  on neither side of the mount point.
- `ModeSwitchConfines` needs one more invariant, `SwitchTarget`: the wallpaper a mode
  switch is about to apply is eligible in the new mode. The code checks it
  before and never again; it holds because no one else can run in between.

`EngineFilesProofs` is about the files. Its theorems have premises, as hypotheses and not as
assumptions of the module, and the findings show that they are needed:

- `OwnNamesOnly`: no two contents are given one name. A rename replaces its target
  (`fs.cpp:148`), so without it a move may put one content at the path of another.
- `TrackedWhereTheyAre` (`TrackedContent`): names being distinct, a file at a tracked path
  has the tracked digest (`Named`), and it is there as long as nobody removes it
  (`Present`), in sight or hidden. A restart after a save that threw brings back a manifest whose files were
  moved since, hence `SavedOrUp`: there is no restart; or saves do not throw and no name leads
  into the download directory, from where the scanner could take the file in before it saves;
  or files may be gone anyway.
- `Quarantine` (`QuarantineHeld`): only a successful `Attempt` changes the screen, and `resolve`
  refuses Unclassified entries, so by `Named` the content shown is that of an entry that
  is not Unclassified, wherever a RENAME put its file. `SwitchTarget` shows that it is eligible
  unless APPLY named it.
- `EveryFileTracked` (`FilesTracked`) needs `OneCopy`, a content is in one file at a time: a
  wallpaper must not be downloaded again while it is there (`engine_redownload`), and its
  entry must not be dropped, by a handler that takes an unmounted root for a missing
  file (`engine_unmounted`) or by a restart with an older manifest: the disks stay
  (`Removable = {}`) and the daemon is not restarted.
- `MountedNotForgotten`: the property that `engine_unmounted` violates holds as long as
  no disk goes away, so that nothing else violates it.

`DaemonProofs`. `Exclusion` says that the mutex has one holder, the one thread that is
`locked`, and that a step at a file has a file. On it rests `Handling`: while the holder is
at a file, where that is and how much of it was hashed (`InHand`), and where its writer
is (`Written`, `TakenUp`: what the scanner takes up from a browser is complete, which it
finds out before it has the mutex and relies on afterwards). On both rests `Books`, what
the manifests say: what is tracked by the digest of a whole image is a whole image
(`TrackedFiles`), what left the download directory was registered (`Accounted`), and the
manifest in memory is ahead of the file only by the ingestion under way (`Ahead`).
`ImagesNotLost`, `ImagesNotForgotten` and `DownloadsWhole` read these off.

`TuiProofs`. `IInv` says that commands are under way only between two events and are about
what was asked (`Sent`), and that while a dialog is open nothing is sent and its subject is
what it was opened for (`Asking`). `DialogsMeanWhatTheySay` and `AppliesWithinMode` follow;
`CursorInList` and `CursorStaysOn` come from where `CursorIn` leaves the cursor.

`IpcProofs`. `Linked` is the agreement of both ends: a client is linked to the daemon that
serves it or has it in its queue, once. `CommandInPieces` and `AnswerInPieces` say that what
was received, what is in the socket and what is not written yet are consecutive pieces of
one text, and that its first line break is not received before the end, after which nothing more
is read: so what was received is `FirstLine` of the text, up to `EndOf`. That a text with a line
break has a first one is the least member of a set of naturals, as in `ManifestFileProofs`. Splitting
and joining pieces are lemmas on `SubSeq`.

Only model-checked: everything about liveness (`HandlersReturn`, `Rotation`, `Restartable`,
`Concluded`, `ArrivalsTaken`, `Attended`), which is out of the prover's reach. All
invariants, action properties and refinements of the passing runs are proved, those in
`EngineFilesProofs` and `ManifestStoreProofs` under the hypotheses named above.

## Plan

Left, in this order, each with its runs, mutants and, where stated, proofs.

1. Crash points inside CLASSIFY (`engine.hpp:289`), between the move and the save.
2. Two wallpapers of one name in one root (`fs.cpp:148`): a run that shows what the
   premise `OwnNamesOnly` excludes.
3. The daemon that lost its path to another (`ipc.hpp:186`), in `Ipc`.

## Not modelled

With the reason in `PROJECT.json`: parsing of the command line and printing of answers,
the configuration (read once, its result are the constants), hashing and logging, picosha2
(vendored), integer widths in the manifest, which bytes make an image, process plumbing,
and rendering. FTXUI is external: that a dialog gets every key while it is open, that the
menu keeps `selectedIndex` within its entries, and that an event is handled to its end
before the next are taken from how `src/` uses it. `VirtualFileSystem` is a test double
that nothing uses; the repository has no test suite.
