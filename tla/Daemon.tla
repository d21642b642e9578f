------------------------------- MODULE Daemon -------------------------------
(***************************************************************************)
(* The daemon's threads (apps/daemon) around the engine mutex, and images  *)
(* on their way from the download directory into a managed root: the       *)
(* scanner thread and the SCAN command, which read the directory without   *)
(* the mutex and perhaps at once, the INGEST commands, the auto-cycler and *)
(* the other commands, while downloads are still being written, moves and  *)
(* saves fail, and the process is killed and started again.                *)
(*                                                                         *)
(* Module Engine takes an ingestion and its save as one or two steps; here *)
(* they are taken apart: hash, move (a rename, or a copy and a remove      *)
(* across devices), register, resolveActiveIngestion, save.  What the      *)
(* other holders of the mutex do to the screen is left to Engine; here     *)
(* they save, throw or do nothing.  Every image has a file name of its own *)
(* and one managed root stands for the three.  Whether a move crosses      *)
(* devices depends on the roots and is left open.                          *)
(***************************************************************************)
EXTENDS Naturals, FiniteSets

CONSTANTS
  Image,       \* images that are downloaded, each once
  Writer,      \* Writer[i]: "browser" or "inplace", see Begin
  Obstructed,  \* images that a move may fail for, now and then or always
  Faults,      \* what else goes wrong: "save", "iterate", "create", "kill"
  None

ASSUME InputAssumption ==
  /\ Writer \in [Image -> {"browser", "inplace"}]
  /\ Obstructed \subseteq Image
  /\ Faults \subseteq {"save", "iterate", "create", "kill"}

Thread == {"scanner", "cycler", "server"}

ASSUME NoneAssumption == None \notin Image \union Thread

\* How much of an image a file holds.
Content == {"empty", "part", "whole"}
Data    == Content \union {"absent"}
Digest  == Image \X Content

VARIABLES
  dl,       \* the file under the image's name in the download directory
  root,     \* the file under its name in the managed root
  open,     \* where the file its writer has open is: "never" before the download,
            \* "no" after it, "unlinked" when no name leads to it any more
  tracked,  \* the digests in Engine::manifest
  disk,     \* those in the manifest file
  pc,       \* what each thread is at
  todo,     \* the entries scanNow has not come to yet
  file,     \* the file processFile or handleIngest is at
  command,  \* the command the server is at
  mutex,    \* who holds engineMutex
  step,     \* what the holder is at
  digest,   \* the result of its hashFile
  excused   \* auxiliary: images whose ingestion was killed after the move, and
            \* those whose save failed until a later save made up for it

files   == <<dl, root, open>>
books   == <<tracked, disk, excused>>
work    == <<step, digest>>
threads == <<pc, todo, file, command, mutex, step, digest>>
vars    == <<files, books, threads>>

Commands == {"scan", "ingest", "current", "other"}

\* What a holder of the mutex goes through.
Steps == {"none", "work", "hash", "move", "copy", "remove", "resolve", "save"}

Down == [t \in Thread |-> "dead"]

Init ==
  /\ dl = [i \in Image |-> "absent"] /\ root = [i \in Image |-> "absent"]
  /\ open = [i \in Image |-> "never"]
  /\ tracked = {} /\ disk = {} /\ excused = {}
  /\ pc = Down
  /\ todo = [t \in Thread |-> {}] /\ file = [t \in Thread |-> None]
  /\ command = "none"
  /\ mutex = None /\ step = "none" /\ digest = "absent"

-----------------------------------------------------------------------------
(* Downloads, outside the program.                                         *)

\* The thread t is inside scanNow.
Scanning(t) ==
  /\ t = "scanner" \/ command = "scan"
  /\ t # "cycler" /\ pc[t] \in {"scan", "wait", "locked"}

\* A scan that is under way may or may not come to an entry made after it began.
Noticed(i) ==
  \E S \in SUBSET {t \in Thread : Scanning(t)} :
    todo' = [t \in Thread |-> IF t \in S THEN todo[t] \union {i} ELSE todo[t]]

\* A browser puts an empty file under the name and writes to a temporary one, which
\* no scan takes up because of its extension; other programs write in place.
Begin(i) ==
  /\ open[i] = "never"
  /\ dl' = [dl EXCEPT ![i] = "empty"]
  /\ open' = [open EXCEPT ![i] = IF Writer[i] = "browser" THEN "temp" ELSE "dl"]
  /\ Noticed(i)
  /\ UNCHANGED <<root, books, pc, file, command, mutex, work>>

More(c) == IF c = "empty" THEN "part" ELSE "whole"

\* The writer goes on, to the file it opened, wherever that has been moved, and
\* ends when the image is whole; the browser then gives it its name.
Write(i) ==
  /\ \/ /\ open[i] = "temp"
        /\ dl' = [dl EXCEPT ![i] = "whole"]
        /\ open' = [open EXCEPT ![i] = "no"]
        /\ Noticed(i)
        /\ UNCHANGED root
     \/ /\ open[i] = "dl"
        /\ dl' = [dl EXCEPT ![i] = More(dl[i])]
        /\ open' = IF dl'[i] = "whole" THEN [open EXCEPT ![i] = "no"] ELSE open
        /\ UNCHANGED <<root, todo>>
     \/ /\ open[i] = "root"
        /\ root' = [root EXCEPT ![i] = More(root[i])]
        /\ open' = IF root'[i] = "whole" THEN [open EXCEPT ![i] = "no"] ELSE open
        /\ UNCHANGED <<dl, todo>>
  /\ UNCHANGED <<books, pc, file, command, mutex, work>>

-----------------------------------------------------------------------------
(* scanNow, in the scanner thread or for a SCAN command.                   *)

Present == {i \in Image : dl[i] # "absent"}

\* Mutant of isSupportedImage: the header is not looked at.
isSupportedByName(i) == dl[i] # "absent"

\* The extension is one of five and the header can be read and agrees with it.
isSupportedImage(i) == dl[i] \in {"part", "whole"}

\* The scanner's turn: after the start and then at every interval, unless it was
\* told to stop.
ScanBegins ==
  /\ pc["scanner"] = "sleep" /\ pc["cycler"] # "ended"
  /\ pc' = [pc EXCEPT !["scanner"] = "scan"]
  /\ todo' = [todo EXCEPT !["scanner"] = Present]
  /\ UNCHANGED <<files, books, file, command, mutex, work>>

\* The next entry: without the mutex, it is looked at and perhaps taken up.
NextEntry(t) ==
  /\ pc[t] = "scan"
  /\ \E i \in todo[t] :
       /\ todo' = [todo EXCEPT ![t] = @ \ {i}]
       /\ IF isSupportedImage(i)
          THEN /\ file' = [file EXCEPT ![t] = i]
               /\ pc' = [pc EXCEPT ![t] = "wait"]
          ELSE UNCHANGED <<file, pc>>
  /\ UNCHANGED <<files, books, command, mutex, work>>

AfterScan(t) == [pc EXCEPT ![t] = IF t = "server" THEN "answer" ELSE "sleep"]

ScanEnds(t) ==
  /\ pc[t] = "scan" /\ todo[t] = {}
  /\ pc' = AfterScan(t)
  /\ UNCHANGED <<files, books, todo, file, command, mutex, work>>

\* Reading the directory throws; scanNow catches it and leaves the rest.
ScanBreaksOff(t) ==
  /\ "iterate" \in Faults
  /\ pc[t] = "scan" /\ todo[t] # {}
  /\ todo' = [todo EXCEPT ![t] = {}]
  /\ pc' = AfterScan(t)
  /\ UNCHANGED <<files, books, file, command, mutex, work>>

-----------------------------------------------------------------------------
(* Under the mutex.                                                        *)

\* Mutant of Acquire: the mutex is not waited for.
AcquireAnyway(t) ==
  /\ pc[t] = "wait"
  /\ pc' = [pc EXCEPT ![t] = "locked"]
  /\ mutex' = t
  /\ step' = IF file[t] = None THEN "work" ELSE "hash"
  /\ UNCHANGED <<files, books, todo, file, command, digest>>

Acquire(t) ==
  /\ pc[t] = "wait"
  /\ mutex = None
  /\ pc' = [pc EXCEPT ![t] = "locked"]
  /\ mutex' = t
  /\ step' = IF file[t] = None THEN "work" ELSE "hash"
  /\ UNCHANGED <<files, books, todo, file, command, digest>>

\* Where a thread goes when it is done under the mutex: processFile is followed by
\* the next entry, a command by its answer.
After(t) == IF t = "cycler" THEN "sleep"
            ELSE IF t = "server" /\ command # "scan" THEN "answer"
            ELSE "scan"

\* lock_guard unlocks on every way out.
Release ==
  /\ pc' = [pc EXCEPT ![mutex] = After(mutex)]
  /\ file' = [file EXCEPT ![mutex] = None]
  /\ mutex' = None /\ step' = "none" /\ digest' = "absent"

\* Mutants of Throws: the mutex stays locked; the whole scan ends.
ThrowsLocked ==
  /\ pc' = [pc EXCEPT ![mutex] = After(mutex)]
  /\ file' = [file EXCEPT ![mutex] = None]
  /\ step' = "none" /\ digest' = "absent"
  /\ UNCHANGED <<mutex, todo>>

ThrowsOutOfScan ==
  /\ todo' = [todo EXCEPT ![mutex] = {}]
  /\ Release

\* An exception under the mutex: processFile and cycleNow catch it themselves, and
\* main answers a command with it; the scan goes on with its next entry.
Throws ==
  /\ Release
  /\ UNCHANGED todo

Goto(s) ==
  /\ step' = s
  /\ UNCHANGED <<pc, todo, file, mutex, digest>>

The == file[mutex]

\* ManifestStore::save, and an exception out of it.
Saves ==
  /\ disk' = tracked
  /\ excused' = {i \in excused : \A c \in Content : <<i, c>> \notin tracked}

SaveFails ==
  /\ "save" \in Faults
  /\ excused' = excused \union ({The} \ {None})
  /\ UNCHANGED disk

\* The auto-cycler, or any command that does not ingest: it may save, or throw.
OtherWork ==
  /\ step = "work"
  /\ Saves \/ UNCHANGED <<disk, excused>>
  /\ Throws
  /\ UNCHANGED <<files, tracked, command>>

\* hashFile throws when the file cannot be opened: another thread was faster.
HashFile ==
  /\ step = "hash"
  /\ IF dl[The] = "absent"
     THEN Throws
     ELSE /\ step' = "move" /\ digest' = dl[The]
          /\ UNCHANGED <<pc, todo, file, mutex>>
  /\ UNCHANGED <<files, books, command>>

\* handleIngest saves before resolveActiveIngestion, processFile after it.
FromScan == mutex = "scanner" \/ command = "scan"

\* registerWallpaper, as soon as the file is where it belongs.
Registers ==
  /\ tracked' = tracked \union {<<The, digest>>}
  /\ Goto(IF FromScan THEN "resolve" ELSE "save")

\* A writer that has the file open in the download directory keeps it open.
Follows(where) ==
  open' = [open EXCEPT ![The] = IF open[The] = "dl" THEN where ELSE open[The]]

Rename ==
  /\ step = "move"
  /\ root' = [root EXCEPT ![The] = dl[The]]
  /\ dl' = [dl EXCEPT ![The] = "absent"]
  /\ Follows("root")
  /\ Registers
  /\ UNCHANGED <<disk, excused, command>>

MoveFails ==
  /\ step = "move" /\ The \in Obstructed
  /\ Throws
  /\ UNCHANGED <<files, books, command>>

\* rename returned cross_device_link: copy truncates the target.
CopyBegins ==
  /\ step = "move"
  /\ root' = [root EXCEPT ![The] = "empty"]
  /\ Goto("copy")
  /\ UNCHANGED <<dl, open, books, command>>

\* Mutant of CopyEnds: the source is removed whether or not the copy succeeded.
CopyEndsUnchecked ==
  /\ step = "copy"
  /\ root' \in {[root EXCEPT ![The] = dl[The]]} \union (IF The \in Obstructed THEN {root} ELSE {})
  /\ Goto("remove")
  /\ UNCHANGED <<dl, open, books, command>>

CopyEnds ==
  /\ step = "copy"
  /\ \/ /\ root' = [root EXCEPT ![The] = dl[The]]
        /\ Goto("remove")
     \/ /\ The \in Obstructed
        /\ Throws
        /\ UNCHANGED root
  /\ UNCHANGED <<dl, open, books, command>>

\* When the remove fails move throws: the copy stays, and nothing is registered.
RemoveSource ==
  /\ step = "remove"
  /\ \/ /\ dl' = [dl EXCEPT ![The] = "absent"]
        /\ Follows("unlinked")
        /\ Registers
     \/ /\ The \in Obstructed
        /\ Throws
        /\ UNCHANGED <<dl, open, tracked>>
  /\ UNCHANGED <<root, disk, excused, command>>

\* resolveActiveIngestion: nothing, or a wallpaper is applied, which saves.
ResolveActive ==
  /\ step = "resolve"
  /\ \/ /\ Saves \/ UNCHANGED <<disk, excused>>
        /\ IF FromScan THEN Goto("save") ELSE Throws
     \/ SaveFails /\ Throws
  /\ UNCHANGED <<files, tracked, command>>

SaveIngested ==
  /\ step = "save"
  /\ \/ /\ Saves
        /\ IF FromScan THEN Throws ELSE Goto("resolve")
     \/ SaveFails /\ Throws
  /\ UNCHANGED <<files, tracked, command>>

Holder ==
  \/ OtherWork \/ HashFile \/ Rename \/ MoveFails \/ CopyBegins \/ CopyEnds
  \/ RemoveSource \/ ResolveActive \/ SaveIngested

-----------------------------------------------------------------------------
(* The process, the server and the cycler.                                 *)

\* main: the manifest is loaded, and scanner and cycler run before the socket is
\* there.
Start ==
  /\ pc = Down
  /\ pc' = [t \in Thread |-> IF t = "server" THEN "create" ELSE "sleep"]
  /\ UNCHANGED <<files, books, todo, file, command, mutex, work>>

\* Server::create; when it fails main returns, which first joins the cycler and
\* then the scanner.
Create ==
  /\ pc["server"] = "create"
  /\ \/ pc' = [pc EXCEPT !["server"] = "accept"]
     \/ "create" \in Faults /\ pc' = [pc EXCEPT !["server"] = "stop"]
  /\ UNCHANGED <<files, books, todo, file, command, mutex, work>>

\* A thread sees between two rounds that it shall stop.
Stops(t) ==
  /\ pc["server"] = "stop" /\ pc[t] = "sleep"
  /\ t = "scanner" => pc["cycler"] = "ended"
  /\ pc' = [pc EXCEPT ![t] = "ended"]
  /\ UNCHANGED <<files, books, todo, file, command, mutex, work>>

\* The process is gone, and with it what was only in memory.
Gone ==
  /\ pc' = Down
  /\ tracked' = disk
  /\ todo' = [t \in Thread |-> {}] /\ file' = [t \in Thread |-> None]
  /\ command' = "none"
  /\ mutex' = None /\ step' = "none" /\ digest' = "absent"
  /\ UNCHANGED <<files, disk>>

\* Mutant of Exit: main does not wait for the scanner.
ExitDetached ==
  /\ pc["server"] = "stop" /\ pc["cycler"] = "ended"
  /\ Gone
  /\ UNCHANGED excused

Exit ==
  /\ pc["server"] = "stop" /\ pc["cycler"] = "ended" /\ pc["scanner"] = "ended"
  /\ Gone
  /\ UNCHANGED excused

\* The ingestion that is under way has moved its file and has not been saved.
Unsaved == IF step \in {"resolve", "save"} /\ <<The, digest>> \notin disk THEN {The} ELSE {}

Kill ==
  /\ "kill" \in Faults
  /\ pc # Down
  /\ excused' = excused \union Unsaved
  /\ Gone

\* A command arrives.  CURRENT runs the getter without the mutex; SCAN takes it
\* file by file; INGEST is for an image that a user can look at.
Receive(c) ==
  /\ pc["server"] = "accept"
  /\ command' = c
  /\ \/ /\ c = "scan"
        /\ pc' = [pc EXCEPT !["server"] = "scan"]
        /\ todo' = [todo EXCEPT !["server"] = Present]
        /\ UNCHANGED file
     \/ /\ c = "ingest"
        /\ \E i \in Image :
             /\ dl[i] = "whole"
             /\ file' = [file EXCEPT !["server"] = i]
        /\ pc' = [pc EXCEPT !["server"] = "wait"]
        /\ UNCHANGED todo
     \/ /\ c \in {"current", "other"}
        /\ pc' = [pc EXCEPT !["server"] = IF c = "current" THEN "answer" ELSE "wait"]
        /\ UNCHANGED <<todo, file>>
  /\ UNCHANGED <<files, books, mutex, work>>

\* main sends what dispatch returned, or "ERR" and what it threw.
Answer ==
  /\ pc["server"] = "answer"
  /\ pc' = [pc EXCEPT !["server"] = "accept"]
  /\ command' = "none"
  /\ UNCHANGED <<files, books, todo, file, mutex, work>>

CycleNow ==
  /\ pc["cycler"] = "sleep" /\ pc["server"] # "stop"
  /\ pc' = [pc EXCEPT !["cycler"] = "wait"]
  /\ UNCHANGED <<files, books, todo, file, command, mutex, work>>

World == \E i \in Image : Begin(i) \/ Write(i)

ThreadStep(t) ==
  \/ NextEntry(t) \/ ScanEnds(t) \/ Stops(t)
  \/ mutex = t /\ Holder

Next ==
  \/ World
  \/ ScanBegins
  \/ \E t \in Thread : Acquire(t) \/ ThreadStep(t) \/ ScanBreaksOff(t)
  \/ Start \/ Create \/ Exit \/ Kill
  \/ \E c \in Commands : Receive(c)
  \/ Answer \/ CycleNow

Spec == Init /\ [][Next]_vars

\* The scanner's interval passes, every thread goes on, external commands end, and
\* a thread that waits for the mutex gets it at some time: whoever releases it
\* sleeps or waits for a client before asking again, apart from the finitely many
\* entries of a scan.
FairSpec ==
  /\ Spec
  /\ WF_vars(ScanBegins) /\ WF_vars(Create) /\ WF_vars(Exit) /\ WF_vars(Answer)
  /\ \A t \in Thread : WF_vars(ThreadStep(t)) /\ SF_vars(Acquire(t))

-----------------------------------------------------------------------------
(* Properties.                                                             *)

\* The variables have their types, and the mutex is held by the one thread that is
\* between its lock_guard and the end of it.
TypeOK ==
  /\ dl \in [Image -> Data] /\ root \in [Image -> Data]
  /\ open \in [Image -> {"never", "temp", "dl", "root", "unlinked", "no"}]
  /\ tracked \subseteq Digest /\ disk \subseteq Digest /\ excused \subseteq Image
  /\ pc \in [Thread -> {"dead", "create", "accept", "answer", "stop", "sleep", "scan",
                        "wait", "locked", "ended"}]
  /\ todo \in [Thread -> SUBSET Image] /\ file \in [Thread -> Image \union {None}]
  /\ command \in Commands \union {"none"}
  /\ mutex \in Thread \union {None} /\ step \in Steps /\ digest \in Data
  /\ \A t \in Thread : pc[t] = "locked" <=> mutex = t

\* An image that has arrived is whole under one of its two names, in whatever step
\* a move fails or the daemon is killed, and whatever is done to it by two threads
\* at once.  A file that was hashed while its writer still had it open is
\* excepted: what is written between copy and remove does not reach the copy.
HashedEarly(i) == Writer[i] = "inplace"
  /\ (i \in excused \/ \E c \in Content \ {"whole"} : <<i, c>> \in tracked)

NothingLost ==
  \A i \in Image : open[i] = "no" => "whole" \in {dl[i], root[i]} \/ HashedEarly(i)

\* An image that has left the download directory is in the manifest file: the next
\* start of the daemon knows it.  Only the ingestion that is under way, one that
\* was killed between its move and its save, and one whose save failed are
\* excepted; main returning while the scanner works is not.
NoOrphans ==
  \A i \in Image :
    dl[i] = "absent" /\ root[i] # "absent" /\ (\A c \in Content : <<i, c>> \notin disk)
      => i \in excused \union Unsaved

\* A browser's download is tracked by the digest of the whole image, which is what
\* the file holds: the scanner never takes the empty placeholder for it, at whatever
\* moment it looks and whoever moves the file before it gets the mutex.
DownloadsHashedWhole ==
  \A i \in Image : \A c \in Content :
    Writer[i] = "browser" /\ <<i, c>> \in tracked => c = "whole" /\ root[i] = "whole"

\* Every image that has arrived is taken in some day while the daemon is up, however
\* the scanner thread, SCAN and the other commands interleave, and whatever other
\* files there are that cannot be moved.
Up == pc["server"] \notin {"dead", "stop"}

ArrivalsTaken ==
  <>[]Up /\ <>[][\A t \in Thread : ~ScanBreaksOff(t)]_vars
    => \A i \in Image \ Obstructed : [](dl[i] = "whole" => <>(dl[i] = "absent"))

\* Every command is answered, and a start that was refused its socket ends the
\* process.
Attended ==
  pc["server"] \in {"scan", "wait", "locked", "answer", "stop"}
    ~> pc["server"] \in {"accept", "dead"}
=============================================================================
