---------------------------- MODULE DaemonProofs ----------------------------
(***************************************************************************)
(* What the daemon's threads keep for every set of images, every way they  *)
(* are written and every combination of failures: the engine mutex has one *)
(* holder, no image that has arrived is lost, none is forgotten beyond the *)
(* ingestion under way, and a browser's download is never hashed before it *)
(* is whole.                                                               *)
(***************************************************************************)
EXTENDS Daemon, TLAPS

AtFile  == Steps \ {"none", "work"}
Moving  == {"move", "copy", "remove"}
Entered == {"resolve", "save"}

\* The holder of the mutex is at a step, and at a file only in processFile and
\* handleIngest, which have one.  The cycler never scans.
Control ==
  /\ mutex = None <=> step = "none"
  /\ file["cycler"] = None /\ pc["cycler"] # "scan"
  /\ step \in AtFile => file[mutex] # None
  /\ step \in AtFile \ {"hash"} => digest \in Content

\* Where the writer of an image is says what its file holds.
Written ==
  \A i \in Image :
    /\ open[i] = "never" => dl[i] = "absent" /\ root[i] = "absent"
    /\ open[i] = "temp" => dl[i] = "empty" /\ Writer[i] = "browser"
    /\ open[i] = "dl" => dl[i] \in {"empty", "part"}
    /\ open[i] = "root" => dl[i] = "absent" /\ root[i] \in {"empty", "part"}
    /\ open[i] = "unlinked" => dl[i] = "absent"
    /\ open[i] = "no" => dl[i] \in {"absent", "whole"}
    /\ Writer[i] = "browser" => open[i] \in {"never", "temp", "no"}

\* A file that was taken up was begun, and ended if it came from a browser.
TakenUp ==
  \A t \in Thread : file[t] # None =>
    /\ open[file[t]] # "never"
    /\ Writer[file[t]] = "browser" => open[file[t]] = "no"

\* From its hash to its registration the file is in the download directory; its
\* digest is that of the whole image when the writer was done, and then so is the
\* copy.
InHand ==
  step \in Moving =>
    /\ dl[The] # "absent"
    /\ digest = "whole" => open[The] = "no"
    /\ digest # "whole" => Writer[The] = "inplace"
    /\ step = "remove" /\ digest = "whole" => root[The] = "whole"

\* What is tracked has left the download directory, and what was tracked by the
\* digest of the whole image is the whole image.
TrackedFiles ==
  /\ disk \subseteq tracked
  /\ \A i \in Image : \A c \in Content : <<i, c>> \in tracked =>
       /\ dl[i] = "absent" /\ open[i] # "never"
       /\ c = "whole" => open[i] = "no" /\ root[i] = "whole"
       /\ c # "whole" => Writer[i] = "inplace"
  /\ \A i \in excused : dl[i] = "absent" /\ open[i] # "never"

\* After the registration the digest is in the manifest in memory, and once
\* handleIngest has saved also in the file.
JustEntered ==
  step \in Entered =>
    /\ <<The, digest>> \in tracked
    /\ step = "resolve" /\ ~FromScan => <<The, digest>> \in disk

\* The manifest in memory is ahead of the file by the ingestion under way and by
\* those whose save failed.
Ahead ==
  \A i \in Image : \A c \in Content :
    <<i, c>> \in tracked \ disk => i \in excused \/ (step \in Entered /\ i = The /\ c = digest)

\* What has left the download directory was registered, or its registration was
\* killed.
Accounted ==
  \A i \in Image : dl[i] = "absent" /\ root[i] # "absent" =>
    i \in excused \/ \E c \in Content : <<i, c>> \in tracked

\* An image that has arrived and was moved is whole, unless it was hashed early.
ArrivedWhole ==
  \A i \in Image : open[i] = "no" /\ dl[i] = "absent" => root[i] = "whole" \/ HashedEarly(i)

Handling == Written /\ TakenUp /\ InHand
Books    == TrackedFiles /\ JustEntered /\ Ahead /\ Accounted /\ ArrivedWhole

-----------------------------------------------------------------------------
(* The mutex has one holder.                                               *)

Exclusion == TypeOK /\ Control

USE DEF Thread, Steps, Content, Data

\* The mutex is held, by a thread that has nothing but this to do.
LEMMA HolderLocked ==
  ASSUME TypeOK, NEW t \in Thread, mutex = t
  PROVE  pc[t] = "locked" /\ mutex # None
  BY NoneAssumption DEF TypeOK

LEMMA ReleaseExcludes ==
  ASSUME Exclusion, mutex # None, Release, UNCHANGED command
  PROVE  /\ pc' \in [Thread -> {"dead", "create", "accept", "answer", "stop", "sleep", "scan",
                                "wait", "locked", "ended"}]
         /\ file' \in [Thread -> Image \union {None}]
         /\ mutex' = None /\ step' = "none" /\ digest' \in Data
         /\ \A t \in Thread : pc'[t] = "locked" <=> mutex' = t
         /\ Control'
  BY NoneAssumption DEF Exclusion, Release, TypeOK, Control, After, AtFile

LEMMA HolderExcludes ==
  ASSUME Exclusion, NEW t \in Thread, mutex = t, Holder
  PROVE  Exclusion'
<1>1. TypeOK /\ Control /\ mutex # None /\ pc[t] = "locked"
  BY HolderLocked DEF Exclusion
<1>2. step \in AtFile => The \in Image
  BY <1>1 DEF TypeOK, Control, The
<1> USE DEF AtFile
<1>3. CASE OtherWork
  <2>1. disk' \subseteq Digest /\ excused' \subseteq Image /\ UNCHANGED todo
    BY <1>1, <1>3 DEF OtherWork, Saves, TypeOK, Throws
  <2> QED BY <1>1, <1>3, <2>1, ReleaseExcludes DEF OtherWork, Throws, files, Exclusion, TypeOK
<1>4. CASE HashFile
  <2>1. CASE Throws
    BY <1>1, <1>4, <2>1, ReleaseExcludes DEF HashFile, Throws, files, books, Exclusion, TypeOK
  <2>2. CASE /\ dl[The] # "absent" 
             /\ step' = "move" /\ digest' = dl[The]
             /\ UNCHANGED <<pc, todo, file, mutex>>
    BY <1>1, <1>2, <1>4, <2>2 DEF HashFile, files, books, Exclusion, TypeOK, Control
  <2> QED BY <1>4, <2>1, <2>2 DEF HashFile
<1>5. CASE Rename
  BY <1>1, <1>2, <1>5
     DEF Rename, Follows, Registers, Goto, files, Digest, Exclusion, TypeOK, Control
<1>6. CASE MoveFails
  BY <1>1, <1>6, ReleaseExcludes DEF MoveFails, Throws, files, books, Exclusion, TypeOK
<1>7. CASE CopyBegins
  BY <1>1, <1>2, <1>7 DEF CopyBegins, Goto, books, Exclusion, TypeOK, Control
<1>8. CASE CopyEnds
  <2>1. CASE Throws /\ UNCHANGED root
    BY <1>1, <1>8, <2>1, ReleaseExcludes DEF CopyEnds, Throws, books, Exclusion, TypeOK
  <2>2. CASE root' = [root EXCEPT ![The] = dl[The]] /\ Goto("remove")
    BY <1>1, <1>2, <1>8, <2>2 DEF CopyEnds, Goto, books, Exclusion, TypeOK, Control
  <2> QED BY <1>8, <2>1, <2>2 DEF CopyEnds
<1>9. CASE RemoveSource
  <2>1. CASE Throws /\ UNCHANGED <<dl, open, tracked>>
    BY <1>1, <1>9, <2>1, ReleaseExcludes DEF RemoveSource, Throws, Exclusion, TypeOK
  <2>2. CASE dl' = [dl EXCEPT ![The] = "absent"] /\ Follows("unlinked") /\ Registers
    BY <1>1, <1>2, <1>9, <2>2
       DEF RemoveSource, Follows, Registers, Goto, Digest, Exclusion, TypeOK, Control
  <2> QED BY <1>9, <2>1, <2>2 DEF RemoveSource
<1>10. /\ Saves \/ SaveFails \/ UNCHANGED <<disk, excused>>
       /\ step \in AtFile
       /\ UNCHANGED tracked
       => disk' \subseteq Digest /\ excused' \subseteq Image
  BY <1>1, <1>2 DEF Saves, SaveFails, TypeOK
<1>11. CASE ResolveActive \/ SaveIngested
  <2>1. /\ step \in AtFile \ {"hash"}
        /\ disk' \subseteq Digest /\ excused' \subseteq Image
        /\ UNCHANGED <<files, tracked, command>>
    BY <1>10, <1>11 DEF ResolveActive, SaveIngested
  <2>2. CASE Throws
    BY <1>1, <2>1, <2>2, ReleaseExcludes DEF Throws, files, Exclusion, TypeOK
  <2>3. CASE Goto("save") \/ Goto("resolve")
    BY <1>1, <1>2, <2>1, <2>3 DEF Goto, files, Exclusion, TypeOK, Control
  <2> QED BY <1>11, <2>2, <2>3 DEF ResolveActive, SaveIngested
<1> QED BY <1>3, <1>4, <1>5, <1>6, <1>7, <1>8, <1>9, <1>11 DEF Holder

LEMMA ThreadExcludes ==
  ASSUME Exclusion, NEW t \in Thread, Acquire(t) \/ ThreadStep(t) \/ ScanBreaksOff(t)
  PROVE  Exclusion'
<1>1. TypeOK /\ Control
  BY DEF Exclusion
<1> USE NoneAssumption DEF AtFile
<1>2. CASE Acquire(t)
  BY <1>1, <1>2 DEF Acquire, files, books, Exclusion, TypeOK, Control
<1>3. CASE NextEntry(t)
  <2>1. PICK i \in todo[t] :
          /\ todo' = [todo EXCEPT ![t] = @ \ {i}]
          /\ IF isSupportedImage(i)
             THEN file' = [file EXCEPT ![t] = i] /\ pc' = [pc EXCEPT ![t] = "wait"]
             ELSE UNCHANGED <<file, pc>>
    BY <1>3 DEF NextEntry
  <2>2. i \in Image /\ todo' \in [Thread -> SUBSET Image] /\ t # "cycler"
    BY <1>1, <1>3, <2>1 DEF TypeOK, Control, NextEntry
  <2> QED
    BY <1>1, <1>3, <2>1, <2>2 DEF NextEntry, files, books, work, Exclusion, TypeOK, Control
<1>4. CASE ScanEnds(t)
  BY <1>1, <1>4 DEF ScanEnds, AfterScan, files, books, work, Exclusion, TypeOK, Control
<1>5. CASE Stops(t)
  BY <1>1, <1>5 DEF Stops, files, books, work, Exclusion, TypeOK, Control
<1>6. CASE ScanBreaksOff(t)
  BY <1>1, <1>6 DEF ScanBreaksOff, AfterScan, files, books, work, Exclusion, TypeOK, Control
<1>7. CASE mutex = t /\ Holder
  BY <1>7, HolderExcludes
<1> QED BY <1>2, <1>3, <1>4, <1>5, <1>6, <1>7 DEF ThreadStep

LEMMA ProcessExcludes ==
  ASSUME Exclusion, Start \/ Create \/ Exit \/ Kill \/ Answer \/ CycleNow
  PROVE  Exclusion'
<1>1. TypeOK /\ Control
  BY DEF Exclusion
<1> USE NoneAssumption DEF AtFile
<1>2. CASE Start
  BY <1>1, <1>2 DEF Start, Down, files, books, work, Exclusion, TypeOK, Control
<1>3. CASE Create
  BY <1>1, <1>3 DEF Create, files, books, work, Exclusion, TypeOK, Control
<1>4. CASE Exit \/ Kill
  <2>1. excused' \subseteq Image
    BY <1>1, <1>4 DEF Exit, Kill, Unsaved, The, TypeOK, Control
  <2> QED
    BY <1>1, <1>4, <2>1 DEF Exit, Kill, Gone, Down, files, Exclusion, TypeOK, Control
<1>5. CASE Answer
  BY <1>1, <1>5 DEF Answer, files, books, work, Exclusion, TypeOK, Control
<1>6. CASE CycleNow
  BY <1>1, <1>6 DEF CycleNow, files, books, work, Exclusion, TypeOK, Control
<1> QED BY <1>2, <1>3, <1>4, <1>5, <1>6

LEMMA ReceiveExcludes ==
  ASSUME Exclusion, NEW c \in Commands, Receive(c)
  PROVE  Exclusion'
<1>1. TypeOK /\ Control /\ pc["server"] = "accept"
  BY DEF Exclusion, Receive
<1>2. file' \in [Thread -> Image \union {None}] /\ file'["cycler"] = None
  BY <1>1 DEF Receive, TypeOK, Control
<1>3. \A t \in Thread : t # "server" => file'[t] = file[t]
  BY <1>1 DEF Receive, TypeOK
<1>4. todo' \in [Thread -> SUBSET Image]
  BY <1>1 DEF Receive, Present, TypeOK
<1>5. PICK p \in {"scan", "wait", "answer"} : pc' = [pc EXCEPT !["server"] = p]
  BY DEF Receive
<1>6. mutex # "server" /\ mutex \in Thread \union {None}
  BY <1>1 DEF TypeOK
<1> QED
  BY <1>1, <1>2, <1>3, <1>4, <1>5, <1>6, NoneAssumption
     DEF Receive, files, books, work, Exclusion, TypeOK, Control, AtFile

LEMMA DownloadExcludes ==
  ASSUME Exclusion, NEW i \in Image, Begin(i) \/ Write(i)
  PROVE  Exclusion'
<1>1. TypeOK /\ Control
  BY DEF Exclusion
<1>2. Noticed(i) => todo' \in [Thread -> SUBSET Image]
  BY <1>1 DEF Noticed, TypeOK
<1>3. todo' \in [Thread -> SUBSET Image]
  BY <1>1, <1>2 DEF Begin, Write, TypeOK
<1>4. /\ dl' \in [Image -> Data] /\ root' \in [Image -> Data]
      /\ open' \in [Image -> {"never", "temp", "dl", "root", "unlinked", "no"}]
  BY <1>1 DEF Begin, Write, More, TypeOK
<1> QED
  BY <1>1, <1>3, <1>4 DEF Begin, Write, books, work, Exclusion, TypeOK, Control, AtFile

LEMMA ExclusionStep == Exclusion /\ [Next]_vars => Exclusion'
<1> SUFFICES ASSUME Exclusion, [Next]_vars
             PROVE  Exclusion'
  OBVIOUS
<1>1. CASE World
  BY <1>1, DownloadExcludes DEF World
<1>2. CASE ScanBegins
  BY <1>2 DEF ScanBegins, Present, files, books, work, Exclusion, TypeOK, Control, AtFile
<1>3. CASE UNCHANGED vars
  BY <1>3 DEF vars, files, books, threads, Exclusion, TypeOK, Control
<1> QED
  BY <1>1, <1>2, <1>3, ThreadExcludes, ProcessExcludes, ReceiveExcludes DEF Next

LEMMA ExclusionInvariant == Spec => []Exclusion
<1>1. Init => Exclusion
  BY NoneAssumption DEF Init, Down, Exclusion, TypeOK, Control, AtFile
<1> QED BY <1>1, ExclusionStep, PTL DEF Spec

\* The engine mutex is held by one thread at a time, which is the one between its
\* lock_guard and the end of it, through exceptions, kills and restarts.
THEOREM MutexHeldByOne == Spec => []TypeOK
<1>1. Exclusion => TypeOK
  BY DEF Exclusion
<1> QED BY <1>1, ExclusionInvariant, PTL

-----------------------------------------------------------------------------
(* What a step may change.                                                 *)

\* A step of a thread that does not hold the mutex leaves the holder alone.
Outside ==
  /\ UNCHANGED <<books, mutex, step, digest>>
  /\ step \in AtFile => The' = The /\ (FromScan' <=> FromScan)

LEMMA StepCases ==
  ASSUME Exclusion, [Next]_vars
  PROVE  \/ Outside /\ (World \/ UNCHANGED files)
         \/ \E t \in Thread : Acquire(t)
         \/ Exit \/ Kill
         \/ mutex \in Thread /\ Holder
<1>1. TypeOK /\ Control
  BY DEF Exclusion
<1> USE NoneAssumption DEF AtFile
<1>2. ASSUME UNCHANGED <<books, mutex, work, file, command>>
      PROVE  Outside
  BY <1>2 DEF Outside, work, The, FromScan
<1>3. World => Outside
  BY <1>2 DEF World, Begin, Write
<1>4. ASSUME NEW t \in Thread, NextEntry(t)
      PROVE  Outside /\ UNCHANGED files
  <2>1. mutex # t /\ UNCHANGED <<books, mutex, work, command>> /\ UNCHANGED files
    BY <1>1, <1>4 DEF NextEntry, TypeOK
  <2>2. step \in AtFile => file'[mutex] = file[mutex]
    BY <1>1, <1>4, <2>1 DEF NextEntry, TypeOK, Control
  <2> QED BY <2>1, <2>2 DEF Outside, work, The, FromScan
<1>5. ASSUME NEW c \in Commands, Receive(c)
      PROVE  Outside /\ UNCHANGED files
  <2>1. mutex # "server" /\ UNCHANGED <<books, mutex, work>> /\ UNCHANGED files
    BY <1>1, <1>5 DEF Receive, TypeOK
  <2>2. step \in AtFile => file'[mutex] = file[mutex]
    BY <1>1, <1>5, <2>1 DEF Receive, TypeOK, Control
  <2>3. step \in AtFile => mutex = "scanner"
    BY <1>1, <2>1 DEF TypeOK, Control
  <2> QED BY <2>1, <2>2, <2>3 DEF Outside, work, The, FromScan
<1>6. Answer => Outside /\ UNCHANGED files
  <2> SUFFICES ASSUME Answer
               PROVE  Outside /\ UNCHANGED files
    OBVIOUS
  <2>1. mutex # "server" /\ UNCHANGED <<books, mutex, work, file>> /\ UNCHANGED files
    BY <1>1 DEF Answer, TypeOK
  <2>2. step \in AtFile => mutex = "scanner"
    BY <1>1, <2>1 DEF TypeOK, Control
  <2> QED BY <2>1, <2>2 DEF Outside, work, The, FromScan
<1>7. ASSUME NEW t \in Thread, ScanEnds(t) \/ ScanBreaksOff(t) \/ Stops(t)
      PROVE  Outside /\ UNCHANGED files
  BY <1>2, <1>7 DEF ScanEnds, ScanBreaksOff, Stops
<1>8. ScanBegins \/ Start \/ Create \/ CycleNow => Outside /\ UNCHANGED files
  BY <1>2 DEF ScanBegins, Start, Create, CycleNow
<1>9. UNCHANGED vars => Outside /\ UNCHANGED files
  BY <1>2 DEF vars, threads, work
<1> QED BY <1>3, <1>4, <1>5, <1>6, <1>7, <1>8, <1>9 DEF Next, ThreadStep

\* Of the holder's steps, four touch files.
LEMMA HolderFiles ==
  Holder => Rename \/ CopyBegins \/ CopyEnds \/ RemoveSource \/ UNCHANGED files
  BY DEF Holder, OtherWork, HashFile, MoveFails, ResolveActive, SaveIngested

LEMMA StepFiles ==
  ASSUME Exclusion, [Next]_vars
  PROVE  \/ World
         \/ mutex \in Thread /\ (Rename \/ CopyBegins \/ CopyEnds \/ RemoveSource)
         \/ UNCHANGED files
<1>1. (\E t \in Thread : Acquire(t)) \/ Exit \/ Kill => UNCHANGED files
  BY DEF Acquire, Exit, Kill, Gone
<1> QED BY <1>1, StepCases, HolderFiles

\* A thread gets a file by taking it up.
LEMMA StepTakesUp ==
  ASSUME Exclusion, [Next]_vars, NEW t \in Thread, file'[t] # None, file'[t] # file[t]
  PROVE  /\ file'[t] \in Image
         /\ dl[file'[t]] \in {"part", "whole"}
         /\ UNCHANGED files
<1>1. TypeOK /\ Control
  BY DEF Exclusion
<1>2. ASSUME NEW s \in Thread, NextEntry(s)
      PROVE  /\ file'[t] \in Image
             /\ dl[file'[t]] \in {"part", "whole"}
             /\ UNCHANGED files
  <2>1. PICK i \in todo[s] : file' = [file EXCEPT ![s] = i] /\ isSupportedImage(i)
    BY <1>2 DEF NextEntry
  <2>2. s = t /\ file'[t] = i /\ i \in Image
    BY <1>1, <2>1 DEF TypeOK
  <2> QED BY <1>2, <2>1, <2>2 DEF NextEntry, isSupportedImage
<1>3. ASSUME NEW c \in Commands, Receive(c)
      PROVE  /\ file'[t] \in Image
             /\ dl[file'[t]] \in {"part", "whole"}
             /\ UNCHANGED files
  <2>1. PICK i \in Image : file' = [file EXCEPT !["server"] = i] /\ dl[i] = "whole"
    BY <1>3 DEF Receive
  <2>2. file'[t] = i
    BY <1>1, <2>1 DEF TypeOK
  <2> QED BY <1>3, <2>1, <2>2 DEF Receive
<1>4. ASSUME NEW s \in Thread,
             \/ Acquire(s) \/ ScanEnds(s) \/ Stops(s) \/ ScanBreaksOff(s)
      PROVE  FALSE
  BY <1>4 DEF Acquire, ScanEnds, Stops, ScanBreaksOff
<1>5. ~(World \/ ScanBegins \/ Start \/ Create \/ Answer \/ CycleNow \/ UNCHANGED vars)
  BY DEF World, Begin, Write, ScanBegins, Start, Create, Answer, CycleNow, vars, threads
<1>6. ~(Exit \/ Kill)
  BY DEF Exit, Kill, Gone
<1>7. mutex \in Thread => ~Holder
  <2> SUFFICES ASSUME mutex \in Thread, Holder
               PROVE  FALSE
    OBVIOUS
  <2>1. file' = file \/ file' = [file EXCEPT ![mutex] = None]
    BY DEF Holder, OtherWork, HashFile, Rename, MoveFails, CopyBegins, CopyEnds, RemoveSource,
           ResolveActive, SaveIngested, Throws, Release, Registers, Goto
  <2> QED BY <1>1, <2>1 DEF TypeOK
<1> QED BY <1>2, <1>3, <1>4, <1>5, <1>6, <1>7 DEF Next, ThreadStep

-----------------------------------------------------------------------------
(* The files and the one in hand.                                          *)

\* At a step with a file, the file is an image.
LEMMA FileInHand ==
  ASSUME Exclusion, step \in AtFile
  PROVE  /\ mutex \in Thread /\ The \in Image /\ The = file[mutex]
         /\ Writer[The] \in {"browser", "inplace"}
  BY NoneAssumption, InputAssumption DEF Exclusion, TypeOK, Control, The, AtFile

LEMMA WrittenStep ==
  ASSUME Exclusion, Handling, [Next]_vars
  PROVE  Written'
<1>1. TypeOK /\ Written
  BY DEF Exclusion, Handling
<1>2. CASE UNCHANGED files
  BY <1>1, <1>2 DEF files, Written
<1>3. ASSUME NEW j \in Image, Begin(j) \/ Write(j)
      PROVE  Written'
  <2>1. Writer[j] \in {"browser", "inplace"}
    BY InputAssumption
  <2>2. CASE Begin(j)
    BY <1>1, <2>1, <2>2 DEF Begin, TypeOK, Written
  <2>3. CASE Write(j)
    BY <1>1, <2>1, <2>3 DEF Write, More, TypeOK, Written
  <2> QED BY <1>3, <2>2, <2>3
<1>4. ASSUME step \in AtFile
      PROVE  open[The] # "never" /\ open[The] # "temp"
  <2>1. file[mutex] # None /\ mutex \in Thread /\ The = file[mutex]
    BY <1>4, FileInHand, NoneAssumption
  <2>2. open[The] # "never" /\ (Writer[The] = "browser" => open[The] = "no")
    BY <2>1 DEF Handling, TakenUp
  <2> QED BY <1>1, <1>4, <2>2, FileInHand DEF Written
<1>5. CASE Rename
  <2>1. step \in AtFile /\ step \in Moving
    BY <1>5 DEF Rename, AtFile, Moving
  <2>2. The \in Image /\ dl[The] # "absent" /\ open[The] # "never" /\ open[The] # "temp"
    BY <1>4, <2>1, FileInHand DEF Handling, InHand
  <2>3. /\ dl' = [dl EXCEPT ![The] = "absent"]
        /\ root' = [root EXCEPT ![The] = dl[The]]
        /\ open' = [open EXCEPT ![The] = IF open[The] = "dl" THEN "root" ELSE open[The]]
    BY <1>5 DEF Rename, Follows
  <2> QED BY <1>1, <2>2, <2>3 DEF TypeOK, Written
<1>6. CASE CopyBegins \/ CopyEnds
  <2>1. step \in AtFile /\ step \in Moving
    BY <1>6 DEF CopyBegins, CopyEnds, AtFile, Moving
  <2>2. The \in Image /\ dl[The] # "absent" /\ open[The] # "never"
    BY <1>4, <2>1, FileInHand DEF Handling, InHand
  <2>3. PICK c : root' = [root EXCEPT ![The] = c]
    BY <1>1, <1>6, <2>2 DEF CopyBegins, CopyEnds, TypeOK
  <2>4. UNCHANGED <<dl, open>>
    BY <1>6 DEF CopyBegins, CopyEnds
  <2> QED BY <1>1, <2>2, <2>3, <2>4 DEF TypeOK, Written
<1>7. CASE RemoveSource
  <2>1. step \in AtFile /\ step \in Moving
    BY <1>7 DEF RemoveSource, AtFile, Moving
  <2>2. The \in Image /\ dl[The] # "absent" /\ open[The] # "never" /\ open[The] # "temp"
    BY <1>4, <2>1, FileInHand DEF Handling, InHand
  <2>3. /\ \/ UNCHANGED <<dl, open>>
           \/ /\ dl' = [dl EXCEPT ![The] = "absent"]
              /\ open' = [open EXCEPT ![The] = IF open[The] = "dl" THEN "unlinked"
                                               ELSE open[The]]
        /\ UNCHANGED root
    BY <1>7 DEF RemoveSource, Follows
  <2> QED BY <1>1, <2>2, <2>3 DEF TypeOK, Written
<1> QED BY <1>2, <1>3, <1>5, <1>6, <1>7, StepFiles DEF World

\* A writer that is done is done for good, and so is one that has begun.
LEMMA WritersGoOn ==
  ASSUME Exclusion, Handling, [Next]_vars, NEW i \in Image
  PROVE  /\ open[i] # "never" => open'[i] # "never"
         /\ open[i] = "no" => open'[i] = "no"
         /\ open[i] = "no" /\ dl[i] = "whole" => dl'[i] \in {"whole", "absent"}
<1>1. TypeOK
  BY DEF Exclusion
<1>2. CASE UNCHANGED files
  BY <1>2 DEF files
<1>3. ASSUME NEW j \in Image, Begin(j) \/ Write(j)
      PROVE  i # j => UNCHANGED <<open[i], dl[i]>>
  BY <1>1, <1>3 DEF Begin, Write, TypeOK
<1>4. Begin(i) \/ Write(i) => open[i] # "no" /\ open'[i] # "never"
  BY <1>1, InputAssumption DEF Begin, Write, TypeOK
<1>5. CASE Rename \/ CopyBegins \/ CopyEnds \/ RemoveSource
  <2>1. step \in AtFile
    BY <1>5 DEF Rename, CopyBegins, CopyEnds, RemoveSource, AtFile
  <2>2. /\ dl' = dl \/ dl' = [dl EXCEPT ![The] = "absent"]
        /\ \/ open' = open
           \/ \E where \in {"root", "unlinked"} :
                open' = [open EXCEPT ![The] = IF open[The] = "dl" THEN where ELSE open[The]]
    BY <1>5 DEF Rename, CopyBegins, CopyEnds, RemoveSource, Follows
  <2> QED BY <1>1, <2>1, <2>2, FileInHand DEF TypeOK
<1> QED BY <1>2, <1>3, <1>4, <1>5, StepFiles DEF World

LEMMA TakenUpStep ==
  ASSUME Exclusion, Handling, [Next]_vars
  PROVE  TakenUp'
<1> SUFFICES ASSUME NEW t \in Thread, file'[t] # None
             PROVE  /\ open'[file'[t]] # "never"
                    /\ Writer[file'[t]] = "browser" => open'[file'[t]] = "no"
  BY DEF TakenUp
<1>1. CASE file'[t] = file[t]
  <2>1. file[t] \in Image
    BY <1>1 DEF Exclusion, TypeOK
  <2> QED BY <1>1, <2>1, WritersGoOn DEF Handling, TakenUp
<1>2. CASE file'[t] # file[t]
  BY <1>2, StepTakesUp, InputAssumption DEF Handling, Written, Exclusion, TypeOK, files
<1> QED BY <1>1, <1>2

LEMMA InHandStep ==
  ASSUME Exclusion, Handling, [Next]_vars
  PROVE  InHand'
<1>1. TypeOK /\ Control /\ Written /\ TakenUp /\ InHand
  BY DEF Exclusion, Handling
<1> USE DEF AtFile, Moving
<1>2. CASE Outside /\ UNCHANGED files
  BY <1>1, <1>2 DEF Outside, files, InHand
<1>3. ASSUME Outside, NEW j \in Image, Begin(j) \/ Write(j)
      PROVE  InHand'
  <2> SUFFICES ASSUME step \in Moving
               PROVE  InHand'
    BY <1>3 DEF Outside, InHand
  <2>1. The' = The /\ The \in Image /\ UNCHANGED <<step, digest>>
    BY <1>3, FileInHand DEF Outside
  <2>2. dl'[The] # "absent"
    BY <1>1, <1>3, <2>1 DEF Begin, Write, More, InHand, TypeOK
  <2>3. open[The] = "no" => open'[The] = "no" /\ root'[The] = root[The]
    BY <1>1, <1>3, <2>1 DEF Begin, Write, TypeOK
  <2> QED BY <1>1, <2>1, <2>2, <2>3 DEF InHand
<1>4. CASE (\E t \in Thread : Acquire(t)) \/ Exit \/ Kill
  BY <1>4 DEF Acquire, Exit, Kill, Gone, InHand
<1>5. ASSUME Throws
      PROVE  InHand'
  BY <1>5 DEF Throws, Release, InHand
<1>6. CASE HashFile
  <2> SUFFICES ASSUME dl[The] # "absent", step' = "move", digest' = dl[The],
                      UNCHANGED <<file, mutex>>
               PROVE  InHand'
    BY <1>5, <1>6 DEF HashFile
  <2>1. The' = The /\ The \in Image /\ The = file[mutex] /\ mutex \in Thread
        /\ Writer[The] \in {"browser", "inplace"} /\ UNCHANGED files
    BY <1>6, FileInHand DEF HashFile, The
  <2>2. digest' = "whole" => open[The] = "no"
    BY <1>1, <2>1 DEF TypeOK, Written
  <2>3. digest' # "whole" => Writer[The] = "inplace"
    BY <1>1, <2>1, NoneAssumption DEF TypeOK, Written, TakenUp
  <2> QED BY <2>1, <2>2, <2>3 DEF InHand, files
<1>7. CASE CopyBegins
  <2>1. The \in Image /\ The' = The /\ step' = "copy" /\ UNCHANGED <<dl, open, digest>>
    BY <1>7, FileInHand DEF CopyBegins, Goto, The
  <2> QED BY <1>1, <1>7, <2>1 DEF CopyBegins, InHand
<1>8. CASE CopyEnds
  <2> SUFFICES ASSUME root' = [root EXCEPT ![The] = dl[The]], Goto("remove")
               PROVE  InHand'
    BY <1>5, <1>8 DEF CopyEnds
  <2>1. The \in Image /\ The' = The /\ UNCHANGED <<dl, open, digest>>
    BY <1>8, FileInHand DEF CopyEnds, Goto, The
  <2>2. InHand /\ digest = "whole" => dl[The] = "whole"
    BY <1>1, <1>8, <2>1 DEF CopyEnds, InHand, Written
  <2> QED BY <1>1, <1>8, <2>1, <2>2 DEF CopyEnds, InHand, TypeOK
<1>9. Holder => HashFile \/ CopyBegins \/ CopyEnds \/ Throws \/ step' \in Entered
  BY DEF Holder, OtherWork, Rename, MoveFails, RemoveSource, ResolveActive, SaveIngested,
         Registers, Goto, Entered
<1>10. step' \in Entered => InHand'
  BY DEF Entered, InHand
<1> QED
  BY <1>2, <1>3, <1>4, <1>5, <1>6, <1>7, <1>8, <1>9, <1>10, StepCases DEF World

LEMMA HandlingStep == Exclusion /\ Handling /\ [Next]_vars => Handling'
  BY WrittenStep, TakenUpStep, InHandStep DEF Handling

LEMMA HandlingInvariant == Spec => []Handling
<1>1. Init => Handling
  BY DEF Init, Handling, Written, TakenUp, InHand, Moving
<1> QED BY <1>1, HandlingStep, ExclusionInvariant, PTL DEF Spec

-----------------------------------------------------------------------------
(* What is written down about the files.                                   *)

Inv == Exclusion /\ Handling

\* A step that ends the process leaves of the manifest what is in the file, and
\* excuses what it cuts off.
LEMMA EndOfProcess ==
  ASSUME Inv, Books, Exit \/ Kill
  PROVE  /\ tracked' = disk /\ disk' = disk /\ step' = "none" /\ UNCHANGED files
         /\ excused \subseteq excused'
         /\ \A i \in excused' \ excused : step \in Entered /\ i = The
         /\ \A i \in Image : \A c \in Content :
              <<i, c>> \in tracked => <<i, c>> \in tracked' \/ i \in excused'
<1>1. tracked' = disk /\ disk' = disk /\ step' = "none" /\ UNCHANGED files
  BY DEF Exit, Kill, Gone
<1>2. CASE Exit
  <2>1. step = "none"
    BY <1>2 DEF Exit, Inv, Exclusion, TypeOK, Control
  <2> QED BY <1>1, <1>2, <2>1 DEF Exit, Books, Ahead, Entered
<1>3. CASE Kill
  <2>1. excused' = excused \union Unsaved
    BY <1>3 DEF Kill
  <2> QED BY <1>1, <2>1 DEF Unsaved, Books, Ahead, Entered
<1> QED BY <1>2, <1>3

\* A step of the holder at work, or one of the two that save an ingestion.
Saving == OtherWork \/ ResolveActive \/ SaveIngested

LEMMA SavingBooks ==
  ASSUME Inv, Saving
  PROVE  /\ UNCHANGED <<files, tracked, command>>
         /\ Throws \/ (step \in Entered /\ (Goto("save") \/ Goto("resolve")))
         /\ \/ Saves
            \/ UNCHANGED <<disk, excused>>
            \/ step \in Entered /\ UNCHANGED disk /\ excused' = excused \union {The}
<1>1. step \in Entered => The # None
  BY FileInHand, NoneAssumption DEF Inv, Entered, AtFile
<1> QED
  BY <1>1 DEF Saving, OtherWork, ResolveActive, SaveIngested, SaveFails, Entered

\* A step that registers the file in hand, which then is in the managed root and
\* nowhere else.
Registering == Rename \/ (RemoveSource /\ Registers)

LEMMA RegisteringFile ==
  ASSUME Inv, Registering
  PROVE  /\ step \in Moving /\ The \in Image /\ digest \in Content
         /\ dl[The] # "absent" /\ open[The] # "never" /\ open'[The] # "never"
         /\ tracked' = tracked \union {<<The, digest>>} /\ UNCHANGED <<disk, excused>>
         /\ step' = (IF FromScan THEN "resolve" ELSE "save") /\ FromScan' = FromScan
         /\ The' = The /\ digest' = digest
         /\ dl' = [dl EXCEPT ![The] = "absent"]
         /\ \A i \in Image : i # The => UNCHANGED <<root[i], open[i]>>
         /\ open'[The] = "no" => open[The] = "no"
         /\ digest = "whole" => open'[The] = "no" /\ root'[The] = "whole"
         /\ digest # "whole" => Writer[The] = "inplace"
<1>1. TypeOK /\ Control /\ Written /\ TakenUp /\ InHand
  BY DEF Inv, Exclusion, Handling
<1>2. step \in Moving /\ step \in AtFile \ {"hash"}
  BY DEF Registering, Rename, RemoveSource, Moving, AtFile
<1>3. The \in Image /\ The = file[mutex] /\ mutex \in Thread /\ digest \in Content
  BY <1>1, <1>2, FileInHand DEF Inv, Control
<1>4. dl[The] # "absent" /\ open[The] # "never"
  BY <1>1, <1>2, <1>3, NoneAssumption DEF InHand, TakenUp
<1>5. PICK where \in {"root", "unlinked"} : Follows(where)
  BY DEF Registering, Rename, RemoveSource, Registers, Goto, Throws, Release
<1>6. /\ open'[The] = IF open[The] = "dl" THEN where ELSE open[The]
      /\ \A i \in Image : i # The => open'[i] = open[i]
  BY <1>1, <1>3, <1>5 DEF Follows, TypeOK
<1>7. /\ dl' = [dl EXCEPT ![The] = "absent"]
      /\ Registers /\ UNCHANGED <<disk, excused, command>>
      /\ \A i \in Image : i # The => root'[i] = root[i]
  BY <1>1, <1>3 DEF Registering, Rename, RemoveSource, Registers, Goto, Throws, Release, TypeOK
<1>8. The' = The /\ digest' = digest /\ FromScan' = FromScan
  BY <1>7 DEF Registers, Goto, The, FromScan
<1>9. ASSUME digest = "whole"
      PROVE  open'[The] = "no" /\ root'[The] = "whole"
  <2>1. open[The] = "no" /\ dl[The] = "whole"
    BY <1>1, <1>2, <1>3, <1>4, <1>9 DEF InHand, Written
  <2>2. CASE Rename
    BY <1>1, <1>3, <1>6, <2>1, <2>2 DEF Rename, TypeOK
  <2>3. CASE RemoveSource
    BY <1>1, <1>3, <1>6, <1>9, <2>1, <2>3 DEF RemoveSource, InHand, Moving
  <2> QED BY <2>2, <2>3 DEF Registering
<1>10. digest # "whole" => Writer[The] = "inplace"
  BY <1>1, <1>2 DEF InHand
<1>11. open'[The] # "never" /\ (open'[The] = "no" => open[The] = "no")
  BY <1>4, <1>6
<1> QED
  BY <1>2, <1>3, <1>4, <1>6, <1>7, <1>8, <1>9, <1>10, <1>11 DEF Registers, Goto

\* The steps of the holder, by what they do to files and books.
LEMMA HolderCases ==
  ASSUME Inv, mutex \in Thread, Holder
  PROVE  \/ Saving
         \/ Registering
         \/ UNCHANGED books /\ step' \notin Entered /\ step \notin Entered
  BY DEF Holder, Saving, Registering, HashFile, MoveFails, CopyBegins, CopyEnds, RemoveSource,
         Throws, Release, Goto, Entered, books

\* A file leaves the download directory by being registered, and never comes back;
\* what is not in its writer's hand any more stays as it is in the managed root.
LEMMA FileFate ==
  ASSUME Inv, [Next]_vars, NEW i \in Image
  PROVE  /\ dl[i] = "absent" /\ open[i] # "never" =>
              /\ dl'[i] = "absent" /\ open'[i] # "never"
              /\ open[i] = "no" => root'[i] = root[i]
         /\ dl'[i] = "absent" /\ ~(Registering /\ i = The) =>
              /\ dl[i] = "absent"
              /\ root'[i] # "absent" => root[i] # "absent"
              /\ open'[i] = "no" => open[i] = "no" \/ root'[i] = "whole"
<1>1. TypeOK /\ Control /\ Written /\ InHand
  BY DEF Inv, Exclusion, Handling
<1>2. CASE UNCHANGED files
  BY <1>2 DEF files
<1>3. ASSUME NEW j \in Image, Begin(j) \/ Write(j)
      PROVE  i # j => UNCHANGED <<dl[i], root[i], open[i]>>
  BY <1>1, <1>3 DEF Begin, Write, TypeOK
<1>4. CASE Begin(i)
  BY <1>1, <1>4 DEF Begin, TypeOK
<1>5. CASE Write(i)
  BY <1>1, <1>5, InputAssumption DEF Write, More, TypeOK, Written
<1>6. ASSUME CopyBegins \/ CopyEnds \/ RemoveSource \/ Rename
      PROVE  /\ The \in Image /\ dl[The] # "absent"
             /\ \A j \in Image : j # The => UNCHANGED <<dl[j], root[j], open[j]>>
  <2>1. step \in Moving /\ step \in AtFile
    BY <1>6 DEF CopyBegins, CopyEnds, RemoveSource, Rename, Moving, AtFile
  <2>2. The \in Image /\ dl[The] # "absent"
    BY <1>1, <2>1, FileInHand DEF Inv, InHand
  <2> QED
    BY <1>1, <1>6, <2>2 DEF CopyBegins, CopyEnds, RemoveSource, Rename, Follows, TypeOK
<1>7. CASE CopyBegins \/ CopyEnds \/ RemoveSource \/ Rename
  <2>1. CASE i = The /\ ~Registering
    <3>1. UNCHANGED dl
      BY <1>7, <2>1 DEF CopyBegins, CopyEnds, RemoveSource, Registering
    <3> QED BY <1>6, <1>7, <2>1, <3>1
  <2>2. CASE i = The /\ Registering
    BY <1>6, <1>7, <2>2
  <2> QED BY <1>6, <1>7, <2>1, <2>2
<1> QED BY <1>2, <1>3, <1>4, <1>5, <1>7, StepFiles DEF World, Inv

LEMMA TrackedFilesStep ==
  ASSUME Inv, Books, [Next]_vars
  PROVE  TrackedFiles'
<1> DEFINE Kept(i, c) == /\ dl[i] = "absent" /\ open[i] # "never"
                         /\ c = "whole" => open[i] = "no" /\ root[i] = "whole"
                         /\ c # "whole" => Writer[i] = "inplace"
<1>1. /\ disk \subseteq tracked
      /\ \A i \in Image, c \in Content : <<i, c>> \in tracked => Kept(i, c)
      /\ \A i \in excused : dl[i] = "absent" /\ open[i] # "never"
  BY DEF Books, TrackedFiles
<1>2. excused \subseteq Image /\ tracked \subseteq Image \X Content
  BY DEF Inv, Exclusion, TypeOK, Digest
<1>3. \A i \in Image : dl[i] = "absent" /\ open[i] # "never" => dl'[i] = "absent" /\ open'[i] # "never"
  BY FileFate
<1>4. \A i \in Image, c \in Content : Kept(i, c) => Kept(i, c)'
  <2> SUFFICES ASSUME NEW i \in Image, NEW c \in Content, Kept(i, c)
               PROVE  Kept(i, c)'
    OBVIOUS
  <2> QED BY FileFate, WritersGoOn DEF Inv
<1>5. step \in Entered => The \in Image /\ dl[The] = "absent" /\ open[The] # "never"
  BY <1>1, <1>2 DEF Books, JustEntered
<1>6. SUFFICES
        /\ disk' \subseteq tracked'
        /\ \A i \in Image, c \in Content : <<i, c>> \in tracked' \ tracked => Kept(i, c)'
        /\ \A i \in excused' \ excused : i \in Image /\ dl'[i] = "absent" /\ open'[i] # "never"
  BY <1>1, <1>2, <1>3, <1>4 DEF TrackedFiles
<1>7. CASE UNCHANGED books
  BY <1>1, <1>7 DEF books
<1>8. CASE Exit \/ Kill
  <2>1. tracked' = disk /\ disk' = disk /\ \A i \in excused' \ excused : step \in Entered /\ i = The
    BY <1>8, EndOfProcess
  <2> QED BY <1>1, <1>3, <1>5, <2>1
<1>9. CASE Saving
  <2>1. /\ tracked' = tracked /\ disk' \in {disk, tracked}
        /\ \A i \in excused' \ excused : step \in Entered /\ i = The
    BY <1>9, SavingBooks DEF Saves
  <2> QED BY <1>1, <1>3, <1>5, <2>1
<1>10. CASE Registering
  <2>1. /\ tracked' = tracked \union {<<The, digest>>} /\ UNCHANGED <<disk, excused>>
        /\ The \in Image /\ digest \in Content
        /\ dl'[The] = "absent" /\ open'[The] # "never"
        /\ digest = "whole" => open'[The] = "no" /\ root'[The] = "whole"
        /\ digest # "whole" => Writer[The] = "inplace"
    BY <1>10, RegisteringFile DEF Inv, Exclusion, TypeOK
  <2> QED BY <1>1, <2>1
<1>11. (\E t \in Thread : Acquire(t)) \/ Outside => UNCHANGED books
  BY DEF Acquire, Outside
<1> QED BY <1>7, <1>8, <1>9, <1>10, <1>11, StepCases, HolderCases DEF Inv

LEMMA JustEnteredStep ==
  ASSUME Inv, Books, [Next]_vars
  PROVE  JustEntered'
<1> SUFFICES ASSUME step' \in Entered
             PROVE  /\ <<The, digest>>' \in tracked'
                    /\ step' = "resolve" /\ ~FromScan' => <<The, digest>>' \in disk'
  BY DEF JustEntered
<1>1. JustEntered /\ TrackedFiles
  BY DEF Books
<1>2. CASE Outside
  <2>1. step = step' /\ step \in AtFile
    BY <1>2 DEF Outside, Entered, AtFile
  <2>2. The' = The /\ (FromScan' <=> FromScan) /\ UNCHANGED <<tracked, disk, digest>>
    BY <1>2, <2>1 DEF Outside, books
  <2> QED BY <1>1, <2>1, <2>2 DEF JustEntered
<1>3. CASE Saving
  <2>1. /\ step \in Entered /\ (Goto("save") \/ Goto("resolve"))
        /\ UNCHANGED <<tracked, command>>
    BY <1>3, SavingBooks DEF Throws, Release, Entered
  <2>2. The' = The /\ digest' = digest /\ FromScan' = FromScan
    BY <2>1 DEF Goto, The, FromScan
  <2>3. step' = "resolve" => disk' = tracked \/ FromScan
    BY <1>3, <2>1
       DEF Saving, OtherWork, ResolveActive, SaveIngested, Goto, Throws, Release, Saves, Entered
  <2> QED BY <1>1, <2>1, <2>2, <2>3 DEF JustEntered
<1>4. CASE Registering
  BY <1>4, RegisteringFile
<1>5. ~((\E t \in Thread : Acquire(t)) \/ Exit \/ Kill)
  BY DEF Acquire, Exit, Kill, Gone, Entered
<1> QED BY <1>2, <1>3, <1>4, <1>5, StepCases, HolderCases DEF Inv

LEMMA AheadStep ==
  ASSUME Inv, Books, [Next]_vars
  PROVE  Ahead'
<1> SUFFICES ASSUME NEW i \in Image, NEW c \in Content, <<i, c>> \in tracked' \ disk'
             PROVE  i \in excused' \/ (step' \in Entered /\ i = The' /\ c = digest')
  BY DEF Ahead
<1>1. Ahead /\ JustEntered /\ TypeOK /\ Control
  BY DEF Inv, Exclusion, Books
<1>2. CASE Outside
  <2>1. UNCHANGED <<step, digest, tracked, disk, excused>> /\ (step \in Entered => The' = The)
    BY <1>2 DEF Outside, books, Entered, AtFile
  <2> QED BY <1>1, <2>1 DEF Ahead
<1>3. ASSUME NEW t \in Thread, Acquire(t)
      PROVE  i \in excused'
  BY <1>1, <1>3 DEF Acquire, books, Control, Ahead, Entered
<1>4. ~(Exit \/ Kill)
  BY DEF Exit, Kill, Gone
<1>5. CASE Saving
  <2>1. ~Saves /\ <<i, c>> \in tracked
    BY <1>5, SavingBooks DEF Saves
  <2>2. CASE excused' = excused \union {The} /\ UNCHANGED disk
    BY <1>1, <2>1, <2>2 DEF Ahead
  <2>3. CASE UNCHANGED <<disk, excused>> /\ (Goto("save") \/ Goto("resolve")) /\ step \in Entered
    BY <1>1, <2>1, <2>3 DEF Goto, Ahead, Entered, The
  <2>4. CASE UNCHANGED <<disk, excused>> /\ Throws
    <3>1. SaveFails /\ step \in Entered => The \in excused
      BY <2>4, FileInHand, NoneAssumption DEF SaveFails, Inv, Entered, AtFile
    <3>2. step \in Entered => (step = "resolve" /\ ~FromScan) \/ The \in excused
      BY <1>5, <2>1, <2>4, <3>1
         DEF Saving, OtherWork, ResolveActive, SaveIngested, Goto, Throws, Release, Entered
    <3> QED BY <1>1, <2>1, <2>4, <3>2 DEF Ahead, JustEntered
  <2> QED BY <1>5, <2>1, <2>2, <2>3, <2>4, SavingBooks
<1>6. CASE Registering
  <2>1. /\ tracked' = tracked \union {<<The, digest>>} /\ UNCHANGED <<disk, excused>>
        /\ step' \in Entered /\ The' = The /\ digest' = digest /\ step \notin Entered
    BY <1>6, RegisteringFile DEF Entered, Moving
  <2> QED BY <1>1, <2>1 DEF Ahead
<1>7. CASE UNCHANGED books /\ step \notin Entered
  BY <1>1, <1>7 DEF books, Ahead
<1> QED BY <1>2, <1>3, <1>4, <1>5, <1>6, <1>7, StepCases, HolderCases DEF Inv

\* What a step does to the record of one image.
LEMMA RecordKept ==
  ASSUME Inv, Books, [Next]_vars, NEW i \in Image
  PROVE  /\ \A c \in Content : <<i, c>> \in tracked => <<i, c>> \in tracked' \/ i \in excused'
         /\ i \in excused => i \in excused' \/ \E c \in Content : <<i, c>> \in tracked'
<1>1. CASE UNCHANGED books
  BY <1>1 DEF books
<1>2. CASE Exit \/ Kill
  BY <1>2, EndOfProcess
<1>3. CASE Saving
  BY <1>3, SavingBooks DEF Saves
<1>4. CASE Registering
  BY <1>4, RegisteringFile
<1>5. (\E t \in Thread : Acquire(t)) \/ Outside => UNCHANGED books
  BY DEF Acquire, Outside
<1> QED BY <1>1, <1>2, <1>3, <1>4, <1>5, StepCases, HolderCases DEF Inv

LEMMA AccountedStep ==
  ASSUME Inv, Books, [Next]_vars
  PROVE  Accounted'
<1> SUFFICES ASSUME NEW i \in Image, dl'[i] = "absent", root'[i] # "absent"
             PROVE  i \in excused' \/ \E c \in Content : <<i, c>> \in tracked'
  BY DEF Accounted
<1>1. CASE Registering /\ i = The
  BY <1>1, RegisteringFile
<1>2. CASE ~(Registering /\ i = The)
  <2>1. i \in excused \/ \E c \in Content : <<i, c>> \in tracked
    BY <1>2, FileFate DEF Books, Accounted
  <2> QED BY <2>1, RecordKept
<1> QED BY <1>1, <1>2

LEMMA ArrivedWholeStep ==
  ASSUME Inv, Books, [Next]_vars
  PROVE  ArrivedWhole'
<1> SUFFICES ASSUME NEW i \in Image, open'[i] = "no", dl'[i] = "absent", root'[i] # "whole"
             PROVE  HashedEarly(i)'
  BY DEF ArrivedWhole
<1>1. CASE Registering /\ i = The
  BY <1>1, RegisteringFile DEF HashedEarly
<1>2. CASE ~(Registering /\ i = The)
  <2>1. open[i] = "no" /\ dl[i] = "absent"
    BY <1>2, FileFate
  <2>2. root[i] # "whole"
    BY <2>1, FileFate
  <2>3. HashedEarly(i)
    BY <2>1, <2>2 DEF Books, ArrivedWhole
  <2>4. \A c \in Content : <<i, c>> \in tracked' => c # "whole"
    BY TrackedFilesStep DEF TrackedFiles
  <2> QED BY <2>3, <2>4, RecordKept DEF HashedEarly
<1> QED BY <1>1, <1>2

LEMMA BooksInvariant == Spec => []Books
<1>1. Init => Books
  BY DEF Init, Books, TrackedFiles, JustEntered, Ahead, Accounted, ArrivedWhole, Entered
<1>2. Inv /\ Books /\ [Next]_vars => Books'
  BY TrackedFilesStep, JustEnteredStep, AheadStep, AccountedStep, ArrivedWholeStep DEF Books
<1>3. Exclusion /\ Handling => Inv
  BY DEF Inv
<1> QED BY <1>1, <1>2, <1>3, ExclusionInvariant, HandlingInvariant, PTL DEF Spec

\* No image that has arrived is lost, whatever threads, writers, failed moves and
\* kills do: it is whole under one of its names unless it was hashed early.
THEOREM ImagesNotLost == Spec => []NothingLost
<1>1. Exclusion /\ Handling /\ Books => NothingLost
  BY DEF Exclusion, TypeOK, Handling, Written, Books, ArrivedWhole, NothingLost
<1> QED BY <1>1, ExclusionInvariant, HandlingInvariant, BooksInvariant, PTL

\* No image that was moved is forgotten by the manifest file beyond the one under
\* way, those killed in that window, and those whose save failed.
THEOREM ImagesNotForgotten == Spec => []NoOrphans
<1>1. Books => NoOrphans
  BY DEF Books, Accounted, Ahead, NoOrphans, Unsaved, Entered
<1> QED BY <1>1, BooksInvariant, PTL

\* A browser's download is tracked by the digest of the whole image, which the file
\* then holds, however the scans and commands interleave.
THEOREM DownloadsWhole == Spec => []DownloadsHashedWhole
<1>1. Books => DownloadsHashedWhole
  BY DEF Books, TrackedFiles, DownloadsHashedWhole
<1> QED BY <1>1, BooksInvariant, PTL
=============================================================================
