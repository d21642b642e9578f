---------------------------- MODULE ManifestStore ----------------------------
(***************************************************************************)
(* ManifestStore of lib/io/store.hpp over the files of lib/io/fs.cpp: save *)
(* writes manifestPath.tmp, syncs it and renames it over manifestPath,     *)
(* load reads manifestPath when the daemon starts.  What a file holds for  *)
(* its readers and what of it is on the disk are two things until it is    *)
(* synced, and a rename reaches the disk at some time of its own.  The     *)
(* daemon may be killed and the power may fail between any two steps.      *)
(* The format of the file is a parameter: ManifestCodec is the one of the  *)
(* code.                                                                   *)
(*                                                                         *)
(* One daemon saves at a time, under the engine mutex.                     *)
(***************************************************************************)
EXTENDS Naturals, Sequences

CONSTANTS
  Version,    \* manifests
  Empty,      \* Manifest{}
  None,
  Encode(_),  \* the fields of the file that holds a version
  Decode(_),  \* the version load reads from them, or None if it throws
  Faults      \* "error": calls fail; "short": a write stops early unnoticed

ASSUME VersionAssumption == Empty \in Version /\ None \notin Version
ASSUME NoneAssumption    ==
  None \notin Seq(Nat) /\ None \notin [now : Seq(Nat), disk : Seq(Nat)]
ASSUME FaultsAssumption  == Faults \subseteq {"error", "short"}
ASSUME CodecAssumption   ==
  \A v \in Version : /\ Encode(v) \in Seq(Nat)
                     /\ Encode(v) # << >>
                     /\ Decode(Encode(v)) = v

VARIABLES
  main,     \* the file at manifestPath: what readers get, what the disk holds
  temp,     \* the file at manifestPath.tmp
  settled,  \* what the disk holds under manifestPath: main or a file before it
  memory,   \* the manifest of the running daemon, or None
  at        \* where save is

vars == <<main, temp, settled, memory, at>>

File(now, disk) == [now |-> now, disk |-> disk]

Steps == {"idle", "open", "write", "sync", "rename"}

Init ==
  /\ main = None /\ temp = None
  /\ settled = None
  /\ memory = Empty
  /\ at = "idle"

-----------------------------------------------------------------------------
(* Saving.                                                                 *)

\* The engine has edited the manifest and calls save.
Save(v) ==
  /\ memory # None /\ at = "idle"
  /\ memory' = v
  /\ at' = "open"
  /\ UNCHANGED <<main, temp, settled>>

\* Mutants of Open: a file left behind is not truncated; it is taken for the one
\* to be written.
OpenWithoutTrunc ==
  /\ at = "open"
  /\ temp' = IF temp = None THEN File(<< >>, << >>) ELSE temp
  /\ at' = "write"
  /\ UNCHANGED <<main, settled, memory>>

OpenReuses ==
  /\ at = "open"
  /\ temp' = IF temp = None THEN File(<< >>, << >>) ELSE temp
  /\ at' = IF temp = None THEN "write" ELSE "sync"
  /\ UNCHANGED <<main, settled, memory>>

\* write opens the .tmp and truncates what is there.
Open ==
  /\ at = "open"
  /\ temp' = File(<< >>, << >>)
  /\ at' = "write"
  /\ UNCHANGED <<main, settled, memory>>

\* The next field reaches the file.
Write ==
  /\ at = "write"
  /\ Len(temp.now) < Len(Encode(memory))
  /\ temp' = [temp EXCEPT !.now = Append(@, Encode(memory)[Len(@) + 1])]
  /\ UNCHANGED <<main, settled, memory, at>>

\* write returns.  Nothing looks at the state of the stream: when the device was
\* full the file is shorter.
Close ==
  /\ at = "write"
  /\ Len(temp.now) < Len(Encode(memory)) => "short" \in Faults
  /\ at' = "sync"
  /\ UNCHANGED <<main, temp, settled, memory>>

\* Mutant of Sync: fsync is not called.
SyncNothing ==
  /\ at = "sync"
  /\ at' = "rename"
  /\ UNCHANGED <<main, temp, settled, memory>>

Sync ==
  /\ at = "sync"
  /\ temp' = [temp EXCEPT !.disk = temp.now]
  /\ at' = "rename"
  /\ UNCHANGED <<main, settled, memory>>

Rename ==
  /\ at = "rename"
  /\ main' = temp /\ temp' = None
  /\ at' = "idle"
  /\ UNCHANGED <<settled, memory>>

\* The open, the fsync or the rename fails; the .tmp stays behind.
Throw ==
  /\ "error" \in Faults
  /\ at \in {"open", "sync", "rename"}
  /\ at' = "idle"
  /\ UNCHANGED <<main, temp, settled, memory>>

Saving == (\E v \in Version : Save(v)) \/ Open \/ Write \/ Close \/ Sync \/ Rename \/ Throw

-----------------------------------------------------------------------------
(* Loading.                                                                *)

\* What load returns; None when it throws, and then the daemon does not start.
Loaded == IF main = None THEN Empty ELSE Decode(main.now)

Start ==
  /\ memory = None
  /\ Loaded # None
  /\ memory' = Loaded
  /\ UNCHANGED <<main, temp, settled, at>>

-----------------------------------------------------------------------------
(* The kernel, and crashes.                                                *)

\* The file being written reaches the disk before it is synced.
WriteBack ==
  /\ temp # None /\ temp.disk # temp.now
  /\ temp' = [temp EXCEPT !.disk = temp.now]
  /\ UNCHANGED <<main, settled, memory, at>>

OnDisk(file) == IF file = None THEN None ELSE file.disk

\* The directory reaches the disk.
Settle ==
  /\ settled # OnDisk(main)
  /\ settled' = OnDisk(main)
  /\ UNCHANGED <<main, temp, memory, at>>

Kill ==
  /\ memory # None
  /\ memory' = None
  /\ at' = "idle"
  /\ UNCHANGED <<main, temp, settled>>

\* What was not on the disk is gone, and the last rename with it unless the
\* directory was written back.
PowerFailure ==
  /\ \E bytes \in {settled, OnDisk(main)} :
       /\ main' = IF bytes = None THEN None ELSE File(bytes, bytes)
       /\ settled' = bytes
  /\ temp' = IF temp = None THEN None ELSE File(temp.disk, temp.disk)
  /\ memory' = None
  /\ at' = "idle"

Next == Saving \/ Start \/ WriteBack \/ Settle \/ Kill \/ PowerFailure

Spec == Init /\ [][Next]_vars

\* A daemon that is down is started again.
FairSpec == Spec /\ WF_vars(Start)

-----------------------------------------------------------------------------
(* Properties.                                                             *)

\* Every file holds the beginning of some version, never a mixture of two: what
\* the save writes follows what it found in the .tmp.  A save under way has a
\* manifest, and the file it works on.
Prefix(v, bytes) == \E n \in 0..Len(Encode(v)) : bytes = SubSeq(Encode(v), 1, n)

Partial(bytes) == \E v \in Version : Prefix(v, bytes)

PartialFile(file) ==
  file = None \/ /\ file = File(file.now, file.disk)
                 /\ Partial(file.now) /\ Partial(file.disk)

TypeOK ==
  /\ PartialFile(main) /\ PartialFile(temp)
  /\ settled = None \/ Partial(settled)
  /\ memory \in Version \union {None}
  /\ at \in Steps
  /\ at # "idle" => memory # None
  /\ at \in {"write", "sync", "rename"} => temp # None

\* A daemon that was killed, or lost its power in the middle of a save, finds a
\* manifest it can load.
Restartable == memory = None ~> memory # None

\* Saving is transaction-safe: seen by whoever loads it, the manifest goes from one
\* complete version to the next at once, and a save that throws or is cut off
\* leaves it alone.
Readable(bytes) == IF bytes = None THEN Empty ELSE Decode(bytes)

Cell == INSTANCE AtomicManifest
          WITH current <- Loaded,
               settled <- Readable(settled),
               pending <- IF at = "idle" THEN None ELSE memory
ImplementsCell == Cell!Spec
=============================================================================
