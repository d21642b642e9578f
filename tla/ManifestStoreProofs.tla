------------------------- MODULE ManifestStoreProofs -------------------------
(***************************************************************************)
(* Theorems about ManifestStore, for any versions and any format that is   *)
(* read back as it was written.                                            *)
(*                                                                         *)
(* When no write stops early, unnoticed by save:                           *)
(*   TypeCorrect  the files never mix two versions, whatever else fails;   *)
(*   Atomic       the files implement AtomicManifest.                      *)
(***************************************************************************)
EXTENDS ManifestStore, SequenceTheorems, TLAPS

LEMMA EncodeType ==
  ASSUME NEW v \in Version
  PROVE  /\ Encode(v) \in Seq(Nat) /\ Encode(v) # << >> /\ Decode(Encode(v)) = v
         /\ Len(Encode(v)) \in Nat /\ Encode(v) = SubSeq(Encode(v), 1, Len(Encode(v)))
<1>1. Encode(v) \in Seq(Nat) /\ Encode(v) # << >> /\ Decode(Encode(v)) = v
  BY CodecAssumption
<1>2. QED
  BY <1>1

\* What has been written of a version is a sequence of fields.
LEMMA PrefixType ==
  ASSUME NEW v \in Version, NEW bytes, Prefix(v, bytes)
  PROVE  bytes \in Seq(Nat) /\ Len(bytes) <= Len(Encode(v))
<1>1. PICK n \in 0..Len(Encode(v)) : bytes = SubSeq(Encode(v), 1, n)
  BY DEF Prefix
<1>2. QED
  BY <1>1, EncodeType

\* The next field makes a longer prefix; with the last one the file is complete.
LEMMA PrefixGrows ==
  ASSUME NEW v \in Version, NEW bytes, Prefix(v, bytes), Len(bytes) < Len(Encode(v))
  PROVE  Prefix(v, Append(bytes, Encode(v)[Len(bytes) + 1]))
<1>1. PICK n \in 0..Len(Encode(v)) : bytes = SubSeq(Encode(v), 1, n)
  BY DEF Prefix
<1>2. Len(bytes) = n /\ n + 1 \in 0..Len(Encode(v))
  BY <1>1, EncodeType
<1>3. Append(bytes, Encode(v)[n + 1]) = SubSeq(Encode(v), 1, n + 1)
  BY <1>1, <1>2, EncodeType
<1>4. QED
  BY <1>2, <1>3 DEF Prefix

LEMMA PrefixEnds ==
  ASSUME NEW v \in Version, NEW bytes, Prefix(v, bytes), ~(Len(bytes) < Len(Encode(v)))
  PROVE  bytes = Encode(v)
<1>1. PICK n \in 0..Len(Encode(v)) : bytes = SubSeq(Encode(v), 1, n)
  BY DEF Prefix
<1>2. n = Len(Encode(v))
  BY <1>1, EncodeType
<1>3. QED
  BY <1>1, <1>2, EncodeType

LEMMA PrefixEmpty == ASSUME NEW v \in Version PROVE Prefix(v, << >>)
<1>1. SubSeq(Encode(v), 1, 0) = << >> /\ 0 \in 0..Len(Encode(v))
  BY EncodeType
<1>2. QED
  BY <1>1 DEF Prefix

LEMMA PrefixFull == ASSUME NEW v \in Version PROVE Prefix(v, Encode(v))
BY EncodeType DEF Prefix

-----------------------------------------------------------------------------
(* The inductive invariant.  While the .tmp is written it holds a          *)
(* beginning of the manifest being saved, which is what makes the next     *)
(* field fit; when it is synced it is complete, and when it is renamed it  *)
(* is complete on the disk as well.  Only a file like that gets to         *)
(* manifestPath, so that no crash can change what load returns from it.    *)

Whole(file) == \E v \in Version : file = File(Encode(v), Encode(v))

Inv ==
  /\ TypeOK
  /\ at = "write" => Prefix(memory, temp.now)
  /\ at = "sync" => temp.now = Encode(memory)
  /\ at = "rename" => temp = File(Encode(memory), Encode(memory))
  /\ main = None \/ Whole(main)
  /\ settled = None \/ \E v \in Version : settled = Encode(v)

LEMMA FileFields == ASSUME NEW b, NEW d PROVE File(b, d).now = b /\ File(b, d).disk = d
BY DEF File

LEMMA FileExists == ASSUME NEW b \in Seq(Nat), NEW d \in Seq(Nat) PROVE File(b, d) # None
<1>1. File(b, d) \in [now : Seq(Nat), disk : Seq(Nat)]
  BY DEF File
<1>2. QED
  BY <1>1, NoneAssumption

LEMMA WholeFile == ASSUME NEW v \in Version
                   PROVE  File(Encode(v), Encode(v)) # None /\ PartialFile(File(Encode(v), Encode(v)))
BY EncodeType, PrefixFull, FileExists, FileFields DEF PartialFile, Partial

\* What load returns from a whole file.
LEMMA LoadedType == Inv => /\ Loaded \in Version
                           /\ OnDisk(main) = None \/ \E v \in Version : OnDisk(main) = Encode(v)
                           /\ Readable(OnDisk(main)) = Loaded
<1>1. CASE main = None
  BY <1>1, VersionAssumption DEF Loaded, OnDisk, Readable
<1>2. ASSUME NEW v \in Version, main = File(Encode(v), Encode(v))
      PROVE  /\ Loaded \in Version /\ OnDisk(main) = Encode(v)
             /\ Readable(OnDisk(main)) = Loaded
  <2>1. main # None /\ main.now = Encode(v) /\ main.disk = Encode(v)
    BY <1>2, WholeFile, FileFields
  <2>2. Encode(v) # None /\ Decode(Encode(v)) = v
    BY EncodeType, NoneAssumption
  <2>3. QED
    BY <2>1, <2>2 DEF Loaded, OnDisk, Readable
<1>3. QED
  BY <1>1, <1>2 DEF Inv, Whole

LEMMA InvStep == "short" \notin Faults /\ Inv /\ [Next]_vars => Inv'
<1> SUFFICES ASSUME "short" \notin Faults, Inv, [Next]_vars PROVE Inv'
  OBVIOUS
<1> DEFINE FilesOK(m, t, s) == /\ PartialFile(m) /\ PartialFile(t)
                               /\ s = None \/ Partial(s)
                               /\ m = None \/ Whole(m)
                               /\ s = None \/ \E v \in Version : s = Encode(v)
<1>a. FilesOK(main, temp, settled)
  BY DEF Inv, TypeOK
<1>b. /\ memory \in Version \union {None} /\ at \in Steps
      /\ at # "idle" => memory # None
      /\ at \in {"write", "sync", "rename"} => temp # None
      /\ at = "write" => Prefix(memory, temp.now)
      /\ at = "sync" => temp.now = Encode(memory)
      /\ at = "rename" => temp = File(Encode(memory), Encode(memory))
  BY DEF Inv, TypeOK
<1>c. ASSUME FilesOK(main', temp', settled'),
             memory' \in Version \union {None}, at' \in Steps,
             at' # "idle" => memory' # None,
             at' \in {"write", "sync", "rename"} => temp' # None,
             at' = "write" => Prefix(memory', temp'.now),
             at' = "sync" => temp'.now = Encode(memory'),
             at' = "rename" => temp' = File(Encode(memory'), Encode(memory'))
      PROVE  Inv'
  BY <1>c DEF Inv, TypeOK, PartialFile, Partial, Prefix, Whole
<1> HIDE DEF FilesOK
<1> USE DEF Steps
<1>1. ASSUME NEW v \in Version, Save(v) PROVE Inv'
  <2>1. memory' = v /\ at' = "open" /\ UNCHANGED <<main, temp, settled>>
    BY <1>1 DEF Save
  <2>2. FilesOK(main', temp', settled')
    BY <1>a, <2>1
  <2>3. memory' # None
    BY <2>1, VersionAssumption
  <2>4. QED
    BY <1>c, <2>1, <2>2, <2>3
<1>2. CASE Open
  <2>1. temp' = File(<< >>, << >>) /\ at' = "write" /\ UNCHANGED <<main, settled, memory>>
    BY <1>2 DEF Open
  <2>2. memory \in Version /\ memory # None
    BY <1>2, <1>b DEF Open
  <2>3. Prefix(memory, << >>)
    BY <2>2, PrefixEmpty
  <2>4. temp'.now = << >> /\ temp'.disk = << >> /\ temp' # None
    <3>1. << >> \in Seq(Nat)
      OBVIOUS
    <3>2. QED
      BY <2>1, <3>1, FileFields, FileExists
  <2>5. PartialFile(temp')
    BY <2>1, <2>2, <2>3, <2>4 DEF PartialFile, Partial
  <2>6. FilesOK(main', temp', settled')
    BY <1>a, <2>1, <2>5 DEF FilesOK
  <2>7. Prefix(memory', temp'.now)
    BY <2>1, <2>3, <2>4
  <2>8. QED
    BY <1>b, <1>c, <2>1, <2>2, <2>4, <2>6, <2>7
<1>3. CASE Write
  <2>1. /\ at = "write" /\ Len(temp.now) < Len(Encode(memory))
        /\ temp' = [temp EXCEPT !.now = Append(@, Encode(memory)[Len(@) + 1])]
        /\ UNCHANGED <<main, settled, memory, at>>
    BY <1>3 DEF Write
  <2> DEFINE new == Append(temp.now, Encode(memory)[Len(temp.now) + 1])
  <2>2. memory \in Version /\ memory # None /\ temp # None
    BY <1>b, <2>1
  <2>3. temp = File(temp.now, temp.disk) /\ Partial(temp.disk)
    BY <1>a, <2>2 DEF FilesOK, PartialFile
  <2>4. Prefix(memory, new)
    BY <1>b, <2>1, <2>2, PrefixGrows
  <2>5. temp' = File(new, temp.disk)
    BY <2>1, <2>3 DEF File
  <2> HIDE DEF new
  <2>6. temp'.now = new /\ temp'.disk = temp.disk
    BY <2>5, FileFields
  <2>7. new \in Seq(Nat) /\ temp.disk \in Seq(Nat)
    BY <2>2, <2>3, <2>4, PrefixType DEF Partial
  <2>8. temp' # None
    BY <2>5, <2>7, FileExists
  <2>9. PartialFile(temp')
    BY <2>2, <2>3, <2>4, <2>5, <2>6 DEF PartialFile, Partial
  <2>10. FilesOK(main', temp', settled')
    BY <1>a, <2>1, <2>9 DEF FilesOK
  <2>11. Prefix(memory', temp'.now)
    BY <2>1, <2>4, <2>6
  <2>12. QED
    BY <1>b, <1>c, <2>1, <2>2, <2>8, <2>10, <2>11
<1>4. CASE Close
  <2>1. /\ at = "write" /\ ~(Len(temp.now) < Len(Encode(memory)))
        /\ at' = "sync" /\ UNCHANGED <<main, temp, settled, memory>>
    BY <1>4 DEF Close
  <2>2. memory \in Version /\ memory # None /\ temp # None
    BY <1>b, <2>1
  <2>3. temp.now = Encode(memory)
    BY <1>b, <2>1, <2>2, PrefixEnds
  <2>4. FilesOK(main', temp', settled')
    BY <1>a, <2>1
  <2>5. QED
    BY <1>c, <2>1, <2>2, <2>3, <2>4
<1>5. CASE Sync \/ WriteBack
  <2>1. temp # None /\ temp' = [temp EXCEPT !.disk = temp.now]
    BY <1>5, <1>b DEF Sync, WriteBack
  <2>2. temp = File(temp.now, temp.disk) /\ Partial(temp.now)
    BY <1>a, <2>1 DEF FilesOK, PartialFile
  <2>3. temp' = File(temp.now, temp.now)
    BY <2>1, <2>2 DEF File
  <2>4. temp'.now = temp.now /\ temp'.disk = temp.now
    BY <2>3, FileFields
  <2>5. temp' # None
    BY <2>2, <2>3, PrefixType, FileExists DEF Partial
  <2>6. PartialFile(temp')
    BY <2>2, <2>3, <2>4 DEF PartialFile
  <2>7. UNCHANGED <<main, settled, memory>>
    BY <1>5 DEF Sync, WriteBack
  <2>8. FilesOK(main', temp', settled')
    BY <1>a, <2>6, <2>7 DEF FilesOK
  <2>9. CASE Sync
    <3>1. at = "sync" /\ at' = "rename"
      BY <2>9 DEF Sync
    <3>2. temp' = File(Encode(memory'), Encode(memory'))
      BY <1>b, <2>3, <2>7, <3>1
    <3>3. QED
      BY <1>b, <1>c, <2>5, <2>7, <2>8, <3>1, <3>2
  <2>10. CASE WriteBack
    <3>1. at' = at
      BY <2>10 DEF WriteBack
    <3>2. at' = "write" => Prefix(memory', temp'.now)
      BY <1>b, <2>4, <2>7, <3>1
    <3>3. at' = "sync" => temp'.now = Encode(memory')
      BY <1>b, <2>4, <2>7, <3>1
    <3>4. at' = "rename" => temp' = File(Encode(memory'), Encode(memory'))
      BY <1>b, <2>3, <2>7, <3>1, FileFields
    <3>5. QED
      BY <1>b, <1>c, <2>5, <2>7, <2>8, <3>1, <3>2, <3>3, <3>4
  <2>11. QED
    BY <1>5, <2>9, <2>10
<1>6. CASE Rename
  <2>1. /\ at = "rename" /\ main' = temp /\ temp' = None /\ at' = "idle"
        /\ UNCHANGED <<settled, memory>>
    BY <1>6 DEF Rename
  <2>2. Whole(main')
    BY <1>b, <2>1 DEF Whole
  <2>3. FilesOK(main', temp', settled')
    BY <1>a, <2>1, <2>2 DEF FilesOK, PartialFile
  <2>4. QED
    BY <1>b, <1>c, <2>1, <2>3
<1>7. CASE Throw
  <2>1. at' = "idle" /\ UNCHANGED <<main, temp, settled, memory>>
    BY <1>7 DEF Throw
  <2>2. FilesOK(main', temp', settled')
    BY <1>a, <2>1
  <2>3. QED
    BY <1>b, <1>c, <2>1, <2>2
<1>8. CASE Start
  <2>1. memory = None /\ memory' = Loaded /\ UNCHANGED <<main, temp, settled, at>>
    BY <1>8 DEF Start
  <2>2. at = "idle" /\ Loaded \in Version
    BY <1>b, <2>1, LoadedType
  <2>3. FilesOK(main', temp', settled')
    BY <1>a, <2>1
  <2>4. QED
    BY <1>c, <2>1, <2>2, <2>3
<1>9. CASE Settle
  <2>1. settled' = OnDisk(main) /\ UNCHANGED <<main, temp, memory, at>>
    BY <1>9 DEF Settle
  <2>2. settled' = None \/ \E v \in Version : settled' = Encode(v)
    BY <2>1, LoadedType
  <2>3. settled' = None \/ Partial(settled')
    BY <2>2, PrefixFull DEF Partial
  <2>4. FilesOK(main', temp', settled')
    BY <1>a, <2>1, <2>2, <2>3 DEF FilesOK
  <2>5. QED
    BY <1>b, <1>c, <2>1, <2>4
<1>10. CASE Kill
  <2>1. memory' = None /\ at' = "idle" /\ UNCHANGED <<main, temp, settled>>
    BY <1>10 DEF Kill
  <2>2. FilesOK(main', temp', settled')
    BY <1>a, <2>1
  <2>3. QED
    BY <1>c, <2>1, <2>2
<1>11. CASE PowerFailure
  <2>1. PICK bytes \in {settled, OnDisk(main)} :
          /\ main' = IF bytes = None THEN None ELSE File(bytes, bytes)
          /\ settled' = bytes
    BY <1>11 DEF PowerFailure
  <2>2. /\ temp' = IF temp = None THEN None ELSE File(temp.disk, temp.disk)
        /\ memory' = None /\ at' = "idle"
    BY <1>11 DEF PowerFailure
  <2>3. bytes = None \/ \E v \in Version : bytes = Encode(v)
    BY <1>a, LoadedType DEF FilesOK
  <2>4. main' = None \/ Whole(main')
    BY <2>1, <2>3 DEF Whole
  <2>5. PartialFile(main')
    BY <2>4, WholeFile DEF Whole, PartialFile
  <2>6. settled' = None \/ Partial(settled')
    BY <2>1, <2>3, PrefixFull DEF Partial
  <2>7. PartialFile(temp')
    <3>1. CASE temp = None
      BY <2>2, <3>1 DEF PartialFile
    <3>2. CASE temp # None
      <4>1. temp' = File(temp.disk, temp.disk) /\ Partial(temp.disk)
        BY <1>a, <2>2, <3>2 DEF FilesOK, PartialFile
      <4>2. temp'.now = temp.disk /\ temp'.disk = temp.disk
        BY <4>1, FileFields
      <4>3. QED
        BY <4>1, <4>2 DEF PartialFile
    <3>3. QED
      BY <3>1, <3>2
  <2>8. FilesOK(main', temp', settled')
    BY <2>1, <2>3, <2>4, <2>5, <2>6, <2>7 DEF FilesOK
  <2>9. QED
    BY <1>c, <2>2, <2>8
<1>12. CASE UNCHANGED vars
  <2>1. UNCHANGED <<main, temp, settled, memory, at>>
    BY <1>12 DEF vars
  <2>2. FilesOK(main', temp', settled')
    BY <1>a, <2>1
  <2>3. QED
    BY <1>b, <1>c, <2>1, <2>2
<1>13. QED
  BY <1>1, <1>2, <1>3, <1>4, <1>5, <1>6, <1>7, <1>8, <1>9, <1>10, <1>11, <1>12
     DEF Next, Saving

LEMMA InvInit == Init => Inv
BY VersionAssumption DEF Init, Inv, TypeOK, PartialFile, Steps

\* When no write stops early, manifestPath, manifestPath.tmp and what the disk holds
\* are each the beginning of one version, whatever fails and whenever the daemon or
\* the machine stops.
THEOREM TypeCorrect == "short" \notin Faults => (Spec => []TypeOK)
<1> SUFFICES ASSUME "short" \notin Faults PROVE Spec => []TypeOK
  OBVIOUS
<1>1. Inv /\ [Next]_vars => Inv'
  BY InvStep
<1>2. Inv => TypeOK
  BY DEF Inv
<1>3. QED
  BY <1>1, <1>2, InvInit, PTL DEF Spec

-----------------------------------------------------------------------------
(* Refinement.                                                             *)

Pending == IF at = "idle" THEN None ELSE memory

LEMMA CellInit == Init => Cell!Init
BY DEF Init, Cell!Init, Loaded, Readable

LEMMA CellStep ==
  ASSUME "short" \notin Faults, Inv, [Next]_vars
  PROVE  [Cell!Next]_(Cell!vars)
<1> DEFINE cell(current, s, pending) ==
             Loaded' = current /\ Readable(settled)' = s /\ Pending' = pending
<1>a. /\ memory \in Version \union {None} /\ at \in Steps
      /\ at # "idle" => memory # None
      /\ at = "rename" => temp = File(Encode(memory), Encode(memory))
  BY DEF Inv, TypeOK
<1>b. \/ cell(Loaded, Readable(settled), Pending)
      \/ \E v \in Version : Pending = None /\ cell(Loaded, Readable(settled), v)
      \/ Pending # None /\ cell(Pending, Readable(settled), None)
      \/ cell(Loaded, Readable(settled), None)
      \/ cell(Loaded, Loaded, Pending)
      \/ \E current \in {Loaded, Readable(settled)} : cell(current, current, None)
      => [Cell!Next]_(Cell!vars)
  BY DEF Cell!Next, Cell!vars, Cell!Begin, Cell!Commit, Cell!Abandon, Cell!Settle,
         Cell!PowerFailure, Pending
<1>c. ASSUME UNCHANGED <<main, settled>> PROVE Loaded' = Loaded /\ Readable(settled)' = Readable(settled)
  BY <1>c DEF Loaded, Readable
<1>1. ASSUME NEW v \in Version, Save(v) PROVE [Cell!Next]_(Cell!vars)
  BY <1>1, <1>b, <1>c DEF Save, Pending
<1>2. CASE Open \/ Write \/ Close \/ Sync \/ WriteBack
  BY <1>2, <1>b, <1>c DEF Open, Write, Close, Sync, WriteBack, Pending
<1>3. CASE Rename
  <2>1. /\ at = "rename" /\ main' = temp /\ at' = "idle" /\ UNCHANGED settled
        /\ temp = File(Encode(memory), Encode(memory)) /\ memory \in Version /\ memory # None
    BY <1>3, <1>a DEF Rename
  <2>2. main'.now = Encode(memory) /\ main' # None
    BY <2>1, WholeFile, FileFields
  <2>3. Loaded' = memory
    BY <2>1, <2>2, EncodeType DEF Loaded
  <2>4. cell(Pending, Readable(settled), None) /\ Pending # None
    BY <2>1, <2>3 DEF Pending, Readable
  <2>5. QED
    BY <1>b, <2>4
<1>4. CASE Throw \/ Kill
  BY <1>4, <1>b, <1>c DEF Throw, Kill, Pending
<1>5. CASE Start
  BY <1>5, <1>a, <1>b, <1>c DEF Start, Pending
<1>6. CASE Settle
  <2>1. settled' = OnDisk(main) /\ UNCHANGED <<main, memory, at>>
    BY <1>6 DEF Settle
  <2>2. Readable(settled)' = Loaded
    BY <2>1, LoadedType DEF Readable
  <2>3. cell(Loaded, Loaded, Pending)
    BY <2>1, <2>2 DEF Loaded, Pending
  <2>4. QED
    BY <1>b, <2>3
<1>7. CASE PowerFailure
  <2>1. PICK bytes \in {settled, OnDisk(main)} :
          /\ main' = IF bytes = None THEN None ELSE File(bytes, bytes)
          /\ settled' = bytes
    BY <1>7 DEF PowerFailure
  <2>2. at' = "idle"
    BY <1>7 DEF PowerFailure
  <2>3. bytes = None \/ \E v \in Version : bytes = Encode(v)
    BY LoadedType DEF Inv
  <2>4. Loaded' = Readable(bytes) /\ Readable(settled)' = Readable(bytes)
    <3>1. CASE bytes = None
      BY <2>1, <3>1 DEF Loaded, Readable
    <3>2. ASSUME NEW v \in Version, bytes = Encode(v)
          PROVE  Loaded' = Readable(bytes) /\ Readable(settled)' = Readable(bytes)
      <4>1. bytes # None /\ main' = File(bytes, bytes)
        BY <2>1, <3>2, EncodeType, NoneAssumption
      <4>2. main' # None /\ main'.now = bytes
        BY <3>2, <4>1, WholeFile, FileFields
      <4>3. QED
        BY <2>1, <4>1, <4>2 DEF Loaded, Readable
    <3>3. QED
      BY <2>3, <3>1, <3>2
  <2>5. Readable(bytes) \in {Loaded, Readable(settled)}
    BY LoadedType
  <2>6. cell(Readable(bytes), Readable(bytes), None)
    BY <2>2, <2>4 DEF Pending
  <2>7. QED
    BY <1>b, <2>5, <2>6
<1>8. CASE UNCHANGED vars
  BY <1>8, <1>b, <1>c DEF vars, Pending
<1>9. QED
  BY <1>1, <1>2, <1>3, <1>4, <1>5, <1>6, <1>7, <1>8 DEF Next, Saving

\* Saving is transaction-safe as long as write reports what it could not write: for
\* whoever loads the manifest it changes from one version to the next at once, and
\* neither an exception nor a crash leaves anything else behind.
THEOREM Atomic == "short" \notin Faults => (Spec => ImplementsCell)
<1> SUFFICES ASSUME "short" \notin Faults PROVE Spec => Cell!Spec
  BY DEF ImplementsCell
<1>1. Inv /\ [Next]_vars => Inv'
  BY InvStep
<1>2. Inv /\ [Next]_vars => [Cell!Next]_(Cell!vars)
  BY CellStep
<1>3. QED
  BY <1>1, <1>2, InvInit, CellInit, PTL DEF Spec, Cell!Spec
=============================================================================
