------------------------------ MODULE Manifest ------------------------------
(***************************************************************************)
(* The in-memory manifest of lib/core/state.cpp: a vector of owned         *)
(* wallpapers and byHash, a table from a digest to a slot of the vector.   *)
(* Deleting swaps the last wallpaper into the freed slot, so every delete  *)
(* has to patch the table for a wallpaper nobody asked about.              *)
(*                                                                         *)
(* Slots in byHash count from 0, as in the code; the vector is a sequence, *)
(* so slot i is wallpapers[i + 1].                                         *)
(***************************************************************************)
EXTENDS Integers, Sequences

CONSTANTS Hash,   \* SHA-256 digests
          Data    \* the other fields of a wallpaper: path, visibility, times

VARIABLES wallpapers,  \* std::vector<std::unique_ptr<Wallpaper>>
          byHash       \* std::unordered_map<Hash, std::size_t>

vars == <<wallpapers, byHash>>

Wallpaper == [hash : Hash, data : Data]

Init == /\ wallpapers = << >>
        /\ byHash = [h \in {} |-> 0]

-----------------------------------------------------------------------------
(* Reading the manifest.                                                   *)

\* The wallpapers held, whatever their slots.
Held == {wallpapers[i] : i \in DOMAIN wallpapers}

\* Manifest::find: the wallpaper in the slot byHash names, if the slot exists.
\* The optional result is a set of at most one wallpaper.
Find(h) ==
  IF h \in DOMAIN byHash /\ byHash[h] < Len(wallpapers)
  THEN {wallpapers[byHash[h] + 1]}
  ELSE {}

-----------------------------------------------------------------------------
(* The operations that change it.                                          *)

\* loadWallpaper when the digest is known: the slot gets a new wallpaper.
ReplaceInSlot(h, d) ==
  /\ h \in DOMAIN byHash
  /\ wallpapers' = [wallpapers EXCEPT ![byHash[h] + 1] = [hash |-> h, data |-> d]]
  /\ UNCHANGED byHash

\* Mutant of PushBack: the slot is taken from the size before the push, off by one.
PushBackOffByOne(h, d) ==
  /\ h \notin DOMAIN byHash
  /\ byHash' = [g \in DOMAIN byHash \union {h} |->
                  IF g = h THEN Len(wallpapers) - 1 ELSE byHash[g]]
  /\ wallpapers' = Append(wallpapers, [hash |-> h, data |-> d])

\* loadWallpaper when the digest is new: the table names the slot about to be
\* pushed.
PushBack(h, d) ==
  /\ h \notin DOMAIN byHash
  /\ byHash' = [g \in DOMAIN byHash \union {h} |->
                  IF g = h THEN Len(wallpapers) ELSE byHash[g]]
  /\ wallpapers' = Append(wallpapers, [hash |-> h, data |-> d])

\* loadWallpaper, and registerWallpaper, which forwards to it.
LoadWallpaper(h, d) == ReplaceInSlot(h, d) \/ PushBack(h, d)

\* Mutants of DeleteWallpaper: the table does not follow the moved wallpaper, and
\* the wallpaper dropped is the last one, with its own table entry, whatever was
\* asked for.
DeleteWithoutPatch(h) ==
  /\ h \in DOMAIN byHash
  /\ byHash[h] < Len(wallpapers)
  /\ wallpapers' = SubSeq([wallpapers EXCEPT ![byHash[h] + 1] = wallpapers[Len(wallpapers)]],
                          1, Len(wallpapers) - 1)
  /\ byHash' = [g \in DOMAIN byHash \ {h} |-> byHash[g]]

DeleteLast(h) ==
  /\ h \in DOMAIN byHash
  /\ wallpapers' = SubSeq(wallpapers, 1, Len(wallpapers) - 1)
  /\ byHash' = [g \in DOMAIN byHash \ {wallpapers[Len(wallpapers)].hash} |-> byHash[g]]

\* deleteWallpaper: the last wallpaper moves into the freed slot, the table
\* follows it, and the vector shrinks by one.  A table entry whose slot is out of
\* bounds is only erased.
DeleteWallpaper(h) ==
  /\ h \in DOMAIN byHash
  /\ LET slot == byHash[h]
         rest == DOMAIN byHash \ {h}
         last == wallpapers[Len(wallpapers)]
     IN IF slot < Len(wallpapers)
        THEN /\ wallpapers' = SubSeq([wallpapers EXCEPT ![slot + 1] = last],
                                     1, Len(wallpapers) - 1)
             /\ byHash' = [g \in rest |->
                             IF g = last.hash THEN slot ELSE byHash[g]]
        ELSE /\ UNCHANGED wallpapers
             /\ byHash' = [g \in rest |-> byHash[g]]

\* The loops of Engine::applyWallpaper, classify and renameWallpaper: the first
\* wallpaper in the vector with the digest is edited, byHash is not consulted.
EditFirst(h, d) ==
  \E i \in DOMAIN wallpapers :
    /\ wallpapers[i].hash = h
    /\ \A j \in 1..(i - 1) : wallpapers[j].hash # h
    /\ wallpapers' = [wallpapers EXCEPT ![i].data = d]
    /\ UNCHANGED byHash

Next == \E h \in Hash :
          \/ DeleteWallpaper(h)
          \/ \E d \in Data : LoadWallpaper(h, d) \/ EditFirst(h, d)

Spec == Init /\ [][Next]_vars

-----------------------------------------------------------------------------
(* Properties.                                                             *)

\* The vector holds wallpapers and the table maps digests to naturals: a slot
\* is a std::size_t, so one computed below zero would wrap.
TypeOK ==
  /\ wallpapers \in Seq(Wallpaper)
  /\ DOMAIN byHash \subseteq Hash
  /\ byHash \in [DOMAIN byHash -> Nat]

\* The table is the inverse of the vector: every slot is in the table under the
\* digest it holds, and every digest in the table names a slot that exists and
\* holds it.  This is what loadWallpaper and the swap of deleteWallpaper must
\* re-establish between them.
IndexConsistent ==
  /\ \A i \in DOMAIN wallpapers :
       /\ wallpapers[i].hash \in DOMAIN byHash
       /\ byHash[wallpapers[i].hash] = i - 1
  /\ \A h \in DOMAIN byHash :
       /\ byHash[h] < Len(wallpapers)
       /\ wallpapers[byHash[h] + 1].hash = h

\* Manifest::find returns the wallpaper that has the digest asked for, and finds
\* it whenever some slot holds it, after any history of loads and deletes.
FindExact == \A h \in Hash : Find(h) = {w \in Held : w.hash = h}

\* A delete drops the digest it is called for, a load and an edit put the
\* wallpaper they are called with, and none of them touches any other digest.
Index == INSTANCE WallpaperIndex WITH tracked <- Held
EachCall ==
  \A h \in Hash :
    /\ DeleteWallpaper(h) => Index!Drop(h)
    /\ \A d \in Data : LoadWallpaper(h, d) \/ EditFirst(h, d)
                         => Index!Put([hash |-> h, data |-> d])

\* The manifest implements the abstract index: seen as a set, it starts empty
\* and changes only by the Put or Drop of the very call that is made, whichever
\* slots the vector swaps for it.
ImplementsIndex == Index!Spec /\ [][EachCall]_vars
=============================================================================
