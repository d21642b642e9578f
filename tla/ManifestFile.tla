---------------------------- MODULE ManifestFile ----------------------------
(***************************************************************************)
(* The in-memory manifest together with the file ManifestStore::save would *)
(* make of it in any state: Manifest composed with ManifestCodec.  The     *)
(* data of a wallpaper are the fields save writes besides its digest.      *)
(***************************************************************************)
EXTENDS Manifest, ManifestCodec

CONSTANTS
  Char,     \* the characters of paths and digests
  Current   \* what publicCurrent and privateCurrent may hold

Field == {"absPath", "createdAt", "visibility", "lastShown"}

ASSUME DataAssumption ==
  /\ \A d \in Data : DOMAIN d = Field /\ d.absPath \in Seq(Char)
  /\ Current \subseteq Seq(Char) \union {None}

\* The manifest save is called with, when the engine's State is public, private.
Saved(public, private) ==
  [stateMode      |-> 0,
   publicCurrent  |-> public,
   privateCurrent |-> private,
   wallpapers     |-> [i \in DOMAIN wallpapers |->
                         [f \in Field \union {"hash"} |->
                            IF f = "hash" THEN wallpapers[i].hash ELSE wallpapers[i].data[f]]]]

\* What save writes is read back as it was, slot by slot; and a file cut short
\* after any field, by a full device or a crash, is refused by load, which never
\* takes part of a manifest for a whole one.
CutShortDetected ==
  \A public, private \in Current :
    LET file == Written(Saved(public, private))
    IN \A n \in 0..Len(file) :
         Parsed(SubSeq(file, 1, n)) =
           IF n = Len(file) THEN Saved(public, private) ELSE None
=============================================================================
