--------------------------- MODULE WallpaperIndex ---------------------------
(***************************************************************************)
(* What the in-memory manifest promises its callers: a set of tracked      *)
(* wallpapers in which no SHA-256 digest occurs twice.  Registering a      *)
(* digest that is already tracked replaces its entry, an entry can be      *)
(* edited in place, and a digest can be dropped.  Nothing is said of       *)
(* vector slots or of the byHash table: module Manifest implements this    *)
(* specification with both, and module Engine is built on this abstract    *)
(* view of the manifest.                                                   *)
(***************************************************************************)
CONSTANTS Hash,   \* SHA-256 digests; a digest stands for the file content
          Data    \* the other fields of a wallpaper: path, visibility, times

VARIABLE tracked  \* the set of tracked wallpapers

Wallpaper == [hash : Hash, data : Data]

Without(S, h) == {w \in S : w.hash # h}

Init == tracked = {}

\* Register w: whatever was tracked under its digest is replaced.
Put(w) == tracked' = Without(tracked, w.hash) \union {w}

\* Forget a digest; forgetting one that is not tracked changes nothing.
Drop(h) == tracked' = Without(tracked, h)

Next == \/ \E w \in Wallpaper : Put(w)
        \/ \E h \in Hash : Drop(h)

Spec == Init /\ [][Next]_tracked
=============================================================================
