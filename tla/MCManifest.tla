----------------------------- MODULE MCManifest -----------------------------
(***************************************************************************)
(* Manifest and its file over a small instance for TLC: a wallpaper that   *)
(* was shown, and one that never was and has a longer path.                *)
(***************************************************************************)
EXTENDS ManifestFile, TLC

TwoWallpapers ==
  {[absPath |-> <<5>>,    createdAt |-> 3, visibility |-> 0, lastShown |-> 4],
   [absPath |-> <<5, 6>>, createdAt |-> 3, visibility |-> 2, lastShown |-> None]}

NoneOrDigest == {None, <<7>>}
=============================================================================
