-------------------------- MODULE MCManifestStore --------------------------
(***************************************************************************)
(* ManifestStore for TLC over three versions of two to four fields, in a   *)
(* format of which only what load promises is kept: a file is the version  *)
(* it is the whole image of, and any other file is refused.                *)
(***************************************************************************)
EXTENDS ManifestStore

Versions == {"first start", "imported", "applied"}

Image(v) == CASE v = "first start" -> <<1, 0>>
              [] v = "imported"    -> <<1, 1, 5>>
              [] v = "applied"     -> <<1, 2, 5, 9>>

Load(file) ==
  IF \E v \in Versions : file = Image(v) THEN CHOOSE v \in Versions : file = Image(v) ELSE None
=============================================================================
