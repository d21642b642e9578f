------------------------------ MODULE MCDaemon ------------------------------
(***************************************************************************)
(* Daemon over a small instance for TLC.                                   *)
(***************************************************************************)
EXTENDS Daemon

CONSTANTS i1, i2

\* The first image comes from a browser; the second is written in place.
Writers == [i \in Image |-> IF i = i1 THEN "browser" ELSE "inplace"]
=============================================================================
