-------------------------------- MODULE MCTui --------------------------------
(***************************************************************************)
(* Tui over a small instance for TLC.                                      *)
(***************************************************************************)
EXTENDS Tui

CONSTANTS h1, h2, n1, n2

\* The empty text, and one that the first name contains.
Texts   == {"", "a"}
Matched == {<<"", n1>>, <<"", n2>>, <<"a", n1>>}
=============================================================================
