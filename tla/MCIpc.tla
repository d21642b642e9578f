-------------------------------- MODULE MCIpc --------------------------------
(***************************************************************************)
(* Ipc for TLC: two daemons started on the same path and two clients, one  *)
(* with a command of two parts, the other with an empty line or with       *)
(* CURRENT and a line break after it, whose answer has two lines.          *)
(***************************************************************************)
EXTENDS Ipc, TLC

CONSTANTS c1, c2, d1, d2

Lines == {(c1 :> <<"SET_MODE", "safe">>) @@ (c2 :> line) :
            line \in {<< >>, <<"CURRENT", Newline>>}}
Words == {"SET_MODE", "safe", "CURRENT", "OK", "my", "path"}
AnswerTo(line) == IF line = <<"CURRENT">> THEN <<"my", "path", Newline, "path">> ELSE <<"OK">>
=============================================================================
