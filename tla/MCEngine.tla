------------------------------ MODULE MCEngine ------------------------------
(***************************************************************************)
(* Engine over small instances for TLC: the values its constants take.     *)
(***************************************************************************)
EXTENDS Engine, TLC

CONSTANTS h1, h2, h3, n1, n2, n3

\* Every content has names of its own, so no file ever replaces another; the
\* first one can also be renamed.
OwnNames == [h \in Hash |-> CASE h = h1 -> {n1, n3} [] h = h2 -> {n2} [] OTHER -> {n3}]

\* Every content has one name, its own.
FixedNames == [h \in Hash |-> CASE h = h1 -> {n1} [] h = h2 -> {n2} [] OTHER -> {n3}]

\* No file name is part of a path to another file; the first is part of the second,
\* as 1.jpg is of 11.jpg.
SameName == {<<n, n>> : n \in Names}
PartName == SameName \union {<<n1, n2>>}

\* The setter command works; sometimes fails; never sets one content.
Works    == {{}}
Outages  == {{}, Hash}
BadImage == {{h1}}

\* Without restarts nobody reads the manifest on disk: two states that differ in
\* it alone have the same future.
WithoutDisk == <<fs, hidden, mounted, standin, unsettable, screen, library, job>>
=============================================================================
