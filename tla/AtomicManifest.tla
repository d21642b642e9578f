--------------------------- MODULE AtomicManifest ---------------------------
(***************************************************************************)
(* What the engine relies on when it saves: the manifest on disk changes   *)
(* from one complete version to another in one step or not at all,         *)
(* whatever save throws and whenever the daemon is killed.  A power        *)
(* failure may bring back a version that was complete before, because the  *)
(* code never syncs the directory.                                         *)
(***************************************************************************)
CONSTANTS Version,  \* manifests
          Empty,    \* the manifest of a first start
          None

VARIABLES current,  \* the version a daemon started now would load
          settled,  \* the version that would come back after a power failure
          pending   \* the version being saved, or None

vars == <<current, settled, pending>>

Init == current = Empty /\ settled = Empty /\ pending = None

Begin(v) ==
  /\ pending = None
  /\ pending' = v
  /\ UNCHANGED <<current, settled>>

\* The save takes effect; only then does it return.
Commit ==
  /\ pending # None
  /\ current' = pending
  /\ pending' = None
  /\ UNCHANGED settled

\* The save throws, or the daemon is killed before it took effect.
Abandon ==
  /\ pending' = None
  /\ UNCHANGED <<current, settled>>

Settle ==
  /\ settled' = current
  /\ UNCHANGED <<current, pending>>

PowerFailure ==
  /\ current' \in {current, settled}
  /\ settled' = current'
  /\ pending' = None

Next == (\E v \in Version : Begin(v)) \/ Commit \/ Abandon \/ Settle \/ PowerFailure

Spec == Init /\ [][Next]_vars
=============================================================================
