------------------------------ MODULE Installation ----------------------------
(***************************************************************************)
(* What ci/deploy.sh promises the operator of a cloud, over any number of  *)
(* runs of the script: the STATE files are applied one after the other, a  *)
(* STATE file only on top of all its predecessors, and the verdict of a    *)
(* run is "ok" only if every one of them stands applied.                   *)
(***************************************************************************)
EXTENDS Naturals

CONSTANT NStates     \* the number of STATE files of the scenario

VARIABLES
  applied,   \* the STATE files whose effect the cloud has
  verdict    \* what the current run has told the operator

States == 1 .. NStates

Init == applied = {} /\ verdict = "none"

\* STATE file s is applied, for the first time or once more ...
Apply(s) ==
  /\ verdict = "none"
  /\ 1 .. (s - 1) \subseteq applied
  /\ applied' = applied \union {s}
  /\ UNCHANGED verdict

\* ... or fails half way, which leaves nothing to rely on.
Spoil(s) ==
  /\ verdict = "none"
  /\ applied' = applied \ {s}
  /\ UNCHANGED verdict

\* The virtual machines and the Salt master are made anew, or removed.
Wipe ==
  /\ verdict = "none"
  /\ applied' = {}
  /\ UNCHANGED verdict

Report(v) ==
  /\ verdict = "none"
  /\ v = "ok" => applied = States
  /\ verdict' = v
  /\ UNCHANGED applied

\* The operator starts the script again.
Again == verdict' = "none" /\ UNCHANGED applied

Next ==
  \/ \E s \in States : Apply(s) \/ Spoil(s)
  \/ Wipe
  \/ \E v \in {"ok", "error"} : Report(v)
  \/ Again

Spec == Init /\ [][Next]_<<applied, verdict>>
===============================================================================
