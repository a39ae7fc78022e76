------------------------------ MODULE MaasServer ------------------------------
(***************************************************************************)
(* The MaaS region controller as mcp/salt-formulas/salt-formula-maas uses  *)
(* it: the life cycle of every machine of the pillar, the HTTP calls the   *)
(* execution modules issue, and what MaaS does on its own between calls.   *)
(* MaaS is not part of the repository: this module is the external half of *)
(* the model, and it only offers the operations the formula calls.         *)
(*                                                                         *)
(* Simplifications:                                                        *)
(*  - Commissioning and the hardware tests MaaS chains to it (statuses     *)
(*    Commissioning and Testing) are one status, "Commissioning".          *)
(*  - A machine's storage configuration is either "default" (what          *)
(*    commissioning leaves) or "pillar" (the disk_layout of the pillar).   *)
(*  - Everything that goes wrong, in MaaS or in an HTTP call, uses up one  *)
(*    of the faults the environment starts with; a run states how many.    *)
(***************************************************************************)
EXTENDS Naturals, FiniteSets

CONSTANTS
  Machines,        \* the host names under maas:region:machines in the pillar
  MaxFaults,       \* bound: failures the environment may cause in a behaviour
  HttpFaults,      \* TRUE iff HTTP calls may fail, FALSE iff only nodes fail
  AlreadyExists    \* TRUE iff the text of an error may say "already exists"

ASSUME ServerAssumption ==
  /\ MaxFaults \in Nat
  /\ HttpFaults \in BOOLEAN
  /\ AlreadyExists \in BOOLEAN

VARIABLES
  status,   \* status[m]: the status MaaS reports for machine m
  layout,   \* layout[m]: the storage configuration of machine m
  stale,    \* machines registered under a MAC the pillar no longer names
  faults    \* failures the environment may still cause

serverVars == <<status, layout, stale, faults>>

(***************************************************************************)
(* "Absent": MaaS knows no machine of that name.  The other values are the *)
(* entries of STATUS_NAME_DICT the formula can meet.                       *)
(***************************************************************************)
NodeStatus ==
  {"Absent", "New", "Commissioning", "Failed commissioning",
   "Failed testing", "Ready", "Allocated", "Deploying", "Deployed",
   "Failed deployment", "Broken"}

Layouts == {"default", "pillar"}

ServerTypeOK ==
  /\ status \in [Machines -> NodeStatus]
  /\ layout \in [Machines -> Layouts]
  /\ stale \subseteq Machines
  /\ faults \in Nat

Absent == {m \in Machines : status[m] = "Absent"}

\* Mutant of Ready: a machine that MaaS shows Deployed is deployed once more.
ReadyOrDeployed == {m \in Machines : status[m] \in {"Ready", "Deployed"}}

Ready == {m \in Machines : status[m] = "Ready"}

\* One more failure happens.
Fault == faults > 0 /\ faults' = faults - 1

\* An HTTP call fails; NoFault says that the calls of a step succeed.
HttpFault == HttpFaults /\ Fault
NoFault == UNCHANGED faults

-------------------------------------------------------------------------------
(* What an HTTP call makes of the server when it succeeds.                  *)

\* POST machines/<system_id>/ op=...: the status of machine m changes.
SetStatus(m, s) == status' = [status EXCEPT ![m] = s]

\* MaaS starts from its default storage layout when it commissions a node.
Commission(m) ==
  /\ SetStatus(m, "Commissioning")
  /\ layout' = [layout EXCEPT ![m] = "default"]
  /\ UNCHANGED stale

\* DELETE machines/<system_id>/ of every machine of ms.
Delete(ms) ==
  /\ status' = [m \in Machines |-> IF m \in ms THEN "Absent" ELSE status[m]]
  /\ layout' = [m \in Machines |-> IF m \in ms THEN "default" ELSE layout[m]]
  /\ stale' = stale \ ms

(***************************************************************************)
(* DELETE of the machines of gone, then POST machines/ of those of created *)
(* (which may overlap gone).  A created machine is commissioned at once;   *)
(* the ones in idle stay "New" because commissioning could not be started. *)
(***************************************************************************)
Register(gone, created, idle) ==
  /\ status' = [m \in Machines |->
                  IF m \in created
                  THEN IF m \in idle THEN "New" ELSE "Commissioning"
                  ELSE IF m \in gone THEN "Absent" ELSE status[m]]
  /\ layout' = [m \in Machines |->
                  IF m \in created \union gone THEN "default" ELSE layout[m]]
  /\ stale' = stale \ (created \union gone)

-------------------------------------------------------------------------------
(* What MaaS does on its own.                                               *)

\* Commissioning and its tests pass ...
FinishCommissioning(m) ==
  /\ status[m] = "Commissioning"
  /\ SetStatus(m, "Ready")
  /\ UNCHANGED <<layout, stale, faults>>

\* ... or one of the two fails.
FailCommissioning(m) ==
  /\ status[m] = "Commissioning"
  /\ Fault
  /\ \E s \in {"Failed commissioning", "Failed testing"} : SetStatus(m, s)
  /\ UNCHANGED <<layout, stale>>

FinishDeploying(m) ==
  /\ status[m] = "Deploying"
  /\ SetStatus(m, "Deployed")
  /\ UNCHANGED <<layout, stale, faults>>

FailDeploying(m) ==
  /\ status[m] = "Deploying"
  /\ Fault
  /\ SetStatus(m, "Failed deployment")
  /\ UNCHANGED <<layout, stale>>

Progress(m) == FinishCommissioning(m) \/ FinishDeploying(m)

ServerStep(m) == Progress(m) \/ FailCommissioning(m) \/ FailDeploying(m)

===============================================================================
