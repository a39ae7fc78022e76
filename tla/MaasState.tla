------------------------------- MODULE MaasState ------------------------------
(***************************************************************************)
(* The `maas` STATE file (mcp/config/states/maas) that provisions the      *)
(* baremetal nodes, with the parts of the MaaS execution module it drives: *)
(* Machine.process, DeployMachines.process and the polling loop            *)
(* MachinesStatus.wait_for_machine_status with its automatic retries.      *)
(* ci/deploy.sh runs the file under `wait_for 5`, so an attempt that fails *)
(* is followed by another one, from the top, on whatever the previous one  *)
(* left in MaaS.                                                           *)
(*                                                                         *)
(* Abstractions:                                                           *)
(*  - The order in which Python iterates over a dict of machines is any    *)
(*    order.                                                               *)
(*  - The calls of one process() on distinct machines commute: the status  *)
(*    they test is only left by a call of this very script, so that one    *)
(*    process() is one step, with any set of its calls failing.            *)
(*  - StepFails stands for whatever makes the script give up between two   *)
(*    of its steps: an HTTP call that raises, a salt command that returns  *)
(*    non-zero, a minion that does not answer, the ssh session lost.       *)
(***************************************************************************)
EXTENDS MaasServer

CONSTANTS
  Attempts,   \* maas:region:timeout:attempts, the hard retries of one wait
  MaxTries,   \* how often deploy.sh runs the file (5 in the code)
  EraseEnv,   \* TRUE iff ERASE_ENV > 1
  Patient     \* TRUE iff the timeout of a wait outlasts what MaaS is doing

ASSUME StateAssumption ==
  /\ Attempts \in Nat
  /\ MaxTries \in Nat \ {0}
  /\ EraseEnv \in BOOLEAN
  /\ Patient \in BOOLEAN

VARIABLES
  pc,       \* the command of the STATE file that runs
  tries,    \* the attempt of deploy.sh's wait_for
  total,    \* machines the current wait has not seen in the wanted status
  todo,     \* machines the current round of the wait has still to look at
  failed,   \* failed_attempts: hard retries of the current wait
  stage,    \* stage[m]: how far the hard retry of machine m has come
  resets    \* history: hard retries of machine m since deploy.sh started

waitVars   == <<total, todo, failed, stage, resets>>
scriptVars == <<pc, tries, total, todo, failed, stage, resets>>
vars       == <<serverVars, scriptVars>>

Waits == {"wait_ready", "wait_deployed"}
Steps == {"erase", "machines", "storage", "deploy"} \union Waits
Stages == {"none", "deleted", "broken", "fixed", "redeploy"}

\* Mutant of ReqStatus: both waits ask for Ready|Deployed.
ReqStatusOfTheFirst(p) == {"Ready", "Deployed"}

\* req_status of the two waits, split at the bar.
ReqStatus(p) ==
  IF p = "wait_ready" THEN {"Ready", "Deployed"} ELSE {"Deployed"}

\* Mutant of Following: the machines are deployed before their storage is set.
StorageAfterDeploy(p) ==
  IF p = "erase"           THEN "machines"
  ELSE IF p = "machines"   THEN "wait_ready"
  ELSE IF p = "wait_ready" THEN "deploy"
  ELSE IF p = "deploy"     THEN "storage"
  ELSE IF p = "storage"    THEN "wait_deployed" ELSE "done"

Following(p) ==
  IF p = "erase"           THEN "machines"
  ELSE IF p = "machines"   THEN "wait_ready"
  ELSE IF p = "wait_ready" THEN "storage"
  ELSE IF p = "storage"    THEN "deploy"
  ELSE IF p = "deploy"     THEN "wait_deployed" ELSE "done"

Idle == \A m \in Machines : stage[m] = "none"

ScriptTypeOK ==
  /\ pc \in Steps \union {"aborted", "done", "failed"}
  /\ tries \in 1 .. MaxTries
  /\ total \subseteq Machines
  /\ todo \subseteq total
  /\ failed \in [Machines -> 0 .. Attempts]
  /\ stage \in [Machines -> Stages]
  /\ resets \in [Machines -> Nat]

TypeOK == ServerTypeOK /\ ScriptTypeOK

(***************************************************************************)
(* What an earlier deployment may have left in MaaS: no machine at all, or *)
(* some that were deployed, a few of them since given another PXE MAC.     *)
(***************************************************************************)
Init ==
  /\ \E old \in SUBSET Machines :
       /\ status = [m \in Machines |-> IF m \in old THEN "Deployed"
                                                    ELSE "Absent"]
       /\ layout = [m \in Machines |-> IF m \in old THEN "pillar"
                                                    ELSE "default"]
       /\ stale \in SUBSET old
  /\ faults = MaxFaults
  /\ pc = "erase"
  /\ tries = 1
  /\ total = {}
  /\ todo = {}
  /\ failed = [m \in Machines |-> 0]
  /\ stage = [m \in Machines |-> "none"]
  /\ resets = [m \in Machines |-> 0]

-------------------------------------------------------------------------------
(* Control flow.                                                            *)

\* The script exits with an error; the local state of a wait is gone.
Abort ==
  /\ pc' = "aborted"
  /\ total' = {}
  /\ todo' = {}
  /\ failed' = [m \in Machines |-> 0]
  /\ stage' = [m \in Machines |-> "none"]
  /\ UNCHANGED <<tries, resets>>

\* The script goes on; a wait starts with every machine and no retry.
Continue ==
  /\ pc' = Following(pc)
  /\ total' = IF pc' \in Waits THEN Machines ELSE {}
  /\ todo' = total'
  /\ failed' = [m \in Machines |-> 0]
  /\ stage' = [m \in Machines |-> "none"]
  /\ UNCHANGED <<tries, resets>>

StepFails ==
  /\ pc \in Steps
  /\ HttpFault
  /\ Abort
  /\ UNCHANGED <<status, layout, stale>>

\* wait_for 5 in deploy.sh: run the file again, or give up.
Retry ==
  /\ pc = "aborted"
  /\ tries < MaxTries
  /\ pc' = "erase"
  /\ tries' = tries + 1
  /\ UNCHANGED <<serverVars, waitVars>>

GiveUp ==
  /\ pc = "aborted"
  /\ tries = MaxTries
  /\ pc' = "failed"
  /\ UNCHANGED <<serverVars, waitVars, tries>>

-------------------------------------------------------------------------------
(* The process() calls.  A call that has errors raises, after it tried all  *)
(* machines, unless one of the errors says "already exists".                *)

(***************************************************************************)
(* Machine().process(): PUT of every machine MaaS knows under a MAC of the *)
(* pillar, POST of those it does not know, DELETE and POST of those whose  *)
(* MAC changed.  The calls of the machines of bad fail; those of lost get  *)
(* past the DELETE and fail at the POST.                                   *)
(***************************************************************************)
ProcessMachines(raised) ==
  \E bad \in SUBSET Machines :
  \E lost \in SUBSET (bad \intersect stale) :
    LET created == (Absent \union stale) \ bad IN
    \E idle \in SUBSET created :
      /\ Register(lost \union (created \intersect stale), created, idle)
      /\ IF bad # {} THEN HttpFault
         ELSE IF idle # {} THEN Fault ELSE NoFault
      /\ \/ raised = (bad # {})
         \/ (AlreadyExists /\ ~raised)

(***************************************************************************)
(* DeployMachines().process(): every machine that the one GET at the start *)
(* shows Ready is allocated, then deployed.  Those of half fail between    *)
(* the two calls, those of bad at the first; a machine MaaS does not know  *)
(* is a KeyError.  The caller's list of machines plays no part.            *)
(***************************************************************************)
DeployMachines(raised) ==
  \E bad \in SUBSET Ready : \E half \in SUBSET bad :
    /\ status' = [m \in Machines |->
                    IF m \in Ready \ bad THEN "Deploying"
                    ELSE IF m \in half THEN "Allocated" ELSE status[m]]
    /\ IF bad # {} THEN HttpFault ELSE NoFault
    /\ raised = (bad \union Absent # {})
    /\ UNCHANGED <<layout, stale>>

\* Mutant of Ending: the script runs without `set -e`.
NeverAbort(raised) == Continue

Ending(raised) == IF raised THEN Abort ELSE Continue

-------------------------------------------------------------------------------
(* The STATE file outside of its two waits.                                 *)

\* maasng.delete_machine of every node, each followed by `|| true`.
Erase ==
  /\ pc = "erase"
  /\ IF EraseEnv
     THEN \E kept \in SUBSET Machines :
            /\ Delete(Machines \ kept)
            /\ IF kept # {} THEN HttpFault ELSE NoFault
     ELSE UNCHANGED serverVars
  /\ Continue

\* state.apply maas.machines
CreateMachines ==
  /\ pc = "machines"
  /\ \E raised \in BOOLEAN : ProcessMachines(raised) /\ Ending(raised)

(***************************************************************************)
(* state.apply maas.machines.storage: a machine that is not Ready is left  *)
(* alone, and its state still reports success.  A failure on the machines  *)
(* of bad leaves their layout half made.                                   *)
(***************************************************************************)
Storage ==
  /\ pc = "storage"
  /\ \E bad \in SUBSET Ready :
       /\ layout' = [m \in Machines |->
                       IF m \in Ready \ bad THEN "pillar"
                       ELSE IF m \in bad THEN "default" ELSE layout[m]]
       /\ IF bad # {} THEN HttpFault ELSE NoFault
       /\ Ending(bad # {})
  /\ UNCHANGED <<status, stale>>

\* state.apply maas.machines.deploy
Deploy ==
  /\ pc = "deploy"
  /\ \E raised \in BOOLEAN : DeployMachines(raised) /\ Ending(raised)

-------------------------------------------------------------------------------
(* wait_for_machine_status.                                                 *)

Looking(m) == pc \in Waits /\ Idle /\ m \in todo

\* Mutant of MayRetry: one retry too many.
OneTooMany(m) == failed[m] <= Attempts

\* Mutant of NeedsRepair: a failed deployment is waited for, not repaired.
RepairAllocated(m) == status[m] = "Allocated"

\* The branch of the loop body that retries, and the statuses it knows.
MayRetry(m) == failed[m] < Attempts
NeedsRecreate(m) == status[m] \in {"Failed commissioning", "New"}
NeedsOverride(m) == status[m] = "Failed testing"
NeedsRepair(m) == status[m] \in {"Failed deployment", "Allocated"}
NeedsHelp(m) == NeedsRecreate(m) \/ NeedsOverride(m) \/ NeedsRepair(m)

Found(m) == status[m] \in ReqStatus(pc)

\* total.remove(m): the machine is not looked at again.
SeeFound(m) ==
  /\ Looking(m)
  /\ Found(m)
  /\ total' = total \ {m}
  /\ todo' = todo \ {m}
  /\ UNCHANGED <<serverVars, pc, tries, failed, stage, resets>>

\* Nothing to do but to look again in the next round.
SeeNothing(m) ==
  /\ Looking(m)
  /\ ~Found(m)
  /\ ~(MayRetry(m) /\ NeedsHelp(m))
  /\ todo' = todo \ {m}
  /\ UNCHANGED <<serverVars, pc, tries, total, failed, stage, resets>>

\* A hard retry begins with the call that sets the machine back ...
BeginRetry(m) ==
  /\ Looking(m)
  /\ ~Found(m)
  /\ MayRetry(m)
  /\ resets' = [resets EXCEPT ![m] = @ + 1]

\* ... and ends with failed_attempts[m] one higher.
EndRetry(m) ==
  /\ failed' = [failed EXCEPT ![m] = @ + 1]
  /\ stage' = [stage EXCEPT ![m] = "none"]
  /\ todo' = todo \ {m}

EndOrAbort(m, raised) ==
  IF raised THEN Abort
  ELSE EndRetry(m) /\ UNCHANGED <<pc, tries, total, resets>>

Override(m) ==
  /\ BeginRetry(m)
  /\ NeedsOverride(m)
  /\ SetStatus(m, "Ready")
  /\ EndRetry(m)
  /\ UNCHANGED <<layout, stale, faults, pc, tries, total>>

DeleteMachine(m) ==
  /\ BeginRetry(m)
  /\ NeedsRecreate(m)
  /\ Delete({m})
  /\ NoFault
  /\ stage' = [stage EXCEPT ![m] = "deleted"]
  /\ UNCHANGED <<pc, tries, total, todo, failed>>

Recreate(m) ==
  /\ stage[m] = "deleted"
  /\ \E raised \in BOOLEAN : ProcessMachines(raised) /\ EndOrAbort(m, raised)

MarkBroken(m) ==
  /\ BeginRetry(m)
  /\ NeedsRepair(m)
  /\ SetStatus(m, "Broken")
  /\ stage' = [stage EXCEPT ![m] = "broken"]
  /\ UNCHANGED <<layout, stale, faults, pc, tries, total, todo, failed>>

\* After the sleep; from the second retry on a hardware test follows.
MarkFixed(m) ==
  /\ stage[m] = "broken"
  /\ SetStatus(m, "Ready")
  /\ stage' = [stage EXCEPT ![m] = IF failed[m] > 0 THEN "fixed"
                                                     ELSE "redeploy"]
  /\ UNCHANGED <<layout, stale, faults, pc, tries, total, todo, failed, resets>>

FioTest(m) ==
  /\ stage[m] = "fixed"
  /\ Commission(m)
  /\ NoFault
  /\ stage' = [stage EXCEPT ![m] = "redeploy"]
  /\ UNCHANGED <<pc, tries, total, todo, failed, resets>>

Redeploy(m) ==
  /\ stage[m] = "redeploy"
  /\ \E raised \in BOOLEAN : DeployMachines(raised) /\ EndOrAbort(m, raised)

RoundOver == pc \in Waits /\ Idle /\ todo = {}

\* Every machine was seen in the wanted status: return True.
WaitOver ==
  /\ RoundOver
  /\ total = {}
  /\ Continue
  /\ UNCHANGED serverVars

NextRound ==
  /\ RoundOver
  /\ total # {}
  /\ todo' = total
  /\ UNCHANGED <<serverVars, pc, tries, total, failed, stage, resets>>

\* No machine the wait is after can change any more.
Stuck ==
  \A m \in total :
    /\ ~Found(m)
    /\ ~(MayRetry(m) /\ NeedsHelp(m))
    /\ status[m] \notin {"Commissioning", "Deploying"}

Timeout ==
  /\ RoundOver
  /\ total # {}
  /\ Patient => Stuck
  /\ Abort
  /\ UNCHANGED serverVars

-------------------------------------------------------------------------------
Look(m) ==
  \/ SeeFound(m) \/ SeeNothing(m) \/ Override(m) \/ DeleteMachine(m)
  \/ MarkBroken(m)

Repair(m) == Recreate(m) \/ MarkFixed(m) \/ FioTest(m) \/ Redeploy(m)

Script ==
  \/ Erase \/ CreateMachines \/ Storage \/ Deploy
  \/ \E m \in Machines : Look(m) \/ Repair(m)
  \/ WaitOver \/ NextRound \/ Timeout
  \/ Retry \/ GiveUp

\* The environment's half: MaaS at work, and the failures around the script.
Server == \E m \in Machines : ServerStep(m) /\ UNCHANGED scriptVars

Finished == pc \in {"done", "failed"} /\ UNCHANGED vars

Next == Script \/ Server \/ StepFails \/ Finished

Spec == Init /\ [][Next]_vars

(***************************************************************************)
(* Fairness.  bash goes on with the next command and MaaS finishes or      *)
(* fails what it started; the clock of a wait moves on, so that a wait     *)
(* that keeps reaching the end of a round times out.  Nothing obliges the  *)
(* environment to cause a failure.                                         *)
(***************************************************************************)
Fairness ==
  /\ WF_vars(Script)
  /\ SF_vars(Timeout)
  /\ \A m \in Machines : WF_vars(Progress(m) /\ UNCHANGED scriptVars)

FairSpec == Spec /\ Fairness

-------------------------------------------------------------------------------
(* Properties.                                                              *)

(***************************************************************************)
(* When the STATE file reports success, every machine is deployed - still, *)
(* although the last wait looks at a machine only until it has once seen   *)
(* it Deployed and goes on deleting, repairing and deploying others.       *)
(***************************************************************************)
DoneMeansDeployed ==
  pc = "done" => \A m \in Machines : status[m] = "Deployed"

DeployedKept ==
  \A m \in Machines :
    status[m] = "Deployed" /\ status'[m] # "Deployed"
      => (EraseEnv /\ pc = "erase") \/ m \in stale

(***************************************************************************)
(* A deployed machine is never deleted, broken or commissioned by the      *)
(* retries of the waits or by a new attempt of deploy.sh: only ERASE_ENV   *)
(* and a changed MAC in the pillar do that.                                *)
(***************************************************************************)
DeployedUntouched == [][DeployedKept]_vars

\* Waits an attempt of deploy.sh may have begun when it is at p.
WaitsAt(p) ==
  IF p \in {"erase", "machines"} THEN 0
  ELSE IF p \in {"wait_ready", "storage", "deploy"} THEN 1 ELSE 2

\* Calls of wait_for_machine_status up to and including the current one.
WaitsBegun == 2 * (tries - 1) + WaitsAt(pc)

(***************************************************************************)
(* "attempts: max number of automatic hard retries": no machine is deleted,*)
(* marked broken or overridden more often than that in a wait, whatever    *)
(* its statuses do in between and however the waits end.                   *)
(***************************************************************************)
HardRetryBudget ==
  \A m \in Machines : resets[m] <= Attempts * WaitsBegun

(***************************************************************************)
(* What keeps the two properties above, strong enough to be inductive.     *)
(***************************************************************************)
\* One hard retry at a time, on a machine this round still has to settle.
RetryInv ==
  /\ \A m \in Machines : stage[m] # "none" =>
       pc \in Waits /\ m \in todo /\ failed[m] < Attempts
  /\ \A m, n \in Machines : stage[m] # "none" /\ stage[n] # "none" => m = n
  /\ \A m \in Machines :
       /\ stage[m] = "broken" => status[m] = "Broken"
       /\ stage[m] = "fixed"  => status[m] = "Ready"

\* The retries of a wait are counted in failed_attempts once they end.
BudgetInv ==
  \A m \in Machines :
    IF pc \in Waits
    THEN resets[m] <= Attempts * (WaitsBegun - 1) + failed[m]
                        + (IF stage[m] = "none" THEN 0 ELSE 1)
    ELSE resets[m] <= Attempts * WaitsBegun

\* After maas.machines no MAC is out of date, unless a failure was hidden.
StaleInv ==
  pc \in {"wait_ready", "storage", "deploy", "wait_deployed", "done"}
    => stale = {}

\* The machines the last wait no longer looks at are deployed.
SeenInv ==
  pc = "wait_deployed" =>
    \A m \in Machines \ total : status[m] = "Deployed"

(***************************************************************************)
(* A machine is deployed with the disk layout of the pillar, which is what *)
(* the storage states run before maas.machines.deploy for, as long as no   *)
(* machine was ever set back by a hard retry: a retry deploys whatever it  *)
(* finds Ready, with whatever layout.                                      *)
(***************************************************************************)
LayoutUnlessRepaired ==
  (\A n \in Machines : resets[n] = 0) =>
    \A m \in Machines :
      status[m] \in {"Deploying", "Deployed"} => layout[m] = "pillar"

(***************************************************************************)
(* The attempts of deploy.sh together get every machine deployed, or leave *)
(* one Broken: with patient timeouts and fewer failures than attempts, a   *)
(* call lost between mark_broken and mark_fixed is all they cannot mend.   *)
(***************************************************************************)
EventuallyDone ==
  <>(\/ pc = "done"
     \/ pc = "failed" /\ \E m \in Machines : status[m] = "Broken")

(***************************************************************************)
(* STATE files are re-entrant: an attempt that failed, followed by one in  *)
(* which nothing fails any more, ends in success.                          *)
(***************************************************************************)
Reentrant ==
  (pc = "aborted" /\ tries < MaxTries /\ faults = 0) ~> (pc = "done")
===============================================================================
