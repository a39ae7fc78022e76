------------------------------ MODULE DeployScript ----------------------------
(***************************************************************************)
(* ci/deploy.sh from `trap do_exit SIGINT SIGTERM EXIT` to its end, run by *)
(* an operator as often as it takes: the choice between the ways to set up *)
(* the jump server, the loop over the STATE files with its `wait_for 5`,   *)
(* `set -e` and where it is switched off, and the exit handler that tells  *)
(* the operator how it went.                                               *)
(*                                                                         *)
(* Abstractions:                                                           *)
(*  - A stretch of commands none of which changes the control flow but by  *)
(*    failing is one command that succeeds or fails.                       *)
(*  - An attempt at a STATE file succeeds or fails; what a file does is    *)
(*    the business of other modules.  The remote half of an attempt ends   *)
(*    with its ssh session.                                                *)
(*  - bash handles a signal between two commands of the script; wait_for   *)
(*    is a subshell, hence one command, and its caller handles signals     *)
(*    when it is over.                                                     *)
(***************************************************************************)
EXTENDS Naturals

CONSTANTS
  NStates,       \* the length of cluster_states
  MaasAt,        \* the positions of the STATE file `maas` in it: one or none
  MaxAttempts,   \* the argument of wait_for (5 in the code)
  MaxSignals,    \* bound: how many SIGINT or SIGTERM reach the script
  MaxRuns        \* bound: how often the operator starts the script

ASSUME DeployAssumption ==
  /\ NStates \in Nat
  /\ MaasAt \subseteq 1 .. NStates
  /\ MaxAttempts \in Nat \ {0}
  /\ MaxSignals \in Nat
  /\ MaxRuns \in Nat

VARIABLES
  opts,      \* the options of the current run
  pc,        \* the command of the script that comes next
  errexit,   \* whether `set -e` is in force
  rc,        \* $?, 0 or not
  cur,       \* the STATE file the loop is at
  attempt,   \* the attempt of wait_for, 0 outside of it
  said,      \* the verdicts printed in this run
  applied,   \* the STATE files whose effect the cloud has
  signals,   \* signals the script may still get
  runs       \* runs the operator may still start

loopVars == <<cur, attempt, applied>>
outVars  == <<opts, signals, runs>>
vars     == <<opts, pc, errexit, rc, cur, attempt, said, applied, signals, runs>>

States == 1 .. NStates

(***************************************************************************)
(* -d, -E -E -E, -e and the number of -f.  Any number of -f is allowed,    *)
(* more than there are STATE files included.                               *)
(***************************************************************************)
Options ==
  [dry : BOOLEAN, uninstall : BOOLEAN, noenv : BOOLEAN, skip : 0 .. NStates + 1]

\* The options ask for an installation (and not for less than that).
Full == ~opts.dry /\ ~opts.uninstall /\ ~opts.noenv

(***************************************************************************)
(* As the user guide tells the operator, a run skips no STATE file but     *)
(* those an earlier run has applied.                                       *)
(***************************************************************************)
Sensible(o) == States \intersect (1 .. o.skip) \subseteq applied

Labels ==
  {"setup", "infra", "prepare", "cleanup", "containers", "connect",
   "connected", "loop", "apply", "reset", "log", "end", "exit", "exited"}

TypeOK ==
  /\ opts \in Options
  /\ pc \in Labels
  /\ errexit \in BOOLEAN
  /\ rc \in {0, 1}
  /\ cur \in Nat \ {0}
  /\ attempt \in 0 .. MaxAttempts
  /\ said \subseteq {"ok", "error"}
  /\ applied \subseteq States
  /\ signals \in 0 .. MaxSignals
  /\ runs \in 0 .. MaxRuns

\* The first run of a jump server that has nothing yet.
Init ==
  /\ opts \in {o \in Options : o.skip = 0}
  /\ pc = "setup"
  /\ errexit = TRUE
  /\ rc = 0
  /\ cur = 1
  /\ attempt = 0
  /\ said = {}
  /\ applied = {}
  /\ signals = MaxSignals
  /\ runs = MaxRuns

-------------------------------------------------------------------------------
(* Commands under `set -e`.                                                 *)

\* A command that fails ends the script where errexit is in force.
Fail(next) ==
  /\ rc' = 1
  /\ pc' = IF errexit THEN "exit" ELSE next

Pass(next) == rc' = 0 /\ pc' = next

Command(here, next) ==
  /\ pc = here
  /\ Pass(next) \/ Fail(next)
  /\ UNCHANGED <<errexit, cur, attempt, said, outVars>>

-------------------------------------------------------------------------------
(* Up to the Salt master.                                                   *)

\* Packages, submodules, templates, the checks of the jump server.
Setup == Command("setup", "infra") /\ UNCHANGED applied

InfraStep ==
  /\ pc = "infra"
  /\ Pass(IF opts.dry THEN "exit"
          ELSE IF opts.uninstall THEN "cleanup"
          ELSE IF opts.skip > 0 THEN "containers" ELSE "prepare")
  /\ UNCHANGED <<errexit, said, loopVars, outVars>>

\* prepare_vms .. prepare_containers destroy the previous installation first.
Prepare == Command("prepare", "containers") /\ applied' = {}

\* cleanup_all, then `exit 0`.
Cleanup == Command("cleanup", "exit") /\ applied' = {}

StartContainers == Command("containers", "connect") /\ UNCHANGED applied

(***************************************************************************)
(* check_connection: 60 attempts to reach the Salt master between `set +e` *)
(* and `set -e`; the script goes on whether or not one of them succeeded.  *)
(***************************************************************************)
CheckConnection ==
  /\ pc = "connect"
  /\ errexit' = FALSE
  /\ rc' \in {0, 1}
  /\ pc' = "connected"
  /\ UNCHANGED <<said, loopVars, outVars>>

\* Mutant of SetErrexit: `set -e` is forgotten at the end of check_connection.
ErrexitStaysOff ==
  /\ pc = "connected"
  /\ Pass(IF opts.noenv THEN "end" ELSE "loop")
  /\ UNCHANGED <<errexit, said, loopVars, outVars>>

SetErrexit ==
  /\ pc = "connected"
  /\ errexit' = TRUE
  /\ Pass(IF opts.noenv THEN "end" ELSE "loop")
  /\ UNCHANGED <<said, loopVars, outVars>>

-------------------------------------------------------------------------------
(* The STATE files.                                                         *)

NextState ==
  /\ pc = "loop"
  /\ IF cur <= NStates
     THEN Pass("apply") /\ attempt' = 1
     ELSE Pass("log") /\ UNCHANGED attempt
  /\ UNCHANGED <<errexit, cur, said, applied, outVars>>

\* After the STATE file `maas` the virtual nodes are reset.
AfterApply == IF cur \in MaasAt THEN "reset" ELSE "loop"
Advance(next) == cur' = IF next = "loop" THEN cur + 1 ELSE cur

AttemptPasses ==
  /\ pc = "apply"
  /\ applied' = applied \union {cur}
  /\ attempt' = 0
  /\ Pass(AfterApply)
  /\ Advance(AfterApply)
  /\ UNCHANGED <<errexit, said, outVars>>

\* Mutant of AttemptFails: one attempt too many.
OneAttemptMore ==
  /\ pc = "apply"
  /\ attempt <= MaxAttempts
  /\ applied' = applied \ {cur}
  /\ attempt' = attempt + 1
  /\ UNCHANGED <<pc, errexit, rc, cur, said, outVars>>

\* wait_for: sleep and try again ...
AttemptFails ==
  /\ pc = "apply"
  /\ attempt < MaxAttempts
  /\ applied' = applied \ {cur}
  /\ attempt' = attempt + 1
  /\ UNCHANGED <<pc, errexit, rc, cur, said, outVars>>

\* Mutant of WaitForFails: wait_for returns 0 whatever happened.
WaitForGivesIn ==
  /\ pc = "apply"
  /\ attempt = MaxAttempts
  /\ applied' = applied \ {cur}
  /\ attempt' = 0
  /\ Pass(AfterApply)
  /\ Advance(AfterApply)
  /\ UNCHANGED <<errexit, said, outVars>>

\* Mutant of WaitForFails: after the last attempt the counting starts again.
AttemptForever ==
  /\ pc = "apply"
  /\ attempt = MaxAttempts
  /\ applied' = applied \ {cur}
  /\ attempt' = 1
  /\ UNCHANGED <<pc, errexit, rc, cur, said, outVars>>

\* ... and return 1 after the last attempt.
WaitForFails ==
  /\ pc = "apply"
  /\ attempt = MaxAttempts
  /\ applied' = applied \ {cur}
  /\ attempt' = 0
  /\ Fail(AfterApply)
  /\ Advance(AfterApply)
  /\ UNCHANGED <<errexit, said, outVars>>

\* reset_vms of all virtual nodes.
ResetVms ==
  /\ pc = "reset"
  /\ Pass("loop") \/ Fail("loop")
  /\ Advance("loop")
  /\ UNCHANGED <<errexit, attempt, said, applied, outVars>>

Log == Command("log", "end") /\ UNCHANGED applied

\* popd, and off the end of the script.
End ==
  /\ pc = "end"
  /\ Pass("exit")
  /\ UNCHANGED <<errexit, said, loopVars, outVars>>

-------------------------------------------------------------------------------
(* The exit handler.                                                        *)

Verdict == IF rc = 0 THEN "ok" ELSE "error"

DoExit == said' = said \union {Verdict}

Exit ==
  /\ pc = "exit"
  /\ DoExit
  /\ pc' = "exited"
  /\ UNCHANGED <<errexit, rc, loopVars, outVars>>

(***************************************************************************)
(* The handler of SIGINT and SIGTERM is the same one, and returns: bash    *)
(* then goes on with the next command.                                     *)
(***************************************************************************)
Signal ==
  /\ signals > 0
  /\ pc # "exited"
  /\ attempt = 0
  /\ DoExit
  /\ signals' = signals - 1
  /\ UNCHANGED <<opts, pc, errexit, rc, loopVars, runs>>

\* The script is killed, or the jump server goes down.
Crash ==
  /\ pc # "exited"
  /\ pc' = "exited"
  /\ applied' = IF pc \in {"prepare", "cleanup"} THEN {}
                ELSE IF pc = "apply" THEN applied \ {cur} ELSE applied
  /\ UNCHANGED <<errexit, rc, cur, attempt, said, outVars>>

\* The operator runs the script again.
Rerun ==
  /\ pc = "exited"
  /\ runs > 0
  /\ runs' = runs - 1
  /\ \E o \in Options :
       /\ Sensible(o)
       /\ opts' = o
       /\ cur' = o.skip + 1
  /\ pc' = "setup"
  /\ errexit' = TRUE
  /\ rc' = 0
  /\ attempt' = 0
  /\ said' = {}
  /\ UNCHANGED <<applied, signals>>

-------------------------------------------------------------------------------
Step ==
  \/ Setup \/ InfraStep \/ Prepare \/ Cleanup \/ StartContainers
  \/ CheckConnection \/ SetErrexit
  \/ NextState \/ AttemptPasses \/ AttemptFails \/ WaitForFails \/ ResetVms
  \/ Log \/ End \/ Exit

\* The operator leaves it at that.
Finished == pc = "exited" /\ UNCHANGED vars

Next == Step \/ Signal \/ Crash \/ Rerun \/ Finished

Spec == Init /\ [][Next]_vars

\* Every command of the script ends; the operator is not obliged to anything.
FairSpec == Spec /\ WF_vars(Step)

-------------------------------------------------------------------------------
(* Properties.                                                              *)

(***************************************************************************)
(* The script, run as often as it takes, does what an installation is, and *)
(* tells the truth about it as long as no signal has made it speak early.  *)
(* A run that was asked for less than a full deployment gives no verdict.  *)
(***************************************************************************)
Signalled == signals < MaxSignals

Reported ==
  IF ~Full \/ Signalled \/ said = {} THEN "none"
  ELSE IF "error" \in said THEN "error" ELSE "ok"

Abstract == INSTANCE Installation WITH verdict <- Reported

IsInstallation == Abstract!Spec

(***************************************************************************)
(* Signals or not, a STATE file is only ever applied on top of all the     *)
(* STATE files before it, those that a run skips with -f included.         *)
(***************************************************************************)
InOrder ==
  \A s \in applied' \ applied : 1 .. (s - 1) \subseteq applied

AppliedInOrder == [][InOrder]_vars

\* A run ends, however often its attempts fail: no retry goes on for ever.
RunEnds == (pc = "setup") ~> (pc = "exited")

-------------------------------------------------------------------------------
(* The inductive invariant behind the refinement.                           *)

\* check_connection is the only place a failure may be overlooked in.
ErrexitInv == ~errexit => pc \in {"connected", "exited"}

\* The loop stands on top of all the STATE files before the current one.
LoopInv ==
  /\ pc \notin {"prepare", "exit", "exited"} =>
       States \intersect (1 .. (cur - 1)) \subseteq applied
  /\ pc \in {"setup", "infra"} => cur = opts.skip + 1
  /\ pc = "prepare" => cur = 1
  /\ pc = "apply" => cur \in States
  /\ pc = "reset" => cur \in applied

\* But for signals, nothing is said before the end, and $? is 0 at the end of a
\* full run only if nothing is missing.
VerdictInv ==
  /\ pc # "exited" => Signalled \/ said = {}
  /\ pc = "cleanup" => opts.uninstall
  /\ Full /\ pc \in {"log", "end"} => applied = States
  /\ Full /\ pc = "exit" /\ rc = 0 => applied = States

RunInv == ErrexitInv /\ LoopInv /\ VerdictInv
===============================================================================
