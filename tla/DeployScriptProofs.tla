--------------------------- MODULE DeployScriptProofs --------------------------
(***************************************************************************)
(* Proofs about ci/deploy.sh for every list of STATE files, every number   *)
(* of attempts and of runs of the script.                                  *)
(***************************************************************************)
EXTENDS DeployScript, TLAPS

\* The states between two steps, signals or not.
Safe == TypeOK /\ ErrexitInv /\ LoopInv

LEMMA TypeStep ==
  ASSUME TypeOK, LoopInv, [Next]_vars
  PROVE  TypeOK'
<1> USE DeployAssumption
    DEF TypeOK, Labels, Pass, Fail, outVars, loopVars
<1>1. CASE Setup
  BY <1>1 DEF Setup, Command
<1>2. CASE InfraStep
  BY <1>2 DEF InfraStep
<1>3. CASE Prepare
  BY <1>3 DEF Prepare, Command
<1>4. CASE Cleanup
  BY <1>4 DEF Cleanup, Command
<1>5. CASE StartContainers
  BY <1>5 DEF StartContainers, Command
<1>6. CASE CheckConnection
  BY <1>6 DEF CheckConnection
<1>7. CASE SetErrexit
  BY <1>7 DEF SetErrexit
<1>8. CASE NextState
  BY <1>8 DEF NextState
<1>9. CASE AttemptPasses
  BY <1>9 DEF AttemptPasses, AfterApply, Advance, LoopInv
<1>10. CASE AttemptFails
  BY <1>10 DEF AttemptFails
<1>11. CASE WaitForFails
  BY <1>11 DEF WaitForFails, AfterApply, Advance
<1>12. CASE ResetVms
  BY <1>12 DEF ResetVms, Advance
<1>13. CASE Log \/ End
  BY <1>13 DEF Log, End, Command
<1>14. CASE Exit \/ Signal
  <2>1. said' = said \union {Verdict} /\ Verdict \in {"ok", "error"}
    BY <1>14 DEF Exit, Signal, DoExit, Verdict
  <2>2. said' \subseteq {"ok", "error"}
    BY <2>1
  <2>3. CASE Exit
    BY <2>2, <2>3 DEF Exit
  <2>4. CASE Signal
    BY <2>2, <2>4 DEF Signal
  <2>5. QED
    BY <1>14, <2>3, <2>4
<1>15. CASE Crash
  BY <1>15 DEF Crash
<1>16. CASE Rerun
  <2>1. PICK o \in Options : opts' = o /\ cur' = o.skip + 1
    BY <1>16 DEF Rerun
  <2>2. o.skip \in Nat
    BY DEF Options
  <2>3. QED
    BY <1>16, <2>1, <2>2 DEF Rerun
<1>17. CASE UNCHANGED vars
  BY <1>17 DEF vars
<1>18. QED
  BY <1>1, <1>2, <1>3, <1>4, <1>5, <1>6, <1>7, <1>8, <1>9, <1>10, <1>11,
     <1>12, <1>13, <1>14, <1>15, <1>16, <1>17
     DEF Next, Step, Finished

\* A command that fails stops the script as long as errexit is in force.
LEMMA SafeStep ==
  ASSUME Safe, [Next]_vars
  PROVE  ErrexitInv' /\ LoopInv'
<1> USE DeployAssumption
    DEF Safe, TypeOK, Labels, ErrexitInv, LoopInv, Pass, Fail, outVars, loopVars
<1>1. CASE Setup
  BY <1>1 DEF Setup, Command
<1>2. CASE InfraStep
  <2>1. opts.skip \in Nat
    BY DEF Options
  <2>2. pc' = "prepare" => cur = 1
    BY <1>2, <2>1 DEF InfraStep
  <2>3. QED
    BY <1>2, <2>2 DEF InfraStep
<1>3. CASE Prepare
  BY <1>3 DEF Prepare, Command
<1>4. CASE Cleanup
  BY <1>4 DEF Cleanup, Command
<1>5. CASE StartContainers
  BY <1>5 DEF StartContainers, Command
<1>6. CASE CheckConnection
  BY <1>6 DEF CheckConnection
<1>7. CASE SetErrexit
  BY <1>7 DEF SetErrexit
<1>8. CASE NextState
  BY <1>8 DEF NextState, States
<1>9. CASE AttemptPasses
  <2>1. States \intersect (1 .. cur) \subseteq applied'
    BY <1>9 DEF AttemptPasses, States
  <2>2. cur \in applied' /\ (pc' = "loop" => cur' = cur + 1)
        /\ (pc' = "reset" => cur' = cur) /\ pc' \in {"loop", "reset"}
    BY <1>9 DEF AttemptPasses, AfterApply, Advance
  <2>3. (cur + 1) - 1 = cur /\ 1 .. (cur - 1) \subseteq 1 .. cur
    OBVIOUS
  <2>4. errexit'
    BY <1>9 DEF AttemptPasses
  <2> QED
    BY <2>1, <2>2, <2>3, <2>4
<1>10. CASE AttemptFails
  BY <1>10 DEF AttemptFails, States
<1>11. CASE WaitForFails
  BY <1>11 DEF WaitForFails, AfterApply, Advance
<1>12. CASE ResetVms
  <2>1. States \intersect (1 .. cur) \subseteq applied'
    BY <1>12 DEF ResetVms, States
  <2>2. cur' = cur + 1 /\ pc' \in {"loop", "exit"} /\ errexit'
    BY <1>12 DEF ResetVms, Advance
  <2>3. (cur + 1) - 1 = cur
    OBVIOUS
  <2> QED
    BY <2>1, <2>2, <2>3
<1>13. CASE Log \/ End
  BY <1>13 DEF Log, End, Command
<1>14. CASE Exit \/ Signal
  BY <1>14 DEF Exit, Signal
<1>15. CASE Crash
  BY <1>15 DEF Crash
<1>16. CASE Rerun
  <2>1. PICK o \in Options : Sensible(o) /\ opts' = o /\ cur' = o.skip + 1
    BY <1>16 DEF Rerun
  <2>2. o.skip \in Nat
    BY DEF Options
  <2>3. cur' - 1 = o.skip
    BY <2>1, <2>2
  <2>4. QED
    BY <1>16, <2>1, <2>3 DEF Rerun, Sensible
<1>17. CASE UNCHANGED vars
  BY <1>17 DEF vars
<1>18. QED
  BY <1>1, <1>2, <1>3, <1>4, <1>5, <1>6, <1>7, <1>8, <1>9, <1>10, <1>11,
     <1>12, <1>13, <1>14, <1>15, <1>16, <1>17
     DEF Next, Step, Finished

\* Whoever adds a STATE file to the cloud does so on top of its predecessors.
LEMMA OrderStep ==
  ASSUME Safe, [Next]_vars
  PROVE  InOrder
<1> USE DEF InOrder, Safe
<1>1. CASE AttemptPasses
  <2>1. applied' = applied \union {cur} /\ pc = "apply"
    BY <1>1 DEF AttemptPasses
  <2>2. 1 .. (cur - 1) \subseteq States
    BY <2>1, DeployAssumption DEF LoopInv, States, TypeOK
  <2>3. QED
    BY <2>1, <2>2 DEF LoopInv
<1>2. CASE Setup \/ Prepare \/ Cleanup \/ StartContainers \/ Log
  BY <1>2 DEF Setup, Prepare, Cleanup, StartContainers, Log
<1>3. CASE InfraStep \/ CheckConnection \/ SetErrexit \/ NextState \/ ResetVms
  BY <1>3
     DEF InfraStep, CheckConnection, SetErrexit, NextState, ResetVms, loopVars
<1>4. CASE AttemptFails \/ WaitForFails
  BY <1>4 DEF AttemptFails, WaitForFails
<1>5. CASE End \/ Exit \/ Signal \/ Crash \/ Rerun
  BY <1>5 DEF End, Exit, Signal, Crash, Rerun, loopVars
<1>6. CASE UNCHANGED vars
  BY <1>6 DEF vars
<1>7. QED
  BY <1>1, <1>2, <1>3, <1>4, <1>5, <1>6 DEF Next, Step, Finished

-------------------------------------------------------------------------------
(* The script implements Installation.                                      *)

\* A script that is not signalled says nothing before it exits, and exits with
\* 0 after a full run only when nothing is missing.
LEMMA VerdictStep ==
  ASSUME Safe, VerdictInv, [Next]_vars
  PROVE  VerdictInv'
<1> USE DeployAssumption
    DEF Safe, TypeOK, Labels, ErrexitInv, VerdictInv, Pass, Fail, outVars,
        loopVars, Full, Signalled
<1>1. CASE Setup \/ Prepare \/ Cleanup \/ StartContainers
  <2>1. rc' = 0 => pc' # "exit" \/ opts.uninstall
    BY <1>1 DEF Setup, Prepare, Cleanup, StartContainers, Command
  <2>2. QED
    BY <1>1, <2>1 DEF Setup, Prepare, Cleanup, StartContainers, Command
<1>2. CASE InfraStep
  BY <1>2 DEF InfraStep
<1>3. CASE CheckConnection \/ SetErrexit
  BY <1>3 DEF CheckConnection, SetErrexit
<1>4. CASE NextState
  <2>1. pc' = "log" => States \subseteq 1 .. (cur - 1)
    BY <1>4 DEF NextState, States
  <2>2. pc' = "log" => applied = States
    BY <1>4, <2>1 DEF NextState, LoopInv
  <2>3. QED
    BY <1>4, <2>2 DEF NextState
<1>5. CASE AttemptPasses
  BY <1>5 DEF AttemptPasses, AfterApply
<1>6. CASE AttemptFails
  BY <1>6 DEF AttemptFails
<1>7. CASE WaitForFails
  BY <1>7 DEF WaitForFails, AfterApply
<1>8. CASE ResetVms
  BY <1>8 DEF ResetVms
<1>9. CASE Log \/ End
  BY <1>9 DEF Log, End, Command
<1>10. CASE Exit \/ Crash \/ Rerun
  BY <1>10 DEF Exit, Crash, Rerun
<1>11. CASE Signal
  BY <1>11 DEF Signal
<1>12. CASE UNCHANGED vars
  BY <1>12 DEF vars
<1>13. QED
  BY <1>1, <1>2, <1>3, <1>4, <1>5, <1>6, <1>7, <1>8, <1>9, <1>10, <1>11,
     <1>12
     DEF Next, Step, Finished

\* Every step of the script is a step of Installation, or changes nothing there.
LEMMA RefineStep ==
  ASSUME Safe, VerdictInv, [Next]_vars
  PROVE  [Abstract!Next]_<<applied, Reported>>
<1> USE DEF Safe, VerdictInv, outVars, loopVars
<1>1. CASE pc # "exited" /\ ~Exit
  <2>1. (Signalled \/ said = {}) /\ (Signalled' \/ said' = {})
    <3> USE DEF Signalled
    <3>1. CASE Crash
      BY <1>1, <3>1 DEF Crash
    <3>2. CASE Rerun \/ Finished
      BY <1>1, <3>2 DEF Rerun, Finished
    <3>3. CASE Signal
      BY <1>1, <3>3, DeployAssumption DEF Signal, TypeOK
    <3>4. CASE UNCHANGED vars
      BY <1>1, <3>4 DEF vars
    <3>5. CASE Step
      BY <1>1, <3>5
         DEF Step, Setup, InfraStep, Prepare, Cleanup, StartContainers,
             CheckConnection, SetErrexit, NextState, AttemptPasses,
             AttemptFails, WaitForFails, ResetVms, Log, End, Command
    <3>6. QED
      BY <3>1, <3>2, <3>3, <3>4, <3>5 DEF Next
  <2>2. Reported = "none" /\ Reported' = "none"
    BY <2>1 DEF Reported
  <2>3. ASSUME applied' = {}
        PROVE  Abstract!Next
    BY <2>2, <2>3 DEF Abstract!Next, Abstract!Wipe
  <2>4. ASSUME pc = "apply", applied' = applied \ {cur}
        PROVE  Abstract!Next
    BY <2>2, <2>4
       DEF Abstract!Next, Abstract!Spoil, Abstract!States, States, LoopInv
  <2>5. CASE AttemptPasses
    <3>1. applied' = applied \union {cur} /\ pc = "apply"
      BY <2>5 DEF AttemptPasses
    <3>2. 1 .. (cur - 1) \subseteq States
      BY <3>1, DeployAssumption DEF LoopInv, States, TypeOK
    <3>3. Abstract!Apply(cur)
      BY <2>2, <3>1, <3>2 DEF Abstract!Apply, LoopInv
    <3>4. QED
      BY <3>1, <3>3 DEF Abstract!Next, Abstract!States, States, LoopInv
  <2>6. CASE Prepare \/ Cleanup
    BY <2>3, <2>6 DEF Prepare, Cleanup
  <2>7. CASE AttemptFails \/ WaitForFails
    BY <2>4, <2>7 DEF AttemptFails, WaitForFails
  <2>8. CASE Crash
    BY <2>2, <2>3, <2>4, <2>8 DEF Crash
  <2>9. ASSUME applied' = applied
        PROVE  UNCHANGED <<applied, Reported>>
    BY <2>2, <2>9
  <2>10. CASE UNCHANGED vars
    BY <2>9, <2>10 DEF vars
  <2>11. CASE Step
    BY <1>1, <2>5, <2>6, <2>7, <2>9, <2>11
       DEF Step, Setup, InfraStep, StartContainers, CheckConnection,
           SetErrexit, NextState, ResetVms, Log, End, Command
  <2>12. CASE Signal \/ Rerun \/ Finished
    BY <1>1, <2>9, <2>12 DEF Signal, Rerun, Finished, loopVars, vars
  <2>13. QED
    BY <2>8, <2>10, <2>11, <2>12 DEF Next
<1>2. CASE Exit
  <2>1. /\ pc = "exit"
        /\ Signalled \/ said = {}
        /\ said' = said \union {Verdict}
        /\ UNCHANGED <<applied, opts, signals>>
    BY <1>2 DEF Exit, DoExit
  <2>2. CASE Full /\ ~Signalled
    <3>1. Reported = "none" /\ Reported' = Verdict
      BY <2>1, <2>2 DEF Reported, Full, Verdict, Signalled
    <3>2. Verdict = "ok" => applied = Abstract!States
      BY <2>1, <2>2 DEF Verdict, Abstract!States, States
    <3>3. QED
      BY <2>1, <3>1, <3>2 DEF Abstract!Next, Abstract!Report, Verdict
  <2>3. CASE ~Full \/ Signalled
    BY <2>1, <2>3 DEF Reported, Full, Signalled
  <2>4. QED
    BY <2>2, <2>3
<1>3. CASE Rerun
  BY <1>3 DEF Rerun, Reported, Abstract!Next, Abstract!Again
<1>4. CASE pc = "exited" /\ ~Rerun
  <2>1. UNCHANGED vars
    BY <1>4
       DEF Next, Step, Finished, Signal, Crash, Setup, InfraStep, Prepare,
           Cleanup, StartContainers, CheckConnection, SetErrexit, NextState,
           AttemptPasses, AttemptFails, WaitForFails, ResetVms, Log, End, Exit,
           Command
  <2>2. QED
    BY <2>1 DEF vars, Reported, Full, Signalled
<1>5. QED
  BY <1>1, <1>2, <1>3, <1>4

-------------------------------------------------------------------------------
(* The theorems.                                                            *)

LEMMA InitSafe ==
  ASSUME Init
  PROVE  Safe /\ VerdictInv
BY DeployAssumption
   DEF Init, Safe, TypeOK, Options, Labels, ErrexitInv, LoopInv, VerdictInv

\* Every state is well typed; errexit is in force but for check_connection; and
\* the loop over the STATE files stands on top of those before the current one.
THEOREM AlwaysSafe == Spec => []Safe
<1>1. Init => Safe
  BY InitSafe
<1>2. Safe /\ [Next]_vars => Safe'
  BY TypeStep, SafeStep DEF Safe
<1>3. QED
  BY <1>1, <1>2, PTL DEF Spec

\* The variables have their types, for any number of STATE files and attempts.
THEOREM TypeCorrect == Spec => []TypeOK
BY AlwaysSafe, PTL DEF Safe

\* Whatever fails, crashes, is signalled or run again: a STATE file is applied
\* only where all its predecessors are.
THEOREM Order == Spec => AppliedInOrder
<1>1. Safe /\ [Next]_vars => [InOrder]_vars
  BY OrderStep
<1>2. QED
  BY <1>1, AlwaysSafe, PTL DEF Spec, AppliedInOrder

\* The invariant behind the refinement: errexit is off in check_connection only,
\* the loop stands on the files before the current one, and unless it has been
\* signalled the script reaches its end with $? = 0 only on a full installation.
THEOREM RunInvariant == Spec => []RunInv
<1>1. Init => Safe /\ VerdictInv
  BY InitSafe
<1>2. Safe /\ VerdictInv /\ [Next]_vars => Safe' /\ VerdictInv'
  BY TypeStep, SafeStep, VerdictStep DEF Safe
<1>3. Safe /\ VerdictInv => RunInv
  BY DEF Safe, RunInv
<1>4. QED
  BY <1>1, <1>2, <1>3, PTL DEF Spec

\* deploy.sh is an installation: STATE files in order, and, unless a signal has
\* made it speak early, "finished succesfully" only when nothing is missing.
THEOREM Implementation == Spec => IsInstallation
<1>1. Init => Abstract!Init
  BY DEF Init, Abstract!Init, Reported
<1>2. Safe /\ VerdictInv /\ [Next]_vars
        => [Abstract!Next]_<<applied, Reported>>
  BY RefineStep
<1>3. RunInv => VerdictInv
  BY DEF RunInv
<1>4. QED
  BY <1>1, <1>2, <1>3, RunInvariant, AlwaysSafe, PTL
     DEF Spec, IsInstallation, Abstract!Spec
===============================================================================
