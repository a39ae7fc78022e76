----------------------------- MODULE SaltStages ------------------------------
(***************************************************************************)
(* A STATE file as a sequence of stages, the commands                      *)
(* `salt -I <pillar> state.sls <formula>` of which it consists: Salt       *)
(* applies the states of the formula on all minions that match, on each of *)
(* them one after the other, on all of them at the same time.  The file    *)
(* runs with `set -e` and under `wait_for 5` of deploy.sh.                 *)
(*                                                                         *)
(* The states themselves are defined by the modules that extend this one.  *)
(***************************************************************************)
EXTENDS Naturals, Sequences, FiniteSets

CONSTANTS
  Minions,    \* the minions of all stages
  Stages,     \* a sequence of records: minions, the set of those that match,
              \* and states, the sequence of the states of the formula
  MaxTries,   \* how often deploy.sh runs the file (5 in the code)
  MaxFaults   \* bound: calls that fail, or whose answer is lost

ASSUME StagesAssumption ==
  /\ DOMAIN Stages = 1 .. Len(Stages) /\ Len(Stages) \in Nat \ {0}
  /\ \A k \in DOMAIN Stages :
       /\ Stages[k].minions \subseteq Minions
       /\ DOMAIN Stages[k].states = 1 .. Len(Stages[k].states)
       /\ Len(Stages[k].states) \in Nat
  /\ MaxTries \in Nat \ {0} /\ MaxFaults \in Nat

AllStates ==
  UNION {{Stages[k].states[i] : i \in DOMAIN Stages[k].states} : k \in DOMAIN Stages}

VARIABLES
  stage,    \* the command that is run
  at,       \* at[m]: the state that minion m applies
  seen,     \* seen[m]: what this state has found, or Unseen
  failed,   \* failed[m]: the states that failed on m in this stage
  tries,    \* attempts of deploy.sh
  phase,    \* "running", "done" or "failed"
  faults    \* failures that may still happen

saltVars == <<stage, at, seen, failed, tries, phase, faults>>

Unseen == "unseen"
Start  == [m \in Minions |-> 1]
Fresh  == [m \in Minions |-> Unseen]
NoneFailed == [m \in Minions |-> {}]

States == Stages[stage].states

SaltTypeOK(Seen) ==
  /\ stage \in 1 .. Len(Stages)
  /\ at \in [Minions -> 1 .. Len(States) + 1]
  /\ seen \in [Minions -> Seen \union {Unseen}]
  /\ failed \in [Minions -> SUBSET {States[i] : i \in DOMAIN States}]
  /\ tries \in 1 .. MaxTries
  /\ phase \in {"running", "done", "failed"}
  /\ faults \in 0 .. MaxFaults

SaltInit ==
  /\ stage = 1
  /\ at = Start /\ seen = Fresh /\ failed = NoneFailed
  /\ tries = 1 /\ phase = "running"
  /\ faults = MaxFaults

\* The state that minion m applies, and whether it is one of this kind, at its
\* first step or after it has looked.
Current(m) == States[at[m]]

Applies(m, kind) ==
  /\ phase = "running"
  /\ m \in Stages[stage].minions
  /\ at[m] <= Len(States)
  /\ Current(m).kind = kind

Begins(m, kind)    == Applies(m, kind) /\ seen[m] = Unseen
Continues(m, kind) == Applies(m, kind) /\ seen[m] # Unseen

Fault   == faults > 0 /\ faults' = faults - 1
NoFault == UNCHANGED faults

\* The state has seen v, and goes on.
See(m, v) ==
  /\ seen' = [seen EXCEPT ![m] = v]
  /\ UNCHANGED <<stage, at, failed, tries, phase>>

\* The state ends with this result.
Return(m, ok) ==
  /\ at' = [at EXCEPT ![m] = @ + 1]
  /\ seen' = [seen EXCEPT ![m] = Unseen]
  /\ failed' = IF ok THEN failed ELSE [failed EXCEPT ![m] = @ \union {Current(m)}]
  /\ UNCHANGED <<stage, tries, phase>>

AllOver == \A m \in Stages[stage].minions : at[m] > Len(States)
AllWell == \A m \in Stages[stage].minions : failed[m] = {}

Go(k) ==
  /\ stage' = k
  /\ at' = Start /\ seen' = Fresh /\ failed' = NoneFailed

\* A mutant of MayRetry: one attempt too many.
MayRetryLonger == tries <= MaxTries

MayRetry == tries < MaxTries

\* The command is over on all minions: the file goes on, or has failed.
EndStage ==
  /\ phase = "running" /\ AllOver
  /\ \/ /\ AllWell /\ stage < Len(Stages)
        /\ Go(stage + 1) /\ UNCHANGED <<tries, phase>>
     \/ /\ AllWell /\ stage = Len(Stages)
        /\ phase' = "done" /\ UNCHANGED <<stage, at, seen, failed, tries>>
     \/ /\ ~AllWell /\ MayRetry
        /\ tries' = tries + 1 /\ Go(1) /\ UNCHANGED phase
     \/ /\ ~AllWell /\ ~MayRetry
        /\ phase' = "failed" /\ UNCHANGED <<stage, at, seen, failed, tries>>
  /\ NoFault
===============================================================================
