---------------------------- MODULE GnocchiClient ----------------------------
(***************************************************************************)
(* The Gnocchi states of salt-formula-gnocchi (_states/gnocchiv1.py) that  *)
(* gnocchi.client applies: archive policies and their rules.  Here `send`  *)
(* makes a call once and raises what goes wrong, so that every failure is  *)
(* seen.  A policy is never updated; a rule is, by a DELETE and a POST.    *)
(***************************************************************************)
EXTENDS SaltStages

CONSTANTS
  Policies,   \* the archive policies of the pillar
  Rules       \* their rules

VARIABLES
  policies,   \* the archive policies Gnocchi has
  rules       \* rules[r]: "none", as in the "pillar", or an "other" one

gnocchiVars == <<policies, rules>>

\* What a state goes on with: it has to create, or to delete and create.
GnocchiSeen == {"missing", "different"}

GnocchiTypeOK ==
  /\ policies \subseteq Policies
  /\ rules \in [Rules -> {"none", "pillar", "other"}]

\* A new cloud, or what an earlier pillar has left.
GnocchiInit ==
  /\ policies \in SUBSET Policies
  /\ rules \in [Rules -> {"none", "other"}]
  /\ policies # Policies => rules = [r \in Rules |-> "none"]

Resource(m) == Current(m).name

\* A call that changes something: it works, it is refused, it fails or its
\* answer is lost.
Call(allowed, Works, Refused, Effect, NoEffect) ==
  \/ allowed /\ NoFault /\ Effect /\ Works
  \/ ~allowed /\ NoFault /\ NoEffect /\ Refused
  \/ allowed /\ Fault /\ (Effect \/ NoEffect) /\ Refused

(***************************************************************************)
(* archive_policy_present.                                                 *)
(***************************************************************************)
ReadPolicy(m) ==
  /\ Begins(m, "policy")
  /\ \/ NoFault /\ Resource(m) \in policies /\ Return(m, TRUE)
     \/ NoFault /\ Resource(m) \notin policies /\ See(m, "missing")
     \/ Fault /\ Return(m, FALSE)
  /\ UNCHANGED gnocchiVars

CreatePolicy(m) ==
  /\ Continues(m, "policy")
  /\ Call(Resource(m) \notin policies, Return(m, TRUE), Return(m, FALSE),
          policies' = policies \union {Resource(m)}, UNCHANGED policies)
  /\ UNCHANGED rules

(***************************************************************************)
(* archive_policy_rule_present, with its requisite, the policy's state.    *)
(***************************************************************************)
PolicyFailed(m) ==
  \E s \in failed[m] : s.kind = "policy" /\ s.name = Current(m).policy

RuleBlocked(m) ==
  /\ Begins(m, "rule") /\ PolicyFailed(m)
  /\ Return(m, FALSE)
  /\ NoFault /\ UNCHANGED gnocchiVars

\* A mutant of ReadRule: a rule that exists is taken for that of the pillar.
ReadRuleByName(m) ==
  /\ Begins(m, "rule") /\ ~PolicyFailed(m)
  /\ \/ NoFault /\ rules[Resource(m)] # "none" /\ Return(m, TRUE)
     \/ NoFault /\ rules[Resource(m)] = "none" /\ See(m, "missing")
     \/ Fault /\ Return(m, FALSE)
  /\ UNCHANGED gnocchiVars

\* A mutant of ReadRule: a rule is always replaced, the same one too.
ReadRuleAnew(m) ==
  /\ Begins(m, "rule") /\ ~PolicyFailed(m)
  /\ \/ NoFault /\ rules[Resource(m)] # "none" /\ See(m, "different")
     \/ NoFault /\ rules[Resource(m)] = "none" /\ See(m, "missing")
     \/ Fault /\ Return(m, FALSE)
  /\ UNCHANGED gnocchiVars

ReadRule(m) ==
  /\ Begins(m, "rule") /\ ~PolicyFailed(m)
  /\ \/ NoFault /\ rules[Resource(m)] = "pillar" /\ Return(m, TRUE)
     \/ NoFault /\ rules[Resource(m)] = "other" /\ See(m, "different")
     \/ NoFault /\ rules[Resource(m)] = "none" /\ See(m, "missing")
     \/ Fault /\ Return(m, FALSE)
  /\ UNCHANGED gnocchiVars

SetRule(r, v) == rules' = [rules EXCEPT ![r] = v]

\* A mutant of DeleteRule: the old rule is not deleted.
DeleteRuleNot(m) ==
  /\ Continues(m, "rule") /\ seen[m] = "different"
  /\ See(m, "missing")
  /\ NoFault /\ UNCHANGED gnocchiVars

\* The update: what fails after this is created by the next attempt.
DeleteRule(m) ==
  /\ Continues(m, "rule") /\ seen[m] = "different"
  /\ Call(rules[Resource(m)] # "none", See(m, "missing"), Return(m, FALSE),
          SetRule(Resource(m), "none"), UNCHANGED rules)
  /\ UNCHANGED policies

CreateRule(m) ==
  /\ Continues(m, "rule") /\ seen[m] = "missing"
  /\ Call(rules[Resource(m)] = "none", Return(m, TRUE), Return(m, FALSE),
          SetRule(Resource(m), "pillar"), UNCHANGED rules)
  /\ UNCHANGED policies

GnocchiStep(m) ==
  \/ ReadPolicy(m) \/ CreatePolicy(m)
  \/ RuleBlocked(m) \/ ReadRule(m) \/ DeleteRule(m) \/ CreateRule(m)
===============================================================================
