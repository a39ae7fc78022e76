--------------------------- MODULE OpenstackClient ---------------------------
(***************************************************************************)
(* The part of the openstack_ha STATE file that makes resources of the     *)
(* cloud: barbican.client on its minions, gnocchi.client on the primary    *)
(* and then on the secondary servers, with every attempt of deploy.sh.     *)
(* The minions of a stage go through the same states at the same time.     *)
(***************************************************************************)
EXTENDS BarbicanClient, GnocchiClient

Barbican == {"secret", "acl", "signature"}
Gnocchi  == {"policy", "rule"}

ASSUME NamesAssumption ==
  \A s \in AllStates :
    /\ s.kind \in Barbican => s.name \in Secrets
    /\ s.kind = "policy" => s.name \in Policies
    /\ s.kind = "rule" => s.name \in Rules

\* What the order of the file and of the pillar provides: a secret comes before
\* its ACL, on the same minions; Gnocchi has one primary server, and what the
\* secondaries are told in the last command it has been told before.
ASSUME OrderAssumption ==
  /\ \A k \in DOMAIN Stages : Stages[k].minions # {}
  /\ \A k, l \in DOMAIN Stages :
       \A i \in DOMAIN Stages[k].states, j \in DOMAIN Stages[l].states :
         LET s == Stages[k].states[i]
             a == Stages[l].states[j]
         IN s.kind = "secret" /\ a.kind = "acl" /\ s.name = a.name => k = l /\ i < j
  /\ \A k \in 1 .. Len(Stages) - 1 :
       (\E i \in DOMAIN Stages[k].states : Stages[k].states[i].kind \in Gnocchi)
         => \A m, n \in Stages[k].minions : m = n
  /\ \A j \in DOMAIN Stages[Len(Stages)].states :
       LET s == Stages[Len(Stages)].states[j] IN
         s.kind \in Gnocchi =>
           \E k \in 1 .. Len(Stages) - 1 : \E i \in DOMAIN Stages[k].states :
             Stages[k].states[i] = s

vars == <<saltVars, barbicanVars, gnocchiVars>>

TypeOK ==
  /\ SaltTypeOK(BarbicanSeen \union GnocchiSeen)
  /\ BarbicanTypeOK
  /\ GnocchiTypeOK

Init == SaltInit /\ BarbicanInit /\ GnocchiInit

OnMinion(m) ==
  \/ BarbicanStep(m) /\ UNCHANGED gnocchiVars
  \/ GnocchiStep(m) /\ UNCHANGED barbicanVars

Stage == EndStage /\ UNCHANGED <<barbicanVars, gnocchiVars>>

Next == Stage \/ \E m \in Minions : OnMinion(m)

Spec == Init /\ [][Next]_vars

\* Salt goes on on every minion, and so does deploy.sh.
FairSpec ==
  Spec /\ WF_vars(Stage) /\ \A m \in Minions : WF_vars(OnMinion(m))
-------------------------------------------------------------------------------
NamesOf(kind) == {s.name : s \in {x \in AllStates : x.kind = kind}}

(***************************************************************************)
(* If the file succeeds and no state has hidden a failure, the secrets are *)
(* there, those with an ACL once, whatever calls were tried again and      *)
(* whoever else was creating them; the images are signed; and the users of *)
(* the pillar have access, provided no ACL was found with some of them.    *)
(***************************************************************************)
SecretsWhenDone ==
  (phase = "done" /\ ~hidden) =>
    /\ \A s \in NamesOf("secret") : copies[s] > 0
    /\ \A s \in NamesOf("acl") : copies[s] = 1 /\ (partial \/ acl[s] = Users)
    /\ NamesOf("signature") \subseteq signed

(***************************************************************************)
(* If the file succeeds, Gnocchi has the rules of the pillar, also when an *)
(* attempt had failed between the DELETE and the POST of an update.        *)
(***************************************************************************)
RulesWhenDone ==
  phase = "done" =>
    NamesOf("policy") \subseteq policies /\ \A r \in NamesOf("rule") : rules[r] = "pillar"

(***************************************************************************)
(* After the primary server the secondaries find everything done: they     *)
(* never change what Gnocchi has, not for a moment.                        *)
(***************************************************************************)
LastStageIdle == [][stage = Len(Stages) => UNCHANGED gnocchiVars]_vars

(***************************************************************************)
(* The attempts suffice for the faults, unless a secret was created twice: *)
(* by the retry of a POST that was obeyed, or by two minions.  No state    *)
(* ever removes the second one.                                            *)
(***************************************************************************)
EventuallyApplied ==
  <>(phase = "done" \/ \E s \in Secrets : copies[s] > 1)
===============================================================================
