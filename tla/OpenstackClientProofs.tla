------------------------ MODULE OpenstackClientProofs -------------------------
(***************************************************************************)
(* Proofs about OpenstackClient for every pillar, any number of minions,   *)
(* tries, attempts and failures.                                           *)
(***************************************************************************)
EXTENDS OpenstackClient, TLAPS

-------------------------------------------------------------------------------
(* What the steps of a STATE file do to the variables of SaltStages.        *)

LEMMA FaultType ==
  ASSUME faults \in 0 .. MaxFaults, Fault \/ NoFault
  PROVE  faults' \in 0 .. MaxFaults
BY StagesAssumption DEF Fault, NoFault

\* The variables of SaltStages, as every action but EndStage changes them.
LEMMA SeeType ==
  ASSUME NEW Seen, SaltTypeOK(Seen), NEW m \in Minions, NEW v \in Seen, See(m, v),
         Fault \/ NoFault
  PROVE  SaltTypeOK(Seen)'
BY FaultType DEF SaltTypeOK, See, States

LEMMA ReturnType ==
  ASSUME NEW Seen, SaltTypeOK(Seen), NEW m \in Minions, NEW ok \in BOOLEAN,
         NEW kind, Applies(m, kind), Return(m, ok), Fault \/ NoFault
  PROVE  SaltTypeOK(Seen)'
<1>1. at[m] \in DOMAIN States /\ Len(States) \in Nat
  BY StagesAssumption DEF SaltTypeOK, Applies, States
<1>2. /\ at' = [at EXCEPT ![m] = @ + 1] /\ stage' = stage /\ tries' = tries /\ phase' = phase
      /\ seen' = [seen EXCEPT ![m] = Unseen]
  BY DEF Return
<1>3. States' = States
  BY <1>2 DEF States
<1>4. at' \in [Minions -> 1 .. Len(States) + 1]
  BY <1>1, <1>2 DEF SaltTypeOK, Applies
<1>5. failed' \in [Minions -> SUBSET {States[i] : i \in DOMAIN States}]
  <2>1. Current(m) \in {States[i] : i \in DOMAIN States}
    BY <1>1 DEF Current
  <2>2. CASE ok
    BY <2>2 DEF Return, SaltTypeOK
  <2>3. CASE ~ok
    BY <2>1, <2>3 DEF Return, SaltTypeOK
  <2> QED
    BY <2>2, <2>3
<1> QED
  BY <1>2, <1>3, <1>4, <1>5, FaultType DEF SaltTypeOK

LEMMA SameType ==
  ASSUME NEW Seen, SaltTypeOK(Seen), Fault \/ NoFault,
         UNCHANGED <<stage, at, seen, failed, tries, phase>>
  PROVE  SaltTypeOK(Seen)'
BY FaultType DEF SaltTypeOK, States

LEMMA StageType ==
  ASSUME NEW Seen, SaltTypeOK(Seen), EndStage
  PROVE  SaltTypeOK(Seen)'
<1> USE StagesAssumption DEF SaltTypeOK, EndStage, NoFault, MayRetry
<1>1. ASSUME NEW k \in 1 .. Len(Stages), Go(k), phase' = phase, tries' \in 1 .. MaxTries,
             faults' = faults
      PROVE  SaltTypeOK(Seen)'
  <2>1. Len(Stages[k].states) \in Nat
    OBVIOUS
  <2>2. at' \in [Minions -> 1 .. Len(Stages[k].states) + 1]
    BY <1>1, <2>1 DEF Go, Start
  <2>3. States' = Stages[k].states
    BY <1>1 DEF Go, States
  <2> QED
    BY <1>1, <2>2, <2>3 DEF Go, Fresh, NoneFailed
<1>2. ASSUME UNCHANGED <<stage, at, seen, failed, tries>>, phase' \in {"done", "failed"}
      PROVE  SaltTypeOK(Seen)'
  BY <1>2 DEF States
<1>3. CASE AllWell /\ stage < Len(Stages) /\ Go(stage + 1) /\ UNCHANGED <<tries, phase>>
  BY <1>1, <1>3
<1>4. CASE AllWell /\ stage = Len(Stages) /\ phase' = "done"
             /\ UNCHANGED <<stage, at, seen, failed, tries>>
  BY <1>2, <1>4
<1>5. CASE ~AllWell /\ MayRetry /\ tries' = tries + 1 /\ Go(1) /\ UNCHANGED phase
  BY <1>1, <1>5
<1>6. CASE ~AllWell /\ ~MayRetry /\ phase' = "failed"
             /\ UNCHANGED <<stage, at, seen, failed, tries>>
  BY <1>2, <1>6
<1> QED
  BY <1>3, <1>4, <1>5, <1>6

LEMMA CurrentKind ==
  ASSUME NEW Seen, SaltTypeOK(Seen), NEW m \in Minions, NEW kind, Applies(m, kind)
  PROVE  /\ Current(m) \in AllStates /\ Current(m).kind = kind
         /\ at[m] \in DOMAIN States
BY StagesAssumption DEF SaltTypeOK, Applies, States, Current, AllStates

SeenValues == BarbicanSeen \union GnocchiSeen

-------------------------------------------------------------------------------
(* Types.                                                                   *)

LEMMA ReportType ==
  ASSUME SaltTypeOK(SeenValues), BarbicanTypeOK, NEW m \in Minions, NEW kind,
         Applies(m, kind), NEW ok \in BOOLEAN, NEW h \in BOOLEAN, Report(m, ok, h),
         Fault \/ NoFault
  PROVE  /\ SaltTypeOK(SeenValues)'
         /\ missing' \in [Minions -> SUBSET Users]
         /\ tried' \in [Minions -> 0 .. Retries - 1]
         /\ hidden' \in BOOLEAN /\ partial' \in BOOLEAN
<1>1. SaltTypeOK(SeenValues)'
  BY ReturnType DEF Report
<1> QED
  BY <1>1, BarbicanAssumption DEF Report, BarbicanTypeOK

LEMMA GoOnType ==
  ASSUME SaltTypeOK(SeenValues), BarbicanTypeOK, NEW m \in Minions,
         NEW v \in BarbicanSeen, GoOn(m, v), Fault \/ NoFault
  PROVE  /\ SaltTypeOK(SeenValues)'
         /\ UNCHANGED <<missing, tried, hidden, partial>>
BY SeeType DEF GoOn, SeenValues

LEMMA NextTryType ==
  ASSUME SaltTypeOK(SeenValues), BarbicanTypeOK, NEW m \in Minions, NEW kind,
         Applies(m, kind), NextTry(m), Fault
  PROVE  /\ SaltTypeOK(SeenValues)'
         /\ missing' \in [Minions -> SUBSET Users]
         /\ tried' \in [Minions -> 0 .. Retries - 1]
         /\ hidden' \in BOOLEAN /\ partial' \in BOOLEAN
<1>1. CASE tried[m] + 1 < Retries
           /\ tried' = [tried EXCEPT ![m] = @ + 1]
           /\ UNCHANGED <<stage, at, seen, failed, tries, phase, missing, hidden, partial>>
  <2>1. SaltTypeOK(SeenValues)'
    BY <1>1, SameType
  <2> QED
    BY <1>1, <2>1, BarbicanAssumption DEF BarbicanTypeOK
<1>2. CASE Report(m, TRUE, TRUE)
  BY <1>2, ReportType
<1> QED
  BY <1>1, <1>2 DEF NextTry

\* A call that may be tried again: it has been tried, or the secret was found.
Retried(m) ==
  \/ seen[m] = "create" /\ Current(m).kind = "secret"
  \/ seen[m] = "put" /\ Current(m).kind = "acl" /\ (tried[m] > 0 \/ copies[Name(m)] = 1)

\* What an action of BarbicanClient leaves behind, but for its secrets.
BarbicanMoves(m) ==
  \/ \E ok, h \in BOOLEAN : Report(m, ok, h) /\ (Fault \/ NoFault)
  \/ /\ seen[m] \notin {"create", "put"}
     /\ \E v \in BarbicanSeen \ {"put"} : GoOn(m, v) /\ (Fault \/ NoFault)
  \/ /\ seen[m] \notin {"create", "put"}
     /\ \E users \in SUBSET Users : WillPut(m, users) /\ (Fault \/ NoFault)
  \/ Retried(m) /\ NextTry(m) /\ Fault

LEMMA MovesType ==
  ASSUME SaltTypeOK(SeenValues), BarbicanTypeOK, NEW m \in Minions, NEW kind,
         Applies(m, kind), BarbicanMoves(m)
  PROVE  /\ SaltTypeOK(SeenValues)'
         /\ missing' \in [Minions -> SUBSET Users]
         /\ tried' \in [Minions -> 0 .. Retries - 1]
         /\ hidden' \in BOOLEAN /\ partial' \in BOOLEAN
<1>1. ASSUME NEW users \in SUBSET Users, WillPut(m, users), Fault \/ NoFault
      PROVE  /\ SaltTypeOK(SeenValues)'
             /\ missing' \in [Minions -> SUBSET Users]
             /\ UNCHANGED <<tried, hidden>> /\ partial' \in BOOLEAN
  <2>1. SaltTypeOK(SeenValues)'
    BY <1>1, SeeType DEF WillPut, SeenValues, BarbicanSeen
  <2> QED
    BY <1>1, <2>1 DEF WillPut, BarbicanTypeOK
<1> QED
  BY <1>1, ReportType, GoOnType, NextTryType DEF BarbicanMoves, BarbicanTypeOK

\* Every action of a kind of state is a move, and changes the secrets in its way.
LEMMA BarbicanEffect ==
  ASSUME TypeOK, NEW m \in Minions, BarbicanStep(m)
  PROVE  /\ BarbicanMoves(m)
         /\ \E kind \in Barbican : Applies(m, kind)
         /\ \/ SameSecrets
            \/ /\ CreateSecret(m) /\ UNCHANGED <<acl, signed>>
               /\ copies' = [copies EXCEPT ![Name(m)] = @ + 1]
            \/ /\ PutAcl(m) /\ UNCHANGED <<copies, signed>>
               /\ acl' = [acl EXCEPT ![Name(m)] = missing[m]]
            \/ /\ SignImage(m) /\ UNCHANGED <<copies, acl>>
               /\ signed' = signed \union {Name(m)}
<1> USE DEF BarbicanSeen, Barbican
<1>0. Unseen \notin {"create", "put"}
  BY DEF Unseen
<1>1. ASSUME NEW n, LookUp(m, n)
      PROVE  Fault \/ NoFault
  BY <1>1 DEF LookUp
<1>2. ASSUME NEW E, NEW N, Send(m, E, N), Retried(m)
      PROVE  BarbicanMoves(m) /\ (E \/ N)
  BY <1>2 DEF Send, BarbicanMoves
<1>3. CASE SeekSecret(m)
  BY <1>0, <1>1, <1>3 DEF SeekSecret, BarbicanMoves, Begins
<1>4. CASE CreateSecret(m)
  <2>1. Retried(m)
    BY <1>4 DEF CreateSecret, Retried, Continues, Applies
  <2> QED
    BY <1>2, <1>4, <2>1 DEF CreateSecret, SameSecrets, Continues
<1>5. CASE GetPayload(m)
  BY <1>1, <1>5 DEF GetPayload, BarbicanMoves, Continues
<1>6. CASE SetPayload(m)
  <2>1. PICK n \in Answers : LookUp(m, n) /\ Report(m, n = "one", FALSE)
    BY <1>6 DEF SetPayload
  <2> QED
    BY <1>1, <1>6, <2>1 DEF SetPayload, BarbicanMoves, Continues
<1>7. CASE SeekForAcl(m)
  BY <1>0, <1>1, <1>7 DEF SeekForAcl, BarbicanMoves, Begins
<1>8. CASE GetAcl(m)
  <2>1. Users \ acl[Name(m)] \in SUBSET Users /\ Users \in SUBSET Users
    OBVIOUS
  <2> QED
    BY <1>1, <1>8, <2>1 DEF GetAcl, BarbicanMoves, Continues
<1>9. CASE PutAcl(m)
  <2>1. (tried[m] > 0 \/ copies[Name(m)] = 1) => Retried(m)
    BY <1>9 DEF PutAcl, Retried, Continues, Applies
  <2> QED
    BY <1>1, <1>2, <1>9, <2>1 DEF PutAcl, BarbicanMoves, SameSecrets, Continues
<1>10. CASE ReadImage(m)
  BY <1>0, <1>10 DEF ReadImage, BarbicanMoves, Begins
<1>11. CASE SignImage(m)
  BY <1>1, <1>11 DEF SignImage, BarbicanMoves, SameSecrets, Continues
<1> QED
  BY <1>3, <1>4, <1>5, <1>6, <1>7, <1>8, <1>9, <1>10, <1>11 DEF BarbicanStep

LEMMA GnocchiEffect ==
  ASSUME TypeOK, NEW m \in Minions, GnocchiStep(m)
  PROVE  /\ \E kind \in Gnocchi : Applies(m, kind)
         /\ \/ \E ok \in BOOLEAN : Return(m, ok)
            \/ \E v \in GnocchiSeen : See(m, v)
         /\ Fault \/ NoFault
         /\ \/ UNCHANGED gnocchiVars
            \/ CreatePolicy(m) /\ policies' = policies \union {Resource(m)} /\ rules' = rules
            \/ /\ DeleteRule(m) /\ policies' = policies
               /\ rules' = [rules EXCEPT ![Resource(m)] = "none"]
            \/ /\ CreateRule(m) /\ policies' = policies
               /\ rules' = [rules EXCEPT ![Resource(m)] = "pillar"]
<1> USE DEF GnocchiSeen, Gnocchi, gnocchiVars
<1>1. CASE ReadPolicy(m)
  BY <1>1 DEF ReadPolicy, Begins
<1>2. CASE CreatePolicy(m)
  BY <1>2 DEF CreatePolicy, Call, Continues
<1>3. CASE RuleBlocked(m)
  BY <1>3 DEF RuleBlocked, Begins
<1>4. CASE ReadRule(m)
  BY <1>4 DEF ReadRule, Begins
<1>5. CASE DeleteRule(m)
  BY <1>5 DEF DeleteRule, Call, Continues, SetRule
<1>6. CASE CreateRule(m)
  BY <1>6 DEF CreateRule, Call, Continues, SetRule
<1> QED
  BY <1>1, <1>2, <1>3, <1>4, <1>5, <1>6 DEF GnocchiStep

LEMMA TypeStep ==
  ASSUME TypeOK, [Next]_vars
  PROVE  TypeOK'
<1> USE DEF SeenValues
<1>1. ASSUME NEW m \in Minions, BarbicanStep(m), UNCHANGED gnocchiVars
      PROVE  TypeOK'
  <2>1. PICK kind \in Barbican : Applies(m, kind)
    BY <1>1, BarbicanEffect
  <2>2. Name(m) \in Secrets
    BY <2>1, CurrentKind, NamesAssumption DEF TypeOK, Name
  <2>3. /\ SaltTypeOK(SeenValues)'
        /\ missing' \in [Minions -> SUBSET Users]
        /\ tried' \in [Minions -> 0 .. Retries - 1]
        /\ hidden' \in BOOLEAN /\ partial' \in BOOLEAN
    BY <1>1, <2>1, BarbicanEffect, MovesType DEF TypeOK
  <2>4. /\ copies' \in [Secrets -> Nat] /\ acl' \in [Secrets -> SUBSET Users]
        /\ signed' \subseteq Secrets
    BY <1>1, <2>2, BarbicanEffect DEF TypeOK, BarbicanTypeOK, SameSecrets
  <2> QED
    BY <1>1, <2>3, <2>4 DEF TypeOK, BarbicanTypeOK, GnocchiTypeOK, gnocchiVars
<1>2. ASSUME NEW m \in Minions, GnocchiStep(m), UNCHANGED barbicanVars
      PROVE  TypeOK'
  <2>1. PICK kind \in Gnocchi : Applies(m, kind)
    BY <1>2, GnocchiEffect
  <2>2. Current(m) \in AllStates /\ Current(m).kind = kind
    BY <2>1, CurrentKind DEF TypeOK
  <2>3. SaltTypeOK(SeenValues)'
    BY <1>2, <2>1, GnocchiEffect, SeeType, ReturnType DEF TypeOK
  <2>4. policies' \subseteq Policies
    <3>1. CreatePolicy(m) => Resource(m) \in Policies
      BY <2>1, <2>2, NamesAssumption DEF CreatePolicy, Continues, Applies, Resource
    <3> QED
      BY <1>2, <3>1, GnocchiEffect DEF TypeOK, GnocchiTypeOK, gnocchiVars
  <2>5. rules' \in [Rules -> {"none", "pillar", "other"}]
    BY <1>2, GnocchiEffect DEF TypeOK, GnocchiTypeOK, gnocchiVars
  <2> QED
    BY <1>2, <2>3, <2>4, <2>5 DEF TypeOK, BarbicanTypeOK, GnocchiTypeOK, barbicanVars
<1>3. CASE Stage
  BY <1>3, StageType
     DEF Stage, TypeOK, BarbicanTypeOK, GnocchiTypeOK, barbicanVars, gnocchiVars
<1>4. CASE UNCHANGED vars
  BY <1>4 DEF vars, saltVars, barbicanVars, gnocchiVars, TypeOK, BarbicanTypeOK, GnocchiTypeOK,
              SaltTypeOK, States
<1> QED
  BY <1>1, <1>2, <1>3, <1>4 DEF Next, OnMinion

-------------------------------------------------------------------------------
(* What is in place after a state that has succeeded.                       *)

GnocchiInPlace(s) ==
  /\ s.kind = "policy" => s.name \in policies
  /\ s.kind = "rule" => rules[s.name] = "pillar"

BarbicanInPlace(s) ==
  /\ s.kind = "secret" => copies[s.name] > 0
  /\ s.kind = "acl" => copies[s.name] > 0 /\ (partial \/ acl[s.name] = Users)
  /\ s.kind = "signature" => s.name \in signed

InPlace(s) == GnocchiInPlace(s) /\ (hidden \/ BarbicanInPlace(s))

Placed == {s \in AllStates : InPlace(s)}

PassedInv ==
  /\ \A k \in 1 .. stage - 1 : \A i \in DOMAIN Stages[k].states : Stages[k].states[i] \in Placed
  /\ \A m \in Stages[stage].minions :
       failed[m] = {} => \A i \in 1 .. at[m] - 1 : States[i] \in Placed
  /\ phase = "done" => stage = Len(Stages) /\ AllStates \subseteq Placed

\* No minion of the last stage has anything to change, and what one deletes is not
\* that of the pillar.
RuleInv ==
  \A m \in Minions : \A kind \in Gnocchi : Continues(m, kind) =>
    /\ stage < Len(Stages)
    /\ seen[m] = "different" => rules[Resource(m)] # "pillar"

\* As long as no ACL was found with some of the users, all of them are put.
PutInv ==
  \A m \in Minions : seen[m] = "put" => partial \/ missing[m] = Users

\* Whoever has seen something is at a state of this stage; only the POST of a
\* secret and the PUT of an ACL are tried again, the PUT of one that was found.
TriedInv ==
  \A m \in Minions :
    /\ seen[m] # Unseen => m \in Stages[stage].minions /\ at[m] <= Len(States)
    /\ tried[m] > 0 => Retried(m) /\ (seen[m] = "put" => copies[Name(m)] > 0)

\* Whoever makes the second secret of a name has not looked for its ACL yet.
Before(m, j) ==
  \/ failed[m] # {}
  \/ at[m] < j
  \/ at[m] = j /\ ~(seen[m] = "put" /\ tried[m] > 0)

OnceInv ==
  \A l \in DOMAIN Stages : \A j \in DOMAIN Stages[l].states :
    LET s == Stages[l].states[j] IN
      s.kind = "acl" /\ copies[s.name] > 1 =>
        \/ stage < l
        \/ stage = l /\ phase # "done" /\ \E m \in Stages[l].minions : Before(m, j)

Inv == TypeOK /\ PassedInv /\ RuleInv /\ PutInv /\ TriedInv /\ OnceInv

\* What is there stays there, unless an ACL was found with some of its users.
LEMMA StableStep ==
  ASSUME Inv, [Next]_vars
  PROVE  /\ policies \subseteq policies' /\ signed \subseteq signed'
         /\ \A r \in Rules : rules[r] = "pillar" => rules'[r] = "pillar"
         /\ \A s \in Secrets : /\ copies'[s] >= copies[s]
                               /\ acl[s] = Users => acl'[s] = Users \/ partial'
         /\ hidden => hidden'
         /\ partial => partial'
<1> USE DEF Inv, TypeOK, BarbicanTypeOK, GnocchiTypeOK
<1>1. ASSUME NEW m \in Minions, BarbicanStep(m), UNCHANGED gnocchiVars
      PROVE  /\ signed \subseteq signed'
             /\ \A s \in Secrets : /\ copies'[s] >= copies[s]
                                   /\ acl[s] = Users => acl'[s] = Users \/ partial'
             /\ hidden => hidden'
             /\ partial => partial'
  <2>1. (hidden => hidden') /\ (partial => partial')
    BY <1>1, BarbicanEffect DEF BarbicanMoves, Report, GoOn, WillPut, NextTry
  <2>2. PutAcl(m) => seen[m] = "put"
    BY DEF PutAcl
  <2> QED
    BY <1>1, <2>1, <2>2, BarbicanEffect DEF SameSecrets, PutInv
<1>2. ASSUME NEW m \in Minions, GnocchiStep(m), UNCHANGED barbicanVars
      PROVE  /\ policies \subseteq policies'
             /\ \A r \in Rules : rules[r] = "pillar" => rules'[r] = "pillar"
  <2>1. DeleteRule(m) => rules[Resource(m)] # "pillar"
    BY DEF DeleteRule, RuleInv, Gnocchi
  <2> QED
    BY <1>2, <2>1, GnocchiEffect DEF gnocchiVars
<1> QED
  BY <1>1, <1>2 DEF Next, OnMinion, Stage, vars, barbicanVars, gnocchiVars

LEMMA InPlaceStep ==
  ASSUME Inv, [Next]_vars, NEW s \in AllStates, InPlace(s)
  PROVE  InPlace(s)'
<1>1. s.kind \in Barbican => s.name \in Secrets /\ copies[s.name] \in Nat /\ copies'[s.name] \in Nat
  BY NamesAssumption, TypeStep DEF Inv, TypeOK, BarbicanTypeOK
<1>2. s.kind = "rule" => s.name \in Rules
  BY NamesAssumption
<1> QED
  BY <1>1, <1>2, StableStep DEF InPlace, GnocchiInPlace, BarbicanInPlace, Barbican

-------------------------------------------------------------------------------
(* The steps of a minion.                                                   *)

\* A state that has succeeded has its resource in place, or has hidden a failure.
LEMMA BarbicanReturn ==
  ASSUME Inv, NEW m \in Minions, BarbicanStep(m), UNCHANGED gnocchiVars,
         NEW s \in AllStates, s = Current(m)
  PROVE  \/ UNCHANGED <<at, failed>> /\ seen'[m] # "different"
         \/ \E ok \in BOOLEAN : Return(m, ok) /\ (ok => InPlace(s)')
<1> USE DEF Inv, TypeOK
<1>1. PICK kind \in Barbican : Applies(m, kind)
  BY BarbicanEffect
<1>2. s.kind = kind /\ Name(m) = s.name /\ s.name \in Secrets /\ GnocchiInPlace(s)'
  BY <1>1, CurrentKind, NamesAssumption DEF Name, Barbican, GnocchiInPlace
<1>3. copies[s.name] \in Nat /\ acl[s.name] \subseteq Users
  BY <1>2 DEF BarbicanTypeOK
<1>4. ASSUME NEW ok \in BOOLEAN, NEW h \in BOOLEAN, Report(m, ok, h),
             ok => h \/ BarbicanInPlace(s)'
      PROVE  \E o \in BOOLEAN : Return(m, o) /\ (o => InPlace(s)')
  BY <1>2, <1>4 DEF Report, InPlace
<1>5. ASSUME NEW v \in BarbicanSeen, GoOn(m, v)
      PROVE  UNCHANGED <<at, failed>> /\ seen'[m] # "different"
  BY <1>5 DEF GoOn, See, BarbicanSeen, SaltTypeOK
<1>6. ASSUME NextTry(m), seen[m] # "different"
      PROVE  \/ UNCHANGED <<at, failed>> /\ seen'[m] # "different"
             \/ \E ok \in BOOLEAN : Return(m, ok) /\ (ok => InPlace(s)')
  BY <1>4, <1>6 DEF NextTry
<1>7. CASE SeekSecret(m)
  <2>1. s.kind = "secret"
    BY <1>7, <1>2, CurrentKind DEF SeekSecret, Begins
  <2>2. Found(s.name) = "one" /\ copies' = copies => BarbicanInPlace(s)'
    BY <1>2, <1>3, <2>1 DEF Found, BarbicanInPlace
  <2> QED
    BY <1>2, <1>4, <1>5, <1>7, <2>2
       DEF SeekSecret, LookUp, Answers, SameSecrets, BarbicanSeen
<1>8. CASE CreateSecret(m)
  <2>1. s.kind = "secret" /\ seen[m] # "different"
    BY <1>8, <1>2, CurrentKind DEF CreateSecret, Continues
  <2>2. copies' = [copies EXCEPT ![Name(m)] = @ + 1] => BarbicanInPlace(s)'
    BY <1>2, <1>3, <2>1 DEF BarbicanTypeOK, BarbicanInPlace
  <2> QED
    BY <1>4, <1>6, <1>8, <2>1, <2>2 DEF CreateSecret, Send
<1>9. CASE GetPayload(m) \/ SetPayload(m)
  <2>1. s.kind = "secret"
    BY <1>9, <1>2, CurrentKind DEF GetPayload, SetPayload, Continues
  <2>2. LookUp(m, "one") /\ copies' = copies => BarbicanInPlace(s)'
    BY <1>2, <1>3, <2>1 DEF LookUp, Found, BarbicanInPlace
  <2>3. CASE GetPayload(m)
    BY <1>4, <1>5, <2>2, <2>3 DEF GetPayload, SameSecrets, BarbicanSeen
  <2>4. CASE SetPayload(m)
    <3>1. PICK n \in Answers : LookUp(m, n) /\ Report(m, n = "one", FALSE)
      BY <2>4 DEF SetPayload
    <3> QED
      BY <1>4, <2>2, <2>4, <3>1 DEF SetPayload, SameSecrets
  <2> QED
    BY <1>9, <2>3, <2>4
<1>10. CASE SeekForAcl(m)
  BY <1>4, <1>5, <1>10 DEF SeekForAcl, BarbicanSeen
<1>11. CASE GetAcl(m)
  <2>1. s.kind = "acl"
    BY <1>11, <1>2, CurrentKind DEF GetAcl, Continues
  <2>2. LookUp(m, "one") /\ Users \ acl[Name(m)] = {} /\ SameSecrets => BarbicanInPlace(s)'
    BY <1>2, <1>3, <2>1 DEF LookUp, Found, BarbicanInPlace, SameSecrets
  <2>3. ASSUME NEW users, WillPut(m, users)
        PROVE  UNCHANGED <<at, failed>> /\ seen'[m] # "different"
    BY <2>3 DEF WillPut, See, SaltTypeOK
  <2> QED
    BY <1>4, <1>11, <2>2, <2>3 DEF GetAcl
<1>12. CASE PutAcl(m)
  <2>1. s.kind = "acl" /\ seen[m] = "put"
    BY <1>12, <1>2, CurrentKind DEF PutAcl, Continues
  <2>2. tried[m] > 0 \/ copies[s.name] = 1 => copies[s.name] > 0
    BY <1>2, <2>1 DEF TriedInv
  <2>3. ASSUME tried[m] > 0 \/ copies[s.name] = 1, copies' = copies,
               acl' = [acl EXCEPT ![Name(m)] = missing[m]], partial' = partial
        PROVE  BarbicanInPlace(s)'
    BY <1>2, <1>3, <2>1, <2>2, <2>3 DEF PutInv, BarbicanInPlace, BarbicanTypeOK
  <2>4. CASE /\ tried[m] > 0 \/ copies[Name(m)] = 1
             /\ Send(m, acl' = [acl EXCEPT ![Name(m)] = missing[m]], UNCHANGED acl)
    <3>1. copies' = copies
      BY <1>12 DEF PutAcl
    <3>2. Report(m, TRUE, FALSE) => partial' = partial
      BY DEF Report
    <3> QED
      BY <1>2, <1>4, <1>6, <2>1, <2>3, <2>4, <3>1, <3>2 DEF Send
  <2>5. CASE \E n \in Answers \ {"one"} : LookUp(m, n) /\ Report(m, FALSE, FALSE)
    BY <1>4, <2>5
  <2> QED
    BY <1>12, <2>4, <2>5 DEF PutAcl
<1>13. CASE ReadImage(m)
  <2>1. s.kind = "signature"
    BY <1>13, <1>2, CurrentKind DEF ReadImage, Begins
  <2>2. Name(m) \in signed /\ SameSecrets => BarbicanInPlace(s)'
    BY <1>2, <2>1 DEF BarbicanInPlace, SameSecrets
  <2> QED
    BY <1>4, <1>5, <1>13, <2>2 DEF ReadImage, BarbicanSeen
<1>14. CASE SignImage(m)
  <2>1. s.kind = "signature"
    BY <1>14, <1>2, CurrentKind DEF SignImage, Continues
  <2>2. signed' = signed \union {Name(m)} => BarbicanInPlace(s)'
    BY <1>2, <2>1 DEF BarbicanInPlace
  <2> QED
    BY <1>4, <1>14, <2>2 DEF SignImage
<1> QED
  BY <1>7, <1>8, <1>9, <1>10, <1>11, <1>12, <1>13, <1>14 DEF BarbicanStep

LEMMA GnocchiReturn ==
  ASSUME Inv, NEW m \in Minions, GnocchiStep(m), UNCHANGED barbicanVars,
         NEW s \in AllStates, s = Current(m)
  PROVE  \/ /\ UNCHANGED <<at, failed>> /\ ~InPlace(s)
            /\ seen'[m] = "different" => rules[s.name] # "pillar" /\ rules' = rules
         \/ \E ok \in BOOLEAN : Return(m, ok) /\ (ok => InPlace(s)')
<1> USE DEF Inv, TypeOK
<1>1. PICK kind \in Gnocchi : Applies(m, kind)
  BY GnocchiEffect
<1>2. s.kind = kind /\ Resource(m) = s.name /\ BarbicanInPlace(s)'
  BY <1>1, CurrentKind DEF Resource, Gnocchi, BarbicanInPlace
<1>3. s.kind = "rule" => s.name \in Rules
  BY NamesAssumption
<1>4. ASSUME NEW ok \in BOOLEAN, Return(m, ok), ok => GnocchiInPlace(s)'
      PROVE  \E o \in BOOLEAN : Return(m, o) /\ (o => InPlace(s)')
  BY <1>2, <1>4 DEF InPlace
<1>5. ASSUME NEW v, See(m, v)
      PROVE  UNCHANGED <<at, failed>> /\ seen'[m] = v
  BY <1>5 DEF See, SaltTypeOK
<1>6. CASE ReadPolicy(m)
  <2>1. s.kind = "policy"
    BY <1>6, <1>2, CurrentKind DEF ReadPolicy, Begins
  <2>2. GnocchiInPlace(s) <=> Resource(m) \in policies
    BY <1>2, <2>1 DEF GnocchiInPlace
  <2>3. UNCHANGED gnocchiVars => (GnocchiInPlace(s)' <=> Resource(m) \in policies)
    BY <1>2, <2>1 DEF GnocchiInPlace, gnocchiVars
  <2>4. CASE NoFault /\ Resource(m) \in policies /\ Return(m, TRUE)
    BY <1>4, <1>6, <2>3, <2>4 DEF ReadPolicy
  <2>5. CASE NoFault /\ Resource(m) \notin policies /\ See(m, "missing")
    BY <1>5, <2>2, <2>5 DEF InPlace
  <2>6. CASE Fault /\ Return(m, FALSE)
    BY <1>4, <2>6
  <2> QED
    BY <1>6, <2>4, <2>5, <2>6 DEF ReadPolicy
<1>7. CASE CreatePolicy(m)
  <2>1. s.kind = "policy"
    BY <1>7, <1>2, CurrentKind DEF CreatePolicy, Continues
  <2>2. policies' = policies \union {Resource(m)} => GnocchiInPlace(s)'
    BY <1>2, <2>1 DEF GnocchiInPlace
  <2> QED
    BY <1>4, <1>7, <2>2 DEF CreatePolicy, Call
<1>8. CASE RuleBlocked(m)
  BY <1>8 DEF RuleBlocked
<1>9. CASE ReadRule(m)
  <2>1. s.kind = "rule"
    BY <1>9, <1>2, CurrentKind DEF ReadRule, Begins
  <2>2. GnocchiInPlace(s) <=> rules[Resource(m)] = "pillar"
    BY <1>2, <2>1 DEF GnocchiInPlace
  <2>3. UNCHANGED gnocchiVars => (GnocchiInPlace(s)' <=> rules[Resource(m)] = "pillar")
    BY <1>2, <2>1 DEF GnocchiInPlace, gnocchiVars
  <2>4. CASE NoFault /\ rules[Resource(m)] = "pillar" /\ Return(m, TRUE)
    BY <1>4, <1>9, <2>3, <2>4 DEF ReadRule
  <2>5. ASSUME rules[Resource(m)] # "pillar", NEW v, See(m, v)
        PROVE  /\ UNCHANGED <<at, failed>> /\ ~InPlace(s)
               /\ rules[s.name] # "pillar" /\ rules' = rules
    BY <1>2, <1>5, <1>9, <2>2, <2>5 DEF ReadRule, InPlace, gnocchiVars
  <2>6. CASE Fault /\ Return(m, FALSE)
    BY <1>4, <2>6
  <2> QED
    BY <1>9, <2>4, <2>5, <2>6 DEF ReadRule
<1>10. CASE DeleteRule(m)
  <2>1. s.kind = "rule"
    BY <1>10, <1>2, CurrentKind DEF DeleteRule, Continues
  <2>2. rules[s.name] # "pillar"
    BY <1>1, <1>2, <1>10, <2>1 DEF DeleteRule, RuleInv, Gnocchi
  <2>3. ASSUME NEW v, See(m, v), v # "different"
        PROVE  UNCHANGED <<at, failed>> /\ ~InPlace(s) /\ seen'[m] # "different"
    BY <1>5, <2>1, <2>2, <2>3 DEF GnocchiInPlace, InPlace
  <2> QED
    BY <1>4, <1>10, <2>3 DEF DeleteRule, Call
<1>11. CASE CreateRule(m)
  <2>1. s.kind = "rule"
    BY <1>11, <1>2, CurrentKind DEF CreateRule, Continues
  <2>2. SetRule(Resource(m), "pillar") => GnocchiInPlace(s)'
    BY <1>2, <1>3, <2>1 DEF SetRule, GnocchiInPlace, GnocchiTypeOK
  <2> QED
    BY <1>4, <1>11, <2>2 DEF CreateRule, Call
<1> QED
  BY <1>6, <1>7, <1>8, <1>9, <1>10, <1>11 DEF GnocchiStep

\* What both have in common.
LEMMA MinionStep ==
  ASSUME Inv, NEW m \in Minions, OnMinion(m)
  PROVE  /\ UNCHANGED <<stage, tries, phase>> /\ phase = "running"
         /\ m \in Stages[stage].minions /\ at[m] \in DOMAIN States
         /\ \/ UNCHANGED <<at, failed>>
            \/ \E ok \in BOOLEAN :
                 Return(m, ok) /\ (ok => \A s \in AllStates : s = Current(m) => InPlace(s)')
         /\ \A n \in Minions \ {m} : seen'[n] = seen[n] /\ tried'[n] = tried[n]
                                     /\ missing'[n] = missing[n]
<1> USE DEF Inv, TypeOK
<1>1. CASE BarbicanStep(m) /\ UNCHANGED gnocchiVars
  <2>1. PICK kind \in Barbican : Applies(m, kind)
    BY <1>1, BarbicanEffect
  <2>2. PICK s \in AllStates : s = Current(m)
    BY <2>1, CurrentKind
  <2>3. BarbicanMoves(m)
    BY <1>1, BarbicanEffect
  <2>4. UNCHANGED <<stage, tries, phase>>
    BY <2>3 DEF BarbicanMoves, Report, GoOn, WillPut, NextTry, Return, See
  <2>5. \A n \in Minions \ {m} : seen'[n] = seen[n] /\ tried'[n] = tried[n]
                                 /\ missing'[n] = missing[n]
    BY <2>3 DEF BarbicanMoves, Report, GoOn, WillPut, NextTry, Return, See, SaltTypeOK,
                BarbicanTypeOK
  <2>6. \/ UNCHANGED <<at, failed>>
        \/ \E ok \in BOOLEAN : Return(m, ok) /\ (ok => InPlace(s)')
    BY <1>1, <2>2, BarbicanReturn
  <2> QED
    BY <2>1, <2>2, <2>4, <2>5, <2>6, CurrentKind DEF Applies
<1>2. CASE GnocchiStep(m) /\ UNCHANGED barbicanVars
  <2>1. PICK kind \in Gnocchi : Applies(m, kind)
    BY <1>2, GnocchiEffect
  <2>2. PICK s \in AllStates : s = Current(m)
    BY <2>1, CurrentKind
  <2>3. \/ \E ok \in BOOLEAN : Return(m, ok)
        \/ \E v \in GnocchiSeen : See(m, v)
    BY <1>2, GnocchiEffect
  <2>4. /\ UNCHANGED <<stage, tries, phase>>
        /\ \A n \in Minions \ {m} : seen'[n] = seen[n]
    BY <2>3 DEF Return, See, SaltTypeOK
  <2>5. \/ UNCHANGED <<at, failed>>
        \/ \E ok \in BOOLEAN : Return(m, ok) /\ (ok => InPlace(s)')
    BY <1>2, <2>2, GnocchiReturn
  <2> QED
    BY <1>2, <2>1, <2>2, <2>4, <2>5, CurrentKind DEF Applies, barbicanVars
<1> QED
  BY <1>1, <1>2 DEF OnMinion

-------------------------------------------------------------------------------
(* The invariant.                                                           *)

\* All states of a stage that is over on all minions, and has worked, are in place.
LEMMA StageOver ==
  ASSUME Inv, AllOver, AllWell
  PROVE  /\ \A i \in DOMAIN States : States[i] \in Placed
         /\ stage < Len(Stages) \/ AllStates \subseteq Placed
<1> USE StagesAssumption DEF Inv, TypeOK, SaltTypeOK
<1>1. PICK m \in Stages[stage].minions : m \in Minions
  BY OrderAssumption
<1>2. failed[m] = {} /\ at[m] > Len(States)
  BY <1>1 DEF AllOver, AllWell
<1>3. /\ DOMAIN States = 1 .. Len(States) /\ Len(States) \in Nat
      /\ at[m] \in 1 .. Len(States) + 1
  BY <1>1 DEF States
<1>4. \A i \in 1 .. at[m] - 1 : States[i] \in Placed
  BY <1>1, <1>2 DEF PassedInv
<1>5. \A i \in DOMAIN States : States[i] \in Placed
  BY <1>2, <1>3, <1>4
<1>6. ASSUME ~(stage < Len(Stages)), NEW s \in AllStates
      PROVE  s \in Placed
  <2>1. PICK k \in DOMAIN Stages : \E i \in DOMAIN Stages[k].states : s = Stages[k].states[i]
    BY DEF AllStates
  <2>2. k \in 1 .. stage - 1 \/ k = stage
    BY <1>6, <2>1
  <2>3. CASE k = stage
    BY <1>5, <2>1, <2>3 DEF States
  <2>4. CASE k \in 1 .. stage - 1
    BY <2>1, <2>4 DEF PassedInv
  <2> QED
    BY <2>2, <2>3, <2>4
<1> QED
  BY <1>5, <1>6

LEMMA PassedStep ==
  ASSUME Inv, [Next]_vars
  PROVE  PassedInv'
<1> USE StagesAssumption DEF Inv, TypeOK, SaltTypeOK
<1>1. Placed \subseteq Placed'
  BY InPlaceStep DEF Placed
<1>2. AllStates' = AllStates
  BY DEF AllStates
<1>3. \A i \in 1 .. Len(States) : States[i] \in AllStates
  BY DEF States, AllStates
<1>4. ASSUME UNCHANGED <<stage, at, failed>>, phase' = phase \/ phase' = "failed"
      PROVE  PassedInv'
  <2>1. States' = States
    BY <1>4 DEF States
  <2> QED
    BY <1>1, <1>2, <1>4, <2>1 DEF PassedInv
<1>5. ASSUME NEW m \in Minions, OnMinion(m)
      PROVE  PassedInv'
  <2>1. /\ UNCHANGED <<stage, phase>> /\ phase = "running"
        /\ m \in Stages[stage].minions /\ at[m] \in DOMAIN States
    BY <1>5, MinionStep
  <2>2. States' = States
    BY <2>1 DEF States
  <2>3. CASE UNCHANGED <<at, failed>>
    BY <1>4, <2>1, <2>3
  <2>4. ASSUME NEW ok \in BOOLEAN, Return(m, ok),
               ok => \A s \in AllStates : s = Current(m) => InPlace(s)',
               NEW n \in Stages[stage].minions, failed'[n] = {}, NEW i \in 1 .. at'[n] - 1
        PROVE  States[i] \in Placed'
    <3>1. CASE n = m
      <4>1. ok
        BY <2>1, <2>4, <3>1 DEF Return
      <4>2. failed[m] = {} /\ i \in 1 .. at[m]
        BY <2>1, <2>4, <3>1, <4>1 DEF Return
      <4>3. CASE i = at[m]
        <5>1. PICK s \in AllStates : s = Current(m)
          BY <1>3, <2>1 DEF Current, States
        <5> QED
          BY <1>2, <2>4, <4>1, <4>3, <5>1 DEF Current, Placed
      <4>4. CASE i # at[m]
        BY <1>1, <2>1, <2>4, <3>1, <4>2, <4>4 DEF PassedInv
      <4> QED
        BY <4>3, <4>4
    <3>2. CASE n # m
      <4>1. n \in Minions /\ failed'[n] = failed[n] /\ at'[n] = at[n]
        BY <2>1, <2>4, <3>2 DEF Return
      <4> QED
        BY <1>1, <2>1, <2>4, <4>1 DEF PassedInv
    <3> QED
      BY <3>1, <3>2
  <2>5. CASE \E ok \in BOOLEAN :
               Return(m, ok) /\ (ok => \A s \in AllStates : s = Current(m) => InPlace(s)')
    BY <1>1, <2>1, <2>2, <2>4, <2>5 DEF PassedInv
  <2> QED
    BY <1>5, <2>3, <2>5, MinionStep
<1>6. CASE Stage
  <2>1. phase = "running" /\ AllOver
    BY <1>6 DEF Stage, EndStage
  <2>2. ASSUME NEW k \in 1 .. Len(Stages), Go(k), phase' = "running",
               \A l \in 1 .. k - 1 : \A i \in DOMAIN Stages[l].states :
                 Stages[l].states[i] \in Placed
        PROVE  PassedInv'
    <3>1. \A m \in Stages[k].minions : at'[m] = 1
      BY <2>2 DEF Go, Start
    <3>2. stage' = k /\ k \in Nat
      BY <2>2 DEF Go
    <3>3. \A m \in Stages[k].minions : \A i \in 1 .. at'[m] - 1 : FALSE
      BY <3>1
    <3> QED
      BY <1>1, <2>2, <3>2, <3>3 DEF PassedInv
  <2>3. CASE AllWell /\ stage < Len(Stages) /\ Go(stage + 1) /\ UNCHANGED <<tries, phase>>
    <3>1. \A k \in 1 .. stage : \A i \in DOMAIN Stages[k].states : Stages[k].states[i] \in Placed
      BY <2>1, <2>3, StageOver DEF PassedInv, States
    <3>2. stage + 1 \in 1 .. Len(Stages) /\ 1 .. (stage + 1) - 1 = 1 .. stage
      BY <2>3
    <3>3. Go(stage + 1) /\ phase' = "running"
      BY <2>1, <2>3
    <3> QED
      BY <2>2, <3>1, <3>2, <3>3
  <2>4. CASE AllWell /\ stage = Len(Stages) /\ phase' = "done"
             /\ UNCHANGED <<stage, at, seen, failed, tries>>
    <3>1. AllStates \subseteq Placed'
      BY <1>1, <2>1, <2>4, StageOver
    <3>2. States' = States
      BY <2>4 DEF States
    <3> QED
      BY <1>1, <1>2, <2>4, <3>1, <3>2 DEF PassedInv
  <2>5. CASE ~AllWell /\ MayRetry /\ tries' = tries + 1 /\ Go(1) /\ UNCHANGED phase
    BY <2>1, <2>2, <2>5
  <2>6. CASE ~AllWell /\ ~MayRetry /\ phase' = "failed"
             /\ UNCHANGED <<stage, at, seen, failed, tries>>
    BY <1>4, <2>6
  <2> QED
    BY <1>6, <2>3, <2>4, <2>5, <2>6 DEF Stage, EndStage
<1>7. CASE UNCHANGED vars
  BY <1>4, <1>7 DEF vars, saltVars
<1> QED
  BY <1>5, <1>6, <1>7 DEF Next

\* What a step of n leaves as it is.
LEMMA OtherMinion ==
  ASSUME Inv, NEW n \in Minions, OnMinion(n), NEW m \in Minions \ {n}
  PROVE  /\ at'[m] = at[m] /\ failed'[m] = failed[m] /\ Current(m)' = Current(m)
         /\ Name(m)' = Name(m) /\ Resource(m)' = Resource(m)
         /\ \A kind : Continues(m, kind)' <=> Continues(m, kind)
<1> USE DEF Inv, TypeOK, SaltTypeOK
<1>1. UNCHANGED <<stage, phase>> /\ seen'[m] = seen[m]
  BY MinionStep
<1>2. at'[m] = at[m] /\ failed'[m] = failed[m]
  BY MinionStep DEF Return
<1>3. States' = States
  BY <1>1 DEF States
<1> QED
  BY <1>1, <1>2, <1>3 DEF Current, Name, Resource, Continues, Applies

LEMMA RuleStep ==
  ASSUME Inv, [Next]_vars
  PROVE  RuleInv'
<1>0. stage # Len(Stages) => stage < Len(Stages)
  <2>1. stage \in 1 .. Len(Stages) /\ Len(Stages) \in Nat
    BY StagesAssumption DEF Inv, TypeOK, SaltTypeOK
  <2> QED
    BY <2>1
<1> USE StagesAssumption DEF Inv, TypeOK
<1> SUFFICES ASSUME NEW m \in Minions, NEW kind \in Gnocchi, Continues(m, kind)'
             PROVE  /\ stage' < Len(Stages)
                    /\ seen'[m] = "different" => rules'[Resource(m)'] # "pillar"
  BY DEF RuleInv
<1>1. CASE Stage
  <2>1. phase' = "running" /\ seen'[m] # Unseen
    BY DEF Continues, Applies
  <2> QED
    BY <1>1, <2>1 DEF Stage, EndStage, Go, Fresh
<1>2. CASE UNCHANGED vars
  <2>1. Continues(m, kind) /\ Resource(m)' = Resource(m) /\ UNCHANGED <<stage, seen, rules>>
    BY <1>2 DEF vars, saltVars, gnocchiVars, Continues, Applies, Resource, Current, States
  <2> QED
    BY <2>1 DEF RuleInv
<1>3. ASSUME NEW n \in Minions, n # m, BarbicanStep(n), UNCHANGED gnocchiVars
      PROVE  /\ stage' < Len(Stages)
             /\ seen'[m] = "different" => rules'[Resource(m)'] # "pillar"
  <2>1. OnMinion(n)
    BY <1>3 DEF OnMinion
  <2>2. Continues(m, kind) /\ Resource(m)' = Resource(m) /\ stage' = stage /\ seen'[m] = seen[m]
    BY <1>3, <2>1, OtherMinion, MinionStep
  <2> QED
    BY <1>3, <2>2 DEF RuleInv, gnocchiVars
<1>4. ASSUME NEW n \in Minions, n # m, GnocchiStep(n), UNCHANGED barbicanVars
      PROVE  FALSE
  <2>1. OnMinion(n)
    BY <1>4 DEF OnMinion
  <2>2. Continues(m, kind)
    BY <1>4, <2>1, OtherMinion
  <2>3. m \in Stages[stage].minions /\ n \in Stages[stage].minions
    BY <2>1, <2>2, MinionStep DEF Continues, Applies
  <2>4. stage \in 1 .. Len(Stages) - 1
    BY <2>2 DEF RuleInv, SaltTypeOK
  <2>5. at[m] \in DOMAIN Stages[stage].states /\ Stages[stage].states[at[m]].kind \in Gnocchi
    BY <2>2, CurrentKind DEF Continues, Current, States
  <2> QED
    BY <1>4, <2>3, <2>4, <2>5, OrderAssumption
<1>5. CASE BarbicanStep(m) /\ UNCHANGED gnocchiVars
  <2>1. PICK barbican \in Barbican : Applies(m, barbican)
    BY <1>5, BarbicanEffect
  <2>2. stage' = stage
    BY <1>5, MinionStep DEF OnMinion
  <2>3. CASE UNCHANGED at
    <3>1. Current(m)' = Current(m)
      BY <2>2, <2>3 DEF Current, States
    <3> QED
      BY <2>1, <3>1 DEF Continues, Applies, Barbican, Gnocchi
  <2>4. CASE \E ok \in BOOLEAN : Return(m, ok)
    BY <2>4 DEF Return, Continues, SaltTypeOK
  <2> QED
    BY <1>5, <2>3, <2>4, MinionStep DEF OnMinion
<1>6. CASE GnocchiStep(m) /\ UNCHANGED barbicanVars
  <2>1. PICK k \in Gnocchi : Applies(m, k)
    BY <1>6, GnocchiEffect
  <2>2. PICK s \in AllStates : s = Current(m) /\ s.kind = k
    BY <2>1, CurrentKind
  <2>3. CASE \E ok \in BOOLEAN : Return(m, ok)
    BY <2>3 DEF Return, Continues, SaltTypeOK
  <2>4. CASE /\ UNCHANGED at /\ ~InPlace(s)
             /\ seen'[m] = "different" => rules[s.name] # "pillar" /\ rules' = rules
    <3>1. stage' = stage
      BY <1>6, MinionStep DEF OnMinion
    <3>2. Resource(m)' = s.name
      BY <2>2, <2>4, <3>1 DEF Resource, Current, States
    <3>3. stage # Len(Stages)
      <4> SUFFICES ASSUME stage = Len(Stages)
                   PROVE  FALSE
        OBVIOUS
      <4>1. at[m] \in DOMAIN Stages[stage].states /\ s = Stages[stage].states[at[m]]
        BY <2>1, <2>2, CurrentKind DEF Current, States
      <4>2. \E l \in 1 .. stage - 1 : \E i \in DOMAIN Stages[l].states : Stages[l].states[i] = s
        BY <2>2, <4>1, OrderAssumption
      <4>3. s \in Placed
        BY <4>2 DEF PassedInv
      <4> QED
        BY <2>4, <4>3 DEF Placed
    <3>4. stage' < Len(Stages)
      <4>1. stage < Len(Stages)
        BY <1>0, <3>3
      <4> QED
        BY <3>1, <4>1
    <3>5. seen'[m] = "different" => rules'[Resource(m)'] # "pillar"
      BY <2>4, <3>2
    <3> QED
      BY <3>4, <3>5
  <2> QED
    BY <1>6, <2>2, <2>3, <2>4, GnocchiReturn
<1> QED
  BY <1>1, <1>2, <1>3, <1>4, <1>5, <1>6 DEF Next, OnMinion

LEMMA PutStep ==
  ASSUME Inv, [Next]_vars
  PROVE  PutInv'
<1> USE DEF Inv, TypeOK
<1> SUFFICES ASSUME NEW m \in Minions, seen'[m] = "put"
             PROVE  partial' \/ missing'[m] = Users
  BY DEF PutInv
<1>1. partial => partial'
  BY StableStep
<1>2. CASE seen'[m] = seen[m] /\ missing'[m] = missing[m]
  BY <1>1, <1>2 DEF PutInv
<1>3. ASSUME NEW n \in Minions, n # m, OnMinion(n)
      PROVE  seen'[m] = seen[m] /\ missing'[m] = missing[m]
  BY <1>3, MinionStep
<1>4. CASE BarbicanStep(m)
  <2>1. BarbicanMoves(m)
    BY <1>4, BarbicanEffect
  <2>2. ASSUME NEW ok, Return(m, ok)
        PROVE  FALSE
    BY <2>2 DEF Return, SaltTypeOK, Unseen
  <2>3. ASSUME NEW v, v # "put", GoOn(m, v)
        PROVE  FALSE
    BY <2>3 DEF GoOn, See, SaltTypeOK
  <2>4. ASSUME NEW users \in SUBSET Users, WillPut(m, users)
        PROVE  partial' \/ missing'[m] = Users
    BY <2>4 DEF WillPut, BarbicanTypeOK
  <2>5. CASE NextTry(m)
    BY <1>2, <2>2, <2>5 DEF NextTry, Report
  <2> QED
    BY <2>1, <2>2, <2>3, <2>4, <2>5 DEF BarbicanMoves, Report
<1>5. CASE GnocchiStep(m)
  <2>1. \/ \E ok \in BOOLEAN : Return(m, ok)
        \/ \E v \in GnocchiSeen : See(m, v)
    BY <1>5, GnocchiEffect
  <2> QED
    BY <2>1 DEF Return, See, SaltTypeOK, GnocchiSeen, Unseen
<1>6. CASE Stage
  <2>1. Go(stage + 1) \/ Go(1) \/ seen' = seen
    BY <1>6 DEF Stage, EndStage
  <2> QED
    BY <1>2, <1>6, <2>1 DEF Stage, Go, Fresh, Unseen, barbicanVars
<1>7. CASE UNCHANGED vars
  BY <1>2, <1>7 DEF vars, saltVars, barbicanVars
<1> QED
  BY <1>2, <1>3, <1>4, <1>5, <1>6, <1>7 DEF Next, OnMinion


LEMMA TriedStep ==
  ASSUME Inv, [Next]_vars
  PROVE  TriedInv'
<1> USE DEF Inv, TypeOK
<1> DEFINE Here(m)  == seen[m] # Unseen => m \in Stages[stage].minions /\ at[m] <= Len(States)
           Again(m) == tried[m] > 0 => Retried(m) /\ (seen[m] = "put" => copies[Name(m)] > 0)
<1>1. \A m \in Minions : Here(m) /\ Again(m)
  BY DEF TriedInv
<1> SUFFICES ASSUME NEW m \in Minions
             PROVE  Here(m)' /\ Again(m)'
  BY DEF TriedInv
<1>2. \A s \in Secrets : copies[s] > 0 => copies'[s] > 0
  BY StableStep, TypeStep DEF BarbicanTypeOK
<1>3. tried[m] \in Nat /\ tried'[m] \in Nat
  BY TypeStep, BarbicanAssumption DEF BarbicanTypeOK
<1>4. CASE seen'[m] = Unseen /\ ~(tried'[m] > 0)
  BY <1>4
<1>5. seen[m] = Unseen => ~(tried[m] > 0)
  BY <1>1 DEF Retried, Unseen
<1>6. Retried(m) /\ seen[m] = "put" => Name(m) \in Secrets
  <2> SUFFICES ASSUME Retried(m), seen[m] = "put"
               PROVE  Name(m) \in Secrets
    OBVIOUS
  <2>1. m \in Stages[stage].minions /\ at[m] <= Len(States) /\ Current(m).kind = "acl"
    BY <1>1 DEF Retried, Unseen
  <2>2. Current(m) \in AllStates
    BY <2>1, StagesAssumption DEF SaltTypeOK, States, Current, AllStates
  <2> QED
    BY <2>1, <2>2, NamesAssumption DEF Barbican, Name
<1>7. ASSUME stage' = stage, at'[m] = at[m], seen'[m] = seen[m], tried'[m] = tried[m]
      PROVE  Here(m)' /\ Again(m)'
  <2>1. States' = States
    BY <1>7 DEF States
  <2>2. Name(m)' = Name(m) /\ Current(m)' = Current(m)
    BY <1>7, <2>1 DEF Name, Current
  <2>3. Here(m)'
    BY <1>1, <1>7, <2>1
  <2>4. tried[m] > 0 => Retried(m)'
    BY <1>1, <1>7, <2>2 DEF Retried
  <2> QED
    BY <1>1, <1>2, <1>6, <1>7, <2>2, <2>3, <2>4
<1>8. ASSUME NEW n \in Minions, n # m, OnMinion(n)
      PROVE  Here(m)' /\ Again(m)'
  BY <1>7, <1>8, MinionStep, OtherMinion
<1>9. CASE OnMinion(m) /\ BarbicanStep(m)
  <2>1. BarbicanMoves(m)
    BY <1>9, BarbicanEffect
  <2>2. /\ stage' = stage /\ m \in Stages[stage].minions /\ at[m] <= Len(States)
        /\ States' = States
    BY <1>9, MinionStep, StagesAssumption DEF States, SaltTypeOK
  <2>3. ASSUME NEW ok, NEW h, Report(m, ok, h)
        PROVE  Here(m)' /\ Again(m)'
    BY <1>4, <2>3 DEF Report, Return, SaltTypeOK, BarbicanTypeOK
  <2>4. ASSUME seen[m] \notin {"create", "put"}, NEW v, See(m, v), UNCHANGED tried
        PROVE  Here(m)' /\ Again(m)'
    <3>1. ~(tried'[m] > 0)
      BY <1>1, <2>4 DEF Retried
    <3> QED
      BY <2>2, <2>4, <3>1 DEF See
  <2>5. CASE Retried(m) /\ NextTry(m)
    <3>1. CASE UNCHANGED <<at, seen>> /\ tried' = [tried EXCEPT ![m] = @ + 1]
      <4>1. Name(m)' = Name(m) /\ Current(m)' = Current(m)
        BY <2>2, <3>1 DEF Name, Current
      <4>2. Here(m)'
        BY <1>1, <2>2, <3>1
      <4>3. Retried(m)'
        BY <1>3, <2>5, <3>1, <4>1 DEF Retried, BarbicanTypeOK
      <4>4. seen[m] = "put" => copies[Name(m)] > 0
        BY <1>1, <2>5 DEF Retried
      <4> QED
        BY <1>2, <1>6, <2>5, <3>1, <4>1, <4>2, <4>3, <4>4
    <3> QED
      BY <2>3, <2>5, <3>1 DEF NextTry
  <2> QED
    BY <2>1, <2>3, <2>4, <2>5 DEF BarbicanMoves, GoOn, WillPut
<1>10. CASE GnocchiStep(m) /\ UNCHANGED barbicanVars
  <2>1. PICK kind \in Gnocchi : Applies(m, kind)
    BY <1>10, GnocchiEffect
  <2>2. ~(tried'[m] > 0)
    BY <1>1, <1>10, <2>1 DEF Applies, Gnocchi, Retried, barbicanVars
  <2>3. CASE \E ok \in BOOLEAN : Return(m, ok)
    BY <1>4, <2>2, <2>3 DEF Return, SaltTypeOK
  <2>4. CASE \E v \in GnocchiSeen : See(m, v)
    BY <2>1, <2>2, <2>4 DEF See, Applies, States
  <2> QED
    BY <1>10, <2>3, <2>4, GnocchiEffect
<1>11. CASE Stage
  <2>1. UNCHANGED <<stage, at, seen>> \/ \E k : Go(k)
    BY <1>11 DEF Stage, EndStage
  <2>2. tried' = tried
    BY <1>11 DEF Stage, barbicanVars
  <2>3. CASE UNCHANGED <<stage, at, seen>>
    BY <1>7, <2>2, <2>3
  <2>4. CASE \E k : Go(k)
    <3>1. m \in Stages[stage].minions => at[m] > Len(States)
      BY <1>11 DEF Stage, EndStage, AllOver
    <3>2. at[m] \in Nat /\ Len(States) \in Nat
      BY StagesAssumption DEF SaltTypeOK, States
    <3>3. seen[m] = Unseen
      BY <1>1, <3>1, <3>2
    <3> QED
      BY <1>4, <1>5, <2>2, <2>4, <3>3 DEF Go, Fresh
  <2> QED
    BY <2>1, <2>3, <2>4
<1>12. CASE UNCHANGED vars
  BY <1>7, <1>12 DEF vars, saltVars, barbicanVars
<1> QED
  BY <1>8, <1>9, <1>10, <1>11, <1>12 DEF Next, OnMinion

\* Whoever comes to the ACL of two secrets of a name fails there.
LEMMA AclStep ==
  ASSUME Inv, NEW m \in Minions, BarbicanStep(m), Current(m).kind = "acl",
         copies[Name(m)] > 1, ~(seen[m] = "put" /\ tried[m] > 0)
  PROVE  \/ Return(m, FALSE)
         \/ UNCHANGED <<at, failed>> /\ seen'[m] # "put"
<1> USE DEF Inv, TypeOK
<1>1. PICK kind \in Barbican : Applies(m, kind)
  BY BarbicanEffect
<1>2. kind = "acl" /\ Name(m) \in Secrets
  BY <1>1, CurrentKind, NamesAssumption DEF Applies, Barbican, Name
<1>3. copies[Name(m)] \in Nat /\ copies[Name(m)] # 0 /\ copies[Name(m)] # 1
  BY <1>2 DEF BarbicanTypeOK
<1>4. Found(Name(m)) = "many"
  BY <1>3 DEF Found
<1>5. ASSUME NEW n, LookUp(m, n)
      PROVE  n \notin {"none", "one"}
  BY <1>4, <1>5 DEF LookUp
<1>6. SeekForAcl(m) \/ GetAcl(m) \/ PutAcl(m)
  BY DEF BarbicanStep, SeekSecret, CreateSecret, GetPayload, SetPayload, ReadImage, SignImage,
         Begins, Continues, Applies
<1>7. CASE SeekForAcl(m)
  BY <1>5, <1>7 DEF SeekForAcl, Report, GoOn, See, SaltTypeOK
<1>8. CASE GetAcl(m)
  BY <1>5, <1>8 DEF GetAcl, Report
<1>9. CASE PutAcl(m)
  <2>1. ~(tried[m] > 0 \/ copies[Name(m)] = 1)
    BY <1>3, <1>9 DEF PutAcl
  <2> QED
    BY <1>9, <2>1 DEF PutAcl, Report
<1> QED
  BY <1>6, <1>7, <1>8, <1>9

LEMMA OnceStep ==
  ASSUME Inv, [Next]_vars
  PROVE  OnceInv'
<1> USE StagesAssumption DEF Inv, TypeOK, SaltTypeOK
<1> SUFFICES ASSUME NEW l \in DOMAIN Stages, NEW j \in DOMAIN Stages[l].states,
                    NEW s, s = Stages[l].states[j], s.kind = "acl", copies'[s.name] > 1
             PROVE  \/ stage' < l
                    \/ /\ stage' = l /\ phase' # "done"
                       /\ \E m \in Stages[l].minions : Before(m, j)'
  BY DEF OnceInv
<1>1. j \in Nat \ {0} /\ l \in 1 .. Len(Stages) /\ s.name \in Secrets
      /\ copies[s.name] \in Nat /\ copies'[s.name] \in Nat
  <2>1. j \in Nat \ {0} /\ l \in 1 .. Len(Stages) /\ s \in AllStates
    BY DEF AllStates
  <2>2. s.name \in Secrets
    BY <2>1, NamesAssumption DEF Barbican
  <2>3. TypeOK'
    BY TypeStep
  <2>4. copies[s.name] \in Nat /\ copies'[s.name] \in Nat
    BY <2>2, <2>3 DEF BarbicanTypeOK
  <2> QED
    BY <2>1, <2>2, <2>4
<1>2. copies[s.name] > 1 =>
        \/ stage < l
        \/ stage = l /\ phase # "done" /\ \E m \in Stages[l].minions : Before(m, j)
  BY DEF OnceInv
<1>3. CASE UNCHANGED <<stage, phase, at, seen, failed>> /\ UNCHANGED <<tried, copies>>
  BY <1>2, <1>3 DEF Before
<1>4. CASE Stage
  <2>1. phase = "running" /\ AllOver /\ UNCHANGED <<tried, copies>>
    BY <1>4 DEF Stage, EndStage, barbicanVars
  <2>2. ASSUME Go(l), phase' = "running"
        PROVE  stage' = l /\ phase' # "done" /\ \E m \in Stages[l].minions : Before(m, j)'
    <3>1. PICK m \in Stages[l].minions : m \in Minions
      BY OrderAssumption
    <3>2. at'[m] = 1 /\ seen'[m] = Unseen /\ Unseen # "put"
      BY <2>2, <3>1 DEF Go, Start, Fresh, Unseen
    <3>3. Before(m, j)'
      BY <1>1, <3>2 DEF Before
    <3> QED
      BY <2>2, <3>1, <3>3 DEF Go
  <2>3. ASSUME AllWell
        PROVE  stage < l
    <3>1. ASSUME stage = l, NEW m \in Stages[l].minions, Before(m, j)
          PROVE  FALSE
      <4>1. failed[m] = {} /\ at[m] > Len(States)
        BY <2>1, <2>3, <3>1 DEF AllOver, AllWell
      <4>2. j <= Len(States) /\ at[m] \in Nat /\ Len(States) \in Nat
        BY <3>1 DEF States
      <4> QED
        BY <1>1, <3>1, <4>1, <4>2 DEF Before
    <3> QED
      BY <1>2, <2>1, <3>1
  <2>4. CASE AllWell /\ stage < Len(Stages) /\ Go(stage + 1) /\ UNCHANGED <<tries, phase>>
    <3>1. stage' = stage + 1
      BY <2>4 DEF Go
    <3> QED
      BY <1>1, <2>1, <2>2, <2>3, <2>4, <3>1
  <2>5. CASE AllWell /\ stage = Len(Stages) /\ phase' = "done"
             /\ UNCHANGED <<stage, at, seen, failed, tries>>
    BY <1>1, <2>3, <2>5
  <2>6. CASE ~AllWell /\ MayRetry /\ tries' = tries + 1 /\ Go(1) /\ UNCHANGED phase
    <3>1. stage' = 1
      BY <2>6 DEF Go
    <3> QED
      BY <1>1, <2>1, <2>2, <2>6, <3>1
  <2>7. CASE ~AllWell /\ ~MayRetry /\ phase' = "failed"
             /\ UNCHANGED <<stage, at, seen, failed, tries>>
    BY <1>2, <2>1, <2>7 DEF Before
  <2> QED
    BY <1>4, <2>4, <2>5, <2>6, <2>7 DEF Stage, EndStage
<1>5. ASSUME NEW n \in Minions, OnMinion(n)
      PROVE  \/ stage' < l
             \/ /\ stage' = l /\ phase' # "done"
                /\ \E m \in Stages[l].minions : Before(m, j)'
  <2>1. /\ UNCHANGED <<stage, phase>> /\ phase = "running"
        /\ n \in Stages[stage].minions /\ at[n] \in DOMAIN States
    BY <1>5, MinionStep
  \* A step at an earlier state, and one that fails, leave n where it may be.
  <2>2. ASSUME \/ UNCHANGED <<at, failed>> \/ \E ok : Return(n, ok),
               at[n] < j \/ failed[n] # {} \/ Return(n, FALSE)
        PROVE  Before(n, j)'
    <3>1. at[n] \in Nat
      BY <2>1
    <3>2. CASE UNCHANGED <<at, failed>> /\ ~Return(n, FALSE)
      BY <2>2, <3>2 DEF Before
    <3>3. ASSUME NEW ok, Return(n, ok)
          PROVE  Before(n, j)'
      <4>1. at'[n] = at[n] + 1 /\ seen'[n] = Unseen /\ Unseen # "put"
        BY <3>3 DEF Return, Unseen
      <4>2. failed[n] # {} => failed'[n] # {}
        BY <3>3 DEF Return
      <4>3. Return(n, FALSE) => failed'[n] # {}
        BY DEF Return
      <4>4. CASE at[n] < j
        <5>1. at[n] + 1 < j \/ at[n] + 1 = j
          BY <1>1, <3>1, <4>4
        <5> QED
          BY <4>1, <5>1 DEF Before
      <4>5. CASE failed[n] # {} \/ Return(n, FALSE)
        BY <4>2, <4>3, <4>5 DEF Before
      <4> QED
        BY <2>2, <4>4, <4>5
    <3> QED
      BY <2>2, <3>2, <3>3
  <2>3. \/ UNCHANGED <<at, failed>> \/ \E ok : Return(n, ok)
    BY <1>5, MinionStep
  <2>4. CASE copies[s.name] > 1
    <3>1. ASSUME stage = l, Before(n, j)
          PROVE  Before(n, j)'
      <4>1. CASE at[n] < j \/ failed[n] # {}
        BY <2>2, <2>3, <4>1
      <4>2. CASE at[n] = j /\ ~(seen[n] = "put" /\ tried[n] > 0)
        <5>1. Current(n) = s /\ Name(n) = s.name
          BY <3>1, <4>2 DEF Current, States, Name
        <5>2. CASE BarbicanStep(n)
          <6>1. Current(n).kind = "acl" /\ copies[Name(n)] > 1
            BY <2>4, <5>1, s.kind = "acl"
          <6>2. \/ Return(n, FALSE)
                \/ UNCHANGED <<at, failed>> /\ seen'[n] # "put"
            BY <4>2, <5>2, <6>1, AclStep
          <6>3. CASE Return(n, FALSE)
            BY <2>2, <2>3, <6>3
          <6>4. CASE UNCHANGED <<at, failed>> /\ seen'[n] # "put"
            BY <4>2, <6>4 DEF Before
          <6> QED
            BY <6>2, <6>3, <6>4
        <5>3. CASE GnocchiStep(n)
          BY <5>1, <5>3, GnocchiEffect DEF Applies, Gnocchi
        <5> QED
          BY <1>5, <5>2, <5>3 DEF OnMinion
      <4> QED
        BY <3>1, <4>1, <4>2 DEF Before
    <3>2. ASSUME stage = l, NEW m \in Stages[l].minions, m # n, Before(m, j)
          PROVE  Before(m, j)'
      <4>1. /\ at'[m] = at[m] /\ failed'[m] = failed[m]
            /\ seen'[m] = seen[m] /\ tried'[m] = tried[m]
        BY <1>5, <3>2, OtherMinion, MinionStep
      <4> QED
        BY <3>2, <4>1 DEF Before
    <3> QED
      BY <1>2, <2>1, <2>4, <3>1, <3>2
  <2>5. CASE ~(copies[s.name] > 1)
    <3>1. BarbicanStep(n) /\ CreateSecret(n) /\ Name(n) = s.name
      BY <1>1, <1>5, <2>5, BarbicanEffect DEF OnMinion, SameSecrets, barbicanVars, BarbicanTypeOK
    <3>2. Current(n).kind = "secret" /\ Current(n).name = s.name
      BY <3>1 DEF CreateSecret, Continues, Applies, Name
    <3>3. stage = l /\ at[n] < j
      BY <2>1, <3>2, OrderAssumption DEF Current, States
    <3> QED
      BY <2>1, <2>2, <2>3, <3>3
  <2> QED
    BY <2>4, <2>5
<1>6. CASE UNCHANGED vars
  BY <1>3, <1>6 DEF vars, saltVars, barbicanVars
<1> QED
  BY <1>4, <1>5, <1>6 DEF Next

LEMMA InitInv ==
  ASSUME Init
  PROVE  Inv
<1> USE DEF Init, SaltInit, BarbicanInit, GnocchiInit
<1>1. TypeOK
  <2>1. BarbicanTypeOK /\ GnocchiTypeOK
    <3>1. copies \in [Secrets -> Nat] /\ acl \in [Secrets -> SUBSET Users]
      OBVIOUS
    <3>2. 0 \in 0 .. Retries - 1
      BY BarbicanAssumption
    <3>3. GnocchiTypeOK
      BY DEF GnocchiTypeOK
    <3> QED
      BY <3>1, <3>2, <3>3 DEF BarbicanTypeOK
  <2>2. SaltTypeOK(BarbicanSeen \union GnocchiSeen)
    <3>1. stage \in 1 .. Len(Stages) /\ Len(States) \in Nat
      BY StagesAssumption DEF States
    <3> QED
      BY <3>1, StagesAssumption DEF SaltTypeOK, Start, Fresh, NoneFailed
  <2> QED
    BY <2>1, <2>2 DEF TypeOK
<1>2. PassedInv /\ OnceInv
  <2>1. \A s \in AllStates : s.kind = "acl" => ~(copies[s.name] > 1)
    BY NamesAssumption DEF Barbican
  <2>2. OnceInv
    BY <2>1 DEF OnceInv, AllStates
  <2>3. ASSUME NEW m \in Minions
        PROVE  \A i \in 1 .. at[m] - 1 : FALSE
    BY DEF Start
  <2>4. stage = 1 /\ phase # "done" /\ \A m \in Stages[1].minions : m \in Minions
    BY StagesAssumption
  <2>5. PassedInv
    BY <2>3, <2>4 DEF PassedInv
  <2> QED
    BY <2>2, <2>5
<1>3. RuleInv /\ PutInv /\ TriedInv
  BY DEF RuleInv, PutInv, TriedInv, Continues, Fresh, Unseen
<1> QED
  BY <1>1, <1>2, <1>3 DEF Inv

LEMMA NextInv ==
  ASSUME Inv, [Next]_vars
  PROVE  Inv'
BY TypeStep, PassedStep, RuleStep, PutStep, TriedStep, OnceStep DEF Inv

LEMMA AlwaysInv == Spec => []Inv
BY InitInv, NextInv, PTL DEF Spec

-------------------------------------------------------------------------------
(* The theorems.                                                            *)

(***************************************************************************)
(* The variables have their types, for any number of minions and tries.    *)
(***************************************************************************)
THEOREM TypeCorrect == Spec => []TypeOK
BY AlwaysInv, PTL DEF Inv

(***************************************************************************)
(* Success of the file means that every secret is there, those with an ACL *)
(* once and with their users, and that the images are signed, unless       *)
(* `send` has hidden a failure.                                            *)
(***************************************************************************)
THEOREM Secured == Spec => []SecretsWhenDone
<1>1. Inv => SecretsWhenDone
  <2> SUFFICES ASSUME Inv, phase = "done", ~hidden
               PROVE  /\ \A s \in NamesOf("secret") : copies[s] > 0
                      /\ \A s \in NamesOf("acl") : copies[s] = 1 /\ (partial \/ acl[s] = Users)
                      /\ NamesOf("signature") \subseteq signed
    BY DEF SecretsWhenDone
  <2>1. stage = Len(Stages) /\ \A s \in AllStates : BarbicanInPlace(s)
    BY DEF Inv, PassedInv, Placed, InPlace
  <2>2. \A s \in NamesOf("secret") : copies[s] > 0
    BY <2>1 DEF NamesOf, BarbicanInPlace
  <2>3. NamesOf("signature") \subseteq signed
    BY <2>1 DEF NamesOf, BarbicanInPlace
  <2>4. ASSUME NEW x \in AllStates, x.kind = "acl"
        PROVE  copies[x.name] = 1 /\ (partial \/ acl[x.name] = Users)
    <3>1. copies[x.name] \in Nat /\ copies[x.name] > 0 /\ (partial \/ acl[x.name] = Users)
      BY <2>1, <2>4, NamesAssumption DEF BarbicanInPlace, Barbican, Inv, TypeOK, BarbicanTypeOK
    <3>2. PICK l \in DOMAIN Stages : \E j \in DOMAIN Stages[l].states : x = Stages[l].states[j]
      BY DEF AllStates
    <3>3. ~(stage < l)
      BY <2>1, StagesAssumption
    <3>4. ~(copies[x.name] > 1)
      BY <2>4, <3>2, <3>3 DEF Inv, OnceInv
    <3> QED
      BY <3>1, <3>4
  <2>5. \A s \in NamesOf("acl") : copies[s] = 1 /\ (partial \/ acl[s] = Users)
    BY <2>4 DEF NamesOf
  <2> QED
    BY <2>2, <2>3, <2>5
<1> QED
  BY <1>1, AlwaysInv, PTL

(***************************************************************************)
(* Success of the file means that Gnocchi has the policies and the rules   *)
(* of the pillar, whatever attempts were broken off inside an update.      *)
(***************************************************************************)
THEOREM RulesInPlace == Spec => []RulesWhenDone
<1>1. Inv => RulesWhenDone
  BY DEF Inv, PassedInv, Placed, InPlace, GnocchiInPlace, RulesWhenDone, NamesOf
<1> QED
  BY <1>1, AlwaysInv, PTL

(***************************************************************************)
(* The secondary servers change nothing in Gnocchi.                        *)
(***************************************************************************)
THEOREM SecondariesIdle == Spec => LastStageIdle
<1>1. ASSUME Inv, [Next]_vars, stage = Len(Stages)
      PROVE  UNCHANGED gnocchiVars
  <2>1. ASSUME NEW m \in Minions, NEW kind \in Gnocchi, Continues(m, kind)
        PROVE  FALSE
    BY <1>1, <2>1 DEF Inv, RuleInv, TypeOK, SaltTypeOK
  <2>2. ASSUME NEW m \in Minions, GnocchiStep(m)
        PROVE  UNCHANGED gnocchiVars
    BY <1>1, <2>1, <2>2, GnocchiEffect
       DEF CreatePolicy, DeleteRule, CreateRule, Inv, Gnocchi
  <2> QED
    BY <1>1, <2>2 DEF Next, OnMinion, Stage, vars, gnocchiVars
<1> QED
  BY <1>1, AlwaysInv, PTL DEF Spec, LastStageIdle
===============================================================================
