-------------------------- MODULE MaasObjectsProofs ---------------------------
(***************************************************************************)
(* Proofs about MaasObjects for every pillar, every number of attempts and *)
(* every number of failures.                                               *)
(***************************************************************************)
EXTENDS MaasObjects, TLAPS

-------------------------------------------------------------------------------
(* What the steps of a STATE file do to the variables of SaltStages.        *)

LEMMA FaultType ==
  ASSUME faults \in 0 .. MaxFaults, Fault \/ NoFault
  PROVE  faults' \in 0 .. MaxFaults
BY StagesAssumption DEF Fault, NoFault

\* The variables of SaltStages, as every action but EndStage changes them.
LEMMA SeeType ==
  ASSUME NEW Seen, SaltTypeOK(Seen), NEW m \in Minions, NEW v \in Seen, See(m, v),
         Fault \/ NoFault
  PROVE  SaltTypeOK(Seen)'
BY FaultType DEF SaltTypeOK, See, States

LEMMA ReturnType ==
  ASSUME NEW Seen, SaltTypeOK(Seen), NEW m \in Minions, NEW ok \in BOOLEAN,
         NEW kind, Applies(m, kind), Return(m, ok), Fault \/ NoFault
  PROVE  SaltTypeOK(Seen)'
<1>1. at[m] \in DOMAIN States /\ Len(States) \in Nat
  BY StagesAssumption DEF SaltTypeOK, Applies, States
<1>2. /\ at' = [at EXCEPT ![m] = @ + 1] /\ stage' = stage /\ tries' = tries /\ phase' = phase
      /\ seen' = [seen EXCEPT ![m] = Unseen]
  BY DEF Return
<1>3. States' = States
  BY <1>2 DEF States
<1>4. at' \in [Minions -> 1 .. Len(States) + 1]
  BY <1>1, <1>2 DEF SaltTypeOK, Applies
<1>5. failed' \in [Minions -> SUBSET {States[i] : i \in DOMAIN States}]
  <2>1. Current(m) \in {States[i] : i \in DOMAIN States}
    BY <1>1 DEF Current
  <2>2. CASE ok
    BY <2>2 DEF Return, SaltTypeOK
  <2>3. CASE ~ok
    BY <2>1, <2>3 DEF Return, SaltTypeOK
  <2> QED
    BY <2>2, <2>3
<1> QED
  BY <1>2, <1>3, <1>4, <1>5, FaultType DEF SaltTypeOK

LEMMA SameType ==
  ASSUME NEW Seen, SaltTypeOK(Seen), Fault \/ NoFault,
         UNCHANGED <<stage, at, seen, failed, tries, phase>>
  PROVE  SaltTypeOK(Seen)'
BY FaultType DEF SaltTypeOK, States

LEMMA StageType ==
  ASSUME NEW Seen, SaltTypeOK(Seen), EndStage
  PROVE  SaltTypeOK(Seen)'
<1> USE StagesAssumption DEF SaltTypeOK, EndStage, NoFault, MayRetry
<1>1. ASSUME NEW k \in 1 .. Len(Stages), Go(k), phase' = phase, tries' \in 1 .. MaxTries,
             faults' = faults
      PROVE  SaltTypeOK(Seen)'
  <2>1. Len(Stages[k].states) \in Nat
    OBVIOUS
  <2>2. at' \in [Minions -> 1 .. Len(Stages[k].states) + 1]
    BY <1>1, <2>1 DEF Go, Start
  <2>3. States' = Stages[k].states
    BY <1>1 DEF Go, States
  <2> QED
    BY <1>1, <2>2, <2>3 DEF Go, Fresh, NoneFailed
<1>2. ASSUME UNCHANGED <<stage, at, seen, failed, tries>>, phase' \in {"done", "failed"}
      PROVE  SaltTypeOK(Seen)'
  BY <1>2 DEF States
<1>3. CASE AllWell /\ stage < Len(Stages) /\ Go(stage + 1) /\ UNCHANGED <<tries, phase>>
  BY <1>1, <1>3
<1>4. CASE AllWell /\ stage = Len(Stages) /\ phase' = "done"
             /\ UNCHANGED <<stage, at, seen, failed, tries>>
  BY <1>2, <1>4
<1>5. CASE ~AllWell /\ MayRetry /\ tries' = tries + 1 /\ Go(1) /\ UNCHANGED phase
  BY <1>1, <1>5
<1>6. CASE ~AllWell /\ ~MayRetry /\ phase' = "failed"
             /\ UNCHANGED <<stage, at, seen, failed, tries>>
  BY <1>2, <1>6
<1> QED
  BY <1>3, <1>4, <1>5, <1>6

LEMMA CurrentKind ==
  ASSUME NEW Seen, SaltTypeOK(Seen), NEW m \in Minions, NEW kind, Applies(m, kind)
  PROVE  /\ Current(m) \in AllStates /\ Current(m).kind = kind
         /\ at[m] \in DOMAIN States
BY StagesAssumption DEF SaltTypeOK, Applies, States, Current, AllStates

-------------------------------------------------------------------------------
(* The invariant of process() and of the assignment of addresses.           *)

ProcessKinds == {"settings", "things", "devices", "assign"}

\* What process() knows is about the state it is called by, and gone afterwards.
Local(m) ==
  /\ seen[m] # Unseen => phase = "running" /\ at[m] <= Len(States)
  /\ seen[m] = "absent" => Current(m).kind = "key"
  /\ IF seen[m] = "listed"
     THEN /\ Current(m).kind \in ProcessKinds
          /\ todo \subseteq Current(m).items
          /\ item # None =>
               item \in Current(m).items \ todo /\ Current(m).kind \in {"devices", "assign"}
          /\ left # {} => item # None /\ step = 1 /\ Current(m).kind = "assign"
     ELSE todo = {} /\ item = None /\ left = {} /\ errors = {}

ProcessInv == \A m \in Minions : Local(m)

\* While devices are processed only devices are to do, and while machines are
\* assigned addresses only machines.
LEMMA ItemsOfKind ==
  ASSUME TypeOK, ProcessInv, NEW m \in Minions, NEW kind, Continues(m, kind)
  PROVE  /\ kind = "devices" => todo \subseteq Devices
         /\ kind = "assign" => todo \subseteq Machines
<1>1. Local(m)
  BY DEF ProcessInv
<1>2. Current(m) \in AllStates /\ Current(m).kind = kind
  <2>1. Applies(m, kind) /\ SaltTypeOK({"listed", "absent"})
    BY DEF Continues, TypeOK
  <2> QED
    BY <2>1, CurrentKind
<1>3. /\ kind = "devices" => Current(m).items \subseteq Devices
      /\ kind = "assign" => Current(m).items = Machines
  BY <1>2, KindsAssumption
<1>4. kind \in {"devices", "assign"} => todo \subseteq Current(m).items
  BY <1>1, <1>2 DEF Local
<1> QED
  BY <1>3, <1>4

LEMMA TypeStep ==
  ASSUME TypeOK, ProcessInv, [Next]_vars
  PROVE  TypeOK'
<1> USE DEF Post, Link
<1>1. ASSUME NEW m \in Minions, Script(m)
      PROVE  TypeOK'
  <2>1. ASSUME NEW kind, List(m, kind), kind \in {"settings", "things", "devices", "assign"}
        PROVE  TypeOK'
    <3>1. SaltTypeOK({"listed", "absent"})'
      BY <2>1, SeeType, ReturnType DEF List, TypeOK, Begins
    <3>2. Begins(m, kind) => Current(m).items \subseteq Things \union Devices \union Machines
      BY <2>1, CurrentKind, KindsAssumption DEF Begins, TypeOK
    <3> QED
      BY <2>1, <3>1, <3>2 DEF List, TypeOK, maas
  <2>2. ASSUME NEW kind, EndProcess(m, kind)
        PROVE  TypeOK'
    <3>1. SaltTypeOK({"listed", "absent"})'
      BY <2>2, ReturnType DEF EndProcess, TypeOK, Continues
    <3> QED
      BY <2>2, <3>1 DEF EndProcess, TypeOK, maas
  <2>3. ASSUME NEW kind, SendThing(m, kind)
        PROVE  TypeOK'
    <3>1. SaltTypeOK({"listed", "absent"})'
      BY <2>3, SameType DEF SendThing, Processing, Call, TypeOK
    <3> QED
      BY <2>3, <3>1 DEF SendThing, Processing, Call, Treated, TypeOK
  <2>4. CASE SeekKey(m)
    <3>1. SaltTypeOK({"listed", "absent"})'
      BY <2>4, SeeType, ReturnType DEF SeekKey, Begins, TypeOK
    <3> QED
      BY <2>4, <3>1 DEF SeekKey, TypeOK, maas, local
  <2>5. CASE AddKey(m)
    <3>1. SaltTypeOK({"listed", "absent"})'
      BY <2>5, ReturnType DEF AddKey, Continues, TypeOK
    <3> QED
      BY <2>5, <3>1 DEF AddKey, TypeOK, local
  <2>6. CASE DevicesBlocked(m)
    <3>1. SaltTypeOK({"listed", "absent"})'
      BY <2>6, ReturnType DEF DevicesBlocked, Begins, TypeOK
    <3> QED
      BY <2>6, <3>1 DEF DevicesBlocked, TypeOK, maas, local
  <2>7. CASE PutDevice(m) \/ DeleteDevice(m) \/ PostDevice(m) \/ LinkDevice(m)
    <3>0. Processing(m, "devices")
      BY <2>7 DEF PutDevice, DeleteDevice, PostDevice, LinkDevice
    <3>1. SaltTypeOK({"listed", "absent"})'
      BY <2>7, SameType
         DEF PutDevice, DeleteDevice, PostDevice, LinkDevice, Processing, Call, TypeOK
    <3>2. todo \subseteq Devices
      BY <3>0, ItemsOfKind DEF Processing
    <3>3. CASE PutDevice(m)
      <4>1. PICK d \in todo : Call(d, UNCHANGED maas, UNCHANGED maas, Proceed(d, Link), {})
        BY <3>3 DEF PutDevice
      <4>2. (Proceed(d, Link) \/ Treated(d, {"other"})) /\ UNCHANGED maas
        BY <4>1 DEF Call
      <4>3. /\ todo' \subseteq todo /\ item' \in Devices \union {None}
            /\ step' \in {1, Link} /\ left' \subseteq left
            /\ errors' \subseteq errors \union {"other"}
        BY <3>2, <4>2 DEF Proceed, Treated
      <4> QED
        BY <3>1, <3>3, <4>2, <4>3 DEF PutDevice, Processing, TypeOK, maas
    <3>4. CASE DeleteDevice(m)
      <4>1. PICK d \in todo :
              Call(d, /\ mac' = [mac EXCEPT ![d] = None]
                      /\ address' = [address EXCEPT ![d] = None],
                   UNCHANGED <<mac, address>>, Proceed(d, Post), {})
        BY <3>4 DEF DeleteDevice
      <4>2. /\ Proceed(d, Post) \/ Treated(d, {"other"})
            /\ mac' = [mac EXCEPT ![d] = None] \/ mac' = mac
            /\ address' = [address EXCEPT ![d] = None] \/ address' = address
        BY <4>1 DEF Call
      <4>3. /\ mac' \in [Devices -> Devices \union {None, "old"}]
            /\ address' \in [Devices -> Devices \union {None}]
        BY <4>2 DEF TypeOK
      <4>4. /\ todo' \subseteq todo /\ item' \in Devices \union {None}
            /\ step' = 1 /\ left' \subseteq left
            /\ errors' \subseteq errors \union {"other"}
        BY <3>2, <4>2 DEF Proceed, Treated
      <4> QED
        BY <3>1, <3>4, <4>3, <4>4 DEF DeleteDevice, Processing, TypeOK
    <3>5. CASE PostDevice(m)
      <4>1. PICK d \in Devices :
              Call(d, mac' = [mac EXCEPT ![d] = d], UNCHANGED mac, Proceed(d, Link),
                   IF d \in taken THEN {"exists"}
                   ELSE IF \E e \in Devices : mac[e] = d THEN {"other"} ELSE {})
        BY <3>5 DEF PostDevice
      <4>2. /\ Proceed(d, Link) \/ Treated(d, {"exists"}) \/ Treated(d, {"other"})
            /\ mac' = [mac EXCEPT ![d] = d] \/ mac' = mac
        BY <4>1 DEF Call
      <4>3. mac' \in [Devices -> Devices \union {None, "old"}]
        BY <4>2 DEF TypeOK
      <4>4. /\ todo' \subseteq todo /\ item' \in Devices \union {None}
            /\ step' \in {1, Link} /\ left' \subseteq left
            /\ errors' \subseteq errors \union {"exists", "other"}
        BY <4>2 DEF Proceed, Treated
      <4> QED
        BY <3>1, <3>5, <4>3, <4>4 DEF PostDevice, Processing, TypeOK
    <3>6. CASE LinkDevice(m)
      <4>1. PICK d \in Devices :
              Call(d, address' = [address EXCEPT ![d] = d], UNCHANGED address, Treated(d, {}),
                   IF \E e \in Devices \ {d} : address[e] = d THEN {"other"} ELSE {})
        BY <3>6 DEF LinkDevice
      <4>2. /\ Treated(d, {}) \/ Treated(d, {"other"})
            /\ address' = [address EXCEPT ![d] = d] \/ address' = address
        BY <4>1 DEF Call
      <4>3. address' \in [Devices -> Devices \union {None}]
        BY <4>2 DEF TypeOK
      <4>4. /\ todo' \subseteq todo /\ item' = None /\ step' = 1 /\ left' = {}
            /\ errors' \subseteq errors \union {"other"}
        BY <4>2 DEF Treated
      <4> QED
        BY <3>1, <3>6, <4>3, <4>4 DEF LinkDevice, Processing, TypeOK
    <3> QED
      BY <2>7, <3>3, <3>4, <3>5, <3>6
  <2>8. CASE PassOver(m) \/ Assign(m) \/ Disconnect(m) \/ Configure(m)
    <3>1. SaltTypeOK({"listed", "absent"})'
      BY <2>8, SameType
         DEF PassOver, Assign, Disconnect, Configure, Processing, Call, TypeOK
    <3>2. todo \subseteq Machines
      <4>1. Processing(m, "assign")
        BY <2>8 DEF PassOver, Assign, Disconnect, Configure
      <4> QED
        BY <4>1, ItemsOfKind DEF Processing
    <3>3. CASE PassOver(m)
      BY <3>1, <3>2, <3>3 DEF PassOver, Turn, Processing, Treated, TypeOK
    <3>4. CASE Assign(m)
      BY <3>1, <3>2, <3>4 DEF Assign, Turn, Processing, TypeOK
    <3>5. CASE Disconnect(m)
      <4>1. PICK k \in left :
              Call(item, link' = [link EXCEPT ![item][k] = None], UNCHANGED link,
                   left' = left \ {k} /\ UNCHANGED <<todo, item, step, errors>>,
                   NotReady(item))
        BY <3>5 DEF Disconnect
      <4>2. /\ \/ left' = left \ {k} /\ UNCHANGED <<todo, item, step, errors>>
               \/ Treated(item, {"other"})
            /\ link' = [link EXCEPT ![item][k] = None] \/ link' = link
        BY <4>1 DEF Call, NotReady
      <4>3. link' \in [Machines -> [Nics -> Nics \union {None}]]
        <5>1. link \in [Machines -> [Nics -> Nics \union {None}]]
          BY DEF TypeOK
        <5>2. [link EXCEPT ![item][k] = None] \in [Machines -> [Nics -> Nics \union {None}]]
          BY <5>1
        <5> QED
          BY <4>2, <5>1, <5>2
      <4>4. /\ todo' \subseteq todo /\ item' \in {item, None}
            /\ step' \in {1, step} /\ left' \subseteq left
            /\ errors' \subseteq errors \union {"other"}
        BY <4>2 DEF Treated
      <4> QED
        BY <3>1, <3>5, <4>3, <4>4 DEF Disconnect, Processing, TypeOK
    <3>6. CASE Configure(m)
      <4> DEFINE k == NicOrder[step]
      <4>1. /\ \/ step < Len(NicOrder) /\ Proceed(item, step + 1)
               \/ Treated(item, {}) \/ Treated(item, {"other"})
            /\ link' = [link EXCEPT ![item][k] = k] \/ link' = link
        BY <3>6 DEF Configure, Call, NotReady
      <4>2. link' \in [Machines -> [Nics -> Nics \union {None}]]
        <5>1. link \in [Machines -> [Nics -> Nics \union {None}]]
          BY DEF TypeOK
        <5>2. [link EXCEPT ![item][k] = k] \in [Machines -> [Nics -> Nics \union {None}]]
          BY <5>1
        <5> QED
          BY <4>1, <5>1, <5>2
      <4>3. Len(NicOrder) \in Nat /\ step \in Nat \ {0}
        BY ObjectsAssumption DEF TypeOK
      <4>4. /\ todo' \subseteq todo /\ item' \in {item, None}
            /\ step' \in {1} \union (1 .. Len(NicOrder)) /\ left' \subseteq left
            /\ errors' \subseteq errors \union {"other"}
        BY <4>1, <4>3 DEF Proceed, Treated
      <4>5. UNCHANGED <<kept, mac, address, status, again, listed, taken, blocked>>
        BY <3>6 DEF Configure, Processing
      <4>6. /\ item' \in Devices \union Machines \union {None}
            /\ step' \in {Post, Link} \union (1 .. Len(NicOrder))
            /\ errors' \subseteq {"exists", "other"}
        BY <4>4 DEF TypeOK
      <4> QED
        BY <3>1, <4>2, <4>4, <4>5, <4>6 DEF TypeOK
    <3> QED
      BY <2>8, <3>3, <3>4, <3>5, <3>6
  <2>9. CASE Wait(m)
    <3>1. SaltTypeOK({"listed", "absent"})'
      BY <2>9, ReturnType DEF Wait, Begins, TypeOK
    <3> QED
      BY <2>9, <3>1 DEF Wait, TypeOK, maas, local
  <2> QED
    BY <1>1, <2>1, <2>2, <2>3, <2>4, <2>5, <2>6, <2>7, <2>8, <2>9 DEF Script, ListDevices
<1>2. CASE Stage
  BY <1>2, StageType DEF Stage, TypeOK, maas, local
<1>3. CASE Recommission
  <2>1. SaltTypeOK({"listed", "absent"})'
    BY <1>3, SameType DEF Recommission, TypeOK
  <2>2. PICK n \in Machines :
          /\ status' = [status EXCEPT ![n] = "Commissioning"]
          /\ link' = [link EXCEPT ![n] = [k \in Nics |-> None]]
          /\ again' = again \union {n}
    BY <1>3 DEF Recommission
  <2>3. status' \in [Machines -> Statuses]
    BY <2>2 DEF TypeOK, Statuses
  <2>4. link' \in [Machines -> [Nics -> Nics \union {None}]]
    BY <2>2 DEF TypeOK
  <2>5. UNCHANGED <<kept, mac, address, taken, blocked, local>>
    BY <1>3 DEF Recommission
  <2> QED
    BY <2>1, <2>2, <2>3, <2>4, <2>5 DEF TypeOK, local
<1>4. CASE FinishCommissioning
  <2>1. SaltTypeOK({"listed", "absent"})'
    BY <1>4 DEF FinishCommissioning, saltVars, SaltTypeOK, TypeOK, States
  <2> QED
    BY <1>4, <2>1 DEF FinishCommissioning, TypeOK, Statuses, local
<1>5. CASE UNCHANGED vars
  BY <1>5 DEF vars, saltVars, maas, local, TypeOK, SaltTypeOK, States
<1> QED
  BY <1>1, <1>2, <1>3, <1>4, <1>5 DEF Next

LEMMA ProcessStep ==
  ASSUME TypeOK, ProcessInv, [Next]_vars
  PROVE  ProcessInv'
<1> USE DEF Unseen, ProcessKinds
<1>1. ASSUME NEW m \in Minions, Script(m)
      PROVE  ProcessInv'
  <2>0. Minions = {m} /\ Local(m)
    BY KindsAssumption DEF ProcessInv
  <2> SUFFICES Local(m)'
    BY <2>0 DEF ProcessInv
  <2>1. ASSUME UNCHANGED <<stage, at, phase>>
        PROVE  Current(m)' = Current(m) /\ States' = States
    BY <2>1 DEF Current, States
  <2>2. ASSUME NEW ok, Return(m, ok), UNCHANGED <<todo, item, left, errors>>, seen[m] # "listed"
        PROVE  Local(m)'
    BY <2>0, <2>2 DEF Local, Return, TypeOK, SaltTypeOK
  <2>3. ASSUME NEW kind, List(m, kind), kind \in ProcessKinds
        PROVE  Local(m)'
    <3>1. Current(m).kind = kind /\ phase = "running" /\ at[m] <= Len(States)
      BY <2>3, CurrentKind DEF List, Begins, Applies
    <3>2. seen[m] # "listed"
      BY <2>3 DEF List, Begins
    <3>3. CASE See(m, "listed") /\ todo' = Current(m).items
      BY <2>0, <2>1, <2>3, <3>1, <3>2, <3>3 DEF List, See, Local, TypeOK, SaltTypeOK
    <3> QED
      BY <2>2, <2>3, <3>2, <3>3 DEF List
  <2>4. ASSUME NEW kind, EndProcess(m, kind), kind \in ProcessKinds
        PROVE  Local(m)'
    <3>1. todo = {} /\ item = None /\ seen[m] = "listed"
      BY <2>0, <2>4, CurrentKind
         DEF EndProcess, Idle, Continues, TypeOK, SaltTypeOK, Local, Applies
    <3> QED
      BY <2>0, <2>4, <3>1 DEF EndProcess, Return, Local, TypeOK, SaltTypeOK
  <2>5. ASSUME NEW kind \in ProcessKinds, Processing(m, kind),
               todo' \subseteq todo,
               item' # None => /\ item' = item \/ item' \in todo
                               /\ item' \notin todo'
                               /\ kind \in {"devices", "assign"},
               left' # {} => item' # None /\ step' = 1 /\ kind = "assign"
        PROVE  Local(m)'
    <3>1. seen[m] = "listed"
      BY <2>0, <2>5, CurrentKind DEF Processing, Continues, TypeOK, SaltTypeOK, Local, Applies
    <3>2. Current(m)' = Current(m) /\ States' = States /\ Current(m).kind = kind
      BY <2>1, <2>5, CurrentKind DEF Processing, Continues, Applies
    <3> QED
      BY <2>0, <2>5, <3>1, <3>2 DEF Local, Processing
  <2>6. ASSUME NEW kind \in {"settings", "things"}, SendThing(m, kind)
        PROVE  Local(m)'
    <3>1. todo' \subseteq todo /\ item' = None /\ left' = {}
      BY <2>6 DEF SendThing, Call, Treated
    <3> QED
      BY <2>5, <2>6, <3>1 DEF SendThing
  <2>7. CASE SeekKey(m)
    <3>1. Current(m).kind = "key" /\ phase = "running" /\ at[m] <= Len(States)
      BY <2>7, CurrentKind DEF SeekKey, Begins, Applies
    <3>2. CASE See(m, "absent")
      BY <2>0, <2>1, <2>7, <3>1, <3>2 DEF SeekKey, Begins, See, local, Local, TypeOK, SaltTypeOK
    <3> QED
      BY <2>2, <2>7, <3>2 DEF SeekKey, Begins, local
  <2>8. CASE AddKey(m) \/ DevicesBlocked(m) \/ Wait(m)
    <3>1. seen[m] # "listed"
      BY <2>0, <2>8, CurrentKind
         DEF AddKey, DevicesBlocked, Wait, Begins, Continues, Local, TypeOK, Applies
    <3>2. PICK ok \in BOOLEAN : Return(m, ok)
      BY <2>8 DEF AddKey, DevicesBlocked, Wait
    <3> QED
      BY <2>2, <2>8, <3>1, <3>2 DEF AddKey, DevicesBlocked, Wait, local
  <2>9. CASE PutDevice(m) \/ DeleteDevice(m) \/ PostDevice(m) \/ LinkDevice(m)
    <3>1. /\ Processing(m, "devices") /\ left = {}
          /\ item # None => item \notin todo
      <4>1. Processing(m, "devices")
        BY <2>9 DEF PutDevice, DeleteDevice, PostDevice, LinkDevice
      <4> QED
        BY <2>0, <4>1, CurrentKind DEF Local, Processing, Continues, TypeOK, Applies
    <3>2. PICK d : /\ d \in todo \/ d = item
                   /\ \E s : Proceed(d, s) \/ \E err : Treated(d, err)
      BY <2>9 DEF PutDevice, DeleteDevice, PostDevice, LinkDevice, Call, At
    <3>3. /\ todo' \subseteq todo /\ left' = {}
          /\ item' # None => item' = d /\ d \notin todo'
      BY <3>1, <3>2 DEF Proceed, Treated
    <3> QED
      BY <2>5, <3>1, <3>2, <3>3
  <2>10. CASE PassOver(m) \/ Assign(m) \/ Disconnect(m) \/ Configure(m)
    <3>1. /\ Processing(m, "assign")
          /\ item # None => item \notin todo
          /\ left # {} => item # None /\ step = 1
          /\ None \notin todo
      <4>1. Processing(m, "assign")
        BY <2>10 DEF PassOver, Assign, Disconnect, Configure
      <4>2. Current(m) \in AllStates /\ Current(m).kind = "assign"
        BY <4>1, CurrentKind DEF Processing, Continues, TypeOK
      <4>3. seen[m] = "listed"
        BY <2>0, <4>1, <4>2 DEF Processing, Continues, TypeOK, SaltTypeOK, Local
      <4>4. Current(m).items = Machines
        BY <4>2, KindsAssumption
      <4>5. None \notin todo
        BY <2>0, <4>3, <4>4, ObjectsAssumption DEF Local
      <4> QED
        BY <2>0, <4>1, <4>2, <4>3, <4>5 DEF Local
    <3>2. CASE PassOver(m)
      BY <2>5, <3>1, <3>2 DEF PassOver, Treated
    <3>3. CASE Assign(m)
      BY <2>5, <3>1, <3>3 DEF Assign
    <3>4. CASE Disconnect(m)
      <4>1. PICK k \in left :
              \/ left' = left \ {k} /\ UNCHANGED <<todo, item, step, errors>>
              \/ \E err : Treated(item, err)
        BY <3>4 DEF Disconnect, Call
      <4>2. /\ todo' \subseteq todo
            /\ item' # None => item' = item
            /\ left' # {} => left # {} /\ item' = item /\ step' = step
        BY <4>1 DEF Treated
      <4> QED
        BY <2>5, <3>1, <4>2
    <3>5. CASE Configure(m)
      <4>1. /\ left = {}
            /\ Proceed(item, step + 1) \/ \E err : Treated(item, err)
        BY <3>5 DEF Configure, Call
      <4> QED
        BY <2>5, <3>1, <4>1 DEF Treated, Proceed
    <3> QED
      BY <2>10, <3>2, <3>3, <3>4, <3>5
  <2> QED
    BY <1>1, <2>3, <2>4, <2>6, <2>7, <2>8, <2>9, <2>10 DEF Script, ListDevices
<1>2. CASE Stage
  <2>1. \A m \in Minions : seen[m] = Unseen
    BY <1>2, KindsAssumption DEF Stage, EndStage, AllOver, ProcessInv, Local, TypeOK, SaltTypeOK
  <2>2. \A m \in Minions : seen'[m] = Unseen
    BY <1>2, <2>1 DEF Stage, EndStage, Go, Fresh
  <2> QED
    BY <1>2, <2>1, <2>2 DEF Stage, local, ProcessInv, Local
<1>3. CASE Recommission \/ FinishCommissioning \/ UNCHANGED vars
  BY <1>3 DEF Recommission, FinishCommissioning, vars, saltVars, local, ProcessInv, Local,
              Current, States
<1> QED
  BY <1>1, <1>2, <1>3 DEF Next

-------------------------------------------------------------------------------
(* What no step undoes.                                                     *)

\* Nobody has to assign addresses to n any more.
Assigned(n) == n \in Deployed \union again \/ \A k \in Nics : link[n][k] = k

LEMMA RecommissionStep ==
  ASSUME TypeOK, Recommission
  PROVE  /\ \A n \in Machines : Assigned(n) => Assigned(n)'
         /\ \A n \in Machines : n \in again \/ n \in again' \/ link'[n] = link[n]
<1>1. PICK n \in Machines : /\ link' = [link EXCEPT ![n] = [k \in Nics |-> None]]
                            /\ again' = again \union {n}
  BY DEF Recommission
<1> QED
  BY <1>1 DEF TypeOK, Assigned

LEMMA DisturbedStep ==
  ASSUME TypeOK, ProcessInv, [Next]_vars
  PROVE  /\ \A d \in Devices :
              mac[d] = d => mac'[d] = d /\ (address[d] = d => address'[d] = d)
         /\ \A o \in Things : kept[o] = "pillar" => kept'[o] = "pillar"
         /\ taken' = taken
         /\ \/ \A n \in Machines : Assigned(n) => Assigned(n)'
            \/ \E m \in Minions : Applies(m, "assign")
<1> USE DEF TypeOK
<1>1. ASSUME NEW m \in Minions, Script(m)
      PROVE  /\ kept' = kept \/ \E o : kept' = [kept EXCEPT ![o] = "pillar"]
             /\ \/ UNCHANGED <<mac, address>>
                \/ \E d : /\ mac' = [mac EXCEPT ![d] = d] \/ mac' = mac
                          /\ address' = [address EXCEPT ![d] = d] \/ address' = address
                \/ \E d : /\ mac[d] # d
                          /\ mac' = [mac EXCEPT ![d] = None]
                          /\ address' = [address EXCEPT ![d] = None]
             /\ taken' = taken
             /\ UNCHANGED <<link, again>> \/ Applies(m, "assign")
  <2>1. ASSUME NEW kind, List(m, kind) \/ EndProcess(m, kind)
        PROVE  UNCHANGED <<kept, mac, address, taken, link, again>>
    BY <2>1 DEF List, EndProcess, maas
  <2>2. ASSUME NEW kind, SendThing(m, kind)
        PROVE  /\ UNCHANGED <<mac, address, taken, link, again>>
               /\ kept' = kept \/ \E o : kept' = [kept EXCEPT ![o] = "pillar"]
    BY <2>2 DEF SendThing, Processing, Call
  <2>3. CASE SeekKey(m) \/ AddKey(m)
    BY <2>3 DEF SeekKey, AddKey, maas
  <2>4. CASE DevicesBlocked(m) \/ Wait(m)
    BY <2>4 DEF DevicesBlocked, Wait, maas
  <2>5. CASE PutDevice(m)
    BY <2>5 DEF PutDevice, Processing, Call, maas
  <2>6. CASE DeleteDevice(m)
    BY <2>6 DEF DeleteDevice, Processing, Call
  <2>7. CASE PostDevice(m)
    <3>1. PICK d \in Devices :
            Call(d, mac' = [mac EXCEPT ![d] = d], UNCHANGED mac, Proceed(d, Link),
                 IF d \in taken THEN {"exists"}
                 ELSE IF \E e \in Devices : mac[e] = d THEN {"other"} ELSE {})
      BY <2>7 DEF PostDevice
    <3>2. mac' = [mac EXCEPT ![d] = d] \/ mac' = mac
      BY <3>1 DEF Call
    <3> QED
      BY <2>7, <3>2 DEF PostDevice, Processing
  <2>8. CASE LinkDevice(m)
    <3>1. PICK d \in Devices :
            Call(d, address' = [address EXCEPT ![d] = d], UNCHANGED address, Treated(d, {}),
                 IF \E e \in Devices \ {d} : address[e] = d THEN {"other"} ELSE {})
      BY <2>8 DEF LinkDevice
    <3>2. address' = [address EXCEPT ![d] = d] \/ address' = address
      BY <3>1 DEF Call
    <3> QED
      BY <2>8, <3>2 DEF LinkDevice, Processing
  <2>9. CASE PassOver(m) \/ Assign(m) \/ Disconnect(m) \/ Configure(m)
    BY <2>9 DEF PassOver, Assign, Disconnect, Configure, Processing, Continues
  <2> QED
    BY <1>1, <2>1, <2>2, <2>3, <2>4, <2>5, <2>6, <2>7, <2>8, <2>9 DEF Script, ListDevices
<1>2. CASE \E m \in Minions : Script(m)
  <2>1. PICK m \in Minions : Script(m)
    BY <1>2
  <2>2. \A o \in Things : kept[o] = "pillar" => kept'[o] = "pillar"
    BY <1>1, <2>1
  <2>3. \A d \in Devices :
          mac[d] = d => mac'[d] = d /\ (address[d] = d => address'[d] = d)
    <3> DEFINE Kept == UNCHANGED <<mac, address>>
               Set(d) == /\ mac' = [mac EXCEPT ![d] = d] \/ mac' = mac
                         /\ address' = [address EXCEPT ![d] = d] \/ address' = address
               Deleted(d) == /\ mac[d] # d
                             /\ mac' = [mac EXCEPT ![d] = None]
                             /\ address' = [address EXCEPT ![d] = None]
    <3> SUFFICES ASSUME NEW e \in Devices, mac[e] = e
                 PROVE  mac'[e] = e /\ (address[e] = e => address'[e] = e)
      OBVIOUS
    <3>1. Kept \/ (\E d : Set(d)) \/ (\E d : Deleted(d))
      BY <1>1, <2>1
    <3>2. CASE Kept
      BY <3>2
    <3>3. CASE \E d : Set(d)
      BY <3>3
    <3>4. CASE \E d : Deleted(d)
      BY <3>4
    <3> HIDE DEF Kept, Set, Deleted
    <3> QED
      BY <3>1, <3>2, <3>3, <3>4
  <2>4. UNCHANGED <<link, again>> => \A n \in Machines : Assigned(n) => Assigned(n)'
    BY DEF Assigned
  <2> QED
    BY <1>1, <2>1, <2>2, <2>3, <2>4
<1>3. CASE Recommission
  BY <1>3, RecommissionStep DEF Recommission
<1>4. CASE Stage \/ FinishCommissioning \/ UNCHANGED vars
  BY <1>4 DEF Stage, FinishCommissioning, vars, maas, Assigned
<1> QED
  BY <1>2, <1>3, <1>4 DEF Next

-------------------------------------------------------------------------------
(* What is in place after a state that has succeeded.                       *)

DeviceInPlace(d) == mac[d] = d /\ address[d] = d

InPlace(s) ==
  /\ s.kind \in {"settings", "things"} => \A o \in s.items : kept[o] = "pillar"
  /\ s.kind = "key" => kept[s.name] = "pillar"
  /\ s.kind = "devices" /\ taken = {} => \A d \in s.items : DeviceInPlace(d)
  /\ s.kind = "assign" => \A n \in Machines : Assigned(n)

\* State i of stage k has been applied in this attempt, and nothing has failed.
Passed(k, i) ==
  k < stage \/ (k = stage /\ \A m \in Minions : failed[m] = {} /\ i < at[m])

PassedInv ==
  \A k \in DOMAIN Stages : \A i \in DOMAIN Stages[k].states :
    Passed(k, i) => InPlace(Stages[k].states[i])

DoneInv == phase = "done" => \A s \in AllStates : InPlace(s)

\* What process() has treated without an error is in place.
Treating(s) ==
  /\ "exists" \in errors => s.kind = "devices" /\ taken # {}
  /\ errors = {} =>
       /\ s.kind \in {"settings", "things"} =>
            \A o \in s.items \ todo : kept[o] = "pillar"
       /\ s.kind = "devices" =>
            \A d \in s.items \ todo : d # item => DeviceInPlace(d)
       /\ s.kind = "assign" =>
            \A n \in Machines \ todo : n # item => Assigned(n)
  /\ item # None /\ s.kind = "devices" /\ step = Link => mac[item] = item
  /\ item # None /\ s.kind = "assign" /\ left = {} /\ item \notin again =>
       \A i \in 1 .. step - 1 : link[item][NicOrder[i]] = NicOrder[i]

WorkInv == \A m \in Minions : seen[m] = "listed" => Treating(Current(m))

StatusInv ==
  \A n \in Machines :
    listed[n] = "Deployed" \/ status[n] = "Deployed" => n \in Deployed

Inv == TypeOK /\ ProcessInv /\ PassedInv /\ DoneInv /\ WorkInv /\ StatusInv

LEMMA InPlaceStep ==
  ASSUME TypeOK, ProcessInv, [Next]_vars, NEW s \in AllStates, InPlace(s),
         s.kind = "assign" => \A n \in Machines : Assigned(n) => Assigned(n)'
  PROVE  InPlace(s)'
<1>1. /\ s.kind \in {"settings", "things"} => s.items \subseteq Things
      /\ s.kind = "key" => s.name \in Things
      /\ s.kind = "devices" => s.items \subseteq Devices
  BY KindsAssumption
<1> QED
  BY <1>1, DisturbedStep DEF InPlace, DeviceInPlace

\* A state that has passed is not the one that assigns addresses now.
LEMMA PassedStep ==
  ASSUME TypeOK, ProcessInv, PassedInv, [Next]_vars,
         NEW k \in DOMAIN Stages, NEW i \in DOMAIN Stages[k].states, Passed(k, i)
  PROVE  InPlace(Stages[k].states[i])'
<1> DEFINE s == Stages[k].states[i]
<1>1. s \in AllStates /\ InPlace(s)
  BY DEF AllStates, PassedInv
<1>2. ASSUME s.kind = "assign", NEW m \in Minions, Applies(m, "assign")
      PROVE  FALSE
  <2>1. Current(m).kind = "assign" /\ at[m] \in DOMAIN States /\ stage \in DOMAIN Stages
    BY <1>2, CurrentKind, StagesAssumption DEF TypeOK, SaltTypeOK
  <2>2. k = stage /\ i = at[m]
    BY <1>2, <2>1, PillarAssumption DEF Current, States
  <2> QED
    BY <2>2, StagesAssumption DEF Passed, TypeOK, SaltTypeOK
<1>3. s.kind = "assign" => \A n \in Machines : Assigned(n) => Assigned(n)'
  BY <1>2, DisturbedStep
<1> QED
  BY <1>1, <1>3, InPlaceStep

LEMMA KeepPassed ==
  ASSUME TypeOK, ProcessInv, PassedInv, [Next]_vars,
         \/ UNCHANGED <<stage, at, failed>>
         \/ \E m \in Minions : \E ok \in BOOLEAN :
              /\ Return(m, ok) /\ at[m] \in DOMAIN States
              /\ ok => \A s \in AllStates : s = Current(m) => InPlace(s)'
  PROVE  PassedInv'
<1> SUFFICES ASSUME NEW k \in DOMAIN Stages, NEW i \in DOMAIN Stages[k].states, Passed(k, i)'
             PROVE  InPlace(Stages[k].states[i])'
  BY DEF PassedInv
<1>1. CASE Passed(k, i)
  BY <1>1, PassedStep
<1>2. CASE ~Passed(k, i)
  <2>1. ~UNCHANGED <<stage, at, failed>>
    BY <1>2 DEF Passed
  <2>2. PICK m \in Minions : \E ok \in BOOLEAN :
          /\ Return(m, ok) /\ at[m] \in DOMAIN States
          /\ ok => \A s \in AllStates : s = Current(m) => InPlace(s)'
    BY <2>1
  <2>3. PICK ok \in BOOLEAN :
          /\ Return(m, ok) /\ at[m] \in DOMAIN States
          /\ ok => \A s \in AllStates : s = Current(m) => InPlace(s)'
    BY <2>2
  <2>4. Minions = {m} /\ stage' = stage /\ at[m] \in Nat /\ at'[m] = at[m] + 1
    BY <2>3, KindsAssumption DEF Return, TypeOK, SaltTypeOK
  <2>5. ~(k < stage) /\ k = stage /\ failed'[m] = {} /\ i < at'[m]
    BY <1>2, <2>4 DEF Passed
  <2>6. ok /\ failed'[m] = failed[m]
    BY <2>3, <2>5 DEF Return, TypeOK, SaltTypeOK
  <2>7. i = at[m]
    BY <1>2, <2>4, <2>5, <2>6, StagesAssumption DEF Passed
  <2> QED
    BY <2>3, <2>5, <2>6, <2>7 DEF Current, States, AllStates
<1> QED
  BY <1>1, <1>2

\* A state of the minion ends only with what it is for in place, or in failure.
LEMMA ReturnStep ==
  ASSUME Inv, [Next]_vars, NEW m \in Minions, Script(m)
  PROVE  \/ UNCHANGED <<stage, at, failed, phase>>
         \/ \E ok \in BOOLEAN :
              /\ Return(m, ok) /\ at[m] \in DOMAIN States
              /\ ok => \A s \in AllStates : s = Current(m) => InPlace(s)'
<1> USE DEF Inv
<1>1. ASSUME NEW kind, Applies(m, kind), NEW ok \in BOOLEAN, Return(m, ok),
             ok => \A s \in AllStates : s = Current(m) => InPlace(s)'
      PROVE  \E x \in BOOLEAN :
               /\ Return(m, x) /\ at[m] \in DOMAIN States
               /\ x => \A s \in AllStates : s = Current(m) => InPlace(s)'
  BY <1>1, CurrentKind DEF TypeOK
<1>2. ASSUME NEW kind, List(m, kind)
      PROVE  UNCHANGED <<stage, at, failed, phase>> \/ (Applies(m, kind) /\ Return(m, FALSE))
  BY <1>2 DEF List, Begins, See
<1>3. ASSUME NEW kind \in ProcessKinds, EndProcess(m, kind)
      PROVE  \E ok \in BOOLEAN :
               /\ Applies(m, kind) /\ Return(m, ok)
               /\ ok => \A s \in AllStates : s = Current(m) => InPlace(s)'
  <2>1. Applies(m, kind) /\ Return(m, errors = {} \/ "exists" \in errors)
    BY <1>3 DEF EndProcess, Continues
  <2>2. Current(m).kind = kind /\ Current(m) \in AllStates
    BY <2>1, CurrentKind DEF TypeOK
  <2>3. seen[m] = "listed" /\ todo = {} /\ item = None
    BY <1>3, <2>2 DEF EndProcess, Idle, Continues, ProcessInv, Local, TypeOK, SaltTypeOK,
                      ProcessKinds
  <2>4. Treating(Current(m))
    BY <2>3 DEF WorkInv
  <2>5. ASSUME errors = {} \/ "exists" \in errors, NEW s \in AllStates, s = Current(m)
        PROVE  InPlace(s)
    <3>1. s.kind = "devices" => s.items \subseteq Devices
      BY KindsAssumption
    <3>2. s.kind = kind /\ kind # "key"
      BY <2>2, <2>5 DEF ProcessKinds
    <3>3. None \notin Devices /\ None \notin Machines
      BY ObjectsAssumption
    <3> QED
      BY <2>3, <2>4, <2>5, <3>1, <3>2, <3>3 DEF InPlace, Treating
  <2>6. \A n \in Machines : Assigned(n) => Assigned(n)'
    BY <1>3 DEF EndProcess, maas, Assigned
  <2>7. ASSUME errors = {} \/ "exists" \in errors, NEW s \in AllStates, s = Current(m)
        PROVE  InPlace(s)'
    BY <2>5, <2>6, <2>7, InPlaceStep
  <2> QED
    BY <2>1, <2>7
<1>4. CASE SeekKey(m) \/ AddKey(m)
  <2>1. Applies(m, "key")
    BY <1>4 DEF SeekKey, AddKey, Begins, Continues
  <2>2. Current(m).kind = "key" /\ Current(m) \in AllStates
    BY <2>1, CurrentKind DEF TypeOK
  <2>3. ASSUME kept'[Current(m).name] = "pillar", NEW s \in AllStates, s = Current(m)
        PROVE  InPlace(s)'
    BY <2>2, <2>3 DEF InPlace
  <2>4. Current(m).name \in Things
    BY <2>2, KindsAssumption
  <2>5. \/ UNCHANGED <<stage, at, failed, phase>>
        \/ Return(m, TRUE) /\ kept'[Current(m).name] = "pillar"
        \/ Return(m, FALSE)
    BY <1>4, <2>4 DEF SeekKey, AddKey, See, TypeOK, maas
  <2> QED
    BY <1>1, <2>1, <2>3, <2>5
<1>5. CASE DevicesBlocked(m)
  BY <1>1, <1>5 DEF DevicesBlocked, Begins
<1>6. CASE Wait(m)
  <2>1. Applies(m, "wait") /\ \E ok \in BOOLEAN : Return(m, ok)
    BY <1>6 DEF Wait, Begins
  <2>2. \A s \in AllStates : s = Current(m) => InPlace(s)'
    BY <2>1, CurrentKind DEF TypeOK, InPlace
  <2> QED
    BY <1>1, <2>1, <2>2
<1>7. ASSUME NEW kind, Processing(m, kind)
      PROVE  UNCHANGED <<stage, at, failed, phase>>
  BY <1>7 DEF Processing
<1> QED
  BY <1>1, <1>2, <1>3, <1>4, <1>5, <1>6, <1>7
     DEF Script, ListDevices, SendThing, PutDevice, DeleteDevice, PostDevice, LinkDevice,
         PassOver, Assign, Disconnect, Configure, ProcessKinds

\* When all states of a stage have passed, so has the stage.
LEMMA StageStep ==
  ASSUME TypeOK, ProcessInv, PassedInv, DoneInv, Stage
  PROVE  PassedInv' /\ DoneInv'
<1> USE DEF Stage, EndStage
<1>1. PICK m \in Minions : Minions = {m}
  BY KindsAssumption
<1>2. stage \in DOMAIN Stages /\ Stages[stage].minions = {m} /\ Len(Stages) \in Nat
  BY <1>1, KindsAssumption, StagesAssumption DEF TypeOK, SaltTypeOK
<1>3. \A s : InPlace(s)' <=> InPlace(s)
  BY DEF maas, InPlace, DeviceInPlace, Assigned
<1>4. AllWell => \A k \in 1 .. stage : \A i \in DOMAIN Stages[k].states : Passed(k, i)
  BY <1>1, <1>2, StagesAssumption DEF AllWell, AllOver, Passed, States, TypeOK, SaltTypeOK
<1>5. \A k \in DOMAIN Stages : \A i \in DOMAIN Stages[k].states :
        Passed(k, i)' => Passed(k, i)
  <2>1. CASE AllWell /\ stage < Len(Stages) /\ Go(stage + 1)
    BY <1>1, <1>2, <1>4, <2>1, StagesAssumption DEF Go, Start, Passed
  <2>2. CASE UNCHANGED <<stage, at, failed>>
    BY <2>2 DEF Passed
  <2>3. CASE Go(1)
    BY <1>1, <2>3, StagesAssumption DEF Go, Start, Passed
  <2> QED
    BY <2>1, <2>2, <2>3
<1>6. PassedInv'
  BY <1>3, <1>5 DEF PassedInv
<1>7. DoneInv'
  <2>1. SUFFICES ASSUME phase' = "done" PROVE \A s \in AllStates : InPlace(s)
    BY <1>3 DEF DoneInv
  <2>2. AllWell /\ stage = Len(Stages)
    BY <2>1
  <2> QED
    BY <1>2, <1>4, <2>2, StagesAssumption DEF AllStates, PassedInv
<1> QED
  BY <1>6, <1>7

LEMMA ProcessingFacts ==
  ASSUME Inv, NEW m \in Minions, NEW kind \in ProcessKinds, Processing(m, kind)
  PROVE  /\ Applies(m, kind) /\ Current(m).kind = kind /\ Current(m) \in AllStates
         /\ Treating(Current(m)) /\ Current(m)' = Current(m)
         /\ todo \subseteq Current(m).items
         /\ item # None => item \in Current(m).items \ todo
         /\ left # {} => item # None /\ step = 1
         /\ kind = "devices" => Current(m).items \subseteq Devices
         /\ kind = "assign" => Current(m).items = Machines
<1>1. Applies(m, kind) /\ seen[m] # Unseen
  BY DEF Processing, Continues
<1>2. Current(m).kind = kind /\ Current(m) \in AllStates
  BY <1>1, CurrentKind DEF Inv, TypeOK
<1>3. seen[m] = "listed"
  BY <1>1, <1>2 DEF Inv, ProcessInv, Local, TypeOK, SaltTypeOK, ProcessKinds
<1>4. Current(m)' = Current(m)
  BY DEF Processing, Current, States
<1>5. Treating(Current(m)) /\ Local(m)
  BY <1>3 DEF Inv, WorkInv, ProcessInv
<1> QED
  BY <1>1, <1>2, <1>3, <1>4, <1>5, KindsAssumption DEF Local

LEMMA DeviceStep ==
  ASSUME Inv, [Next]_vars, NEW m \in Minions,
         PutDevice(m) \/ DeleteDevice(m) \/ PostDevice(m) \/ LinkDevice(m)
  PROVE  Treating(Current(m))'
<1>1. Processing(m, "devices") /\ taken' = taken
  BY DEF PutDevice, DeleteDevice, PostDevice, LinkDevice, Processing
<1> PICK s \in AllStates : s = Current(m) /\ s = Current(m)'
  BY <1>1, ProcessingFacts DEF ProcessKinds
<1>2. /\ s.kind = "devices" /\ Treating(s) /\ todo \subseteq s.items
      /\ s.items \subseteq Devices
      /\ item # None => item \in s.items \ todo
  BY <1>1, ProcessingFacts DEF ProcessKinds
<1>3. None \notin Devices
  BY ObjectsAssumption
<1>4. \A d \in Devices : mac[d] = d => mac'[d] = d /\ (address[d] = d => address'[d] = d)
  BY DisturbedStep DEF Inv
<1>5. \A d \in Devices : DeviceInPlace(d) => DeviceInPlace(d)'
  BY <1>4 DEF DeviceInPlace
<1>6. ASSUME NEW d \in Devices, NEW x, Proceed(d, x), item \in {None, d},
             x = Link => mac'[d] = d
      PROVE  Treating(s)'
  <2>1. ASSUME errors = {}, NEW e \in s.items \ todo', e # d
        PROVE  DeviceInPlace(e)'
    <3>1. e \in Devices /\ e \notin todo /\ e # item
      BY <1>2, <1>3, <1>6, <2>1 DEF Proceed
    <3> QED
      BY <1>2, <1>5, <2>1, <3>1 DEF Treating
  <2> QED
    BY <1>1, <1>2, <1>6, <2>1 DEF Treating, Proceed
<1>7. ASSUME NEW d \in Devices, NEW err \in {{}, {"exists"}, {"other"}}, Treated(d, err),
             item \in {None, d}, "exists" \in err => taken # {},
             err = {} => DeviceInPlace(d)'
      PROVE  Treating(s)'
  <2>1. ASSUME errors' = {}, NEW e \in s.items \ todo'
        PROVE  DeviceInPlace(e)'
    <3>1. CASE e = d
      BY <1>7, <2>1, <3>1 DEF Treated
    <3>2. CASE e # d
      <4>1. e \in Devices /\ e \notin todo /\ e # item /\ errors = {}
        BY <1>2, <1>3, <1>7, <2>1, <3>2 DEF Treated
      <4> QED
        BY <1>2, <1>5, <4>1 DEF Treating
    <3> QED
      BY <3>1, <3>2
  <2> QED
    BY <1>1, <1>2, <1>7, <2>1 DEF Treating, Treated
<1> USE DEF Inv, TypeOK
<1>8. CASE PutDevice(m)
  <2>1. PICK d \in todo : mac[d] = d /\ (Proceed(d, Link) \/ Treated(d, {"other"}))
    BY <1>8 DEF PutDevice, Call
  <2>2. item = None /\ d \in Devices /\ mac'[d] = d
    BY <1>2, <1>4, <1>8, <2>1 DEF PutDevice, Idle
  <2> QED
    BY <1>6, <1>7, <2>1, <2>2
<1>9. CASE DeleteDevice(m)
  <2>1. PICK d \in todo : Proceed(d, Post) \/ Treated(d, {"other"})
    BY <1>9 DEF DeleteDevice, Call
  <2>2. item = None /\ d \in Devices
    BY <1>2, <1>9, <2>1 DEF DeleteDevice, Idle
  <2> QED
    BY <1>6, <1>7, <2>1, <2>2 DEF Post, Link
<1>10. CASE PostDevice(m)
  <2>1. PICK d \in Devices :
          /\ At(d, Post) \/ (Idle /\ d \in todo /\ mac[d] = None)
          /\ Call(d, mac' = [mac EXCEPT ![d] = d], UNCHANGED mac, Proceed(d, Link),
                  IF d \in taken THEN {"exists"}
                  ELSE IF \E e \in Devices : mac[e] = d THEN {"other"} ELSE {})
    BY <1>10 DEF PostDevice
  <2>2. \/ Proceed(d, Link) /\ mac' = [mac EXCEPT ![d] = d]
        \/ Treated(d, {"other"})
        \/ Treated(d, {"exists"}) /\ d \in taken
    BY <2>1 DEF Call
  <2>3. item \in {None, d}
    BY <2>1 DEF At, Idle
  <2>4. Proceed(d, Link) /\ mac' = [mac EXCEPT ![d] = d] => mac'[d] = d
    OBVIOUS
  <2> QED
    BY <1>6, <1>7, <2>2, <2>3, <2>4
<1>11. CASE LinkDevice(m)
  <2>1. PICK d \in Devices :
          /\ At(d, Link)
          /\ Call(d, address' = [address EXCEPT ![d] = d], UNCHANGED address, Treated(d, {}),
                  IF \E e \in Devices \ {d} : address[e] = d THEN {"other"} ELSE {})
    BY <1>11 DEF LinkDevice
  <2>2. \/ Treated(d, {"other"})
        \/ Treated(d, {}) /\ address' = [address EXCEPT ![d] = d]
    BY <2>1 DEF Call
  <2>3. item = d /\ mac[d] = d
    BY <1>2, <1>3, <2>1 DEF At, Treating
  <2>4. address' = [address EXCEPT ![d] = d] => DeviceInPlace(d)'
    BY <1>4, <2>3 DEF DeviceInPlace
  <2> QED
    BY <1>7, <2>2, <2>3, <2>4
<1> QED
  BY <1>8, <1>9, <1>10, <1>11

LEMMA AssignStep ==
  ASSUME Inv, [Next]_vars, NEW m \in Minions,
         PassOver(m) \/ Assign(m) \/ Disconnect(m) \/ Configure(m)
  PROVE  Treating(Current(m))'
<1> DEFINE OthersSame(n) ==
             \A k \in Machines : k # n => link'[k] = link[k] /\ (k \in again => k \in again')
<1>1. Processing(m, "assign") /\ taken' = taken
  BY DEF PassOver, Assign, Disconnect, Configure, Processing
<1> PICK s \in AllStates : s = Current(m) /\ s = Current(m)'
  BY <1>1, ProcessingFacts DEF ProcessKinds
<1>2. /\ s.kind = "assign" /\ Treating(s) /\ s.items = Machines
      /\ todo \subseteq Machines
      /\ item # None => item \in Machines \ todo
      /\ left # {} => item # None /\ step = 1
  BY <1>1, ProcessingFacts DEF ProcessKinds
<1>3. None \notin Machines /\ Len(NicOrder) \in Nat
      /\ DOMAIN NicOrder = 1 .. Len(NicOrder)
      /\ Nics = {NicOrder[i] : i \in 1 .. Len(NicOrder)}
  BY ObjectsAssumption
<1>4. \A n \in Machines \ todo : errors = {} /\ n # item => Assigned(n)
  BY <1>2 DEF Treating
<1>5. link \in [Machines -> [Nics -> Nics \union {None}]] /\ step \in Nat \ {0}
  BY <1>3 DEF Inv, TypeOK, Post, Link
<1>6. ASSUME NEW n \in Machines, NEW err \in {{}, {"other"}}, Treated(n, err),
             OthersSame(n), item \in {None, n},
             err = {} => Assigned(n)'
      PROVE  Treating(s)'
  <2>1. ASSUME errors' = {}, NEW k \in Machines \ todo'
        PROVE  Assigned(k)'
    <3>1. CASE k = n
      BY <1>6, <2>1, <3>1 DEF Treated
    <3>2. CASE k # n
      BY <1>3, <1>4, <1>6, <2>1, <3>2 DEF Treated, Assigned
    <3> QED
      BY <3>1, <3>2
  <2> QED
    BY <1>1, <1>2, <1>6, <2>1 DEF Treating, Treated
<1>7. ASSUME NEW n \in Machines, item' = n, todo' = todo \ {n}, errors' = errors,
             OthersSame(n), item \in {None, n},
             left' = {} /\ n \notin again' =>
               \A i \in 1 .. step' - 1 : link'[n][NicOrder[i]] = NicOrder[i]
      PROVE  Treating(s)'
  <2>1. ASSUME errors' = {}, NEW k \in Machines \ todo', k # n
        PROVE  Assigned(k)'
    BY <1>3, <1>4, <1>7, <2>1 DEF Assigned
  <2> QED
    BY <1>1, <1>2, <1>7, <2>1 DEF Treating
<1>8. CASE PassOver(m)
  <2>1. PICK n \in todo : /\ listed[n] # "Ready" /\ Turn(n)
                          /\ Treated(n, IF listed[n] = "Deployed" THEN {} ELSE {"other"})
    BY <1>8 DEF PassOver
  <2>2. n \in Machines /\ item = None /\ OthersSame(n)
    BY <1>2, <1>8, <2>1 DEF PassOver, Turn, Idle
  <2>3. listed[n] = "Deployed" => Assigned(n)'
    BY <2>2 DEF Inv, StatusInv, Assigned
  <2> QED
    BY <1>1, <1>6, <2>1, <2>2, <2>3
<1>9. CASE Assign(m)
  <2>1. PICK n \in todo : /\ item' = n /\ step' = 1 /\ left' = Nics /\ Turn(n)
                          /\ todo' = todo \ {n} /\ UNCHANGED errors
    BY <1>9 DEF Assign
  <2>2. n \in Machines /\ item = None /\ OthersSame(n)
    BY <1>2, <1>9, <2>1 DEF Assign, Turn, Idle
  <2> QED
    BY <1>1, <1>7, <2>1, <2>2
<1>10. CASE Disconnect(m)
  <2>1. PICK k \in left :
          Call(item, link' = [link EXCEPT ![item][k] = None], UNCHANGED link,
               left' = left \ {k} /\ UNCHANGED <<todo, item, step, errors>>, NotReady(item))
    BY <1>10 DEF Disconnect
  <2>2. item \in Machines \ todo /\ step = 1
    BY <1>2, <2>1
  <2>3. OthersSame(item)
    BY <1>5, <1>10, <2>1, <2>2 DEF Disconnect, Call, NotReady
  <2>4. \/ Treated(item, {"other"})
        \/ left' = left \ {k} /\ UNCHANGED <<todo, item, step, errors>>
    BY <2>1 DEF Call, NotReady
  <2> QED
    BY <1>1, <1>6, <1>7, <2>2, <2>3, <2>4
<1>11. CASE Configure(m)
  <2> DEFINE k == NicOrder[step]
  <2>1. /\ left = {} /\ item # None
        /\ Call(item, link' = [link EXCEPT ![item][k] = k], UNCHANGED link,
             IF step < Len(NicOrder) THEN Proceed(item, step + 1) ELSE Treated(item, {}),
             IF \E n \in Nics \ {k} : link[item][n] = k THEN {"other"} ELSE NotReady(item))
    BY <1>11 DEF Configure, Idle
  <2>2. item \in Machines \ todo
    BY <1>2, <2>1
  <2>3. OthersSame(item) /\ again' = again
    BY <1>5, <1>11, <2>1, <2>2 DEF Configure, Call, NotReady
  <2>4. \/ Treated(item, {"other"})
        \/ /\ link' = [link EXCEPT ![item][k] = k]
           /\ IF step < Len(NicOrder) THEN Proceed(item, step + 1) ELSE Treated(item, {})
    BY <2>1 DEF Call, NotReady
  <2>5. ASSUME link' = [link EXCEPT ![item][k] = k], item \notin again,
               NEW i \in DOMAIN NicOrder, i <= step
        PROVE  link'[item][NicOrder[i]] = NicOrder[i]
    <3>1. NicOrder[i] \in Nics /\ link'[item] = [link[item] EXCEPT ![k] = k]
          /\ link[item] \in [Nics -> Nics \union {None}]
      BY <1>3, <1>5, <2>2, <2>5
    <3>2. CASE i = step
      BY <3>1, <3>2
    <3>3. CASE i # step
      <4>1. i \in 1 .. step - 1
        BY <1>3, <1>5, <2>5, <3>3
      <4>2. link[item][NicOrder[i]] = NicOrder[i]
        BY <1>2, <2>1, <2>5, <4>1 DEF Treating
      <4> QED
        BY <3>1, <4>2
    <3> QED
      BY <3>2, <3>3
  <2>6. CASE Treated(item, {"other"})
    BY <1>1, <1>6, <2>2, <2>3, <2>6
  <2>7. CASE link' = [link EXCEPT ![item][k] = k] /\ step < Len(NicOrder)
             /\ Proceed(item, step + 1)
    <3>1. item \notin again => \A i \in 1 .. step' - 1 : link'[item][NicOrder[i]] = NicOrder[i]
      BY <1>3, <1>5, <2>5, <2>7 DEF Proceed
    <3>2. todo' = todo \ {item} /\ item' = item /\ errors' = errors
      BY <2>7 DEF Proceed
    <3> QED
      BY <1>1, <1>7, <2>2, <2>3, <3>1, <3>2
  <2>8. CASE link' = [link EXCEPT ![item][k] = k] /\ ~(step < Len(NicOrder))
             /\ Treated(item, {})
    <3>1. item \notin again => \A i \in DOMAIN NicOrder : link'[item][NicOrder[i]] = NicOrder[i]
      BY <1>3, <1>5, <2>5, <2>8
    <3>2. item \notin again => \A n \in Nics : link'[item][n] = n
      BY <1>3, <3>1
    <3>3. PICK n \in Machines : n = item
      BY <2>2
    <3>4. Assigned(n)'
      BY <2>3, <3>2, <3>3 DEF Assigned
    <3>5. Treated(n, {}) /\ item \in {None, n}
      BY <2>8, <3>3
    <3> QED
      BY <1>6, <2>3, <3>3, <3>4, <3>5
  <2> QED
    BY <2>4, <2>6, <2>7, <2>8
<1> QED
  BY <1>8, <1>9, <1>10, <1>11

LEMMA WorkStep ==
  ASSUME Inv, [Next]_vars
  PROVE  WorkInv'
<1> USE DEF Inv, Unseen
<1>1. ASSUME NEW m \in Minions, Script(m)
      PROVE  WorkInv'
  <2>1. Minions = {m}
    BY <1>1, KindsAssumption
  <2> SUFFICES ASSUME seen'[m] = "listed"
               PROVE  Treating(Current(m))'
    BY <2>1 DEF WorkInv
  <2>2. ASSUME NEW ok, Return(m, ok)
        PROVE  FALSE
    BY <2>2 DEF Return, TypeOK, SaltTypeOK
  <2>3. ASSUME NEW kind \in ProcessKinds, List(m, kind)
        PROVE  Treating(Current(m))'
    <3>1. /\ See(m, "listed") /\ todo' = Current(m).items
          /\ UNCHANGED <<item, step, left, errors>>
      BY <2>2, <2>3 DEF List
    <3>2. /\ item = None /\ errors = {} /\ Applies(m, kind)
      BY <2>3 DEF List, Begins, ProcessInv, Local
    <3>3. Current(m)' = Current(m)
      BY <3>1 DEF See, Current, States
    <3>4. Current(m) \in AllStates /\ Current(m).kind \in ProcessKinds
      BY <3>2, CurrentKind DEF TypeOK
    <3>5. Current(m).kind = "assign" => Current(m).items = Machines
      BY <3>4, KindsAssumption
    <3> QED
      BY <3>1, <3>2, <3>3, <3>4, <3>5 DEF Treating, ProcessKinds
  <2>4. ASSUME NEW kind \in {"settings", "things"}, SendThing(m, kind)
        PROVE  Treating(Current(m))'
    <3>1. Processing(m, kind) /\ item = None /\ taken' = taken
      BY <2>4 DEF SendThing, Idle, Processing
    <3> PICK s \in AllStates : s = Current(m) /\ s = Current(m)'
      BY <3>1, ProcessingFacts DEF ProcessKinds
    <3>2. s.kind = kind /\ Treating(s) /\ todo \subseteq s.items
      BY <3>1, ProcessingFacts DEF ProcessKinds
    <3>3. s.items \subseteq Things
      BY <3>2, KindsAssumption
    <3>4. PICK o \in todo :
            \/ kept' = [kept EXCEPT ![o] = "pillar"] /\ Treated(o, {})
            \/ Treated(o, {"other"})
      BY <2>4 DEF SendThing, Call
    <3>5. \A p \in Things : kept[p] = "pillar" => kept'[p] = "pillar"
      BY DisturbedStep
    <3>6. o \in Things /\ kept \in [Things -> {None, "other", "pillar"}]
      BY <3>2, <3>3 DEF TypeOK
    <3> QED
      BY <3>1, <3>2, <3>3, <3>4, <3>5, <3>6 DEF Treating, Treated
  <2>5. CASE SeekKey(m)
    BY <2>2, <2>5 DEF SeekKey, Begins, See, TypeOK, SaltTypeOK
  <2>6. CASE AddKey(m) \/ DevicesBlocked(m) \/ Wait(m)
              \/ \E kind \in ProcessKinds : EndProcess(m, kind)
    BY <2>2, <2>6 DEF AddKey, DevicesBlocked, Wait, EndProcess
  <2>7. CASE PutDevice(m) \/ DeleteDevice(m) \/ PostDevice(m) \/ LinkDevice(m)
    BY <2>7, DeviceStep
  <2>8. CASE PassOver(m) \/ Assign(m) \/ Disconnect(m) \/ Configure(m)
    BY <2>8, AssignStep
  <2> QED
    BY <1>1, <2>3, <2>4, <2>5, <2>6, <2>7, <2>8
       DEF Script, ListDevices, ProcessKinds
<1>2. CASE Stage
  <2>1. \A m \in Minions : seen'[m] = seen[m] \/ seen'[m] = Unseen
    BY <1>2 DEF Stage, EndStage, Go, Fresh
  <2>2. \A m \in Minions : seen[m] = Unseen
    BY <1>2, KindsAssumption DEF Stage, EndStage, AllOver, ProcessInv, Local, TypeOK, SaltTypeOK
  <2> QED
    BY <2>1, <2>2 DEF WorkInv
<1>3. CASE Recommission
  <2>1. \A n \in Machines : Assigned(n) => Assigned(n)'
    BY <1>3, RecommissionStep
  <2>2. ASSUME NEW m \in Minions, seen'[m] = "listed"
        PROVE  Treating(Current(m))'
    <3>1. seen[m] = "listed" /\ Treating(Current(m)) /\ Local(m)
      BY <1>3, <2>2 DEF Recommission, WorkInv, ProcessInv
    <3>2. Current(m)' = Current(m)
      BY <1>3 DEF Recommission, Current, States
    <3>3. again \subseteq again'
      BY <1>3 DEF Recommission
    <3>4. item \in Machines /\ item \notin again' => link'[item] = link[item] /\ item \notin again
      BY <1>3, <3>3, RecommissionStep
    <3>5. Current(m).kind = "assign" /\ item # None => item \in Machines
      <4>1. at[m] \in DOMAIN States /\ stage \in DOMAIN Stages
        BY <3>1, StagesAssumption DEF Local, States, TypeOK, SaltTypeOK
      <4>2. Current(m) \in AllStates
        BY <4>1 DEF Current, States, AllStates
      <4> QED
        BY <3>1, <4>2, KindsAssumption DEF Local
    <3> QED
      BY <1>3, <2>1, <3>1, <3>2, <3>4, <3>5 DEF Recommission, local, Treating, DeviceInPlace
  <2> QED
    BY <2>2 DEF WorkInv
<1>4. CASE FinishCommissioning \/ UNCHANGED vars
  BY <1>4 DEF FinishCommissioning, vars, maas, saltVars, local, WorkInv, Treating, Current,
              States, DeviceInPlace, Assigned
<1> QED
  BY <1>1, <1>2, <1>3, <1>4 DEF Next

\* No machine is deployed here.
LEMMA StatusStep ==
  ASSUME Inv, [Next]_vars
  PROVE  StatusInv'
<1> USE DEF Inv
<1>1. ASSUME listed' \in {listed, status},
             \A n \in Machines : status'[n] = "Deployed" => status[n] = "Deployed"
      PROVE  StatusInv'
  BY <1>1 DEF StatusInv
<1>2. ASSUME NEW m \in Minions, Script(m)
      PROVE  status' = status /\ listed' \in {listed, status}
  <2>1. ASSUME NEW kind, List(m, kind)
        PROVE  status' = status /\ listed' \in {listed, status}
    BY <2>1 DEF List, maas
  <2>2. ASSUME NEW kind, SendThing(m, kind) \/ EndProcess(m, kind)
        PROVE  UNCHANGED <<status, listed>>
    BY <2>2 DEF SendThing, EndProcess, Processing, maas
  <2>3. CASE SeekKey(m) \/ AddKey(m) \/ DevicesBlocked(m) \/ Wait(m)
    BY <2>3 DEF SeekKey, AddKey, DevicesBlocked, Wait, maas, local
  <2>4. CASE PutDevice(m)
    BY <2>4 DEF PutDevice, Processing, Call, maas
  <2>5. CASE \/ DeleteDevice(m) \/ PostDevice(m) \/ LinkDevice(m)
             \/ PassOver(m) \/ Assign(m) \/ Disconnect(m) \/ Configure(m)
    BY <2>5 DEF DeleteDevice, PostDevice, LinkDevice, PassOver, Assign, Disconnect, Configure,
                Processing
  <2> QED
    BY <1>2, <2>1, <2>2, <2>3, <2>4, <2>5 DEF Script, ListDevices
<1>3. CASE Recommission \/ FinishCommissioning
  BY <1>1, <1>3 DEF Recommission, FinishCommissioning, local, TypeOK
<1>4. CASE Stage \/ UNCHANGED vars
  BY <1>1, <1>4 DEF Stage, vars, maas, local
<1> QED
  BY <1>1, <1>2, <1>3, <1>4 DEF Next

LEMMA InitInv == Init => Inv
<1> SUFFICES ASSUME Init PROVE Inv
  OBVIOUS
<1> USE StagesAssumption, ObjectsAssumption
        DEF Init, SaltInit, Start, Fresh, NoneFailed, Unseen, States
<1>1. TypeOK
  <2>1. kept \in [Things -> {None, "other", "pillar"}]
    OBVIOUS
  <2>2. link \in [Machines -> [Nics -> Nics \union {None}]]
    OBVIOUS
  <2> QED
    BY <2>1, <2>2 DEF TypeOK, SaltTypeOK, Statuses, Post
<1>2. ProcessInv /\ WorkInv /\ DoneInv
  BY DEF ProcessInv, Local, WorkInv, DoneInv
<1>3. PassedInv
  BY KindsAssumption DEF PassedInv, Passed
<1>4. StatusInv
  BY DEF StatusInv, Assigned
<1> QED
  BY <1>1, <1>2, <1>3, <1>4 DEF Inv

LEMMA NextInv == Inv /\ [Next]_vars => Inv'
<1> SUFFICES ASSUME Inv, [Next]_vars PROVE Inv'
  OBVIOUS
<1>1. TypeOK' /\ ProcessInv'
  BY TypeStep, ProcessStep DEF Inv
<1>2. PassedInv' /\ DoneInv'
  <2>1. CASE Stage
    BY <2>1, StageStep DEF Inv
  <2>2. ASSUME NEW m \in Minions, Script(m)
        PROVE  PassedInv' /\ DoneInv'
    <3>1. PassedInv'
      BY <2>2, ReturnStep, KeepPassed DEF Inv
    <3>2. phase' = phase /\ phase = "running"
      <4>1. phase' = phase
        BY <2>2, ReturnStep DEF Return
      <4>2. phase = "running"
        BY <2>2 DEF Script, ListDevices, List, SendThing, EndProcess, SeekKey,
             AddKey, DevicesBlocked, PutDevice, DeleteDevice, PostDevice, LinkDevice, PassOver,
             Assign, Disconnect, Configure, Wait, Processing, Begins, Continues, Applies
      <4> QED
        BY <4>1, <4>2
    <3> QED
      BY <3>1, <3>2 DEF DoneInv
  <2>3. CASE FinishCommissioning \/ UNCHANGED vars
    <3>1. UNCHANGED <<saltVars, kept, mac, address, link, again, taken>>
      BY <2>3 DEF FinishCommissioning, vars, maas
    <3> QED
      BY <3>1 DEF Inv, saltVars, PassedInv, DoneInv, Passed, InPlace, DeviceInPlace, Assigned
  <2>4. CASE Recommission
    <3>1. UNCHANGED <<stage, at, failed, phase>>
      BY <2>4 DEF Recommission
    <3>2. PassedInv'
      BY <3>1, KeepPassed DEF Inv
    <3>3. \A n \in Machines : Assigned(n) => Assigned(n)'
      BY <2>4, RecommissionStep DEF Inv
    <3>4. DoneInv'
      BY <3>1, <3>3, InPlaceStep DEF Inv, DoneInv
    <3> QED
      BY <3>2, <3>4
  <2> QED
    BY <2>1, <2>2, <2>3, <2>4 DEF Next
<1> QED
  BY <1>1, <1>2, WorkStep, StatusStep DEF Inv

LEMMA AlwaysInv == Spec => []Inv
BY InitInv, NextInv, PTL DEF Spec

-------------------------------------------------------------------------------
(***************************************************************************)
(* Types of everything process() and its states keep, whatever fails.      *)
(***************************************************************************)
THEOREM TypeCorrect == Spec => []TypeOK
BY AlwaysInv, PTL DEF Inv

(***************************************************************************)
(* A file that has succeeded has put the pillar's objects in place.        *)
(***************************************************************************)
THEOREM DoneInPlace == Spec => []InPlaceWhenDone
<1>1. Inv => InPlaceWhenDone
  BY PillarAssumption DEF Inv, InPlaceWhenDone, DoneInv, InPlace, DeviceInPlace
<1> QED
  BY <1>1, AlwaysInv, PTL

(***************************************************************************)
(* A file with assign_ip that has succeeded has configured all NICs of all *)
(* machines that nobody has commissioned again since.                      *)
(***************************************************************************)
THEOREM AddressesAssigned == Spec => []AddressesWhenDone
<1>1. Inv => AddressesWhenDone
  BY DEF Inv, AddressesWhenDone, DoneInv, InPlace, Assigned
<1> QED
  BY <1>1, AlwaysInv, PTL

(***************************************************************************)
(* What is as in the pillar stays so in every attempt.                     *)
(***************************************************************************)
THEOREM Undisturbed == Spec => NeverDisturbed
<1> DEFINE Same == /\ \A d \in Devices :
                        mac[d] = d => mac'[d] = d /\ (address[d] = d => address'[d] = d)
                   /\ \A o \in Things : kept[o] = "pillar" => kept'[o] = "pillar"
<1>1. Inv /\ [Next]_vars => [Same]_vars
  BY DisturbedStep DEF Inv
<1> QED
  BY <1>1, AlwaysInv, PTL DEF Spec, NeverDisturbed
===============================================================================
