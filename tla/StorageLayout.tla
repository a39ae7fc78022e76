---------------------------- MODULE StorageLayout -----------------------------
(***************************************************************************)
(* The storage of a machine: maas.machines.storage (storage.sls of         *)
(* salt-formula-maas), the states of _states/maasng.py it consists of and  *)
(* the functions of _modules/maasng.py these call.  The maas STATE file    *)
(* applies it to the machines that are Ready, before it deploys them; the  *)
(* file fails if one of the states does, and deploy.sh starts it again.    *)
(*                                                                         *)
(* A state looks at the machine once, decides what to do, and does it call *)
(* by call: `todo` is what is left of that.  Any call may fail, before or  *)
(* after MaaS has obeyed; there is no transaction around them.             *)
(*                                                                         *)
(* Abstractions:                                                           *)
(*  - One machine: the states of two machines share nothing.               *)
(*  - An item is <<d, k>>: for k > 0 the k-th partition of a disk or RAID, *)
(*    or the k-th volume of a volume group d; <<d, 0>> is d as a whole.    *)
(*  - Python enumerates partN of a schema as the N-th, so that MaaS, which *)
(*    counts, gives each partition the name that the pillar uses.          *)
(*  - Of the sizes it is only kept whether they are those of the pillar.   *)
(***************************************************************************)
EXTENDS Naturals, FiniteSets, SequencesExt

CONSTANTS
  Disks, Raids, Groups, \* what the pillar's `disk` describes or refers to
  Root,         \* the volume group of the layout `lvm`
  Order,        \* the keys of `disk`, after Salt has sorted by requisites
  Kids,         \* Kids[d]: the number of partitions or volumes of d
  Members,      \* Members[d]: the items that RAID or group d is made of
  Final,        \* Final[i]: how far item i gets: "bare", "formatted", "mounted"
  BootDevice,   \* bootable_device
  RootDevice,   \* the candidates for the disk of a layout flat or lvm: the
                \* root_device, or none if there is no such key
  Layouts,      \* the values of `type`; "none" if there is no such key
  MaxTries,     \* how often deploy.sh applies the states (5 in the code)
  MaxFaults,    \* bound: calls that fail, or whose answer is lost
  MaxRuns       \* bound: how often the maas STATE file is run again

Heads == Raids \union Groups
Kid(d) == {<<d, k>> : k \in 1 .. Kids[d]}
Planned ==
  {<<d, 0>> : d \in Heads} \union UNION {Kid(d) : d \in ToSet(Order)}

ASSUME StorageAssumption ==
  /\ IsFiniteSet(Disks) /\ IsFiniteSet(Raids) /\ IsFiniteSet(Groups)
  /\ Disks \intersect Heads = {} /\ Raids \intersect Groups = {}
  /\ Root \notin Disks \union Heads
  /\ Order \in Seq(Disks \union Heads) /\ Heads \subseteq ToSet(Order)
  /\ Kids \in [ToSet(Order) -> Nat]
  /\ \A d \in Heads : Members[d] \subseteq Planned \union {<<e, 0>> : e \in Disks}
  /\ Final \in [Planned -> {"bare", "formatted", "mounted"}]
  /\ \A d \in Heads : Final[<<d, 0>>] = "bare"
  /\ BootDevice \in Disks /\ RootDevice \subseteq Disks
  /\ Layouts \subseteq {"none", "flat", "lvm", "custom"}
  /\ MaxTries \in Nat \ {0} /\ MaxFaults \in Nat /\ MaxRuns \in Nat

VARIABLES
  have,     \* what the machine has: have[i] is how far item i has got,
            \* or "default" for the partition of a layout flat or lvm
  boot,     \* the disk it boots from
  status,   \* "Ready" or "Deployed"
  layout,   \* the type of its layout in the pillar
  at,       \* the state of Plan that Salt runs
  todo,     \* the calls it has still to make
  failed,   \* the states that failed in this attempt
  tries,    \* attempts of deploy.sh
  phase,    \* "running", "done" or "failed"
  faults,   \* failures that may still happen
  runs      \* runs that may still follow

machineVars == <<have, boot>>
stateVars   == <<at, todo, failed>>
runVars     == <<tries, phase, runs>>
vars        == <<machineVars, status, layout, stateVars, runVars, faults>>

-------------------------------------------------------------------------------
(* The states, in the order of storage.sls.                                 *)

Volumes(g) == [k \in 1 .. Kids[g] |-> <<"volume", g, k>>]

StatesOf(d) ==
  IF d \in Disks THEN <<<<"disk", d>>>>
  ELSE IF d \in Raids THEN <<<<"raid", d>>>>
  ELSE <<<<"group", d>>>> \o Volumes(d)

Plan ==
  <<<<"layout">>, <<"boot", BootDevice>>>>
    \o FlattenSeq([i \in DOMAIN Order |-> StatesOf(Order[i])])

\* RAIDs and groups require the states of what they are made of.
Requires(s) ==
  IF s[1] = "volume" THEN {<<"group", s[2]>>}
  ELSE IF s[1] \in {"raid", "group"}
  THEN {t \in ToSet(Plan) : t[1] \in {"disk", "raid"} /\ \E k \in 0 .. Kids[t[2]] :
                              <<t[2], k>> \in Members[s[2]]}
  ELSE {}

Items == Planned \union {<<Root, 0>>, <<Root, 1>>} \union {<<d, 1>> : d \in Disks}
Calls ==
  ({"create", "format", "mount", "delete"} \X Items)
    \union {<<"layout", t>> : t \in {"flat", "lvm"}} \union {<<"boot", BootDevice>>}

TypeOK ==
  /\ DOMAIN have \subseteq Items
  /\ \A i \in DOMAIN have : have[i] \in {"bare", "formatted", "mounted", "default"}
  /\ boot \in Disks
  /\ status \in {"Ready", "Deployed"}
  /\ layout \in Layouts
  /\ at \in 1 .. Len(Plan) + 1
  /\ todo \in Seq(Calls)
  /\ failed \subseteq ToSet(Plan)
  /\ tries \in 1 .. MaxTries
  /\ phase \in {"running", "done", "failed"}
  /\ faults \in 0 .. MaxFaults
  /\ runs \in 0 .. MaxRuns

Has(i) == i \in DOMAIN have

\* The items of a layout flat or lvm on disk d.
Default(type, d) ==
  [i \in {<<d, 1>>} \union (IF type = "lvm" THEN {<<Root, 0>>, <<Root, 1>>} ELSE {}) |->
     IF i = <<d, 1>> THEN "default" ELSE IF i[2] = 0 THEN "bare" ELSE "mounted"]

\* A machine as it is commissioned: MaaS has given it a layout.
Init ==
  /\ \E d \in Disks : boot = d /\ have = Default("flat", d)
  /\ status = "Ready"
  /\ layout \in Layouts
  /\ at = 1 /\ todo = <<>> /\ failed = {}
  /\ tries = 1 /\ phase = "running"
  /\ faults = MaxFaults /\ runs = MaxRuns

-------------------------------------------------------------------------------
(* MaaS.                                                                    *)

\* What is on d: all of it goes when d does.
Below(d) == {i \in DOMAIN have : i[1] = d}

\* i is part of a RAID or of a volume group.
InUse(i) ==
  \/ \E d \in Heads : Has(<<d, 0>>) /\ i \in Members[d]
  \/ Has(i) /\ have[i] = "default" /\ Has(<<Root, 0>>)

Available(i) == ~InUse(i) /\ (Has(i) \/ (i[1] \in Disks /\ i[2] = 0))

\* MaaS deletes no group that has volumes, and nothing that is in use.
MayDelete(i) ==
  /\ ~InUse(i)
  /\ i[2] = 0 =>
       IF i[1] \in Raids THEN \A j \in Below(i[1]) : ~InUse(j) ELSE Below(i[1]) = {i}

\* MaaS creates what it does not have, of what is there and empty.
MayCreate(i) ==
  /\ ~Has(i)
  /\ IF i[2] = 0
     THEN \A m \in Members[i[1]] : Available(m) /\ (m[2] = 0 => Below(m[1]) \subseteq {m})
     ELSE (i[1] \in Disks \/ Has(<<i[1], 0>>)) /\ ~InUse(<<i[1], 0>>)

Allowed(c) ==
  /\ c[1] = "delete" => MayDelete(c[2])
  /\ c[1] = "create" => MayCreate(c[2])

Obeyed(c) ==
  LET i == c[2] IN
  /\ \/ /\ c[1] = "delete"
        /\ have' = Restrict(have, DOMAIN have \ (IF i[2] = 0 THEN Below(i[1]) ELSE {i}))
     \/ /\ c[1] = "create"
        /\ have' = [j \in DOMAIN have \union {i} |-> IF j = i THEN "bare" ELSE have[j]]
     \/ c[1] = "format" /\ have' = [have EXCEPT ![i] = "formatted"]
     \/ c[1] = "mount" /\ have' = [have EXCEPT ![i] = "mounted"]
     \/ /\ c[1] = "layout"
        /\ \E d \in IF RootDevice = {} THEN {boot} ELSE RootDevice : have' = Default(i, d)
     \/ c[1] = "boot" /\ UNCHANGED have
  /\ boot' = IF c[1] = "boot" THEN i ELSE boot

-------------------------------------------------------------------------------
(* What the states make of what they find.                                  *)

Deletes(S) == [n \in 1 .. Cardinality(S) |-> <<"delete", SetToSeq(S)[n]>>]

\* A file system and a mount point, if the pillar has them.
Furnish(i) ==
  (IF Final[i] = "bare" THEN <<>> ELSE <<<<"format", i>>>>)
    \o (IF Final[i] = "mounted" THEN <<<<"mount", i>>>> ELSE <<>>)

CreatePartition(i) == <<<<"create", i>>>> \o Furnish(i)
CreatePartitions(d) == FlattenSeq([k \in 1 .. Kids[d] |-> CreatePartition(<<d, k>>)])
CreateVolume(i) == <<<<"create", i>>>> \o Furnish(i)

Partitions(d) == {i \in Below(d) : i[2] > 0}
ListGroups == {g \in Groups \union {Root} : Has(<<g, 0>>)}
ListRaids  == {r \in Raids : Has(<<r, 0>>)}

\* delete_volume_group: its volumes first.
DropGroup(g) == Deletes(Below(g) \ {<<g, 0>>}) \o <<<<"delete", <<g, 0>>>>>>
DropGroups   == FlattenSeq([n \in 1 .. Cardinality(ListGroups) |->
                              DropGroup(SetToSeq(ListGroups)[n])])
DropRaids    == Deletes({<<r, 0>> : r \in ListRaids})

\* Mutants of DropSchema: partitions are left, or RAIDs go before groups.
DropWithoutPartitions == DropGroups \o DropRaids
DropRaidsFirst ==
  DropRaids \o DropGroups \o Deletes(UNION {Partitions(d) : d \in Disks})

\* drop_storage_schema
DropSchema ==
  DropGroups \o DropRaids \o Deletes(UNION {Partitions(d) : d \in Disks})

UpdateLayout ==
  IF layout = "none" THEN <<>>
  ELSE IF layout = "custom" THEN DropSchema
  ELSE <<<<"layout", layout>>>>

(***************************************************************************)
(* disk_partition_present: as many partitions as the schema has, and the   *)
(* first of the right size, are taken for the schema; whether they have    *)
(* got their file systems is not looked at.                                *)
(***************************************************************************)
LooksLikeSchema(d) ==
  /\ Cardinality(Partitions(d)) = Kids[d]
  /\ Kids[d] > 0 => Has(<<d, 1>>) /\ have[<<d, 1>>] # "default"

Repartition(d) ==
  IF LooksLikeSchema(d) THEN <<>> ELSE Deletes(Partitions(d)) \o CreatePartitions(d)

\* The devices and partitions that a RAID or group is made of can be looked up.
MembersFound(d) == \A m \in Members[d] : Has(m) \/ (m[1] \in Disks /\ m[2] = 0)

\* create_volume_group takes no device with a partition table.
MembersFit(g) ==
  MembersFound(g) /\ \A m \in Members[g] : m[2] = 0 => Partitions(m[1]) = {}

SetBootDisk == <<<<"boot", BootDevice>>>>

-------------------------------------------------------------------------------
(* Salt.                                                                    *)

Current == Plan[at]
Running == phase = "running" /\ at <= Len(Plan)
Blocked == Requires(Current) \intersect failed # {}

Fault == faults > 0 /\ faults' = faults - 1

Return(ok) ==
  /\ at' = at + 1
  /\ todo' = <<>>
  /\ failed' = IF ok THEN failed ELSE failed \union {Current}
  /\ UNCHANGED <<status, layout, runVars>>

\* The state makes these calls, or has nothing to do.
Do(calls) ==
  IF calls = <<>> THEN Return(TRUE)
  ELSE todo' = calls /\ UNCHANGED <<at, failed, status, layout, runVars>>

\* A mutant of Begin: the status of the machine is not looked at.
BeginAnyway(kind, calls, found) ==
  /\ Running /\ ~Blocked /\ todo = <<>>
  /\ Current[1] = kind
  /\ IF found THEN Do(calls) ELSE Return(FALSE)
  /\ UNCHANGED <<machineVars, faults>>

\* A state of this kind looks at the machine; a deployed one is left alone.
Begin(kind, calls, found) ==
  /\ Running /\ ~Blocked /\ todo = <<>>
  /\ Current[1] = kind
  /\ IF status # "Ready" THEN Return(TRUE)
     ELSE IF found THEN Do(calls) ELSE Return(FALSE)
  /\ UNCHANGED <<machineVars, faults>>

DiskLayoutPresent == Begin("layout", UpdateLayout, TRUE)

SelectBootDisk == Begin("boot", SetBootDisk, TRUE)

DiskPartitionPresent == Begin("disk", Repartition(Current[2]), TRUE)

\* raid_present: created anyway, as if it could not be there already.
RaidPresent ==
  Begin("raid", <<<<"create", <<Current[2], 0>>>>>> \o CreatePartitions(Current[2]),
        MembersFound(Current[2]))

\* volume_group_present: one with the name will do.
VolumeGroupPresent ==
  LET g == <<Current[2], 0>> IN
  Begin("group", IF Has(g) THEN <<>> ELSE <<<<"create", g>>>>, Has(g) \/ MembersFit(g[1]))

VolumePresent ==
  Begin("volume", CreateVolume(<<Current[2], Current[3]>>), Has(<<Current[2], 0>>))

\* One call: MaaS obeys, and the state goes on; or refuses, and it has failed.
Call ==
  /\ Running /\ todo # <<>>
  /\ IF Allowed(Head(todo))
     THEN Obeyed(Head(todo)) /\ Do(Tail(todo))
     ELSE Return(FALSE) /\ UNCHANGED machineVars
  /\ UNCHANGED faults

\* A call fails, or MaaS obeys and the answer is lost: the state has failed.
Raise ==
  /\ Running /\ ~Blocked
  /\ Fault
  /\ \/ UNCHANGED machineVars
     \/ todo # <<>> /\ Allowed(Head(todo)) /\ Obeyed(Head(todo))
  /\ Return(FALSE)

Block == Running /\ Blocked /\ Return(FALSE) /\ UNCHANGED <<machineVars, faults>>

Restart == at' = 1 /\ todo' = <<>> /\ failed' = {}

\* A mutant of MayRetry: one attempt too many.
MayRetryLonger == tries <= MaxTries

MayRetry == tries < MaxTries

\* The STATE file goes on, unless a state, or something else in it, has failed.
EndAttempt ==
  /\ phase = "running" /\ at > Len(Plan)
  /\ \/ failed = {} /\ phase' = "done" /\ UNCHANGED <<stateVars, tries, faults>>
     \/ /\ (failed # {} /\ UNCHANGED faults) \/ Fault
        /\ IF MayRetry
           THEN tries' = tries + 1 /\ Restart /\ UNCHANGED phase
           ELSE phase' = "failed" /\ UNCHANGED <<stateVars, tries>>
  /\ UNCHANGED <<machineVars, status, layout, runs>>

\* deploy_machines, once the storage states have succeeded.
Deploy ==
  /\ phase = "done" /\ status = "Ready"
  /\ status' = "Deployed"
  /\ UNCHANGED <<machineVars, layout, stateVars, runVars, faults>>

\* The maas STATE file is run again; before the machine is deployed, the pillar
\* may have changed.
Rerun ==
  /\ phase # "running" /\ runs > 0
  /\ runs' = runs - 1 /\ phase' = "running" /\ tries' = 1
  /\ layout' \in IF status = "Ready" THEN Layouts ELSE {layout}
  /\ Restart
  /\ UNCHANGED <<machineVars, status, faults>>

-------------------------------------------------------------------------------
Script ==
  \/ DiskLayoutPresent \/ SelectBootDisk \/ DiskPartitionPresent
  \/ RaidPresent \/ VolumeGroupPresent \/ VolumePresent
  \/ Call \/ Block \/ EndAttempt

Finished == phase # "running" /\ UNCHANGED vars

Next == Script \/ Raise \/ Deploy \/ Rerun \/ Finished

Spec == Init /\ [][Next]_vars

\* deploy.sh and Salt go on with what they have begun.
FairSpec == Spec /\ WF_vars(Script)

-------------------------------------------------------------------------------
(* Properties.                                                              *)

Complete == \A i \in Planned : Has(i) /\ have[i] = Final[i]

(***************************************************************************)
(* Success of the storage states means that the machine has everything the *)
(* pillar describes, in its size; and, if the layout has a type, with its  *)
(* file systems and mount points, and with `custom` nothing else: whatever *)
(* call of whatever attempt was lost, and whatever an earlier pillar has   *)
(* left there.                                                             *)
(***************************************************************************)
LayoutComplete ==
  phase = "done" /\ status = "Ready" =>
    /\ \A i \in Planned : Has(i) /\ have[i] # "default"
    /\ boot = BootDevice
    /\ layout # "none" => Complete
    /\ layout = "custom" => DOMAIN have = Planned

\* A machine that was deployed with such a layout keeps it, run after run.
DeployedAsPlanned == status = "Deployed" /\ layout # "none" => Complete

(***************************************************************************)
(* Attempts that fail half way leave nothing that keeps a later one from   *)
(* succeeding, if the layout is flat or custom: each attempt starts by     *)
(* taking down, in an order MaaS accepts, what is there.                   *)
(***************************************************************************)
EventuallyLaidOut ==
  (phase = "running") ~> (phase = "done" \/ layout \in {"none", "lvm"})
===============================================================================
