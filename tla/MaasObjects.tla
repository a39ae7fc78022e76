----------------------------- MODULE MaasObjects -----------------------------
(***************************************************************************)
(* The objects that region.sls leaves to MaasObject.process (maas.py):     *)
(* settings, DHCP snippets, package repositories, commissioning scripts,   *)
(* tags and devices; the SSH keys of maasng.sshkey_present; the wait for   *)
(* Ready; and the assignment of addresses to the NICs of the machines.     *)
(* The formula offers that as maas.machines.assign_ip, but no STATE file   *)
(* of the repository applies it: where Stages has it, it is a command that *)
(* was added to the file.                                                  *)
(*                                                                         *)
(* process() lists what MaaS has once, then treats the objects of the      *)
(* pillar one by one, goes on when one fails, and raises at the end what   *)
(* went wrong; unless one of the errors says "already exists".             *)
(*                                                                         *)
(* Abstractions: a MAC, an address, or the configuration of a NIC has the  *)
(* name of the device or NIC that has it in the pillar.  Of a DHCP snippet *)
(* and the like all that counts is whether MaaS has it as in the pillar.   *)
(* What process() lists stays true but for the status of machines, as each *)
(* object is treated once.                                                 *)
(***************************************************************************)
EXTENDS SaltStages

CONSTANTS
  Things,     \* settings, snippets, repositories, scripts, tags, SSH keys
  Devices,    \* devices, with a MAC and an address each
  Machines,   \* the machines in MaaS
  Deployed,   \* those that were deployed before
  Nics,       \* the NICs of a machine
  NicOrder    \* the order in which they are configured, that of their keys

None == "none"

ASSUME ObjectsAssumption ==
  /\ NicOrder \in Seq(Nics) /\ {NicOrder[i] : i \in DOMAIN NicOrder} = Nics
  /\ Deployed \subseteq Machines
  /\ None \notin Devices \union Machines \union Nics /\ "old" \notin Devices

\* There is one MaaS; the states of a kind are about objects of that kind.
ASSUME KindsAssumption ==
  /\ Minions # {} /\ \A m, n \in Minions : m = n
  /\ \A k \in DOMAIN Stages : Stages[k].minions = Minions
  /\ \A s \in AllStates :
       /\ s.kind \in {"settings", "things"} => s.items \subseteq Things
       /\ s.kind = "key" => s.name \in Things
       /\ s.kind = "devices" => s.items \subseteq Devices
       /\ s.kind = "assign" => s.items = Machines

\* All objects have a state, and no two states assign addresses.
ASSUME PillarAssumption ==
  /\ \A o \in Things : \E s \in AllStates :
       \/ s.kind \in {"settings", "things"} /\ o \in s.items
       \/ s.kind = "key" /\ s.name = o
  /\ \A d \in Devices : \E s \in AllStates : s.kind = "devices" /\ d \in s.items
  /\ \A k, l \in DOMAIN Stages :
       \A i \in DOMAIN Stages[k].states, j \in DOMAIN Stages[l].states :
         Stages[k].states[i].kind = "assign" /\ Stages[l].states[j].kind = "assign"
           => k = l /\ i = j

VARIABLES
  kept,       \* kept[o]: thing o in MaaS, "none", an "other", or as in the "pillar"
  mac,        \* mac[d]: the MAC of device d, or None if MaaS has no d
  address,    \* address[d]: the address of device d
  status,     \* status[m]: "Commissioning", "Ready" or "Deployed"
  link,       \* link[m][n]: the configuration of NIC n of m, or None
  again,      \* history: machines that were commissioned again since it was
              \* their turn to be assigned addresses
  taken,      \* the names of devices that machines have
  blocked,    \* maas_devices requires a state that does not exist
  listed,     \* listed[m]: the status of m that process() has been told
  todo,       \* the objects it has not come to yet
  item,       \* the device or machine it has begun
  step,       \* what comes next for it
  left,       \* the NICs of that machine that are still connected
  errors      \* what went wrong: "exists" says "already exists"

maas  == <<kept, mac, address, status, link, again>>
local == <<listed, todo, item, step, left, errors>>
vars  == <<saltVars, maas, taken, blocked, local>>

\* The next call for a device; for a machine, the next NIC in order.
Post == 1
Link == 2

Statuses == {"Commissioning", "Ready", "Deployed"}

TypeOK ==
  /\ SaltTypeOK({"listed", "absent"})
  /\ kept \in [Things -> {None, "other", "pillar"}]
  /\ mac \in [Devices -> Devices \union {None, "old"}]
  /\ address \in [Devices -> Devices \union {None}]
  /\ status \in [Machines -> Statuses] /\ listed \in [Machines -> Statuses]
  /\ link \in [Machines -> [Nics -> Nics \union {None}]]
  /\ again \subseteq Machines
  /\ taken \subseteq Devices /\ blocked \in BOOLEAN
  /\ todo \subseteq Things \union Devices \union Machines
  /\ item \in Devices \union Machines \union {None}
  /\ step \in {Post, Link} \union (1 .. Len(NicOrder))
  /\ left \subseteq Nics
  /\ errors \subseteq {"exists", "other"}

\* What an earlier pillar has left: any devices with different MACs and
\* addresses, and the NICs of a machine with each
\* other's configuration.
Init ==
  /\ SaltInit
  /\ kept \in {[o \in Things |-> v] : v \in {None, "other"}}
  /\ mac \in [Devices -> Devices \union {None, "old"}]
  /\ address \in [Devices -> Devices \union {None}]
  /\ \A d, e \in Devices :
       /\ d # e => mac[d] # mac[e] \/ mac[d] \in {None, "old"}
       /\ d # e => address[d] # address[e] \/ address[d] = None
       /\ mac[d] = None => address[d] = None
  /\ status = [m \in Machines |-> IF m \in Deployed THEN "Deployed" ELSE "Ready"]
  /\ listed = status
  /\ link = [m \in Machines |-> [n \in Nics |-> CHOOSE k \in Nics : k # n]]
  /\ again = {}
  /\ taken \in {{}} \union {{d} : d \in Devices}
  /\ \A d \in taken : mac[d] = None
  /\ blocked \in BOOLEAN
  /\ todo = {} /\ item = None /\ step = 1 /\ left = {} /\ errors = {}

(***************************************************************************)
(* MaasObject.process: what its classes have in common.                    *)
(***************************************************************************)
Idle == item = None
At(d, s) == item = d /\ step = s

Proceed(d, s) ==
  /\ item' = d /\ step' = s
  /\ todo' = todo \ {d}
  /\ UNCHANGED <<left, errors>>

\* process_single has come to its end for the object, with an error or without.
Treated(o, err) ==
  /\ item' = None /\ step' = 1 /\ left' = {}
  /\ todo' = todo \ {o}
  /\ errors' = errors \union err

\* A call: it works; it fails, or its answer is lost; or MaaS refuses it.
Call(o, Effect, NoEffect, Then, refusal) ==
  \/ refusal = {} /\ NoFault /\ Effect /\ Then
  \/ refusal = {} /\ Fault /\ (Effect \/ NoEffect) /\ Treated(o, {"other"})
  \/ refusal # {} /\ NoFault /\ NoEffect /\ Treated(o, refusal)

Processing(m, kind) ==
  /\ Continues(m, kind)
  /\ UNCHANGED <<stage, at, seen, failed, tries, phase, taken, blocked, listed>>

\* The GETs come first.  There is none for the settings: they are set anew.
List(m, kind) ==
  /\ Begins(m, kind)
  /\ \/ /\ NoFault /\ See(m, "listed")
        /\ todo' = Current(m).items /\ listed' = status
     \/ /\ kind # "settings" /\ Fault
        /\ Return(m, FALSE) /\ UNCHANGED <<todo, listed>>
  /\ UNCHANGED <<maas, taken, blocked, item, step, left, errors>>

\* A mutant of EndProcess: the errors are not looked at.
EndProcessWell(m, kind) ==
  /\ Continues(m, kind) /\ Idle /\ todo = {}
  /\ Return(m, TRUE)
  /\ errors' = {}
  /\ NoFault /\ UNCHANGED <<maas, taken, blocked, listed, todo, item, step, left>>

EndProcess(m, kind) ==
  /\ Continues(m, kind) /\ Idle /\ todo = {}
  /\ Return(m, errors = {} \/ "exists" \in errors)
  /\ errors' = {}
  /\ NoFault /\ UNCHANGED <<maas, taken, blocked, listed, todo, item, step, left>>

\* PUT or POST of a thing that is known by its name only.
SendThing(m, kind) ==
  /\ Processing(m, kind) /\ Idle
  /\ \E o \in todo :
       Call(o, kept' = [kept EXCEPT ![o] = "pillar"], UNCHANGED kept,
            Treated(o, {}), {})
  /\ UNCHANGED <<mac, address, status, link, again>>

(***************************************************************************)
(* sshkey_present: a key is added if MaaS does not list it.                *)
(***************************************************************************)
SeekKey(m) ==
  /\ Begins(m, "key")
  /\ \/ kept[Current(m).name] = "pillar" /\ NoFault /\ Return(m, TRUE)
     \/ kept[Current(m).name] # "pillar" /\ NoFault /\ See(m, "absent")
     \/ Fault /\ Return(m, FALSE)
  /\ UNCHANGED <<maas, taken, blocked, local>>

AddKey(m) ==
  /\ Continues(m, "key")
  /\ LET Add == kept' = [kept EXCEPT ![Current(m).name] = "pillar"]
     IN \/ NoFault /\ Add /\ Return(m, TRUE)
        \/ Fault /\ (Add \/ UNCHANGED kept) /\ Return(m, FALSE)
  /\ UNCHANGED <<mac, address, status, link, again, taken, blocked, local>>

(***************************************************************************)
(* Device.  One whose MAC is not that of the pillar is deleted and created *)
(* again; then its interface is linked.  MaaS has a MAC and an address     *)
(* only once, and a name once for all machines and devices.                *)
(***************************************************************************)
DevicesBlocked(m) ==
  /\ Begins(m, "devices") /\ blocked
  /\ Return(m, FALSE)
  /\ NoFault /\ UNCHANGED <<maas, taken, blocked, local>>

ListDevices(m) == ~blocked /\ List(m, "devices")

PutDevice(m) ==
  /\ Processing(m, "devices") /\ Idle
  /\ \E d \in todo :
       /\ mac[d] = d
       /\ Call(d, UNCHANGED maas, UNCHANGED maas, Proceed(d, Link), {})

\* A mutant of DeleteDevice: MACs are compared as they are written.
DeleteDeviceAlways(m) ==
  /\ Processing(m, "devices") /\ Idle
  /\ \E d \in todo :
       /\ mac[d] # None
       /\ Call(d, /\ mac' = [mac EXCEPT ![d] = None]
                  /\ address' = [address EXCEPT ![d] = None],
               UNCHANGED <<mac, address>>, Proceed(d, Post), {})
  /\ UNCHANGED <<kept, status, link, again>>

DeleteDevice(m) ==
  /\ Processing(m, "devices") /\ Idle
  /\ \E d \in todo :
       /\ mac[d] \notin {d, None}
       /\ Call(d, /\ mac' = [mac EXCEPT ![d] = None]
                  /\ address' = [address EXCEPT ![d] = None],
               UNCHANGED <<mac, address>>, Proceed(d, Post), {})
  /\ UNCHANGED <<kept, status, link, again>>

PostDevice(m) ==
  /\ Processing(m, "devices")
  /\ \E d \in Devices :
       /\ At(d, Post) \/ (Idle /\ d \in todo /\ mac[d] = None)
       /\ Call(d, mac' = [mac EXCEPT ![d] = d], UNCHANGED mac, Proceed(d, Link),
               IF d \in taken THEN {"exists"}
               ELSE IF \E e \in Devices : mac[e] = d THEN {"other"} ELSE {})
  /\ UNCHANGED <<kept, address, status, link, again>>

LinkDevice(m) ==
  /\ Processing(m, "devices")
  /\ \E d \in Devices :
       /\ At(d, Link)
       /\ Call(d, address' = [address EXCEPT ![d] = d], UNCHANGED address, Treated(d, {}),
               IF \E e \in Devices \ {d} : address[e] = d THEN {"other"} ELSE {})
  /\ UNCHANGED <<kept, mac, status, link, again>>

(***************************************************************************)
(* AssignMachinesIP: the NICs of a Ready machine are disconnected, all of  *)
(* them, and then configured one after the other.                          *)
(***************************************************************************)
\* The turn of machine n; those that are not Ready are passed over.
Turn(n) == again' = again \ {n}

\* A mutant of PassOver: only a Ready machine is looked at.
PassOverQuietly(m) ==
  /\ Processing(m, "assign") /\ Idle
  /\ \E n \in todo : listed[n] # "Ready" /\ Turn(n) /\ Treated(n, {})
  /\ NoFault /\ UNCHANGED <<kept, mac, address, status, link>>

PassOver(m) ==
  /\ Processing(m, "assign") /\ Idle
  /\ \E n \in todo :
       /\ listed[n] # "Ready" /\ Turn(n)
       /\ Treated(n, IF listed[n] = "Deployed" THEN {} ELSE {"other"})
  /\ NoFault /\ UNCHANGED <<kept, mac, address, status, link>>

\* A mutant of Assign: the NICs are configured without being disconnected.
AssignAtOnce(m) ==
  /\ Processing(m, "assign") /\ Idle
  /\ \E n \in todo : listed[n] = "Ready" /\ Turn(n) /\ Proceed(n, 1)
  /\ NoFault /\ UNCHANGED <<kept, mac, address, status, link>>

Assign(m) ==
  /\ Processing(m, "assign") /\ Idle
  /\ \E n \in todo :
       /\ listed[n] = "Ready" /\ Turn(n)
       /\ item' = n /\ step' = 1 /\ left' = Nics
       /\ todo' = todo \ {n} /\ UNCHANGED errors
  /\ NoFault /\ UNCHANGED <<kept, mac, address, status, link>>

\* MaaS refuses to change the NICs of a machine that is not Ready any more.
NotReady(n) == IF status[n] = "Ready" THEN {} ELSE {"other"}

Disconnect(m) ==
  /\ Processing(m, "assign")
  /\ \E k \in left :
       Call(item, link' = [link EXCEPT ![item][k] = None], UNCHANGED link,
            left' = left \ {k} /\ UNCHANGED <<todo, item, step, errors>>, NotReady(item))
  /\ UNCHANGED <<kept, mac, address, status, again>>

\* The PUT of the NIC and the POST of its link.  MaaS does not take the same
\* configuration on two NICs.
Configure(m) ==
  /\ Processing(m, "assign") /\ ~Idle /\ left = {}
  /\ LET k == NicOrder[step] IN
       Call(item, link' = [link EXCEPT ![item][k] = k], UNCHANGED link,
            IF step < Len(NicOrder) THEN Proceed(item, step + 1) ELSE Treated(item, {}),
            IF \E n \in Nics \ {k} : link[item][n] = k THEN {"other"} ELSE NotReady(item))
  /\ UNCHANGED <<kept, mac, address, status, again>>

(***************************************************************************)
(* wait_for_machine_status, with respect to the one status there is here   *)
(* that it waits for and has no remedy for.  The others, and the hard      *)
(* retries they are met with, are in MaasState.                            *)
(***************************************************************************)
Wait(m) ==
  /\ Begins(m, "wait")
  /\ LET waitedFor == {n \in Machines : status[n] = "Commissioning"} IN
       \/ waitedFor = {} /\ NoFault /\ Return(m, TRUE)
       \/ waitedFor # {} /\ Fault /\ Return(m, FALSE)
  /\ UNCHANGED <<maas, taken, blocked, local>>

\* Somebody has a machine commissioned again, at any time.  MaaS forgets how its
\* NICs were configured.
Recommission ==
  /\ \E n \in Machines :
       /\ status[n] = "Ready"
       /\ status' = [status EXCEPT ![n] = "Commissioning"]
       /\ link' = [link EXCEPT ![n] = [k \in Nics |-> None]]
       /\ again' = again \union {n}
  /\ Fault
  /\ UNCHANGED <<stage, at, seen, failed, tries, phase, kept, mac, address>>
  /\ UNCHANGED <<taken, blocked, local>>

FinishCommissioning ==
  /\ \E n \in Machines :
       /\ status[n] = "Commissioning"
       /\ status' = [status EXCEPT ![n] = "Ready"]
  /\ UNCHANGED <<saltVars, kept, mac, address, link, again, taken, blocked, local>>

Script(m) ==
  \/ \E kind \in {"settings", "things"} :
       List(m, kind) \/ SendThing(m, kind) \/ EndProcess(m, kind)
  \/ SeekKey(m) \/ AddKey(m)
  \/ DevicesBlocked(m) \/ ListDevices(m) \/ PutDevice(m) \/ DeleteDevice(m)
  \/ PostDevice(m) \/ LinkDevice(m) \/ EndProcess(m, "devices")
  \/ List(m, "assign") \/ PassOver(m) \/ Assign(m) \/ Disconnect(m)
  \/ Configure(m) \/ EndProcess(m, "assign")
  \/ Wait(m)

\* The next command of the file, or its next attempt.
Stage == EndStage /\ UNCHANGED <<maas, taken, blocked, local>>

Next ==
  \/ \E m \in Minions : Script(m)
  \/ Stage \/ Recommission \/ FinishCommissioning

Spec == Init /\ [][Next]_vars

\* Salt and deploy.sh go on; commissioning ends.
FairSpec ==
  /\ Spec
  /\ \A m \in Minions : WF_vars(Script(m))
  /\ WF_vars(Stage) /\ WF_vars(FinishCommissioning)
-------------------------------------------------------------------------------
(***************************************************************************)
(* When the file has succeeded, MaaS has the things of the pillar, and the *)
(* devices with their MACs and addresses, unless a machine has the name of *)
(* one of them: that error hides those of all others.                      *)
(***************************************************************************)
InPlaceWhenDone ==
  phase = "done" =>
    /\ \A o \in Things : kept[o] = "pillar"
    /\ taken = {} => \A d \in Devices : mac[d] = d /\ address[d] = d

(***************************************************************************)
(* When a file with assign_ip has succeeded, every machine that was to be  *)
(* assigned addresses has all its NICs configured, whatever call failed    *)
(* after they had been disconnected, and although the machines were listed *)
(* once and may have left Ready since.  What this cannot promise is about  *)
(* a machine that is commissioned again after or in its turn: nobody looks *)
(* at it a second time.                                                    *)
(***************************************************************************)
AddressesWhenDone ==
  phase = "done" /\ (\E s \in AllStates : s.kind = "assign") =>
    \A n \in Machines \ (Deployed \union again) : \A k \in Nics : link[n][k] = k

(***************************************************************************)
(* What is as in the pillar stays so in every attempt: a device with the   *)
(* right MAC is not deleted, and one that is linked keeps its address.     *)
(***************************************************************************)
NeverDisturbed ==
  [][/\ \A d \in Devices :
          mac[d] = d => mac'[d] = d /\ (address[d] = d => address'[d] = d)
     /\ \A o \in Things : kept[o] = "pillar" => kept'[o] = "pillar"]_vars

(***************************************************************************)
(* The attempts suffice for the faults, for devices that have exchanged    *)
(* their MACs and NICs that have exchanged their networks.  They do not if *)
(* devices are to exchange addresses, since neither is ever unlinked; or   *)
(* if devices and subnets are both in the pillar.                          *)
(***************************************************************************)
Crossed == \E d, e \in Devices : d # e /\ address[d] = e /\ address[e] = d

EventuallyInPlace == ~Crossed /\ ~blocked => <>(phase = "done")
===============================================================================
