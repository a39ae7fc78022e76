---------------------------- MODULE RegionFabrics -----------------------------
(***************************************************************************)
(* The networks of the MaaS region: the part of maas.region (region.sls of *)
(* salt-formula-maas) that makes fabrics, VLANs, subnets and IP ranges what *)
(* the pillar says, with the functions of _modules/maasng.py and           *)
(* _states/maasng.py it calls.  The maas STATE file applies maas.region    *)
(* under `wait_for 10`, before it has machines boot from these networks.   *)
(*                                                                         *)
(* MaaS, the external half, finds networks by itself: whenever a rack      *)
(* reports a NIC, the subnets on it that MaaS does not know yet are added  *)
(* to the fabric of the NIC, a new one if need be.                         *)
(*                                                                         *)
(* Abstractions:                                                           *)
(*  - Identity is by name for fabrics, by VID for the VLANs of a fabric,   *)
(*    by CIDR for subnets and by first address for ranges; of the other    *)
(*    attributes only the DHCP switch of a VLAN and the fabric of a subnet *)
(*    are kept.                                                            *)
(*  - A subnet is in the untagged VLAN of its fabric: create_subnet drops  *)
(*    the vlan it is given.                                                *)
(*  - A rack that is not known by its name yet is one of the failures.     *)
(***************************************************************************)
EXTENDS Naturals, FiniteSets, SequencesExt

CONSTANTS
  Fabrics,      \* the fabrics of the pillar
  FabricOrder,  \* them, in the order Jinja enumerates them
  Vlans,        \* Vlans[f]: the VIDs of fabric f, a sequence
  Dhcp,         \* the pairs <<fabric, VID>> whose `dhcp` is true
  Cidrs,        \* the subnets of the pillar
  CidrOrder,    \* them, in the order Jinja enumerates them
  FabricOf,     \* FabricOf[c]: the fabric of subnet c
  Ranges,       \* Ranges[c]: the dynamic ranges of subnet c, a sequence
  Nics,         \* the NICs of the racks: the subnets on each of them
  MaxTries,     \* how often deploy.sh applies the states (10 in the code)
  MaxFaults,    \* bound: calls that fail, or whose answer is lost
  MaxRuns       \* bound: how often the maas STATE file is run again

\* The sequence s has the members of S, each once.
Enumerates(s, S) == s \in Seq(S) /\ Len(s) = Cardinality(S) /\ ToSet(s) = S

ASSUME RegionAssumption ==
  /\ IsFiniteSet(Fabrics) /\ IsFiniteSet(Cidrs)
  /\ Enumerates(FabricOrder, Fabrics)
  /\ Enumerates(CidrOrder, Cidrs)
  /\ FabricOf \in [Cidrs -> Fabrics]
  /\ \A f \in Fabrics : Vlans[f] \in Seq(Nat)
  /\ \A c \in Cidrs : Ranges[c] \in Seq(ToSet(Ranges[c]))
  /\ \A n \in Nics : n \subseteq Cidrs
  /\ MaxTries \in Nat \ {0} /\ MaxFaults \in Nat /\ MaxRuns \in Nat

VARIABLES
  fabrics,     \* fabrics[i]: the name of the fabric with id i
  vlans,       \* the VLANs MaaS has: pairs of fabric id and VID
  dhcp,        \* those of them with DHCP on
  subnets,     \* subnets[c]: the id of the fabric that subnet c is in
  ipranges,    \* the ranges MaaS has
  moves,       \* whether MaaS moves a subnet to the fabric of a PUT
  at,          \* the state of Plan that Salt runs
  seen,        \* what this state has looked up, a set
  looked,      \* whether it has
  failed,      \* the states that failed in this attempt
  tries,       \* attempts of deploy.sh
  phase,       \* "running", "done" or "failed"
  faults,      \* failures that may still happen
  runs,        \* runs that may still follow
  split,       \* history: the guess of a fabric's id was not unambiguous
  configured   \* history: a run succeeded before that

maasVars  == <<fabrics, vlans, dhcp, subnets, ipranges, moves>>
stateVars == <<at, seen, looked, failed>>
runVars   == <<tries, phase, runs>>
vars      == <<maasVars, stateVars, runVars, faults, split, configured>>

-------------------------------------------------------------------------------
(* The states, in the order of region.sls.                                  *)

Each(seq, F(_)) == FlattenSeq([i \in DOMAIN seq |-> F(seq[i])])

VlanStates(kind, f) == [i \in DOMAIN Vlans[f] |-> <<kind, f, Vlans[f][i]>>]
FabricStates(f) == <<<<"fabric", f>>>> \o VlanStates("vlan", f)
DhcpStates(f)   == VlanStates("dhcp", f)
SubnetStates(c) ==
  <<<<"subnet", c>>>> \o [i \in DOMAIN Ranges[c] |-> <<"range", Ranges[c][i], c>>]

\* A mutant of Plan: nobody gets back to the fabrics.
PlanWithoutDhcp ==
  Each(FabricOrder, FabricStates) \o Each(CidrOrder, SubnetStates)

Plan ==
  Each(FabricOrder, FabricStates) \o Each(CidrOrder, SubnetStates)
    \o Each(FabricOrder, DhcpStates)

\* A subnet requires its fabric, and a range its subnet; VLANs require nothing.
Requires(s) ==
  IF s[1] = "subnet" THEN {<<"fabric", FabricOf[s[2]]>>}
  ELSE IF s[1] = "range" THEN {<<"subnet", s[3]>>} ELSE {}

AllRanges == UNION {ToSet(Ranges[c]) : c \in Cidrs}
Ids       == 1 .. Cardinality(Fabrics) + Cardinality(Cidrs)
NoFabric  == 0
AutoName  == "fabric-N"  \* the name MaaS gives, another for each id
Absent    == "absent"

ASSUME NamesAssumption == AutoName \notin Fabrics /\ Absent \notin Fabrics

Known     == {i \in Ids : fabrics[i] # Absent}
NewId     == Cardinality(Known) + 1
Discovered == {c \in Cidrs : subnets[c] # NoFabric}

TypeOK ==
  /\ fabrics \in [Ids -> Fabrics \union {AutoName, Absent}]
  /\ \A i, j \in Ids : fabrics[i] = fabrics[j] => i = j \/ fabrics[i] \in {AutoName, Absent}
  /\ vlans \subseteq Known \X Nat
  /\ dhcp \subseteq vlans
  /\ subnets \in [Cidrs -> Known \union {NoFabric}]
  /\ ipranges \subseteq AllRanges
  /\ moves \in BOOLEAN
  /\ at \in 1 .. Len(Plan) + 1
  /\ seen \subseteq Ids
  /\ looked \in BOOLEAN
  /\ failed \subseteq ToSet(Plan)
  /\ tries \in 1 .. MaxTries
  /\ phase \in {"running", "done", "failed"}
  /\ faults \in 0 .. MaxFaults
  /\ runs \in 0 .. MaxRuns
  /\ split \in BOOLEAN /\ configured \in BOOLEAN

\* MaaS as it is installed.
Init ==
  /\ fabrics = [i \in Ids |-> Absent]
  /\ vlans = {}
  /\ dhcp = {}
  /\ subnets = [c \in Cidrs |-> NoFabric]
  /\ ipranges = {}
  /\ moves \in BOOLEAN
  /\ at = 1
  /\ seen = {}
  /\ looked = FALSE
  /\ failed = {}
  /\ tries = 1
  /\ phase = "running"
  /\ faults = MaxFaults
  /\ runs = MaxRuns
  /\ split = FALSE
  /\ configured = FALSE

-------------------------------------------------------------------------------
(* Salt.                                                                    *)

Current == Plan[at]

\* The state of this kind is at its first or second step.
AtState(kind, second) ==
  /\ phase = "running"
  /\ at <= Len(Plan)
  /\ Current[1] = kind
  /\ Requires(Current) \intersect failed = {}
  /\ looked = second

Fault == faults > 0 /\ faults' = faults - 1

Return(ok) ==
  /\ at' = at + 1
  /\ seen' = {}
  /\ looked' = FALSE
  /\ failed' = IF ok THEN failed ELSE failed \union {Current}
  /\ UNCHANGED runVars

\* A call that MaaS obeys, or obeys and the answer gets lost.
Obeyed == (Return(TRUE) /\ UNCHANGED faults) \/ (Return(FALSE) /\ Fault)

Refused == Return(FALSE) /\ UNCHANGED <<maasVars, faults>>

Look(ids) ==
  /\ seen' = ids
  /\ looked' = TRUE
  /\ UNCHANGED <<maasVars, at, failed, runVars, faults>>

\* A call fails: so has the state, and Salt goes on with the next one.
Raise ==
  /\ phase = "running"
  /\ at <= Len(Plan)
  /\ Fault
  /\ Return(FALSE)
  /\ UNCHANGED maasVars

\* A state with a failed requisite is not run, and has failed.
Block ==
  /\ at <= Len(Plan)
  /\ Requires(Current) \intersect failed # {}
  /\ Refused

Restart == at' = 1 /\ failed' = {} /\ UNCHANGED <<seen, looked>>

\* A mutant of EndAttempt: one attempt too many.
OneAttemptMore ==
  /\ phase = "running"
  /\ at = Len(Plan) + 1
  /\ IF failed = {} THEN phase' = "done" /\ UNCHANGED <<stateVars, tries>>
     ELSE IF tries <= MaxTries
     THEN tries' = tries + 1 /\ Restart /\ UNCHANGED phase
     ELSE phase' = "failed" /\ UNCHANGED <<stateVars, tries>>
  /\ UNCHANGED <<maasVars, runs, faults>>

(***************************************************************************)
(* wait_for 10 "salt ... state.apply maas.region"; a state that is not of  *)
(* Plan may fail as well.                                                  *)
(***************************************************************************)
EndAttempt ==
  /\ phase = "running"
  /\ at = Len(Plan) + 1
  /\ \/ /\ failed = {}
        /\ phase' = "done"
        /\ UNCHANGED <<stateVars, tries, faults>>
     \/ /\ (failed # {} /\ UNCHANGED faults) \/ Fault
        /\ IF tries < MaxTries
           THEN tries' = tries + 1 /\ Restart /\ UNCHANGED phase
           ELSE phase' = "failed" /\ UNCHANGED <<stateVars, tries>>
  /\ UNCHANGED <<maasVars, runs>>

\* The maas STATE file is run again, on what is there.
Rerun ==
  /\ phase # "running"
  /\ runs > 0
  /\ runs' = runs - 1
  /\ phase' = "running"
  /\ tries' = 1
  /\ Restart
  /\ UNCHANGED <<maasVars, faults>>

-------------------------------------------------------------------------------
(* The states.                                                              *)

IdsOf(f) == {i \in Ids : fabrics[i] = f}

\* The ids of the fabrics that the subnets of f were discovered in.
Homes(f) == {subnets[c] : c \in {d \in Discovered : FabricOf[d] = f}}

\* A mutant of LookForFabric: any subnet of the pillar will do for a guess.
GuessWithAnyCidr ==
  /\ AtState("fabric", FALSE)
  /\ IF Discovered = {} THEN Look(IdsOf(Current[2]))
     ELSE \E c \in Discovered : Look({subnets[c]})

(***************************************************************************)
(* check_fabric_guess_with_cidr: the fabric of a subnet that should be in  *)
(* this one, the first that is found, goes before the one with the name.   *)
(***************************************************************************)
LookForFabric ==
  /\ AtState("fabric", FALSE)
  /\ IF Homes(Current[2]) = {} THEN Look(IdsOf(Current[2]))
     ELSE \E i \in Homes(Current[2]) : Look({i})

\* create_fabric: MaaS has no two fabrics with one name.
WriteFabric ==
  /\ AtState("fabric", TRUE)
  /\ LET f == Current[2]
         i == IF seen = {} THEN NewId ELSE CHOOSE j \in seen : TRUE
     IN  IF IdsOf(f) \subseteq {i}
         THEN /\ fabrics' = [fabrics EXCEPT ![i] = f]
              /\ vlans' = vlans \union {<<i, 0>>}
              /\ Obeyed
              /\ UNCHANGED <<dhcp, subnets, ipranges, moves>>
         ELSE Refused

\* MaaS wants a range for the DHCP of a VLAN.
HasRange(vlan) ==
  \E c \in Cidrs : <<subnets[c], 0>> = vlan /\ ToSet(Ranges[c]) \intersect ipranges # {}

\* create_vlan_in_fabric, a POST or a PUT.
PutVlan(i, on) ==
  LET vlan == <<i, Current[3]>> IN
  IF on => HasRange(vlan)
  THEN /\ vlans' = vlans \union {vlan}
       /\ dhcp' = IF on THEN dhcp \union {vlan} ELSE dhcp \ {vlan}
       /\ Obeyed
       /\ UNCHANGED <<fabrics, subnets, ipranges, moves>>
  ELSE Refused

(***************************************************************************)
(* vlan_present_in_fabric, which switches DHCP off unless it is told to    *)
(* switch it on; list_vlans raises if there is no such fabric.             *)
(***************************************************************************)
VlanPresent(kind, on) ==
  /\ AtState(kind, FALSE)
  /\ IF IdsOf(Current[2]) = {} THEN Refused
     ELSE \E i \in IdsOf(Current[2]) : PutVlan(i, on)

AddVlan == VlanPresent("vlan", FALSE)

SetDhcp == VlanPresent("dhcp", <<Current[2], Current[3]>> \in Dhcp)

\* check_subnet, and get_fabricid of the fabric, before create_subnet.
LookForSubnet ==
  /\ AtState("subnet", FALSE)
  /\ IF IdsOf(FabricOf[Current[2]]) = {} THEN Refused
     ELSE Look({subnets[Current[2]]} \ {NoFabric})

\* A mutant of WriteSubnet: a PUT names no fabric, and MaaS takes its first.
PutWithoutFabric ==
  /\ AtState("subnet", TRUE)
  /\ LET c == Current[2] IN
     \E i \in IdsOf(FabricOf[c]) :
       IF seen = {} /\ subnets[c] # NoFabric THEN Refused
       ELSE /\ subnets' = [subnets EXCEPT ![c] = IF seen = {} THEN i
                                                ELSE IF moves THEN 1 ELSE @]
            /\ Obeyed
            /\ UNCHANGED <<fabrics, vlans, dhcp, ipranges, moves>>

\* create_subnet: MaaS refuses to create a subnet that it has found meanwhile.
WriteSubnet ==
  /\ AtState("subnet", TRUE)
  /\ LET c == Current[2] IN
     \E i \in IdsOf(FabricOf[c]) :
       IF seen = {} /\ subnets[c] # NoFabric THEN Refused
       ELSE /\ subnets' = [subnets EXCEPT ![c] = IF seen = {} \/ moves THEN i ELSE @]
            /\ Obeyed
            /\ UNCHANGED <<fabrics, vlans, dhcp, ipranges, moves>>

\* A mutant of RangePresent: the range is not looked for.
RangeAnyway ==
  /\ AtState("range", FALSE)
  /\ IF Current[2] \in ipranges THEN Refused
     ELSE /\ ipranges' = ipranges \union {Current[2]}
          /\ Obeyed
          /\ UNCHANGED <<fabrics, vlans, dhcp, subnets, moves>>

\* iprange_present
RangePresent ==
  /\ AtState("range", FALSE)
  /\ ipranges' = ipranges \union {Current[2]}
  /\ Obeyed
  /\ UNCHANGED <<fabrics, vlans, dhcp, subnets, moves>>

-------------------------------------------------------------------------------
(* MaaS.                                                                    *)

\* A rack reports the subnets on its NIC n.
Discover(n) ==
  LET new  == n \ Discovered
      home == {subnets[c] : c \in n \intersect Discovered}
  IN  /\ new # {}
      /\ \E i \in IF home = {} THEN {NewId} ELSE home :
           /\ fabrics' = [fabrics EXCEPT ![i] = IF @ = Absent THEN AutoName ELSE @]
           /\ vlans' = vlans \union {<<i, 0>>}
           /\ subnets' = [c \in Cidrs |-> IF c \in new THEN i ELSE subnets[c]]
      /\ UNCHANGED <<dhcp, ipranges, moves, stateVars, runVars, faults>>

-------------------------------------------------------------------------------
(***************************************************************************)
(* The guess of check_fabric_guess_with_cidr has two answers for a fabric, *)
(* or one fabric is the answer for two.  As its comment has it, it "will   *)
(* fail if some subnet defined to another fabric".                         *)
(***************************************************************************)
Ambiguous ==
  \/ \E f \in Fabrics : Cardinality(Homes(f) \union IdsOf(f)) > 1
  \/ \E c, d \in Discovered : subnets[c] = subnets[d] /\ FabricOf[c] # FabricOf[d]

Watch ==
  /\ split' = (split \/ Ambiguous')
  /\ configured' = (configured \/ (phase = "done" /\ ~split))

Step ==
  \/ Block \/ EndAttempt
  \/ LookForFabric \/ WriteFabric \/ AddVlan \/ SetDhcp
  \/ LookForSubnet \/ WriteSubnet \/ RangePresent

Script == Step /\ Watch

Finished == phase # "running" /\ UNCHANGED vars

Next ==
  \/ Script \/ Finished
  \/ (Raise \/ Rerun \/ \E n \in Nics : Discover(n)) /\ Watch

Spec == Init /\ [][Next]_vars

\* deploy.sh and Salt go on with what they have begun.
FairSpec == Spec /\ WF_vars(Script)

-------------------------------------------------------------------------------
(* Properties.                                                              *)

(***************************************************************************)
(* When maas.region has succeeded, a node of any subnet of the pillar      *)
(* boots in the fabric the pillar puts it in, and is served by DHCP where  *)
(* the pillar says so and nowhere else, whatever attempts failed and       *)
(* whatever MaaS discovered in the meantime; if the guess was ambiguous,   *)
(* all this holds of a MaaS that obeys the fabric of a PUT.                *)
(***************************************************************************)
Served(f) ==
  \A i \in IdsOf(f), k \in DOMAIN Vlans[f] :
    <<i, Vlans[f][k]>> \in dhcp <=> <<f, Vlans[f][k]>> \in Dhcp

RegionConfigured ==
  phase = "done" /\ (moves \/ ~split) =>
    /\ \A f \in Fabrics : Served(f)
    /\ \A c \in Cidrs :
         /\ IdsOf(FabricOf[c]) = {subnets[c]}
         /\ ToSet(Ranges[c]) \subseteq ipranges

(***************************************************************************)
(* At no time, but for ambiguous guesses, a subnet of the pillar is in a   *)
(* fabric that bears the name of another fabric of the pillar.             *)
(***************************************************************************)
NotMisplaced ==
  ~split =>
    \A c \in Discovered : fabrics[subnets[c]] \in {AutoName, FabricOf[c]}

(***************************************************************************)
(* After a success, without ambiguity, no run and no retry renames or      *)
(* creates a fabric, moves a subnet or takes a range from it: a deployed   *)
(* cloud keeps its networks.                                               *)
(***************************************************************************)
Stable == [][configured => UNCHANGED <<fabrics, vlans, subnets, ipranges>>]_vars

(***************************************************************************)
(* Attempts that fail or lose an answer, and discoveries that come between *)
(* two calls, are made up for by the next attempts, unless the guess was   *)
(* ambiguous: then no number of attempts may help.                         *)
(***************************************************************************)
EventuallyConfigured == (phase = "running") ~> (phase = "done" \/ split)
===============================================================================
