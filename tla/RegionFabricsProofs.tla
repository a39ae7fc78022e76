------------------------- MODULE RegionFabricsProofs -------------------------
(***************************************************************************)
(* Proofs about RegionFabrics for every pillar, every number of attempts   *)
(* and every number of failures and runs.                                  *)
(***************************************************************************)
EXTENDS RegionFabrics, FiniteSetTheorems, WellFoundedInduction, TLAPS

-------------------------------------------------------------------------------
(* Concatenation.                                                           *)

(***************************************************************************)
(* Induction over the numbers, for a set of them: the set is given, so no  *)
(* operator has to be instantiated.                                        *)
(***************************************************************************)
LEMMA Induction ==
  ASSUME NEW S, 0 \in S, \A n \in Nat : n \in S => n + 1 \in S
  PROVE  Nat \subseteq S
<1> DEFINE T == Nat \ S
           Less == OpToRel(<, Nat)
<1> SUFFICES ASSUME T # {} PROVE FALSE
  OBVIOUS
<1>1. IsWellFoundedOn(Less, Nat)
  BY NatLessThanWellFounded, Zenon
<1>2. \A y, x \in Nat : y < x => <<y, x>> \in Less
  BY DEF OpToRel
<1>3. \E x \in T : \A y \in T : ~(<<y, x>> \in Less)
  <2> HIDE DEF T, Less
  <2>1. T \subseteq Nat
    BY DEF T
  <2> QED
    BY <1>1, <2>1, WFMin, Zenon
<1>4. PICK x \in T : \A y \in T : ~(<<y, x>> \in Less)
  BY <1>3
<1>5. \A y \in T : ~(y < x)
  <2> HIDE DEF Less
  <2> QED
    BY <1>2, <1>4
<1>6. x # 0 /\ x - 1 \in Nat /\ x - 1 < x
  OBVIOUS
<1>7. x - 1 \in S
  BY <1>5, <1>6
<1> QED
  BY <1>6, <1>7

LEMMA FlattenDef ==
  ASSUME NEW seqs, Len(seqs) # 0
  PROVE  FlattenSeq(seqs) =
           (CHOOSE f : f = [i \in 1 .. Len(seqs) |->
                              IF i = 1 THEN seqs[i] ELSE f[i - 1] \o seqs[i]])[Len(seqs)]
BY DEF FlattenSeq

\* x is an element of s.
Occurs(x, s) == \E i \in 1 .. Len(s) : s[i] = x

\* f[n] is the concatenation of the first n of the sequences, for n up to k.
Concats(f, seqs, k) ==
  f = [i \in 1 .. k |-> IF i = 1 THEN seqs[i] ELSE f[i - 1] \o seqs[i]]

LEMMA ConcatsExist ==
  ASSUME NEW seqs, NEW k \in Nat
  PROVE  \E f : Concats(f, seqs, k)
<1> DEFINE S == {n \in Nat : \E f : Concats(f, seqs, n)}
<1>1. 0 \in S
  <2> DEFINE f == [i \in 1 .. 0 |-> seqs[i]]
  <2>1. Concats(f, seqs, 0)
    BY DEF Concats
  <2> QED
    BY <2>1
<1>2. ASSUME NEW n \in Nat, n \in S
      PROVE  n + 1 \in S
  <2>1. PICK f : Concats(f, seqs, n)
    BY <1>2
  <2>0. \A j \in 1 .. n : f[j] = IF j = 1 THEN seqs[j] ELSE f[j - 1] \o seqs[j]
    BY <2>1 DEF Concats
  <2> DEFINE g == [i \in 1 .. n + 1 |->
                     IF i <= n THEN f[i] ELSE IF i = 1 THEN seqs[i] ELSE f[i - 1] \o seqs[i]]
             h == [i \in 1 .. n + 1 |-> IF i = 1 THEN seqs[i] ELSE g[i - 1] \o seqs[i]]
  <2>2. ASSUME NEW i \in 1 .. n + 1
        PROVE  g[i] = IF i = 1 THEN seqs[i] ELSE g[i - 1] \o seqs[i]
    <3>1. i # 1 => g[i - 1] = f[i - 1]
      OBVIOUS
    <3>2. CASE i <= n
      <4>1. f[i] = IF i = 1 THEN seqs[i] ELSE f[i - 1] \o seqs[i]
        BY <2>0, <3>2
      <4> QED
        BY <3>1, <3>2, <4>1
    <3>3. CASE ~(i <= n)
      BY <3>1, <3>3
    <3> QED
      BY <3>2, <3>3
  <2>3. g = h
    BY <2>2
  <2>4. Concats(g, seqs, n + 1)
    BY <2>3 DEF Concats
  <2>5. \E e : Concats(e, seqs, n + 1)
    <3> HIDE DEF g
    <3> QED
      BY <2>4, Zenon
  <2>6. n + 1 \in Nat
    OBVIOUS
  <2> HIDE DEF g, h
  <2> QED
    BY <2>5, <2>6, Zenon
<1> HIDE DEF S
<1>3. Nat \subseteq S
  BY <1>1, <1>2, Induction
<1> QED
  BY <1>3 DEF S

\* A function on 1 .. n is a sequence.
LEMMA OccursFunction ==
  ASSUME NEW S, NEW n \in Nat, NEW s \in [1 .. n -> S]
  PROVE  /\ s \in Seq(S) /\ Len(s) = n
         /\ \A x : Occurs(x, s) <=> \E i \in 1 .. n : s[i] = x
<1>1. s \in Seq(S) /\ Len(s) = n
  OBVIOUS
<1> QED
  BY <1>1 DEF Occurs

LEMMA OccursConcat ==
  ASSUME NEW S, NEW s \in Seq(S), NEW t \in Seq(S), NEW x
  PROVE  Occurs(x, s \o t) <=> Occurs(x, s) \/ Occurs(x, t)
<1>1. /\ Len(s) \in Nat /\ Len(t) \in Nat /\ Len(s \o t) = Len(s) + Len(t)
      /\ \A i \in 1 .. Len(s) + Len(t) :
           (s \o t)[i] = IF i <= Len(s) THEN s[i] ELSE t[i - Len(s)]
  OBVIOUS
<1>2. ASSUME NEW i \in 1 .. Len(s), s[i] = x
      PROVE  Occurs(x, s \o t)
  <2>1. i \in 1 .. Len(s) + Len(t) /\ (s \o t)[i] = x
    BY <1>1, <1>2
  <2> QED
    BY <1>1, <2>1 DEF Occurs
<1>3. ASSUME NEW i \in 1 .. Len(t), t[i] = x
      PROVE  Occurs(x, s \o t)
  <2>1. Len(s) + i \in 1 .. Len(s) + Len(t) /\ (s \o t)[Len(s) + i] = x
    BY <1>1, <1>3
  <2> QED
    BY <1>1, <2>1 DEF Occurs
<1>4. ASSUME NEW i \in 1 .. Len(s) + Len(t), (s \o t)[i] = x
      PROVE  Occurs(x, s) \/ Occurs(x, t)
  <2>1. CASE i <= Len(s)
    BY <1>1, <1>4, <2>1 DEF Occurs
  <2>2. CASE ~(i <= Len(s))
    <3>1. i - Len(s) \in 1 .. Len(t) /\ t[i - Len(s)] = x
      BY <1>1, <1>4, <2>2
    <3> QED
      BY <3>1 DEF Occurs
  <2> QED
    BY <2>1, <2>2
<1> QED
  BY <1>1, <1>2, <1>3, <1>4 DEF Occurs

\* Whatever is in FlattenSeq(seqs) is in one of them, and the other way round.
LEMMA FlattenFacts ==
  ASSUME NEW S, NEW seqs \in Seq(Seq(S))
  PROVE  /\ FlattenSeq(seqs) \in Seq(S)
         /\ \A x : Occurs(x, FlattenSeq(seqs)) <=> \E j \in 1 .. Len(seqs) : Occurs(x, seqs[j])
<1> DEFINE n == Len(seqs)
<1>1. n \in Nat /\ \A j \in 1 .. n : seqs[j] \in Seq(S)
  OBVIOUS
<1>2. CASE n = 0
  <2>1. FlattenSeq(seqs) = seqs
    BY <1>2 DEF FlattenSeq
  <2>2. seqs = <<>>
    BY <1>2
  <2> QED
    BY <1>2, <2>1, <2>2 DEF Occurs
<1>3. CASE n # 0
  <2> DEFINE f == CHOOSE e : Concats(e, seqs, n)
  <2>1. FlattenSeq(seqs) = f[n]
    BY <1>3, FlattenDef DEF Concats
  <2>2. Concats(f, seqs, n)
    BY <1>1, ConcatsExist
  <2> HIDE DEF f, n
  <2>3. /\ \A i \in 1 .. n : f[i] = IF i = 1 THEN seqs[i] ELSE f[i - 1] \o seqs[i]
    BY <2>2 DEF Concats
  <2> DEFINE Good(i) == /\ f[i] \in Seq(S)
                        /\ \A x : Occurs(x, f[i]) <=> \E j \in 1 .. i : Occurs(x, seqs[j])
             T == {i \in Nat : i \in 1 .. n => Good(i)}
  <2>4. 0 \in T
    OBVIOUS
  <2>5. ASSUME NEW i \in Nat, i \in T
        PROVE  i + 1 \in T
    <3> SUFFICES ASSUME i + 1 \in 1 .. n
                 PROVE  Good(i + 1)
      OBVIOUS
    <3>1. CASE i = 0
      <4>1. f[1] = seqs[1] /\ seqs[1] \in Seq(S)
        BY <1>1, <2>3, <3>1
      <4> QED
        BY <3>1, <4>1
    <3>2. CASE i # 0
      <4>1. i \in 1 .. n /\ Good(i)
        BY <1>1, <2>5, <3>2
      <4>2. f[i + 1] = f[i] \o seqs[i + 1]
        <5>1. i + 1 # 1 /\ (i + 1) - 1 = i
          BY <3>2
        <5>2. f[i + 1] = IF i + 1 = 1 THEN seqs[i + 1] ELSE f[(i + 1) - 1] \o seqs[i + 1]
          BY <2>3
        <5> QED
          BY <5>1, <5>2
      <4>3. f[i] \in Seq(S) /\ seqs[i + 1] \in Seq(S)
        BY <1>1, <4>1
      <4>4. \A x : Occurs(x, f[i] \o seqs[i + 1]) <=> Occurs(x, f[i]) \/ Occurs(x, seqs[i + 1])
        BY <4>3, OccursConcat
      <4>5. f[i + 1] \in Seq(S)
        BY <4>2, <4>3
      <4>6. ASSUME NEW x
            PROVE  Occurs(x, f[i + 1]) <=> \E j \in 1 .. i + 1 : Occurs(x, seqs[j])
        <5>1. Occurs(x, f[i]) <=> \E j \in 1 .. i : Occurs(x, seqs[j])
          BY <4>1
        <5>2. Occurs(x, f[i + 1]) <=> Occurs(x, f[i]) \/ Occurs(x, seqs[i + 1])
          BY <4>2, <4>4
        <5>3. 1 .. i + 1 = (1 .. i) \union {i + 1}
          OBVIOUS
        <5> QED
          BY <5>1, <5>2, <5>3
      <4> QED
        BY <4>5, <4>6
    <3> QED
      BY <3>1, <3>2
  <2> HIDE DEF T
  <2>6. n \in T
    BY <1>1, <2>4, <2>5, Induction
  <2>7. Good(n)
    BY <1>1, <1>3, <2>6 DEF T
  <2> QED
    BY <2>1, <2>7 DEF n
<1> QED
  BY <1>2, <1>3
-------------------------------------------------------------------------------
(* The states of region.sls.                                                *)

IsFabricState(s) ==
  \/ \E f \in Fabrics : s = <<"fabric", f>>
  \/ \E f \in Fabrics : \E k \in 1 .. Len(Vlans[f]) : s = <<"vlan", f, Vlans[f][k]>>

IsSubnetState(s) ==
  \/ \E c \in Cidrs : s = <<"subnet", c>>
  \/ \E c \in Cidrs : \E k \in 1 .. Len(Ranges[c]) : s = <<"range", Ranges[c][k], c>>

IsDhcpState(s) ==
  \E f \in Fabrics : \E k \in 1 .. Len(Vlans[f]) : s = <<"dhcp", f, Vlans[f][k]>>

SomeStates ==
  ({"fabric"} \X Fabrics) \union ({"subnet"} \X Cidrs)
    \union ({"vlan", "dhcp"} \X Fabrics \X Nat) \union ({"range"} \X AllRanges \X Cidrs)

LEMMA StatesFunction ==
  ASSUME NEW n \in Nat, NEW s \in [1 .. n -> SomeStates]
  PROVE  s \in Seq(SomeStates) /\ \A x : Occurs(x, s) <=> \E i \in 1 .. n : s[i] = x
<1>1. s \in Seq(SomeStates) /\ Len(s) = n
  OBVIOUS
<1> QED
  BY <1>1 DEF Occurs

LEMMA StatesConcat ==
  ASSUME NEW s \in Seq(SomeStates), NEW t \in Seq(SomeStates)
  PROVE  /\ s \o t \in Seq(SomeStates)
         /\ \A x : Occurs(x, s \o t) <=> Occurs(x, s) \/ Occurs(x, t)
BY OccursConcat

LEMMA VlanStatesFacts ==
  ASSUME NEW f \in Fabrics, NEW kind \in {"vlan", "dhcp"}
  PROVE  /\ VlanStates(kind, f) \in Seq(SomeStates)
         /\ \A x : Occurs(x, VlanStates(kind, f)) <=>
              \E k \in 1 .. Len(Vlans[f]) : x = <<kind, f, Vlans[f][k]>>
<1> DEFINE v == VlanStates(kind, f)
<1>1. /\ DOMAIN Vlans[f] = 1 .. Len(Vlans[f]) /\ Len(Vlans[f]) \in Nat
      /\ \A k \in 1 .. Len(Vlans[f]) : Vlans[f][k] \in Nat
  BY RegionAssumption
<1>2. ASSUME NEW k \in 1 .. Len(Vlans[f])
      PROVE  <<kind, f, Vlans[f][k]>> \in SomeStates
  <2>1. <<kind, f, Vlans[f][k]>> \in {"vlan", "dhcp"} \X Fabrics \X Nat
    BY <1>1
  <2> QED
    BY <2>1 DEF SomeStates
<1>3. v = [k \in 1 .. Len(Vlans[f]) |-> <<kind, f, Vlans[f][k]>>]
  BY <1>1 DEF VlanStates
<1> HIDE DEF v
<1>4. v \in [1 .. Len(Vlans[f]) -> SomeStates]
  BY <1>2, <1>3
<1>5. v \in Seq(SomeStates) /\ \A x : Occurs(x, v) <=> \E k \in 1 .. Len(Vlans[f]) : v[k] = x
  BY <1>1, <1>4, StatesFunction
<1> QED
  BY <1>3, <1>5 DEF v

LEMMA FabricStatesFacts ==
  ASSUME NEW f \in Fabrics
  PROVE  /\ FabricStates(f) \in Seq(SomeStates)
         /\ \A x : Occurs(x, FabricStates(f)) <=>
              \/ x = <<"fabric", f>>
              \/ \E k \in 1 .. Len(Vlans[f]) : x = <<"vlan", f, Vlans[f][k]>>
<1> DEFINE u == <<<<"fabric", f>>>>
           v == VlanStates("vlan", f)
<1>1. u \in Seq(SomeStates)
  BY DEF SomeStates
<1>2. \A x : Occurs(x, u) <=> x = <<"fabric", f>>
  BY DEF Occurs
<1>3. FabricStates(f) = u \o v
  BY DEF FabricStates
<1>4. /\ v \in Seq(SomeStates)
      /\ \A x : Occurs(x, v) <=> \E k \in 1 .. Len(Vlans[f]) : x = <<"vlan", f, Vlans[f][k]>>
  BY VlanStatesFacts
<1> HIDE DEF u, v
<1>5. /\ FabricStates(f) \in Seq(SomeStates)
      /\ \A x : Occurs(x, FabricStates(f)) <=> Occurs(x, u) \/ Occurs(x, v)
  BY <1>1, <1>3, <1>4, StatesConcat
<1> QED
  BY <1>2, <1>4, <1>5

LEMMA SubnetStatesFacts ==
  ASSUME NEW c \in Cidrs
  PROVE  /\ SubnetStates(c) \in Seq(SomeStates)
         /\ \A x : Occurs(x, SubnetStates(c)) <=>
              \/ x = <<"subnet", c>>
              \/ \E k \in 1 .. Len(Ranges[c]) : x = <<"range", Ranges[c][k], c>>
<1> DEFINE u == <<<<"subnet", c>>>>
           v == [k \in DOMAIN Ranges[c] |-> <<"range", Ranges[c][k], c>>]
<1>1. /\ DOMAIN Ranges[c] = 1 .. Len(Ranges[c]) /\ Len(Ranges[c]) \in Nat
      /\ \A k \in 1 .. Len(Ranges[c]) : Ranges[c][k] \in ToSet(Ranges[c])
  BY RegionAssumption
<1>2. ASSUME NEW k \in 1 .. Len(Ranges[c])
      PROVE  <<"range", Ranges[c][k], c>> \in SomeStates
  <2>1. <<"range", Ranges[c][k], c>> \in {"range"} \X AllRanges \X Cidrs
    BY <1>1 DEF AllRanges
  <2> QED
    BY <2>1 DEF SomeStates
<1>3. v = [k \in 1 .. Len(Ranges[c]) |-> <<"range", Ranges[c][k], c>>]
  BY <1>1
<1>4. SubnetStates(c) = u \o v
  BY DEF SubnetStates
<1> HIDE DEF u, v
<1>5. v \in [1 .. Len(Ranges[c]) -> SomeStates]
  BY <1>2, <1>3
<1>6. v \in Seq(SomeStates) /\ \A x : Occurs(x, v) <=> \E k \in 1 .. Len(Ranges[c]) : v[k] = x
  BY <1>1, <1>5, StatesFunction
<1>7. u \in Seq(SomeStates)
  BY DEF SomeStates, u
<1>8. \A x : Occurs(x, u) <=> x = <<"subnet", c>>
  BY DEF Occurs, u
<1>9. /\ SubnetStates(c) \in Seq(SomeStates)
      /\ \A x : Occurs(x, SubnetStates(c)) <=> Occurs(x, u) \/ Occurs(x, v)
  BY <1>4, <1>6, <1>7, StatesConcat
<1> QED
  BY <1>3, <1>6, <1>8, <1>9

LEMMA EachFacts ==
  ASSUME NEW n \in Nat, NEW seqs \in [1 .. n -> Seq(SomeStates)]
  PROVE  /\ FlattenSeq(seqs) \in Seq(SomeStates)
         /\ \A x : Occurs(x, FlattenSeq(seqs)) <=> \E i \in 1 .. n : Occurs(x, seqs[i])
<1>1. seqs \in Seq(Seq(SomeStates)) /\ Len(seqs) = n
  OBVIOUS
<1> QED
  BY <1>1, FlattenFacts

\* Plan is made of three parts.
LEMMA PlanParts ==
  \E a, b, d \in Seq(SomeStates) :
    /\ Plan = a \o b \o d
    /\ \A x : Occurs(x, a) <=> IsFabricState(x)
    /\ \A x : Occurs(x, b) <=> IsSubnetState(x)
    /\ \A x : Occurs(x, d) <=> IsDhcpState(x)
<1> DEFINE as == [i \in DOMAIN FabricOrder |-> FabricStates(FabricOrder[i])]
           bs == [i \in DOMAIN CidrOrder |-> SubnetStates(CidrOrder[i])]
           ds == [i \in DOMAIN FabricOrder |-> DhcpStates(FabricOrder[i])]
<1>1. Plan = FlattenSeq(as) \o FlattenSeq(bs) \o FlattenSeq(ds)
  BY DEF Plan, Each
<1>2. /\ Len(FabricOrder) \in Nat /\ DOMAIN FabricOrder = 1 .. Len(FabricOrder)
      /\ \A i \in 1 .. Len(FabricOrder) : FabricOrder[i] \in Fabrics
      /\ \A f \in Fabrics : \E i \in 1 .. Len(FabricOrder) : FabricOrder[i] = f
  BY RegionAssumption DEF Enumerates, ToSet
<1>3. /\ Len(CidrOrder) \in Nat /\ DOMAIN CidrOrder = 1 .. Len(CidrOrder)
      /\ \A i \in 1 .. Len(CidrOrder) : CidrOrder[i] \in Cidrs
      /\ \A c \in Cidrs : \E i \in 1 .. Len(CidrOrder) : CidrOrder[i] = c
  BY RegionAssumption DEF Enumerates, ToSet
<1>4. /\ FlattenSeq(as) \in Seq(SomeStates)
      /\ \A x : Occurs(x, FlattenSeq(as)) <=> IsFabricState(x)
  <2> DEFINE n == Len(FabricOrder)
  <2>1. \A i \in 1 .. n : as[i] = FabricStates(FabricOrder[i])
    BY <1>2
  <2>2. as \in [1 .. n -> Seq(SomeStates)]
    BY <1>2, FabricStatesFacts
  <2> HIDE DEF as
  <2>3. n \in Nat
    BY <1>2
  <2> HIDE DEF n
  <2>4. /\ FlattenSeq(as) \in Seq(SomeStates)
        /\ \A x : Occurs(x, FlattenSeq(as)) <=> \E i \in 1 .. n : Occurs(x, as[i])
    BY <2>2, <2>3, EachFacts
  <2>5. ASSUME NEW x
        PROVE  (\E i \in 1 .. n : Occurs(x, as[i])) <=> \E f \in Fabrics : Occurs(x, FabricStates(f))
    BY <1>2, <2>1 DEF n
  <2>6. ASSUME NEW x
        PROVE  (\E f \in Fabrics : Occurs(x, FabricStates(f))) <=> IsFabricState(x)
    BY FabricStatesFacts DEF IsFabricState
  <2> QED
    BY <2>4, <2>5, <2>6
<1>5. /\ FlattenSeq(bs) \in Seq(SomeStates)
      /\ \A x : Occurs(x, FlattenSeq(bs)) <=> IsSubnetState(x)
  <2> DEFINE n == Len(CidrOrder)
  <2>1. \A i \in 1 .. n : bs[i] = SubnetStates(CidrOrder[i])
    BY <1>3
  <2>2. bs \in [1 .. n -> Seq(SomeStates)]
    BY <1>3, SubnetStatesFacts
  <2> HIDE DEF bs
  <2>3. n \in Nat
    BY <1>3
  <2> HIDE DEF n
  <2>4. /\ FlattenSeq(bs) \in Seq(SomeStates)
        /\ \A x : Occurs(x, FlattenSeq(bs)) <=> \E i \in 1 .. n : Occurs(x, bs[i])
    BY <2>2, <2>3, EachFacts
  <2>5. ASSUME NEW x
        PROVE  (\E i \in 1 .. n : Occurs(x, bs[i])) <=> \E c \in Cidrs : Occurs(x, SubnetStates(c))
    BY <1>3, <2>1 DEF n
  <2>6. ASSUME NEW x
        PROVE  (\E c \in Cidrs : Occurs(x, SubnetStates(c))) <=> IsSubnetState(x)
    BY SubnetStatesFacts DEF IsSubnetState
  <2> QED
    BY <2>4, <2>5, <2>6
<1>6. /\ FlattenSeq(ds) \in Seq(SomeStates)
      /\ \A x : Occurs(x, FlattenSeq(ds)) <=> IsDhcpState(x)
  <2> DEFINE n == Len(FabricOrder)
  <2>1. \A i \in 1 .. n : ds[i] = VlanStates("dhcp", FabricOrder[i])
    BY <1>2 DEF DhcpStates
  <2>2. ds \in [1 .. n -> Seq(SomeStates)]
    BY <1>2, VlanStatesFacts DEF DhcpStates
  <2> HIDE DEF ds
  <2>3. n \in Nat
    BY <1>2
  <2> HIDE DEF n
  <2>4. /\ FlattenSeq(ds) \in Seq(SomeStates)
        /\ \A x : Occurs(x, FlattenSeq(ds)) <=> \E i \in 1 .. n : Occurs(x, ds[i])
    BY <2>2, <2>3, EachFacts
  <2>5. ASSUME NEW x
        PROVE  (\E i \in 1 .. n : Occurs(x, ds[i])) <=> \E f \in Fabrics : Occurs(x, VlanStates("dhcp", f))
    BY <1>2, <2>1 DEF n
  <2>6. ASSUME NEW x
        PROVE  (\E f \in Fabrics : Occurs(x, VlanStates("dhcp", f))) <=> IsDhcpState(x)
    BY VlanStatesFacts DEF IsDhcpState
  <2> QED
    BY <2>4, <2>5, <2>6
<1> HIDE DEF as, bs, ds
<1> QED
  BY <1>1, <1>4, <1>5, <1>6

\* What the proofs need to know of Plan.
LEMMA PlanFacts ==
  /\ Len(Plan) \in Nat
  /\ \A x : (\E p \in 1 .. Len(Plan) : Plan[p] = x) <=>
           IsFabricState(x) \/ IsSubnetState(x) \/ IsDhcpState(x)
  /\ \A p \in 1 .. Len(Plan), q \in 1 .. Len(Plan) :
       q <= p /\ IsFabricState(Plan[p]) => IsFabricState(Plan[q])
<1>1. PICK a \in Seq(SomeStates), b \in Seq(SomeStates), d \in Seq(SomeStates) :
        /\ Plan = a \o b \o d
        /\ \A x : Occurs(x, a) <=> IsFabricState(x)
        /\ \A x : Occurs(x, b) <=> IsSubnetState(x)
        /\ \A x : Occurs(x, d) <=> IsDhcpState(x)
  BY PlanParts
<1> DEFINE e == b \o d
<1>2. Plan = a \o e /\ e \in Seq(SomeStates)
  BY <1>1
<1>3. \A x : Occurs(x, e) <=> IsSubnetState(x) \/ IsDhcpState(x)
  BY <1>1, StatesConcat
<1> HIDE DEF e
<1>4. \A x : Occurs(x, Plan) <=> IsFabricState(x) \/ IsSubnetState(x) \/ IsDhcpState(x)
  BY <1>1, <1>2, <1>3, StatesConcat
<1>5. Len(Plan) \in Nat /\ Len(Plan) = Len(a) + Len(e) /\ Len(a) \in Nat /\ Len(e) \in Nat
  BY <1>2
<1>6. \A x : ~(IsFabricState(x) /\ (IsSubnetState(x) \/ IsDhcpState(x)))
  BY DEF IsFabricState, IsSubnetState, IsDhcpState
<1>7. ASSUME NEW p \in 1 .. Len(Plan)
      PROVE  IsFabricState(Plan[p]) <=> p <= Len(a)
  <2>1. Plan[p] = IF p <= Len(a) THEN a[p] ELSE e[p - Len(a)]
    BY <1>2, <1>5
  <2>2. CASE p <= Len(a)
    <3>1. Occurs(Plan[p], a)
      BY <1>5, <2>1, <2>2 DEF Occurs
    <3> QED
      BY <1>1, <2>2, <3>1
  <2>3. CASE ~(p <= Len(a))
    <3>1. p - Len(a) \in 1 .. Len(e)
      BY <1>5, <2>3
    <3>2. Occurs(Plan[p], e)
      BY <2>1, <2>3, <3>1 DEF Occurs
    <3> QED
      BY <1>3, <1>6, <2>3, <3>2
  <2> QED
    BY <2>2, <2>3
<1>8. ASSUME NEW p \in 1 .. Len(Plan), NEW q \in 1 .. Len(Plan),
             q <= p, IsFabricState(Plan[p])
      PROVE  IsFabricState(Plan[q])
  <2>1. p <= Len(a) /\ p \in Nat /\ q \in Nat
    BY <1>7, <1>8
  <2>2. q <= Len(a)
    BY <1>5, <1>8, <2>1
  <2> QED
    BY <1>7, <2>2
<1> QED
  BY <1>4, <1>5, <1>8 DEF Occurs

-------------------------------------------------------------------------------
(* The inductive invariant.                                                 *)

\* MaaS counts fabrics: there is one for each name of the pillar it has, and at
\* most one for each subnet it has discovered.
Named == {f \in Fabrics : IdsOf(f) # {}}

Numbered ==
  \E n \in Nat : Known = 1 .. n /\ n <= Cardinality(Named) + Cardinality(Discovered)

\* Each fabric has its untagged VLAN.
Untagged == \A i \in Known : <<i, 0>> \in vlans

\* What a state has looked up is still so when it writes.
LookedUp ==
  looked =>
    /\ phase = "running" /\ at <= Len(Plan)
    /\ Current[1] \in {"fabric", "subnet"}
    /\ Current[1] = "fabric" =>
         /\ seen \subseteq Known
         /\ ~split => seen \subseteq Homes(Current[2]) \union IdsOf(Current[2])
    /\ Current[1] = "subnet" /\ seen # {} => subnets[Current[2]] # NoFabric

\* No subnet is in the fabric of another's name, and the guess has one answer.
Unambiguous == NotMisplaced /\ (~split => ~Ambiguous)

\* The states that have succeeded in this attempt, and what they have achieved,
\* which nothing takes back before the attempt is over.
Succeeded == {Plan[p] : p \in 1 .. at - 1} \ failed

FabricKept(f) == ~split => IdsOf(f) # {}
SubnetKept(c) == subnets[c] # NoFabric /\ (moves => IdsOf(FabricOf[c]) = {subnets[c]})
DhcpKept(f, v) ==
  \A i \in IdsOf(f) : <<i, v>> \in vlans /\ (<<i, v>> \in dhcp <=> <<f, v>> \in Dhcp)

Achieved(s) ==
  /\ \A f \in Fabrics : s = <<"fabric", f>> => FabricKept(f)
  /\ \A c \in Cidrs : s = <<"subnet", c>> => SubnetKept(c)
  /\ \A c \in Cidrs, r \in AllRanges : s = <<"range", r, c>> => r \in ipranges
  /\ \A f \in Fabrics, v \in Nat : s = <<"dhcp", f, v>> => DhcpKept(f, v)

Kept == \A s \in Succeeded : Achieved(s)

Ended == phase = "done" => failed = {} /\ at = Len(Plan) + 1

\* What a success leaves, for good.
Complete ==
  /\ Discovered = Cidrs
  /\ \A f \in Fabrics : IdsOf(f) # {}
  /\ \A f \in Fabrics : \A k \in 1 .. Len(Vlans[f]), i \in IdsOf(f) : <<i, Vlans[f][k]>> \in vlans
  /\ AllRanges \subseteq ipranges

Settled == configured => ~split /\ Complete

Inv ==
  /\ TypeOK /\ Numbered /\ Untagged /\ LookedUp /\ Unambiguous
  /\ Kept /\ Ended /\ Settled

-------------------------------------------------------------------------------
(* The types, and the numbers of fabrics.                                   *)

\* What the state of Plan that runs is about.
LEMMA CurrentFacts ==
  ASSUME at \in 1 .. Len(Plan) + 1, at <= Len(Plan)
  PROVE  /\ at \in 1 .. Len(Plan) /\ Len(Plan) \in Nat /\ Current \in ToSet(Plan)
         /\ \/ \E f \in Fabrics : Current = <<"fabric", f>>
            \/ \E f \in Fabrics, v \in Nat : Current = <<"vlan", f, v>>
            \/ \E c \in Cidrs : Current = <<"subnet", c>>
            \/ \E c \in Cidrs, r \in AllRanges : Current = <<"range", r, c>>
            \/ \E f \in Fabrics, v \in Nat : Current = <<"dhcp", f, v>>
<1>1. Len(Plan) \in Nat /\ at \in 1 .. Len(Plan)
  BY PlanFacts
<1>2. IsFabricState(Current) \/ IsSubnetState(Current) \/ IsDhcpState(Current)
  BY <1>1, PlanFacts DEF Current
<1>3. \A f \in Fabrics : \A k \in 1 .. Len(Vlans[f]) : Vlans[f][k] \in Nat
  BY RegionAssumption
<1>4. ASSUME NEW c \in Cidrs, NEW k \in 1 .. Len(Ranges[c])
      PROVE  Ranges[c][k] \in AllRanges
  BY RegionAssumption DEF AllRanges
<1>5. Current \in ToSet(Plan)
  <2>1. DOMAIN Plan = 1 .. Len(Plan)
    <3>1. PICK a \in Seq(SomeStates), b \in Seq(SomeStates), d \in Seq(SomeStates) :
            Plan = a \o b \o d
      BY PlanParts
    <3> QED
      BY <3>1
  <2> QED
    BY <1>1, <2>1 DEF Current, ToSet
<1>6. CASE IsFabricState(Current)
  BY <1>1, <1>3, <1>5, <1>6 DEF IsFabricState
<1>7. CASE IsSubnetState(Current)
  BY <1>1, <1>4, <1>5, <1>7 DEF IsSubnetState
<1>8. CASE IsDhcpState(Current)
  BY <1>1, <1>3, <1>5, <1>8 DEF IsDhcpState
<1> QED
  BY <1>2, <1>6, <1>7, <1>8

LEMMA AtStateFacts ==
  ASSUME at \in 1 .. Len(Plan) + 1, NEW kind, NEW second, AtState(kind, second)
  PROVE  /\ kind = "fabric" => Current[2] \in Fabrics /\ Current = <<"fabric", Current[2]>>
         /\ kind = "vlan" => Current[2] \in Fabrics /\ Current[3] \in Nat
                              /\ Current = <<"vlan", Current[2], Current[3]>>
         /\ kind = "subnet" => Current[2] \in Cidrs /\ Current = <<"subnet", Current[2]>>
         /\ kind = "range" => Current[2] \in AllRanges
                              /\ Current = <<"range", Current[2], Current[3]>>
         /\ kind = "dhcp" => Current[2] \in Fabrics /\ Current[3] \in Nat
                              /\ Current = <<"dhcp", Current[2], Current[3]>>
<1>1. at <= Len(Plan) /\ Current[1] = kind
  BY DEF AtState
<1>2. CASE \E f \in Fabrics : Current = <<"fabric", f>>
  BY <1>1, <1>2
<1>3. CASE \E f \in Fabrics, v \in Nat : Current = <<"vlan", f, v>>
  BY <1>1, <1>3
<1>4. CASE \E c \in Cidrs : Current = <<"subnet", c>>
  BY <1>1, <1>4
<1>5. CASE \E c \in Cidrs, r \in AllRanges : Current = <<"range", r, c>>
  BY <1>1, <1>5
<1>6. CASE \E f \in Fabrics, v \in Nat : Current = <<"dhcp", f, v>>
  BY <1>1, <1>6
<1> QED
  BY <1>1, <1>2, <1>3, <1>4, <1>5, <1>6, CurrentFacts

\* How a step changes what Salt knows.
SaltTypeOK ==
  /\ at \in 1 .. Len(Plan) + 1 /\ looked \in BOOLEAN /\ failed \subseteq ToSet(Plan)
  /\ tries \in 1 .. MaxTries /\ phase \in {"running", "done", "failed"}
  /\ faults \in 0 .. MaxFaults /\ runs \in 0 .. MaxRuns

LEMMA ReturnType ==
  ASSUME SaltTypeOK, NEW ok, Return(ok), at <= Len(Plan), Fault \/ UNCHANGED faults
  PROVE  SaltTypeOK' /\ seen' = {}
<1>1. at \in 1 .. Len(Plan) /\ Len(Plan) \in Nat /\ Current \in ToSet(Plan)
  BY CurrentFacts DEF SaltTypeOK
<1>2. Plan' = Plan
  BY DEF Plan, Each, FabricStates, SubnetStates, DhcpStates, VlanStates
<1>3. at' \in 1 .. Len(Plan) + 1
  BY <1>1 DEF Return
<1>4. failed' \subseteq ToSet(Plan)
  BY <1>1 DEF Return, SaltTypeOK
<1>5. faults' \in 0 .. MaxFaults
  BY RegionAssumption DEF Fault, SaltTypeOK
<1> QED
  BY <1>3, <1>4, <1>5 DEF Return, SaltTypeOK, runVars

\* The part of TypeOK about MaaS.
MaasTypeOK ==
  /\ fabrics \in [Ids -> Fabrics \union {AutoName, Absent}]
  /\ \A i, j \in Ids : fabrics[i] = fabrics[j] => i = j \/ fabrics[i] \in {AutoName, Absent}
  /\ vlans \subseteq Known \X Nat
  /\ dhcp \subseteq vlans
  /\ subnets \in [Cidrs -> Known \union {NoFabric}]
  /\ ipranges \subseteq AllRanges
  /\ moves \in BOOLEAN

LEMMA CountFacts ==
  /\ IsFiniteSet(Named) /\ IsFiniteSet(Discovered)
  /\ Cardinality(Named) \in Nat /\ Cardinality(Named) <= Cardinality(Fabrics)
  /\ Cardinality(Discovered) \in Nat /\ Cardinality(Discovered) <= Cardinality(Cidrs)
  /\ Cardinality(Fabrics) \in Nat /\ Cardinality(Cidrs) \in Nat
  /\ Cardinality(Named) = Cardinality(Fabrics) => Named = Fabrics
  /\ Cardinality(Discovered) = Cardinality(Cidrs) => Discovered = Cidrs
<1>1. IsFiniteSet(Fabrics) /\ IsFiniteSet(Cidrs)
  BY RegionAssumption
<1>2. Named \in SUBSET Fabrics /\ Discovered \in SUBSET Cidrs
  BY DEF Named, Discovered
<1> QED
  BY <1>1, <1>2, FS_Subset, FS_CardinalityType

\* There is room for another fabric while a name or a subnet is missing.
LEMMA NewIdFacts ==
  ASSUME Numbered, Named # Fabrics \/ Discovered # Cidrs
  PROVE  /\ NewId \in Ids /\ NewId \notin Known
         /\ Known \union {NewId} = 1 .. NewId
         /\ NewId \in Nat \ {0} /\ NewId <= Cardinality(Named) + Cardinality(Discovered) + 1
<1>1. PICK n \in Nat : Known = 1 .. n /\ n <= Cardinality(Named) + Cardinality(Discovered)
  BY DEF Numbered
<1>2. Cardinality(1 .. n) = n
  BY FS_Interval
<1>3. NewId = n + 1
  BY <1>1, <1>2 DEF NewId
<1>4. Cardinality(Named) + Cardinality(Discovered) < Cardinality(Fabrics) + Cardinality(Cidrs)
  BY CountFacts
<1>5. n + 1 \in Ids
  BY <1>1, <1>4, CountFacts DEF Ids
<1>6. (1 .. n) \union {n + 1} = 1 .. n + 1 /\ n + 1 \notin 1 .. n
  OBVIOUS
<1>7. n + 1 <= Cardinality(Named) + Cardinality(Discovered) + 1
  BY <1>1, CountFacts
<1> QED
  BY <1>1, <1>3, <1>5, <1>6, <1>7

\* A state gives a fabric, an old or a new one, its name.
LEMMA NamesStep ==
  ASSUME MaasTypeOK, Numbered, Untagged, NEW f \in Fabrics,
         NEW i \in Known \union {NewId}, IdsOf(f) \subseteq {i},
         fabrics' = [fabrics EXCEPT ![i] = f], vlans' = vlans \union {<<i, 0>>},
         UNCHANGED <<dhcp, subnets, ipranges, moves>>
  PROVE  MaasTypeOK' /\ Numbered' /\ Untagged'
<1>1. i \in Ids /\ (i \notin Known => i = NewId /\ IdsOf(f) = {})
  <2>1. Known \subseteq Ids /\ IdsOf(f) \subseteq Known
    BY NamesAssumption DEF Known, IdsOf
  <2>2. CASE i \in Known
    BY <2>1, <2>2
  <2>3. CASE i \notin Known
    <3>1. i = NewId /\ IdsOf(f) = {}
      BY <2>1, <2>3
    <3>2. f \notin Named
      BY <3>1 DEF Named
    <3> QED
      BY <3>1, <3>2, NewIdFacts
  <2> QED
    BY <2>2, <2>3
<1>2. Known' = Known \union {i}
  BY <1>1, NamesAssumption DEF Known, MaasTypeOK
<1>3. Untagged'
  BY <1>2 DEF Untagged
<1>4. MaasTypeOK'
  <2>1. fabrics' \in [Ids -> Fabrics \union {AutoName, Absent}]
    BY <1>1 DEF MaasTypeOK
  <2>2. ASSUME NEW j \in Ids, NEW k \in Ids, fabrics'[j] = fabrics'[k]
        PROVE  j = k \/ fabrics'[j] \in {AutoName, Absent}
    <3>1. \A l \in Ids : fabrics[l] = f => l = i
      BY DEF IdsOf
    <3> QED
      BY <1>1, <2>2, <3>1 DEF MaasTypeOK
  <2>3. vlans' \subseteq Known' \X Nat
    BY <1>2 DEF MaasTypeOK
  <2>4. subnets' \in [Cidrs -> Known' \union {NoFabric}]
    BY <1>2 DEF MaasTypeOK
  <2> QED
    BY <2>1, <2>2, <2>3, <2>4 DEF MaasTypeOK
<1>5. Numbered'
  <2>1. Discovered' = Discovered
    BY DEF Discovered
  <2>2. ASSUME NEW g \in Named, g # fabrics[i]
        PROVE  g \in Named'
    <3>1. PICK j \in Ids : fabrics[j] = g
      BY DEF Named, IdsOf
    <3>2. fabrics'[j] = g
      BY <2>2, <3>1 DEF MaasTypeOK
    <3> QED
      BY <3>1, <3>2 DEF Named, IdsOf
  <2>3. f \in Named'
    BY <1>1 DEF Named, IdsOf, MaasTypeOK
  <2>4. CASE i \in Known /\ fabrics[i] = f
    <3>1. fabrics' = fabrics /\ Known' = Known
      BY <1>2, <2>4 DEF MaasTypeOK
    <3> QED
      BY <2>1, <3>1 DEF Numbered, Named, IdsOf
  <2>5. CASE ~(i \in Known /\ fabrics[i] = f)
    <3>1. f \notin Named
      BY <1>1, <2>5 DEF Named, IdsOf
    <3>2. IsFiniteSet(Named) /\ Cardinality(Named) \in Nat /\ Cardinality(Discovered) \in Nat
      BY CountFacts
    <3>3. IsFiniteSet(Named') /\ Cardinality(Named') \in Nat
      <4>1. IsFiniteSet(Fabrics) /\ Named' \in SUBSET Fabrics
        BY RegionAssumption DEF Named
      <4> QED
        BY <4>1, FS_Subset, FS_CardinalityType
    <3>4. CASE i \in Known
      <4> DEFINE Rest == Named \ {fabrics[i]}
      <4>1. IsFiniteSet(Rest) /\ Cardinality(Rest) \in Nat /\ Cardinality(Rest) >= Cardinality(Named) - 1
        <5>1. IsFiniteSet(Rest) /\ Cardinality(Rest) =
                IF fabrics[i] \in Named THEN Cardinality(Named) - 1 ELSE Cardinality(Named)
          BY <3>2, FS_RemoveElement
        <5>2. Cardinality(Rest) \in Nat
          BY <5>1, FS_CardinalityType
        <5> QED
          BY <3>2, <5>1, <5>2
      <4>2. IsFiniteSet(Rest \union {f}) /\ Cardinality(Rest \union {f}) = Cardinality(Rest) + 1
        BY <3>1, <4>1, FS_AddElement
      <4>3. Rest \union {f} \in SUBSET Named'
        BY <2>2, <2>3
      <4>4. Cardinality(Rest \union {f}) <= Cardinality(Named')
        BY <3>3, <4>3, FS_Subset
      <4>5. Cardinality(Named) <= Cardinality(Named')
        BY <3>2, <3>3, <4>1, <4>2, <4>4
      <4>6. Known' = Known
        BY <1>2, <3>4
      <4>7. PICK n \in Nat : Known = 1 .. n /\ n <= Cardinality(Named) + Cardinality(Discovered)
        BY DEF Numbered
      <4>8. n <= Cardinality(Named') + Cardinality(Discovered)
        BY <3>2, <3>3, <4>5, <4>7
      <4> QED
        BY <2>1, <4>6, <4>7, <4>8 DEF Numbered
    <3>5. CASE i \notin Known
      <4>1. i = NewId /\ fabrics[i] = Absent
        BY <1>1, <3>5 DEF Known
      <4>2. /\ Known \union {NewId} = 1 .. NewId
            /\ NewId \in Nat /\ NewId <= Cardinality(Named) + Cardinality(Discovered) + 1
        BY <3>1, NewIdFacts
      <4>3. Named \union {f} \in SUBSET Named'
        <5>1. fabrics[i] \notin Named
          BY <4>1, NamesAssumption DEF Named
        <5> QED
          BY <2>2, <2>3, <5>1
      <4>4. Cardinality(Named \union {f}) = Cardinality(Named) + 1
        BY <3>1, <3>2, FS_AddElement
      <4>5. Cardinality(Named) + 1 <= Cardinality(Named')
        BY <3>3, <4>3, <4>4, FS_Subset
      <4>6. NewId <= Cardinality(Named') + Cardinality(Discovered)
        BY <3>2, <3>3, <4>2, <4>5
      <4>7. Known' = 1 .. NewId
        BY <1>2, <4>1, <4>2
      <4> QED
        BY <2>1, <4>2, <4>6, <4>7 DEF Numbered
    <3> QED
      BY <3>4, <3>5
  <2> QED
    BY <2>4, <2>5
<1> QED
  BY <1>3, <1>4, <1>5

\* What MaaS does by itself: subnets are added to a fabric, a new one if need be.
LEMMA DiscoverFacts ==
  ASSUME MaasTypeOK, Numbered, NEW n \in Nics, Discover(n)
  PROVE  \E i \in Known \union {NewId} : \E new \in SUBSET (Cidrs \ Discovered) :
           /\ new = n \ Discovered /\ new # {} /\ i \in Ids /\ (i \notin Known => i = NewId)
           /\ i \in Known => \E d \in n \intersect Discovered : i = subnets[d]
           /\ fabrics' = [fabrics EXCEPT ![i] = IF @ = Absent THEN AutoName ELSE @]
           /\ vlans' = vlans \union {<<i, 0>>}
           /\ subnets' = [c \in Cidrs |-> IF c \in new THEN i ELSE subnets[c]]
           /\ Discovered' = Discovered \union new
           /\ UNCHANGED <<dhcp, ipranges, moves>>
<1> DEFINE new == n \ Discovered
           home == {subnets[c] : c \in n \intersect Discovered}
<1>1. n \subseteq Cidrs
  BY RegionAssumption
<1>2. PICK i \in (IF home = {} THEN {NewId} ELSE home) :
        /\ fabrics' = [fabrics EXCEPT ![i] = IF @ = Absent THEN AutoName ELSE @]
        /\ vlans' = vlans \union {<<i, 0>>}
        /\ subnets' = [c \in Cidrs |-> IF c \in new THEN i ELSE subnets[c]]
  BY DEF Discover
<1>3. new # {} /\ UNCHANGED <<dhcp, ipranges, moves>>
  BY DEF Discover
<1>4. Discovered # Cidrs
  BY <1>1, <1>3
<1>5. NewId \in Ids /\ NewId \notin Known /\ NewId # NoFabric
  BY <1>4, NewIdFacts DEF NoFabric
<1>6. home \subseteq Known
  BY DEF Discovered, MaasTypeOK
<1>7. Known \subseteq Ids /\ NoFabric \notin Ids
  BY DEF Known, Ids, NoFabric
<1>8. i \in Ids /\ (i \notin Known => i = NewId) /\ i # NoFabric /\ i \in Known \union {NewId}
  BY <1>2, <1>5, <1>6, <1>7
<1>9. i \in Known => \E d \in n \intersect Discovered : i = subnets[d]
  BY <1>2, <1>5
<1>10. Discovered' = Discovered \union new
  BY <1>1, <1>2, <1>8 DEF Discovered
<1>11. new \in SUBSET (Cidrs \ Discovered)
  BY <1>1
<1> QED
  BY <1>2, <1>3, <1>8, <1>9, <1>10, <1>11

LEMMA DiscoverStep ==
  ASSUME MaasTypeOK, Numbered, Untagged, NEW n \in Nics, Discover(n)
  PROVE  /\ MaasTypeOK' /\ Numbered' /\ Untagged'
         /\ \A f \in Fabrics : IdsOf(f)' = IdsOf(f)
         /\ \A c \in Discovered : c \in Discovered' /\ subnets'[c] = subnets[c]
         /\ Known \subseteq Known' /\ vlans \subseteq vlans' /\ UNCHANGED <<dhcp, ipranges, moves>>
         /\ \A i \in Known, v \in Nat : <<i, v>> \in vlans' => <<i, v>> \in vlans
<1>1. PICK i \in Known \union {NewId}, new \in SUBSET (Cidrs \ Discovered) :
        /\ new = n \ Discovered /\ new # {} /\ i \in Ids /\ (i \notin Known => i = NewId)
        /\ i \in Known => \E d \in n \intersect Discovered : i = subnets[d]
        /\ fabrics' = [fabrics EXCEPT ![i] = IF @ = Absent THEN AutoName ELSE @]
        /\ vlans' = vlans \union {<<i, 0>>}
        /\ subnets' = [c \in Cidrs |-> IF c \in new THEN i ELSE subnets[c]]
        /\ Discovered' = Discovered \union new
        /\ UNCHANGED <<dhcp, ipranges, moves>>
  BY DiscoverFacts
<1>2. Known' = Known \union {i}
  <2>1. AutoName # Absent
    BY DEF AutoName, Absent
  <2> QED
    BY <1>1, <2>1 DEF Known, MaasTypeOK
<1>3. \A f \in Fabrics : IdsOf(f)' = IdsOf(f)
  BY <1>1, NamesAssumption DEF IdsOf, MaasTypeOK
<1>4. Untagged'
  BY <1>1, <1>2 DEF Untagged
<1>5. MaasTypeOK'
  <2>1. fabrics' \in [Ids -> Fabrics \union {AutoName, Absent}]
    BY <1>1 DEF MaasTypeOK
  <2>2. ASSUME NEW j \in Ids, NEW k \in Ids, fabrics'[j] = fabrics'[k]
        PROVE  j = k \/ fabrics'[j] \in {AutoName, Absent}
    BY <1>1, <2>2 DEF MaasTypeOK
  <2>3. vlans' \subseteq Known' \X Nat
    BY <1>1, <1>2 DEF MaasTypeOK
  <2>4. subnets' \in [Cidrs -> Known' \union {NoFabric}]
    BY <1>1, <1>2 DEF MaasTypeOK
  <2> QED
    BY <1>1, <2>1, <2>2, <2>3, <2>4 DEF MaasTypeOK
<1>6. Numbered'
  <2>1. Named' = Named
    BY <1>3 DEF Named
  <2>2. Cardinality(Discovered') \in Nat /\ Cardinality(Discovered') >= Cardinality(Discovered) + 1
    <3>1. PICK c \in new : c \notin Discovered
      BY <1>1
    <3>2. IsFiniteSet(Discovered') /\ Cardinality(Discovered') \in Nat
      <4>1. IsFiniteSet(Cidrs) /\ Discovered' \in SUBSET Cidrs
        BY RegionAssumption DEF Discovered
      <4> QED
        BY <4>1, FS_Subset, FS_CardinalityType
    <3>3. Cardinality(Discovered \union {c}) = Cardinality(Discovered) + 1
      BY <3>1, CountFacts, FS_AddElement
    <3>4. Discovered \union {c} \in SUBSET Discovered'
      BY <1>1, <3>1
    <3>5. Cardinality(Discovered \union {c}) <= Cardinality(Discovered')
      BY <3>2, <3>4, FS_Subset
    <3> QED
      BY <3>2, <3>3, <3>5
  <2>3. CASE i \in Known
    <3>1. PICK m \in Nat : Known = 1 .. m /\ m <= Cardinality(Named) + Cardinality(Discovered)
      BY DEF Numbered
    <3>2. m <= Cardinality(Named) + Cardinality(Discovered')
      BY <2>2, <3>1, CountFacts
    <3> QED
      BY <1>2, <2>1, <2>3, <3>1, <3>2 DEF Numbered
  <2>4. CASE i \notin Known
    <3>1. /\ i = NewId /\ Known \union {NewId} = 1 .. NewId
          /\ NewId \in Nat /\ NewId <= Cardinality(Named) + Cardinality(Discovered) + 1
      BY <1>1, <2>4, NewIdFacts
    <3>2. NewId <= Cardinality(Named) + Cardinality(Discovered')
      BY <2>2, <3>1, CountFacts
    <3>3. Known' = 1 .. NewId
      BY <1>2, <3>1
    <3> QED
      BY <2>1, <3>1, <3>2, <3>3 DEF Numbered
  <2> QED
    BY <2>3, <2>4
<1>7. \A c \in Discovered : c \in Discovered' /\ subnets'[c] = subnets[c]
  BY <1>1 DEF Discovered
<1>8. \A j \in Known, v \in Nat : <<j, v>> \in vlans' => <<j, v>> \in vlans
  BY <1>1 DEF Untagged
<1> QED
  BY <1>1, <1>2, <1>3, <1>4, <1>5, <1>6, <1>7, <1>8

\* A state creates a subnet in a fabric, or moves it there.
LEMMA SubnetStep ==
  ASSUME MaasTypeOK, Numbered, Untagged, NEW c \in Cidrs, NEW i \in Known \union {NoFabric},
         subnets' = [subnets EXCEPT ![c] = i], i = NoFabric => subnets[c] = NoFabric,
         UNCHANGED <<fabrics, vlans, dhcp, ipranges, moves>>
  PROVE  MaasTypeOK' /\ Numbered' /\ Untagged'
<1>1. Known' = Known /\ Named' = Named
  BY DEF Known, Named, IdsOf
<1>2. MaasTypeOK'
  <2>1. subnets' \in [Cidrs -> Known' \union {NoFabric}]
    BY <1>1 DEF MaasTypeOK
  <2> QED
    BY <1>1, <2>1 DEF MaasTypeOK
<1>3. Untagged'
  BY <1>1 DEF Untagged
<1>4. Numbered'
  <2>1. PICK m \in Nat : Known = 1 .. m /\ m <= Cardinality(Named) + Cardinality(Discovered)
    BY DEF Numbered
  <2>2. IsFiniteSet(Discovered') /\ Cardinality(Discovered') \in Nat
    <3>1. IsFiniteSet(Cidrs) /\ Discovered' \in SUBSET Cidrs
      BY RegionAssumption DEF Discovered
    <3> QED
      BY <3>1, FS_Subset, FS_CardinalityType
  <2>3. Discovered \in SUBSET Discovered'
    BY DEF Discovered, MaasTypeOK
  <2>4. Cardinality(Discovered) <= Cardinality(Discovered')
    BY <2>2, <2>3, FS_Subset
  <2>5. m <= Cardinality(Named) + Cardinality(Discovered')
    BY <2>1, <2>2, <2>4, CountFacts
  <2> QED
    BY <1>1, <2>1, <2>5 DEF Numbered
<1> QED
  BY <1>2, <1>3, <1>4

\* A state writes a VLAN or a range.
LEMMA VlanStep ==
  ASSUME MaasTypeOK, Numbered, Untagged, UNCHANGED <<fabrics, subnets, moves>>,
         vlans \subseteq vlans', vlans' \subseteq Known \X Nat,
         dhcp' \subseteq vlans', ipranges' \subseteq AllRanges
  PROVE  MaasTypeOK' /\ Numbered' /\ Untagged'
<1>1. Known' = Known /\ Named' = Named /\ Discovered' = Discovered
  BY DEF Known, Named, IdsOf, Discovered
<1> QED
  BY <1>1 DEF MaasTypeOK, Numbered, Untagged

-------------------------------------------------------------------------------
(* What the steps do.                                                       *)

\* The state that runs returns; MaaS has obeyed, or not.
Answered(ok) == at <= Len(Plan) /\ Return(ok) /\ (Fault \/ UNCHANGED faults)

Fails == Answered(FALSE) /\ UNCHANGED maasVars

NamesFabric(ok, f, i) ==
  /\ Answered(ok) /\ phase = "running" /\ looked
  /\ Current = <<"fabric", f>>
  /\ i \in seen \/ (seen = {} /\ i = NewId)
  /\ IdsOf(f) \subseteq {i}
  /\ fabrics' = [fabrics EXCEPT ![i] = f]
  /\ vlans' = vlans \union {<<i, 0>>}
  /\ UNCHANGED <<dhcp, subnets, ipranges, moves>>

WritesVlan(ok, f, v, i) ==
  /\ Answered(ok) /\ phase = "running"
  /\ i \in IdsOf(f)
  /\ \E k \in 1 .. Len(Vlans[f]) : v = Vlans[f][k]
  /\ vlans' = vlans \union {<<i, v>>}
  /\ \/ Current = <<"vlan", f, v>> /\ dhcp' = dhcp \ {<<i, v>>}
     \/ /\ Current = <<"dhcp", f, v>>
        /\ dhcp' = IF <<f, v>> \in Dhcp THEN dhcp \union {<<i, v>>} ELSE dhcp \ {<<i, v>>}
  /\ UNCHANGED <<fabrics, subnets, ipranges, moves>>

WritesSubnet(ok, c, i) ==
  /\ Answered(ok) /\ phase = "running" /\ looked
  /\ Current = <<"subnet", c>>
  /\ i \in IdsOf(FabricOf[c])
  /\ ~(seen = {} /\ subnets[c] # NoFabric)
  /\ subnets' = [subnets EXCEPT ![c] = IF seen = {} \/ moves THEN i ELSE @]
  /\ UNCHANGED <<fabrics, vlans, dhcp, ipranges, moves>>

AddsRange(ok, r) ==
  /\ Answered(ok) /\ phase = "running"
  /\ \E c : Current = <<"range", r, c>>
  /\ ipranges' = ipranges \union {r}
  /\ UNCHANGED <<fabrics, vlans, dhcp, subnets, moves>>

Effect ==
  \/ Fails
  \/ \E ok \in BOOLEAN, f \in Fabrics, i \in Known \union {NewId} : NamesFabric(ok, f, i)
  \/ \E ok \in BOOLEAN, f \in Fabrics, v \in Nat, i \in Known : WritesVlan(ok, f, v, i)
  \/ \E ok \in BOOLEAN, c \in Cidrs, i \in Known : WritesSubnet(ok, c, i)
  \/ \E ok \in BOOLEAN, r \in AllRanges : AddsRange(ok, r)

LEMMA KnownFacts ==
  /\ Known \subseteq Ids /\ NoFabric \notin Ids
  /\ \A f \in Fabrics : IdsOf(f) \subseteq Known
  /\ TypeOK => \A f \in Fabrics : Homes(f) \subseteq Known
<1>1. Known \subseteq Ids /\ NoFabric \notin Ids
  BY DEF Known, Ids, NoFabric
<1>2. \A f \in Fabrics : IdsOf(f) \subseteq Known
  BY NamesAssumption DEF Known, IdsOf
<1>3. TypeOK => \A f \in Fabrics : Homes(f) \subseteq Known
  BY DEF TypeOK, Homes, Discovered
<1> QED
  BY <1>1, <1>2, <1>3

LEMMA ObeyedFacts ==
  ASSUME Obeyed, at <= Len(Plan)
  PROVE  \E ok \in BOOLEAN : Answered(ok)
BY DEF Obeyed, Answered

LEMMA RefusedFacts ==
  ASSUME Refused, at <= Len(Plan)
  PROVE  Fails
BY DEF Refused, Answered, Fails

\* The states that write, and those that fail.
LEMMA Effects ==
  ASSUME TypeOK, Numbered, LookedUp,
         \/ Block \/ WriteFabric \/ AddVlan \/ SetDhcp
         \/ WriteSubnet \/ RangePresent \/ Raise
            \/ (LookForSubnet /\ Refused)
  PROVE  Effect
<1>1. CASE Block
  BY <1>1, RefusedFacts DEF Block, Effect
<1>2. CASE Raise
  BY <1>2 DEF Raise, Answered, Fails, Effect
<1>3. CASE LookForSubnet /\ Refused
  BY <1>3, RefusedFacts DEF LookForSubnet, AtState, Effect
<1>4. CASE WriteFabric
  <2>1. phase = "running" /\ at <= Len(Plan) /\ looked
    BY <1>4 DEF WriteFabric, AtState
  <2> DEFINE f == Current[2]
             i == IF seen = {} THEN NewId ELSE CHOOSE j \in seen : TRUE
  <2>2. f \in Fabrics /\ Current = <<"fabric", f>>
    BY <1>4, AtStateFacts DEF WriteFabric, TypeOK
  <2>3. i \in seen \/ (seen = {} /\ i = NewId)
    OBVIOUS
  <2>4. i \in Known \union {NewId}
    BY <2>1, <2>2, <2>3 DEF LookedUp
  <2>5. CASE IdsOf(f) \subseteq {i}
    <3>1. /\ fabrics' = [fabrics EXCEPT ![i] = f]
          /\ vlans' = vlans \union {<<i, 0>>}
          /\ Obeyed
          /\ UNCHANGED <<dhcp, subnets, ipranges, moves>>
      BY <1>4, <2>5 DEF WriteFabric
    <3>2. PICK ok \in BOOLEAN : Answered(ok)
      BY <2>1, <3>1, ObeyedFacts
    <3>3. NamesFabric(ok, f, i)
      BY <2>1, <2>2, <2>3, <2>5, <3>1, <3>2 DEF NamesFabric
    <3> QED
      BY <2>2, <2>4, <3>3 DEF Effect
  <2>6. CASE ~(IdsOf(f) \subseteq {i})
    BY <1>4, <2>1, <2>6, RefusedFacts DEF WriteFabric, Effect
  <2> QED
    BY <2>5, <2>6
<1>5. ASSUME NEW kind \in {"vlan", "dhcp"}, NEW on \in BOOLEAN, VlanPresent(kind, on),
             kind = "vlan" => ~on, kind = "dhcp" => (on <=> <<Current[2], Current[3]>> \in Dhcp)
      PROVE  Effect
  <2>1. phase = "running" /\ at <= Len(Plan) /\ AtState(kind, FALSE)
    BY <1>5 DEF VlanPresent, AtState
  <2> DEFINE f == Current[2]
             v == Current[3]
  <2>2. f \in Fabrics /\ v \in Nat /\ Current = <<kind, f, v>>
    BY <2>1, AtStateFacts DEF TypeOK
  <2>3. CASE IdsOf(f) = {}
    BY <1>5, <2>1, <2>3, RefusedFacts DEF VlanPresent, Effect
  <2>4. CASE IdsOf(f) # {}
    <3>1. PICK i \in IdsOf(f) : PutVlan(i, on)
      BY <1>5, <2>4 DEF VlanPresent
    <3>2. CASE on => HasRange(<<i, v>>)
      <4>1. /\ vlans' = vlans \union {<<i, v>>}
            /\ dhcp' = IF on THEN dhcp \union {<<i, v>>} ELSE dhcp \ {<<i, v>>}
            /\ Obeyed
            /\ UNCHANGED <<fabrics, subnets, ipranges, moves>>
        BY <3>1, <3>2 DEF PutVlan
      <4>2. PICK ok \in BOOLEAN : Answered(ok)
        BY <2>1, <4>1, ObeyedFacts
      <4>3. \E k \in 1 .. Len(Vlans[f]) : v = Vlans[f][k]
        <5>1. IsFabricState(Current) \/ IsSubnetState(Current) \/ IsDhcpState(Current)
          BY <2>1, CurrentFacts, PlanFacts DEF Current, TypeOK
        <5>2. CASE kind = "vlan"
          BY <2>2, <5>1, <5>2 DEF IsFabricState, IsSubnetState, IsDhcpState
        <5>3. CASE kind = "dhcp"
          BY <2>2, <5>1, <5>3 DEF IsFabricState, IsSubnetState, IsDhcpState
        <5> QED
          BY <5>2, <5>3
      <4>4. \/ Current = <<"vlan", f, v>> /\ dhcp' = dhcp \ {<<i, v>>}
            \/ /\ Current = <<"dhcp", f, v>>
               /\ dhcp' = IF <<f, v>> \in Dhcp THEN dhcp \union {<<i, v>>} ELSE dhcp \ {<<i, v>>}
        BY <1>5, <2>2, <4>1
      <4>5. WritesVlan(ok, f, v, i)
        BY <2>1, <4>1, <4>2, <4>3, <4>4 DEF WritesVlan
      <4> QED
        BY <2>2, <4>5, KnownFacts DEF Effect
    <3>3. CASE ~(on => HasRange(<<i, v>>))
      BY <2>1, <3>1, <3>3, RefusedFacts DEF PutVlan, Effect
    <3> QED
      BY <3>2, <3>3
  <2> QED
    BY <2>3, <2>4
<1>6. CASE AddVlan
  BY <1>5, <1>6 DEF AddVlan
<1>7. CASE SetDhcp
  <2> DEFINE on == <<Current[2], Current[3]>> \in Dhcp
  <2>1. VlanPresent("dhcp", on)
    BY <1>7 DEF SetDhcp
  <2>2. on \in BOOLEAN /\ (on <=> <<Current[2], Current[3]>> \in Dhcp)
    OBVIOUS
  <2> HIDE DEF on
  <2> QED
    BY <1>5, <2>1, <2>2
<1>8. CASE WriteSubnet
  <2>1. phase = "running" /\ at <= Len(Plan) /\ looked
    BY <1>8 DEF WriteSubnet, AtState
  <2> DEFINE c == Current[2]
  <2>2. c \in Cidrs /\ Current = <<"subnet", c>>
    BY <1>8, AtStateFacts DEF WriteSubnet, TypeOK
  <2>3. PICK i \in IdsOf(FabricOf[c]) :
          IF seen = {} /\ subnets[c] # NoFabric THEN Refused
          ELSE /\ subnets' = [subnets EXCEPT ![c] = IF seen = {} \/ moves THEN i ELSE @]
               /\ Obeyed
               /\ UNCHANGED <<fabrics, vlans, dhcp, ipranges, moves>>
    BY <1>8 DEF WriteSubnet
  <2>4. CASE seen = {} /\ subnets[c] # NoFabric
    BY <2>1, <2>3, <2>4, RefusedFacts DEF Effect
  <2>5. CASE ~(seen = {} /\ subnets[c] # NoFabric)
    <3>1. PICK ok \in BOOLEAN : Answered(ok)
      BY <2>1, <2>3, <2>5, ObeyedFacts
    <3>2. WritesSubnet(ok, c, i)
      BY <2>1, <2>2, <2>3, <2>5, <3>1 DEF WritesSubnet
    <3>3. i \in Known
      BY <2>2, <2>3, KnownFacts, RegionAssumption
    <3> QED
      BY <2>2, <3>2, <3>3 DEF Effect
  <2> QED
    BY <2>4, <2>5
<1>9. CASE RangePresent
  <2>1. phase = "running" /\ at <= Len(Plan)
    BY <1>9 DEF RangePresent, AtState
  <2>2. Current[2] \in AllRanges /\ Current = <<"range", Current[2], Current[3]>>
    BY <1>9, AtStateFacts DEF RangePresent, TypeOK
  <2>3. PICK ok \in BOOLEAN : Answered(ok)
    BY <1>9, <2>1, ObeyedFacts DEF RangePresent
  <2>4. AddsRange(ok, Current[2])
    BY <1>9, <2>1, <2>2, <2>3 DEF RangePresent, AddsRange
  <2> QED
    BY <2>2, <2>4 DEF Effect
<1> QED
  BY <1>1, <1>2, <1>3, <1>4, <1>6, <1>7, <1>8, <1>9

LooksUp(ids) ==
  /\ phase = "running" /\ at <= Len(Plan) /\ Look(ids)
  /\ \/ \E f \in Fabrics : Current = <<"fabric", f>> /\ ids \subseteq Homes(f) \union IdsOf(f)
     \/ \E c \in Cidrs : Current = <<"subnet", c>> /\ ids = {subnets[c]} \ {NoFabric}

LEMMA StepCases ==
  ASSUME TypeOK, Numbered, LookedUp, Next
  PROVE  \/ Watch /\ Effect
         \/ Watch /\ \E ids \in SUBSET Known : LooksUp(ids)
         \/ Watch /\ EndAttempt
         \/ Watch /\ Rerun
         \/ Watch /\ \E n \in Nics : Discover(n)
         \/ UNCHANGED vars
<1>1. CASE Watch /\ LookForFabric
  <2>1. phase = "running" /\ at <= Len(Plan)
    BY <1>1 DEF LookForFabric, AtState
  <2>2. Current[2] \in Fabrics /\ Current = <<"fabric", Current[2]>>
    BY <1>1, AtStateFacts DEF LookForFabric, TypeOK
  <2>3. \E ids : Look(ids) /\ ids \subseteq Homes(Current[2]) \union IdsOf(Current[2])
    BY <1>1 DEF LookForFabric
  <2>4. PICK ids \in SUBSET Known : LooksUp(ids)
    BY <2>1, <2>2, <2>3, KnownFacts DEF LooksUp
  <2> QED
    BY <1>1, <2>4
<1>2. CASE Watch /\ LookForSubnet
  <2>1. phase = "running" /\ at <= Len(Plan)
    BY <1>2 DEF LookForSubnet, AtState
  <2>2. Current[2] \in Cidrs /\ Current = <<"subnet", Current[2]>>
    BY <1>2, AtStateFacts DEF LookForSubnet, TypeOK
  <2>3. {subnets[Current[2]]} \ {NoFabric} \in SUBSET Known
    BY <2>2 DEF TypeOK
  <2>4. CASE Refused
    BY <1>2, <2>4, Effects
  <2>5. CASE Look({subnets[Current[2]]} \ {NoFabric})
    <3>1. LooksUp({subnets[Current[2]]} \ {NoFabric})
      BY <2>1, <2>2, <2>5 DEF LooksUp
    <3> QED
      BY <1>2, <2>3, <3>1
  <2>6. Refused \/ Look({subnets[Current[2]]} \ {NoFabric})
    BY <1>2 DEF LookForSubnet
  <2> QED
    BY <2>4, <2>5, <2>6
<1>3. CASE Watch /\ (\/ Block \/ WriteFabric \/ AddVlan \/ SetDhcp
                     \/ WriteSubnet \/ RangePresent \/ Raise)
  BY <1>3, Effects
<1> QED
  BY <1>1, <1>2, <1>3 DEF Next, Script, Step, Finished

LEMMA TypeParts ==
  TypeOK <=> /\ MaasTypeOK /\ SaltTypeOK /\ seen \subseteq Ids
             /\ split \in BOOLEAN /\ configured \in BOOLEAN
BY DEF TypeOK, MaasTypeOK, SaltTypeOK

LEMMA TypePartsNext ==
  ASSUME MaasTypeOK', SaltTypeOK', (seen \subseteq Ids)', split' \in BOOLEAN, configured' \in BOOLEAN
  PROVE  TypeOK'
BY DEF TypeOK, MaasTypeOK, SaltTypeOK

\* What does not touch MaaS.
LEMMA MaasSame ==
  ASSUME MaasTypeOK, Numbered, Untagged, UNCHANGED maasVars
  PROVE  /\ MaasTypeOK' /\ Numbered' /\ Untagged'
         /\ Known' = Known /\ Discovered' = Discovered
         /\ \A f \in Fabrics : Homes(f)' = Homes(f) /\ IdsOf(f)' = IdsOf(f)
<1>1. UNCHANGED <<fabrics, vlans, dhcp, subnets, ipranges, moves>>
  BY DEF maasVars
<1>2. Known' = Known /\ Discovered' = Discovered
  BY <1>1 DEF Known, Discovered
<1>3. \A f \in Fabrics : Homes(f)' = Homes(f) /\ IdsOf(f)' = IdsOf(f)
  BY <1>1, <1>2 DEF Homes, IdsOf
<1>4. MaasTypeOK' /\ Numbered' /\ Untagged'
  BY <1>1, VlanStep DEF MaasTypeOK
<1> QED
  BY <1>2, <1>3, <1>4

LEMMA EffectStep ==
  ASSUME TypeOK, Numbered, Untagged, Effect
  PROVE  /\ MaasTypeOK' /\ Numbered' /\ Untagged'
         /\ \E ok \in BOOLEAN : Answered(ok)
<1>1. MaasTypeOK
  BY TypeParts
<1>2. CASE Fails
  BY <1>1, <1>2, MaasSame DEF Fails
<1>3. ASSUME NEW ok \in BOOLEAN, NEW f \in Fabrics, NEW i \in Known \union {NewId},
             NamesFabric(ok, f, i)
      PROVE  MaasTypeOK' /\ Numbered' /\ Untagged' /\ Answered(ok)
  BY <1>1, <1>3, NamesStep DEF NamesFabric
<1>4. ASSUME NEW ok \in BOOLEAN, NEW f \in Fabrics, NEW v \in Nat, NEW i \in Known,
             WritesVlan(ok, f, v, i)
      PROVE  MaasTypeOK' /\ Numbered' /\ Untagged' /\ Answered(ok)
  <2>1. /\ vlans' = vlans \union {<<i, v>>} /\ dhcp' \subseteq dhcp \union {<<i, v>>}
        /\ UNCHANGED <<fabrics, subnets, ipranges, moves>> /\ Answered(ok)
    BY <1>4 DEF WritesVlan
  <2>2. vlans' \subseteq Known \X Nat /\ dhcp' \subseteq vlans' /\ ipranges' \subseteq AllRanges
    BY <1>1, <2>1 DEF MaasTypeOK
  <2> QED
    BY <1>1, <2>1, <2>2, VlanStep
<1>5. ASSUME NEW ok \in BOOLEAN, NEW c \in Cidrs, NEW i \in Known, WritesSubnet(ok, c, i)
      PROVE  MaasTypeOK' /\ Numbered' /\ Untagged' /\ Answered(ok)
  <2> DEFINE j == IF seen = {} \/ moves THEN i ELSE subnets[c]
  <2>1. /\ subnets' = [subnets EXCEPT ![c] = j] /\ Answered(ok)
        /\ UNCHANGED <<fabrics, vlans, dhcp, ipranges, moves>>
    BY <1>5 DEF WritesSubnet
  <2>2. j \in Known \union {NoFabric} /\ (j = NoFabric => subnets[c] = NoFabric)
    BY <1>1, KnownFacts DEF MaasTypeOK
  <2> QED
    BY <1>1, <2>1, <2>2, SubnetStep
<1>6. ASSUME NEW ok \in BOOLEAN, NEW r \in AllRanges, AddsRange(ok, r)
      PROVE  MaasTypeOK' /\ Numbered' /\ Untagged' /\ Answered(ok)
  <2>1. /\ ipranges' = ipranges \union {r} /\ Answered(ok)
        /\ UNCHANGED <<fabrics, vlans, dhcp, subnets, moves>>
    BY <1>6 DEF AddsRange
  <2> QED
    BY <1>1, <2>1, VlanStep DEF MaasTypeOK
<1> QED
  BY <1>2, <1>3, <1>4, <1>5, <1>6 DEF Effect, Fails

LEMMA WatchType ==
  ASSUME Watch, split \in BOOLEAN, configured \in BOOLEAN
  PROVE  split' \in BOOLEAN /\ configured' \in BOOLEAN
BY DEF Watch

LEMMA TypeStep ==
  ASSUME TypeOK, Numbered, Untagged, LookedUp, Next
  PROVE  TypeOK' /\ Numbered' /\ Untagged'
<1>1. /\ MaasTypeOK /\ SaltTypeOK /\ seen \subseteq Ids
      /\ split \in BOOLEAN /\ configured \in BOOLEAN
  BY TypeParts
<1>2. Plan' = Plan
  BY DEF Plan, Each, FabricStates, SubnetStates, DhcpStates, VlanStates
<1>3. CASE Watch /\ Effect
  <2>1. PICK ok \in BOOLEAN : Answered(ok)
    BY <1>3, EffectStep
  <2>2. SaltTypeOK' /\ seen' = {}
    BY <1>1, <2>1, ReturnType DEF Answered
  <2> QED
    BY <1>1, <1>3, <2>2, EffectStep, WatchType, TypePartsNext
<1>4. ASSUME Watch, UNCHANGED maasVars, SaltTypeOK', seen' \subseteq Ids
      PROVE  TypeOK' /\ Numbered' /\ Untagged'
  BY <1>1, <1>4, MaasSame, WatchType, TypePartsNext
<1>5. CASE Watch /\ \E ids \in SUBSET Known : LooksUp(ids)
  <2>1. PICK ids \in SUBSET Known : LooksUp(ids)
    BY <1>5
  <2>2. seen' = ids /\ looked' = TRUE /\ UNCHANGED <<at, failed, tries, phase, runs, faults>>
        /\ UNCHANGED maasVars
    BY <2>1 DEF LooksUp, Look, runVars
  <2>3. SaltTypeOK' /\ seen' \subseteq Ids
    BY <1>1, <1>2, <2>2, KnownFacts DEF SaltTypeOK
  <2> QED
    BY <1>4, <1>5, <2>2, <2>3
<1>6. CASE Watch /\ EndAttempt
  <2>1. 1 \in 1 .. Len(Plan) + 1
    BY PlanFacts
  <2>2. /\ at' \in {at, 1} /\ looked' = looked /\ seen' = seen /\ failed' \in {failed, {}}
        /\ phase' \in {phase, "done", "failed"} /\ runs' = runs /\ UNCHANGED maasVars
    BY <1>6 DEF EndAttempt, Restart, stateVars
  <2>3. tries' \in 1 .. MaxTries
    BY <1>1, <1>6, RegionAssumption DEF EndAttempt, SaltTypeOK
  <2>4. faults' \in 0 .. MaxFaults
    BY <1>1, <1>6, RegionAssumption DEF EndAttempt, Fault, SaltTypeOK
  <2>5. SaltTypeOK' /\ seen' \subseteq Ids
    BY <1>1, <1>2, <2>1, <2>2, <2>3, <2>4 DEF SaltTypeOK
  <2> QED
    BY <1>4, <1>6, <2>2, <2>5
<1>7. CASE Watch /\ Rerun
  <2>1. 1 \in 1 .. Len(Plan) + 1 /\ 1 \in 1 .. MaxTries
    BY PlanFacts, RegionAssumption
  <2>2. /\ at' = 1 /\ looked' = looked /\ seen' = seen /\ failed' = {}
        /\ phase' = "running" /\ tries' = 1 /\ runs' \in 0 .. MaxRuns
        /\ UNCHANGED maasVars /\ faults' = faults
    BY <1>1, <1>7, RegionAssumption DEF Rerun, Restart, SaltTypeOK
  <2>3. SaltTypeOK' /\ seen' \subseteq Ids
    BY <1>1, <1>2, <2>1, <2>2 DEF SaltTypeOK
  <2> QED
    BY <1>4, <1>7, <2>2, <2>3
<1>8. CASE Watch /\ \E n \in Nics : Discover(n)
  <2>1. PICK n \in Nics : Discover(n)
    BY <1>8
  <2>2. UNCHANGED <<stateVars, runVars, faults>>
    BY <2>1 DEF Discover
  <2>3. SaltTypeOK' /\ seen' \subseteq Ids
    BY <1>1, <1>2, <2>2 DEF SaltTypeOK, stateVars, runVars
  <2>4. MaasTypeOK' /\ Numbered' /\ Untagged'
    BY <1>1, <2>1, DiscoverStep
  <2> QED
    BY <1>1, <1>8, <2>3, <2>4, WatchType, TypePartsNext
<1>9. CASE UNCHANGED vars
  <2>1. UNCHANGED maasVars /\ seen' = seen /\ UNCHANGED <<split, configured>>
    BY <1>9 DEF vars, stateVars
  <2>2. SaltTypeOK'
    BY <1>1, <1>2, <1>9 DEF vars, stateVars, runVars, SaltTypeOK
  <2> QED
    BY <1>1, <2>1, <2>2, MaasSame, TypePartsNext
<1> QED
  BY <1>3, <1>5, <1>6, <1>7, <1>8, <1>9, StepCases

-------------------------------------------------------------------------------
(* The guess of a fabric's id.                                              *)

\* Without ambiguity a guess and a name have one answer, and it is no other's.
LEMMA HomesAgree ==
  ASSUME TypeOK, ~Ambiguous, NEW f \in Fabrics,
         NEW i \in Homes(f) \union IdsOf(f), NEW j \in Homes(f) \union IdsOf(f)
  PROVE  i = j
<1> DEFINE S == Homes(f) \union IdsOf(f)
<1>1. IsFiniteSet(Ids)
  <2>1. Cardinality(Fabrics) + Cardinality(Cidrs) \in Nat
    BY CountFacts
  <2> QED
    BY <2>1, FS_Interval DEF Ids
<1>2. S \in SUBSET Ids
  BY KnownFacts
<1>3. IsFiniteSet(S) /\ Cardinality(S) \in Nat
  BY <1>1, <1>2, FS_Subset, FS_CardinalityType
<1>4. Cardinality(S) <= 1
  BY <1>3 DEF Ambiguous
<1>5. SUFFICES ASSUME i # j PROVE FALSE
  OBVIOUS
<1>6. Cardinality({i}) = 1 /\ IsFiniteSet({i})
  BY FS_Singleton
<1>7. Cardinality({i} \union {j}) = 2
  BY <1>5, <1>6, FS_AddElement
<1>8. Cardinality({i} \union {j}) <= Cardinality(S)
  BY <1>3, FS_Subset
<1> QED
  BY <1>3, <1>4, <1>7, <1>8

LEMMA HomesApart ==
  ASSUME TypeOK, ~Ambiguous, ~split, NotMisplaced, NEW f \in Fabrics,
         NEW i \in Homes(f) \union IdsOf(f), NEW d \in Discovered, subnets[d] = i
  PROVE  FabricOf[d] = f
<1>1. CASE i \in Homes(f)
  <2>1. PICK c \in Discovered : FabricOf[c] = f /\ subnets[c] = i
    BY <1>1 DEF Homes
  <2> QED
    BY <2>1 DEF Ambiguous
<1>2. CASE i \in IdsOf(f)
  BY <1>2, NamesAssumption DEF NotMisplaced, IdsOf
<1> QED
  BY <1>1, <1>2

\* A fabric that no name nor guess leads to has no subnet.
LEMMA NewIdEmpty ==
  ASSUME TypeOK, Numbered
  PROVE  NewId \notin Known
<1>1. PICK n \in Nat : Known = 1 .. n
  BY DEF Numbered
<1>2. Cardinality(1 .. n) = n
  BY FS_Interval
<1> QED
  BY <1>1, <1>2 DEF NewId

LEMMA NotMisplacedStep ==
  ASSUME TypeOK, Numbered, LookedUp, Unambiguous, Next
  PROVE  NotMisplaced'
<1> SUFFICES ASSUME ~split', NEW d \in Discovered'
             PROVE  fabrics'[subnets'[d]] \in {AutoName, FabricOf[d]}
  BY DEF NotMisplaced
<1>1. ~split /\ (Watch => ~Ambiguous')
  <2>1. Watch => ~split /\ ~Ambiguous'
    BY DEF Watch
  <2>2. UNCHANGED vars => ~split
    BY DEF vars
  <2> QED
    BY <2>1, <2>2, StepCases
<1>2. ~Ambiguous /\ NotMisplaced
  BY <1>1 DEF Unambiguous
<1>3. d \in Cidrs
  BY DEF Discovered
<1>4. ASSUME UNCHANGED <<fabrics, subnets>>
      PROVE  fabrics'[subnets'[d]] \in {AutoName, FabricOf[d]}
  BY <1>1, <1>2, <1>4 DEF NotMisplaced, Discovered
<1>5. CASE Watch /\ Effect
  <2>1. CASE Fails
    BY <1>4, <2>1 DEF Fails, maasVars
  <2>2. ASSUME NEW ok \in BOOLEAN, NEW f \in Fabrics, NEW i \in Known \union {NewId},
               NamesFabric(ok, f, i)
        PROVE  fabrics'[subnets'[d]] \in {AutoName, FabricOf[d]}
    <3>1. /\ fabrics' = [fabrics EXCEPT ![i] = f] /\ subnets' = subnets
          /\ looked /\ Current = <<"fabric", f>> /\ (i \in seen \/ i = NewId)
      BY <2>2 DEF NamesFabric
    <3>2. d \in Discovered /\ subnets[d] \in Known
      BY <3>1 DEF Discovered, TypeOK
    <3>3. CASE subnets[d] # i
      <4>1. fabrics'[subnets[d]] = fabrics[subnets[d]]
        BY <3>1, <3>2, <3>3, KnownFacts DEF TypeOK
      <4> QED
        BY <1>1, <1>2, <3>1, <3>2, <4>1 DEF NotMisplaced
    <3>4. CASE subnets[d] = i
      <4>1. i \in Homes(f) \union IdsOf(f)
        BY <1>1, <3>1, <3>2, <3>4, NewIdEmpty DEF LookedUp
      <4>2. FabricOf[d] = f
        BY <1>1, <1>2, <3>2, <3>4, <4>1, HomesApart
      <4> QED
        BY <3>1, <3>2, <3>4, <4>2, KnownFacts DEF TypeOK
    <3> QED
      BY <3>3, <3>4
  <2>3. ASSUME NEW ok \in BOOLEAN, NEW f \in Fabrics, NEW v \in Nat, NEW i \in Known,
               WritesVlan(ok, f, v, i)
        PROVE  fabrics'[subnets'[d]] \in {AutoName, FabricOf[d]}
    BY <1>4, <2>3 DEF WritesVlan
  <2>4. ASSUME NEW ok \in BOOLEAN, NEW c \in Cidrs, NEW i \in Known, WritesSubnet(ok, c, i)
        PROVE  fabrics'[subnets'[d]] \in {AutoName, FabricOf[d]}
    <3>1. /\ subnets' = [subnets EXCEPT ![c] = IF seen = {} \/ moves THEN i ELSE @]
          /\ fabrics' = fabrics /\ fabrics[i] = FabricOf[c]
          /\ ~(seen = {} /\ subnets[c] # NoFabric)
      BY <2>4 DEF WritesSubnet, IdsOf
    <3>2. CASE subnets'[d] = subnets[d]
      BY <1>1, <1>2, <1>3, <3>1, <3>2 DEF NotMisplaced, Discovered
    <3>3. CASE subnets'[d] # subnets[d]
      BY <1>3, <3>1, <3>3 DEF TypeOK
    <3> QED
      BY <3>2, <3>3
  <2>5. ASSUME NEW ok \in BOOLEAN, NEW r \in AllRanges, AddsRange(ok, r)
        PROVE  fabrics'[subnets'[d]] \in {AutoName, FabricOf[d]}
    BY <1>4, <2>5 DEF AddsRange
  <2> QED
    BY <1>5, <2>1, <2>2, <2>3, <2>4, <2>5 DEF Effect
<1>6. CASE Watch /\ \E n \in Nics : Discover(n)
  <2>1. PICK n \in Nics : Discover(n)
    BY <1>6
  <2>2. MaasTypeOK
    BY TypeParts
  <2>3. PICK i \in Known \union {NewId}, new \in SUBSET (Cidrs \ Discovered) :
          /\ new = n \ Discovered /\ new # {} /\ i \in Ids /\ (i \notin Known => i = NewId)
          /\ i \in Known => \E e \in n \intersect Discovered : i = subnets[e]
          /\ fabrics' = [fabrics EXCEPT ![i] = IF @ = Absent THEN AutoName ELSE @]
          /\ vlans' = vlans \union {<<i, 0>>}
          /\ subnets' = [c \in Cidrs |-> IF c \in new THEN i ELSE subnets[c]]
          /\ Discovered' = Discovered \union new
          /\ UNCHANGED <<dhcp, ipranges, moves>>
    BY <2>1, <2>2, DiscoverFacts
  <2>4. \A j \in Known : fabrics'[j] = fabrics[j]
    BY <2>3, KnownFacts DEF Known, TypeOK
  <2>5. CASE d \in Discovered
    <3>1. subnets'[d] = subnets[d] /\ subnets[d] \in Known
      BY <1>3, <2>3, <2>5 DEF Discovered, TypeOK
    <3> QED
      BY <1>1, <1>2, <2>4, <2>5, <3>1 DEF NotMisplaced
  <2>6. CASE d \in new
    <3>1. subnets'[d] = i
      BY <1>3, <2>3, <2>6
    <3>2. CASE i \in Known
      <4>1. PICK e \in Discovered : i = subnets[e]
        BY <2>3, <3>2
      <4>2. e \in Discovered' /\ subnets'[e] = i
        BY <2>3, <4>1 DEF Discovered
      <4>3. FabricOf[d] = FabricOf[e]
        BY <1>1, <1>6, <3>1, <4>2 DEF Ambiguous
      <4>4. fabrics[i] \in {AutoName, FabricOf[e]}
        BY <1>1, <1>2, <4>1 DEF NotMisplaced
      <4> QED
        BY <2>4, <3>1, <3>2, <4>3, <4>4
    <3>3. CASE i \notin Known
      <4>1. fabrics[i] = Absent
        BY <2>3, <3>3 DEF Known
      <4> QED
        BY <2>3, <3>1, <4>1 DEF TypeOK
    <3> QED
      BY <3>2, <3>3
  <2> QED
    BY <2>3, <2>5, <2>6
<1>7. CASE Watch /\ \E ids \in SUBSET Known : LooksUp(ids)
  BY <1>4, <1>7 DEF LooksUp, Look, maasVars
<1>8. CASE Watch /\ EndAttempt
  BY <1>4, <1>8 DEF EndAttempt, maasVars
<1>9. CASE Watch /\ Rerun
  BY <1>4, <1>9 DEF Rerun, maasVars
<1>10. CASE UNCHANGED vars
  BY <1>4, <1>10 DEF vars, maasVars
<1> QED
  BY <1>5, <1>6, <1>7, <1>8, <1>9, <1>10, StepCases

LEMMA UnambiguousStep ==
  ASSUME TypeOK, Numbered, LookedUp, Unambiguous, Next
  PROVE  Unambiguous'
<1>1. CASE Watch
  BY <1>1, NotMisplacedStep DEF Watch, Unambiguous
<1>2. CASE UNCHANGED vars
  <2>1. UNCHANGED <<fabrics, subnets, split>>
    BY <1>2 DEF vars, maasVars
  <2>2. Ambiguous' = Ambiguous
    BY <2>1 DEF Ambiguous, Homes, IdsOf, Discovered
  <2> QED
    BY <2>1, <2>2, NotMisplacedStep DEF Unambiguous
<1> QED
  BY <1>1, <1>2, StepCases

LEMMA LookedUpStep ==
  ASSUME TypeOK, Numbered, LookedUp, Next
  PROVE  LookedUp'
<1>1. Plan' = Plan
  BY DEF Plan, Each, FabricStates, SubnetStates, DhcpStates, VlanStates
<1>2. CASE ~looked'
  BY <1>2 DEF LookedUp
<1>3. CASE Watch /\ Effect
  <2>1. PICK ok \in BOOLEAN : Answered(ok)
    BY <1>3 DEF Effect, Fails, NamesFabric, WritesVlan, WritesSubnet, AddsRange
  <2> QED
    BY <1>2, <2>1 DEF Answered, Return
<1>4. CASE Watch /\ \E ids \in SUBSET Known : LooksUp(ids)
  <2>1. PICK ids \in SUBSET Known : LooksUp(ids)
    BY <1>4
  <2>2. /\ phase = "running" /\ at <= Len(Plan) /\ UNCHANGED <<phase, at>> /\ seen' = ids
        /\ UNCHANGED <<fabrics, subnets>>
        /\ \/ \E f \in Fabrics : Current = <<"fabric", f>> /\ ids \subseteq Homes(f) \union IdsOf(f)
           \/ \E c \in Cidrs : Current = <<"subnet", c>> /\ ids = {subnets[c]} \ {NoFabric}
    BY <2>1 DEF LooksUp, Look, runVars, maasVars
  <2>3. Current' = Current /\ Known' = Known
    BY <1>1, <2>2 DEF Current, Known
  <2>4. CASE \E f \in Fabrics : Current = <<"fabric", f>> /\ ids \subseteq Homes(f) \union IdsOf(f)
    <3>1. PICK f \in Fabrics : Current = <<"fabric", f>> /\ ids \subseteq Homes(f) \union IdsOf(f)
      BY <2>4
    <3>2. Homes(f)' = Homes(f) /\ IdsOf(f)' = IdsOf(f)
      BY <2>2 DEF Homes, IdsOf, Discovered
    <3>3. Current'[1] = "fabric" /\ Current'[2] = f
      BY <2>3, <3>1
    <3> QED
      BY <1>1, <2>2, <2>3, <3>1, <3>2, <3>3 DEF LookedUp
  <2>5. CASE \E c \in Cidrs : Current = <<"subnet", c>> /\ ids = {subnets[c]} \ {NoFabric}
    <3>1. PICK c \in Cidrs : Current = <<"subnet", c>> /\ ids = {subnets[c]} \ {NoFabric}
      BY <2>5
    <3>2. Current'[1] = "subnet" /\ Current'[2] = c
      BY <2>3, <3>1
    <3>3. seen' # {} => subnets'[c] # NoFabric
      BY <2>2, <3>1
    <3> QED
      BY <1>1, <2>2, <3>2, <3>3 DEF LookedUp
  <2> QED
    BY <2>2, <2>4, <2>5
<1>5. CASE Watch /\ EndAttempt
  <2>1. ~looked /\ looked' = looked
    BY <1>5, PlanFacts DEF EndAttempt, Restart, LookedUp, stateVars
  <2> QED
    BY <1>2, <2>1
<1>6. CASE Watch /\ Rerun
  <2>1. ~looked /\ looked' = looked
    BY <1>6 DEF Rerun, Restart, LookedUp
  <2> QED
    BY <1>2, <2>1
<1>7. CASE Watch /\ \E n \in Nics : Discover(n)
  <2>1. PICK n \in Nics : Discover(n)
    BY <1>7
  <2>2. UNCHANGED <<at, seen, looked, phase>>
    BY <2>1 DEF Discover, stateVars, runVars
  <2>3. Current' = Current
    BY <1>1, <2>2 DEF Current
  <2>4. /\ Known \subseteq Known'
        /\ \A f \in Fabrics : IdsOf(f)' = IdsOf(f)
        /\ \A c \in Discovered : c \in Discovered' /\ subnets'[c] = subnets[c]
    <3>1. \E i \in Known \union {NewId} : \E new \in SUBSET (Cidrs \ Discovered) :
            /\ i \in Ids
            /\ fabrics' = [fabrics EXCEPT ![i] = IF @ = Absent THEN AutoName ELSE @]
            /\ subnets' = [c \in Cidrs |-> IF c \in new THEN i ELSE subnets[c]]
            /\ Discovered' = Discovered \union new
      BY <2>1, DiscoverFacts, TypeParts
    <3>2. AutoName # Absent
      BY DEF AutoName, Absent
    <3> QED
      BY <3>1, <3>2, NamesAssumption DEF Known, IdsOf, Discovered, TypeOK
  <2>5. \A f \in Fabrics : Homes(f) \subseteq Homes(f)'
    BY <2>4 DEF Homes
  <2>6. split => split'
    BY <1>7 DEF Watch
  <2>7. ASSUME looked
        PROVE  /\ phase = "running" /\ at <= Len(Plan) /\ Current[1] \in {"fabric", "subnet"}
               /\ Current[1] = "fabric" => Current[2] \in Fabrics
               /\ Current[1] = "subnet" => Current[2] \in Cidrs
    BY <2>7, CurrentFacts DEF LookedUp, TypeOK
  <2>8. ASSUME looked, Current[1] = "fabric"
        PROVE  /\ seen \subseteq Known'
               /\ ~split' => seen \subseteq Homes(Current[2])' \union IdsOf(Current[2])'
    <3> DEFINE f == Current[2]
    <3>1. seen \subseteq Known /\ (~split => seen \subseteq Homes(f) \union IdsOf(f))
      BY <2>8 DEF LookedUp
    <3>2. f \in Fabrics
      BY <2>7, <2>8
    <3>3. f' = f
      BY <2>3
    <3> HIDE DEF f
    <3>4. Homes(f) \subseteq (Homes(f))' /\ (IdsOf(f))' = IdsOf(f)
      BY <2>4, <2>5, <3>2, <3>3 DEF Homes, IdsOf
    <3> QED
      BY <2>4, <2>6, <3>1, <3>4 DEF f
  <2>9. ASSUME looked, Current[1] = "subnet", seen # {}
        PROVE  subnets'[Current[2]] # NoFabric
    BY <2>4, <2>7, <2>9 DEF LookedUp, Discovered
  <2> QED
    BY <1>1, <2>2, <2>3, <2>7, <2>8, <2>9 DEF LookedUp
<1>8. CASE UNCHANGED vars
  <2>1. UNCHANGED <<fabrics, subnets, at, seen, looked, phase, split>>
    BY <1>8 DEF vars, maasVars, stateVars, runVars
  <2> QED
    BY <1>1, <2>1 DEF LookedUp, Current, Homes, IdsOf, Known, Discovered
<1> QED
  BY <1>3, <1>4, <1>5, <1>6, <1>7, <1>8, StepCases

LEMMA EndedStep ==
  ASSUME TypeOK, Numbered, LookedUp, Ended, Next
  PROVE  Ended'
<1>1. Plan' = Plan
  BY DEF Plan, Each, FabricStates, SubnetStates, DhcpStates, VlanStates
<1>2. CASE Watch /\ Effect
  <2>1. PICK ok \in BOOLEAN : Answered(ok)
    BY <1>2 DEF Effect, Fails, NamesFabric, WritesVlan, WritesSubnet, AddsRange
  <2>2. at <= Len(Plan) /\ phase' = phase
    BY <2>1 DEF Answered, Return, runVars
  <2> QED
    BY <2>2, PlanFacts DEF Ended, TypeOK
<1>3. ASSUME phase' = phase, at' = at, failed' = failed
      PROVE  Ended'
  BY <1>1, <1>3 DEF Ended
<1>4. CASE Watch /\ \E ids \in SUBSET Known : LooksUp(ids)
  BY <1>3, <1>4 DEF LooksUp, Look, runVars
<1>5. CASE Watch /\ EndAttempt
  BY <1>1, <1>5 DEF EndAttempt, Ended, stateVars
<1>6. CASE Watch /\ Rerun
  BY <1>6 DEF Rerun, Ended
<1>7. CASE Watch /\ \E n \in Nics : Discover(n)
  BY <1>3, <1>7 DEF Discover, stateVars, runVars
<1>8. CASE UNCHANGED vars
  BY <1>3, <1>8 DEF vars, stateVars, runVars
<1> QED
  BY <1>2, <1>4, <1>5, <1>6, <1>7, <1>8, StepCases

-------------------------------------------------------------------------------
(* What the states of an attempt have achieved stays.                        *)

\* The states that have succeeded when another one returns.
LEMMA SucceededStep ==
  ASSUME at \in 1 .. Len(Plan) + 1, NEW ok \in BOOLEAN, Answered(ok)
  PROVE  /\ \A s \in Succeeded' :
              (s = Current /\ ok) \/ (s \in Succeeded /\ (ok \/ s # Current))
         /\ IsFabricState(Current) => \A s \in Succeeded : IsFabricState(s)
<1>1. at \in 1 .. Len(Plan) /\ Len(Plan) \in Nat
  BY CurrentFacts DEF Answered
<1>2. Plan' = Plan
  BY DEF Plan, Each, FabricStates, SubnetStates, DhcpStates, VlanStates
<1>3. /\ at' = at + 1
      /\ ok => failed' = failed
      /\ ~ok => failed' = failed \union {Current}
  BY DEF Answered, Return
<1>4. ASSUME NEW s \in Succeeded'
      PROVE  (s = Current /\ ok) \/ (s \in Succeeded /\ (ok \/ s # Current))
  <2>1. PICK p \in 1 .. at : s = Plan[p] /\ s \notin failed'
    BY <1>1, <1>2, <1>3 DEF Succeeded
  <2>2. failed \subseteq failed' /\ (~ok => s # Current)
    BY <1>3, <2>1
  <2>3. CASE p = at
    BY <2>1, <2>2, <2>3 DEF Current
  <2>4. CASE p # at
    <3>1. p \in 1 .. at - 1
      BY <1>1, <2>1, <2>4
    <3>2. s \in Succeeded
      BY <2>1, <2>2, <3>1 DEF Succeeded
    <3> QED
      BY <2>2, <3>2
  <2> QED
    BY <2>3, <2>4
<1>5. IsFabricState(Current) => \A s \in Succeeded : IsFabricState(s)
  <2> SUFFICES ASSUME IsFabricState(Current), NEW s \in Succeeded
               PROVE  IsFabricState(s)
    OBVIOUS
  <2>1. PICK p \in 1 .. at - 1 : s = Plan[p]
    BY DEF Succeeded
  <2>2. p \in 1 .. Len(Plan) /\ p <= at
    BY <1>1, <2>1
  <2> QED
    BY <1>1, <2>1, <2>2, PlanFacts DEF Current
<1> QED
  BY <1>4, <1>5

LEMMA KeptAnswered ==
  ASSUME at \in 1 .. Len(Plan) + 1, Kept, NEW ok \in BOOLEAN, Answered(ok),
         \A s \in Succeeded : (Achieved(s) /\ (ok \/ s # Current)) => Achieved(s)',
         \A s : (s = Current /\ ok) => Achieved(s)'
  PROVE  Kept'
<1> SUFFICES ASSUME NEW s \in Succeeded'
             PROVE  Achieved(s)'
  BY DEF Kept
<1>1. (s = Current /\ ok) \/ (s \in Succeeded /\ (ok \/ s # Current))
  BY SucceededStep
<1> QED
  BY <1>1 DEF Kept

\* What is said of fabrics, of subnets, of ranges and of DHCP.
LEMMA AchievedFacts ==
  ASSUME NEW s
  PROVE  /\ IsFabricState(s) => (Achieved(s) <=> \A f \in Fabrics : s = <<"fabric", f>> => FabricKept(f))
         /\ \A f \in Fabrics, v \in Nat : s = <<"vlan", f, v>> => Achieved(s)
         /\ \A f \in Fabrics, v \in Nat : s = <<"dhcp", f, v>> => (Achieved(s) <=> DhcpKept(f, v))
         /\ \A c \in Cidrs : s = <<"subnet", c>> => (Achieved(s) <=> SubnetKept(c))
         /\ \A r \in AllRanges : \A c : s = <<"range", r, c>> => (r \in ipranges => Achieved(s))
<1>1. ASSUME IsFabricState(s)
      PROVE  Achieved(s) <=> \A f \in Fabrics : s = <<"fabric", f>> => FabricKept(f)
  BY <1>1 DEF IsFabricState, Achieved
<1>2. ASSUME NEW f \in Fabrics, NEW v \in Nat, s = <<"vlan", f, v>>
      PROVE  Achieved(s)
  BY <1>2 DEF Achieved
<1>3. ASSUME NEW f \in Fabrics, NEW v \in Nat, s = <<"dhcp", f, v>>
      PROVE  Achieved(s) <=> DhcpKept(f, v)
  BY <1>3 DEF Achieved
<1>4. ASSUME NEW c \in Cidrs, s = <<"subnet", c>>
      PROVE  Achieved(s) <=> SubnetKept(c)
  BY <1>4 DEF Achieved
<1>5. ASSUME NEW r \in AllRanges, NEW c, s = <<"range", r, c>>, r \in ipranges
      PROVE  Achieved(s)
  BY <1>5 DEF Achieved
<1> QED
  BY <1>1, <1>2, <1>3, <1>4, <1>5

\* MaaS has one fabric of a name, and room for a name it does not have.
LEMMA NameOfMaas ==
  ASSUME TypeOK, NEW f \in Fabrics, NEW i \in IdsOf(f), NEW j \in IdsOf(f)
  PROVE  i = j
<1>1. i \in Ids /\ j \in Ids /\ fabrics[i] = f /\ fabrics[j] = f
  BY DEF IdsOf
<1> QED
  BY <1>1, NamesAssumption DEF TypeOK

LEMMA NewNameRoom ==
  ASSUME TypeOK, Numbered, NEW f \in Fabrics, IdsOf(f) \subseteq {NewId}
  PROVE  NewId \in Ids
<1>1. IdsOf(f) = {}
  BY NewIdEmpty, KnownFacts
<1>2. Named # Fabrics
  BY <1>1 DEF Named
<1> QED
  BY <1>2, NewIdFacts

\* What does not touch what the states have done.
LEMMA AchievedSame ==
  ASSUME NEW s, Achieved(s), split => split',
         \A f \in Fabrics : IdsOf(f)' = IdsOf(f),
         \A c \in Discovered : subnets'[c] = subnets[c],
         vlans \subseteq vlans', UNCHANGED <<dhcp, moves>>, ipranges \subseteq ipranges'
  PROVE  Achieved(s)'
<1>1. ASSUME NEW f \in Fabrics, FabricKept(f)
      PROVE  FabricKept(f)'
  BY <1>1 DEF FabricKept
<1>2. ASSUME NEW c \in Cidrs, SubnetKept(c)
      PROVE  SubnetKept(c)'
  BY <1>2, RegionAssumption DEF SubnetKept, Discovered
<1>3. ASSUME NEW f \in Fabrics, NEW v \in Nat, DhcpKept(f, v)
      PROVE  DhcpKept(f, v)'
  BY <1>3 DEF DhcpKept
<1> QED
  BY <1>1, <1>2, <1>3 DEF Achieved

LEMMA KeptStep ==
  ASSUME Inv, Next
  PROVE  Kept'
<1>1. TypeOK /\ Numbered /\ LookedUp /\ Unambiguous /\ Kept /\ MaasTypeOK
      /\ at \in 1 .. Len(Plan) + 1
  BY TypeParts DEF Inv, TypeOK
<1>2. Plan' = Plan
  BY DEF Plan, Each, FabricStates, SubnetStates, DhcpStates, VlanStates
<1>3. split => split'
  BY <1>1, StepCases DEF Watch, vars
<1>4. \A s : IsFabricState(s) <=>
         \/ \E f \in Fabrics : s = <<"fabric", f>>
         \/ \E f \in Fabrics : \E k \in 1 .. Len(Vlans[f]) : s = <<"vlan", f, Vlans[f][k]>>
  BY DEF IsFabricState
<1>5. CASE Watch /\ Effect
  <2>1. CASE Fails
    <3>1. Answered(FALSE) /\ UNCHANGED <<fabrics, vlans, dhcp, subnets, ipranges, moves>>
      BY <2>1 DEF Fails, maasVars
    <3>2. ASSUME NEW s, Achieved(s)
          PROVE  Achieved(s)'
      BY <1>3, <3>1, <3>2, AchievedSame DEF IdsOf
    <3> QED
      BY <1>1, <3>1, <3>2, KeptAnswered
  <2>2. ASSUME NEW ok \in BOOLEAN, NEW f \in Fabrics, NEW i \in Known \union {NewId},
               NamesFabric(ok, f, i)
        PROVE  Kept'
    <3>1. /\ Answered(ok) /\ looked /\ Current = <<"fabric", f>>
          /\ i \in seen \/ i = NewId
          /\ fabrics' = [fabrics EXCEPT ![i] = f]
      BY <2>2 DEF NamesFabric
    <3>2. IsFabricState(Current)
      BY <1>4, <3>1
    <3>3. i \in Ids => FabricKept(f)'
      BY <3>1 DEF FabricKept, IdsOf, TypeOK, Inv
    <3>4. ASSUME NEW g \in Fabrics, g # f, FabricKept(g)
          PROVE  FabricKept(g)'
      <4> SUFFICES ASSUME ~split'
                   PROVE  IdsOf(g)' # {}
        BY DEF FabricKept
      <4>1. ~split /\ NotMisplaced
        BY <1>1, <1>3 DEF Unambiguous
      <4>2. PICK j \in IdsOf(g) : TRUE
        BY <3>4, <4>1 DEF FabricKept
      <4>3. j \in Known /\ j \in Ids /\ fabrics[j] = g
        BY <4>2, KnownFacts DEF IdsOf
      <4>4. CASE i = j
        <5>1. i \in Homes(f) \union IdsOf(f)
          BY <1>1, <3>1, <4>1, <4>3, <4>4, NewIdEmpty DEF LookedUp
        <5>2. fabrics[i] \in {AutoName, f}
          BY <4>1, <5>1 DEF NotMisplaced, Homes, IdsOf
        <5> QED
          BY <3>4, <4>3, <4>4, <5>2, NamesAssumption
      <4>5. CASE i # j
        <5>1. fabrics'[j] = g
          BY <1>1, <3>1, <4>3, <4>5 DEF TypeOK
        <5> QED
          BY <4>3, <5>1 DEF IdsOf
      <4> QED
        BY <4>4, <4>5
    <3>5. i \in Ids
      <4>1. CASE i \in Known
        BY <4>1, KnownFacts
      <4>2. CASE i \notin Known
        <5>1. i = NewId /\ IdsOf(f) \subseteq {i}
          BY <2>2, <4>2 DEF NamesFabric
        <5> QED
          BY <1>1, <5>1, NewNameRoom
      <4> QED
        BY <4>1, <4>2
    <3>6. FabricKept(f)'
      BY <3>3, <3>5
    <3>7. ASSUME NEW s, IsFabricState(s), Achieved(s)
          PROVE  Achieved(s)'
      <4>1. \A g \in Fabrics : s = <<"fabric", g>> => FabricKept(g)
        BY <3>7, AchievedFacts
      <4>2. \A g \in Fabrics : s = <<"fabric", g>> => FabricKept(g)'
        BY <3>4, <3>6, <4>1
      <4> QED
        BY <1>4, <3>7, <4>2 DEF Achieved
    <3>8. ASSUME NEW s, s = Current
          PROVE  Achieved(s)'
      BY <3>1, <3>6, <3>8 DEF Achieved
    <3>9. \A s \in Succeeded : IsFabricState(s)
      BY <1>1, <3>1, <3>2, SucceededStep
    <3> QED
      BY <1>1, <3>1, <3>7, <3>8, <3>9, KeptAnswered
  <2>3. ASSUME NEW ok \in BOOLEAN, NEW f \in Fabrics, NEW v \in Nat, NEW i \in Known,
               WritesVlan(ok, f, v, i)
        PROVE  Kept'
    <3>1. /\ Answered(ok) /\ i \in IdsOf(f) /\ i \in Ids
          /\ \E k \in 1 .. Len(Vlans[f]) : v = Vlans[f][k]
          /\ vlans' = vlans \union {<<i, v>>}
          /\ UNCHANGED <<fabrics, subnets, ipranges, moves>>
      BY <2>3 DEF WritesVlan, IdsOf
    <3>2. \A g \in Fabrics : IdsOf(g)' = IdsOf(g)
      BY <3>1 DEF IdsOf
    <3>3. /\ \A g \in Fabrics : FabricKept(g) => FabricKept(g)'
          /\ \A c \in Cidrs : SubnetKept(c) => SubnetKept(c)'
      BY <1>3, <3>1, <3>2, RegionAssumption DEF FabricKept, SubnetKept
    <3>4. CASE Current = <<"vlan", f, v>> /\ dhcp' = dhcp \ {<<i, v>>}
      <4>1. \A s \in Succeeded : IsFabricState(s)
        BY <1>1, <1>4, <3>1, <3>4, SucceededStep
      <4>2. ASSUME NEW s, IsFabricState(s), Achieved(s)
            PROVE  Achieved(s)'
        BY <1>4, <3>3, <4>2 DEF Achieved
      <4>3. ASSUME NEW s, s = Current
            PROVE  Achieved(s)'
        BY <3>4, <4>3 DEF Achieved
      <4> QED
        BY <1>1, <3>1, <4>1, <4>2, <4>3, KeptAnswered
    <3>5. CASE /\ Current = <<"dhcp", f, v>>
               /\ dhcp' = IF <<f, v>> \in Dhcp THEN dhcp \union {<<i, v>>} ELSE dhcp \ {<<i, v>>}
      <4>1. IdsOf(f) = {i}
        BY <1>1, <3>1, NameOfMaas
      <4>2. DhcpKept(f, v)'
        BY <3>1, <3>2, <3>5, <4>1 DEF DhcpKept
      <4>3. ASSUME NEW g \in Fabrics, NEW w \in Nat, DhcpKept(g, w)
            PROVE  DhcpKept(g, w)'
        <5>1. CASE g = f /\ w = v
          BY <4>2, <5>1
        <5>2. CASE ~(g = f /\ w = v)
          <6>1. ASSUME NEW j \in IdsOf(g)
                PROVE  <<j, w>> # <<i, v>>
            BY <3>1, <5>2, <6>1 DEF IdsOf
          <6> QED
            BY <3>1, <3>2, <3>5, <4>3, <6>1 DEF DhcpKept
        <5> QED
          BY <5>1, <5>2
      <4>4. ASSUME NEW s, Achieved(s)
            PROVE  Achieved(s)'
        BY <3>1, <3>3, <4>3, <4>4 DEF Achieved
      <4>5. ASSUME NEW s, s = Current
            PROVE  Achieved(s)'
        BY <3>5, <4>2, <4>5 DEF Achieved
      <4> QED
        BY <1>1, <3>1, <4>4, <4>5, KeptAnswered
    <3> QED
      BY <2>3, <3>4, <3>5 DEF WritesVlan
  <2>4. ASSUME NEW ok \in BOOLEAN, NEW c \in Cidrs, NEW i \in Known, WritesSubnet(ok, c, i)
        PROVE  Kept'
    <3>1. /\ Answered(ok) /\ Current = <<"subnet", c>>
          /\ i \in IdsOf(FabricOf[c]) /\ ~(seen = {} /\ subnets[c] # NoFabric)
          /\ subnets' = [subnets EXCEPT ![c] = IF seen = {} \/ moves THEN i ELSE @]
          /\ UNCHANGED <<fabrics, vlans, dhcp, ipranges, moves>> /\ looked
      BY <2>4 DEF WritesSubnet
    <3>2. /\ \A g \in Fabrics : IdsOf(g)' = IdsOf(g)
          /\ FabricOf[c] \in Fabrics
      BY <3>1, RegionAssumption DEF IdsOf
    <3>3. IdsOf(FabricOf[c]) = {i} /\ i # NoFabric
      BY <1>1, <3>1, <3>2, NameOfMaas, KnownFacts
    <3>4. SubnetKept(c)'
      <4>1. subnets'[c] # NoFabric /\ (moves => subnets'[c] = i)
        BY <1>1, <3>1, <3>3 DEF LookedUp, TypeOK
      <4> QED
        BY <3>1, <3>2, <3>3, <4>1 DEF SubnetKept
    <3>5. ASSUME NEW s, Achieved(s)
          PROVE  Achieved(s)'
      <4>1. \A d \in Cidrs : d # c => subnets'[d] = subnets[d]
        BY <1>1, <3>1 DEF TypeOK
      <4>2. \A d \in Cidrs : SubnetKept(d) => SubnetKept(d)'
        BY <3>1, <3>2, <3>4, <4>1, RegionAssumption DEF SubnetKept
      <4>3. \A g \in Fabrics : FabricKept(g) => FabricKept(g)'
        BY <1>3, <3>2 DEF FabricKept
      <4>4. \A g \in Fabrics, v \in Nat : DhcpKept(g, v) => DhcpKept(g, v)'
        BY <3>1, <3>2 DEF DhcpKept
      <4> QED
        BY <3>1, <3>5, <4>2, <4>3, <4>4 DEF Achieved
    <3>6. ASSUME NEW s, s = Current
          PROVE  Achieved(s)'
      BY <3>1, <3>4, <3>6 DEF Achieved
    <3> QED
      BY <1>1, <3>1, <3>5, <3>6, KeptAnswered
  <2>5. ASSUME NEW ok \in BOOLEAN, NEW r \in AllRanges, AddsRange(ok, r)
        PROVE  Kept'
    <3>1. /\ Answered(ok) /\ \E c : Current = <<"range", r, c>>
          /\ ipranges' = ipranges \union {r}
          /\ UNCHANGED <<fabrics, vlans, dhcp, subnets, moves>>
      BY <2>5 DEF AddsRange
    <3>2. ASSUME NEW s, Achieved(s)
          PROVE  Achieved(s)'
      BY <1>3, <3>1, <3>2, AchievedSame DEF IdsOf
    <3>3. ASSUME NEW s, s = Current
          PROVE  Achieved(s)'
      BY <3>1, <3>3 DEF Achieved
    <3> QED
      BY <1>1, <3>1, <3>2, <3>3, KeptAnswered
  <2> QED
    BY <1>5, <2>1, <2>2, <2>3, <2>4, <2>5 DEF Effect
<1>6. ASSUME at' = at, failed' = failed, UNCHANGED maasVars
      PROVE  Kept'
  <2>1. Succeeded' = Succeeded
    BY <1>2, <1>6 DEF Succeeded
  <2>2. ASSUME NEW s, Achieved(s)
        PROVE  Achieved(s)'
    BY <1>3, <1>6, <2>2, AchievedSame DEF IdsOf, maasVars
  <2> QED
    BY <1>1, <2>1, <2>2 DEF Kept
<1>7. ASSUME at' = 1
      PROVE  Kept'
  BY <1>7 DEF Kept, Succeeded
<1>8. CASE Watch /\ \E ids \in SUBSET Known : LooksUp(ids)
  BY <1>6, <1>8 DEF LooksUp, Look
<1>9. CASE Watch /\ EndAttempt
  BY <1>6, <1>7, <1>9 DEF EndAttempt, Restart, stateVars
<1>10. CASE Watch /\ Rerun
  BY <1>7, <1>10 DEF Rerun, Restart
<1>11. CASE Watch /\ \E n \in Nics : Discover(n)
  <2>1. PICK n \in Nics : Discover(n)
    BY <1>11
  <2>2. Succeeded' = Succeeded
    BY <1>2, <2>1 DEF Succeeded, Discover, stateVars
  <2>3. ASSUME NEW s, Achieved(s)
        PROVE  Achieved(s)'
    BY <1>1, <1>3, <2>1, <2>3, AchievedSame, DiscoverStep DEF Inv
  <2> QED
    BY <1>1, <2>2, <2>3 DEF Kept
<1>12. CASE UNCHANGED vars
  BY <1>6, <1>12 DEF vars, stateVars
<1> QED
  BY <1>1, <1>5, <1>8, <1>9, <1>10, <1>11, <1>12, StepCases

-------------------------------------------------------------------------------
(* What a success leaves.                                                   *)

\* When the run is done, all states have succeeded.
LEMMA DoneFacts ==
  ASSUME TypeOK, Kept, Ended, phase = "done"
  PROVE  /\ \A f \in Fabrics : FabricKept(f)
         /\ \A f \in Fabrics : \A k \in 1 .. Len(Vlans[f]) : DhcpKept(f, Vlans[f][k])
         /\ \A c \in Cidrs : SubnetKept(c)
         /\ AllRanges \subseteq ipranges
         /\ \A c \in Cidrs : ToSet(Ranges[c]) \subseteq ipranges
<1>1. failed = {} /\ at = Len(Plan) + 1 /\ Len(Plan) \in Nat
  BY PlanFacts DEF Ended
<1>2. ASSUME NEW s, IsFabricState(s) \/ IsSubnetState(s) \/ IsDhcpState(s)
      PROVE  Achieved(s)
  <2>1. PICK p \in 1 .. Len(Plan) : Plan[p] = s
    BY <1>2, PlanFacts
  <2>2. s \in Succeeded
    BY <1>1, <2>1 DEF Succeeded
  <2> QED
    BY <2>2 DEF Kept
<1>3. ASSUME NEW f \in Fabrics
      PROVE  FabricKept(f)
  <2>1. Achieved(<<"fabric", f>>)
    BY <1>2 DEF IsFabricState
  <2> QED
    BY <2>1 DEF Achieved
<1>4. ASSUME NEW f \in Fabrics, NEW k \in 1 .. Len(Vlans[f])
      PROVE  DhcpKept(f, Vlans[f][k])
  <2>1. Achieved(<<"dhcp", f, Vlans[f][k]>>)
    BY <1>2 DEF IsDhcpState
  <2>2. Vlans[f][k] \in Nat
    BY RegionAssumption
  <2> QED
    BY <2>1, <2>2 DEF Achieved
<1>5. ASSUME NEW c \in Cidrs
      PROVE  SubnetKept(c)
  <2>1. Achieved(<<"subnet", c>>)
    BY <1>2 DEF IsSubnetState
  <2> QED
    BY <2>1 DEF Achieved
<1>6. ASSUME NEW c \in Cidrs, NEW r \in ToSet(Ranges[c])
      PROVE  r \in ipranges
  <2>1. PICK k \in 1 .. Len(Ranges[c]) : r = Ranges[c][k]
    BY RegionAssumption DEF ToSet
  <2>2. Achieved(<<"range", r, c>>)
    BY <1>2, <2>1 DEF IsSubnetState
  <2>3. r \in AllRanges
    BY DEF AllRanges
  <2> QED
    BY <2>2, <2>3 DEF Achieved
<1>7. AllRanges \subseteq ipranges
  BY <1>6 DEF AllRanges
<1> QED
  BY <1>3, <1>4, <1>5, <1>6, <1>7

LEMMA DoneComplete ==
  ASSUME TypeOK, Kept, Ended, phase = "done", ~split
  PROVE  Complete
<1>1. Discovered = Cidrs
  BY DoneFacts DEF SubnetKept, Discovered
<1>2. \A f \in Fabrics : IdsOf(f) # {}
  BY DoneFacts DEF FabricKept
<1> QED
  BY <1>1, <1>2, DoneFacts DEF Complete, DhcpKept

\* The steps that follow change nothing of the networks but DHCP.
LEMMA CompleteStep ==
  ASSUME Inv, ~split, Complete, Next
  PROVE  UNCHANGED <<fabrics, vlans, subnets, ipranges>>
<1>1. TypeOK /\ Numbered /\ LookedUp /\ NotMisplaced /\ ~Ambiguous /\ Untagged
  BY DEF Inv, Unambiguous
<1>2. CASE Watch /\ Effect
  <2>1. CASE Fails
    BY <2>1 DEF Fails, maasVars
  <2>2. ASSUME NEW ok \in BOOLEAN, NEW f \in Fabrics, NEW i \in Known \union {NewId},
               NamesFabric(ok, f, i)
        PROVE  UNCHANGED <<fabrics, vlans, subnets, ipranges>>
    <3>1. /\ looked /\ Current = <<"fabric", f>> /\ (i \in seen \/ i = NewId)
          /\ IdsOf(f) \subseteq {i}
          /\ fabrics' = [fabrics EXCEPT ![i] = f] /\ vlans' = vlans \union {<<i, 0>>}
          /\ UNCHANGED <<subnets, ipranges>>
      BY <2>2 DEF NamesFabric
    <3>2. i \in IdsOf(f)
      BY <3>1 DEF Complete
    <3>3. i \in Known /\ fabrics[i] = f
      BY <3>2, KnownFacts DEF IdsOf
    <3>4. fabrics' = fabrics
      BY <1>1, <3>1, <3>3 DEF TypeOK
    <3>5. vlans' = vlans
      BY <1>1, <3>1, <3>3 DEF Untagged
    <3> QED
      BY <3>1, <3>4, <3>5
  <2>3. ASSUME NEW ok \in BOOLEAN, NEW f \in Fabrics, NEW v \in Nat, NEW i \in Known,
               WritesVlan(ok, f, v, i)
        PROVE  UNCHANGED <<fabrics, vlans, subnets, ipranges>>
    <3>1. /\ i \in IdsOf(f) /\ \E k \in 1 .. Len(Vlans[f]) : v = Vlans[f][k]
          /\ vlans' = vlans \union {<<i, v>>}
          /\ UNCHANGED <<fabrics, subnets, ipranges>>
      BY <2>3 DEF WritesVlan
    <3>2. vlans' = vlans
      BY <3>1 DEF Complete
    <3> QED
      BY <3>1, <3>2
  <2>4. ASSUME NEW ok \in BOOLEAN, NEW c \in Cidrs, NEW i \in Known, WritesSubnet(ok, c, i)
        PROVE  UNCHANGED <<fabrics, vlans, subnets, ipranges>>
    <3>1. /\ i \in IdsOf(FabricOf[c]) /\ ~(seen = {} /\ subnets[c] # NoFabric)
          /\ subnets' = [subnets EXCEPT ![c] = IF seen = {} \/ moves THEN i ELSE @]
          /\ UNCHANGED <<fabrics, vlans, ipranges>>
      BY <2>4 DEF WritesSubnet
    <3>2. c \in Discovered /\ subnets[c] # NoFabric /\ FabricOf[c] \in Fabrics
      BY RegionAssumption DEF Complete, Discovered
    <3>3. subnets[c] \in Homes(FabricOf[c])
      BY <3>2 DEF Homes
    <3>4. subnets[c] = i
      BY <1>1, <3>1, <3>2, <3>3, HomesAgree
    <3>5. subnets' = subnets
      BY <1>1, <3>1, <3>4 DEF TypeOK
    <3> QED
      BY <3>1, <3>5
  <2>5. ASSUME NEW ok \in BOOLEAN, NEW r \in AllRanges, AddsRange(ok, r)
        PROVE  UNCHANGED <<fabrics, vlans, subnets, ipranges>>
    BY <2>5 DEF AddsRange, Complete
  <2> QED
    BY <1>2, <2>1, <2>2, <2>3, <2>4, <2>5 DEF Effect
<1>3. CASE Watch /\ \E ids \in SUBSET Known : LooksUp(ids)
  BY <1>3 DEF LooksUp, Look, maasVars
<1>4. CASE Watch /\ EndAttempt
  BY <1>4 DEF EndAttempt, maasVars
<1>5. CASE Watch /\ Rerun
  BY <1>5 DEF Rerun, maasVars
<1>6. CASE Watch /\ \E n \in Nics : Discover(n)
  BY <1>6, RegionAssumption DEF Discover, Complete
<1>7. CASE UNCHANGED vars
  BY <1>7 DEF vars, maasVars
<1> QED
  BY <1>1, <1>2, <1>3, <1>4, <1>5, <1>6, <1>7, StepCases

LEMMA SettledStep ==
  ASSUME Inv, Next
  PROVE  Settled'
<1> SUFFICES ASSUME configured'
             PROVE  (~split /\ Complete)'
  BY DEF Settled
<1>1. TypeOK /\ Numbered /\ LookedUp /\ Unambiguous /\ Kept /\ Ended /\ Settled
  BY DEF Inv
<1>2. configured \/ (phase = "done" /\ ~split)
  <2>1. Watch => configured \/ (phase = "done" /\ ~split)
    BY DEF Watch
  <2>2. UNCHANGED vars => configured
    BY DEF vars
  <2> QED
    BY <1>1, <2>1, <2>2, StepCases
<1>3. ~split /\ Complete
  BY <1>1, <1>2, DoneComplete DEF Settled
<1>4. UNCHANGED <<fabrics, vlans, subnets, ipranges>>
  BY <1>3, CompleteStep
<1>5. ~split'
  <2>1. Ambiguous' = Ambiguous
    BY <1>4 DEF Ambiguous, Homes, IdsOf, Discovered
  <2>2. ~Ambiguous
    BY <1>1, <1>3 DEF Unambiguous
  <2>3. Watch => ~split'
    BY <1>3, <2>1, <2>2 DEF Watch
  <2>4. UNCHANGED vars => ~split'
    BY <1>3 DEF vars
  <2> QED
    BY <1>1, <2>3, <2>4, StepCases
<1>6. Complete'
  BY <1>3, <1>4 DEF Complete, Discovered, IdsOf
<1> QED
  BY <1>5, <1>6

-------------------------------------------------------------------------------
(* The theorems.                                                            *)

LEMMA InitInv ==
  ASSUME Init
  PROVE  Inv
<1>1. Known = {} /\ Discovered = {} /\ \A f \in Fabrics : IdsOf(f) = {} /\ Homes(f) = {}
  BY NamesAssumption DEF Init, Known, Discovered, IdsOf, Homes
<1>2. TypeOK
  <2>1. 1 \in 1 .. Len(Plan) + 1 /\ 1 \in 1 .. MaxTries
    BY PlanFacts, RegionAssumption
  <2>2. /\ fabrics = [i \in Ids |-> Absent] /\ subnets = [c \in Cidrs |-> NoFabric]
        /\ vlans = {} /\ dhcp = {} /\ ipranges = {} /\ moves \in BOOLEAN
    BY DEF Init
  <2>3. \A i, j \in Ids : fabrics[i] \in {AutoName, Absent}
    BY <2>2
  <2>4. MaasTypeOK
    BY <2>2, <2>3 DEF MaasTypeOK
  <2>5. SaltTypeOK
    <3>1. /\ at = 1 /\ looked = FALSE /\ failed = {} /\ tries = 1 /\ phase = "running"
          /\ faults = MaxFaults /\ runs = MaxRuns
      BY DEF Init
    <3>2. MaxFaults \in 0 .. MaxFaults /\ MaxRuns \in 0 .. MaxRuns
      BY RegionAssumption
    <3> QED
      BY <2>1, <3>1, <3>2 DEF SaltTypeOK
  <2> QED
    BY <2>4, <2>5, TypeParts DEF Init
<1>3. Numbered
  <2>1. Known = 1 .. 0 /\ 0 <= Cardinality(Named) + Cardinality(Discovered)
    BY <1>1, CountFacts
  <2> QED
    BY <2>1 DEF Numbered
<1>4. Untagged /\ LookedUp
  BY <1>1 DEF Init, Untagged, LookedUp
<1>5. Unambiguous
  <2>1. Cardinality({}) = 0
    BY FS_EmptySet
  <2>2. \A f \in Fabrics : Cardinality(Homes(f) \union IdsOf(f)) = 0
    <3>1. \A f \in Fabrics : Homes(f) \union IdsOf(f) = {}
      BY <1>1
    <3> QED
      BY <2>1, <3>1
  <2>3. ~Ambiguous
    <3>1. \A f \in Fabrics : ~(Cardinality(Homes(f) \union IdsOf(f)) > 1)
      BY <2>2
    <3> QED
      BY <1>1, <3>1 DEF Ambiguous
  <2> QED
    BY <1>1, <2>3 DEF Unambiguous, NotMisplaced
<1>6. Kept
  <2>1. Succeeded = {}
    BY DEF Init, Succeeded
  <2> QED
    BY <2>1 DEF Kept
<1>7. Ended /\ Settled
  BY DEF Init, Ended, Settled
<1> QED
  BY <1>2, <1>3, <1>4, <1>5, <1>6, <1>7 DEF Inv

LEMMA NextInv ==
  ASSUME Inv, [Next]_vars
  PROVE  Inv'
<1>1. CASE Next
  <2>1. TypeOK' /\ Numbered' /\ Untagged'
    BY <1>1, TypeStep DEF Inv
  <2>2. LookedUp' /\ Unambiguous' /\ Ended'
    BY <1>1, LookedUpStep, UnambiguousStep, EndedStep DEF Inv
  <2>3. Kept' /\ Settled'
    BY <1>1, KeptStep, SettledStep
  <2> QED
    BY <2>1, <2>2, <2>3 DEF Inv
<1>2. CASE UNCHANGED vars
  <2>1. UNCHANGED <<fabrics, vlans, dhcp, subnets, ipranges, moves, at, seen, looked, failed,
                    tries, phase, runs, faults, split, configured>>
    BY <1>2 DEF vars, maasVars, stateVars, runVars
  <2>2. Plan' = Plan
    BY DEF Plan, Each, FabricStates, SubnetStates, DhcpStates, VlanStates
  <2>3. /\ Known' = Known /\ Discovered' = Discovered /\ Named' = Named
        /\ Succeeded' = Succeeded /\ Current' = Current
        /\ \A f \in Fabrics : IdsOf(f)' = IdsOf(f) /\ Homes(f)' = Homes(f)
    BY <2>1, <2>2 DEF Known, Discovered, Named, Succeeded, Current, IdsOf, Homes
  <2>4. TypeOK' /\ Numbered' /\ Untagged'
    BY <2>1, <2>2, <2>3 DEF Inv, TypeOK, Numbered, Untagged
  <2>5. LookedUp'
    BY <2>1, <2>2, <2>3 DEF Inv, LookedUp, Current, Known, Homes, IdsOf, Discovered
  <2>6. Unambiguous'
    BY <2>1, <2>3 DEF Inv, Unambiguous, NotMisplaced, Ambiguous
  <2>7. Kept'
    <3>1. ASSUME NEW s, Achieved(s)
          PROVE  Achieved(s)'
      BY <2>1, <2>3, <3>1, AchievedSame
    <3> QED
      BY <2>3, <3>1 DEF Inv, Kept
  <2>8. Ended' /\ Settled'
    BY <2>1, <2>2, <2>3 DEF Inv, Ended, Settled, Complete
  <2> QED
    BY <2>4, <2>5, <2>6, <2>7, <2>8 DEF Inv
<1> QED
  BY <1>1, <1>2

\* The invariant that the theorems below rest on: MaaS numbers its fabrics from 1
\* and has room for them, what a state has looked up holds until it writes, the
\* states of an attempt keep what they have achieved, and a success is for good.
THEOREM Invariant == Spec => []Inv
<1>1. Init => Inv
  BY InitInv
<1>2. Inv /\ [Next]_vars => Inv'
  BY NextInv
<1> QED
  BY <1>1, <1>2, PTL DEF Spec

\* The fabrics, VLANs, subnets and ranges of MaaS, and the progress of Salt and
\* deploy.sh, are well-formed: no two fabrics have one name of the pillar, and
\* subnets and VLANs are in fabrics that exist.
THEOREM TypeCorrect == Spec => []TypeOK
<1>1. Inv => TypeOK
  BY DEF Inv
<1> QED
  BY <1>1, Invariant, PTL

\* When maas.region has succeeded, the fabrics, subnets, ranges and the DHCP are
\* those of the pillar, whatever failed and whatever MaaS discovered meanwhile.
THEOREM Configured == Spec => []RegionConfigured
<1>1. ASSUME Inv, phase = "done", moves \/ ~split
      PROVE  /\ \A f \in Fabrics : Served(f)
             /\ \A c \in Cidrs : IdsOf(FabricOf[c]) = {subnets[c]} /\ ToSet(Ranges[c]) \subseteq ipranges
  <2>1. TypeOK /\ Kept /\ Ended /\ Unambiguous
    BY <1>1 DEF Inv
  <2>2. ASSUME NEW f \in Fabrics
        PROVE  Served(f)
    <3>1. \A k \in 1 .. Len(Vlans[f]) : DhcpKept(f, Vlans[f][k])
      BY <1>1, <2>1, DoneFacts
    <3>2. DOMAIN Vlans[f] = 1 .. Len(Vlans[f])
      BY RegionAssumption
    <3> QED
      BY <3>1, <3>2 DEF Served, DhcpKept
  <2>3. ASSUME NEW c \in Cidrs
        PROVE  IdsOf(FabricOf[c]) = {subnets[c]}
    <3>1. SubnetKept(c) /\ FabricKept(FabricOf[c]) /\ FabricOf[c] \in Fabrics
      BY <1>1, <2>1, DoneFacts, RegionAssumption
    <3>2. CASE moves
      BY <3>1, <3>2 DEF SubnetKept
    <3>3. CASE ~split
      <4>1. IdsOf(FabricOf[c]) # {} /\ ~Ambiguous
        BY <2>1, <3>1, <3>3 DEF FabricKept, Unambiguous
      <4>2. subnets[c] \in Homes(FabricOf[c])
        BY <3>1 DEF SubnetKept, Homes, Discovered
      <4>3. \A i \in IdsOf(FabricOf[c]) : i = subnets[c]
        BY <2>1, <3>1, <4>1, <4>2, HomesAgree
      <4> QED
        BY <4>1, <4>3
    <3> QED
      BY <1>1, <3>2, <3>3
  <2> QED
    BY <1>1, <2>1, <2>2, <2>3, DoneFacts
<1>2. Inv => RegionConfigured
  BY <1>1 DEF RegionConfigured
<1> QED
  BY <1>2, Invariant, PTL

\* Without ambiguous guesses no subnet is ever in the fabric of another's name,
\* although the states rename fabrics that MaaS has discovered subnets in.
THEOREM Placed == Spec => []NotMisplaced
<1>1. Inv => NotMisplaced
  BY DEF Inv, Unambiguous
<1> QED
  BY <1>1, Invariant, PTL

\* After a success without ambiguity, no run, retry or discovery changes the
\* fabrics, VLANs, subnets or ranges.
THEOREM NetworksStable == Spec => Stable
<1>1. ASSUME Inv, [Next]_vars, configured
      PROVE  UNCHANGED <<fabrics, vlans, subnets, ipranges>>
  <2>1. ~split /\ Complete
    BY <1>1 DEF Inv, Settled
  <2>2. CASE Next
    BY <1>1, <2>1, <2>2, CompleteStep
  <2>3. CASE UNCHANGED vars
    BY <2>3 DEF vars, maasVars
  <2> QED
    BY <1>1, <2>2, <2>3
<1>2. Inv /\ [Next]_vars => [configured => UNCHANGED <<fabrics, vlans, subnets, ipranges>>]_vars
  BY <1>1
<1> QED
  BY <1>2, Invariant, PTL DEF Spec, Stable
===============================================================================
