------------------------- MODULE StorageLayoutProofs -------------------------
(***************************************************************************)
(* Proofs about StorageLayout for every layout of the pillar, every number *)
(* of attempts and every number of failures and runs.                      *)
(***************************************************************************)
EXTENDS StorageLayout, FiniteSetTheorems, WellFoundedInduction, TLAPS

-------------------------------------------------------------------------------
(* Concatenation.                                                           *)

(***************************************************************************)
(* Induction over the numbers, for a set of them: the set is given, so no  *)
(* operator has to be instantiated.                                        *)
(***************************************************************************)
LEMMA Induction ==
  ASSUME NEW S, 0 \in S, \A n \in Nat : n \in S => n + 1 \in S
  PROVE  Nat \subseteq S
<1> DEFINE T == Nat \ S
           Less == OpToRel(<, Nat)
<1> SUFFICES ASSUME T # {} PROVE FALSE
  OBVIOUS
<1>1. IsWellFoundedOn(Less, Nat)
  BY NatLessThanWellFounded, Zenon
<1>2. \A y, x \in Nat : y < x => <<y, x>> \in Less
  BY DEF OpToRel
<1>3. \E x \in T : \A y \in T : ~(<<y, x>> \in Less)
  <2> HIDE DEF T, Less
  <2>1. T \subseteq Nat
    BY DEF T
  <2> QED
    BY <1>1, <2>1, WFMin, Zenon
<1>4. PICK x \in T : \A y \in T : ~(<<y, x>> \in Less)
  BY <1>3
<1>5. \A y \in T : ~(y < x)
  <2> HIDE DEF Less
  <2> QED
    BY <1>2, <1>4
<1>6. x # 0 /\ x - 1 \in Nat /\ x - 1 < x
  OBVIOUS
<1>7. x - 1 \in S
  BY <1>5, <1>6
<1> QED
  BY <1>6, <1>7

LEMMA FlattenDef ==
  ASSUME NEW seqs, Len(seqs) # 0
  PROVE  FlattenSeq(seqs) =
           (CHOOSE f : f = [i \in 1 .. Len(seqs) |->
                              IF i = 1 THEN seqs[i] ELSE f[i - 1] \o seqs[i]])[Len(seqs)]
BY DEF FlattenSeq

\* x is an element of s.
Occurs(x, s) == \E i \in 1 .. Len(s) : s[i] = x

\* f[n] is the concatenation of the first n of the sequences, for n up to k.
Concats(f, seqs, k) ==
  f = [i \in 1 .. k |-> IF i = 1 THEN seqs[i] ELSE f[i - 1] \o seqs[i]]

LEMMA ConcatsExist ==
  ASSUME NEW seqs, NEW k \in Nat
  PROVE  \E f : Concats(f, seqs, k)
<1> DEFINE S == {n \in Nat : \E f : Concats(f, seqs, n)}
<1>1. 0 \in S
  <2> DEFINE f == [i \in 1 .. 0 |-> seqs[i]]
  <2>1. Concats(f, seqs, 0)
    BY DEF Concats
  <2> QED
    BY <2>1
<1>2. ASSUME NEW n \in Nat, n \in S
      PROVE  n + 1 \in S
  <2>1. PICK f : Concats(f, seqs, n)
    BY <1>2
  <2>0. \A j \in 1 .. n : f[j] = IF j = 1 THEN seqs[j] ELSE f[j - 1] \o seqs[j]
    BY <2>1 DEF Concats
  <2> DEFINE g == [i \in 1 .. n + 1 |->
                     IF i <= n THEN f[i] ELSE IF i = 1 THEN seqs[i] ELSE f[i - 1] \o seqs[i]]
             h == [i \in 1 .. n + 1 |-> IF i = 1 THEN seqs[i] ELSE g[i - 1] \o seqs[i]]
  <2>2. ASSUME NEW i \in 1 .. n + 1
        PROVE  g[i] = IF i = 1 THEN seqs[i] ELSE g[i - 1] \o seqs[i]
    <3>1. i # 1 => g[i - 1] = f[i - 1]
      OBVIOUS
    <3>2. CASE i <= n
      <4>1. f[i] = IF i = 1 THEN seqs[i] ELSE f[i - 1] \o seqs[i]
        BY <2>0, <3>2
      <4> QED
        BY <3>1, <3>2, <4>1
    <3>3. CASE ~(i <= n)
      BY <3>1, <3>3
    <3> QED
      BY <3>2, <3>3
  <2>3. g = h
    BY <2>2
  <2>4. Concats(g, seqs, n + 1)
    BY <2>3 DEF Concats
  <2>5. \E e : Concats(e, seqs, n + 1)
    <3> HIDE DEF g
    <3> QED
      BY <2>4, Zenon
  <2>6. n + 1 \in Nat
    OBVIOUS
  <2> HIDE DEF g, h
  <2> QED
    BY <2>5, <2>6, Zenon
<1> HIDE DEF S
<1>3. Nat \subseteq S
  BY <1>1, <1>2, Induction
<1> QED
  BY <1>3 DEF S

\* A function on 1 .. n is a sequence.
LEMMA OccursFunction ==
  ASSUME NEW S, NEW n \in Nat, NEW s \in [1 .. n -> S]
  PROVE  /\ s \in Seq(S) /\ Len(s) = n
         /\ \A x : Occurs(x, s) <=> \E i \in 1 .. n : s[i] = x
<1>1. s \in Seq(S) /\ Len(s) = n
  OBVIOUS
<1> QED
  BY <1>1 DEF Occurs

LEMMA ConcatFacts ==
  ASSUME NEW S, NEW s \in Seq(S), NEW t \in Seq(S)
  PROVE  /\ Len(s) \in Nat /\ Len(t) \in Nat
         /\ s \o t \in Seq(S) /\ Len(s \o t) = Len(s) + Len(t)
         /\ \A i \in 1 .. Len(s \o t) : (s \o t)[i] = IF i <= Len(s) THEN s[i] ELSE t[i - Len(s)]
OBVIOUS

LEMMA OccursConcat ==
  ASSUME NEW S, NEW s \in Seq(S), NEW t \in Seq(S), NEW x
  PROVE  Occurs(x, s \o t) <=> Occurs(x, s) \/ Occurs(x, t)
<1>1. /\ Len(s) \in Nat /\ Len(t) \in Nat /\ Len(s \o t) = Len(s) + Len(t)
      /\ \A i \in 1 .. Len(s) + Len(t) :
           (s \o t)[i] = IF i <= Len(s) THEN s[i] ELSE t[i - Len(s)]
  OBVIOUS
<1>2. ASSUME NEW i \in 1 .. Len(s), s[i] = x
      PROVE  Occurs(x, s \o t)
  <2>1. i \in 1 .. Len(s) + Len(t) /\ (s \o t)[i] = x
    BY <1>1, <1>2
  <2> QED
    BY <1>1, <2>1 DEF Occurs
<1>3. ASSUME NEW i \in 1 .. Len(t), t[i] = x
      PROVE  Occurs(x, s \o t)
  <2>1. Len(s) + i \in 1 .. Len(s) + Len(t) /\ (s \o t)[Len(s) + i] = x
    BY <1>1, <1>3
  <2> QED
    BY <1>1, <2>1 DEF Occurs
<1>4. ASSUME NEW i \in 1 .. Len(s) + Len(t), (s \o t)[i] = x
      PROVE  Occurs(x, s) \/ Occurs(x, t)
  <2>1. CASE i <= Len(s)
    BY <1>1, <1>4, <2>1 DEF Occurs
  <2>2. CASE ~(i <= Len(s))
    <3>1. i - Len(s) \in 1 .. Len(t) /\ t[i - Len(s)] = x
      BY <1>1, <1>4, <2>2
    <3> QED
      BY <3>1 DEF Occurs
  <2> QED
    BY <2>1, <2>2
<1> QED
  BY <1>1, <1>2, <1>3, <1>4 DEF Occurs

(***************************************************************************)
(* Induction along FlattenSeq: Q[k] is a set of sequences that the         *)
(* concatenation of the first k is in.                                     *)
(***************************************************************************)
LEMMA FlattenInduction ==
  ASSUME NEW S, NEW n \in Nat, NEW seqs \in [1 .. n -> Seq(S)],
         NEW Q \in [0 .. n -> SUBSET Seq(S)], <<>> \in Q[0],
         \A k \in 0 .. n - 1 : \A s \in Q[k] : s \o seqs[k + 1] \in Q[k + 1]
  PROVE  FlattenSeq(seqs) \in Q[n]
<1>1. Len(seqs) = n
  OBVIOUS
<1>2. CASE n = 0
  <2>1. FlattenSeq(seqs) = seqs
    BY <1>1, <1>2 DEF FlattenSeq
  <2>2. seqs = <<>>
    BY <1>2
  <2> QED
    BY <1>2, <2>1, <2>2
<1>3. CASE n # 0
  <2> DEFINE f == CHOOSE e : Concats(e, seqs, n)
  <2>1. FlattenSeq(seqs) = f[n]
    BY <1>1, <1>3, FlattenDef DEF Concats
  <2>2. Concats(f, seqs, n)
    BY ConcatsExist
  <2> HIDE DEF f
  <2>3. \A i \in 1 .. n : f[i] = IF i = 1 THEN seqs[i] ELSE f[i - 1] \o seqs[i]
    BY <2>2 DEF Concats
  <2> DEFINE T == {i \in Nat : i \in 1 .. n => f[i] \in Q[i]}
  <2>4. 0 \in T
    OBVIOUS
  <2>5. ASSUME NEW i \in Nat, i \in T
        PROVE  i + 1 \in T
    <3> SUFFICES ASSUME i + 1 \in 1 .. n
                 PROVE  f[i + 1] \in Q[i + 1]
      OBVIOUS
    <3>1. CASE i = 0
      <4>1. f[1] = seqs[1] /\ seqs[1] \in Seq(S)
        BY <1>3, <2>3
      <4>2. <<>> \o seqs[1] = seqs[1]
        BY <4>1
      <4>3. <<>> \o seqs[1] \in Q[1]
        <5>1. 0 \in 0 .. n - 1 /\ 0 + 1 = 1
          BY <1>3
        <5> QED
          BY <5>1
      <4> QED
        BY <3>1, <4>1, <4>2, <4>3
    <3>2. CASE i # 0
      <4>1. i \in 1 .. n /\ i \in 0 .. n - 1 /\ f[i] \in Q[i]
        BY <2>5, <3>2
      <4>2. i + 1 # 1 /\ (i + 1) - 1 = i
        BY <3>2
      <4>3. f[i + 1] = f[i] \o seqs[i + 1]
        BY <2>3, <4>2
      <4> QED
        BY <4>1, <4>3
    <3> QED
      BY <3>1, <3>2
  <2> HIDE DEF T
  <2>6. n \in T
    BY <2>4, <2>5, Induction
  <2>7. f[n] \in Q[n]
    BY <1>3, <2>6 DEF T
  <2> QED
    BY <2>1, <2>7
<1> QED
  BY <1>2, <1>3

\* Whatever is in FlattenSeq(seqs) is in one of them, and the other way round.
LEMMA FlattenFacts ==
  ASSUME NEW S, NEW n \in Nat, NEW seqs \in [1 .. n -> Seq(S)]
  PROVE  /\ FlattenSeq(seqs) \in Seq(S)
         /\ \A x : Occurs(x, FlattenSeq(seqs)) <=> \E j \in 1 .. n : Occurs(x, seqs[j])
<1> DEFINE Q == [k \in 0 .. n |->
                   {s \in Seq(S) : \A x \in S : Occurs(x, s) <=> \E j \in 1 .. k : Occurs(x, seqs[j])}]
<1>1. Q \in [0 .. n -> SUBSET Seq(S)]
  OBVIOUS
<1>2. <<>> \in Q[0]
  BY DEF Occurs
<1>3. ASSUME NEW k \in 0 .. n - 1, NEW s \in Q[k]
      PROVE  s \o seqs[k + 1] \in Q[k + 1]
  <2>1. k \in 0 .. n /\ k + 1 \in 0 .. n /\ k + 1 \in 1 .. n
    OBVIOUS
  <2>2. s \in Seq(S) /\ \A x \in S : Occurs(x, s) <=> \E j \in 1 .. k : Occurs(x, seqs[j])
    BY <2>1
  <2>3. seqs[k + 1] \in Seq(S) /\ s \o seqs[k + 1] \in Seq(S)
    BY <2>1, <2>2
  <2>4. \A x \in S : Occurs(x, s \o seqs[k + 1]) <=> Occurs(x, s) \/ Occurs(x, seqs[k + 1])
    BY <2>2, <2>3, OccursConcat
  <2>5. 1 .. k + 1 = (1 .. k) \union {k + 1}
    OBVIOUS
  <2>6. \A x \in S : Occurs(x, s \o seqs[k + 1]) <=> \E j \in 1 .. k + 1 : Occurs(x, seqs[j])
    BY <2>2, <2>4, <2>5
  <2> QED
    BY <2>1, <2>3, <2>6
<1> HIDE DEF Q
<1>4. FlattenSeq(seqs) \in Q[n]
  BY <1>1, <1>2, <1>3, FlattenInduction
<1>5. /\ FlattenSeq(seqs) \in Seq(S)
      /\ \A x \in S : Occurs(x, FlattenSeq(seqs)) <=> \E j \in 1 .. n : Occurs(x, seqs[j])
  BY <1>4 DEF Q
<1>6. \A x : Occurs(x, FlattenSeq(seqs)) => x \in S
  BY <1>5 DEF Occurs
<1>7. \A j \in 1 .. n : \A x : Occurs(x, seqs[j]) => x \in S
  <2> TAKE j \in 1 .. n
  <2>1. seqs[j] \in Seq(S)
    OBVIOUS
  <2> QED
    BY <2>1 DEF Occurs
<1> QED
  BY <1>5, <1>6, <1>7

-------------------------------------------------------------------------------
(* The inductive invariant.                                                 *)

\* The items that a state is there for.
ItemsOf(s) ==
  IF s[1] = "disk" THEN Kid(s[2])
  ELSE IF s[1] = "raid" THEN {<<s[2], 0>>} \union Kid(s[2])
  ELSE IF s[1] = "group" THEN {<<s[2], 0>>}
  ELSE IF s[1] = "volume" THEN {<<s[2], s[3]>>}
  ELSE {}

\* What MaaS sees to: whatever is on a RAID or group goes with it, only the
\* partition of a layout is "default", and what has items on it stays bare.
Sound ==
  \A i \in DOMAIN have :
    /\ i[1] \in Disks \/ Has(<<i[1], 0>>)
    /\ have[i] = "default" => i[1] \in Disks /\ i[2] = 1
    /\ i[2] = 0 => have[i] = "bare"

\* The order of the calls for one item.
Rank(op) ==
  IF op = "delete" THEN 0 ELSE IF op = "create" THEN 1 ELSE IF op = "format" THEN 2 ELSE 3

Ordered(s) ==
  \A p, q \in 1 .. Len(s) : p < q /\ s[p][2] = s[q][2] => Rank(s[p][1]) < Rank(s[q][1])

\* What the calls s make of item i of a machine with the items h.
Due(s, h, i) ==
  LET Pending(op) == Occurs(<<op, i>>, s) IN
  /\ Pending("mount") => Final[i] = "mounted"
  /\ Pending("format") /\ ~Pending("mount") => Final[i] = "formatted"
  /\ Pending("create") /\ ~Pending("format") /\ ~Pending("mount") => Final[i] = "bare"
  /\ Pending("delete") => Pending("create")
  /\ (Pending("format") \/ Pending("mount")) /\ ~Pending("create") => i \in DOMAIN h
  /\ ~Pending("create") /\ ~Pending("format") /\ ~Pending("mount") =>
       i \in DOMAIN h /\ h[i] = Final[i]

MakesItems ==
  /\ Current[1] \in {"disk", "raid", "group", "volume"}
  /\ \A x \in Calls : Occurs(x, todo) =>
       \/ x[1] \in {"create", "format", "mount"} /\ x[2] \in ItemsOf(Current)
       \/ x[1] = "delete" /\ Current[1] = "disk" /\ x[2][1] = Current[2] /\ x[2][2] > 0
  /\ Ordered(todo)
  /\ \A i \in ItemsOf(Current) : Due(todo, have, i)

DropsAll ==
  /\ Current = <<"layout">> /\ layout = "custom"
  /\ \A x \in Calls : Occurs(x, todo) => x[1] = "delete"
  /\ \A i \in DOMAIN have : Occurs(<<"delete", i>>, todo) \/ Occurs(<<"delete", <<i[1], 0>>>>, todo)

Working ==
  todo # <<>> =>
    /\ phase = "running" /\ at <= Len(Plan) /\ status = "Ready"
    /\ \/ MakesItems
       \/ DropsAll
       \/ Current = <<"layout">> /\ layout \in {"flat", "lvm"} /\ todo = <<<<"layout", layout>>>>
       \/ Current = <<"boot", BootDevice>> /\ todo = <<<<"boot", BootDevice>>>>

\* The states that this attempt has begun, and those that have succeeded.
Begun == {Plan[p] : p \in 1 .. at - 1} \union (IF todo = <<>> THEN {} ELSE {Current})
Succeeded == {Plan[p] : p \in 1 .. at - 1} \ failed

\* The layout of this attempt is there: nothing is left of earlier ones.
Cleared == layout # "none" /\ <<"layout">> \in Succeeded

Laid(i) == Has(i) /\ have[i] # "default" /\ (Cleared => have[i] = Final[i])

Achieved(s) ==
  /\ s = <<"layout">> /\ layout = "custom" => DOMAIN have \subseteq Planned
  /\ s = <<"boot", BootDevice>> => boot = BootDevice
  /\ \A i \in ItemsOf(s) : Laid(i)

Kept ==
  status = "Ready" =>
    \A s \in Succeeded : todo = <<>> \/ s # Current => Achieved(s)

\* A disk that no state has begun with has no partition but that of the layout.
Fresh ==
  status = "Ready" /\ Cleared =>
    \A d \in Disks :
      Has(<<d, 1>>) /\ have[<<d, 1>>] # "default" => <<"disk", d>> \in Begun

Ended == phase = "done" => failed = {} /\ at = Len(Plan) + 1

Inv ==
  /\ TypeOK /\ Sound /\ Working /\ Kept /\ Fresh /\ Ended /\ DeployedAsPlanned

-------------------------------------------------------------------------------
(* The plan.                                                                *)

\* The states of the plan that make items.
States ==
  {<<"disk", d>> : d \in Disks \intersect ToSet(Order)}
    \union {<<"raid", r>> : r \in Raids} \union {<<"group", g>> : g \in Groups}
    \union UNION {{<<"volume", g, k>> : k \in 1 .. Kids[g]} : g \in Groups}

LEMMA OrderFacts ==
  /\ Len(Order) \in Nat /\ DOMAIN Order = 1 .. Len(Order)
  /\ ToSet(Order) = {Order[n] : n \in 1 .. Len(Order)}
  /\ ToSet(Order) \subseteq Disks \union Heads
  /\ Heads \subseteq ToSet(Order)
  /\ \A d \in ToSet(Order) : Kids[d] \in Nat
<1>1. Order \in Seq(Disks \union Heads)
  BY StorageAssumption
<1>2. Len(Order) \in Nat /\ DOMAIN Order = 1 .. Len(Order)
  BY <1>1
<1>3. ToSet(Order) = {Order[n] : n \in 1 .. Len(Order)}
  BY <1>2 DEF ToSet
<1>4. ToSet(Order) \subseteq Disks \union Heads
  BY <1>1, <1>2, <1>3
<1> QED
  BY <1>2, <1>3, <1>4, StorageAssumption

LEMMA StatesOfFacts ==
  ASSUME NEW d \in ToSet(Order)
  PROVE  /\ StatesOf(d) \in Seq(States)
         /\ \A x : Occurs(x, StatesOf(d)) <=>
              \/ d \in Disks /\ x = <<"disk", d>>
              \/ d \in Raids /\ x = <<"raid", d>>
              \/ /\ d \in Groups
                 /\ x = <<"group", d>> \/ \E k \in 1 .. Kids[d] : x = <<"volume", d, k>>
<1>1. Disks \intersect Heads = {} /\ Raids \intersect Groups = {} /\ d \in Disks \union Heads
  BY OrderFacts, StorageAssumption
<1>2. CASE d \in Disks
  <2>1. StatesOf(d) = <<<<"disk", d>>>>
    BY <1>2 DEF StatesOf
  <2>2. <<"disk", d>> \in States
    BY <1>2 DEF States
  <2>3. d \notin Raids /\ d \notin Groups
    BY <1>1, <1>2 DEF Heads
  <2> QED
    BY <1>2, <2>1, <2>2, <2>3 DEF Occurs
<1>3. CASE d \in Raids
  <2>1. StatesOf(d) = <<<<"raid", d>>>>
    BY <1>1, <1>3 DEF StatesOf, Heads
  <2>2. <<"raid", d>> \in States
    BY <1>3 DEF States
  <2>3. d \notin Disks /\ d \notin Groups
    BY <1>1, <1>3 DEF Heads
  <2> QED
    BY <1>3, <2>1, <2>2, <2>3 DEF Occurs
<1>4. CASE d \in Groups
  <2>1. d \notin Disks /\ d \notin Raids
    BY <1>1, <1>4 DEF Heads
  <2>2. StatesOf(d) = <<<<"group", d>>>> \o Volumes(d)
    BY <2>1 DEF StatesOf
  <2>3. Kids[d] \in Nat
    BY OrderFacts
  <2>4. <<"group", d>> \in States
    BY <1>4 DEF States
  <2>5. \A k \in 1 .. Kids[d] : <<"volume", d, k>> \in States
    BY <1>4 DEF States
  <2>6. Volumes(d) \in [1 .. Kids[d] -> States]
    BY <2>5 DEF Volumes
  <2> DEFINE n == Kids[d]
             vs == Volumes(d)
  <2>7. /\ vs \in Seq(States)
        /\ \A x : Occurs(x, vs) <=> \E k \in 1 .. n : vs[k] = x
    <3>1. n \in Nat /\ vs \in [1 .. n -> States]
      BY <2>3, <2>6
    <3> HIDE DEF n, vs
    <3> QED
      BY <3>1, OccursFunction
  <2>8. \A k \in 1 .. n : vs[k] = <<"volume", d, k>>
    BY DEF Volumes
  <2> DEFINE gs == <<<<"group", d>>>>
  <2>9. gs \in Seq(States) /\ \A x : Occurs(x, gs) <=> x = <<"group", d>>
    BY <2>4 DEF Occurs
  <2>10. StatesOf(d) = gs \o vs
    BY <2>2
  <2> HIDE DEF gs, vs
  <2>11. StatesOf(d) \in Seq(States)
    BY <2>7, <2>9, <2>10
  <2>12. ASSUME NEW x
         PROVE  Occurs(x, StatesOf(d)) <=> Occurs(x, gs) \/ Occurs(x, vs)
    BY <2>7, <2>9, <2>10, OccursConcat
  <2> QED
    BY <1>4, <2>1, <2>7, <2>8, <2>9, <2>11, <2>12
<1> QED
  BY <1>1, <1>2, <1>3, <1>4 DEF Heads

LEMMA PlanFacts ==
  /\ Len(Plan) \in Nat /\ Len(Plan) >= 2 /\ DOMAIN Plan = 1 .. Len(Plan)
  /\ Plan[1] = <<"layout">> /\ Plan[2] = <<"boot", BootDevice>>
  /\ \A p \in 1 .. Len(Plan) : p = 1 \/ p = 2 \/ Plan[p] \in States
  /\ \A s \in States : \E p \in 1 .. Len(Plan) : Plan[p] = s
  /\ ToSet(Plan) = {Plan[p] : p \in 1 .. Len(Plan)}
<1> DEFINE seqs == [n \in DOMAIN Order |-> StatesOf(Order[n])]
           head == <<<<"layout">>, <<"boot", BootDevice>>>>
           tail == FlattenSeq(seqs)
           All  == States \union {<<"layout">>, <<"boot", BootDevice>>}
<1>1. \A n \in 1 .. Len(Order) : Order[n] \in ToSet(Order)
  BY OrderFacts
<1>2. seqs \in [1 .. Len(Order) -> Seq(States)]
  BY <1>1, OrderFacts, StatesOfFacts
<1>3. \A n \in 1 .. Len(Order) : seqs[n] = StatesOf(Order[n])
  BY OrderFacts
<1> HIDE DEF seqs
<1>4. /\ tail \in Seq(States)
      /\ \A x : Occurs(x, tail) <=> \E n \in 1 .. Len(Order) : Occurs(x, seqs[n])
  BY <1>2, OrderFacts, FlattenFacts
<1>5. Plan = head \o tail
  BY DEF Plan, seqs
<1>6. head \in Seq(All) /\ Len(head) = 2 /\ head[1] = <<"layout">> /\ head[2] = <<"boot", BootDevice>>
  OBVIOUS
<1>7. tail \in Seq(All)
  <2>1. \A t \in Seq(States) : t \in Seq(All)
    OBVIOUS
  <2> QED
    BY <1>4, <2>1
<1> HIDE DEF head, tail
<1> HIDE DEF All
<1>8. /\ Plan \in Seq(All) /\ Len(tail) \in Nat /\ Len(Plan) = 2 + Len(tail)
      /\ \A p \in 1 .. Len(Plan) : Plan[p] = IF p <= 2 THEN head[p] ELSE tail[p - 2]
  <2>1. head \in Seq(All) /\ tail \in Seq(All)
    BY <1>6, <1>7
  <2>2. /\ Len(tail) \in Nat
        /\ head \o tail \in Seq(All) /\ Len(head \o tail) = Len(head) + Len(tail)
        /\ \A i \in 1 .. Len(head \o tail) :
             (head \o tail)[i] = IF i <= Len(head) THEN head[i] ELSE tail[i - Len(head)]
    BY <2>1, ConcatFacts
  <2> QED
    BY <1>5, <1>6, <2>2
<1>9. \A p \in 1 .. Len(Plan) : p = 1 \/ p = 2 \/ Plan[p] \in States
  <2> SUFFICES ASSUME NEW p \in 1 .. Len(Plan), p # 1, p # 2
               PROVE  Plan[p] \in States
    OBVIOUS
  <2>1. p - 2 \in 1 .. Len(tail) /\ ~(p <= 2)
    BY <1>8
  <2>2. tail[p - 2] \in States
    BY <1>4, <2>1
  <2> QED
    BY <1>8, <2>1, <2>2
<1>10. ASSUME NEW s \in States
       PROVE  \E p \in 1 .. Len(Plan) : Plan[p] = s
  <2>1. \E d \in ToSet(Order) : Occurs(s, StatesOf(d))
    <3>1. CASE \E d \in Disks \intersect ToSet(Order) : s = <<"disk", d>>
      BY <3>1, StatesOfFacts
    <3>2. CASE \E d \in Raids : s = <<"raid", d>>
      BY <3>2, StatesOfFacts, OrderFacts DEF Heads
    <3>3. CASE \E d \in Groups : s = <<"group", d>> \/ \E k \in 1 .. Kids[d] : s = <<"volume", d, k>>
      BY <3>3, StatesOfFacts, OrderFacts DEF Heads
    <3> QED
      BY <3>1, <3>2, <3>3 DEF States
  <2>2. \E n \in 1 .. Len(Order) : Occurs(s, seqs[n])
    BY <1>3, <2>1, OrderFacts
  <2>3. PICK q \in 1 .. Len(tail) : tail[q] = s
    BY <1>4, <2>2 DEF Occurs
  <2>4. q + 2 \in 1 .. Len(Plan) /\ ~(q + 2 <= 2) /\ (q + 2) - 2 = q
    BY <1>8
  <2> QED
    BY <1>8, <2>3, <2>4
<1>11. DOMAIN Plan = 1 .. Len(Plan)
  BY <1>8
<1>12. Plan[1] = <<"layout">> /\ Plan[2] = <<"boot", BootDevice>>
  BY <1>6, <1>8
<1> QED
  BY <1>8, <1>9, <1>10, <1>11, <1>12 DEF ToSet

-------------------------------------------------------------------------------
(* Items and the states they belong to.                                     *)

LEMMA KindsOfStates ==
  ASSUME NEW s \in States
  PROVE  /\ s[1] \in {"disk", "raid", "group", "volume"}
         /\ s[1] = "disk" => s = <<"disk", s[2]>> /\ s[2] \in Disks /\ s[2] \in ToSet(Order)
         /\ s[1] = "raid" => s = <<"raid", s[2]>> /\ s[2] \in Raids
         /\ s[1] = "group" => s = <<"group", s[2]>> /\ s[2] \in Groups
         /\ s[1] = "volume" =>
              s = <<"volume", s[2], s[3]>> /\ s[2] \in Groups /\ s[3] \in 1 .. Kids[s[2]]
<1>1. CASE \E d \in Disks \intersect ToSet(Order) : s = <<"disk", d>>
  BY <1>1
<1>2. CASE \E d \in Raids : s = <<"raid", d>>
  BY <1>2
<1>3. CASE \E d \in Groups : s = <<"group", d>>
  BY <1>3
<1>4. CASE \E d \in Groups : \E k \in 1 .. Kids[d] : s = <<"volume", d, k>>
  BY <1>4
<1> QED
  BY <1>1, <1>2, <1>3, <1>4 DEF States

\* Every item of the pillar belongs to one state of the plan.
LEMMA ItemsOfStates ==
  /\ \A s \in States : ItemsOf(s) \subseteq Planned
  /\ \A i \in Planned : \E s \in States : i \in ItemsOf(s)
  /\ \A s, t \in States : \A i : i \in ItemsOf(s) /\ i \in ItemsOf(t) => s = t
<1>1. ASSUME NEW s \in States
      PROVE  ItemsOf(s) \subseteq Planned
  <2>1. CASE s[1] = "disk"
    BY <2>1, KindsOfStates DEF ItemsOf, Planned
  <2>2. CASE s[1] = "raid"
    <3>1. s[2] \in Heads /\ s[2] \in ToSet(Order)
      BY <2>2, KindsOfStates, OrderFacts DEF Heads
    <3> QED
      BY <2>2, <3>1 DEF ItemsOf, Planned
  <2>3. CASE s[1] = "group"
    <3>1. s[2] \in Heads
      BY <2>3, KindsOfStates DEF Heads
    <3> QED
      BY <2>3, <3>1 DEF ItemsOf, Planned
  <2>4. CASE s[1] = "volume"
    <3>1. s[2] \in ToSet(Order) /\ s[3] \in 1 .. Kids[s[2]]
      BY <2>4, KindsOfStates, OrderFacts DEF Heads
    <3> QED
      BY <2>4, <3>1 DEF ItemsOf, Planned, Kid
  <2> QED
    BY <2>1, <2>2, <2>3, <2>4, KindsOfStates
<1>2. ASSUME NEW i \in Planned
      PROVE  \E s \in States : i \in ItemsOf(s)
  <2>1. CASE \E d \in Raids : i = <<d, 0>>
    <3>1. PICK d \in Raids : i = <<d, 0>>
      BY <2>1
    <3>2. <<"raid", d>> \in States /\ i \in ItemsOf(<<"raid", d>>)
      BY <3>1 DEF States, ItemsOf
    <3> QED
      BY <3>2
  <2>2. CASE \E d \in Groups : i = <<d, 0>>
    <3>1. PICK d \in Groups : i = <<d, 0>>
      BY <2>2
    <3>2. <<"group", d>> \in States /\ i \in ItemsOf(<<"group", d>>)
      BY <3>1 DEF States, ItemsOf
    <3> QED
      BY <3>2
  <2>3. CASE \E d \in ToSet(Order) : i \in Kid(d)
    <3>1. PICK d \in ToSet(Order) : i \in Kid(d)
      BY <2>3
    <3>2. CASE d \in Disks
      <4>1. <<"disk", d>> \in States /\ i \in ItemsOf(<<"disk", d>>)
        BY <3>1, <3>2 DEF States, ItemsOf
      <4> QED
        BY <4>1
    <3>3. CASE d \in Raids
      <4>1. <<"raid", d>> \in States /\ i \in ItemsOf(<<"raid", d>>)
        BY <3>1, <3>3 DEF States, ItemsOf
      <4> QED
        BY <4>1
    <3>4. CASE d \in Groups
      <4>1. PICK k \in 1 .. Kids[d] : i = <<d, k>>
        BY <3>1 DEF Kid
      <4>2. <<"volume", d, k>> \in States /\ i \in ItemsOf(<<"volume", d, k>>)
        BY <3>4, <4>1 DEF States, ItemsOf
      <4> QED
        BY <4>2
    <3> QED
      BY <3>2, <3>3, <3>4, OrderFacts DEF Heads
  <2> QED
    BY <2>1, <2>2, <2>3 DEF Planned, Heads
<1>3. ASSUME NEW s \in States, NEW t \in States, NEW i, i \in ItemsOf(s), i \in ItemsOf(t)
      PROVE  s = t
  <2>1. Disks \intersect Heads = {} /\ Raids \intersect Groups = {}
    BY StorageAssumption
  <2>2. /\ i[1] = s[2]
        /\ s[1] = "group" => i[2] = 0
        /\ s[1] = "volume" => i[2] = s[3] /\ i[2] # 0
    BY <1>3, KindsOfStates, OrderFacts DEF ItemsOf, Kid, Heads
  <2>3. /\ i[1] = t[2]
        /\ t[1] = "group" => i[2] = 0
        /\ t[1] = "volume" => i[2] = t[3] /\ i[2] # 0
    BY <1>3, KindsOfStates, OrderFacts DEF ItemsOf, Kid, Heads
  <2>4. s[1] = t[1]
    BY <2>1, <2>2, <2>3, KindsOfStates DEF Heads
  <2> QED
    BY <2>2, <2>3, <2>4, KindsOfStates
<1> QED
  BY <1>1, <1>2, <1>3

LEMMA ItemFacts ==
  /\ Planned \subseteq Items
  /\ \A i \in Items : /\ i = <<i[1], i[2]>> /\ i[2] \in Nat
                      /\ i[1] \in Disks \union Heads \union {Root}
                      /\ i[1] \in Disks => i[2] > 0
                      /\ i[1] \in Disks /\ i[2] # 1 => i \in Planned
<1>1. ASSUME NEW i \in Planned
      PROVE  /\ i = <<i[1], i[2]>> /\ i[2] \in Nat
             /\ i[1] \in Disks \union Heads
             /\ i[1] \in Disks => i[2] > 0
  <2>0. Disks \intersect Heads = {}
    BY StorageAssumption
  <2>1. CASE \E d \in Heads : i = <<d, 0>>
    BY <2>0, <2>1
  <2>2. CASE \E d \in ToSet(Order) : i \in Kid(d)
    BY <2>2, OrderFacts DEF Kid
  <2> QED
    BY <2>1, <2>2 DEF Planned
<1>2. Root \notin Disks \union Heads
  BY StorageAssumption
<1> QED
  BY <1>1, <1>2 DEF Items

LEMMA ImageFinite ==
  ASSUME NEW S, IsFiniteSet(S), NEW f, DOMAIN f = S
  PROVE  IsFiniteSet({f[x] : x \in S})
<1> DEFINE T == {f[x] : x \in S}
           g == [x \in S |-> f[x]]
<1>1. g \in Surjection(S, T)
  BY DEF Surjection
<1> HIDE DEF T, g
<1>2. IsFiniteSet(T)
  BY <1>1, FS_Surjection
<1> QED
  BY <1>2 DEF T

LEMMA KidFinite ==
  ASSUME NEW d \in ToSet(Order)
  PROVE  IsFiniteSet(Kid(d))
<1> DEFINE n == Kids[d]
           f == [k \in 1 .. n |-> <<d, k>>]
<1>1. n \in Nat
  BY OrderFacts
<1>2. IsFiniteSet(1 .. n)
  <2> HIDE DEF n
  <2> QED
    BY <1>1, FS_Interval
<1>3. Kid(d) = {f[k] : k \in 1 .. n}
  BY DEF Kid
<1>4. DOMAIN f = 1 .. n
  OBVIOUS
<1> HIDE DEF f, n
<1>5. IsFiniteSet({f[k] : k \in 1 .. n})
  BY <1>2, <1>4, ImageFinite
<1> QED
  BY <1>3, <1>5

LEMMA ItemsFinite == IsFiniteSet(Items)
<1>1. IsFiniteSet(Disks) /\ IsFiniteSet(Heads)
  BY StorageAssumption, FS_Union DEF Heads
<1>2. IsFiniteSet(Disks \union Heads)
  BY <1>1, FS_Union
<1>3. IsFiniteSet(ToSet(Order))
  BY <1>2, OrderFacts, FS_Subset
<1> DEFINE f == [d \in Heads |-> <<d, 0>>]
           g == [d \in ToSet(Order) |-> Kid(d)]
           h == [d \in Disks |-> <<d, 1>>]
<1>4. IsFiniteSet({<<d, 0>> : d \in Heads})
  <2>1. {<<d, 0>> : d \in Heads} = {f[d] : d \in Heads} /\ DOMAIN f = Heads
    OBVIOUS
  <2> HIDE DEF f
  <2> QED
    BY <1>1, <2>1, ImageFinite
<1>5. IsFiniteSet({<<d, 1>> : d \in Disks})
  <2>1. {<<d, 1>> : d \in Disks} = {h[d] : d \in Disks} /\ DOMAIN h = Disks
    OBVIOUS
  <2> HIDE DEF h
  <2> QED
    BY <1>1, <2>1, ImageFinite
<1>6. IsFiniteSet({Kid(d) : d \in ToSet(Order)})
  <2>1. {Kid(d) : d \in ToSet(Order)} = {g[d] : d \in ToSet(Order)} /\ DOMAIN g = ToSet(Order)
    OBVIOUS
  <2> HIDE DEF g
  <2> QED
    BY <1>3, <2>1, ImageFinite
<1>7. IsFiniteSet(UNION {Kid(d) : d \in ToSet(Order)})
  <2>1. \A T \in {Kid(d) : d \in ToSet(Order)} : IsFiniteSet(T)
    BY KidFinite
  <2> QED
    BY <1>6, <2>1, FS_UNION
<1>8. IsFiniteSet(Planned)
  BY <1>4, <1>7, FS_Union DEF Planned
<1>9. IsFiniteSet({<<Root, 0>>, <<Root, 1>>})
  <2>1. {<<Root, 0>>, <<Root, 1>>} = {<<Root, 0>>} \union {<<Root, 1>>}
    OBVIOUS
  <2>2. IsFiniteSet({<<Root, 0>>}) /\ IsFiniteSet({<<Root, 1>>})
    BY FS_Singleton
  <2>3. IsFiniteSet({<<Root, 0>>} \union {<<Root, 1>>})
    BY <2>2, FS_Union
  <2> QED
    BY <2>1, <2>3
<1>10. IsFiniteSet(Planned \union {<<Root, 0>>, <<Root, 1>>})
  BY <1>8, <1>9, FS_Union
<1> QED
  BY <1>5, <1>10, FS_Union DEF Items

-------------------------------------------------------------------------------
(* Calls.                                                                   *)

LEMMA SetToSeqFacts ==
  ASSUME NEW S, IsFiniteSet(S)
  PROVE  /\ Cardinality(S) \in Nat
         /\ SetToSeq(S) \in [1 .. Cardinality(S) -> S]
         /\ \A i \in S : \E n \in 1 .. Cardinality(S) : SetToSeq(S)[n] = i
         /\ \A m, n \in 1 .. Cardinality(S) : SetToSeq(S)[m] = SetToSeq(S)[n] => m = n
<1> DEFINE c == Cardinality(S)
           f == SetToSeq(S)
<1>1. c \in Nat /\ ExistsBijection(1 .. c, S)
  BY FS_CardinalityType
<1>2. \E e \in [1 .. c -> S] : IsInjective(e)
  BY <1>1 DEF ExistsBijection, Bijection, Injection
<1>3. f \in [1 .. c -> S] /\ IsInjective(f)
  BY <1>2 DEF SetToSeq
<1>4. f \in Injection(1 .. c, S)
  BY <1>3 DEF Injection
<1>5. IsFiniteSet(1 .. c) /\ Cardinality(1 .. c) = c
  <2> HIDE DEF c
  <2> QED
    BY <1>1, FS_Interval
<1> HIDE DEF f
<1>6. f \in Surjection(1 .. c, S)
  BY <1>4, <1>5, FS_Injection
<1>7. \A i \in S : \E n \in 1 .. c : f[n] = i
  BY <1>6 DEF Surjection
<1>8. \A m, n \in 1 .. c : f[m] = f[n] => m = n
  BY <1>3 DEF IsInjective
<1> QED
  BY <1>1, <1>3, <1>7, <1>8 DEF f

LEMMA OrderedConcat ==
  ASSUME NEW S, NEW s \in Seq(S), NEW t \in Seq(S), Ordered(s), Ordered(t),
         \A x, y : Occurs(x, s) /\ Occurs(y, t) /\ x[2] = y[2] => Rank(x[1]) < Rank(y[1])
  PROVE  Ordered(s \o t)
<1>1. /\ Len(s) \in Nat /\ Len(t) \in Nat
      /\ s \o t \in Seq(S) /\ Len(s \o t) = Len(s) + Len(t)
      /\ \A i \in 1 .. Len(s \o t) : (s \o t)[i] = IF i <= Len(s) THEN s[i] ELSE t[i - Len(s)]
  BY ConcatFacts
<1> DEFINE u == s \o t
<1> HIDE DEF u
<1> SUFFICES ASSUME NEW p \in 1 .. Len(u), NEW q \in 1 .. Len(u), p < q, u[p][2] = u[q][2]
             PROVE  Rank(u[p][1]) < Rank(u[q][1])
  BY DEF Ordered, u
<1>2. Len(u) = Len(s) + Len(t) /\ \A i \in 1 .. Len(u) : u[i] = IF i <= Len(s) THEN s[i] ELSE t[i - Len(s)]
  BY <1>1 DEF u
<1>3. CASE q <= Len(s)
  <2>1. p \in 1 .. Len(s) /\ q \in 1 .. Len(s) /\ u[p] = s[p] /\ u[q] = s[q]
    BY <1>1, <1>2, <1>3
  <2> QED
    BY <2>1 DEF Ordered
<1>4. CASE p <= Len(s) /\ ~(q <= Len(s))
  <2>1. p \in 1 .. Len(s) /\ q - Len(s) \in 1 .. Len(t) /\ u[p] = s[p] /\ u[q] = t[q - Len(s)]
    BY <1>1, <1>2, <1>4
  <2>2. Occurs(u[p], s) /\ Occurs(u[q], t)
    BY <2>1 DEF Occurs
  <2> QED
    BY <2>2
<1>5. CASE ~(p <= Len(s))
  <2>1. /\ p - Len(s) \in 1 .. Len(t) /\ q - Len(s) \in 1 .. Len(t)
        /\ p - Len(s) < q - Len(s)
        /\ u[p] = t[p - Len(s)] /\ u[q] = t[q - Len(s)]
    BY <1>1, <1>2, <1>5
  <2> QED
    BY <2>1 DEF Ordered
<1> QED
  BY <1>1, <1>3, <1>4, <1>5

LEMMA DeletesFacts ==
  ASSUME NEW S \in SUBSET Items
  PROVE  /\ Deletes(S) \in Seq(Calls)
         /\ \A x : Occurs(x, Deletes(S)) <=> \E i \in S : x = <<"delete", i>>
         /\ Ordered(Deletes(S))
<1> DEFINE c == Cardinality(S)
           f == SetToSeq(S)
           D == Deletes(S)
<1>1. IsFiniteSet(S)
  BY ItemsFinite, FS_Subset
<1>2. /\ c \in Nat /\ f \in [1 .. c -> S]
      /\ \A i \in S : \E n \in 1 .. c : f[n] = i
      /\ \A m, n \in 1 .. c : f[m] = f[n] => m = n
  BY <1>1, SetToSeqFacts
<1>3. D = [n \in 1 .. c |-> <<"delete", f[n]>>]
  BY DEF Deletes
<1> HIDE DEF c, f, D
<1>4. D \in [1 .. c -> Calls]
  BY <1>2, <1>3 DEF Calls
<1>5. D \in Seq(Calls) /\ Len(D) = c /\ \A x : Occurs(x, D) <=> \E i \in 1 .. c : D[i] = x
  BY <1>2, <1>4, OccursFunction
<1>6. \A x : Occurs(x, D) <=> \E i \in S : x = <<"delete", i>>
  BY <1>2, <1>3, <1>5
<1>7. Ordered(D)
  <2>1. \A p, q \in 1 .. c : D[p][2] = D[q][2] => p = q
    BY <1>2, <1>3
  <2> QED
    BY <1>2, <1>5, <2>1 DEF Ordered
<1> QED
  BY <1>5, <1>6, <1>7 DEF D

\* The calls that make the items of I, in an order MaaS accepts for each.
Step(x, i) ==
  \/ x = <<"create", i>>
  \/ Final[i] # "bare" /\ x = <<"format", i>>
  \/ Final[i] = "mounted" /\ x = <<"mount", i>>

Makes(s, I) ==
  /\ s \in Seq(Calls) /\ Ordered(s)
  /\ \A x : Occurs(x, s) <=> \E i \in I : Step(x, i)

LEMMA MakesConcat ==
  ASSUME NEW I, NEW J, NEW s, NEW t, Makes(s, I), Makes(t, J), I \intersect J = {}
  PROVE  Makes(s \o t, I \union J)
<1>1. s \in Seq(Calls) /\ t \in Seq(Calls) /\ Ordered(s) /\ Ordered(t)
  BY DEF Makes
<1>2. \A x : Occurs(x, s) <=> \E i \in I : Step(x, i)
  BY DEF Makes
<1>3. \A x : Occurs(x, t) <=> \E i \in J : Step(x, i)
  BY DEF Makes
<1>4. \A x, i : Step(x, i) => x[2] = i
  BY DEF Step
<1>5. \A x, y : Occurs(x, s) /\ Occurs(y, t) => x[2] # y[2]
  BY <1>2, <1>3, <1>4
<1>6. Ordered(s \o t)
  BY <1>1, <1>5, OrderedConcat
<1>7. s \o t \in Seq(Calls)
  BY <1>1
<1>8. ASSUME NEW x
      PROVE  Occurs(x, s \o t) <=> \E i \in I \union J : Step(x, i)
  BY <1>1, <1>2, <1>3, OccursConcat
<1> QED
  BY <1>6, <1>7, <1>8 DEF Makes

LEMMA SingleFacts ==
  ASSUME NEW c \in Calls
  PROVE  /\ <<c>> \in Seq(Calls) /\ Ordered(<<c>>)
         /\ \A x : Occurs(x, <<c>>) <=> x = c
BY DEF Ordered, Occurs

LEMMA EmptyFacts ==
  <<>> \in Seq(Calls) /\ Ordered(<<>>) /\ \A x : ~Occurs(x, <<>>)
BY DEF Ordered, Occurs

LEMMA CreateMakes ==
  ASSUME NEW i \in Planned
  PROVE  Makes(<<<<"create", i>>>> \o Furnish(i), {i})
<1> DEFINE c == <<"create", i>>
           f == <<"format", i>>
           m == <<"mount", i>>
           C == <<c>>
           F == IF Final[i] = "bare" THEN <<>> ELSE <<f>>
           M == IF Final[i] = "mounted" THEN <<m>> ELSE <<>>
<1>1. c \in Calls /\ f \in Calls /\ m \in Calls
  BY ItemFacts DEF Calls
<1>2. C \in Seq(Calls) /\ Ordered(C) /\ \A x : Occurs(x, C) <=> x = c
  <2> HIDE DEF c
  <2> QED
    BY <1>1, SingleFacts
<1>3. F \in Seq(Calls) /\ Ordered(F) /\ \A x : Occurs(x, F) <=> Final[i] # "bare" /\ x = f
  <2> HIDE DEF f
  <2> QED
    BY <1>1, SingleFacts, EmptyFacts
<1>4. M \in Seq(Calls) /\ Ordered(M) /\ \A x : Occurs(x, M) <=> Final[i] = "mounted" /\ x = m
  <2> HIDE DEF m
  <2> QED
    BY <1>1, SingleFacts, EmptyFacts
<1>5. Furnish(i) = F \o M
  BY DEF Furnish
<1>6. Rank(c[1]) < Rank(f[1]) /\ Rank(c[1]) < Rank(m[1]) /\ Rank(f[1]) < Rank(m[1])
  BY DEF Rank
<1>7. \A x : Step(x, i) <=> x = c \/ (Final[i] # "bare" /\ x = f) \/ (Final[i] = "mounted" /\ x = m)
  BY DEF Step
<1> HIDE DEF c, f, m, C, F, M
<1>8. /\ F \o M \in Seq(Calls) /\ Ordered(F \o M)
  BY <1>3, <1>4, <1>6, OrderedConcat
<1>9. \A x : Occurs(x, F \o M) <=> Occurs(x, F) \/ Occurs(x, M)
  BY <1>3, <1>4, OccursConcat
<1> DEFINE G == F \o M
<1> HIDE DEF G
<1>10. G \in Seq(Calls) /\ Ordered(G)
  BY <1>8 DEF G
<1>11. \A x : Occurs(x, G) <=> (Final[i] # "bare" /\ x = f) \/ (Final[i] = "mounted" /\ x = m)
  BY <1>3, <1>4, <1>9 DEF G
<1>12. C \o G \in Seq(Calls) /\ Ordered(C \o G)
  BY <1>2, <1>6, <1>10, <1>11, OrderedConcat
<1>13. \A x : Occurs(x, C \o G) <=> Occurs(x, C) \/ Occurs(x, G)
  BY <1>2, <1>10, OccursConcat
<1>14. \A x : Occurs(x, C \o G) <=> \E j \in {i} : Step(x, j)
  BY <1>2, <1>7, <1>11, <1>13
<1>15. <<<<"create", i>>>> \o Furnish(i) = C \o G
  BY <1>5 DEF c, C, G
<1> QED
  BY <1>12, <1>14, <1>15 DEF Makes

LEMMA CreatePartitionsMakes ==
  ASSUME NEW d \in ToSet(Order)
  PROVE  Makes(CreatePartitions(d), Kid(d))
<1> DEFINE n == Kids[d]
           seqs == [k \in 1 .. n |-> CreatePartition(<<d, k>>)]
           First == [k \in 0 .. n |-> {<<d, j>> : j \in 1 .. k}]
           Q == [k \in 0 .. n |-> {s \in Seq(Calls) : Makes(s, First[k])}]
<1>1. n \in Nat
  BY OrderFacts
<1>2. \A k \in 1 .. n : <<d, k>> \in Planned
  BY DEF Planned, Kid
<1>3. \A k \in 1 .. n : Makes(seqs[k], {<<d, k>>})
  BY <1>2, CreateMakes DEF CreatePartition
<1>4. \A k \in 1 .. n : seqs[k] \in Seq(Calls)
  BY <1>3 DEF Makes
<1>5. seqs \in [1 .. n -> Seq(Calls)]
  BY <1>4
<1>6. Q \in [0 .. n -> SUBSET Seq(Calls)]
  OBVIOUS
<1>7. <<>> \in Q[0]
  <2>1. First[0] = {}
    BY <1>1
  <2>2. Makes(<<>>, First[0])
    BY <2>1, EmptyFacts DEF Makes
  <2>3. 0 \in 0 .. n
    BY <1>1
  <2> HIDE DEF First, n
  <2> QED
    BY <2>2, <2>3, EmptyFacts
<1>8. ASSUME NEW k \in 0 .. n - 1, NEW s \in Q[k]
      PROVE  s \o seqs[k + 1] \in Q[k + 1]
  <2>1. k \in 0 .. n /\ k + 1 \in 0 .. n /\ k + 1 \in 1 .. n
    BY <1>1
  <2>2. Makes(s, First[k])
    BY <2>1
  <2>3. Makes(seqs[k + 1], {<<d, k + 1>>})
    BY <1>3, <2>1
  <2>4. First[k] \intersect {<<d, k + 1>>} = {}
    BY <2>1
  <2>5. First[k] \union {<<d, k + 1>>} = First[k + 1]
    <3>1. 1 .. k + 1 = (1 .. k) \union {k + 1}
      BY <2>1
    <3> QED
      BY <2>1, <3>1
  <2> HIDE DEF seqs, First
  <2>6. Makes(s \o seqs[k + 1], First[k + 1])
    BY <2>2, <2>3, <2>4, <2>5, MakesConcat
  <2> QED
    BY <2>1, <2>6 DEF Makes
<1>9. First[n] = Kid(d)
  BY <1>1 DEF Kid
<1>10. CreatePartitions(d) = FlattenSeq(seqs)
  BY DEF CreatePartitions
<1>11. FlattenSeq(seqs) \in Q[n]
  <2> HIDE DEF Q, seqs, n
  <2> QED
    BY <1>1, <1>5, <1>6, <1>7, <1>8, FlattenInduction
<1>12. n \in 0 .. n
  BY <1>1
<1> HIDE DEF seqs, First, n
<1> QED
  BY <1>9, <1>10, <1>11, <1>12

LEMMA TailFacts ==
  ASSUME NEW S, NEW s \in Seq(S), s # <<>>
  PROVE  /\ Head(s) \in S /\ Tail(s) \in Seq(S)
         /\ \A x : Occurs(x, s) <=> x = Head(s) \/ Occurs(x, Tail(s))
         /\ Ordered(s) =>
              /\ Ordered(Tail(s))
              /\ \A x : Occurs(x, Tail(s)) /\ x[2] = Head(s)[2] => Rank(Head(s)[1]) < Rank(x[1])
<1> DEFINE t == Tail(s)
<1>1. /\ Len(s) \in Nat /\ Len(s) > 0 /\ t \in Seq(S) /\ Len(t) = Len(s) - 1
      /\ Head(s) = s[1] /\ Head(s) \in S
      /\ \A n \in 1 .. Len(t) : t[n] = s[n + 1]
  OBVIOUS
<1> HIDE DEF t
<1>2. ASSUME NEW x
      PROVE  Occurs(x, s) <=> x = Head(s) \/ Occurs(x, t)
  <2>1. ASSUME NEW n \in 1 .. Len(s), s[n] = x, x # Head(s)
        PROVE  Occurs(x, t)
    <3>1. n - 1 \in 1 .. Len(t) /\ (n - 1) + 1 = n
      BY <1>1, <2>1
    <3>2. t[n - 1] = x
      BY <1>1, <2>1, <3>1
    <3> QED
      BY <3>1, <3>2 DEF Occurs
  <2>2. x = Head(s) => Occurs(x, s)
    BY <1>1 DEF Occurs
  <2>3. ASSUME NEW n \in 1 .. Len(t), t[n] = x
        PROVE  Occurs(x, s)
    <3>1. n + 1 \in 1 .. Len(s) /\ s[n + 1] = x
      BY <1>1, <2>3
    <3> QED
      BY <3>1 DEF Occurs
  <2> QED
    BY <2>1, <2>2, <2>3 DEF Occurs
<1>3. ASSUME Ordered(s)
      PROVE  Ordered(t)
  <2> SUFFICES ASSUME NEW p \in 1 .. Len(t), NEW q \in 1 .. Len(t), p < q, t[p][2] = t[q][2]
               PROVE  Rank(t[p][1]) < Rank(t[q][1])
    BY DEF Ordered
  <2>1. /\ p + 1 \in 1 .. Len(s) /\ q + 1 \in 1 .. Len(s) /\ p + 1 < q + 1
        /\ t[p] = s[p + 1] /\ t[q] = s[q + 1]
    BY <1>1
  <2> QED
    BY <1>3, <2>1 DEF Ordered
<1>4. ASSUME Ordered(s), NEW x, Occurs(x, t), x[2] = Head(s)[2]
      PROVE  Rank(Head(s)[1]) < Rank(x[1])
  <2>1. PICK n \in 1 .. Len(t) : t[n] = x
    BY <1>4 DEF Occurs
  <2>2. n + 1 \in 1 .. Len(s) /\ 1 \in 1 .. Len(s) /\ 1 < n + 1 /\ s[n + 1] = x
    BY <1>1, <2>1
  <2> QED
    BY <1>1, <1>4, <2>2 DEF Ordered
<1> QED
  BY <1>1, <1>2, <1>3, <1>4 DEF t

\* The calls a state begins with make its items, whatever the machine has.
LEMMA DueBegin ==
  ASSUME NEW s, NEW h, NEW D, NEW I, I \subseteq Planned,
         \A x : Occurs(x, s) <=> (\E i \in D : x = <<"delete", i>>) \/ (\E i \in I : Step(x, i)),
         NEW i \in I
  PROVE  Due(s, h, i)
<1>1. Final[i] \in {"bare", "formatted", "mounted"}
  BY StorageAssumption
<1>2. \A op : Occurs(<<op, i>>, s) <=>
        \/ op = "delete" /\ i \in D
        \/ op = "create"
        \/ op = "format" /\ Final[i] # "bare"
        \/ op = "mount" /\ Final[i] = "mounted"
  <2>1. \A op, j : <<op, i>> = <<"delete", j>> <=> op = "delete" /\ i = j
    OBVIOUS
  <2>2. \A op, j : Step(<<op, i>>, j) <=>
          j = i /\ \/ op = "create"
                   \/ op = "format" /\ Final[i] # "bare"
                   \/ op = "mount" /\ Final[i] = "mounted"
    BY DEF Step
  <2> QED
    BY <2>1, <2>2
<1> QED
  BY <1>1, <1>2 DEF Due

\* One call brings its item one step on, and leaves the others alone.
LEMMA DueCall ==
  ASSUME NEW s \in Seq(Calls), s # <<>>, Ordered(s), NEW i, NEW op,
         op \in {"delete", "create", "format", "mount"}, Head(s) = <<op, i>>,
         NEW h, NEW g,
         op = "delete" => DOMAIN g = DOMAIN h \ {i},
         op = "create" => DOMAIN g = DOMAIN h \union {i} /\ g[i] = "bare",
         op \in {"format", "mount"} => DOMAIN g = DOMAIN h,
         op = "format" /\ i \in DOMAIN h => g[i] = "formatted",
         op = "mount" /\ i \in DOMAIN h => g[i] = "mounted",
         \A j \in DOMAIN h : j # i => g[j] = h[j],
         NEW j, Due(s, h, j)
  PROVE  Due(Tail(s), g, j)
<1> DEFINE P(o) == Occurs(<<o, j>>, s)
           T(o) == Occurs(<<o, j>>, Tail(s))
<1>1. \A o : P(o) <=> (o = op /\ j = i) \/ T(o)
  <2>1. \A o : <<o, j>> = <<op, i>> <=> o = op /\ j = i
    OBVIOUS
  <2>2. \A o : P(o) <=> <<o, j>> = Head(s) \/ T(o)
    BY TailFacts
  <2> QED
    BY <2>1, <2>2
<1>2. j = i => \A o : T(o) => Rank(op) < Rank(o)
  <2>1. \A o : <<o, j>>[1] = o /\ <<o, j>>[2] = j /\ <<op, i>>[1] = op /\ <<op, i>>[2] = i
    OBVIOUS
  <2> QED
    BY <2>1, TailFacts
<1>3. /\ P("mount") => Final[j] = "mounted"
      /\ P("format") /\ ~P("mount") => Final[j] = "formatted"
      /\ P("create") /\ ~P("format") /\ ~P("mount") => Final[j] = "bare"
      /\ P("delete") => P("create")
      /\ (P("format") \/ P("mount")) /\ ~P("create") => j \in DOMAIN h
      /\ ~P("create") /\ ~P("format") /\ ~P("mount") => j \in DOMAIN h /\ h[j] = Final[j]
  BY DEF Due
<1>4. CASE j # i
  <2>1. j \in DOMAIN h => j \in DOMAIN g /\ g[j] = h[j]
    BY <1>4
  <2>2. \A o : T(o) <=> P(o)
    BY <1>1, <1>4
  <2> HIDE DEF P, T
  <2>3. /\ T("mount") => Final[j] = "mounted"
        /\ T("format") /\ ~T("mount") => Final[j] = "formatted"
        /\ T("create") /\ ~T("format") /\ ~T("mount") => Final[j] = "bare"
        /\ T("delete") => T("create")
        /\ (T("format") \/ T("mount")) /\ ~T("create") => j \in DOMAIN g
        /\ ~T("create") /\ ~T("format") /\ ~T("mount") => j \in DOMAIN g /\ g[j] = Final[j]
    BY <1>3, <2>1, <2>2
  <2> QED
    BY <2>3 DEF Due, T
<1>5. CASE j = i
  <2>1. /\ op = "delete" => ~T("delete")
        /\ op = "create" => ~T("delete") /\ ~T("create")
        /\ op = "format" => ~T("delete") /\ ~T("create") /\ ~T("format")
        /\ op = "mount" => ~T("delete") /\ ~T("create") /\ ~T("format") /\ ~T("mount")
    BY <1>2, <1>5 DEF Rank
  <2>2. /\ P("delete") <=> op = "delete" \/ T("delete")
        /\ P("create") <=> op = "create" \/ T("create")
        /\ P("format") <=> op = "format" \/ T("format")
        /\ P("mount") <=> op = "mount" \/ T("mount")
    BY <1>1, <1>5
  <2> HIDE DEF P, T
  <2>3. /\ T("mount") => Final[j] = "mounted"
        /\ T("format") /\ ~T("mount") => Final[j] = "formatted"
        /\ T("create") /\ ~T("format") /\ ~T("mount") => Final[j] = "bare"
        /\ T("delete") => T("create")
        /\ (T("format") \/ T("mount")) /\ ~T("create") => j \in DOMAIN g
        /\ ~T("create") /\ ~T("format") /\ ~T("mount") => j \in DOMAIN g /\ g[j] = Final[j]
    BY <1>3, <1>5, <2>1, <2>2
  <2> QED
    BY <2>3 DEF Due, T
<1> QED
  BY <1>4, <1>5

-------------------------------------------------------------------------------
(* The calls of the states.                                                 *)

LEMMA CreateOneMakes ==
  ASSUME NEW i \in Planned, Final[i] = "bare"
  PROVE  Makes(<<<<"create", i>>>>, {i})
<1> DEFINE c == <<"create", i>>
<1>1. c \in Calls
  BY ItemFacts DEF Calls
<1>2. \A x : Step(x, i) <=> x = c
  BY DEF Step
<1> HIDE DEF c
<1>3. <<c>> \in Seq(Calls) /\ Ordered(<<c>>) /\ \A x : Occurs(x, <<c>>) <=> x = c
  BY <1>1, SingleFacts
<1>4. \A x : Occurs(x, <<c>>) <=> \E j \in {i} : Step(x, j)
  BY <1>2, <1>3
<1> QED
  BY <1>3, <1>4 DEF Makes, c

LEMMA HeadsPlanned ==
  ASSUME NEW d \in Heads
  PROVE  d \in ToSet(Order) /\ <<d, 0>> \in Planned /\ Final[<<d, 0>>] = "bare"
BY OrderFacts, StorageAssumption DEF Planned

LEMMA RaidMakes ==
  ASSUME NEW r \in Raids
  PROVE  Makes(<<<<"create", <<r, 0>>>>>> \o CreatePartitions(r), {<<r, 0>>} \union Kid(r))
<1>1. r \in Heads
  BY DEF Heads
<1>2. Makes(<<<<"create", <<r, 0>>>>>>, {<<r, 0>>})
  BY <1>1, HeadsPlanned, CreateOneMakes
<1>3. Makes(CreatePartitions(r), Kid(r))
  BY <1>1, HeadsPlanned, CreatePartitionsMakes
<1>4. {<<r, 0>>} \intersect Kid(r) = {}
  BY <1>1, HeadsPlanned, OrderFacts DEF Kid
<1> QED
  BY <1>2, <1>3, <1>4, MakesConcat

LEMMA RepartitionFacts ==
  ASSUME DOMAIN have \subseteq Items, NEW d \in ToSet(Order)
  PROVE  LET c == Deletes(Partitions(d)) \o CreatePartitions(d) IN
         /\ c \in Seq(Calls) /\ Ordered(c)
         /\ \A x : Occurs(x, c) <=> \/ \E i \in Partitions(d) : x = <<"delete", i>>
                                    \/ \E i \in Kid(d) : Step(x, i)
<1> DEFINE s == Deletes(Partitions(d))
           t == CreatePartitions(d)
<1>1. Partitions(d) \subseteq Items
  BY DEF Partitions, Below
<1>2. /\ s \in Seq(Calls) /\ Ordered(s)
      /\ \A x : Occurs(x, s) <=> \E i \in Partitions(d) : x = <<"delete", i>>
  BY <1>1, DeletesFacts
<1>3. /\ t \in Seq(Calls) /\ Ordered(t)
      /\ \A x : Occurs(x, t) <=> \E i \in Kid(d) : Step(x, i)
  BY CreatePartitionsMakes DEF Makes
<1>4. \A x, i : Step(x, i) => Rank("delete") < Rank(x[1])
  BY DEF Step, Rank
<1>5. \A x, i : x = <<"delete", i>> => x[1] = "delete"
  OBVIOUS
<1> HIDE DEF s, t
<1>6. \A x, y : Occurs(x, s) /\ Occurs(y, t) => Rank(x[1]) < Rank(y[1])
  BY <1>2, <1>3, <1>4, <1>5
<1>7. s \o t \in Seq(Calls) /\ Ordered(s \o t)
  BY <1>2, <1>3, <1>6, OrderedConcat
<1>8. \A x : Occurs(x, s \o t) <=> Occurs(x, s) \/ Occurs(x, t)
  BY <1>2, <1>3, OccursConcat
<1>9. \A x : Occurs(x, s \o t) <=> \/ \E i \in Partitions(d) : x = <<"delete", i>>
                                   \/ \E i \in Kid(d) : Step(x, i)
  BY <1>2, <1>3, <1>8
<1> QED
  BY <1>7, <1>9 DEF s, t

\* drop_storage_schema takes down all there is.
LEMMA DropFacts ==
  ASSUME TypeOK, Sound
  PROVE  /\ DropSchema \in Seq(Calls)
         /\ \A x : Occurs(x, DropSchema) => x[1] = "delete"
         /\ \A i \in DOMAIN have :
              \/ Occurs(<<"delete", i>>, DropSchema)
              \/ Occurs(<<"delete", <<i[1], 0>>>>, DropSchema)
<1>1. DOMAIN have \subseteq Items
  BY DEF TypeOK
<1> DEFINE c == Cardinality(ListGroups)
           f == SetToSeq(ListGroups)
           seqs == [n \in 1 .. c |-> DropGroup(f[n])]
           P == UNION {Partitions(d) : d \in Disks}
           R == {<<r, 0>> : r \in ListRaids}
<1>2. IsFiniteSet(ListGroups)
  <2>1. IsFiniteSet(Groups) /\ IsFiniteSet({Root})
    BY StorageAssumption, FS_Singleton
  <2>2. IsFiniteSet(Groups \union {Root})
    BY <2>1, FS_Union
  <2>3. ListGroups \subseteq Groups \union {Root}
    BY DEF ListGroups
  <2> QED
    BY <2>2, <2>3, FS_Subset
<1>3. /\ c \in Nat /\ f \in [1 .. c -> ListGroups]
      /\ \A g \in ListGroups : \E n \in 1 .. c : f[n] = g
  BY <1>2, SetToSeqFacts
<1>4. ASSUME NEW g \in ListGroups
      PROVE  /\ DropGroup(g) \in Seq(Calls)
             /\ \A x : Occurs(x, DropGroup(g)) => x[1] = "delete"
             /\ Occurs(<<"delete", <<g, 0>>>>, DropGroup(g))
  <2> DEFINE s == Deletes(Below(g) \ {<<g, 0>>})
             y == <<"delete", <<g, 0>>>>
  <2>1. Below(g) \ {<<g, 0>>} \subseteq Items
    BY <1>1 DEF Below
  <2>2. s \in Seq(Calls) /\ \A x : Occurs(x, s) => x[1] = "delete"
    BY <2>1, DeletesFacts
  <2>3. y \in Calls
    BY <1>1 DEF ListGroups, Has, Calls
  <2>4. y[1] = "delete" /\ DropGroup(g) = s \o <<y>>
    BY DEF DropGroup
  <2>5. <<y>> \in Seq(Calls) /\ \A x : Occurs(x, <<y>>) <=> x = y
    <3> HIDE DEF y
    <3> QED
      BY <2>3, SingleFacts
  <2> HIDE DEF s
  <2>6. \A x : Occurs(x, s \o <<y>>) <=> Occurs(x, s) \/ Occurs(x, <<y>>)
    BY <2>2, <2>5, OccursConcat
  <2>7. s \o <<y>> \in Seq(Calls)
    BY <2>2, <2>5
  <2> QED
    BY <2>2, <2>4, <2>5, <2>6, <2>7
<1>5. /\ seqs \in [1 .. c -> Seq(Calls)]
      /\ \A n \in 1 .. c : seqs[n] = DropGroup(f[n]) /\ f[n] \in ListGroups
  BY <1>3, <1>4
<1>6. DropGroups = FlattenSeq(seqs)
  BY DEF DropGroups
<1> HIDE DEF c, f, seqs
<1>7. /\ FlattenSeq(seqs) \in Seq(Calls)
      /\ \A x : Occurs(x, FlattenSeq(seqs)) <=> \E n \in 1 .. c : Occurs(x, seqs[n])
  BY <1>3, <1>5, FlattenFacts
<1>8. /\ DropGroups \in Seq(Calls)
      /\ \A x : Occurs(x, DropGroups) => x[1] = "delete"
      /\ \A g \in ListGroups : Occurs(<<"delete", <<g, 0>>>>, DropGroups)
  <2>1. \A x : Occurs(x, DropGroups) <=> \E n \in 1 .. c : Occurs(x, DropGroup(f[n]))
    BY <1>5, <1>6, <1>7
  <2>2. \A g \in ListGroups : Occurs(<<"delete", <<g, 0>>>>, DropGroups)
    BY <1>3, <1>4, <2>1
  <2> QED
    <3>1. DropGroups \in Seq(Calls)
      BY <1>6, <1>7
    <3>2. ASSUME NEW x, Occurs(x, DropGroups)
          PROVE  x[1] = "delete"
      <4>1. PICK n \in 1 .. c : Occurs(x, DropGroup(f[n]))
        BY <2>1, <3>2
      <4>2. f[n] \in ListGroups
        BY <1>5
      <4> QED
        BY <1>4, <4>1, <4>2
    <3> QED
      BY <2>2, <3>1, <3>2
<1>9. R \subseteq Items
  BY <1>1 DEF ListRaids, Has
<1>10. /\ DropRaids \in Seq(Calls)
       /\ \A x : Occurs(x, DropRaids) <=> \E i \in R : x = <<"delete", i>>
  BY <1>9, DeletesFacts DEF DropRaids
<1>11. P \subseteq Items
  BY <1>1 DEF Partitions, Below
<1>12. /\ Deletes(P) \in Seq(Calls)
       /\ \A x : Occurs(x, Deletes(P)) <=> \E i \in P : x = <<"delete", i>>
  BY <1>11, DeletesFacts
<1>13. DropSchema = (DropGroups \o DropRaids) \o Deletes(P)
  BY DEF DropSchema
<1>14. \A i \in DOMAIN have :
         \/ i \in P
         \/ <<i[1], 0>> \in R
         \/ i[1] \in ListGroups
  <2> TAKE i \in DOMAIN have
  <2>1. i \in Items
    BY <1>1
  <2>2. CASE i[1] \in Disks
    <3>1. i[2] > 0
      BY <2>1, <2>2, ItemFacts
    <3> QED
      BY <2>2, <3>1 DEF Partitions, Below
  <2>3. CASE i[1] \notin Disks
    <3>1. Has(<<i[1], 0>>) /\ i[1] \in Heads \union {Root}
      BY <2>1, <2>3, ItemFacts DEF Sound
    <3> QED
      BY <3>1 DEF Heads, ListRaids, ListGroups
  <2> QED
    BY <2>2, <2>3
<1> HIDE DEF P, R
<1>15. /\ DropGroups \o DropRaids \in Seq(Calls)
       /\ \A x : Occurs(x, DropGroups \o DropRaids) <=> Occurs(x, DropGroups) \/ Occurs(x, DropRaids)
  BY <1>8, <1>10, OccursConcat, ConcatFacts
<1>16. /\ DropSchema \in Seq(Calls)
       /\ \A x : Occurs(x, DropSchema) <=>
            Occurs(x, DropGroups \o DropRaids) \/ Occurs(x, Deletes(P))
  BY <1>12, <1>13, <1>15, OccursConcat, ConcatFacts
<1>17. \A i : <<"delete", i>>[1] = "delete"
  OBVIOUS
<1>18. \A x : Occurs(x, DropSchema) => x[1] = "delete"
  BY <1>8, <1>10, <1>12, <1>15, <1>16, <1>17
<1>19. \A i \in DOMAIN have :
         \/ Occurs(<<"delete", i>>, DropSchema)
         \/ Occurs(<<"delete", <<i[1], 0>>>>, DropSchema)
  BY <1>8, <1>10, <1>12, <1>14, <1>15, <1>16
<1> QED
  BY <1>16, <1>18, <1>19

-------------------------------------------------------------------------------
(* The states of this attempt.                                              *)

LEMMA CurrentFacts ==
  ASSUME TypeOK, at <= Len(Plan)
  PROVE  /\ at \in 1 .. Len(Plan) /\ Current \in ToSet(Plan)
         /\ at = 1 => Current = <<"layout">> /\ Current[1] = "layout"
         /\ at = 2 => Current = <<"boot", BootDevice>> /\ Current[1] = "boot"
         /\ at # 1 /\ at # 2 => Current \in States
         /\ Current[1] = "layout" => at = 1
         /\ Current[1] = "boot" => at = 2
         /\ Current[1] \in {"disk", "raid", "group", "volume"} => Current \in States
<1>1. at \in 1 .. Len(Plan)
  BY PlanFacts DEF TypeOK
<1>2. at = 1 \/ at = 2 \/ Current \in States
  BY <1>1, PlanFacts DEF Current
<1>3. Current \in ToSet(Plan)
  BY <1>1, PlanFacts DEF Current
<1>4. /\ at = 1 => Current = <<"layout">> /\ Current[1] = "layout"
      /\ at = 2 => Current = <<"boot", BootDevice>> /\ Current[1] = "boot"
  BY PlanFacts DEF Current
<1>5. Current \in States => Current[1] \in {"disk", "raid", "group", "volume"}
  BY KindsOfStates
<1> QED
  BY <1>1, <1>2, <1>3, <1>4, <1>5

\* The state <<"layout">> is the first, and no other.
LEMMA LayoutFirst ==
  ASSUME NEW p \in 1 .. Len(Plan), Plan[p] = <<"layout">>
  PROVE  p = 1
<1>1. <<"layout">>[1] = "layout" /\ <<"boot", BootDevice>>[1] = "boot"
  OBVIOUS
<1>2. Plan[p] \notin States
  BY <1>1, KindsOfStates
<1> QED
  BY <1>1, <1>2, PlanFacts

LEMMA ItemsOfOthers ==
  ItemsOf(<<"layout">>) = {} /\ ItemsOf(<<"boot", BootDevice>>) = {}
BY DEF ItemsOf

LEMMA FirstFacts ==
  ASSUME at = 1
  PROVE  Succeeded = {} /\ ~Cleared
BY DEF Succeeded, Cleared

LEMMA ReturnFacts ==
  ASSUME TypeOK, Running, NEW ok \in BOOLEAN, Return(ok)
  PROVE  /\ at \in 1 .. Len(Plan) /\ at' = at + 1 /\ at' \in 1 .. Len(Plan) + 1
         /\ todo' = <<>> /\ failed' \subseteq ToSet(Plan)
         /\ UNCHANGED <<status, layout, tries, phase, runs>>
         /\ Succeeded' \subseteq Succeeded \union {Current}
         /\ ~ok => Current \notin Succeeded'
         /\ Succeeded' \intersect failed = {}
         /\ Current \in Begun' /\ Begun \subseteq Begun'
         /\ at # 1 /\ Cleared' => Cleared
<1>1. at \in 1 .. Len(Plan) /\ Current \in ToSet(Plan)
  BY CurrentFacts DEF Running
<1>2. /\ at' = at + 1 /\ todo' = <<>> /\ UNCHANGED <<status, layout, tries, phase, runs>>
      /\ failed' = IF ok THEN failed ELSE failed \union {Current}
  BY DEF Return, runVars
<1>3. Len(Plan) \in Nat /\ (at + 1) - 1 = at
  BY <1>1, PlanFacts
<1>4. failed \subseteq failed' /\ failed' \subseteq ToSet(Plan)
  BY <1>1, <1>2 DEF TypeOK
<1>5. \A p \in 1 .. at : p \in 1 .. at - 1 \/ p = at
  BY <1>1
<1>6. Succeeded' = {Plan[p] : p \in 1 .. at} \ failed'
  BY <1>2, <1>3 DEF Succeeded
<1>7. Begun' = {Plan[p] : p \in 1 .. at}
  BY <1>2, <1>3 DEF Begun
<1>8. Succeeded' \subseteq Succeeded \union {Current}
  BY <1>4, <1>5, <1>6 DEF Succeeded, Current
<1>9. (~ok => Current \notin Succeeded') /\ Succeeded' \intersect failed = {}
  BY <1>2, <1>4, <1>6
<1>10. Current \in Begun' /\ Begun \subseteq Begun'
  <2>1. Current \in Begun'
    BY <1>1, <1>7 DEF Current
  <2>2. 1 .. at - 1 \subseteq 1 .. at
    BY <1>1
  <2>3. {Plan[p] : p \in 1 .. at - 1} \subseteq Begun'
    BY <1>7, <2>2
  <2> QED
    BY <2>1, <2>3 DEF Begun
<1>11. at # 1 /\ Cleared' => Cleared
  <2> SUFFICES ASSUME at # 1, Cleared'
               PROVE  Cleared
    OBVIOUS
  <2>1. layout # "none" /\ <<"layout">> \in Succeeded'
    BY <1>2 DEF Cleared
  <2>2. Current # <<"layout">>
    BY <1>1, LayoutFirst DEF Current
  <2> QED
    BY <1>8, <2>1, <2>2 DEF Cleared
<1> QED
  BY <1>1, <1>2, <1>3, <1>4, <1>8, <1>9, <1>10, <1>11

LEMMA GoOnFacts ==
  ASSUME TypeOK, Running, NEW calls, calls # <<>>, Do(calls)
  PROVE  /\ at \in 1 .. Len(Plan) /\ todo' = calls
         /\ UNCHANGED <<at, failed, status, layout, tries, phase, runs>>
         /\ Succeeded' = Succeeded /\ Current' = Current /\ (Cleared' <=> Cleared)
         /\ Current \in Begun' /\ Begun \subseteq Begun'
<1>1. at \in 1 .. Len(Plan)
  BY CurrentFacts DEF Running
<1>2. todo' = calls /\ UNCHANGED <<at, failed, status, layout, tries, phase, runs>>
  BY DEF Do, runVars
<1>3. Succeeded' = Succeeded
  BY <1>2 DEF Succeeded
<1>4. Current' = Current
  BY <1>2 DEF Current
<1>5. Begun' = {Plan[p] : p \in 1 .. at - 1} \union {Current}
  BY <1>2 DEF Begun, Current
<1>6. Cleared' <=> Cleared
  BY <1>2, <1>3 DEF Cleared
<1> QED
  BY <1>1, <1>2, <1>3, <1>4, <1>5, <1>6 DEF Begun

-------------------------------------------------------------------------------
(* What a step leaves of what other states have achieved.                   *)

Steady(s) ==
  /\ s = <<"layout">> /\ DOMAIN have \subseteq Planned => DOMAIN have' \subseteq Planned
  /\ s = <<"boot", BootDevice>> => boot' = boot
  /\ \A i \in ItemsOf(s) : Has(i) => i \in DOMAIN have' /\ have'[i] = have[i]

\* The first partition of d, not one of a layout.
Own(d) == Has(<<d, 1>>) /\ have[<<d, 1>>] # "default"

LEMMA SteadyAchieved ==
  ASSUME NEW s, Achieved(s), Steady(s), layout' = layout, Cleared' => Cleared
  PROVE  Achieved(s)'
BY DEF Achieved, Steady, Laid, Has

LEMMA ReturnInv ==
  ASSUME Inv, Running, NEW ok \in BOOLEAN, Return(ok), NEW now, now = Current,
         status = "Ready" /\ at # 1 => \A s \in Succeeded : s # Current => Steady(s),
         status = "Ready" /\ ok /\ now \notin failed => Achieved(now)',
         status = "Ready" /\ Cleared' =>
           \A d \in Disks : Own(d)' => (at # 1 /\ Own(d)) \/ Current = <<"disk", d>>
  PROVE  Working' /\ Kept' /\ Fresh' /\ Ended'
<1>1. TypeOK /\ Kept /\ Fresh
  BY DEF Inv
<1>2. /\ at' = at + 1 /\ todo' = <<>>
      /\ UNCHANGED <<status, layout, tries, phase, runs>>
      /\ Succeeded' \subseteq Succeeded \union {Current}
      /\ ~ok => Current \notin Succeeded'
      /\ Succeeded' \intersect failed = {}
      /\ Current \in Begun' /\ Begun \subseteq Begun'
      /\ at # 1 /\ Cleared' => Cleared
  BY <1>1, ReturnFacts
<1>3. Working'
  BY <1>2 DEF Working
<1>4. Ended'
  BY <1>2 DEF Ended, Running
<1>5. Kept'
  <2> SUFFICES ASSUME status = "Ready", NEW s \in Succeeded'
               PROVE  Achieved(s)'
    BY <1>2 DEF Kept
  <2>1. CASE s = Current
    BY <1>2, <2>1
  <2>2. CASE s # Current
    <3>1. s \in Succeeded /\ at # 1
      BY <1>2, <2>2, FirstFacts
    <3>2. Achieved(s)
      BY <1>1, <2>2, <3>1 DEF Kept
    <3>3. Steady(s)
      BY <2>2, <3>1
    <3> QED
      BY <1>2, <3>1, <3>2, <3>3, SteadyAchieved
  <2> QED
    BY <2>1, <2>2
<1>6. Fresh'
  <2> SUFFICES ASSUME status = "Ready", Cleared', NEW d \in Disks, Own(d)'
               PROVE  <<"disk", d>> \in Begun'
    BY <1>2 DEF Fresh, Own
  <2>1. CASE Current = <<"disk", d>>
    BY <1>2, <2>1
  <2>2. CASE at # 1 /\ Own(d)
    <3>1. Cleared
      BY <1>2, <2>2
    <3> QED
      BY <1>1, <1>2, <2>2, <3>1 DEF Fresh, Own
  <2> QED
    BY <2>1, <2>2
<1> QED
  BY <1>3, <1>4, <1>5, <1>6

LEMMA GoOnInv ==
  ASSUME Inv, Running, NEW calls, calls # <<>>, Do(calls),
         status = "Ready" /\ at # 1 => \A s \in Succeeded : s # Current => Steady(s),
         status = "Ready" /\ Cleared =>
           \A d \in Disks : Own(d)' => Own(d) \/ Current = <<"disk", d>>
  PROVE  Kept' /\ Fresh' /\ Ended'
<1>1. TypeOK /\ Kept /\ Fresh
  BY DEF Inv
<1>2. /\ todo' = calls
      /\ UNCHANGED <<at, failed, status, layout, tries, phase, runs>>
      /\ Succeeded' = Succeeded /\ Current' = Current /\ (Cleared' <=> Cleared)
      /\ Current \in Begun' /\ Begun \subseteq Begun'
  BY <1>1, GoOnFacts
<1>3. Ended'
  BY <1>2 DEF Ended, Running
<1>4. Kept'
  <2> SUFFICES ASSUME status = "Ready", NEW s \in Succeeded', s # Current'
               PROVE  Achieved(s)'
    BY <1>2 DEF Kept
  <2>1. s \in Succeeded /\ at # 1 /\ s # Current
    BY <1>2, FirstFacts
  <2>2. Achieved(s)
    BY <1>1, <2>1 DEF Kept
  <2>3. Steady(s)
    BY <2>1
  <2> QED
    BY <1>2, <2>2, <2>3, SteadyAchieved
<1>5. Fresh'
  <2> SUFFICES ASSUME status = "Ready", Cleared', NEW d \in Disks, Own(d)'
               PROVE  <<"disk", d>> \in Begun'
    BY <1>2 DEF Fresh, Own
  <2>1. CASE Current = <<"disk", d>>
    BY <1>2, <2>1
  <2>2. CASE Own(d)
    BY <1>1, <1>2, <2>2 DEF Fresh, Own
  <2> QED
    BY <1>2, <2>1, <2>2
<1> QED
  BY <1>3, <1>4, <1>5

\* The machine stays as it is.
LEMMA IdleInv ==
  ASSUME Inv, Running, NEW ok \in BOOLEAN, Return(ok), UNCHANGED machineVars,
         faults' \in 0 .. MaxFaults, NEW now, now = Current,
         status = "Ready" /\ ok /\ now \notin failed => Achieved(now)',
         status = "Ready" /\ ok /\ at = 1 /\ layout # "none" => DOMAIN have = {}
  PROVE  Inv'
<1>1. TypeOK
  BY DEF Inv
<1>2. /\ at \in 1 .. Len(Plan) /\ at' = at + 1 /\ at' \in 1 .. Len(Plan) + 1
      /\ todo' = <<>> /\ failed' \subseteq ToSet(Plan)
      /\ UNCHANGED <<status, layout, tries, phase, runs>>
      /\ Succeeded' \subseteq Succeeded \union {Current}
      /\ ~ok => Current \notin Succeeded'
  BY <1>1, ReturnFacts
<1>3. have' = have /\ boot' = boot
  BY DEF machineVars
<1>4. TypeOK'
  BY <1>1, <1>2, <1>3 DEF TypeOK
<1>5. Sound'
  BY <1>3 DEF Inv, Sound, Has
<1>6. DeployedAsPlanned'
  BY <1>2, <1>3 DEF Inv, DeployedAsPlanned, Complete, Has
<1>7. \A s : Steady(s)
  BY <1>3 DEF Steady, Has
<1>8. status = "Ready" /\ Cleared' =>
        \A d \in Disks : Own(d)' => (at # 1 /\ Own(d)) \/ Current = <<"disk", d>>
  <2> SUFFICES ASSUME status = "Ready", Cleared', NEW d \in Disks, Own(d)'
               PROVE  at # 1 /\ Own(d)
    OBVIOUS
  <2>1. Own(d)
    BY <1>3 DEF Own, Has
  <2>2. CASE at = 1
    <3>1. Succeeded = {} /\ Current = <<"layout">>
      BY <1>1, <1>2, <2>2, FirstFacts, CurrentFacts
    <3>2. ok /\ layout # "none"
      BY <1>2, <3>1 DEF Cleared
    <3>3. DOMAIN have = {}
      BY <2>2, <3>2
    <3> QED
      BY <2>1, <3>3 DEF Own, Has
  <2> QED
    BY <2>1, <2>2
<1>9. Working' /\ Kept' /\ Fresh' /\ Ended'
  BY <1>7, <1>8, ReturnInv
<1> QED
  BY <1>4, <1>5, <1>6, <1>9 DEF Inv

LEMMA BusyInv ==
  ASSUME Inv, Running, NEW calls \in Seq(Calls), calls # <<>>, Do(calls),
         UNCHANGED <<have, boot, faults>>, Working'
  PROVE  Inv'
<1>1. TypeOK
  BY DEF Inv
<1>2. /\ at \in 1 .. Len(Plan) /\ todo' = calls
      /\ UNCHANGED <<at, failed, status, layout, tries, phase, runs>>
  BY <1>1, GoOnFacts
<1>3. have' = have /\ boot' = boot /\ faults' = faults
  OBVIOUS
<1>4. TypeOK'
  BY <1>1, <1>2, <1>3 DEF TypeOK
<1>5. Sound'
  BY <1>3 DEF Inv, Sound, Has
<1>6. DeployedAsPlanned'
  BY <1>2, <1>3 DEF Inv, DeployedAsPlanned, Complete, Has
<1>7. \A s : Steady(s)
  BY <1>3 DEF Steady, Has
<1>8. \A d \in Disks : Own(d)' => Own(d)
  BY <1>3 DEF Own, Has
<1>9. Kept' /\ Fresh' /\ Ended'
  BY <1>7, <1>8, GoOnInv
<1> QED
  BY <1>4, <1>5, <1>6, <1>9 DEF Inv

LEMMA MakesWorking ==
  ASSUME TypeOK, Running, status = "Ready", Current \in States,
         NEW calls \in Seq(Calls), calls # <<>>, Do(calls), Ordered(calls),
         NEW D, D = {} \/ Current[1] = "disk", \A i \in D : i[1] = Current[2] /\ i[2] > 0,
         \A x : Occurs(x, calls) <=> \/ \E i \in D : x = <<"delete", i>>
                                     \/ \E i \in ItemsOf(Current) : Step(x, i)
  PROVE  Working'
<1>1. /\ at \in 1 .. Len(Plan) /\ todo' = calls /\ Current' = Current
      /\ UNCHANGED <<at, failed, status, layout, tries, phase, runs>>
  BY GoOnFacts
<1>2. Current[1] \in {"disk", "raid", "group", "volume"}
  BY KindsOfStates
<1>3. ItemsOf(Current) \subseteq Planned
  BY ItemsOfStates
<1> DEFINE now == Current
<1> HIDE DEF now
<1>4. now = Current /\ now = Current'
  BY <1>1 DEF now
<1>5. \A i \in ItemsOf(now) : Due(calls, have', i)
  BY <1>3, <1>4, DueBegin
<1>6. ASSUME NEW x, Occurs(x, calls)
      PROVE  \/ x[1] \in {"create", "format", "mount"} /\ x[2] \in ItemsOf(now)
             \/ x[1] = "delete" /\ now[1] = "disk" /\ x[2][1] = now[2] /\ x[2][2] > 0
  <2>1. CASE \E i \in D : x = <<"delete", i>>
    BY <1>4, <2>1
  <2>2. CASE \E i \in ItemsOf(Current) : Step(x, i)
    BY <1>4, <2>2 DEF Step
  <2> QED
    BY <1>6, <2>1, <2>2
<1>7. MakesItems'
  <2>1. Current'[1] \in {"disk", "raid", "group", "volume"} /\ Ordered(todo')
    BY <1>1, <1>2
  <2>2. \A i \in ItemsOf(Current') : Due(todo', have', i)
    BY <1>1, <1>4, <1>5
  <2>3. \A x : Occurs(x, todo') =>
          \/ x[1] \in {"create", "format", "mount"} /\ x[2] \in ItemsOf(Current')
          \/ x[1] = "delete" /\ Current'[1] = "disk" /\ x[2][1] = Current'[2] /\ x[2][2] > 0
    BY <1>1, <1>4, <1>6
  <2> QED
    BY <2>1, <2>2, <2>3 DEF MakesItems
<1>8. phase' = "running" /\ at' <= Len(Plan) /\ status' = "Ready"
  BY <1>1 DEF Running
<1> QED
  BY <1>7, <1>8 DEF Working

-------------------------------------------------------------------------------
(* The states look at the machine.                                          *)

LEMMA DiskLayoutPresentInv ==
  ASSUME Inv, DiskLayoutPresent
  PROVE  Inv'
<1>1. /\ Running /\ todo = <<>> /\ Current[1] = "layout" /\ UNCHANGED <<machineVars, faults>>
      /\ IF status # "Ready" THEN Return(TRUE) ELSE Do(UpdateLayout)
  BY DEF DiskLayoutPresent, Begin
<1>2. TypeOK /\ Sound
  BY DEF Inv
<1>3. /\ at = 1 /\ Current = <<"layout">> /\ UNCHANGED <<have, boot, faults>>
      /\ faults' \in 0 .. MaxFaults /\ DOMAIN have \subseteq Items
  BY <1>1, <1>2, CurrentFacts DEF Running, machineVars, TypeOK
<1>4. CASE status # "Ready"
  BY <1>1, <1>3, <1>4, IdleInv
<1>5. CASE status = "Ready" /\ layout = "none"
  <2>1. Return(TRUE)
    BY <1>1, <1>5 DEF UpdateLayout, Do
  <2>2. layout' = layout
    BY <1>1, <1>2, <2>1, ReturnFacts
  <2>3. Achieved(<<"layout">>)'
    BY <1>5, <2>2, ItemsOfOthers DEF Achieved
  <2> QED
    BY <1>1, <1>3, <1>5, <2>1, <2>3, IdleInv
<1>6. CASE status = "Ready" /\ layout = "custom"
  <2>1. /\ UpdateLayout = DropSchema /\ DropSchema \in Seq(Calls)
        /\ \A x : Occurs(x, DropSchema) => x[1] = "delete"
        /\ \A i \in DOMAIN have :
             \/ Occurs(<<"delete", i>>, DropSchema)
             \/ Occurs(<<"delete", <<i[1], 0>>>>, DropSchema)
    BY <1>2, <1>6, DropFacts DEF UpdateLayout
  <2>2. CASE DropSchema = <<>>
    <3>1. Return(TRUE)
      BY <1>1, <1>6, <2>1, <2>2 DEF Do
    <3>2. DOMAIN have = {}
      BY <2>1, <2>2, EmptyFacts
    <3>3. Achieved(<<"layout">>)'
      BY <1>3, <3>2, ItemsOfOthers DEF Achieved
    <3> QED
      BY <1>1, <1>3, <3>1, <3>2, <3>3, IdleInv
  <2>3. CASE DropSchema # <<>>
    <3>1. Do(DropSchema)
      BY <1>1, <1>6, <2>1
    <3>2. /\ todo' = DropSchema /\ Current' = Current
          /\ UNCHANGED <<at, failed, status, layout, tries, phase, runs>>
      BY <1>1, <1>2, <2>3, <3>1, GoOnFacts
    <3>3. DropsAll'
      BY <1>3, <1>6, <2>1, <3>2 DEF DropsAll
    <3>4. Working'
      BY <1>1, <1>6, <3>2, <3>3 DEF Working, Running
    <3> QED
      BY <1>1, <1>3, <2>1, <2>3, <3>1, <3>4, BusyInv
  <2> QED
    BY <2>2, <2>3
<1>7. CASE status = "Ready" /\ layout \in {"flat", "lvm"}
  <2> DEFINE c == <<"layout", layout>>
  <2>1. UpdateLayout = <<c>>
    BY <1>7 DEF UpdateLayout
  <2>2. c \in Calls
    BY <1>7 DEF Calls
  <2>3. <<c>> \in Seq(Calls) /\ <<c>> # <<>>
    <3> HIDE DEF c
    <3> QED
      BY <2>2
  <2>4. Do(<<c>>)
    BY <1>1, <1>7, <2>1
  <2>5. /\ todo' = <<c>> /\ Current' = Current
        /\ UNCHANGED <<at, failed, status, layout, tries, phase, runs>>
    <3> HIDE DEF c
    <3> QED
      BY <1>1, <1>2, <2>3, <2>4, GoOnFacts
  <2>6. Working'
    BY <1>1, <1>3, <1>7, <2>5 DEF Working, Running
  <2> HIDE DEF c
  <2> QED
    BY <1>1, <1>3, <2>3, <2>4, <2>6, BusyInv
<1>8. layout \in {"none", "flat", "lvm", "custom"}
  BY <1>2, StorageAssumption DEF TypeOK
<1> QED
  BY <1>4, <1>5, <1>6, <1>7, <1>8

LEMMA SelectBootDiskInv ==
  ASSUME Inv, SelectBootDisk
  PROVE  Inv'
<1>1. /\ Running /\ todo = <<>> /\ Current[1] = "boot" /\ UNCHANGED <<machineVars, faults>>
      /\ IF status # "Ready" THEN Return(TRUE) ELSE Do(SetBootDisk)
  BY DEF SelectBootDisk, Begin
<1>2. TypeOK
  BY DEF Inv
<1>3. /\ at = 2 /\ Current = <<"boot", BootDevice>> /\ UNCHANGED <<have, boot, faults>>
      /\ faults' \in 0 .. MaxFaults
  BY <1>1, <1>2, CurrentFacts DEF Running, machineVars, TypeOK
<1>4. CASE status # "Ready"
  BY <1>1, <1>3, <1>4, IdleInv
<1>5. CASE status = "Ready"
  <2> DEFINE c == <<"boot", BootDevice>>
  <2>1. SetBootDisk = <<c>> /\ c \in Calls
    BY DEF SetBootDisk, Calls
  <2>2. Do(<<c>>) /\ Current = c
    BY <1>1, <1>3, <1>5, <2>1
  <2> HIDE DEF c
  <2>3. <<c>> \in Seq(Calls) /\ <<c>> # <<>>
    BY <2>1
  <2>4. /\ todo' = <<c>> /\ Current' = Current
        /\ UNCHANGED <<at, failed, status, layout, tries, phase, runs>>
    BY <1>1, <1>2, <2>2, <2>3, GoOnFacts
  <2>5. Working'
    BY <1>1, <1>3, <1>5, <2>2, <2>4 DEF Working, Running, c
  <2> QED
    BY <1>1, <1>3, <2>2, <2>3, <2>5, BusyInv
<1> QED
  BY <1>4, <1>5

\* As many partitions as the schema has, the first of the right size.
LEMMA SchemaFacts ==
  ASSUME TypeOK, Sound, NEW d \in Disks, d \in ToSet(Order), LooksLikeSchema(d)
  PROVE  /\ \A i \in Kid(d) : Has(i) /\ have[i] # "default"
         /\ Kid(d) # {} => Own(d)
<1> DEFINE n == Kids[d]
<1>1. n \in Nat
  BY OrderFacts
<1>2. CASE n = 0
  BY <1>2 DEF Kid
<1>3. CASE n # 0
  <2>1. <<d, 1>> \in Kid(d)
    BY <1>1, <1>3 DEF Kid
  <2>2. Partitions(d) \subseteq Kid(d)
    <3> SUFFICES ASSUME NEW i \in Partitions(d)
                 PROVE  i \in Kid(d)
      OBVIOUS
    <3>1. i \in Items /\ i[1] = d /\ i[2] > 0
      BY DEF Partitions, Below, TypeOK
    <3>2. i = <<d, i[2]>> /\ (i[2] # 1 => i \in Planned)
      BY <3>1, ItemFacts
    <3>3. CASE i[2] = 1
      BY <2>1, <3>2, <3>3
    <3>4. CASE i \in Planned
      <4>1. PICK e \in ToSet(Order) : i \in Kid(e)
        BY <3>1, <3>4 DEF Planned
      <4>2. e = d
        BY <3>1, <4>1 DEF Kid
      <4> QED
        BY <4>1, <4>2
    <3> QED
      BY <3>2, <3>3, <3>4
  <2>3. IsFiniteSet(Kid(d)) /\ Cardinality(Kid(d)) = n
    <3> DEFINE f == [k \in 1 .. n |-> <<d, k>>]
    <3>1. f \in Bijection(1 .. n, Kid(d))
      BY DEF Bijection, Injection, Surjection, IsInjective, Kid
    <3>2. ExistsBijection(1 .. n, Kid(d))
      BY <3>1 DEF ExistsBijection
    <3> HIDE DEF n
    <3> QED
      BY <1>1, <3>2, FS_CountingElements, KidFinite
  <2>4. Cardinality(Partitions(d)) = n /\ Has(<<d, 1>>) /\ have[<<d, 1>>] # "default"
    BY <1>1, <1>3 DEF LooksLikeSchema
  <2>5. Partitions(d) = Kid(d)
    <3> HIDE DEF n
    <3> QED
      BY <2>2, <2>3, <2>4, FS_Subset
  <2>6. \A i \in Kid(d) : Has(i) /\ i = <<d, i[2]>>
    BY <2>5 DEF Partitions, Below, Has, Kid
  <2>7. \A i \in Kid(d) : have[i] = "default" => i[2] = 1
    BY <2>6 DEF Sound, Has
  <2>8. \A i \in Kid(d) : have[i] # "default"
    BY <2>4, <2>6, <2>7
  <2> QED
    BY <2>4, <2>6, <2>8 DEF Own
<1> QED
  BY <1>2, <1>3

LEMMA DiskPartitionPresentInv ==
  ASSUME Inv, DiskPartitionPresent
  PROVE  Inv'
<1>1. /\ Running /\ todo = <<>> /\ Current[1] = "disk" /\ UNCHANGED <<machineVars, faults>>
      /\ IF status # "Ready" THEN Return(TRUE) ELSE Do(Repartition(Current[2]))
  BY DEF DiskPartitionPresent, Begin
<1>2. TypeOK /\ Sound /\ Kept /\ Fresh
  BY DEF Inv
<1>3. /\ at # 1 /\ Current \in States /\ at \in 1 .. Len(Plan)
      /\ UNCHANGED <<have, boot, faults>>
      /\ faults' \in 0 .. MaxFaults /\ DOMAIN have \subseteq Items
  <2>1. Current[1] # "layout"
    BY <1>1
  <2> QED
    BY <1>1, <1>2, <2>1, CurrentFacts DEF Running, machineVars, TypeOK
<1> DEFINE d == Current[2]
           c == Deletes(Partitions(d)) \o CreatePartitions(d)
<1>4. Current = <<"disk", d>> /\ d \in Disks /\ d \in ToSet(Order) /\ ItemsOf(Current) = Kid(d)
  BY <1>1, <1>3, KindsOfStates DEF ItemsOf
<1>5. CASE status # "Ready"
  BY <1>1, <1>3, <1>5, IdleInv
<1>6. CASE status = "Ready" /\ LooksLikeSchema(d)
  <2>1. Return(TRUE)
    BY <1>1, <1>6 DEF Repartition, Do
  <2>2. layout' = layout /\ (Cleared' => Cleared)
    BY <1>1, <1>2, <1>3, <2>1, ReturnFacts
  <2>3. /\ \A i \in Kid(d) : Has(i) /\ have[i] # "default"
        /\ Kid(d) # {} => Own(d)
    BY <1>2, <1>4, <1>6, SchemaFacts
  <2> DEFINE now == Current
  <2>4. ASSUME now \notin failed, Cleared, NEW i \in Kid(d)
        PROVE  have[i] = Final[i]
    <3>1. now \in Begun
      BY <1>2, <1>4, <1>6, <2>3, <2>4 DEF Fresh, Own
    <3>2. now \in Succeeded
      BY <1>1, <2>4, <3>1 DEF Begun, Succeeded
    <3>3. Achieved(now)
      BY <1>1, <1>2, <1>6, <3>2 DEF Kept
    <3> QED
      BY <1>4, <2>4, <3>3 DEF Achieved, Laid
  <2> HIDE DEF now
  <2>5. now = Current
    BY DEF now
  <2>6. ASSUME now \notin failed, NEW i \in ItemsOf(now)
        PROVE  Laid(i)'
    BY <1>3, <1>4, <2>2, <2>3, <2>4, <2>5, <2>6 DEF Laid, Has
  <2>7. now # <<"layout">> /\ now # <<"boot", BootDevice>>
    BY <1>4, <2>5
  <2>8. ASSUME NEW e, e = now, e \notin failed
        PROVE  Achieved(e)'
    BY <2>6, <2>7, <2>8 DEF Achieved
  <2> QED
    BY <1>1, <1>3, <2>1, <2>5, <2>8, IdleInv
<1>7. CASE status = "Ready" /\ ~LooksLikeSchema(d)
  <2>1. Repartition(d) = c /\ Do(c)
    BY <1>1, <1>7 DEF Repartition
  <2>2. /\ c \in Seq(Calls) /\ Ordered(c)
        /\ \A x : Occurs(x, c) <=> \/ \E i \in Partitions(d) : x = <<"delete", i>>
                                   \/ \E i \in Kid(d) : Step(x, i)
    BY <1>3, <1>4, RepartitionFacts
  <2>3. \A i \in Partitions(d) : i[1] = d /\ i[2] > 0
    BY DEF Partitions, Below
  <2> HIDE DEF c
  <2>4. CASE c = <<>>
    <3>1. Return(TRUE)
      BY <2>1, <2>4 DEF Do
    <3>2. Kid(d) = {}
      BY <2>2, <2>4, EmptyFacts DEF Step
    <3>3. ASSUME NEW e, e = Current
          PROVE  Achieved(e)'
      BY <1>4, <3>2, <3>3 DEF Achieved
    <3> QED
      BY <1>1, <1>3, <3>1, <3>3, IdleInv
  <2>5. CASE c # <<>>
    <3>1. Working'
      BY <1>1, <1>2, <1>3, <1>4, <1>7, <2>1, <2>2, <2>3, <2>5, MakesWorking
    <3> QED
      BY <1>1, <1>3, <2>1, <2>2, <2>5, <3>1, BusyInv
  <2> QED
    BY <2>4, <2>5
<1> QED
  BY <1>5, <1>6, <1>7

\* A state begins to make its items, or its requirements are not there.
LEMMA MakeInv ==
  ASSUME Inv, Running, todo = <<>>, status = "Ready", Current \in States,
         UNCHANGED <<machineVars, faults>>,
         NEW calls, calls # <<>>, Makes(calls, ItemsOf(Current)), Do(calls)
  PROVE  Inv'
<1>1. TypeOK
  BY DEF Inv
<1>2. /\ calls \in Seq(Calls) /\ Ordered(calls)
      /\ \A x : Occurs(x, calls) <=> \E i \in ItemsOf(Current) : Step(x, i)
  BY DEF Makes
<1> DEFINE D == {}
<1>3. D = {} /\ (\A i \in D : i[1] = Current[2] /\ i[2] > 0)
  OBVIOUS
<1>4. \A x : Occurs(x, calls) <=> \/ \E i \in D : x = <<"delete", i>>
                                  \/ \E i \in ItemsOf(Current) : Step(x, i)
  BY <1>2, <1>3
<1> HIDE DEF D
<1>5. Working'
  BY <1>1, <1>2, <1>3, <1>4, MakesWorking
<1>6. UNCHANGED <<have, boot, faults>>
  BY DEF machineVars
<1> QED
  BY <1>2, <1>5, <1>6, BusyInv

LEMMA NotReadyInv ==
  ASSUME Inv, Running, UNCHANGED <<machineVars, faults>>,
         \/ status # "Ready" /\ Return(TRUE)
         \/ Return(FALSE)
  PROVE  Inv'
<1>1. faults' \in 0 .. MaxFaults
  BY DEF Inv, TypeOK
<1>2. CASE status # "Ready" /\ Return(TRUE)
  BY <1>1, <1>2, IdleInv
<1>3. CASE Return(FALSE)
  BY <1>1, <1>3, IdleInv
<1> QED
  BY <1>2, <1>3

LEMMA CreateNotEmpty ==
  ASSUME NEW x, NEW s \in Seq(Calls)
  PROVE  <<x>> \o s # <<>>
OBVIOUS

LEMMA RaidPresentInv ==
  ASSUME Inv, RaidPresent
  PROVE  Inv'
<1> DEFINE r == Current[2]
           c == <<<<"create", <<r, 0>>>>>> \o CreatePartitions(r)
<1>1. /\ Running /\ todo = <<>> /\ Current[1] = "raid" /\ UNCHANGED <<machineVars, faults>>
      /\ IF status # "Ready" THEN Return(TRUE) ELSE IF MembersFound(r) THEN Do(c) ELSE Return(FALSE)
  BY DEF RaidPresent, Begin
<1>2. Current \in States
  BY <1>1, CurrentFacts DEF Inv, Running
<1>3. r \in Raids /\ ItemsOf(Current) = {<<r, 0>>} \union Kid(r)
  BY <1>1, <1>2, KindsOfStates DEF ItemsOf
<1>4. Makes(c, {<<r, 0>>} \union Kid(r))
  BY <1>3, RaidMakes
<1>5. c # <<>>
  <2>1. r \in ToSet(Order)
    BY <1>3, HeadsPlanned DEF Heads
  <2>2. CreatePartitions(r) \in Seq(Calls)
    BY <2>1, CreatePartitionsMakes DEF Makes
  <2> QED
    BY <2>2, CreateNotEmpty
<1> HIDE DEF c
<1>6. CASE status = "Ready" /\ MembersFound(r)
  BY <1>1, <1>2, <1>3, <1>4, <1>5, <1>6, MakeInv
<1>7. CASE ~(status = "Ready" /\ MembersFound(r))
  BY <1>1, <1>7, NotReadyInv
<1> QED
  BY <1>6, <1>7

LEMMA VolumeGroupPresentInv ==
  ASSUME Inv, VolumeGroupPresent
  PROVE  Inv'
<1> DEFINE g == <<Current[2], 0>>
           c == <<<<"create", g>>>>
           fit == Has(g) \/ MembersFit(g[1])
<1>1. /\ Running /\ todo = <<>> /\ Current[1] = "group" /\ UNCHANGED <<machineVars, faults>>
      /\ IF status # "Ready" THEN Return(TRUE)
         ELSE IF fit THEN Do(IF Has(g) THEN <<>> ELSE c) ELSE Return(FALSE)
  BY DEF VolumeGroupPresent, Begin
<1>2. Current \in States /\ at # 1 /\ faults' \in 0 .. MaxFaults
  <2>1. Current[1] # "layout"
    BY <1>1
  <2> QED
    BY <1>1, <2>1, CurrentFacts DEF Inv, Running, TypeOK
<1>3. Current[2] \in Groups /\ ItemsOf(Current) = {g} /\ g \in Planned /\ Final[g] = "bare"
  BY <1>1, <1>2, KindsOfStates, HeadsPlanned DEF ItemsOf, Heads
<1>4. Makes(c, {g}) /\ c # <<>>
  BY <1>3, CreateOneMakes
<1>5. CASE status = "Ready" /\ Has(g)
  <2>1. Return(TRUE)
    BY <1>1, <1>5 DEF Do
  <2>2. have[g] = "bare" /\ have' = have
    BY <1>1, <1>5 DEF Inv, Sound, Has, machineVars
  <2>3. ASSUME NEW e, e = Current
        PROVE  Achieved(e)'
    <3>1. e # <<"layout">> /\ e # <<"boot", BootDevice>>
      BY <1>1, <2>3
    <3>2. \A i \in ItemsOf(e) : i = g
      BY <1>3, <2>3
    <3>3. \A i \in ItemsOf(e) : Laid(i)'
      BY <1>3, <1>5, <2>2, <3>2 DEF Laid, Has
    <3> QED
      BY <3>1, <3>3 DEF Achieved
  <2> QED
    BY <1>1, <1>2, <2>1, <2>3, IdleInv
<1> HIDE DEF c
<1>6. CASE status = "Ready" /\ ~Has(g) /\ MembersFit(g[1])
  BY <1>1, <1>2, <1>3, <1>4, <1>6, MakeInv
<1>7. CASE ~(status = "Ready" /\ fit)
  BY <1>1, <1>7, NotReadyInv
<1> QED
  BY <1>5, <1>6, <1>7

LEMMA VolumePresentInv ==
  ASSUME Inv, VolumePresent
  PROVE  Inv'
<1> DEFINE i == <<Current[2], Current[3]>>
           c == CreateVolume(i)
           found == Has(<<Current[2], 0>>)
<1>1. /\ Running /\ todo = <<>> /\ Current[1] = "volume" /\ UNCHANGED <<machineVars, faults>>
      /\ IF status # "Ready" THEN Return(TRUE) ELSE IF found THEN Do(c) ELSE Return(FALSE)
  BY DEF VolumePresent, Begin
<1>2. Current \in States
  BY <1>1, CurrentFacts DEF Inv, Running
<1>3. ItemsOf(Current) = {i} /\ i \in Planned
  <2>1. ItemsOf(Current) = {i}
    BY <1>1 DEF ItemsOf
  <2> QED
    BY <1>2, <2>1, ItemsOfStates
<1>4. Makes(c, {i})
  BY <1>3, CreateMakes DEF CreateVolume
<1>5. c # <<>>
  <2>1. Occurs(<<"create", i>>, c)
    BY <1>4 DEF Makes, Step
  <2> HIDE DEF c
  <2> QED
    BY <2>1, EmptyFacts
<1> HIDE DEF c
<1>6. CASE status = "Ready" /\ found
  BY <1>1, <1>2, <1>3, <1>4, <1>5, <1>6, MakeInv
<1>7. CASE ~(status = "Ready" /\ found)
  BY <1>1, <1>7, NotReadyInv
<1> QED
  BY <1>6, <1>7

-------------------------------------------------------------------------------
(* MaaS obeys a call.                                                       *)

LEMMA CallShape ==
  ASSUME NEW c \in Calls
  PROVE  /\ c = <<c[1], c[2]>>
         /\ c[1] \in {"create", "format", "mount", "delete", "layout", "boot"}
         /\ c[1] \in {"create", "format", "mount", "delete"} => c[2] \in Items
         /\ c[1] = "layout" => c[2] \in {"flat", "lvm"}
         /\ c[1] = "boot" => c[2] = BootDevice
BY DEF Calls

LEMMA ObeyedItem ==
  ASSUME NEW c \in Calls, Obeyed(c), NEW op, op = c[1], NEW i, i = c[2],
         op \in {"create", "format", "mount", "delete"}, op = "delete" => i[2] # 0
  PROVE  /\ boot' = boot
         /\ op = "delete" => DOMAIN have' = DOMAIN have \ {i}
         /\ op = "create" => DOMAIN have' = DOMAIN have \union {i} /\ have'[i] = "bare"
         /\ op \in {"format", "mount"} => DOMAIN have' = DOMAIN have
         /\ op = "format" /\ i \in DOMAIN have => have'[i] = "formatted"
         /\ op = "mount" /\ i \in DOMAIN have => have'[i] = "mounted"
         /\ \A j \in DOMAIN have : j # i => have'[j] = have[j]
<1>1. boot' = boot
  BY DEF Obeyed
<1>2. CASE op = "delete"
  <2>1. have' = Restrict(have, DOMAIN have \ {i})
    BY <1>2 DEF Obeyed
  <2>2. \A j \in DOMAIN have \ {i} : have'[j] = have[j]
    BY <2>1 DEF Restrict
  <2>3. DOMAIN have' = DOMAIN have \ {i}
    BY <2>1 DEF Restrict
  <2> QED
    BY <1>1, <1>2, <2>2, <2>3
<1>3. CASE op = "create"
  <2>1. have' = [j \in DOMAIN have \union {i} |-> IF j = i THEN "bare" ELSE have[j]]
    BY <1>3 DEF Obeyed
  <2> QED
    BY <1>1, <1>3, <2>1
<1>4. CASE op = "format"
  <2>1. have' = [have EXCEPT ![i] = "formatted"]
    BY <1>4 DEF Obeyed
  <2> QED
    BY <1>1, <1>4, <2>1
<1>5. CASE op = "mount"
  <2>1. have' = [have EXCEPT ![i] = "mounted"]
    BY <1>5 DEF Obeyed
  <2> QED
    BY <1>1, <1>5, <2>1
<1> QED
  BY <1>2, <1>3, <1>4, <1>5

\* A call of a state that makes its items.
LEMMA MakesEffect ==
  ASSUME TypeOK, Sound, todo # <<>>, at <= Len(Plan), MakesItems,
         Allowed(Head(todo)), Obeyed(Head(todo))
  PROVE  /\ DOMAIN have' \subseteq Items /\ boot' = boot
         /\ \A j \in DOMAIN have' : have'[j] \in {"bare", "formatted", "mounted", "default"}
         /\ Sound'
         /\ \A s \in ToSet(Plan) : s # Current => Steady(s)
         /\ \A d \in Disks : Own(d)' => Own(d) \/ Current = <<"disk", d>>
         /\ \A j \in ItemsOf(Current) : Due(Tail(todo), have', j)
<1> DEFINE c == Head(todo)
           op == c[1]
           i == c[2]
<1>1. /\ todo \in Seq(Calls) /\ DOMAIN have \subseteq Items
      /\ \A j \in DOMAIN have : have[j] \in {"bare", "formatted", "mounted", "default"}
  BY DEF TypeOK
<1>2. c \in Calls /\ Occurs(c, todo)
  BY <1>1, TailFacts
<1>3. Current \in States /\ Current # <<"layout">> /\ Current # <<"boot", BootDevice>>
  <2>1. Current \in States
    BY CurrentFacts DEF MakesItems
  <2> QED
    BY <2>1 DEF MakesItems
<1>4. \/ op \in {"create", "format", "mount"} /\ i \in ItemsOf(Current)
      \/ op = "delete" /\ Current[1] = "disk" /\ i[1] = Current[2] /\ i[2] > 0
  BY <1>2 DEF MakesItems
<1>5. /\ op \in {"create", "format", "mount", "delete"} /\ c = <<op, i>> /\ i \in Items
      /\ op = "delete" => i[2] # 0
  <2>1. op \in {"create", "format", "mount", "delete"}
    BY <1>4
  <2>2. c = <<op, i>> /\ i \in Items
    BY <1>2, <2>1, CallShape
  <2>3. i[2] \in Nat
    BY <2>2, ItemFacts
  <2> QED
    BY <1>4, <2>1, <2>2, <2>3
<1> HIDE DEF c, op, i
<1>6. /\ boot' = boot
      /\ op = "delete" => DOMAIN have' = DOMAIN have \ {i}
      /\ op = "create" => DOMAIN have' = DOMAIN have \union {i} /\ have'[i] = "bare"
      /\ op \in {"format", "mount"} => DOMAIN have' = DOMAIN have
      /\ op = "format" /\ i \in DOMAIN have => have'[i] = "formatted"
      /\ op = "mount" /\ i \in DOMAIN have => have'[i] = "mounted"
      /\ \A j \in DOMAIN have : j # i => have'[j] = have[j]
  <2>1. Obeyed(c) /\ op = c[1] /\ i = c[2]
    BY DEF c, op, i
  <2> QED
    BY <1>2, <1>5, <2>1, ObeyedItem
<1>7. /\ DOMAIN have' \subseteq DOMAIN have \union {i}
      /\ op # "create" => DOMAIN have' \subseteq DOMAIN have
  BY <1>5, <1>6
<1>8. \A j \in DOMAIN have' :
        /\ j # i => j \in DOMAIN have /\ have'[j] = have[j]
        /\ j = i => have'[j] \in {"bare", "formatted", "mounted"} /\ op # "delete"
  BY <1>5, <1>6, <1>7
<1>9. DOMAIN have' \subseteq Items
  BY <1>1, <1>5, <1>7
<1>10. \A j \in DOMAIN have' : have'[j] \in {"bare", "formatted", "mounted", "default"}
  BY <1>1, <1>8
<1>11. \A j : j # i /\ j \in DOMAIN have => j \in DOMAIN have' /\ have'[j] = have[j]
  BY <1>5, <1>6
<1>12. \A j \in ItemsOf(Current) : Due(Tail(todo), have', j)
  <2>1. Ordered(todo) /\ \A j \in ItemsOf(Current) : Due(todo, have, j)
    BY DEF MakesItems
  <2>2. Head(todo) = <<op, i>>
    BY <1>5 DEF c
  <2> QED
    BY <1>1, <1>5, <1>6, <2>1, <2>2, DueCall
<1>13. \A s \in ToSet(Plan) : s # Current => Steady(s)
  <2> SUFFICES ASSUME NEW s \in ToSet(Plan), s # Current
               PROVE  Steady(s)
    OBVIOUS
  <2>1. DOMAIN have \subseteq Planned => DOMAIN have' \subseteq Planned
    <3>1. op = "create" => i \in Planned
      BY <1>3, <1>4, ItemsOfStates
    <3> QED
      BY <1>7, <3>1
  <2>2. ASSUME NEW j \in ItemsOf(s)
        PROVE  j # i
    <3>1. s \in States
      BY <2>2, PlanFacts, ItemsOfOthers
    <3>2. CASE i \in ItemsOf(Current)
      BY <1>3, <2>2, <3>1, <3>2, ItemsOfStates
    <3>3. CASE Current[1] = "disk" /\ i[1] = Current[2]
      <4>1. Current = <<"disk", i[1]>> /\ i[1] \in Disks
        BY <1>3, <3>3, KindsOfStates
      <4>2. j[1] = s[2]
        BY <2>2, <3>1, KindsOfStates DEF ItemsOf, Kid
      <4>3. s[2] \in Disks => s = <<"disk", s[2]>>
        <5>1. Disks \intersect Heads = {}
          BY StorageAssumption
        <5> QED
          BY <3>1, <5>1, KindsOfStates DEF Heads
      <4> QED
        BY <4>1, <4>2, <4>3
    <3> QED
      BY <1>4, <3>2, <3>3
  <2>3. \A j \in ItemsOf(s) : Has(j) => j \in DOMAIN have' /\ have'[j] = have[j]
    BY <1>11, <2>2 DEF Has
  <2> QED
    BY <1>6, <2>1, <2>3 DEF Steady
<1>14. ASSUME NEW d \in Disks, Own(d)'
       PROVE  Own(d) \/ Current = <<"disk", d>>
  <2>1. <<d, 1>> \in DOMAIN have' /\ have'[<<d, 1>>] # "default"
    BY <1>14 DEF Own, Has
  <2>2. CASE <<d, 1>> # i
    BY <1>8, <2>1, <2>2 DEF Own, Has
  <2>3. CASE <<d, 1>> = i
    <3>1. i \in ItemsOf(Current)
      BY <1>4, <1>8, <2>1, <2>3
    <3>2. i[1] = Current[2] /\ i[1] = d
      BY <1>3, <2>3, <3>1, KindsOfStates DEF ItemsOf, Kid
    <3>3. Disks \intersect Heads = {}
      BY StorageAssumption
    <3> QED
      BY <1>3, <3>2, <3>3, KindsOfStates DEF Heads
  <2> QED
    BY <2>2, <2>3
<1>15. Sound'
  <2> SUFFICES ASSUME NEW j \in DOMAIN have'
               PROVE  /\ j[1] \in Disks \/ <<j[1], 0>> \in DOMAIN have'
                      /\ have'[j] = "default" => j[1] \in Disks /\ j[2] = 1
                      /\ j[2] = 0 => have'[j] = "bare"
    BY DEF Sound, Has
  <2>1. CASE j # i
    <3>1. j \in DOMAIN have /\ have'[j] = have[j]
      BY <1>8, <2>1
    <3>2. /\ j[1] \in Disks \/ <<j[1], 0>> \in DOMAIN have
          /\ have[j] = "default" => j[1] \in Disks /\ j[2] = 1
          /\ j[2] = 0 => have[j] = "bare"
      BY <3>1 DEF Sound, Has
    <3>3. <<j[1], 0>> \in DOMAIN have => <<j[1], 0>> \in DOMAIN have'
      <4>1. op = "delete" => <<j[1], 0>> # i
        BY <1>5
      <4> QED
        BY <1>5, <1>6, <4>1
    <3> QED
      BY <3>1, <3>2, <3>3
  <2>2. CASE j = i
    <3>1. have'[j] \in {"bare", "formatted", "mounted"} /\ op # "delete" /\ i \in ItemsOf(Current)
      BY <1>4, <1>8, <2>2
    <3>2. i = <<i[1], i[2]>>
      BY <1>5, ItemFacts
    <3>3. i[1] \in Disks \/ <<i[1], 0>> \in DOMAIN have'
      <4>1. CASE op = "create"
        <5>1. MayCreate(i)
          BY <4>1 DEF Allowed, c, op, i
        <5>2. CASE i[2] = 0
          BY <2>2, <3>2, <5>2
        <5>3. CASE i[2] # 0
          BY <1>6, <4>1, <5>1, <5>3 DEF MayCreate, Has
        <5> QED
          BY <5>2, <5>3
      <4>2. CASE op \in {"format", "mount"}
        BY <1>6, <2>2, <4>2 DEF Sound, Has
      <4> QED
        BY <1>5, <3>1, <4>1, <4>2
    <3>4. i[2] = 0 => have'[i] = "bare"
      <4> SUFFICES ASSUME i[2] = 0
                   PROVE  op = "create"
        BY <1>6
      <4>1. Final[i] = "bare"
        <5>1. i[1] \in Heads
          BY <1>3, <3>1, KindsOfStates, OrderFacts DEF ItemsOf, Kid, Heads
        <5> QED
          BY <3>2, <5>1, HeadsPlanned
      <4>2. Due(todo, have, i)
        BY <3>1 DEF MakesItems
      <4>3. op = "format" => Occurs(<<"format", i>>, todo)
        BY <1>2, <1>5
      <4>4. op = "mount" => Occurs(<<"mount", i>>, todo)
        BY <1>2, <1>5
      <4> QED
        BY <1>5, <3>1, <4>1, <4>2, <4>3, <4>4 DEF Due
    <3> QED
      BY <2>2, <3>1, <3>3, <3>4
  <2> QED
    BY <2>1, <2>2
<1> QED
  BY <1>6, <1>9, <1>10, <1>12, <1>13, <1>14, <1>15

\* A call of drop_storage_schema.
LEMMA DropsEffect ==
  ASSUME TypeOK, Sound, todo # <<>>, DropsAll, Obeyed(Head(todo))
  PROVE  /\ DOMAIN have' \subseteq DOMAIN have /\ boot' = boot
         /\ \A j \in DOMAIN have' : have'[j] = have[j]
         /\ Sound'
         /\ \A j \in DOMAIN have' :
              \/ Occurs(<<"delete", j>>, Tail(todo))
              \/ Occurs(<<"delete", <<j[1], 0>>>>, Tail(todo))
<1> DEFINE c == Head(todo)
           i == c[2]
           gone == IF i[2] = 0 THEN Below(i[1]) ELSE {i}
<1>1. todo \in Seq(Calls) /\ DOMAIN have \subseteq Items
  BY DEF TypeOK
<1>2. c \in Calls /\ Occurs(c, todo) /\ \A x : Occurs(x, todo) <=> x = c \/ Occurs(x, Tail(todo))
  BY <1>1, TailFacts
<1>3. c[1] = "delete"
  BY <1>2 DEF DropsAll
<1>4. c = <<"delete", i>> /\ i \in Items
  BY <1>2, <1>3, CallShape
<1>5. have' = Restrict(have, DOMAIN have \ gone) /\ boot' = boot
  BY <1>3 DEF Obeyed
<1>6. i = <<i[1], i[2]>>
  BY <1>4, ItemFacts
<1>7. i \in DOMAIN have => i \in gone
  BY DEF Below
<1> HIDE DEF c, i
<1>8. \A j \in DOMAIN have : j \in gone =>
        j = i \/ (i[2] = 0 /\ j[1] = i[1])
  BY DEF Below
<1>9. \A j \in DOMAIN have : i[2] = 0 /\ j[1] = i[1] => j \in gone
  BY DEF Below
<1> HIDE DEF gone
<1>10. DOMAIN have' = DOMAIN have \ gone /\ \A j \in DOMAIN have \ gone : have'[j] = have[j]
  BY <1>5 DEF Restrict
<1>11. Sound'
  <2> SUFFICES ASSUME NEW j \in DOMAIN have'
               PROVE  /\ j[1] \in Disks \/ <<j[1], 0>> \in DOMAIN have'
                      /\ have'[j] = "default" => j[1] \in Disks /\ j[2] = 1
                      /\ j[2] = 0 => have'[j] = "bare"
    BY DEF Sound, Has
  <2>1. j \in DOMAIN have /\ j \notin gone /\ have'[j] = have[j]
    BY <1>10
  <2>2. /\ j[1] \in Disks \/ <<j[1], 0>> \in DOMAIN have
        /\ have[j] = "default" => j[1] \in Disks /\ j[2] = 1
        /\ j[2] = 0 => have[j] = "bare"
    BY <2>1 DEF Sound, Has
  <2> DEFINE k == <<j[1], 0>>
  <2>3. k[1] = j[1] /\ k[2] = 0
    OBVIOUS
  <2>4. k \in DOMAIN have => k \in DOMAIN have'
    <3> HIDE DEF k
    <3> QED
      BY <1>8, <1>9, <1>10, <2>1, <2>3
  <2> QED
    BY <2>1, <2>2, <2>4
<1>12. ASSUME NEW j \in DOMAIN have'
       PROVE  \/ Occurs(<<"delete", j>>, Tail(todo))
              \/ Occurs(<<"delete", <<j[1], 0>>>>, Tail(todo))
  <2>1. j \in DOMAIN have /\ j \notin gone
    BY <1>10, <1>12
  <2>2. j # i
    BY <1>7, <2>1
  <2>3. <<j[1], 0>> # i
    <3> SUFFICES ASSUME <<j[1], 0>> = i
                 PROVE  FALSE
      OBVIOUS
    <3>1. i[1] = j[1] /\ i[2] = 0
      BY <1>6
    <3> QED
      BY <1>9, <2>1, <3>1
  <2>4. <<"delete", j>> # c /\ <<"delete", <<j[1], 0>>>> # c
    BY <1>4, <2>2, <2>3
  <2>5. \/ Occurs(<<"delete", j>>, todo)
        \/ Occurs(<<"delete", <<j[1], 0>>>>, todo)
    BY <2>1 DEF DropsAll
  <2> QED
    BY <1>2, <2>4, <2>5
<1> QED
  BY <1>5, <1>10, <1>11, <1>12

\* A layout flat or lvm takes the place of all there was.
LEMMA LayoutEffect ==
  ASSUME TypeOK, NEW c, c[1] = "layout", Obeyed(c)
  PROVE  /\ DOMAIN have' \subseteq Items /\ boot' = boot
         /\ \A j \in DOMAIN have' : have'[j] \in {"bare", "formatted", "mounted", "default"}
         /\ Sound'
         /\ \A d \in Disks : ~Own(d)'
<1>1. PICK d \in (IF RootDevice = {} THEN {boot} ELSE RootDevice) : have' = Default(c[2], d)
  BY DEF Obeyed
<1>2. d \in Disks /\ boot' = boot
  BY StorageAssumption DEF TypeOK, Obeyed
<1>3. Root \notin Disks
  BY StorageAssumption
<1> DEFINE D == {<<d, 1>>} \union (IF c[2] = "lvm" THEN {<<Root, 0>>, <<Root, 1>>} ELSE {})
<1>4. DOMAIN have' = D
  BY <1>1 DEF Default
<1>5. \A i \in D : have'[i] = IF i = <<d, 1>> THEN "default" ELSE IF i[2] = 0 THEN "bare" ELSE "mounted"
  BY <1>1 DEF Default
<1>6. D \subseteq Items
  BY <1>2 DEF Items
<1>7. \A e \in Disks : <<e, 1>> \in D => e = d
  BY <1>3
<1>8. \A i \in D : i[1] \in Disks \/ <<i[1], 0>> \in D
  BY <1>2
<1>9. \A i \in D : i = <<d, 1>> \/ i = <<Root, 0>> \/ i = <<Root, 1>>
  OBVIOUS
<1> HIDE DEF D
<1>10. Sound'
  <2> SUFFICES ASSUME NEW j \in DOMAIN have'
               PROVE  /\ j[1] \in Disks \/ <<j[1], 0>> \in DOMAIN have'
                      /\ have'[j] = "default" => j[1] \in Disks /\ j[2] = 1
                      /\ j[2] = 0 => have'[j] = "bare"
    BY DEF Sound, Has
  <2>1. have'[j] = "default" => j = <<d, 1>>
    BY <1>4, <1>5
  <2>2. j[2] = 0 => j # <<d, 1>>
    OBVIOUS
  <2> QED
    BY <1>2, <1>4, <1>5, <1>8, <2>1, <2>2
<1>11. \A e \in Disks : ~Own(e)'
  BY <1>4, <1>5, <1>7 DEF Own, Has
<1> QED
  BY <1>2, <1>4, <1>5, <1>6, <1>10, <1>11

LEMMA CallEffect ==
  ASSUME Inv, Running, todo # <<>>, Allowed(Head(todo)), Obeyed(Head(todo))
  PROVE  /\ status = "Ready" /\ boot' \in Disks /\ DOMAIN have' \subseteq Items
         /\ \A j \in DOMAIN have' : have'[j] \in {"bare", "formatted", "mounted", "default"}
         /\ Sound'
         /\ at # 1 => \A s \in Succeeded : s # Current => Steady(s)
         /\ at # 1 => \A d \in Disks : Own(d)' => Own(d) \/ Current = <<"disk", d>>
<1>1. TypeOK /\ Sound /\ Working /\ at <= Len(Plan)
  BY DEF Inv, Running
<1>2. /\ status = "Ready"
      /\ \/ MakesItems
         \/ DropsAll
         \/ Current = <<"layout">> /\ layout \in {"flat", "lvm"} /\ todo = <<<<"layout", layout>>>>
         \/ Current = <<"boot", BootDevice>> /\ todo = <<<<"boot", BootDevice>>>>
  BY <1>1 DEF Working
<1>3. /\ boot \in Disks /\ DOMAIN have \subseteq Items /\ todo \in Seq(Calls)
      /\ \A j \in DOMAIN have : have[j] \in {"bare", "formatted", "mounted", "default"}
  BY <1>1 DEF TypeOK
<1>4. Succeeded \subseteq ToSet(Plan)
  <2>1. at \in 1 .. Len(Plan)
    BY <1>1, CurrentFacts
  <2>2. 1 .. at - 1 \subseteq 1 .. Len(Plan)
    BY <2>1, PlanFacts
  <2> QED
    BY <2>2, PlanFacts DEF Succeeded
<1>5. CASE MakesItems
  <2>1. /\ DOMAIN have' \subseteq Items /\ boot' = boot
        /\ \A j \in DOMAIN have' : have'[j] \in {"bare", "formatted", "mounted", "default"}
        /\ Sound'
        /\ \A s \in ToSet(Plan) : s # Current => Steady(s)
        /\ \A d \in Disks : Own(d)' => Own(d) \/ Current = <<"disk", d>>
    BY <1>1, <1>5, MakesEffect
  <2> QED
    BY <1>2, <1>3, <1>4, <2>1
<1>6. CASE DropsAll
  <2>1. /\ DOMAIN have' \subseteq DOMAIN have /\ boot' = boot
        /\ \A j \in DOMAIN have' : have'[j] = have[j]
        /\ Sound'
    BY <1>1, <1>6, DropsEffect
  <2>2. Current[1] = "layout"
    BY <1>6 DEF DropsAll
  <2>3. at = 1
    BY <1>1, <2>2, CurrentFacts
  <2> QED
    BY <1>2, <1>3, <2>1, <2>3
<1>7. CASE Current = <<"layout">> /\ layout \in {"flat", "lvm"} /\ todo = <<<<"layout", layout>>>>
  <2>1. Head(todo)[1] = "layout" /\ Current[1] = "layout"
    BY <1>7
  <2>2. at = 1
    BY <1>1, <2>1, CurrentFacts
  <2>3. /\ DOMAIN have' \subseteq Items /\ boot' = boot
        /\ \A j \in DOMAIN have' : have'[j] \in {"bare", "formatted", "mounted", "default"}
        /\ Sound'
    BY <1>1, <2>1, LayoutEffect
  <2> QED
    BY <1>2, <1>3, <2>2, <2>3
<1>8. CASE Current = <<"boot", BootDevice>> /\ todo = <<<<"boot", BootDevice>>>>
  <2>1. Head(todo)[1] = "boot" /\ Head(todo)[2] = BootDevice
    BY <1>8
  <2>2. have' = have /\ boot' = BootDevice
    BY <2>1 DEF Obeyed
  <2>3. Sound'
    BY <1>1, <2>2 DEF Sound, Has
  <2>4. \A s : s # Current => Steady(s)
    BY <1>8, <2>2 DEF Steady, Has
  <2>5. \A d \in Disks : Own(d)' => Own(d)
    BY <2>2 DEF Own, Has
  <2> QED
    BY <1>2, <1>3, <2>2, <2>3, <2>4, <2>5, StorageAssumption
<1> QED
  BY <1>2, <1>5, <1>6, <1>7, <1>8

\* What the state has made, once its last call has been obeyed.
LEMMA LastCall ==
  ASSUME Inv, Running, todo # <<>>, Allowed(Head(todo)), Obeyed(Head(todo)), Tail(todo) = <<>>,
         layout' = layout, NEW now, now = Current
  PROVE  /\ Achieved(now)'
         /\ at = 1 => \A d \in Disks : ~Own(d)'
<1>1. TypeOK /\ Sound /\ Working /\ at <= Len(Plan)
  BY DEF Inv, Running
<1>2. \/ MakesItems
      \/ DropsAll
      \/ Current = <<"layout">> /\ layout \in {"flat", "lvm"} /\ todo = <<<<"layout", layout>>>>
      \/ Current = <<"boot", BootDevice>> /\ todo = <<<<"boot", BootDevice>>>>
  BY <1>1 DEF Working
<1>3. CASE MakesItems
  <2>1. \A j \in ItemsOf(Current) : Due(<<>>, have', j)
    BY <1>1, <1>3, MakesEffect
  <2>2. ItemsOf(Current) \subseteq Planned /\ now # <<"layout">> /\ now # <<"boot", BootDevice>>
    <3>1. Current \in States
      BY <1>1, <1>3, CurrentFacts DEF MakesItems
    <3> QED
      BY <1>3, <3>1, ItemsOfStates DEF MakesItems
  <2>3. \A j \in ItemsOf(Current) : j \in DOMAIN have' /\ have'[j] = Final[j] /\ Final[j] # "default"
    <3> SUFFICES ASSUME NEW j \in ItemsOf(Current)
                 PROVE  j \in DOMAIN have' /\ have'[j] = Final[j] /\ Final[j] # "default"
      OBVIOUS
    <3>1. j \in DOMAIN have' /\ have'[j] = Final[j]
      BY <2>1, EmptyFacts DEF Due
    <3>2. Final[j] \in {"bare", "formatted", "mounted"}
      BY <2>2, StorageAssumption
    <3> QED
      BY <3>1, <3>2
  <2>4. \A j \in ItemsOf(now) : Laid(j)'
    BY <2>3 DEF Laid, Has
  <2>5. at # 1
    BY <1>1, <1>3, CurrentFacts DEF MakesItems
  <2> QED
    BY <2>2, <2>4, <2>5 DEF Achieved
<1>4. CASE DropsAll
  <2>1. \A j \in DOMAIN have' :
          \/ Occurs(<<"delete", j>>, Tail(todo))
          \/ Occurs(<<"delete", <<j[1], 0>>>>, Tail(todo))
    BY <1>1, <1>4, DropsEffect
  <2>2. DOMAIN have' = {}
    BY <2>1, EmptyFacts
  <2>3. now = <<"layout">>
    BY <1>4 DEF DropsAll
  <2> QED
    BY <2>2, <2>3, ItemsOfOthers DEF Achieved, Own, Has
<1>5. CASE Current = <<"layout">> /\ layout \in {"flat", "lvm"} /\ todo = <<<<"layout", layout>>>>
  <2>1. Head(todo)[1] = "layout"
    BY <1>5
  <2>2. \A d \in Disks : ~Own(d)'
    BY <1>1, <2>1, LayoutEffect
  <2> QED
    BY <1>5, <2>2, ItemsOfOthers DEF Achieved
<1>6. CASE Current = <<"boot", BootDevice>> /\ todo = <<<<"boot", BootDevice>>>>
  <2>1. Head(todo)[1] = "boot" /\ Head(todo)[2] = BootDevice /\ Current[1] = "boot"
    BY <1>6
  <2>2. boot' = BootDevice
    BY <2>1 DEF Obeyed
  <2>3. at = 2
    BY <1>1, <2>1, CurrentFacts
  <2> QED
    BY <1>6, <2>2, <2>3, ItemsOfOthers DEF Achieved
<1> QED
  BY <1>2, <1>3, <1>4, <1>5, <1>6

LEMMA SingleTail ==
  ASSUME NEW x
  PROVE  Tail(<<x>>) = <<>>
OBVIOUS

\* More calls are left.
LEMMA NextCall ==
  ASSUME Inv, Running, todo # <<>>, Allowed(Head(todo)), Obeyed(Head(todo)), Tail(todo) # <<>>,
         Do(Tail(todo))
  PROVE  Working' /\ (at = 1 => ~Cleared)
<1>1. TypeOK /\ Sound /\ Working /\ at <= Len(Plan)
  BY DEF Inv, Running
<1>2. /\ status = "Ready"
      /\ \/ MakesItems
         \/ DropsAll
         \/ Current = <<"layout">> /\ layout \in {"flat", "lvm"} /\ todo = <<<<"layout", layout>>>>
         \/ Current = <<"boot", BootDevice>> /\ todo = <<<<"boot", BootDevice>>>>
  BY <1>1 DEF Working
<1>3. /\ todo' = Tail(todo) /\ Current' = Current
      /\ UNCHANGED <<at, failed, status, layout, tries, phase, runs>>
  BY <1>1, GoOnFacts
<1>4. /\ \A x : Occurs(x, Tail(todo)) => Occurs(x, todo)
      /\ Ordered(todo) => Ordered(Tail(todo))
  BY <1>1, TailFacts DEF TypeOK
<1>5. phase' = "running" /\ at' <= Len(Plan) /\ status' = "Ready"
  BY <1>1, <1>2, <1>3 DEF Running
<1>6. CASE MakesItems
  <2>1. \A j \in ItemsOf(Current) : Due(Tail(todo), have', j)
    BY <1>1, <1>6, MakesEffect
  <2>2. \A j \in ItemsOf(Current') : Due(todo', have', j)
    BY <1>3, <2>1
  <2>3. Current'[1] \in {"disk", "raid", "group", "volume"} /\ Ordered(todo')
    BY <1>3, <1>4, <1>6 DEF MakesItems
  <2>4. \A x \in Calls : Occurs(x, todo') =>
          \/ x[1] \in {"create", "format", "mount"} /\ x[2] \in ItemsOf(Current')
          \/ x[1] = "delete" /\ Current'[1] = "disk" /\ x[2][1] = Current'[2] /\ x[2][2] > 0
    BY <1>3, <1>4, <1>6 DEF MakesItems
  <2>5. MakesItems'
    BY <2>2, <2>3, <2>4 DEF MakesItems
  <2> QED
    BY <1>5, <2>5, FirstFacts DEF Working
<1>7. CASE DropsAll
  <2>1. \A j \in DOMAIN have' :
          \/ Occurs(<<"delete", j>>, Tail(todo))
          \/ Occurs(<<"delete", <<j[1], 0>>>>, Tail(todo))
    BY <1>1, <1>7, DropsEffect
  <2>2. Current' = <<"layout">> /\ layout' = "custom"
    BY <1>3, <1>7 DEF DropsAll
  <2>3. \A x \in Calls : Occurs(x, todo') => x[1] = "delete"
    BY <1>3, <1>4, <1>7 DEF DropsAll
  <2>4. DropsAll'
    BY <1>3, <2>1, <2>2, <2>3 DEF DropsAll
  <2> QED
    BY <1>5, <2>4, FirstFacts DEF Working
<1>8. CASE \E x : todo = <<x>>
  BY <1>8, SingleTail
<1> QED
  BY <1>2, <1>6, <1>7, <1>8

LEMMA CallInv ==
  ASSUME Inv, Call
  PROVE  Inv'
<1> DEFINE c == Head(todo)
<1>1. Running /\ todo # <<>> /\ faults' = faults
  BY DEF Call
<1>2. TypeOK /\ faults \in 0 .. MaxFaults
  BY DEF Inv, TypeOK
<1>3. CASE ~Allowed(c)
  <2>1. Return(FALSE) /\ UNCHANGED <<machineVars, faults>>
    BY <1>3 DEF Call
  <2> QED
    BY <1>1, <2>1, NotReadyInv
<1>4. CASE Allowed(c)
  <2>1. Obeyed(c) /\ Do(Tail(todo))
    BY <1>4 DEF Call
  <2>2. /\ status = "Ready" /\ boot' \in Disks /\ DOMAIN have' \subseteq Items
        /\ \A j \in DOMAIN have' : have'[j] \in {"bare", "formatted", "mounted", "default"}
        /\ Sound'
        /\ at # 1 => \A s \in Succeeded : s # Current => Steady(s)
        /\ at # 1 => \A d \in Disks : Own(d)' => Own(d) \/ Current = <<"disk", d>>
    BY <1>1, <1>4, <2>1, CallEffect
  <2>3. CASE Tail(todo) = <<>>
    <3>1. Return(TRUE)
      BY <2>1, <2>3 DEF Do
    <3>2. /\ at' \in 1 .. Len(Plan) + 1 /\ todo' = <<>> /\ failed' \subseteq ToSet(Plan)
          /\ UNCHANGED <<status, layout, tries, phase, runs>>
      BY <1>1, <1>2, <3>1, ReturnFacts
    <3> DEFINE now == Current
    <3>3. now = Current
      OBVIOUS
    <3> HIDE DEF now, c
    <3>4. ASSUME NEW e, e = now
          PROVE  Achieved(e)'
      BY <1>1, <1>4, <2>1, <2>3, <3>2, <3>3, <3>4, LastCall DEF c
    <3>5. at = 1 => \A d \in Disks : ~Own(d)'
      BY <1>1, <1>4, <2>1, <2>3, <3>2, <3>3, LastCall DEF c
    <3>6. Working' /\ Kept' /\ Fresh' /\ Ended'
      BY <1>1, <2>2, <3>1, <3>3, <3>4, <3>5, ReturnInv
    <3>7. TypeOK'
      BY <1>1, <1>2, <2>2, <3>2 DEF TypeOK
    <3>8. DeployedAsPlanned'
      BY <2>2, <3>2 DEF DeployedAsPlanned
    <3> QED
      BY <2>2, <3>6, <3>7, <3>8 DEF Inv
  <2>4. CASE Tail(todo) # <<>>
    <3>1. Tail(todo) \in Seq(Calls)
      BY <1>1, <1>2, TailFacts DEF TypeOK
    <3>2. /\ todo' = Tail(todo)
          /\ UNCHANGED <<at, failed, status, layout, tries, phase, runs>>
      BY <1>1, <1>2, <2>1, <2>4, GoOnFacts
    <3>3. Working' /\ (at = 1 => ~Cleared)
      BY <1>1, <1>4, <2>1, <2>4, NextCall
    <3>4. Kept' /\ Fresh' /\ Ended'
      BY <1>1, <2>1, <2>2, <2>4, <3>3, GoOnInv
    <3>5. TypeOK'
      BY <1>1, <1>2, <2>2, <3>1, <3>2 DEF TypeOK
    <3>6. DeployedAsPlanned'
      BY <2>2, <3>2 DEF DeployedAsPlanned
    <3> QED
      BY <2>2, <3>3, <3>4, <3>5, <3>6 DEF Inv
  <2> QED
    BY <2>3, <2>4
<1> QED
  BY <1>3, <1>4

\* The call has been obeyed, and the state has failed nevertheless.
LEMMA RaiseInv ==
  ASSUME Inv, Raise
  PROVE  Inv'
<1>1. /\ Running /\ Return(FALSE) /\ faults > 0 /\ faults' = faults - 1
      /\ \/ UNCHANGED machineVars
         \/ todo # <<>> /\ Allowed(Head(todo)) /\ Obeyed(Head(todo))
  BY DEF Raise, Fault
<1>2. TypeOK /\ faults \in 0 .. MaxFaults /\ MaxFaults \in Nat
  BY StorageAssumption DEF Inv, TypeOK
<1>3. faults' \in 0 .. MaxFaults
  BY <1>1, <1>2
<1>4. CASE UNCHANGED machineVars
  BY <1>1, <1>3, <1>4, IdleInv
<1>5. CASE todo # <<>> /\ Allowed(Head(todo)) /\ Obeyed(Head(todo))
  <2>1. /\ status = "Ready" /\ boot' \in Disks /\ DOMAIN have' \subseteq Items
        /\ \A j \in DOMAIN have' : have'[j] \in {"bare", "formatted", "mounted", "default"}
        /\ Sound'
        /\ at # 1 => \A s \in Succeeded : s # Current => Steady(s)
        /\ at # 1 => \A d \in Disks : Own(d)' => Own(d) \/ Current = <<"disk", d>>
    BY <1>1, <1>5, CallEffect
  <2>2. /\ at \in 1 .. Len(Plan) /\ at' \in 1 .. Len(Plan) + 1
        /\ todo' = <<>> /\ failed' \subseteq ToSet(Plan)
        /\ UNCHANGED <<status, layout, tries, phase, runs>>
        /\ Succeeded' \subseteq Succeeded \union {Current}
        /\ Current \notin Succeeded'
    BY <1>1, <1>2, ReturnFacts
  <2>3. at = 1 => ~Cleared'
    BY <2>2, FirstFacts DEF Cleared
  <2>4. Working' /\ Kept' /\ Fresh' /\ Ended'
    BY <1>1, <2>1, <2>3, ReturnInv
  <2>5. TypeOK'
    BY <1>2, <1>3, <2>1, <2>2 DEF TypeOK
  <2>6. DeployedAsPlanned'
    BY <2>1, <2>2 DEF DeployedAsPlanned
  <2> QED
    BY <2>1, <2>4, <2>5, <2>6 DEF Inv
<1> QED
  BY <1>1, <1>4, <1>5

LEMMA BlockInv ==
  ASSUME Inv, Block
  PROVE  Inv'
BY NotReadyInv DEF Block

-------------------------------------------------------------------------------
(* Attempts, and what follows them.                                         *)

\* A new attempt has achieved nothing yet.
LEMMA RestartInv ==
  ASSUME Inv, Restart, UNCHANGED <<machineVars, status>>, phase' = "running",
         layout' \in Layouts, status = "Deployed" => layout' = layout,
         tries' \in 1 .. MaxTries, faults' \in 0 .. MaxFaults, runs' \in 0 .. MaxRuns
  PROVE  Inv'
<1>1. /\ at' = 1 /\ todo' = <<>> /\ failed' = {} /\ have' = have /\ boot' = boot
      /\ status' = status
  BY DEF Restart, machineVars
<1>2. 1 \in 1 .. Len(Plan) + 1
  BY PlanFacts
<1>3. TypeOK'
  BY <1>1, <1>2 DEF Inv, TypeOK
<1>4. Sound'
  BY <1>1 DEF Inv, Sound, Has
<1>5. Succeeded' = {} /\ ~Cleared'
  BY <1>1 DEF Succeeded, Cleared
<1>6. Working' /\ Kept' /\ Fresh' /\ Ended'
  BY <1>1, <1>5 DEF Working, Kept, Fresh, Ended
<1>7. DeployedAsPlanned'
  BY <1>1 DEF Inv, DeployedAsPlanned, Complete, Has
<1> QED
  BY <1>3, <1>4, <1>6, <1>7 DEF Inv

\* An attempt ends, and nothing else changes.
LEMMA EndInv ==
  ASSUME Inv, phase = "running", at > Len(Plan), UNCHANGED <<machineVars, status, layout, runs>>,
         UNCHANGED <<stateVars, tries>>, faults' \in 0 .. MaxFaults,
         \/ phase' = "done" /\ failed = {}
         \/ phase' = "failed"
  PROVE  Inv'
<1>1. /\ UNCHANGED <<have, boot, status, layout, at, todo, failed, tries, runs>>
      /\ at = Len(Plan) + 1
  <2>1. at \in 1 .. Len(Plan) + 1
    BY DEF Inv, TypeOK
  <2> QED
    BY <2>1, PlanFacts DEF machineVars, stateVars
<1>2. todo = <<>>
  BY <1>1, PlanFacts DEF Inv, Working
<1>3. TypeOK'
  BY <1>1 DEF Inv, TypeOK
<1>4. Sound'
  BY <1>1 DEF Inv, Sound, Has
<1>5. Working'
  BY <1>1, <1>2 DEF Working
<1>6. Succeeded' = Succeeded /\ Begun' = Begun
  BY <1>1, <1>2 DEF Succeeded, Begun
<1>7. Cleared' <=> Cleared
  BY <1>1, <1>6 DEF Cleared
<1>8. Kept'
  <2> SUFFICES ASSUME status = "Ready", NEW s \in Succeeded
               PROVE  Achieved(s)'
    BY <1>1, <1>6 DEF Kept
  <2>1. Achieved(s)
    BY <1>2 DEF Inv, Kept
  <2>2. Steady(s)
    BY <1>1 DEF Steady, Has
  <2> QED
    BY <1>1, <1>7, <2>1, <2>2, SteadyAchieved
<1>9. Fresh'
  BY <1>1, <1>6, <1>7 DEF Inv, Fresh, Has
<1>10. Ended'
  BY <1>1 DEF Ended
<1>11. DeployedAsPlanned'
  BY <1>1 DEF Inv, DeployedAsPlanned, Complete, Has
<1> QED
  BY <1>3, <1>4, <1>5, <1>8, <1>9, <1>10, <1>11 DEF Inv

LEMMA EndAttemptInv ==
  ASSUME Inv, EndAttempt
  PROVE  Inv'
<1>1. /\ phase = "running" /\ at > Len(Plan) /\ UNCHANGED <<machineVars, status, layout, runs>>
      /\ \/ failed = {} /\ phase' = "done" /\ UNCHANGED <<stateVars, tries, faults>>
         \/ /\ (failed # {} /\ UNCHANGED faults) \/ Fault
            /\ IF MayRetry
               THEN tries' = tries + 1 /\ Restart /\ UNCHANGED phase
               ELSE phase' = "failed" /\ UNCHANGED <<stateVars, tries>>
  BY DEF EndAttempt
<1>2. /\ faults \in 0 .. MaxFaults /\ MaxFaults \in Nat /\ tries \in 1 .. MaxTries /\ MaxTries \in Nat
      /\ runs \in 0 .. MaxRuns /\ layout \in Layouts
  BY StorageAssumption DEF Inv, TypeOK
<1>3. UNCHANGED faults \/ Fault => faults' \in 0 .. MaxFaults
  BY <1>2 DEF Fault
<1>4. CASE failed = {} /\ phase' = "done" /\ UNCHANGED <<stateVars, tries, faults>>
  BY <1>1, <1>3, <1>4, EndInv
<1>5. CASE phase' = "failed" /\ UNCHANGED <<stateVars, tries>> /\ (UNCHANGED faults \/ Fault)
  BY <1>1, <1>3, <1>5, EndInv
<1>6. CASE /\ MayRetry /\ tries' = tries + 1 /\ Restart /\ UNCHANGED phase
           /\ (UNCHANGED faults \/ Fault)
  <2>1. tries' \in 1 .. MaxTries
    BY <1>2, <1>6 DEF MayRetry
  <2> QED
    BY <1>1, <1>2, <1>3, <1>6, <2>1, RestartInv
<1> QED
  BY <1>1, <1>4, <1>5, <1>6

\* What the machine has when the storage states have succeeded.
LEMMA DoneFacts ==
  ASSUME Inv, phase = "done", status = "Ready"
  PROVE  /\ \A i \in Planned : Laid(i)
         /\ boot = BootDevice
         /\ layout # "none" => Cleared
         /\ layout = "custom" => DOMAIN have \subseteq Planned
<1>1. todo = <<>> /\ failed = {} /\ at = Len(Plan) + 1
  BY DEF Inv, Working, Ended
<1>2. (Len(Plan) + 1) - 1 = Len(Plan)
  BY PlanFacts
<1>3. Succeeded = {Plan[p] : p \in 1 .. Len(Plan)}
  BY <1>1, <1>2 DEF Succeeded
<1>4. /\ <<"layout">> \in Succeeded /\ <<"boot", BootDevice>> \in Succeeded
      /\ \A s \in States : s \in Succeeded
  BY <1>3, PlanFacts
<1>5. \A s \in Succeeded : Achieved(s)
  BY <1>1 DEF Inv, Kept
<1>6. ASSUME NEW i \in Planned
      PROVE  Laid(i)
  <2>1. PICK s \in States : i \in ItemsOf(s)
    BY ItemsOfStates
  <2> QED
    BY <1>4, <1>5, <2>1 DEF Achieved
<1>7. layout # "none" => Cleared
  BY <1>4 DEF Cleared
<1>8. boot = BootDevice /\ (layout = "custom" => DOMAIN have \subseteq Planned)
  BY <1>4, <1>5 DEF Achieved
<1> QED
  BY <1>6, <1>7, <1>8

LEMMA DeployInv ==
  ASSUME Inv, Deploy
  PROVE  Inv'
<1>1. /\ phase = "done" /\ status = "Ready" /\ status' = "Deployed"
      /\ UNCHANGED <<have, boot, layout, at, todo, failed, tries, phase, runs, faults>>
  BY DEF Deploy, machineVars, stateVars, runVars
<1>2. TypeOK'
  BY <1>1 DEF Inv, TypeOK
<1>3. Sound'
  BY <1>1 DEF Inv, Sound, Has
<1>4. Working' /\ Kept' /\ Fresh' /\ Ended'
  BY <1>1 DEF Inv, Working, Kept, Fresh, Ended
<1>5. layout # "none" => Complete
  BY <1>1, DoneFacts DEF Complete, Laid
<1>6. DeployedAsPlanned'
  BY <1>1, <1>5 DEF DeployedAsPlanned, Complete, Has
<1> QED
  BY <1>2, <1>3, <1>4, <1>6 DEF Inv

LEMMA RerunInv ==
  ASSUME Inv, Rerun
  PROVE  Inv'
<1>1. /\ runs > 0 /\ runs' = runs - 1 /\ phase' = "running" /\ tries' = 1
      /\ layout' \in IF status = "Ready" THEN Layouts ELSE {layout}
      /\ Restart /\ UNCHANGED <<machineVars, status, faults>>
  BY DEF Rerun
<1>2. /\ faults \in 0 .. MaxFaults /\ MaxTries \in Nat \ {0} /\ MaxRuns \in Nat
      /\ runs \in 0 .. MaxRuns /\ layout \in Layouts
  BY StorageAssumption DEF Inv, TypeOK
<1>3. layout' \in Layouts /\ (status = "Deployed" => layout' = layout)
  BY <1>1, <1>2
<1>4. tries' \in 1 .. MaxTries /\ runs' \in 0 .. MaxRuns /\ faults' \in 0 .. MaxFaults
  BY <1>1, <1>2
<1> QED
  BY <1>1, <1>3, <1>4, RestartInv

LEMMA UnchangedInv ==
  ASSUME Inv, UNCHANGED vars
  PROVE  Inv'
<1>1. UNCHANGED <<have, boot, status, layout, at, todo, failed, tries, phase, runs, faults>>
  BY DEF vars, machineVars, stateVars, runVars
<1>2. TypeOK'
  BY <1>1 DEF Inv, TypeOK
<1>3. Sound' /\ Ended'
  BY <1>1 DEF Inv, Sound, Has, Ended
<1>4. DeployedAsPlanned'
  BY <1>1 DEF Inv, DeployedAsPlanned, Complete, Has
<1>5. Succeeded' = Succeeded /\ Begun' = Begun /\ Current' = Current
  BY <1>1 DEF Succeeded, Begun, Current
<1>6. Cleared' <=> Cleared
  BY <1>1, <1>5 DEF Cleared
<1>7. Working'
  <2>1. MakesItems => MakesItems'
    BY <1>1, <1>5 DEF MakesItems
  <2>2. DropsAll => DropsAll'
    BY <1>1, <1>5 DEF DropsAll
  <2> QED
    BY <1>1, <1>5, <2>1, <2>2 DEF Inv, Working
<1>8. Kept'
  <2> SUFFICES ASSUME status = "Ready", NEW s \in Succeeded, todo = <<>> \/ s # Current
               PROVE  Achieved(s)'
    BY <1>1, <1>5 DEF Kept
  <2>1. Achieved(s)
    BY DEF Inv, Kept
  <2>2. Steady(s)
    BY <1>1 DEF Steady, Has
  <2> QED
    BY <1>1, <1>6, <2>1, <2>2, SteadyAchieved
<1>9. Fresh'
  BY <1>1, <1>5, <1>6 DEF Inv, Fresh, Has
<1> QED
  BY <1>2, <1>3, <1>4, <1>7, <1>8, <1>9 DEF Inv

LEMMA InitInv ==
  ASSUME Init
  PROVE  Inv
<1>1. PICK d \in Disks : boot = d /\ have = Default("flat", d)
  BY DEF Init
<1>2. DOMAIN have = {<<d, 1>>} /\ have[<<d, 1>>] = "default"
  BY <1>1 DEF Default
<1>3. /\ status = "Ready" /\ layout \in Layouts /\ at = 1 /\ todo = <<>> /\ failed = {}
      /\ tries = 1 /\ phase = "running" /\ faults = MaxFaults /\ runs = MaxRuns
  BY DEF Init
<1>4. <<d, 1>> \in Items
  BY DEF Items
<1>5. 1 \in 1 .. Len(Plan) + 1
  BY PlanFacts
<1>6. TypeOK
  <2>1. /\ DOMAIN have \subseteq Items
        /\ \A i \in DOMAIN have : have[i] \in {"bare", "formatted", "mounted", "default"}
    BY <1>2, <1>4
  <2>2. tries \in 1 .. MaxTries /\ faults \in 0 .. MaxFaults /\ runs \in 0 .. MaxRuns
    BY <1>3, StorageAssumption
  <2>3. todo \in Seq(Calls) /\ failed \subseteq ToSet(Plan) /\ at \in 1 .. Len(Plan) + 1
    BY <1>3, <1>5
  <2> QED
    BY <1>1, <1>3, <2>1, <2>2, <2>3 DEF TypeOK
<1>7. Sound
  BY <1>2 DEF Sound, Has
<1>8. Succeeded = {} /\ ~Cleared
  BY <1>3, FirstFacts
<1> QED
  BY <1>3, <1>6, <1>7, <1>8 DEF Inv, Working, Kept, Fresh, Ended, DeployedAsPlanned

LEMMA NextInv ==
  ASSUME Inv, [Next]_vars
  PROVE  Inv'
<1>1. CASE DiskLayoutPresent
  BY <1>1, DiskLayoutPresentInv
<1>2. CASE SelectBootDisk
  BY <1>2, SelectBootDiskInv
<1>3. CASE DiskPartitionPresent
  BY <1>3, DiskPartitionPresentInv
<1>4. CASE RaidPresent
  BY <1>4, RaidPresentInv
<1>5. CASE VolumeGroupPresent
  BY <1>5, VolumeGroupPresentInv
<1>6. CASE VolumePresent
  BY <1>6, VolumePresentInv
<1>7. CASE Call
  BY <1>7, CallInv
<1>8. CASE Block
  BY <1>8, BlockInv
<1>9. CASE EndAttempt
  BY <1>9, EndAttemptInv
<1>10. CASE Raise
  BY <1>10, RaiseInv
<1>11. CASE Deploy
  BY <1>11, DeployInv
<1>12. CASE Rerun
  BY <1>12, RerunInv
<1>13. CASE UNCHANGED vars
  BY <1>13, UnchangedInv
<1> QED
  BY <1>1, <1>2, <1>3, <1>4, <1>5, <1>6, <1>7, <1>8, <1>9, <1>10, <1>11, <1>12, <1>13
     DEF Next, Script, Finished

-------------------------------------------------------------------------------
(* Theorems.                                                                *)

\* The invariant that the theorems below rest on: the calls a state has still
\* to make fit what the machine has, and what other states of the attempt have
\* achieved stays, although MaaS deletes items that lie on others.
THEOREM Invariant == Spec => []Inv
<1>1. Init => Inv
  BY InitInv
<1>2. Inv /\ [Next]_vars => Inv'
  BY NextInv
<1> QED
  BY <1>1, <1>2, PTL DEF Spec

\* The items of the machine, the calls of the states and the progress of Salt
\* and deploy.sh are well-formed.
THEOREM TypeCorrect == Spec => []TypeOK
<1>1. Inv => TypeOK
  BY DEF Inv
<1> QED
  BY <1>1, Invariant, PTL

\* When the storage states have succeeded, the machine has what the pillar
\* describes: whatever call of whatever attempt failed or lost its answer, and
\* whatever an earlier pillar or a half-done attempt has left on the machine.
THEOREM LaidOut == Spec => []LayoutComplete
<1>1. ASSUME Inv, phase = "done", status = "Ready"
      PROVE  /\ \A i \in Planned : Has(i) /\ have[i] # "default"
             /\ boot = BootDevice
             /\ layout # "none" => Complete
             /\ layout = "custom" => DOMAIN have = Planned
  <2>1. /\ \A i \in Planned : Laid(i)
        /\ boot = BootDevice
        /\ layout # "none" => Cleared
        /\ layout = "custom" => DOMAIN have \subseteq Planned
    BY <1>1, DoneFacts
  <2>2. \A i \in Planned : Has(i) /\ have[i] # "default" /\ (Cleared => have[i] = Final[i])
    BY <2>1 DEF Laid
  <2>3. layout = "custom" => DOMAIN have = Planned
    BY <2>1, <2>2 DEF Has
  <2> QED
    BY <2>1, <2>2, <2>3 DEF Complete
<1>2. Inv => LayoutComplete
  BY <1>1 DEF LayoutComplete
<1> QED
  BY <1>2, Invariant, PTL

\* A machine that was deployed with a type of layout keeps all of its storage
\* as planned: the states of later runs leave a deployed machine alone.
THEOREM StorageKept == Spec => []DeployedAsPlanned
<1>1. Inv => DeployedAsPlanned
  BY DEF Inv
<1> QED
  BY <1>1, Invariant, PTL
===============================================================================
