--------------------------- MODULE RequestProofs ---------------------------
(***************************************************************************)
(* Proofs about FeatureControl and DeviceConfig, for all tables, devices   *)
(* and requests.                                                           *)
(***************************************************************************)
EXTENDS MCRequests, FiniteSetTheorems, WellFoundedInduction, TLAPS

LEMMA SmallestCounterexample ==
    ASSUME NEW S \in SUBSET Nat, S # {}
    PROVE  \E x \in S : \A y \in S : x <= y
<1> DEFINE R == OpToRel(<, Nat)
<1>1. IsWellFoundedOn(R, Nat)
  BY NatLessThanWellFounded
<1>2. \A x, y \in Nat : x < y => <<x, y>> \in R
  BY DEF OpToRel
<1> HIDE DEF R
<1>3. PICK x \in S : \A y \in S : ~(<<y, x>> \in R)
  BY <1>1, WFMin
<1>4. ASSUME NEW y \in S PROVE x <= y
  <2>1. x \in Nat /\ y \in Nat
    OBVIOUS
  <2>2. ~(y < x)
    BY <1>2, <1>3, <2>1
  <2>3. QED BY <2>1, <2>2
<1>5. QED BY <1>4

(* Induction, with the set of the numbers for which the claim holds.       *)
LEMMA Induction ==
    ASSUME NEW n \in Nat, NEW G, 0 \in G, \A i \in 0..n : i < n /\ i \in G => i + 1 \in G
    PROVE  0..n \subseteq G
<1> DEFINE S == {i \in 0..n : i \notin G}
<1>1. ASSUME S # {} PROVE FALSE
  <2>1. S \in SUBSET Nat
    OBVIOUS
  <2>2. PICK x \in S : \A y \in S : x <= y
    BY <1>1, <2>1, SmallestCounterexample
  <2>3. x \in Nat /\ x # 0 /\ x <= n
    BY <2>2
  <2>4. x - 1 \in 0..n /\ x - 1 < n /\ ~(x <= x - 1) /\ (x - 1) + 1 = x
    BY <2>3
  <2>5. x - 1 \in G
    BY <2>2, <2>4
  <2>6. QED BY <2>2, <2>4, <2>5
<1>2. QED BY <1>1

-----------------------------------------------------------------------------
(* The loops of Eval.                                                      *)

(* The loop of AddFeaturesToResult: what the map holds after i ids.        *)
LEMMA AddLoop ==
    ASSUME NEW t, NEW m0, NEW ids, Len(ids) \in Nat
    PROVE  \E m : /\ m = [i \in 0..Len(ids) |-> IF i = 0 THEN m0 ELSE AddFeature(t, m[i - 1], ids[i])]
                  /\ AddFeaturesToResult(t, m0, ids) = m[Len(ids)]
<1> DEFINE n == Len(ids)
           Is(g, k) == g = [i \in 0..k |-> IF i = 0 THEN m0 ELSE AddFeature(t, g[i - 1], ids[i])]
           G == {k \in 0..n : \E g : Is(g, k)}
<1>1. 0 \in G
  <2> DEFINE g == [i \in 0..0 |-> m0]
  <2>1. Is(g, 0)
    OBVIOUS
  <2>2. 0 \in 0..n
    OBVIOUS
  <2> HIDE DEF g, Is, n
  <2>3. QED BY <2>1, <2>2
<1>2. ASSUME NEW k \in 0..n, k < n, k \in G PROVE k + 1 \in G
  <2>1. PICK g : Is(g, k)
    BY <1>2
  <2> DEFINE h == [i \in 0..(k + 1) |-> IF i = k + 1 THEN AddFeature(t, g[k], ids[k + 1]) ELSE g[i]]
  <2>2. ASSUME NEW i \in 0..(k + 1) PROVE h[i] = IF i = 0 THEN m0 ELSE AddFeature(t, h[i - 1], ids[i])
    <3>1. CASE i = k + 1
      <4>1. i # 0 /\ i - 1 = k /\ k \in 0..(k + 1) /\ k # k + 1
        BY <3>1
      <4>2. h[k] = g[k]
        BY <4>1
      <4>3. QED BY <3>1, <4>1, <4>2
    <3>2. CASE i # k + 1
      <4>1. i \in 0..k
        BY <3>2
      <4>2. h[i] = g[i]
        BY <3>2
      <4>3. g[i] = IF i = 0 THEN m0 ELSE AddFeature(t, g[i - 1], ids[i])
        BY <2>1, <4>1
      <4>4. i # 0 => h[i - 1] = g[i - 1]
        BY <4>1
      <4>5. QED BY <4>2, <4>3, <4>4
    <3>3. QED BY <3>1, <3>2
  <2>3. Is(h, k + 1)
    BY <2>2
  <2>4. k + 1 \in 0..n
    BY <1>2
  <2>5. QED BY <2>3, <2>4
<1>3. 0..n \subseteq G
  <2> HIDE DEF G, n
  <2>1. n \in Nat
    BY DEF n
  <2>2. QED BY <1>1, <1>2, <2>1, Induction
<1>4. \E g : Is(g, n)
  BY <1>3
<1>5. QED BY <1>4 DEF AddFeaturesToResult

(* One feature: what is in the map stays.                                  *)
LEMMA OneAdded ==
    ASSUME NEW t, NEW m, NEW id, NEW R, R = AddFeature(t, m, id)
    PROVE  /\ \A n \in DOMAIN m : n \in DOMAIN R /\ R[n] = m[n]
           /\ \A n \in DOMAIN R : \/ n \in DOMAIN m
                                  \/ id \in DOMAIN t.features /\ t.features[id].name = n /\ R[n] = ToRfcResponse(t, id)
           /\ id \in DOMAIN t.features => t.features[id].name \in DOMAIN R
BY DEF AddFeature, Put

(* A list of features: the first existing one of each new name is added.   *)
LEMMA FeaturesAdded ==
    ASSUME NEW t, NEW m0, NEW X, NEW ids \in Seq(X), NEW R, R = AddFeaturesToResult(t, m0, ids)
    PROVE  /\ \A n \in DOMAIN m0 : n \in DOMAIN R /\ R[n] = m0[n]
           /\ \A n \in DOMAIN R :
                 \/ n \in DOMAIN m0
                 \/ \E k \in DOMAIN ids : /\ ids[k] \in DOMAIN t.features /\ t.features[ids[k]].name = n
                                          /\ R[n] = ToRfcResponse(t, ids[k])
           /\ \A k \in DOMAIN ids : ids[k] \in DOMAIN t.features => t.features[ids[k]].name \in DOMAIN R
<1>0. Len(ids) \in Nat /\ DOMAIN ids = 1..Len(ids)
  OBVIOUS
<1>1. PICK m : /\ m = [i \in 0..Len(ids) |-> IF i = 0 THEN m0 ELSE AddFeature(t, m[i - 1], ids[i])]
               /\ R = m[Len(ids)]
  BY <1>0, AddLoop
<1> DEFINE Keeps(i) == \A n \in DOMAIN m0 : n \in DOMAIN m[i] /\ m[i][n] = m0[n]
           New(i) == \A n \in DOMAIN m[i] :
                        \/ n \in DOMAIN m0
                        \/ \E k \in 1..i : /\ ids[k] \in DOMAIN t.features /\ t.features[ids[k]].name = n
                                           /\ m[i][n] = ToRfcResponse(t, ids[k])
           Has(i) == \A k \in 1..i : ids[k] \in DOMAIN t.features => t.features[ids[k]].name \in DOMAIN m[i]
           G == {i \in 0..Len(ids) : Keeps(i) /\ New(i) /\ Has(i)}
<1>2. m[0] = m0 /\ \A i \in 0..Len(ids) : i < Len(ids) => m[i + 1] = AddFeature(t, m[i], ids[i + 1])
  <2>1. \A i \in 0..Len(ids) : m[i] = IF i = 0 THEN m0 ELSE AddFeature(t, m[i - 1], ids[i])
    BY <1>1
  <2>2. ASSUME NEW i \in 0..Len(ids), i < Len(ids) PROVE m[i + 1] = AddFeature(t, m[i], ids[i + 1])
    <3>1. i + 1 \in 0..Len(ids) /\ i + 1 # 0 /\ (i + 1) - 1 = i
      BY <1>0, <2>2
    <3>2. QED BY <2>1, <3>1
  <2>3. 0 \in 0..Len(ids)
    BY <1>0
  <2>4. QED BY <2>1, <2>2, <2>3
<1>3. 0 \in G
  <2>1. 0 \in 0..Len(ids) /\ 1..0 = {}
    BY <1>0
  <2>2. QED BY <1>2, <2>1
<1>4. ASSUME NEW i \in 0..Len(ids), i < Len(ids), i \in G PROVE i + 1 \in G
  <2>0. i + 1 \in 0..Len(ids) /\ i + 1 \in 1..(i + 1) /\ \A k \in 1..(i + 1) : k \in 1..i \/ k = i + 1
    BY <1>0, <1>4
  <2>1. \A k \in 1..i : k \in 1..(i + 1)
    BY <1>0
  <2>2. m[i + 1] = AddFeature(t, m[i], ids[i + 1])
    BY <1>2, <1>4
  <2>3. Keeps(i) /\ New(i) /\ Has(i)
    BY <1>4
  <2> DEFINE S == m[i + 1]
             id == ids[i + 1]
  <2>4. /\ \A n \in DOMAIN m[i] : n \in DOMAIN S /\ S[n] = m[i][n]
        /\ \A n \in DOMAIN S : \/ n \in DOMAIN m[i]
                               \/ id \in DOMAIN t.features /\ t.features[id].name = n /\ S[n] = ToRfcResponse(t, id)
        /\ id \in DOMAIN t.features => t.features[id].name \in DOMAIN S
    BY <2>2, OneAdded
  <2>5. Keeps(i + 1)
    BY <2>3, <2>4
  <2>6. New(i + 1)
    BY <2>0, <2>1, <2>3, <2>4
  <2>7. Has(i + 1)
    BY <2>0, <2>3, <2>4
  <2>8. QED BY <2>0, <2>5, <2>6, <2>7
<1>5. Keeps(Len(ids)) /\ New(Len(ids)) /\ Has(Len(ids))
  <2>1. 0..Len(ids) \subseteq G
    <3> HIDE DEF G
    <3>1. QED BY <1>0, <1>3, <1>4, Induction
  <2>2. Len(ids) \in 0..Len(ids)
    BY <1>0
  <2>3. Len(ids) \in G
    BY <2>1, <2>2
  <2>4. QED BY <2>3
<1>6. \A n \in DOMAIN m0 : n \in DOMAIN R /\ R[n] = m0[n]
  BY <1>1, <1>5
<1>7. \A k \in DOMAIN ids : ids[k] \in DOMAIN t.features => t.features[ids[k]].name \in DOMAIN R
  BY <1>0, <1>1, <1>5
<1>8. ASSUME NEW n \in DOMAIN R, n \notin DOMAIN m0
      PROVE  \E k \in DOMAIN ids : /\ ids[k] \in DOMAIN t.features /\ t.features[ids[k]].name = n
                                   /\ R[n] = ToRfcResponse(t, ids[k])
  BY <1>0, <1>1, <1>5, <1>8
<1>9. QED BY <1>6, <1>7, <1>8

(* The loop over the matched rules.                                        *)
LEMMA MapLoop ==
    ASSUME NEW t, NEW rules, Len(rules) \in Nat
    PROVE  \E m : /\ m = [i \in 0..Len(rules) |-> IF i = 0 THEN <<>>
                            ELSE AddFeaturesToResult(t, m[i - 1], t.rules[rules[i]].features)]
                  /\ FeatureMap(t, rules) = m[Len(rules)]
<1> DEFINE n == Len(rules)
           Step(m, i) == AddFeaturesToResult(t, m, t.rules[rules[i]].features)
           Is(g, k) == g = [i \in 0..k |-> IF i = 0 THEN <<>> ELSE AddFeaturesToResult(t, g[i - 1], t.rules[rules[i]].features)]
           G == {k \in 0..n : \E g : Is(g, k)}
<1>1. 0 \in G
  <2> DEFINE g == [i \in 0..0 |-> <<>>]
  <2>1. Is(g, 0)
    OBVIOUS
  <2>2. 0 \in 0..n
    OBVIOUS
  <2> HIDE DEF g, Is, n
  <2>3. QED BY <2>1, <2>2
<1>2. ASSUME NEW k \in 0..n, k < n, k \in G PROVE k + 1 \in G
  <2>1. PICK g : Is(g, k)
    BY <1>2
  <2> DEFINE h == [i \in 0..(k + 1) |-> IF i = k + 1 THEN Step(g[k], k + 1) ELSE g[i]]
  <2>2. ASSUME NEW i \in 0..(k + 1) PROVE h[i] = IF i = 0 THEN <<>> ELSE Step(h[i - 1], i)
    <3>1. CASE i = k + 1
      <4>1. i # 0 /\ i - 1 = k /\ k \in 0..(k + 1) /\ k # k + 1
        BY <3>1
      <4>2. h[k] = g[k]
        BY <4>1
      <4>3. QED BY <3>1, <4>1, <4>2
    <3>2. CASE i # k + 1
      <4>1. i \in 0..k
        BY <3>2
      <4>2. h[i] = g[i]
        BY <3>2
      <4>3. g[i] = IF i = 0 THEN <<>> ELSE Step(g[i - 1], i)
        BY <2>1, <4>1
      <4>4. i # 0 => h[i - 1] = g[i - 1]
        BY <4>1
      <4>5. QED BY <4>2, <4>3, <4>4
    <3>3. QED BY <3>1, <3>2
  <2>3. Is(h, k + 1)
    BY <2>2
  <2>4. k + 1 \in 0..n
    BY <1>2
  <2>5. QED BY <2>3, <2>4
<1>3. 0..n \subseteq G
  <2> HIDE DEF G, n
  <2>1. n \in Nat
    BY DEF n
  <2>2. QED BY <1>1, <1>2, <2>1, Induction
<1>4. \E g : Is(g, n)
  BY <1>3
<1>5. QED BY <1>4 DEF FeatureMap

(* Every feature that a rule lists is answered by it or an earlier rule.   *)
Name(t, f) == t.features[f].name

LEMMA FeaturesMapped ==
    ASSUME NEW t, IsTable(t), NEW rules \in Seq(DOMAIN t.rules), NEW R, R = FeatureMap(t, rules)
    PROVE  /\ \A n \in DOMAIN R : \E k \in DOMAIN rules : \E f \in Listed(t, rules[k]) :
                 Name(t, f) = n /\ R[n] = ToRfcResponse(t, f)
           /\ \A j \in DOMAIN rules : \A f \in Listed(t, rules[j]) :
                 Name(t, f) \in DOMAIN R /\ \E k \in 1..j : R[Name(t, f)].value \in Listed(t, rules[k])
<1>0. Len(rules) \in Nat /\ DOMAIN rules = 1..Len(rules) /\ \A i \in 1..Len(rules) : rules[i] \in DOMAIN t.rules
  OBVIOUS
<1>1. PICK m : /\ m = [i \in 0..Len(rules) |-> IF i = 0 THEN <<>>
                          ELSE AddFeaturesToResult(t, m[i - 1], t.rules[rules[i]].features)]
               /\ R = m[Len(rules)]
  BY <1>0, MapLoop
<1>2. m[0] = <<>> /\ \A i \in 0..Len(rules) : i < Len(rules) =>
        m[i + 1] = AddFeaturesToResult(t, m[i], t.rules[rules[i + 1]].features)
  <2>1. \A i \in 0..Len(rules) : m[i] = IF i = 0 THEN <<>> ELSE AddFeaturesToResult(t, m[i - 1], t.rules[rules[i]].features)
    BY <1>1
  <2>2. ASSUME NEW i \in 0..Len(rules), i < Len(rules)
        PROVE  m[i + 1] = AddFeaturesToResult(t, m[i], t.rules[rules[i + 1]].features)
    <3>1. i + 1 \in 0..Len(rules) /\ i + 1 # 0 /\ (i + 1) - 1 = i
      BY <1>0, <2>2
    <3>2. QED BY <2>1, <3>1
  <2>3. 0 \in 0..Len(rules)
    BY <1>0
  <2>4. QED BY <2>1, <2>2, <2>3
<1> DEFINE From(i) == \A n \in DOMAIN m[i] : \E k \in 1..i : \E f \in Listed(t, rules[k]) :
                         Name(t, f) = n /\ m[i][n] = ToRfcResponse(t, f)
           Has(i) == \A j \in 1..i : \A f \in Listed(t, rules[j]) :
                         Name(t, f) \in DOMAIN m[i] /\ \E k \in 1..j : m[i][Name(t, f)].value \in Listed(t, rules[k])
           G == {i \in 0..Len(rules) : From(i) /\ Has(i)}
<1>3. 0 \in G
  <2>1. 0 \in 0..Len(rules) /\ 1..0 = {} /\ DOMAIN m[0] = {}
    BY <1>0, <1>2
  <2>2. QED BY <2>1
<1>4. ASSUME NEW i \in 0..Len(rules), i < Len(rules), i \in G PROVE i + 1 \in G
  <2> DEFINE S == m[i + 1]
             ids == t.rules[rules[i + 1]].features
             mine == Listed(t, rules[i + 1])
  <2>0. /\ i + 1 \in 0..Len(rules) /\ i + 1 \in 1..Len(rules) /\ i + 1 \in 1..(i + 1)
        /\ \A k \in 1..(i + 1) : k \in 1..i \/ k = i + 1
        /\ \A k \in 1..i : k \in 1..(i + 1)
    BY <1>0, <1>4
  <2>1. ids \in Seq(Range(ids))
    BY <1>0, <2>0 DEF IsTable
  <2>2. /\ \A f \in mine : \E k \in DOMAIN ids : ids[k] = f /\ f \in DOMAIN t.features
        /\ \A k \in DOMAIN ids : ids[k] \in DOMAIN t.features => ids[k] \in mine
    BY DEF Listed, Range
  <2>3. From(i) /\ Has(i)
    BY <1>4
  <2>4. S = AddFeaturesToResult(t, m[i], ids)
    BY <1>2, <1>4
  <2> HIDE DEF ids, mine
  <2>5. /\ \A n \in DOMAIN m[i] : n \in DOMAIN S /\ S[n] = m[i][n]
        /\ \A n \in DOMAIN S : n \in DOMAIN m[i] \/ \E f \in mine : Name(t, f) = n /\ S[n] = ToRfcResponse(t, f)
        /\ \A f \in mine : Name(t, f) \in DOMAIN S
    <3>1. /\ \A n \in DOMAIN m[i] : n \in DOMAIN S /\ S[n] = m[i][n]
          /\ \A n \in DOMAIN S :
                \/ n \in DOMAIN m[i]
                \/ \E k \in DOMAIN ids : /\ ids[k] \in DOMAIN t.features /\ t.features[ids[k]].name = n
                                         /\ S[n] = ToRfcResponse(t, ids[k])
          /\ \A k \in DOMAIN ids : ids[k] \in DOMAIN t.features => t.features[ids[k]].name \in DOMAIN S
      BY <2>1, <2>4, FeaturesAdded
    <3>2. QED BY <2>2, <3>1 DEF Name
  <2> HIDE DEF S
  <2>6. From(i + 1)
    <3>1. ASSUME NEW n \in DOMAIN m[i + 1]
          PROVE  \E k \in 1..(i + 1) : \E f \in Listed(t, rules[k]) : Name(t, f) = n /\ m[i + 1][n] = ToRfcResponse(t, f)
      <4>1. CASE n \in DOMAIN m[i]
        BY <2>0, <2>3, <2>5, <4>1 DEF S
      <4>2. CASE \E f \in mine : Name(t, f) = n /\ S[n] = ToRfcResponse(t, f)
        BY <2>0, <4>2 DEF S, mine
      <4>3. QED BY <2>5, <4>1, <4>2 DEF S
    <3>2. QED BY <3>1
  <2>7. Has(i + 1)
    <3>1. ASSUME NEW j \in 1..(i + 1), NEW f \in Listed(t, rules[j])
          PROVE  Name(t, f) \in DOMAIN m[i + 1] /\ \E k \in 1..j : m[i + 1][Name(t, f)].value \in Listed(t, rules[k])
      <4>1. CASE j \in 1..i
        BY <2>3, <2>5, <4>1 DEF S
      <4>2. CASE j = i + 1
        <5>1. f \in mine /\ Name(t, f) \in DOMAIN S
          BY <2>5, <4>2 DEF mine
        <5>2. \A g : ToRfcResponse(t, g).value = g
          BY DEF ToRfcResponse
        <5>3. CASE Name(t, f) \in DOMAIN m[i]
          <6>0. PICK k \in 1..i : \E g \in Listed(t, rules[k]) : m[i][Name(t, f)] = ToRfcResponse(t, g)
            BY <2>3, <5>3
          <6>1. PICK g \in Listed(t, rules[k]) : m[i][Name(t, f)] = ToRfcResponse(t, g)
            BY <6>0
          <6>2. k \in 1..j /\ S[Name(t, f)].value = g
            BY <2>0, <2>5, <4>2, <5>2, <5>3, <6>1
          <6>3. QED BY <5>1, <6>1, <6>2 DEF S
        <5>4. CASE \E g \in mine : S[Name(t, f)] = ToRfcResponse(t, g)
          BY <2>0, <4>2, <5>1, <5>2, <5>4 DEF S, mine
        <5>5. QED BY <2>5, <5>1, <5>3, <5>4
      <4>3. QED BY <2>0, <4>1, <4>2
    <3>2. QED BY <3>1
  <2>8. QED BY <2>0, <2>6, <2>7
<1>5. From(Len(rules)) /\ Has(Len(rules))
  <2>1. 0..Len(rules) \subseteq G
    <3> HIDE DEF G
    <3>1. QED BY <1>0, <1>3, <1>4, Induction
  <2>2. Len(rules) \in 0..Len(rules)
    BY <1>0
  <2>3. Len(rules) \in G
    BY <2>1, <2>2
  <2>4. QED BY <2>3
<1>6. \A n \in DOMAIN R : \E k \in DOMAIN rules : \E f \in Listed(t, rules[k]) :
                 Name(t, f) = n /\ R[n] = ToRfcResponse(t, f)
  BY <1>0, <1>1, <1>5
<1>7. ASSUME NEW j \in DOMAIN rules, NEW f \in Listed(t, rules[j])
      PROVE  Name(t, f) \in DOMAIN R /\ \E k \in 1..j : R[Name(t, f)].value \in Listed(t, rules[k])
  BY <1>0, <1>1, <1>5
<1>8. QED BY <1>6, <1>7

(* An order of a finite set lists each of its elements once.               *)
LEMMA OrdersList ==
    ASSUME NEW S, IsFiniteSet(S), NEW rank, NEW s \in Orders(S, rank)
    PROVE  /\ s \in Seq(S) /\ Len(s) = Cardinality(S)
           /\ \A x \in S : \E i \in DOMAIN s : s[i] = x
           /\ \A i, j \in DOMAIN s : s[i] = s[j] => i = j
           /\ \A i, j \in DOMAIN s : i < j => rank[s[i]] <= rank[s[j]]
<1> DEFINE n == Cardinality(S)
<1>1. n \in Nat
  BY FS_CardinalityType
<1>2. s \in [1..n -> S] /\ \A i, j \in 1..n : i # j => s[i] # s[j]
  BY DEF Orders, SetToSeqs
<1>3. s \in Injection(1..n, S)
  BY <1>2 DEF Injection, IsInjective
<1>4. Cardinality(1..n) = n
  BY <1>1, FS_Interval
<1>5. s \in Surjection(1..n, S)
  BY <1>3, <1>4, FS_Injection
<1>6. \A x \in S : \E i \in 1..n : s[i] = x
  BY <1>5 DEF Surjection
<1>7. s \in Seq(S) /\ DOMAIN s = 1..n /\ Len(s) = n
  BY <1>1, <1>2
<1>8. \A i, j \in DOMAIN s : i < j => rank[s[i]] <= rank[s[j]]
  BY DEF Orders
<1>9. QED BY <1>2, <1>6, <1>7, <1>8

(* When no two elements have the same rank there is only one.              *)
LEMMA OrdersUnique ==
    ASSUME NEW S, IsFiniteSet(S), NEW rank, \A x \in S : rank[x] \in Int,
           \A x, y \in S : rank[x] = rank[y] => x = y,
           NEW p \in Orders(S, rank), NEW q \in Orders(S, rank)
    PROVE  p = q
<1> DEFINE D == DOMAIN p
           B == {i \in D : p[i] # q[i]}
<1>1. /\ p \in Seq(S) /\ Len(p) = Cardinality(S) /\ \A x \in S : \E i \in D : p[i] = x
      /\ \A i, j \in D : p[i] = p[j] => i = j
      /\ \A i, j \in D : i < j => rank[p[i]] <= rank[p[j]]
  BY OrdersList
<1>2. /\ q \in Seq(S) /\ Len(q) = Cardinality(S) /\ \A x \in S : \E i \in DOMAIN q : q[i] = x
      /\ \A i, j \in DOMAIN q : q[i] = q[j] => i = j
      /\ \A i, j \in DOMAIN q : i < j => rank[q[i]] <= rank[q[j]]
  BY OrdersList
<1>3. DOMAIN q = D /\ D \subseteq Nat /\ (\A i \in D : p[i] \in S /\ q[i] \in S)
  BY <1>1, <1>2
<1>4. ASSUME B # {} PROVE FALSE
  <2>1. B \in SUBSET Nat
    BY <1>3
  <2>2. PICK i \in B : \A j \in B : i <= j
    BY <1>4, <2>1, SmallestCounterexample
  <2>3. i \in D /\ i \in Nat /\ p[i] # q[i] /\ p[i] \in S /\ q[i] \in S
    BY <1>3, <2>2
  <2>4. PICK j \in D : q[j] = p[i]
    BY <1>2, <1>3, <2>3
  <2>5. PICK k \in D : p[k] = q[i]
    BY <1>1, <1>3, <2>3
  <2>6. \A x \in D : x \in Nat /\ (x < i => p[x] = q[x])
    BY <1>3, <2>2
  <2>7. j > i
    <3>1. j # i
      BY <2>3, <2>4
    <3>2. ~(j < i)
      <4>1. j < i => p[j] = p[i]
        BY <2>4, <2>6
      <4>2. QED BY <1>1, <2>3, <3>1, <4>1
    <3>3. QED BY <2>3, <2>6, <3>1, <3>2
  <2>8. k > i
    <3>1. k # i
      BY <2>3, <2>5
    <3>2. ~(k < i)
      <4>1. k < i => q[k] = q[i]
        BY <2>5, <2>6
      <4>2. QED BY <1>2, <1>3, <2>3, <3>1, <4>1
    <3>3. QED BY <2>3, <2>6, <3>1, <3>2
  <2>9. rank[q[i]] <= rank[p[i]] /\ rank[p[i]] <= rank[q[i]]
    BY <1>1, <1>2, <1>3, <2>3, <2>4, <2>5, <2>7, <2>8
  <2>10. rank[p[i]] = rank[q[i]]
    BY <2>3, <2>9
  <2>11. QED BY <2>3, <2>10
<1>5. \A i \in D : p[i] = q[i]
  BY <1>4
<1>6. p \in [D -> S] /\ q \in [D -> S]
  <2>1. ASSUME NEW a \in Seq(S) PROVE a \in [DOMAIN a -> S]
    OBVIOUS
  <2>2. QED BY <1>1, <1>2, <1>3, <2>1
<1> HIDE DEF D
<1>7. QED BY <1>5, <1>6

-----------------------------------------------------------------------------
(* What Eval answers.                                                      *)
Answers(t, rules) == {FeatureMap(t, rules)[n] : n \in DOMAIN FeatureMap(t, rules)}

LEMMA MatchedFinite ==
    ASSUME NEW t, IsTable(t), NEW r, NEW rules \in ProcessFeatureRules(t, r)
    PROVE  /\ rules \in Seq(DOMAIN t.rules)
           /\ \A i \in DOMAIN rules : rules[i] \in Matched(t, r)
           /\ \A id \in Matched(t, r) : \E i \in DOMAIN rules : rules[i] = id
           /\ \A i, j \in DOMAIN rules : i < j => t.rules[rules[i]].priority <= t.rules[rules[j]].priority
           /\ IsFiniteSet(Answers(t, rules)) /\ Answers(t, rules) \subseteq Responses(t)
<1> DEFINE rank == [id \in DOMAIN t.rules |-> t.rules[id].priority]
<1>1. Matched(t, r) \subseteq DOMAIN t.rules
  BY DEF Matched
<1>2. IsFiniteSet(Matched(t, r))
  BY <1>1, FS_Subset DEF IsTable
<1>3. rules \in Orders(Matched(t, r), rank)
  BY DEF ProcessFeatureRules
<1> HIDE DEF rank
<1>4. /\ rules \in Seq(Matched(t, r)) /\ \A x \in Matched(t, r) : \E i \in DOMAIN rules : rules[i] = x
      /\ \A i, j \in DOMAIN rules : i < j => rank[rules[i]] <= rank[rules[j]]
  BY <1>2, <1>3, OrdersList
<1>5. rules \in Seq(DOMAIN t.rules) /\ \A i \in DOMAIN rules : rules[i] \in Matched(t, r) /\ rules[i] \in DOMAIN t.rules
  BY <1>1, <1>4
<1>6. \A i, j \in DOMAIN rules : i < j => t.rules[rules[i]].priority <= t.rules[rules[j]].priority
  BY <1>4, <1>5 DEF rank
<1>7. Answers(t, rules) \subseteq Responses(t)
  <2>1. \A n \in DOMAIN FeatureMap(t, rules) : \E k \in DOMAIN rules : \E f \in Listed(t, rules[k]) :
           FeatureMap(t, rules)[n] = ToRfcResponse(t, f)
    BY <1>5, FeaturesMapped
  <2>2. QED BY <2>1 DEF Answers, Responses, Listed
<1>8. IsFiniteSet(Responses(t))
  <2> DEFINE F == [id \in DOMAIN t.features |-> ToRfcResponse(t, id)]
  <2>1. F \in Surjection(DOMAIN t.features, Responses(t))
    BY DEF Surjection, Responses
  <2>2. QED BY <2>1, FS_Surjection DEF IsTable
<1>9. QED BY <1>4, <1>5, <1>6, <1>7, <1>8, FS_Subset

(* The features of the tables: for every feature a matched rule lists, the *)
(* answer has one of its name, of that rule or one of a better priority.   *)
LEMMA LiveFeatures ==
    ASSUME NEW t, IsTable(t), NEW r, NEW s \in Live(t, r)
    PROVE  /\ s \in Seq(Responses(t))
           /\ \A id \in Matched(t, r) : \A f \in Listed(t, id) : \E x \in DOMAIN s :
                 /\ s[x].name = t.features[f].name
                 /\ \E better \in Matched(t, r) : /\ s[x].value \in Listed(t, better)
                                                  /\ t.rules[better].priority <= t.rules[id].priority
<1>1. PICK rules \in ProcessFeatureRules(t, r) : s \in SortedResponses(Answers(t, rules))
  BY DEF Live, Answers
<1> DEFINE R == FeatureMap(t, rules)
           S == Answers(t, rules)
<1>2. /\ rules \in Seq(DOMAIN t.rules) /\ \A i \in DOMAIN rules : rules[i] \in Matched(t, r)
      /\ \A id \in Matched(t, r) : \E i \in DOMAIN rules : rules[i] = id
      /\ \A i, j \in DOMAIN rules : i < j => t.rules[rules[i]].priority <= t.rules[rules[j]].priority
      /\ IsFiniteSet(S) /\ S \subseteq Responses(t)
  BY MatchedFinite
<1>3. s \in Seq(S) /\ \A x \in S : \E i \in DOMAIN s : s[i] = x
  BY <1>1, <1>2, OrdersList DEF SortedResponses
<1>4. /\ \A n \in DOMAIN R : \E k \in DOMAIN rules : \E f \in Listed(t, rules[k]) :
            Name(t, f) = n /\ R[n] = ToRfcResponse(t, f)
      /\ \A j \in DOMAIN rules : \A f \in Listed(t, rules[j]) :
            Name(t, f) \in DOMAIN R /\ \E k \in 1..j : R[Name(t, f)].value \in Listed(t, rules[k])
  BY <1>2, FeaturesMapped
<1>5. \A n \in DOMAIN R : R[n] \in S /\ R[n].name = n
  <2>1. \A f : ToRfcResponse(t, f).name = Name(t, f)
    BY DEF ToRfcResponse, Name
  <2>2. QED BY <1>4, <2>1 DEF Answers
<1>6. s \in Seq(Responses(t))
  BY <1>2, <1>3
<1> HIDE DEF R, S
<1>7. ASSUME NEW id \in Matched(t, r), NEW f \in Listed(t, id)
      PROVE  \E x \in DOMAIN s :
                 /\ s[x].name = t.features[f].name
                 /\ \E better \in Matched(t, r) : /\ s[x].value \in Listed(t, better)
                                                  /\ t.rules[better].priority <= t.rules[id].priority
  <2>1. PICK j \in DOMAIN rules : rules[j] = id
    BY <1>2
  <2>2. PICK k \in 1..j : R[Name(t, f)].value \in Listed(t, rules[k])
    BY <1>4, <2>1
  <2>3. Name(t, f) \in DOMAIN R
    BY <1>4, <2>1
  <2>4. PICK x \in DOMAIN s : s[x] = R[Name(t, f)]
    BY <1>3, <1>5, <2>3
  <2>5. k \in DOMAIN rules /\ (k = j \/ k < j)
    BY <1>2
  <2>6. rules[k] \in Matched(t, r) /\ t.rules[rules[k]].priority <= t.rules[id].priority
    <3>1. t.rules[id].priority \in Int
      BY DEF IsTable, Matched
    <3>2. QED BY <1>2, <2>1, <2>5, <3>1
  <2>7. s[x].name = t.features[f].name /\ s[x].value \in Listed(t, rules[k])
    BY <1>5, <2>2, <2>3, <2>4 DEF Name
  <2>8. QED BY <2>6, <2>7
<1>8. QED BY <1>6, <1>7

(* Only these four attributes of a request matter.                         *)
SameDevice(r, q) == r.app = q.app /\ r.fw = q.fw /\ r.profile = q.profile /\ r.net = q.net

LEMMA LiveSame ==
    ASSUME NEW t, NEW r, NEW q, SameDevice(r, q) PROVE Live(t, r) = Live(t, q)
<1>1. Matched(t, r) = Matched(t, q)
  BY DEF Matched, Matches, SameDevice
<1>2. ProcessFeatureRules(t, r) = ProcessFeatureRules(t, q)
  BY <1>1 DEF ProcessFeatureRules
<1>3. QED BY <1>2 DEF Live

(* With distinct priorities and instances there is one answer.             *)
DistinctPriorities ==
    \A t \in Tables : \A id, x \in DOMAIN t.rules : t.rules[id].priority = t.rules[x].priority => id = x

LEMMA LiveUnique ==
    ASSUME DistinctPriorities, NEW t \in Tables, DistinctInstances(t), NEW r, NEW s \in Live(t, r), NEW q \in Live(t, r)
    PROVE  s = q
<1> DEFINE rank == [id \in DOMAIN t.rules |-> t.rules[id].priority]
           M == Matched(t, r)
<1>0. IsTable(t)
  BY FeatureControlConstants
<1>1. M \subseteq DOMAIN t.rules /\ IsFiniteSet(M)
  <2>1. M \subseteq DOMAIN t.rules
    BY DEF Matched
  <2>2. QED BY <1>0, <2>1, FS_Subset DEF IsTable
<1>2. \A x \in M : rank[x] \in Int
  BY <1>0, <1>1 DEF IsTable
<1>3. \A x, y \in M : rank[x] = rank[y] => x = y
  BY <1>1 DEF DistinctPriorities
<1>4. PICK a \in Orders(M, rank) : s \in SortedResponses(Answers(t, a))
  BY DEF Live, Answers, ProcessFeatureRules
<1>5. PICK b \in Orders(M, rank) : q \in SortedResponses(Answers(t, b))
  BY DEF Live, Answers, ProcessFeatureRules
<1>6. a \in ProcessFeatureRules(t, r)
  BY <1>4 DEF ProcessFeatureRules
<1> HIDE DEF rank, M
<1>7. a = b
  BY <1>1, <1>2, <1>3, <1>4, <1>5, OrdersUnique
<1> DEFINE S == Answers(t, a)
           inst == [x \in S |-> x.instance]
<1>8. IsFiniteSet(S) /\ S \subseteq Responses(t)
  BY <1>0, <1>6, MatchedFinite
<1>9. s \in Orders(S, inst) /\ q \in Orders(S, inst)
  BY <1>4, <1>5, <1>7 DEF SortedResponses
<1>10. ASSUME NEW x \in S, NEW y \in S PROVE inst[x] \in Int /\ (inst[x] = inst[y] => x = y)
  <2>1. PICK f \in DOMAIN t.features : x = ToRfcResponse(t, f)
    BY <1>8 DEF Responses
  <2>2. PICK g \in DOMAIN t.features : y = ToRfcResponse(t, g)
    BY <1>8 DEF Responses
  <2>3. inst[x] = t.features[f].instance /\ inst[y] = t.features[g].instance
    BY <2>1, <2>2 DEF ToRfcResponse
  <2>4. inst[x] = inst[y] => f = g
    BY <2>3 DEF DistinctInstances
  <2>5. inst[x] \in Int
    BY <1>0, <2>3 DEF IsTable
  <2>6. QED BY <2>1, <2>2, <2>4, <2>5
<1> HIDE DEF S, inst
<1>11. QED BY <1>8, <1>9, <1>10, OrdersUnique

-----------------------------------------------------------------------------
(* The features added by the post-processing.                              *)
AllResponses == UNION {Responses(t) : t \in Tables}

LEMMA PostResponses ==
    ASSUME NEW p, NEW b \in BOOLEAN
    PROVE  /\ PostProcessFeatureControl(p, b) \in Seq(Range(PostProcessFeatureControl(p, b)))
           /\ ~b => \A i \in DOMAIN PostProcessFeatureControl(p, b) :
                 PostProcessFeatureControl(p, b)[i].instance = 22 => PostProcessFeatureControl(p, b)[i].value = Unknown
<1> DEFINE H == When(p.account # Empty, <<Extra(21, p.account)>>)
           A == AccountIdFeature(p, b)
           P == PartnerFeature(p)
           X == {Extra(21, p.account), Extra(22, Unknown), Extra(23, "DTGR"), Extra(23, p.passed), Extra(23, p.partner)}
           Y == X \cup {Extra(22, IF p.pod # None THEN p.pod ELSE p.account)}
           s == PostProcessFeatureControl(p, b)
<1>0. ASSUME NEW S, NEW x \in S PROVE <<>> \in Seq(S) /\ <<x>> \in Seq(S)
  OBVIOUS
<1>1. H \in Seq(X) /\ P \in Seq(X) /\ H \in Seq(Y) /\ P \in Seq(Y)
  <2> HIDE DEF X, Y
  <2>1. \A v \in {p.account} : Extra(21, v) \in X
    BY DEF X
  <2>2. \A v \in {"DTGR", p.passed, p.partner} : Extra(23, v) \in X
    BY DEF X
  <2>3. H \in Seq(X)
    BY <1>0, <2>1 DEF When
  <2>4. P \in Seq(X)
    BY <1>0, <2>2 DEF When, PartnerFeature
  <2>5. X \subseteq Y
    BY DEF Y
  <2>6. \A q \in Seq(X) : q \in Seq(Y)
    BY <2>5
  <2> HIDE DEF H, P
  <2>7. QED BY <2>3, <2>4, <2>6
<1>2. A \in Seq(Y) /\ (~b => A \in Seq(X))
  <2>1. Extra(22, Unknown) \in X /\ Extra(22, Unknown) \in Y /\ Extra(22, IF p.pod # None THEN p.pod ELSE p.account) \in Y
    OBVIOUS
  <2> HIDE DEF X, Y
  <2>2. QED BY <1>0, <2>1 DEF AccountIdFeature, When
<1>3. s = H \o A \o P
  BY DEF PostProcessFeatureControl
<1> HIDE DEF H, A, P, X, Y
<1>4. s \in Seq(Y) /\ (~b => s \in Seq(X))
  <2>1. ASSUME NEW S, NEW c \in Seq(S), NEW d \in Seq(S), NEW e \in Seq(S) PROVE c \o d \o e \in Seq(S)
    OBVIOUS
  <2>2. QED BY <1>1, <1>2, <1>3, <2>1
<1> HIDE DEF s
<1>5. s \in Seq(Range(s))
  BY <1>4 DEF Range
<1>6. \A x \in X : x.instance = 22 => x.value = Unknown
  BY DEF X, Extra
<1>7. ~b => \A i \in DOMAIN s : s[i] \in X
  BY <1>4
<1>8. ~b => \A i \in DOMAIN s : s[i].instance = 22 => s[i].value = Unknown
  BY <1>6, <1>7
<1>9. QED BY <1>5, <1>8 DEF s

-----------------------------------------------------------------------------
(* The invariant of feature control.                                       *)

(* Types, but for the answer and the row.                                  *)
BaseOK ==
    /\ table \in Tables /\ config \in Configs /\ off \in BOOLEAN
    /\ xpc \subseteq {"rules", "offeredRules", "post"}
    /\ {"profile", "app", "fw", "net", "held"} \subseteq DOMAIN dev
    /\ dev.profile \in Profiles /\ dev.app \in Apps /\ dev.fw \in Firmwares /\ dev.net \in Networks
    /\ pc \in {"idle", "flags", "answer"} /\ asked \in 0..MaxRequests /\ changes \in 0..MaxChanges

(* Precook data is what the server would have answered.                    *)
DeviceOf(d, fw) == [profile |-> d.profile, app |-> d.app, fw |-> fw, net |-> d.net]
CookedOK(d) ==
    /\ d.table \in Tables /\ d.profile \in Profiles /\ d.ctx = CtxHash(d.profile)
    /\ d.rules \in Live(d.table, DeviceOf(d, d.fw))
    /\ d.offeredRules \in Live(d.table, DeviceOf(d, d.offered))
    /\ d.post = PostProcessFeatureControl(d.profile, TRUE)

Requested(r) ==
    /\ r = [profile |-> r.profile, app |-> r.app, fw |-> r.fw, net |-> r.net, secured |-> r.secured, hash |-> r.hash]
    /\ r.profile \in Profiles /\ r.secured \in BOOLEAN
RequestOK ==
    /\ precook # None => CookedOK(precook)
    /\ pc # "idle" => Requested(req)
    /\ pc = "answer" => /\ pre.data # None => CookedOK(pre.data)
                        /\ pre.can => Fits(pre.data)

(* The two parts of an answer, and where they are from.                    *)
CookedFor(d, r) == CtxHash(r.profile) = d.ctx /\ r.net = d.net
RulesFrom(a, s) ==
    IF a.rules = "live" THEN s \in Live(a.table, a.req)
    ELSE /\ CookedOK(a.data) /\ CookedFor(a.data, a.req)
         /\ \/ s = a.data.rules /\ a.req.fw = a.data.fw
            \/ s = a.data.offeredRules /\ a.req.fw = a.data.offered
PostFrom(a, p) ==
    IF a.post = "live" THEN p = PostProcessFeatureControl(a.req.profile, a.req.secured)
    ELSE /\ CookedOK(a.data) /\ a.req.secured /\ p = a.data.post
         /\ a.data.complete => CookedFor(a.data, a.req)
AnswerOK(a) ==
    /\ a.table \in Tables /\ Requested(a.req) /\ a.status \in {200, 304}
    /\ \/ a.status = 304 /\ a.body = <<>> /\ a.rules = "precook"
       \/ /\ \E s, p : a.hash = s \o p /\ RulesFrom(a, s) /\ PostFrom(a, p)
          /\ a.status = 304 <=> a.req.hash # NoHash /\ a.hash = a.req.hash
          /\ a.body = IF a.status = 304 THEN <<>> ELSE a.hash
AnswersOK ==
    /\ ans # None => AnswerOK(ans)
    /\ last # None => AnswerOK(last) /\ last.rules = "live" /\ last.post = "live"

(* The row of the metrics and what is still to be written into it.         *)
RowOK ==
    /\ {"partner", "hash", "features", "post"} \subseteq DOMAIN row
    /\ row.partner \in {Empty, "P1", "P2"} /\ RowHashOfFeatures
    /\ \A m \in goroutines :
          /\ m.partner \in {Unknown, Empty, "P1"}
          /\ \/ m.skip /\ m.hash = NoHash
             \/ ~m.skip /\ m.features = m.hash

FcInv == BaseOK /\ RequestOK /\ AnswersOK /\ RowOK

LEMMA FcInit_FcInv == FcInit => FcInv
<1> SUFFICES ASSUME FcInit PROVE FcInv
  OBVIOUS
<1>1. BaseOK
  <2>1. asked \in 0..MaxRequests /\ changes \in 0..MaxChanges
    BY FeatureControlConstants DEF FcInit
  <2>2. /\ {"profile", "app", "fw", "net", "held"} \subseteq DOMAIN dev
        /\ dev.profile \in Profiles /\ dev.app \in Apps /\ dev.fw \in Firmwares /\ dev.net \in Networks
    BY DEF FcInit
  <2>3. QED BY <2>1, <2>2 DEF FcInit, BaseOK
<1>2. RequestOK /\ AnswersOK
  BY DEF FcInit, RequestOK, AnswersOK
<1>3. RowOK
  BY DEF FcInit, RowOK, RowHashOfFeatures
<1>4. QED BY <1>1, <1>2, <1>3 DEF FcInv

LEMMA BaseStep == BaseOK /\ [FcNext]_fcVars => BaseOK'
<1> SUFFICES ASSUME BaseOK, [FcNext]_fcVars PROVE BaseOK'
  OBVIOUS
<1> USE DEF BaseOK
<1>0. Change => changes' \in 0..MaxChanges
  BY FeatureControlConstants DEF Change
<1>1. CASE Cook
  BY <1>0, <1>1, FeatureControlConstants DEF Cook
<1>2. CASE Receive
  <2>1. asked' \in 0..MaxRequests
    BY <1>2, FeatureControlConstants DEF Receive
  <2>2. QED BY <1>2, <2>1 DEF Receive
<1>3. CASE CheckPrecook
  BY <1>3 DEF CheckPrecook
<1>4. CASE ReturnNotModifiedFromPrecook
  BY <1>4 DEF ReturnNotModifiedFromPrecook
<1>5. CASE Answer
  <2>1. \E h : dev' = [dev EXCEPT !.held = h]
    BY <1>5 DEF Answer
  <2>2. /\ {"profile", "app", "fw", "net", "held"} \subseteq DOMAIN dev'
        /\ dev'.profile \in Profiles /\ dev'.app \in Apps /\ dev'.fw \in Firmwares /\ dev'.net \in Networks
    BY <2>1
  <2>3. QED BY <1>5, <2>2 DEF Answer
<1>6. CASE UpdatePenetrationMetrics
  BY <1>6 DEF UpdatePenetrationMetrics
<1>7. CASE SetFwPenetrationMetrics
  BY <1>0, <1>7 DEF SetFwPenetrationMetrics
<1>8. CASE UpdateTables
  BY <1>0, <1>8 DEF UpdateTables
<1>9. CASE SetLockdown
  BY <1>0, <1>9 DEF SetLockdown
<1>10. CASE DeviceChanges
  <2>1. /\ {"profile", "app", "fw", "net", "held"} \subseteq DOMAIN dev'
        /\ dev'.profile \in Profiles /\ dev'.app \in Apps /\ dev'.fw \in Firmwares /\ dev'.net \in Networks
    BY <1>10 DEF DeviceChanges
  <2>2. QED BY <1>0, <1>10, <2>1 DEF DeviceChanges
<1>11. CASE UNCHANGED fcVars
  BY <1>11 DEF fcVars
<1>12. QED BY <1>1, <1>2, <1>3, <1>4, <1>5, <1>6, <1>7, <1>8, <1>9, <1>10, <1>11 DEF FcNext

(* Precook data stays what the server would have answered, and the flags   *)
(* of a request are only on when the data fits it.                         *)
LEMMA RequestStep == BaseOK /\ RequestOK /\ [FcNext]_fcVars => RequestOK'
<1> SUFFICES ASSUME BaseOK, RequestOK, [FcNext]_fcVars PROVE RequestOK'
  OBVIOUS
<1>1. CASE Cook
  <2>1. PICK fw \in Firmwares, complete \in BOOLEAN :
          \E live \in Live(table, dev), offered \in Live(table, [dev EXCEPT !.fw = fw]) :
            precook' = [ctx |-> CtxHash(dev.profile), profile |-> dev.profile, app |-> dev.app,
                        fw |-> dev.fw, net |-> dev.net, offered |-> fw, complete |-> complete,
                        rules |-> live, offeredRules |-> offered, table |-> table,
                        post |-> PostProcessFeatureControl(dev.profile, TRUE)]
    BY <1>1 DEF Cook
  <2>2. PICK live \in Live(table, dev), offered \in Live(table, [dev EXCEPT !.fw = fw]) :
            precook' = [ctx |-> CtxHash(dev.profile), profile |-> dev.profile, app |-> dev.app,
                        fw |-> dev.fw, net |-> dev.net, offered |-> fw, complete |-> complete,
                        rules |-> live, offeredRules |-> offered, table |-> table,
                        post |-> PostProcessFeatureControl(dev.profile, TRUE)]
    BY <2>1
  <2> DEFINE d == precook'
  <2>3. /\ d.ctx = CtxHash(dev.profile) /\ d.profile = dev.profile /\ d.app = dev.app /\ d.fw = dev.fw
        /\ d.net = dev.net /\ d.offered = fw /\ d.rules = live /\ d.offeredRules = offered
        /\ d.table = table /\ d.post = PostProcessFeatureControl(dev.profile, TRUE)
    BY <2>2
  <2> HIDE DEF d
  <2>4. SameDevice(dev, DeviceOf(d, d.fw)) /\ SameDevice([dev EXCEPT !.fw = fw], DeviceOf(d, d.offered))
    BY <2>3 DEF SameDevice, DeviceOf, BaseOK
  <2>5. live \in Live(d.table, DeviceOf(d, d.fw))
    <3>1. Live(table, dev) = Live(table, DeviceOf(d, d.fw))
      BY <2>4, LiveSame
    <3>2. QED BY <2>2, <2>3, <3>1
  <2>6. offered \in Live(d.table, DeviceOf(d, d.offered))
    <3>1. Live(table, [dev EXCEPT !.fw = fw]) = Live(table, DeviceOf(d, d.offered))
      BY <2>4, LiveSame
    <3>2. QED BY <2>2, <2>3, <3>1
  <2>7. CookedOK(d)
    BY <2>3, <2>5, <2>6 DEF CookedOK, BaseOK
  <2>8. (pc # "idle")' = FALSE /\ (pc = "answer")' = FALSE
    BY <1>1 DEF Cook
  <2>9. QED BY <2>7, <2>8 DEF RequestOK, d
<1>2. CASE Receive
  <2>1. PICK secured \in BOOLEAN, hash \in {dev.held, NoHash} :
          req' = [profile |-> dev.profile, app |-> dev.app, fw |-> dev.fw, net |-> dev.net,
                  secured |-> secured, hash |-> hash]
    BY <1>2 DEF Receive
  <2>2. Requested(req')
    BY <2>1 DEF Requested, BaseOK
  <2>3. pc' = "flags" /\ precook' = precook
    BY <1>2 DEF Receive
  <2>4. QED BY <2>2, <2>3 DEF RequestOK
<1>3. CASE CheckPrecook
  <2>1. PICK data \in {precook, None} :
          LET on == ~off /\ (canPrecookRfcResponses \/ config.p304)
              d == IF on THEN data ELSE None
          IN  pre' = [data |-> d, can |-> on /\ canPrecookRfcResponses /\ Fits(d), p304 |-> on /\ config.p304 /\ Fits(d)]
    BY <1>3 DEF CheckPrecook
  <2>2. (pre'.data = None \/ pre'.data = precook) /\ (pre'.can => Fits(pre'.data))
    BY <2>1
  <2>3. pc = "flags" /\ UNCHANGED <<precook, req, config>>
    BY <1>3 DEF CheckPrecook
  <2>4. (Fits(pre.data))' = Fits(pre'.data)
    BY <2>3 DEF Fits, FwMatched, OfferedFwMatched
  <2>5. QED BY <2>2, <2>3, <2>4 DEF RequestOK
<1>4. CASE ReturnNotModifiedFromPrecook \/ Answer
  <2>1. pc' = "idle" /\ precook' = precook
    BY <1>4 DEF ReturnNotModifiedFromPrecook, Answer
  <2>2. QED BY <2>1 DEF RequestOK
<1>5. CASE \/ UpdatePenetrationMetrics \/ SetFwPenetrationMetrics \/ UpdateTables \/ SetLockdown \/ DeviceChanges
           \/ UNCHANGED fcVars
  <2>1. UNCHANGED <<precook, pc, req, pre, config>>
    BY <1>5 DEF UpdatePenetrationMetrics, SetFwPenetrationMetrics, UpdateTables, SetLockdown, DeviceChanges, fcVars
  <2>2. (Fits(pre.data))' = Fits(pre.data)
    BY <2>1 DEF Fits, FwMatched, OfferedFwMatched
  <2>3. QED BY <2>1, <2>2 DEF RequestOK
<1>6. QED BY <1>1, <1>2, <1>3, <1>4, <1>5 DEF FcNext

(* Both parts of an answer are computed for the request or were cooked for *)
(* one like it.                                                            *)
LEMMA AnswersStep == BaseOK /\ RequestOK /\ AnswersOK /\ [FcNext]_fcVars => AnswersOK'
<1> SUFFICES ASSUME BaseOK, RequestOK, AnswersOK, [FcNext]_fcVars PROVE AnswersOK'
  OBVIOUS
<1>1. CASE Receive
  <2>1. ans' = None /\ ((last' = ans /\ ans.rules = "live" /\ ans.post = "live") \/ last' = None)
    BY <1>1 DEF Receive
  <2>2. QED BY <2>1 DEF AnswersOK
<1>2. CASE ReturnNotModifiedFromPrecook
  <2>1. /\ ans' = [status |-> 304, rules |-> "precook", post |-> "precook", hash |-> req.hash,
                   body |-> <<>>, req |-> req, data |-> pre.data, table |-> table]
        /\ last' = last /\ pc = "answer"
    BY <1>2 DEF ReturnNotModifiedFromPrecook
  <2>2. Requested(req)
    BY <2>1 DEF RequestOK
  <2>3. AnswerOK(ans')
    <3>1. /\ ans'.status = 304 /\ ans'.body = <<>> /\ ans'.rules = "precook"
          /\ ans'.table = table /\ ans'.req = req
      BY <2>1
    <3>2. QED BY <2>2, <3>1 DEF AnswerOK, BaseOK
  <2>4. QED BY <2>1, <2>3 DEF AnswersOK
<1>3. CASE Answer
  <2>1. PICK s \in RulesPart.in :
          LET hash == s \o PostPart.resp
              same == req.hash # NoHash /\ hash = req.hash
          IN  ans' = [status |-> IF same THEN 304 ELSE 200, rules |-> RulesPart.from,
                      post |-> PostPart.from, hash |-> hash, body |-> IF same THEN <<>> ELSE hash,
                      req |-> req, data |-> pre.data, table |-> table]
    BY <1>3 DEF Answer
  <2> DEFINE a == ans'
             p == PostPart.resp
  <2>2. /\ a.hash = s \o p /\ a.req = req /\ a.data = pre.data /\ a.table = table
        /\ a.rules = RulesPart.from /\ a.post = PostPart.from
        /\ a.status = 304 <=> req.hash # NoHash /\ a.hash = req.hash
        /\ a.status \in {200, 304}
        /\ a.body = IF a.status = 304 THEN <<>> ELSE a.hash
    BY <2>1, SMTT(30)
  <2> HIDE DEF a, p
  <2>3. Requested(req) /\ (pre.data # None => CookedOK(pre.data)) /\ (pre.can => Fits(pre.data))
    BY <1>3 DEF Answer, RequestOK
  <2>4. RulesFrom(a, s)
    <3>1. CASE pre.can /\ InXpc("rules") /\ FwMatched(pre.data)
      <4>1. a.rules = "precook" /\ s = pre.data.rules
        BY <2>1, <2>2, <3>1 DEF RulesPart
      <4>2. CookedFor(pre.data, req) /\ req.fw = pre.data.fw /\ CookedOK(pre.data)
        BY <2>3, <3>1 DEF Fits, FwMatched, CookedFor
      <4>3. QED BY <2>2, <4>1, <4>2 DEF RulesFrom
    <3>2. CASE /\ ~(pre.can /\ InXpc("rules") /\ FwMatched(pre.data))
               /\ pre.can /\ InXpc("offeredRules") /\ OfferedFwMatched(pre.data)
      <4>1. a.rules = "precook" /\ s = pre.data.offeredRules
        BY <2>1, <2>2, <3>2 DEF RulesPart
      <4>2. CookedFor(pre.data, req) /\ req.fw = pre.data.offered /\ CookedOK(pre.data)
        BY <2>3, <3>2 DEF Fits, OfferedFwMatched, CookedFor
      <4>3. QED BY <2>2, <4>1, <4>2 DEF RulesFrom
    <3>3. CASE /\ ~(pre.can /\ InXpc("rules") /\ FwMatched(pre.data))
               /\ ~(pre.can /\ InXpc("offeredRules") /\ OfferedFwMatched(pre.data))
      <4>1. a.rules = "live" /\ s \in Live(table, req)
        BY <2>1, <2>2, <3>3 DEF RulesPart
      <4>2. QED BY <2>2, <4>1 DEF RulesFrom
    <3>4. QED BY <3>1, <3>2, <3>3
  <2>5. PostFrom(a, p)
    <3>1. CASE pre.can /\ pre.data # None /\ req.secured /\ InXpc("post")
      <4>1. a.post = "precook" /\ p = pre.data.post
        BY <2>2, <3>1 DEF PostPart, p
      <4>2. CookedOK(pre.data) /\ (pre.data.complete => CookedFor(pre.data, req))
        BY <2>3, <3>1 DEF Fits, CookedFor
      <4>3. QED BY <2>2, <3>1, <4>1, <4>2 DEF PostFrom
    <3>2. CASE ~(pre.can /\ pre.data # None /\ req.secured /\ InXpc("post"))
      <4>1. a.post = "live" /\ p = PostProcessFeatureControl(req.profile, req.secured)
        BY <2>2, <3>2 DEF PostPart, p
      <4>2. QED BY <2>2, <4>1 DEF PostFrom
    <3>3. QED BY <3>1, <3>2
  <2>6. AnswerOK(a)
    <3>1. \E x, y : a.hash = x \o y /\ RulesFrom(a, x) /\ PostFrom(a, y)
      BY <2>2, <2>4, <2>5
    <3>2. QED BY <2>2, <2>3, <3>1 DEF AnswerOK, BaseOK
  <2>7. last' = last
    BY <1>3 DEF Answer
  <2>8. QED BY <2>6, <2>7 DEF AnswersOK, a
<1>4. CASE \/ Cook \/ CheckPrecook \/ UpdatePenetrationMetrics \/ SetFwPenetrationMetrics \/ UpdateTables
           \/ SetLockdown \/ DeviceChanges \/ UNCHANGED fcVars
  <2>1. UNCHANGED <<ans, last>>
    BY <1>4 DEF Cook, CheckPrecook, UpdatePenetrationMetrics, SetFwPenetrationMetrics, UpdateTables, SetLockdown,
                DeviceChanges, fcVars
  <2>2. QED BY <2>1 DEF AnswersOK
<1>5. QED BY <1>1, <1>2, <1>3, <1>4 DEF FcNext

(* The goroutines write the partner and the hash as the row needs them, in *)
(* any order.                                                              *)
MetricsOK(m) ==
    /\ m.partner \in {Unknown, Empty, "P1"}
    /\ \/ m.skip /\ m.hash = NoHash
       \/ ~m.skip /\ m.features = m.hash

LEMMA RowStep == BaseOK /\ RequestOK /\ RowOK /\ [FcNext]_fcVars =>
                   RowOK' /\ (row.partner # Empty => row'.partner \notin {Unknown, Empty})
<1> SUFFICES ASSUME BaseOK, RequestOK, RowOK, [FcNext]_fcVars
             PROVE  RowOK' /\ (row.partner # Empty => row'.partner \notin {Unknown, Empty})
  OBVIOUS
<1>0. {Unknown, Empty} \cap {"P1", "P2"} = {}
  BY FeatureControlConstants
<1>1. \A m \in goroutines : MetricsOK(m)
  BY DEF RowOK, MetricsOK
<1>2. ASSUME {"partner", "hash", "features", "post"} \subseteq DOMAIN row',
             row'.partner \in {Empty, "P1", "P2"}, row'.hash # NoHash => row'.features = row'.hash,
             \A m \in goroutines' : MetricsOK(m)
      PROVE  RowOK'
  BY <1>2 DEF RowOK, MetricsOK, RowHashOfFeatures
<1>3. ASSUME row' = row, NEW m, MetricsOK(m), goroutines' = goroutines \cup {m}
      PROVE  RowOK'
  <2>1. \A x \in goroutines' : MetricsOK(x)
    BY <1>1, <1>3
  <2>2. QED BY <1>2, <1>3, <2>1 DEF RowOK, RowHashOfFeatures
<1>4. ASSUME row' = row PROVE row.partner # Empty => row'.partner \notin {Unknown, Empty}
  BY <1>0, <1>4 DEF RowOK
<1>5. pc = "answer" => req.profile.partner \in {Unknown, Empty, "P1"}
  <2>1. pc = "answer" => req.profile \in ProfileType
    BY FeatureControlConstants DEF RequestOK, Requested
  <2>2. QED BY <2>1 DEF ProfileType
<1>6. CASE ReturnNotModifiedFromPrecook
  <2> DEFINE m == Metrics(NoHash, None, <<>>, TRUE)
  <2>1. row' = row /\ goroutines' = goroutines \cup {m} /\ pc = "answer"
    BY <1>6 DEF ReturnNotModifiedFromPrecook, StartGoroutine
  <2>2. MetricsOK(m)
    BY <1>5, <2>1 DEF MetricsOK, Metrics
  <2> HIDE DEF m
  <2>3. QED BY <1>3, <1>4, <2>1, <2>2
<1>7. CASE Answer
  <2>1. PICK s \in RulesPart.in :
          LET hash == s \o PostPart.resp
          IN  StartGoroutine(Metrics(hash, hash, IF PostPart.from = "precook" THEN <<>> ELSE PostPart.resp, FALSE))
    BY <1>7 DEF Answer
  <2> DEFINE hash == s \o PostPart.resp
             post == IF PostPart.from = "precook" THEN <<>> ELSE PostPart.resp
             m == Metrics(hash, hash, post, FALSE)
  <2>2. row' = row /\ pc = "answer"
    BY <1>7 DEF Answer
  <2>3. goroutines' = goroutines \cup {m}
    BY <2>1 DEF StartGoroutine
  <2> HIDE DEF hash, post
  <2>4. MetricsOK(m)
    BY <1>5, <2>2 DEF MetricsOK, Metrics
  <2> HIDE DEF m
  <2>5. QED BY <1>3, <1>4, <2>2, <2>3, <2>4
<1>8. CASE UpdatePenetrationMetrics
  <2>1. PICK m \in goroutines : row' \in {row, SetRfcPenetrationMetrics(m)} /\ goroutines' = goroutines \ {m}
    BY <1>8 DEF UpdatePenetrationMetrics
  <2>2. \A x \in goroutines' : MetricsOK(x)
    BY <1>1, <2>1
  <2>3. CASE row' = row
    BY <1>2, <1>4, <2>2, <2>3 DEF RowOK, RowHashOfFeatures
  <2>4. CASE row' = SetRfcPenetrationMetrics(m)
    <3>1. /\ DOMAIN row' = DOMAIN row /\ row'.hash = m.hash
          /\ row'.partner = IF m.partner \in {Unknown, Empty} THEN row.partner ELSE m.partner
          /\ row'.features = IF m.skip THEN row.features ELSE m.features
      BY <2>4 DEF SetRfcPenetrationMetrics, RowOK
    <3>2. MetricsOK(m)
      BY <1>1
    <3>3. row'.hash # NoHash => row'.features = row'.hash
      BY <3>1, <3>2 DEF MetricsOK
    <3>4. /\ row'.partner \in {Empty, "P1", "P2"}
          /\ row.partner # Empty => row'.partner \notin {Unknown, Empty}
      BY <1>0, <3>1, <3>2 DEF MetricsOK, RowOK
    <3>5. {"partner", "hash", "features", "post"} \subseteq DOMAIN row'
      BY <3>1 DEF RowOK
    <3>6. QED BY <1>2, <2>2, <3>3, <3>4, <3>5
  <2>5. QED BY <2>1, <2>3, <2>4
<1>9. CASE SetFwPenetrationMetrics
  <2>1. PICK p \in {Unknown, "P2"} : row' = [row EXCEPT !.partner = IF p = Unknown THEN @ ELSE p]
    BY <1>9 DEF SetFwPenetrationMetrics
  <2>2. /\ DOMAIN row' = DOMAIN row /\ row'.hash = row.hash /\ row'.features = row.features
        /\ row'.partner = IF p = Unknown THEN row.partner ELSE p
    BY <2>1 DEF RowOK
  <2>3. /\ row'.partner \in {Empty, "P1", "P2"}
        /\ row.partner # Empty => row'.partner \notin {Unknown, Empty}
    BY <1>0, <2>2 DEF RowOK
  <2>4. goroutines' = goroutines
    BY <1>9 DEF SetFwPenetrationMetrics
  <2>5. row'.hash # NoHash => row'.features = row'.hash
    BY <2>2 DEF RowOK, RowHashOfFeatures
  <2>6. {"partner", "hash", "features", "post"} \subseteq DOMAIN row'
    BY <2>2 DEF RowOK
  <2>7. QED BY <1>1, <1>2, <2>3, <2>4, <2>5, <2>6
<1>10. CASE Cook \/ Receive \/ CheckPrecook \/ UpdateTables \/ SetLockdown \/ DeviceChanges \/ UNCHANGED fcVars
  <2>1. UNCHANGED <<row, goroutines>>
    BY <1>10 DEF Cook, Receive, CheckPrecook, UpdateTables, SetLockdown, DeviceChanges, fcVars
  <2>2. QED BY <1>4, <2>1 DEF RowOK, RowHashOfFeatures
<1>11. QED BY <1>6, <1>7, <1>8, <1>9, <1>10 DEF FcNext

LEMMA FcInvariance == FcSpec => []FcInv
<1>1. FcInv /\ [FcNext]_fcVars => FcInv'
  BY BaseStep, RequestStep, AnswersStep, RowStep DEF FcInv
<1>2. QED BY <1>1, FcInit_FcInv, PTL DEF FcSpec

-----------------------------------------------------------------------------
(* What an answer consists of, by where its parts are from.                *)
LEMMA RulesOfTables ==
    ASSUME NEW a, AnswerOK(a), NEW s, RulesFrom(a, s)
    PROVE  \E t \in Tables : s \in Seq(Responses(t))
<1>1. ASSUME NEW t \in Tables, NEW r, s \in Live(t, r) PROVE s \in Seq(Responses(t))
  BY <1>1, FeatureControlConstants, LiveFeatures
<1>2. CASE a.rules = "live"
  <2>1. a.table \in Tables /\ s \in Live(a.table, a.req)
    BY <1>2 DEF AnswerOK, RulesFrom
  <2>2. QED BY <1>1, <2>1
<1>3. CASE a.rules # "live"
  <2>1. a.data.table \in Tables /\ \E r : s \in Live(a.data.table, r)
    BY <1>3 DEF RulesFrom, CookedOK
  <2>2. QED BY <1>1, <2>1
<1>4. QED BY <1>2, <1>3

LEMMA PostOfProfile ==
    ASSUME NEW a, AnswerOK(a), NEW p, PostFrom(a, p)
    PROVE  \E q \in Profiles, b \in BOOLEAN : p = PostProcessFeatureControl(q, b) /\ (b => a.req.secured)
<1>1. CASE a.post = "live"
  BY <1>1 DEF AnswerOK, PostFrom, Requested
<1>2. CASE a.post # "live"
  BY <1>2 DEF PostFrom, CookedOK
<1>3. QED BY <1>1, <1>2

(* Precooked features are delivered to no request they were not cooked     *)
(* for, and the account id over no unsecured connection.                   *)
THEOREM AnswersFitDevice == FcSpec => []AnswerFitsDevice
<1>1. ASSUME FcInv PROVE AnswerFitsDevice
  <2>1. ans # None => AnswerOK(ans)
    BY <1>1 DEF FcInv, AnswersOK
  <2>2. PrecookFits
    <3> SUFFICES ASSUME ans # None, ans.status = 200, ans.rules = "precook", ans.req.app = ans.data.app,
                        ans.req.profile = ans.data.profile
                 PROVE  \E live \in Live(ans.data.table, ans.req) : SubSeq(ans.hash, 1, Len(live)) = live
      BY DEF PrecookFits
    <3>0. ans.status # 304
      OBVIOUS
    <3>1. PICK s, p : ans.hash = s \o p /\ RulesFrom(ans, s) /\ PostFrom(ans, p)
      BY <2>1, <3>0 DEF AnswerOK
    <3>2. PICK fw : s \in Live(ans.data.table, DeviceOf(ans.data, fw)) /\ ans.req.fw = fw
      BY <3>1 DEF RulesFrom, CookedOK
    <3>3. ans.req.net = ans.data.net
      BY <3>1 DEF RulesFrom, CookedFor
    <3>4. SameDevice(DeviceOf(ans.data, fw), ans.req)
      BY <3>2, <3>3 DEF SameDevice, DeviceOf
    <3>5. s \in Live(ans.data.table, ans.req)
      <4>1. Live(ans.data.table, DeviceOf(ans.data, fw)) = Live(ans.data.table, ans.req)
        BY <3>4, LiveSame
      <4>2. QED BY <3>2, <4>1
    <3>6. PICK t \in Tables : s \in Seq(Responses(t))
      BY <2>1, <3>1, RulesOfTables
    <3>7. PICK q \in Profiles, b \in BOOLEAN : p = PostProcessFeatureControl(q, b)
      BY <2>1, <3>1, PostOfProfile
    <3>8. p \in Seq(Range(p))
      BY <3>7, PostResponses
    <3>9. SubSeq(ans.hash, 1, Len(s)) = s
      <4>1. ASSUME NEW S, NEW R, NEW x \in Seq(S), NEW y \in Seq(R) PROVE SubSeq(x \o y, 1, Len(x)) = x
        <5>1. x \in Seq(S \cup R) /\ y \in Seq(S \cup R)
          OBVIOUS
        <5>2. QED BY <5>1
      <4>2. QED BY <3>1, <3>6, <3>8, <4>1
    <3>10. QED BY <3>5, <3>9
  <2>3. PostProcessingFits
    <3> SUFFICES ASSUME ans # None, ans.status = 200, ans.post = "precook", ans.data.complete
                 PROVE  CtxHash(ans.req.profile) = ans.data.ctx
      BY DEF PostProcessingFits
    <3>1. PICK p : PostFrom(ans, p)
      BY <2>1 DEF AnswerOK
    <3>2. QED BY <3>1 DEF PostFrom, CookedFor
  <2>4. AccountIdSecured
    <3> SUFFICES ASSUME ans # None, NEW i \in DOMAIN ans.body, ans.body[i].instance = 22, ans.body[i].value # Unknown
                 PROVE  ans.req.secured
      BY DEF AccountIdSecured
    <3>1. ans.body # <<>>
      OBVIOUS
    <3>2. ans.body = ans.hash
      BY <2>1, <3>1 DEF AnswerOK
    <3>3. PICK s, p : ans.hash = s \o p /\ RulesFrom(ans, s) /\ PostFrom(ans, p)
      BY <2>1, <3>1 DEF AnswerOK
    <3>4. PICK t \in Tables : s \in Seq(Responses(t))
      BY <2>1, <3>3, RulesOfTables
    <3>5. PICK q \in Profiles, b \in BOOLEAN : p = PostProcessFeatureControl(q, b) /\ (b => ans.req.secured)
      BY <2>1, <3>3, PostOfProfile
    <3>6. /\ p \in Seq(Range(p))
          /\ ~b => \A k \in DOMAIN p : p[k].instance = 22 => p[k].value = Unknown
      BY <3>5, PostResponses
    <3>7. \A x \in Responses(t) : x.instance # 22
      <4>1. \A id \in DOMAIN t.features : t.features[id].instance \in 0..20
        BY FeatureControlConstants DEF IsTable
      <4>2. \A id : ToRfcResponse(t, id).instance = t.features[id].instance
        BY DEF ToRfcResponse
      <4>3. QED BY <4>1, <4>2 DEF Responses
    <3>8. (\E k \in DOMAIN s : ans.body[i] = s[k]) \/ (\E k \in DOMAIN p : ans.body[i] = p[k])
      <4>1. ASSUME NEW S, NEW R, NEW x \in Seq(S), NEW y \in Seq(R), NEW k \in DOMAIN (x \o y)
            PROVE  (\E j \in DOMAIN x : (x \o y)[k] = x[j]) \/ (\E j \in DOMAIN y : (x \o y)[k] = y[j])
        <5>1. x \in Seq(S \cup R) /\ y \in Seq(S \cup R)
          OBVIOUS
        <5>2. CASE k <= Len(x)
          BY <5>1, <5>2
        <5>3. CASE k > Len(x)
          <6>1. k - Len(x) \in DOMAIN y /\ (x \o y)[k] = y[k - Len(x)]
            BY <5>1, <5>3
          <6>2. QED BY <6>1
        <5>4. QED BY <5>1, <5>2, <5>3
      <4>2. QED BY <3>2, <3>3, <3>4, <3>6, <4>1
    <3>9. ~(\E k \in DOMAIN s : ans.body[i] = s[k])
      BY <3>4, <3>7
    <3>10. QED BY <3>5, <3>6, <3>8, <3>9
  <2>5. QED BY <2>2, <2>3, <2>4 DEF AnswerFitsDevice
<1>2. QED BY <1>1, FcInvariance, PTL

-----------------------------------------------------------------------------
(* A feature name is answered by the best matching rule, and asking again  *)
(* with the hash that was given is answered 304.  The hypothesis is there  *)
(* because sort.Slice puts rules of one priority in any order.             *)
LEMMA BestRuleAnswered == ASSUME FcInv PROVE BestRuleAnswers
<1> DEFINE t == ans.table
           r == ans.req
           given == {ans.body[i] : i \in DOMAIN ans.body}
<1> SUFFICES ASSUME ans # None, ans.rules = "live", ans.status = 200,
                    NEW id \in Matched(t, r), NEW f \in Listed(t, id)
             PROVE  \E g \in given : /\ g.name = t.features[f].name
                                     /\ g.value # f =>
                                          \E better \in Matched(t, r) :
                                            /\ g.value \in Listed(t, better)
                                            /\ t.rules[better].priority <= t.rules[id].priority
  BY DEF BestRuleAnswers, Matched
<1>0. ans.status # 304
  OBVIOUS
<1>1. AnswerOK(ans)
  BY DEF FcInv, AnswersOK
<1>2. PICK s, p : ans.hash = s \o p /\ RulesFrom(ans, s) /\ PostFrom(ans, p)
  BY <1>0, <1>1 DEF AnswerOK
<1>3. ans.body = ans.hash /\ t \in Tables
  BY <1>0, <1>1 DEF AnswerOK
<1>4. s \in Live(t, r) /\ IsTable(t)
  BY <1>2, <1>3, FeatureControlConstants DEF RulesFrom
<1>5. s \in Seq(Responses(t))
  BY <1>4, LiveFeatures
<1>6. PICK x \in DOMAIN s :
        /\ s[x].name = t.features[f].name
        /\ \E better \in Matched(t, r) : /\ s[x].value \in Listed(t, better)
                                         /\ t.rules[better].priority <= t.rules[id].priority
  BY <1>4, LiveFeatures
<1>7. PICK q \in Profiles, b \in BOOLEAN : p = PostProcessFeatureControl(q, b)
  BY <1>1, <1>2, PostOfProfile
<1>8. p \in Seq(Range(p))
  BY <1>7, PostResponses
<1>9. x \in DOMAIN ans.body /\ ans.body[x] = s[x]
  <2>1. ASSUME NEW S, NEW R, NEW y \in Seq(S), NEW z \in Seq(R), NEW k \in DOMAIN y
        PROVE  k \in DOMAIN (y \o z) /\ (y \o z)[k] = y[k]
    <3>1. y \in Seq(S \cup R) /\ z \in Seq(S \cup R)
      OBVIOUS
    <3>2. QED BY <3>1
  <2>2. QED BY <1>2, <1>3, <1>5, <1>8, <2>1
<1>10. s[x] \in given
  BY <1>9
<1>11. QED BY <1>6, <1>10

LEMMA SameAgain == ASSUME DistinctPriorities, FcInv PROVE NotModifiedWhenSame
<1> SUFFICES ASSUME ans # None, last # None, ans.rules = "live", ans.post = "live",
                    ans.table = last.table, DistinctInstances(ans.table),
                    [ans.req EXCEPT !.hash = NoHash] = [last.req EXCEPT !.hash = NoHash],
                    ans.req.hash = last.hash, last.rules = "live", last.post = "live"
             PROVE  ans.status = 304
  <2>1. last # None => last.rules = "live" /\ last.post = "live"
    BY DEF FcInv, AnswersOK
  <2>2. QED BY <2>1 DEF NotModifiedWhenSame
<1>1. AnswerOK(ans) /\ AnswerOK(last)
  BY DEF FcInv, AnswersOK
<1>2. PICK s, p : ans.hash = s \o p /\ RulesFrom(ans, s) /\ PostFrom(ans, p)
  BY <1>1 DEF AnswerOK
<1>3. PICK u, v : last.hash = u \o v /\ RulesFrom(last, u) /\ PostFrom(last, v)
  BY <1>1 DEF AnswerOK
<1>4. SameDevice(ans.req, last.req) /\ ans.req.secured = last.req.secured
  <2> DEFINE a == ans.req
             b == last.req
  <2>1. /\ a = [profile |-> a.profile, app |-> a.app, fw |-> a.fw, net |-> a.net, secured |-> a.secured, hash |-> a.hash]
        /\ b = [profile |-> b.profile, app |-> b.app, fw |-> b.fw, net |-> b.net, secured |-> b.secured, hash |-> b.hash]
    BY <1>1 DEF AnswerOK, Requested
  <2> HIDE DEF a, b
  <2>2. {"profile", "app", "fw", "net", "secured", "hash"} = DOMAIN a /\ {"profile", "app", "fw", "net", "secured", "hash"} = DOMAIN b
    BY <2>1
  <2>3. [a EXCEPT !.hash = NoHash] = [b EXCEPT !.hash = NoHash]
    BY DEF a, b
  <2>4. \A k \in {"profile", "app", "fw", "net", "secured"} : a[k] = b[k]
    BY <2>2, <2>3
  <2>5. a.profile = b.profile /\ a.app = b.app /\ a.fw = b.fw /\ a.net = b.net /\ a.secured = b.secured
    BY <2>4
  <2>6. QED BY <2>5 DEF SameDevice, a, b
<1>5. ans.table \in Tables /\ s \in Live(ans.table, ans.req) /\ u \in Live(ans.table, last.req)
  BY <1>1, <1>2, <1>3 DEF AnswerOK, RulesFrom
<1>6. s = u
  <2>1. Live(ans.table, ans.req) = Live(ans.table, last.req)
    BY <1>4, LiveSame
  <2>2. u \in Live(ans.table, ans.req)
    BY <1>5, <2>1
  <2>3. QED BY <1>5, <2>2, LiveUnique
<1>7. p = v
  BY <1>2, <1>3, <1>4 DEF PostFrom, SameDevice
<1>8. ans.hash = ans.req.hash
  BY <1>2, <1>3, <1>6, <1>7
<1>9. ans.hash # NoHash
  <2>1. PICK t \in Tables : s \in Seq(Responses(t))
    BY <1>1, <1>2, RulesOfTables
  <2>2. PICK q \in Profiles, b \in BOOLEAN : p = PostProcessFeatureControl(q, b)
    BY <1>1, <1>2, PostOfProfile
  <2>3. p \in Seq(Range(p))
    BY <2>2, PostResponses
  <2> DEFINE A == UNION {Responses(x) : x \in Tables}
             B == UNION {Range(PostProcessFeatureControl(x, y)) : x \in Profiles, y \in BOOLEAN}
  <2>4. Responses(t) \subseteq A
    BY <2>1
  <2>5. Range(p) \subseteq B
    BY <2>2
  <2>6. NoHash \notin Seq(A \cup B)
    BY NoHashAssumption
  <2> HIDE DEF A, B
  <2>7. s \in Seq(A \cup B)
    BY <2>1, <2>4
  <2>8. p \in Seq(A \cup B)
    BY <2>3, <2>5
  <2>9. s \o p \in Seq(A \cup B)
    BY <2>7, <2>8
  <2>10. QED BY <1>2, <2>6, <2>9
<1>10. QED BY <1>1, <1>8, <1>9 DEF AnswerOK

(* The features answered and recorded are those of the tables.             *)
THEOREM FeaturesAreOfTables == ASSUME DistinctPriorities PROVE FcSpec => []FeaturesOfTables
<1>1. FcInv => FcTypeOK
  BY DEF FcInv, BaseOK, AnswersOK, AnswerOK, RowOK, FcTypeOK
<1>2. FcInv => RowHashOfFeatures
  BY DEF FcInv, RowOK
<1>3. FcInv => FeaturesOfTables
  BY <1>1, <1>2, BestRuleAnswered, SameAgain DEF FeaturesOfTables
<1>4. QED BY <1>3, FcInvariance, PTL

(* Which rule answers a feature name does not depend on that.              *)
THEOREM BestRulesAnswer == FcSpec => []BestRuleAnswers
BY BestRuleAnswered, FcInvariance, PTL

-----------------------------------------------------------------------------
(* The steps of a settings request leave the tables as they are.           *)
LEMMA RequestsOnlyRead ==
    [DcNext]_dcVars => (dcRequest' # dcRequest => UNCHANGED <<perm, two, sprof, sets, lus, vod>>)
<1> SUFFICES ASSUME [DcNext]_dcVars, dcRequest' # dcRequest PROVE UNCHANGED <<perm, two, sprof, sets, lus, vod>>
  OBVIOUS
<1>1. CASE SetParts \/ SetProfiles \/ UNCHANGED dcVars
  <2>1. dcRequest' = dcRequest
    BY <1>1 DEF SetParts, SetProfiles, dcVars
  <2>2. QED BY <2>1
<1>2. CASE GetContextMapAndSettingTypes
  <2>1. \E r, order : Begin(r, order)
    BY <1>2 DEF GetContextMapAndSettingTypes
  <2>2. QED BY <2>1 DEF Begin, dcTables
<1>3. CASE Eval
  <2>1. CASE \E d1, d2 \in Draws : ReadVodAndCopy(d1, d2)
    BY <2>1 DEF ReadVodAndCopy, dcTables
  <2>2. CASE NextRule \/ ReadDevice \/ ReadLogUpload \/ ReadRepository
    BY <2>2 DEF NextRule, ReadDevice, ReadLogUpload, ReadRepository, dcTables
  <2>3. QED BY <1>3, <2>1, <2>2 DEF Eval
<1>4. CASE Evaluated \/ GetPermanentProfileByTelemetryRule \/ NextType \/ GetSettingProfileBySettingRule
  BY <1>4 DEF Evaluated, GetPermanentProfileByTelemetryRule, NextType, GetSettingProfileBySettingRule, dcTables
<1>5. CASE GetTelemetryForContext \/ TelemetryTwo \/ GetTelemetryTwoProfileResponeDicts \/ Finish
  BY <1>5 DEF GetTelemetryForContext, TelemetryTwo, GetTelemetryTwoProfileResponeDicts, Finish, dcTables
<1>6. QED BY <1>1, <1>2, <1>3, <1>4, <1>5 DEF DcNext, Serve

(* Neither request spoils what it shares with others: the partner in the   *)
(* metrics row is never cleared, cached rows are never written.            *)
THEOREM SharedRowsAreKept == FcSpec /\ DcSpec => SharedRowsKept
<1>1. FcInv /\ [FcNext]_fcVars => (row.partner # Empty => row'.partner \notin {Unknown, Empty})
  BY RowStep DEF FcInv
<1>2. FcInv /\ [FcNext]_fcVars => [row.partner # Empty => row'.partner \notin {Unknown, Empty}]_fcVars
  BY <1>1
<1>3. FcSpec => PartnerKept
  BY <1>2, FcInvariance, PTL DEF FcSpec, PartnerKept
<1>4. [DcNext]_dcVars => [dcRequest' # dcRequest => UNCHANGED <<perm, two, sprof, sets, lus, vod>>]_dcVars
  BY RequestsOnlyRead
<1>5. DcSpec => CacheUntouched
  BY <1>4, PTL DEF DcSpec, CacheUntouched
<1>6. QED BY <1>3, <1>5 DEF SharedRowsKept

-----------------------------------------------------------------------------
(* The invariant of the device configuration.                              *)

Walking == at \in {"rules", "device", "logupload", "repository", "vod"}
Evaluating == at \in {"evaluated", "telemetry", "types", "profile"}
Filling == Evaluating \/ (at = "answered" /\ ask.kind = "settings")

PartType ==
    [dev : DevRows \cup {Nothing}, lus : LusRows \cup {Nothing}, url : {"url", Nothing}, vod : VodRows \cup {Nothing},
     bound : BoundIds \cup {Nothing}, type : STRING \cup {Nothing}]

TablesOK ==
    /\ sets \in [Formulas -> DevRows \cup {Nothing}] /\ lus \in [Formulas -> LusRows \cup {Nothing}]
    /\ vod \in [Formulas -> VodRows \cup {Nothing}] /\ perm \in ProfileRows \cup {Nothing}
    /\ summer \in BOOLEAN
    /\ two \in [DOMAIN two -> TwoRows \cup {Nothing}] /\ sprof = [i \in DOMAIN sprof |-> sprof[i]]
    /\ DOMAIN two \cap DOMAIN sprof = {} /\ BoundIds \subseteq DOMAIN sprof
    /\ TwoRules \in Seq([match : BOOLEAN, noOp : BOOLEAN, bound : Seq(DOMAIN two)])
    /\ touched \subseteq Formulas
    /\ \A i \in held : i \in DOMAIN two => two[i] # Nothing

StagesOK ==
    /\ at \in {"idle", "rules", "device", "logupload", "repository", "vod", "evaluated", "telemetry", "types",
               "profile", "temporary", "two", "answered"}
    /\ reply \in {Nothing, "ok", "notfound", "error", "aborted"}
    /\ at # "idle" => ask \in AskType /\ \E r \in Asks : r.kind = ask.kind /\ r.zone = ask.zone
    /\ Walking \/ Evaluating => ask.kind = "settings"
    /\ at = "two" => ask.kind = "telemetry2"
    /\ at = "temporary" => ask.kind = "checkNow"
    /\ found \in PartType
    /\ Walking \/ at \in {"evaluated", "telemetry"} => out \in Settings
    /\ Filling => out \in Settings \cup {Nothing}
    /\ Walking => left \in Seq(Formulas) /\ InPriorityOrder(left)
    /\ at \in {"device", "logupload", "repository", "vod"} => left # <<>> /\ Head(left) \in ask.matches
    /\ at = "profile" => ask.types # <<>>

(* A formula that was walked over and is complete is ranked no better than *)
(* the one whose parts are given.                                          *)
Rank(f) == FormulaOf[f].priority
GroupBy(f) == out # Nothing /\ out.group # Nothing /\ Rank(out.from) <= Rank(f)
VodBy(f) == out # Nothing /\ out.vod # Nothing /\ Rank(out.vod[1]) <= Rank(f)
Served(f) == (Complete(f) => GroupBy(f)) /\ (HasVod(f) => VodBy(f))
ServedOK ==
    /\ Walking => \A f \in Formulas : (\E i \in 1..Len(left) : left[i] = f) \/ Served(f)
    /\ Filling => \A f \in Formulas : Served(f)
RankedOK == Walking =>
    /\ out.group # Nothing => out.from \in Formulas /\ \A i \in 1..Len(left) : Rank(out.from) <= Rank(left[i])
    /\ out.vod # Nothing => out.vod[1] \in Formulas /\ \A i \in 1..Len(left) : Rank(out.vod[1]) <= Rank(left[i])

(* What was read of the formula at hand is still so, unless it changed.    *)
ReadBoth(h) ==
    /\ found.dev # Nothing /\ found.lus # Nothing /\ found.dev.active /\ found.lus.active
    /\ h \in touched \/ (found.dev = sets[h] /\ found.lus = lus[h])
ReadOK ==
    /\ at = "logupload" => Head(left) \in touched \/ found.dev = sets[Head(left)]
    /\ at = "repository" => ReadBoth(Head(left))
    /\ at = "vod" => IF found.dev = Nothing THEN ~Complete(Head(left)) ELSE ReadBoth(Head(left))

Active(s) ==
    \/ s.from \in touched
    \/ Complete(s.from) /\ s.group = sets[s.from].ver /\ s.lusName \in {Nothing, lus[s.from].ver}
ActiveOK == (Walking \/ Filling) /\ out \in Settings /\ out.from # Nothing => Active(out)

(* Setting profiles: what was read first still holds of the unchanged.     *)
AsRequested(s) ==
    /\ s.epon # Nothing /\ s.epon[1] \in held => TypeKey(s.epon[2]) = "epon"
    /\ s.partner # Nothing /\ s.partner[1] \in held => TypeKey(s.partner[2]) = "partnersettings"
ProfilesOK ==
    /\ at = "profile" => /\ found.bound \in BoundIds /\ found.type \in STRING
                         /\ found.bound \in held => TypeKey(sprof[found.bound]) = TypeKey(found.type)
    /\ (Walking \/ Filling) /\ out \in Settings => AsRequested(out)

(* Telemetry 2.0: a bound profile was answered or is still to be read.     *)
RuleType == [match : BOOLEAN, noOp : BOOLEAN, bound : Seq(DOMAIN two)]
Binds(r, id) == r.match /\ ~r.noOp /\ \E b \in 1..Len(r.bound) : r.bound[b] = id
Named(id) == \E i \in 1..Len(out) : out[i].name = two[id].name
NamesOnce == \A i, j \in 1..Len(out) : out[i].name = out[j].name => i = j
TwoOK ==
    /\ at = "two" =>
         /\ out \in Seq(TwoRows) /\ left \in Seq(RuleType) /\ NamesOnce
         /\ \A k \in 1..Len(TwoRules) : \A id \in held \cap DOMAIN two :
              Binds(TwoRules[k], id) => Named(id) \/ \E j \in 1..Len(left) : Binds(left[j], id)
    /\ at = "answered" /\ ask.kind = "telemetry2" =>
         /\ NamesOnce
         /\ \A k \in 1..Len(TwoRules) : \A id \in held \cap DOMAIN two : Binds(TwoRules[k], id) => Named(id)
         /\ reply = "notfound" => \A k \in 1..Len(TwoRules) : ~TwoRules[k].match

(* Settings that are answered have their type.                             *)
AnsweredOK ==
    /\ Answered("settings") /\ reply = "ok" => out \in Settings
    /\ answers \subseteq Settings

PartsInv ==
    TablesOK /\ StagesOK /\ ServedOK /\ RankedOK /\ ReadOK /\ ActiveOK /\ ProfilesOK /\ TwoOK /\ AnsweredOK

-----------------------------------------------------------------------------
(* The schedules that CopyGroup gives.                                     *)

ZoneType == [given : BOOLEAN, off : Int, dst : BOOLEAN]

(* The minute of a schedule depends on neither the zone nor the season.    *)
MinuteOf(cron, window, whole) ==
    IF whole \/ (cron.given /\ window > 0 /\ cron.ok)
    THEN ((IF whole THEN 0 ELSE cron.min) + getOffset(IF whole THEN 1440 ELSE window)) % 60
    ELSE cron.min

LEMMA AddedHours ==
    ASSUME summer \in BOOLEAN, NEW zone \in ZoneType
    PROVE  getAddedHoursToRandomizedCronByTimeZone(zone) \in Int
<1>1. zone.off \in Int /\ zone.given \in BOOLEAN /\ zone.dst \in BOOLEAN
  BY DEF ZoneType
<1>2. \A n \in Int : GoDiv(n, 60) \in Int
  BY DEF GoDiv
<1>3. QED BY <1>1, <1>2 DEF getAddedHoursToRandomizedCronByTimeZone

LEMMA ScheduledTimes ==
    ASSUME summer \in BOOLEAN, NEW zone \in ZoneType, NEW c, IsCron(c), NEW w \in Nat, NEW whole \in BOOLEAN, NEW mode,
           NEW R, R = Scheduled(c, w, whole, zone, mode)
    PROVE  /\ R \in Cron
           /\ R.ok => R.min \in 0..59 /\ R.hour < 24 /\ (mode # "UTC" => R.hour >= 0)
           /\ R.min = MinuteOf(c, w, whole)
           /\ ~whole /\ ~c.given => ~R.given
<1> DEFINE shift == IF mode = "UTC" THEN getAddedHoursToRandomizedCronByTimeZone(zone) ELSE 0
           offset == getOffset(IF whole THEN 1440 ELSE w)
           minutes == (IF whole THEN 0 ELSE c.min) + offset
           hours == (IF whole THEN 0 ELSE c.hour) + minutes \div 60
           X == [ok |-> TRUE, given |-> TRUE, min |-> minutes % 60, hour |-> GoMod(hours + shift, 24)]
           random == whole \/ (c.given /\ w > 0 /\ c.ok)
<1>1. shift \in Int /\ (mode # "UTC" => shift = 0)
  BY AddedHours
<1>2. c.ok \in BOOLEAN /\ c.given \in BOOLEAN /\ c.min \in Int /\ c.hour \in Int
  BY DEF IsCron, Cron
<1>3. ~random => R = c
  BY <1>2 DEF Scheduled, randomizeCronIfNecessary, randomizeCronEx, NoCron
<1>4. random => R = X
  BY <1>2 DEF Scheduled, randomizeCronIfNecessary, randomizeCronEx, NoCron
<1> HIDE DEF shift
<1>5. random => offset \in Nat
  <2>1. \A n \in Nat \ {0} : Hash % n \in Nat
    BY HashAssumption
  <2>2. QED BY <2>1 DEF getOffset
<1>6. random => minutes \in Nat
  BY <1>2, <1>5 DEF IsCron
<1> HIDE DEF offset, minutes
<1>7. random => hours \in Nat /\ minutes % 60 \in 0..59
  <2>1. random => minutes \div 60 \in Nat
    BY <1>6
  <2>2. QED BY <1>2, <1>6, <2>1 DEF IsCron
<1> HIDE DEF hours
<1>8. \A n \in Int : GoMod(n, 24) \in Int /\ GoMod(n, 24) < 24 /\ (n >= 0 => GoMod(n, 24) >= 0)
  BY DEF GoMod, GoDiv
<1>9. ASSUME random PROVE X \in Cron /\ X.min \in 0..59 /\ X.hour < 24 /\ (mode # "UTC" => X.hour >= 0)
  <2>1. hours + shift \in Int /\ (mode # "UTC" => hours + shift >= 0)
    BY <1>1, <1>7, <1>9
  <2>2. GoMod(hours + shift, 24) \in Int /\ GoMod(hours + shift, 24) < 24 /\ (mode # "UTC" => GoMod(hours + shift, 24) >= 0)
    BY <1>8, <2>1
  <2>3. QED BY <1>7, <1>9, <2>2 DEF Cron
<1>10. random => X.min = MinuteOf(c, w, whole)
  BY DEF MinuteOf, minutes, offset
<1>11. ~random => c.min = MinuteOf(c, w, whole)
  BY DEF MinuteOf
<1>12. CASE random
  BY <1>4, <1>9, <1>10, <1>12
<1>13. CASE ~random
  BY <1>3, <1>11, <1>13 DEF IsCron
<1>14. QED BY <1>12, <1>13

LEMMA NoCronIsCron == IsCron(NoCron) /\ NoCron \in Cron /\ ~NoCron.given /\ ~NoCron.ok
BY DEF IsCron, NoCron, Cron

LusPut(s, v, m, url) == [s EXCEPT !.lusName = v, !.lusMode = m, !.upload = TRUE, !.url = url]

LEMMA LusSet ==
    ASSUME NEW s \in Settings, NEW v \in Opt(Vers(LusRows)), NEW m \in Opt(Modes(LusRows)), NEW url \in Opt(Urls)
    PROVE  LusPut(s, v, m, url) \in Settings /\ LusPut(s, v, m, url).upload = TRUE
<1>1. LusPut(s, v, m, url) \in Settings
  BY DEF Settings, LusPut
<1>2. LusPut(s, v, m, url).upload = TRUE
  BY DEF Settings, LusPut
<1>3. QED BY <1>1, <1>2

LEMMA LusCleared ==
    ASSUME NEW s \in Settings,
           NEW R, R = [s EXCEPT !.lusName = Nothing, !.lusMode = Nothing, !.upload = FALSE, !.url = Nothing]
    PROVE  /\ R \in Settings /\ R.lusName = Nothing /\ R.lusMode = Nothing /\ ~R.upload /\ R.url = Nothing
           /\ R.group = s.group /\ R.from = s.from /\ R.cron = s.cron /\ R.mode = s.mode /\ R.lcron = s.lcron
           /\ R.levels = s.levels /\ R.vod = s.vod /\ R.epon = s.epon /\ R.partner = s.partner
<1>1. /\ R.lusName = Nothing /\ R.lusMode = Nothing /\ R.url = Nothing
      /\ R.group = s.group /\ R.from = s.from /\ R.cron = s.cron /\ R.mode = s.mode /\ R.lcron = s.lcron
      /\ R.levels = s.levels /\ R.vod = s.vod /\ R.epon = s.epon /\ R.partner = s.partner
  BY DEF Settings
<1>2. ~R.upload
  BY DEF Settings
<1>3. R \in Settings
  <2>1. \A S : Nothing \in Opt(S)
    BY DEF Opt
  <2>2. QED BY <2>1 DEF Settings
<1>4. QED BY <1>1, <1>2, <1>3

GroupFacts(R, s, f, d, l, url, copied, level) ==
    /\ R \in Settings /\ R.group = d.ver /\ R.from = f /\ R.mode = d.mode
    /\ R.vod = s.vod /\ R.epon = s.epon /\ R.partner = s.partner
    /\ R.cron = Scheduled(d.cron, d.window, FALSE, ask.zone, d.mode)
    /\ R.upload <=> (copied \/ level # 0)
    /\ R.lusName = (IF copied \/ level # 0 THEN l.ver ELSE Nothing)
    /\ R.lusMode = (IF copied \/ level # 0 THEN l.mode ELSE Nothing)
    /\ R.url = (IF copied \/ level # 0 THEN url ELSE Nothing)
    /\ R.lcron = Scheduled(IF copied THEN l.cron ELSE NoCron, IF copied THEN l.window ELSE 0, l.whole, ask.zone,
                           IF copied THEN l.mode ELSE Nothing)
    /\ R.levels = [i \in 1..3 |-> IF i # level THEN NoCron
                     ELSE Scheduled(<<l.l1, l.l2, l.l3>>[i], l.window, l.whole, ask.zone,
                                    IF copied THEN l.mode ELSE Nothing)]

LEMMA CopyGroupFacts ==
    ASSUME summer \in BOOLEAN, ask \in AskType, NEW s \in Settings, NEW f \in Formulas, NEW d \in DevRows, NEW l \in LusRows,
           NEW url \in {"url", Nothing}, NEW d1 \in Draws, NEW d2 \in Draws,
           NEW R, R = CopyGroup(s, f, d, l, url, d1, d2)
    PROVE  \E copied \in BOOLEAN, level \in 0..3 : GroupFacts(R, s, f, d, l, url, copied, level)
<1> DEFINE zone == ask.zone
           copied == d1 <= FormulaOf[f].percentage
           level == LevelOf(f, d2)
           dc == Scheduled(d.cron, d.window, FALSE, zone, d.mode)
           first == [s EXCEPT !.group = d.ver, !.from = f, !.mode = d.mode, !.cron = dc]
           base == CopyLusSetting(first, l, url, copied)
           mode == IF copied THEN l.mode ELSE Nothing
           lc == Scheduled(IF copied THEN l.cron ELSE NoCron, IF copied THEN l.window ELSE 0, l.whole, zone, mode)
           lv == [i \in 1..3 |-> IF i # level THEN NoCron
                                 ELSE Scheduled(<<l.l1, l.l2, l.l3>>[i], l.window, l.whole, zone, mode)]
           timed == [base EXCEPT !.lcron = lc, !.levels = lv]
<1>0. /\ copied \in BOOLEAN /\ zone \in ZoneType
      /\ IsCron(d.cron) /\ d.window \in Nat
      /\ l.whole \in BOOLEAN /\ l.window \in Nat /\ IsCron(l.cron) /\ IsCron(l.l1) /\ IsCron(l.l2) /\ IsCron(l.l3)
  BY DeviceConfigConstants DEF AskType, ZoneType
<1>1. level \in 0..3
  <2>1. FormulaOf[f].p1 \in Int /\ FormulaOf[f].p2 \in Int /\ FormulaOf[f].p3 \in Int /\ d2 \in Int
    BY DeviceConfigConstants, DrawsAssumption
  <2>2. QED BY <2>1 DEF LevelOf
<1>2. dc \in Cron
  BY <1>0, ScheduledTimes
<1>3. lc \in Cron
  BY <1>0, ScheduledTimes, NoCronIsCron
<1>4. lv \in [1..3 -> Cron]
  <2>1. ASSUME NEW i \in 1..3 PROVE Scheduled(<<l.l1, l.l2, l.l3>>[i], l.window, l.whole, zone, mode) \in Cron
    <3>1. IsCron(<<l.l1, l.l2, l.l3>>[i])
      BY <1>0
    <3> HIDE DEF mode, zone
    <3>2. QED BY <1>0, <3>1, ScheduledTimes
  <2>2. QED BY <2>1, NoCronIsCron
<1>b. l.ver \in Opt(Vers(LusRows)) /\ l.mode \in Opt(Modes(LusRows)) /\ url \in Opt(Urls)
  BY DEF Opt, Vers, Modes, Urls
<1> HIDE DEF level, copied, zone, dc
<1>5. /\ first \in Settings /\ first.group = d.ver /\ first.from = f /\ first.mode = d.mode /\ first.cron = dc
      /\ first.vod = s.vod /\ first.epon = s.epon /\ first.partner = s.partner
  <2>1. d.ver \in Opt(Vers(DevRows)) /\ d.mode \in Opt(Modes(DevRows)) /\ f \in Opt(Formulas)
    BY DEF Opt, Vers, Modes
  <2>2. QED BY <1>2, <2>1 DEF Settings
<1> HIDE DEF first
<1>6. /\ base \in Settings /\ base.group = d.ver /\ base.from = f /\ base.mode = d.mode /\ base.cron = dc
      /\ base.vod = s.vod /\ base.epon = s.epon /\ base.partner = s.partner
      /\ base.lusMode = mode /\ (base.upload <=> copied) /\ base.lusName = (IF copied THEN l.ver ELSE Nothing)
      /\ base.url = (IF copied THEN url ELSE Nothing)
  <2>1. CASE copied
    <3>1. base = LusPut(first, l.ver, l.mode, url)
      BY <2>1 DEF CopyLusSetting, LusPut
    <3> HIDE DEF base
    <3>2. /\ base \in Settings /\ base.lusName = l.ver /\ base.lusMode = l.mode /\ base.upload = TRUE /\ base.url = url
          /\ base.group = first.group /\ base.from = first.from /\ base.cron = first.cron /\ base.mode = first.mode
          /\ base.vod = first.vod /\ base.epon = first.epon /\ base.partner = first.partner
      <4>1. /\ base.lusName = l.ver /\ base.lusMode = l.mode /\ base.url = url
            /\ base.group = first.group /\ base.from = first.from /\ base.cron = first.cron /\ base.mode = first.mode
            /\ base.vod = first.vod /\ base.epon = first.epon /\ base.partner = first.partner
        BY <1>5, <3>1 DEF Settings, LusPut
      <4>2. base \in Settings /\ base.upload = TRUE
        BY <1>5, <1>b, <3>1, LusSet
      <4>3. QED BY <4>1, <4>2
    <3>3. QED BY <1>5, <2>1, <3>2
  <2>2. CASE ~copied
    <3>1. base = [first EXCEPT !.lusName = Nothing, !.lusMode = Nothing, !.upload = FALSE, !.url = Nothing]
      BY <2>2 DEF CopyLusSetting
    <3> HIDE DEF base
    <3>2. /\ base \in Settings /\ base.lusName = Nothing /\ base.lusMode = Nothing /\ ~base.upload /\ base.url = Nothing
          /\ base.group = first.group /\ base.from = first.from /\ base.cron = first.cron /\ base.mode = first.mode
          /\ base.vod = first.vod /\ base.epon = first.epon /\ base.partner = first.partner
      BY <1>5, <3>1, LusCleared, ZenonT(60)
    <3>3. QED BY <1>5, <2>2, <3>2
  <2>3. QED BY <2>1, <2>2
<1> HIDE DEF base, lc, lv
<1>7. /\ timed \in Settings /\ timed.group = d.ver /\ timed.from = f /\ timed.mode = d.mode /\ timed.cron = dc
      /\ timed.vod = s.vod /\ timed.epon = s.epon /\ timed.partner = s.partner
      /\ timed.lusMode = mode /\ (timed.upload <=> copied) /\ timed.lusName = (IF copied THEN l.ver ELSE Nothing)
      /\ timed.url = (IF copied THEN url ELSE Nothing) /\ timed.lcron = lc /\ timed.levels = lv
  <2> HIDE DEF mode
  <2>1. /\ timed.group = base.group /\ timed.from = base.from /\ timed.mode = base.mode /\ timed.cron = base.cron
        /\ timed.vod = base.vod /\ timed.epon = base.epon /\ timed.partner = base.partner
        /\ timed.lusMode = base.lusMode /\ timed.lusName = base.lusName
        /\ timed.url = base.url /\ timed.lcron = lc /\ timed.levels = lv
    BY <1>6 DEF Settings
  <2>2. timed.upload = base.upload
    BY <1>6 DEF Settings
  <2>3. timed \in Settings
    BY <1>3, <1>4, <1>6 DEF Settings
  <2> HIDE DEF timed
  <2>4. QED BY <1>6, <2>1, <2>2, <2>3
<1>8. R = IF ~copied /\ level # 0 THEN CopyLusSetting(timed, l, url, TRUE) ELSE timed
  <2>1. base.lusMode = mode
    BY <1>6
  <2> DEFINE lc2 == Scheduled(IF copied THEN l.cron ELSE NoCron, IF copied THEN l.window ELSE 0, l.whole, zone, base.lusMode)
             lv2 == [i \in 1..3 |-> IF i # level THEN NoCron
                                   ELSE Scheduled(<<l.l1, l.l2, l.l3>>[i], l.window, l.whole, zone, base.lusMode)]
             timed2 == [base EXCEPT !.lcron = lc2, !.levels = lv2]
  <2>2. R = IF ~copied /\ level # 0 THEN CopyLusSetting(timed2, l, url, TRUE) ELSE timed2
    BY DEF CopyGroup, base, first, dc, zone, copied, level
  <2>3. lc2 = lc /\ lv2 = lv
    BY <2>1 DEF lc, lv
  <2> HIDE DEF lc2, lv2
  <2>4. QED BY <2>2, <2>3
<1> HIDE DEF timed
<1>9. CASE ~copied /\ level # 0
  <2>1. R = LusPut(timed, l.ver, l.mode, url)
    BY <1>8, <1>9 DEF CopyLusSetting, LusPut
  <2>2. /\ R \in Settings /\ R.lusName = l.ver /\ R.lusMode = l.mode /\ R.upload = TRUE /\ R.url = url
        /\ R.group = timed.group /\ R.from = timed.from /\ R.cron = timed.cron /\ R.mode = timed.mode /\ R.lcron = timed.lcron
        /\ R.levels = timed.levels /\ R.vod = timed.vod /\ R.epon = timed.epon /\ R.partner = timed.partner
    <3>1. /\ R.lusName = l.ver /\ R.lusMode = l.mode /\ R.url = url
          /\ R.group = timed.group /\ R.from = timed.from /\ R.cron = timed.cron /\ R.mode = timed.mode
          /\ R.lcron = timed.lcron /\ R.levels = timed.levels
          /\ R.vod = timed.vod /\ R.epon = timed.epon /\ R.partner = timed.partner
      BY <1>7, <2>1 DEF Settings, LusPut
    <3>2. R \in Settings /\ R.upload = TRUE
      BY <1>7, <1>b, <2>1, LusSet
    <3>3. QED BY <3>1, <3>2
  <2>3. (copied \/ level # 0) = TRUE
    BY <1>9
  <2>4. /\ R.upload <=> (copied \/ level # 0)
        /\ R.lusName = (IF copied \/ level # 0 THEN l.ver ELSE Nothing)
        /\ R.lusMode = (IF copied \/ level # 0 THEN l.mode ELSE Nothing)
        /\ R.url = (IF copied \/ level # 0 THEN url ELSE Nothing)
    BY <1>9, <2>2, <2>3
  <2>5. R.cron = dc /\ R.lcron = lc /\ R.levels = lv
    BY <1>7, <2>2
  <2>6. GroupFacts(R, s, f, d, l, url, copied, level)
    BY <1>7, <2>2, <2>4, <2>5 DEF GroupFacts, lc, lv, dc, zone
  <2>7. QED BY <1>0, <1>1, <2>6
<1>10. CASE ~(~copied /\ level # 0)
  <2>1. R = timed
    BY <1>8, <1>10
  <2>2. (copied \/ level # 0) = copied
    BY <1>0, <1>10
  <2>3. /\ R.upload <=> (copied \/ level # 0)
        /\ R.lusName = (IF copied \/ level # 0 THEN l.ver ELSE Nothing)
        /\ R.lusMode = (IF copied \/ level # 0 THEN l.mode ELSE Nothing)
        /\ R.url = (IF copied \/ level # 0 THEN url ELSE Nothing)
    BY <1>7, <1>10, <2>1, <2>2
  <2>4. R.cron = dc /\ R.lcron = lc /\ R.levels = lv
    BY <1>7, <2>1
  <2>5. /\ R \in Settings /\ R.group = d.ver /\ R.from = f /\ R.mode = d.mode
        /\ R.vod = s.vod /\ R.epon = s.epon /\ R.partner = s.partner
    BY <1>7, <2>1
  <2>6. GroupFacts(R, s, f, d, l, url, copied, level)
    BY <2>3, <2>4, <2>5 DEF GroupFacts, lc, lv, dc, zone
  <2>7. QED BY <1>0, <1>1, <2>6
<1>11. QED BY <1>9, <1>10

(* CopySettings: the group is copied into empty settings, and then the VOD *)
(* settings.                                                               *)
SameButVod(R, g) ==
    /\ R.group = g.group /\ R.from = g.from /\ R.cron = g.cron /\ R.mode = g.mode /\ R.lusName = g.lusName
    /\ R.lusMode = g.lusMode /\ R.url = g.url /\ R.lcron = g.lcron /\ R.levels = g.levels
    /\ R.epon = g.epon /\ R.partner = g.partner /\ R.upload = g.upload

Takes(s, p) == s.group = Nothing /\ p.dev # Nothing
Grouped(s, f, p, d1, d2) == IF Takes(s, p) THEN CopyGroup(s, f, p.dev, p.lus, p.url, d1, d2) ELSE s

Copied(R, g, s, f, p) ==
    /\ R \in Settings /\ g \in Settings /\ SameButVod(R, g)
    /\ R.vod = (IF s.vod = Nothing /\ p.vod # Nothing THEN <<f, p.vod>> ELSE s.vod)
    /\ g.epon = s.epon /\ g.partner = s.partner
    /\ Takes(s, p) => g.group = p.dev.ver /\ g.from = f /\ g.lusName \in {Nothing, p.lus.ver}
    /\ ~Takes(s, p) => g = s

LEMMA CopyFacts ==
    ASSUME summer \in BOOLEAN, ask \in AskType, NEW s \in Settings, NEW f \in Formulas, NEW p \in PartType,
           p.dev # Nothing => p.lus # Nothing, NEW d1 \in Draws, NEW d2 \in Draws,
           NEW R, R = CopySettings(s, f, p, d1, d2), NEW g, g = Grouped(s, f, p, d1, d2)
    PROVE  Copied(R, g, s, f, p)
<1>1. /\ g \in Settings /\ g.epon = s.epon /\ g.partner = s.partner /\ g.vod = s.vod
      /\ Takes(s, p) => g.group = p.dev.ver /\ g.from = f /\ g.lusName \in {Nothing, p.lus.ver}
      /\ ~Takes(s, p) => g = s
  <2>1. CASE Takes(s, p)
    <3>1. p.dev \in DevRows /\ p.lus \in LusRows /\ p.url \in {"url", Nothing}
      BY <2>1 DEF PartType, Takes
    <3>2. g = CopyGroup(s, f, p.dev, p.lus, p.url, d1, d2)
      BY <2>1 DEF Grouped
    <3> DEFINE d == p.dev
               l == p.lus
               u == p.url
    <3> HIDE DEF d, l, u
    <3>a. g = CopyGroup(s, f, d, l, u, d1, d2) /\ d \in DevRows /\ l \in LusRows /\ u \in {"url", Nothing}
      BY <3>1, <3>2 DEF d, l, u
    <3>b. PICK copied \in BOOLEAN, level \in 0..3 : GroupFacts(g, s, f, d, l, u, copied, level)
      BY <3>a, CopyGroupFacts
    <3>3. /\ g \in Settings /\ g.group = p.dev.ver /\ g.from = f
          /\ g.vod = s.vod /\ g.epon = s.epon /\ g.partner = s.partner /\ g.lusName \in {Nothing, p.lus.ver}
      BY <3>b DEF GroupFacts, d, l
    <3>4. QED BY <2>1, <3>3
  <2>2. CASE ~Takes(s, p)
    BY <2>2 DEF Grouped
  <2>3. QED BY <2>1, <2>2
<1>2. R = IF s.vod = Nothing /\ p.vod # Nothing THEN [g EXCEPT !.vod = <<f, p.vod>>] ELSE g
  BY DEF CopySettings, Grouped, Takes
<1>3. CASE s.vod = Nothing /\ p.vod # Nothing
  <2>1. R = [g EXCEPT !.vod = <<f, p.vod>>]
    BY <1>2, <1>3
  <2>2. <<f, p.vod>> \in Opt(Formulas \X VodRows)
    BY <1>3 DEF Opt, PartType
  <2>3. R \in Settings
    BY <1>1, <2>1, <2>2 DEF Settings
  <2>4. /\ R.group = g.group /\ R.from = g.from /\ R.cron = g.cron /\ R.mode = g.mode /\ R.lusName = g.lusName
        /\ R.lusMode = g.lusMode /\ R.url = g.url /\ R.lcron = g.lcron /\ R.levels = g.levels
        /\ R.epon = g.epon /\ R.partner = g.partner /\ R.vod = <<f, p.vod>>
    BY <1>1, <2>1 DEF Settings
  <2>5. R.upload = g.upload
    BY <1>1, <2>1 DEF Settings
  <2>6. QED BY <1>1, <1>3, <2>3, <2>4, <2>5 DEF SameButVod, Copied
<1>4. CASE ~(s.vod = Nothing /\ p.vod # Nothing)
  <2>1. R = g
    BY <1>2, <1>4
  <2>2. QED BY <1>1, <1>4, <2>1 DEF SameButVod, Copied
<1>5. QED BY <1>3, <1>4

LEMMA NewSettingsType == NewSettings \in Settings
BY DEF NewSettings, Settings, Opt, NoCron, Cron

LEMMA NoPartType == NoPart \in PartType
BY DEF NoPart, PartType

LEMMA DcInit_PartsInv == DcInit => PartsInv
<1> SUFFICES ASSUME DcInit PROVE PartsInv
  OBVIOUS
<1>1. TablesOK
  <2>1. PICK t \in FirstTables : sets = t.dev /\ lus = t.lus /\ vod = t.vod /\ two = t.two /\ sprof = t.sprof
    BY DEF DcInit
  <2>2. /\ sets \in [Formulas -> DevRows \cup {Nothing}] /\ lus \in [Formulas -> LusRows \cup {Nothing}]
        /\ vod \in [Formulas -> VodRows \cup {Nothing}]
        /\ two \in [DOMAIN two -> TwoRows \cup {Nothing}] /\ sprof \in [DOMAIN sprof -> STRING]
        /\ DOMAIN two \cap DOMAIN sprof = {}
        /\ \A r \in SettingRules : r.bound \in DOMAIN sprof
        /\ TwoRules \in Seq([match : BOOLEAN, noOp : BOOLEAN, bound : Seq(DOMAIN two)])
    BY <2>1, DeviceConfigConstants
  <2>3. BoundIds \subseteq DOMAIN sprof
    BY <2>2 DEF BoundIds
  <2>4. sprof = [i \in DOMAIN sprof |-> sprof[i]]
    BY <2>2
  <2>5. QED BY <2>2, <2>3, <2>4 DEF TablesOK, DcInit
<1>2. StagesOK
  BY NoPartType DEF DcInit, StagesOK, Walking, Evaluating, Filling
<1>3. ServedOK /\ RankedOK /\ ReadOK /\ ActiveOK /\ ProfilesOK /\ TwoOK /\ AnsweredOK
  BY DEF DcInit, ServedOK, RankedOK, ReadOK, ActiveOK, ProfilesOK, TwoOK, AnsweredOK, Answered, Walking, Evaluating, Filling
<1>4. QED BY <1>1, <1>2, <1>3 DEF PartsInv

-----------------------------------------------------------------------------
(* Steps of the device configuration.                                      *)

(* The steps of a request but its first and last.                          *)
Reads ==
    \/ Eval \/ Evaluated \/ GetPermanentProfileByTelemetryRule \/ NextType \/ GetSettingProfileBySettingRule
    \/ GetTelemetryForContext \/ TelemetryTwo \/ GetTelemetryTwoProfileResponeDicts

LEMMA ReadsFrame == Reads => UNCHANGED <<dcTables, touched, held, answers>> /\ at # "idle" /\ at' # "idle"
<1>1. CASE Eval
  <2>1. CASE \E d1, d2 \in Draws : ReadVodAndCopy(d1, d2)
    BY <2>1 DEF ReadVodAndCopy, GhostsSame
  <2>2. CASE NextRule \/ ReadDevice \/ ReadLogUpload \/ ReadRepository
    BY <2>2 DEF NextRule, ReadDevice, ReadLogUpload, ReadRepository, GhostsSame
  <2>3. QED BY <1>1, <2>1, <2>2 DEF Eval
<1>2. CASE Evaluated \/ GetPermanentProfileByTelemetryRule \/ NextType \/ GetSettingProfileBySettingRule
  BY <1>2 DEF Evaluated, GetPermanentProfileByTelemetryRule, NextType, GetSettingProfileBySettingRule, GhostsSame
<1>3. CASE GetTelemetryForContext \/ TelemetryTwo \/ GetTelemetryTwoProfileResponeDicts
  BY <1>3 DEF GetTelemetryForContext, TelemetryTwo, GetTelemetryTwoProfileResponeDicts, GhostsSame
<1>4. QED BY <1>1, <1>2, <1>3 DEF Reads

LEMMA DcSteps ==
    [DcNext]_dcVars => \/ GetContextMapAndSettingTypes \/ Reads \/ Finish \/ SetParts \/ SetProfiles \/ UNCHANGED dcVars
BY DEF DcNext, Serve, Reads

(* An edit changes one formula, which is then touched, or one profile,     *)
(* which is then no longer held.                                           *)
Kept ==
    /\ \A f \in Formulas : f \notin touched' => sets'[f] = sets[f] /\ lus'[f] = lus[f] /\ vod'[f] = vod[f]
    /\ \A i \in held' : (i \in DOMAIN two => two'[i] = two[i]) /\ (i \in DOMAIN sprof => sprof'[i] = sprof[i])
    /\ held' \subseteq held

LEMMA SetPartsKept ==
    ASSUME TablesOK, SetParts
    PROVE  /\ sets' \in [Formulas -> DevRows \cup {Nothing}] /\ lus' \in [Formulas -> LusRows \cup {Nothing}]
           /\ vod' \in [Formulas -> VodRows \cup {Nothing}]
           /\ touched' \subseteq Formulas
           /\ UNCHANGED <<perm, sprof, two, summer, held, dcRequest, answers>>
           /\ at # "idle" => Kept /\ touched \subseteq touched'
<1>1. PICK f \in Formulas :
        /\ touched' = IF at = "idle" THEN {} ELSE touched \cup {f}
        /\ \/ \E r \in DevRows \cup {Nothing} : sets' = [sets EXCEPT ![f] = r] /\ UNCHANGED <<lus, vod>>
           \/ \E r \in LusRows \cup {Nothing} : lus' = [lus EXCEPT ![f] = r] /\ UNCHANGED <<sets, vod>>
           \/ \E r \in VodRows \cup {Nothing} : vod' = [vod EXCEPT ![f] = r] /\ UNCHANGED <<sets, lus>>
  BY DEF SetParts
<1>2. UNCHANGED <<perm, sprof, two, summer, held, dcRequest, answers>>
  BY DEF SetParts
<1>3. sets \in [Formulas -> DevRows \cup {Nothing}] /\ lus \in [Formulas -> LusRows \cup {Nothing}] /\ vod \in [Formulas -> VodRows \cup {Nothing}]
  BY DEF TablesOK
<1>4. /\ sets' \in [Formulas -> DevRows \cup {Nothing}] /\ lus' \in [Formulas -> LusRows \cup {Nothing}]
      /\ vod' \in [Formulas -> VodRows \cup {Nothing}]
      /\ \A g \in Formulas : g # f => sets'[g] = sets[g] /\ lus'[g] = lus[g] /\ vod'[g] = vod[g]
  <2>1. CASE \E r \in DevRows \cup {Nothing} : sets' = [sets EXCEPT ![f] = r] /\ UNCHANGED <<lus, vod>>
    BY <1>3, <2>1
  <2>2. CASE \E r \in LusRows \cup {Nothing} : lus' = [lus EXCEPT ![f] = r] /\ UNCHANGED <<sets, vod>>
    BY <1>3, <2>2
  <2>3. CASE \E r \in VodRows \cup {Nothing} : vod' = [vod EXCEPT ![f] = r] /\ UNCHANGED <<sets, lus>>
    BY <1>3, <2>3
  <2>4. QED BY <1>1, <2>1, <2>2, <2>3
<1>5. touched' \subseteq Formulas
  BY <1>1 DEF TablesOK
<1>6. at # "idle" => Kept /\ touched \subseteq touched'
  BY <1>1, <1>2, <1>4 DEF Kept
<1>7. QED BY <1>2, <1>4, <1>5, <1>6

LEMMA SetProfilesKept ==
    ASSUME TablesOK, SetProfiles
    PROVE  /\ perm' \in ProfileRows \cup {Nothing} /\ summer' \in BOOLEAN
           /\ two' \in [DOMAIN two -> TwoRows \cup {Nothing}] /\ DOMAIN sprof' = DOMAIN sprof
           /\ sprof' = [i \in DOMAIN sprof |-> sprof'[i]]
           /\ UNCHANGED <<sets, lus, vod, dcRequest, touched, answers>> /\ Kept
<1>1. UNCHANGED <<sets, lus, vod, dcRequest, touched, answers>>
  BY DEF SetProfiles
<1>2. /\ perm \in ProfileRows \cup {Nothing} /\ summer \in BOOLEAN /\ two \in [DOMAIN two -> TwoRows \cup {Nothing}]
      /\ sprof = [i \in DOMAIN sprof |-> sprof[i]] /\ DOMAIN two \cap DOMAIN sprof = {}
  BY DEF TablesOK
<1>3. CASE \E i \in DOMAIN sprof, t \in SettingTypes \cup {Nothing} :
             /\ sprof' = [sprof EXCEPT ![i] = t] /\ held' = held \ {i}
             /\ UNCHANGED <<perm, two, temp, repo, summer>>
  <2>1. PICK i \in DOMAIN sprof, t \in SettingTypes \cup {Nothing} :
          sprof' = [sprof EXCEPT ![i] = t] /\ held' = held \ {i} /\ UNCHANGED <<perm, two, summer>>
    BY <1>3
  <2>2. DOMAIN sprof' = DOMAIN sprof /\ \A j \in DOMAIN sprof : j # i => sprof'[j] = sprof[j]
    BY <1>2, <2>1
  <2>3. sprof' = [j \in DOMAIN sprof |-> sprof'[j]]
    BY <1>2, <2>1
  <2>4. Kept
    BY <1>1, <2>1, <2>2 DEF Kept
  <2>5. QED BY <1>1, <1>2, <2>1, <2>2, <2>3, <2>4
<1>4. CASE \E i \in DOMAIN two, r \in TwoRows \cup {Nothing} :
             /\ two' = [two EXCEPT ![i] = r] /\ held' = held \ {i}
             /\ UNCHANGED <<perm, sprof, temp, repo, summer>>
  <2>1. PICK i \in DOMAIN two, r \in TwoRows \cup {Nothing} :
          two' = [two EXCEPT ![i] = r] /\ held' = held \ {i} /\ UNCHANGED <<perm, sprof, summer>>
    BY <1>4
  <2>2. two' \in [DOMAIN two -> TwoRows \cup {Nothing}] /\ \A j \in DOMAIN two : j # i => two'[j] = two[j]
    BY <1>2, <2>1
  <2>3. Kept
    BY <1>1, <2>1, <2>2 DEF Kept
  <2>4. QED BY <1>1, <1>2, <2>1, <2>2, <2>3
<1>5. CASE /\ UNCHANGED <<sprof, two, held>>
           /\ perm' \in ProfileRows \cup {Nothing} /\ summer' \in BOOLEAN
  BY <1>1, <1>2, <1>5 DEF Kept
<1>6. QED BY <1>2, <1>3, <1>4, <1>5 DEF SetProfiles

LEMMA TablesStep == TablesOK /\ [DcNext]_dcVars => TablesOK' /\ (at # "idle" /\ at' # "idle" => Kept /\ touched \subseteq touched')
<1> SUFFICES ASSUME TablesOK, [DcNext]_dcVars
             PROVE  TablesOK' /\ (at # "idle" /\ at' # "idle" => Kept /\ touched \subseteq touched')
  OBVIOUS
<1>1. CASE GetContextMapAndSettingTypes
  <2>1. /\ UNCHANGED dcTables /\ touched' = {} /\ held' = {i \in DOMAIN two : two[i] # Nothing} \cup DOMAIN sprof
        /\ at = "idle"
    BY <1>1 DEF GetContextMapAndSettingTypes, Begin
  <2>2. QED BY <2>1 DEF TablesOK, dcTables
<1>2. CASE Reads \/ UNCHANGED dcVars
  <2>1. UNCHANGED <<dcTables, touched, held>>
    BY <1>2, ReadsFrame DEF dcVars
  <2>2. QED BY <2>1 DEF TablesOK, dcTables, Kept
<1>3. CASE Finish
  <2>1. UNCHANGED dcTables /\ touched' = {} /\ held' = {} /\ at' = "idle"
    BY <1>3 DEF Finish
  <2>2. QED BY <2>1 DEF TablesOK, dcTables
<1>4. CASE SetParts
  BY <1>4, SetPartsKept DEF TablesOK
<1>5. CASE SetProfiles
  <2>1. /\ perm' \in ProfileRows \cup {Nothing} /\ summer' \in BOOLEAN
        /\ two' \in [DOMAIN two -> TwoRows \cup {Nothing}] /\ DOMAIN sprof' = DOMAIN sprof
        /\ sprof' = [i \in DOMAIN sprof |-> sprof'[i]]
        /\ UNCHANGED <<sets, lus, vod, dcRequest, touched, answers>> /\ Kept
    BY <1>5, SetProfilesKept
  <2>2. DOMAIN two' = DOMAIN two
    BY <2>1
  <2>3. \A i \in held' : i \in DOMAIN two' => two'[i] # Nothing
    BY <2>1, <2>2 DEF Kept, TablesOK
  <2>4. QED BY <2>1, <2>2, <2>3 DEF TablesOK
<1>6. QED BY <1>1, <1>2, <1>3, <1>4, <1>5, DcSteps

LEMMA TailFacts ==
    ASSUME NEW S, NEW s \in Seq(S), s # <<>>
    PROVE  /\ Tail(s) \in Seq(S) /\ Head(s) \in S /\ Head(s) = s[1] /\ Len(s) \in Nat /\ Len(s) >= 1
           /\ Len(Tail(s)) = Len(s) - 1 /\ \A i \in 1..(Len(s) - 1) : Tail(s)[i] = s[i + 1]
OBVIOUS

LEMMA OrderedTail ==
    ASSUME left \in Seq(Formulas), left # <<>>, InPriorityOrder(left)
    PROVE  /\ Tail(left) \in Seq(Formulas) /\ InPriorityOrder(Tail(left))
           /\ \A i \in 1..Len(Tail(left)) : Rank(Head(left)) <= Rank(Tail(left)[i])
           /\ \A f : (\E i \in 1..Len(left) : left[i] = f) => f = Head(left) \/ \E i \in 1..Len(Tail(left)) : Tail(left)[i] = f
           /\ \A i \in 1..Len(Tail(left)) : \E j \in 1..Len(left) : Tail(left)[i] = left[j]
<1> DEFINE t == Tail(left)
           n == Len(left)
<1>1. /\ t \in Seq(Formulas) /\ Head(left) = left[1] /\ n \in Nat /\ n >= 1
      /\ Len(t) = n - 1 /\ \A i \in 1..(n - 1) : t[i] = left[i + 1]
  BY TailFacts
<1> HIDE DEF t, n
<1>2. \A i, j \in 1..n : i < j => FormulaOf[left[i]].priority <= FormulaOf[left[j]].priority
  BY DEF InPriorityOrder, n
<1>3. InPriorityOrder(t)
  <2> SUFFICES ASSUME NEW i \in 1..Len(t), NEW j \in 1..Len(t), i < j
               PROVE  FormulaOf[t[i]].priority <= FormulaOf[t[j]].priority
    BY DEF InPriorityOrder
  <2>1. i + 1 \in 1..n /\ j + 1 \in 1..n /\ i + 1 < j + 1 /\ t[i] = left[i + 1] /\ t[j] = left[j + 1]
    BY <1>1
  <2>2. QED BY <1>2, <2>1
<1>4. \A i \in 1..Len(t) : Rank(Head(left)) <= Rank(t[i])
  <2> SUFFICES ASSUME NEW i \in 1..Len(t) PROVE Rank(Head(left)) <= Rank(t[i])
    OBVIOUS
  <2>1. i + 1 \in 1..n /\ 1 \in 1..n /\ 1 < i + 1 /\ t[i] = left[i + 1] /\ Head(left) = left[1]
    BY <1>1
  <2>2. QED BY <1>2, <2>1 DEF Rank
<1>5. ASSUME NEW i \in 1..n PROVE left[i] = Head(left) \/ \E k \in 1..Len(t) : t[k] = left[i]
  <2>1. CASE i = 1
    BY <1>1, <2>1
  <2>2. CASE i # 1
    <3>1. i - 1 \in 1..Len(t) /\ t[i - 1] = left[i]
      BY <1>1, <2>2
    <3>2. QED BY <3>1
  <2>3. QED BY <2>1, <2>2
<1>6. ASSUME NEW i \in 1..Len(t) PROVE \E j \in 1..n : t[i] = left[j]
  <2>1. i + 1 \in 1..n /\ t[i] = left[i + 1]
    BY <1>1
  <2>2. QED BY <2>1
<1>7. QED BY <1>1, <1>3, <1>4, <1>5, <1>6 DEF t, n

(* What the later steps leave of the settings.                             *)
SameSchedule(R, s) ==
    /\ R.group = s.group /\ R.from = s.from /\ R.cron = s.cron /\ R.mode = s.mode /\ R.lusName = s.lusName
    /\ R.lusMode = s.lusMode /\ R.lcron = s.lcron /\ R.levels = s.levels /\ R.vod = s.vod
    /\ R.upload = s.upload

LEMMA PermanentFacts ==
    ASSUME TablesOK, StagesOK, GetPermanentProfileByTelemetryRule
    PROVE  /\ out \in Settings /\ out' \in Settings /\ SameSchedule(out', out)
           /\ out'.epon = out.epon /\ out'.partner = out.partner /\ (out.url = Nothing => out'.url = Nothing)
<1> DEFINE b == IF perm = Nothing THEN out ELSE [out EXCEPT !.telemetry = perm.ver, !.immediately = ask.immediately]
           u == IF b.url = Nothing THEN Nothing ELSE IF ask.v20 THEN "new" ELSE "old"
<1>1. out \in Settings /\ ask \in AskType
  BY DEF StagesOK, GetPermanentProfileByTelemetryRule
<1>2. out' = [b EXCEPT !.url = u]
  BY DEF GetPermanentProfileByTelemetryRule
<1>3. ask.immediately \in BOOLEAN
  BY <1>1 DEF AskType
<1>4. b \in Settings /\ SameSchedule(b, out) /\ b.url = out.url /\ b.epon = out.epon /\ b.partner = out.partner
  <2>1. CASE perm = Nothing
    BY <1>1, <2>1 DEF SameSchedule
  <2>2. CASE perm # Nothing
    <3>1. b = [out EXCEPT !.telemetry = perm.ver, !.immediately = ask.immediately]
      BY <2>2
    <3>2. perm.ver \in Opt(Vers(ProfileRows))
      BY <2>2 DEF TablesOK, Opt, Vers
    <3> HIDE DEF b
    <3>3. b \in Settings
      BY <1>1, <1>3, <3>1, <3>2 DEF Settings
    <3>4. /\ b.group = out.group /\ b.from = out.from /\ b.cron = out.cron /\ b.mode = out.mode /\ b.lusName = out.lusName
          /\ b.lusMode = out.lusMode /\ b.lcron = out.lcron /\ b.levels = out.levels /\ b.vod = out.vod
          /\ b.url = out.url /\ b.epon = out.epon /\ b.partner = out.partner
      BY <1>1, <3>1 DEF Settings
    <3>5. b.upload = out.upload
      BY <1>1, <3>1 DEF Settings
    <3>6. QED BY <3>3, <3>4, <3>5 DEF SameSchedule
  <2>3. QED BY <2>1, <2>2
<1> HIDE DEF b
<1>5. u \in Opt(Urls)
  BY DEF Opt, Urls
<1>6. b.url = Nothing => u = Nothing
  OBVIOUS
<1> HIDE DEF u
<1>7. out' \in Settings
  BY <1>2, <1>4, <1>5 DEF Settings
<1>8. /\ out'.group = b.group /\ out'.from = b.from /\ out'.cron = b.cron /\ out'.mode = b.mode /\ out'.lusName = b.lusName
      /\ out'.lusMode = b.lusMode /\ out'.lcron = b.lcron /\ out'.levels = b.levels /\ out'.vod = b.vod
      /\ out'.url = u /\ out'.epon = b.epon /\ out'.partner = b.partner
  BY <1>2, <1>4 DEF Settings
<1>9. out'.upload = b.upload
  BY <1>2, <1>4 DEF Settings
<1>10. QED BY <1>1, <1>4, <1>6, <1>7, <1>8, <1>9 DEF SameSchedule

LEMMA ProfileFacts ==
    ASSUME TablesOK, StagesOK, ProfilesOK, GetSettingProfileBySettingRule, NEW base,
           base = IF out = Nothing THEN NewSettings ELSE out
    PROVE  /\ base \in Settings
           /\ \/ out' = out
              \/ /\ out' \in Settings /\ SameSchedule(out', base) /\ out'.url = base.url
                 /\ \/ out'.epon = base.epon
                    \/ out'.epon = <<found.bound, found.type>> /\ TypeKey(sprof[found.bound]) = "epon"
                 /\ \/ out'.partner = base.partner
                    \/ out'.partner = <<found.bound, found.type>> /\ TypeKey(sprof[found.bound]) = "partnersettings"
<1> DEFINE row0 == sprof[found.bound]
           pair == <<found.bound, found.type>>
<1>1. out \in Settings \cup {Nothing}
  BY DEF StagesOK, GetSettingProfileBySettingRule, Filling, Evaluating
<1>2. base \in Settings
  BY <1>1, NewSettingsType
<1>3. pair \in Opt(BoundIds \X STRING)
  <2>1. found.bound \in BoundIds /\ found.type \in STRING
    BY DEF ProfilesOK, GetSettingProfileBySettingRule
  <2>2. QED BY <2>1 DEF Opt
<1>4. out' = CASE row0 = Nothing -> out
               [] row0 # Nothing /\ TypeKey(row0) = "epon" -> [base EXCEPT !.epon = pair]
               [] row0 # Nothing /\ TypeKey(row0) = "partnersettings" -> [base EXCEPT !.partner = pair]
               [] OTHER -> base
  BY DEF GetSettingProfileBySettingRule
<1>5. \/ out' = out \/ out' = base
      \/ TypeKey(row0) = "epon" /\ out' = [base EXCEPT !.epon = pair]
      \/ TypeKey(row0) = "partnersettings" /\ out' = [base EXCEPT !.partner = pair]
  BY <1>4
<1> HIDE DEF row0, pair
<1>6. CASE TypeKey(row0) = "epon" /\ out' = [base EXCEPT !.epon = pair]
  <2>1. out' \in Settings
    BY <1>2, <1>3, <1>6 DEF Settings
  <2>2. /\ out'.group = base.group /\ out'.from = base.from /\ out'.cron = base.cron /\ out'.mode = base.mode
        /\ out'.lusName = base.lusName
        /\ out'.lusMode = base.lusMode /\ out'.lcron = base.lcron /\ out'.levels = base.levels /\ out'.vod = base.vod
        /\ out'.url = base.url /\ out'.epon = pair /\ out'.partner = base.partner
    BY <1>2, <1>6 DEF Settings
  <2>3. out'.upload = base.upload
    BY <1>2, <1>6 DEF Settings
  <2>4. QED BY <1>2, <1>6, <2>1, <2>2, <2>3 DEF SameSchedule, row0, pair
<1>7. CASE TypeKey(row0) = "partnersettings" /\ out' = [base EXCEPT !.partner = pair]
  <2>1. out' \in Settings
    BY <1>2, <1>3, <1>7 DEF Settings
  <2>2. /\ out'.group = base.group /\ out'.from = base.from /\ out'.cron = base.cron /\ out'.mode = base.mode
        /\ out'.lusName = base.lusName
        /\ out'.lusMode = base.lusMode /\ out'.lcron = base.lcron /\ out'.levels = base.levels /\ out'.vod = base.vod
        /\ out'.url = base.url /\ out'.epon = base.epon /\ out'.partner = pair
    BY <1>2, <1>7 DEF Settings
  <2>3. out'.upload = base.upload
    BY <1>2, <1>7 DEF Settings
  <2>4. QED BY <1>2, <1>7, <2>1, <2>2, <2>3 DEF SameSchedule, row0, pair
<1>8. CASE out' = base
  BY <1>2, <1>8 DEF SameSchedule
<1>9. QED BY <1>2, <1>5, <1>6, <1>7, <1>8

LEMMA CopyStep ==
    ASSUME TablesOK, StagesOK, ReadOK, NEW d1 \in Draws, NEW d2 \in Draws, ReadVodAndCopy(d1, d2),
           NEW h, h = Head(left), NEW p, p = [found EXCEPT !.vod = vod[h]]
    PROVE  /\ h \in Formulas /\ p \in PartType /\ p.dev = found.dev /\ p.lus = found.lus /\ p.vod = vod[h]
           /\ (p.dev # Nothing => p.lus # Nothing)
           /\ out' = CopySettings(out, h, p, d1, d2)
           /\ Copied(out', Grouped(out, h, p, d1, d2), out, h, p)
<1>1. at = "vod" /\ out' = CopySettings(out, h, p, d1, d2)
  BY DEF ReadVodAndCopy
<1>2. out \in Settings /\ ask \in AskType /\ found \in PartType /\ left \in Seq(Formulas) /\ left # <<>>
  BY <1>1 DEF StagesOK, Walking
<1>3. h \in Formulas
  BY <1>2, TailFacts
<1>4. vod[h] \in VodRows \cup {Nothing} /\ summer \in BOOLEAN
  BY <1>3 DEF TablesOK
<1>5. p \in PartType /\ p.dev = found.dev /\ p.lus = found.lus /\ p.vod = vod[h]
  BY <1>2, <1>4 DEF PartType
<1>6. p.dev # Nothing => p.lus # Nothing
  BY <1>1, <1>5 DEF ReadOK, ReadBoth
<1>7. Copied(out', Grouped(out, h, p, d1, d2), out, h, p)
  BY <1>1, <1>2, <1>3, <1>4, <1>5, <1>6, CopyFacts
<1>8. QED BY <1>1, <1>3, <1>5, <1>6, <1>7

LEMMA BeginOrder ==
    ASSUME NEW order \in [1..Cardinality(Formulas) -> Formulas], getSortedDcmRules(order)
    PROVE  /\ order \in Seq(Formulas) /\ InPriorityOrder(order)
           /\ \A f \in Formulas : \E i \in 1..Len(order) : order[i] = f
<1> DEFINE n == Cardinality(Formulas)
<1>1. n \in Nat /\ IsFiniteSet(Formulas)
  BY DeviceConfigConstants, FS_CardinalityType
<1>2. order \in Seq(Formulas) /\ Len(order) = n
  BY <1>1
<1>3. InPriorityOrder(order) /\ \A i, j \in 1..n : i # j => order[i] # order[j]
  BY DEF getSortedDcmRules, Arrangements
<1>4. order \in Injection(1..n, Formulas)
  BY <1>3 DEF Injection, IsInjective
<1>5. Cardinality(1..n) = n
  BY <1>1, FS_Interval
<1>6. order \in Surjection(1..n, Formulas)
  BY <1>1, <1>4, <1>5, FS_Injection
<1>7. \A f \in Formulas : \E i \in 1..n : order[i] = f
  BY <1>6 DEF Surjection
<1>8. QED BY <1>2, <1>3, <1>7

(* The rest of the types a request leaves behind.                          *)
NextTypes == ask' = [ask EXCEPT !.types = Tail(@)]

LEMMA TypesTail ==
    ASSUME ask \in AskType, ask.types # <<>>, NextTypes
    PROVE  ask' \in AskType /\ ask'.kind = ask.kind /\ ask'.zone = ask.zone /\ ask'.matches = ask.matches
<1>1. ask.types \in Seq(STRING)
  BY DEF AskType
<1>2. Tail(ask.types) \in Seq(STRING)
  BY <1>1, TailFacts
<1>3. ask' = [ask EXCEPT !.types = Tail(ask.types)]
  BY DEF NextTypes
<1>4. ask' \in AskType
  BY <1>2, <1>3 DEF AskType
<1>5. ask'.kind = ask.kind /\ ask'.zone = ask.zone /\ ask'.matches = ask.matches
  BY <1>3 DEF AskType
<1>6. QED BY <1>4, <1>5

LEMMA StagesStep == TablesOK /\ StagesOK /\ ReadOK /\ ProfilesOK /\ [DcNext]_dcVars => StagesOK'
<1> SUFFICES ASSUME TablesOK, StagesOK, ReadOK, ProfilesOK, [DcNext]_dcVars PROVE StagesOK'
  OBVIOUS
<1>1. CASE GetContextMapAndSettingTypes
  <2>1. PICK r \in Asks, order \in [1..Cardinality(Formulas) -> Formulas] : getSortedDcmRules(order) /\ Begin(r, order)
    BY <1>1 DEF GetContextMapAndSettingTypes
  <2>2. order \in Seq(Formulas) /\ InPriorityOrder(order)
    BY <2>1, BeginOrder
  <2>3. r \in AskType /\ r.kind \in {"settings", "telemetry2", "checkNow"}
    BY DeviceConfigConstants DEF AskType
  <2>4. ask' = r /\ found' = NoPart /\ reply' = Nothing
    BY <2>1 DEF Begin
  <2>5. r.kind = "settings" => at' = "rules" /\ left' = order /\ out' = NewSettings
    BY <2>1 DEF Begin
  <2>6. r.kind = "telemetry2" => at' = "two"
    BY <2>1 DEF Begin
  <2>7. r.kind = "checkNow" => at' = "temporary"
    BY <2>1 DEF Begin
  <2>8. QED BY <2>2, <2>3, <2>4, <2>5, <2>6, <2>7, NewSettingsType, NoPartType
            DEF StagesOK, Walking, Evaluating, Filling
<1>2. CASE NextRule
  <2>1. at = "rules" /\ UNCHANGED <<ask, found, out, reply>>
    BY <1>2 DEF NextRule
  <2>2. \/ at' = "evaluated" /\ left' = left
        \/ at' = "device" /\ left' = left /\ left # <<>> /\ Head(left) \in ask.matches
        \/ at' = "rules" /\ left' = Tail(left) /\ left # <<>>
    BY <1>2 DEF NextRule
  <2>3. left \in Seq(Formulas) /\ InPriorityOrder(left)
    BY <2>1 DEF StagesOK, Walking
  <2>4. left # <<>> => Tail(left) \in Seq(Formulas) /\ InPriorityOrder(Tail(left))
    BY <2>3, OrderedTail
  <2>5. left' \in Seq(Formulas) /\ InPriorityOrder(left')
    BY <2>2, <2>3, <2>4
  <2>6. InPriorityOrder(left)' = InPriorityOrder(left')
    BY DEF InPriorityOrder
  <2>7. QED BY <2>1, <2>2, <2>5, <2>6 DEF StagesOK, Walking, Evaluating, Filling
<1>3. CASE ReadDevice \/ ReadLogUpload \/ ReadRepository
  <2>1. /\ UNCHANGED <<ask, left, out, reply>> /\ at \in {"device", "logupload", "repository"}
        /\ at' \in {"logupload", "repository", "vod"}
    BY <1>3 DEF ReadDevice, ReadLogUpload, ReadRepository
  <2>2. Head(left) \in Formulas /\ found \in PartType
    BY <2>1, TailFacts DEF StagesOK, Walking
  <2>3. sets[Head(left)] \in DevRows \cup {Nothing} /\ lus[Head(left)] \in LusRows \cup {Nothing}
    BY <2>2 DEF TablesOK
  <2>4. found' \in PartType
    <3>1. CASE ReadDevice
      <4>1. found' = [NoPart EXCEPT !.dev = sets[Head(left)]]
        BY <3>1 DEF ReadDevice
      <4>2. QED BY <2>3, <4>1, NoPartType DEF PartType
    <3>2. CASE ReadLogUpload
      <4>1. \/ lus[Head(left)] # Nothing /\ found' = [found EXCEPT !.lus = lus[Head(left)]]
            \/ found' = [found EXCEPT !.dev = Nothing]
        BY <3>2 DEF ReadLogUpload
      <4>2. QED BY <2>2, <2>3, <4>1 DEF PartType
    <3>3. CASE ReadRepository
      <4>1. found' = [found EXCEPT !.url = IF repo THEN "url" ELSE Nothing]
        BY <3>3 DEF ReadRepository
      <4>2. QED BY <2>2, <4>1 DEF PartType
    <3>4. QED BY <1>3, <3>1, <3>2, <3>3
  <2>5. InPriorityOrder(left)' = InPriorityOrder(left)
    BY <2>1 DEF InPriorityOrder
  <2>6. QED BY <2>1, <2>4, <2>5 DEF StagesOK, Walking, Evaluating, Filling
<1>4. CASE \E d1, d2 \in Draws : ReadVodAndCopy(d1, d2)
  <2>1. PICK d1 \in Draws, d2 \in Draws : ReadVodAndCopy(d1, d2)
    BY <1>4
  <2>2. at = "vod" /\ UNCHANGED <<ask, reply>> /\ at' = "rules" /\ left' = Tail(left) /\ found' = NoPart
    BY <2>1 DEF ReadVodAndCopy
  <2>3. out' \in Settings
    BY <2>1, CopyStep DEF Copied
  <2>4. left' \in Seq(Formulas) /\ InPriorityOrder(left')
    BY <2>2, OrderedTail DEF StagesOK, Walking
  <2>5. InPriorityOrder(left)' = InPriorityOrder(left')
    BY DEF InPriorityOrder
  <2>6. QED BY <2>2, <2>3, <2>4, <2>5, NoPartType DEF StagesOK, Walking, Evaluating, Filling
<1>5. CASE Evaluated
  <2>1. /\ at = "evaluated" /\ UNCHANGED <<ask, left, found, reply>>
        /\ (at' = "telemetry" /\ out' = out) \/ (at' = "types" /\ out' = Nothing)
    BY <1>5 DEF Evaluated
  <2>2. QED BY <2>1 DEF StagesOK, Walking, Evaluating, Filling
<1>6. CASE GetPermanentProfileByTelemetryRule
  <2>1. at = "telemetry" /\ at' = "types" /\ UNCHANGED <<ask, left, found, reply>>
    BY <1>6 DEF GetPermanentProfileByTelemetryRule
  <2>2. out' \in Settings
    BY <1>6, PermanentFacts
  <2>3. QED BY <2>1, <2>2 DEF StagesOK, Walking, Evaluating, Filling
<1>7. CASE NextType
  <2>1. at = "types" /\ ask \in AskType /\ ask.kind = "settings" /\ out \in Settings \cup {Nothing}
    BY <1>7 DEF NextType, StagesOK, Walking, Evaluating, Filling
  <2>2. \/ NextTypes /\ ask.types # <<>> /\ UNCHANGED <<at, found, out, reply, left>>
        \/ /\ ask.types # <<>> /\ at' = "profile" /\ UNCHANGED <<ask, out, reply, left>>
           /\ \E r \in SettingRules : found' = [NoPart EXCEPT !.bound = r.bound, !.type = Head(ask.types)]
        \/ at' = "answered" /\ reply' \in {"notfound", "ok"} /\ UNCHANGED <<ask, found, out, left>>
    BY <1>7 DEF NextType, NextTypes, GetMaxRule, GetSettingRulesBySettingType
  <2>3. CASE NextTypes /\ ask.types # <<>> /\ UNCHANGED <<at, found, out, reply, left>>
    <3>1. ask' \in AskType /\ ask'.kind = ask.kind /\ ask'.zone = ask.zone
      BY <2>1, <2>3, TypesTail
    <3>2. QED BY <2>1, <2>3, <3>1 DEF StagesOK, Walking, Evaluating, Filling
  <2>4. CASE /\ ask.types # <<>> /\ at' = "profile" /\ UNCHANGED <<ask, out, reply, left>>
             /\ \E r \in SettingRules : found' = [NoPart EXCEPT !.bound = r.bound, !.type = Head(ask.types)]
    <3>1. PICK r \in SettingRules : found' = [NoPart EXCEPT !.bound = r.bound, !.type = Head(ask.types)]
      BY <2>4
    <3>2. ask.types \in Seq(STRING)
      BY <2>1 DEF AskType
    <3>3. Head(ask.types) \in STRING
      BY <2>4, <3>2, TailFacts
    <3>4. r.bound \in BoundIds
      BY DEF BoundIds
    <3>5. found' \in PartType
      BY <3>1, <3>3, <3>4, NoPartType DEF PartType
    <3>6. QED BY <2>1, <2>4, <3>5 DEF StagesOK, Walking, Evaluating, Filling
  <2>5. CASE at' = "answered" /\ reply' \in {"notfound", "ok"} /\ UNCHANGED <<ask, found, out, left>>
    BY <2>1, <2>5 DEF StagesOK, Walking, Evaluating, Filling
  <2>6. QED BY <2>2, <2>3, <2>4, <2>5
<1>8. CASE GetSettingProfileBySettingRule
  <2>1. at = "profile" /\ at' = "types" /\ found' = NoPart /\ UNCHANGED <<left, reply>> /\ NextTypes
    BY <1>8 DEF GetSettingProfileBySettingRule, NextTypes
  <2>2. ask \in AskType /\ ask.types # <<>> /\ out \in Settings \cup {Nothing}
    BY <2>1 DEF StagesOK, Walking, Evaluating, Filling
  <2>3. ask' \in AskType /\ ask'.kind = ask.kind /\ ask'.zone = ask.zone
    BY <2>1, <2>2, TypesTail
  <2>4. out' \in Settings \cup {Nothing}
    BY <1>8, <2>2, ProfileFacts
  <2>5. QED BY <2>1, <2>3, <2>4, NoPartType DEF StagesOK, Walking, Evaluating, Filling
<1>9. CASE GetTelemetryForContext
  <2>1. /\ at = "temporary" /\ at' = "answered" /\ reply' \in {"aborted", "notfound"}
        /\ UNCHANGED <<ask, left, found, out>>
    BY <1>9 DEF GetTelemetryForContext
  <2>2. QED BY <2>1 DEF StagesOK, Walking, Evaluating, Filling
<1>10. CASE TelemetryTwo
  <2>1. at = "two" /\ UNCHANGED <<at, ask, found, reply>>
    BY <1>10 DEF TelemetryTwo
  <2>2. QED BY <2>1 DEF StagesOK, Walking, Evaluating, Filling
<1>11. CASE GetTelemetryTwoProfileResponeDicts
  <2>1. at = "two" /\ at' = "answered" /\ reply' \in {"error", "ok", "notfound"} /\ UNCHANGED <<ask, left, found, out>>
    BY <1>11 DEF GetTelemetryTwoProfileResponeDicts
  <2>2. QED BY <2>1 DEF StagesOK, Walking, Evaluating, Filling
<1>12. CASE Finish
  <2>1. at' = "idle" /\ found' = NoPart /\ reply' = Nothing
    BY <1>12 DEF Finish
  <2>2. QED BY <2>1, NoPartType DEF StagesOK, Walking, Evaluating, Filling
<1>13. CASE SetParts \/ SetProfiles \/ UNCHANGED dcVars
  <2>1. UNCHANGED <<at, ask, left, found, out, reply>>
    BY <1>13 DEF SetParts, SetProfiles, dcVars, dcRequest
  <2>2. InPriorityOrder(left)' = InPriorityOrder(left)
    BY <2>1 DEF InPriorityOrder
  <2>3. QED BY <2>1, <2>2 DEF StagesOK, Walking, Evaluating, Filling
<1>14. QED BY <1>1, <1>2, <1>3, <1>4, <1>5, <1>6, <1>7, <1>8, <1>9, <1>10, <1>11, <1>12, <1>13, DcSteps DEF Reads, Eval

-----------------------------------------------------------------------------
(* The walk over the formulas.                                             *)

LEMMA CompleteKept ==
    ASSUME Kept, touched \subseteq touched', ask'.matches = ask.matches, NEW f \in Formulas
    PROVE  /\ (Complete(f)' => Complete(f)) /\ (HasVod(f)' => HasVod(f))
           /\ f \notin touched' /\ Complete(f) => Complete(f)'
BY DEF Kept, Complete, HasVod

LEMMA MatchesKept == StagesOK /\ Reads => ask'.matches = ask.matches
<1> SUFFICES ASSUME StagesOK, Reads PROVE ask'.matches = ask.matches
  OBVIOUS
<1>1. CASE \E d1, d2 \in Draws : ReadVodAndCopy(d1, d2)
  BY <1>1 DEF ReadVodAndCopy
<1>2. CASE NextRule \/ ReadDevice \/ ReadLogUpload \/ ReadRepository
  BY <1>2 DEF NextRule, ReadDevice, ReadLogUpload, ReadRepository
<1>3. CASE NextType
  <2>1. at = "types" /\ ask \in AskType
    BY <1>3 DEF NextType, StagesOK
  <2>2. (NextTypes /\ ask.types # <<>>) \/ ask' = ask
    BY <1>3 DEF NextType, NextTypes
  <2>3. QED BY <2>1, <2>2, TypesTail
<1>4. CASE GetSettingProfileBySettingRule
  <2>1. at = "profile" /\ NextTypes
    BY <1>4 DEF GetSettingProfileBySettingRule, NextTypes
  <2>2. ask \in AskType /\ ask.types # <<>>
    BY <2>1 DEF StagesOK
  <2>3. QED BY <2>1, <2>2, TypesTail
<1>5. CASE Evaluated \/ GetPermanentProfileByTelemetryRule
  BY <1>5 DEF Evaluated, GetPermanentProfileByTelemetryRule
<1>6. CASE GetTelemetryForContext \/ TelemetryTwo \/ GetTelemetryTwoProfileResponeDicts
  BY <1>6 DEF GetTelemetryForContext, TelemetryTwo, GetTelemetryTwoProfileResponeDicts
<1>7. QED BY <1>1, <1>2, <1>3, <1>4, <1>5, <1>6 DEF Reads, Eval

(* While a request is served, a formula that is complete now was so before.*)
LEMMA CompleteBefore ==
    ASSUME TablesOK, StagesOK, [DcNext]_dcVars, at # "idle", at' # "idle", NEW f \in Formulas
    PROVE  /\ (Complete(f)' => Complete(f)) /\ (HasVod(f)' => HasVod(f))
           /\ f \notin touched' /\ Complete(f) => Complete(f)'
<1>1. Kept /\ touched \subseteq touched'
  BY TablesStep
<1>2. ask'.matches = ask.matches
  <2>1. CASE Reads
    BY <2>1, MatchesKept
  <2>2. CASE SetParts \/ SetProfiles \/ UNCHANGED dcVars
    BY <2>2 DEF SetParts, SetProfiles, dcVars, dcRequest
  <2>3. CASE GetContextMapAndSettingTypes \/ Finish
    BY <2>3 DEF GetContextMapAndSettingTypes, Begin, Finish
  <2>4. QED BY <2>1, <2>2, <2>3, DcSteps
<1>3. QED BY <1>1, <1>2, CompleteKept

LEMMA ServedKept ==
    ASSUME NEW f, Served(f), Complete(f)' => Complete(f), HasVod(f)' => HasVod(f),
           GroupBy(f) => GroupBy(f)', VodBy(f) => VodBy(f)'
    PROVE  Served(f)'
BY DEF Served

(* One formula is walked over.                                             *)
LEMMA CopyServes ==
    ASSUME TablesOK, StagesOK, ServedOK, RankedOK, ReadOK, NEW d1 \in Draws, NEW d2 \in Draws, ReadVodAndCopy(d1, d2),
           NEW h, h = Head(left)
    PROVE  /\ \A f \in Formulas : GroupBy(f) => GroupBy(f)'
           /\ \A f \in Formulas : VodBy(f) => VodBy(f)'
           /\ Complete(h) => GroupBy(h)'
           /\ HasVod(h) => VodBy(h)'
           /\ out'.group # Nothing => \/ out'.from = h
                                      \/ out.group # Nothing /\ out'.from = out.from
           /\ out'.vod # Nothing => \/ out'.vod[1] = h
                                    \/ out.vod # Nothing /\ out'.vod[1] = out.vod[1]
<1> DEFINE p == [found EXCEPT !.vod = vod[h]]
           g == Grouped(out, h, p, d1, d2)
<1>1. h \in Formulas /\ p \in PartType /\ p.dev = found.dev /\ p.lus = found.lus /\ p.vod = vod[h] /\ Copied(out', g, out, h, p)
  BY CopyStep
<1>2. at = "vod" /\ left \in Seq(Formulas) /\ left # <<>> /\ Walking
  BY DEF ReadVodAndCopy, StagesOK, Walking
<1> HIDE DEF p, g
<1>3. /\ out' \in Settings /\ out'.group = g.group /\ out'.from = g.from
      /\ out'.vod = (IF out.vod = Nothing /\ p.vod # Nothing THEN <<h, p.vod>> ELSE out.vod)
      /\ Takes(out, p) => g.group = p.dev.ver /\ g.from = h
      /\ ~Takes(out, p) => g = out
  BY <1>1 DEF Copied, SameButVod
<1>4. out' # Nothing
  BY <1>3, NothingAssumption
<1>5. h = left[1] /\ 1 \in 1..Len(left) /\ Rank(h) \in Int
  <2>1. h = left[1] /\ 1 \in 1..Len(left)
    BY <1>2, TailFacts
  <2>2. Rank(h) \in Int
    BY <1>1, DeviceConfigConstants DEF Rank
  <2>3. QED BY <2>1, <2>2
<1>6. /\ out.group # Nothing => Rank(out.from) <= Rank(h)
      /\ out.vod # Nothing => Rank(out.vod[1]) <= Rank(h)
  BY <1>2, <1>5 DEF RankedOK
<1>7. Takes(out, p) => p.dev.ver # Nothing
  <2>1. Takes(out, p) => p.dev \in DevRows
    BY <1>1 DEF PartType, Takes
  <2>2. QED BY <2>1, DeviceConfigConstants
<1>8. out.group # Nothing => ~Takes(out, p)
  BY DEF Takes
<1>9. /\ out.group # Nothing => out'.group # Nothing /\ out'.from = out.from
      /\ out.vod # Nothing => out'.vod = out.vod
  BY <1>3, <1>8
<1>10. ASSUME NEW f \in Formulas PROVE (GroupBy(f) => GroupBy(f)') /\ (VodBy(f) => VodBy(f)')
  BY <1>4, <1>9 DEF GroupBy, VodBy
<1>11. Complete(h) => GroupBy(h)'
  <2>1. Complete(h) => found.dev # Nothing
    BY <1>2 DEF ReadOK
  <2>2. CASE out.group # Nothing
    BY <1>4, <1>6, <1>9, <2>2 DEF GroupBy
  <2>3. CASE out.group = Nothing /\ found.dev # Nothing
    <3>1. Takes(out, p)
      BY <1>1, <2>3 DEF Takes
    <3>2. out'.group # Nothing /\ out'.from = h
      BY <1>3, <1>7, <3>1
    <3>3. Rank(h) <= Rank(h)
      BY <1>5
    <3>4. QED BY <1>4, <3>2, <3>3 DEF GroupBy
  <2>4. QED BY <2>1, <2>2, <2>3
<1>12. HasVod(h) => VodBy(h)'
  <2>1. CASE out.vod # Nothing
    BY <1>4, <1>6, <1>9, <2>1 DEF VodBy
  <2>2. CASE out.vod = Nothing /\ vod[h] # Nothing
    <3>1. out'.vod = <<h, vod[h]>>
      BY <1>1, <1>3, <2>2
    <3>2. vod[h] \in VodRows
      BY <1>1, <2>2 DEF TablesOK
    <3>3. <<h, vod[h]>> # Nothing
      BY <1>1, <3>2, NothingAssumption
    <3>4. out'.vod[1] = h
      BY <3>1
    <3>5. Rank(h) <= Rank(h)
      BY <1>5
    <3>6. QED BY <1>4, <3>1, <3>3, <3>4, <3>5 DEF VodBy
  <2>3. HasVod(h) => vod[h] # Nothing
    BY DEF HasVod
  <2>4. QED BY <2>1, <2>2, <2>3
<1>13. out'.group # Nothing => out'.from = h \/ (out.group # Nothing /\ out'.from = out.from)
  BY <1>3
<1>14. out'.vod # Nothing => out'.vod[1] = h \/ (out.vod # Nothing /\ out'.vod[1] = out.vod[1])
  <2>1. CASE out.vod = Nothing /\ p.vod # Nothing
    BY <1>3, <2>1
  <2>2. CASE ~(out.vod = Nothing /\ p.vod # Nothing)
    BY <1>3, <2>2
  <2>3. QED BY <2>1, <2>2
<1>15. QED BY <1>10, <1>11, <1>12, <1>13, <1>14

LEMMA ServedStep ==
    TablesOK /\ StagesOK /\ ServedOK /\ RankedOK /\ ReadOK /\ ProfilesOK /\ [DcNext]_dcVars => ServedOK'
<1> SUFFICES ASSUME TablesOK, StagesOK, ServedOK, RankedOK, ReadOK, ProfilesOK, [DcNext]_dcVars PROVE ServedOK'
  OBVIOUS
<1>0. ASSUME at # "idle", at' # "idle", NEW f \in Formulas, Served(f), GroupBy(f) => GroupBy(f)', VodBy(f) => VodBy(f)'
      PROVE  Served(f)'
  BY <1>0, CompleteBefore, ServedKept
<1>1. CASE GetContextMapAndSettingTypes
  <2>1. PICK r \in Asks, order \in [1..Cardinality(Formulas) -> Formulas] : getSortedDcmRules(order) /\ Begin(r, order)
    BY <1>1 DEF GetContextMapAndSettingTypes
  <2>2. \A f \in Formulas : \E i \in 1..Len(order) : order[i] = f
    BY <2>1, BeginOrder
  <2>3. at' \in {"rules", "two", "temporary"} /\ (at' = "rules" => left' = order)
    BY <2>1 DEF Begin
  <2>4. QED BY <2>2, <2>3 DEF ServedOK, Walking, Evaluating, Filling
<1>2. CASE NextRule
  <2>1. at = "rules" /\ UNCHANGED <<ask, out>> /\ Walking /\ at' # "idle"
    BY <1>2 DEF NextRule, Walking
  <2>2. left \in Seq(Formulas) /\ InPriorityOrder(left)
    BY <2>1 DEF StagesOK
  <2>3. ASSUME NEW f \in Formulas, Served(f) PROVE Served(f)'
    <3>1. (GroupBy(f) => GroupBy(f)') /\ (VodBy(f) => VodBy(f)')
      BY <2>1 DEF GroupBy, VodBy
    <3>2. QED BY <1>0, <2>1, <2>3, <3>1
  <2>4. CASE (left = <<>> \/ AreFull(out)) /\ at' = "evaluated"
    <3>1. ASSUME NEW f \in Formulas PROVE Served(f)
      <4>1. CASE left = <<>>
        BY <2>1, <4>1 DEF ServedOK
      <4>2. CASE AreFull(out)
        <5>1. out # Nothing
          BY <2>1, NothingAssumption DEF StagesOK
        <5>2. CASE \E i \in 1..Len(left) : left[i] = f
          BY <2>1, <4>2, <5>1, <5>2 DEF AreFull, RankedOK, Served, GroupBy, VodBy
        <5>3. QED BY <2>1, <5>2 DEF ServedOK
      <4>3. QED BY <2>4, <4>1, <4>2
    <3>2. QED BY <2>3, <2>4, <3>1 DEF ServedOK, Walking, Evaluating, Filling
  <2>5. CASE at' = "device" /\ left' = left
    BY <2>1, <2>3, <2>5 DEF ServedOK, Walking, Evaluating, Filling
  <2>6. CASE at' = "rules" /\ left' = Tail(left) /\ left # <<>> /\ Head(left) \notin ask.matches
    <3>1. \A f : (\E i \in 1..Len(left) : left[i] = f) => f = Head(left) \/ \E i \in 1..Len(left') : left'[i] = f
      BY <2>2, <2>6, OrderedTail
    <3>2. ASSUME NEW f \in Formulas, f = Head(left) PROVE Served(f)
      BY <2>6, <3>2 DEF Served, Complete, HasVod
    <3>3. ASSUME NEW f \in Formulas PROVE (\E i \in 1..Len(left') : left'[i] = f) \/ Served(f)'
      BY <2>1, <2>3, <3>1, <3>2 DEF ServedOK
    <3>4. QED BY <2>6, <3>3 DEF ServedOK, Walking, Evaluating, Filling
  <2>7. QED BY <1>2, <2>4, <2>5, <2>6 DEF NextRule
<1>3. CASE ReadDevice \/ ReadLogUpload \/ ReadRepository
  <2>1. UNCHANGED <<ask, left, out>> /\ Walking /\ at' \in {"logupload", "repository", "vod"} /\ at # "idle"
    BY <1>3 DEF ReadDevice, ReadLogUpload, ReadRepository, Walking
  <2>2. ASSUME NEW f \in Formulas, Served(f) PROVE Served(f)'
    <3>1. (GroupBy(f) => GroupBy(f)') /\ (VodBy(f) => VodBy(f)')
      BY <2>1 DEF GroupBy, VodBy
    <3>2. QED BY <1>0, <2>1, <2>2, <3>1
  <2>3. QED BY <2>1, <2>2 DEF ServedOK, Walking, Evaluating, Filling
<1>4. CASE \E d1, d2 \in Draws : ReadVodAndCopy(d1, d2)
  <2>1. PICK d1 \in Draws, d2 \in Draws : ReadVodAndCopy(d1, d2)
    BY <1>4
  <2>2. at = "vod" /\ at' = "rules" /\ left' = Tail(left) /\ Walking /\ left # <<>> /\ left \in Seq(Formulas) /\ InPriorityOrder(left)
    BY <2>1 DEF ReadVodAndCopy, StagesOK, Walking
  <2>3. PICK h : h = Head(left)
    OBVIOUS
  <2>4. /\ \A f \in Formulas : GroupBy(f) => GroupBy(f)'
        /\ \A f \in Formulas : VodBy(f) => VodBy(f)'
        /\ Complete(h) => GroupBy(h)'
        /\ HasVod(h) => VodBy(h)'
    BY <2>1, <2>3, CopyServes
  <2>5. ASSUME NEW f \in Formulas, Served(f) PROVE Served(f)'
    BY <1>0, <2>2, <2>4, <2>5
  <2>6. h \in Formulas => Served(h)'
    <3>1. h \in Formulas => (Complete(h)' => Complete(h)) /\ (HasVod(h)' => HasVod(h))
      BY <2>2, CompleteBefore
    <3>2. QED BY <2>4, <3>1 DEF Served
  <2>7. \A f : (\E i \in 1..Len(left) : left[i] = f) => f = h \/ \E i \in 1..Len(left') : left'[i] = f
    BY <2>2, <2>3, OrderedTail
  <2>8. ASSUME NEW f \in Formulas PROVE (\E i \in 1..Len(left') : left'[i] = f) \/ Served(f)'
    <3>1. CASE \E i \in 1..Len(left) : left[i] = f
      BY <2>6, <2>7, <3>1
    <3>2. CASE Served(f)
      BY <2>5, <3>2
    <3>3. QED BY <2>2, <3>1, <3>2 DEF ServedOK
  <2>9. QED BY <2>2, <2>8 DEF ServedOK, Walking, Evaluating, Filling
<1>5. CASE Evaluated
  <2>1. /\ at = "evaluated" /\ at' \in {"telemetry", "types"}
        /\ out' = out \/ (out.group = Nothing /\ out.vod = Nothing)
    BY <1>5 DEF Evaluated
  <2>2. ASSUME NEW f \in Formulas PROVE Served(f)'
    <3>1. Served(f)
      BY <2>1 DEF ServedOK, Filling, Evaluating
    <3>2. (GroupBy(f) => GroupBy(f)') /\ (VodBy(f) => VodBy(f)')
      BY <2>1 DEF GroupBy, VodBy
    <3>3. QED BY <1>0, <2>1, <3>1, <3>2
  <2>3. QED BY <2>1, <2>2 DEF ServedOK, Walking, Evaluating, Filling
<1>6. CASE GetPermanentProfileByTelemetryRule
  <2>1. at = "telemetry" /\ at' = "types"
    BY <1>6 DEF GetPermanentProfileByTelemetryRule
  <2>2. out' \in Settings /\ SameSchedule(out', out)
    BY <1>6, PermanentFacts
  <2>3. ASSUME NEW f \in Formulas PROVE Served(f)'
    <3>1. Served(f)
      BY <2>1 DEF ServedOK, Filling, Evaluating
    <3>2. (GroupBy(f) => GroupBy(f)') /\ (VodBy(f) => VodBy(f)')
      BY <2>2, NothingAssumption DEF GroupBy, VodBy, SameSchedule
    <3>3. QED BY <1>0, <2>1, <3>1, <3>2
  <2>4. QED BY <2>1, <2>3 DEF ServedOK, Walking, Evaluating, Filling
<1>7. CASE NextType
  <2>1. at = "types" /\ at' \in {"types", "profile", "answered"} /\ out' = out
    BY <1>7 DEF NextType
  <2>2. ASSUME NEW f \in Formulas PROVE Served(f)'
    <3>1. Served(f)
      BY <2>1 DEF ServedOK, Filling, Evaluating
    <3>2. (GroupBy(f) => GroupBy(f)') /\ (VodBy(f) => VodBy(f)')
      BY <2>1 DEF GroupBy, VodBy
    <3>3. QED BY <1>0, <2>1, <3>1, <3>2
  <2>3. QED BY <2>1, <2>2 DEF ServedOK, Walking, Evaluating, Filling
<1>8. CASE GetSettingProfileBySettingRule
  <2>1. at = "profile" /\ at' = "types"
    BY <1>8 DEF GetSettingProfileBySettingRule
  <2>2. out # Nothing => out' = out \/ (out' \in Settings /\ SameSchedule(out', out))
    BY <1>8, ProfileFacts
  <2>3. ASSUME NEW f \in Formulas PROVE Served(f)'
    <3>1. Served(f)
      BY <2>1 DEF ServedOK, Filling, Evaluating
    <3>2. (GroupBy(f) => GroupBy(f)') /\ (VodBy(f) => VodBy(f)')
      BY <2>2, NothingAssumption DEF GroupBy, VodBy, SameSchedule
    <3>3. QED BY <1>0, <2>1, <3>1, <3>2
  <2>4. QED BY <2>1, <2>3 DEF ServedOK, Walking, Evaluating, Filling
<1>9. CASE GetTelemetryForContext \/ TelemetryTwo \/ GetTelemetryTwoProfileResponeDicts
  <2>1. at \in {"temporary", "two"} /\ at' \in {"two", "answered"} /\ ask' = ask
    BY <1>9 DEF GetTelemetryForContext, TelemetryTwo, GetTelemetryTwoProfileResponeDicts
  <2>2. ask.kind # "settings"
    BY <2>1 DEF StagesOK
  <2>3. QED BY <2>1, <2>2 DEF ServedOK, Walking, Evaluating, Filling
<1>10. CASE Finish
  <2>1. at' = "idle"
    BY <1>10 DEF Finish
  <2>2. QED BY <2>1 DEF ServedOK, Walking, Evaluating, Filling
<1>11. CASE SetParts \/ SetProfiles \/ UNCHANGED dcVars
  <2>1. UNCHANGED <<at, ask, left, out>>
    BY <1>11 DEF SetParts, SetProfiles, dcVars, dcRequest
  <2>2. ASSUME NEW f \in Formulas, Served(f), at # "idle" PROVE Served(f)'
    <3>1. (GroupBy(f) => GroupBy(f)') /\ (VodBy(f) => VodBy(f)')
      BY <2>1 DEF GroupBy, VodBy
    <3>2. QED BY <1>0, <2>1, <2>2, <3>1
  <2>3. QED BY <2>1, <2>2 DEF ServedOK, Walking, Evaluating, Filling
<1>12. QED BY <1>1, <1>2, <1>3, <1>4, <1>5, <1>6, <1>7, <1>8, <1>9, <1>10, <1>11, DcSteps DEF Reads, Eval

LEMMA RankedStep ==
    TablesOK /\ StagesOK /\ ServedOK /\ RankedOK /\ ReadOK /\ [DcNext]_dcVars => RankedOK'
<1> SUFFICES ASSUME TablesOK, StagesOK, ServedOK, RankedOK, ReadOK, [DcNext]_dcVars PROVE RankedOK'
  OBVIOUS
<1>1. CASE GetContextMapAndSettingTypes
  <2>1. at' \in {"rules", "two", "temporary"} /\ (at' = "rules" => out' = NewSettings)
    BY <1>1 DEF GetContextMapAndSettingTypes, Begin
  <2>2. NewSettings.group = Nothing /\ NewSettings.vod = Nothing
    BY DEF NewSettings
  <2>3. QED BY <2>1, <2>2 DEF RankedOK, Walking
<1>2. CASE NextRule
  <2>1. Walking /\ out' = out /\ left \in Seq(Formulas) /\ InPriorityOrder(left)
    BY <1>2 DEF NextRule, Walking, StagesOK
  <2>2. left' = left \/ (left # <<>> /\ left' = Tail(left))
    BY <1>2 DEF NextRule
  <2>3. \A i \in 1..Len(left') : \E j \in 1..Len(left) : left'[i] = left[j]
    BY <2>1, <2>2, OrderedTail
  <2>4. QED BY <2>1, <2>3 DEF RankedOK
<1>3. CASE ReadDevice \/ ReadLogUpload \/ ReadRepository
  <2>1. UNCHANGED <<left, out>> /\ Walking
    BY <1>3 DEF ReadDevice, ReadLogUpload, ReadRepository, Walking
  <2>2. QED BY <2>1 DEF RankedOK
<1>4. CASE \E d1, d2 \in Draws : ReadVodAndCopy(d1, d2)
  <2>1. PICK d1 \in Draws, d2 \in Draws : ReadVodAndCopy(d1, d2)
    BY <1>4
  <2>2. left' = Tail(left) /\ Walking /\ left # <<>> /\ left \in Seq(Formulas) /\ InPriorityOrder(left)
    BY <2>1 DEF ReadVodAndCopy, StagesOK, Walking
  <2>3. PICK h : h = Head(left)
    OBVIOUS
  <2>4. /\ out'.group # Nothing => out'.from = h \/ (out.group # Nothing /\ out'.from = out.from)
        /\ out'.vod # Nothing => out'.vod[1] = h \/ (out.vod # Nothing /\ out'.vod[1] = out.vod[1])
    BY <2>1, <2>3, CopyServes
  <2>5. /\ \A i \in 1..Len(left') : Rank(h) <= Rank(left'[i])
        /\ \A i \in 1..Len(left') : \E j \in 1..Len(left) : left'[i] = left[j]
    BY <2>2, <2>3, OrderedTail
  <2>6. h \in Formulas
    BY <2>2, <2>3, TailFacts
  <2>7. ASSUME out'.group # Nothing
        PROVE  out'.from \in Formulas /\ \A i \in 1..Len(left') : Rank(out'.from) <= Rank(left'[i])
    BY <2>2, <2>4, <2>5, <2>6, <2>7 DEF RankedOK
  <2>8. ASSUME out'.vod # Nothing
        PROVE  out'.vod[1] \in Formulas /\ \A i \in 1..Len(left') : Rank(out'.vod[1]) <= Rank(left'[i])
    BY <2>2, <2>4, <2>5, <2>6, <2>8 DEF RankedOK
  <2>9. \A x : Rank(x)' = Rank(x)
    BY DEF Rank
  <2>10. QED BY <2>7, <2>8, <2>9 DEF RankedOK, Rank
<1>5. CASE Evaluated \/ GetPermanentProfileByTelemetryRule \/ NextType \/ GetSettingProfileBySettingRule
  <2>1. at' \in {"telemetry", "types", "profile", "answered"}
    BY <1>5 DEF Evaluated, GetPermanentProfileByTelemetryRule, NextType, GetSettingProfileBySettingRule
  <2>2. QED BY <2>1 DEF RankedOK, Walking
<1>6. CASE GetTelemetryForContext \/ TelemetryTwo \/ GetTelemetryTwoProfileResponeDicts \/ Finish
  <2>1. at' \in {"two", "answered", "idle"}
    BY <1>6 DEF GetTelemetryForContext, TelemetryTwo, GetTelemetryTwoProfileResponeDicts, Finish
  <2>2. QED BY <2>1 DEF RankedOK, Walking
<1>7. CASE SetParts \/ SetProfiles \/ UNCHANGED dcVars
  <2>1. UNCHANGED <<at, left, out>>
    BY <1>7 DEF SetParts, SetProfiles, dcVars, dcRequest
  <2>2. QED BY <2>1 DEF RankedOK, Walking
<1>8. QED BY <1>1, <1>2, <1>3, <1>4, <1>5, <1>6, <1>7, DcSteps DEF Reads, Eval

LEMMA ReadStep == TablesOK /\ StagesOK /\ ReadOK /\ [DcNext]_dcVars => ReadOK'
<1> SUFFICES ASSUME TablesOK, StagesOK, ReadOK, [DcNext]_dcVars PROVE ReadOK'
  OBVIOUS
<1>1. PICK h : h = Head(left)
  OBVIOUS
<1>2. at \in {"device", "logupload", "repository", "vod"} => h \in Formulas /\ found \in PartType /\ h \in ask.matches
  BY <1>1, TailFacts DEF StagesOK, Walking
<1>3. CASE ReadDevice
  <2>1. at' = "logupload" /\ left' = left /\ sets' = sets /\ found' = [NoPart EXCEPT !.dev = sets[h]]
    BY <1>1, <1>3 DEF ReadDevice, dcTables
  <2>2. found'.dev = sets[h]
    BY <2>1 DEF NoPart
  <2>3. QED BY <1>1, <2>1, <2>2 DEF ReadOK
<1>4. CASE ReadLogUpload
  <2>1. /\ at = "logupload" /\ UNCHANGED <<left, sets, lus, touched>>
        /\ at' = IF found'.dev = Nothing THEN "vod" ELSE "repository"
    BY <1>4 DEF ReadLogUpload, dcTables, GhostsSame
  <2>2. h \in touched \/ found.dev = sets[h]
    BY <1>1, <2>1 DEF ReadOK
  <2>3. CASE found.dev # Nothing /\ lus[h] # Nothing /\ found.dev.active /\ lus[h].active
    <3>1. found' = [found EXCEPT !.lus = lus[h]]
      BY <1>1, <1>4, <2>3 DEF ReadLogUpload
    <3>2. found'.dev = found.dev /\ found'.lus = lus[h]
      BY <1>2, <2>1, <3>1 DEF PartType
    <3>3. at' = "repository"
      BY <2>1, <2>3, <3>2
    <3>4. QED BY <1>1, <2>1, <2>2, <2>3, <3>2, <3>3 DEF ReadOK, ReadBoth
  <2>4. CASE ~(found.dev # Nothing /\ lus[h] # Nothing /\ found.dev.active /\ lus[h].active)
    <3>1. found' = [found EXCEPT !.dev = Nothing]
      BY <1>1, <1>4, <2>4 DEF ReadLogUpload
    <3>2. found'.dev = Nothing
      BY <1>2, <2>1, <3>1 DEF PartType
    <3>3. at' = "vod"
      BY <2>1, <3>2
    <3>4. ~Complete(h)
      BY <2>2, <2>4 DEF Complete
    <3>5. ~Complete(h)'
      BY <1>2, <2>1, <3>3, <3>4, CompleteBefore
    <3>6. QED BY <1>1, <2>1, <3>2, <3>3, <3>5 DEF ReadOK
  <2>5. QED BY <2>3, <2>4
<1>5. CASE ReadRepository
  <2>1. at = "repository" /\ at' = "vod" /\ UNCHANGED <<left, sets, lus, touched>>
    BY <1>5 DEF ReadRepository, dcTables, GhostsSame
  <2>2. found'.dev = found.dev /\ found'.lus = found.lus
    BY <1>2, <1>5, <2>1 DEF ReadRepository, PartType
  <2>3. ReadBoth(h)
    BY <1>1, <2>1 DEF ReadOK
  <2>4. QED BY <1>1, <2>1, <2>2, <2>3 DEF ReadOK, ReadBoth
<1>6. CASE SetParts \/ SetProfiles \/ UNCHANGED dcVars
  <2>1. UNCHANGED <<at, left, found>>
    BY <1>6 DEF SetParts, SetProfiles, dcVars, dcRequest
  <2> SUFFICES ASSUME at \in {"logupload", "repository", "vod"} PROVE ReadOK'
    BY <2>1 DEF ReadOK
  <2>2. Kept /\ touched \subseteq touched'
    BY <2>1, TablesStep
  <2>3. h \in Formulas /\ (Complete(h)' => Complete(h))
    BY <1>2, <2>1, CompleteBefore
  <2>4. h \notin touched' => h \notin touched /\ sets'[h] = sets[h] /\ lus'[h] = lus[h]
    BY <2>2, <2>3 DEF Kept
  <2>5. ReadBoth(h) => ReadBoth(h)'
    BY <2>1, <2>4 DEF ReadBoth
  <2>6. QED BY <1>1, <2>1, <2>3, <2>4, <2>5 DEF ReadOK
<1>7. CASE \E d1, d2 \in Draws : ReadVodAndCopy(d1, d2)
  <2>1. at' = "rules"
    BY <1>7 DEF ReadVodAndCopy
  <2>2. QED BY <2>1 DEF ReadOK
<1>8. CASE GetContextMapAndSettingTypes \/ NextRule
  <2>1. at' \in {"rules", "two", "temporary", "evaluated", "device"}
    BY <1>8 DEF GetContextMapAndSettingTypes, Begin, NextRule
  <2>2. QED BY <2>1 DEF ReadOK
<1>9. CASE Evaluated \/ GetPermanentProfileByTelemetryRule \/ NextType \/ GetSettingProfileBySettingRule
  <2>1. at' \in {"telemetry", "types", "profile", "answered"}
    BY <1>9 DEF Evaluated, GetPermanentProfileByTelemetryRule, NextType, GetSettingProfileBySettingRule
  <2>2. QED BY <2>1 DEF ReadOK
<1>10. CASE GetTelemetryForContext \/ TelemetryTwo \/ GetTelemetryTwoProfileResponeDicts \/ Finish
  <2>1. at' \in {"two", "answered", "idle"}
    BY <1>10 DEF GetTelemetryForContext, TelemetryTwo, GetTelemetryTwoProfileResponeDicts, Finish
  <2>2. QED BY <2>1 DEF ReadOK
<1>11. QED BY <1>3, <1>4, <1>5, <1>6, <1>7, <1>8, <1>9, <1>10, DcSteps DEF Reads, Eval

(* What was active when it was copied still is, unless its formula changed.*)
LEMMA ActiveKept ==
    ASSUME TablesOK, StagesOK, [DcNext]_dcVars, at # "idle", at' # "idle", NEW f \in Formulas,
           NEW v, NEW n, f \in touched \/ (Complete(f) /\ v = sets[f].ver /\ n \in {Nothing, lus[f].ver}),
           out'.from = f, out'.group = v, out'.lusName = n
    PROVE  Active(out)'
<1>1. Kept /\ touched \subseteq touched'
  BY TablesStep
<1>2. f \notin touched' /\ Complete(f) => Complete(f)' /\ sets'[f] = sets[f] /\ lus'[f] = lus[f]
  BY <1>1, CompleteBefore DEF Kept
<1>3. CASE f \in touched'
  BY <1>3 DEF Active
<1>4. CASE f \notin touched'
  <2>1. Complete(f)' /\ out'.group = sets'[f].ver /\ out'.lusName \in {Nothing, lus'[f].ver}
    BY <1>1, <1>2, <1>4
  <2>2. Complete(out.from)'
    BY <2>1 DEF Complete
  <2>3. QED BY <2>1, <2>2 DEF Active
<1>5. QED BY <1>3, <1>4

LEMMA ActiveStep == TablesOK /\ StagesOK /\ ReadOK /\ ActiveOK /\ ProfilesOK /\ [DcNext]_dcVars => ActiveOK'
<1> SUFFICES ASSUME TablesOK, StagesOK, ReadOK, ActiveOK, ProfilesOK, [DcNext]_dcVars PROVE ActiveOK'
  OBVIOUS
<1>1. ASSUME NEW s \in Settings, s.from # Nothing PROVE s.from \in Formulas
  BY <1>1 DEF Settings, Opt
<1>2. ASSUME Walking \/ Filling, at' # "idle", out \in Settings, out.from # Nothing,
             out'.from = out.from, out'.group = out.group, out'.lusName = out.lusName
      PROVE  Active(out)'
  <2>1. Active(out) /\ out.from \in Formulas /\ at # "idle"
    BY <1>1, <1>2 DEF ActiveOK, Walking, Filling, Evaluating
  <2>2. QED BY <1>2, <2>1, ActiveKept DEF Active
<1>3. ASSUME Walking \/ Filling, at' # "idle", out' = out PROVE ActiveOK'
  BY <1>2, <1>3 DEF ActiveOK
<1>4. CASE GetContextMapAndSettingTypes
  <2>1. at' \in {"rules", "two", "temporary"} /\ (at' = "rules" => out' = NewSettings)
    BY <1>4 DEF GetContextMapAndSettingTypes, Begin
  <2>2. NewSettings.from = Nothing
    BY DEF NewSettings
  <2>3. QED BY <2>1, <2>2 DEF ActiveOK, Walking, Filling, Evaluating
<1>5. CASE NextRule \/ ReadDevice \/ ReadLogUpload \/ ReadRepository
  <2>1. Walking /\ at' # "idle" /\ out' = out
    BY <1>5 DEF NextRule, ReadDevice, ReadLogUpload, ReadRepository, Walking
  <2>2. QED BY <1>3, <2>1
<1>6. CASE \E d1, d2 \in Draws : ReadVodAndCopy(d1, d2)
  <2>1. PICK d1 \in Draws, d2 \in Draws : ReadVodAndCopy(d1, d2)
    BY <1>6
  <2>2. at = "vod" /\ at' = "rules" /\ Walking /\ out \in Settings /\ Head(left) \in ask.matches
    BY <2>1 DEF ReadVodAndCopy, StagesOK, Walking
  <2>3. PICK h : h = Head(left)
    OBVIOUS
  <2>4. PICK p : p = [found EXCEPT !.vod = vod[h]]
    OBVIOUS
  <2>5. PICK g : g = Grouped(out, h, p, d1, d2)
    OBVIOUS
  <2>6. /\ h \in Formulas /\ p \in PartType /\ p.dev = found.dev /\ p.lus = found.lus /\ Copied(out', g, out, h, p)
    BY <2>1, <2>3, <2>4, <2>5, CopyStep
  <2>7. /\ out' \in Settings /\ out'.from = g.from /\ out'.group = g.group /\ out'.lusName = g.lusName
        /\ Takes(out, p) => g.group = p.dev.ver /\ g.from = h /\ g.lusName \in {Nothing, p.lus.ver}
        /\ ~Takes(out, p) => g = out
    BY <2>6 DEF Copied, SameButVod
  <2>8. CASE Takes(out, p)
    <3>1. ReadBoth(h)
      BY <2>2, <2>3, <2>6, <2>8 DEF Takes, ReadOK
    <3>2. h \in touched \/ (Complete(h) /\ out'.group = sets[h].ver /\ out'.lusName \in {Nothing, lus[h].ver})
      BY <2>2, <2>3, <2>6, <2>7, <2>8, <3>1 DEF ReadBoth, Complete
    <3>3. Active(out)'
      BY <2>2, <2>6, <2>7, <2>8, <3>2, ActiveKept
    <3>4. QED BY <3>3 DEF ActiveOK
  <2>9. CASE ~Takes(out, p)
    <3>1. out'.from = out.from /\ out'.group = out.group /\ out'.lusName = out.lusName
      BY <2>7, <2>9
    <3>2. QED BY <1>2, <2>2, <3>1 DEF ActiveOK
  <2>10. QED BY <2>8, <2>9
<1>7. CASE Evaluated
  <2>1. at = "evaluated" /\ at' # "idle" /\ (out' = out \/ out' = Nothing)
    BY <1>7 DEF Evaluated
  <2>2. QED BY <1>3, <2>1, NothingAssumption DEF ActiveOK, Filling, Evaluating
<1>8. CASE GetPermanentProfileByTelemetryRule
  <2>1. at = "telemetry" /\ at' # "idle"
    BY <1>8 DEF GetPermanentProfileByTelemetryRule
  <2>2. out \in Settings /\ out' \in Settings /\ SameSchedule(out', out)
    BY <1>8, PermanentFacts
  <2>3. QED BY <1>2, <2>1, <2>2 DEF ActiveOK, Filling, Evaluating, SameSchedule
<1>9. CASE NextType
  <2>1. at = "types" /\ at' # "idle" /\ out' = out
    BY <1>9 DEF NextType
  <2>2. QED BY <1>3, <2>1 DEF Filling, Evaluating
<1>10. CASE GetSettingProfileBySettingRule
  <2>1. at = "profile" /\ at' = "types"
    BY <1>10 DEF GetSettingProfileBySettingRule
  <2>2. PICK base : base = IF out = Nothing THEN NewSettings ELSE out
    OBVIOUS
  <2>3. base \in Settings /\ (out' = out \/ (out' \in Settings /\ SameSchedule(out', base)))
    BY <1>10, <2>2, ProfileFacts
  <2>4. CASE out' = out
    BY <1>3, <2>1, <2>4 DEF Filling, Evaluating
  <2>5. CASE out = Nothing /\ SameSchedule(out', base)
    <3>1. out'.from = Nothing
      BY <2>2, <2>5 DEF SameSchedule, NewSettings
    <3>2. QED BY <3>1 DEF ActiveOK
  <2>6. CASE out # Nothing /\ SameSchedule(out', base)
    BY <1>2, <2>1, <2>2, <2>3, <2>6 DEF ActiveOK, Filling, Evaluating, SameSchedule
  <2>7. QED BY <2>3, <2>4, <2>5, <2>6
<1>11. CASE GetTelemetryForContext \/ TelemetryTwo \/ GetTelemetryTwoProfileResponeDicts
  <2>1. at \in {"temporary", "two"} /\ at' \in {"two", "answered"} /\ ask' = ask
    BY <1>11 DEF GetTelemetryForContext, TelemetryTwo, GetTelemetryTwoProfileResponeDicts
  <2>2. ask.kind # "settings"
    BY <2>1 DEF StagesOK
  <2>3. QED BY <2>1, <2>2 DEF ActiveOK, Walking, Evaluating, Filling
<1>12. CASE Finish
  <2>1. at' = "idle"
    BY <1>12 DEF Finish
  <2>2. QED BY <2>1 DEF ActiveOK, Walking, Evaluating, Filling
<1>13. CASE SetParts \/ SetProfiles \/ UNCHANGED dcVars
  <2>1. UNCHANGED <<at, ask, out>>
    BY <1>13 DEF SetParts, SetProfiles, dcVars, dcRequest
  <2>2. CASE Walking \/ Filling
    BY <1>3, <2>1, <2>2 DEF Walking, Filling, Evaluating
  <2>3. CASE ~(Walking \/ Filling)
    BY <2>1, <2>3 DEF ActiveOK, Walking, Filling, Evaluating
  <2>4. QED BY <2>2, <2>3
<1>14. QED BY <1>4, <1>5, <1>6, <1>7, <1>8, <1>9, <1>10, <1>11, <1>12, <1>13, DcSteps DEF Reads, Eval

LEMMA ProfilesStep == TablesOK /\ StagesOK /\ ReadOK /\ ProfilesOK /\ [DcNext]_dcVars => ProfilesOK'
<1> SUFFICES ASSUME TablesOK, StagesOK, ReadOK, ProfilesOK, [DcNext]_dcVars PROVE ProfilesOK'
  OBVIOUS
<1>1. ASSUME Walking \/ Filling, at' # "idle", out \in Settings, out'.epon = out.epon, out'.partner = out.partner
      PROVE  AsRequested(out)'
  <2>1. at # "idle" /\ AsRequested(out)
    BY <1>1 DEF ProfilesOK, Walking, Filling, Evaluating
  <2>2. held' \subseteq held
    BY <1>1, <2>1, TablesStep DEF Kept
  <2>3. QED BY <1>1, <2>1, <2>2 DEF AsRequested
<1>2. ASSUME NEW s, s.epon = Nothing, s.partner = Nothing, out'.epon = s.epon, out'.partner = s.partner PROVE AsRequested(out)'
  BY <1>2 DEF AsRequested
<1>3. NewSettings.epon = Nothing /\ NewSettings.partner = Nothing
  BY DEF NewSettings
<1>4. CASE GetContextMapAndSettingTypes
  <2>1. at' \in {"rules", "two", "temporary"} /\ (at' = "rules" => out' = NewSettings)
    BY <1>4 DEF GetContextMapAndSettingTypes, Begin
  <2>2. at' = "rules" => AsRequested(out)'
    BY <1>2, <1>3, <2>1
  <2>3. QED BY <2>1, <2>2 DEF ProfilesOK, Walking, Filling, Evaluating
<1>5. CASE NextRule \/ ReadDevice \/ ReadLogUpload \/ ReadRepository
  <2>1. Walking /\ at' \in {"rules", "device", "evaluated", "logupload", "repository", "vod"} /\ out' = out
    BY <1>5 DEF NextRule, ReadDevice, ReadLogUpload, ReadRepository, Walking
  <2>2. QED BY <1>1, <2>1 DEF ProfilesOK
<1>6. CASE \E d1, d2 \in Draws : ReadVodAndCopy(d1, d2)
  <2>1. PICK d1 \in Draws, d2 \in Draws : ReadVodAndCopy(d1, d2)
    BY <1>6
  <2>2. at = "vod" /\ at' = "rules" /\ Walking /\ out \in Settings
    BY <2>1 DEF ReadVodAndCopy, StagesOK, Walking
  <2>3. PICK h : h = Head(left)
    OBVIOUS
  <2>4. PICK p : p = [found EXCEPT !.vod = vod[h]]
    OBVIOUS
  <2>5. PICK g : g = Grouped(out, h, p, d1, d2)
    OBVIOUS
  <2>6. Copied(out', g, out, h, p)
    BY <2>1, <2>3, <2>4, <2>5, CopyStep
  <2>7. out'.epon = out.epon /\ out'.partner = out.partner
    BY <2>6 DEF Copied, SameButVod
  <2>8. QED BY <1>1, <2>2, <2>7 DEF ProfilesOK
<1>7. CASE Evaluated
  <2>1. at = "evaluated" /\ at' \in {"telemetry", "types"} /\ (out' = out \/ out' = Nothing)
    BY <1>7 DEF Evaluated
  <2>2. QED BY <1>1, <2>1, NothingAssumption DEF ProfilesOK, Filling, Evaluating
<1>8. CASE GetPermanentProfileByTelemetryRule
  <2>1. at = "telemetry" /\ at' = "types"
    BY <1>8 DEF GetPermanentProfileByTelemetryRule
  <2>2. out \in Settings /\ out'.epon = out.epon /\ out'.partner = out.partner
    BY <1>8, PermanentFacts
  <2>3. QED BY <1>1, <2>1, <2>2 DEF ProfilesOK, Filling, Evaluating
<1>9. CASE NextType
  <2>1. at = "types" /\ at' \in {"types", "profile", "answered"} /\ out' = out /\ ask \in AskType /\ UNCHANGED <<sprof, held>>
    BY <1>9 DEF NextType, StagesOK, dcTables, GhostsSame
  <2>2. (Walking \/ Filling)' /\ out' \in Settings => AsRequested(out)'
    BY <1>1, <2>1 DEF Filling, Evaluating
  <2>3. ASSUME at' = "profile"
        PROVE  /\ found'.bound \in BoundIds /\ found'.type \in STRING
               /\ TypeKey(sprof'[found'.bound]) = TypeKey(found'.type)
    <3>1. PICK r \in SettingRules :
            /\ found' = [NoPart EXCEPT !.bound = r.bound, !.type = Head(ask.types)] /\ ask.types # <<>>
            /\ TypeKey(sprof[r.bound]) = TypeKey(Head(ask.types))
      BY <1>9, <2>1, <2>3 DEF NextType, GetMaxRule, GetSettingRulesBySettingType
    <3>2. found'.bound = r.bound /\ found'.type = Head(ask.types)
      BY <3>1 DEF NoPart
    <3>3. ask.types \in Seq(STRING)
      BY <2>1 DEF AskType
    <3>4. Head(ask.types) \in STRING
      BY <3>1, <3>3, TailFacts
    <3>5. r.bound \in BoundIds
      BY DEF BoundIds
    <3>6. QED BY <2>1, <3>1, <3>2, <3>4, <3>5
  <2>4. \A x : TypeKey(x)' = TypeKey(x)
    BY DEF TypeKey
  <2>5. QED BY <2>2, <2>3, <2>4 DEF ProfilesOK, TypeKey
<1>10. CASE GetSettingProfileBySettingRule
  <2>1. at = "profile" /\ at' = "types" /\ held' = held /\ out \in Settings \cup {Nothing}
    BY <1>10 DEF GetSettingProfileBySettingRule, StagesOK, Filling, Evaluating, GhostsSame
  <2>2. PICK base : base = IF out = Nothing THEN NewSettings ELSE out
    OBVIOUS
  <2>3. /\ base \in Settings
        /\ \/ out' = out
           \/ /\ \/ out'.epon = base.epon
                 \/ out'.epon = <<found.bound, found.type>> /\ TypeKey(sprof[found.bound]) = "epon"
              /\ \/ out'.partner = base.partner
                 \/ out'.partner = <<found.bound, found.type>> /\ TypeKey(sprof[found.bound]) = "partnersettings"
    BY <1>10, <2>2, ProfileFacts
  <2>4. AsRequested(base)
    BY <1>3, <2>1, <2>2 DEF ProfilesOK, Filling, Evaluating, AsRequested
  <2>5. found.bound \in held => TypeKey(sprof[found.bound]) = TypeKey(found.type)
    BY <2>1 DEF ProfilesOK
  <2>6. out' = out /\ out' \in Settings => AsRequested(out)'
    BY <1>1, <2>1 DEF Filling, Evaluating
  <2>7. ASSUME out' # out PROVE AsRequested(out)'
    <3>1. out'.epon # Nothing /\ out'.epon[1] \in held' => TypeKey(out'.epon[2]) = "epon"
      <4>1. CASE out'.epon = base.epon
        BY <2>1, <2>4, <4>1 DEF AsRequested
      <4>2. CASE out'.epon = <<found.bound, found.type>> /\ TypeKey(sprof[found.bound]) = "epon"
        <5>1. out'.epon[1] = found.bound /\ out'.epon[2] = found.type
          BY <4>2
        <5>2. QED BY <2>1, <2>5, <4>2, <5>1
      <4>3. QED BY <2>3, <2>7, <4>1, <4>2
    <3>2. out'.partner # Nothing /\ out'.partner[1] \in held' => TypeKey(out'.partner[2]) = "partnersettings"
      <4>1. CASE out'.partner = base.partner
        BY <2>1, <2>4, <4>1 DEF AsRequested
      <4>2. CASE out'.partner = <<found.bound, found.type>> /\ TypeKey(sprof[found.bound]) = "partnersettings"
        <5>1. out'.partner[1] = found.bound /\ out'.partner[2] = found.type
          BY <4>2
        <5>2. QED BY <2>1, <2>5, <4>2, <5>1
      <4>3. QED BY <2>3, <2>7, <4>1, <4>2
    <3>3. QED BY <3>1, <3>2 DEF AsRequested, TypeKey
  <2>8. QED BY <2>1, <2>6, <2>7 DEF ProfilesOK
<1>11. CASE GetTelemetryForContext \/ TelemetryTwo \/ GetTelemetryTwoProfileResponeDicts
  <2>1. at \in {"temporary", "two"} /\ at' \in {"two", "answered"} /\ ask' = ask
    BY <1>11 DEF GetTelemetryForContext, TelemetryTwo, GetTelemetryTwoProfileResponeDicts
  <2>2. ask.kind # "settings"
    BY <2>1 DEF StagesOK
  <2>3. QED BY <2>1, <2>2 DEF ProfilesOK, Walking, Evaluating, Filling
<1>12. CASE Finish
  <2>1. at' = "idle"
    BY <1>12 DEF Finish
  <2>2. QED BY <2>1 DEF ProfilesOK, Walking, Evaluating, Filling
<1>13. CASE SetParts \/ SetProfiles \/ UNCHANGED dcVars
  <2>1. UNCHANGED <<at, ask, found, out>>
    BY <1>13 DEF SetParts, SetProfiles, dcVars, dcRequest
  <2>2. (Walking \/ Filling)' /\ out' \in Settings => AsRequested(out)'
    BY <1>1, <2>1 DEF Walking, Filling, Evaluating
  <2>3. ASSUME at = "profile"
        PROVE  /\ found'.bound \in BoundIds /\ found'.type \in STRING
               /\ found'.bound \in held' => TypeKey(sprof'[found'.bound]) = TypeKey(found'.type)
    <3>1. Kept
      BY <2>1, <2>3, TablesStep
    <3>2. found.bound \in BoundIds /\ found.type \in STRING /\ found.bound \in DOMAIN sprof
      BY <2>3 DEF ProfilesOK, TablesOK
    <3>3. found.bound \in held' => found.bound \in held /\ sprof'[found.bound] = sprof[found.bound]
      BY <3>1, <3>2 DEF Kept
    <3>4. QED BY <2>1, <2>3, <3>2, <3>3 DEF ProfilesOK
  <2>4. QED BY <2>1, <2>2, <2>3 DEF ProfilesOK, TypeKey
<1>14. QED BY <1>4, <1>5, <1>6, <1>7, <1>8, <1>9, <1>10, <1>11, <1>12, <1>13, DcSteps DEF Reads, Eval

-----------------------------------------------------------------------------
(* Telemetry 2.0.                                                          *)

(* A profile is taken into the answer unless its name is already there.    *)
LEMMA TakeFacts ==
    ASSUME NEW S, NEW o \in Seq(S), NEW x \in S \cup {Nothing},
           \A i, j \in 1..Len(o) : o[i].name = o[j].name => i = j,
           NEW R, R = IF x = Nothing \/ (\E i \in 1..Len(o) : o[i].name = x.name) THEN o ELSE Append(o, x)
    PROVE  /\ R \in Seq(S) /\ \A i, j \in 1..Len(R) : R[i].name = R[j].name => i = j
           /\ \A i \in 1..Len(o) : i \in 1..Len(R) /\ R[i] = o[i]
           /\ x # Nothing => \E i \in 1..Len(R) : R[i].name = x.name
<1>1. CASE x = Nothing \/ \E i \in 1..Len(o) : o[i].name = x.name
  BY <1>1
<1>2. CASE x # Nothing /\ ~\E i \in 1..Len(o) : o[i].name = x.name
  <2>1. R = Append(o, x) /\ x \in S
    BY <1>2
  <2>2. /\ R \in Seq(S) /\ Len(o) \in Nat /\ Len(R) = Len(o) + 1 /\ R[Len(o) + 1] = x
        /\ \A i \in 1..Len(o) : R[i] = o[i]
    BY <2>1
  <2>3. \A i \in 1..Len(R) : i \in 1..Len(o) \/ i = Len(o) + 1
    BY <2>2
  <2>4. \A i, j \in 1..Len(R) : R[i].name = R[j].name => i = j
    BY <1>2, <2>2, <2>3
  <2>5. Len(o) + 1 \in 1..Len(R) /\ \A i \in 1..Len(o) : i \in 1..Len(R)
    BY <2>2
  <2>6. QED BY <2>2, <2>4, <2>5
<1>3. QED BY <1>1, <1>2

IsBefore(R, S, q, rest) ==
    /\ R \in Seq(S) /\ Len(R) = 1 + Len(rest) /\ R[1] = q
    /\ \A i \in 1..(1 + Len(rest)) : i > 1 => R[i] = rest[i - 1]

LEMMA ConsFacts ==
    ASSUME NEW S, NEW q \in S, NEW rest \in Seq(S) PROVE IsBefore(<<q>> \o rest, S, q, rest)
<1> DEFINE R == <<q>> \o rest
<1>1. Len(rest) \in Nat /\ <<q>> \in Seq(S) /\ Len(<<q>>) = 1
  OBVIOUS
<1>2. R \in Seq(S) /\ Len(R) = 1 + Len(rest)
  BY <1>1
<1>3. \A i \in 1..(1 + Len(rest)) : R[i] = IF i <= 1 THEN <<q>>[i] ELSE rest[i - 1]
  BY <1>1
<1>4. QED BY <1>1, <1>2, <1>3 DEF IsBefore

RulesOn(D) == [match : BOOLEAN, noOp : BOOLEAN, bound : Seq(D)]

(* The first rule without its first profile binds all but that one.        *)
LEMMA BindsRest ==
    ASSUME NEW D, NEW L \in Seq(RulesOn(D)), L # <<>>, NEW r, r = Head(L), r.bound # <<>>,
           NEW R, R = <<[r EXCEPT !.bound = Tail(@)]>> \o Tail(L)
    PROVE  /\ R \in Seq(RulesOn(D)) /\ Head(r.bound) \in D
           /\ \A id : \A j \in 1..Len(L) : Binds(L[j], id) => id = Head(r.bound) \/ \E i \in 1..Len(R) : Binds(R[i], id)
<1>1. r \in RulesOn(D) /\ Tail(L) \in Seq(RulesOn(D)) /\ r = L[1] /\ Len(L) \in Nat /\ Len(Tail(L)) = Len(L) - 1
      /\ \A i \in 1..(Len(L) - 1) : Tail(L)[i] = L[i + 1]
  BY TailFacts
<1>2. PICK q : q = [r EXCEPT !.bound = Tail(r.bound)]
  OBVIOUS
<1>3. r.bound \in Seq(D)
  BY <1>1 DEF RulesOn
<1>4. /\ Tail(r.bound) \in Seq(D) /\ Head(r.bound) \in D /\ Head(r.bound) = r.bound[1] /\ Len(r.bound) \in Nat
      /\ Len(Tail(r.bound)) = Len(r.bound) - 1 /\ \A i \in 1..(Len(r.bound) - 1) : Tail(r.bound)[i] = r.bound[i + 1]
  BY <1>3, TailFacts
<1>5. q \in RulesOn(D) /\ q.bound = Tail(r.bound)
  BY <1>1, <1>2, <1>4 DEF RulesOn
<1>6. q.match = r.match /\ q.noOp = r.noOp
  BY <1>1, <1>2 DEF RulesOn
<1>7. R = <<q>> \o Tail(L)
  BY <1>2
<1>8. R \in Seq(RulesOn(D)) /\ Len(R) = Len(L) /\ R[1] = q /\ \A i \in 2..Len(L) : R[i] = L[i]
  <2>1. PICK rest : rest = Tail(L)
    OBVIOUS
  <2>2. /\ rest \in Seq(RulesOn(D)) /\ Len(rest) = Len(L) - 1 /\ Len(L) \in Nat
        /\ \A i \in 1..(Len(L) - 1) : rest[i] = L[i + 1]
    BY <1>1, <2>1
  <2>3. IsBefore(<<q>> \o rest, RulesOn(D), q, rest)
    BY <1>5, <2>2, ConsFacts, Zenon
  <2>4. IsBefore(R, RulesOn(D), q, rest)
    BY <1>7, <2>1, <2>3, Zenon
  <2>5. /\ R \in Seq(RulesOn(D)) /\ Len(R) = 1 + Len(rest) /\ R[1] = q
        /\ \A i \in 1..(1 + Len(rest)) : i > 1 => R[i] = rest[i - 1]
    BY <2>4 DEF IsBefore
  <2>6. ASSUME NEW i \in 2..Len(L) PROVE R[i] = L[i]
    <3>1. i \in 1..(1 + Len(rest)) /\ i > 1 /\ i - 1 \in 1..(Len(L) - 1) /\ (i - 1) + 1 = i
      BY <2>2
    <3>2. R[i] = rest[i - 1] /\ rest[i - 1] = L[(i - 1) + 1]
      BY <2>2, <2>5, <3>1
    <3>3. QED BY <3>1, <3>2
  <2>7. QED BY <2>2, <2>5, <2>6
<1>9. ASSUME NEW id, NEW j \in 1..Len(L), Binds(L[j], id) PROVE id = Head(r.bound) \/ \E i \in 1..Len(R) : Binds(R[i], id)
  <2>1. CASE j # 1
    <3>1. j \in 2..Len(L) /\ j \in 1..Len(R)
      BY <1>1, <1>8, <2>1
    <3>2. QED BY <1>8, <1>9, <3>1
  <2>2. CASE j = 1
    <3>1. r.match /\ ~r.noOp /\ \E b \in 1..Len(r.bound) : r.bound[b] = id
      BY <1>1, <1>9, <2>2 DEF Binds
    <3>2. PICK b \in 1..Len(r.bound) : r.bound[b] = id
      BY <3>1
    <3>3. CASE b = 1
      BY <1>4, <3>2, <3>3
    <3>4. CASE b # 1
      <4>1. b - 1 \in 1..Len(q.bound) /\ q.bound[b - 1] = id
        <5>1. b - 1 \in 1..(Len(r.bound) - 1) /\ (b - 1) + 1 = b
          BY <1>4, <3>4
        <5>2. Tail(r.bound)[b - 1] = r.bound[(b - 1) + 1]
          BY <1>4, <5>1
        <5>3. QED BY <1>4, <1>5, <3>2, <5>1, <5>2
      <4>2. Binds(q, id)
        BY <1>6, <3>1, <4>1 DEF Binds
      <4>3. 1 \in 1..Len(R)
        BY <1>8, <2>2
      <4>4. QED BY <1>8, <4>2, <4>3
    <3>5. QED BY <3>3, <3>4
  <2>3. QED BY <2>1, <2>2
<1>10. QED BY <1>4, <1>8, <1>9

(* Every profile of a matching rule that has not changed is named in the   *)
(* answer, or bound by a rule that is left.                                *)
Bound(L, id) == \E j \in 1..Len(L) : Binds(L[j], id)
TwoAt(L) == \A k \in 1..Len(TwoRules) : \A id \in held \cap DOMAIN two : Binds(TwoRules[k], id) => Named(id) \/ Bound(L, id)

LEMMA TwoTakes ==
    ASSUME TablesOK, TwoOK, TelemetryTwo, NEW r, r = Head(left), r.match, ~r.noOp, r.bound # <<>>
    PROVE  TwoOK'
<1>1. /\ at = "two" /\ at' = "two" /\ left # <<>> /\ UNCHANGED <<two, held>>
      /\ TakeProfile(Head(r.bound)) /\ left' = <<[r EXCEPT !.bound = Tail(@)]>> \o Tail(left)
  BY DEF TelemetryTwo, dcTables, GhostsSame
<1>2. out \in Seq(TwoRows) /\ left \in Seq(RulesOn(DOMAIN two)) /\ NamesOnce /\ TwoAt(left)
  BY <1>1 DEF TwoOK, RuleType, RulesOn, TwoAt, Bound
<1>3. PICK id0 : id0 = Head(r.bound)
  OBVIOUS
<1>4. /\ left' \in Seq(RulesOn(DOMAIN two)) /\ id0 \in DOMAIN two
      /\ \A id : Bound(left, id) => id = id0 \/ Bound(left', id)
  BY <1>1, <1>2, <1>3, BindsRest DEF Bound
<1>5. PICK x : x = two[id0]
  OBVIOUS
<1>6. x \in TwoRows \cup {Nothing} /\ (id0 \in held => x # Nothing)
  BY <1>4, <1>5 DEF TablesOK
<1>7. out' = IF x = Nothing \/ (\E i \in 1..Len(out) : out[i].name = x.name) THEN out ELSE Append(out, x)
  BY <1>1, <1>3, <1>5 DEF TakeProfile
<1>8. /\ out' \in Seq(TwoRows) /\ \A i, j \in 1..Len(out') : out'[i].name = out'[j].name => i = j
      /\ \A i \in 1..Len(out) : i \in 1..Len(out') /\ out'[i] = out[i]
      /\ x # Nothing => \E i \in 1..Len(out') : out'[i].name = x.name
  <2>1. \A i, j \in 1..Len(out) : out[i].name = out[j].name => i = j
    BY <1>2 DEF NamesOnce
  <2>2. out \in Seq(TwoRows) /\ x \in TwoRows \cup {Nothing}
    BY <1>2, <1>6
  <2>3. QED BY <1>7, <2>1, <2>2, TakeFacts, SMTT(30)
<1>9. ASSUME NEW id, Named(id) PROVE Named(id)'
  BY <1>1, <1>8, <1>9 DEF Named
<1>10. id0 \in held => Named(id0)'
  BY <1>1, <1>5, <1>6, <1>8 DEF Named
<1>11. ASSUME NEW k \in 1..Len(TwoRules), NEW id \in held \cap DOMAIN two, Binds(TwoRules[k], id)
       PROVE  Named(id)' \/ Bound(left', id)
  BY <1>2, <1>4, <1>9, <1>10, <1>11 DEF TwoAt
<1>12. left' \in Seq(RuleType')
  BY <1>1, <1>4 DEF RuleType, RulesOn
<1>13. QED BY <1>1, <1>8, <1>11, <1>12 DEF TwoOK, NamesOnce, Bound

LEMMA TwoSkips ==
    ASSUME TwoOK, TelemetryTwo, NEW r, r = Head(left), ~(r.match /\ ~r.noOp /\ r.bound # <<>>)
    PROVE  TwoOK'
<1>1. at = "two" /\ at' = "two" /\ left # <<>> /\ UNCHANGED <<two, held, out>> /\ left' = Tail(left)
  BY DEF TelemetryTwo, dcTables, GhostsSame
<1>2. out \in Seq(TwoRows) /\ left \in Seq(RuleType) /\ NamesOnce /\ TwoAt(left)
  BY <1>1 DEF TwoOK, TwoAt, Bound
<1>3. /\ left' \in Seq(RuleType) /\ r = left[1] /\ Len(left) \in Nat /\ Len(left') = Len(left) - 1
      /\ \A i \in 1..(Len(left) - 1) : left'[i] = left[i + 1]
  BY <1>1, <1>2, TailFacts
<1>4. ASSUME NEW id PROVE ~Binds(r, id)
  <2>1. r.bound = <<>> => Len(r.bound) = 0
    OBVIOUS
  <2>2. QED BY <2>1 DEF Binds
<1>5. ASSUME NEW id, Bound(left, id) PROVE Bound(left', id)
  <2>1. PICK j \in 1..Len(left) : Binds(left[j], id)
    BY <1>5 DEF Bound
  <2>2. j # 1
    BY <1>3, <1>4, <2>1
  <2>3. j - 1 \in 1..Len(left') /\ left'[j - 1] = left[j]
    BY <1>3, <2>2
  <2>4. QED BY <2>1, <2>3 DEF Bound
<1>6. ASSUME NEW k \in 1..Len(TwoRules), NEW id \in held \cap DOMAIN two, Binds(TwoRules[k], id)
      PROVE  Named(id)' \/ Bound(left', id)
  <2>1. Named(id) => Named(id)'
    BY <1>1 DEF Named
  <2>2. QED BY <1>2, <1>5, <1>6, <2>1 DEF TwoAt
<1>7. left' \in Seq(RuleType') /\ NamesOnce'
  BY <1>1, <1>2, <1>3 DEF RuleType, NamesOnce
<1>8. QED BY <1>1, <1>2, <1>6, <1>7 DEF TwoOK, Bound

LEMMA TwoStep == TablesOK /\ StagesOK /\ TwoOK /\ [DcNext]_dcVars => TwoOK'
<1> SUFFICES ASSUME TablesOK, StagesOK, TwoOK, [DcNext]_dcVars PROVE TwoOK'
  OBVIOUS
<1>1. CASE GetContextMapAndSettingTypes
  <2>1. PICK r \in Asks, order \in [1..Cardinality(Formulas) -> Formulas] : Begin(r, order)
    BY <1>1 DEF GetContextMapAndSettingTypes
  <2>2. at' \in {"rules", "two", "temporary"} /\ two' = two
    BY <2>1 DEF Begin, dcTables
  <2>3. at' = "two" => left' = TwoRules /\ out' = <<>>
    BY <2>1 DEF Begin
  <2>4. TwoRules \in Seq(RuleType)
    BY DEF TablesOK, RuleType
  <2>5. at' = "two" => left' \in Seq(RuleType') /\ out' \in Seq(TwoRows) /\ Len(out') = 0
    BY <2>2, <2>3, <2>4 DEF RuleType
  <2>6. at' = "two" => NamesOnce'
    BY <2>5 DEF NamesOnce
  <2>7. QED BY <2>2, <2>3, <2>5, <2>6 DEF TwoOK
<1>2. CASE Eval
  <2>1. CASE \E d1, d2 \in Draws : ReadVodAndCopy(d1, d2)
    BY <2>1 DEF ReadVodAndCopy, TwoOK
  <2>2. CASE NextRule \/ ReadDevice \/ ReadLogUpload \/ ReadRepository
    <3>1. at' \in {"rules", "device", "evaluated", "logupload", "repository", "vod"}
      BY <2>2 DEF NextRule, ReadDevice, ReadLogUpload, ReadRepository
    <3>2. QED BY <3>1 DEF TwoOK
  <2>3. QED BY <1>2, <2>1, <2>2 DEF Eval
<1>3. CASE Evaluated \/ GetPermanentProfileByTelemetryRule \/ GetSettingProfileBySettingRule
  <2>1. at' \in {"telemetry", "types"}
    BY <1>3 DEF Evaluated, GetPermanentProfileByTelemetryRule, GetSettingProfileBySettingRule
  <2>2. QED BY <2>1 DEF TwoOK
<1>4. CASE NextType
  <2>1. at = "types" /\ at' \in {"types", "profile", "answered"} /\ (at' = "answered" => ask' = ask)
    BY <1>4 DEF NextType
  <2>2. ask.kind = "settings"
    BY <2>1 DEF StagesOK, Evaluating
  <2>3. QED BY <2>1, <2>2 DEF TwoOK
<1>5. CASE GetTelemetryForContext
  <2>1. at = "temporary" /\ at' = "answered" /\ ask' = ask
    BY <1>5 DEF GetTelemetryForContext
  <2>2. ask.kind = "checkNow"
    BY <2>1 DEF StagesOK
  <2>3. QED BY <2>1, <2>2 DEF TwoOK
<1>6. CASE TelemetryTwo
  <2>1. PICK r : r = Head(left)
    OBVIOUS
  <2>2. QED BY <1>6, <2>1, TwoTakes, TwoSkips
<1>7. CASE GetTelemetryTwoProfileResponeDicts
  <2>1. at = "two" /\ left = <<>> /\ at' = "answered" /\ UNCHANGED <<out, two, held>>
    BY <1>7 DEF GetTelemetryTwoProfileResponeDicts, dcTables, GhostsSame
  <2>2. NamesOnce /\ TwoAt(left) /\ Len(left) = 0
    BY <2>1 DEF TwoOK, TwoAt, Bound
  <2>3. \A id : ~Bound(left, id)
    BY <2>2 DEF Bound
  <2>4. \A id : Named(id) => Named(id)'
    BY <2>1 DEF Named
  <2>5. reply' = "notfound" => \A k \in 1..Len(TwoRules) : ~TwoRules[k].match
    BY <1>7 DEF GetTelemetryTwoProfileResponeDicts
  <2>6. NamesOnce'
    BY <2>1, <2>2 DEF NamesOnce
  <2>7. \A k \in 1..Len(TwoRules) : \A id \in held' \cap DOMAIN two' : Binds(TwoRules[k], id) => Named(id)'
    BY <2>1, <2>2, <2>3, <2>4 DEF TwoAt
  <2>8. QED BY <2>1, <2>5, <2>6, <2>7 DEF TwoOK
<1>8. CASE Finish
  <2>1. at' = "idle"
    BY <1>8 DEF Finish
  <2>2. QED BY <2>1 DEF TwoOK
<1>9. CASE SetParts \/ SetProfiles \/ UNCHANGED dcVars
  <2>1. UNCHANGED <<at, ask, left, out, reply>>
    BY <1>9 DEF SetParts, SetProfiles, dcVars, dcRequest
  <2>2. SUFFICES ASSUME at \in {"two", "answered"} PROVE TwoOK'
    BY <2>1 DEF TwoOK
  <2>3. DOMAIN two' = DOMAIN two
    <3>1. CASE SetParts \/ UNCHANGED dcVars
      BY <3>1 DEF SetParts, dcVars, dcTables
    <3>2. CASE SetProfiles
      BY <3>2, SetProfilesKept
    <3>3. QED BY <1>9, <3>1, <3>2
  <2>4. Kept
    BY <2>1, <2>2, TablesStep
  <2>5. \A id \in held' \cap DOMAIN two : id \in held /\ (Named(id) => Named(id)')
    BY <2>1, <2>4 DEF Kept, Named
  <2>6. RuleType' = RuleType /\ NamesOnce' = NamesOnce
    BY <2>1, <2>3 DEF RuleType, NamesOnce
  <2>7. QED BY <2>1, <2>3, <2>5, <2>6 DEF TwoOK
<1>10. QED BY <1>1, <1>2, <1>3, <1>4, <1>5, <1>6, <1>7, <1>8, <1>9, DcSteps DEF Reads

LEMMA AnsweredStep == StagesOK /\ AnsweredOK /\ [DcNext]_dcVars => AnsweredOK'
<1> SUFFICES ASSUME StagesOK, AnsweredOK, [DcNext]_dcVars PROVE AnsweredOK'
  OBVIOUS
<1>1. CASE GetContextMapAndSettingTypes
  <2>1. at' \in {"rules", "two", "temporary"} /\ answers' = answers
    BY <1>1 DEF GetContextMapAndSettingTypes, Begin
  <2>2. QED BY <2>1 DEF AnsweredOK, Answered
<1>2. CASE NextType
  <2>1. /\ at = "types" /\ at' \in {"types", "profile", "answered"} /\ out' = out /\ answers' = answers
        /\ at' = "answered" => reply' = IF out = Nothing THEN "notfound" ELSE "ok"
    BY <1>2 DEF NextType, GhostsSame
  <2>2. out \in Settings \cup {Nothing}
    BY <2>1 DEF StagesOK, Filling, Evaluating
  <2>3. QED BY <2>1, <2>2 DEF AnsweredOK, Answered
<1>3. CASE Eval \/ Evaluated \/ GetPermanentProfileByTelemetryRule \/ GetSettingProfileBySettingRule
  <2>1. answers' = answers
    BY <1>3, ReadsFrame DEF Reads
  <2>2. at' # "answered"
    <3>1. CASE \E d1, d2 \in Draws : ReadVodAndCopy(d1, d2)
      BY <3>1 DEF ReadVodAndCopy
    <3>2. CASE NextRule \/ ReadDevice \/ ReadLogUpload \/ ReadRepository
      BY <3>2 DEF NextRule, ReadDevice, ReadLogUpload, ReadRepository
    <3>3. CASE Evaluated \/ GetPermanentProfileByTelemetryRule \/ GetSettingProfileBySettingRule
      BY <3>3 DEF Evaluated, GetPermanentProfileByTelemetryRule, GetSettingProfileBySettingRule
    <3>4. QED BY <1>3, <3>1, <3>2, <3>3 DEF Eval
  <2>3. QED BY <2>1, <2>2 DEF AnsweredOK, Answered
<1>4. CASE GetTelemetryForContext \/ TelemetryTwo \/ GetTelemetryTwoProfileResponeDicts
  <2>1. at \in {"temporary", "two"} /\ ask' = ask /\ answers' = answers
    BY <1>4 DEF GetTelemetryForContext, TelemetryTwo, GetTelemetryTwoProfileResponeDicts, GhostsSame
  <2>2. ask.kind # "settings"
    BY <2>1 DEF StagesOK
  <2>3. QED BY <2>1, <2>2 DEF AnsweredOK, Answered
<1>5. CASE Finish
  <2>1. at = "answered" /\ at' = "idle" /\ (answers' = answers \/ (ask.kind = "settings" /\ reply = "ok" /\ answers' = answers \cup {out}))
    BY <1>5 DEF Finish
  <2>2. QED BY <2>1 DEF AnsweredOK, Answered
<1>6. CASE SetParts \/ SetProfiles \/ UNCHANGED dcVars
  <2>1. UNCHANGED <<at, ask, out, reply, answers>>
    BY <1>6 DEF SetParts, SetProfiles, dcVars, dcRequest
  <2>2. QED BY <2>1 DEF AnsweredOK, Answered
<1>7. QED BY <1>1, <1>2, <1>3, <1>4, <1>5, <1>6, DcSteps DEF Reads

LEMMA PartsInvariance == DcSpec => []PartsInv
<1>1. PartsInv /\ [DcNext]_dcVars => PartsInv'
  BY TablesStep, StagesStep, ServedStep, RankedStep, ReadStep, ActiveStep, ProfilesStep, TwoStep, AnsweredStep DEF PartsInv
<1>2. QED BY <1>1, DcInit_PartsInv, PTL DEF DcSpec

(* Settings, profiles and telemetry are put together from the formulas     *)
(* and rules that apply: no complete formula of a better rank is passed    *)
(* over, no inactive part is handed out, every bound and unchanged         *)
(* telemetry profile is in the answer under its name once, and a setting   *)
(* profile is of the type that was asked for, whatever edits the table     *)
(* caches take in between the reads.                                       *)
THEOREM PartsAreOfFormula == DcSpec => []PartsOfFormula
<1>1. PartsInv => PartsOfFormula
  <2> SUFFICES ASSUME PartsInv PROVE PartsOfFormula
    OBVIOUS
  <2> USE DEF PartsInv
  <2>1. DcTypeOK
    <3>1. \A a \in answers : a.cron \in Cron /\ a.lcron \in Cron /\ a.levels \in [1..3 -> Cron]
      BY DEF AnsweredOK, Settings
    <3>2. QED BY <3>1 DEF DcTypeOK, TablesOK, StagesOK
  <2>2. FirstFormulaAnswers
    BY DEF FirstFormulaAnswers, Answered, ServedOK, Filling, Served, GroupBy, VodBy, Rank
  <2>3. Answered("settings") /\ out # Nothing => Filling /\ out \in Settings
    BY DEF Answered, Filling, StagesOK
  <2>4. OnlyActiveParts
    BY <2>3 DEF OnlyActiveParts, ActiveOK, Active
  <2>5. ProfileAsRequested
    BY <2>3 DEF ProfileAsRequested, ProfilesOK, AsRequested
  <2>6. TelemetryTwoComplete
    <3> SUFFICES ASSUME Answered("telemetry2") PROVE TelemetryTwoComplete
      BY DEF TelemetryTwoComplete
    <3>1. /\ NamesOnce
          /\ \A k \in 1..Len(TwoRules) : \A id \in held \cap DOMAIN two : Binds(TwoRules[k], id) => Named(id)
          /\ reply = "notfound" => \A k \in 1..Len(TwoRules) : ~TwoRules[k].match
      BY DEF TwoOK, Answered
    <3>2. ASSUME NEW k \in 1..Len(TwoRules), TwoRules[k].match, ~TwoRules[k].noOp, NEW b \in 1..Len(TwoRules[k].bound),
                 TwoRules[k].bound[b] \in held
          PROVE  Named(TwoRules[k].bound[b])
      <4>1. TwoRules \in Seq(RulesOn(DOMAIN two))
        BY DEF TablesOK, RulesOn
      <4>2. TwoRules[k] \in RulesOn(DOMAIN two)
        BY <4>1
      <4>3. TwoRules[k].bound \in Seq(DOMAIN two)
        BY <4>2 DEF RulesOn
      <4>4. TwoRules[k].bound[b] \in DOMAIN two
        BY <4>3
      <4>5. Binds(TwoRules[k], TwoRules[k].bound[b])
        BY <3>2 DEF Binds
      <4>6. QED BY <3>1, <3>2, <4>4, <4>5
    <3>3. QED BY <3>1, <3>2 DEF TelemetryTwoComplete, NamesOnce, Named
  <2>7. QED BY <2>1, <2>2, <2>4, <2>5, <2>6 DEF PartsOfFormula
<1>2. QED BY <1>1, PartsInvariance, PTL

-----------------------------------------------------------------------------
(* Schedules.  Both draws and the edits between two requests may change    *)
(* what a device is told; what follows holds of every settings that were   *)
(* answered, and of those being filled.                                    *)

Given == answers \cup (IF (Walking \/ Filling) /\ out \in Settings THEN {out} ELSE {})

InDay(c, s) == c.ok => c.min \in 0..59 /\ c.hour < 24 /\ (s.mode # "UTC" /\ s.lusMode # "UTC" => c.hour >= 0)
NoLevels(s) == \A i \in 1..3 : ~s.levels[i].given
Silent(s) ==
    NoLevels(s) /\ s.lusName = Nothing /\ s.url = Nothing /\ (s.lcron.given => \E l \in LusRows : l.whole)
LevelsOf(s, l) ==
    /\ s.lusName = l.ver
    /\ \A i \in 1..3 : s.levels[i].given => s.levels[i].min = MinuteOf(<<l.l1, l.l2, l.l3>>[i], l.window, l.whole)

Timed(s) ==
    /\ s.group # Nothing /\ ~s.upload => Silent(s)
    /\ InDay(s.cron, s) /\ InDay(s.lcron, s) /\ \A i \in 1..3 : InDay(s.levels[i], s)
    /\ NoLevels(s) \/ \E l \in LusRows : LevelsOf(s, l)

(* The check-in time is the one of a row with the group's name.            *)
CheckIn(s) ==
    s.group # Nothing => \E d \in DevRows, r \in Asks :
        r.kind = "settings" /\ s.group = d.ver /\ s.cron = Scheduled(d.cron, d.window, FALSE, r.zone, d.mode)

TimedOK == \A s \in Given : Timed(s)
CheckInOK == \A s \in Given : CheckIn(s)

Alike(R, s) ==
    /\ R.group = s.group /\ R.cron = s.cron /\ R.mode = s.mode /\ R.lusName = s.lusName /\ R.lusMode = s.lusMode
    /\ R.lcron = s.lcron /\ R.levels = s.levels /\ R.upload = s.upload /\ (s.url = Nothing => R.url = Nothing)

(* The settings of a group are those of one device and one upload row.     *)
OfGroup(g) ==
    \E q, f, url : \E d \in DevRows, l \in LusRows, copied \in BOOLEAN, level \in 0..3 :
        GroupFacts(g, q, f, d, l, url, copied, level)

Follows(s) ==
    /\ s \in Settings
    /\ \/ \E q \in Given : Alike(s, q)
       \/ Alike(s, NewSettings)
       \/ at = "vod" /\ \E g : Alike(s, g) /\ OfGroup(g)

LEMMA CopyFollows ==
    ASSUME PartsInv, NEW d1 \in Draws, NEW d2 \in Draws, ReadVodAndCopy(d1, d2)
    PROVE  Follows(out')
<1> USE DEF PartsInv
<1>1. at = "vod" /\ Walking /\ out \in Settings /\ ask \in AskType /\ summer \in BOOLEAN
  BY DEF ReadVodAndCopy, StagesOK, Walking, TablesOK
<1>2. PICK h : h = Head(left)
  OBVIOUS
<1>3. PICK p : p = [found EXCEPT !.vod = vod[h]]
  OBVIOUS
<1>4. PICK g : g = Grouped(out, h, p, d1, d2)
  OBVIOUS
<1>5. h \in Formulas /\ p \in PartType /\ (p.dev # Nothing => p.lus # Nothing) /\ Copied(out', g, out, h, p)
  BY <1>2, <1>3, <1>4, CopyStep
<1>6. out' \in Settings /\ Alike(out', g) /\ (~Takes(out, p) => g = out)
  BY <1>5 DEF Copied, SameButVod, Alike
<1>7. CASE ~Takes(out, p)
  <2>1. out \in Given
    BY <1>1 DEF Given
  <2>2. QED BY <1>6, <1>7, <2>1 DEF Follows
<1>8. CASE Takes(out, p)
  <2>1. p.dev \in DevRows /\ p.lus \in LusRows /\ p.url \in {"url", Nothing}
    BY <1>5, <1>8 DEF PartType, Takes
  <2>2. PICK d : d = p.dev
    OBVIOUS
  <2>3. PICK l : l = p.lus
    OBVIOUS
  <2>4. PICK url : url = p.url
    OBVIOUS
  <2>5. g = CopyGroup(out, h, d, l, url, d1, d2) /\ d \in DevRows /\ l \in LusRows /\ url \in {"url", Nothing}
    BY <1>4, <1>8, <2>1, <2>2, <2>3, <2>4 DEF Grouped
  <2>6. \E copied \in BOOLEAN, level \in 0..3 : GroupFacts(g, out, h, d, l, url, copied, level)
    BY <1>1, <1>5, <2>5, CopyGroupFacts
  <2>7. OfGroup(g)
    BY <2>5, <2>6 DEF OfGroup
  <2>8. QED BY <1>1, <1>6, <2>7 DEF Follows
<1>9. QED BY <1>7, <1>8

LEMMA GivenStep ==
    ASSUME PartsInv, [DcNext]_dcVars, NEW s, s \in Given'
    PROVE  Follows(s)
<1> USE DEF PartsInv
<1>1. ASSUME NEW q \in Given PROVE Follows(q)
  BY DEF Follows, Given, Alike, AnsweredOK
<1>2. CASE s \in answers
  BY <1>1, <1>2 DEF Given
<1>3. CASE s \notin answers /\ s \in answers'
  <2>1. Finish
    <3>1. CASE Reads \/ SetParts \/ SetProfiles \/ UNCHANGED dcVars
      BY <1>3, <3>1, ReadsFrame DEF SetParts, SetProfiles, dcVars
    <3>2. CASE GetContextMapAndSettingTypes
      BY <1>3, <3>2 DEF GetContextMapAndSettingTypes, Begin
    <3>3. QED BY <3>1, <3>2, DcSteps
  <2>2. at = "answered" /\ ask.kind = "settings" /\ reply = "ok" /\ s = out
    BY <1>3, <2>1 DEF Finish
  <2>3. s \in Given
    BY <2>2 DEF AnsweredOK, Answered, Given, Filling
  <2>4. QED BY <1>1, <2>3
<1>4. CASE (Walking \/ Filling)' /\ s = out' /\ out' \in Settings
  <2>1. ASSUME Walking \/ Filling, out' = out PROVE Follows(s)
    BY <1>1, <1>4, <2>1 DEF Given
  <2>2. CASE GetContextMapAndSettingTypes
    <3>1. at' \in {"rules", "two", "temporary"} /\ (at' = "rules" => out' = NewSettings)
      BY <2>2 DEF GetContextMapAndSettingTypes, Begin
    <3>2. s = NewSettings
      BY <1>4, <3>1 DEF Walking, Filling, Evaluating
    <3>3. QED BY <3>2, NewSettingsType DEF Follows, Alike
  <2>3. CASE NextRule \/ ReadDevice \/ ReadLogUpload \/ ReadRepository
    BY <2>1, <2>3 DEF NextRule, ReadDevice, ReadLogUpload, ReadRepository, Walking
  <2>4. CASE \E d1, d2 \in Draws : ReadVodAndCopy(d1, d2)
    BY <1>4, <2>4, CopyFollows
  <2>5. CASE Evaluated
    <3>1. at = "evaluated" /\ (out' = out \/ out' = Nothing)
      BY <2>5 DEF Evaluated
    <3>2. QED BY <1>4, <2>1, <3>1, NothingAssumption DEF Filling, Evaluating
  <2>6. CASE GetPermanentProfileByTelemetryRule
    <3>1. out \in Settings /\ SameSchedule(out', out) /\ (out.url = Nothing => out'.url = Nothing)
      BY <2>6, PermanentFacts
    <3>2. Alike(s, out)
      BY <1>4, <3>1 DEF Alike, SameSchedule
    <3>3. out \in Given
      BY <2>6, <3>1 DEF GetPermanentProfileByTelemetryRule, Given, Filling, Evaluating
    <3>4. QED BY <1>4, <3>2, <3>3 DEF Follows
  <2>7. CASE NextType
    BY <2>1, <2>7 DEF NextType, Filling, Evaluating
  <2>8. CASE GetSettingProfileBySettingRule
    <3>1. PICK base : base = IF out = Nothing THEN NewSettings ELSE out
      OBVIOUS
    <3>2. base \in Settings /\ (out' = out \/ (SameSchedule(out', base) /\ out'.url = base.url))
      BY <2>8, <3>1, ProfileFacts
    <3>3. Filling
      BY <2>8 DEF GetSettingProfileBySettingRule, Filling, Evaluating
    <3>4. CASE out' = out
      BY <2>1, <3>3, <3>4
    <3>5. CASE SameSchedule(out', base) /\ out'.url = base.url
      <4>1. Alike(s, base)
        BY <1>4, <3>5 DEF Alike, SameSchedule
      <4>2. base = NewSettings \/ base \in Given
        BY <3>1, <3>2, <3>3 DEF Given
      <4>3. QED BY <1>4, <4>1, <4>2 DEF Follows
    <3>6. QED BY <3>2, <3>4, <3>5
  <2>9. CASE GetTelemetryForContext \/ TelemetryTwo \/ GetTelemetryTwoProfileResponeDicts
    <3>1. at \in {"temporary", "two"} /\ at' \in {"two", "answered"} /\ ask' = ask
      BY <2>9 DEF GetTelemetryForContext, TelemetryTwo, GetTelemetryTwoProfileResponeDicts
    <3>2. ask.kind # "settings"
      BY <3>1 DEF StagesOK
    <3>3. QED BY <1>4, <3>1, <3>2 DEF Walking, Evaluating, Filling
  <2>10. CASE Finish
    BY <1>4, <2>10 DEF Finish, Walking, Evaluating, Filling
  <2>11. CASE SetParts \/ SetProfiles \/ UNCHANGED dcVars
    <3>1. UNCHANGED <<at, ask, out>>
      BY <2>11 DEF SetParts, SetProfiles, dcVars, dcRequest
    <3>2. Walking \/ Filling
      BY <1>4, <3>1 DEF Walking, Evaluating, Filling
    <3>3. QED BY <2>1, <3>1, <3>2
  <2>12. QED BY <2>2, <2>3, <2>4, <2>5, <2>6, <2>7, <2>8, <2>9, <2>10, <2>11, DcSteps DEF Reads, Eval
<1>5. QED BY <1>2, <1>3, <1>4 DEF Given

LEMMA TimedAlike == ASSUME NEW s, NEW q, Timed(q), Alike(s, q) PROVE Timed(s)
<1>1. NoLevels(s) = NoLevels(q) /\ (Silent(q) => Silent(s)) /\ \A l : LevelsOf(q, l) => LevelsOf(s, l)
  BY DEF Alike, NoLevels, Silent, LevelsOf
<1>2. InDay(s.cron, s) /\ InDay(s.lcron, s) /\ \A i \in 1..3 : InDay(s.levels[i], s)
  BY DEF Alike, InDay, Timed
<1>3. QED BY <1>1, <1>2 DEF Timed, Alike

LEMMA TimedNew == Timed(NewSettings)
<1>1. /\ NewSettings.group = Nothing /\ NewSettings.cron = NoCron /\ NewSettings.lcron = NoCron
      /\ \A i \in 1..3 : NewSettings.levels[i] = NoCron
  BY DEF NewSettings
<1>2. QED BY <1>1, NoCronIsCron DEF Timed, InDay, NoLevels

LEMMA TimedGroup == ASSUME summer \in BOOLEAN, ask \in AskType, NEW g, OfGroup(g) PROVE Timed(g)
<1>1. PICK q, f, url : \E d \in DevRows, l \in LusRows, copied \in BOOLEAN, level \in 0..3 :
                           GroupFacts(g, q, f, d, l, url, copied, level)
  BY DEF OfGroup
<1>2. PICK d \in DevRows, l \in LusRows, copied \in BOOLEAN, level \in 0..3 : GroupFacts(g, q, f, d, l, url, copied, level)
  BY <1>1
<1>3. /\ ask.zone \in ZoneType /\ IsCron(d.cron) /\ d.window \in Nat
      /\ l.whole \in BOOLEAN /\ l.window \in Nat /\ IsCron(l.cron) /\ IsCron(l.l1) /\ IsCron(l.l2) /\ IsCron(l.l3)
  BY DeviceConfigConstants DEF AskType, ZoneType
<1>4. PICK mode : mode = IF copied THEN l.mode ELSE Nothing
  OBVIOUS
<1>5. PICK lc : lc = IF copied THEN l.cron ELSE NoCron
  OBVIOUS
<1>6. PICK lw : lw = IF copied THEN l.window ELSE 0
  OBVIOUS
<1>7. IsCron(lc) /\ lw \in Nat
  BY <1>3, <1>5, <1>6, NoCronIsCron
<1>8. /\ g.mode = d.mode /\ (g.upload <=> (copied \/ level # 0))
      /\ g.lusName = (IF copied \/ level # 0 THEN l.ver ELSE Nothing)
      /\ g.lusMode = (IF copied \/ level # 0 THEN l.mode ELSE Nothing)
      /\ g.url = (IF copied \/ level # 0 THEN url ELSE Nothing)
  BY <1>2 DEF GroupFacts
<1>9. g.cron = Scheduled(d.cron, d.window, FALSE, ask.zone, d.mode)
  BY <1>2 DEF GroupFacts
<1>10. g.lcron = Scheduled(lc, lw, l.whole, ask.zone, mode)
  BY <1>2, <1>4, <1>5, <1>6 DEF GroupFacts
<1>11. \A i \in 1..3 : g.levels[i] = IF i # level THEN NoCron
                                     ELSE Scheduled(<<l.l1, l.l2, l.l3>>[i], l.window, l.whole, ask.zone, mode)
  BY <1>2, <1>4 DEF GroupFacts
<1>12. g.lusMode # "UTC" => mode # "UTC"
  BY <1>4, <1>8, NothingAssumption
<1>13. InDay(g.cron, g)
  <2>1. PICK no \in BOOLEAN : no = FALSE
    OBVIOUS
  <2>2. g.cron = Scheduled(d.cron, d.window, no, ask.zone, d.mode)
    BY <1>9, <2>1
  <2>3. g.cron.ok => g.cron.min \in 0..59 /\ g.cron.hour < 24 /\ (d.mode # "UTC" => g.cron.hour >= 0)
    BY <1>3, <2>2, ScheduledTimes
  <2>4. QED BY <1>8, <2>3 DEF InDay
<1>14. InDay(g.lcron, g) /\ (~l.whole /\ ~lc.given => ~g.lcron.given)
  BY <1>3, <1>7, <1>10, <1>12, ScheduledTimes DEF InDay
<1>15. ASSUME NEW i \in 1..3
       PROVE  /\ InDay(g.levels[i], g) /\ (i # level => ~g.levels[i].given)
              /\ i = level => g.levels[i].min = MinuteOf(<<l.l1, l.l2, l.l3>>[i], l.window, l.whole)
  <2>1. PICK c : c = <<l.l1, l.l2, l.l3>>[i]
    OBVIOUS
  <2>2. IsCron(c)
    <3>1. c = l.l1 \/ c = l.l2 \/ c = l.l3
      BY <2>1
    <3>2. QED BY <1>3, <3>1
  <2>3. CASE i # level
    <3>1. g.levels[i] = NoCron
      BY <1>11, <2>3
    <3>2. QED BY <2>3, <3>1, NoCronIsCron DEF InDay
  <2>4. CASE i = level
    <3>1. g.levels[i] = Scheduled(c, l.window, l.whole, ask.zone, mode)
      BY <1>11, <2>1, <2>4
    <3>2. InDay(g.levels[i], g) /\ g.levels[i].min = MinuteOf(c, l.window, l.whole)
      BY <1>3, <1>12, <2>2, <3>1, ScheduledTimes DEF InDay
    <3>3. QED BY <2>1, <2>4, <3>2
  <2>5. QED BY <2>3, <2>4
<1>16. NoLevels(g) \/ LevelsOf(g, l)
  <2>1. CASE level = 0
    BY <1>15, <2>1 DEF NoLevels
  <2>2. CASE level # 0
    BY <1>8, <1>15, <2>2 DEF LevelsOf
  <2>3. QED BY <2>1, <2>2
<1>17. ~g.upload => Silent(g)
  <2> SUFFICES ASSUME ~g.upload PROVE Silent(g)
    OBVIOUS
  <2>1. ~copied /\ level = 0
    BY <1>8
  <2>2. g.lusName = Nothing /\ g.url = Nothing
    BY <1>8, <2>1
  <2>3. lc = NoCron
    BY <1>5, <2>1
  <2>4. g.lcron.given => l.whole
    BY <1>3, <1>14, <2>3, NoCronIsCron
  <2>5. NoLevels(g)
    BY <1>15, <2>1 DEF NoLevels
  <2>6. QED BY <2>2, <2>4, <2>5 DEF Silent
<1>18. QED BY <1>13, <1>14, <1>15, <1>16, <1>17 DEF Timed

LEMMA TimedInvariance == DcSpec => []TimedOK
<1>1. DcInit => TimedOK
  BY DEF DcInit, TimedOK, Given, Walking, Filling, Evaluating
<1>2. PartsInv /\ TimedOK /\ [DcNext]_dcVars => TimedOK'
  <2> SUFFICES ASSUME PartsInv, TimedOK, [DcNext]_dcVars, NEW s \in Given' PROVE Timed(s)
    BY DEF TimedOK, Timed, Silent, NoLevels, LevelsOf, InDay, MinuteOf, getOffset
  <2>1. Follows(s)
    BY GivenStep
  <2>2. at = "vod" => summer \in BOOLEAN /\ ask \in AskType
    BY DEF PartsInv, TablesOK, StagesOK
  <2>3. CASE \E q \in Given : Alike(s, q)
    BY <2>3, TimedAlike DEF TimedOK
  <2>4. CASE Alike(s, NewSettings)
    BY <2>4, TimedAlike, TimedNew
  <2>5. CASE at = "vod" /\ \E g : Alike(s, g) /\ OfGroup(g)
    BY <2>2, <2>5, TimedAlike, TimedGroup
  <2>6. QED BY <2>1, <2>3, <2>4, <2>5 DEF Follows
<1>3. QED BY <1>1, <1>2, PartsInvariance, PTL DEF DcSpec

(* A device that is told not to upload gets no schedule to upload by, and  *)
(* what is randomised stays a time of day: no request and no draw of the   *)
(* percentages, whatever the zones and the season, makes it otherwise.     *)
THEOREM TimesAreOfDay == DcSpec => [](NotUploadedNotScheduled /\ TimesOfDay)
<1>1. TimedOK => NotUploadedNotScheduled /\ TimesOfDay
  <2> SUFFICES ASSUME TimedOK, NEW a \in answers
               PROVE  /\ a.group # Nothing /\ ~a.upload => Silent(a)
                      /\ \A c \in {a.cron, a.lcron, a.levels[1], a.levels[2], a.levels[3]} : InDay(c, a)
    BY DEF NotUploadedNotScheduled, TimesOfDay, Silent, NoLevels, InDay
  <2>1. Timed(a)
    BY DEF TimedOK, Given
  <2>2. QED BY <2>1 DEF Timed
<1>2. QED BY <1>1, TimedInvariance, PTL

(* The settings of one device: it always asks from the same zone, whose    *)
(* winter time is not less than an hour west of UTC if it has a summer     *)
(* time, and a row of a table is known by its name.                        *)
OneDevice ==
    /\ \A r, q \in Asks : r.kind = "settings" /\ q.kind = "settings" => r.zone = q.zone
    /\ \A r \in Asks : r.kind = "settings" => ~r.zone.dst \/ r.zone.off \notin -59..-1
    /\ \A d, e \in DevRows : d.ver = e.ver => d = e
    /\ \A l, m \in LusRows : l.ver = m.ver => l = m

(* In such a zone the hour that summer time adds is taken off again.       *)
HoursIn(season, zone) ==
    IF ~zone.given THEN 0
    ELSE LET isDST == zone.dst /\ season
             offset == zone.off + (IF isDST THEN 60 ELSE 0)
         IN  -5 - GoDiv(offset, 60) + (IF isDST THEN 1 ELSE 0)
WinterHours(zone) == IF ~zone.given THEN 0 ELSE -5 - GoDiv(zone.off, 60)

LEMMA SummerHours ==
    ASSUME NEW season \in BOOLEAN, NEW zone \in ZoneType, ~zone.dst \/ zone.off \notin -59..-1
    PROVE  HoursIn(season, zone) = WinterHours(zone)
<1>1. zone.off \in Int /\ zone.given \in BOOLEAN /\ zone.dst \in BOOLEAN
  BY DEF ZoneType
<1>2. \A n \in Int : GoDiv(n, 60) \in Int
  BY DEF GoDiv
<1>3. \A n \in Int : n \notin -59..-1 => GoDiv(n + 60, 60) = GoDiv(n, 60) + 1
  BY DEF GoDiv
<1>4. CASE ~zone.given
  BY <1>4 DEF HoursIn, WinterHours
<1>5. CASE zone.given /\ zone.dst /\ season
  <2>1. HoursIn(season, zone) = -5 - GoDiv(zone.off + 60, 60) + 1
    BY <1>5 DEF HoursIn
  <2>2. GoDiv(zone.off + 60, 60) = GoDiv(zone.off, 60) + 1 /\ GoDiv(zone.off, 60) \in Int
    BY <1>1, <1>2, <1>3, <1>5
  <2>3. WinterHours(zone) = -5 - GoDiv(zone.off, 60)
    BY <1>5 DEF WinterHours
  <2>4. QED BY <2>1, <2>2, <2>3
<1>6. CASE zone.given /\ ~(zone.dst /\ season)
  <2>1. HoursIn(season, zone) = -5 - GoDiv(zone.off + 0, 60) + 0
    BY <1>6 DEF HoursIn
  <2>2. zone.off + 0 = zone.off /\ GoDiv(zone.off, 60) \in Int
    BY <1>1, <1>2
  <2>3. WinterHours(zone) = -5 - GoDiv(zone.off, 60)
    BY <1>6 DEF WinterHours
  <2>4. QED BY <2>1, <2>2, <2>3
<1>7. QED BY <1>1, <1>4, <1>5, <1>6

LEMMA ScheduleKept ==
    ASSUME summer \in BOOLEAN, summer' \in BOOLEAN, NEW zone \in ZoneType, ~zone.dst \/ zone.off \notin -59..-1,
           NEW c, NEW w, NEW whole, NEW mode
    PROVE  Scheduled(c, w, whole, zone, mode)' = Scheduled(c, w, whole, zone, mode)
<1>1. HoursIn(summer, zone) = HoursIn(summer', zone)
  BY SummerHours
<1>2. /\ getAddedHoursToRandomizedCronByTimeZone(zone) = HoursIn(summer, zone)
      /\ getAddedHoursToRandomizedCronByTimeZone(zone)' = HoursIn(summer', zone)
  BY DEF getAddedHoursToRandomizedCronByTimeZone, HoursIn
<1>3. getAddedHoursToRandomizedCronByTimeZone(zone)' = getAddedHoursToRandomizedCronByTimeZone(zone)
  BY <1>1, <1>2
<1>4. QED BY <1>3 DEF Scheduled, randomizeCronIfNecessary, randomizeCronEx

LEMMA CheckInStep == ASSUME OneDevice, PartsInv, CheckInOK, [DcNext]_dcVars PROVE CheckInOK'
<1> SUFFICES ASSUME NEW s \in Given', s.group # Nothing
             PROVE  \E d \in DevRows, r \in Asks :
                      r.kind = "settings" /\ s.group = d.ver /\ s.cron = Scheduled(d.cron, d.window, FALSE, r.zone, d.mode)'
  BY DEF CheckInOK, CheckIn
<1>1. Follows(s)
  BY GivenStep
<1>2. summer \in BOOLEAN /\ summer' \in BOOLEAN
  BY TablesStep DEF PartsInv, TablesOK
<1>3. ASSUME NEW r \in Asks, r.kind = "settings" PROVE r.zone \in ZoneType /\ (~r.zone.dst \/ r.zone.off \notin -59..-1)
  BY <1>3, DeviceConfigConstants DEF OneDevice, AskType, ZoneType
<1>4. ASSUME NEW d \in DevRows, NEW r \in Asks, r.kind = "settings"
      PROVE  Scheduled(d.cron, d.window, FALSE, r.zone, d.mode)' = Scheduled(d.cron, d.window, FALSE, r.zone, d.mode)
  <2>1. \A c, w, no, mode : Scheduled(c, w, no, r.zone, mode)' = Scheduled(c, w, no, r.zone, mode)
    <3>1. PICK z : z = r.zone
      OBVIOUS
    <3>2. z \in ZoneType /\ (~z.dst \/ z.off \notin -59..-1)
      BY <1>3, <1>4, <3>1
    <3>3. \A c, w, no, mode : Scheduled(c, w, no, z, mode)' = Scheduled(c, w, no, z, mode)
      BY <1>2, <3>2, ScheduleKept
    <3>4. QED BY <3>1, <3>3
  <2>2. QED BY <2>1
<1>5. SUFFICES \E d \in DevRows, r \in Asks :
                 r.kind = "settings" /\ s.group = d.ver /\ s.cron = Scheduled(d.cron, d.window, FALSE, r.zone, d.mode)
  BY <1>4
<1>6. CASE \E q \in Given : Alike(s, q)
  <2>1. PICK q \in Given : Alike(s, q)
    BY <1>6
  <2>2. CheckIn(q)
    BY DEF CheckInOK
  <2>3. q.group = s.group /\ q.cron = s.cron
    BY <2>1 DEF Alike
  <2>4. QED BY <2>2, <2>3 DEF CheckIn
<1>7. CASE Alike(s, NewSettings)
  BY <1>7 DEF Alike, NewSettings
<1>8. CASE at = "vod" /\ \E g : Alike(s, g) /\ OfGroup(g)
  <2>1. PICK g : Alike(s, g) /\ OfGroup(g)
    BY <1>8
  <2>2. PICK q, f, url : \E d \in DevRows, l \in LusRows, copied \in BOOLEAN, level \in 0..3 :
                             GroupFacts(g, q, f, d, l, url, copied, level)
    BY <2>1 DEF OfGroup
  <2>3. PICK d \in DevRows, l \in LusRows, copied \in BOOLEAN, level \in 0..3 : GroupFacts(g, q, f, d, l, url, copied, level)
    BY <2>2
  <2>4. g.group = d.ver /\ g.cron = Scheduled(d.cron, d.window, FALSE, ask.zone, d.mode)
    BY <2>3 DEF GroupFacts
  <2>5. PICK r \in Asks : r.kind = "settings" /\ r.zone = ask.zone
    BY <1>8 DEF PartsInv, StagesOK, Walking
  <2>6. s.group = g.group /\ s.cron = g.cron
    BY <2>1 DEF Alike
  <2>7. s.group = d.ver /\ s.cron = Scheduled(d.cron, d.window, FALSE, r.zone, d.mode)
    BY <2>4, <2>5, <2>6
  <2>8. QED BY <2>5, <2>7
<1>9. QED BY <1>1, <1>6, <1>7, <1>8 DEF Follows

(* A device is told the same check-in time and the same minute of a level  *)
(* whenever it asks, in summer and in winter, as long as the rows that it  *)
(* is answered from have the same names, and times of day.                 *)
THEOREM SchedulesAreKept == ASSUME OneDevice PROVE DcSpec => []SchedulesKept
<1>1. DcInit => CheckInOK
  BY DEF DcInit, CheckInOK, Given, Walking, Filling, Evaluating
<1>2. PartsInv /\ CheckInOK /\ [DcNext]_dcVars => CheckInOK'
  BY CheckInStep
<1>3. DcSpec => []CheckInOK
  BY <1>1, <1>2, PartsInvariance, PTL DEF DcSpec
<1>4. CheckInOK => CheckInKept
  <2> SUFFICES ASSUME CheckInOK, NEW a \in answers, NEW b \in answers, a.group # Nothing, a.group = b.group
               PROVE  a.cron = b.cron
    BY DEF CheckInKept
  <2>1. CheckIn(a) /\ CheckIn(b)
    BY DEF CheckInOK, Given
  <2>2. PICK d \in DevRows, r \in Asks :
          r.kind = "settings" /\ a.group = d.ver /\ a.cron = Scheduled(d.cron, d.window, FALSE, r.zone, d.mode)
    BY <2>1 DEF CheckIn
  <2>3. PICK e \in DevRows, q \in Asks :
          q.kind = "settings" /\ b.group = e.ver /\ b.cron = Scheduled(e.cron, e.window, FALSE, q.zone, e.mode)
    BY <2>1 DEF CheckIn
  <2>4. d = e /\ r.zone = q.zone
    BY <2>2, <2>3 DEF OneDevice
  <2>5. QED BY <2>2, <2>3, <2>4
<1>5. TimedOK => LevelMinuteKept
  <2> SUFFICES ASSUME TimedOK, NEW a \in answers, NEW b \in answers, a.lusName = b.lusName,
                      NEW i \in 1..3, a.levels[i].given, b.levels[i].given
               PROVE  a.levels[i].min = b.levels[i].min
    BY DEF LevelMinuteKept
  <2>1. Timed(a) /\ Timed(b)
    BY DEF TimedOK, Given
  <2>2. PICK l \in LusRows : LevelsOf(a, l)
    BY <2>1 DEF Timed, NoLevels
  <2>3. PICK m \in LusRows : LevelsOf(b, m)
    BY <2>1 DEF Timed, NoLevels
  <2>4. l = m
    BY <2>2, <2>3 DEF LevelsOf, OneDevice
  <2>5. QED BY <2>2, <2>3, <2>4 DEF LevelsOf
<1>6. QED BY <1>3, <1>4, <1>5, TimesAreOfDay, TimedInvariance, PTL DEF SchedulesKept
=============================================================================
