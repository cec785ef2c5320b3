------------------------------ MODULE RuleProofs ------------------------------
(***************************************************************************)
(* Proofs about rules, for any conditions, requests, forms and bounds: the *)
(* rules engine (RulesEngine) and what is done to rules (RuleEdits).       *)
(***************************************************************************)
EXTENDS RuleEdits, SequenceTheorems, WellFoundedInduction, TLAPS

-----------------------------------------------------------------------------
(* Induction and loops.                                                    *)

(* Every non-empty set of numbers has a smallest element.                  *)
LEMMA Smallest ==
    ASSUME NEW S \in SUBSET Nat, S # {}
    PROVE  \E x \in S : \A y \in S : x <= y
<1> DEFINE R == OpToRel(<, Nat)
<1>1. IsWellFoundedOn(R, Nat)
  BY NatLessThanWellFounded
<1>2. \A x, y \in Nat : x < y => <<x, y>> \in R
  BY DEF OpToRel
<1> HIDE DEF R
<1>3. PICK x \in S : \A y \in S : ~(<<y, x>> \in R)
  BY <1>1, WFMin
<1>4. ASSUME NEW y \in S PROVE x <= y
  <2>1. x \in Nat /\ y \in Nat
    OBVIOUS
  <2>2. ~(y < x)
    BY <1>2, <1>3, <2>1
  <2>3. QED BY <2>1, <2>2
<1>5. QED BY <1>4

(* Induction, with the set of the numbers for which the claim holds.       *)
LEMMA Induction ==
    ASSUME NEW n \in Nat, NEW G, 0 \in G, \A i \in 0..n : i < n /\ i \in G => i + 1 \in G
    PROVE  0..n \subseteq G
<1> DEFINE S == {i \in 0..n : i \notin G}
<1>1. ASSUME S # {} PROVE FALSE
  <2>1. S \in SUBSET Nat
    OBVIOUS
  <2> HIDE DEF S
  <2>2. PICK x \in S : \A y \in S : x <= y
    BY <1>1, <2>1, Smallest
  <2>3. x \in 0..n /\ x \notin G
    BY DEF S
  <2>4. x # 0 /\ x - 1 \in 0..n /\ x - 1 < n
    BY <2>3
  <2>5. x - 1 \in G
    BY <2>2, <2>4 DEF S
  <2>6. (x - 1) + 1 \in G
    BY <2>4, <2>5
  <2>7. QED BY <2>3, <2>6
<1>2. QED BY <1>1

(* A loop over the values X: it starts at x0, step[i] is its i-th step.    *)
Steps(n, X, step) == \A i \in 1..n : \A x \in X : step[i][x] \in X
IsLoop(g, n, X, x0, step) ==
    g \in [0..n -> X] /\ g[0] = x0 /\ \A i \in 1..n : g[i] = step[i][g[i - 1]]

(* Every loop has values.                                                  *)
LEMMA LoopExists ==
    ASSUME NEW n \in Nat, NEW X, NEW x0 \in X, NEW step, Steps(n, X, step)
    PROVE  \E g : IsLoop(g, n, X, x0, step)
<1> USE DEF Steps
<1> DEFINE Is(g, k) == g \in [0..k -> X] /\ g[0] = x0 /\ \A i \in 1..k : g[i] = step[i][g[i - 1]]
           G == {k \in 0..n : \E g : Is(g, k)}
<1>1. 0 \in G
  <2> DEFINE g == [i \in 0..0 |-> x0]
  <2>1. g \in [0..0 -> X] /\ g[0] = x0 /\ 1..0 = {}
    OBVIOUS
  <2>2. Is(g, 0)
    BY <2>1
  <2> HIDE DEF g, Is
  <2>3. QED BY <2>2
<1>2. ASSUME NEW k \in 0..n, k < n, k \in G PROVE k + 1 \in G
  <2>1. PICK g : Is(g, k)
    BY <1>2
  <2> DEFINE h == [i \in 0..(k + 1) |-> IF i = k + 1 THEN step[k + 1][g[k]] ELSE g[i]]
  <2>2. k \in 0..k /\ k + 1 \in 1..n /\ g[k] \in X
    BY <1>2, <2>1
  <2>3. step[k + 1][g[k]] \in X
    BY <2>2
  <2>4. h \in [0..(k + 1) -> X] /\ h[0] = x0
    BY <2>1, <2>3
  <2>5. ASSUME NEW i \in 1..(k + 1) PROVE h[i] = step[i][h[i - 1]]
    <3>1. i - 1 \in 0..k /\ h[i - 1] = g[i - 1]
      OBVIOUS
    <3>2. CASE i = k + 1
      BY <3>1, <3>2
    <3>3. CASE i # k + 1
      <4>1. i \in 1..k /\ h[i] = g[i]
        BY <3>3
      <4>2. QED BY <2>1, <3>1, <4>1
    <3>4. QED BY <3>2, <3>3
  <2>6. Is(h, k + 1)
    BY <2>4, <2>5
  <2>7. k + 1 \in 0..n
    BY <1>2
  <2> HIDE DEF h, Is
  <2>8. QED BY <2>6, <2>7
<1>3. 0..n \subseteq G
  <2> HIDE DEF G
  <2>1. QED BY <1>1, <1>2, Induction
<1>4. n \in G
  <2>1. n \in 0..n
    OBVIOUS
  <2> HIDE DEF G
  <2>2. QED BY <1>3, <2>1
<1>5. QED BY <1>4 DEF IsLoop

(* ... and no others.                                                      *)
SameSteps(n, f, g) == f[0] = g[0] /\ \A i \in 1..n : f[i - 1] = g[i - 1] => f[i] = g[i]

LEMMA LoopUnique ==
    ASSUME NEW n \in Nat, NEW f, NEW g, SameSteps(n, f, g)
    PROVE  \A i \in 0..n : f[i] = g[i]
<1> USE DEF SameSteps
<1> DEFINE G == {i \in 0..n : f[i] = g[i]}
<1>1. 0 \in G
  OBVIOUS
<1>2. ASSUME NEW i \in 0..n, i < n, i \in G PROVE i + 1 \in G
  <2>1. i + 1 \in 1..n /\ (i + 1) - 1 = i /\ i + 1 \in 0..n
    BY <1>2
  <2>2. f[i] = g[i]
    BY <1>2
  <2>3. f[i + 1] = g[i + 1]
    BY <2>1, <2>2
  <2>4. QED BY <2>1, <2>3
<1> HIDE DEF G
<1>3. 0..n \subseteq G
  BY <1>1, <1>2, Induction
<1>4. QED BY <1>3 DEF G

-----------------------------------------------------------------------------
(* Rules by depth.                                                         *)

(* The equation that defines Rules has a solution.                         *)
LEMMA RulesLevels ==
    /\ Rules[0] = RuleOf({<<>>})
    /\ \A d \in 1..MaxDepth : Rules[d] = RuleOf(Joined(Rules[d - 1]))
<1> DEFINE Is(g, k) == g = [d \in 0..k |-> RuleOf(IF d = 0 THEN {<<>>} ELSE Joined(g[d - 1]))]
           G == {k \in 0..MaxDepth : \E g : Is(g, k)}
<1>0. MaxDepth \in Nat
  BY ValuesOK
<1>1. 0 \in G
  <2> DEFINE g == [d \in 0..0 |-> RuleOf({<<>>})]
  <2>1. Is(g, 0)
    OBVIOUS
  <2> HIDE DEF g, Is
  <2>2. QED BY <1>0, <2>1
<1>2. ASSUME NEW k \in 0..MaxDepth, k < MaxDepth, k \in G PROVE k + 1 \in G
  <2>1. PICK g : Is(g, k)
    BY <1>2
  <2> DEFINE h == [d \in 0..(k + 1) |-> IF d = k + 1 THEN RuleOf(Joined(g[k])) ELSE g[d]]
             Body(f, d) == RuleOf(IF d = 0 THEN {<<>>} ELSE Joined(f[d - 1]))
  <2>2. ASSUME NEW d \in 0..(k + 1) PROVE h[d] = Body(h, d)
    <3>1. CASE d = k + 1
      <4>1. d # 0 /\ d - 1 = k /\ k \in 0..(k + 1) /\ k # k + 1
        BY <3>1
      <4>2. h[k] = g[k]
        BY <4>1
      <4>3. QED BY <3>1, <4>1, <4>2
    <3>2. CASE d # k + 1
      <4>1. d \in 0..k /\ (d # 0 => d - 1 \in 0..k)
        BY <3>2
      <4>2. h[d] = g[d] /\ (d # 0 => h[d - 1] = g[d - 1])
        BY <4>1, <3>2
      <4>3. g[d] = Body(g, d)
        BY <2>1, <4>1
      <4>4. QED BY <4>2, <4>3
    <3>3. QED BY <3>1, <3>2
  <2>3. Is(h, k + 1)
    BY <2>2
  <2>4. k + 1 \in 0..MaxDepth
    BY <1>0, <1>2
  <2> HIDE DEF h, Is
  <2>5. QED BY <2>3, <2>4
<1>3. 0..MaxDepth \subseteq G
  <2> HIDE DEF G
  <2>1. QED BY <1>0, <1>1, <1>2, Induction
<1>4. \E g : Is(g, MaxDepth)
  BY <1>0, <1>3
<1>5. Is(Rules, MaxDepth)
  BY <1>4 DEF Rules
<1>6. QED
  <2>1. 0 \in 0..MaxDepth /\ \A d \in 1..MaxDepth : d \in 0..MaxDepth /\ d # 0
    BY <1>0
  <2>2. QED BY <1>5, <2>1

(* What a rule of RuleOf is made of.                                       *)
LEMMA RuleFields ==
    ASSUME NEW P, NEW r \in RuleOf(P)
    PROVE  /\ r.compound \in BOOLEAN /\ r.negated \in BOOLEAN /\ r.relation \in {"", "AND", "OR"}
           /\ r.cond \in AllConditions /\ r.parts \in P /\ (~r.compound => r.parts = <<>>)
           /\ r = [compound |-> r.compound, negated |-> r.negated, relation |-> r.relation,
                   cond |-> r.cond, parts |-> r.parts]
BY DEF RuleOf

LEMMA JoinedMonotonic == ASSUME NEW R, NEW S, R \subseteq S PROVE Joined(R) \subseteq Joined(S)
BY SeqMonotonic DEF Joined

LEMMA RuleOfMonotonic == ASSUME NEW P, NEW Q, P \subseteq Q PROVE RuleOf(P) \subseteq RuleOf(Q)
BY DEF RuleOf

LEMMA RulesGrow == \A d \in 1..MaxDepth : Rules[d - 1] \subseteq Rules[d]
<1> DEFINE G == {d \in 0..MaxDepth : d # 0 => Rules[d - 1] \subseteq Rules[d]}
<1>0. MaxDepth \in Nat
  BY ValuesOK
<1>1. 0 \in G
  BY <1>0
<1>2. ASSUME NEW d \in 0..MaxDepth, d < MaxDepth, d \in G PROVE d + 1 \in G
  <2>1. d + 1 \in 1..MaxDepth /\ (d + 1) - 1 = d
    BY <1>0, <1>2
  <2>2. Rules[d + 1] = RuleOf(Joined(Rules[d]))
    BY <2>1, RulesLevels
  <2>3. CASE d = 0
    <3>1. <<>> \in Joined(Rules[0])
      <4>1. <<>> \in Seq(Rules[0]) /\ Len(<<>>) = 0 /\ 2..0 = {}
        BY EmptySeq
      <4>2. QED BY <4>1 DEF Joined
    <3>2. {<<>>} \subseteq Joined(Rules[0])
      BY <3>1
    <3>3. Rules[0] \subseteq RuleOf(Joined(Rules[0]))
      BY <3>2, RulesLevels, RuleOfMonotonic
    <3>4. QED BY <2>1, <2>2, <2>3, <3>3
  <2>4. CASE d # 0
    <3>1. d \in 1..MaxDepth /\ Rules[d - 1] \subseteq Rules[d]
      BY <1>2, <2>4
    <3>2. Rules[d] = RuleOf(Joined(Rules[d - 1]))
      BY <3>1, RulesLevels
    <3>3. Rules[d] \subseteq RuleOf(Joined(Rules[d]))
      BY <3>1, <3>2, JoinedMonotonic, RuleOfMonotonic
    <3>4. QED BY <2>1, <2>2, <3>3
  <2>5. QED BY <2>3, <2>4
<1>3. 0..MaxDepth \subseteq G
  <2> HIDE DEF G
  <2>1. QED BY <1>0, <1>1, <1>2, Induction
<1>4. QED BY <1>3

(* A rule of some depth is a rule, and so are its parts.                   *)
LEMMA RulesAreRules == \A d \in 0..MaxDepth : Rules[d] \subseteq AllRules
<1> DEFINE G == {k \in 0..MaxDepth : Rules[MaxDepth - k] \subseteq AllRules}
<1>0. MaxDepth \in Nat
  BY ValuesOK
<1>1. 0 \in G
  <2>1. MaxDepth - 0 = MaxDepth
    BY <1>0
  <2>2. QED BY <1>0, <2>1 DEF AllRules
<1>2. ASSUME NEW k \in 0..MaxDepth, k < MaxDepth, k \in G PROVE k + 1 \in G
  <2>1. MaxDepth - k \in 1..MaxDepth /\ MaxDepth - (k + 1) = (MaxDepth - k) - 1
    BY <1>0, <1>2
  <2>2. Rules[MaxDepth - (k + 1)] \subseteq Rules[MaxDepth - k]
    BY <2>1, RulesGrow
  <2>3. Rules[MaxDepth - k] \subseteq AllRules /\ k + 1 \in 0..MaxDepth
    BY <1>0, <1>2
  <2>4. QED BY <2>2, <2>3
<1>3. 0..MaxDepth \subseteq G
  <2> HIDE DEF G
  <2>1. QED BY <1>0, <1>1, <1>2, Induction
<1>4. ASSUME NEW d \in 0..MaxDepth PROVE Rules[d] \subseteq AllRules
  <2>1. MaxDepth - d \in 0..MaxDepth /\ MaxDepth - (MaxDepth - d) = d
    BY <1>0
  <2>2. MaxDepth - d \in G
    BY <1>3, <2>1
  <2>3. QED BY <2>1, <2>2
<1>5. QED BY <1>4

LEMMA LevelParts ==
    ASSUME NEW d \in 0..MaxDepth, NEW r \in Rules[d]
    PROVE  /\ r.parts \in Seq(Rules[d])
           /\ d = 0 => r.parts = <<>>
           /\ d # 0 => r.parts \in Joined(Rules[d - 1])
<1>0. MaxDepth \in Nat
  BY ValuesOK
<1>1. CASE d = 0
  <2>1. r.parts = <<>>
    BY <1>1, RulesLevels, RuleFields
  <2>2. <<>> \in Seq(Rules[d])
    OBVIOUS
  <2>3. QED BY <1>1, <2>1, <2>2
<1>2. CASE d # 0
  <2>1. d \in 1..MaxDepth
    BY <1>0, <1>2
  <2>2. r.parts \in Joined(Rules[d - 1])
    BY <2>1, RulesLevels, RuleFields
  <2>3. r.parts \in Joined(Rules[d])
    BY <2>1, <2>2, RulesGrow, JoinedMonotonic
  <2>4. QED BY <1>2, <2>2, <2>3 DEF Joined
<1>3. QED BY <1>1, <1>2

(* What is known of a rule and of its parts.                               *)
LEMMA RuleParts ==
    ASSUME NEW r \in AllRules
    PROVE  /\ r.compound \in BOOLEAN /\ r.negated \in BOOLEAN /\ r.relation \in {"", "AND", "OR"}
           /\ r.cond \in AllConditions /\ (~r.compound => r.parts = <<>>)
           /\ r.parts \in Seq(AllRules) /\ Len(r.parts) \in Nat /\ DOMAIN r.parts = 1..Len(r.parts)
           /\ \A i \in DOMAIN r.parts : r.parts[i] \in AllRules
           /\ \A i \in 2..Len(r.parts) : r.parts[i].relation \in {"AND", "OR"}
<1>0. MaxDepth \in 1..MaxDepth
  BY ValuesOK
<1>1. AllRules = RuleOf(Joined(Rules[MaxDepth - 1])) /\ Rules[MaxDepth - 1] \subseteq AllRules
  BY <1>0, RulesLevels, RulesGrow DEF AllRules
<1>2. r.parts \in Joined(AllRules)
  <2>1. r \in RuleOf(Joined(Rules[MaxDepth - 1]))
    BY <1>1
  <2>2. r.parts \in Joined(Rules[MaxDepth - 1])
    BY <2>1, RuleFields
  <2>3. QED BY <1>1, <2>2, JoinedMonotonic
<1>3. r.parts \in Seq(AllRules) /\ \A i \in 2..Len(r.parts) : r.parts[i].relation # ""
  BY <1>2 DEF Joined
<1>4. Len(r.parts) \in Nat /\ DOMAIN r.parts = 1..Len(r.parts) /\ \A i \in DOMAIN r.parts : r.parts[i] \in AllRules
  BY <1>3, LenProperties, ElementOfSeq
<1>5. ASSUME NEW i \in 2..Len(r.parts) PROVE r.parts[i].relation \in {"AND", "OR"}
  <2>1. r.parts[i] \in AllRules
    BY <1>4
  <2>2. r.parts[i].relation \in {"", "AND", "OR"}
    BY <1>1, <2>1, RuleFields
  <2>3. QED BY <1>3, <2>2
<1>6. QED BY <1>1, <1>3, <1>4, <1>5, RuleFields

(* Induction over rules: what holds for a rule when it holds for its parts *)
(* holds for all.                                                          *)
LEMMA RuleInduction ==
    ASSUME NEW S, \A r \in AllRules : (\A i \in DOMAIN r.parts : r.parts[i] \in S) => r \in S
    PROVE  AllRules \subseteq S
<1> DEFINE G == {d \in 0..MaxDepth : Rules[d] \subseteq S}
<1>0. MaxDepth \in Nat /\ 0 \in 0..MaxDepth
  BY ValuesOK
<1>1. ASSUME NEW r \in Rules[0] PROVE r \in S
  <2>1. r.parts = <<>> /\ r \in AllRules
    BY <1>0, LevelParts, RulesAreRules
  <2>2. DOMAIN r.parts = {}
    BY <2>1
  <2>3. QED BY <2>1, <2>2
<1>2. ASSUME NEW d \in 0..MaxDepth, d < MaxDepth, d \in G PROVE d + 1 \in G
  <2>1. d + 1 \in 0..MaxDepth /\ d + 1 # 0 /\ (d + 1) - 1 = d /\ Rules[d] \subseteq S
    BY <1>0, <1>2
  <2>2. ASSUME NEW r \in Rules[d + 1] PROVE r \in S
    <3>1. r.parts \in Joined(Rules[d]) /\ r \in AllRules
      BY <2>1, LevelParts, RulesAreRules
    <3>2. r.parts \in Seq(Rules[d])
      BY <3>1 DEF Joined
    <3>3. \A i \in DOMAIN r.parts : r.parts[i] \in Rules[d]
      BY <3>2
    <3>4. QED BY <2>1, <3>1, <3>3
  <2>3. QED BY <2>1, <2>2
<1>3. 0 \in G
  BY <1>0, <1>1
<1>4. 0..MaxDepth \subseteq G
  <2> HIDE DEF G
  <2>1. QED BY <1>0, <1>2, <1>3, Induction
<1>5. QED BY <1>0, <1>4 DEF AllRules

(* A function that is defined by what it is of a rule's parts exists.      *)
OfParts(f, r) == [i \in DOMAIN r.parts |-> f[r.parts[i]]]
RuleSteps(V, step) == \A r \in AllRules : \A s \in Seq(V) : step[r][s] \in V
IsRecursion(g, V, step) == g \in [AllRules -> V] /\ \A r \in AllRules : g[r] = step[r][OfParts(g, r)]

LEMMA RuleRecursion ==
    ASSUME NEW V, NEW step, RuleSteps(V, step)
    PROVE  \E g : IsRecursion(g, V, step)
<1> USE DEF RuleSteps
<1> DEFINE Of(g, r) == step[r][[i \in DOMAIN r.parts |-> g[r.parts[i]]]]
           Is(g, d) == g \in [Rules[d] -> V] /\ \A r \in Rules[d] : g[r] = Of(g, r)
           G == {d \in 0..MaxDepth : \E g : Is(g, d)}
<1>0. MaxDepth \in Nat /\ 0 \in 0..MaxDepth
  BY ValuesOK
<1>1. 0 \in G
  <2> DEFINE g == [r \in Rules[0] |-> step[r][<<>>]]
  <2>1. ASSUME NEW r \in Rules[0], NEW f PROVE [i \in DOMAIN r.parts |-> f[r.parts[i]]] = <<>> /\ r \in AllRules
    <3>1. r.parts = <<>> /\ r \in AllRules
      BY <1>0, LevelParts, RulesAreRules
    <3>2. QED BY <3>1
  <2>2. ASSUME NEW r \in Rules[0] PROVE g[r] \in V /\ g[r] = Of(g, r)
    <3>1. <<>> \in Seq(V) /\ r \in AllRules
      BY <2>1
    <3>2. g[r] = step[r][<<>>]
      OBVIOUS
    <3> HIDE DEF g
    <3>3. [i \in DOMAIN r.parts |-> g[r.parts[i]]] = <<>>
      BY <2>1
    <3>4. QED BY <3>1, <3>2, <3>3
  <2>3. Is(g, 0)
    BY <2>2
  <2> HIDE DEF g, Is
  <2>4. QED BY <1>0, <2>3
<1>2. ASSUME NEW d \in 0..MaxDepth, d < MaxDepth, d \in G PROVE d + 1 \in G
  <2>1. PICK g : Is(g, d)
    BY <1>2
  <2>2. d + 1 \in 0..MaxDepth /\ d + 1 \in 1..MaxDepth /\ d + 1 # 0 /\ (d + 1) - 1 = d
    BY <1>0, <1>2
  <2> DEFINE h == [r \in Rules[d + 1] |-> Of(g, r)]
  <2>3. ASSUME NEW r \in Rules[d + 1], NEW i \in DOMAIN r.parts PROVE r.parts[i] \in Rules[d]
    <3>1. r.parts \in Seq(Rules[d])
      BY <2>2, LevelParts DEF Joined
    <3>2. QED BY <3>1
  <2>4. ASSUME NEW r \in Rules[d + 1] PROVE [i \in DOMAIN r.parts |-> g[r.parts[i]]] \in Seq(V) /\ r \in AllRules
    <3>1. r.parts \in Seq(Rules[d]) /\ r \in AllRules
      BY <2>2, LevelParts, RulesAreRules DEF Joined
    <3>2. Len(r.parts) \in Nat /\ DOMAIN r.parts = 1..Len(r.parts)
      BY <3>1
    <3>3. \A i \in DOMAIN r.parts : g[r.parts[i]] \in V
      BY <2>1, <2>3
    <3>4. QED BY <3>1, <3>2, <3>3
  <2>5. h \in [Rules[d + 1] -> V]
    BY <2>4
  <2>6. ASSUME NEW p \in Rules[d] PROVE p \in Rules[d + 1] /\ h[p] = g[p]
    <3>1. p \in Rules[d + 1]
      BY <2>2, RulesGrow
    <3>2. QED BY <2>1, <3>1
  <2>7. ASSUME NEW r \in Rules[d + 1] PROVE h[r] = Of(h, r)
    <3>1. [i \in DOMAIN r.parts |-> h[r.parts[i]]] = [i \in DOMAIN r.parts |-> g[r.parts[i]]]
      BY <2>3, <2>6
    <3>2. QED BY <3>1
  <2>8. Is(h, d + 1)
    BY <2>5, <2>7
  <2> HIDE DEF h, Is
  <2>9. QED BY <2>2, <2>8
<1>3. 0..MaxDepth \subseteq G
  <2> HIDE DEF G
  <2>1. QED BY <1>0, <1>1, <1>2, Induction
<1>4. MaxDepth \in G
  <2> HIDE DEF G
  <2>1. MaxDepth \in 0..MaxDepth
    BY <1>0
  <2>2. QED BY <1>3, <2>1
<1>5. QED BY <1>4 DEF AllRules, IsRecursion, OfParts
LEMMA OfPartsType ==
    ASSUME NEW V, NEW g \in [AllRules -> V], NEW r \in AllRules
    PROVE  OfParts(g, r) \in Seq(V) /\ Len(OfParts(g, r)) = Len(r.parts)
<1>1. Len(r.parts) \in Nat /\ DOMAIN r.parts = 1..Len(r.parts) /\ \A i \in DOMAIN r.parts : g[r.parts[i]] \in V
  BY RuleParts
<1>2. QED BY <1>1 DEF OfParts

-----------------------------------------------------------------------------
(* Evaluation.                                                             *)
LoopState == [result : BOOLEAN, ended : BOOLEAN]

LEMMA AfterPartType ==
    ASSUME NEW parts, NEW n \in Nat, NEW holds \in [1..n -> BOOLEAN], NEW i \in 1..n, NEW s \in LoopState
    PROVE  AfterPart(parts, holds, i, s) \in LoopState
BY DEF AfterPart, LoopState

(* What the loop of EvaluateParts computes, part by part.                  *)
LEMMA PartsLoop ==
    ASSUME NEW parts, Len(parts) \in Nat, NEW holds \in [1..Len(parts) -> BOOLEAN]
    PROVE  \E g \in [0..Len(parts) -> LoopState] :
             /\ g[0] = [result |-> FALSE, ended |-> FALSE]
             /\ \A i \in 1..Len(parts) : g[i] = AfterPart(parts, holds, i, g[i - 1])
             /\ EvaluateParts(parts, holds) = g[Len(parts)].result
<1> DEFINE n == Len(parts)
           s0 == [result |-> FALSE, ended |-> FALSE]
           step == [i \in 1..n |-> [s \in LoopState |-> AfterPart(parts, holds, i, s)]]
           Is(f) == f = [i \in 0..n |-> IF i = 0 THEN s0 ELSE AfterPart(parts, holds, i, f[i - 1])]
<1>1. s0 \in LoopState
  BY DEF LoopState
<1>2. Steps(n, LoopState, step)
  BY AfterPartType DEF Steps
<1>3. PICK g : IsLoop(g, n, LoopState, s0, step)
  <2> HIDE DEF step, s0
  <2>1. QED BY <1>1, <1>2, LoopExists
<1>4. g \in [0..n -> LoopState] /\ g[0] = s0 /\ \A i \in 1..n : g[i] = step[i][g[i - 1]]
  BY <1>3 DEF IsLoop
<1>5. ASSUME NEW i \in 1..n PROVE g[i] = AfterPart(parts, holds, i, g[i - 1])
  <2>1. i - 1 \in 0..n
    OBVIOUS
  <2>2. QED BY <1>4, <2>1
<1>6. Is(g)
  <2> HIDE DEF s0
  <2>1. \A i \in 0..n : g[i] = IF i = 0 THEN s0 ELSE AfterPart(parts, holds, i, g[i - 1])
    BY <1>4, <1>5
  <2>2. QED BY <1>4, <2>1
<1>7. \E f : Is(f) /\ EvaluateParts(parts, holds) = f[n].result
  BY <1>6 DEF EvaluateParts
<1>8. PICK f : Is(f) /\ EvaluateParts(parts, holds) = f[n].result
  BY <1>7
<1>9. \A i \in 0..n : f[i] = g[i]
  <2> HIDE DEF s0
  <2>1. f[0] = g[0]
    BY <1>4, <1>8
  <2>2. ASSUME NEW i \in 1..n, f[i - 1] = g[i - 1] PROVE f[i] = g[i]
    <3>1. f[i] = AfterPart(parts, holds, i, f[i - 1])
      BY <1>8
    <3>2. QED BY <1>5, <2>2, <3>1
  <2>3. SameSteps(n, f, g)
    BY <2>1, <2>2 DEF SameSteps
  <2>4. QED BY <2>3, LoopUnique
<1>10. n \in 0..n
  OBVIOUS
<1>11. EvaluateParts(parts, holds) = g[n].result
  BY <1>8, <1>9, <1>10
<1> HIDE DEF step
<1>12. QED BY <1>4, <1>5, <1>11

(* The loop has a truth value.                                             *)
LEMMA PartsBoolean ==
    ASSUME NEW parts, Len(parts) \in Nat, NEW holds \in [1..Len(parts) -> BOOLEAN]
    PROVE  EvaluateParts(parts, holds) \in BOOLEAN
<1>1. PICK g \in [0..Len(parts) -> LoopState] : EvaluateParts(parts, holds) = g[Len(parts)].result
  BY PartsLoop
<1>2. g[Len(parts)] \in LoopState
  OBVIOUS
<1>3. QED BY <1>1, <1>2 DEF LoopState

(* Evaluate of a rule from Evaluate of its parts.                          *)
LEMMA EvaluateUnfolds ==
    ASSUME NEW ctx, NEW r \in AllRules
    PROVE  /\ Evaluate(r, ctx) \in BOOLEAN
           /\ ~r.compound => Evaluate(r, ctx) = evaluateWithNegation(r, ctx)
           /\ r.compound => Evaluate(r, ctx) =
                (EvaluateParts(r.parts, [i \in DOMAIN r.parts |-> Evaluate(r.parts[i], ctx)]) # r.negated)
<1> DEFINE Of(x, s) == IF x.compound THEN EvaluateParts(x.parts, s) # x.negated
                       ELSE evaluateWithNegation(x, ctx)
           step == [x \in AllRules |-> [s \in Seq(BOOLEAN) |-> Of(x, s)]]
           Is(f) == f = [x \in AllRules |-> Of(x, [i \in DOMAIN x.parts |-> f[x.parts[i]]])]
<1>1. ASSUME NEW x \in AllRules, NEW s PROVE Of(x, s) \in BOOLEAN
  BY DEF evaluateWithNegation, HasEvaluator
<1>2. RuleSteps(BOOLEAN, step)
  BY <1>1 DEF RuleSteps
<1>3. PICK g : IsRecursion(g, BOOLEAN, step)
  <2> HIDE DEF step
  <2>1. QED BY <1>2, RuleRecursion
<1>4. ASSUME NEW x \in AllRules PROVE g[x] = Of(x, OfParts(g, x))
  <2>1. OfParts(g, x) \in Seq(BOOLEAN)
    BY <1>3, OfPartsType DEF IsRecursion
  <2> HIDE DEF Of
  <2>2. QED BY <1>3, <2>1 DEF IsRecursion
<1>5. Is(g)
  <2> HIDE DEF Of
  <2>1. QED BY <1>3, <1>4 DEF IsRecursion, OfParts
<1>6. PICK f : Is(f) /\ \A x : Evaluate(x, ctx) = f[x]
  BY <1>5 DEF Evaluate
<1>7. ASSUME NEW x \in AllRules PROVE Evaluate(x, ctx) = Of(x, [i \in DOMAIN x.parts |-> Evaluate(x.parts[i], ctx)])
  <2>1. [i \in DOMAIN x.parts |-> f[x.parts[i]]] = [i \in DOMAIN x.parts |-> Evaluate(x.parts[i], ctx)]
    BY <1>6
  <2> HIDE DEF Of
  <2>2. f[x] = Of(x, [i \in DOMAIN x.parts |-> f[x.parts[i]]])
    BY <1>6
  <2>3. QED BY <1>6, <2>1, <2>2
<1>8. QED BY <1>1, <1>7, RuleParts

(* Means of a rule from Means of its parts.                                *)
LEMMA MeansUnfolds ==
    ASSUME NEW ctx, NEW r \in AllRules
    PROVE  /\ Means(r, ctx) \in BOOLEAN
           /\ ~r.compound => Means(r, ctx) = evaluateWithNegation(r, ctx)
           /\ r.compound => Means(r, ctx) =
                ((\A i \in Starts(r.parts) : \E j \in GroupOf(r.parts, i) : Means(r.parts[j], ctx)) # r.negated)
<1> DEFINE Of(x, s) == IF ~x.compound THEN evaluateWithNegation(x, ctx)
                       ELSE (\A i \in Starts(x.parts) : \E j \in GroupOf(x.parts, i) : s[j]) # x.negated
           step == [x \in AllRules |-> [s \in Seq(BOOLEAN) |-> Of(x, s)]]
           Body(f, x) == IF ~x.compound THEN evaluateWithNegation(x, ctx)
                         ELSE (\A i \in Starts(x.parts) : \E j \in GroupOf(x.parts, i) : f[x.parts[j]]) # x.negated
           Is(f) == f = [x \in AllRules |-> Body(f, x)]
<1>1. ASSUME NEW x \in AllRules, NEW s PROVE Of(x, s) \in BOOLEAN
  BY DEF evaluateWithNegation, HasEvaluator
<1>2. RuleSteps(BOOLEAN, step)
  BY <1>1 DEF RuleSteps
<1>3. PICK g : IsRecursion(g, BOOLEAN, step)
  <2> HIDE DEF step
  <2>1. QED BY <1>2, RuleRecursion
<1>4. ASSUME NEW x \in AllRules PROVE g[x] = Body(g, x)
  <2>1. OfParts(g, x) \in Seq(BOOLEAN)
    BY <1>3, OfPartsType DEF IsRecursion
  <2>2. g[x] = Of(x, OfParts(g, x))
    <3> HIDE DEF Of
    <3>1. QED BY <1>3, <2>1 DEF IsRecursion
  <2>3. ASSUME NEW i \in Starts(x.parts), NEW j \in GroupOf(x.parts, i) PROVE OfParts(g, x)[j] = g[x.parts[j]]
    <3>1. j \in DOMAIN x.parts
      <4>1. Len(x.parts) \in Nat /\ DOMAIN x.parts = 1..Len(x.parts)
        BY RuleParts
      <4>2. QED BY <4>1 DEF Starts, GroupOf
    <3>2. QED BY <3>1 DEF OfParts
  <2>4. QED BY <2>2, <2>3
<1>5. Is(g)
  <2> HIDE DEF Body
  <2>1. QED BY <1>3, <1>4 DEF IsRecursion
<1>6. PICK f : Is(f) /\ \A x : Means(x, ctx) = f[x]
  BY <1>5 DEF Means
<1>7. ASSUME NEW x \in AllRules PROVE Means(x, ctx) = Body(f, x)
  <2> HIDE DEF Body
  <2>1. QED BY <1>6
<1>8. Body(f, r) \in BOOLEAN
  BY DEF evaluateWithNegation, HasEvaluator
<1>9. Means(r, ctx) = Body(f, r)
  BY <1>7
<1>10. \A j : Means(r.parts[j], ctx) = f[r.parts[j]]
  BY <1>6
<1> HIDE DEF Is
<1>11. QED BY <1>8, <1>9, <1>10

(* The invariant of the loop over the parts of a compound rule: after i of *)
(* them the result tells whether every group begun so far has a part that  *)
(* holds, and the loop has ended when a group that is over has none.       *)
GroupsHold(r, h, i) == \A k \in Starts(r.parts) : k <= i => \E j \in GroupOf(r.parts, k) : j <= i /\ h[j]
GroupLost(r, h, i) == \E k \in Starts(r.parts) : k <= i /\ i \notin GroupOf(r.parts, k) /\ \A j \in GroupOf(r.parts, k) : ~h[j]

LEMMA GroupFacts ==
    ASSUME NEW r \in AllRules, NEW k \in Starts(r.parts), NEW i \in 1..Len(r.parts), k <= i
    PROVE  /\ k \in Nat /\ k >= 1 /\ k \in GroupOf(r.parts, k) /\ GroupOf(r.parts, k) \subseteq k..Len(r.parts)
           /\ \A j \in GroupOf(r.parts, k) : \A m \in k..j : m \in GroupOf(r.parts, k)
           /\ i + 1 <= Len(r.parts) /\ i \in GroupOf(r.parts, k) /\ r.parts[i + 1].relation = "OR" => i + 1 \in GroupOf(r.parts, k)
           /\ i + 1 <= Len(r.parts) /\ r.parts[i + 1].relation # "OR" => i + 1 \notin GroupOf(r.parts, k)
<1>0. Len(r.parts) \in Nat
  BY RuleParts
<1>1. k \in Nat /\ k >= 1 /\ k <= Len(r.parts)
  BY <1>0 DEF Starts
<1>2. k \in GroupOf(r.parts, k) /\ GroupOf(r.parts, k) \subseteq k..Len(r.parts)
  BY <1>0, <1>1 DEF GroupOf
<1>3. \A j \in GroupOf(r.parts, k) : \A m \in k..j : m \in GroupOf(r.parts, k)
  BY <1>0, <1>1 DEF GroupOf
<1>4. ASSUME i + 1 <= Len(r.parts), i \in GroupOf(r.parts, k), r.parts[i + 1].relation = "OR" PROVE i + 1 \in GroupOf(r.parts, k)
  BY <1>0, <1>1, <1>4 DEF GroupOf
<1>5. ASSUME i + 1 <= Len(r.parts), r.parts[i + 1].relation # "OR" PROVE i + 1 \notin GroupOf(r.parts, k)
  BY <1>0, <1>1, <1>5 DEF GroupOf
<1>6. QED BY <1>1, <1>2, <1>3, <1>4, <1>5

(* One turn of the loop, from part i to part i + 1.                        *)
LoopInv(r, h, i, s) ==
    /\ s.result <=> (i # 0 /\ GroupsHold(r, h, i))
    /\ s.ended <=> GroupLost(r, h, i)

LEMMA LoopStep ==
    ASSUME NEW r \in AllRules, NEW h \in [1..Len(r.parts) -> BOOLEAN], NEW i \in 0..Len(r.parts), i < Len(r.parts),
           NEW s \in LoopState, LoopInv(r, h, i, s)
    PROVE  LoopInv(r, h, i + 1, AfterPart(r.parts, h, i + 1, s))
<1> DEFINE n == Len(r.parts)
           t == AfterPart(r.parts, h, i + 1, s)
           relation == r.parts[i + 1].relation
           Group(k) == GroupOf(r.parts, k)
<1>0. n \in Nat /\ i \in Nat /\ i + 1 \in 1..n
  <2>1. n \in Nat
    BY RuleParts
  <2>2. QED BY <2>1
<1>1. s.result \in BOOLEAN /\ s.ended \in BOOLEAN /\ h[i + 1] \in BOOLEAN
  BY <1>0 DEF LoopState
<1>2. CASE i = 0
  <2>1. ~s.result /\ ~s.ended
    BY <1>2 DEF LoopInv, GroupLost, Starts
  <2>2. t.result = h[1] /\ t.ended = s.ended
    BY <1>2, <2>1 DEF AfterPart, LoopState
  <2>3. \A k \in Starts(r.parts) : k <= 1 => k = 1
    BY DEF Starts
  <2>4. 1 \in Starts(r.parts) /\ 1 \in Group(1) /\ \A j \in Group(1) : j <= 1 => j = 1
    BY <1>0 DEF Starts, GroupOf
  <2>5. GroupsHold(r, h, 1) <=> h[1]
    BY <2>3, <2>4 DEF GroupsHold
  <2>6. ~GroupLost(r, h, 1)
    BY <2>3, <2>4 DEF GroupLost
  <2>7. QED BY <1>2, <2>1, <2>2, <2>5, <2>6 DEF LoopInv
<1>3. CASE i # 0
  <2>0. i \in 1..n /\ i + 1 \in 2..n /\ i + 1 > 1
    BY <1>0, <1>3
  <2>1. relation \in {"AND", "OR"}
    BY <2>0, RuleParts
  <2>2. ASSUME NEW k \in Starts(r.parts), k <= i
        PROVE  /\ k \in Nat /\ k >= 1 /\ \A j \in Group(k) : j \in Nat
               /\ i \notin Group(k) => \A j \in Group(k) : j <= i
               /\ i + 1 \notin Group(k) => \A j \in Group(k) : j <= i
               /\ i + 1 \in Group(k) => i \in Group(k)
               /\ relation = "OR" /\ i \in Group(k) => i + 1 \in Group(k)
               /\ relation # "OR" => i + 1 \notin Group(k)
    <3>1. /\ k \in Nat /\ k >= 1 /\ Group(k) \subseteq k..n
          /\ \A j \in Group(k) : \A m \in k..j : m \in Group(k)
          /\ i \in Group(k) /\ relation = "OR" => i + 1 \in Group(k)
          /\ relation # "OR" => i + 1 \notin Group(k)
      BY <1>0, <2>0, <2>2, GroupFacts
    <3>2. \A j \in Group(k) : j \in Nat /\ (j > i => i \in k..j /\ i + 1 \in k..j)
      BY <1>0, <2>2, <3>1
    <3>3. i + 1 \in Group(k) => i \in Group(k)
      BY <1>0, <3>1, <3>2
    <3>4. QED BY <1>0, <3>1, <3>2, <3>3
  <2>3. \A k \in Starts(r.parts) : k <= i + 1 => (k <= i \/ (k = i + 1 /\ relation = "AND"))
    BY <1>0, <1>3 DEF Starts
  <2>4. \A k \in Starts(r.parts) : k <= i => k <= i + 1
    BY <1>0, <2>2
  <2>5. s.result <=> GroupsHold(r, h, i)
    BY <1>3 DEF LoopInv
  <2>6. s.ended <=> GroupLost(r, h, i)
    BY DEF LoopInv
  <2> HIDE DEF Group, n, relation
  <2>7. CASE s.ended
    <3>1. t = s
      BY <2>7 DEF AfterPart
    <3>2. PICK k \in Starts(r.parts) : k <= i /\ i \notin Group(k) /\ \A j \in Group(k) : ~h[j]
      BY <2>6, <2>7 DEF GroupLost, Group
    <3>3. ~GroupsHold(r, h, i) /\ ~GroupsHold(r, h, i + 1)
      BY <2>4, <3>2 DEF GroupsHold, Group
    <3>4. GroupLost(r, h, i + 1)
      BY <2>2, <2>4, <3>2 DEF GroupLost, Group
    <3>5. QED BY <2>5, <2>7, <3>1, <3>3, <3>4 DEF LoopInv
  <2>8. CASE ~s.ended /\ s.result /\ relation = "OR"
    <3>1. t = s
      BY <2>0, <2>8 DEF AfterPart, relation
    <3>2. \A k \in Starts(r.parts) : k <= i + 1 => k <= i
      BY <2>3, <2>8
    <3>3. ASSUME NEW k \in Starts(r.parts), k <= i + 1 PROVE \E j \in Group(k) : j <= i + 1 /\ h[j]
      <4>1. k <= i
        BY <3>2, <3>3
      <4>2. PICK j \in Group(k) : j <= i /\ h[j]
        BY <2>5, <2>8, <4>1 DEF GroupsHold, Group
      <4>3. j \in Nat
        BY <2>2, <4>1
      <4>4. QED BY <1>0, <4>2, <4>3
    <3>4. GroupsHold(r, h, i + 1) /\ ~GroupLost(r, h, i + 1)
      BY <3>3 DEF GroupsHold, GroupLost, Group
    <3>5. QED BY <1>0, <2>8, <3>1, <3>4 DEF LoopInv
  <2>9. CASE ~s.ended /\ ~s.result /\ relation = "AND"
    <3>1. ~t.result /\ t.ended
      BY <2>0, <2>9 DEF AfterPart, relation, LoopState
    <3>2. PICK k \in Starts(r.parts) : k <= i /\ \A j \in Group(k) : ~(j <= i /\ h[j])
      BY <2>5, <2>9 DEF GroupsHold, Group
    <3>3. i + 1 \notin Group(k) /\ \A j \in Group(k) : j <= i
      BY <2>2, <2>9, <3>2
    <3>4. \A j \in Group(k) : ~h[j]
      BY <3>2, <3>3
    <3>5. GroupLost(r, h, i + 1) /\ ~GroupsHold(r, h, i + 1)
      BY <2>4, <3>2, <3>3, <3>4 DEF GroupsHold, GroupLost, Group
    <3>6. QED BY <3>1, <3>5 DEF LoopInv
  <2>10. CASE ~s.ended /\ s.result /\ relation = "AND"
    <3>1. t.result = h[i + 1] /\ t.ended = s.ended
      BY <2>0, <2>10 DEF AfterPart, relation, LoopState
    <3>2. i + 1 \in Starts(r.parts)
      BY <2>0, <2>10 DEF Starts, relation, n
    <3>3. i + 1 \in Group(i + 1) /\ \A j \in Group(i + 1) : j <= i + 1 => j = i + 1
      BY <1>0, <2>0 DEF Group, GroupOf, n
    <3>4. ASSUME NEW k \in Starts(r.parts), k <= i PROVE \E j \in Group(k) : j <= i + 1 /\ h[j]
      <4>1. PICK j \in Group(k) : j <= i /\ h[j]
        BY <2>5, <2>10, <3>4 DEF GroupsHold, Group
      <4>2. j \in Nat
        BY <2>2, <3>4
      <4>3. QED BY <1>0, <4>1, <4>2
    <3>5. GroupsHold(r, h, i + 1) <=> h[i + 1]
      <4>1. ASSUME GroupsHold(r, h, i + 1) PROVE h[i + 1]
        <5>1. PICK j \in Group(i + 1) : j <= i + 1 /\ h[j]
          BY <1>0, <3>2, <4>1 DEF GroupsHold, Group
        <5>2. QED BY <3>3, <5>1
      <4>2. ASSUME h[i + 1] PROVE GroupsHold(r, h, i + 1)
        BY <1>0, <2>3, <3>3, <3>4, <4>2 DEF GroupsHold, Group
      <4>3. QED BY <1>1, <4>1, <4>2
    <3>6. ~GroupLost(r, h, i + 1)
      BY <2>3, <3>3, <3>4 DEF GroupLost, Group
    <3>7. QED BY <1>0, <2>10, <3>1, <3>5, <3>6 DEF LoopInv
  <2>11. CASE ~s.ended /\ ~s.result /\ relation = "OR"
    <3>1. t.result = h[i + 1] /\ t.ended = s.ended
      BY <2>0, <2>11 DEF AfterPart, relation, LoopState
    <3>2. \A k \in Starts(r.parts) : k <= i + 1 => k <= i
      BY <2>3, <2>11
    <3>3. ASSUME NEW k \in Starts(r.parts), k <= i, i \notin Group(k) PROVE \E j \in Group(k) : j <= i /\ h[j]
      <4>1. PICK j \in Group(k) : h[j]
        BY <2>6, <2>11, <3>3 DEF GroupLost, Group
      <4>2. QED BY <2>2, <3>3, <4>1
    <3>4. PICK k \in Starts(r.parts) : k <= i /\ \A j \in Group(k) : ~(j <= i /\ h[j])
      BY <2>5, <2>11 DEF GroupsHold, Group
    <3>5. i \in Group(k) /\ i + 1 \in Group(k)
      BY <2>2, <2>11, <3>3, <3>4
    <3>6. ASSUME GroupsHold(r, h, i + 1) PROVE h[i + 1]
      <4>1. PICK j \in Group(k) : j <= i + 1 /\ h[j]
        BY <2>4, <3>4, <3>6 DEF GroupsHold, Group
      <4>2. j \in Nat
        BY <2>2, <3>4
      <4>3. QED BY <1>0, <3>4, <4>1, <4>2
    <3>7. ASSUME h[i + 1], NEW m \in Starts(r.parts), m <= i PROVE \E j \in Group(m) : j <= i + 1 /\ h[j]
      <4>1. CASE i \in Group(m)
        <5>1. i + 1 \in Group(m)
          BY <2>2, <2>11, <3>7, <4>1
        <5>2. QED BY <1>0, <3>7, <5>1
      <4>2. CASE i \notin Group(m)
        <5>1. PICK j \in Group(m) : j <= i /\ h[j]
          BY <3>3, <3>7, <4>2
        <5>2. j \in Nat
          BY <2>2, <3>7
        <5>3. QED BY <1>0, <5>1, <5>2
      <4>3. QED BY <4>1, <4>2
    <3>8. GroupsHold(r, h, i + 1) <=> h[i + 1]
      <4>1. ASSUME h[i + 1] PROVE GroupsHold(r, h, i + 1)
        BY <3>2, <3>7, <4>1 DEF GroupsHold, Group
      <4>2. QED BY <1>1, <3>6, <4>1
    <3>9. ASSUME NEW m \in Starts(r.parts), m <= i + 1, i + 1 \notin Group(m), \A j \in Group(m) : ~h[j] PROVE FALSE
      <4>1. m <= i
        BY <3>2, <3>9
      <4>2. i \notin Group(m)
        BY <2>2, <2>11, <3>9, <4>1
      <4>3. QED BY <3>3, <3>9, <4>1, <4>2
    <3>10. ~GroupLost(r, h, i + 1)
      BY <3>9 DEF GroupLost, Group
    <3>11. QED BY <1>0, <2>11, <3>1, <3>8, <3>10 DEF LoopInv
  <2>12. QED BY <1>1, <2>1, <2>7, <2>8, <2>9, <2>10, <2>11
<1>4. QED BY <1>2, <1>3

LEMMA LoopByGroups ==
    ASSUME NEW r \in AllRules, NEW h \in [1..Len(r.parts) -> BOOLEAN]
    PROVE  EvaluateParts(r.parts, h) <=> \A i \in Starts(r.parts) : \E j \in GroupOf(r.parts, i) : h[j]
<1> DEFINE n == Len(r.parts)
           Inv(g, i) == LoopInv(r, h, i, g[i])
<1>0. n \in Nat
  BY RuleParts
<1>1. PICK g \in [0..n -> LoopState] :
         /\ g[0] = [result |-> FALSE, ended |-> FALSE]
         /\ \A i \in 1..n : g[i] = AfterPart(r.parts, h, i, g[i - 1])
         /\ EvaluateParts(r.parts, h) = g[n].result
  BY <1>0, PartsLoop
<1> DEFINE G == {i \in 0..n : Inv(g, i)}
<1>2. 0 \in G
  <2>1. ~GroupLost(r, h, 0)
    BY DEF GroupLost, Starts
  <2>2. QED BY <1>0, <1>1, <2>1 DEF LoopInv
<1>3. ASSUME NEW i \in 0..n, i < n, i \in G PROVE i + 1 \in G
  <2>1. i + 1 \in 1..n /\ i \in Nat /\ (i + 1) - 1 = i /\ i + 1 \in 0..n
    BY <1>0, <1>3
  <2>2. g[i + 1] = AfterPart(r.parts, h, i + 1, g[i]) /\ g[i] \in LoopState /\ Inv(g, i)
    BY <1>1, <1>3, <2>1
  <2>3. Inv(g, i + 1)
    BY <1>0, <2>1, <2>2, LoopStep
  <2>4. QED BY <2>1, <2>3
<1>4. n \in G
  <2> HIDE DEF G, n
  <2>1. 0..n \subseteq G
    BY <1>0, <1>2, <1>3, Induction
  <2>2. QED BY <1>0, <2>1
<1>5. g[n].result <=> (n # 0 /\ GroupsHold(r, h, n))
  BY <1>4 DEF LoopInv
<1>6. CASE n = 0
  <2>1. 1 \in Starts(r.parts) /\ GroupOf(r.parts, 1) = {}
    BY <1>6 DEF Starts, GroupOf
  <2>2. QED BY <1>1, <1>5, <1>6, <2>1
<1>7. CASE n # 0
  <2>1. \A k \in Starts(r.parts) : k <= n
    BY <1>0, <1>7 DEF Starts
  <2>2. \A k \in Starts(r.parts) : \A j \in GroupOf(r.parts, k) : j <= n
    BY <1>0, <1>7 DEF Starts, GroupOf
  <2>3. GroupsHold(r, h, n) <=> \A k \in Starts(r.parts) : \E j \in GroupOf(r.parts, k) : h[j]
    BY <2>1, <2>2 DEF GroupsHold
  <2>4. QED BY <1>1, <1>5, <1>7, <2>3
<1>8. QED BY <1>6, <1>7

(* Evaluate agrees with the reference on every rule.                       *)
LEMMA EvaluateIsMeans == ASSUME NEW ctx PROVE \A r \in AllRules : Evaluate(r, ctx) = Means(r, ctx)
<1> DEFINE S == {r \in AllRules : Evaluate(r, ctx) = Means(r, ctx)}
<1>1. ASSUME NEW r \in AllRules, \A i \in DOMAIN r.parts : r.parts[i] \in S PROVE r \in S
  <2> DEFINE h == [i \in DOMAIN r.parts |-> Evaluate(r.parts[i], ctx)]
  <2>1. DOMAIN r.parts = 1..Len(r.parts) /\ Len(r.parts) \in Nat /\ \A i \in DOMAIN r.parts : r.parts[i] \in AllRules
    BY RuleParts
  <2>2. h \in [1..Len(r.parts) -> BOOLEAN]
    BY <2>1, EvaluateUnfolds
  <2>3. ASSUME NEW k \in Starts(r.parts), NEW j \in GroupOf(r.parts, k) PROVE h[j] = Means(r.parts[j], ctx)
    <3>1. j \in DOMAIN r.parts
      BY <2>1 DEF Starts, GroupOf
    <3>2. QED BY <1>1, <3>1
  <2> HIDE DEF h
  <2>4. EvaluateParts(r.parts, h) <=> \A k \in Starts(r.parts) : \E j \in GroupOf(r.parts, k) : Means(r.parts[j], ctx)
    BY <2>2, <2>3, LoopByGroups
  <2>5. EvaluateParts(r.parts, h) \in BOOLEAN
    BY <2>1, <2>2, PartsBoolean
  <2>6. CASE ~r.compound
    BY <2>6, EvaluateUnfolds, MeansUnfolds
  <2>7. CASE r.compound
    <3>1. Evaluate(r, ctx) = (EvaluateParts(r.parts, h) # r.negated)
      BY <2>7, EvaluateUnfolds DEF h
    <3>2. Means(r, ctx) = ((\A k \in Starts(r.parts) : \E j \in GroupOf(r.parts, k) : Means(r.parts[j], ctx)) # r.negated)
      BY <2>7, MeansUnfolds
    <3>3. QED BY <2>4, <2>5, <3>1, <3>2
  <2>8. QED BY <2>6, <2>7
<1> HIDE DEF S
<1>2. AllRules \subseteq S
  BY <1>1, RuleInduction
<1>3. QED BY <1>2 DEF S

-----------------------------------------------------------------------------
(* How rules are built.                                                    *)
LEMMA LevelsGrow ==
    ASSUME NEW c \in Nat, NEW d \in 0..MaxDepth, c <= d PROVE Rules[c] \subseteq Rules[d]
<1> DEFINE G == {k \in 0..(MaxDepth - c) : Rules[c] \subseteq Rules[c + k]}
<1>0. MaxDepth \in Nat /\ MaxDepth - c \in Nat /\ d - c \in 0..(MaxDepth - c) /\ c + (d - c) = d
  BY ValuesOK
<1>1. 0 \in G
  BY <1>0
<1>2. ASSUME NEW k \in 0..(MaxDepth - c), k < MaxDepth - c, k \in G PROVE k + 1 \in G
  <2>1. c + (k + 1) \in 1..MaxDepth /\ (c + (k + 1)) - 1 = c + k /\ k + 1 \in 0..(MaxDepth - c)
    BY <1>0, <1>2
  <2>2. Rules[c + k] \subseteq Rules[c + (k + 1)]
    BY <2>1, RulesGrow
  <2>3. QED BY <1>2, <2>1, <2>2
<1>3. 0..(MaxDepth - c) \subseteq G
  <2> HIDE DEF G
  <2>1. QED BY <1>0, <1>1, <1>2, Induction
<1>4. d - c \in G
  BY <1>0, <1>3
<1>5. QED BY <1>0, <1>4

(* A rule of depth d + 1, from parts of depth d.                           *)
LEMMA MakeRule ==
    ASSUME NEW d \in 1..MaxDepth, NEW parts \in Joined(Rules[d - 1]), NEW compound \in BOOLEAN, NEW negated \in BOOLEAN,
           NEW relation \in {"", "AND", "OR"}, NEW cond \in AllConditions, compound \/ parts = <<>>
    PROVE  [compound |-> compound, negated |-> negated, relation |-> relation, cond |-> cond, parts |-> parts] \in Rules[d]
BY RulesLevels DEF RuleOf

LEMMA ArgType ==
    ASSUME NEW k \in {"nil", "string", "double", "collection"}, NEW s \in STRING, NEW n \in Int, NEW S \in SUBSET STRING,
           k # "string" => s = "", k # "double" => n = 0, k # "collection" => S = {}
    PROVE  [kind |-> k, str |-> s, num |-> n, set |-> S] \in FixedArgs
BY DEF FixedArgs, Empty

LEMMA NoArgType == NoArg \in FixedArgs /\ Cond("", "", "", NoArg) \in AllConditions
<1>0. "" \in STRING
  BY WordsOK
<1>1. NoArg \in FixedArgs
  <2>1. {} \in SUBSET STRING /\ 0 \in Int
    OBVIOUS
  <2>2. NoArg = [kind |-> "nil", str |-> "", num |-> 0, set |-> {}]
    BY DEF NoArg, Empty
  <2>3. QED BY <1>0, <2>1, <2>2, ArgType
<1> HIDE DEF NoArg
<1>2. Cond("", "", "", NoArg) \in AllConditions
  BY <1>0, <1>1 DEF Cond, AllConditions
<1>3. QED BY <1>1, <1>2

LEMMA LeafType == ASSUME NEW c \in AllConditions PROVE Leaf(c) \in Rules[0]
BY RulesLevels DEF Leaf, RuleOf

LEMMA DepthOK == MaxDepth \in Nat /\ MaxDepth \in 1..MaxDepth /\ MaxDepth \in 0..MaxDepth /\ 1 \in 1..MaxDepth /\ 2 \in 1..MaxDepth
                 /\ 0 \in 0..MaxDepth /\ 1 \in 0..MaxDepth /\ 2 \in 0..MaxDepth /\ MaxDepth - 1 \in 0..MaxDepth
                 /\ 0 <= MaxDepth - 1 /\ 1 <= MaxDepth - 1
BY ValuesOK

LEMMA RuleShape == ASSUME NEW r \in AllRules PROVE r \in RuleOf(Joined(Rules[MaxDepth - 1]))
<1>1. MaxDepth \in 1..MaxDepth
  BY DepthOK
<1>2. QED BY <1>1, RulesLevels DEF AllRules

(* The fields that negation and relation leave alone.                      *)
LEMMA SameFields ==
    ASSUME NEW r \in AllRules, NEW rel
    PROVE  /\ LET x == [r EXCEPT !.relation = rel]
              IN  x.compound = r.compound /\ x.negated = r.negated /\ x.parts = r.parts /\ x.cond = r.cond /\ x.relation = rel
           /\ LET x == Not(r)
              IN  x.compound = r.compound /\ x.negated = ~r.negated /\ x.parts = r.parts /\ x.cond = r.cond /\ x.relation = r.relation
BY RuleShape DEF RuleOf, Not

(* A rule that is not compound has depth 0.                                *)
LEMMA LeafLevel == ASSUME NEW r \in AllRules, ~r.compound PROVE r \in Rules[0]
<1>1. MaxDepth \in 1..MaxDepth
  BY ValuesOK
<1>2. r \in RuleOf(Joined(Rules[MaxDepth - 1]))
  BY <1>1, RulesLevels DEF AllRules
<1>3. QED BY <1>2, RulesLevels DEF RuleOf

LEMMA FirstOrLater == ASSUME NEW n \in Nat, NEW d \in 0..n PROVE d = 0 \/ d \in 1..n
OBVIOUS

(* Negation and relation do not change the depth.                          *)
LEMMA SameLevel ==
    ASSUME NEW d \in 0..MaxDepth, NEW r \in Rules[d], NEW b \in BOOLEAN, NEW rel \in {"", "AND", "OR"}
    PROVE  /\ [r EXCEPT !.negated = b] \in Rules[d] /\ [r EXCEPT !.relation = rel] \in Rules[d]
           /\ Not(r) \in Rules[d]
<1>1. PICK P : Rules[d] = RuleOf(P)
  <2>0. MaxDepth \in Nat
    BY ValuesOK
  <2>1. d = 0 \/ d \in 1..MaxDepth
    BY <2>0, FirstOrLater
  <2>2. QED BY <2>1, RulesLevels
<1>2. QED BY <1>1 DEF RuleOf, Not

(* Append, element by element.                                             *)
LEMMA AppendFacts ==
    ASSUME NEW S, NEW s \in Seq(S), NEW e \in S
    PROVE  /\ Append(s, e) \in Seq(S) /\ Len(s) \in Nat /\ Len(Append(s, e)) = Len(s) + 1
           /\ Append(s, e)[Len(s) + 1] = e /\ \A i \in 1..Len(s) : Append(s, e)[i] = s[i]
<1>1. Len(s) \in Nat
  BY LenProperties
<1>2. Append(s, e) \in Seq(S) /\ Len(Append(s, e)) = Len(s) + 1 /\ Append(s, e)[Len(s) + 1] = e
      /\ \A i \in 1..Len(s) : Append(s, e)[i] = s[i]
  BY AppendProperties
<1>3. QED BY <1>1, <1>2

(* A sequence of one part.                                                 *)
LEMMA OnePart == ASSUME NEW R, NEW r \in R PROVE <<r>> \in Joined(R) /\ Len(<<r>>) = 1 /\ <<r>>[1] = r
<1>1. <<r>> \in Seq(R) /\ Len(<<r>>) = 1 /\ <<r>>[1] = r
  OBVIOUS
<1>2. 2..1 = {}
  OBVIOUS
<1>3. QED BY <1>1, <1>2 DEF Joined

LEMMA AddType ==
    ASSUME NEW d \in 1..MaxDepth, NEW base \in Rules[d], NEW part \in Rules[d - 1], NEW rel \in {"AND", "OR"}
    PROVE  addRelatedCompound(base, part, rel) \in Rules[d]
<1> DEFINE parts == IF base.compound THEN base.parts ELSE <<base>>
           last == [part EXCEPT !.relation = rel]
           added == Append(parts, last)
<1>0. d \in 0..MaxDepth /\ d - 1 \in 0..MaxDepth /\ d # 0 /\ d - 1 \in Nat /\ MaxDepth \in Nat /\ 0 <= d - 1
  BY ValuesOK
<1>1. base \in AllRules /\ part \in AllRules /\ base \in RuleOf(Joined(Rules[d - 1]))
  BY <1>0, RulesAreRules, RulesLevels
<1>2. last \in Rules[d - 1] /\ last.relation = rel
  <2>1. last \in Rules[d - 1]
    BY <1>0, SameLevel
  <2>2. part \in RuleOf(Joined(Rules[MaxDepth - 1]))
    BY <1>0, <1>1, RulesLevels, ValuesOK DEF AllRules
  <2>3. QED BY <2>1, <2>2 DEF RuleOf
<1>3. parts \in Joined(Rules[d - 1])
  <2>1. CASE base.compound
    BY <1>1, <2>1, RuleFields
  <2>2. CASE ~base.compound
    <3>1. base \in Rules[d - 1]
      BY <1>0, <1>1, <2>2, LeafLevel, LevelsGrow
    <3>2. QED BY <2>2, <3>1, OnePart
  <2>3. QED BY <2>1, <2>2
<1>4. added \in Joined(Rules[d - 1])
  <2> HIDE DEF parts, last
  <2>0. parts \in Seq(Rules[d - 1]) /\ \A i \in 2..Len(parts) : parts[i].relation # ""
    BY <1>3 DEF Joined
  <2>1. Len(parts) \in Nat
    BY <2>0, LenProperties
  <2>2. added \in Seq(Rules[d - 1]) /\ Len(added) = Len(parts) + 1 /\ added[Len(parts) + 1] = last
        /\ \A i \in 1..Len(parts) : added[i] = parts[i]
    <3> DEFINE S == Rules[d - 1]
    <3>1. parts \in Seq(S) /\ last \in S
      BY <1>2, <2>0
    <3> HIDE DEF S
    <3>2. added \in Seq(S) /\ Len(added) = Len(parts) + 1 /\ added[Len(parts) + 1] = last
          /\ \A i \in 1..Len(parts) : added[i] = parts[i]
      BY <3>1, AppendFacts
    <3>3. QED BY <3>2 DEF S
  <2> HIDE DEF added
  <2>3. ASSUME NEW i \in 2..Len(added) PROVE added[i].relation # ""
    <3>1. CASE i = Len(parts) + 1
      BY <1>2, <2>2, <3>1
    <3>2. CASE i # Len(parts) + 1
      <4>1. i \in 2..Len(parts) /\ i \in 1..Len(parts)
        BY <2>1, <2>2, <3>2
      <4>2. QED BY <2>0, <2>2, <4>1
    <3>3. QED BY <3>1, <3>2
  <2>4. QED BY <2>2, <2>3 DEF Joined
<1> HIDE DEF parts, last
<1>5. CASE base.compound
  <2>1. addRelatedCompound(base, part, rel) = [base EXCEPT !.parts = added]
    BY <1>5 DEF addRelatedCompound, parts, last
  <2> HIDE DEF added
  <2>2. [base EXCEPT !.parts = added] \in RuleOf(Joined(Rules[d - 1]))
    BY <1>1, <1>4, <1>5 DEF RuleOf
  <2>3. QED BY <2>1, <2>2, RulesLevels
<1>6. CASE ~base.compound
  <2>1. addRelatedCompound(base, part, rel) = Compound(added)
    BY <1>6 DEF addRelatedCompound, parts, last
  <2> HIDE DEF added
  <2>2. QED BY <1>4, <2>1, NoArgType, MakeRule DEF Compound
<1>7. QED BY <1>5, <1>6

-----------------------------------------------------------------------------
(* What adding a part does to the loop.                                    *)
Start == [result |-> FALSE, ended |-> FALSE]
Holds(r, ctx) == [i \in DOMAIN r.parts |-> Evaluate(r.parts[i], ctx)]
IsRun(g, parts, holds) ==
    /\ g \in [0..Len(parts) -> LoopState] /\ g[0] = Start
    /\ \A i \in 1..Len(parts) : g[i] = AfterPart(parts, holds, i, g[i - 1])
Run(r, ctx) == CHOOSE g : IsRun(g, r.parts, Holds(r, ctx))
EndState(r, ctx) ==
    IF r.compound THEN Run(r, ctx)[Len(r.parts)] ELSE [result |-> Evaluate(r, ctx), ended |-> FALSE]
IsAfter(t, relation, s, holds) ==
    IF relation = "AND"
    THEN (t.result <=> s.result /\ holds) /\ (t.ended <=> s.ended \/ ~s.result)
    ELSE (t.result <=> ~s.ended /\ (s.result \/ holds)) /\ (t.ended <=> s.ended)

(* A loop that has ended has failed.                                       *)
LEMMA EndedFailed ==
    ASSUME NEW parts, Len(parts) \in Nat, NEW holds \in [1..Len(parts) -> BOOLEAN], NEW g, IsRun(g, parts, holds)
    PROVE  \A i \in 0..Len(parts) : g[i] \in LoopState /\ (g[i].ended => ~g[i].result)
<1> DEFINE n == Len(parts)
           G == {i \in 0..n : g[i].ended => ~g[i].result}
<1>0. n \in Nat /\ \A i \in 0..n : g[i] \in LoopState
  BY DEF IsRun
<1>1. 0 \in G
  BY <1>0 DEF IsRun, Start
<1>2. ASSUME NEW i \in 0..n, i < n, i \in G PROVE i + 1 \in G
  <2>1. i + 1 \in 1..n /\ i + 1 \in 0..n /\ (i + 1) - 1 = i
    BY <1>0, <1>2
  <2>2. g[i + 1] = AfterPart(parts, holds, i + 1, g[i])
    BY <2>1 DEF IsRun
  <2>3. g[i] \in LoopState /\ (g[i].ended => ~g[i].result) /\ holds[i + 1] \in BOOLEAN
    BY <1>0, <1>2, <2>1
  <2>4. g[i + 1].ended => ~g[i + 1].result
    BY <2>2, <2>3 DEF AfterPart, LoopState
  <2>5. QED BY <2>1, <2>4
<1>3. 0..n \subseteq G
  <2> HIDE DEF G, n
  <2>1. QED BY <1>0, <1>1, <1>2, Induction
<1>4. QED BY <1>0, <1>3

LEMMA HoldsType ==
    ASSUME NEW r \in AllRules, NEW ctx
    PROVE  Len(r.parts) \in Nat /\ Holds(r, ctx) \in [1..Len(r.parts) -> BOOLEAN]
<1>1. DOMAIN r.parts = 1..Len(r.parts) /\ Len(r.parts) \in Nat /\ \A i \in DOMAIN r.parts : r.parts[i] \in AllRules
  BY RuleParts
<1>2. QED BY <1>1, EvaluateUnfolds DEF Holds

LEMMA RunFacts ==
    ASSUME NEW r \in AllRules, NEW ctx
    PROVE  /\ IsRun(Run(r, ctx), r.parts, Holds(r, ctx))
           /\ EvaluateParts(r.parts, Holds(r, ctx)) = Run(r, ctx)[Len(r.parts)].result
<1> DEFINE n == Len(r.parts)
           h == Holds(r, ctx)
<1>0. n \in Nat /\ h \in [1..n -> BOOLEAN]
  BY HoldsType
<1> HIDE DEF h
<1>1. PICK g \in [0..n -> LoopState] :
         /\ g[0] = [result |-> FALSE, ended |-> FALSE]
         /\ \A i \in 1..n : g[i] = AfterPart(r.parts, h, i, g[i - 1])
         /\ EvaluateParts(r.parts, h) = g[n].result
  BY <1>0, PartsLoop
<1>2. IsRun(g, r.parts, h)
  BY <1>1 DEF IsRun, Start
<1>3. IsRun(Run(r, ctx), r.parts, h)
  BY <1>2 DEF Run, h
<1> DEFINE f == Run(r, ctx)
<1> HIDE DEF f
<1>4. SameSteps(n, f, g)
  BY <1>2, <1>3 DEF IsRun, SameSteps, f
<1>5. f[n] = g[n]
  BY <1>0, <1>4, LoopUnique
<1>6. QED BY <1>1, <1>3, <1>5 DEF f, h

LEMMA EndStateFacts ==
    ASSUME NEW r \in AllRules, NEW ctx
    PROVE  /\ EndState(r, ctx) \in LoopState /\ (EndState(r, ctx).ended => ~EndState(r, ctx).result)
           /\ ~r.compound => EndState(r, ctx) = [result |-> Evaluate(r, ctx), ended |-> FALSE]
           /\ (~r.compound \/ ~r.negated) => EndState(r, ctx).result = Evaluate(r, ctx)
           /\ r.compound => Evaluate(r, ctx) = (EndState(r, ctx).result # r.negated)
<1>0. Len(r.parts) \in Nat /\ Holds(r, ctx) \in [1..Len(r.parts) -> BOOLEAN] /\ Evaluate(r, ctx) \in BOOLEAN
      /\ r.compound \in BOOLEAN /\ r.negated \in BOOLEAN
  BY HoldsType, EvaluateUnfolds, RuleParts
<1>1. CASE ~r.compound
  BY <1>0, <1>1 DEF EndState, LoopState
<1>2. CASE r.compound
  <2>1. IsRun(Run(r, ctx), r.parts, Holds(r, ctx)) /\ EvaluateParts(r.parts, Holds(r, ctx)) = Run(r, ctx)[Len(r.parts)].result
    BY RunFacts
  <2>2. EndState(r, ctx) = Run(r, ctx)[Len(r.parts)]
    BY <1>2 DEF EndState
  <2>3. EndState(r, ctx) \in LoopState /\ (EndState(r, ctx).ended => ~EndState(r, ctx).result)
    BY <1>0, <2>1, <2>2, EndedFailed
  <2>4. Evaluate(r, ctx) = (EndState(r, ctx).result # r.negated)
    BY <1>2, <2>1, <2>2, EvaluateUnfolds DEF Holds
  <2>5. QED BY <1>0, <1>2, <2>3, <2>4 DEF LoopState
<1>3. QED BY <1>1, <1>2, <1>0

LEMMA BooleansEqual == ASSUME NEW a \in BOOLEAN, NEW b \in BOOLEAN, a <=> b PROVE a = b
OBVIOUS

(* The relation of a rule is of no account for the rule itself.            *)
LEMMA RelationIgnored ==
    ASSUME NEW d \in 0..MaxDepth, NEW r \in Rules[d], NEW rel \in {"", "AND", "OR"}, NEW ctx
    PROVE  Evaluate([r EXCEPT !.relation = rel], ctx) = Evaluate(r, ctx)
<1> DEFINE x == [r EXCEPT !.relation = rel]
<1>1. r \in AllRules /\ x \in AllRules
  BY SameLevel, RulesAreRules
<1>3. x.compound = r.compound /\ x.negated = r.negated /\ x.parts = r.parts /\ x.cond = r.cond
  BY <1>1, SameFields
<1> HIDE DEF x
<1>4. evaluateWithNegation(x, ctx) = evaluateWithNegation(r, ctx)
  BY <1>3 DEF evaluateWithNegation
<1>5. CASE ~r.compound
  BY <1>1, <1>3, <1>4, <1>5, EvaluateUnfolds DEF x
<1>6. CASE r.compound
  <2>1. Holds(x, ctx) = Holds(r, ctx)
    BY <1>3 DEF Holds
  <2>2. Evaluate(x, ctx) = (EvaluateParts(x.parts, Holds(x, ctx)) # x.negated)
    BY <1>1, <1>3, <1>6, EvaluateUnfolds DEF Holds
  <2>3. Evaluate(r, ctx) = (EvaluateParts(r.parts, Holds(r, ctx)) # r.negated)
    BY <1>1, <1>6, EvaluateUnfolds DEF Holds
  <2>4. Evaluate(x, ctx) = Evaluate(r, ctx)
    <3>1. EvaluateParts(r.parts, Holds(r, ctx)) \in BOOLEAN /\ r.negated \in BOOLEAN
      BY <1>1, HoldsType, PartsBoolean, RuleParts
    <3>4. Evaluate(r, ctx) \in BOOLEAN /\ Evaluate(x, ctx) \in BOOLEAN
      BY <1>1, EvaluateUnfolds
    <3>2. EvaluateParts(x.parts, Holds(x, ctx)) = EvaluateParts(r.parts, Holds(r, ctx))
      BY <1>3, <2>1
    <3>5. Evaluate(x, ctx) <=> (EvaluateParts(r.parts, Holds(r, ctx)) # r.negated)
      BY <1>3, <2>2, <3>2
    <3>6. Evaluate(r, ctx) <=> (EvaluateParts(r.parts, Holds(r, ctx)) # r.negated)
      BY <2>3
    <3>7. Evaluate(x, ctx) <=> Evaluate(r, ctx)
      BY <3>5, <3>6
    <3>8. QED BY <3>4, <3>7, BooleansEqual
  <2>5. QED BY <2>4 DEF x
<1>7. QED BY <1>1, <1>5, <1>6, RuleParts

(* A rule and its negation; only a condition that nobody can evaluate      *)
(* fails both.                                                             *)
LEMMA NegationEvaluates ==
    ASSUME NEW r \in AllRules, NEW ctx, Not(r) \in AllRules, r.compound \/ HasEvaluator(r.cond)
    PROVE  Evaluate(Not(r), ctx) = ~Evaluate(r, ctx)
<1> DEFINE x == Not(r)
<1>1. x.compound = r.compound /\ x.negated = ~r.negated /\ x.parts = r.parts /\ x.cond = r.cond
  BY SameFields
<1>2. r.compound \in BOOLEAN /\ r.negated \in BOOLEAN /\ Evaluate(r, ctx) \in BOOLEAN /\ Evaluate(x, ctx) \in BOOLEAN
  BY RuleParts, EvaluateUnfolds
<1> HIDE DEF x
<1>3. CASE ~r.compound
  <2>1. Evaluate(x, ctx) = evaluateWithNegation(x, ctx) /\ Evaluate(r, ctx) = evaluateWithNegation(r, ctx)
    BY <1>1, <1>3, EvaluateUnfolds DEF x
  <2>2. HasEvaluator(r.cond)
    BY <1>3
  <2>3. evaluateWithNegation(x, ctx) <=> (EvaluateCondition(r.cond, ctx) # x.negated)
    BY <1>1, <2>2 DEF evaluateWithNegation
  <2>4. evaluateWithNegation(r, ctx) <=> (EvaluateCondition(r.cond, ctx) # r.negated)
    BY <2>2 DEF evaluateWithNegation
  <2>5. EvaluateCondition(r.cond, ctx) \in BOOLEAN
    BY DEF EvaluateCondition
  <2>6. QED BY <1>1, <1>2, <2>1, <2>3, <2>4, <2>5 DEF x
<1>4. CASE r.compound
  <2>1. Holds(x, ctx) = Holds(r, ctx)
    BY <1>1 DEF Holds
  <2>2. Evaluate(x, ctx) = (EvaluateParts(x.parts, Holds(x, ctx)) # x.negated)
    BY <1>1, <1>4, EvaluateUnfolds DEF Holds, x
  <2>3. Evaluate(r, ctx) = (EvaluateParts(r.parts, Holds(r, ctx)) # r.negated)
    BY <1>4, EvaluateUnfolds DEF Holds
  <2>4. EvaluateParts(r.parts, Holds(r, ctx)) \in BOOLEAN
    BY HoldsType, PartsBoolean
  <2>5. Evaluate(x, ctx) = ~Evaluate(r, ctx)
    BY <1>1, <1>2, <2>1, <2>2, <2>3, <2>4
  <2>6. QED BY <2>5 DEF x
<1>5. QED BY <1>2, <1>3, <1>4

(* The parts of a rule that one was added to.                              *)
PartsOf(r) == IF r.compound THEN r.parts ELSE <<r>>
Adds(x, base, part, rel) ==
    LET n == Len(PartsOf(base))
    IN  /\ x \in AllRules /\ x.compound /\ (x.negated <=> base.compound /\ base.negated)
        /\ x.relation = IF base.compound THEN base.relation ELSE ""
        /\ PartsOf(base) \in Seq(AllRules) /\ n \in Nat
        /\ Len(x.parts) = n + 1 /\ x.parts[n + 1] = [part EXCEPT !.relation = rel]
        /\ \A i \in 1..n : x.parts[i] = PartsOf(base)[i]

LEMMA AddedParts ==
    ASSUME NEW d \in 1..MaxDepth, NEW base \in Rules[d], NEW part \in Rules[d - 1], NEW rel \in {"AND", "OR"}
    PROVE  Adds(addRelatedCompound(base, part, rel), base, part, rel)
<1> DEFINE x == addRelatedCompound(base, part, rel)
           ps == PartsOf(base)
           last == [part EXCEPT !.relation = rel]
<1>0. d \in 0..MaxDepth /\ d - 1 \in 0..MaxDepth
  BY DepthOK
<1>1. base \in AllRules /\ part \in AllRules /\ x \in AllRules
  BY <1>0, AddType, RulesAreRules
<1>2. last \in AllRules
  BY <1>0, SameLevel, RulesAreRules
<1>3. ps \in Seq(AllRules)
  <2>1. CASE base.compound
    BY <1>1, <2>1, RuleParts DEF PartsOf
  <2>2. CASE ~base.compound
    BY <1>1, <2>2, OnePart DEF PartsOf, Joined
  <2>3. QED BY <2>1, <2>2
<1>4. x.compound /\ (x.negated <=> base.compound /\ base.negated) /\ x.parts = Append(ps, last)
      /\ x.relation = IF base.compound THEN base.relation ELSE ""
  <2>1. CASE base.compound
    <3>1. x = [base EXCEPT !.parts = Append(ps, last)]
      BY <2>1 DEF addRelatedCompound, PartsOf
    <3> HIDE DEF x, ps, last
    <3>2. QED BY <1>1, <2>1, <3>1, RuleShape DEF RuleOf
  <2>2. CASE ~base.compound
    <3>1. x = Compound(Append(ps, last))
      BY <2>2 DEF addRelatedCompound, PartsOf
    <3> HIDE DEF x, ps, last
    <3>2. QED BY <2>2, <3>1 DEF Compound
  <2>3. QED BY <2>1, <2>2
<1> HIDE DEF x, ps, last
<1>5. Len(ps) \in Nat /\ Len(x.parts) = Len(ps) + 1 /\ x.parts[Len(ps) + 1] = last /\ \A i \in 1..Len(ps) : x.parts[i] = ps[i]
  <2> DEFINE y == Append(ps, last)
             R == AllRules
  <2>1. ps \in Seq(R) /\ last \in R
    BY <1>2, <1>3
  <2> HIDE DEF R
  <2>2. Len(ps) \in Nat /\ Len(y) = Len(ps) + 1 /\ y[Len(ps) + 1] = last /\ \A i \in 1..Len(ps) : y[i] = ps[i]
    BY <2>1, AppendFacts
  <2>3. x.parts = y
    BY <1>4
  <2> HIDE DEF y
  <2>4. QED BY <2>2, <2>3
<1>6. Adds(x, base, part, rel)
  BY <1>1, <1>3, <1>4, <1>5 DEF ps, last, Adds
<1>7. QED BY <1>6 DEF x

LEMMA AfterFirst ==
    ASSUME NEW parts, NEW h, h[1] \in BOOLEAN
    PROVE  /\ AfterPart(parts, h, 1, Start) \in LoopState
           /\ AfterPart(parts, h, 1, Start).result <=> h[1]
           /\ ~AfterPart(parts, h, 1, Start).ended
<1>1. ~(1 > 1)
  OBVIOUS
<1>2. AfterPart(parts, h, 1, Start) = [Start EXCEPT !.result = h[1]]
  BY <1>1 DEF AfterPart, Start
<1>3. QED BY <1>2 DEF Start, LoopState

LEMMA AfterLater ==
    ASSUME NEW parts, NEW h, NEW i \in Nat, i > 1, h[i] \in BOOLEAN, NEW s \in LoopState, s.ended => ~s.result,
           parts[i].relation \in {"AND", "OR"}
    PROVE  IsAfter(AfterPart(parts, h, i, s), parts[i].relation, s, h[i])
<1>1. CASE s.ended
  BY <1>1 DEF AfterPart, IsAfter, LoopState
<1>2. CASE ~s.ended /\ s.result /\ parts[i].relation = "OR"
  BY <1>2 DEF AfterPart, IsAfter, LoopState
<1>3. CASE ~s.ended /\ ~s.result /\ parts[i].relation = "AND"
  BY <1>3 DEF AfterPart, IsAfter, LoopState
<1>4. CASE ~s.ended /\ (s.result <=> parts[i].relation = "AND")
  <2>1. AfterPart(parts, h, i, s) = [s EXCEPT !.result = h[i]]
    BY <1>4 DEF AfterPart
  <2>2. QED BY <1>4, <2>1 DEF IsAfter, LoopState
<1>5. QED BY <1>1, <1>2, <1>3, <1>4

LEMMA SameState ==
    ASSUME NEW s \in LoopState, NEW t \in LoopState, s.result <=> t.result, s.ended <=> t.ended PROVE s = t
BY DEF LoopState

LEMMA AddState ==
    ASSUME NEW d \in 1..MaxDepth, NEW base \in Rules[d], NEW part \in Rules[d - 1], NEW rel \in {"AND", "OR"}, NEW ctx,
           base.compound => base.parts # <<>>
    PROVE  IsAfter(EndState(addRelatedCompound(base, part, rel), ctx), rel, EndState(base, ctx), Evaluate(part, ctx))
<1> DEFINE x == addRelatedCompound(base, part, rel)
           ps == PartsOf(base)
           n == Len(ps)
           h == Holds(x, ctx)
           f == Run(x, ctx)
<1>0. d \in 0..MaxDepth /\ d - 1 \in 0..MaxDepth
  BY DepthOK
<1>1. base \in AllRules /\ part \in AllRules
  BY <1>0, RulesAreRules
<1>2. /\ x \in AllRules /\ x.compound /\ ps \in Seq(AllRules) /\ n \in Nat
      /\ Len(x.parts) = n + 1 /\ x.parts[n + 1] = [part EXCEPT !.relation = rel]
      /\ \A i \in 1..n : x.parts[i] = ps[i]
  <2>1. Adds(x, base, part, rel)
    BY AddedParts
  <2> HIDE DEF x
  <2>2. QED BY <2>1 DEF Adds
<1> HIDE DEF x, ps, n
<1>3. /\ h \in [1..n + 1 -> BOOLEAN] /\ IsRun(f, x.parts, h) /\ EndState(x, ctx) = f[n + 1]
      /\ DOMAIN x.parts = 1..n + 1
  <2>1. h \in [1..n + 1 -> BOOLEAN] /\ DOMAIN x.parts = 1..n + 1
    BY <1>2, HoldsType, RuleParts
  <2>2. IsRun(f, x.parts, h)
    BY <1>2, RunFacts
  <2>3. QED BY <1>2, <2>1, <2>2 DEF EndState
<1>4. h[n + 1] = Evaluate(part, ctx)
  <2>1. h[n + 1] = Evaluate(x.parts[n + 1], ctx)
    BY <1>2, <1>3 DEF Holds
  <2> DEFINE e == d - 1
  <2>2. e \in 0..MaxDepth /\ part \in Rules[e] /\ rel \in {"", "AND", "OR"}
    BY <1>0
  <2> HIDE DEF e
  <2>3. Evaluate([part EXCEPT !.relation = rel], ctx) = Evaluate(part, ctx)
    BY <2>2, RelationIgnored
  <2>4. QED BY <1>2, <2>1, <2>3
<1>5. \A i \in 1..n : h[i] = Evaluate(ps[i], ctx)
  BY <1>2, <1>3 DEF Holds
<1>6. n # 0
  <2>1. CASE base.compound
    BY <1>1, <1>2, <2>1, RuleParts, EmptySeq DEF n, ps, PartsOf
  <2>2. CASE ~base.compound
    BY <1>1, <2>2, OnePart DEF n, ps, PartsOf
  <2>3. QED BY <2>1, <2>2
<1> HIDE DEF h, f
<1>7. f[n] = EndState(base, ctx)
  <2>1. CASE base.compound
    <3> DEFINE g == Run(base, ctx)
               k == Holds(base, ctx)
    <3>1. IsRun(g, base.parts, k) /\ EndState(base, ctx) = g[n] /\ ps = base.parts /\ DOMAIN ps = 1..n
      BY <1>1, <2>1, RunFacts, RuleParts DEF EndState, n, ps, PartsOf
    <3>2. \A i \in 1..n : k[i] = h[i]
      BY <1>5, <3>1 DEF Holds
    <3> HIDE DEF g, k
    <3>3. SameSteps(n, f, g)
      <4>1. f[0] = g[0]
        BY <1>3, <3>1 DEF IsRun
      <4>2. ASSUME NEW i \in 1..n, f[i - 1] = g[i - 1] PROVE f[i] = g[i]
        <5>1. i \in 1..n + 1 /\ i \in 1..Len(base.parts)
          BY <1>2, <3>1 DEF n
        <5>2. f[i] = AfterPart(x.parts, h, i, f[i - 1]) /\ g[i] = AfterPart(base.parts, k, i, g[i - 1])
          BY <1>2, <1>3, <3>1, <5>1 DEF IsRun
        <5>3. x.parts[i] = base.parts[i] /\ h[i] = k[i]
          BY <1>2, <3>1, <3>2
        <5>4. QED BY <4>2, <5>2, <5>3 DEF AfterPart
      <4>3. QED BY <4>1, <4>2 DEF SameSteps
    <3>4. QED BY <1>2, <3>1, <3>3, LoopUnique
  <2>2. CASE ~base.compound
    <3>1. n = 1 /\ ps[1] = base
      BY <1>1, <2>2, OnePart DEF n, ps, PartsOf
    <3>2. f[1] = AfterPart(x.parts, h, 1, Start)
      <4>1. 1 \in 1..Len(x.parts) /\ 1 - 1 = 0
        BY <1>2, <3>1
      <4>2. QED BY <1>3, <4>1 DEF IsRun
    <3>3. h[1] = Evaluate(base, ctx)
      BY <1>5, <3>1
    <3>4. f[1] \in LoopState /\ (f[1].result <=> Evaluate(base, ctx)) /\ ~f[1].ended
      <4>1. h[1] \in BOOLEAN
        BY <1>1, <3>3, EvaluateUnfolds
      <4>2. QED BY <3>2, <3>3, <4>1, AfterFirst
    <3>5. EndState(base, ctx) \in LoopState /\ (EndState(base, ctx).result <=> Evaluate(base, ctx)) /\ ~EndState(base, ctx).ended
      BY <1>1, <2>2, EndStateFacts
    <3>6. QED BY <3>1, <3>4, <3>5, SameState
  <2>3. QED BY <2>1, <2>2
<1>8. f[n + 1] = AfterPart(x.parts, h, n + 1, f[n])
  <2>1. n + 1 \in 1..Len(x.parts) /\ (n + 1) - 1 = n
    BY <1>2
  <2>2. QED BY <1>3, <2>1 DEF IsRun
<1>9. x.parts[n + 1].relation = rel
  BY <1>1, <1>2, SameFields
<1>10. IsAfter(f[n + 1], rel, EndState(base, ctx), Evaluate(part, ctx))
  <2> DEFINE s == f[n]
  <2>1. s \in LoopState /\ (s.ended => ~s.result) /\ n + 1 > 1 /\ h[n + 1] \in BOOLEAN
    BY <1>1, <1>2, <1>3, <1>6, <1>7, EndStateFacts
  <2> HIDE DEF s
  <2>2. IsAfter(AfterPart(x.parts, h, n + 1, s), rel, s, h[n + 1])
    <3> DEFINE m == n + 1
    <3>1. m \in Nat /\ m > 1 /\ h[m] \in BOOLEAN /\ x.parts[m].relation = rel
      BY <1>2, <1>9, <2>1
    <3> HIDE DEF m
    <3>2. IsAfter(AfterPart(x.parts, h, m, s), rel, s, h[m])
      BY <2>1, <3>1, AfterLater
    <3>3. QED BY <3>2 DEF m
  <2>3. QED BY <1>4, <1>7, <1>8, <2>2 DEF s
<1>11. QED BY <1>3, <1>10 DEF x

-----------------------------------------------------------------------------
(* Rules that the factory builds, part by part.                            *)
Chain(r, d) == r \in Rules[d] /\ (r.compound => ~r.negated /\ r.parts # <<>>)

Joins(x, base, part, rel, d) ==
    /\ Chain(x, d) /\ x.compound
    /\ \A ctx : IsAfter(EndState(x, ctx), rel, EndState(base, ctx), Evaluate(part, ctx))

LEMMA ChainAdd ==
    ASSUME NEW d \in 1..MaxDepth, NEW base, Chain(base, d), NEW part \in Rules[d - 1], NEW rel \in {"AND", "OR"}
    PROVE  Joins(addRelatedCompound(base, part, rel), base, part, rel, d)
<1> DEFINE x == addRelatedCompound(base, part, rel)
<1>1. base \in Rules[d] /\ (base.compound => ~base.negated /\ base.parts # <<>>)
  BY DEF Chain
<1>2. x \in Rules[d] /\ Adds(x, base, part, rel)
  BY <1>1, AddType, AddedParts
<1>3. \A ctx : IsAfter(EndState(x, ctx), rel, EndState(base, ctx), Evaluate(part, ctx))
  BY <1>1, AddState
<1> HIDE DEF x
<1>4. x.compound /\ ~x.negated /\ x.parts # <<>>
  <2>1. x.compound /\ ~x.negated
    BY <1>1, <1>2 DEF Adds
  <2>2. Len(x.parts) # 0
    <3>1. Len(PartsOf(base)) \in Nat /\ Len(x.parts) = Len(PartsOf(base)) + 1
      BY <1>2 DEF Adds
    <3>2. QED BY <3>1
  <2>3. QED BY <2>1, <2>2, EmptySeq
<1>5. Joins(x, base, part, rel, d)
  BY <1>2, <1>3, <1>4 DEF Chain, Joins, x
<1>6. QED BY <1>5 DEF x

LEMMA ChainState ==
    ASSUME NEW d \in 0..MaxDepth, NEW r, Chain(r, d), NEW ctx
    PROVE  /\ r \in AllRules /\ EndState(r, ctx) \in LoopState
           /\ EndState(r, ctx).result <=> Evaluate(r, ctx)
           /\ EndState(r, ctx).ended => ~EndState(r, ctx).result
           /\ ~r.compound => ~EndState(r, ctx).ended
<1>1. r \in AllRules /\ (~r.compound \/ ~r.negated)
  BY RulesAreRules DEF Chain
<1>2. EndState(r, ctx) \in LoopState /\ (EndState(r, ctx).ended => ~EndState(r, ctx).result)
  BY <1>1, EndStateFacts
<1>3. EndState(r, ctx).result = Evaluate(r, ctx)
  BY <1>1, EndStateFacts
<1>4. ~r.compound => ~EndState(r, ctx).ended
  BY <1>1, EndStateFacts
<1>5. QED BY <1>1, <1>2, <1>3, <1>4

(* The leaves of the factory.                                              *)
LEMMA ArgTypes ==
    /\ \A s \in STRING : Str(s) \in FixedArgs /\ Str(s) = [kind |-> "string", str |-> s, num |-> 0, set |-> {}]
    /\ \A n \in Int : Dbl(n) \in FixedArgs /\ Dbl(n) = [kind |-> "double", str |-> "", num |-> n, set |-> {}]
    /\ \A S \in SUBSET STRING : Coll(S) \in FixedArgs /\ Coll(S) = [kind |-> "collection", str |-> "", num |-> 0, set |-> S]
<1>0. {} \in SUBSET STRING /\ 0 \in Int /\ "" \in STRING
  <2>1. "" \in STRING
    BY WordsOK
  <2>2. {} \in SUBSET STRING /\ 0 \in Int
    OBVIOUS
  <2>3. QED BY <2>1, <2>2
<1>1. ASSUME NEW s \in STRING PROVE Str(s) \in FixedArgs /\ Str(s) = [kind |-> "string", str |-> s, num |-> 0, set |-> {}]
  <2>1. Str(s) = [kind |-> "string", str |-> s, num |-> 0, set |-> {}]
    BY DEF Str
  <2>2. QED BY <1>0, <2>1, ArgType
<1>2. ASSUME NEW n \in Int PROVE Dbl(n) \in FixedArgs /\ Dbl(n) = [kind |-> "double", str |-> "", num |-> n, set |-> {}]
  <2>1. Dbl(n) = [kind |-> "double", str |-> "", num |-> n, set |-> {}]
    BY DEF Dbl, Empty
  <2>2. QED BY <1>0, <2>1, ArgType
<1>3. ASSUME NEW S \in SUBSET STRING
      PROVE Coll(S) \in FixedArgs /\ Coll(S) = [kind |-> "collection", str |-> "", num |-> 0, set |-> S]
  <2>1. Coll(S) = [kind |-> "collection", str |-> "", num |-> 0, set |-> S]
    BY DEF Coll, Empty
  <2>2. QED BY <1>0, <2>1, ArgType
<1>4. QED BY <1>1, <1>2, <1>3

LEMMA CondType ==
    ASSUME NEW t \in STRING, NEW n \in STRING, NEW o \in STRING, NEW a \in FixedArgs
    PROVE  /\ Cond(t, n, o, a) \in AllConditions /\ Leaf(Cond(t, n, o, a)) \in Rules[0]
           /\ Not(Leaf(Cond(t, n, o, a))) \in Rules[0]
<1> DEFINE c == Cond(t, n, o, a)
<1>1. c \in AllConditions
  BY DEF Cond, AllConditions
<1> HIDE DEF c
<1>2. Leaf(c) \in Rules[0]
  BY <1>1, LeafType
<1>3. Not(Leaf(c)) \in Rules[0]
  <2> DEFINE r == Leaf(c)
  <2>1. r \in Rules[0] /\ 0 \in 0..MaxDepth
    BY <1>2, DepthOK
  <2> HIDE DEF r
  <2>2. Not(r) \in Rules[0]
    BY <2>1, SameLevel
  <2>3. QED BY <2>2 DEF r
<1>4. QED BY <1>1, <1>2, <1>3 DEF c

(* What a leaf of depth 0 evaluates to.                                    *)
LEMMA LeafEvaluates ==
    ASSUME NEW c \in AllConditions, HasEvaluator(c), NEW ctx
    PROVE  /\ Evaluate(Leaf(c), ctx) <=> EvaluateCondition(c, ctx)
           /\ Evaluate(Not(Leaf(c)), ctx) <=> ~EvaluateCondition(c, ctx)
           /\ Leaf(c) \in Rules[0] /\ Not(Leaf(c)) \in Rules[0]
           /\ Chain(Leaf(c), 1) /\ Chain(Not(Leaf(c)), 1) /\ ~Leaf(c).compound /\ ~Not(Leaf(c)).compound
<1> DEFINE r == Leaf(c)
<1>1. r \in Rules[0] /\ ~r.compound /\ r.cond = c /\ r.negated = FALSE
  BY LeafType DEF Leaf
<1> HIDE DEF r
<1>2. Not(r) \in Rules[0] /\ 0 \in 0..MaxDepth /\ Rules[0] \subseteq AllRules /\ Rules[0] \subseteq Rules[1]
  <2>1. 0 \in 0..MaxDepth /\ 1 \in 0..MaxDepth /\ 0 \in Nat /\ 0 <= 1
    BY DepthOK
  <2>2. QED BY <1>1, <2>1, SameLevel, RulesAreRules, LevelsGrow
<1>3. Evaluate(r, ctx) \in BOOLEAN /\ Evaluate(r, ctx) = evaluateWithNegation(r, ctx)
  BY <1>1, <1>2, EvaluateUnfolds
<1>4. evaluateWithNegation(r, ctx) <=> EvaluateCondition(c, ctx)
  <2>1. EvaluateCondition(c, ctx) \in BOOLEAN
    BY DEF EvaluateCondition
  <2>2. QED BY <1>1, <2>1 DEF evaluateWithNegation
<1>5. Evaluate(Not(r), ctx) = ~Evaluate(r, ctx)
  BY <1>1, <1>2, NegationEvaluates
<1>6. ~Not(r).compound
  BY <1>1, <1>2, SameFields
<1>7. Chain(r, 1) /\ Chain(Not(r), 1)
  BY <1>1, <1>2, <1>6 DEF Chain
<1>8. QED BY <1>1, <1>2, <1>3, <1>4, <1>5, <1>6, <1>7 DEF r

(* A part that is added by AND has to hold too; one that is added by OR is *)
(* an alternative to the part before it and to no other.                   *)
LEMMA AndHolds ==
    ASSUME NEW d \in 1..MaxDepth, NEW base, Chain(base, d), NEW part \in Rules[d - 1]
    PROVE  /\ Chain(AndRules(base, part), d) /\ AndRules(base, part).compound
           /\ \A ctx : Evaluate(AndRules(base, part), ctx) <=> Evaluate(base, ctx) /\ Evaluate(part, ctx)
<1> DEFINE x == AndRules(base, part)
<1>0. d \in 0..MaxDepth
  BY DepthOK
<1>1. Joins(x, base, part, "AND", d)
  BY ChainAdd DEF AndRules
<1> HIDE DEF x
<1>2. Chain(x, d) /\ x.compound /\ \A ctx : IsAfter(EndState(x, ctx), "AND", EndState(base, ctx), Evaluate(part, ctx))
  BY <1>1 DEF Joins
<1>3. ASSUME NEW ctx PROVE Evaluate(x, ctx) <=> Evaluate(base, ctx) /\ Evaluate(part, ctx)
  <2>1. EndState(x, ctx).result <=> EndState(base, ctx).result /\ Evaluate(part, ctx)
    BY <1>2 DEF IsAfter
  <2>2. (EndState(x, ctx).result <=> Evaluate(x, ctx)) /\ (EndState(base, ctx).result <=> Evaluate(base, ctx))
    BY <1>0, <1>2, ChainState
  <2>3. QED BY <2>1, <2>2
<1>4. QED BY <1>2, <1>3 DEF x

LEMMA OrPairHolds ==
    ASSUME NEW d \in 1..MaxDepth, NEW base, Chain(base, d), NEW q \in Rules[d - 1], NEW p \in Rules[d - 1]
    PROVE  LET x == OrRules(AndRules(base, q), p)
           IN  /\ Chain(x, d) /\ x.compound
               /\ \A ctx : Evaluate(x, ctx) <=> Evaluate(base, ctx) /\ (Evaluate(q, ctx) \/ Evaluate(p, ctx))
<1> DEFINE y == AndRules(base, q)
           x == OrRules(y, p)
<1>0. d \in 0..MaxDepth
  BY DepthOK
<1>1. Joins(y, base, q, "AND", d)
  BY ChainAdd DEF AndRules
<1> HIDE DEF y
<1>2. Chain(y, d) /\ \A ctx : IsAfter(EndState(y, ctx), "AND", EndState(base, ctx), Evaluate(q, ctx))
  BY <1>1 DEF Joins
<1>3. Joins(x, y, p, "OR", d)
  BY <1>2, ChainAdd DEF OrRules
<1> HIDE DEF x
<1>4. Chain(x, d) /\ x.compound /\ \A ctx : IsAfter(EndState(x, ctx), "OR", EndState(y, ctx), Evaluate(p, ctx))
  BY <1>3 DEF Joins
<1>5. ASSUME NEW ctx PROVE Evaluate(x, ctx) <=> Evaluate(base, ctx) /\ (Evaluate(q, ctx) \/ Evaluate(p, ctx))
  <2>1. /\ EndState(y, ctx).result <=> EndState(base, ctx).result /\ Evaluate(q, ctx)
        /\ EndState(y, ctx).ended <=> EndState(base, ctx).ended \/ ~EndState(base, ctx).result
    BY <1>2 DEF IsAfter
  <2>2. EndState(x, ctx).result <=> ~EndState(y, ctx).ended /\ (EndState(y, ctx).result \/ Evaluate(p, ctx))
    BY <1>4 DEF IsAfter
  <2>3. EndState(x, ctx).result <=> Evaluate(x, ctx)
    BY <1>0, <1>4, ChainState
  <2>4. (EndState(base, ctx).result <=> Evaluate(base, ctx)) /\ (EndState(base, ctx).ended => ~EndState(base, ctx).result)
    BY <1>0, ChainState
  <2>5. QED BY <2>1, <2>2, <2>3, <2>4
<1>6. QED BY <1>4, <1>5 DEF x, y

(* The conditions of the factory.                                          *)
LEMMA EvaluatorFacts ==
    /\ \A n, a : \A op \in {"IS", "IN", "IN_LIST", "PERCENT", "GTE", "LTE"} : HasEvaluator(Cond("STRING", n, op, a))
    /\ \A n, a : HasEvaluator(Cond("ANY", n, "EXISTS", a))
    /\ \A n, a : \A op \in {"GTE", "LTE"} : HasEvaluator(Cond("TIME", n, op, a))
    /\ \A t, n, op, a : LET c == Cond(t, n, op, a) IN c.type = t /\ c.name = n /\ c.op = op /\ c.fixed = a
BY DEF HasEvaluator, Evaluators, Cond, Comparisons

LEMMA StrEqual == ASSUME NEW s, NEW v PROVE Str(s) = Str(v) <=> s = v
<1>1. Str(s).str = s /\ Str(v).str = v
  BY DEF Str
<1>2. QED BY <1>1

LEMMA IsCondition ==
    ASSUME NEW n, NEW s, s \notin {Absent, Empty}, NEW ctx
    PROVE  EvaluateCondition(Cond("STRING", n, "IS", Str(s)), ctx) <=> ctx[n] = s
<1> DEFINE c == Cond("STRING", n, "IS", Str(s))
<1>1. c.type = "STRING" /\ c.name = n /\ c.op = "IS" /\ c.fixed = Str(s)
  BY DEF Cond
<1> HIDE DEF c
<1>2. Satisfies(c, ctx[n]) <=> Str(s) = Str(ctx[n])
  BY <1>1 DEF Satisfies, Text, Comparisons
<1>3. EvaluateCondition(c, ctx) <=> ctx[n] = s
  BY <1>1, <1>2, StrEqual DEF EvaluateCondition
<1>4. QED BY <1>3 DEF c

LEMMA InCondition ==
    ASSUME NEW n, NEW S, {Absent, Empty} \cap S = {}, NEW ctx
    PROVE  EvaluateCondition(Cond("STRING", n, "IN", Coll(S)), ctx) <=> ctx[n] \in S
<1> DEFINE c == Cond("STRING", n, "IN", Coll(S))
<1>1. c.type = "STRING" /\ c.name = n /\ c.op = "IN" /\ c.fixed.kind = "collection" /\ c.fixed.set = S
  BY DEF Cond, Coll
<1> HIDE DEF c
<1>2. Satisfies(c, ctx[n]) <=> ctx[n] \in S
  BY <1>1 DEF Satisfies, Text, Comparisons
<1>3. EvaluateCondition(c, ctx) <=> ctx[n] \in S
  BY <1>1, <1>2 DEF EvaluateCondition
<1>4. QED BY <1>3 DEF c

LEMMA ListCondition ==
    ASSUME NEW n, NEW l \in DOMAIN Lists, {Absent, Empty} \cap Lists[l] = {}, NEW ctx
    PROVE  EvaluateCondition(Cond("STRING", n, "IN_LIST", Str(l)), ctx) <=> ctx[n] \in Lists[l]
<1> DEFINE c == Cond("STRING", n, "IN_LIST", Str(l))
<1>1. c.type = "STRING" /\ c.name = n /\ c.op = "IN_LIST" /\ c.fixed.kind = "string" /\ c.fixed.str = l
  BY DEF Cond, Str
<1> HIDE DEF c
<1>2. Satisfies(c, ctx[n]) <=> ctx[n] \in Lists[l]
  BY <1>1 DEF Satisfies, Text, Comparisons, IsInList
<1>3. EvaluateCondition(c, ctx) <=> ctx[n] \in Lists[l]
  BY <1>1, <1>2 DEF EvaluateCondition
<1>4. QED BY <1>3 DEF c

LEMMA ExistsCondition ==
    ASSUME NEW n, NEW ctx
    PROVE  EvaluateCondition(Cond("ANY", n, "EXISTS", NoArg), ctx) <=> ctx[n] # Absent
BY DEF EvaluateCondition, Cond

(* The leaves of the factory: their depth and what they say of a device.   *)
GoodLeaf(r) == r \in Rules[0] /\ ~r.compound /\ Chain(r, 1)

LEMMA LeafOf ==
    ASSUME NEW c \in AllConditions
    PROVE  GoodLeaf(Leaf(c)) /\ GoodLeaf(Not(Leaf(c)))
<1> DEFINE r == Leaf(c)
<1>1. r \in Rules[0] /\ ~r.compound
  BY LeafType DEF Leaf
<1> HIDE DEF r
<1>2. 0 \in 0..MaxDepth /\ 1 \in 0..MaxDepth /\ 0 \in Nat /\ 0 <= 1
  BY DepthOK
<1>3. Not(r) \in Rules[0] /\ Rules[0] \subseteq AllRules /\ Rules[0] \subseteq Rules[1]
  BY <1>1, <1>2, SameLevel, RulesAreRules, LevelsGrow
<1>4. ~Not(r).compound
  BY <1>1, <1>3, SameFields
<1>5. QED BY <1>1, <1>3, <1>4 DEF GoodLeaf, Chain, r

LEMMA TextLeaves ==
    ASSUME NEW n \in STRING, NEW s \in STRING, s \notin {Absent, Empty}, NEW ctx
    PROVE  /\ GoodLeaf(IsText(n, s)) /\ GoodLeaf(Not(IsText(n, s)))
           /\ Evaluate(IsText(n, s), ctx) <=> ctx[n] = s
           /\ Evaluate(Not(IsText(n, s)), ctx) <=> ctx[n] # s
<1> DEFINE c == Cond("STRING", n, "IS", Str(s))
<1>1. "STRING" \in STRING /\ "IS" \in STRING
  BY WordsOK
<1>2. c \in AllConditions /\ HasEvaluator(c)
  BY <1>1, CondType, ArgTypes, EvaluatorFacts
<1>3. EvaluateCondition(c, ctx) <=> ctx[n] = s
  BY IsCondition
<1>4. IsText(n, s) = Leaf(c)
  BY DEF IsText
<1> HIDE DEF c
<1>5. QED BY <1>2, <1>3, <1>4, LeafOf, LeafEvaluates

LEMMA SetLeaves ==
    ASSUME NEW n \in STRING, NEW S \in SUBSET STRING, {Absent, Empty} \cap S = {}, NEW ctx
    PROVE  /\ GoodLeaf(InText(n, S)) /\ GoodLeaf(Not(InText(n, S)))
           /\ Evaluate(InText(n, S), ctx) <=> ctx[n] \in S
           /\ Evaluate(Not(InText(n, S)), ctx) <=> ctx[n] \notin S
<1> DEFINE c == Cond("STRING", n, "IN", Coll(S))
<1>1. "STRING" \in STRING /\ "IN" \in STRING
  BY WordsOK
<1>2. c \in AllConditions /\ HasEvaluator(c)
  BY <1>1, CondType, ArgTypes, EvaluatorFacts
<1>3. EvaluateCondition(c, ctx) <=> ctx[n] \in S
  BY InCondition
<1>4. InText(n, S) = Leaf(c)
  BY DEF InText
<1> HIDE DEF c
<1>5. QED BY <1>2, <1>3, <1>4, LeafOf, LeafEvaluates

LEMMA ListLeaves ==
    ASSUME NEW n \in STRING, NEW l \in DOMAIN Lists, NEW ctx
    PROVE  /\ GoodLeaf(InList(n, l)) /\ GoodLeaf(Not(InList(n, l)))
           /\ Evaluate(InList(n, l), ctx) <=> ctx[n] \in Lists[l]
           /\ Evaluate(Not(InList(n, l)), ctx) <=> ctx[n] \notin Lists[l]
<1> DEFINE c == Cond("STRING", n, "IN_LIST", Str(l))
<1>0. l \in STRING /\ Lists[l] \subseteq Values /\ {Absent, Empty} \cap Lists[l] = {}
  BY FiltersOK, ValuesOK
<1>1. "STRING" \in STRING /\ "IN_LIST" \in STRING
  BY WordsOK
<1>2. c \in AllConditions /\ HasEvaluator(c)
  BY <1>0, <1>1, CondType, ArgTypes, EvaluatorFacts
<1>3. EvaluateCondition(c, ctx) <=> ctx[n] \in Lists[l]
  BY <1>0, ListCondition
<1>4. InList(n, l) = Leaf(c)
  BY DEF InList
<1> HIDE DEF c
<1>5. QED BY <1>2, <1>3, <1>4, LeafOf, LeafEvaluates

LEMMA ExistsLeaves ==
    ASSUME NEW n \in STRING, NEW ctx
    PROVE  LET r == Leaf(Cond("ANY", n, "EXISTS", NoArg))
           IN  GoodLeaf(r) /\ GoodLeaf(Not(r)) /\ (Evaluate(Not(r), ctx) <=> ctx[n] = Absent)
<1> DEFINE c == Cond("ANY", n, "EXISTS", NoArg)
<1>1. "ANY" \in STRING /\ "EXISTS" \in STRING
  BY WordsOK
<1>2. c \in AllConditions /\ HasEvaluator(c)
  BY <1>1, CondType, NoArgType, EvaluatorFacts
<1>3. EvaluateCondition(c, ctx) <=> ctx[n] # Absent
  BY ExistsCondition
<1> HIDE DEF c
<1>4. GoodLeaf(Leaf(c)) /\ GoodLeaf(Not(Leaf(c))) /\ (Evaluate(Not(Leaf(c)), ctx) <=> ctx[n] = Absent)
  BY <1>2, <1>3, LeafOf, LeafEvaluates
<1>5. QED BY <1>4 DEF c

(* Times: the clock of a device, read as TIME.                             *)
LEMMA TimeLeafType ==
    ASSUME NEW s \in STRING, NEW op \in {"GTE", "LTE"}
    PROVE  GoodLeaf(TimeIs(op, s)) /\ Cond(TimeType, "time", op, Str(s)) \in AllConditions
<1>1. {"STRING", "TIME", "time", "GTE", "LTE"} \subseteq STRING
  BY WordsOK
<1>2. TimeType \in STRING /\ op \in STRING /\ "time" \in STRING
  BY <1>1, ValuesOK
<1>3. Cond(TimeType, "time", op, Str(s)) \in AllConditions
  BY <1>2, CondType, ArgTypes
<1>4. QED BY <1>3, LeafOf DEF TimeIs

TimeOf(ctx) == IF ctx["time"] \in Values THEN AsNumber[ctx["time"]] ELSE NaN

LEMMA TimeLeaves ==
    ASSUME TimeType = "TIME", NEW s \in Times, NEW ctx \in FilterContexts
    PROVE  /\ Evaluate(TimeIs("GTE", s), ctx) <=> TimeOf(ctx) # NaN /\ TimeOf(ctx) >= AsNumber[s]
           /\ Evaluate(TimeIs("LTE", s), ctx) <=> TimeOf(ctx) # NaN /\ TimeOf(ctx) <= AsNumber[s]
<1>0. s \in STRING /\ s \in Values /\ AsNumber[s] # NaN /\ AsNumber[s] \in Nat
  BY ValuesOK DEF Times, NaN
<1>1. ctx["time"] \in Values \cup {Empty, Absent}
  BY FiltersOK DEF ParamNames
<1>2. ASSUME NEW op \in {"GTE", "LTE"}
      PROVE  Evaluate(TimeIs(op, s), ctx) <=>
                 ctx["time"] \notin {Absent, Empty} /\ TimeOf(ctx) # NaN /\ IF op = "GTE" THEN TimeOf(ctx) >= AsNumber[s] ELSE TimeOf(ctx) <= AsNumber[s]
  <2> DEFINE c == Cond("TIME", "time", op, Str(s))
             v == ctx["time"]
  <2>1. c \in AllConditions /\ HasEvaluator(c) /\ TimeIs(op, s) = Leaf(c)
    BY <1>0, TimeLeafType, EvaluatorFacts DEF TimeIs
  <2>2. c.type = "TIME" /\ c.name = "time" /\ c.op = op /\ c.fixed.kind = "string" /\ c.fixed.str = s
    BY DEF Cond, Str
  <2> HIDE DEF c
  <2>3. ASSUME v \notin {Absent, Empty}
        PROVE  Compares(c, v) <=> TimeOf(ctx) # NaN /\ IF op = "GTE" THEN TimeOf(ctx) >= AsNumber[s] ELSE TimeOf(ctx) <= AsNumber[s]
    <3>1. v \in Values /\ TimeOf(ctx) = AsNumber[v]
      BY <1>1, <2>3 DEF TimeOf
    <3>2. CASE op = "GTE"
      BY <1>0, <2>2, <3>1, <3>2 DEF Compares
    <3>3. CASE op = "LTE"
      BY <1>0, <2>2, <3>1, <3>3 DEF Compares
    <3>4. QED BY <3>2, <3>3
  <2>4. Satisfies(c, v) <=> Compares(c, v)
    BY <2>2 DEF Satisfies, Text, Comparisons
  <2>5. EvaluateCondition(c, ctx) <=> v \notin {Absent, Empty} /\ Satisfies(c, v)
    BY <2>2 DEF EvaluateCondition
  <2>6. Evaluate(Leaf(c), ctx) <=> EvaluateCondition(c, ctx)
    BY <2>1, LeafEvaluates
  <2>7. QED BY <2>1, <2>3, <2>4, <2>5, <2>6
<1>3. ctx["time"] \in {Absent, Empty} => TimeOf(ctx) = NaN
  BY ValuesOK DEF TimeOf
<1>4. QED BY <1>2, <1>3

LEMMA AndIfHolds ==
    ASSUME NEW b \in BOOLEAN, NEW base, Chain(base, 1), NEW part, b => part \in Rules[0]
    PROVE  /\ Chain(AndIf(b, base, part), 1)
           /\ \A ctx : Evaluate(AndIf(b, base, part), ctx) <=> Evaluate(base, ctx) /\ (b => Evaluate(part, ctx))
<1>1. CASE b
  <2>1. 1 \in 1..MaxDepth /\ 1 - 1 = 0
    BY DepthOK
  <2>2. QED BY <1>1, <2>1, AndHolds DEF AndIf
<1>2. CASE ~b
  <2>1. AndIf(b, base, part) = base
    BY <1>2 DEF AndIf
  <2>2. QED BY <1>2, <2>1
<1>3. QED BY <1>1, <1>2

(* What createTimeFilter puts together.                                    *)
LEMMA TimeFilterParts ==
    ASSUME NEW p \in Filters
    PROVE  /\ Chain(createTimeFilter(p), 1)
           /\ \A ctx : Evaluate(createTimeFilter(p), ctx) <=>
                /\ p.localTime <=> ctx["timeZone"] # "UTC"
                /\ IF AsNumber[p.start] < AsNumber[p.end]
                   THEN Evaluate(TimeIs("GTE", p.start), ctx) /\ Evaluate(TimeIs("LTE", p.end), ctx)
                   ELSE Evaluate(TimeIs("GTE", p.start), ctx) \/ Evaluate(TimeIs("LTE", p.end), ctx)
                /\ p.neverReboot => ctx["rebootDecoupled"] = Absent
                /\ p.neverHttp => ctx["downloadProtocol"] # "http"
                /\ p.ips # Empty => ctx["ipAddress"] \notin Lists[p.ips]
                /\ p.env # Empty /\ p.model # Empty => ctx["env"] # p.env \/ ctx["model"] # p.model
<1>0. 1 \in 1..MaxDepth /\ 1 - 1 = 0
  BY DepthOK
<1>1. /\ p.start \in STRING /\ p.end \in STRING /\ p.localTime \in BOOLEAN /\ p.neverReboot \in BOOLEAN /\ p.neverHttp \in BOOLEAN
      /\ p.ips # Empty => p.ips \in DOMAIN Lists
      /\ p.env # Empty => p.env \in STRING /\ p.env \notin {Absent, Empty}
      /\ p.model # Empty => p.model \in STRING /\ p.model \notin {Absent, Empty}
  <2>1. p \in [start : Times, end : Times, localTime : BOOLEAN, neverReboot : BOOLEAN, neverHttp : BOOLEAN,
               ips : DOMAIN Lists \cup {Empty}, env : Values \cup {Empty}, model : Values \cup {Empty}]
    BY FiltersOK
  <2>2. Values \subseteq STRING /\ Empty \notin Values /\ Absent \notin Values /\ Times \subseteq Values
    BY ValuesOK DEF Times
  <2>3. QED BY <2>1, <2>2
<1>2. /\ "timeZone" \in STRING /\ "UTC" \in STRING /\ "rebootDecoupled" \in STRING /\ "downloadProtocol" \in STRING
      /\ "http" \in STRING /\ "ipAddress" \in STRING /\ "env" \in STRING /\ "model" \in STRING
  BY WordsOK
<1>3. "UTC" \notin {Absent, Empty} /\ "http" \notin {Absent, Empty}
  BY DEF Absent, Empty
<1> DEFINE zone == IsText("timeZone", "UTC")
           r0 == IF p.localTime THEN Not(zone) ELSE zone
           t1 == TimeIs("GTE", p.start)
           t2 == TimeIs("LTE", p.end)
           r2 == IF AsNumber[p.start] < AsNumber[p.end] THEN AndRules(AndRules(r0, t1), t2) ELSE OrRules(AndRules(r0, t1), t2)
           reb == Not(Leaf(Cond("ANY", "rebootDecoupled", "EXISTS", NoArg)))
           r3 == AndIf(p.neverReboot, r2, reb)
           http == Not(IsText("downloadProtocol", "http"))
           r4 == AndIf(p.neverHttp, r3, http)
           ip == Not(InList("ipAddress", p.ips))
           r5 == AndIf(p.ips # Empty, r4, ip)
           env == Not(IsText("env", p.env))
           model == Not(IsText("model", p.model))
           both == p.env # Empty /\ p.model # Empty
           r6 == IF both THEN OrRules(AndRules(r5, env), model) ELSE r5
           From == AsNumber[p.start]
           To == AsNumber[p.end]
<1>4. createTimeFilter(p) = r6
  BY DEF createTimeFilter
<1>5. Chain(r0, 1) /\ \A ctx : Evaluate(r0, ctx) <=> (p.localTime <=> ctx["timeZone"] # "UTC")
  BY <1>1, <1>2, <1>3, TextLeaves DEF GoodLeaf
<1>6. t1 \in Rules[0] /\ t2 \in Rules[0]
  BY <1>1, TimeLeafType DEF GoodLeaf
<1>7. /\ reb \in Rules[0]
      /\ \A ctx : Evaluate(reb, ctx) <=> ctx["rebootDecoupled"] = Absent
  BY <1>2, ExistsLeaves DEF GoodLeaf
<1>8. http \in Rules[0] /\ \A ctx : Evaluate(http, ctx) <=> ctx["downloadProtocol"] # "http"
  BY <1>2, <1>3, TextLeaves DEF GoodLeaf
<1>9. p.ips # Empty => ip \in Rules[0] /\ \A ctx : Evaluate(ip, ctx) <=> ctx["ipAddress"] \notin Lists[p.ips]
  BY <1>1, <1>2, ListLeaves DEF GoodLeaf
<1>10. both => env \in Rules[0] /\ model \in Rules[0]
              /\ \A ctx : (Evaluate(env, ctx) <=> ctx["env"] # p.env) /\ (Evaluate(model, ctx) <=> ctx["model"] # p.model)
  <2>1. ASSUME both
        PROVE  env \in Rules[0] /\ \A ctx : Evaluate(env, ctx) <=> ctx["env"] # p.env
    <3>1. p.env \in STRING /\ p.env \notin {Absent, Empty}
      BY <1>1, <2>1
    <3>2. QED BY <1>2, <3>1, TextLeaves DEF GoodLeaf
  <2>2. ASSUME both
        PROVE  model \in Rules[0] /\ \A ctx : Evaluate(model, ctx) <=> ctx["model"] # p.model
    <3>1. p.model \in STRING /\ p.model \notin {Absent, Empty}
      BY <1>1, <2>2
    <3>2. QED BY <1>2, <3>1, TextLeaves DEF GoodLeaf
  <2> HIDE DEF both, env, model
  <2>3. QED BY <2>1, <2>2
<1> HIDE DEF r0, t1, t2, reb, http, ip, env, model
<1>11. /\ Chain(r2, 1)
       /\ \A ctx : Evaluate(r2, ctx) <=> Evaluate(r0, ctx) /\
             IF From < To THEN Evaluate(t1, ctx) /\ Evaluate(t2, ctx) ELSE Evaluate(t1, ctx) \/ Evaluate(t2, ctx)
  <2>1. CASE From < To
    <3> DEFINE r1 == AndRules(r0, t1)
    <3>1. Chain(r1, 1) /\ \A ctx : Evaluate(r1, ctx) <=> Evaluate(r0, ctx) /\ Evaluate(t1, ctx)
      BY <1>0, <1>5, <1>6, AndHolds
    <3> HIDE DEF r1
    <3>2. Chain(AndRules(r1, t2), 1) /\ \A ctx : Evaluate(AndRules(r1, t2), ctx) <=> Evaluate(r1, ctx) /\ Evaluate(t2, ctx)
      BY <1>0, <1>6, <3>1, AndHolds
    <3>3. r2 = AndRules(r1, t2)
      BY <2>1 DEF r1
    <3> HIDE DEF r2, From, To
    <3>4. QED BY <2>1, <3>1, <3>2, <3>3
  <2>2. CASE ~(From < To)
    <3> DEFINE x == OrRules(AndRules(r0, t1), t2)
    <3>1. Chain(x, 1) /\ \A ctx : Evaluate(x, ctx) <=> Evaluate(r0, ctx) /\ (Evaluate(t1, ctx) \/ Evaluate(t2, ctx))
      BY <1>0, <1>5, <1>6, OrPairHolds
    <3>2. r2 = x
      BY <2>2
    <3> HIDE DEF r2, x, From, To
    <3>3. QED BY <2>2, <3>1, <3>2
  <2>3. QED BY <2>1, <2>2
<1> HIDE DEF r2
<1>12. Chain(r3, 1) /\ \A ctx : Evaluate(r3, ctx) <=> Evaluate(r2, ctx) /\ (p.neverReboot => Evaluate(reb, ctx))
  BY <1>1, <1>7, <1>11, AndIfHolds
<1> HIDE DEF r3
<1>13. Chain(r4, 1) /\ \A ctx : Evaluate(r4, ctx) <=> Evaluate(r3, ctx) /\ (p.neverHttp => Evaluate(http, ctx))
  BY <1>1, <1>8, <1>12, AndIfHolds
<1> HIDE DEF r4
<1>14. Chain(r5, 1) /\ \A ctx : Evaluate(r5, ctx) <=> Evaluate(r4, ctx) /\ (p.ips # Empty => Evaluate(ip, ctx))
  <2>1. (p.ips # Empty) \in BOOLEAN /\ (p.ips # Empty => ip \in Rules[0])
    BY <1>9
  <2>2. QED BY <1>13, <2>1, AndIfHolds
<1> HIDE DEF r5
<1>15. Chain(r6, 1) /\ \A ctx : Evaluate(r6, ctx) <=> Evaluate(r5, ctx) /\ (both => Evaluate(env, ctx) \/ Evaluate(model, ctx))
  <2>1. CASE both
    <3> DEFINE x == OrRules(AndRules(r5, env), model)
    <3>1. Chain(x, 1) /\ \A ctx : Evaluate(x, ctx) <=> Evaluate(r5, ctx) /\ (Evaluate(env, ctx) \/ Evaluate(model, ctx))
      BY <1>0, <1>10, <1>14, <2>1, OrPairHolds
    <3>2. r6 = x
      BY <2>1
    <3> HIDE DEF r6, x, both
    <3>3. QED BY <2>1, <3>1, <3>2
  <2>2. CASE ~both
    <3>1. r6 = r5
      BY <2>2
    <3> HIDE DEF r6
    <3>2. QED BY <1>14, <2>2, <3>1
  <2>3. QED BY <2>1, <2>2
<1> HIDE DEF r6
<1>16. ASSUME NEW ctx
       PROVE  Evaluate(r6, ctx) <=>
                /\ p.localTime <=> ctx["timeZone"] # "UTC"
                /\ IF From < To THEN Evaluate(t1, ctx) /\ Evaluate(t2, ctx) ELSE Evaluate(t1, ctx) \/ Evaluate(t2, ctx)
                /\ p.neverReboot => ctx["rebootDecoupled"] = Absent
                /\ p.neverHttp => ctx["downloadProtocol"] # "http"
                /\ p.ips # Empty => ctx["ipAddress"] \notin Lists[p.ips]
                /\ p.env # Empty /\ p.model # Empty => ctx["env"] # p.env \/ ctx["model"] # p.model
  <2> HIDE DEF From, To
  <2>1. Evaluate(r6, ctx) <=> Evaluate(r5, ctx) /\ (both => ctx["env"] # p.env \/ ctx["model"] # p.model)
    BY <1>10, <1>15
  <2>2. Evaluate(r5, ctx) <=> Evaluate(r4, ctx) /\ (p.ips # Empty => ctx["ipAddress"] \notin Lists[p.ips])
    BY <1>9, <1>14
  <2>3. Evaluate(r4, ctx) <=> Evaluate(r3, ctx) /\ (p.neverHttp => ctx["downloadProtocol"] # "http")
    BY <1>8, <1>13
  <2>4. Evaluate(r3, ctx) <=> Evaluate(r2, ctx) /\ (p.neverReboot => ctx["rebootDecoupled"] = Absent)
    BY <1>7, <1>12
  <2>5. QED BY <1>5, <1>11, <2>1, <2>2, <2>3, <2>4
<1>17. QED BY <1>4, <1>15, <1>16 DEF t1, t2

LEMMA TimeFilterSelects ==
    ASSUME TimeType = "TIME", NEW p \in Filters, NEW ctx \in FilterContexts
    PROVE  Evaluate(createTimeFilter(p), ctx) <=>
             /\ TimeOf(ctx) # NaN
             /\ IF AsNumber[p.start] < AsNumber[p.end] THEN TimeOf(ctx) \in AsNumber[p.start]..AsNumber[p.end]
                ELSE TimeOf(ctx) >= AsNumber[p.start] \/ TimeOf(ctx) <= AsNumber[p.end]
             /\ p.localTime <=> ctx["timeZone"] # "UTC"
             /\ ~(p.neverReboot /\ ctx["rebootDecoupled"] # Absent)
             /\ ~(p.neverHttp /\ ctx["downloadProtocol"] = "http")
             /\ ~(p.ips # Empty /\ ctx["ipAddress"] \in Lists[p.ips])
             /\ ~(p.env # Empty /\ p.model # Empty /\ ctx["env"] = p.env /\ ctx["model"] = p.model)
<1> DEFINE From == AsNumber[p.start]
           To == AsNumber[p.end]
           at == TimeOf(ctx)
<1>1. p.start \in Times /\ p.end \in Times
  BY FiltersOK
<1>2. From \in Nat /\ To \in Nat /\ at \in Nat \cup {NaN}
  BY <1>1, ValuesOK DEF Times, NaN, TimeOf
<1>3. /\ Evaluate(TimeIs("GTE", p.start), ctx) <=> at # NaN /\ at >= From
      /\ Evaluate(TimeIs("LTE", p.end), ctx) <=> at # NaN /\ at <= To
  BY <1>1, TimeLeaves
<1> HIDE DEF From, To, at
<1>4. at # NaN => at \in Nat
  BY <1>2
<1>5. (IF From < To THEN Evaluate(TimeIs("GTE", p.start), ctx) /\ Evaluate(TimeIs("LTE", p.end), ctx)
                    ELSE Evaluate(TimeIs("GTE", p.start), ctx) \/ Evaluate(TimeIs("LTE", p.end), ctx))
      <=> at # NaN /\ IF From < To THEN at \in From..To ELSE at >= From \/ at <= To
  BY <1>2, <1>3, <1>4
<1>6. QED BY <1>5, TimeFilterParts DEF From, To, at

-----------------------------------------------------------------------------
(* Sequences put together.                                                 *)
LEMMA ConcatLoop ==
    ASSUME NEW S, NEW seqs \in Seq(Seq(S))
    PROVE  \E f \in [0..Len(seqs) -> Seq(S)] :
             /\ f[0] = <<>> /\ \A i \in 1..Len(seqs) : f[i] = f[i - 1] \o seqs[i]
             /\ Concat(seqs) = f[Len(seqs)]
<1> DEFINE n == Len(seqs)
           X == Seq(S)
           step == [i \in 1..n |-> [x \in X |-> x \o seqs[i]]]
           Is(f) == f = [i \in 0..n |-> IF i = 0 THEN <<>> ELSE f[i - 1] \o seqs[i]]
<1>0. n \in Nat /\ \A i \in 1..n : seqs[i] \in X
  BY LenProperties, ElementOfSeq
<1>1. <<>> \in X
  BY EmptySeq
<1>2. Steps(n, X, step)
  BY <1>0, ConcatProperties DEF Steps
<1>3. PICK g : IsLoop(g, n, X, <<>>, step)
  <2> HIDE DEF step, X
  <2>1. QED BY <1>0, <1>1, <1>2, LoopExists
<1>4. g \in [0..n -> X] /\ g[0] = <<>> /\ \A i \in 1..n : g[i] = step[i][g[i - 1]]
  BY <1>3 DEF IsLoop
<1>5. ASSUME NEW i \in 1..n PROVE g[i] = g[i - 1] \o seqs[i]
  <2>1. i - 1 \in 0..n
    BY <1>0
  <2>2. g[i - 1] \in X
    BY <1>4, <2>1
  <2> HIDE DEF X
  <2>3. QED BY <1>4, <2>2
<1> HIDE DEF step, X
<1>6. Is(g)
  <2>1. ASSUME NEW i \in 0..n PROVE g[i] = IF i = 0 THEN <<>> ELSE g[i - 1] \o seqs[i]
    <3>1. CASE i = 0
      BY <1>4, <3>1
    <3>2. CASE i # 0
      <4>1. i \in 1..n
        BY <1>0, <3>2, FirstOrLater
      <4>2. g[i] = g[i - 1] \o seqs[i]
        BY <1>5, <4>1
      <4>3. QED BY <3>2, <4>2
    <3>3. QED BY <3>1, <3>2
  <2>2. QED BY <1>4, <2>1
<1>7. PICK f : Is(f) /\ Concat(seqs) = f[n]
  BY <1>6 DEF Concat
<1>8. \A i \in 0..n : f[i] = g[i]
  <2>1. f[0] = g[0]
    BY <1>0, <1>4, <1>7
  <2>2. ASSUME NEW i \in 1..n, f[i - 1] = g[i - 1] PROVE f[i] = g[i]
    <3>1. i \in 0..n /\ i # 0
      BY <1>0
    <3>2. f[i] = f[i - 1] \o seqs[i]
      BY <1>7, <3>1
    <3>3. QED BY <1>5, <2>2, <3>2
  <2>3. SameSteps(n, f, g)
    BY <2>1, <2>2 DEF SameSteps
  <2>4. QED BY <1>0, <2>3, LoopUnique
<1>9. Concat(seqs) = g[n]
  BY <1>0, <1>7, <1>8
<1>10. QED BY <1>4, <1>5, <1>9 DEF X

LEMMA RangeConcat ==
    ASSUME NEW S, NEW s \in Seq(S), NEW t \in Seq(S)
    PROVE  s \o t \in Seq(S) /\ Range(s \o t) = Range(s) \cup Range(t)
<1> DEFINE u == s \o t
<1>0. Len(s) \in Nat /\ Len(t) \in Nat /\ DOMAIN s = 1..Len(s) /\ DOMAIN t = 1..Len(t)
  BY LenProperties
<1>1. u \in Seq(S) /\ Len(u) = Len(s) + Len(t) /\ \A i \in 1..(Len(s) + Len(t)) : u[i] = IF i <= Len(s) THEN s[i] ELSE t[i - Len(s)]
  BY ConcatProperties
<1>2. DOMAIN u = 1..(Len(s) + Len(t))
  BY <1>1, LenProperties
<1> HIDE DEF u
<1>3. ASSUME NEW i \in DOMAIN u PROVE u[i] \in Range(s) \cup Range(t)
  <2>1. CASE i <= Len(s)
    <3>1. i \in DOMAIN s /\ u[i] = s[i]
      BY <1>0, <1>1, <1>2, <2>1
    <3>2. QED BY <3>1 DEF Range
  <2>2. CASE ~(i <= Len(s))
    <3>1. i - Len(s) \in DOMAIN t /\ u[i] = t[i - Len(s)]
      BY <1>0, <1>1, <1>2, <2>2
    <3>2. QED BY <3>1 DEF Range
  <2>3. QED BY <2>1, <2>2
<1>4. ASSUME NEW i \in DOMAIN s PROVE s[i] \in Range(u)
  <2>1. i \in DOMAIN u /\ u[i] = s[i]
    BY <1>0, <1>1, <1>2
  <2>2. QED BY <2>1 DEF Range
<1>5. ASSUME NEW i \in DOMAIN t PROVE t[i] \in Range(u)
  <2>1. i + Len(s) \in DOMAIN u /\ u[i + Len(s)] = t[(i + Len(s)) - Len(s)] /\ (i + Len(s)) - Len(s) = i
    BY <1>0, <1>1, <1>2
  <2>2. QED BY <2>1 DEF Range
<1>6. Range(u) = Range(s) \cup Range(t)
  BY <1>3, <1>4, <1>5 DEF Range
<1>7. QED BY <1>1, <1>6 DEF u

(* The elements of sequences put together are those of the sequences.      *)
LEMMA ConcatRange ==
    ASSUME NEW S, NEW seqs \in Seq(Seq(S))
    PROVE  Concat(seqs) \in Seq(S) /\ Range(Concat(seqs)) = UNION {Range(seqs[i]) : i \in DOMAIN seqs}
<1> DEFINE n == Len(seqs)
<1>0. n \in Nat /\ DOMAIN seqs = 1..n /\ \A i \in 1..n : seqs[i] \in Seq(S)
  BY LenProperties, ElementOfSeq
<1>1. PICK f \in [0..n -> Seq(S)] :
         f[0] = <<>> /\ (\A i \in 1..n : f[i] = f[i - 1] \o seqs[i]) /\ Concat(seqs) = f[n]
  BY ConcatLoop
<1> DEFINE G == {i \in 0..n : Range(f[i]) = UNION {Range(seqs[j]) : j \in 1..i}}
<1>2. 0 \in G
  <2>1. Range(<<>>) = {} /\ 1..0 = {}
    BY DEF Range
  <2>2. QED BY <1>0, <1>1, <2>1
<1>3. ASSUME NEW i \in 0..n, i < n, i \in G PROVE i + 1 \in G
  <2>1. i + 1 \in 1..n /\ (i + 1) - 1 = i /\ i + 1 \in 0..n /\ 1..(i + 1) = 1..i \cup {i + 1}
    <3> HIDE DEF G, n
    <3>1. i \in 0..n /\ n \in Nat /\ i < n
      BY <1>0, <1>3
    <3>2. QED BY <3>1
  <2>2. f[i + 1] = f[i] \o seqs[i + 1] /\ f[i] \in Seq(S) /\ seqs[i + 1] \in Seq(S)
    BY <1>0, <1>1, <2>1
  <2>3. Range(f[i + 1]) = Range(f[i]) \cup Range(seqs[i + 1])
    BY <2>2, RangeConcat
  <2>4. Range(f[i]) = UNION {Range(seqs[j]) : j \in 1..i}
    BY <1>3
  <2>5. UNION {Range(seqs[j]) : j \in 1..(i + 1)} = (UNION {Range(seqs[j]) : j \in 1..i}) \cup Range(seqs[i + 1])
    BY <2>1
  <2>6. QED BY <2>1, <2>3, <2>4, <2>5
<1>4. 0..n \subseteq G
  <2> HIDE DEF G, n
  <2>1. QED BY <1>0, <1>2, <1>3, Induction
<1>5. n \in G
  BY <1>0, <1>4
<1>6. QED BY <1>0, <1>1, <1>5

(* What JoinAll computes, rule by rule.                                    *)
LEMMA JoinLoop ==
    ASSUME NEW d \in 1..MaxDepth, NEW rs \in Seq(Rules[d - 1]), Len(rs) # 0, Chain(rs[1], d), NEW rel \in {"AND", "OR"}
    PROVE  \E f : /\ f[1] = rs[1] /\ \A i \in 1..Len(rs) : Chain(f[i], d)
                  /\ \A i \in 2..Len(rs) : f[i] = addRelatedCompound(f[i - 1], rs[i], rel)
                  /\ JoinAll(rs, rel) = f[Len(rs)]
<1> DEFINE n == Len(rs)
           X == {x \in Rules[d] : Chain(x, d)}
           step == [i \in 1..(n - 1) |-> [x \in X |-> addRelatedCompound(x, rs[i + 1], rel)]]
           Is(f) == f = [i \in 1..n |-> IF i = 1 THEN rs[1] ELSE addRelatedCompound(f[i - 1], rs[i], rel)]
<1>0. n \in Nat /\ n >= 1 /\ n - 1 \in Nat /\ \A i \in 1..n : rs[i] \in Rules[d - 1]
  <2>1. n \in Nat
    BY LenProperties
  <2>2. \A i \in 1..n : rs[i] \in Rules[d - 1]
    BY ElementOfSeq
  <2>3. QED BY <2>1, <2>2
<1>1. rs[1] \in X
  BY DEF Chain
<1>2. ASSUME NEW i \in 2..n, NEW x \in X PROVE addRelatedCompound(x, rs[i], rel) \in X
  <2>1. rs[i] \in Rules[d - 1] /\ Chain(x, d)
    BY <1>0
  <2>2. Joins(addRelatedCompound(x, rs[i], rel), x, rs[i], rel, d)
    BY <2>1, ChainAdd
  <2>3. QED BY <2>2 DEF Joins, Chain
<1>3. Steps(n - 1, X, step)
  <2>1. ASSUME NEW i \in 1..(n - 1), NEW x \in X PROVE step[i][x] \in X
    <3>1. i + 1 \in 2..n
      BY <1>0
    <3>2. addRelatedCompound(x, rs[i + 1], rel) \in X
      BY <1>2, <3>1
    <3> HIDE DEF X
    <3>3. QED BY <3>2
  <2> HIDE DEF X, step
  <2>2. QED BY <2>1 DEF Steps
<1> HIDE DEF X
<1>4. PICK g : IsLoop(g, n - 1, X, rs[1], step)
  <2> HIDE DEF step
  <2>1. QED BY <1>0, <1>1, <1>3, LoopExists
<1>5. g \in [0..(n - 1) -> X] /\ g[0] = rs[1] /\ \A i \in 1..(n - 1) : g[i] = step[i][g[i - 1]]
  BY <1>4 DEF IsLoop
<1> DEFINE h == [i \in 1..n |-> g[i - 1]]
<1>6. ASSUME NEW i \in 2..n PROVE h[i] = addRelatedCompound(h[i - 1], rs[i], rel)
  <2>1. i - 1 \in 1..(n - 1) /\ (i - 1) - 1 \in 0..(n - 1) /\ (i - 1) + 1 = i /\ i - 1 \in 1..n /\ i \in 1..n
    BY <1>0
  <2>2. g[(i - 1) - 1] \in X
    BY <1>5, <2>1
  <2>3. g[i - 1] = addRelatedCompound(g[(i - 1) - 1], rs[i], rel)
    BY <1>5, <2>1, <2>2
  <2>4. h[i] = g[i - 1] /\ h[i - 1] = g[(i - 1) - 1]
    BY <2>1
  <2>5. QED BY <2>3, <2>4
<1> HIDE DEF step
<1>7. h[1] = rs[1] /\ 1 \in 1..n /\ 1 - 1 = 0
  BY <1>0, <1>5
<1>8. Is(h)
  <2>1. ASSUME NEW i \in 1..n PROVE h[i] = IF i = 1 THEN rs[1] ELSE addRelatedCompound(h[i - 1], rs[i], rel)
    <3>1. CASE i = 1
      BY <1>7, <3>1
    <3>2. CASE i # 1
      <4>1. i \in 2..n
        BY <1>0, <3>2
      <4> HIDE DEF h
      <4>2. QED BY <1>6, <3>2, <4>1
    <3>3. QED BY <3>1, <3>2
  <2>2. DOMAIN h = 1..n /\ h = [i \in 1..n |-> h[i]]
    OBVIOUS
  <2> HIDE DEF h
  <2>3. QED BY <2>1, <2>2
<1> HIDE DEF h
<1>9. PICK f : Is(f) /\ JoinAll(rs, rel) = f[n]
  BY <1>8 DEF JoinAll
<1>10. f[1] = rs[1]
  BY <1>7, <1>9
<1>11. ASSUME NEW i \in 2..n PROVE f[i] = addRelatedCompound(f[i - 1], rs[i], rel)
  <2>1. i \in 1..n /\ i # 1
    BY <1>0
  <2>2. QED BY <1>9, <2>1
<1> HIDE DEF Is
<1> DEFINE G == {i \in 0..(n - 1) : f[i + 1] \in X}
<1>12. 0 \in G
  BY <1>0, <1>1, <1>10
<1>13. ASSUME NEW i \in 0..(n - 1), i < n - 1, i \in G PROVE i + 1 \in G
  <2>1. i + 1 \in 0..(n - 1) /\ (i + 1) + 1 \in 2..n /\ ((i + 1) + 1) - 1 = i + 1
    BY <1>0, <1>13
  <2>2. f[(i + 1) + 1] = addRelatedCompound(f[i + 1], rs[(i + 1) + 1], rel)
    BY <1>11, <2>1
  <2>3. f[i + 1] \in X
    BY <1>13
  <2>4. QED BY <1>2, <2>1, <2>2, <2>3
<1>14. 0..(n - 1) \subseteq G
  <2> HIDE DEF G, n
  <2>1. QED BY <1>0, <1>12, <1>13, Induction
<1>15. ASSUME NEW i \in 1..n PROVE Chain(f[i], d)
  <2>1. i - 1 \in 0..(n - 1) /\ (i - 1) + 1 = i
    BY <1>0
  <2>2. f[i] \in X
    BY <1>14, <2>1
  <2>3. QED BY <2>2 DEF X
<1>16. QED BY <1>9, <1>10, <1>11, <1>15

(* Rules joined by AND hold when all do, by OR when one does.              *)
LEMMA JoinHolds ==
    ASSUME NEW d \in 1..MaxDepth, NEW rs \in Seq(Rules[d - 1]), Len(rs) # 0, Chain(rs[1], d), NEW rel \in {"AND", "OR"}
    PROVE  /\ Chain(JoinAll(rs, rel), d)
           /\ rel = "AND" => \A ctx : Evaluate(JoinAll(rs, rel), ctx) <=> \A i \in 1..Len(rs) : Evaluate(rs[i], ctx)
           /\ rel = "OR" /\ ~rs[1].compound =>
                \A ctx : Evaluate(JoinAll(rs, rel), ctx) <=> \E i \in 1..Len(rs) : Evaluate(rs[i], ctx)
<1> DEFINE n == Len(rs)
<1>0. n \in Nat /\ n >= 1 /\ n - 1 \in Nat /\ (\A i \in 1..n : rs[i] \in Rules[d - 1]) /\ d \in 0..MaxDepth
  <2>1. n \in Nat
    BY LenProperties
  <2>2. \A i \in 1..n : rs[i] \in Rules[d - 1]
    BY ElementOfSeq
  <2>3. d \in 0..MaxDepth
    BY DepthOK
  <2>4. QED BY <2>1, <2>2, <2>3
<1>1. PICK f : /\ f[1] = rs[1] /\ \A i \in 1..n : Chain(f[i], d)
               /\ \A i \in 2..n : f[i] = addRelatedCompound(f[i - 1], rs[i], rel)
               /\ JoinAll(rs, rel) = f[n]
  BY JoinLoop
<1>2. ASSUME NEW i \in 2..n, NEW ctx
      PROVE  IsAfter(EndState(f[i], ctx), rel, EndState(f[i - 1], ctx), Evaluate(rs[i], ctx))
  <2>1. i \in 1..n /\ i - 1 \in 1..n
    BY <1>0
  <2>2. rs[i] \in Rules[d - 1] /\ Chain(f[i - 1], d)
    BY <1>0, <1>1, <2>1
  <2>3. Joins(f[i], f[i - 1], rs[i], rel, d)
    BY <1>1, <2>2, ChainAdd
  <2>4. QED BY <2>3 DEF Joins
<1>3. ASSUME NEW i \in 1..n, NEW ctx PROVE EndState(f[i], ctx).result <=> Evaluate(f[i], ctx)
  BY <1>0, <1>1, ChainState
<1>4. ASSUME rel = "AND", NEW ctx PROVE Evaluate(f[n], ctx) <=> \A i \in 1..n : Evaluate(rs[i], ctx)
  <2> DEFINE G == {k \in 0..(n - 1) : Evaluate(f[k + 1], ctx) <=> \A i \in 1..(k + 1) : Evaluate(rs[i], ctx)}
  <2>1. 0 \in G
    <3>1. 0 \in 0..(n - 1) /\ 0 + 1 = 1 /\ 1..1 = {1}
      BY <1>0
    <3>2. Evaluate(f[1], ctx) <=> \A i \in 1..1 : Evaluate(rs[i], ctx)
      BY <1>1, <3>1
    <3>3. QED BY <3>1, <3>2
  <2>2. ASSUME NEW k \in 0..(n - 1), k < n - 1, k \in G PROVE k + 1 \in G
    <3> DEFINE m == (k + 1) + 1
    <3>1. k + 1 \in 0..(n - 1) /\ m \in 2..n /\ m \in 1..n /\ k + 1 \in 1..n /\ m - 1 = k + 1 /\ 1..m = 1..(k + 1) \cup {m}
      BY <1>0, <2>2
    <3>2. Evaluate(f[m], ctx) <=> Evaluate(f[k + 1], ctx) /\ Evaluate(rs[m], ctx)
      <4> HIDE DEF m
      <4>1. IsAfter(EndState(f[m], ctx), rel, EndState(f[k + 1], ctx), Evaluate(rs[m], ctx))
        BY <1>2, <3>1
      <4>2. QED BY <1>3, <1>4, <3>1, <4>1 DEF IsAfter
    <3>3. Evaluate(f[k + 1], ctx) <=> \A i \in 1..(k + 1) : Evaluate(rs[i], ctx)
      BY <2>2
    <3>4. Evaluate(f[m], ctx) <=> \A i \in 1..m : Evaluate(rs[i], ctx)
      <4> HIDE DEF m
      <4>1. QED BY <3>1, <3>2, <3>3
    <3>5. QED BY <3>1, <3>4
  <2>3. 0..(n - 1) \subseteq G
    <3> HIDE DEF G, n
    <3>1. QED BY <1>0, <2>1, <2>2, Induction
  <2>4. n - 1 \in 0..(n - 1) /\ (n - 1) + 1 = n
    BY <1>0
  <2>5. n - 1 \in G
    BY <2>3, <2>4
  <2>6. QED BY <2>4, <2>5
<1>5. ASSUME rel = "OR", ~rs[1].compound, NEW ctx PROVE Evaluate(f[n], ctx) <=> \E i \in 1..n : Evaluate(rs[i], ctx)
  <2> DEFINE G == {k \in 0..(n - 1) : /\ Evaluate(f[k + 1], ctx) <=> \E i \in 1..(k + 1) : Evaluate(rs[i], ctx)
                                      /\ ~EndState(f[k + 1], ctx).ended}
  <2>1. 0 \in G
    <3>1. ~EndState(rs[1], ctx).ended
      BY <1>0, <1>5, ChainState
    <3>2. QED BY <1>0, <1>1, <3>1
  <2>2. ASSUME NEW k \in 0..(n - 1), k < n - 1, k \in G PROVE k + 1 \in G
    <3> DEFINE m == (k + 1) + 1
    <3>1. k + 1 \in 0..(n - 1) /\ m \in 2..n /\ m \in 1..n /\ k + 1 \in 1..n /\ m - 1 = k + 1 /\ 1..m = 1..(k + 1) \cup {m}
      BY <1>0, <2>2
    <3>2. /\ Evaluate(f[m], ctx) <=> Evaluate(f[k + 1], ctx) \/ Evaluate(rs[m], ctx)
          /\ ~EndState(f[m], ctx).ended
      <4>0. ~EndState(f[k + 1], ctx).ended
        BY <2>2
      <4> HIDE DEF m
      <4>1. IsAfter(EndState(f[m], ctx), rel, EndState(f[k + 1], ctx), Evaluate(rs[m], ctx))
        BY <1>2, <3>1
      <4>2. QED BY <1>3, <1>5, <3>1, <4>0, <4>1 DEF IsAfter
    <3>3. Evaluate(f[k + 1], ctx) <=> \E i \in 1..(k + 1) : Evaluate(rs[i], ctx)
      BY <2>2
    <3>4. Evaluate(f[m], ctx) <=> \E i \in 1..m : Evaluate(rs[i], ctx)
      <4> HIDE DEF m
      <4>1. QED BY <3>1, <3>2, <3>3
    <3>5. QED BY <3>1, <3>2, <3>4
  <2>3. 0..(n - 1) \subseteq G
    <3> HIDE DEF G, n
    <3>1. QED BY <1>0, <2>1, <2>2, Induction
  <2>4. n - 1 \in 0..(n - 1) /\ (n - 1) + 1 = n
    BY <1>0
  <2>5. n - 1 \in G
    BY <2>3, <2>4
  <2>6. QED BY <2>4, <2>5
<1>6. n \in 1..n
  BY <1>0
<1>7. QED BY <1>1, <1>4, <1>5, <1>6

(* What NewRiFilter puts together.                                         *)
LEMMA RiFilterParts ==
    ASSUME NEW p \in RiFilters
    PROVE  /\ NewRiFilter(p) \in AllRules
           /\ \A ctx : Evaluate(NewRiFilter(p), ctx) <=>
                /\ p.ips # <<>> => \E i \in DOMAIN p.ips : ctx["ipAddress"] \in Lists[p.ips[i]]
                /\ p.macs # {} => ctx["eStbMac"] \in p.macs
                /\ p.envs # {} => ctx["env"] \in p.envs
                /\ p.models # {} => ctx["model"] \in p.models
<1> DEFINE ips == [i \in DOMAIN p.ips |-> InList("ipAddress", p.ips[i])]
           OneIf(b, r) == IF b THEN <<r>> ELSE <<>>
           group == JoinAll(ips, "OR")
           mac == InText("eStbMac", p.macs)
           env == InText("env", p.envs)
           model == InText("model", p.models)
           b1 == ips # <<>>
           b2 == p.macs # {}
           b3 == p.envs # {}
           b4 == p.models # {}
           seqs == <<OneIf(b1, group), OneIf(b2, mac), OneIf(b3, env), OneIf(b4, model)>>
           all == Concat(seqs)
           R == Rules[1]
<1>0. /\ 1 \in 1..MaxDepth /\ 1 - 1 = 0 /\ 2 \in 1..MaxDepth /\ 2 - 1 = 1 /\ Rules[0] \subseteq R
      /\ R \subseteq Rules[2] /\ Rules[2] \subseteq AllRules
  <2>1. 1 \in 0..MaxDepth /\ 2 \in 0..MaxDepth /\ 1 \in 1..MaxDepth /\ 2 \in 1..MaxDepth
    BY DepthOK
  <2>2. 0 \in Nat /\ 1 \in Nat /\ 0 <= 1 /\ 1 <= 2 /\ 1 - 1 = 0 /\ 2 - 1 = 1
    OBVIOUS
  <2>3. QED BY <2>1, <2>2, LevelsGrow, RulesAreRules
<1>1. p.ips \in Seq(DOMAIN Lists) /\ p.macs \subseteq Values /\ p.envs \subseteq Values /\ p.models \subseteq Values
      /\ (p.ips # <<>> \/ p.macs # {} \/ p.envs # {} \/ p.models # {})
  BY FiltersOK
<1>2. Values \in SUBSET STRING /\ {Absent, Empty} \cap Values = {}
  BY ValuesOK
<1>3. "ipAddress" \in STRING /\ "eStbMac" \in STRING /\ "env" \in STRING /\ "model" \in STRING
  BY WordsOK
<1>4. /\ GoodLeaf(mac) /\ \A ctx : Evaluate(mac, ctx) <=> ctx["eStbMac"] \in p.macs
      /\ GoodLeaf(env) /\ \A ctx : Evaluate(env, ctx) <=> ctx["env"] \in p.envs
      /\ GoodLeaf(model) /\ \A ctx : Evaluate(model, ctx) <=> ctx["model"] \in p.models
  BY <1>1, <1>2, <1>3, SetLeaves
<1>5. DOMAIN p.ips = 1..Len(p.ips) /\ Len(p.ips) \in Nat /\ \A i \in DOMAIN p.ips : p.ips[i] \in DOMAIN Lists
  <2>1. DOMAIN p.ips = 1..Len(p.ips) /\ Len(p.ips) \in Nat
    BY <1>1, LenProperties
  <2>2. QED BY <1>1, <2>1, ElementOfSeq
<1>6. \A i \in DOMAIN p.ips : GoodLeaf(ips[i]) /\ \A ctx : Evaluate(ips[i], ctx) <=> ctx["ipAddress"] \in Lists[p.ips[i]]
  BY <1>3, <1>5, ListLeaves
<1>7. ips \in Seq(Rules[0]) /\ Len(ips) = Len(p.ips) /\ (ips # <<>> <=> p.ips # <<>>)
  <2>1. ips \in [1..Len(p.ips) -> Rules[0]]
    BY <1>5, <1>6 DEF GoodLeaf
  <2>2. ips \in Seq(Rules[0]) /\ Len(ips) = Len(p.ips)
    <3> HIDE DEF ips
    <3>1. QED BY <1>5, <2>1, SeqDef, LenProperties
  <2>3. (ips = <<>> <=> Len(ips) = 0) /\ (p.ips = <<>> <=> Len(p.ips) = 0)
    BY <1>1, <2>2, EmptySeq
  <2>4. QED BY <2>2, <2>3
<1> HIDE DEF ips, mac, env, model
<1>8. ASSUME ips # <<>>
      PROVE  /\ Chain(group, 1)
             /\ \A ctx : Evaluate(group, ctx) <=> \E i \in DOMAIN p.ips : ctx["ipAddress"] \in Lists[p.ips[i]]
  <2>1. Len(ips) # 0 /\ 1 \in DOMAIN p.ips
    <3>1. Len(ips) # 0
      BY <1>7, <1>8, EmptySeq
    <3>2. QED BY <1>5, <1>7, <3>1
  <2>2. Chain(ips[1], 1) /\ ~ips[1].compound
    BY <1>6, <2>1 DEF GoodLeaf
  <2>3. Chain(group, 1) /\ \A ctx : Evaluate(group, ctx) <=> \E i \in 1..Len(ips) : Evaluate(ips[i], ctx)
    BY <1>0, <1>7, <2>1, <2>2, JoinHolds
  <2> HIDE DEF group
  <2>4. QED BY <1>5, <1>6, <1>7, <2>3
<1>b. b1 \in BOOLEAN /\ b2 \in BOOLEAN /\ b3 \in BOOLEAN /\ b4 \in BOOLEAN
  OBVIOUS
<1> HIDE DEF group, b1, b2, b3, b4
<1>9. seqs \in Seq(Seq(R)) /\ DOMAIN seqs = 1..4
  <2>1. ASSUME NEW b \in BOOLEAN, NEW r, b => r \in R PROVE OneIf(b, r) \in Seq(R)
    <3>1. <<>> \in Seq(R)
      BY EmptySeq
    <3>2. CASE b
      <4> HIDE DEF R
      <4>1. <<r>> \in Seq(R)
        BY <2>1, <3>2, OnePart DEF Joined
      <4>2. QED BY <3>2, <4>1
    <3>3. CASE ~b
      BY <3>1, <3>3
    <3>4. QED BY <3>2, <3>3
  <2>2. mac \in R /\ env \in R /\ model \in R /\ (b1 => group \in R)
    BY <1>0, <1>4, <1>8 DEF GoodLeaf, Chain, b1
  <2> HIDE DEF OneIf, R
  <2>3. /\ OneIf(b1, group) \in Seq(R) /\ OneIf(b2, mac) \in Seq(R)
        /\ OneIf(b3, env) \in Seq(R) /\ OneIf(b4, model) \in Seq(R)
    BY <1>b, <2>1, <2>2
  <2> DEFINE Q == Seq(R)
  <2> HIDE DEF Q
  <2>4. seqs \in Seq(Q) /\ DOMAIN seqs = 1..4
    BY <2>3 DEF Q
  <2>5. QED BY <2>4 DEF Q
<1>10. /\ \A r : r \in Range(seqs[1]) <=> b1 /\ r = group
       /\ \A r : r \in Range(seqs[2]) <=> b2 /\ r = mac
       /\ \A r : r \in Range(seqs[3]) <=> b3 /\ r = env
       /\ \A r : r \in Range(seqs[4]) <=> b4 /\ r = model
  <2>1. ASSUME NEW b \in BOOLEAN, NEW r PROVE \A x : x \in Range(OneIf(b, r)) <=> b /\ x = r
    <3>1. Range(<<r>>) = {r}
      BY DEF Range
    <3>2. Range(<<>>) = {}
      BY DEF Range
    <3>3. CASE b
      BY <3>1, <3>3
    <3>4. CASE ~b
      BY <3>2, <3>4
    <3>5. QED BY <3>3, <3>4
  <2> HIDE DEF OneIf
  <2>2. seqs[1] = OneIf(b1, group) /\ seqs[2] = OneIf(b2, mac) /\ seqs[3] = OneIf(b3, env) /\ seqs[4] = OneIf(b4, model)
    OBVIOUS
  <2> HIDE DEF seqs
  <2>3. QED BY <1>b, <2>1, <2>2
<1>11. all \in Seq(R) /\ Range(all) = UNION {Range(seqs[i]) : i \in 1..4}
  <2> HIDE DEF seqs, R
  <2>1. QED BY <1>9, ConcatRange
<1> HIDE DEF seqs
<1>12. ASSUME NEW r
       PROVE  r \in Range(all) <=>
                \/ b1 /\ r = group
                \/ b2 /\ r = mac
                \/ b3 /\ r = env
                \/ b4 /\ r = model
  <2>1. 1..4 = {1, 2, 3, 4}
    OBVIOUS
  <2>2. r \in Range(all) <=> \E i \in {1, 2, 3, 4} : r \in Range(seqs[i])
    BY <1>11, <2>1
  <2>3. r \in Range(all) <=> r \in Range(seqs[1]) \/ r \in Range(seqs[2]) \/ r \in Range(seqs[3]) \/ r \in Range(seqs[4])
    BY <2>2
  <2>4. QED BY <1>10, <2>3
<1> HIDE DEF all
<1>13. Len(all) \in Nat /\ DOMAIN all = 1..Len(all) /\ Len(all) # 0
  <2>1. Len(all) \in Nat /\ DOMAIN all = 1..Len(all)
    BY <1>11, LenProperties
  <2>2. Range(all) # {}
    <3>1. b1 \/ b2 \/ b3 \/ b4
      BY <1>1, <1>7 DEF b1, b2, b3, b4
    <3>2. (b1 => group \in Range(all)) /\ (b2 => mac \in Range(all))
      BY <1>12
    <3>3. (b3 => env \in Range(all)) /\ (b4 => model \in Range(all))
      BY <1>12
    <3>4. QED BY <3>1, <3>2, <3>3
  <2>3. Len(all) # 0
    BY <2>1, <2>2 DEF Range
  <2>4. QED BY <2>1, <2>3
<1>14. ASSUME NEW r \in Range(all) PROVE Chain(r, 1)
  BY <1>4, <1>8, <1>12 DEF GoodLeaf, b1
<1>15. Chain(all[1], 2)
  <2>1. 1 \in DOMAIN all
    BY <1>13
  <2>2. all[1] \in Range(all)
    BY <2>1 DEF Range
  <2>3. QED BY <1>0, <1>14, <2>2 DEF Chain
<1>16. /\ Chain(JoinAll(all, "AND"), 2)
       /\ \A ctx : Evaluate(JoinAll(all, "AND"), ctx) <=> \A i \in 1..Len(all) : Evaluate(all[i], ctx)
  BY <1>0, <1>11, <1>13, <1>15, JoinHolds
<1>17. NewRiFilter(p) = JoinAll(all, "AND")
  BY DEF NewRiFilter, all, seqs, ips, group, mac, env, model, b1, b2, b3, b4
<1>18. ASSUME NEW ctx
       PROVE  (\A i \in 1..Len(all) : Evaluate(all[i], ctx)) <=> \A r \in Range(all) : Evaluate(r, ctx)
  BY <1>13 DEF Range
<1>19. ASSUME NEW ctx
       PROVE  Evaluate(NewRiFilter(p), ctx) <=>
                /\ p.ips # <<>> => \E i \in DOMAIN p.ips : ctx["ipAddress"] \in Lists[p.ips[i]]
                /\ p.macs # {} => ctx["eStbMac"] \in p.macs
                /\ p.envs # {} => ctx["env"] \in p.envs
                /\ p.models # {} => ctx["model"] \in p.models
  <2>1. Evaluate(NewRiFilter(p), ctx) <=> \A r \in Range(all) : Evaluate(r, ctx)
    BY <1>16, <1>17, <1>18
  <2>2. (\A r \in Range(all) : Evaluate(r, ctx)) <=>
          /\ (b1 => Evaluate(group, ctx)) /\ (b2 => Evaluate(mac, ctx))
          /\ (b3 => Evaluate(env, ctx)) /\ (b4 => Evaluate(model, ctx))
    <3>1. ASSUME \A r \in Range(all) : Evaluate(r, ctx)
          PROVE  /\ (b1 => Evaluate(group, ctx)) /\ (b2 => Evaluate(mac, ctx))
                 /\ (b3 => Evaluate(env, ctx)) /\ (b4 => Evaluate(model, ctx))
      <4>1. (b1 => group \in Range(all)) /\ (b2 => mac \in Range(all))
        BY <1>12
      <4>2. (b3 => env \in Range(all)) /\ (b4 => model \in Range(all))
        BY <1>12
      <4>3. QED BY <3>1, <4>1, <4>2
    <3>2. ASSUME /\ (b1 => Evaluate(group, ctx)) /\ (b2 => Evaluate(mac, ctx))
                 /\ (b3 => Evaluate(env, ctx)) /\ (b4 => Evaluate(model, ctx)),
                 NEW r \in Range(all)
          PROVE  Evaluate(r, ctx)
      <4>1. \/ b1 /\ r = group
            \/ b2 /\ r = mac
            \/ b3 /\ r = env
            \/ b4 /\ r = model
        BY <1>12
      <4>2. QED BY <3>2, <4>1
    <3>3. QED BY <3>1, <3>2
  <2>3. (b1 => Evaluate(group, ctx)) <=> (p.ips # <<>> => \E i \in DOMAIN p.ips : ctx["ipAddress"] \in Lists[p.ips[i]])
    BY <1>7, <1>8 DEF b1
  <2>4. QED BY <1>4, <2>1, <2>2, <2>3 DEF b2, b3, b4
<1>20. QED BY <1>0, <1>16, <1>17, <1>19 DEF Chain

-----------------------------------------------------------------------------
(* The rules engine's steps.                                               *)
TimeFilterOf(p) == [kind |-> "time", time |-> p, ri |-> {}]
RiFilterOf(p) == [kind |-> "ri", time |-> {}, ri |-> p]

(* What holds at every step: the rule is one of bounded depth, and a       *)
(* factory's rule is what the factory makes of its parameters.             *)
RuleInv ==
    /\ rule \in AllRules
    /\ \/ filter = <<>>
       \/ \E p \in Filters : filter = <<TimeFilterOf(p)>> /\ rule = createTimeFilter(p)
       \/ \E p \in RiFilters : filter = <<RiFilterOf(p)>> /\ rule = NewRiFilter(p)

LEMMA OperandsType == Operands \subseteq Rules[MaxDepth - 1]
<1> DEFINE D == MaxDepth - 1
<1>0. D \in 0..MaxDepth /\ 1 \in 0..MaxDepth /\ 1 \in 1..MaxDepth /\ 0 <= D /\ 1 <= D /\ 0 \in Nat /\ 1 \in Nat /\ 1 - 1 = 0
  BY DepthOK
<1> HIDE DEF D
<1>1. Rules[0] \subseteq Rules[D] /\ Rules[1] \subseteq Rules[D]
  BY <1>0, LevelsGrow
<1>2. ASSUME NEW c \in Conditions PROVE Leaf(c) \in Rules[0] /\ Not(Leaf(c)) \in Rules[0] /\ Chain(Leaf(c), 1)
  BY ConditionsOK, LeafOf DEF GoodLeaf
<1>3. ASSUME NEW q \in Nested
      PROVE  AndRules(Leaf(q[1]), Leaf(q[2])) \in Rules[1] /\ Not(OrRules(Leaf(q[1]), Leaf(q[2]))) \in Rules[1]
  <2> DEFINE a == Leaf(q[1])
             b == Leaf(q[2])
  <2>1. q[1] \in Conditions /\ q[2] \in Conditions
    BY ConditionsOK
  <2>2. Chain(a, 1) /\ b \in Rules[0]
    BY <1>2, <2>1
  <2> HIDE DEF a, b
  <2>3. a \in Rules[1]
    BY <2>2 DEF Chain
  <2>4. addRelatedCompound(a, b, "AND") \in Rules[1] /\ addRelatedCompound(a, b, "OR") \in Rules[1]
    BY <1>0, <2>2, <2>3, AddType
  <2>5. Not(OrRules(a, b)) \in Rules[1]
    BY <1>0, <2>4, SameLevel DEF OrRules
  <2>6. QED BY <2>4, <2>5 DEF AndRules, a, b
<1>4. QED BY <1>1, <1>2, <1>3 DEF Operands, Leaves, D

LEMMA NestedType ==
    ASSUME NEW r \in AllRules, r.compound, \A i \in DOMAIN r.parts : ~r.parts[i].compound
    PROVE  Compound(<<r>>) \in AllRules
<1>0. 1 \in 1..MaxDepth /\ 2 \in 1..MaxDepth /\ 1 \in 0..MaxDepth /\ 2 \in 0..MaxDepth /\ 1 - 1 = 0 /\ 2 - 1 = 1
  BY DepthOK
<1>1. r \in RuleOf(Joined(Rules[MaxDepth - 1]))
  BY RuleShape
<1>2. DOMAIN r.parts = 1..Len(r.parts) /\ Len(r.parts) \in Nat /\ \A i \in DOMAIN r.parts : r.parts[i] \in Rules[0]
  BY RuleParts, LeafLevel
<1>3. r.parts \in Joined(Rules[0])
  <2>1. r.parts \in Seq(Rules[MaxDepth - 1]) /\ \A i \in 2..Len(r.parts) : r.parts[i].relation # ""
    <3>1. r.parts \in Joined(Rules[MaxDepth - 1])
      BY <1>1, RuleFields
    <3>2. QED BY <3>1 DEF Joined
  <2>2. r.parts \in [1..Len(r.parts) -> Rules[0]]
    <3>1. r.parts = [i \in 1..Len(r.parts) |-> r.parts[i]]
      BY <1>2, <2>1, LenProperties
    <3>2. QED BY <1>2, <3>1
  <2>3. r.parts \in Seq(Rules[0])
    BY <1>2, <2>2, SeqDef
  <2>4. QED BY <2>1, <2>3 DEF Joined
<1>4. r \in RuleOf(Joined(Rules[0]))
  BY <1>1, <1>3 DEF RuleOf
<1>5. r \in Rules[1]
  BY <1>0, <1>4, RulesLevels
<1>6. <<r>> \in Joined(Rules[1])
  BY <1>5, OnePart
<1>7. Compound(<<r>>) \in Rules[2]
  BY <1>0, <1>6, NoArgType, MakeRule DEF Compound
<1>8. QED BY <1>0, <1>7, RulesAreRules

LEMMA RuleInitInv == Init => RuleInv
<1> SUFFICES ASSUME Init PROVE RuleInv
  OBVIOUS
<1>1. PICK c \in Conditions : rule = Leaf(c)
  BY DEF Init
<1>2. Leaf(c) \in Rules[0] /\ Rules[0] \subseteq AllRules
  BY ConditionsOK, LeafType, DepthOK, RulesAreRules
<1>3. QED BY <1>1, <1>2 DEF Init, RuleInv

LEMMA RuleStepInv == RuleInv /\ [Next]_vars => RuleInv'
<1> SUFFICES ASSUME RuleInv, [Next]_vars PROVE RuleInv'
  OBVIOUS
<1>0. rule \in AllRules /\ rule \in Rules[MaxDepth] /\ MaxDepth \in 1..MaxDepth /\ MaxDepth \in 0..MaxDepth
  BY DepthOK DEF RuleInv, AllRules
<1>1. ASSUME NEW x \in Operands, AndStep(x) PROVE RuleInv'
  <2>1. addRelatedCompound(rule, x, "AND") \in Rules[MaxDepth]
    BY <1>0, OperandsType, AddType
  <2>2. QED BY <1>1, <2>1 DEF AndStep, Building, AndRules, RuleInv, AllRules
<1>2. ASSUME NEW x \in Operands, OrStep(x) PROVE RuleInv'
  <2>1. addRelatedCompound(rule, x, "OR") \in Rules[MaxDepth]
    BY <1>0, OperandsType, AddType
  <2>2. QED BY <1>2, <2>1 DEF OrStep, Building, OrRules, RuleInv, AllRules
<1>3. CASE NestStep
  <2>1. Compound(<<rule>>) \in AllRules
    BY <1>0, <1>3, NestedType DEF NestStep
  <2>2. QED BY <1>3, <2>1 DEF NestStep, Building, RuleInv
<1>4. CASE NotStep
  <2>1. Not(rule) \in AllRules
    BY <1>0, SameLevel DEF AllRules
  <2>2. QED BY <1>4, <2>1 DEF NotStep, Building, RuleInv
<1>5. ASSUME NEW p \in Filters, TimeFilterStep(p) PROVE RuleInv'
  <2>1. createTimeFilter(p) \in AllRules
    BY DepthOK, TimeFilterParts, RulesAreRules DEF Chain
  <2>2. rule' = createTimeFilter(p) /\ filter' = <<TimeFilterOf(p)>>
    BY <1>5 DEF TimeFilterStep, TimeFilterOf
  <2>3. QED BY <2>1, <2>2 DEF RuleInv
<1>6. ASSUME NEW p \in RiFilters, RiFilterStep(p) PROVE RuleInv'
  <2>1. NewRiFilter(p) \in AllRules
    BY RiFilterParts
  <2>2. rule' = NewRiFilter(p) /\ filter' = <<RiFilterOf(p)>>
    BY <1>6 DEF RiFilterStep, RiFilterOf
  <2>3. QED BY <2>1, <2>2 DEF RuleInv
<1>7. CASE UNCHANGED vars
  BY <1>7 DEF vars, RuleInv
<1>8. QED BY <1>1, <1>2, <1>3, <1>4, <1>5, <1>6, <1>7 DEF Next

(* Every rule that is built stays within the bound on its depth, and the   *)
(* rule of a filter is the one that the factory makes of its parameters.   *)
THEOREM RuleInvariant == Spec => []RuleInv
<1>1. QED BY RuleInitInv, RuleStepInv, PTL DEF Spec

(* Evaluate, with the parts it skips and the loop it leaves early, gives   *)
(* every rule the meaning of its groups of alternatives, whatever its      *)
(* conditions, its depth and the request.                                  *)
THEOREM EvaluationIsSound == Spec => []EvaluatesInGroups
<1>1. RuleInv => EvaluatesInGroups
  BY EvaluateIsMeans DEF RuleInv, EvaluatesInGroups
<1>2. QED BY <1>1, RuleInvariant, PTL

LEMMA TimeFilterSound == ASSUME TimeType = "TIME" PROVE RuleInv => TimeFilterBlocks
<1> SUFFICES ASSUME RuleInv, filter # <<>>, filter[1].kind = "time", NEW ctx \in FilterContexts
             PROVE  LET p == filter[1].time
                        At(c) == IF c["time"] \in Values THEN AsNumber[c["time"]] ELSE NaN
                        From == AsNumber[p.start]
                        To == AsNumber[p.end]
                    IN  Evaluate(rule, ctx) <=>
                          /\ At(ctx) # NaN
                          /\ IF From < To THEN At(ctx) \in From..To ELSE At(ctx) >= From \/ At(ctx) <= To
                          /\ p.localTime <=> ctx["timeZone"] # "UTC"
                          /\ ~(p.neverReboot /\ ctx["rebootDecoupled"] # Absent)
                          /\ ~(p.neverHttp /\ ctx["downloadProtocol"] = "http")
                          /\ ~(p.ips # Empty /\ ctx["ipAddress"] \in Lists[p.ips])
                          /\ ~(p.env # Empty /\ p.model # Empty /\ ctx["env"] = p.env /\ ctx["model"] = p.model)
  BY DEF TimeFilterBlocks
<1>1. PICK p \in Filters : filter = <<TimeFilterOf(p)>> /\ rule = createTimeFilter(p)
  <2>1. \A p : <<RiFilterOf(p)>>[1].kind = "ri"
    BY DEF RiFilterOf
  <2>2. QED BY <2>1 DEF RuleInv
<1>2. filter[1].time = p
  BY <1>1 DEF TimeFilterOf
<1>3. QED BY <1>1, <1>2, TimeFilterSelects DEF TimeOf

LEMMA RiFilterSound == RuleInv => RiFilterSelects
<1> SUFFICES ASSUME RuleInv, filter # <<>>, filter[1].kind = "ri", NEW ctx \in FilterContexts
             PROVE  LET p == filter[1].ri
                    IN  Evaluate(rule, ctx) <=>
                          /\ p.ips # <<>> => \E i \in DOMAIN p.ips : ctx["ipAddress"] \in Lists[p.ips[i]]
                          /\ p.macs # {} => ctx["eStbMac"] \in p.macs
                          /\ p.envs # {} => ctx["env"] \in p.envs
                          /\ p.models # {} => ctx["model"] \in p.models
  BY DEF RiFilterSelects
<1>1. PICK p \in RiFilters : filter = <<RiFilterOf(p)>> /\ rule = NewRiFilter(p)
  <2>1. \A p : <<TimeFilterOf(p)>>[1].kind = "time"
    BY DEF TimeFilterOf
  <2>2. QED BY <2>1 DEF RuleInv
<1>2. filter[1].ri = p
  BY <1>1 DEF RiFilterOf
<1>3. QED BY <1>1, <1>2, RiFilterParts

(* The rules of time filters and of reboot-immediately filters select      *)
(* exactly the devices that the filters describe, for any filters and      *)
(* requests, when the clock is compared as a TIME (as a STRING it is not:  *)
(* that is the finding on createTimeFilter).                               *)
THEOREM FiltersAreSound == ASSUME TimeType = "TIME" PROVE Spec => []FiltersSelect
<1>1. RuleInv => FiltersSelect
  BY TimeFilterSound, RiFilterSound DEF FiltersSelect
<1>2. QED BY <1>1, RuleInvariant, PTL

-----------------------------------------------------------------------------
(* What the evaluation of a compound rule depends on.                      *)
SameJoins(r, q, ctx) ==
    /\ r.compound /\ q.compound /\ r.negated = q.negated /\ Len(r.parts) = Len(q.parts)
    /\ \A i \in 2..Len(r.parts) : r.parts[i].relation = q.parts[i].relation
    /\ \A i \in 1..Len(r.parts) : Evaluate(r.parts[i], ctx) = Evaluate(q.parts[i], ctx)

LEMMA SameGroups ==
    ASSUME NEW s, NEW t, Len(s) \in Nat, Len(s) = Len(t), \A i \in 2..Len(s) : s[i].relation = t[i].relation
    PROVE  Starts(s) = Starts(t) /\ \A i \in Starts(s) : GroupOf(s, i) = GroupOf(t, i)
<1>1. Starts(s) = Starts(t)
  BY DEF Starts
<1>2. ASSUME NEW i \in Starts(s) PROVE GroupOf(s, i) = GroupOf(t, i)
  <2>1. i \in Nat /\ i >= 1
    BY DEF Starts
  <2>2. ASSUME NEW j \in i..Len(s), NEW k \in (i + 1)..j PROVE s[k].relation = t[k].relation
    <3>1. k \in 2..Len(s)
      BY <2>1
    <3>2. QED BY <3>1
  <2>3. QED BY <2>1, <2>2 DEF GroupOf
<1>3. QED BY <1>1, <1>2

LEMMA GroupRange ==
    ASSUME NEW s, Len(s) \in Nat, NEW i \in Starts(s), NEW j \in GroupOf(s, i)
    PROVE  j \in 1..Len(s)
BY DEF Starts, GroupOf

LEMMA SameEvaluation ==
    ASSUME NEW r \in AllRules, NEW q \in AllRules, NEW ctx, SameJoins(r, q, ctx)
    PROVE  Evaluate(r, ctx) = Evaluate(q, ctx)
<1> DEFINE R == \A i \in Starts(r.parts) : \E j \in GroupOf(r.parts, i) : Means(r.parts[j], ctx)
           Q == \A i \in Starts(q.parts) : \E j \in GroupOf(q.parts, i) : Means(q.parts[j], ctx)
<1>1. r.compound /\ q.compound /\ r.negated = q.negated /\ Len(r.parts) = Len(q.parts) /\ Len(r.parts) \in Nat
  BY RuleParts DEF SameJoins
<1>2. Starts(r.parts) = Starts(q.parts) /\ \A i \in Starts(r.parts) : GroupOf(r.parts, i) = GroupOf(q.parts, i)
  BY <1>1, SameGroups DEF SameJoins
<1>3. ASSUME NEW i \in Starts(r.parts), NEW j \in GroupOf(r.parts, i) PROVE Means(r.parts[j], ctx) = Means(q.parts[j], ctx)
  <2>1. j \in 1..Len(r.parts)
    BY <1>1, GroupRange
  <2>2. r.parts[j] \in AllRules /\ q.parts[j] \in AllRules
    BY <1>1, <2>1, RuleParts
  <2>3. QED BY <2>1, <2>2, EvaluateIsMeans DEF SameJoins
<1>4. R <=> Q
  BY <1>2, <1>3
<1>5. Means(r, ctx) = (R # r.negated) /\ Means(q, ctx) = (Q # q.negated)
  BY <1>1, MeansUnfolds
<1>6. R = Q
  <2>1. R \in BOOLEAN /\ Q \in BOOLEAN
    OBVIOUS
  <2> HIDE DEF R, Q
  <2>2. QED BY <1>4, <2>1, BooleansEqual
<1>7. Means(r, ctx) = Means(q, ctx)
  <2> HIDE DEF R, Q
  <2>1. QED BY <1>1, <1>5, <1>6
<1>8. QED BY <1>7, EvaluateIsMeans

(* A rule whose parts are all joined by AND, or all by OR.                 *)
AllJoined(r, rel) ==
    /\ r.compound /\ ~r.negated /\ Len(r.parts) >= 1
    /\ \A i \in 2..Len(r.parts) : r.parts[i].relation = rel

LEMMA AllOfThem ==
    ASSUME NEW r \in AllRules, NEW ctx, AllJoined(r, "AND")
    PROVE  Evaluate(r, ctx) <=> \A i \in 1..Len(r.parts) : Evaluate(r.parts[i], ctx)
<1> DEFINE n == Len(r.parts)
           R == \A i \in Starts(r.parts) : \E j \in GroupOf(r.parts, i) : Means(r.parts[j], ctx)
<1>1. n \in Nat /\ n >= 1 /\ r.compound /\ ~r.negated /\ \A i \in 2..n : r.parts[i].relation = "AND"
  BY RuleParts DEF AllJoined
<1>2. Starts(r.parts) = 1..n
  BY <1>1 DEF Starts
<1>3. ASSUME NEW i \in 1..n PROVE GroupOf(r.parts, i) = {i}
  <2>1. ASSUME NEW j \in i..n, j # i PROVE j \notin GroupOf(r.parts, i)
    <3>1. j \in (i + 1)..j /\ j \in 2..n
      BY <1>1, <2>1
    <3>2. r.parts[j].relation # "OR"
      BY <1>1, <3>1
    <3>3. QED BY <3>1, <3>2 DEF GroupOf
  <2>2. i \in GroupOf(r.parts, i)
    BY <1>1 DEF GroupOf
  <2>3. QED BY <2>1, <2>2 DEF GroupOf
<1>4. R <=> \A i \in 1..n : Means(r.parts[i], ctx)
  BY <1>2, <1>3
<1>5. Means(r, ctx) = (R # r.negated)
  BY <1>1, MeansUnfolds
<1>6. Means(r, ctx) <=> R
  <2>1. R \in BOOLEAN
    OBVIOUS
  <2> HIDE DEF R
  <2>2. r.negated = FALSE
    BY <1>1, RuleParts
  <2>3. Means(r, ctx) = (R # FALSE)
    BY <1>5, <2>2
  <2>4. QED BY <2>1, <2>3
<1>7. \A i \in 1..n : Means(r.parts[i], ctx) = Evaluate(r.parts[i], ctx)
  BY EvaluateIsMeans, RuleParts
<1>8. Means(r, ctx) = Evaluate(r, ctx)
  BY EvaluateIsMeans
<1>9. QED BY <1>4, <1>6, <1>7, <1>8

LEMMA OneOfThem ==
    ASSUME NEW r \in AllRules, NEW ctx, AllJoined(r, "OR")
    PROVE  Evaluate(r, ctx) <=> \E i \in 1..Len(r.parts) : Evaluate(r.parts[i], ctx)
<1> DEFINE n == Len(r.parts)
           R == \A i \in Starts(r.parts) : \E j \in GroupOf(r.parts, i) : Means(r.parts[j], ctx)
<1>1. n \in Nat /\ n >= 1 /\ r.compound /\ ~r.negated /\ \A i \in 2..n : r.parts[i].relation = "OR"
  BY RuleParts DEF AllJoined
<1>2. Starts(r.parts) = {1}
  BY <1>1 DEF Starts
<1>3. GroupOf(r.parts, 1) = 1..n
  <2>1. ASSUME NEW j \in 1..n, NEW k \in 2..j PROVE r.parts[k].relation = "OR"
    BY <1>1
  <2>2. QED BY <1>1, <2>1 DEF GroupOf
<1>4. R <=> \E i \in 1..n : Means(r.parts[i], ctx)
  BY <1>2, <1>3
<1>5. Means(r, ctx) = (R # r.negated)
  BY <1>1, MeansUnfolds
<1>6. Means(r, ctx) <=> R
  <2>1. R \in BOOLEAN
    OBVIOUS
  <2> HIDE DEF R
  <2>2. r.negated = FALSE
    BY <1>1, RuleParts
  <2>3. Means(r, ctx) = (R # FALSE)
    BY <1>5, <2>2
  <2>4. QED BY <2>1, <2>3
<1>7. \A i \in 1..n : Means(r.parts[i], ctx) = Evaluate(r.parts[i], ctx)
  BY EvaluateIsMeans, RuleParts
<1>8. Means(r, ctx) = Evaluate(r, ctx)
  BY EvaluateIsMeans
<1>9. QED BY <1>4, <1>6, <1>7, <1>8

-----------------------------------------------------------------------------
(* The conditions of a rule, from those of its parts.                      *)
LEMMA ConditionsUnfold ==
    ASSUME NEW r \in AllRules
    PROVE  /\ ConditionsOf(r) \subseteq AllConditions
           /\ ~r.compound => ConditionsOf(r) = {r.cond}
           /\ r.compound => ConditionsOf(r) = UNION {ConditionsOf(r.parts[i]) : i \in DOMAIN r.parts}
<1> DEFINE V == SUBSET AllConditions
           Of(x, s) == IF x.compound THEN UNION {s[i] : i \in DOMAIN x.parts} ELSE {x.cond}
           step == [x \in AllRules |-> [s \in Seq(V) |-> IF Of(x, s) \in V THEN Of(x, s) ELSE {}]]
           Body(f, x) == IF x.compound THEN UNION {f[x.parts[i]] : i \in DOMAIN x.parts} ELSE {x.cond}
           Is(f) == f = [x \in AllRules |-> Body(f, x)]
<1>1. RuleSteps(V, step)
  <2> HIDE DEF Of
  <2>1. QED BY DEF RuleSteps
<1>2. PICK g : IsRecursion(g, V, step)
  <2> HIDE DEF step, V
  <2>1. QED BY <1>1, RuleRecursion
<1>3. ASSUME NEW x \in AllRules PROVE g[x] = Body(g, x)
  <2> DEFINE s == OfParts(g, x)
  <2>1. s \in Seq(V)
    <3> HIDE DEF V
    <3>1. QED BY <1>2, OfPartsType DEF IsRecursion
  <2>2. g[x] = IF Of(x, s) \in V THEN Of(x, s) ELSE {}
    <3> HIDE DEF Of, V
    <3>1. QED BY <1>2, <2>1 DEF IsRecursion
  <2>3. \A i \in DOMAIN x.parts : s[i] = g[x.parts[i]]
    BY DEF OfParts
  <2>4. Of(x, s) = Body(g, x)
    <3> HIDE DEF s
    <3>1. {s[i] : i \in DOMAIN x.parts} = {g[x.parts[i]] : i \in DOMAIN x.parts}
      BY <2>3
    <3>2. QED BY <3>1
  <2>5. Body(g, x) \in V
    <3>1. ASSUME x.compound PROVE \A i \in DOMAIN x.parts : g[x.parts[i]] \in V
      BY <1>2, RuleParts DEF IsRecursion
    <3>2. ASSUME x.compound PROVE UNION {g[x.parts[i]] : i \in DOMAIN x.parts} \in V
      BY <3>1, <3>2
    <3>3. {x.cond} \in V
      BY RuleParts
    <3>4. QED BY <3>2, <3>3
  <2>6. QED BY <2>2, <2>4, <2>5
<1>4. Is(g)
  <2> HIDE DEF Body
  <2>1. QED BY <1>2, <1>3 DEF IsRecursion
<1>5. PICK f : Is(f) /\ \A x : ConditionsOf(x) = f[x]
  BY <1>4 DEF ConditionsOf
<1>6. ASSUME NEW x \in AllRules
      PROVE  ConditionsOf(x) = IF x.compound THEN UNION {ConditionsOf(x.parts[i]) : i \in DOMAIN x.parts} ELSE {x.cond}
  <2>1. {f[x.parts[i]] : i \in DOMAIN x.parts} = {ConditionsOf(x.parts[i]) : i \in DOMAIN x.parts}
    BY <1>5
  <2>2. f[x] = Body(f, x)
    BY <1>5
  <2>3. QED BY <1>5, <2>1, <2>2
<1>7. \A x \in AllRules : /\ ~x.compound => ConditionsOf(x) = {x.cond}
                          /\ x.compound => ConditionsOf(x) = UNION {ConditionsOf(x.parts[i]) : i \in DOMAIN x.parts}
  BY <1>6
<1> DEFINE S == {x \in AllRules : ConditionsOf(x) \subseteq AllConditions}
<1>8. ASSUME NEW x \in AllRules, \A i \in DOMAIN x.parts : x.parts[i] \in S PROVE x \in S
  <2>1. x.cond \in AllConditions
    BY RuleParts
  <2>2. QED BY <1>7, <1>8, <2>1
<1>9. AllRules \subseteq S
  <2> HIDE DEF S
  <2>1. QED BY <1>8, RuleInduction
<1>10. QED BY <1>7, <1>9

(* The conditions of a part are conditions of the rule.                    *)
LEMMA PartConditions ==
    ASSUME NEW r \in AllRules, NEW i \in DOMAIN r.parts
    PROVE  r.parts[i] \in AllRules /\ ConditionsOf(r.parts[i]) \subseteq ConditionsOf(r) /\ r.compound
<1>0. ASSUME r.parts = <<>> PROVE FALSE
  <2>1. DOMAIN r.parts = {}
    BY <1>0
  <2>2. QED BY <2>1
<1>1. r.parts # <<>> /\ r.parts[i] \in AllRules
  BY <1>0, RuleParts
<1>2. r.compound
  BY <1>1, RuleParts
<1>3. QED BY <1>1, <1>2, ConditionsUnfold

(* Rules whose conditions are in C, and such a rule changed by f.          *)
Within(C) == {x \in AllRules : ConditionsOf(x) \subseteq C}
Changed(x, f, s) == IF x.compound THEN [x EXCEPT !.parts = s] ELSE [x EXCEPT !.cond = f[x.cond]]
Follows(g, f, C) ==
    \A x \in Within(C) : Changed(x, f, OfParts(g, x)) \in AllRules => g[x] = Changed(x, f, OfParts(g, x))

LEMMA ChangedType ==
    ASSUME NEW C, C \subseteq AllConditions, NEW f \in [C -> C], NEW d \in 0..MaxDepth, NEW x \in Rules[d],
           x \in Within(C), NEW s \in Joined(Rules[d - 1]), d # 0
    PROVE  /\ Changed(x, f, s) \in Rules[d] /\ Changed(x, f, s).relation = x.relation
<1>1. x \in AllRules /\ d \in 1..MaxDepth
  BY DepthOK DEF Within
<1>2. x \in RuleOf(Joined(Rules[d - 1]))
  BY <1>1, RulesLevels
<1> DEFINE P == Joined(Rules[d - 1])
<1> HIDE DEF P
<1>3. x \in [compound : BOOLEAN, negated : BOOLEAN, relation : {"", "AND", "OR"}, cond : AllConditions, parts : P]
      /\ (x.compound \/ x.parts = <<>>) /\ s \in P
  BY <1>2 DEF P, RuleOf
<1>4. CASE x.compound
  <2>1. Changed(x, f, s) \in RuleOf(P) /\ Changed(x, f, s).relation = x.relation
    BY <1>3, <1>4 DEF Changed, RuleOf
  <2>2. QED BY <1>1, <2>1, RulesLevels DEF P
<1>5. CASE ~x.compound
  <2>1. x.cond \in C
    BY <1>1, <1>5, ConditionsUnfold DEF Within
  <2>2. f[x.cond] \in AllConditions
    BY <2>1
  <2>3. Changed(x, f, s) \in RuleOf(P) /\ Changed(x, f, s).relation = x.relation
    BY <1>3, <1>5, <2>2 DEF Changed, RuleOf
  <2>4. QED BY <1>1, <2>3, RulesLevels DEF P
<1>6. QED BY <1>4, <1>5

LEMMA ChangedLeaf ==
    ASSUME NEW C, C \subseteq AllConditions, NEW f \in [C -> C], NEW x \in Rules[0], x \in Within(C)
    PROVE  /\ Changed(x, f, <<>>) \in Rules[0] /\ Changed(x, f, <<>>).relation = x.relation
<1>1. x \in AllRules
  BY DEF Within
<1>3. x \in [compound : BOOLEAN, negated : BOOLEAN, relation : {"", "AND", "OR"}, cond : AllConditions, parts : {<<>>}]
  BY RulesLevels DEF RuleOf
<1>4. CASE x.compound
  <2>1. Changed(x, f, <<>>) \in RuleOf({<<>>}) /\ Changed(x, f, <<>>).relation = x.relation
    BY <1>3, <1>4 DEF Changed, RuleOf
  <2>2. QED BY <2>1, RulesLevels
<1>5. CASE ~x.compound
  <2>1. x.cond \in C
    BY <1>1, <1>5, ConditionsUnfold DEF Within
  <2>2. f[x.cond] \in AllConditions
    BY <2>1
  <2>3. Changed(x, f, <<>>) \in RuleOf({<<>>}) /\ Changed(x, f, <<>>).relation = x.relation
    BY <1>3, <1>5, <2>2 DEF Changed, RuleOf
  <2>4. QED BY <2>3, RulesLevels
<1>6. QED BY <1>4, <1>5

LEMMA SeqFacts ==
    ASSUME NEW R, NEW s \in Seq(R)
    PROVE  Len(s) \in Nat /\ DOMAIN s = 1..Len(s) /\ \A i \in DOMAIN s : s[i] \in R
OBVIOUS

LEMMA ChangedParts ==
    ASSUME NEW R, NEW g, NEW x, x.parts \in Joined(R),
           \A i \in DOMAIN x.parts : g[x.parts[i]] \in R /\ g[x.parts[i]].relation = x.parts[i].relation
    PROVE  OfParts(g, x) \in Joined(R)
<1> DEFINE p == x.parts
           s == OfParts(g, x)
<1>1. p \in Seq(R) /\ \A i \in 2..Len(p) : p[i].relation # ""
  BY DEF Joined
<1>2. Len(p) \in Nat /\ DOMAIN p = 1..Len(p)
  BY <1>1, SeqFacts
<1>3. Len(s) = Len(p) /\ s \in Seq(R) /\ \A i \in 1..Len(p) : s[i] = g[p[i]]
  BY <1>2 DEF OfParts
<1>4. ASSUME NEW i \in 2..Len(s) PROVE s[i].relation # ""
  <2>1. i \in 1..Len(p) /\ i \in 2..Len(p)
    BY <1>2, <1>3
  <2>2. s[i] = g[p[i]]
    BY <1>3, <2>1
  <2> HIDE DEF s
  <2>3. QED BY <1>1, <1>2, <2>1, <2>2
<1> HIDE DEF s
<1>5. s \in Joined(R)
  BY <1>3, <1>4 DEF Joined
<1>6. QED BY <1>5 DEF s

(* A rule that is changed so keeps its depth.                              *)
LEMMA ChangedLevels ==
    ASSUME NEW C, C \subseteq AllConditions, NEW f \in [C -> C], NEW g, Follows(g, f, C)
    PROVE  \A d \in 0..MaxDepth : \A x \in Rules[d] : x \in Within(C) =>
             g[x] \in Rules[d] /\ g[x].relation = x.relation /\ g[x] = Changed(x, f, OfParts(g, x))
<1> DEFINE Good(d, x) == g[x] \in Rules[d] /\ g[x].relation = x.relation /\ g[x] = Changed(x, f, OfParts(g, x))
           G == {d \in 0..MaxDepth : \A x \in Rules[d] : x \in Within(C) => Good(d, x)}
<1>0. MaxDepth \in Nat /\ 0 \in 0..MaxDepth
  BY DepthOK
<1>1. ASSUME NEW x \in Rules[0], x \in Within(C) PROVE Good(0, x)
  <2>1. x.parts = <<>>
    BY <1>0, LevelParts
  <2>2. OfParts(g, x) = <<>>
    BY <2>1 DEF OfParts
  <2>3. Changed(x, f, OfParts(g, x)) \in Rules[0] /\ Changed(x, f, OfParts(g, x)).relation = x.relation
    BY <1>1, <2>2, ChangedLeaf
  <2>4. Changed(x, f, OfParts(g, x)) \in AllRules
    BY <1>0, <2>3, RulesAreRules
  <2>5. QED BY <1>1, <2>3, <2>4 DEF Follows
<1>2. ASSUME NEW d \in 0..MaxDepth, d < MaxDepth, d \in G PROVE d + 1 \in G
  <2>1. d + 1 \in 0..MaxDepth /\ d + 1 # 0 /\ (d + 1) - 1 = d
    BY <1>0, <1>2
  <2>2. ASSUME NEW x \in Rules[d + 1], x \in Within(C) PROVE Good(d + 1, x)
    <3>1. x.parts \in Joined(Rules[d]) /\ x \in AllRules
      BY <2>1, <2>2, LevelParts DEF Within
    <3>2. x.parts \in Seq(Rules[d])
      BY <3>1 DEF Joined
    <3>3. ASSUME NEW i \in DOMAIN x.parts PROVE Good(d, x.parts[i])
      <4>1. x.parts[i] \in Rules[d]
        BY <3>2, SeqFacts
      <4>2. x.parts[i] \in Within(C)
        BY <2>2, <3>1, PartConditions DEF Within
      <4>3. QED BY <1>2, <4>1, <4>2
    <3> DEFINE s == OfParts(g, x)
    <3>5. s \in Joined(Rules[d])
      BY <3>1, <3>3, ChangedParts
    <3> HIDE DEF s
    <3>6. Changed(x, f, s) \in Rules[d + 1] /\ Changed(x, f, s).relation = x.relation
      <4> DEFINE e == d + 1
      <4>1. e \in 0..MaxDepth /\ e # 0 /\ s \in Joined(Rules[e - 1]) /\ x \in Rules[e]
        BY <2>1, <3>5
      <4> HIDE DEF e
      <4>2. Changed(x, f, s) \in Rules[e] /\ Changed(x, f, s).relation = x.relation
        BY <2>2, <4>1, ChangedType
      <4>3. QED BY <4>2 DEF e
    <3>7. Changed(x, f, s) \in AllRules
      BY <2>1, <3>6, RulesAreRules
    <3>8. g[x] = Changed(x, f, s)
      BY <2>2, <3>7 DEF Follows, s
    <3>9. QED BY <3>6, <3>8 DEF s
  <2> HIDE DEF Good
  <2>3. QED BY <2>1, <2>2
<1>3. 0 \in G
  <2> HIDE DEF Good
  <2>1. QED BY <1>0, <1>1
<1>4. 0..MaxDepth \subseteq G
  <2> HIDE DEF G
  <2>1. QED BY <1>0, <1>2, <1>3, Induction
<1>5. QED BY <1>4

(* Mapped of a rule from Mapped of its parts.                              *)
LEMMA MappedUnfolds ==
    ASSUME NEW C, C \subseteq AllConditions, NEW f \in [C -> C]
    PROVE  \A d \in 0..MaxDepth : \A x \in Rules[d] : x \in Within(C) =>
             /\ Mapped(x, f) \in Rules[d] /\ Mapped(x, f).relation = x.relation
             /\ Mapped(x, f) = Changed(x, f, [i \in DOMAIN x.parts |-> Mapped(x.parts[i], f)])
<1> DEFINE step == [x \in AllRules |-> [s \in Seq(AllRules) |-> IF Changed(x, f, s) \in AllRules THEN Changed(x, f, s) ELSE x]]
           D == {x \in AllRules : ConditionsOf(x) \subseteq DOMAIN f}
           Is(h) == h = [x \in D |-> IF x.compound THEN [x EXCEPT !.parts = [i \in DOMAIN x.parts |-> h[x.parts[i]]]]
                                     ELSE [x EXCEPT !.cond = f[x.cond]]]
<1>1. RuleSteps(AllRules, step)
  BY DEF RuleSteps
<1>2. PICK g : IsRecursion(g, AllRules, step)
  <2> HIDE DEF step
  <2>1. QED BY <1>1, RuleRecursion
<1>3. Follows(g, f, C)
  <2>1. ASSUME NEW x \in Within(C), Changed(x, f, OfParts(g, x)) \in AllRules PROVE g[x] = Changed(x, f, OfParts(g, x))
    <3>1. x \in AllRules
      BY DEF Within
    <3>2. OfParts(g, x) \in Seq(AllRules)
      BY <1>2, <3>1, OfPartsType DEF IsRecursion
    <3>3. QED BY <1>2, <2>1, <3>1, <3>2 DEF IsRecursion
  <2>2. QED BY <2>1 DEF Follows
<1>4. D = Within(C) /\ D \subseteq AllRules
  BY DEF Within
<1>5. ASSUME NEW x \in D PROVE g[x] = Changed(x, f, OfParts(g, x))
  <2>1. x \in Rules[MaxDepth] /\ MaxDepth \in 0..MaxDepth
    BY <1>4, DepthOK DEF AllRules
  <2>2. QED BY <1>3, <1>4, <2>1, ChangedLevels
<1>6. \A x \in D : \A i \in DOMAIN x.parts : x.parts[i] \in D
  <2>1. ASSUME NEW x \in D, NEW i \in DOMAIN x.parts PROVE x.parts[i] \in D
    BY PartConditions
  <2>2. QED BY <2>1
<1> DEFINE h0 == [x \in D |-> g[x]]
<1>7. Is(h0)
  <2>1. ASSUME NEW x \in D PROVE [i \in DOMAIN x.parts |-> h0[x.parts[i]]] = OfParts(g, x)
    BY <1>6 DEF OfParts
  <2>2. ASSUME NEW x \in D
        PROVE  h0[x] = IF x.compound THEN [x EXCEPT !.parts = [i \in DOMAIN x.parts |-> h0[x.parts[i]]]]
                                     ELSE [x EXCEPT !.cond = f[x.cond]]
    <3>1. h0[x] = g[x]
      OBVIOUS
    <3> HIDE DEF h0
    <3>2. QED BY <1>5, <2>1, <3>1 DEF Changed
  <2>3. h0 = [x \in D |-> h0[x]]
    OBVIOUS
  <2> HIDE DEF h0, D
  <2>4. QED BY <2>2, <2>3
<1>8. PICK h : Is(h) /\ \A x : Mapped(x, f) = h[x]
  <2> HIDE DEF h0
  <2>1. \E h : Is(h)
    BY <1>7
  <2>2. QED BY <2>1 DEF Mapped
<1>9. ASSUME NEW x \in D PROVE h[x] = Changed(x, f, OfParts(h, x))
  <2> HIDE DEF D
  <2>1. QED BY <1>8 DEF Changed, OfParts
<1>10. Follows(h, f, C)
  BY <1>4, <1>9 DEF Follows
<1>11. \A x : OfParts(h, x) = [i \in DOMAIN x.parts |-> Mapped(x.parts[i], f)]
  BY <1>8 DEF OfParts
<1> HIDE DEF Is
<1>12. \A x : Mapped(x, f) = h[x]
  BY <1>8
<1>13. \A d \in 0..MaxDepth : \A x \in Rules[d] : x \in Within(C) =>
          h[x] \in Rules[d] /\ h[x].relation = x.relation /\ h[x] = Changed(x, f, OfParts(h, x))
  BY <1>10, ChangedLevels
<1>14. QED BY <1>11, <1>12, <1>13

(* The fields of a rule that was mapped.                                   *)
LEMMA MappedRule ==
    ASSUME NEW C, C \subseteq AllConditions, NEW f \in [C -> C], NEW r \in Within(C)
    PROVE  /\ Mapped(r, f) \in AllRules
           /\ Mapped(r, f).compound = r.compound /\ Mapped(r, f).negated = r.negated /\ Mapped(r, f).relation = r.relation
           /\ ~r.compound => r.cond \in C /\ Mapped(r, f) = [r EXCEPT !.cond = f[r.cond]] /\ Mapped(r, f).cond = f[r.cond]
           /\ r.compound => Mapped(r, f) = [r EXCEPT !.parts = [i \in DOMAIN r.parts |-> Mapped(r.parts[i], f)]]
           /\ DOMAIN Mapped(r, f).parts = DOMAIN r.parts /\ Len(Mapped(r, f).parts) = Len(r.parts)
           /\ \A i \in DOMAIN r.parts : Mapped(r, f).parts[i] = Mapped(r.parts[i], f) /\ r.parts[i] \in Within(C)
<1> DEFINE m == Mapped(r, f)
           s == [i \in DOMAIN r.parts |-> Mapped(r.parts[i], f)]
<1>1. r \in AllRules /\ ConditionsOf(r) \subseteq C
  BY DEF Within
<1>2. r \in Rules[MaxDepth] /\ MaxDepth \in 0..MaxDepth
  BY <1>1, DepthOK DEF AllRules
<1>3. m \in AllRules /\ m.relation = r.relation /\ m = Changed(r, f, s)
  BY <1>2, MappedUnfolds DEF AllRules
<1>4. Len(r.parts) \in Nat /\ DOMAIN r.parts = 1..Len(r.parts)
  BY <1>1, RuleParts
<1>5. DOMAIN s = DOMAIN r.parts /\ Len(s) = Len(r.parts) /\ \A i \in DOMAIN r.parts : s[i] = Mapped(r.parts[i], f)
  BY <1>4
<1>6. \A i \in DOMAIN r.parts : r.parts[i] \in Within(C)
  BY <1>1, PartConditions DEF Within
<1>7. r \in [compound : BOOLEAN, negated : BOOLEAN, relation : {"", "AND", "OR"}, cond : AllConditions,
             parts : Joined(Rules[MaxDepth - 1])]
  BY <1>1, RuleShape DEF RuleOf
<1> HIDE DEF m, s
<1>8. CASE r.compound
  <2>1. m = [r EXCEPT !.parts = s]
    BY <1>3, <1>8 DEF Changed
  <2>2. m.compound = r.compound /\ m.negated = r.negated /\ m.parts = s
    BY <1>7, <2>1
  <2>3. QED BY <1>3, <1>5, <1>6, <1>8, <2>1, <2>2 DEF m, s
<1>9. CASE ~r.compound
  <2>1. m = [r EXCEPT !.cond = f[r.cond]]
    BY <1>3, <1>9 DEF Changed
  <2>2. m.compound = r.compound /\ m.negated = r.negated /\ m.parts = r.parts /\ m.cond = f[r.cond]
    BY <1>7, <2>1
  <2>3. r.parts = <<>> /\ r.cond \in C
    BY <1>1, <1>9, RuleParts, ConditionsUnfold
  <2>4. DOMAIN r.parts = {}
    BY <2>3
  <2>5. QED BY <1>3, <1>9, <2>1, <2>2, <2>3, <2>4 DEF m
<1>10. QED BY <1>8, <1>9

(* Its conditions are those of the rule, each changed.                     *)
LEMMA MappedConditions ==
    ASSUME NEW C, C \subseteq AllConditions, NEW f \in [C -> C]
    PROVE  \A r \in Within(C) : ConditionsOf(Mapped(r, f)) = {f[c] : c \in ConditionsOf(r)}
<1> DEFINE S == {r \in AllRules : r \in Within(C) => ConditionsOf(Mapped(r, f)) = {f[c] : c \in ConditionsOf(r)}}
<1>1. ASSUME NEW r \in AllRules, \A i \in DOMAIN r.parts : r.parts[i] \in S, r \in Within(C)
      PROVE  ConditionsOf(Mapped(r, f)) = {f[c] : c \in ConditionsOf(r)}
  <2> DEFINE m == Mapped(r, f)
  <2>1. m \in AllRules /\ m.compound = r.compound /\ (~r.compound => m.cond = f[r.cond])
        /\ DOMAIN m.parts = DOMAIN r.parts
        /\ \A i \in DOMAIN r.parts : m.parts[i] = Mapped(r.parts[i], f) /\ r.parts[i] \in Within(C)
    BY <1>1, MappedRule
  <2> HIDE DEF m
  <2>2. CASE ~r.compound
    <3>1. ConditionsOf(r) = {r.cond} /\ ConditionsOf(m) = {m.cond}
      BY <2>1, <2>2, ConditionsUnfold
    <3>2. QED BY <2>1, <2>2, <3>1 DEF m
  <2>3. CASE r.compound
    <3>1. ConditionsOf(r) = UNION {ConditionsOf(r.parts[i]) : i \in DOMAIN r.parts}
      BY <2>3, ConditionsUnfold
    <3>2. ConditionsOf(m) = UNION {ConditionsOf(m.parts[i]) : i \in DOMAIN m.parts}
      BY <2>1, <2>3, ConditionsUnfold
    <3>3. \A i \in DOMAIN r.parts : ConditionsOf(m.parts[i]) = {f[c] : c \in ConditionsOf(r.parts[i])}
      BY <1>1, <2>1
    <3>4. \A y : y \in ConditionsOf(m) <=> \E i \in DOMAIN r.parts : y \in ConditionsOf(m.parts[i])
      BY <2>1, <3>2
    <3>5. \A y : y \in {f[c] : c \in ConditionsOf(r)}
                 <=> \E i \in DOMAIN r.parts : y \in {f[c] : c \in ConditionsOf(r.parts[i])}
      BY <3>1
    <3>6. \A y : y \in ConditionsOf(m) <=> y \in {f[c] : c \in ConditionsOf(r)}
      <4>1. \A y : \A i \in DOMAIN r.parts : y \in ConditionsOf(m.parts[i]) <=> y \in {f[c] : c \in ConditionsOf(r.parts[i])}
        BY <3>3, Zenon
      <4>2. QED BY <3>4, <3>5, <4>1, Zenon
    <3>7. ConditionsOf(m) = {f[c] : c \in ConditionsOf(r)}
      BY <3>6
    <3>8. QED BY <3>7, Zenon DEF m
  <2>4. QED BY <2>2, <2>3
<1>2. \A r \in AllRules : (\A i \in DOMAIN r.parts : r.parts[i] \in S) => r \in S
  BY <1>1
<1>3. AllRules \subseteq S
  <2> HIDE DEF S
  <2>1. QED BY <1>2, RuleInduction
<1>4. QED BY <1>3 DEF Within

(* A rule none of whose conditions is changed stays as it is.              *)
LEMMA MappedSame ==
    ASSUME NEW C, C \subseteq AllConditions, NEW f \in [C -> C]
    PROVE  \A r \in Within(C) : (\A c \in ConditionsOf(r) : f[c] = c) => Mapped(r, f) = r
<1> DEFINE S == {r \in AllRules : r \in Within(C) /\ (\A c \in ConditionsOf(r) : f[c] = c) => Mapped(r, f) = r}
<1>1. ASSUME NEW r \in AllRules, \A i \in DOMAIN r.parts : r.parts[i] \in S, r \in Within(C), \A c \in ConditionsOf(r) : f[c] = c
      PROVE  Mapped(r, f) = r
  <2>1. r \in [compound : BOOLEAN, negated : BOOLEAN, relation : {"", "AND", "OR"}, cond : AllConditions,
               parts : Joined(Rules[MaxDepth - 1])]
    BY RuleShape DEF RuleOf
  <2>2. CASE ~r.compound
    <3>1. r.cond \in ConditionsOf(r) /\ Mapped(r, f) = [r EXCEPT !.cond = f[r.cond]]
      BY <1>1, <2>2, ConditionsUnfold, MappedRule
    <3>2. f[r.cond] = r.cond
      BY <1>1, <3>1
    <3>3. QED BY <2>1, <3>1, <3>2
  <2>3. CASE r.compound
    <3>1. \A i \in DOMAIN r.parts : Mapped(r.parts[i], f) = r.parts[i]
      <4>1. ASSUME NEW i \in DOMAIN r.parts PROVE Mapped(r.parts[i], f) = r.parts[i]
        <5>1. r.parts[i] \in Within(C) /\ ConditionsOf(r.parts[i]) \subseteq ConditionsOf(r)
          BY <1>1, MappedRule, PartConditions
        <5>2. QED BY <1>1, <5>1
      <4>2. QED BY <4>1
    <3>2. r.parts \in Seq(AllRules)
      BY RuleParts
    <3>3. [i \in DOMAIN r.parts |-> r.parts[i]] = r.parts
      BY <3>2
    <3>4. [i \in DOMAIN r.parts |-> Mapped(r.parts[i], f)] = r.parts
      BY <3>1, <3>3
    <3>5. Mapped(r, f) = [r EXCEPT !.parts = r.parts]
      BY <1>1, <2>3, <3>4, MappedRule
    <3>6. QED BY <2>1, <3>5
  <2>4. QED BY <2>2, <2>3
<1>2. \A r \in AllRules : (\A i \in DOMAIN r.parts : r.parts[i] \in S) => r \in S
  BY <1>1
<1>3. AllRules \subseteq S
  <2> HIDE DEF S
  <2>1. QED BY <1>2, RuleInduction
<1>4. QED BY <1>3 DEF Within

(* A rule whose conditions are changed to ones that a request satisfies as *)
(* before evaluates as before.                                             *)
SameFor(c, d, ctx) == HasEvaluator(c) = HasEvaluator(d) /\ EvaluateCondition(c, ctx) = EvaluateCondition(d, ctx)

LEMMA MappedEvaluates ==
    ASSUME NEW C, C \subseteq AllConditions, NEW f \in [C -> C], NEW ctx, \A c \in C : SameFor(f[c], c, ctx)
    PROVE  \A r \in Within(C) : Evaluate(Mapped(r, f), ctx) = Evaluate(r, ctx)
<1> DEFINE S == {r \in AllRules : r \in Within(C) => Evaluate(Mapped(r, f), ctx) = Evaluate(r, ctx)}
<1>1. ASSUME NEW r \in AllRules, \A i \in DOMAIN r.parts : r.parts[i] \in S, r \in Within(C)
      PROVE  Evaluate(Mapped(r, f), ctx) = Evaluate(r, ctx)
  <2> DEFINE m == Mapped(r, f)
  <2>1. /\ m \in AllRules /\ m.compound = r.compound /\ m.negated = r.negated
        /\ ~r.compound => r.cond \in C /\ m.cond = f[r.cond]
        /\ Len(m.parts) = Len(r.parts) /\ DOMAIN m.parts = DOMAIN r.parts
        /\ \A i \in DOMAIN r.parts : m.parts[i] = Mapped(r.parts[i], f) /\ r.parts[i] \in Within(C)
    BY <1>1, MappedRule
  <2>2. \A i \in DOMAIN r.parts : m.parts[i].relation = r.parts[i].relation
    BY <2>1, MappedRule
  <2> HIDE DEF m
  <2>3. CASE ~r.compound
    <3>1. SameFor(m.cond, r.cond, ctx)
      BY <2>1, <2>3
    <3>2. evaluateWithNegation(m, ctx) = evaluateWithNegation(r, ctx)
      BY <2>1, <3>1 DEF SameFor, evaluateWithNegation
    <3>3. Evaluate(m, ctx) = evaluateWithNegation(m, ctx) /\ Evaluate(r, ctx) = evaluateWithNegation(r, ctx)
      BY <2>1, <2>3, EvaluateUnfolds
    <3>4. QED BY <3>2, <3>3 DEF m
  <2>4. CASE r.compound
    <3>1. Len(r.parts) \in Nat /\ DOMAIN r.parts = 1..Len(r.parts)
      BY RuleParts
    <3>2. \A i \in DOMAIN r.parts : Evaluate(m.parts[i], ctx) = Evaluate(r.parts[i], ctx)
      BY <1>1, <2>1
    <3>3. \A i \in 2..Len(r.parts) : i \in DOMAIN r.parts
      BY <3>1
    <3>4. SameJoins(m, r, ctx)
      BY <2>1, <2>2, <2>4, <3>1, <3>2, <3>3 DEF SameJoins
    <3>5. QED BY <2>1, <3>4, SameEvaluation DEF m
  <2>5. QED BY <2>3, <2>4
<1>2. \A r \in AllRules : (\A i \in DOMAIN r.parts : r.parts[i] \in S) => r \in S
  BY <1>1
<1>3. AllRules \subseteq S
  <2> HIDE DEF S
  <2>1. QED BY <1>2, RuleInduction
<1>4. QED BY <1>3 DEF Within

-----------------------------------------------------------------------------
(* Renaming a list.                                                        *)
RenamedBy(old, new) ==
    [c \in FormConditions |-> IF c.op = "IN_LIST" /\ c.fixed = Str(old) THEN [c EXCEPT !.fixed = Str(new)] ELSE c]

LEMMA StringArgs ==
    ASSUME NEW a \in FixedArgs, a.kind = "string"
    PROVE  a = Str(a.str) /\ a.str \in STRING
BY DEF FixedArgs, Str

LEMMA NewName ==
    ASSUME NEW c \in FormConditions, NEW new \in Spellings, c.op = "IN_LIST"
    PROVE  LET d == [c EXCEPT !.fixed = Str(new)]
           IN  /\ d \in FormConditions
               /\ d.type = c.type /\ d.name = c.name /\ d.op = c.op /\ d.fixed = Str(new)
<1> DEFINE d == [c EXCEPT !.fixed = Str(new)]
<1>1. new \in STRING
  BY SpellingsOK
<1>2. Str(new) \in FixedArgs /\ Str(new).kind = "string" /\ Str(new).str = new
  BY <1>1, ArgTypes DEF Str
<1>3. c \in AllConditions
  BY DEF FormConditions
<1>4. d.type = c.type /\ d.name = c.name /\ d.op = c.op /\ d.fixed = Str(new) /\ d \in AllConditions
  BY <1>2, <1>3 DEF AllConditions
<1>5. c.name \in Spellings
  BY DEF FormConditions
<1> HIDE DEF d
<1>6. ValuesOf(d.fixed) = {new}
  BY <1>2, <1>4 DEF ValuesOf
<1>7. d \in FormConditions
  BY <1>2, <1>4, <1>5, <1>6 DEF FormConditions
<1>8. QED BY <1>4, <1>7 DEF d

LEMMA RenamedSatisfies ==
    ASSUME NEW c, NEW d, NEW old, NEW new, c.op = "IN_LIST", d.op = c.op, d.type = c.type, d.name = c.name,
           c.fixed = Str(old), d.fixed = Str(new), {old, new} \subseteq DOMAIN Lists, Lists[old] = Lists[new], NEW ctx
    PROVE  SameFor(d, c, ctx)
<1>1. HasEvaluator(c) = HasEvaluator(d)
  BY DEF HasEvaluator
<1>2. c.fixed.kind = "string" /\ c.fixed.str = old /\ d.fixed.kind = "string" /\ d.fixed.str = new
  BY DEF Str
<1>3. \A v : IsInList(v, old) <=> IsInList(v, new)
  BY DEF IsInList
<1>4. ASSUME NEW v PROVE Satisfies(c, v) <=> Satisfies(d, v)
  <2>1. Satisfies(c, v) <=> IsInList(v, old)
    BY <1>2 DEF Satisfies, Comparisons
  <2>2. Satisfies(d, v) <=> IsInList(v, new)
    BY <1>2 DEF Satisfies, Comparisons
  <2>3. QED BY <1>3, <2>1, <2>2
<1>5. EvaluateCondition(d, ctx) <=> EvaluateCondition(c, ctx)
  BY <1>4 DEF EvaluateCondition
<1>6. EvaluateCondition(d, ctx) \in BOOLEAN /\ EvaluateCondition(c, ctx) \in BOOLEAN
  BY DEF EvaluateCondition
<1>7. EvaluateCondition(d, ctx) = EvaluateCondition(c, ctx)
  BY <1>5, <1>6, BooleansEqual
<1>8. QED BY <1>1, <1>7 DEF SameFor

LEMMA RenamedFacts ==
    ASSUME NEW p \in Renames, NEW r \in Within(FormConditions)
    PROVE  LET q == ChangeFixedArgToNewValue(p[1], p[2], r, "IN_LIST")
           IN  /\ q \in Within(FormConditions) /\ Selects(r, q) /\ p[1] \notin GetInListNames(q)
<1> DEFINE old == p[1]
           new == p[2]
           f == RenamedBy(old, new)
           q == Mapped(r, f)
<1>1. {old, new} \subseteq DOMAIN Lists /\ {old, new} \subseteq Spellings /\ old # new /\ Lists[old] = Lists[new]
  BY FormsOK
<1>2. old # Empty
  BY <1>1, FiltersOK
<1> HIDE DEF old, new
<1>3. ASSUME NEW c \in FormConditions PROVE f[c] \in FormConditions
  BY <1>1, NewName DEF RenamedBy
<1>4. f \in [FormConditions -> FormConditions] /\ FormConditions \subseteq AllConditions
  BY <1>3 DEF RenamedBy, FormConditions
<1>5. ASSUME NEW c \in FormConditions, NEW ctx PROVE SameFor(f[c], c, ctx)
  <2>1. CASE c.op = "IN_LIST" /\ c.fixed = Str(old)
    <3> DEFINE d == [c EXCEPT !.fixed = Str(new)]
    <3>1. f[c] = d
      BY <2>1 DEF RenamedBy
    <3>2. d.type = c.type /\ d.name = c.name /\ d.op = c.op /\ d.fixed = Str(new)
      BY <1>1, <2>1, NewName
    <3> HIDE DEF d, f
    <3>3. QED BY <1>1, <2>1, <3>1, <3>2, RenamedSatisfies
  <2>2. CASE ~(c.op = "IN_LIST" /\ c.fixed = Str(old))
    <3>1. f[c] = c
      BY <2>2 DEF RenamedBy
    <3> HIDE DEF f
    <3>2. QED BY <3>1 DEF SameFor
  <2>3. QED BY <2>1, <2>2
<1>6. ASSUME NEW c \in FormConditions, f[c].op = "IN_LIST" PROVE f[c].fixed.str # old
  <2>1. CASE c.op = "IN_LIST" /\ c.fixed = Str(old)
    <3>1. f[c].fixed = Str(new)
      BY <1>1, <2>1, NewName DEF RenamedBy
    <3> HIDE DEF f
    <3>2. QED BY <1>1, <3>1 DEF Str
  <2>2. CASE ~(c.op = "IN_LIST" /\ c.fixed = Str(old))
    <3>1. f[c] = c
      BY <2>2 DEF RenamedBy
    <3>2. c.fixed.kind = "string" /\ c.fixed \in FixedArgs /\ c.fixed # Str(old)
      BY <1>6, <2>2, <3>1 DEF FormConditions, AllConditions
    <3>3. c.fixed = Str(c.fixed.str)
      BY <3>2, StringArgs
    <3> HIDE DEF f
    <3>4. QED BY <3>1, <3>2, <3>3
  <2>3. QED BY <2>1, <2>2
<1>7. ChangeFixedArgToNewValue(p[1], p[2], r, "IN_LIST") = q
  BY DEF ChangeFixedArgToNewValue, RenamedBy, old, new
<1> HIDE DEF f
<1>8. q \in AllRules /\ ConditionsOf(q) = {f[c] : c \in ConditionsOf(r)}
  BY <1>4, MappedRule, MappedConditions
<1>9. ConditionsOf(r) \subseteq FormConditions
  BY DEF Within
<1>10. q \in Within(FormConditions)
  BY <1>3, <1>8, <1>9 DEF Within
<1>11. Selects(r, q)
  <2>1. ASSUME NEW ctx PROVE Evaluate(q, ctx) = Evaluate(r, ctx)
    BY <1>4, <1>5, MappedEvaluates
  <2>2. QED BY <2>1 DEF Selects
<1>12. old \notin GetInListNames(q)
  <2> HIDE DEF q
  <2>1. QED BY <1>6, <1>8, <1>9 DEF GetInListNames
<1>13. QED BY <1>7, <1>10, <1>11, <1>12 DEF old

-----------------------------------------------------------------------------
(* Normalising.                                                            *)
LEMMA ArgumentFacts ==
    ASSUME NEW a \in FixedArgs, NEW to, \A v \in ValuesOf(a) : to[v] \in Spellings
    PROVE  /\ Argument(a, to) \in FixedArgs /\ Argument(a, to).kind = a.kind
           /\ ValuesOf(Argument(a, to)) = {to[v] : v \in ValuesOf(a)}
<1>0. Spellings \subseteq STRING
  BY SpellingsOK
<1>1. CASE a.kind = "string"
  <2>1. ValuesOf(a) = {a.str} /\ to[a.str] \in STRING
    BY <1>0, <1>1 DEF ValuesOf
  <2>2. Argument(a, to) = Str(to[a.str])
    BY <1>1 DEF Argument
  <2> DEFINE b == Argument(a, to)
  <2>3. b \in FixedArgs /\ b.kind = "string" /\ b.str = to[a.str]
    <3> DEFINE t == to[a.str]
    <3>1. t \in STRING /\ b = Str(t)
      BY <2>1, <2>2
    <3> HIDE DEF t, b
    <3>2. Str(t) \in FixedArgs /\ Str(t).kind = "string" /\ Str(t).str = t
      BY <3>1, ArgTypes DEF Str
    <3>3. QED BY <3>1, <3>2 DEF t
  <2>4. ValuesOf(b) = {b.str}
    BY <2>3 DEF ValuesOf
  <2> HIDE DEF b
  <2>5. b.kind = a.kind /\ ValuesOf(b) = {to[v] : v \in ValuesOf(a)}
    BY <1>1, <2>1, <2>3, <2>4
  <2>6. QED BY <2>3, <2>5 DEF b
<1>2. CASE a.kind = "collection"
  <2> DEFINE S == {to[v] : v \in a.set}
             b == Argument(a, to)
  <2>1. ValuesOf(a) = a.set
    BY <1>2 DEF ValuesOf
  <2>2. S \in SUBSET STRING
    BY <1>0, <2>1
  <2>3. b = Coll(S)
    BY <1>2 DEF Argument
  <2> HIDE DEF S, b
  <2>4. b \in FixedArgs /\ b.kind = "collection" /\ b.set = S
    <3>1. Coll(S) \in FixedArgs /\ Coll(S).kind = "collection" /\ Coll(S).set = S
      BY <2>2, ArgTypes DEF Coll
    <3>2. QED BY <2>3, <3>1
  <2>5. ValuesOf(b) = S
    BY <2>4 DEF ValuesOf
  <2>6. QED BY <1>2, <2>1, <2>4, <2>5 DEF b, S
<1>3. CASE a.kind \notin {"string", "collection"}
  <2>1. Argument(a, to) = a
    BY <1>3 DEF Argument
  <2>2. ValuesOf(a) = {}
    BY <1>3 DEF ValuesOf, FixedArgs
  <2>3. QED BY <2>1, <2>2
<1>4. QED BY <1>1, <1>2, <1>3

(* An argument of which no string is changed stays as it is.               *)
LEMMA ArgumentSame ==
    ASSUME NEW a \in FixedArgs, NEW to, \A v \in ValuesOf(a) : to[v] = v
    PROVE  Argument(a, to) = a
<1>1. CASE a.kind = "string"
  <2>1. ValuesOf(a) = {a.str}
    BY <1>1 DEF ValuesOf
  <2>2. Argument(a, to) = Str(a.str)
    BY <1>1, <2>1 DEF Argument
  <2>3. QED BY <1>1, <2>2, StringArgs
<1>2. CASE a.kind = "collection"
  <2>1. ValuesOf(a) = a.set
    BY <1>2 DEF ValuesOf
  <2>2. {to[v] : v \in a.set} = a.set
    BY <2>1
  <2>3. Argument(a, to) = Coll(a.set)
    BY <1>2, <2>2 DEF Argument
  <2>4. QED BY <1>2, <2>3 DEF Coll, FixedArgs
<1>3. CASE a.kind \notin {"string", "collection"}
  BY <1>3 DEF Argument
<1>4. QED BY <1>1, <1>2, <1>3

(* Two changes one after the other.                                        *)
LEMMA ArgumentTwice ==
    ASSUME NEW a \in FixedArgs, NEW to, NEW then, NEW both, \A v \in ValuesOf(a) : both[v] = then[to[v]]
    PROVE  Argument(Argument(a, to), then) = Argument(a, both)
<1>1. CASE a.kind = "string"
  <2>1. both[a.str] = then[to[a.str]]
    BY <1>1 DEF ValuesOf
  <2>2. Argument(a, to) = Str(to[a.str]) /\ Argument(a, both) = Str(both[a.str])
    BY <1>1 DEF Argument
  <2>3. Argument(Str(to[a.str]), then) = Str(then[to[a.str]])
    BY DEF Argument, Str
  <2>4. QED BY <2>1, <2>2, <2>3
<1>2. CASE a.kind = "collection"
  <2> DEFINE S == {to[v] : v \in a.set}
             T == {both[v] : v \in a.set}
             U == {then[v] : v \in S}
  <2>1. U = T
    BY <1>2 DEF ValuesOf
  <2>2. Argument(a, to) = Coll(S) /\ Argument(a, both) = Coll(T)
    BY <1>2 DEF Argument
  <2>3. Coll(S).kind = "collection" /\ Coll(S).set = S
    BY DEF Coll
  <2>4. Argument(Coll(S), then) = Coll(U)
    <3> DEFINE b == Coll(S)
    <3>1. b.kind = "collection" /\ b.set = S
      BY <2>3
    <3> HIDE DEF b
    <3>2. Argument(b, then) = Coll({then[v] : v \in b.set})
      BY <3>1 DEF Argument
    <3>3. QED BY <3>1, <3>2 DEF b
  <2>5. QED BY <2>1, <2>2, <2>4
<1>3. CASE a.kind \notin {"string", "collection"}
  BY <1>3 DEF Argument
<1>4. QED BY <1>1, <1>2, <1>3

(* What the three normalisations make of a value.                          *)
Normal(name, op, v) ==
    IF name \in MacNames /\ op \in {"IS", "LIKE", "IN"} THEN MacOf[Trim[v]]
    ELSE IF name \in {"env", "model", "partnerId"} /\ op \in {"IS", "IN"} THEN ToUpper[Trim[v]]
    ELSE Trim[v]
NormalTo(name, op) == [v \in Spellings |-> Normal(name, op, v)]

LEMMA FirstStep ==
    ASSUME NEW c \in FormConditions
    PROVE  /\ Spelled(c) = [type |-> c.type, name |-> Trim[c.name], op |-> c.op,
                            fixed |-> Argument(c.fixed, [v \in Spellings |-> modifyFixedArg(Trim[v], Trim[c.name], c.op)])]
           /\ Trim[c.name] \in Spellings /\ c.fixed \in FixedArgs /\ ValuesOf(c.fixed) \subseteq Spellings
           /\ c.type \in STRING /\ c.op \in STRING
           /\ \A v \in Spellings : modifyFixedArg(Trim[v], Trim[c.name], c.op) \in Spellings
<1>1. c \in [type : STRING, name : STRING, op : STRING, fixed : FixedArgs]
  BY DEF FormConditions, AllConditions
<1>2. c.name \in Spellings /\ ValuesOf(c.fixed) \subseteq Spellings
  BY DEF FormConditions
<1> DEFINE e == [c EXCEPT !.name = Trim[@]]
<1>3. e = [type |-> c.type, name |-> Trim[c.name], op |-> c.op, fixed |-> c.fixed]
  BY <1>1
<1>4. e.name = Trim[c.name] /\ e.op = c.op /\ e.fixed = c.fixed
  BY <1>3
<1> DEFINE to == [v \in Spellings |-> modifyFixedArg(Trim[v], Trim[c.name], c.op)]
<1>5. Spelled(c) = [e EXCEPT !.fixed = Argument(c.fixed, to)]
  BY <1>4 DEF Spelled, normalizeFixedArgValue
<1>6. Spelled(c) = [type |-> c.type, name |-> Trim[c.name], op |-> c.op, fixed |-> Argument(c.fixed, to)]
  <2> HIDE DEF to
  <2>1. QED BY <1>3, <1>5
<1>7. Trim \in [Spellings -> Spellings] /\ ToUpper \in [Spellings -> Spellings]
  BY SpellingsOK
<1>8. \A v \in Spellings : modifyFixedArg(Trim[v], Trim[c.name], c.op) \in Spellings
  BY <1>7 DEF modifyFixedArg
<1> HIDE DEF to
<1>9. QED BY <1>1, <1>2, <1>6, <1>7, <1>8 DEF to

(* A condition that is accepted, with each of its values in normal form.   *)
LEMMA NormalizedCondition ==
    ASSUME NEW c \in FormConditions
    PROVE  LET n == Trim[c.name]
               d == NormalizeCondition(c)
           IN  /\ d.type = c.type /\ d.name = n /\ d.op = c.op /\ d.fixed = Argument(c.fixed, NormalTo(n, c.op))
               /\ d = [type |-> c.type, name |-> n, op |-> c.op, fixed |-> d.fixed]
<1> DEFINE n == Trim[c.name]
           d == NormalizeCondition(c)
           a == c.fixed
           first == [v \in Spellings |-> modifyFixedArg(Trim[v], n, c.op)]
           a1 == Argument(a, first)
           e == Spelled(c)
           b2 == n \in MacNames /\ c.op \in {"IS", "LIKE", "IN"}
           b3 == n = "partnerId" /\ c.op \in {"IS", "IN"}
           a2 == IF b2 THEN Argument(a1, MacOf) ELSE a1
           a3 == IF b3 THEN Argument(a2, ToUpper) ELSE a2
           goal == NormalTo(n, c.op)
<1>1. e = [type |-> c.type, name |-> n, op |-> c.op, fixed |-> a1] /\ n \in Spellings /\ a \in FixedArgs
      /\ ValuesOf(a) \subseteq Spellings
  BY FirstStep
<1>2. \A v \in Spellings : first[v] = modifyFixedArg(Trim[v], n, c.op)
  OBVIOUS
<1>3. \A v \in Spellings : goal[v] = Normal(n, c.op, v)
  BY DEF NormalTo
<1> HIDE DEF n, a, first, goal
<1>4. d = [type |-> c.type, name |-> n, op |-> c.op, fixed |-> a3]
  <2> HIDE DEF e, a1
  <2> DEFINE f2 == normalizeMacAddress(e)
  <2>1. e.name = n /\ e.op = c.op /\ e.fixed = a1
    BY <1>1
  <2>2. HasMacs(e) <=> b2
    BY <2>1 DEF HasMacs
  <2>3. f2 = IF HasMacs(e) THEN [e EXCEPT !.fixed = Argument(a1, MacOf)] ELSE e
    BY <2>1 DEF normalizeMacAddress, ValidateAndNormalizeMacAddress
  <2> DEFINE x2 == Argument(a1, MacOf)
  <2> HIDE DEF x2
  <2>4. [e EXCEPT !.fixed = x2] = [type |-> c.type, name |-> n, op |-> c.op, fixed |-> x2]
    BY <1>1
  <2>5. f2 = [type |-> c.type, name |-> n, op |-> c.op, fixed |-> a2]
    <3>1. CASE b2
      BY <2>2, <2>3, <2>4, <3>1 DEF x2
    <3>2. CASE ~b2
      BY <1>1, <2>2, <2>3, <3>2
    <3>3. QED BY <3>1, <3>2
  <2> HIDE DEF f2, a2, b2
  <2>6. f2.name = n /\ f2.op = c.op /\ f2.fixed = a2
    BY <2>5
  <2> DEFINE x3 == Argument(a2, ToUpper)
  <2>7. normalizePartnerId(f2) = IF b3 THEN [f2 EXCEPT !.fixed = x3] ELSE f2
    BY <2>6 DEF normalizePartnerId
  <2> HIDE DEF x3
  <2>8. [f2 EXCEPT !.fixed = x3] = [type |-> c.type, name |-> n, op |-> c.op, fixed |-> x3]
    BY <2>5
  <2>9. normalizePartnerId(f2) = [type |-> c.type, name |-> n, op |-> c.op, fixed |-> a3]
    <3>1. CASE b3
      BY <2>7, <2>8, <3>1 DEF x3
    <3>2. CASE ~b3
      BY <2>5, <2>7, <3>2
    <3>3. QED BY <3>1, <3>2
  <2>10. d = normalizePartnerId(f2)
    BY DEF NormalizeCondition, f2, e
  <2>11. QED BY <2>9, <2>10
<1>5. /\ Trim \in [Spellings -> Spellings] /\ ToUpper \in [Spellings -> Spellings]
      /\ MacOf \in [Spellings -> Spellings \cup {NotMac}]
      /\ \A v \in Spellings : MacOf[ToUpper[v]] = MacOf[v]
  BY SpellingsOK
<1>6. a3 = Argument(a, goal)
  <2>1. CASE b2
    <3>1. ~b3
      BY <2>1 DEF MacNames
    <3>2. \A v \in ValuesOf(a) : goal[v] = MacOf[first[v]]
      <4>1. ASSUME NEW v \in ValuesOf(a) PROVE goal[v] = MacOf[first[v]]
        <5>1. v \in Spellings /\ Trim[v] \in Spellings
          BY <1>1, <1>5
        <5>2. goal[v] = MacOf[Trim[v]]
          BY <1>3, <2>1, <5>1 DEF Normal
        <5>3. first[v] \in {Trim[v], ToUpper[Trim[v]]}
          BY <1>2, <5>1 DEF modifyFixedArg
        <5>4. QED BY <1>5, <5>1, <5>2, <5>3
      <4>2. QED BY <4>1
    <3>3. Argument(a1, MacOf) = Argument(a, goal)
      BY <1>1, <3>2, ArgumentTwice
    <3>4. QED BY <2>1, <3>1, <3>3
  <2>2. CASE ~b2 /\ b3
    <3>1. \A v \in ValuesOf(a) : goal[v] = ToUpper[first[v]]
      <4>1. ASSUME NEW v \in ValuesOf(a) PROVE goal[v] = ToUpper[first[v]]
        <5>1. v \in Spellings
          BY <1>1
        <5>2. goal[v] = ToUpper[Trim[v]]
          BY <1>3, <2>2, <5>1 DEF Normal, MacNames
        <5>3. first[v] = Trim[v]
          BY <1>2, <2>2, <5>1 DEF modifyFixedArg
        <5>4. QED BY <5>2, <5>3
      <4>2. QED BY <4>1
    <3>2. Argument(a1, ToUpper) = Argument(a, goal)
      BY <1>1, <3>1, ArgumentTwice
    <3>3. QED BY <2>2, <3>2
  <2>3. CASE ~b2 /\ ~b3
    <3>1. \A v \in ValuesOf(a) : goal[v] = first[v]
      <4>1. ASSUME NEW v \in ValuesOf(a) PROVE goal[v] = first[v]
        <5>1. v \in Spellings
          BY <1>1
        <5>2. QED BY <1>2, <1>3, <2>3, <5>1 DEF Normal, MacNames, modifyFixedArg
      <4>2. QED BY <4>1
    <3>2. a1 = Argument(a, goal)
      <4> DEFINE id == [v \in {first[w] : w \in ValuesOf(a)} |-> v]
      <4>1. \A v \in ValuesOf(a) : goal[v] = id[first[v]]
        BY <3>1
      <4>2. Argument(a1, id) = Argument(a, goal)
        <5> HIDE DEF id
        <5>1. QED BY <1>1, <4>1, ArgumentTwice
      <4>3. \A v \in ValuesOf(a) : first[v] \in Spellings
        BY <1>1, <1>2, <1>5 DEF modifyFixedArg
      <4>4. a1 \in FixedArgs /\ ValuesOf(a1) = {first[v] : v \in ValuesOf(a)}
        BY <1>1, <4>3, ArgumentFacts
      <4>5. \A v \in ValuesOf(a1) : id[v] = v
        BY <4>4
      <4> HIDE DEF id
      <4>6. Argument(a1, id) = a1
        BY <4>4, <4>5, ArgumentSame
      <4>7. QED BY <4>2, <4>6
    <3>3. QED BY <2>3, <3>2
  <2>4. QED BY <2>1, <2>2, <2>3
<1> HIDE DEF d, a3
<1>7. d.type = c.type /\ d.name = n /\ d.op = c.op /\ d.fixed = a3
  BY <1>4
<1>8. QED BY <1>4, <1>6, <1>7 DEF d, n, a, goal

(* A value in normal form stays as it is.                                  *)
LEMMA NormalStays ==
    ASSUME NEW n, NEW op, NEW v \in Spellings, Normal(n, op, v) # NotMac
    PROVE  LET u == Normal(n, op, v)
           IN  u \in Spellings /\ Trim[u] = u /\ modifyFixedArg(u, n, op) = u /\ Normal(n, op, u) = u
<1> DEFINE u == Normal(n, op, v)
           t == Trim[v]
<1>1. t \in Spellings /\ Trim[t] = t /\ ToUpper[t] \in Spellings /\ MacOf[t] \in Spellings \cup {NotMac}
  BY SpellingsOK
<1>2. Trim[ToUpper[t]] = ToUpper[t] /\ ToUpper[ToUpper[t]] = ToUpper[t]
  BY SpellingsOK
<1>3. MacOf[t] # NotMac => Trim[MacOf[t]] = MacOf[t] /\ ToUpper[MacOf[t]] = MacOf[t] /\ MacOf[MacOf[t]] = MacOf[t]
  BY <1>1, SpellingsOK
<1> HIDE DEF t
<1>4. CASE n \in MacNames /\ op \in {"IS", "LIKE", "IN"}
  <2>1. u = MacOf[t]
    BY <1>4 DEF Normal, t
  <2> HIDE DEF u
  <2>2. u \in Spellings /\ Trim[u] = u /\ ToUpper[u] = u /\ MacOf[u] = u
    BY <1>1, <1>3, <2>1 DEF u
  <2>3. Normal(n, op, u) = u
    BY <1>4, <2>2 DEF Normal
  <2>4. modifyFixedArg(u, n, op) = u
    BY <2>2 DEF modifyFixedArg
  <2>5. QED BY <2>2, <2>3, <2>4 DEF u
<1>5. CASE ~(n \in MacNames /\ op \in {"IS", "LIKE", "IN"}) /\ n \in {"env", "model", "partnerId"} /\ op \in {"IS", "IN"}
  <2>1. u = ToUpper[t]
    BY <1>5 DEF Normal, t
  <2> HIDE DEF u
  <2>2. u \in Spellings /\ Trim[u] = u /\ ToUpper[u] = u
    BY <1>1, <1>2, <2>1
  <2>3. Normal(n, op, u) = u
    BY <1>5, <2>2 DEF Normal
  <2>4. modifyFixedArg(u, n, op) = u
    BY <2>2 DEF modifyFixedArg
  <2>5. QED BY <2>2, <2>3, <2>4 DEF u
<1>6. CASE ~(n \in MacNames /\ op \in {"IS", "LIKE", "IN"}) /\ ~(n \in {"env", "model", "partnerId"} /\ op \in {"IS", "IN"})
  <2>1. u = t
    BY <1>6 DEF Normal, t
  <2> HIDE DEF u
  <2>2. u \in Spellings /\ Trim[u] = u
    BY <1>1, <2>1
  <2>3. Normal(n, op, u) = u
    BY <1>6, <2>2 DEF Normal
  <2>4. modifyFixedArg(u, n, op) = u
    BY <1>6 DEF modifyFixedArg, MacNames
  <2>5. QED BY <2>2, <2>3, <2>4 DEF u
<1>7. QED BY <1>4, <1>5, <1>6

(* The values of a condition that is accepted have a normal form.          *)
LEMMA AcceptedValues ==
    ASSUME NEW c \in FormConditions
    PROVE  HasInvalidMac(c) <=> \E v \in ValuesOf(c.fixed) : Normal(Trim[c.name], c.op, v) = NotMac
<1> DEFINE n == Trim[c.name]
           e == Spelled(c)
           first == [v \in Spellings |-> modifyFixedArg(Trim[v], n, c.op)]
           b == n \in MacNames /\ c.op \in {"IS", "LIKE", "IN"}
<1>1. /\ e = [type |-> c.type, name |-> n, op |-> c.op, fixed |-> Argument(c.fixed, first)] /\ c.fixed \in FixedArgs
      /\ ValuesOf(c.fixed) \subseteq Spellings /\ \A v \in Spellings : modifyFixedArg(Trim[v], n, c.op) \in Spellings
  BY FirstStep
<1>2. \A v \in Spellings : first[v] = modifyFixedArg(Trim[v], n, c.op)
  OBVIOUS
<1> HIDE DEF e, first, n
<1>3. e.name = n /\ e.op = c.op /\ e.fixed = Argument(c.fixed, first)
  BY <1>1
<1>4. ValuesOf(e.fixed) = {first[v] : v \in ValuesOf(c.fixed)}
  BY <1>1, <1>2, <1>3, ArgumentFacts
<1>5. HasMacs(e) <=> b
  BY <1>3 DEF HasMacs
<1>6. HasInvalidMac(c) <=> b /\ \E v \in ValuesOf(c.fixed) : MacOf[first[v]] = NotMac
  BY <1>4, <1>5 DEF HasInvalidMac, MACAddressValidator, e
<1>7. ASSUME NEW v \in ValuesOf(c.fixed), b PROVE MacOf[first[v]] = Normal(n, c.op, v)
  <2>1. v \in Spellings /\ Trim[v] \in Spellings
    BY <1>1, SpellingsOK
  <2>2. first[v] \in {Trim[v], ToUpper[Trim[v]]}
    BY <1>2, <2>1 DEF modifyFixedArg
  <2>3. MacOf[ToUpper[Trim[v]]] = MacOf[Trim[v]]
    BY <2>1, SpellingsOK
  <2>4. Normal(n, c.op, v) = MacOf[Trim[v]]
    BY <1>7 DEF Normal
  <2>5. QED BY <2>2, <2>3, <2>4
<1>8. ASSUME NEW v \in ValuesOf(c.fixed), ~b PROVE Normal(n, c.op, v) # NotMac
  <2>1. v \in Spellings /\ Trim[v] \in Spellings /\ ToUpper[Trim[v]] \in Spellings /\ NotMac \notin Spellings
    BY <1>1, SpellingsOK
  <2>2. Normal(n, c.op, v) \in {Trim[v], ToUpper[Trim[v]]}
    BY <1>8 DEF Normal
  <2>3. QED BY <2>1, <2>2
<1> HIDE DEF b
<1>9. QED BY <1>6, <1>7, <1>8 DEF n

(* What is normalised is accepted, and stays as it is.                     *)
LEMMA NormalizedStays ==
    ASSUME NEW c \in Accepted
    PROVE  NormalizeCondition(c) \in Accepted /\ NormalizeCondition(NormalizeCondition(c)) = NormalizeCondition(c)
<1> DEFINE n == Trim[c.name]
           d == NormalizeCondition(c)
           to == NormalTo(n, c.op)
<1>1. c \in FormConditions /\ ~HasInvalidMac(c)
  BY DEF Accepted
<1>2. /\ d.type = c.type /\ d.name = n /\ d.op = c.op /\ d.fixed = Argument(c.fixed, to)
      /\ d = [type |-> c.type, name |-> n, op |-> c.op, fixed |-> d.fixed]
  BY <1>1, NormalizedCondition
<1>3. c.fixed \in FixedArgs /\ ValuesOf(c.fixed) \subseteq Spellings /\ n \in Spellings /\ c.type \in STRING /\ c.op \in STRING
  BY <1>1, FirstStep
<1>4. \A v \in ValuesOf(c.fixed) : to[v] = Normal(n, c.op, v)
  BY <1>3 DEF NormalTo
<1>5. \A v \in ValuesOf(c.fixed) : Normal(n, c.op, v) # NotMac
  BY <1>1, AcceptedValues
<1>6. \A v \in ValuesOf(c.fixed) : to[v] \in Spellings /\ Normal(n, c.op, to[v]) = to[v]
  BY <1>3, <1>4, <1>5, NormalStays
<1>7. Trim[n] = n /\ n \in STRING
  BY <1>1, <1>3, SpellingsOK DEF FormConditions
<1> HIDE DEF d, n, to
<1>8. d.fixed \in FixedArgs /\ d.fixed.kind = c.fixed.kind /\ ValuesOf(d.fixed) = {to[v] : v \in ValuesOf(c.fixed)}
  BY <1>2, <1>3, <1>6, ArgumentFacts
<1>9. d \in AllConditions
  <2> DEFINE a == d.fixed
  <2>1. d = [type |-> c.type, name |-> n, op |-> c.op, fixed |-> a] /\ a \in FixedArgs
    BY <1>2, <1>8
  <2> HIDE DEF a
  <2>2. QED BY <1>3, <1>7, <2>1 DEF AllConditions
<1>10. d \in FormConditions
  <2>1. /\ c.op = "IN" => c.fixed.kind = "collection"
        /\ c.fixed.kind = "collection" => c.op \in {"IN", "ANY_MATCHED"}
        /\ c.op = "IN_LIST" => c.fixed.kind = "string"
    BY <1>1 DEF FormConditions
  <2>2. {d.name} \cup ValuesOf(d.fixed) \subseteq Spellings
    BY <1>2, <1>3, <1>6, <1>8
  <2>3. QED BY <1>2, <1>8, <1>9, <2>1, <2>2 DEF FormConditions
<1>11. \A u \in ValuesOf(d.fixed) : u \in Spellings /\ Normal(n, c.op, u) = u /\ u # NotMac
  BY <1>6, <1>8, SpellingsOK
<1>12. ~HasInvalidMac(d)
  BY <1>2, <1>7, <1>10, <1>11, AcceptedValues
<1>13. NormalizeCondition(d) = d
  <2> DEFINE x == NormalizeCondition(d)
             again == NormalTo(n, c.op)
  <2>1. /\ x.fixed = Argument(d.fixed, again)
        /\ x = [type |-> c.type, name |-> n, op |-> c.op, fixed |-> x.fixed]
    BY <1>2, <1>7, <1>10, NormalizedCondition
  <2>2. \A u \in ValuesOf(d.fixed) : again[u] = u
    BY <1>11 DEF NormalTo
  <2> HIDE DEF x, again
  <2>3. x.fixed = d.fixed
    BY <1>8, <2>1, <2>2, ArgumentSame
  <2>4. QED BY <1>2, <2>1, <2>3 DEF x
<1>14. QED BY <1>10, <1>12, <1>13 DEF Accepted, d

(* A normalised condition accepts what the operator spelled.               *)
LEMMA NormalizedAccepts ==
    ASSUME NEW c \in FormConditions, c.op \in {"IS", "IN"}, c.type \in Text, NEW v
    PROVE  LET d == NormalizeCondition(c)
           IN  Satisfies(d, v) <=> \E w \in Spellings : Canonical(d.name, w) = v /\ Satisfies(c, w)
<1> DEFINE n == Trim[c.name]
           d == NormalizeCondition(c)
           to == NormalTo(n, c.op)
           a == c.fixed
<1>1. d.type = c.type /\ d.name = n /\ d.op = c.op /\ d.fixed = Argument(a, to)
  BY NormalizedCondition
<1>2. a \in FixedArgs /\ ValuesOf(a) \subseteq Spellings
  BY FirstStep
<1>3. \A w \in Spellings : to[w] = Canonical(n, w)
  BY DEF NormalTo, Normal, Canonical
<1> HIDE DEF d, n, to, a
<1>4. ASSUME NEW x, x.op = c.op, x.type = c.type, NEW u
      PROVE  /\ c.op = "IS" => (Satisfies(x, u) <=> x.fixed = Str(u))
             /\ c.op = "IN" => (Satisfies(x, u) <=> x.fixed.kind = "collection" /\ u \in x.fixed.set)
  BY <1>4 DEF Satisfies, Comparisons
<1>5. CASE c.op = "IS"
  <2>1. \A u : (Satisfies(d, u) <=> d.fixed = Str(u)) /\ (Satisfies(c, u) <=> a = Str(u))
    BY <1>1, <1>4, <1>5 DEF a
  <2>2. CASE a.kind = "string"
    <3>1. a = Str(a.str) /\ a.str \in Spellings
      BY <1>2, <2>2, StringArgs DEF ValuesOf
    <3>2. d.fixed = Str(to[a.str])
      BY <1>1, <2>2 DEF Argument
    <3>3. Satisfies(d, v) <=> to[a.str] = v
      BY <2>1, <3>2, StrEqual
    <3>4. \A w : Satisfies(c, w) <=> w = a.str
      <4>1. \A w : Str(a.str) = Str(w) <=> a.str = w
        BY StrEqual
      <4>2. QED BY <2>1, <3>1, <4>1
    <3>5. to[a.str] = Canonical(n, a.str)
      BY <1>3, <3>1
    <3>6. QED BY <1>1, <3>1, <3>3, <3>4, <3>5 DEF d
  <2>3. CASE a.kind # "string"
    <3>1. d.fixed.kind # "string"
      BY <1>1, <2>3 DEF Argument, Coll
    <3>2. \A u : Str(u).kind = "string"
      BY DEF Str
    <3>3. QED BY <2>1, <2>3, <3>1, <3>2 DEF d
  <2>4. QED BY <2>2, <2>3
<1>6. CASE c.op = "IN"
  <2>1. a.kind = "collection"
    BY <1>6 DEF FormConditions, a
  <2>2. \A u : (Satisfies(d, u) <=> d.fixed.kind = "collection" /\ u \in d.fixed.set) /\ (Satisfies(c, u) <=> u \in a.set)
    BY <1>1, <1>4, <1>6, <2>1 DEF a
  <2>3. d.fixed = Coll({to[w] : w \in a.set})
    BY <1>1, <2>1 DEF Argument
  <2>4. d.fixed.kind = "collection" /\ d.fixed.set = {to[w] : w \in a.set}
    BY <2>3 DEF Coll
  <2>5. a.set \subseteq Spellings
    BY <1>2, <2>1 DEF ValuesOf
  <2>6. \A w \in a.set : to[w] = Canonical(n, w)
    BY <1>3, <2>5
  <2>7. QED BY <1>1, <2>2, <2>4, <2>5, <2>6 DEF d
<1>7. QED BY <1>5, <1>6

(* A rule that is not refused, normalised.                                 *)
LEMMA NormalizedRule ==
    ASSUME NEW r \in Within(Accepted)
    PROVE  LET q == NormalizeConditions(r)
           IN  /\ q \in Within(Accepted) /\ NormalizeConditions(q) = q /\ ~Refused(q)
               /\ ConditionsOf(q) = {NormalizeCondition(given) : given \in ConditionsOf(r)}
<1> DEFINE f == [c \in Accepted |-> NormalizeCondition(c)]
           q == NormalizeConditions(r)
<1>1. f \in [Accepted -> Accepted] /\ Accepted \subseteq AllConditions
  BY NormalizedStays DEF Accepted, FormConditions
<1>2. \A c \in Accepted : f[c] = NormalizeCondition(c)
  OBVIOUS
<1>3. \A x : NormalizeConditions(x) = Mapped(x, f)
  BY DEF NormalizeConditions
<1>4. \A c \in Accepted : f[c] \in Accepted /\ f[f[c]] = f[c]
  BY <1>1, <1>2, NormalizedStays
<1> HIDE DEF f
<1>5. q \in AllRules /\ ConditionsOf(q) = {f[c] : c \in ConditionsOf(r)}
  BY <1>1, <1>3, MappedRule, MappedConditions
<1>6. ConditionsOf(r) \subseteq Accepted
  BY DEF Within
<1> HIDE DEF q
<1>7. q \in Within(Accepted)
  BY <1>4, <1>5, <1>6 DEF Within
<1>8. \A c \in ConditionsOf(q) : f[c] = c
  BY <1>4, <1>5, <1>6
<1>9. Mapped(q, f) = q
  BY <1>1, <1>7, <1>8, MappedSame
<1>10. ~Refused(q)
  BY <1>7 DEF Refused, Within, Accepted
<1>11. {f[c] : c \in ConditionsOf(r)} = {NormalizeCondition(given) : given \in ConditionsOf(r)}
  BY <1>2, <1>6
<1>12. QED BY <1>3, <1>5, <1>7, <1>9, <1>10, <1>11 DEF q

LEMMA NotRefused ==
    ASSUME NEW r \in Within(FormConditions), ~Refused(r) PROVE r \in Within(Accepted)
BY DEF Refused, Within, Accepted

LEMMA AcceptedForms == Within(Accepted) \subseteq Within(FormConditions) /\ EditRules \subseteq Within(FormConditions)
BY FormsOK DEF Within, Accepted

-----------------------------------------------------------------------------
(* What is known of the rule edited last.                                  *)
EditInv ==
    /\ edit = [step |-> edit.step, was |-> edit.was, rule |-> edit.rule, list |-> edit.list]
    /\ edit.step = "normalized" => edit.was \in Within(Accepted) /\ edit.rule = NormalizeConditions(edit.was)
    /\ edit.step = "renamed" =>
         /\ edit.was \in Within(FormConditions)
         /\ \E p \in Renames :
              edit.list = p[1] /\ edit.rule = ChangeFixedArgToNewValue(p[1], p[2], edit.was, "IN_LIST")

LEMMA EditInitInv == EditInit => EditInv
BY DEF EditInit, EditInv

LEMMA EditStepInv == EditInv /\ [EditNext]_edit => EditInv'
<1> SUFFICES ASSUME EditInv, [EditNext]_edit PROVE EditInv'
  OBVIOUS
<1>1. ASSUME NEW r \in EditRules, Submit(r) PROVE EditInv'
  <2>1. CASE Refused(r)
    BY <1>1, <2>1 DEF Submit, EditInv
  <2>2. CASE ~Refused(r)
    <3>1. r \in Within(Accepted)
      BY <2>2, AcceptedForms, NotRefused
    <3>2. edit' = [step |-> "normalized", was |-> r, rule |-> NormalizeConditions(r), list |-> Empty]
      BY <1>1, <2>2 DEF Submit
    <3>3. QED BY <3>1, <3>2 DEF EditInv
  <2>3. QED BY <2>1, <2>2
<1>2. ASSUME NEW p \in Renames, RenameList(p[1], p[2]) PROVE EditInv'
  <2>1. edit.step = "normalized" /\ edit' = [step |-> "renamed", was |-> edit.rule, list |-> p[1],
                                             rule |-> ChangeFixedArgToNewValue(p[1], p[2], edit.rule, "IN_LIST")]
    BY <1>2 DEF RenameList
  <2>2. edit.rule \in Within(FormConditions)
    BY <2>1, NormalizedRule, AcceptedForms DEF EditInv
  <2>3. QED BY <2>1, <2>2 DEF EditInv
<1>3. ASSUME UNCHANGED edit PROVE EditInv'
  BY <1>3 DEF EditInv
<1>4. QED BY <1>1, <1>2, <1>3 DEF EditNext

LEMMA NormalisedOK == EditInv => NormalisedSelects
<1> SUFFICES ASSUME EditInv, edit.step = "normalized"
             PROVE  /\ ~Refused(edit.rule) /\ NormalizeConditions(edit.rule) = edit.rule
                    /\ ConditionsOf(edit.rule) = {NormalizeCondition(given) : given \in ConditionsOf(edit.was)}
                    /\ \A given \in ConditionsOf(edit.was) :
                         LET c == NormalizeCondition(given)
                         IN  c.op \in {"IS", "IN"} /\ c.type \in Text =>
                               \A v \in {Canonical(c.name, w) : w \in Spellings} \ {NotMac} :
                                   Satisfies(c, v) <=> \E w \in Spellings : Canonical(c.name, w) = v /\ Satisfies(given, w)
  BY DEF NormalisedSelects
<1>1. edit.was \in Within(Accepted) /\ edit.rule = NormalizeConditions(edit.was)
  BY DEF EditInv
<1>2. /\ ~Refused(edit.rule) /\ NormalizeConditions(edit.rule) = edit.rule
      /\ ConditionsOf(edit.rule) = {NormalizeCondition(given) : given \in ConditionsOf(edit.was)}
  BY <1>1, NormalizedRule
<1>3. ASSUME NEW given \in ConditionsOf(edit.was), NEW v,
             NormalizeCondition(given).op \in {"IS", "IN"}, NormalizeCondition(given).type \in Text
      PROVE  LET c == NormalizeCondition(given)
             IN  Satisfies(c, v) <=> \E w \in Spellings : Canonical(c.name, w) = v /\ Satisfies(given, w)
  <2>1. given \in FormConditions
    BY <1>1 DEF Within, Accepted
  <2>2. NormalizeCondition(given).op = given.op /\ NormalizeCondition(given).type = given.type
    BY <2>1, NormalizedCondition
  <2>3. QED BY <1>3, <2>1, <2>2, NormalizedAccepts
<1>4. QED BY <1>2, <1>3

LEMMA RenameOK == EditInv => RenameSelects
<1> SUFFICES ASSUME EditInv, edit.step = "renamed"
             PROVE  Selects(edit.was, edit.rule) /\ edit.list \notin GetInListNames(edit.rule)
  BY DEF RenameSelects
<1>1. PICK p \in Renames : edit.list = p[1] /\ edit.rule = ChangeFixedArgToNewValue(p[1], p[2], edit.was, "IN_LIST")
  BY DEF EditInv
<1>2. edit.was \in Within(FormConditions)
  BY DEF EditInv
<1>3. QED BY <1>1, <1>2, RenamedFacts

-----------------------------------------------------------------------------
(* Equality of rules.                                                      *)
LEMMA HidesUnfolds ==
    ASSUME NEW r \in AllRules
    PROVE  /\ HidesNegation(r) \in BOOLEAN
           /\ HidesNegation(r) <=> \/ r.compound /\ Len(r.parts) = 1 /\ r.parts[1].negated
                                   \/ \E i \in DOMAIN r.parts : HidesNegation(r.parts[i])
<1> DEFINE Own(x) == x.compound /\ Len(x.parts) = 1 /\ x.parts[1].negated
           Of(x, s) == Own(x) \/ \E i \in DOMAIN x.parts : s[i]
           step == [x \in AllRules |-> [s \in Seq(BOOLEAN) |-> Of(x, s)]]
           Body(f, x) == Own(x) \/ \E i \in DOMAIN x.parts : f[x.parts[i]]
           Is(f) == f = [x \in AllRules |-> Body(f, x)]
<1>1. \A x, s : Of(x, s) \in BOOLEAN
  OBVIOUS
<1>2. RuleSteps(BOOLEAN, step)
  <2> HIDE DEF Of
  <2>1. QED BY <1>1 DEF RuleSteps
<1>3. PICK g : IsRecursion(g, BOOLEAN, step)
  <2> HIDE DEF step
  <2>1. QED BY <1>2, RuleRecursion
<1>4. ASSUME NEW x \in AllRules PROVE g[x] = Body(g, x)
  <2> DEFINE s == OfParts(g, x)
  <2>1. s \in Seq(BOOLEAN)
    BY <1>3, OfPartsType DEF IsRecursion
  <2>2. g[x] = Of(x, s)
    <3> HIDE DEF Of
    <3>1. QED BY <1>3, <2>1 DEF IsRecursion
  <2>3. \A i \in DOMAIN x.parts : s[i] = g[x.parts[i]]
    BY DEF OfParts
  <2>4. Of(x, s) <=> Body(g, x)
    <3> HIDE DEF s, Own
    <3>1. QED BY <2>3
  <2>5. Of(x, s) \in BOOLEAN /\ Body(g, x) \in BOOLEAN
    OBVIOUS
  <2>6. Of(x, s) = Body(g, x)
    <3> HIDE DEF Of, Body, s
    <3>1. QED BY <2>4, <2>5, BooleansEqual
  <2>7. QED BY <2>2, <2>6
<1>5. Is(g)
  <2> HIDE DEF Body
  <2>1. QED BY <1>3, <1>4 DEF IsRecursion
<1>6. PICK f : Is(f) /\ \A x : HidesNegation(x) = f[x]
  BY <1>5, ZenonT(60) DEF HidesNegation
<1>7. f[r] = Body(f, r)
  BY <1>6
<1>8. QED BY <1>6, <1>7

(* The levels of the recursion.                                            *)
EqualAfter(E) == {p \in AllRules \X AllRules : Alike(p[1], p[2], E)}

LEMMA EqualLevels ==
    /\ EqualTo[0] = EqualAfter({})
    /\ \A d \in 1..MaxDepth : EqualTo[d] = EqualAfter(EqualTo[d - 1])
<1> DEFINE X == SUBSET (AllRules \X AllRules)
           x0 == EqualAfter({})
           step == [i \in 1..MaxDepth |-> [e \in X |-> EqualAfter(e)]]
           Body(f, d) == {p \in AllRules \X AllRules : Alike(p[1], p[2], IF d = 0 THEN {} ELSE f[d - 1])}
           Is(f) == f = [d \in 0..MaxDepth |-> Body(f, d)]
<1>0. MaxDepth \in Nat
  BY DepthOK
<1>1. \A e : EqualAfter(e) \in X
  BY DEF EqualAfter
<1>2. Steps(MaxDepth, X, step)
  <2> HIDE DEF X
  <2>1. QED BY <1>1 DEF Steps
<1>3. PICK g : IsLoop(g, MaxDepth, X, x0, step)
  <2> HIDE DEF step, X
  <2>1. x0 \in X
    BY <1>1
  <2> HIDE DEF x0
  <2>2. QED BY <1>0, <1>2, <2>1, LoopExists
<1>4. g \in [0..MaxDepth -> X] /\ g[0] = EqualAfter({}) /\ \A d \in 1..MaxDepth : g[d] = EqualAfter(g[d - 1])
  <2>1. g \in [0..MaxDepth -> X] /\ g[0] = x0 /\ \A d \in 1..MaxDepth : g[d] = step[d][g[d - 1]]
    BY <1>3 DEF IsLoop
  <2>2. \A d \in 1..MaxDepth : d - 1 \in 0..MaxDepth
    BY <1>0
  <2> HIDE DEF X
  <2>3. QED BY <2>1, <2>2
<1>5. Is(g)
  <2>1. ASSUME NEW d \in 0..MaxDepth PROVE g[d] = Body(g, d)
    <3>1. CASE d = 0
      BY <1>4, <3>1 DEF EqualAfter
    <3>2. CASE d # 0
      <4>1. d \in 1..MaxDepth
        BY <1>0, <3>2
      <4>2. g[d] = EqualAfter(g[d - 1])
        BY <1>4, <4>1
      <4>3. QED BY <3>2, <4>2 DEF EqualAfter
    <3>3. QED BY <3>1, <3>2
  <2> HIDE DEF Body, X
  <2>2. QED BY <1>4, <2>1
<1>6. Is(EqualTo)
  <2> HIDE DEF X
  <2>1. \E f : Is(f)
    BY <1>5
  <2>2. QED BY <2>1 DEF EqualTo
<1>7. \A d \in 0..MaxDepth : EqualTo[d] = Body(EqualTo, d)
  <2> HIDE DEF Body
  <2>1. QED BY <1>6
<1>8. 0 \in 0..MaxDepth /\ \A d \in 1..MaxDepth : d \in 0..MaxDepth /\ d # 0
  BY <1>0
<1>9. ASSUME NEW d \in 1..MaxDepth PROVE EqualTo[d] = EqualAfter(EqualTo[d - 1])
  <2>1. EqualTo[d] = Body(EqualTo, d) /\ d # 0
    BY <1>7, <1>8
  <2>2. QED BY <2>1 DEF EqualAfter
<1>10. EqualTo[0] = EqualAfter({})
  <2>1. EqualTo[0] = Body(EqualTo, 0)
    BY <1>7, <1>8
  <2>2. QED BY <2>1 DEF EqualAfter
<1>11. QED BY <1>9, <1>10

LEMMA ConditionEqualsIsEquality ==
    ASSUME NEW c \in AllConditions, NEW d \in AllConditions PROVE ConditionEquals(c, d) <=> c = d
<1>1. c.fixed \in FixedArgs /\ d.fixed \in FixedArgs
  BY DEF AllConditions
<1>2. FixedArgEquals(c.fixed, d.fixed) <=> c.fixed = d.fixed
  BY <1>1 DEF FixedArgEquals, FixedArgs
<1>3. QED BY <1>2 DEF ConditionEquals, AllConditions

(* The loop of a single part, and of parts that hold alike.                *)
LEMMA OneHolds ==
    ASSUME NEW parts, Len(parts) = 1, NEW holds \in [1..Len(parts) -> BOOLEAN]
    PROVE  EvaluateParts(parts, holds) = holds[1]
<1>0. Len(parts) \in Nat /\ 1 \in 1..Len(parts)
  OBVIOUS
<1>1. PICK g \in [0..Len(parts) -> LoopState] :
         /\ g[0] = [result |-> FALSE, ended |-> FALSE]
         /\ \A i \in 1..Len(parts) : g[i] = AfterPart(parts, holds, i, g[i - 1])
         /\ EvaluateParts(parts, holds) = g[Len(parts)].result
  BY <1>0, PartsLoop
<1>2. g[1] = AfterPart(parts, holds, 1, g[0]) /\ EvaluateParts(parts, holds) = g[1].result
  <2>1. g[1] = AfterPart(parts, holds, 1, g[1 - 1]) /\ 1 - 1 = 0
    BY <1>0, <1>1
  <2>2. g[1] = AfterPart(parts, holds, 1, g[0])
    BY <2>1
  <2>3. QED BY <1>1, <2>2
<1>3. AfterPart(parts, holds, 1, g[0]) = [g[0] EXCEPT !.result = holds[1]]
  BY <1>1 DEF AfterPart
<1>4. QED BY <1>1, <1>2, <1>3

LEMMA SameLoop ==
    ASSUME NEW s, NEW t, Len(s) \in Nat, Len(s) = Len(t), \A i \in 2..Len(s) : s[i].relation = t[i].relation,
           NEW h \in [1..Len(s) -> BOOLEAN]
    PROVE  EvaluateParts(s, h) = EvaluateParts(t, h)
<1> DEFINE n == Len(s)
<1>1. PICK g \in [0..n -> LoopState] :
         /\ g[0] = [result |-> FALSE, ended |-> FALSE]
         /\ \A i \in 1..n : g[i] = AfterPart(s, h, i, g[i - 1])
         /\ EvaluateParts(s, h) = g[n].result
  BY PartsLoop
<1>2. PICK f \in [0..n -> LoopState] :
         /\ f[0] = [result |-> FALSE, ended |-> FALSE]
         /\ \A i \in 1..n : f[i] = AfterPart(t, h, i, f[i - 1])
         /\ EvaluateParts(t, h) = f[n].result
  BY PartsLoop
<1>3. ASSUME NEW i \in 1..n, NEW x PROVE AfterPart(s, h, i, x) = AfterPart(t, h, i, x)
  <2>1. i > 1 => s[i].relation = t[i].relation
    OBVIOUS
  <2>2. QED BY <2>1 DEF AfterPart
<1>4. SameSteps(n, f, g)
  BY <1>1, <1>2, <1>3 DEF SameSteps
<1>5. \A i \in 0..n : f[i] = g[i]
  BY <1>4, LoopUnique
<1>6. n \in 0..n
  OBVIOUS
<1>7. QED BY <1>1, <1>2, <1>5, <1>6

(* The parts of a plain rule are plain.                                    *)
LEMMA PlainParts ==
    ASSUME NEW r \in AllRules, Plain(r), NEW i \in DOMAIN r.parts
    PROVE  r.parts[i] \in AllRules /\ Plain(r.parts[i])
<1>1. r.parts[i] \in AllRules /\ ConditionsOf(r.parts[i]) \subseteq ConditionsOf(r)
  BY PartConditions
<1>2. ~HidesNegation(r.parts[i])
  BY HidesUnfolds DEF Plain
<1>3. QED BY <1>1, <1>2 DEF Plain

(* What a plain rule evaluates to, apart from its negation.                *)
Core(a, ctx) == IF a.compound THEN EvaluateParts(a.parts, Holds(a, ctx)) ELSE EvaluateCondition(a.cond, ctx)

LEMMA CoreEvaluates ==
    ASSUME NEW r \in AllRules, Plain(r), NEW ctx
    PROVE  Core(r, ctx) \in BOOLEAN /\ Evaluate(r, ctx) = (Core(r, ctx) # r.negated)
<1>1. CASE r.compound
  <2>1. Evaluate(r, ctx) = (EvaluateParts(r.parts, Holds(r, ctx)) # r.negated)
    BY <1>1, EvaluateUnfolds DEF Holds
  <2>2. EvaluateParts(r.parts, Holds(r, ctx)) \in BOOLEAN
    BY HoldsType, PartsBoolean
  <2>3. QED BY <1>1, <2>1, <2>2 DEF Core
<1>2. CASE ~r.compound
  <2>1. ConditionsOf(r) = {r.cond}
    BY <1>2, ConditionsUnfold
  <2>2. HasEvaluator(r.cond) /\ HasEvaluator(r.cond) \in BOOLEAN
    BY <2>1 DEF Plain, HasEvaluator
  <2>3. Evaluate(r, ctx) = (HasEvaluator(r.cond) /\ EvaluateCondition(r.cond, ctx) # r.negated)
    BY <1>2, EvaluateUnfolds DEF evaluateWithNegation
  <2>4. EvaluateCondition(r.cond, ctx) \in BOOLEAN
    BY DEF EvaluateCondition
  <2>5. QED BY <1>2, <2>2, <2>3, <2>4 DEF Core
<1>3. QED BY <1>1, <1>2

LEMMA UnwrappedEvaluates ==
    ASSUME NEW r \in AllRules, Plain(r), NEW ctx
    PROVE  /\ Unwrapped(r) \in AllRules /\ Plain(Unwrapped(r))
           /\ Evaluate(r, ctx) = (Core(Unwrapped(r), ctx) # r.negated)
<1>1. CASE r.compound /\ Len(r.parts) = 1
  <2> DEFINE p == r.parts[1]
  <2>1. Unwrapped(r) = p
    BY <1>1 DEF Unwrapped
  <2>2. 1 \in DOMAIN r.parts
    <3>1. DOMAIN r.parts = 1..Len(r.parts)
      BY <1>1, RuleParts
    <3>2. QED BY <1>1, <3>1
  <2>3. p \in AllRules /\ Plain(p)
    BY <2>2, PlainParts
  <2>4. ~p.negated /\ p.negated \in BOOLEAN
    BY <1>1, <2>3, HidesUnfolds, RuleParts DEF Plain
  <2>5. Holds(r, ctx) \in [1..Len(r.parts) -> BOOLEAN] /\ Holds(r, ctx)[1] = Evaluate(p, ctx)
    BY <2>2, HoldsType DEF Holds
  <2>6. EvaluateParts(r.parts, Holds(r, ctx)) = Evaluate(p, ctx)
    BY <1>1, <2>5, OneHolds
  <2> HIDE DEF p
  <2>7. Core(p, ctx) \in BOOLEAN /\ Evaluate(p, ctx) = (Core(p, ctx) # p.negated)
    BY <2>3, CoreEvaluates
  <2>8. Evaluate(p, ctx) = Core(p, ctx)
    BY <2>4, <2>7
  <2>9. Evaluate(r, ctx) = (EvaluateParts(r.parts, Holds(r, ctx)) # r.negated)
    BY <1>1, EvaluateUnfolds DEF Holds
  <2>10. QED BY <2>1, <2>3, <2>6, <2>8, <2>9
<1>2. CASE ~(r.compound /\ Len(r.parts) = 1)
  <2>1. Unwrapped(r) = r
    BY <1>2 DEF Unwrapped
  <2>2. QED BY <2>1, CoreEvaluates
<1>3. QED BY <1>1, <1>2

(* Pairs of rules of which, if both are plain, each selects what the other *)
(* does.                                                                   *)
Agreeing ==
    {p \in AllRules \X AllRules :
        /\ p[1].relation = p[2].relation
        /\ Plain(p[1]) /\ Plain(p[2]) => \A ctx \in EditContexts : Evaluate(p[1], ctx) = Evaluate(p[2], ctx)}

LEMMA AlikeAgree ==
    ASSUME NEW E, E \subseteq Agreeing PROVE EqualAfter(E) \subseteq Agreeing
<1> SUFFICES ASSUME NEW p \in EqualAfter(E) PROVE p \in Agreeing
  OBVIOUS
<1> DEFINE r == p[1]
           x == p[2]
           a == Unwrapped(r)
           b == Unwrapped(x)
<1>1. p \in AllRules \X AllRules /\ r \in AllRules /\ x \in AllRules /\ Alike(r, x, E)
  BY DEF EqualAfter
<1>2. /\ r.negated = x.negated /\ r.relation = x.relation
      /\ a.compound = b.compound
      /\ a.compound \/ ConditionEquals(a.cond, b.cond)
      /\ Len(a.parts) = Len(b.parts)
      /\ \A i \in DOMAIN a.parts : <<a.parts[i], b.parts[i]>> \in E
  BY <1>1 DEF Alike
<1> HIDE DEF r, x, a, b
<1>3. ASSUME Plain(r), Plain(x), NEW ctx \in EditContexts PROVE Evaluate(r, ctx) = Evaluate(x, ctx)
  <2>1. /\ a \in AllRules /\ Plain(a) /\ Evaluate(r, ctx) = (Core(a, ctx) # r.negated)
        /\ b \in AllRules /\ Plain(b) /\ Evaluate(x, ctx) = (Core(b, ctx) # x.negated)
    BY <1>1, <1>3, UnwrappedEvaluates DEF a, b
  <2>2. CASE ~a.compound
    <3>1. a.cond \in AllConditions /\ b.cond \in AllConditions
      BY <2>1, RuleParts
    <3>2. a.cond = b.cond
      BY <1>2, <2>2, <3>1, ConditionEqualsIsEquality
    <3>3. Core(a, ctx) = Core(b, ctx)
      BY <1>2, <2>2, <3>2 DEF Core
    <3>4. QED BY <1>2, <2>1, <3>3
  <2>3. CASE a.compound
    <3>1. Len(a.parts) \in Nat /\ DOMAIN a.parts = 1..Len(a.parts) /\ DOMAIN b.parts = 1..Len(a.parts)
      BY <1>2, <2>1, RuleParts
    <3>2. ASSUME NEW i \in 1..Len(a.parts)
          PROVE  a.parts[i].relation = b.parts[i].relation /\ Evaluate(a.parts[i], ctx) = Evaluate(b.parts[i], ctx)
      <4> DEFINE q == <<a.parts[i], b.parts[i]>>
      <4>1. q \in Agreeing /\ q[1] = a.parts[i] /\ q[2] = b.parts[i]
        BY <1>2, <3>1
      <4>2. Plain(a.parts[i]) /\ Plain(b.parts[i])
        BY <2>1, <3>1, PlainParts
      <4> HIDE DEF q
      <4>3. QED BY <4>1, <4>2 DEF Agreeing
    <3>3. Holds(a, ctx) = Holds(b, ctx)
      BY <3>1, <3>2 DEF Holds
    <3>4. Holds(a, ctx) \in [1..Len(a.parts) -> BOOLEAN]
      BY <2>1, HoldsType
    <3>5. \A i \in 2..Len(a.parts) : a.parts[i].relation = b.parts[i].relation
      BY <3>1, <3>2
    <3>6. EvaluateParts(a.parts, Holds(a, ctx)) = EvaluateParts(b.parts, Holds(a, ctx))
      <4> DEFINE s == a.parts
                 t == b.parts
                 h == Holds(a, ctx)
      <4>1. /\ Len(s) \in Nat /\ Len(s) = Len(t) /\ \A i \in 2..Len(s) : s[i].relation = t[i].relation
            /\ h \in [1..Len(s) -> BOOLEAN]
        BY <1>2, <3>1, <3>4, <3>5
      <4> HIDE DEF s, t, h
      <4>2. EvaluateParts(s, h) = EvaluateParts(t, h)
        BY <4>1, SameLoop
      <4>3. QED BY <4>2 DEF s, t, h
    <3>7. Core(a, ctx) = Core(b, ctx)
      BY <1>2, <2>3, <3>3, <3>6 DEF Core
    <3>8. QED BY <1>2, <2>1, <3>7
  <2>4. QED BY <2>2, <2>3
<1>4. QED BY <1>1, <1>2, <1>3 DEF Agreeing, r, x

LEMMA EqualsSound == EqualTo[MaxDepth] \subseteq Agreeing
<1> DEFINE G == {d \in 0..MaxDepth : EqualTo[d] \subseteq Agreeing}
<1>0. MaxDepth \in Nat /\ 0 \in 0..MaxDepth /\ MaxDepth \in 0..MaxDepth
  BY DepthOK
<1>1. 0 \in G
  <2>1. {} \subseteq Agreeing
    OBVIOUS
  <2>2. EqualAfter({}) \subseteq Agreeing
    BY <2>1, AlikeAgree
  <2>3. QED BY <1>0, <2>2, EqualLevels
<1>2. ASSUME NEW d \in 0..MaxDepth, d < MaxDepth, d \in G PROVE d + 1 \in G
  <2>1. d + 1 \in 1..MaxDepth /\ d + 1 \in 0..MaxDepth /\ (d + 1) - 1 = d
    BY <1>0, <1>2
  <2>2. EqualTo[d + 1] = EqualAfter(EqualTo[d])
    BY <2>1, EqualLevels
  <2>3. EqualAfter(EqualTo[d]) \subseteq Agreeing
    BY <1>2, AlikeAgree
  <2>4. QED BY <2>1, <2>2, <2>3
<1>3. 0..MaxDepth \subseteq G
  <2> HIDE DEF G
  <2>1. QED BY <1>0, <1>1, <1>2, Induction
<1>4. QED BY <1>0, <1>3

LEMMA EqualsOK == EditInv => EqualsAgree
<1> SUFFICES ASSUME EditInv, edit.step = "normalized", Plain(edit.rule),
                    NEW x \in NormalRules, Plain(x), Equals(edit.rule, x)
             PROVE  Selects(edit.rule, x)
  BY DEF EqualsAgree
<1> DEFINE p == <<edit.rule, x>>
<1>1. p \in Agreeing /\ p[1] = edit.rule /\ p[2] = x
  BY EqualsSound DEF Equals
<1> HIDE DEF p
<1>2. \A ctx \in EditContexts : Evaluate(edit.rule, ctx) = Evaluate(x, ctx)
  BY <1>1 DEF Agreeing
<1>3. QED BY <1>2 DEF Selects

-----------------------------------------------------------------------------
(* Flattening a rule without nesting.                                      *)
LEMMA ConcatIs ==
    ASSUME NEW S, NEW seqs \in Seq(Seq(S)), NEW h, h[0] = <<>>, \A i \in 1..Len(seqs) : h[i] = h[i - 1] \o seqs[i]
    PROVE  Concat(seqs) = h[Len(seqs)]
<1> DEFINE n == Len(seqs)
<1>0. n \in Nat
  BY SeqFacts
<1>1. PICK f \in [0..n -> Seq(S)] :
         f[0] = <<>> /\ (\A i \in 1..n : f[i] = f[i - 1] \o seqs[i]) /\ Concat(seqs) = f[n]
  BY ConcatLoop
<1>2. SameSteps(n, f, h)
  <2>1. ASSUME NEW i \in 1..n, f[i - 1] = h[i - 1] PROVE f[i] = h[i]
    BY <1>1, <2>1
  <2>2. QED BY <1>1, <2>1 DEF SameSteps
<1>3. \A i \in 0..n : f[i] = h[i]
  BY <1>0, <1>2, LoopUnique
<1>4. QED BY <1>0, <1>1, <1>3

(* Sequences of which only the k-th is not empty.                          *)
LEMMA ConcatOnly ==
    ASSUME NEW S, NEW seqs \in Seq(Seq(S)), NEW k \in 1..Len(seqs), \A i \in 1..Len(seqs) : i # k => seqs[i] = <<>>
    PROVE  Concat(seqs) = seqs[k]
<1> DEFINE n == Len(seqs)
           t == seqs[k]
           h == [i \in 0..n |-> IF i < k THEN <<>> ELSE t]
<1>0. n \in Nat /\ k \in 1..n /\ t \in Seq(S)
  BY SeqFacts
<1>1. h[0] = <<>>
  BY <1>0
<1>2. ASSUME NEW i \in 1..n PROVE h[i] = h[i - 1] \o seqs[i]
  <2>0. i \in 0..n /\ i - 1 \in 0..n
    BY <1>0
  <2>1. <<>> \o t = t /\ t \o <<>> = t /\ <<>> \o <<>> = <<>>
    <3> HIDE DEF t
    <3>1. QED BY <1>0
  <2>2. CASE i < k
    <3>1. i - 1 < k
      BY <1>0, <2>2
    <3>2. h[i - 1] = <<>> /\ h[i] = <<>>
      BY <2>0, <2>2, <3>1
    <3>3. seqs[i] = <<>>
      BY <1>0, <2>2
    <3>4. QED BY <2>1, <3>2, <3>3
  <2>3. CASE i = k
    <3>1. i - 1 < k /\ ~(i < k)
      BY <1>0, <2>3
    <3>2. h[i - 1] = <<>> /\ h[i] = t
      BY <2>0, <3>1
    <3>3. QED BY <2>1, <2>3, <3>2
  <2>4. CASE i > k
    <3>1. ~(i - 1 < k) /\ ~(i < k)
      BY <1>0, <2>4
    <3>2. h[i - 1] = t /\ h[i] = t
      BY <2>0, <3>1
    <3>3. seqs[i] = <<>>
      BY <1>0, <2>4
    <3>4. QED BY <2>1, <3>2, <3>3
  <2>5. i < k \/ i = k \/ i > k
    BY <1>0
  <2>6. QED BY <2>2, <2>3, <2>4, <2>5
<1>3. h[n] = t
  BY <1>0
<1> HIDE DEF h
<1>4. QED BY <1>1, <1>2, <1>3, ConcatIs

LEMMA ConcatNothing ==
    ASSUME NEW S, NEW seqs \in Seq(Seq(S)), \A i \in 1..Len(seqs) : seqs[i] = <<>>
    PROVE  Concat(seqs) = <<>>
<1> DEFINE h == [i \in 0..Len(seqs) |-> <<>>]
<1>0. Len(seqs) \in Nat
  BY SeqFacts
<1>1. <<>> \o <<>> = <<>>
  OBVIOUS
<1>2. ASSUME NEW i \in 1..Len(seqs) PROVE h[i] = h[i - 1] \o seqs[i]
  <2>1. i \in 0..Len(seqs) /\ i - 1 \in 0..Len(seqs)
    BY <1>0
  <2>2. QED BY <1>1, <2>1
<1>3. h[0] = <<>> /\ h[Len(seqs)] = <<>>
  BY <1>0
<1> HIDE DEF h
<1>4. QED BY <1>2, <1>3, ConcatIs

LEMMA ConcatSingles ==
    ASSUME NEW S, NEW p \in Seq(S), NEW seqs \in Seq(Seq(S)), Len(seqs) = Len(p), \A i \in 1..Len(p) : seqs[i] = <<p[i]>>
    PROVE  Concat(seqs) = p
<1> DEFINE h == [i \in 0..Len(p) |-> SubSeq(p, 1, i)]
<1>0. Len(p) \in Nat
  BY SeqFacts
<1>1. ASSUME NEW i \in 1..Len(seqs) PROVE h[i] = h[i - 1] \o seqs[i]
  <2>1. i \in 0..Len(p) /\ i - 1 \in 0..Len(p) /\ i \in 1..Len(p)
    BY <1>0
  <2>2. h[i] = SubSeq(p, 1, i) /\ h[i - 1] = SubSeq(p, 1, i - 1) /\ seqs[i] = <<p[i]>>
    BY <2>1
  <2> HIDE DEF h
  <2>3. SubSeq(p, 1, i) = SubSeq(p, 1, i - 1) \o <<p[i]>>
    <3>1. 1 \in 1..Len(p) /\ i \in 1..Len(p)
      BY <1>0, <2>1
    <3>2. QED BY <3>1, SubSeqRecursiveSecond
  <2>4. QED BY <2>2, <2>3
<1>2. h[0] = <<>> /\ h[Len(seqs)] = p
  BY <1>0
<1> HIDE DEF h
<1>3. QED BY <1>1, <1>2, ConcatIs

(* A rule of which no part is compound.                                    *)
Shallow(r) == r \in AllRules /\ r.compound /\ \A i \in DOMAIN r.parts : ~r.parts[i].compound

RuleLists(f, n) == n \in Nat /\ f \in [1..n -> Seq(AllRules)]

LEMMA ListsOfRules ==
    ASSUME NEW n, NEW f, RuleLists(f, n)
    PROVE  f \in Seq(Seq(AllRules)) /\ Len(f) = n
BY DEF RuleLists

LEMMA BelowFlat ==
    ASSUME NEW r, Shallow(r)
    PROVE  /\ Below(<<r>>) = r.parts /\ Below(r.parts) = <<>> /\ Below(<<>>) = <<>>
           /\ LeavesOf(<<r>>) = <<>> /\ LeavesOf(r.parts) = r.parts /\ LeavesOf(<<>>) = <<>>
<1> DEFINE p == r.parts
           n == Len(p)
<1>0. /\ p \in Seq(AllRules) /\ n \in Nat /\ DOMAIN p = 1..n /\ r.compound
      /\ \A i \in 1..n : p[i] \in AllRules /\ ~p[i].compound /\ p[i].parts = <<>>
  BY RuleParts DEF Shallow
<1>00. DOMAIN <<r>> = 1..1 /\ <<r>>[1] = r /\ DOMAIN <<>> = 1..0 /\ <<>> \in Seq(AllRules) /\ 0 \in Nat /\ 1 \in Nat
  OBVIOUS
<1> HIDE DEF p, n
<1>1. Below(<<r>>) = p
  <2> DEFINE s == [i \in DOMAIN <<r>> |-> <<r>>[i].parts]
  <2>1. RuleLists(s, 1) /\ s[1] = p
    BY <1>0, <1>00 DEF p, RuleLists
  <2> HIDE DEF s
  <2>2. s \in Seq(Seq(AllRules)) /\ Len(s) = 1
    BY <2>1, ListsOfRules
  <2>3. Concat(s) = s[1]
    <3>1. 1 \in 1..Len(s) /\ \A i \in 1..Len(s) : i # 1 => s[i] = <<>>
      BY <2>2
    <3>2. QED BY <2>2, <3>1, ConcatOnly
  <2>4. QED BY <2>1, <2>3 DEF Below, s
<1>2. LeavesOf(<<r>>) = <<>>
  <2> DEFINE s == [i \in DOMAIN <<r>> |-> IF <<r>>[i].compound THEN <<>> ELSE << <<r>>[i] >>]
  <2>1. RuleLists(s, 1) /\ s[1] = <<>>
    BY <1>0, <1>00 DEF RuleLists
  <2> HIDE DEF s
  <2>2. s \in Seq(Seq(AllRules)) /\ Len(s) = 1
    BY <2>1, ListsOfRules
  <2>3. Concat(s) = <<>>
    <3>1. \A i \in 1..Len(s) : s[i] = <<>>
      BY <2>1, <2>2
    <3>2. QED BY <2>2, <3>1, ConcatNothing
  <2>4. QED BY <2>3 DEF LeavesOf, s
<1>3. Below(p) = <<>>
  <2> DEFINE s == [i \in DOMAIN p |-> p[i].parts]
  <2>1. RuleLists(s, n) /\ \A i \in 1..n : s[i] = <<>>
    BY <1>0, <1>00 DEF RuleLists
  <2> HIDE DEF s
  <2>2. s \in Seq(Seq(AllRules)) /\ Len(s) = n
    BY <2>1, ListsOfRules
  <2>3. QED BY <2>1, <2>2, ConcatNothing DEF Below, s
<1>4. LeavesOf(p) = p
  <2> DEFINE s == [i \in DOMAIN p |-> IF p[i].compound THEN <<>> ELSE <<p[i]>>]
  <2>1. RuleLists(s, n) /\ \A i \in 1..n : s[i] = <<p[i]>>
    BY <1>0, <1>00 DEF RuleLists
  <2> HIDE DEF s
  <2>2. s \in Seq(Seq(AllRules)) /\ Len(s) = Len(p)
    BY <2>1, ListsOfRules DEF n
  <2>3. QED BY <1>0, <2>1, <2>2, ConcatSingles DEF LeavesOf, s, n
<1>5. Below(<<>>) = <<>>
  <2> DEFINE s == [i \in DOMAIN <<>> |-> <<>>[i].parts]
  <2>1. RuleLists(s, 0)
    BY <1>00 DEF RuleLists
  <2> HIDE DEF s
  <2>2. s \in Seq(Seq(AllRules)) /\ Len(s) = 0
    BY <2>1, ListsOfRules
  <2>3. \A i \in 1..Len(s) : s[i] = <<>>
    BY <2>2
  <2>4. QED BY <2>2, <2>3, ConcatNothing DEF Below, s
<1>6. LeavesOf(<<>>) = <<>>
  <2> DEFINE s == [i \in DOMAIN <<>> |-> IF <<>>[i].compound THEN <<>> ELSE << <<>>[i] >>]
  <2>1. RuleLists(s, 0)
    BY <1>00 DEF RuleLists
  <2> HIDE DEF s
  <2>2. s \in Seq(Seq(AllRules)) /\ Len(s) = 0
    BY <2>1, ListsOfRules
  <2>3. \A i \in 1..Len(s) : s[i] = <<>>
    BY <2>2
  <2>4. QED BY <2>2, <2>3, ConcatNothing DEF LeavesOf, s
<1>7. QED BY <1>1, <1>2, <1>3, <1>4, <1>5, <1>6 DEF p

(* Such a rule is flattened to its parts.                                  *)
LEMMA FlattenShallow ==
    ASSUME NEW r, Shallow(r) PROVE FlattenRule(r) = r.parts
<1> DEFINE p == r.parts
           Level(d) == IF d = 0 THEN <<r>> ELSE IF d = 1 THEN p ELSE <<>>
           lv == [d \in 0..MaxDepth |-> Level(d)]
           Is(f) == f = [d \in 0..MaxDepth |-> IF d = 0 THEN <<r>> ELSE Below(f[d - 1])]
<1>0. MaxDepth \in Nat /\ MaxDepth >= 2 /\ p \in Seq(AllRules)
  BY ValuesOK, RuleParts DEF Shallow
<1>1. /\ Below(<<r>>) = p /\ Below(p) = <<>> /\ Below(<<>>) = <<>>
      /\ LeavesOf(<<r>>) = <<>> /\ LeavesOf(p) = p /\ LeavesOf(<<>>) = <<>>
  BY BelowFlat
<1> HIDE DEF p
<1>2. ASSUME NEW d \in 0..MaxDepth PROVE Level(d) = IF d = 0 THEN <<r>> ELSE Below(Level(d - 1))
  <2>1. d = 0 \/ d = 1 \/ d = 2 \/ d > 2
    BY <1>0
  <2>2. d \in Int
    BY <1>0
  <2>3. QED BY <1>1, <2>1, <2>2
<1>3. Is(lv)
  <2>1. ASSUME NEW d \in 0..MaxDepth PROVE Level(d) = IF d = 0 THEN <<r>> ELSE Below(lv[d - 1])
    <3>1. CASE d = 0
      BY <1>2, <3>1
    <3>2. CASE d # 0
      <4>1. d - 1 \in 0..MaxDepth
        BY <1>0, <3>2
      <4>2. lv[d - 1] = Level(d - 1)
        BY <4>1
      <4> HIDE DEF lv, Level
      <4>3. QED BY <1>2, <3>2, <4>2
    <3>3. QED BY <3>1, <3>2
  <2> HIDE DEF Level
  <2>2. QED BY <2>1
<1>4. PICK f : Is(f) /\ FlattenRule(r) = Concat([d \in 1..(MaxDepth + 1) |-> LeavesOf(f[d - 1])])
  <2> HIDE DEF lv
  <2>1. QED BY <1>3, ZenonT(60) DEF FlattenRule
<1>5. ASSUME NEW d \in 0..MaxDepth PROVE f[d] = Level(d)
  <2>1. SameSteps(MaxDepth, f, lv)
    <3>1. f[0] = <<r>> /\ lv[0] = <<r>>
      BY <1>0, <1>4
    <3>2. ASSUME NEW i \in 1..MaxDepth, f[i - 1] = lv[i - 1] PROVE f[i] = lv[i]
      <4>1. i \in 0..MaxDepth /\ i # 0
        BY <1>0
      <4> HIDE DEF lv
      <4>2. f[i] = Below(f[i - 1]) /\ lv[i] = Below(lv[i - 1])
        BY <1>3, <1>4, <4>1
      <4>3. QED BY <3>2, <4>2
    <3> HIDE DEF lv
    <3>3. QED BY <3>1, <3>2 DEF SameSteps
  <2>2. lv[d] = Level(d)
    OBVIOUS
  <2> HIDE DEF lv
  <2>3. QED BY <1>0, <2>1, <2>2, LoopUnique
<1> DEFINE s == [d \in 1..(MaxDepth + 1) |-> LeavesOf(f[d - 1])]
<1>6. ASSUME NEW d \in 1..(MaxDepth + 1) PROVE s[d] = IF d = 2 THEN p ELSE <<>>
  <2>1. d - 1 \in 0..MaxDepth
    BY <1>0
  <2>2. s[d] = LeavesOf(Level(d - 1))
    BY <1>5, <2>1
  <2>3. (d - 1 = 1) <=> (d = 2)
    BY <1>0
  <2> HIDE DEF s
  <2>4. QED BY <1>1, <2>2, <2>3
<1>7. RuleLists(s, MaxDepth + 1)
  <2>1. \A d \in 1..(MaxDepth + 1) : s[d] \in Seq(AllRules)
    <3>1. <<>> \in Seq(AllRules)
      OBVIOUS
    <3> HIDE DEF s
    <3>2. QED BY <1>0, <1>6, <3>1
  <2>2. QED BY <1>0, <2>1 DEF RuleLists
<1>8. FlattenRule(r) = Concat(s)
  BY <1>4
<1> HIDE DEF s, Is, Level, lv
<1>10. s \in Seq(Seq(AllRules)) /\ Len(s) = MaxDepth + 1
  BY <1>7, ListsOfRules
<1>11. 2 \in 1..Len(s) /\ s[2] = p /\ \A i \in 1..Len(s) : i # 2 => s[i] = <<>>
  BY <1>0, <1>6, <1>10
<1>12. Concat(s) = s[2]
  BY <1>10, <1>11, ConcatOnly
<1>13. QED BY <1>8, <1>11, <1>12 DEF p

(* A compound rule made of such parts.                                     *)
LeafParts(ps) ==
    /\ ps \in Seq(AllRules) /\ \A i \in DOMAIN ps : ~ps[i].compound
    /\ \A i \in 2..Len(ps) : ps[i].relation # ""

LEMMA ShallowParts ==
    ASSUME NEW r, Shallow(r) PROVE LeafParts(r.parts)
<1>1. r \in AllRules
  BY DEF Shallow
<1>2. r.parts \in Seq(AllRules) /\ \A i \in 2..Len(r.parts) : r.parts[i].relation \in {"AND", "OR"}
  BY <1>1, RuleParts
<1>3. QED BY <1>2 DEF Shallow, LeafParts

LEMMA MakeShallow ==
    ASSUME NEW ps, LeafParts(ps)
    PROVE  /\ Shallow(Compound(ps)) /\ Compound(ps).parts = ps /\ ~Compound(ps).negated
           /\ Compound(ps).compound
<1> DEFINE r == Compound(ps)
<1>0. 1 \in 1..MaxDepth /\ 1 \in 0..MaxDepth /\ 1 - 1 = 0
  BY DepthOK
<1>1. ps \in Seq(AllRules) /\ (\A i \in 2..Len(ps) : ps[i].relation # "") /\ \A i \in DOMAIN ps : ~ps[i].compound
  BY DEF LeafParts
<1>2. Len(ps) \in Nat /\ DOMAIN ps = 1..Len(ps) /\ \A i \in DOMAIN ps : ps[i] \in AllRules
  BY <1>1, SeqFacts
<1>3. \A i \in DOMAIN ps : ps[i] \in Rules[0]
  BY <1>1, <1>2, LeafLevel
<1>4. ps \in Joined(Rules[0])
  <2>1. ps = [i \in 1..Len(ps) |-> ps[i]]
    BY <1>1, <1>2, LenProperties
  <2>2. ps \in [1..Len(ps) -> Rules[0]]
    BY <1>2, <1>3, <2>1
  <2>3. ps \in Seq(Rules[0])
    BY <1>2, <2>2, SeqDef
  <2>4. QED BY <1>1, <2>3 DEF Joined
<1>5. r \in Rules[1]
  BY <1>0, <1>4, NoArgType, MakeRule DEF Compound
<1>6. r \in AllRules
  BY <1>0, <1>5, RulesAreRules
<1>7. r.parts = ps /\ ~r.negated /\ r.compound
  BY DEF Compound
<1> HIDE DEF r
<1>8. Shallow(r)
  BY <1>1, <1>6, <1>7 DEF Shallow
<1>9. QED BY <1>7, <1>8 DEF r

(* One element taken out of a sequence.                                    *)
LEMMA Removed ==
    ASSUME NEW R, NEW s \in Seq(R), NEW m \in 1..Len(s)
    PROVE  /\ RemoveAt(s, m) \in Seq(R) /\ Len(RemoveAt(s, m)) = Len(s) - 1
           /\ \A i \in 1..(Len(s) - 1) : RemoveAt(s, m)[i] = IF i < m THEN s[i] ELSE s[i + 1]
<1> DEFINE a == SubSeq(s, 1, m - 1)
           b == SubSeq(s, m + 1, Len(s))
           n == Len(s)
           u == a \o b
<1>0. n \in Nat /\ m \in 1..n /\ \A i \in 1..n : s[i] \in R
  BY SeqFacts
<1>1. a \in Seq(R) /\ Len(a) = m - 1 /\ \A i \in 1..(m - 1) : a[i] = s[i]
  <2>1. 1 \in Int /\ m - 1 \in Int /\ \A i \in 1..(m - 1) : s[i] \in R
    BY <1>0
  <2>2. a \in Seq(R) /\ Len(a) = (IF 1 <= m - 1 THEN (m - 1) - 1 + 1 ELSE 0) /\ \A i \in 1..((m - 1) - 1 + 1) : a[i] = s[1 + i - 1]
    BY <2>1, SubSeqProperties
  <2> HIDE DEF a
  <2>3. (m - 1) - 1 + 1 = m - 1 /\ \A i \in 1..(m - 1) : 1 + i - 1 = i
    BY <1>0
  <2>4. QED BY <1>0, <2>2, <2>3
<1>2. b \in Seq(R) /\ Len(b) = n - m /\ \A i \in 1..(n - m) : b[i] = s[m + i]
  <2>1. m + 1 \in Int /\ n \in Int /\ \A i \in (m + 1)..n : s[i] \in R
    BY <1>0
  <2>2. b \in Seq(R) /\ Len(b) = (IF m + 1 <= n THEN n - (m + 1) + 1 ELSE 0) /\ \A i \in 1..(n - (m + 1) + 1) : b[i] = s[(m + 1) + i - 1]
    BY <2>1, SubSeqProperties
  <2> HIDE DEF b, n
  <2>3. n - (m + 1) + 1 = n - m /\ \A i \in 1..(n - m) : (m + 1) + i - 1 = m + i
    BY <1>0
  <2>4. QED BY <1>0, <2>2, <2>3
<1> HIDE DEF a, b, n
<1>3. u \in Seq(R) /\ Len(u) = Len(a) + Len(b) /\ \A i \in 1..(Len(a) + Len(b)) : u[i] = IF i <= Len(a) THEN a[i] ELSE b[i - Len(a)]
  BY <1>1, <1>2, ConcatProperties
<1> HIDE DEF u
<1>4. Len(u) = n - 1 /\ Len(a) + Len(b) = n - 1
  BY <1>0, <1>1, <1>2, <1>3
<1>5. ASSUME NEW i \in 1..(n - 1) PROVE u[i] = IF i < m THEN s[i] ELSE s[i + 1]
  <2>1. u[i] = IF i <= m - 1 THEN a[i] ELSE b[i - (m - 1)]
    BY <1>1, <1>3, <1>4
  <2>2. CASE i < m
    <3>1. i <= m - 1 /\ i \in 1..(m - 1)
      BY <1>0, <2>2
    <3>2. QED BY <1>1, <2>1, <2>2, <3>1
  <2>3. CASE ~(i < m)
    <3>1. ~(i <= m - 1) /\ i - (m - 1) \in 1..(n - m) /\ m + (i - (m - 1)) = i + 1
      BY <1>0, <2>3
    <3>2. b[i - (m - 1)] = s[m + (i - (m - 1))]
      BY <1>2, <3>1
    <3>3. QED BY <2>1, <2>3, <3>1, <3>2
  <2>4. QED BY <2>2, <2>3
<1>6. QED BY <1>3, <1>4, <1>5 DEF RemoveAt, u, a, b, n

(* The smallest and the greatest of some indices.                          *)
LEMMA MinFacts ==
    ASSUME NEW S \in SUBSET Nat, S # {} PROVE Min(S) \in S /\ \A y \in S : Min(S) <= y
<1>1. \E x \in S : \A y \in S : x <= y
  BY Smallest
<1>2. QED BY <1>1 DEF Min

LEMMA MaxFacts ==
    ASSUME NEW n \in Nat, NEW S \in SUBSET (1..n), S # {} PROVE Max(S) \in S /\ \A y \in S : Max(S) >= y
<1> DEFINE T == {n - y : y \in S}
<1>1. T \in SUBSET Nat /\ T # {}
  <2>1. \A y \in S : n - y \in Nat
    OBVIOUS
  <2>2. QED BY <2>1
<1> HIDE DEF T
<1>2. PICK t \in T : \A y \in T : t <= y
  BY <1>1, Smallest
<1>3. PICK x \in S : t = n - x
  BY DEF T
<1>4. ASSUME NEW y \in S PROVE x >= y
  <2>1. n - y \in T
    BY DEF T
  <2>2. n - x <= n - y
    BY <1>2, <1>3, <2>1
  <2>3. x \in Nat /\ y \in Nat
    OBVIOUS
  <2>4. QED BY <2>2, <2>3
<1>5. \E z \in S : \A y \in S : z >= y
  BY <1>4
<1>6. QED BY <1>5 DEF Max

(* Rule.Equals of two conditions.                                          *)
LEMMA LeavesEqual ==
    ASSUME NEW r \in AllRules, NEW x \in AllRules, ~r.compound, ~x.compound
    PROVE  Equals(r, x) <=> r.negated = x.negated /\ r.relation = x.relation /\ r.cond = x.cond
<1> DEFINE E == EqualTo[MaxDepth - 1]
<1>0. MaxDepth \in 1..MaxDepth
  BY DepthOK
<1>1. EqualTo[MaxDepth] = EqualAfter(E)
  BY <1>0, EqualLevels
<1> HIDE DEF E
<1>2. Equals(r, x) <=> Alike(r, x, E)
  BY <1>1 DEF Equals, EqualAfter
<1>3. Unwrapped(r) = r /\ Unwrapped(x) = x
  BY DEF Unwrapped
<1>4. r.parts = <<>> /\ x.parts = <<>> /\ r.cond \in AllConditions /\ x.cond \in AllConditions
      /\ r.compound = FALSE /\ x.compound = FALSE
  BY RuleParts
<1>5. Len(r.parts) = Len(x.parts) /\ DOMAIN r.parts = {}
  BY <1>4
<1>6. Alike(r, x, E) <=> r.negated = x.negated /\ r.relation = x.relation /\ ConditionEquals(r.cond, x.cond)
  BY <1>3, <1>4, <1>5 DEF Alike
<1>7. QED BY <1>2, <1>4, <1>6, ConditionEqualsIsEquality

(* Conditions that hold alike.                                             *)
LEMMA LeavesAlike ==
    ASSUME NEW r \in AllRules, NEW x \in AllRules, ~r.compound, ~x.compound, r.negated = x.negated, r.cond = x.cond, NEW ctx
    PROVE  Evaluate(r, ctx) = Evaluate(x, ctx)
<1>1. Evaluate(r, ctx) = evaluateWithNegation(r, ctx) /\ Evaluate(x, ctx) = evaluateWithNegation(x, ctx)
  BY EvaluateUnfolds
<1>2. QED BY <1>1 DEF evaluateWithNegation

(* Every part of r evaluates as some part of q does.                       *)
Covers(r, q, ctx) ==
    \A i \in 1..Len(r.parts) : \E j \in 1..Len(q.parts) : Evaluate(r.parts[i], ctx) = Evaluate(q.parts[j], ctx)

LEMMA CoveredAlike ==
    ASSUME NEW r \in AllRules, NEW q \in AllRules, NEW rel \in {"AND", "OR"}, AllJoined(r, rel), AllJoined(q, rel),
           NEW ctx, Covers(r, q, ctx), Covers(q, r, ctx)
    PROVE  Evaluate(r, ctx) <=> Evaluate(q, ctx)
<1>1. CASE rel = "AND"
  <2>1. /\ Evaluate(r, ctx) <=> \A i \in 1..Len(r.parts) : Evaluate(r.parts[i], ctx)
        /\ Evaluate(q, ctx) <=> \A i \in 1..Len(q.parts) : Evaluate(q.parts[i], ctx)
    BY <1>1, AllOfThem
  <2>2. QED BY <2>1 DEF Covers
<1>2. CASE rel = "OR"
  <2>1. /\ Evaluate(r, ctx) <=> \E i \in 1..Len(r.parts) : Evaluate(r.parts[i], ctx)
        /\ Evaluate(q, ctx) <=> \E i \in 1..Len(q.parts) : Evaluate(q.parts[i], ctx)
    BY <1>2, OneOfThem
  <2>2. QED BY <2>1 DEF Covers
<1>3. QED BY <1>1, <1>2

(* A rule of at least two parts that are all joined alike.                 *)
LEMMA JoinedAlike ==
    ASSUME NEW r, Shallow(r), ~r.negated, Len(r.parts) > 1, allRulesHaveSameRelation(r.parts)
    PROVE  /\ Last(r.parts).relation \in {"AND", "OR"} /\ AllJoined(r, Last(r.parts).relation)
           /\ r.parts[1].relation \in {"", Last(r.parts).relation}
<1> DEFINE p == r.parts
           rel == Last(p).relation
<1>1. r \in AllRules /\ r.compound
  BY DEF Shallow
<1>2. Len(p) \in Nat /\ DOMAIN p = 1..Len(p) /\ \A i \in 2..Len(p) : p[i].relation \in {"AND", "OR"}
  BY <1>1, RuleParts
<1>3. Len(p) \in 2..Len(p) /\ 1 \in DOMAIN p /\ Len(p) > 1
  BY <1>2
<1>4. rel \in {"AND", "OR"}
  BY <1>2, <1>3 DEF Last
<1>5. \A i \in DOMAIN p : p[i].relation \in {"", rel}
  BY DEF allRulesHaveSameRelation
<1> HIDE DEF rel
<1>6. \A i \in 2..Len(p) : p[i].relation = rel
  <2>1. ASSUME NEW i \in 2..Len(p) PROVE p[i].relation = rel
    <3>1. i \in DOMAIN p
      BY <1>2
    <3>2. p[i].relation \in {"AND", "OR"} /\ p[i].relation \in {"", rel}
      BY <1>2, <1>5, <3>1
    <3>3. QED BY <3>2
  <2>2. QED BY <2>1
<1>7. AllJoined(r, rel)
  BY <1>1, <1>2, <1>3, <1>6 DEF AllJoined
<1>8. QED BY <1>3, <1>4, <1>5, <1>7 DEF rel

(* The parts, the first counting as joined by rel.                         *)
Joining(ps, rel) == [ps EXCEPT ![1].relation = rel]

LEMMA FirstJoined ==
    ASSUME NEW ps, LeafParts(ps), Len(ps) > 1, NEW rel \in {"AND", "OR"}
    PROVE  LET qs == Joining(ps, rel)
           IN  /\ qs \in Seq(AllRules) /\ Len(qs) = Len(ps) /\ DOMAIN qs = 1..Len(ps)
               /\ \A i \in 1..Len(ps) :
                    /\ qs[i] \in AllRules /\ ~qs[i].compound /\ qs[i].negated = ps[i].negated /\ qs[i].cond = ps[i].cond
                    /\ qs[i].relation = IF i = 1 THEN rel ELSE ps[i].relation
<1> DEFINE q1 == [ps[1] EXCEPT !.relation = rel]
           qs == Joining(ps, rel)
           n == Len(ps)
<1>1. ps \in Seq(AllRules) /\ \A i \in DOMAIN ps : ~ps[i].compound
  BY DEF LeafParts
<1>2. n \in Nat /\ DOMAIN ps = 1..n /\ \A i \in 1..n : ps[i] \in AllRules
  BY <1>1, SeqFacts
<1>3. 1 \in 1..n
  BY <1>2
<1>4. q1 \in AllRules
  <2>1. ps[1] \in Rules[MaxDepth] /\ MaxDepth \in 0..MaxDepth
    BY <1>2, <1>3, DepthOK DEF AllRules
  <2>2. q1 \in Rules[MaxDepth]
    BY <2>1, SameLevel
  <2>3. QED BY <2>2 DEF AllRules
<1>5. ~q1.compound /\ q1.negated = ps[1].negated /\ q1.cond = ps[1].cond /\ q1.relation = rel
  BY <1>1, <1>2, <1>3, SameFields
<1>6. qs = [i \in 1..n |-> IF i = 1 THEN q1 ELSE ps[i]]
  BY <1>1, <1>2, <1>3, LenProperties DEF Joining
<1> HIDE DEF q1, qs
<1>7. qs \in [1..n -> AllRules]
  BY <1>2, <1>4, <1>6
<1>8. qs \in Seq(AllRules) /\ Len(qs) = n /\ DOMAIN qs = 1..n
  BY <1>2, <1>7
<1>9. ASSUME NEW i \in 1..n
      PROVE  /\ qs[i] \in AllRules /\ ~qs[i].compound /\ qs[i].negated = ps[i].negated /\ qs[i].cond = ps[i].cond
             /\ qs[i].relation = IF i = 1 THEN rel ELSE ps[i].relation
  <2>1. qs[i] = IF i = 1 THEN q1 ELSE ps[i]
    BY <1>6
  <2>2. CASE i = 1
    BY <1>4, <1>5, <2>1, <2>2
  <2>3. CASE i # 1
    BY <1>1, <1>2, <2>1, <2>3
  <2>4. QED BY <2>2, <2>3
<1>10. QED BY <1>8, <1>9 DEF qs

(* Repeated, for any relation between the elements.                        *)
LEMMA FirstOfClass ==
    ASSUME NEW n \in Nat, NEW K \in SUBSET (1..n), NEW i \in K, NEW j \in K, i # j
    PROVE  \E k \in K : (\A l \in 1..(k - 1) : l \notin K) /\ \E l \in K : l # k
<1>1. K \in SUBSET Nat /\ K # {}
  OBVIOUS
<1>2. PICK k \in K : \A y \in K : k <= y
  BY <1>1, Smallest
<1>3. k \in Nat /\ k \in 1..n
  OBVIOUS
<1>4. \A l \in 1..(k - 1) : l \notin K
  BY <1>2, <1>3
<1>5. \E l \in K : l # k
  OBVIOUS
<1>6. QED BY <1>4, <1>5

(* Conditions that getDuplicateNonCompoundRules takes for the same.        *)
SameLeaf(x, y) == x.negated = y.negated /\ x.relation = y.relation /\ x.cond = y.cond
LeafSeq(qs) == qs \in Seq(AllRules) /\ \A i \in 1..Len(qs) : qs[i] \in AllRules /\ ~qs[i].compound

LEMMA RepeatedFound ==
    ASSUME NEW qs, LeafSeq(qs), NEW x \in Repeated(qs, Equals)
    PROVE  \E i, j \in 1..Len(qs) : i # j /\ SameLeaf(qs[j], qs[i]) /\ x = qs[i]
<1>1. Len(qs) \in Nat /\ DOMAIN qs = 1..Len(qs)
  BY SeqFacts DEF LeafSeq
<1>2. PICK i \in DOMAIN qs, j \in DOMAIN qs : x = qs[i] /\ j # i /\ Equals(qs[j], qs[i])
  BY DEF Repeated
<1>3. SameLeaf(qs[j], qs[i])
  BY <1>1, <1>2, LeavesEqual DEF LeafSeq, SameLeaf
<1>4. QED BY <1>1, <1>2, <1>3

LEMMA RepeatedReported ==
    ASSUME NEW qs, LeafSeq(qs), NEW i \in 1..Len(qs), NEW j \in 1..Len(qs), i # j, SameLeaf(qs[i], qs[j])
    PROVE  \E x \in Repeated(qs, Equals) : SameLeaf(x, qs[i])
<1> DEFINE n == Len(qs)
           K == {k \in 1..n : SameLeaf(qs[k], qs[i])}
<1>1. n \in Nat /\ DOMAIN qs = 1..n
  BY SeqFacts DEF LeafSeq
<1>2. i \in K /\ j \in K
  BY DEF SameLeaf
<1>3. PICK k \in K : (\A l \in 1..(k - 1) : l \notin K) /\ \E l \in K : l # k
  <2>1. K \in SUBSET (1..n)
    OBVIOUS
  <2> HIDE DEF K, n
  <2>2. QED BY <1>1, <1>2, <2>1, FirstOfClass
<1>4. k \in DOMAIN qs /\ SameLeaf(qs[k], qs[i])
  BY <1>1
<1>5. ASSUME NEW l \in 1..(k - 1) PROVE ~Equals(qs[k], qs[l])
  <2>1. l \in 1..n /\ l \notin K
    BY <1>1, <1>3
  <2>2. ~SameLeaf(qs[l], qs[i])
    BY <2>1
  <2>3. ~SameLeaf(qs[k], qs[l])
    BY <1>4, <2>2 DEF SameLeaf
  <2>4. QED BY <1>1, <1>4, <2>1, <2>3, LeavesEqual DEF LeafSeq, SameLeaf
<1>6. PICK l \in K : l # k
  BY <1>3
<1>7. l \in DOMAIN qs /\ l # k /\ Equals(qs[l], qs[k])
  <2>1. SameLeaf(qs[l], qs[i]) /\ l \in DOMAIN qs
    BY <1>1
  <2>2. SameLeaf(qs[l], qs[k])
    BY <1>4, <2>1 DEF SameLeaf
  <2>3. QED BY <1>1, <1>4, <1>6, <2>1, <2>2, LeavesEqual DEF LeafSeq, SameLeaf
<1>8. qs[k] \in Repeated(qs, Equals)
  BY <1>4, <1>5, <1>7 DEF Repeated
<1>9. QED BY <1>4, <1>8

LEMMA RepeatedConditions ==
    ASSUME NEW cs \in Seq(AllConditions), NEW i \in 1..Len(cs), NEW j \in 1..Len(cs), i # j, cs[i] = cs[j]
    PROVE  cs[i] \in GetDuplicateConditionsForAdmin(cs)
<1> DEFINE n == Len(cs)
           K == {k \in 1..n : cs[k] = cs[i]}
<1>1. n \in Nat /\ DOMAIN cs = 1..n /\ \A k \in 1..n : cs[k] \in AllConditions
  BY SeqFacts
<1>2. PICK k \in K : (\A l \in 1..(k - 1) : l \notin K) /\ \E l \in K : l # k
  <2>1. K \in SUBSET (1..n) /\ i \in K /\ j \in K
    OBVIOUS
  <2> HIDE DEF K, n
  <2>2. QED BY <1>1, <2>1, FirstOfClass
<1>3. k \in DOMAIN cs /\ cs[k] = cs[i]
  BY <1>1
<1>4. ASSUME NEW l \in 1..(k - 1) PROVE ~ConditionEquals(cs[k], cs[l])
  <2>1. l \in 1..n /\ l \notin K
    BY <1>1, <1>2
  <2>2. cs[l] # cs[k]
    BY <1>3, <2>1
  <2>3. QED BY <1>1, <1>3, <2>1, <2>2, ConditionEqualsIsEquality
<1>5. PICK l \in K : l # k
  BY <1>2
<1>6. l \in DOMAIN cs /\ l # k /\ ConditionEquals(cs[l], cs[k])
  BY <1>1, <1>3, <1>5, ConditionEqualsIsEquality
<1>7. cs[k] \in Repeated(cs, ConditionEquals)
  BY <1>3, <1>4, <1>6 DEF Repeated
<1>8. QED BY <1>3, <1>7 DEF GetDuplicateConditionsForAdmin

(* Conditions given twice, in a rule whose parts are all joined alike.     *)
Twice(r, k, j) == j \in 1..(k - 1) /\ r.parts[k].negated = r.parts[j].negated /\ r.parts[k].cond = r.parts[j].cond

LEMMA WithoutOne ==
    ASSUME NEW r, Shallow(r), ~r.negated, Len(r.parts) > 1, allRulesHaveSameRelation(r.parts),
           NEW m \in 1..Len(r.parts), NEW j, Twice(r, m, j), NEW ctx
    PROVE  Evaluate(r, ctx) <=> Evaluate(Compound(RemoveAt(r.parts, m)), ctx)
<1> DEFINE p == r.parts
           n == Len(p)
           t == RemoveAt(p, m)
           q == Compound(t)
           rel == Last(p).relation
<1>1. r \in AllRules /\ LeafParts(p) /\ rel \in {"AND", "OR"} /\ AllJoined(r, rel)
  BY ShallowParts, JoinedAlike DEF Shallow
<1>2. /\ n \in Nat /\ n > 1 /\ DOMAIN p = 1..n /\ p \in Seq(AllRules)
      /\ \A i \in 1..n : p[i] \in AllRules /\ ~p[i].compound
      /\ \A i \in 2..n : p[i].relation # "" /\ p[i].relation = rel
  <2>1. p \in Seq(AllRules) /\ \A i \in DOMAIN p : ~p[i].compound
    BY <1>1 DEF LeafParts
  <2>2. n \in Nat /\ DOMAIN p = 1..n /\ \A i \in DOMAIN p : p[i] \in AllRules
    BY <2>1, SeqFacts
  <2>3. \A i \in 2..n : p[i].relation = rel
    BY <1>1 DEF AllJoined
  <2>4. QED BY <1>1, <2>1, <2>2, <2>3
<1>20. n \in Nat /\ n > 1
  BY <1>2
<1>3. m \in 1..n /\ j \in 1..(m - 1) /\ p[m].negated = p[j].negated /\ p[m].cond = p[j].cond /\ j \in 1..n
  <2>1. m \in 1..n /\ j \in 1..(m - 1) /\ p[m].negated = p[j].negated /\ p[m].cond = p[j].cond
    BY DEF Twice
  <2> HIDE DEF n, p
  <2>2. QED BY <1>20, <2>1
<1>4. t \in Seq(AllRules) /\ Len(t) = n - 1 /\ \A i \in 1..(n - 1) : t[i] = IF i < m THEN p[i] ELSE p[i + 1]
  BY <1>2, <1>3, Removed
<1> HIDE DEF p, n, t, rel
<1>40. Len(t) = n - 1 /\ Len(t) >= 1 /\ \A i \in 2..Len(t) : i \in 1..(n - 1) /\ i # 1
  BY <1>4, <1>20
<1>41. m \in 1..n /\ j \in 1..(m - 1) /\ j \in 1..(n - 1) /\ j < m
  BY <1>3, <1>20
<1>5. ASSUME NEW i \in 1..(n - 1)
      PROVE  ~t[i].compound /\ (i # 1 => t[i].relation = rel) /\ \E l \in 1..n : t[i] = p[l]
  <2>1. CASE i < m
    <3>1. i \in 1..n /\ (i # 1 => i \in 2..n)
      BY <1>20
    <3>2. t[i] = p[i]
      BY <1>4, <2>1
    <3>3. QED BY <1>2, <3>1, <3>2
  <2>2. CASE ~(i < m)
    <3>1. i + 1 \in 1..n /\ i + 1 \in 2..n
      BY <1>20
    <3>2. t[i] = p[i + 1]
      BY <1>4, <2>2
    <3>3. QED BY <1>2, <3>1, <3>2
  <2>3. QED BY <2>1, <2>2
<1>6. LeafParts(t)
  <2>1. DOMAIN t = 1..(n - 1)
    BY <1>4, SeqFacts
  <2>2. ASSUME NEW i \in 2..Len(t) PROVE t[i].relation # ""
    <3>1. i \in 1..(n - 1) /\ i # 1
      BY <1>40
    <3>2. QED BY <1>1, <1>5, <3>1
  <2>3. QED BY <1>4, <1>5, <2>1, <2>2 DEF LeafParts
<1>7. Shallow(q) /\ q.parts = t /\ ~q.negated /\ q.compound
  BY <1>6, MakeShallow
<1>8. q \in AllRules
  BY <1>7 DEF Shallow
<1> HIDE DEF q
<1>9. AllJoined(q, rel)
  <2>1. ASSUME NEW i \in 2..Len(t) PROVE t[i].relation = rel
    <3>1. i \in 1..(n - 1) /\ i # 1
      BY <1>40
    <3>2. QED BY <1>5, <3>1
  <2>2. Len(t) >= 1
    BY <1>40
  <2>3. QED BY <1>7, <2>1, <2>2 DEF AllJoined
<1>10. Covers(q, r, ctx)
  <2>1. ASSUME NEW i \in 1..Len(q.parts) PROVE \E l \in 1..Len(r.parts) : Evaluate(q.parts[i], ctx) = Evaluate(r.parts[l], ctx)
    <3>1. i \in 1..(n - 1)
      BY <1>4, <1>7
    <3>2. PICK l \in 1..n : t[i] = p[l]
      BY <1>5, <3>1
    <3>3. QED BY <1>7, <3>2 DEF p, n
  <2>2. QED BY <2>1 DEF Covers
<1>11. Covers(r, q, ctx)
  <2>1. ASSUME NEW i \in 1..n PROVE \E l \in 1..(n - 1) : Evaluate(p[i], ctx) = Evaluate(t[l], ctx)
    <3>1. CASE i < m
      <4>0. i \in 1..(n - 1)
        BY <1>20, <1>41, <3>1
      <4>1. i \in 1..(n - 1) /\ t[i] = p[i]
        BY <1>4, <3>1, <4>0
      <4>2. QED BY <4>1
    <3>2. CASE i = m
      <4>1. j \in 1..(n - 1) /\ t[j] = p[j]
        BY <1>4, <1>41
      <4>2. Evaluate(p[m], ctx) = Evaluate(p[j], ctx)
        BY <1>2, <1>3, LeavesAlike
      <4>3. QED BY <3>2, <4>1, <4>2
    <3>3. CASE i > m
      <4>1. i - 1 \in 1..(n - 1) /\ ~(i - 1 < m) /\ (i - 1) + 1 = i
        BY <1>20, <1>41, <3>3
      <4>2. t[i - 1] = p[i]
        BY <1>4, <4>1
      <4>3. QED BY <4>1, <4>2
    <3>4. i < m \/ i = m \/ i > m
      BY <1>20, <1>41
    <3>5. QED BY <3>1, <3>2, <3>3, <3>4
  <2>2. QED BY <1>4, <1>7, <2>1 DEF Covers, p, n
<1>12. Evaluate(r, ctx) <=> Evaluate(q, ctx)
  BY <1>1, <1>8, <1>9, <1>10, <1>11, CoveredAlike
<1>13. QED BY <1>12 DEF q, t, p

(* What GetDuplicateConditionsFromRule reports.                            *)
LEMMA DuplicatesFound ==
    ASSUME NEW r, Shallow(r), NEW c \in GetDuplicateConditionsFromRule(r)
    PROVE  /\ Len(r.parts) > 1
           /\ \E k, j \in 1..Len(r.parts) : Twice(r, k, j) /\ r.parts[k].cond = c
<1> DEFINE p == r.parts
           n == Len(p)
           qs == Joining(p, "AND")
<1>1. FlattenRule(r) = p /\ LeafParts(p)
  BY FlattenShallow, ShallowParts
<1>2. Len(p) > 1 /\ c \in {x.cond : x \in Repeated(qs, Equals)}
  BY <1>1 DEF GetDuplicateConditionsFromRule, getDuplicateNonCompoundRules, Joining
<1>3. /\ qs \in Seq(AllRules) /\ Len(qs) = n
      /\ \A i \in 1..n : /\ qs[i] \in AllRules /\ ~qs[i].compound /\ qs[i].negated = p[i].negated /\ qs[i].cond = p[i].cond
  BY <1>1, <1>2, FirstJoined
<1>4. n \in Nat
  BY <1>1, SeqFacts DEF LeafParts
<1> HIDE DEF p, n, qs
<1>5. LeafSeq(qs)
  BY <1>3 DEF LeafSeq
<1>6. PICK x \in Repeated(qs, Equals) : c = x.cond
  BY <1>2
<1>7. PICK i \in 1..n, j \in 1..n : i # j /\ SameLeaf(qs[j], qs[i]) /\ x = qs[i]
  BY <1>3, <1>5, RepeatedFound
<1>8. p[i].negated = p[j].negated /\ p[i].cond = p[j].cond /\ p[i].cond = c
  BY <1>3, <1>6, <1>7 DEF SameLeaf
<1>9. CASE j < i
  <2>1. j \in 1..(i - 1)
    BY <1>4, <1>9
  <2>2. Twice(r, i, j)
    BY <1>8, <2>1 DEF Twice, p
  <2>3. QED BY <1>2, <1>8, <2>2 DEF p, n
<1>10. CASE i < j
  <2>1. i \in 1..(j - 1)
    BY <1>4, <1>10
  <2>2. Twice(r, j, i)
    BY <1>8, <2>1 DEF Twice, p
  <2>3. QED BY <1>2, <1>8, <2>2 DEF p, n
<1>11. j < i \/ i < j
  BY <1>4, <1>7
<1>12. QED BY <1>9, <1>10, <1>11

LEMMA DuplicatesReported ==
    ASSUME NEW r, Shallow(r), ~r.negated, Len(r.parts) > 1, allRulesHaveSameRelation(r.parts), Last(r.parts).relation = "AND",
           NEW i \in 1..Len(r.parts), NEW j \in 1..Len(r.parts), i # j,
           r.parts[i].negated = r.parts[j].negated, r.parts[i].cond = r.parts[j].cond
    PROVE  r.parts[i].cond \in GetDuplicateConditionsFromRule(r)
<1> DEFINE p == r.parts
           n == Len(p)
           qs == Joining(p, "AND")
<1>1. FlattenRule(r) = p /\ LeafParts(p)
  BY FlattenShallow, ShallowParts
<1>2. GetDuplicateConditionsFromRule(r) = {x.cond : x \in Repeated(qs, Equals)}
  BY <1>1 DEF GetDuplicateConditionsFromRule, getDuplicateNonCompoundRules, Joining
<1>3. /\ qs \in Seq(AllRules) /\ Len(qs) = n
      /\ \A k \in 1..n : /\ qs[k] \in AllRules /\ ~qs[k].compound /\ qs[k].negated = p[k].negated /\ qs[k].cond = p[k].cond
                         /\ qs[k].relation = IF k = 1 THEN "AND" ELSE p[k].relation
  BY <1>1, FirstJoined
<1>4. n \in Nat
  BY <1>1, SeqFacts DEF LeafParts
<1>5. \A k \in 2..n : p[k].relation = "AND"
  BY JoinedAlike DEF AllJoined
<1> HIDE DEF n, qs
<1>6. \A k \in 1..n : qs[k].relation = "AND"
  BY <1>3, <1>4, <1>5
<1>7. LeafSeq(qs)
  BY <1>3 DEF LeafSeq
<1>8. i \in 1..n /\ j \in 1..n
  BY DEF n
<1>9. SameLeaf(qs[i], qs[j])
  BY <1>3, <1>6, <1>8 DEF SameLeaf
<1>10. PICK x \in Repeated(qs, Equals) : SameLeaf(x, qs[i])
  BY <1>3, <1>7, <1>8, <1>9, RepeatedReported
<1>11. x.cond = p[i].cond
  BY <1>3, <1>8, <1>10 DEF SameLeaf
<1>12. QED BY <1>2, <1>10, <1>11

LEMMA ReportedBetweenOR ==
    ASSUME NEW r, Shallow(r), ~r.negated, Len(r.parts) > 1, allRulesHaveSameRelation(r.parts), Last(r.parts).relation = "AND",
           NEW i \in 1..Len(r.parts), NEW j \in 1..Len(r.parts), i # j, r.parts[i].cond = r.parts[j].cond
    PROVE  r.parts[i].cond \in GetDuplicateConditionsBetweenOR(r)
<1> DEFINE p == r.parts
           n == Len(p)
           starts == {1} \cup {l \in DOMAIN p : p[l].relation = "OR"}
           end(l) == Min({m - 1 : m \in {m \in starts : m > l}} \cup {n})
           group(l) == [k \in 1..(end(l) - l + 1) |-> p[l + k - 1].cond]
<1>1. FlattenRule(r) = p /\ LeafParts(p)
  BY FlattenShallow, ShallowParts
<1>2. GetDuplicateConditionsBetweenOR(r) = UNION {GetDuplicateConditionsForAdmin(group(l)) : l \in starts}
  BY <1>1 DEF GetDuplicateConditionsBetweenOR
<1>3. n \in Nat /\ n > 1 /\ DOMAIN p = 1..n /\ \A l \in 1..n : p[l].cond \in AllConditions
  <2>1. p \in Seq(AllRules) /\ n > 1
    BY <1>1 DEF LeafParts
  <2>2. n \in Nat /\ DOMAIN p = 1..n /\ \A l \in 1..n : p[l] \in AllRules
    BY <2>1, SeqFacts
  <2>3. \A l \in 1..n : p[l].cond \in AllConditions
    BY <2>2, RuleParts
  <2>4. QED BY <2>1, <2>2, <2>3
<1>4. starts = {1}
  <2>1. ASSUME NEW l \in DOMAIN p PROVE p[l].relation # "OR"
    <3>1. p[l].relation \in {"", "AND"}
      BY DEF allRulesHaveSameRelation
    <3>2. QED BY <3>1
  <2>2. QED BY <2>1
<1> DEFINE cs == [k \in 1..n |-> p[k].cond]
<1> HIDE DEF starts, n
<1>5. end(1) = n
  <2>1. {m - 1 : m \in {m \in starts : m > 1}} \cup {n} = {n}
    BY <1>4
  <2>2. Min({n}) = n
    BY <1>3 DEF Min
  <2>3. QED BY <2>1, <2>2
<1>6. group(1) = cs
  <2> HIDE DEF end, p
  <2>1. end(1) - 1 + 1 = n /\ \A k \in 1..n : 1 + k - 1 = k
    BY <1>3, <1>5
  <2>2. QED BY <2>1
<1>7. cs \in Seq(AllConditions) /\ Len(cs) = n /\ \A k \in 1..n : cs[k] = p[k].cond
  <2>1. cs \in [1..n -> AllConditions] /\ \A k \in 1..n : cs[k] = p[k].cond
    BY <1>3
  <2> HIDE DEF cs
  <2>2. QED BY <1>3, <2>1
<1>8. 1 \in starts
  BY <1>4
<1> HIDE DEF group, cs
<1>9. i \in 1..n /\ j \in 1..n /\ cs[i] = cs[j] /\ cs[i] = p[i].cond
  BY <1>7 DEF n
<1>10. cs[i] \in GetDuplicateConditionsForAdmin(cs)
  BY <1>7, <1>9, RepeatedConditions
<1>11. QED BY <1>2, <1>6, <1>8, <1>9, <1>10

LEMMA DuplicatesOK == EditInv => DuplicatesRedundant
<1> SUFFICES ASSUME EditInv, edit.step = "normalized", Flat(edit.rule), allRulesHaveSameRelation(edit.rule.parts)
             PROVE  LET r == edit.rule
                        dups == GetDuplicateConditionsFromRule(r)
                        Same(i, j) == r.parts[i].negated = r.parts[j].negated /\ r.parts[i].cond = r.parts[j].cond
                        again(c) == {i \in DOMAIN r.parts : r.parts[i].cond = c /\ \E j \in 1..(i - 1) : Same(i, j)}
                    IN  /\ \A c \in dups : again(c) # {} /\ Selects(r, Compound(RemoveAt(r.parts, Max(again(c)))))
                        /\ Last(r.parts).relation = "AND" =>
                             /\ \A i, j \in DOMAIN r.parts : i # j /\ Same(i, j) => r.parts[i].cond \in dups
                             /\ dups \subseteq GetDuplicateConditionsBetweenOR(r)
  BY DEF DuplicatesRedundant
<1> DEFINE r == edit.rule
           n == Len(r.parts)
           dups == GetDuplicateConditionsFromRule(r)
           Same(i, j) == r.parts[i].negated = r.parts[j].negated /\ r.parts[i].cond = r.parts[j].cond
           again(c) == {i \in DOMAIN r.parts : r.parts[i].cond = c /\ \E j \in 1..(i - 1) : Same(i, j)}
<1>1. r \in AllRules
  <2>1. edit.was \in Within(Accepted) /\ edit.rule = NormalizeConditions(edit.was)
    BY DEF EditInv
  <2>2. QED BY <2>1, NormalizedRule DEF Within
<1>2. Shallow(r) /\ ~r.negated /\ allRulesHaveSameRelation(r.parts)
  BY <1>1 DEF Flat, Shallow
<1>3. n \in Nat /\ DOMAIN r.parts = 1..n
  BY <1>1, RuleParts
<1> HIDE DEF r, n
<1>4. ASSUME NEW c \in dups PROVE again(c) # {} /\ Selects(r, Compound(RemoveAt(r.parts, Max(again(c)))))
  <2>1. n > 1 /\ \E k, j \in 1..n : Twice(r, k, j) /\ r.parts[k].cond = c
    BY <1>2, <1>4, DuplicatesFound DEF n
  <2>2. again(c) # {} /\ again(c) \in SUBSET (1..n)
    BY <1>3, <2>1 DEF Twice
  <2> DEFINE A == again(c)
             m == Max(A)
  <2>3. m \in A
    <3> HIDE DEF again
    <3>1. QED BY <1>3, <2>2, MaxFacts
  <2>4. PICK j : m \in 1..n /\ Twice(r, m, j)
    BY <1>3, <2>3 DEF Twice
  <2> HIDE DEF A, m
  <2>5. \A ctx \in EditContexts : Evaluate(r, ctx) <=> Evaluate(Compound(RemoveAt(r.parts, m)), ctx)
    BY <1>2, <2>1, <2>4, WithoutOne DEF n
  <2>6. QED BY <2>2, <2>5 DEF Selects, m, A
<1>5. ASSUME Last(r.parts).relation = "AND"
      PROVE  /\ \A i, j \in DOMAIN r.parts : i # j /\ Same(i, j) => r.parts[i].cond \in dups
             /\ dups \subseteq GetDuplicateConditionsBetweenOR(r)
  <2>1. ASSUME NEW i \in DOMAIN r.parts, NEW j \in DOMAIN r.parts, i # j, Same(i, j) PROVE r.parts[i].cond \in dups
    <3>1. i \in 1..n /\ j \in 1..n
      BY <1>3
    <3>2. n > 1
      BY <1>3, <2>1, <3>1
    <3>3. QED BY <1>2, <1>5, <2>1, <3>1, <3>2, DuplicatesReported DEF n
  <2>2. ASSUME NEW c \in dups PROVE c \in GetDuplicateConditionsBetweenOR(r)
    <3>1. PICK k \in 1..n, j \in 1..n : n > 1 /\ Twice(r, k, j) /\ r.parts[k].cond = c
      BY <1>2, <2>2, DuplicatesFound DEF n
    <3>2. j \in 1..(k - 1) /\ r.parts[k].cond = r.parts[j].cond
      BY <3>1 DEF Twice
    <3>3. k # j
      BY <1>3, <3>2
    <3>4. QED BY <1>2, <1>5, <3>1, <3>2, <3>3, ReportedBetweenOR DEF n
  <2>3. QED BY <2>1, <2>2
<1>6. QED BY <1>4, <1>5 DEF r

-----------------------------------------------------------------------------
(* Rules that EqualComplexRules calls equal.                               *)

LEMMA EqualLeaves ==
    ASSUME OneType, NEW r \in AllRules, NEW x \in AllRules, ~r.compound, ~x.compound,
           r.cond \in Conditions, x.cond \in Conditions, equalNonCompoundRules(r, x)
    PROVE  r.negated = x.negated /\ r.relation = x.relation /\ r.cond = x.cond
<1>1. r.negated = x.negated /\ r.relation = x.relation /\ r.cond.name = x.cond.name /\ r.cond.op = x.cond.op
      /\ r.cond.fixed = x.cond.fixed
  BY DEF equalNonCompoundRules, equalConditions
<1>2. r.cond.type = x.cond.type
  BY <1>1 DEF OneType
<1>3. r.cond \in AllConditions /\ x.cond \in AllConditions
  BY RuleParts
<1>4. r.cond = x.cond
  BY <1>1, <1>2, <1>3 DEF AllConditions
<1>5. QED BY <1>1, <1>4

(* SameCollection, element by element.                                     *)
Partners(a, l) == {j \in DOMAIN l : equalNonCompoundRules(a, l[j])}
LeftAfter(a, l) == IF Partners(a, l) = {} THEN l ELSE RemoveAt(l, Min(Partners(a, l)))

LEMMA LeftFacts ==
    ASSUME NEW R, NEW l \in Seq(R), NEW a
    PROVE  /\ LeftAfter(a, l) \in Seq(R) /\ Len(LeftAfter(a, l)) \in Nat /\ Len(l) \in Nat
           /\ Partners(a, l) = {} => LeftAfter(a, l) = l
           /\ Partners(a, l) # {} => Len(LeftAfter(a, l)) = Len(l) - 1
           /\ Range(LeftAfter(a, l)) \subseteq Range(l)
           /\ \A x \in Range(l) : x \in Range(LeftAfter(a, l)) \/ equalNonCompoundRules(a, x)
<1> DEFINE n == Len(l)
           J == Partners(a, l)
           m == Min(J)
           t == RemoveAt(l, m)
<1>1. n \in Nat /\ DOMAIN l = 1..n
  BY SeqFacts
<1>2. CASE J = {}
  BY <1>1, <1>2 DEF LeftAfter
<1>3. CASE J # {}
  <2>1. J \in SUBSET Nat
    BY <1>1 DEF Partners
  <2>2. m \in J
    <3> HIDE DEF J
    <3>1. QED BY <1>3, <2>1, MinFacts
  <2>3. m \in 1..n /\ equalNonCompoundRules(a, l[m])
    BY <1>1, <2>2 DEF Partners
  <2> HIDE DEF m
  <2>4. t \in Seq(R) /\ Len(t) = n - 1 /\ \A i \in 1..(n - 1) : t[i] = IF i < m THEN l[i] ELSE l[i + 1]
    BY <2>3, Removed
  <2>5. LeftAfter(a, l) = t
    BY <1>3 DEF LeftAfter, m
  <2> HIDE DEF t, J
  <2>6. DOMAIN t = 1..(n - 1) /\ Len(t) \in Nat
    BY <2>4, SeqFacts
  <2> HIDE DEF n
  <2>7. ASSUME NEW i \in 1..(n - 1) PROVE t[i] \in Range(l)
    <3>1. i \in DOMAIN l /\ i + 1 \in DOMAIN l
      BY <1>1
    <3>2. t[i] = l[i] \/ t[i] = l[i + 1]
      BY <2>4
    <3>3. QED BY <3>1, <3>2 DEF Range
  <2>8. ASSUME NEW i \in 1..n PROVE l[i] \in Range(t) \/ equalNonCompoundRules(a, l[i])
    <3>1. CASE i < m
      <4>1. i \in 1..(n - 1)
        BY <1>1, <2>3, <3>1
      <4>2. t[i] = l[i]
        BY <2>4, <3>1, <4>1
      <4>3. QED BY <2>6, <4>1, <4>2 DEF Range
    <3>2. CASE i > m
      <4>1. i - 1 \in 1..(n - 1) /\ ~(i - 1 < m) /\ (i - 1) + 1 = i
        BY <1>1, <2>3, <3>2
      <4>2. t[i - 1] = l[i]
        BY <2>4, <4>1
      <4>3. QED BY <2>6, <4>1, <4>2 DEF Range
    <3>3. i < m \/ i > m \/ i = m
      BY <1>1, <2>3
    <3>4. QED BY <2>3, <3>1, <3>2, <3>3
  <2>9. Range(t) \subseteq Range(l) /\ \A x \in Range(l) : x \in Range(t) \/ equalNonCompoundRules(a, x)
    BY <1>1, <2>6, <2>7, <2>8 DEF Range
  <2>10. QED BY <1>1, <1>3, <2>4, <2>5, <2>6, <2>9 DEF n, J
<1>4. QED BY <1>2, <1>3

LEMMA CollectionLoop ==
    ASSUME NEW R, NEW rs, Len(rs) \in Nat, NEW ss \in Seq(R)
    PROVE  \E left \in [0..Len(rs) -> Seq(R)] :
             /\ left[0] = ss /\ \A i \in 1..Len(rs) : left[i] = LeftAfter(rs[i], left[i - 1])
             /\ SameCollection(rs, ss) <=> left[Len(rs)] = <<>>
<1> DEFINE n == Len(rs)
           X == Seq(R)
           step == [i \in 1..n |-> [l \in X |-> LeftAfter(rs[i], l)]]
           Is(f) == f = [i \in 0..n |->
                          IF i = 0 THEN ss
                          ELSE LET l == f[i - 1]
                                   J == {j \in DOMAIN l : equalNonCompoundRules(rs[i], l[j])}
                               IN  IF J = {} THEN l ELSE RemoveAt(l, Min(J))]
           Loop(f) == f = [i \in 0..n |-> IF i = 0 THEN ss ELSE LeftAfter(rs[i], f[i - 1])]
<1>1. \A f : Is(f) <=> Loop(f)
  BY DEF LeftAfter, Partners
<1>2. Steps(n, X, step)
  BY LeftFacts DEF Steps
<1>3. PICK g : IsLoop(g, n, X, ss, step)
  <2> HIDE DEF step, X
  <2>1. ss \in X
    BY DEF X
  <2>2. QED BY <1>2, <2>1, LoopExists
<1>4. g \in [0..n -> X] /\ g[0] = ss /\ \A i \in 1..n : g[i] = LeftAfter(rs[i], g[i - 1])
  <2>1. g \in [0..n -> X] /\ g[0] = ss /\ \A i \in 1..n : g[i] = step[i][g[i - 1]]
    BY <1>3 DEF IsLoop
  <2>2. \A i \in 1..n : i - 1 \in 0..n
    OBVIOUS
  <2> HIDE DEF X
  <2>3. QED BY <2>1, <2>2
<1>5. Loop(g)
  <2>1. ASSUME NEW i \in 0..n PROVE g[i] = IF i = 0 THEN ss ELSE LeftAfter(rs[i], g[i - 1])
    <3>1. CASE i = 0
      BY <1>4, <3>1
    <3>2. CASE i # 0
      <4>1. i \in 1..n
        BY <3>2, FirstOrLater
      <4>2. QED BY <1>4, <3>2, <4>1
    <3>3. QED BY <3>1, <3>2
  <2> HIDE DEF X
  <2>2. QED BY <1>4, <2>1
<1>6. PICK f : Is(f) /\ (SameCollection(rs, ss) <=> f[n] = <<>>)
  <2>1. \E f : Is(f)
    BY <1>1, <1>5, SMTT(30)
  <2>2. QED BY <2>1 DEF SameCollection
<1>7. Loop(f)
  BY <1>1, <1>6
<1> HIDE DEF Is
<1>8. \A i \in 0..n : f[i] = g[i]
  <2>1. f[0] = ss
    BY <1>7
  <2>2. ASSUME NEW i \in 1..n, f[i - 1] = g[i - 1] PROVE f[i] = g[i]
    <3>1. i \in 0..n /\ i # 0
      OBVIOUS
    <3>2. f[i] = LeftAfter(rs[i], f[i - 1])
      BY <1>7, <3>1
    <3>3. QED BY <1>4, <2>2, <3>2
  <2>3. SameSteps(n, f, g)
    BY <1>4, <2>1, <2>2 DEF SameSteps
  <2>4. QED BY <2>3, LoopUnique
<1>9. f[n] = g[n]
  BY <1>8
<1>10. QED BY <1>4, <1>6, <1>9 DEF X

LEMMA CollectionCovered ==
    ASSUME NEW R, NEW rs, Len(rs) \in Nat, NEW ss \in Seq(R), Len(rs) = Len(ss), SameCollection(rs, ss)
    PROVE  /\ \A j \in 1..Len(ss) : \E i \in 1..Len(rs) : equalNonCompoundRules(rs[i], ss[j])
           /\ \A i \in 1..Len(rs) : \E j \in 1..Len(ss) : equalNonCompoundRules(rs[i], ss[j])
<1> DEFINE n == Len(rs)
<1>0. n \in Nat /\ Len(ss) = n /\ DOMAIN ss = 1..n
  BY SeqFacts
<1>1. PICK left \in [0..n -> Seq(R)] :
         /\ left[0] = ss /\ \A i \in 1..n : left[i] = LeftAfter(rs[i], left[i - 1])
         /\ left[n] = <<>>
  BY CollectionLoop
<1>2. ASSUME NEW i \in 0..n PROVE left[i] \in Seq(R) /\ Len(left[i]) \in Nat
  <2>1. left[i] \in Seq(R)
    OBVIOUS
  <2>2. QED BY <2>1, SeqFacts
<1>3. Range(<<>>) = {} /\ Len(<<>>) = 0
  BY DEF Range
<1> HIDE DEF n
<1>4. ASSUME NEW j \in 1..n, \A i \in 1..n : ~equalNonCompoundRules(rs[i], ss[j]) PROVE FALSE
  <2> DEFINE G == {i \in 0..n : ss[j] \in Range(left[i])}
  <2>1. 0 \in G
    <3>1. j \in DOMAIN ss /\ 0 \in 0..n
      BY <1>0
    <3>2. ss[j] \in Range(ss)
      BY <3>1 DEF Range
    <3>3. QED BY <1>1, <3>1, <3>2
  <2>2. ASSUME NEW i \in 0..n, i < n, i \in G PROVE i + 1 \in G
    <3>1. i + 1 \in 1..n /\ (i + 1) - 1 = i /\ i + 1 \in 0..n
      <4> HIDE DEF G
      <4>1. QED BY <1>0, <2>2
    <3>2. left[i + 1] = LeftAfter(rs[i + 1], left[i])
      BY <1>1, <3>1
    <3>3. ss[j] \in Range(left[i])
      BY <2>2
    <3>4. \A x \in Range(left[i]) : x \in Range(LeftAfter(rs[i + 1], left[i])) \/ equalNonCompoundRules(rs[i + 1], x)
      BY <1>2, LeftFacts
    <3>5. ss[j] \in Range(left[i + 1])
      BY <1>4, <3>1, <3>2, <3>3, <3>4
    <3>6. QED BY <3>1, <3>5
  <2>3. 0..n \subseteq G
    <3> HIDE DEF G
    <3>1. QED BY <1>0, <2>1, <2>2, Induction
  <2>4. ss[j] \in Range(left[n])
    BY <1>0, <2>3
  <2>5. QED BY <1>1, <1>3, <2>4
<1>5. ASSUME NEW k \in 1..n, \A j \in 1..n : ~equalNonCompoundRules(rs[k], ss[j]) PROVE FALSE
  <2> DEFINE Least(i) == IF i < k THEN n - i ELSE n - i + 1
             G == {i \in 0..n : Range(left[i]) \subseteq Range(ss) /\ Len(left[i]) >= Least(i)}
  <2>1. 0 \in G
    <3>1. 0 < k /\ Least(0) = n /\ 0 \in 0..n
      BY <1>0
    <3>2. Len(left[0]) >= Least(0)
      BY <1>0, <1>1, <3>1
    <3>3. Range(left[0]) \subseteq Range(ss)
      BY <1>1
    <3> HIDE DEF Least
    <3>4. QED BY <3>1, <3>2, <3>3
  <2>2. ASSUME NEW i \in 0..n, i < n, i \in G PROVE i + 1 \in G
    <3>1. i + 1 \in 1..n /\ (i + 1) - 1 = i /\ i + 1 \in 0..n
      <4> HIDE DEF G
      <4>1. QED BY <1>0, <2>2
    <3>2. left[i + 1] = LeftAfter(rs[i + 1], left[i])
      BY <1>1, <3>1
    <3> DEFINE l == left[i]
               a == rs[i + 1]
               h == left[i + 1]
    <3>3. Range(l) \subseteq Range(ss) /\ Len(l) >= Least(i) /\ h = LeftAfter(a, l) /\ Len(l) \in Nat /\ l \in Seq(R)
      <4> HIDE DEF Least
      <4>1. QED BY <1>2, <2>2, <3>2
    <3> HIDE DEF l, a, h
    <3>4. /\ Len(h) \in Nat /\ Range(h) \subseteq Range(l)
          /\ Partners(a, l) = {} => h = l
          /\ Partners(a, l) # {} => Len(h) = Len(l) - 1
      BY <3>3, LeftFacts
    <3>5. Len(h) >= Least(i + 1)
      <4>1. CASE i + 1 # k
        <5>1. Least(i + 1) = Least(i) - 1 /\ Least(i) \in Int
          BY <1>0, <4>1
        <5> HIDE DEF Least
        <5>2. Len(h) >= Len(l) - 1
          BY <3>3, <3>4
        <5>3. QED BY <3>3, <3>4, <5>1, <5>2
      <4>2. CASE i + 1 = k
        <5>1. Least(i + 1) = Least(i) /\ Least(i) \in Int
          BY <1>0, <4>2
        <5>2. Partners(a, l) = {}
          <6>1. ASSUME NEW j \in DOMAIN l, equalNonCompoundRules(a, l[j]) PROVE FALSE
            <7>1. l[j] \in Range(ss)
              BY <3>3 DEF Range
            <7>2. PICK u \in 1..n : l[j] = ss[u]
              BY <1>0, <7>1 DEF Range
            <7>3. QED BY <1>5, <4>2, <6>1, <7>2 DEF a
          <6>2. QED BY <6>1 DEF Partners
        <5> HIDE DEF Least
        <5>3. QED BY <3>3, <3>4, <5>1, <5>2
      <4>3. QED BY <4>1, <4>2
    <3>6. Range(h) \subseteq Range(ss)
      BY <3>3, <3>4
    <3> HIDE DEF Least
    <3>7. QED BY <3>1, <3>5, <3>6 DEF h
  <2>3. 0..n \subseteq G
    <3> HIDE DEF G
    <3>1. QED BY <1>0, <2>1, <2>2, Induction
  <2>4. Len(left[n]) >= Least(n)
    <3> HIDE DEF Least
    <3>1. QED BY <1>0, <2>3
  <2>5. Least(n) = 1
    BY <1>0
  <2> HIDE DEF Least
  <2>6. QED BY <1>1, <1>3, <2>4, <2>5
<1>6. QED BY <1>0, <1>4, <1>5 DEF n

(* Two flat rules of conditions that rules are built from.                 *)
BuiltFlat(r) ==
    Shallow(r) /\ ~r.negated /\ \A i \in 1..Len(r.parts) : r.parts[i].cond \in Conditions

LEMMA BuiltParts ==
    ASSUME NEW r, BuiltFlat(r)
    PROVE  /\ r \in AllRules /\ r.compound /\ r.negated = FALSE /\ Len(r.parts) \in Nat /\ DOMAIN r.parts = 1..Len(r.parts)
           /\ LeafParts(r.parts) /\ FlattenRule(r) = r.parts
           /\ \A i \in 1..Len(r.parts) : r.parts[i] \in AllRules /\ ~r.parts[i].compound /\ r.parts[i].cond \in Conditions
<1>1. r \in AllRules /\ r.compound /\ Shallow(r)
  BY DEF BuiltFlat, Shallow
<1>2. Len(r.parts) \in Nat /\ DOMAIN r.parts = 1..Len(r.parts) /\ r.negated \in BOOLEAN
      /\ \A i \in DOMAIN r.parts : r.parts[i] \in AllRules
  BY <1>1, RuleParts
<1>3. LeafParts(r.parts) /\ FlattenRule(r) = r.parts
  BY <1>1, ShallowParts, FlattenShallow
<1>4. QED BY <1>1, <1>2, <1>3 DEF BuiltFlat, LeafParts

LEMMA EqualPairwise ==
    ASSUME OneType, NEW r, BuiltFlat(r), NEW s, BuiltFlat(s), Len(r.parts) = Len(s.parts), NEW ctx,
           \A i \in 1..Len(r.parts) : equalNonCompoundRules(r.parts[i], s.parts[i])
    PROVE  Evaluate(r, ctx) = Evaluate(s, ctx)
<1>1. r \in AllRules /\ s \in AllRules /\ r.compound /\ s.compound /\ r.negated = s.negated /\ Len(r.parts) \in Nat
  BY BuiltParts
<1>2. ASSUME NEW i \in 1..Len(r.parts)
      PROVE  r.parts[i].relation = s.parts[i].relation /\ Evaluate(r.parts[i], ctx) = Evaluate(s.parts[i], ctx)
  <2> DEFINE x == r.parts[i]
             y == s.parts[i]
  <2>1. x \in AllRules /\ y \in AllRules /\ ~x.compound /\ ~y.compound /\ x.cond \in Conditions /\ y.cond \in Conditions
        /\ equalNonCompoundRules(x, y)
    BY BuiltParts
  <2> HIDE DEF x, y
  <2>2. x.negated = y.negated /\ x.relation = y.relation /\ x.cond = y.cond
    BY <2>1, EqualLeaves
  <2>3. Evaluate(x, ctx) = Evaluate(y, ctx)
    BY <2>1, <2>2, LeavesAlike
  <2>4. QED BY <2>2, <2>3 DEF x, y
<1>3. \A i \in 2..Len(r.parts) : r.parts[i].relation = s.parts[i].relation
  <2>1. \A i \in 2..Len(r.parts) : i \in 1..Len(r.parts)
    BY <1>1
  <2>2. QED BY <1>2, <2>1
<1>4. SameJoins(r, s, ctx)
  BY <1>1, <1>2, <1>3 DEF SameJoins
<1>5. QED BY <1>1, <1>4, SameEvaluation

LEMMA EqualCollections ==
    ASSUME OneType, NEW r, BuiltFlat(r), NEW s, BuiltFlat(s), Len(r.parts) = Len(s.parts), Len(r.parts) > 1, NEW ctx,
           allRulesHaveSameRelation(r.parts), allRulesHaveSameRelation(s.parts), NEW rel, rel = Last(r.parts).relation,
           SameCollection(Joining(r.parts, rel), Joining(s.parts, rel))
    PROVE  Evaluate(r, ctx) <=> Evaluate(s, ctx)
<1> DEFINE p == r.parts
           t == s.parts
           n == Len(p)
           A == Joining(p, rel)
           B == Joining(t, rel)
<1>1. r \in AllRules /\ s \in AllRules /\ n \in Nat /\ n > 1 /\ Len(t) = n /\ LeafParts(p) /\ LeafParts(t) /\ Shallow(r) /\ Shallow(s)
      /\ ~r.negated /\ ~s.negated /\ s.compound
  BY BuiltParts DEF BuiltFlat
<1>2. rel \in {"AND", "OR"} /\ AllJoined(r, rel)
  BY <1>1, JoinedAlike
<1>3. \A i \in 1..n : /\ p[i] \in AllRules /\ ~p[i].compound /\ p[i].cond \in Conditions
                      /\ t[i] \in AllRules /\ ~t[i].compound /\ t[i].cond \in Conditions
  BY <1>1, BuiltParts
<1>4. /\ A \in Seq(AllRules) /\ Len(A) = n
      /\ \A i \in 1..n : /\ A[i] \in AllRules /\ ~A[i].compound /\ A[i].negated = p[i].negated /\ A[i].cond = p[i].cond
                         /\ A[i].relation = IF i = 1 THEN rel ELSE p[i].relation
  BY <1>1, <1>2, FirstJoined
<1>5. /\ B \in Seq(AllRules) /\ Len(B) = n
      /\ \A i \in 1..n : /\ B[i] \in AllRules /\ ~B[i].compound /\ B[i].negated = t[i].negated /\ B[i].cond = t[i].cond
                         /\ B[i].relation = IF i = 1 THEN rel ELSE t[i].relation
  BY <1>1, <1>2, FirstJoined
<1>6. SameCollection(A, B)
  OBVIOUS
<1>7. \A i \in 2..n : p[i].relation = rel
  BY <1>2 DEF AllJoined
<1> HIDE DEF A, B, p, t, n
<1>8. /\ \A j \in 1..n : \E i \in 1..n : equalNonCompoundRules(A[i], B[j])
      /\ \A i \in 1..n : \E j \in 1..n : equalNonCompoundRules(A[i], B[j])
  <2>1. Len(A) \in Nat /\ Len(A) = Len(B)
    BY <1>1, <1>4, <1>5
  <2>2. /\ \A j \in 1..Len(B) : \E i \in 1..Len(A) : equalNonCompoundRules(A[i], B[j])
        /\ \A i \in 1..Len(A) : \E j \in 1..Len(B) : equalNonCompoundRules(A[i], B[j])
    BY <1>5, <1>6, <2>1, CollectionCovered
  <2>3. QED BY <1>4, <1>5, <2>2
<1>9. ASSUME NEW i \in 1..n, NEW j \in 1..n, equalNonCompoundRules(A[i], B[j])
      PROVE  A[i].relation = B[j].relation /\ Evaluate(p[i], ctx) = Evaluate(t[j], ctx)
  <2> DEFINE x == A[i]
             y == B[j]
  <2>1. x \in AllRules /\ ~x.compound /\ x.cond \in Conditions /\ x.negated = p[i].negated /\ x.cond = p[i].cond
    BY <1>3, <1>4
  <2>2. y \in AllRules /\ ~y.compound /\ y.cond \in Conditions /\ y.negated = t[j].negated /\ y.cond = t[j].cond
    BY <1>3, <1>5
  <2>3. equalNonCompoundRules(x, y)
    BY <1>9
  <2> HIDE DEF x, y
  <2>4. x.negated = y.negated /\ x.relation = y.relation /\ x.cond = y.cond
    BY <2>1, <2>2, <2>3, EqualLeaves
  <2>5. Evaluate(p[i], ctx) = Evaluate(t[j], ctx)
    <3>1. p[i].negated = t[j].negated /\ p[i].cond = t[j].cond
      BY <2>1, <2>2, <2>4
    <3>2. QED BY <1>3, <3>1, LeavesAlike
  <2>6. QED BY <2>4, <2>5 DEF x, y
<1>10. ASSUME NEW j \in 2..n PROVE t[j].relation = rel
  <2>1. j \in 1..n /\ j # 1
    BY <1>1
  <2>2. PICK i \in 1..n : equalNonCompoundRules(A[i], B[j])
    BY <1>8, <2>1
  <2>3. A[i].relation = rel
    <3>1. i = 1 \/ i \in 2..n
      BY <1>1
    <3>2. QED BY <1>4, <1>7, <3>1
  <2>4. B[j].relation = t[j].relation
    BY <1>5, <2>1
  <2>5. QED BY <1>9, <2>1, <2>2, <2>3, <2>4
<1>11. AllJoined(s, rel)
  BY <1>1, <1>10 DEF AllJoined, t
<1>12. Covers(r, s, ctx)
  <2>1. ASSUME NEW i \in 1..n PROVE \E j \in 1..n : Evaluate(p[i], ctx) = Evaluate(t[j], ctx)
    BY <1>8, <1>9
  <2>2. QED BY <1>1, <2>1 DEF Covers, p, t, n
<1>13. Covers(s, r, ctx)
  <2>1. ASSUME NEW j \in 1..n PROVE \E i \in 1..n : Evaluate(t[j], ctx) = Evaluate(p[i], ctx)
    BY <1>8, <1>9
  <2>2. QED BY <1>1, <2>1 DEF Covers, p, t, n
<1>14. QED BY <1>1, <1>2, <1>11, <1>12, <1>13, CoveredAlike

LEMMA EqualComplexAgree ==
    ASSUME OneType, NEW r, BuiltFlat(r), NEW s, BuiltFlat(s), EqualComplexRules(r, s), NEW ctx
    PROVE  Evaluate(r, ctx) <=> Evaluate(s, ctx)
<1> DEFINE rel == Last(r.parts).relation
<1>1. FlattenRule(r) = r.parts /\ FlattenRule(s) = s.parts /\ DOMAIN r.parts = 1..Len(r.parts)
  BY BuiltParts
<1>2. /\ Len(r.parts) = Len(s.parts)
      /\ \/ /\ Len(r.parts) > 1 /\ allRulesHaveSameRelation(r.parts) /\ allRulesHaveSameRelation(s.parts)
            /\ SameCollection(Joining(r.parts, rel), Joining(s.parts, rel))
         \/ \A i \in 1..Len(r.parts) : equalNonCompoundRules(r.parts[i], s.parts[i])
  BY <1>1 DEF EqualComplexRules, Joining
<1>3. CASE \A i \in 1..Len(r.parts) : equalNonCompoundRules(r.parts[i], s.parts[i])
  BY <1>2, <1>3, EqualPairwise
<1>4. CASE /\ Len(r.parts) > 1 /\ allRulesHaveSameRelation(r.parts) /\ allRulesHaveSameRelation(s.parts)
           /\ SameCollection(Joining(r.parts, rel), Joining(s.parts, rel))
  BY <1>2, <1>4, EqualCollections
<1>5. QED BY <1>2, <1>3, <1>4

BuiltPart(x) == x \in AllRules /\ ~x.compound /\ x.cond \in Conditions
BuiltSeq(ps, n) ==
    ps \in [1..n -> AllRules] /\ \A i \in 1..n : BuiltPart(ps[i]) /\ (i # 1 => ps[i].relation # "")

LEMMA RuleSeq == ASSUME NEW n \in Nat, NEW f \in [1..n -> AllRules] PROVE f \in Seq(AllRules) /\ Len(f) = n /\ DOMAIN f = 1..n
OBVIOUS

LEMMA MakeBuilt ==
    ASSUME NEW n \in Nat, NEW ps, BuiltSeq(ps, n) PROVE BuiltFlat(Compound(ps))
<1>1. ps \in [1..n -> AllRules] /\ \A i \in 1..n : BuiltPart(ps[i]) /\ (i # 1 => ps[i].relation # "")
  BY DEF BuiltSeq
<1>2. ps \in Seq(AllRules) /\ Len(ps) = n /\ DOMAIN ps = 1..n
  BY <1>1, RuleSeq
<1>3. \A i \in 2..n : i \in 1..n /\ i # 1
  OBVIOUS
<1>4. LeafParts(ps)
  BY <1>1, <1>2, <1>3 DEF LeafParts, BuiltPart
<1>5. Shallow(Compound(ps)) /\ Compound(ps).parts = ps /\ ~Compound(ps).negated
  BY <1>4, MakeShallow
<1>6. QED BY <1>1, <1>2, <1>5 DEF BuiltFlat, BuiltPart

LEMMA ReplacedPart ==
    ASSUME NEW n, NEW b, BuiltSeq(b, n), NEW i \in 1..n, NEW x, BuiltPart(x), i # 1 => x.relation # "", NEW ps,
           ps = [b EXCEPT ![i] = x]
    PROVE  BuiltSeq(ps, n)
BY DEF BuiltSeq, BuiltPart

LEMMA ChangedPart ==
    ASSUME NEW x, BuiltPart(x), NEW rel \in {"", "AND", "OR"}
    PROVE  /\ BuiltPart([x EXCEPT !.relation = rel]) /\ [x EXCEPT !.relation = rel].relation = rel
           /\ BuiltPart(Not(x)) /\ Not(x).relation = x.relation
<1>1. x \in AllRules /\ x \in Rules[MaxDepth] /\ MaxDepth \in 0..MaxDepth
  BY DepthOK DEF BuiltPart, AllRules
<1>2. [x EXCEPT !.relation = rel] \in Rules[MaxDepth] /\ Not(x) \in Rules[MaxDepth]
  BY <1>1, SameLevel
<1>3. /\ [x EXCEPT !.relation = rel].compound = x.compound /\ [x EXCEPT !.relation = rel].cond = x.cond
      /\ [x EXCEPT !.relation = rel].relation = rel
  BY <1>1, RuleShape DEF RuleOf
<1>4. Not(x).compound = x.compound /\ Not(x).cond = x.cond /\ Not(x).relation = x.relation
  BY <1>1, SameFields
<1>5. QED BY <1>2, <1>3, <1>4 DEF BuiltPart, AllRules

LEMMA PermutedBuilt ==
    ASSUME NEW r, BuiltFlat(r), NEW ps \in Permuted(r) PROVE BuiltSeq(ps, Len(r.parts))
<1> DEFINE p == r.parts
           n == Len(p)
<1>1. n \in Nat /\ DOMAIN p = 1..n
  BY BuiltParts
<1>2. \A i \in 1..n : BuiltPart(p[i])
  BY BuiltParts DEF BuiltPart
<1>3. \A i \in 1..n : p[i].relation \in {"", "AND", "OR"} /\ (i # 1 => p[i].relation # "")
  <2>1. \A i \in 2..n : p[i].relation # ""
    BY BuiltParts DEF LeafParts
  <2>2. \A i \in 1..n : i # 1 => i \in 2..n
    BY <1>1
  <2>3. \A i \in 1..n : p[i].relation \in {"", "AND", "OR"}
    BY <1>2, RuleParts DEF BuiltPart
  <2>4. QED BY <2>1, <2>2, <2>3
<1>4. PICK f \in Bijection(1..n, 1..n) : ps = [i \in 1..n |-> [p[f[i]] EXCEPT !.relation = p[i].relation]]
  BY <1>1 DEF Permuted
<1>5. f \in [1..n -> 1..n]
  BY <1>4 DEF Bijection, Injection
<1> HIDE DEF p, n
<1>6. ASSUME NEW i \in 1..n
      PROVE  BuiltPart(ps[i]) /\ ps[i] \in AllRules /\ (i # 1 => ps[i].relation # "")
  <2> DEFINE x == p[f[i]]
             rel == p[i].relation
  <2>1. ps[i] = [x EXCEPT !.relation = rel]
    BY <1>4
  <2>2. BuiltPart(x) /\ rel \in {"", "AND", "OR"} /\ (i # 1 => rel # "")
    BY <1>2, <1>3, <1>5
  <2> HIDE DEF x, rel
  <2>3. BuiltPart([x EXCEPT !.relation = rel]) /\ [x EXCEPT !.relation = rel].relation = rel
    BY <2>2, ChangedPart
  <2>4. BuiltPart(ps[i]) /\ ps[i].relation = rel
    BY <2>1, <2>3
  <2>5. QED BY <2>2, <2>4 DEF BuiltPart
<1>7. ps \in [1..n -> AllRules]
  <2>1. \A i \in 1..n : ps[i] \in AllRules
    BY <1>6
  <2>2. QED BY <1>4, <2>1
<1>8. BuiltSeq(ps, n)
  BY <1>6, <1>7 DEF BuiltSeq
<1>9. QED BY <1>8 DEF n, p

LEMMA TwinsBuilt ==
    ASSUME NEW r, BuiltFlat(r), NEW s \in Twins(r) PROVE BuiltFlat(s)
<1> DEFINE n == Len(r.parts)
<1>1. n \in Nat /\ DOMAIN r.parts = 1..n
  BY BuiltParts
<1>2. ASSUME NEW ps \in Permuted(r) PROVE BuiltSeq(ps, n)
  BY PermutedBuilt
<1>3. \/ \E ps \in Permuted(r) : s = Compound(ps)
      \/ \E ps \in Permuted(r), i \in 2..n, rel \in {"AND", "OR"} : s = Compound([ps EXCEPT ![i].relation = rel])
      \/ \E ps \in Permuted(r), i \in 1..n : s = Compound([ps EXCEPT ![i] = Not(@)])
  <2> DEFINE A(ps, i, rel) == Compound([ps EXCEPT ![i].relation = rel])
             B(ps, i) == Compound([ps EXCEPT ![i] = Not(@)])
             C(ps) == Compound(ps)
  <2>1. Twins(r) = {C(ps) : ps \in Permuted(r)}
                   \cup {A(ps, i, rel) : ps \in Permuted(r), i \in 2..Len(r.parts), rel \in {"AND", "OR"}}
                   \cup {B(ps, i) : ps \in Permuted(r), i \in DOMAIN r.parts}
    BY DEF Twins
  <2> HIDE DEF A, B, C
  <2>2. \/ \E ps \in Permuted(r) : s = C(ps)
        \/ \E ps \in Permuted(r), i \in 2..n, rel \in {"AND", "OR"} : s = A(ps, i, rel)
        \/ \E ps \in Permuted(r), i \in 1..n : s = B(ps, i)
    BY <1>1, <2>1
  <2>3. QED BY <2>2 DEF A, B, C
<1> HIDE DEF n
<1>4. ASSUME NEW ps \in Permuted(r), NEW i \in 2..n, NEW rel \in {"AND", "OR"}
      PROVE  BuiltSeq([ps EXCEPT ![i].relation = rel], n)
  <2>1. BuiltSeq(ps, n) /\ i \in 1..n
    BY <1>1, <1>2
  <2>2. BuiltPart(ps[i])
    BY <2>1 DEF BuiltSeq
  <2> DEFINE x == [ps[i] EXCEPT !.relation = rel]
             q == [ps EXCEPT ![i].relation = rel]
  <2>3. BuiltPart(x) /\ x.relation # ""
    BY <2>2, ChangedPart
  <2>4. q = [ps EXCEPT ![i] = x]
    OBVIOUS
  <2> HIDE DEF x, q
  <2>5. BuiltSeq(q, n)
    BY <2>1, <2>3, <2>4, ReplacedPart
  <2>6. QED BY <2>5 DEF q
<1>5. ASSUME NEW ps \in Permuted(r), NEW i \in 1..n PROVE BuiltSeq([ps EXCEPT ![i] = Not(@)], n)
  <2>1. BuiltSeq(ps, n)
    BY <1>2
  <2>2. BuiltPart(ps[i]) /\ (i # 1 => ps[i].relation # "")
    BY <2>1 DEF BuiltSeq
  <2> DEFINE x == Not(ps[i])
             q == [ps EXCEPT ![i] = Not(@)]
  <2>3. BuiltPart(x) /\ x.relation = ps[i].relation
    BY <2>2, ChangedPart
  <2>4. q = [ps EXCEPT ![i] = x]
    OBVIOUS
  <2> HIDE DEF x, q
  <2>5. BuiltSeq(q, n)
    BY <2>1, <2>2, <2>3, <2>4, ReplacedPart
  <2>6. QED BY <2>5 DEF q
<1>6. \E ps : s = Compound(ps) /\ BuiltSeq(ps, n)
  BY <1>2, <1>3, <1>4, <1>5
<1>7. QED BY <1>1, <1>6, MakeBuilt

-----------------------------------------------------------------------------
(* The conditions of rules that are put together.                          *)
LEMMA ConditionsWithin ==
    ASSUME NEW r \in AllRules, NEW C
    PROVE  /\ r.compound => (ConditionsOf(r) \subseteq C <=> \A i \in 1..Len(r.parts) : ConditionsOf(r.parts[i]) \subseteq C)
           /\ ~r.compound => (ConditionsOf(r) \subseteq C <=> r.cond \in C)
<1>1. DOMAIN r.parts = 1..Len(r.parts)
  BY RuleParts
<1>2. QED BY <1>1, ConditionsUnfold

LEMMA SameConditionsOf ==
    ASSUME NEW r \in AllRules, NEW rel \in {"", "AND", "OR"}
    PROVE  /\ [r EXCEPT !.relation = rel] \in AllRules /\ ConditionsOf([r EXCEPT !.relation = rel]) = ConditionsOf(r)
           /\ Not(r) \in AllRules /\ ConditionsOf(Not(r)) = ConditionsOf(r)
<1> DEFINE a == [r EXCEPT !.relation = rel]
           b == Not(r)
<1>1. r \in Rules[MaxDepth] /\ MaxDepth \in 0..MaxDepth
  BY DepthOK DEF AllRules
<1>2. a \in AllRules /\ b \in AllRules
  BY <1>1, SameLevel DEF AllRules
<1>3. /\ a.compound = r.compound /\ a.parts = r.parts /\ a.cond = r.cond
      /\ b.compound = r.compound /\ b.parts = r.parts /\ b.cond = r.cond
  BY SameFields
<1> HIDE DEF a, b
<1>4. ConditionsOf(a) = ConditionsOf(r) /\ ConditionsOf(b) = ConditionsOf(r)
  <2>1. ASSUME NEW q \in AllRules, q.compound = r.compound, q.parts = r.parts, q.cond = r.cond
        PROVE  ConditionsOf(q) = ConditionsOf(r)
    <3>1. /\ ~q.compound => ConditionsOf(q) = {q.cond}
          /\ q.compound => ConditionsOf(q) = UNION {ConditionsOf(q.parts[i]) : i \in DOMAIN q.parts}
      BY ConditionsUnfold
    <3>2. /\ ~r.compound => ConditionsOf(r) = {r.cond}
          /\ r.compound => ConditionsOf(r) = UNION {ConditionsOf(r.parts[i]) : i \in DOMAIN r.parts}
      BY ConditionsUnfold
    <3>3. {ConditionsOf(q.parts[i]) : i \in DOMAIN q.parts} = {ConditionsOf(r.parts[i]) : i \in DOMAIN r.parts}
      BY <2>1
    <3>4. UNION {ConditionsOf(q.parts[i]) : i \in DOMAIN q.parts} = UNION {ConditionsOf(r.parts[i]) : i \in DOMAIN r.parts}
      BY <3>3
    <3>5. CASE r.compound
      BY <2>1, <3>1, <3>2, <3>4, <3>5
    <3>6. CASE ~r.compound
      BY <2>1, <3>1, <3>2, <3>6
    <3>7. QED BY <3>5, <3>6
  <2>2. QED BY <1>2, <1>3, <2>1
<1>5. QED BY <1>2, <1>4 DEF a, b

LEMMA AddedConditions ==
    ASSUME NEW d \in 1..MaxDepth, NEW base \in Rules[d], NEW part \in Rules[d - 1], NEW rel \in {"AND", "OR"}, NEW C,
           ConditionsOf(base) \subseteq C, ConditionsOf(part) \subseteq C
    PROVE  ConditionsOf(addRelatedCompound(base, part, rel)) \subseteq C
<1> DEFINE x == addRelatedCompound(base, part, rel)
           n == Len(PartsOf(base))
<1>0. d \in 0..MaxDepth /\ d - 1 \in 0..MaxDepth
  BY DepthOK
<1>1. base \in AllRules /\ part \in AllRules
  BY <1>0, RulesAreRules
<1>2. Adds(x, base, part, rel)
  BY AddedParts
<1>3. /\ x \in AllRules /\ x.compound /\ n \in Nat
      /\ Len(x.parts) = n + 1 /\ x.parts[n + 1] = [part EXCEPT !.relation = rel]
      /\ \A i \in 1..n : x.parts[i] = PartsOf(base)[i]
  BY <1>2 DEF Adds
<1> HIDE DEF x
<1>4. ASSUME NEW i \in 1..n PROVE ConditionsOf(x.parts[i]) \subseteq C
  <2>1. CASE base.compound
    <3>1. PartsOf(base) = base.parts
      BY <2>1 DEF PartsOf
    <3>2. \A k \in 1..Len(base.parts) : ConditionsOf(base.parts[k]) \subseteq C
      BY <1>1, <2>1, ConditionsWithin
    <3>3. QED BY <1>3, <3>1, <3>2
  <2>2. CASE ~base.compound
    <3>1. PartsOf(base) = <<base>>
      BY <2>2 DEF PartsOf
    <3>2. n = 1 /\ PartsOf(base)[1] = base
      BY <3>1
    <3>3. i = 1
      BY <3>2
    <3>4. x.parts[i] = base
      BY <1>3, <3>2, <3>3
    <3>5. QED BY <3>4
  <2>3. QED BY <2>1, <2>2
<1>5. ConditionsOf(x.parts[n + 1]) \subseteq C
  <2> DEFINE q == [part EXCEPT !.relation = rel]
  <2>1. ConditionsOf(q) = ConditionsOf(part)
    BY <1>1, SameConditionsOf
  <2>2. x.parts[n + 1] = q
    BY <1>3
  <2> HIDE DEF q
  <2>3. QED BY <2>1, <2>2
<1> HIDE DEF n
<1>6. \A i \in 1..Len(x.parts) : i \in 1..n \/ i = n + 1
  BY <1>3
<1>7. \A i \in 1..Len(x.parts) : ConditionsOf(x.parts[i]) \subseteq C
  BY <1>4, <1>5, <1>6
<1>8. ConditionsOf(x) \subseteq C
  BY <1>3, <1>7, ConditionsWithin
<1>9. QED BY <1>8 DEF x

LEMMA LeafConditions ==
    ASSUME NEW c \in AllConditions
    PROVE  /\ Leaf(c) \in Rules[0] /\ Leaf(c) \in AllRules /\ ConditionsOf(Leaf(c)) = {c}
           /\ Not(Leaf(c)) \in AllRules /\ ConditionsOf(Not(Leaf(c))) = {c}
<1>1. Leaf(c) \in Rules[0] /\ Leaf(c) \in AllRules
  BY LeafType, DepthOK, RulesAreRules
<1>2. ~Leaf(c).compound /\ Leaf(c).cond = c
  BY DEF Leaf
<1> DEFINE r == Leaf(c)
<1> HIDE DEF r
<1>3. ConditionsOf(r) = {c}
  BY <1>1, <1>2, ConditionsUnfold DEF r
<1>4. Not(r) \in AllRules /\ ConditionsOf(Not(r)) = ConditionsOf(r)
  BY <1>1, SameConditionsOf DEF r
<1>5. QED BY <1>1, <1>3, <1>4 DEF r

LEMMA OperandConditions == \A x \in Operands : ConditionsOf(x) \subseteq Conditions
<1>0. 1 \in 1..MaxDepth /\ 1 \in 0..MaxDepth /\ 1 - 1 = 0
  BY DepthOK
<1>1. ASSUME NEW c \in Conditions
      PROVE  /\ ConditionsOf(Leaf(c)) \subseteq Conditions /\ ConditionsOf(Not(Leaf(c))) \subseteq Conditions
             /\ Leaf(c) \in Rules[0] /\ Leaf(c) \in Rules[1]
  <2>1. c \in AllConditions
    BY ConditionsOK
  <2>2. Chain(Leaf(c), 1)
    BY <2>1, LeafOf DEF GoodLeaf
  <2>3. QED BY <2>1, <2>2, LeafConditions DEF Chain
<1>2. ASSUME NEW q \in Nested
      PROVE  /\ ConditionsOf(AndRules(Leaf(q[1]), Leaf(q[2]))) \subseteq Conditions
             /\ ConditionsOf(Not(OrRules(Leaf(q[1]), Leaf(q[2])))) \subseteq Conditions
  <2> DEFINE a == Leaf(q[1])
             b == Leaf(q[2])
  <2>1. q[1] \in Conditions /\ q[2] \in Conditions
    BY ConditionsOK
  <2>2. a \in Rules[1] /\ b \in Rules[0] /\ ConditionsOf(a) \subseteq Conditions /\ ConditionsOf(b) \subseteq Conditions
    BY <1>1, <2>1
  <2> HIDE DEF a, b
  <2>3. /\ ConditionsOf(addRelatedCompound(a, b, "AND")) \subseteq Conditions
        /\ ConditionsOf(addRelatedCompound(a, b, "OR")) \subseteq Conditions
    BY <1>0, <2>2, AddedConditions
  <2>4. addRelatedCompound(a, b, "OR") \in AllRules
    <3>1. addRelatedCompound(a, b, "OR") \in Rules[1]
      BY <1>0, <2>2, AddType
    <3>2. QED BY <1>0, <3>1, RulesAreRules
  <2>5. ConditionsOf(Not(OrRules(a, b))) \subseteq Conditions
    BY <2>3, <2>4, SameConditionsOf DEF OrRules
  <2>6. QED BY <2>3, <2>5 DEF AndRules, a, b
<1>3. QED BY <1>1, <1>2 DEF Operands, Leaves

(* As long as no filter was made, the rule is built from Conditions.       *)
BuiltInv == RuleInv /\ (filter = <<>> => ConditionsOf(rule) \subseteq Conditions)

LEMMA BuiltInitInv == Init => BuiltInv
<1> SUFFICES ASSUME Init PROVE BuiltInv
  OBVIOUS
<1>1. PICK c \in Conditions : rule = Leaf(c)
  BY DEF Init
<1>2. ConditionsOf(rule) \subseteq Conditions
  BY <1>1, ConditionsOK, LeafConditions
<1>3. QED BY <1>2, RuleInitInv DEF BuiltInv

LEMMA BuiltStepInv == BuiltInv /\ [Next]_vars => BuiltInv'
<1> SUFFICES ASSUME BuiltInv, [Next]_vars PROVE BuiltInv'
  OBVIOUS
<1>0. /\ rule \in AllRules /\ rule \in Rules[MaxDepth] /\ MaxDepth \in 1..MaxDepth /\ RuleInv'
      /\ (filter = <<>> => ConditionsOf(rule) \subseteq Conditions)
  BY DepthOK, RuleStepInv DEF BuiltInv, RuleInv, AllRules
<1>1. ASSUME NEW x \in Operands, NEW rel \in {"AND", "OR"}, filter = <<>>
      PROVE  ConditionsOf(addRelatedCompound(rule, x, rel)) \subseteq Conditions
  <2>1. x \in Rules[MaxDepth - 1] /\ ConditionsOf(x) \subseteq Conditions
    BY OperandsType, OperandConditions
  <2>2. QED BY <1>0, <1>1, <2>1, AddedConditions
<1>2. ASSUME NEW x \in Operands, AndStep(x) \/ OrStep(x) PROVE BuiltInv'
  BY <1>0, <1>1, <1>2 DEF AndStep, OrStep, Building, AndRules, OrRules, BuiltInv
<1>3. CASE NestStep
  <2> DEFINE q == Compound(<<rule>>)
  <2>1. q \in AllRules
    BY <1>0, <1>3, NestedType DEF NestStep
  <2>2. q.compound /\ q.parts = <<rule>>
    BY DEF Compound
  <2>3. filter = <<>> /\ rule' = q
    BY <1>3 DEF NestStep, Building
  <2> HIDE DEF q
  <2>4. Len(q.parts) = 1 /\ q.parts[1] = rule
    BY <2>2
  <2>5. \A i \in 1..Len(q.parts) : ConditionsOf(q.parts[i]) \subseteq Conditions
    BY <1>0, <2>3, <2>4
  <2>6. ConditionsOf(q) \subseteq Conditions
    BY <2>1, <2>2, <2>5, ConditionsWithin
  <2>7. QED BY <1>0, <2>3, <2>6 DEF BuiltInv
<1>4. CASE NotStep
  <2>1. ConditionsOf(Not(rule)) = ConditionsOf(rule)
    BY <1>0, SameConditionsOf
  <2>2. QED BY <1>0, <1>4, <2>1 DEF NotStep, Building, BuiltInv
<1>5. ASSUME NEW p \in Filters, TimeFilterStep(p) PROVE BuiltInv'
  <2>1. filter' # <<>>
    BY <1>5 DEF TimeFilterStep
  <2>2. QED BY <1>0, <2>1 DEF BuiltInv
<1>6. ASSUME NEW p \in RiFilters, RiFilterStep(p) PROVE BuiltInv'
  <2>1. filter' # <<>>
    BY <1>6 DEF RiFilterStep
  <2>2. QED BY <1>0, <2>1 DEF BuiltInv
<1>7. CASE UNCHANGED vars
  BY <1>0, <1>7 DEF vars, BuiltInv
<1>8. QED BY <1>2, <1>3, <1>4, <1>5, <1>6, <1>7 DEF Next

LEMMA EqualRulesOK == ASSUME OneType PROVE BuiltInv => EqualRulesAgree
<1> SUFFICES ASSUME BuiltInv, filter = <<>>, Flat(rule), NEW s \in Twins(rule), EqualComplexRules(rule, s), NEW ctx \in Contexts
             PROVE  Evaluate(rule, ctx) <=> Evaluate(s, ctx)
  BY DEF EqualRulesAgree
<1>1. rule \in AllRules /\ ConditionsOf(rule) \subseteq Conditions
  BY DEF BuiltInv, RuleInv
<1>2. Shallow(rule) /\ ~rule.negated /\ rule.compound
  BY <1>1 DEF Flat, Shallow
<1>3. ASSUME NEW i \in 1..Len(rule.parts) PROVE rule.parts[i].cond \in Conditions
  <2>1. rule.parts[i] \in AllRules /\ ~rule.parts[i].compound
    <3>1. i \in DOMAIN rule.parts /\ rule.parts[i] \in AllRules
      BY <1>1, RuleParts
    <3>2. QED BY <1>2, <3>1 DEF Shallow
  <2>2. ConditionsOf(rule.parts[i]) \subseteq Conditions
    BY <1>1, <1>2, ConditionsWithin
  <2>3. QED BY <2>1, <2>2, ConditionsWithin
<1>4. BuiltFlat(rule)
  BY <1>2, <1>3 DEF BuiltFlat
<1>5. BuiltFlat(s)
  BY <1>4, TwinsBuilt
<1>6. QED BY <1>4, <1>5, EqualComplexAgree

(* Two rules without nesting that EqualComplexRules calls equal select the *)
(* same devices, whatever the order of their parts, if conditions that it  *)
(* cannot tell apart are of one type.                                      *)
THEOREM EqualRulesSelectAlike == ASSUME OneType PROVE Spec => []EqualRulesAgree
<1>1. QED BY BuiltInitInv, BuiltStepInv, EqualRulesOK, PTL DEF Spec

(* What was done to a rule last: it was normalised from a form that was    *)
(* not refused, or a list that it names was renamed.                       *)
THEOREM EditInvariant == EditSpec => []EditInv
<1>1. QED BY EditInitInv, EditStepInv, PTL DEF EditSpec

(* Nothing that the admin service does to a rule changes the devices that  *)
(* it selects, for any rules, spellings, lists and requests: normalising   *)
(* its conditions, taking an equal rule for it, dropping a condition given *)
(* twice, renaming a list.                                                 *)
THEOREM EditsAreSound == ASSUME OneType PROVE Spec /\ EditSpec => []EditsKeepSelection
<1>1. EqualRulesAgree /\ EditInv => EditsKeepSelection
  BY NormalisedOK, RenameOK, EqualsOK, DuplicatesOK DEF EditsKeepSelection
<1>2. QED BY <1>1, EqualRulesSelectAlike, EditInvariant, PTL

=============================================================================
