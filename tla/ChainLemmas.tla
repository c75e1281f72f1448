----------------------------- MODULE ChainLemmas -----------------------------
(***************************************************************************)
(* What the proofs about linked structures share: induction on the natural *)
(* numbers as the least member of a set, and the value of Chain, a         *)
(* function that is defined by recursion along the links.                  *)
(***************************************************************************)
EXTENDS Chains, FiniteSetTheorems, WellFoundedInduction, TLAPS

(* A set of natural numbers has a least member. *)
Less == OpToRel(<, Nat)

LEMMA LessIs == \A x, y \in Nat : y < x => <<y, x>> \in Less
BY DEF OpToRel, Less

LEMMA LessIsWellFounded == IsWellFoundedOn(Less, Nat)
BY NatLessThanWellFounded DEF Less

LEMMA Least ==
  ASSUME NEW T \in SUBSET Nat, T # {}
  PROVE  \E x \in T : \A y \in T : x <= y
<1>1. PICK x \in T : \A y \in T : ~(<<y, x>> \in Less)
  BY LessIsWellFounded, WFMin
<1>2. ASSUME NEW y \in T PROVE x <= y
  <2>1. x \in Nat /\ y \in Nat
    OBVIOUS
  <2>2. ~(y < x)
    BY <1>1, <2>1, LessIs
  <2>. QED
    BY <2>1, <2>2
<1>. QED
  BY <1>2

\* A sequence of nodes of which each is linked to the next one, and the last
\* to null, is the chain: no other function satisfies the recursion.
LEMMA PathIsChain ==
  ASSUME NEW S, NEW f, NEW first, NEW null, null \notin S, NEW p \in Seq(S),
         IsFiniteSet(DOMAIN f), Len(p) <= Cardinality(DOMAIN f),
         f[first] = IF Len(p) = 0 THEN null ELSE p[1],
         \A i \in 1 .. Len(p) : f[p[i]] = IF i < Len(p) THEN p[i + 1] ELSE null
  PROVE  Chain(f, first, null) = p
<1>. DEFINE B == Cardinality(DOMAIN f)
            G(w) == [k \in 0 .. B |-> IF k = 0 THEN f[first]
                                       ELSE IF w[k - 1] = null THEN null ELSE f[w[k - 1]]]
            walk == CHOOSE w : w = G(w)
            g == [k \in 0 .. B |-> IF k < Len(p) THEN p[k + 1] ELSE null]
<1>1. B \in Nat /\ Len(p) \in Nat /\ \A i \in 1 .. Len(p) : p[i] \in S /\ p[i] # null
  BY FS_CardinalityType
<1>2. Chain(f, first, null)
        = [k \in 1 .. Cardinality({k \in 1 .. B : walk[k - 1] # null}) |-> walk[k - 1]]
  BY DEF Chain
<1>. HIDE DEF B
<1>3. g = G(g)
  <2>1. ASSUME NEW k \in 0 .. B
        PROVE  g[k] = IF k = 0 THEN f[first] ELSE IF g[k - 1] = null THEN null ELSE f[g[k - 1]]
    <3>1. CASE k = 0
      BY <1>1, <3>1
    <3>2. CASE k # 0
      <4>1. k - 1 \in 0 .. B /\ k \in Nat /\ k - 1 \in Nat /\ (k - 1) + 1 = k
        BY <1>1, <3>2
      <4>2. CASE k - 1 < Len(p)
        <5>1. g[k - 1] = p[k] /\ k \in 1 .. Len(p)
          BY <1>1, <4>1, <4>2
        <5>2. f[p[k]] = IF k < Len(p) THEN p[k + 1] ELSE null
          BY <5>1
        <5>. QED
          BY <1>1, <3>2, <5>1, <5>2
      <4>3. CASE ~(k - 1 < Len(p))
        <5>1. g[k - 1] = null /\ ~(k < Len(p))
          BY <1>1, <4>1, <4>3
        <5>. QED
          BY <3>2, <5>1
      <4>. QED
        BY <4>2, <4>3
    <3>. QED
      BY <3>1, <3>2
  <2>. HIDE DEF g
  <2>2. DOMAIN g = 0 .. B /\ g = [k \in 0 .. B |-> g[k]]
    BY DEF g
  <2>. QED
    BY <2>1, <2>2
<1>4. walk = G(walk)
  BY <1>3
<1>. HIDE DEF walk
<1>5. \A k \in 0 .. B : walk[k] = g[k]
  <2>. DEFINE T == {k \in 0 .. B : walk[k] # g[k]}
  <2>1. SUFFICES ASSUME T # {} PROVE FALSE
    OBVIOUS
  <2>2. T \in SUBSET Nat
    BY <1>1
  <2>. HIDE DEF T
  <2>3. PICK k \in T : \A j \in T : k <= j
    BY <2>1, <2>2, Least
  <2>4. k \in 0 .. B /\ walk[k] # g[k] /\ k \in Nat
    BY <1>1, <2>3 DEF T
  <2>5. /\ walk[k] = IF k = 0 THEN f[first] ELSE IF walk[k - 1] = null THEN null ELSE f[walk[k - 1]]
        /\ g[k] = IF k = 0 THEN f[first] ELSE IF g[k - 1] = null THEN null ELSE f[g[k - 1]]
    <3>. HIDE DEF g
    <3>. QED
      BY <1>3, <1>4, <2>4
  <2>6. k # 0
    BY <2>4, <2>5
  <2>7. k - 1 \in 0 .. B /\ ~(k <= k - 1)
    BY <1>1, <2>4, <2>6
  <2>8. walk[k - 1] = g[k - 1]
    BY <2>3, <2>7 DEF T
  <2>. QED
    BY <2>4, <2>5, <2>8
<1>6. {k \in 1 .. B : walk[k - 1] # null} = 1 .. Len(p)
  <2>1. ASSUME NEW k \in 1 .. B PROVE walk[k - 1] # null <=> k \in 1 .. Len(p)
    <3>1. k - 1 \in 0 .. B /\ (k - 1) + 1 = k /\ k \in Nat
      BY <1>1
    <3>2. walk[k - 1] = IF k - 1 < Len(p) THEN p[k] ELSE null
      BY <1>5, <3>1
    <3>. QED
      BY <1>1, <3>1, <3>2
  <2>2. 1 .. Len(p) \subseteq 1 .. B
    BY <1>1 DEF B
  <2>. QED
    BY <2>1, <2>2
<1>7. Cardinality(1 .. Len(p)) = Len(p)
  BY <1>1, FS_Interval
<1>8. ASSUME NEW k \in 1 .. Len(p) PROVE walk[k - 1] = p[k]
  <2>1. k - 1 \in 0 .. B /\ (k - 1) + 1 = k /\ k - 1 < Len(p)
    BY <1>1 DEF B
  <2>. QED
    BY <1>5, <2>1
<1>9. Chain(f, first, null) = [k \in 1 .. Len(p) |-> walk[k - 1]]
  BY <1>2, <1>6, <1>7
<1>10. p = [k \in 1 .. Len(p) |-> p[k]]
  OBVIOUS
<1>. QED
  BY <1>8, <1>9, <1>10

\* What stands in a chain is the null pointer or has a link to it.
LEMMA ChainIn ==
  ASSUME NEW D, NEW null, NEW f \in [D -> D \cup {null}], NEW first \in D, IsFiniteSet(D)
  PROVE  LET c == Chain(f, first, null)
         IN  /\ \E n \in Nat : DOMAIN c = 1 .. n
             /\ \A i \in DOMAIN c : c[i] = null \/ \E d \in D : f[d] = c[i]
<1>. DEFINE R == D \cup {null}
            G(n, w) == [k \in 0 .. n |-> IF k = 0 THEN f[first]
                                          ELSE IF w[k - 1] = null THEN null ELSE f[w[k - 1]]]
            B == Cardinality(DOMAIN f)
            walk == CHOOSE w : w = G(B, w)
            T == {n \in Nat : ~\E w \in [0 .. n -> R] : w = G(n, w)}
<1>1. B \in Nat
  BY FS_CardinalityType
<1>2. Chain(f, first, null)
        = [k \in 1 .. Cardinality({k \in 1 .. B : walk[k - 1] # null}) |-> walk[k - 1]]
  BY DEF Chain
<1>. HIDE DEF B
<1>3. T = {}
  <2>. SUFFICES ASSUME T # {} PROVE FALSE
    OBVIOUS
  <2>1. T \in SUBSET Nat
    OBVIOUS
  <2>. HIDE DEF T
  <2>2. PICK n \in T : \A m \in T : n <= m
    BY <2>1, Least
  <2>3. n \in Nat /\ ~\E w \in [0 .. n -> R] : w = G(n, w)
    BY <2>2 DEF T
  <2>4. CASE n = 0
    <3>. DEFINE w == [k \in 0 .. 0 |-> f[first]]
    <3>1. w \in [0 .. 0 -> R] /\ w = G(0, w)
      OBVIOUS
    <3>. QED
      BY <2>3, <2>4, <3>1
  <2>5. CASE n # 0
    <3>1. n - 1 \in Nat /\ ~(n <= n - 1)
      BY <2>3, <2>5
    <3>2. n - 1 \notin T
      BY <2>2, <3>1
    <3>3. PICK w \in [0 .. n - 1 -> R] : w = G(n - 1, w)
      BY <3>1, <3>2 DEF T
    <3>. DEFINE x == IF w[n - 1] = null THEN null ELSE f[w[n - 1]]
                v == [k \in 0 .. n |-> IF k = n THEN x ELSE w[k]]
    <3>4. n - 1 \in 0 .. n - 1 /\ x \in R
      BY <3>1
    <3>5. \A k \in 0 .. n : k = n \/ k \in 0 .. n - 1
      BY <2>3
    <3>. HIDE DEF x
    <3>6. v \in [0 .. n -> R]
      BY <3>4, <3>5
    <3>7. ASSUME NEW k \in 0 .. n
          PROVE  v[k] = IF k = 0 THEN f[first] ELSE IF v[k - 1] = null THEN null ELSE f[v[k - 1]]
      <4>1. CASE k = n
        <5>1. k - 1 \in 0 .. n /\ k - 1 # n /\ k # 0
          BY <2>3, <2>5, <3>1, <4>1
        <5>2. v[k - 1] = w[n - 1] /\ v[k] = x
          BY <4>1, <5>1
        <5>. QED
          BY <5>1, <5>2 DEF x
      <4>2. CASE k # n
        <5>1. k \in 0 .. n - 1 /\ v[k] = w[k]
          BY <3>5, <4>2
        <5>2. w[k] = IF k = 0 THEN f[first] ELSE IF w[k - 1] = null THEN null ELSE f[w[k - 1]]
          BY <3>3, <5>1
        <5>3. k # 0 => k - 1 \in 0 .. n /\ k - 1 # n
          BY <2>3, <5>1
        <5>4. k # 0 => v[k - 1] = w[k - 1]
          BY <5>3
        <5>. QED
          BY <5>1, <5>2, <5>4
      <4>. QED
        BY <4>1, <4>2
    <3>. HIDE DEF v
    <3>8. v = [k \in 0 .. n |-> v[k]]
      BY <3>6
    <3>9. v = G(n, v)
      BY <3>7, <3>8
    <3>. QED
      BY <2>3, <3>6, <3>9
  <2>. QED
    BY <2>4, <2>5
<1>4. walk = G(B, walk)
  <2>1. ~(B \in T)
    BY <1>3
  <2>2. \E w \in [0 .. B -> R] : w = G(B, w)
    BY <1>1, <2>1
  <2>3. \E w : w = G(B, w)
    BY <2>2
  <2>. QED
    BY <2>3
<1>. HIDE DEF walk, T
<1>5. \A k \in 0 .. B : walk[k] = null \/ \E d \in D : f[d] = walk[k]
  <2>. DEFINE U == {k \in 0 .. B : ~(walk[k] = null \/ \E d \in D : f[d] = walk[k])}
  <2>. SUFFICES ASSUME U # {} PROVE FALSE
    OBVIOUS
  <2>1. U \in SUBSET Nat
    BY <1>1
  <2>. HIDE DEF U
  <2>2. PICK k \in U : \A j \in U : k <= j
    BY <2>1, Least
  <2>3. k \in 0 .. B /\ k \in Nat /\ ~(walk[k] = null \/ \E d \in D : f[d] = walk[k])
    BY <2>1, <2>2 DEF U
  <2>4. walk[k] = IF k = 0 THEN f[first] ELSE IF walk[k - 1] = null THEN null ELSE f[walk[k - 1]]
    BY <1>4, <2>3
  <2>5. k # 0 /\ walk[k - 1] # null /\ walk[k] = f[walk[k - 1]]
    BY <2>3, <2>4
  <2>6. k - 1 \in 0 .. B /\ ~(k <= k - 1)
    BY <1>1, <2>3, <2>5
  <2>7. k - 1 \notin U
    BY <2>2, <2>6
  <2>8. PICK d \in D : f[d] = walk[k - 1]
    BY <2>5, <2>6, <2>7 DEF U
  <2>9. walk[k - 1] \in D
    BY <2>5, <2>8
  <2>. QED
    BY <2>3, <2>5, <2>9
<1>6. Cardinality({k \in 1 .. B : walk[k - 1] # null}) \in 0 .. B
  <2>1. IsFiniteSet(1 .. B) /\ Cardinality(1 .. B) = B
    BY <1>1, FS_Interval
  <2>2. {k \in 1 .. B : walk[k - 1] # null} \in SUBSET (1 .. B)
    OBVIOUS
  <2>3. IsFiniteSet({k \in 1 .. B : walk[k - 1] # null})
        /\ Cardinality({k \in 1 .. B : walk[k - 1] # null}) <= B
    BY <2>1, <2>2, FS_Subset
  <2>. QED
    BY <1>1, <2>3, FS_CardinalityType
<1>7. ASSUME NEW m \in 0 .. B, NEW i \in 1 .. m
      PROVE  [k \in 1 .. m |-> walk[k - 1]][i] = null \/ \E d \in D : f[d] = [k \in 1 .. m |-> walk[k - 1]][i]
  <2>1. i - 1 \in 0 .. B
    BY <1>1
  <2>. QED
    BY <1>5, <2>1
<1>8. PICK m \in 0 .. B : m = Cardinality({k \in 1 .. B : walk[k - 1] # null})
  BY <1>6
<1>. DEFINE c == [k \in 1 .. m |-> walk[k - 1]]
<1>9. Chain(f, first, null) = c
  BY <1>2, <1>8
<1>10. m \in Nat /\ DOMAIN c = 1 .. m /\ \A i \in 1 .. m : c[i] = null \/ \E d \in D : f[d] = c[i]
  BY <1>1, <1>7
<1>. HIDE DEF c
<1>. QED
  BY <1>9, <1>10

=============================================================================
