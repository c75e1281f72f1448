--------------------------- MODULE QueuedLRUProofs ---------------------------
(***************************************************************************)
(* The queued cache for any number of threads and keys: each key's count   *)
(* is the number of its nodes, the size is the number of keys, the keys of *)
(* the map are those of the queue, and the cache implements LRU.  At the   *)
(* core is what PopHead does to a queue of which the counts are exact: it  *)
(* stops at the last node of some key, no other key has lost its last node *)
(* by then, and so no key was used longer ago.                             *)
(***************************************************************************)
EXTENDS QueuedLRU, FiniteSetTheorems, FunctionTheorems, SequenceTheorems, ChainLemmas, TLAPS

-----------------------------------------------------------------------------
(* Occurrences of a key in a sequence *)
Places(k, s) == {i \in DOMAIN s : s[i] = k}

LEMMA KeysOf ==
  ASSUME NEW s \in Seq(Key)
  PROVE  \A x \in ToSet(s) : x \in Key
BY DEF ToSet

LEMMA KeysOfAppend ==
  ASSUME NEW s \in Seq(Key), NEW x \in Key
  PROVE  ToSet(Append(s, x)) = ToSet(s) \cup {x}
<1>1. /\ DOMAIN s = 1 .. Len(s) /\ Len(s) \in Nat
      /\ DOMAIN Append(s, x) = 1 .. Len(s) + 1
      /\ Append(s, x)[Len(s) + 1] = x /\ \A i \in 1 .. Len(s) : Append(s, x)[i] = s[i]
  OBVIOUS
<1>2. ASSUME NEW y \in ToSet(Append(s, x)) PROVE y \in ToSet(s) \cup {x}
  BY <1>1 DEF ToSet
<1>3. ASSUME NEW y \in ToSet(s) PROVE y \in ToSet(Append(s, x))
  BY <1>1 DEF ToSet
<1>4. x \in ToSet(Append(s, x))
  BY <1>1 DEF ToSet
<1>. QED
  BY <1>2, <1>3, <1>4

LEMMA OccurrencesType ==
  ASSUME NEW s \in Seq(Key), NEW k
  PROVE  /\ Occurrences(k, s) = Cardinality(Places(k, s))
         /\ IsFiniteSet(Places(k, s)) /\ Occurrences(k, s) \in Nat
         /\ Occurrences(k, s) = 0 <=> k \notin ToSet(s)
<1>1. IsFiniteSet(DOMAIN s)
  <2>1. DOMAIN s = 1 .. Len(s) /\ Len(s) \in Nat
    OBVIOUS
  <2>. QED
    BY <2>1, FS_Interval
<1>2. IsFiniteSet(Places(k, s))
  BY <1>1, FS_Subset DEF Places
<1>3. Places(k, s) = {} <=> k \notin ToSet(s)
  BY DEF Places, ToSet
<1>4. Occurrences(k, s) = Cardinality(Places(k, s))
  BY DEF Occurrences, Places
<1>. QED
  BY <1>2, <1>3, <1>4, FS_CardinalityType, FS_EmptySet

LEMMA OccurrencesAppend ==
  ASSUME NEW s \in Seq(Key), NEW x \in Key, NEW k
  PROVE  Occurrences(k, Append(s, x)) = Occurrences(k, s) + (IF x = k THEN 1 ELSE 0)
<1>1. Append(s, x) \in Seq(Key)
  OBVIOUS
<1>2. Places(k, Append(s, x)) = IF x = k THEN Places(k, s) \cup {Len(s) + 1} ELSE Places(k, s)
  BY DEF Places
<1>3. Len(s) + 1 \notin Places(k, s)
  BY DEF Places
<1>4. /\ Occurrences(k, s) = Cardinality(Places(k, s)) /\ IsFiniteSet(Places(k, s))
      /\ Occurrences(k, s) \in Nat
      /\ Occurrences(k, Append(s, x)) = Cardinality(Places(k, Append(s, x)))
  BY <1>1, OccurrencesType
<1>5. CASE x = k
  <2>1. Cardinality(Places(k, s) \cup {Len(s) + 1}) = Cardinality(Places(k, s)) + 1
    BY <1>3, <1>4, FS_AddElement
  <2>. QED
    BY <1>2, <1>4, <1>5, <2>1
<1>6. CASE x # k
  BY <1>2, <1>4, <1>6
<1>. QED
  BY <1>5, <1>6

\* What is in a sequence is in its first n elements or in the others.
LEMMA OccurrencesSplit ==
  ASSUME NEW s \in Seq(Key), NEW n \in 0 .. Len(s), NEW k
  PROVE  Occurrences(k, s) = Occurrences(k, SubSeq(s, 1, n)) + Occurrences(k, SubSeq(s, n + 1, Len(s)))
<1>. DEFINE a == SubSeq(s, 1, n)
            b == SubSeq(s, n + 1, Len(s))
            B == {i \in Places(k, s) : i > n}
<1>1. /\ a \in Seq(Key) /\ DOMAIN a = 1 .. n /\ \A i \in 1 .. n : a[i] = s[i]
      /\ b \in Seq(Key) /\ DOMAIN b = 1 .. Len(s) - n /\ \A i \in 1 .. Len(s) - n : b[i] = s[i + n]
  OBVIOUS
<1>2. Places(k, s) = Places(k, a) \cup B /\ Places(k, a) \cap B = {}
  BY <1>1 DEF Places
<1>3. Cardinality(B) = Cardinality(Places(k, b))
  <2>. DEFINE f == [i \in Places(k, b) |-> i + n]
  <2>1. f \in Bijection(Places(k, b), B)
    <3>1. \A i \in Places(k, b) : i + n \in B
      BY <1>1 DEF Places
    <3>2. \A i, j \in Places(k, b) : i + n = j + n => i = j
      BY <1>1 DEF Places
    <3>3. \A j \in B : j - n \in Places(k, b) /\ (j - n) + n = j
      BY <1>1 DEF Places
    <3>4. f \in [Places(k, b) -> B]
      BY <3>1
    <3>5. \A i, j \in Places(k, b) : f[i] = f[j] => i = j
      BY <3>2
    <3>6. \A j \in B : \E i \in Places(k, b) : f[i] = j
      BY <3>3
    <3>. HIDE DEF f
    <3>. QED
      BY <3>4, <3>5, <3>6, Fun_IsBij
  <2>2. ExistsBijection(Places(k, b), B)
    BY <2>1, Fun_ExistsBij
  <2>3. IsFiniteSet(Places(k, b))
    BY <1>1, OccurrencesType
  <2>. HIDE DEF B
  <2>. QED
    BY <2>2, <2>3, FS_Bijection
<1>4. IsFiniteSet(Places(k, a)) /\ IsFiniteSet(B)
  BY <1>1, OccurrencesType, FS_Subset
<1>5. Cardinality(Places(k, s)) = Cardinality(Places(k, a)) + Cardinality(B)
  <2>. HIDE DEF a, B
  <2>1. Cardinality(Places(k, a) \cup B)
          = Cardinality(Places(k, a)) + Cardinality(B) - Cardinality(Places(k, a) \cap B)
    BY <1>4, FS_Union
  <2>2. Cardinality(Places(k, a) \cap B) = 0
    BY <1>2, FS_EmptySet
  <2>3. Cardinality(Places(k, a)) \in Nat /\ Cardinality(B) \in Nat
    BY <1>4, FS_CardinalityType
  <2>. QED
    BY <1>2, <2>1, <2>2, <2>3
<1>. QED
  BY <1>1, <1>3, <1>5, OccurrencesType

\* PopHead stops at the first node that is the last one of its key ...
LEMMA PopHeadStops ==
  ASSUME NEW s \in Seq(Key), s # <<>>, NEW c, \A x \in ToSet(s) : c[x] = Occurrences(x, s)
  PROVE  /\ PopLength(s, c) \in 1 .. Len(s)
         /\ Occurrences(s[PopLength(s, c)], SubSeq(s, 1, PopLength(s, c))) = c[s[PopLength(s, c)]]
         /\ \A i \in 1 .. PopLength(s, c) - 1 : Occurrences(s[i], SubSeq(s, 1, i)) # c[s[i]]
<1>. DEFINE stops == {i \in DOMAIN s : Occurrences(s[i], SubSeq(s, 1, i)) = c[s[i]]}
<1>1. DOMAIN s = 1 .. Len(s) /\ Len(s) \in DOMAIN s /\ SubSeq(s, 1, Len(s)) = s
  OBVIOUS
<1>2. Len(s) \in stops
  BY <1>1 DEF ToSet
<1>3. stops \in SUBSET Nat
  BY <1>1
<1>4. \E x \in stops : \A y \in stops : x <= y
  BY <1>2, <1>3, Least
<1>5. Min(stops) \in stops /\ \A y \in stops : Min(stops) <= y
  BY <1>4 DEF Min
<1>6. PopLength(s, c) = Min(stops)
  BY <1>2 DEF PopLength
<1>7. PopLength(s, c) \in stops /\ \A y \in stops : PopLength(s, c) <= y
  BY <1>5, <1>6
<1>. HIDE DEF stops
<1>8. ASSUME NEW i \in 1 .. PopLength(s, c) - 1
      PROVE  Occurrences(s[i], SubSeq(s, 1, i)) # c[s[i]]
  <2>1. i \in DOMAIN s /\ i < PopLength(s, c)
    BY <1>1, <1>7 DEF stops
  <2>2. i \notin stops
    BY <1>1, <1>7, <2>1 DEF stops
  <2>. QED
    BY <2>1, <2>2 DEF stops
<1>. QED
  BY <1>1, <1>7, <1>8 DEF stops

\* ... and no other key has lost all its nodes then.
LEMMA OneKeyGoes ==
  ASSUME NEW s \in Seq(Key), s # <<>>, NEW c, \A x \in ToSet(s) : c[x] = Occurrences(x, s),
         NEW n, n = PopLength(s, c), NEW x \in ToSet(SubSeq(s, 1, n)),
         Occurrences(x, SubSeq(s, 1, n)) = c[x]
  PROVE  x = s[n]
<1>1. /\ n \in 1 .. Len(s) /\ Len(s) \in Nat
      /\ \A i \in 1 .. n - 1 : Occurrences(s[i], SubSeq(s, 1, i)) # c[s[i]]
  BY PopHeadStops
<1>2. SubSeq(s, 1, n) \in Seq(Key) /\ DOMAIN SubSeq(s, 1, n) = 1 .. n /\ \A i \in 1 .. n : SubSeq(s, 1, n)[i] = s[i]
  BY <1>1
<1>. DEFINE T == {m \in Nat : m < n /\ s[n - m] = x}
<1>3. T # {}
  <2>1. PICK i \in 1 .. n : s[i] = x
    BY <1>2 DEF ToSet
  <2>2. n - i \in T
    BY <1>1, <2>1
  <2>. QED
    BY <2>2
<1>4. PICK m \in T : \A y \in T : m <= y
  BY <1>3, Least
<1>5. n - m \in 1 .. n /\ s[n - m] = x /\ \A j \in n - m + 1 .. n : s[j] # x
  <2>1. n - m \in 1 .. n /\ s[n - m] = x
    BY <1>1
  <2>2. ASSUME NEW j \in n - m + 1 .. n, s[j] = x PROVE FALSE
    <3>1. n - j \in T /\ n - j < m
      BY <1>1, <2>2
    <3>. QED
      BY <1>1, <1>4, <3>1
  <2>. QED
    BY <2>1, <2>2
<1>. DEFINE i == n - m
<1>. HIDE DEF T
<1>6. /\ SubSeq(s, 1, i) \in Seq(Key) /\ DOMAIN SubSeq(s, 1, i) = 1 .. i
      /\ \A j \in 1 .. i : SubSeq(s, 1, i)[j] = s[j]
  BY <1>1, <1>5
<1>7. Places(x, SubSeq(s, 1, i)) = Places(x, SubSeq(s, 1, n))
  BY <1>1, <1>2, <1>5, <1>6 DEF Places
<1>8. Occurrences(x, SubSeq(s, 1, i)) = c[x]
  BY <1>2, <1>6, <1>7, OccurrencesType
<1>. QED
  BY <1>1, <1>5, <1>8

\* What a Put leaves: the counts of what is still in the queue, and all keys
\* but the one PopHead stopped at.
LEMMA AfterPop ==
  ASSUME NEW s \in Seq(Key), s # <<>>, NEW c, \A x \in Key : c[x] = Occurrences(x, s),
         NEW n, n = 0 \/ n = PopLength(s, c)
  PROVE  LET popped == SubSeq(s, 1, n)
             rest   == SubSeq(s, n + 1, Len(s))
             gone   == {x \in ToSet(popped) : c[x] - Occurrences(x, popped) = 0}
         IN  /\ rest \in Seq(Key) /\ Len(rest) = Len(s) - n
             /\ \A x \in Key : c[x] - Occurrences(x, popped) = Occurrences(x, rest)
             /\ ToSet(rest) = ToSet(s) \ gone
             /\ n = 0 => gone = {}
             /\ n # 0 => gone = {s[n]} /\ s[n] \in ToSet(s)
<1>. DEFINE popped == SubSeq(s, 1, n)
            rest   == SubSeq(s, n + 1, Len(s))
            gone   == {x \in ToSet(popped) : c[x] - Occurrences(x, popped) = 0}
<1>0. \A x \in ToSet(s) : x \in Key
  BY DEF ToSet
<1>1. n \in 0 .. Len(s) /\ Len(s) \in Nat
  <2>1. n # 0 => n \in 1 .. Len(s)
    BY <1>0, PopHeadStops
  <2>. QED
    BY <2>1
<1>2. /\ popped \in Seq(Key) /\ DOMAIN popped = 1 .. n /\ \A i \in 1 .. n : popped[i] = s[i]
      /\ rest \in Seq(Key) /\ Len(rest) = Len(s) - n
  BY <1>1
<1>3. \A x \in ToSet(popped) : x \in Key /\ x \in ToSet(s)
  BY <1>1, <1>2 DEF ToSet
<1>4. \A x \in ToSet(rest) : x \in Key
  <2>. HIDE DEF rest
  <2>. QED
    BY <1>2, KeysOf
<1>. HIDE DEF popped, rest
<1>5. ASSUME NEW x \in Key
      PROVE  /\ Occurrences(x, s) \in Nat /\ Occurrences(x, popped) \in Nat /\ Occurrences(x, rest) \in Nat
             /\ Occurrences(x, s) = 0 <=> x \notin ToSet(s)
             /\ Occurrences(x, popped) = 0 <=> x \notin ToSet(popped)
             /\ Occurrences(x, rest) = 0 <=> x \notin ToSet(rest)
             /\ Occurrences(x, s) = Occurrences(x, popped) + Occurrences(x, rest)
             /\ c[x] - Occurrences(x, popped) = Occurrences(x, rest)
  <2>1. Occurrences(x, s) = Occurrences(x, popped) + Occurrences(x, rest)
    BY <1>1, OccurrencesSplit DEF popped, rest
  <2>2. /\ Occurrences(x, s) \in Nat
        /\ Occurrences(x, s) = 0 <=> x \notin ToSet(s)
    BY OccurrencesType
  <2>3. /\ Occurrences(x, popped) \in Nat
        /\ Occurrences(x, popped) = 0 <=> x \notin ToSet(popped)
    BY <1>2, OccurrencesType
  <2>4. /\ Occurrences(x, rest) \in Nat
        /\ Occurrences(x, rest) = 0 <=> x \notin ToSet(rest)
    BY <1>2, OccurrencesType
  <2>5. c[x] = Occurrences(x, s)
    OBVIOUS
  <2>. QED
    BY <2>1, <2>2, <2>3, <2>4, <2>5
<1>6. ToSet(rest) = ToSet(s) \ gone
  <2>1. \A x : x \in gone <=> x \in ToSet(popped) /\ c[x] - Occurrences(x, popped) = 0
    OBVIOUS
  <2>. HIDE DEF gone
  <2>2. ASSUME NEW x \in ToSet(rest) PROVE x \in ToSet(s) /\ x \notin gone
    <3>1. x \in Key
      BY <1>4
    <3>2. Occurrences(x, rest) # 0 /\ c[x] - Occurrences(x, popped) = Occurrences(x, rest)
      BY <1>5, <3>1
    <3>3. Occurrences(x, s) # 0
      BY <1>5, <3>1, <3>2
    <3>. QED
      BY <1>5, <2>1, <3>1, <3>2, <3>3
  <2>3. ASSUME NEW x \in ToSet(s), x \notin gone PROVE x \in ToSet(rest)
    <3>1. x \in Key
      BY <1>0
    <3>2. Occurrences(x, s) # 0 /\ c[x] - Occurrences(x, popped) = Occurrences(x, rest)
      BY <1>5, <3>1
    <3>3. CASE x \in ToSet(popped)
      BY <1>5, <2>1, <2>3, <3>1, <3>2, <3>3
    <3>4. CASE x \notin ToSet(popped)
      BY <1>5, <3>1, <3>2, <3>4
    <3>. QED
      BY <3>3, <3>4
  <2>. QED
    BY <2>2, <2>3
<1>7. n = 0 => gone = {}
  BY <1>2 DEF ToSet
<1>8. ASSUME n # 0 PROVE gone = {s[n]} /\ s[n] \in ToSet(s)
  <2>1. n \in 1 .. Len(s) /\ Occurrences(s[n], popped) = c[s[n]]
    BY <1>0, <1>8, PopHeadStops DEF popped
  <2>2. s[n] \in ToSet(popped) /\ s[n] \in ToSet(s)
    BY <1>2, <2>1 DEF ToSet
  <2>3. s[n] \in gone
    <3>1. s[n] \in Key
      BY <1>3, <2>2
    <3>2. Occurrences(s[n], popped) \in Nat
      BY <1>5, <3>1
    <3>3. c[s[n]] - Occurrences(s[n], popped) = 0
      BY <2>1, <3>2
    <3>. QED
      BY <2>2, <3>3
  <2>4. ASSUME NEW x \in gone PROVE x = s[n]
    <3>1. x \in Key /\ c[x] = Occurrences(x, s) /\ c[x] - Occurrences(x, popped) = 0
      BY <1>3
    <3>2. Occurrences(x, popped) = c[x]
      <4>1. Occurrences(x, popped) \in Nat /\ Occurrences(x, s) \in Nat
        BY <1>5, <3>1
      <4>. HIDE DEF gone
      <4>. QED
        BY <3>1, <4>1
    <3>3. n = PopLength(s, c)
      BY <1>8
    <3>4. x \in ToSet(SubSeq(s, 1, n)) /\ Occurrences(x, SubSeq(s, 1, n)) = c[x]
      BY <3>2 DEF popped
    <3>. HIDE DEF gone
    <3>. QED
      BY <1>0, <3>3, <3>4, OneKeyGoes
  <2>. QED
    BY <2>2, <2>3, <2>4
<1>. QED
  BY <1>2, <1>5, <1>6, <1>7, <1>8 DEF popped, rest

-----------------------------------------------------------------------------
(* The invariant: the counts, and what keeps them exact.  A Get that runs    *)
(* keeps its key in the map, since no Put runs meanwhile; and the one that   *)
(* has linked its node finds tail_ where it was, so it never links it twice. *)
Counted(k) == {t \in Thread : key[t] = k /\ pc[t] \in {"load", "next", "link"}}

Counting == \A k \in Key : cnt[k] = Occurrences(k, queue) + Cardinality(Counted(k))

Links == \A t \in Thread : /\ pc[t] # "idle" => key[t] \in map
                           /\ pc[t] \in {"next", "link"} => at[t] <= tail
                           /\ pc[t] = "swing" => /\ at[t] = tail /\ Len(queue) = tail + 1
                                                 /\ \A u \in Thread \ {t} : pc[u] # "swing"

QInv == TypeOK /\ SizeExact /\ IsFiniteSet(map) /\ Counting /\ Links

LEMMA QInvImplies == QInv => CountExact
BY DEF QInv, CountExact, Counting, Counted

LEMMA CountedFinite == \A k : IsFiniteSet(Counted(k)) /\ Cardinality(Counted(k)) \in Nat
BY ThreadAssumption, FS_Subset, FS_CardinalityType DEF Counted

LEMMA InitQInv == Init => QInv
<1>. SUFFICES ASSUME Init PROVE QInv
  OBVIOUS
<1>. USE DEF Init
<1>1. TypeOK
  BY CapacityAssumption DEF TypeOK
<1>2. SizeExact /\ IsFiniteSet(map)
  BY FS_EmptySet DEF SizeExact, ToSet
<1>3. Counting
  <2>1. ASSUME NEW k \in Key
        PROVE  Occurrences(k, queue) = 0 /\ Cardinality(Counted(k)) = 0
    <3>1. Counted(k) = {}
      BY DEF Counted
    <3>2. k \notin ToSet(queue) /\ queue \in Seq(Key)
      BY DEF ToSet
    <3>. QED
      BY <3>1, <3>2, FS_EmptySet, OccurrencesType
  <2>. QED
    BY <2>1 DEF Counting
<1>4. Links
  BY DEF Links
<1>. QED
  BY <1>1, <1>2, <1>3, <1>4 DEF QInv

\* A Get that counts no node and links none: it only moves.
LEMMA GetMoves ==
  ASSUME QInv, NEW t \in Thread,
         GetFind(t) \/ PutTailLoad(t) \/ PutTailNext(t) \/ PutTailLinkFails(t)
  PROVE  QInv'
<1>. USE DEF QInv, Goto, Only
<1>1. UNCHANGED <<map, cnt, queue, tail, size>>
  BY DEF GetFind, PutTailLoad, PutTailNext, PutTailLinkFails
<1>2. TypeOK'
  <2>1. CASE GetFind(t)
    BY <2>1 DEF GetFind, TypeOK
  <2>2. CASE PutTailLoad(t)
    BY <2>2 DEF PutTailLoad, TypeOK
  <2>3. CASE PutTailNext(t)
    BY <2>3 DEF PutTailNext, TypeOK
  <2>4. CASE PutTailLinkFails(t)
    BY <2>4 DEF PutTailLinkFails, TypeOK
  <2>. QED
    BY <2>1, <2>2, <2>3, <2>4
<1>3. SizeExact' /\ IsFiniteSet(map)'
  BY <1>1 DEF SizeExact
<1>4. \A u \in Thread : u # t => pc'[u] = pc[u] /\ key'[u] = key[u] /\ at'[u] = at[u]
  BY DEF GetFind, PutTailLoad, PutTailNext, PutTailLinkFails, TypeOK
<1>5. \/ /\ pc[t] \in {"load", "next", "link"} /\ pc'[t] \in {"load", "next", "link"}
         /\ key'[t] = key[t]
      \/ pc[t] = "idle" /\ pc'[t] = "count" /\ key'[t] \in map
  <2>1. CASE GetFind(t)
    BY <2>1 DEF GetFind, TypeOK
  <2>2. CASE PutTailLoad(t)
    BY <2>2 DEF PutTailLoad, TypeOK
  <2>3. CASE PutTailNext(t)
    BY <2>3 DEF PutTailNext, TypeOK
  <2>4. CASE PutTailLinkFails(t)
    BY <2>4 DEF PutTailLinkFails, TypeOK
  <2>. QED
    BY <2>1, <2>2, <2>3, <2>4
<1>6. Counting'
  <2>1. \A k \in Key : Counted(k)' = Counted(k)
    BY <1>4, <1>5 DEF Counted
  <2>. QED
    BY <1>1, <2>1 DEF Counting
<1>7. pc'[t] \in {"next", "link"} => at'[t] <= tail
  BY DEF GetFind, PutTailLoad, PutTailNext, PutTailLinkFails, Links, TypeOK
<1>8. Links'
  BY <1>1, <1>4, <1>5, <1>7 DEF Links
<1>. QED
  BY <1>2, <1>3, <1>6, <1>8

\* tail_ is where the Get that swings it has read it.
LEMMA GetSwings ==
  ASSUME QInv, NEW t \in Thread, PutTailSwing(t)
  PROVE  QInv'
<1>. USE DEF QInv, Goto
<1>1. /\ pc[t] = "swing" /\ at[t] = tail /\ Len(queue) = tail + 1 /\ tail \in Nat
      /\ \A u \in Thread \ {t} : pc[u] # "swing"
  BY DEF PutTailSwing, Links, TypeOK
<1>2. /\ UNCHANGED <<map, cnt, queue, size>> /\ tail' = tail + 1
      /\ pc' = [pc EXCEPT ![t] = "idle"]
      /\ key' = [key EXCEPT ![t] = NoKey] /\ at' = [at EXCEPT ![t] = 0]
  BY <1>1 DEF PutTailSwing
<1>3. TypeOK'
  BY <1>1, <1>2 DEF TypeOK
<1>4. SizeExact' /\ IsFiniteSet(map)'
  BY <1>2 DEF SizeExact
<1>5. Counting'
  <2>1. \A k \in Key : Counted(k)' = Counted(k)
    BY <1>1, <1>2 DEF Counted, TypeOK
  <2>. QED
    BY <1>2, <2>1 DEF Counting
<1>6. Links'
  BY <1>1, <1>2 DEF Links, TypeOK
<1>. QED
  BY <1>3, <1>4, <1>5, <1>6

\* A Get counts the node it is about to link.
LEMMA GetCounts ==
  ASSUME QInv, NEW t \in Thread, GetCount(t)
  PROVE  QInv'
<1>. USE DEF QInv, GetCount, Goto
<1>0. key[t] \in Key /\ key[t] \in map
  BY DEF Links, TypeOK
<1>1. TypeOK'
  BY <1>0 DEF TypeOK
<1>2. SizeExact' /\ IsFiniteSet(map)'
  BY DEF SizeExact
<1>3. Counting'
  <2>1. /\ t \notin Counted(key[t]) /\ Counted(key[t])' = Counted(key[t]) \cup {t}
        /\ \A k \in Key : k # key[t] => Counted(k)' = Counted(k)
    BY DEF Counted, TypeOK
  <2>2. Cardinality(Counted(key[t])') = Cardinality(Counted(key[t])) + 1
    BY <2>1, CountedFinite, FS_AddElement
  <2>3. \A k \in Key : Occurrences(k, queue) \in Nat
    BY OccurrencesType DEF TypeOK
  <2>4. cnt' = [cnt EXCEPT ![key[t]] = @ + 1] /\ cnt \in [Key -> Nat] /\ queue' = queue
    BY DEF TypeOK
  <2>5. ASSUME NEW k \in Key
        PROVE  cnt'[k] = Occurrences(k, queue') + Cardinality(Counted(k)')
    <3>1. cnt[k] = Occurrences(k, queue) + Cardinality(Counted(k))
      BY DEF Counting
    <3>2. Cardinality(Counted(k)) \in Nat
      BY CountedFinite
    <3>3. CASE k = key[t]
      BY <1>0, <2>2, <2>3, <2>4, <3>1, <3>2, <3>3
    <3>4. CASE k # key[t]
      BY <2>1, <2>4, <3>1, <3>4
    <3>. QED
      BY <3>3, <3>4
  <2>. QED
    BY <2>5 DEF Counting
<1>4. Links'
  BY DEF Links, TypeOK
<1>. QED
  BY <1>1, <1>2, <1>3, <1>4

\* A Get links the node it has counted.
LEMMA GetLinks ==
  ASSUME QInv, NEW t \in Thread, PutTailLink(t)
  PROVE  QInv'
<1>. USE DEF QInv, PutTailLink, Goto
<1>0. key[t] \in Key /\ key[t] \in map /\ queue \in Seq(Key) /\ queue' = Append(queue, key[t])
  BY DEF Links, TypeOK
<1>1. TypeOK'
  BY <1>0 DEF TypeOK
<1>2. SizeExact' /\ IsFiniteSet(map)'
  <2>1. ToSet(queue') = ToSet(queue) \cup {key[t]}
    BY <1>0, KeysOfAppend
  <2>2. map' = map /\ size' = size
    OBVIOUS
  <2>. QED
    BY <1>0, <2>1, <2>2 DEF SizeExact
<1>3. Counting'
  <2>1. /\ t \in Counted(key[t]) /\ Counted(key[t])' = Counted(key[t]) \ {t}
        /\ \A k \in Key : k # key[t] => Counted(k)' = Counted(k)
    BY DEF Counted, TypeOK
  <2>2. Cardinality(Counted(key[t])') = Cardinality(Counted(key[t])) - 1
    BY <2>1, CountedFinite, FS_RemoveElement
  <2>3. ASSUME NEW k \in Key
        PROVE  cnt'[k] = Occurrences(k, queue') + Cardinality(Counted(k)')
    <3>1. cnt'[k] = Occurrences(k, queue) + Cardinality(Counted(k))
      BY DEF Counting
    <3>2. Cardinality(Counted(k)) \in Nat /\ Occurrences(k, queue) \in Nat
      BY <1>0, CountedFinite, OccurrencesType
    <3>3. Occurrences(k, queue') = Occurrences(k, queue) + (IF key[t] = k THEN 1 ELSE 0)
      BY <1>0, OccurrencesAppend
    <3>4. CASE k = key[t]
      BY <2>2, <3>1, <3>2, <3>3, <3>4
    <3>5. CASE k # key[t]
      BY <2>1, <3>1, <3>2, <3>3, <3>5
    <3>. QED
      BY <3>4, <3>5
  <2>. QED
    BY <2>3 DEF Counting
<1>4. Links'
  <2>1. Len(queue') = Len(queue) + 1 /\ Len(queue) \in Nat /\ at[t] = Len(queue)
    BY <1>0
  <2>2. tail = Len(queue) /\ \A u \in Thread : pc[u] # "swing"
    BY <2>1 DEF Links, TypeOK
  <2>. QED
    BY <2>1, <2>2 DEF Links, TypeOK
<1>. QED
  BY <1>1, <1>2, <1>3, <1>4

LEMMA Appended ==
  ASSUME NEW s \in Seq(Key), NEW x \in Key
  PROVE  Append(s, x) \in Seq(Key) /\ Append(s, x) # <<>>
<1>1. Append(s, x) \in Seq(Key) /\ Len(Append(s, x)) # 0
  OBVIOUS
<1>2. Len(<<>>) = 0
  OBVIOUS
<1>. QED
  BY <1>1, <1>2

\* No Get runs during a Put, so the counts are those of the queue.
LEMMA PutCounts ==
  ASSUME QInv, NEW k \in Key, Put(k)
  PROVE  \A x \in Key : [cnt EXCEPT ![k] = 1][x] = Occurrences(x, Append(queue, k))
<1>1. ASSUME NEW x \in Key PROVE [cnt EXCEPT ![k] = 1][x] = Occurrences(x, Append(queue, k))
  <2>1. queue \in Seq(Key) /\ cnt \in [Key -> Nat] /\ Counted(x) = {} /\ k \notin map
    BY DEF QInv, TypeOK, Put, Inside, Counted
  <2>2. cnt[x] = Occurrences(x, queue) + 0
    BY <2>1, FS_EmptySet DEF QInv, Counting
  <2>3. Occurrences(x, queue) \in Nat /\ (Occurrences(x, queue) = 0 <=> x \notin ToSet(queue))
    BY <2>1, OccurrencesType
  <2>4. Occurrences(x, Append(queue, k)) = Occurrences(x, queue) + (IF k = x THEN 1 ELSE 0)
    BY <2>1, OccurrencesAppend
  <2>5. x = k => Occurrences(x, queue) = 0
    BY <2>1, <2>3 DEF QInv, SizeExact
  <2>. QED
    BY <2>1, <2>2, <2>3, <2>4, <2>5
<1>. QED
  BY <1>1

\* A Put of a new key appends its node and, at the capacity, pops those up to
\* the last of some key.
LEMMA PutKeeps ==
  ASSUME QInv, NEW k \in Key, Put(k)
  PROVE  QInv'
<1>. DEFINE s == Append(queue, k)
            c == [cnt EXCEPT ![k] = 1]
            n == IF size = Capacity THEN PopLength(s, c) ELSE 0
            popped == SubSeq(s, 1, n)
            rest == SubSeq(s, n + 1, Len(s))
            gone == {x \in ToSet(popped) : c[x] - Occurrences(x, popped) = 0}
<1>1. /\ Inside = {} /\ k \notin map /\ queue' = rest /\ tail' = Len(s) - n
      /\ cnt' = [x \in Key |-> c[x] - Occurrences(x, popped)]
      /\ map' = (map \cup {k}) \ gone
      /\ size' = SizeAfterPut /\ pc' = pc /\ key' = key /\ at' = at
  BY DEF Put
<1>2. \A t \in Thread : pc[t] = "idle"
  BY <1>1 DEF Inside
<1>3. queue \in Seq(Key) /\ cnt \in [Key -> Nat] /\ s \in Seq(Key) /\ s # <<>>
  BY DEF QInv, TypeOK
<1>4. \A x : Counted(x) = {} /\ Counted(x)' = {}
  BY <1>1, <1>2 DEF Counted
<1>5. \A x \in Key : c[x] = Occurrences(x, s)
  BY PutCounts
<1>6. ToSet(s) = map \cup {k}
  BY <1>3, KeysOfAppend DEF QInv, SizeExact
<1>. HIDE DEF s, c
<1>7. n = 0 \/ n = PopLength(s, c)
  OBVIOUS
<1>. HIDE DEF n
<1>8. /\ rest \in Seq(Key) /\ Len(rest) = Len(s) - n
      /\ \A x \in Key : c[x] - Occurrences(x, popped) = Occurrences(x, rest)
      /\ ToSet(rest) = ToSet(s) \ gone
      /\ n = 0 => gone = {}
      /\ n # 0 => gone = {s[n]} /\ s[n] \in ToSet(s)
  BY <1>3, <1>5, <1>7, AfterPop
<1>. HIDE DEF popped, rest, gone
<1>9. map' = ToSet(queue') /\ IsFiniteSet(map')
  <2>1. IsFiniteSet(map \cup {k})
    BY FS_AddElement DEF QInv
  <2>. QED
    BY <1>1, <1>6, <1>8, <2>1, FS_Subset
<1>10. size' = Cardinality(map') /\ size' \in 0 .. Capacity
  <2>1. /\ size = Cardinality(map) /\ size \in 0 .. Capacity /\ Capacity \in Nat /\ Capacity # 0
        /\ IsFiniteSet(map)
    BY CapacityAssumption DEF QInv, TypeOK, SizeExact
  <2>2. IsFiniteSet(map \cup {k}) /\ Cardinality(map \cup {k}) = size + 1
    BY <1>1, <2>1, FS_AddElement
  <2>3. CASE size = Capacity
    <3>1. n # 0
      <4>1. \A x \in ToSet(s) : c[x] = Occurrences(x, s)
        BY <1>3, <1>5, KeysOf
      <4>2. PopLength(s, c) \in 1 .. Len(s)
        BY <1>3, <4>1, PopHeadStops
      <4>. QED
        BY <2>3, <4>2 DEF n
    <3>2. map' = (map \cup {k}) \ {s[n]} /\ s[n] \in map \cup {k}
      BY <1>1, <1>6, <1>8, <3>1
    <3>3. Cardinality(map') = Cardinality(map \cup {k}) - 1 /\ size \in Nat
      <4>. DEFINE M == map \cup {k}
      <4>1. IsFiniteSet(M) /\ s[n] \in M /\ map' = M \ {s[n]}
        BY <2>2, <3>2
      <4>. HIDE DEF M
      <4>2. Cardinality(M \ {s[n]}) = Cardinality(M) - 1
        BY <4>1, FS_RemoveElement
      <4>. QED
        BY <2>1, <4>1, <4>2 DEF M
    <3>4. Cardinality(map') = size
      BY <2>2, <3>3
    <3>. QED
      BY <1>1, <2>1, <2>3, <3>4 DEF SizeAfterPut
  <2>4. CASE size # Capacity
    <3>1. map' = map \cup {k}
      BY <1>1, <1>8, <2>4 DEF n
    <3>2. Cardinality(map') = size + 1
      BY <2>2, <3>1
    <3>3. size' = size + 1
      BY <1>1, <2>4 DEF SizeAfterPut
    <3>4. size + 1 \in 0 .. Capacity
      BY <2>1, <2>4
    <3>. QED
      BY <3>2, <3>3, <3>4
  <2>. QED
    BY <2>3, <2>4
<1>11. TypeOK'
  <2>1. map' \subseteq Key
    BY <1>1 DEF QInv, TypeOK
  <2>2. \A x \in Key : Occurrences(x, rest) \in Nat
    BY <1>8, OccurrencesType
  <2>3. cnt' \in [Key -> Nat]
    BY <1>1, <1>8, <2>2
  <2>4. queue' \in Seq(Key) /\ tail' \in 0 .. Len(queue')
    BY <1>1, <1>8
  <2>. QED
    BY <1>1, <1>10, <2>1, <2>3, <2>4 DEF QInv, TypeOK
<1>12. Counting'
  <2>1. ASSUME NEW x \in Key
        PROVE  cnt'[x] = Occurrences(x, queue') + Cardinality(Counted(x)')
    <3>1. Cardinality(Counted(x)') = 0 /\ Occurrences(x, rest) \in Nat
      BY <1>4, <1>8, FS_EmptySet, OccurrencesType
    <3>. QED
      BY <1>1, <1>8, <3>1
  <2>. QED
    BY <2>1 DEF Counting
<1>13. Links'
  BY <1>1, <1>2 DEF Links
<1>. QED
  BY <1>9, <1>10, <1>11, <1>12, <1>13 DEF QInv, SizeExact

LEMMA CountsKept == Spec => []QInv
<1>1. QInv /\ [Next]_vars => QInv'
  <2>. SUFFICES ASSUME QInv, [Next]_vars PROVE QInv'
    OBVIOUS
  <2>1. CASE UNCHANGED vars
    BY <2>1 DEF vars, QInv, TypeOK, SizeExact, Counting, Counted, Links
  <2>2. ASSUME NEW t \in Thread, GetStep(t) PROVE QInv'
    BY <2>2, GetMoves, GetSwings, GetCounts, GetLinks DEF GetStep
  <2>3. ASSUME NEW k \in Key, Put(k) PROVE QInv'
    BY <2>3, PutKeeps
  <2>. QED
    BY <2>1, <2>2, <2>3 DEF Next
<1>. QED
  BY <1>1, InitQInv, PTL DEF Spec

\* Both counts are exact, whatever the threads, the keys and the capacity:
\* cnt of each ValueWrapper is the number of the key's nodes, linked or about
\* to be, current_size_ the number of keys in the map, and these are the keys
\* in the queue.  So PopHead always meets a count that reaches zero, and
\* erases exactly one key.
THEOREM ExactCounts == Spec => []CountExact
BY CountsKept, QInvImplies, PTL

-----------------------------------------------------------------------------
(* Least recently used.  Abstractly the cache is its keys and which of them  *)
(* was used before which: the keys of the map, and the order of their last   *)
(* nodes in the queue.                                                       *)

LEMMA UsedBeforeIs ==
  ASSUME NEW s, NEW a \in ToSet(s), NEW b \in ToSet(s)
  PROVE  <<a, b>> \in UsedBefore(s)
           <=> \E j \in DOMAIN s : s[j] = b /\ \A i \in DOMAIN s : s[i] = a => i < j
BY DEF UsedBefore

LEMMA UsedBeforePairs == \A s : UsedBefore(s) \subseteq ToSet(s) \X ToSet(s)
BY DEF UsedBefore

\* The key of a new node is used last; the others keep their order.
LEMMA UsedLast ==
  ASSUME NEW s \in Seq(Key), NEW k \in Key, NEW S, S = ToSet(s) \ {k}
  PROVE  UsedBefore(Append(s, k)) = (UsedBefore(s) \cap (S \X S)) \cup (S \X {k})
<1>. DEFINE r == Append(s, k)
<1>1. /\ DOMAIN s = 1 .. Len(s) /\ Len(s) \in Nat /\ DOMAIN r = 1 .. Len(s) + 1
      /\ r[Len(s) + 1] = k /\ \A i \in 1 .. Len(s) : r[i] = s[i]
  OBVIOUS
<1>2. ToSet(r) = S \cup {k} /\ S \subseteq ToSet(s) /\ k \notin S
  BY KeysOfAppend
<1>. HIDE DEF r
<1>3. ASSUME NEW a \in S, NEW b \in S
      PROVE  <<a, b>> \in UsedBefore(r) <=> <<a, b>> \in UsedBefore(s)
  <2>1. a # k /\ b # k /\ a \in ToSet(s) /\ b \in ToSet(s) /\ a \in ToSet(r) /\ b \in ToSet(r)
    BY <1>2
  <2>2. ASSUME NEW j \in DOMAIN r, r[j] = b, \A i \in DOMAIN r : r[i] = a => i < j
        PROVE  j \in DOMAIN s /\ s[j] = b /\ \A i \in DOMAIN s : s[i] = a => i < j
    BY <1>1, <2>1, <2>2
  <2>3. ASSUME NEW j \in DOMAIN s, s[j] = b, \A i \in DOMAIN s : s[i] = a => i < j
        PROVE  j \in DOMAIN r /\ r[j] = b /\ \A i \in DOMAIN r : r[i] = a => i < j
    BY <1>1, <2>1, <2>3
  <2>. QED
    BY <2>1, <2>2, <2>3, UsedBeforeIs
<1>4. ASSUME NEW a \in S PROVE <<a, k>> \in UsedBefore(r)
  <2>1. a # k /\ a \in ToSet(r) /\ k \in ToSet(r)
    BY <1>2
  <2>2. Len(s) + 1 \in DOMAIN r /\ \A i \in DOMAIN r : r[i] = a => i < Len(s) + 1
    BY <1>1, <2>1
  <2>. QED
    BY <1>1, <2>1, <2>2, UsedBeforeIs
<1>5. ASSUME NEW b \in ToSet(r) PROVE <<k, b>> \notin UsedBefore(r)
  <2>1. k \in ToSet(r)
    BY <1>2
  <2>2. ~\E j \in DOMAIN r : r[j] = b /\ \A i \in DOMAIN r : r[i] = k => i < j
    BY <1>1
  <2>. QED
    BY <2>1, <2>2, UsedBeforeIs
<1>6. UsedBefore(r) \subseteq (S \cup {k}) \X (S \cup {k})
  BY <1>2, UsedBeforePairs
<1>7. ASSUME NEW p \in UsedBefore(r) PROVE p \in (UsedBefore(s) \cap (S \X S)) \cup (S \X {k})
  <2>1. PICK a \in S \cup {k}, b \in S \cup {k} : p = <<a, b>>
    BY <1>6
  <2>2. a \in S
    BY <1>2, <1>5, <2>1
  <2>. QED
    BY <1>3, <2>1, <2>2
<1>8. ASSUME NEW p \in (UsedBefore(s) \cap (S \X S)) \cup (S \X {k}) PROVE p \in UsedBefore(r)
  BY <1>3, <1>4
<1>. QED
  BY <1>7, <1>8 DEF r

\* What is left of the queue keeps its order.
LEMMA UsedBeforeRest ==
  ASSUME NEW s \in Seq(Key), NEW n \in 0 .. Len(s), NEW R, R = ToSet(SubSeq(s, n + 1, Len(s)))
  PROVE  UsedBefore(SubSeq(s, n + 1, Len(s))) = UsedBefore(s) \cap (R \X R)
<1>. DEFINE r == SubSeq(s, n + 1, Len(s))
<1>1. /\ DOMAIN s = 1 .. Len(s) /\ Len(s) \in Nat /\ DOMAIN r = 1 .. Len(s) - n
      /\ \A i \in 1 .. Len(s) - n : r[i] = s[i + n]
  OBVIOUS
<1>. HIDE DEF r
<1>2. R = ToSet(r) /\ R \subseteq ToSet(s)
  <2>1. \A i \in DOMAIN r : r[i] \in ToSet(s)
    BY <1>1 DEF ToSet
  <2>2. R = ToSet(r)
    BY DEF r
  <2>. QED
    BY <2>1, <2>2 DEF ToSet
<1>3. ASSUME NEW a \in R, NEW b \in R
      PROVE  <<a, b>> \in UsedBefore(r) <=> <<a, b>> \in UsedBefore(s)
  <2>1. ASSUME NEW j \in DOMAIN r, r[j] = b, \A i \in DOMAIN r : r[i] = a => i < j
        PROVE  j + n \in DOMAIN s /\ s[j + n] = b /\ \A i \in DOMAIN s : s[i] = a => i < j + n
    <3>1. j + n \in DOMAIN s /\ s[j + n] = b
      BY <1>1, <2>1
    <3>2. ASSUME NEW i \in DOMAIN s, s[i] = a PROVE i < j + n
      <4>1. CASE i <= n
        BY <1>1, <2>1, <4>1
      <4>2. CASE i > n
        <5>1. i - n \in DOMAIN r /\ (i - n) + n = i
          BY <1>1, <4>2
        <5>2. r[i - n] = a
          BY <1>1, <3>2, <5>1
        <5>3. i - n < j
          BY <2>1, <5>1, <5>2
        <5>. QED
          BY <1>1, <2>1, <5>3
      <4>. QED
        BY <1>1, <4>1, <4>2
    <3>. QED
      BY <3>1, <3>2
  <2>2. ASSUME NEW j \in DOMAIN s, s[j] = b, \A i \in DOMAIN s : s[i] = a => i < j
        PROVE  j - n \in DOMAIN r /\ r[j - n] = b /\ \A i \in DOMAIN r : r[i] = a => i < j - n
    <3>1. PICK i0 \in DOMAIN r : r[i0] = a
      BY <1>2 DEF ToSet
    <3>2. ASSUME NEW i \in DOMAIN r, r[i] = a PROVE i + n < j
      <4>1. i + n \in DOMAIN s /\ s[i + n] = a
        BY <1>1, <3>2
      <4>. QED
        BY <2>2, <4>1
    <3>3. j - n \in DOMAIN r /\ (j - n) + n = j
      BY <1>1, <3>1, <3>2
    <3>4. r[j - n] = b
      BY <1>1, <2>2, <3>3
    <3>5. \A i \in DOMAIN r : r[i] = a => i < j - n
      BY <1>1, <3>2
    <3>. QED
      BY <3>3, <3>4, <3>5
  <2>. QED
    BY <1>2, <2>1, <2>2, UsedBeforeIs
<1>4. UsedBefore(r) \subseteq R \X R
  BY <1>2, UsedBeforePairs
<1>5. ASSUME NEW p \in R \X R PROVE p \in UsedBefore(r) <=> p \in UsedBefore(s)
  <2>1. PICK a \in R, b \in R : p = <<a, b>>
    OBVIOUS
  <2>. QED
    BY <1>3, <2>1
<1>. QED
  BY <1>4, <1>5 DEF r

\* A key none of whose nodes is left, while another's are, was not used after
\* that one.
LEMMA GoneIsOldest ==
  ASSUME NEW s \in Seq(Key), NEW n \in 0 .. Len(s), NEW v \in ToSet(s),
         v \notin ToSet(SubSeq(s, n + 1, Len(s))),
         NEW a \in ToSet(s), a = v \/ a \in ToSet(SubSeq(s, n + 1, Len(s)))
  PROVE  <<a, v>> \notin UsedBefore(s)
<1>. DEFINE r == SubSeq(s, n + 1, Len(s))
<1>1. /\ DOMAIN s = 1 .. Len(s) /\ Len(s) \in Nat /\ DOMAIN r = 1 .. Len(s) - n
      /\ \A i \in 1 .. Len(s) - n : r[i] = s[i + n]
  OBVIOUS
<1>2. v \notin ToSet(r) /\ (a = v \/ a \in ToSet(r))
  OBVIOUS
<1>. HIDE DEF r
<1>3. ASSUME NEW j \in DOMAIN s, s[j] = v, \A i \in DOMAIN s : s[i] = a => i < j
      PROVE  FALSE
  <2>1. j <= n
    <3>1. ASSUME j > n PROVE FALSE
      <4>1. j - n \in DOMAIN r /\ (j - n) + n = j
        BY <1>1, <3>1
      <4>2. r[j - n] = v
        BY <1>1, <1>3, <4>1
      <4>. QED
        BY <1>2, <4>1, <4>2 DEF ToSet
    <3>. QED
      BY <1>1, <3>1
  <2>2. a \in ToSet(r)
    BY <1>1, <1>2, <1>3
  <2>3. PICK i \in DOMAIN r : r[i] = a
    BY <2>2 DEF ToSet
  <2>4. i + n \in DOMAIN s /\ s[i + n] = a
    BY <1>1, <2>3
  <2>. QED
    BY <1>1, <1>3, <2>1, <2>3, <2>4
<1>. QED
  BY <1>3, UsedBeforeIs

\* LRU's Cardinality is the one of this module.
LEMMA SameCardinality == \A S : Abstract!Cardinality(S) = Cardinality(S)
BY DEF Cardinality, Abstract!Cardinality, IsFiniteSet, Abstract!IsFiniteSet

\* A Get uses its key when it links its node; its other accesses stutter.
LEMMA GetRefines ==
  ASSUME QInv, NEW t \in Thread, GetStep(t)
  PROVE  [Abstract!Next]_(Abstract!vars)
<1>1. CASE PutTailLink(t)
  <2>1. key[t] \in map /\ key[t] \in Key /\ queue \in Seq(Key) /\ map = ToSet(queue)
    BY <1>1 DEF PutTailLink, Goto, QInv, Links, TypeOK, SizeExact
  <2>2. map' = map /\ queue' = Append(queue, key[t])
    BY <1>1 DEF PutTailLink
  <2>3. UsedBefore(queue') = (UsedBefore(queue) \cap ((map \ {key[t]}) \X (map \ {key[t]})))
                              \cup ((map \ {key[t]}) \X {key[t]})
    <3>. DEFINE S == map \ {key[t]}
                k == key[t]
    <3>1. S = ToSet(queue) \ {k} /\ k \in Key
      BY <2>1
    <3>. HIDE DEF S, k
    <3>2. UsedBefore(Append(queue, k)) = (UsedBefore(queue) \cap (S \X S)) \cup (S \X {k})
      BY <2>1, <3>1, UsedLast
    <3>. QED
      BY <2>2, <3>2 DEF S, k
  <2>4. Abstract!Use(key[t])
    BY <2>1, <2>2, <2>3 DEF Abstract!Use, Abstract!Renews
  <2>. QED
    BY <2>1, <2>4 DEF Abstract!Next
<1>2. CASE ~PutTailLink(t)
  <2>1. UNCHANGED <<map, queue>>
    BY <1>2 DEF GetStep, GetFind, GetCount, PutTailLoad, PutTailNext, PutTailLinkFails,
                PutTailSwing, Only
  <2>. QED
    BY <2>1 DEF Abstract!vars
<1>. QED
  BY <1>1, <1>2

\* A Put inserts its key and, at the capacity, evicts the one whose last node
\* PopHead stops at.
LEMMA PutRefines ==
  ASSUME QInv, NEW k \in Key, Put(k)
  PROVE  Abstract!Insert(k)
<1>. DEFINE s == Append(queue, k)
            c == [cnt EXCEPT ![k] = 1]
            n == IF size = Capacity THEN PopLength(s, c) ELSE 0
            rest == SubSeq(s, n + 1, Len(s))
            gone == {x \in ToSet(SubSeq(s, 1, n)) : c[x] - Occurrences(x, SubSeq(s, 1, n)) = 0}
<1>1. k \notin map /\ queue' = rest /\ map' = (map \cup {k}) \ gone
  BY DEF Put
<1>2. /\ queue \in Seq(Key) /\ s \in Seq(Key) /\ s # <<>> /\ map = ToSet(queue)
      /\ size = Cardinality(map) /\ size \in 0 .. Capacity /\ Capacity \in Nat /\ Capacity # 0
      /\ IsFiniteSet(map)
  <2>1. queue \in Seq(Key)
    BY DEF QInv, TypeOK
  <2>2. s \in Seq(Key) /\ s # <<>>
    BY <2>1, Appended
  <2>. QED
    BY <2>1, <2>2, CapacityAssumption DEF QInv, TypeOK, SizeExact
<1>3. ToSet(s) = map \cup {k}
  BY <1>2, KeysOfAppend
<1>4. \A x \in Key : c[x] = Occurrences(x, s)
  BY PutCounts
<1>5. UsedBefore(s) = (UsedBefore(queue) \cap (map \X map)) \cup (map \X {k})
  <2>1. map = ToSet(queue) \ {k}
    BY <1>1, <1>2
  <2>. QED
    BY <1>2, <2>1, UsedLast
<1>. HIDE DEF s, c
<1>6. n = 0 \/ n = PopLength(s, c)
  OBVIOUS
<1>7. n # 0 => n \in 1 .. Len(s)
  <2>1. \A x \in ToSet(s) : c[x] = Occurrences(x, s)
    BY <1>2, <1>4, KeysOf
  <2>. QED
    BY <1>2, <1>6, <2>1, PopHeadStops
<1>8. size = Capacity <=> n # 0
  <2>1. \A x \in ToSet(s) : c[x] = Occurrences(x, s)
    BY <1>2, <1>4, KeysOf
  <2>2. PopLength(s, c) \in 1 .. Len(s)
    BY <1>2, <2>1, PopHeadStops
  <2>. QED
    BY <2>2
<1>. HIDE DEF n
<1>9. /\ ToSet(rest) = ToSet(s) \ gone
      /\ n = 0 => gone = {}
      /\ n # 0 => gone = {s[n]} /\ s[n] \in ToSet(s)
  BY <1>2, <1>4, <1>6, AfterPop
<1>10. n \in 0 .. Len(s)
  BY <1>2, <1>7
<1>11. UsedBefore(rest) = UsedBefore(s) \cap (ToSet(rest) \X ToSet(rest))
  BY <1>2, <1>10, UsedBeforeRest
<1>12. CASE n = 0
  <2>1. ToSet(rest) = map \cup {k} /\ map' = map \cup {k}
    BY <1>1, <1>3, <1>9, <1>12
  <2>2. Cardinality(map) < Capacity
    BY <1>2, <1>8, <1>12
  <2>. HIDE DEF rest, gone
  <2>3. UsedBefore(queue') = (UsedBefore(queue) \cap (map \X map)) \cup (map \X {k})
    BY <1>1, <1>5, <1>11, <2>1
  <2>4. Abstract!Renews(map, k)
    BY <2>1, <2>3 DEF Abstract!Renews
  <2>. QED
    BY <1>1, <2>2, <2>4, SameCardinality DEF Abstract!Insert
<1>13. CASE n # 0
  <2>. DEFINE v == s[n]
  <2>1. /\ v \in map \cup {k} /\ gone = {v}
        /\ ToSet(rest) = (map \cup {k}) \ {v} /\ map' = (map \cup {k}) \ {v}
    BY <1>1, <1>3, <1>9, <1>13
  <2>2. Cardinality(map) = Capacity /\ map # {}
    BY <1>2, <1>8, <1>13, FS_EmptySet
  <2>. HIDE DEF rest, gone, v
  <2>3. v \in ToSet(s) /\ v \notin ToSet(rest) /\ \A a \in ToSet(s) : a = v \/ a \in ToSet(rest)
    BY <1>3, <2>1
  <2>4. \A a \in ToSet(s) : <<a, v>> \notin UsedBefore(s)
    BY <1>2, <1>10, <2>3, GoneIsOldest DEF rest
  <2>5. v \in map /\ v # k
    \* k was used after a key of the map, so v is not k
    <3>1. PICK a \in map : TRUE
      BY <2>2
    <3>2. <<a, k>> \in UsedBefore(s) /\ a \in ToSet(s)
      BY <1>3, <1>5, <3>1
    <3>. QED
      BY <2>1, <2>4, <3>2
  <2>6. v \in Abstract!Oldest
    BY <1>3, <1>5, <2>4, <2>5 DEF Abstract!Oldest
  <2>7. map' = (map \ {v}) \cup {k}
    BY <2>1, <2>5
  <2>8. UsedBefore(queue') = (UsedBefore(queue) \cap ((map \ {v}) \X (map \ {v}))) \cup ((map \ {v}) \X {k})
    <3>1. UsedBefore(queue') = ((UsedBefore(queue) \cap (map \X map)) \cup (map \X {k}))
                                 \cap (((map \ {v}) \cup {k}) \X ((map \ {v}) \cup {k}))
      BY <1>1, <1>5, <1>11, <2>1, <2>7
    <3>2. k \notin map /\ UsedBefore(queue) \subseteq map \X map
      BY <1>1, <1>2, UsedBeforePairs
    <3>. QED
      BY <3>1, <3>2, <2>5
  <2>9. Abstract!Renews(map \ {v}, k)
    BY <2>7, <2>8 DEF Abstract!Renews
  <2>. QED
    BY <1>1, <2>2, <2>6, <2>9, SameCardinality DEF Abstract!Insert
<1>. QED
  BY <1>12, <1>13

\* With any number of threads in Get at once and any capacity, the cache is a
\* least-recently-used cache: a successful Get uses its key when it links its
\* node, and a Put at the capacity evicts the key whose last use is oldest,
\* though PopHead only looks at counts.
THEOREM ImplementsLRU == Spec => IsLRU
<1>1. Init => Abstract!Init
  BY DEF Init, Abstract!Init, UsedBefore, ToSet
<1>2. QInv /\ [Next]_vars => [Abstract!Next]_(Abstract!vars)
  <2>. SUFFICES ASSUME QInv, [Next]_vars PROVE [Abstract!Next]_(Abstract!vars)
    OBVIOUS
  <2>1. CASE UNCHANGED vars
    BY <2>1 DEF vars, Abstract!vars
  <2>2. ASSUME NEW t \in Thread, GetStep(t) PROVE [Abstract!Next]_(Abstract!vars)
    BY <2>2, GetRefines
  <2>3. ASSUME NEW k \in Key, Put(k) PROVE [Abstract!Next]_(Abstract!vars)
    BY <2>3, PutRefines DEF Abstract!Next
  <2>. QED
    BY <2>1, <2>2, <2>3 DEF Next
<1>. QED
  BY <1>1, <1>2, CountsKept, PTL DEF Spec, IsLRU, Abstract!Spec
=============================================================================
