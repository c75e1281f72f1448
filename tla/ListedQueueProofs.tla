-------------------------- MODULE ListedQueueProofs --------------------------
(***************************************************************************)
(* The listed queue, for any number of threads and nodes, while no PopHead *)
(* empties the list unawares: it is a FIFO queue, and tail_ is right       *)
(* between the operations.  The linked list is told by two numbers: it is  *)
(* the nodes pushed less those popped, in order, and at most one node more *)
(* whose PushBack has not moved tail_ yet; ChainLemmas tells what Chain,   *)
(* which follows the links, gives for a list that has this form.           *)
(***************************************************************************)
EXTENDS ListedQueue, FiniteSetTheorems, SequenceTheorems, ChainLemmas, TLAPS

-----------------------------------------------------------------------------
(* The invariant *)
Ins  == Len(pushed)
Outs == Len(out)

\* The places where a node can be linked: head_, then the nodes in the queue
Place(i) == IF i = Outs THEN Head0 ELSE pushed[i]

\* The nodes popped are the first ones pushed, in order; the others are linked
\* from head_, in order.  Behind the last of them nothing is linked, or a node
\* whose PushBack has not returned; such nodes link to nothing themselves.
Path ==
    /\ Outs <= Ins
    /\ \A i \in 1 .. Outs : out[i] = pushed[i]
    /\ \A i, j \in 1 .. Ins : pushed[i] = pushed[j] => i = j
    /\ \A i \in Outs .. Ins : i < Ins => next[Place(i)] = pushed[i + 1]
    /\ next[Place(Ins)] = Null \/ Unfinished(next[Place(Ins)])
    /\ \A n \in Node : n \notin ToSet(pushed) => next[n] = Null

\* tail_ is the last place, or already head_ while a pop is to take the only
\* node.
Emptying(t) == pc[t] = "popLast" /\ Ins = Outs + 1 /\ at[t] = pushed[Ins] /\ tail = Head0

TailAt == tail = Place(Ins) \/ \E t \in Thread : Emptying(t)

\* A push has read a place that was the tail once, which no unfinished node
\* ever is; while it is to move tail_ its node is linked there.
PushFits(t) ==
    /\ pc[t] \in PushLabels => node[t] \notin ToSet(pushed)
    /\ pc[t] \in {"pushNext", "pushLink", "pushSwing"} => at[t] \in {Head0} \cup ToSet(pushed)
    /\ pc[t] = "pushSwing" => next[at[t]] = node[t]

Distinct == \A t, u \in Thread : t # u /\ node[t] # Null => node[t] # node[u]

\* A pop holds a node that was first once, and what was behind it unless that
\* was nothing.  When there was something, the node is not the last one, and a
\* pop that has put tail_ on head_ still finds the last node first, if any.
PopFits(t) ==
    /\ pc[t] \in {"popNext", "popTail", "popLast", "popHead"} =>
         at[t] \in ToSet(out) \/ at[t] = next[Head0]
    /\ pc[t] \in {"popTail", "popLast", "popHead"} => nx[t] \in {Null, next[at[t]]}
    /\ pc[t] = "popHead" /\ nx[t] # Null => tail # at[t]
    /\ pc[t] = "popLast" /\ at[t] = next[Head0] => Emptying(t)

Core == Path /\ TailAt /\ Distinct /\ \A t \in Thread : PushFits(t) /\ PopFits(t)

LTypes ==
    /\ TypeOK /\ pushed \in Seq(Node) /\ out \in Seq(Node)
    /\ \A t \in Thread :
         /\ node[t] \in Node <=> pc[t] \in PushLabels
         /\ pc[t] \in {"popNext", "popTail", "popLast", "popHead"} => at[t] \in Node

LInv == LTypes /\ (~hazard => Core)

LEMMA Facts ==
  ASSUME LTypes, Path
  PROVE  /\ Ins \in Nat /\ Outs \in Nat /\ Outs <= Ins
         /\ Head0 \notin Node /\ Null \notin Node /\ Head0 # Null
         /\ \A i \in 1 .. Ins : pushed[i] \in Node /\ pushed[i] \in ToSet(pushed)
         /\ \A i \in Outs + 1 .. Ins : i \in 1 .. Ins /\ Place(i) = pushed[i]
         /\ Place(Outs) = Head0
         /\ Outs < Ins => next[Head0] = pushed[Outs + 1]
         /\ \A n \in ToSet(pushed) : \E i \in 1 .. Ins : n = pushed[i]
         /\ \A n \in ToSet(out) : \E i \in 1 .. Outs : n = pushed[i]
<1>1. Ins \in Nat /\ Outs \in Nat /\ Outs <= Ins
  BY DEF LTypes, Path, Ins, Outs
<1>2. Head0 \notin Node /\ Null \notin Node /\ Head0 # Null
  BY NodeAssumption, NullAssumption
<1>3. /\ \A i \in 1 .. Ins : pushed[i] \in Node /\ pushed[i] \in ToSet(pushed)
      /\ \A n \in ToSet(pushed) : \E i \in 1 .. Ins : n = pushed[i]
  BY DEF LTypes, Ins, ToSet
<1>4. /\ \A i \in Outs + 1 .. Ins : i \in 1 .. Ins /\ Place(i) = pushed[i]
      /\ Place(Outs) = Head0
  BY <1>1 DEF Place
<1>5. Outs < Ins => next[Head0] = pushed[Outs + 1]
  BY <1>1, <1>4 DEF Path
<1>6. \A n \in ToSet(out) : \E i \in 1 .. Outs : n = pushed[i]
  BY DEF LTypes, Outs, Path, ToSet
<1>. QED
  BY <1>1, <1>2, <1>3, <1>4, <1>5, <1>6

\* An unfinished node is not in the queue yet and links to nothing.
LEMMA UnfinishedIs ==
  ASSUME LTypes, Core, NEW n \in Node \cup {Head0, Null}, Unfinished(n), n # Null
  PROVE  n \in Node /\ n \notin ToSet(pushed) /\ next[n] = Null
<1>1. PICK t \in Thread : node[t] = n
  BY DEF Unfinished
<1>2. node[t] \in Node
  BY <1>1, NodeAssumption DEF LTypes, TypeOK
<1>3. node[t] \notin ToSet(pushed)
  BY <1>2 DEF LTypes, Core, PushFits
<1>. QED
  BY <1>1, <1>2, <1>3 DEF Core, Path

\* Two places are two nodes; a node popped is no place, and is not first.
LEMMA PlacesDiffer ==
  ASSUME LTypes, Core
  PROVE  /\ \A i, j \in Outs .. Ins : Place(i) = Place(j) => i = j
         /\ \A i \in Outs .. Ins : Place(i) \in {Head0} \cup ToSet(pushed) /\ Place(i) \notin ToSet(out)
         /\ \A n \in {Head0} \cup ToSet(pushed) :
              n \in ToSet(out) \/ \E i \in Outs .. Ins : n = Place(i)
         /\ next[Head0] \notin ToSet(out)
<1>0. Path
  BY DEF Core
<1>1. /\ Ins \in Nat /\ Outs \in Nat /\ Outs <= Ins /\ Place(Outs) = Head0
      /\ Head0 \notin Node /\ \A i \in 1 .. Ins : pushed[i] \in Node
  BY <1>0, Facts
<1>2. ASSUME NEW i \in Outs .. Ins, i # Outs
      PROVE  i \in 1 .. Ins /\ i \notin 1 .. Outs /\ Place(i) = pushed[i]
  <2>1. i \in Outs + 1 .. Ins
    BY <1>1, <1>2
  <2>. QED
    BY <1>0, <2>1, <1>1, Facts
<1>3. \A i, j \in 1 .. Ins : pushed[i] = pushed[j] => i = j
  BY <1>0 DEF Path
<1>4. \A n \in ToSet(out) : \E i \in 1 .. Outs : n = pushed[i]
  BY <1>0, Facts
<1>5. \A i \in Outs .. Ins : i # Outs => Place(i) # Head0
  BY <1>1, <1>2
<1>6. \A i, j \in Outs .. Ins : Place(i) = Place(j) => i = j
  BY <1>1, <1>2, <1>3, <1>5
<1>7. ASSUME NEW i \in Outs .. Ins
      PROVE  Place(i) \in {Head0} \cup ToSet(pushed) /\ Place(i) \notin ToSet(out)
  <2>1. CASE i = Outs
    <3>1. \A k \in 1 .. Outs : k \in 1 .. Ins
      BY <1>1
    <3>. QED
      BY <1>1, <1>4, <2>1, <3>1
  <2>2. CASE i # Outs
    <3>1. \A k \in 1 .. Outs : k \in 1 .. Ins /\ k # i
      BY <1>1, <1>2, <2>2
    <3>2. Place(i) \notin ToSet(out)
      BY <1>2, <1>3, <1>4, <2>2, <3>1
    <3>3. pushed[i] \in ToSet(pushed)
      BY <1>0, <1>2, <2>2, Facts
    <3>. QED
      BY <1>2, <2>2, <3>2, <3>3
  <2>. QED
    BY <2>1, <2>2
<1>8. ASSUME NEW n \in {Head0} \cup ToSet(pushed)
      PROVE  n \in ToSet(out) \/ \E i \in Outs .. Ins : n = Place(i)
  <2>1. CASE n = Head0
    BY <1>1, <2>1
  <2>2. CASE n # Head0
    <3>1. PICK k \in 1 .. Ins : n = pushed[k]
      BY <1>0, <2>2, Facts
    <3>2. CASE k <= Outs
      <4>1. k \in 1 .. Outs /\ out[k] = pushed[k]
        BY <1>0, <1>1, <3>2 DEF Path
      <4>2. out[k] \in ToSet(out)
        BY <4>1 DEF Outs, ToSet, LTypes
      <4>. QED
        BY <3>1, <4>1, <4>2
    <3>3. CASE ~(k <= Outs)
      <4>1. k \in Outs .. Ins /\ k \in Outs + 1 .. Ins
        BY <1>1, <3>3
      <4>2. Place(k) = pushed[k]
        BY <1>0, <4>1, Facts
      <4>. QED
        BY <3>1, <4>1, <4>2
    <3>. QED
      BY <3>2, <3>3
  <2>. QED
    BY <2>1, <2>2
<1>9. next[Head0] \notin ToSet(out)
  <2>1. CASE Outs < Ins
    <3>1. next[Head0] = pushed[Outs + 1] /\ Outs + 1 \in 1 .. Ins
      BY <1>0, <1>1, <2>1, Facts
    <3>2. \A k \in 1 .. Outs : k \in 1 .. Ins /\ k # Outs + 1
      BY <1>1
    <3>. QED
      BY <1>3, <1>4, <3>1, <3>2
  <2>2. CASE ~(Outs < Ins)
    <3>1. Place(Ins) = Head0
      BY <1>1, <2>2
    <3>2. next[Head0] = Null \/ Unfinished(next[Head0])
      BY <1>0, <3>1 DEF Path
    <3>3. next[Head0] \in Node \cup {Null} /\ Null \notin Node
      BY <1>0, Facts DEF LTypes, TypeOK
    <3>4. next[Head0] = Null \/ next[Head0] \notin ToSet(pushed)
      BY <3>2, <3>3, UnfinishedIs
    <3>5. \A n \in ToSet(out) : n \in ToSet(pushed) /\ n # Null
      <4>1. ASSUME NEW n \in ToSet(out) PROVE n \in ToSet(pushed) /\ n # Null
        <5>1. PICK k \in 1 .. Outs : n = pushed[k]
          BY <1>4
        <5>2. k \in 1 .. Ins
          BY <1>1
        <5>. QED
          BY <1>0, <5>1, <5>2, Facts
      <4>. QED
        BY <4>1
    <3>. QED
      BY <3>4, <3>5
  <2>. QED
    BY <2>1, <2>2
<1>. QED
  BY <1>6, <1>7, <1>8, <1>9

-----------------------------------------------------------------------------
(* The list and the queue *)

\* The nodes pushed and not popped
Kept == SubSeq(pushed, Outs + 1, Ins)

LEMMA KeptIs ==
  ASSUME LTypes, Path
  PROVE  /\ Kept \in Seq(Node) /\ Len(Kept) = Ins - Outs
         /\ \A i \in 1 .. Ins - Outs : Kept[i] = pushed[Outs + i]
         /\ Ins - Outs \in Nat
BY Facts DEF LTypes, Ins, Outs, Kept

\* What is linked from head_ is what is kept, and perhaps one unfinished node.
LEMMA LinkedIs ==
  ASSUME LTypes, Core
  PROVE  Linked = IF next[Place(Ins)] = Null THEN Kept ELSE Append(Kept, next[Place(Ins)])
<1>0. Path
  BY DEF Core
<1>. DEFINE m == next[Place(Ins)]
            p == IF m = Null THEN Kept ELSE Append(Kept, m)
<1>1. /\ Kept \in Seq(Node) /\ Len(Kept) = Ins - Outs /\ Ins - Outs \in Nat
      /\ \A i \in 1 .. Ins - Outs : Kept[i] = pushed[Outs + i]
      /\ Ins \in Nat /\ Outs \in Nat /\ Outs <= Ins
  BY <1>0, KeptIs, Facts
<1>. HIDE DEF Kept
<1>2. m # Null => m \in Node /\ m \notin ToSet(pushed) /\ next[m] = Null
  <2>1. Place(Ins) \in Node \cup {Head0}
    <3>1. Ins \in Outs .. Ins
      BY <1>1
    <3>2. \A n \in ToSet(pushed) : n \in Node
      BY DEF LTypes, ToSet
    <3>. QED
      BY <3>1, <3>2, PlacesDiffer
  <2>2. m \in Node \cup {Null}
    BY <2>1 DEF LTypes, TypeOK
  <2>. QED
    BY <1>0, <2>2, UnfinishedIs DEF Path
<1>3. /\ p \in Seq(Node) /\ Len(p) = IF m = Null THEN Ins - Outs ELSE Ins - Outs + 1
      /\ \A i \in 1 .. Ins - Outs : p[i] = pushed[Outs + i]
      /\ m # Null => p[Ins - Outs + 1] = m
  BY <1>1, <1>2
<1>. HIDE DEF p
<1>4. IsFiniteSet(DOMAIN next) /\ Len(p) <= Cardinality(DOMAIN next)
  <2>1. DOMAIN next = Node \cup {Head0} /\ IsFiniteSet(Node) /\ Head0 \notin Node
    BY NodeAssumption DEF LTypes, TypeOK
  <2>2. IsFiniteSet(Node \cup {Head0}) /\ Cardinality(Node \cup {Head0}) = Cardinality(Node) + 1
    BY <2>1, FS_AddElement
  <2>3. pushed \in Injection(1 .. Ins, Node)
    BY <1>0 DEF LTypes, Path, Ins, Injection, IsInjective
  <2>4. Cardinality(1 .. Ins) <= Cardinality(Node)
    BY <2>1, <2>3, FS_Injection
  <2>5. Cardinality(1 .. Ins) = Ins
    BY <1>1, FS_Interval
  <2>6. Cardinality(Node) \in Nat
    BY <2>1, FS_CardinalityType
  <2>. QED
    BY <1>1, <1>3, <2>1, <2>2, <2>4, <2>5, <2>6
<1>5. next[Head0] = IF Len(p) = 0 THEN Null ELSE p[1]
  <2>1. CASE Outs < Ins
    <3>1. 1 \in 1 .. Ins - Outs /\ Outs + 1 = Outs + 1
      BY <1>1, <2>1
    <3>2. next[Head0] = pushed[Outs + 1]
      BY <1>0, <2>1, Facts
    <3>. QED
      BY <1>1, <1>3, <3>1, <3>2
  <2>2. CASE ~(Outs < Ins)
    <3>1. Ins - Outs = 0 /\ next[Head0] = m
      BY <1>0, <1>1, <2>2, Facts
    <3>. QED
      BY <1>3, <3>1
  <2>. QED
    BY <2>1, <2>2
<1>6. ASSUME NEW i \in 1 .. Len(p)
      PROVE  next[p[i]] = IF i < Len(p) THEN p[i + 1] ELSE Null
  <2>1. CASE i < Ins - Outs
    <3>1. /\ i \in 1 .. Ins - Outs /\ i + 1 \in 1 .. Ins - Outs /\ i < Len(p)
          /\ Outs + i \in Outs .. Ins /\ Outs + i \in Outs + 1 .. Ins /\ Outs + i < Ins
      BY <1>1, <1>3, <2>1
    <3>2. next[Place(Outs + i)] = pushed[Outs + i + 1] /\ Place(Outs + i) = pushed[Outs + i]
      BY <1>0, <3>1, Facts DEF Path
    <3>3. Outs + (i + 1) = Outs + i + 1
      BY <1>1
    <3>. QED
      BY <1>3, <3>1, <3>2, <3>3
  <2>2. CASE i = Ins - Outs
    <3>1. /\ i \in 1 .. Ins - Outs /\ Outs + i = Ins /\ Ins \in Outs + 1 .. Ins
          /\ i < Len(p) <=> m # Null
      BY <1>1, <1>3, <2>2
    <3>2. p[i] = Place(Ins)
      BY <1>0, <1>3, <3>1, Facts
    <3>. QED
      BY <1>3, <2>2, <3>1, <3>2
  <2>3. CASE ~(i < Ins - Outs) /\ i # Ins - Outs
    <3>1. m # Null /\ i = Ins - Outs + 1 /\ i = Len(p)
      BY <1>1, <1>3, <2>3
    <3>. QED
      BY <1>2, <1>3, <3>1
  <2>. QED
    BY <2>1, <2>2, <2>3
<1>7. Null \notin Node
  BY NullAssumption
<1>8. Chain(next, Head0, Null) = p
  BY <1>3, <1>4, <1>5, <1>6, <1>7, PathIsChain
<1>. QED
  BY <1>8 DEF Linked, p

\* The queue is what is kept.
LEMMA QueuedIs ==
  ASSUME LTypes, Core
  PROVE  Queued = Kept
<1>0. Path
  BY DEF Core
<1>. DEFINE m == next[Place(Ins)]
<1>1. /\ Kept \in Seq(Node) /\ Len(Kept) = Ins - Outs /\ Ins - Outs \in Nat
      /\ \A i \in 1 .. Ins - Outs : Kept[i] = pushed[Outs + i]
  BY <1>0, KeptIs
<1>. HIDE DEF Kept
<1>2. Linked = IF m = Null THEN Kept ELSE Append(Kept, m)
  BY LinkedIs
<1>. HIDE DEF m
<1>3. CASE m = Null
  <2>1. Linked = Kept
    BY <1>2, <1>3
  <2>2. ASSUME Kept # <<>> PROVE ~Unfinished(Last(Kept))
    <3>1. Ins - Outs \in 1 .. Ins - Outs /\ Len(Kept) # 0
      BY <1>1, <2>2
    <3>2. Last(Kept) = pushed[Outs + (Ins - Outs)]
      BY <1>1, <3>1 DEF Last
    <3>3. Outs + (Ins - Outs) \in 1 .. Ins
      BY <1>0, <1>1, <3>1, Facts
    <3>4. Last(Kept) \in Node /\ Last(Kept) \in ToSet(pushed)
      BY <1>0, <3>2, <3>3, Facts
    <3>. QED
      BY <3>4, UnfinishedIs, NullAssumption
  <2>. QED
    BY <2>1, <2>2 DEF Queued
<1>4. CASE m # Null
  <2>1. Unfinished(m)
    BY <1>0, <1>4 DEF Path, m
  <2>2. Linked = Append(Kept, m)
    BY <1>2, <1>4
  <2>3. Append(Kept, m) # <<>> /\ Last(Append(Kept, m)) = m /\ Front(Append(Kept, m)) = Kept
    <3>1. Kept \in Seq(Node \cup {m}) /\ m \in Node \cup {m}
      BY <1>1
    <3>. DEFINE a == Append(Kept, m)
    <3>2. Len(a) = Len(Kept) + 1 /\ a[Len(a)] = m /\ Len(Kept) \in Nat
      BY <3>1
    <3>3. SubSeq(a, 1, Len(a) - 1) = Kept
      <4>1. Len(a) - 1 = Len(Kept)
        BY <3>2
      <4>2. SubSeq(a, 1, Len(Kept)) = Kept
        BY <3>1
      <4>. QED
        BY <4>1, <4>2
    <3>4. a # <<>>
      <4>1. Len(a) # 0
        BY <3>2
      <4>. QED
        BY <4>1
    <3>. QED
      BY <3>2, <3>3, <3>4 DEF Last, Front
  <2>. QED
    BY <2>1, <2>2, <2>3 DEF Queued
<1>. QED
  BY <1>3, <1>4

LEMMA InitLInv == Init => LInv
<1>. SUFFICES ASSUME Init PROVE LInv
  OBVIOUS
<1>. USE DEF Init
<1>1. \A S : <<>> \in Seq(S)
  OBVIOUS
<1>2. LTypes
  BY <1>1, NullAssumption DEF LTypes, TypeOK, PushLabels
<1>3. Ins = 0 /\ Outs = 0 /\ Place(0) = Head0
  BY DEF Ins, Outs, Place
<1>4. Path /\ TailAt
  <2>1. \A i \in 0 .. 0 : i = 0
    OBVIOUS
  <2>. QED
    BY <1>3, <2>1 DEF Path, TailAt
<1>5. Distinct /\ \A t \in Thread : PushFits(t) /\ PopFits(t)
  BY DEF Distinct, PushFits, PopFits, PushLabels
<1>. QED
  BY <1>2, <1>4, <1>5 DEF LInv, Core

-----------------------------------------------------------------------------
(* What every step of a thread leaves alone *)
Act(t) == PushCall(t) \/ PushStep(t) \/ PopCall(t) \/ PopStep(t)

LEMMA OthersStay ==
  ASSUME LTypes, NEW t \in Thread, Act(t), NEW u \in Thread, u # t
  PROVE  pc'[u] = pc[u] /\ node'[u] = node[u] /\ at'[u] = at[u] /\ nx'[u] = nx[u]
<1>. USE DEF Act, PushStep, PopStep, Step, Forget, LTypes, TypeOK
<1>1. CASE PushCall(t) \/ PushStep(t)
  BY <1>1 DEF PushCall, PushLoad, PushNext, PushLink, PushLinkFails, PushSwing
<1>2. CASE PopCall(t) \/ PopStep(t)
  BY <1>2 DEF PopCall, PopLoad, PopNext, PopTail, PopLast, PopHead, Unlink
<1>. QED
  BY <1>1, <1>2

\* The argument of a push is forgotten only when it returns.
LEMMA TypesKept ==
  ASSUME LTypes, NEW t \in Thread, Act(t)
  PROVE  LTypes'
<1>. USE DEF LTypes, TypeOK
<1>. USE NullAssumption, NodeAssumption
<1>1. ASSUME NEW u \in Thread, u # t
      PROVE  /\ node'[u] \in Node <=> pc'[u] \in PushLabels
             /\ pc'[u] \in {"popNext", "popTail", "popLast", "popHead"} => at'[u] \in Node
  BY <1>1, OthersStay
<1>2. /\ TypeOK' /\ pushed' \in Seq(Node) /\ out' \in Seq(Node)
      /\ node'[t] \in Node <=> pc'[t] \in PushLabels
      /\ pc'[t] \in {"popNext", "popTail", "popLast", "popHead"} => at'[t] \in Node
  <2>1. CASE PushCall(t)
    BY <2>1 DEF PushCall, Step, PushLabels, PopLabels
  <2>2. CASE PushLoad(t)
    BY <2>2 DEF PushLoad, Step, PushLabels, PopLabels
  <2>3. CASE PushNext(t)
    BY <2>3 DEF PushNext, Step, Forget, PushLabels, PopLabels
  <2>4. CASE PushLink(t)
    BY <2>4 DEF PushLink, Step, PushLabels, PopLabels
  <2>5. CASE PushLinkFails(t)
    BY <2>5 DEF PushLinkFails, Step, Forget, PushLabels, PopLabels
  <2>6. CASE PushSwing(t)
    <3>1. node[t] \in Node
      BY <2>6 DEF PushSwing, Step, PushLabels
    <3>2. pushed' \in Seq(Node)
      <4>1. Append(pushed, node[t]) \in Seq(Node)
        BY <3>1
      <4>. QED
        BY <2>6, <4>1 DEF PushSwing
    <3>. QED
      BY <2>6, <3>1, <3>2 DEF PushSwing, Step, Forget, PushLabels, PopLabels
  <2>7. CASE PopCall(t)
    BY <2>7 DEF PopCall, Step, PushLabels, PopLabels
  <2>8. CASE PopLoad(t)
    BY <2>8 DEF PopLoad, Step, PushLabels, PopLabels
  <2>9. CASE PopNext(t)
    BY <2>9 DEF PopNext, Step, PushLabels, PopLabels
  <2>10. CASE PopTail(t)
    BY <2>10 DEF PopTail, EmptyTail, Step, PushLabels, PopLabels
  <2>11. CASE PopLast(t) \/ PopHead(t)
    <3>1. at[t] \in Node
      BY <2>11 DEF PopLast, PopHead, Unlink, Step
    <3>2. out' \in Seq(Node)
      <4>1. Append(out, at[t]) \in Seq(Node)
        BY <3>1
      <4>2. out' = Append(out, at[t]) \/ out' = out
        BY <2>11 DEF PopLast, PopHead, Unlink
      <4>. QED
        BY <4>1, <4>2
    <3>3. hazard' \in BOOLEAN
      BY <2>11 DEF PopLast, PopHead, Unlink, EmptiesUnawares
    <3>4. /\ pc[t] \notin PushLabels /\ pc' \in [Thread -> {"idle"} \cup PushLabels \cup PopLabels]
          /\ pc'[t] \in {"idle", "popLoad"} /\ node' = node /\ tail' = tail /\ pushed' = pushed
      BY <2>11 DEF PopLast, PopHead, Unlink, Step, PushLabels, PopLabels
    <3>5. /\ next' \in [Node \cup {Head0} -> Node \cup {Null}]
          /\ at' \in [Thread -> Node \cup {Head0, Null}] /\ nx' \in [Thread -> Node \cup {Null}]
      <4>1. nx[t] \in Node \cup {Null} /\ Null \in Node \cup {Null}
        OBVIOUS
      <4>. QED
        BY <2>11, <4>1 DEF PopLast, PopHead, Unlink, EmptyHead, Forget
    <3>. QED
      BY <3>2, <3>3, <3>4, <3>5 DEF PushLabels
  <2>. QED
    BY <2>1, <2>2, <2>3, <2>4, <2>5, <2>6, <2>7, <2>8, <2>9, <2>10, <2>11 DEF Act, PushStep, PopStep
<1>. QED
  BY <1>1, <1>2

\* The places are the same when no sequence changes.
LEMMA PlacesSame ==
  ASSUME UNCHANGED <<pushed, out>>
  PROVE  Ins' = Ins /\ Outs' = Outs /\ \A i : Place(i)' = Place(i)
BY DEF Ins, Outs, Place

\* A step that moves nothing but its own thread.
LEMMA QuietKeeps ==
  ASSUME LTypes, Core, NEW t \in Thread, Act(t), UNCHANGED <<next, tail, pushed, out>>,
         ~Emptying(t), PushFits(t)', PopFits(t)',
         UNCHANGED node \/ (node[t] = Null /\ \A u \in Thread : u # t => node'[t] # node[u])
  PROVE  Core'
<1>1. Ins' = Ins /\ Outs' = Outs /\ \A i : Place(i)' = Place(i)
  BY PlacesSame
<1>2. \A u \in Thread : u # t => pc'[u] = pc[u] /\ node'[u] = node[u] /\ at'[u] = at[u] /\ nx'[u] = nx[u]
  BY OthersStay
<1>3. \A u \in Thread : u # t => Emptying(u)' = Emptying(u)
  BY <1>1, <1>2 DEF Emptying
<1>4. TailAt'
  BY <1>1, <1>3 DEF TailAt, Core
<1>5. ASSUME NEW u \in Thread PROVE PushFits(u)' /\ PopFits(u)'
  <2>1. CASE u = t
    BY <2>1
  <2>2. CASE u # t
    BY <1>2, <1>3, <2>2 DEF Core, PushFits, PopFits
  <2>. QED
    BY <2>1, <2>2
<1>6. Distinct'
  BY <1>2 DEF Core, Distinct
<1>7. Path'
  <2>1. ASSUME NEW u \in Thread, node[u] # Null PROVE node'[u] = node[u]
    BY <1>2, <2>1
  <2>2. next'[Place(Ins)'] = next[Place(Ins)]
    BY <1>1
  <2>3. (next[Place(Ins)] = Null \/ Unfinished(next[Place(Ins)]))'
    <3>1. CASE next[Place(Ins)] = Null
      BY <2>2, <3>1
    <3>2. CASE next[Place(Ins)] # Null
      <4>1. PICK u \in Thread : node[u] = next[Place(Ins)]
        BY <3>2 DEF Core, Path, Unfinished
      <4>. QED
        BY <2>1, <2>2, <3>2, <4>1 DEF Unfinished
    <3>. QED
      BY <3>1, <3>2
  <2>. QED
    BY <1>1, <2>3 DEF Core, Path
<1>. QED
  BY <1>4, <1>5, <1>6, <1>7 DEF Core

\* The steps of a push that change neither a link nor tail_
LEMMA PushQuiet ==
  ASSUME LTypes, Core, NEW t \in Thread,
         \/ PushCall(t) \/ PushLoad(t) \/ PushNext(t) \/ PushLinkFails(t)
         \/ PushSwing(t) /\ tail # at[t]
  PROVE  Core'
<1>1. Act(t) /\ UNCHANGED <<next, tail, pushed, out>>
  BY DEF Act, PushStep, PushCall, PushLoad, PushNext, PushLinkFails, PushSwing
<1>2. ~Emptying(t)
  BY DEF Emptying, PushCall, PushLoad, PushNext, PushLinkFails, PushSwing, Step
<1>3. /\ pc \in [Thread -> {"idle"} \cup PushLabels \cup PopLabels]
      /\ node \in [Thread -> Node \cup {Null}] /\ at \in [Thread -> Node \cup {Head0, Null}]
      /\ node[t] \in Node <=> pc[t] \in PushLabels
  BY DEF LTypes, TypeOK
<1>4. PopFits(t)'
  BY <1>3 DEF PopFits, PushCall, PushLoad, PushNext, PushLinkFails, PushSwing, Step
<1>5. tail \in {Head0} \cup ToSet(pushed)
  <2>1. Ins \in Outs .. Ins
    BY Facts DEF Core
  <2>. QED
    BY <2>1, PlacesDiffer DEF Core, TailAt, Emptying
<1>6. PushFits(t)'
  <2>1. CASE PushCall(t)
    BY <1>3, <2>1 DEF PushFits, PushCall, Step, Used
  <2>2. CASE PushLoad(t)
    BY <1>3, <1>5, <2>2 DEF Core, PushFits, PushLoad, Step, PushLabels
  <2>3. CASE PushNext(t)
    BY <1>3, <2>3 DEF Core, PushFits, PushNext, Step, PushLabels
  <2>4. CASE PushLinkFails(t)
    BY <1>3, <2>4 DEF Core, PushFits, PushLinkFails, Step, PushLabels
  <2>5. CASE PushSwing(t) /\ tail # at[t]
    BY <1>3, <2>5 DEF Core, PushFits, PushSwing, Step, PushLabels
  <2>. QED
    BY <2>1, <2>2, <2>3, <2>4, <2>5
<1>7. UNCHANGED node \/ (node[t] = Null /\ \A u \in Thread : u # t => node'[t] # node[u])
  <2>1. CASE PushCall(t)
    <3>1. node[t] = Null
      BY <1>3, <2>1 DEF PushCall, Step, PushLabels
    <3>2. node'[t] \notin Used
      BY <1>3, <2>1 DEF PushCall
    <3>. QED
      BY <3>1, <3>2 DEF Used
  <2>2. CASE ~PushCall(t)
    BY <2>2 DEF PushLoad, PushNext, PushLinkFails, PushSwing
  <2>. QED
    BY <2>1, <2>2
<1>. QED
  BY <1>1, <1>2, <1>4, <1>6, <1>7, QuietKeeps

\* The steps of a pop that change neither a link nor tail_
LEMMA PopQuiet ==
  ASSUME LTypes, Core, NEW t \in Thread,
         \/ PopCall(t) \/ PopLoad(t) \/ PopNext(t)
         \/ PopTail(t) /\ ~PopsLast(t)
         \/ (PopLast(t) \/ PopHead(t)) /\ ~HeadUnchanged(t)
  PROVE  Core'
<1>1. Act(t) /\ UNCHANGED <<next, tail, pushed, out, node>>
  BY DEF Act, PopStep, PopCall, PopLoad, PopNext, PopTail, PopLast, PopHead, Unlink
<1>2. ~Emptying(t)
  <2>1. CASE PopLast(t) /\ ~HeadUnchanged(t)
    <3>1. ASSUME Emptying(t) PROVE FALSE
      <4>1. Outs < Ins /\ Ins = Outs + 1
        BY <3>1, Facts DEF Emptying, Core
      <4>2. next[Head0] = pushed[Ins]
        BY <4>1, Facts DEF Core
      <4>. QED
        BY <2>1, <3>1, <4>2 DEF Emptying, HeadUnchanged
    <3>. QED
      BY <3>1
  <2>2. CASE ~(PopLast(t) /\ ~HeadUnchanged(t))
    BY <2>2 DEF Emptying, PopCall, PopLoad, PopNext, PopTail, PopHead, Unlink, Step
  <2>. QED
    BY <2>1, <2>2
<1>3. /\ pc \in [Thread -> {"idle"} \cup PushLabels \cup PopLabels]
      /\ at \in [Thread -> Node \cup {Head0, Null}] /\ nx \in [Thread -> Node \cup {Null}]
  BY DEF LTypes, TypeOK
<1>4. PushFits(t)'
  <2>1. pc'[t] \in {"idle"} \cup PopLabels
    BY <1>3 DEF PopLabels, PopCall, PopLoad, PopNext, PopTail, PopLast, PopHead, Unlink, Step
  <2>. QED
    BY <2>1 DEF PushFits, PushLabels, PopLabels
<1>5. PopFits(t)'
  <2>1. CASE PopCall(t) \/ PopLoad(t)
    BY <1>3, <2>1 DEF PopFits, PopCall, PopLoad, Step
  <2>2. CASE PopNext(t)
    BY <1>3, <2>2 DEF Core, PopFits, PopNext, Step
  <2>3. CASE PopTail(t) /\ ~PopsLast(t)
    BY <1>3, <2>3 DEF Core, PopFits, PopTail, PopsLast, Step
  <2>4. CASE (PopLast(t) \/ PopHead(t)) /\ ~HeadUnchanged(t)
    BY <1>3, <2>4 DEF PopFits, PopLast, PopHead, Unlink, Step
  <2>. QED
    BY <2>1, <2>2, <2>3, <2>4
<1>. QED
  BY <1>1, <1>2, <1>4, <1>5, QuietKeeps

-----------------------------------------------------------------------------
(* The steps that change the list or tail_ *)

\* A node is linked behind the last place, or behind a node popped before; its
\* PushBack has not returned.
LEMMA LinkKeeps ==
  ASSUME LTypes, Core, NEW t \in Thread, PushLink(t)
  PROVE  Core'
<1>0. /\ pc[t] = "pushLink" /\ pc' = [pc EXCEPT ![t] = "pushSwing"]
      /\ next[at[t]] = Null /\ next' = [next EXCEPT ![at[t]] = node[t]]
      /\ UNCHANGED <<tail, node, at, nx, pushed, out>>
  BY DEF PushLink, Step
<1>1. Ins' = Ins /\ Outs' = Outs /\ \A i : Place(i)' = Place(i)
  BY <1>0, PlacesSame
<1>2. /\ pc \in [Thread -> {"idle"} \cup PushLabels \cup PopLabels]
      /\ next \in [Node \cup {Head0} -> Node \cup {Null}] /\ Path
      /\ node[t] \in Node /\ node[t] \notin ToSet(pushed)
      /\ at[t] \in {Head0} \cup ToSet(pushed) /\ \A n \in ToSet(pushed) : n \in Node
      /\ Null \notin Node /\ Head0 \notin Node /\ Head0 # Null
      /\ Ins \in Nat /\ Outs \in Nat /\ Outs <= Ins
  <2>1. node[t] \in Node /\ node[t] \notin ToSet(pushed) /\ at[t] \in {Head0} \cup ToSet(pushed)
    BY <1>0 DEF LTypes, Core, PushFits, PushLabels
  <2>2. \A n \in ToSet(pushed) : n \in Node
    BY DEF LTypes, ToSet
  <2>. QED
    BY <2>1, <2>2, Facts DEF LTypes, TypeOK, Core
<1>3. Unfinished(node[t])' /\ node' = node
  BY <1>0 DEF Unfinished
<1>4. at[t] \in ToSet(out) \/ at[t] = Place(Ins)
  <2>1. CASE at[t] \notin ToSet(out)
    <3>1. PICK i \in Outs .. Ins : at[t] = Place(i)
      BY <1>2, <2>1, PlacesDiffer
    <3>2. ASSUME i < Ins PROVE FALSE
      <4>1. next[at[t]] = pushed[i + 1] /\ i + 1 \in 1 .. Ins
        BY <1>2, <3>1, <3>2 DEF Path
      <4>. QED
        BY <1>0, <1>2, <4>1, Facts
    <3>. QED
      BY <1>2, <3>1, <3>2
  <2>. QED
    BY <2>1
<1>5. \A i \in Outs .. Ins : i < Ins => Place(i) # at[t]
  BY <1>2, <1>4, PlacesDiffer
<1>6. Place(Ins) \in Node \cup {Head0} /\ \A i \in Outs .. Ins : Place(i) \in Node \cup {Head0}
  <2>1. Ins \in Outs .. Ins
    BY <1>2
  <2>. QED
    BY <1>2, <2>1, PlacesDiffer
<1>7. Path'
  <2>1. ASSUME NEW i \in Outs .. Ins, i < Ins PROVE next'[Place(i)] = pushed[i + 1]
    BY <1>0, <1>2, <1>5, <1>6, <2>1 DEF Path
  <2>2. next'[Place(Ins)] = Null \/ \E u \in Thread : node'[u] = next'[Place(Ins)]
    <3>1. CASE Place(Ins) = at[t]
      <4>1. next'[Place(Ins)] = node'[t]
        BY <1>0, <1>2, <1>6, <3>1
      <4>. QED
        BY <4>1
    <3>2. CASE Place(Ins) # at[t]
      <4>1. next'[Place(Ins)] = next[Place(Ins)]
        BY <1>0, <1>2, <1>6, <3>2
      <4>. QED
        BY <1>2, <1>3, <4>1 DEF Path, Unfinished
    <3>. QED
      BY <3>1, <3>2
  <2>3. \A n \in Node : n \notin ToSet(pushed) => next'[n] = Null
    BY <1>0, <1>2 DEF Path
  <2>. QED
    BY <1>0, <1>1, <1>2, <2>1, <2>2, <2>3 DEF Path, Unfinished
<1>8. TailAt'
  <2>1. \A u \in Thread : Emptying(u) => Emptying(u)'
    BY <1>0, <1>1, <1>2 DEF Emptying
  <2>. QED
    BY <1>0, <1>1, <2>1 DEF Core, TailAt
<1>9. Distinct'
  BY <1>3 DEF Core, Distinct
<1>10. ASSUME NEW u \in Thread PROVE PushFits(u)' /\ PopFits(u)'
  <2>1. PushFits(u)'
    <3>1. CASE u = t
      BY <1>0, <1>2, <3>1 DEF PushFits
    <3>2. CASE u # t
      <4>1. pc'[u] = pc[u] /\ PushFits(u)
        BY <1>0, <3>2 DEF Core
      <4>2. pc[u] = "pushSwing" => next'[at[u]] = node[u]
        <5>1. ASSUME pc[u] = "pushSwing" PROVE at[u] # at[t]
          <6>1. next[at[u]] = node[u] /\ node[u] \in Node
            BY <4>1, <5>1 DEF PushFits, LTypes, PushLabels
          <6>. QED
            BY <1>0, <1>2, <6>1
        <5>2. pc[u] = "pushSwing" => at[u] \in Node \cup {Head0}
          BY <1>2, <4>1 DEF PushFits
        <5>. QED
          BY <1>0, <1>2, <4>1, <5>1, <5>2 DEF PushFits
      <4>. QED
        BY <1>0, <4>1, <4>2 DEF PushFits
    <3>. QED
      BY <3>1, <3>2
  <2>2. PopFits(u)'
    <3>1. CASE pc'[u] \notin {"popNext", "popTail", "popLast", "popHead"}
      BY <3>1 DEF PopFits
    <3>2. CASE pc'[u] \in {"popNext", "popTail", "popLast", "popHead"}
      <4>1. /\ pc'[u] = pc[u] /\ PopFits(u) /\ u # t
            /\ pc[u] \in {"popNext", "popTail", "popLast", "popHead"} /\ at[u] \in Node
        BY <1>0, <1>2, <3>2 DEF Core, LTypes
      <4>2. at[u] = next[Head0] => next'[Head0] = next[Head0]
        BY <1>0, <1>2, <4>1
      <4>3. next'[Head0] # next[Head0] => next'[Head0] # at[u]
        <5>1. ASSUME next'[Head0] # next[Head0], next'[Head0] = at[u] PROVE FALSE
          <6>1. at[t] = Head0 /\ at[u] = node[t]
            BY <1>0, <1>2, <5>1
          <6>2. at[u] \in ToSet(out)
            BY <1>0, <1>2, <4>1, <6>1 DEF PopFits
          <6>3. at[u] \in ToSet(pushed)
            <7>1. PICK i \in 1 .. Outs : at[u] = pushed[i]
              BY <1>2, <6>2, Facts
            <7>2. i \in 1 .. Ins
              BY <1>2
            <7>. QED
              BY <1>2, <7>1, <7>2, Facts
          <6>. QED
            BY <1>2, <6>1, <6>3
        <5>. QED
          BY <5>1
      <4>4. next[at[u]] # Null => next'[at[u]] = next[at[u]]
        BY <1>0, <1>2, <4>1
      <4>5. Emptying(u) => Emptying(u)'
        BY <1>0, <1>1, <4>1 DEF Emptying
      <4>6. nx[u] = Null \/ nx[u] = next[at[u]] => nx[u] = Null \/ nx[u] = next'[at[u]]
        BY <4>4
      <4>. QED
        BY <1>0, <4>1, <4>2, <4>3, <4>5, <4>6 DEF PopFits
    <3>. QED
      BY <3>1, <3>2
  <2>. QED
    BY <2>1, <2>2
<1>. QED
  BY <1>7, <1>8, <1>9, <1>10 DEF Core

\* tail_ moves to the node linked behind the last place, which is then pushed.
LEMMA SwingIs ==
  ASSUME LTypes, Core, NEW t \in Thread, PushSwing(t), tail = at[t]
  PROVE  /\ node[t] \in Node /\ node[t] \notin ToSet(pushed) /\ next[Place(Ins)] = node[t]
         /\ \A u \in Thread : ~Emptying(u)
<1>1. pc[t] = "pushSwing" /\ node[t] \in Node /\ node[t] \notin ToSet(pushed) /\ next[tail] = node[t]
  BY DEF PushSwing, Step, LTypes, Core, PushFits, PushLabels
<1>2. ASSUME NEW u \in Thread, Emptying(u) PROVE FALSE
  <2>1. Ins \in 1 .. Ins /\ Outs < Ins /\ Ins = Outs + 1
    BY <1>2, Facts DEF Emptying, Core
  <2>2. next[Head0] = pushed[Ins] /\ pushed[Ins] \in ToSet(pushed)
    BY <2>1, Facts DEF Core
  <2>. QED
    BY <1>1, <1>2, <2>2 DEF Emptying
<1>. QED
  BY <1>1, <1>2 DEF Core, TailAt

LEMMA SwingKeeps ==
  ASSUME LTypes, Core, NEW t \in Thread, PushSwing(t), tail = at[t]
  PROVE  Core'
<1>. DEFINE m == node[t]
<1>0. /\ pc[t] = "pushSwing" /\ pc' = [pc EXCEPT ![t] = "idle"]
      /\ tail' = m /\ node' = [node EXCEPT ![t] = Null] /\ pushed' = Append(pushed, m)
      /\ UNCHANGED <<next, out>>
  BY DEF PushSwing, Step
<1>1. /\ m \in Node /\ m \notin ToSet(pushed) /\ next[Place(Ins)] = m
      /\ \A u \in Thread : ~Emptying(u)
  BY SwingIs
<1>2. /\ Path /\ Distinct /\ Ins \in Nat /\ Outs \in Nat /\ Outs <= Ins /\ Null \notin Node
      /\ \A i \in 1 .. Ins : pushed[i] \in Node /\ pushed[i] \in ToSet(pushed)
      /\ pc \in [Thread -> {"idle"} \cup PushLabels \cup PopLabels]
      /\ node \in [Thread -> Node \cup {Null}]
  BY Facts DEF Core, LTypes, TypeOK
<1>3. /\ Ins' = Ins + 1 /\ Outs' = Outs /\ pushed'[Ins + 1] = m
      /\ \A i \in 1 .. Ins : pushed'[i] = pushed[i]
  BY <1>0, <1>1 DEF Ins, Outs, LTypes
<1>4. ToSet(pushed') = ToSet(pushed) \cup {m}
  <2>1. \A i \in 1 .. Ins + 1 : i = Ins + 1 \/ i \in 1 .. Ins
    BY <1>2
  <2>2. \A i \in 1 .. Ins : i \in 1 .. Ins + 1
    BY <1>2
  <2>3. Ins + 1 \in 1 .. Ins + 1
    BY <1>2
  <2>4. ToSet(pushed) = {pushed[i] : i \in 1 .. Ins}
    BY DEF ToSet, LTypes, Ins
  <2>5. ToSet(pushed') = {pushed'[i] : i \in 1 .. Ins + 1}
    <3>1. pushed' \in Seq(Node) /\ Len(pushed') = Ins + 1
      BY <1>0, <1>1 DEF LTypes, Ins
    <3>. QED
      BY <3>1 DEF ToSet
  <2>. QED
    BY <1>3, <2>1, <2>2, <2>3, <2>4, <2>5
<1>5. Place(Ins)' = m /\ \A i \in Outs .. Ins : Place(i)' = Place(i)
  <2>1. ASSUME NEW i \in Outs .. Ins, i # Outs PROVE i \in 1 .. Ins
    BY <1>2, <2>1
  <2>2. Ins + 1 # Outs
    BY <1>2
  <2>. QED
    BY <1>3, <2>1, <2>2 DEF Place
<1>6. next[m] = Null
  BY <1>1, <1>2 DEF Path
<1>7. Path'
  <2>1. Outs' <= Ins'
    BY <1>2, <1>3
  <2>2. ASSUME NEW i \in 1 .. Outs' PROVE out'[i] = pushed'[i]
    <3>1. i \in 1 .. Outs /\ i \in 1 .. Ins
      BY <1>2, <1>3
    <3>. QED
      BY <1>0, <1>2, <1>3, <3>1 DEF Path
  <2>3. ASSUME NEW i \in 1 .. Ins', NEW j \in 1 .. Ins', pushed'[i] = pushed'[j] PROVE i = j
    <3>1. (i = Ins + 1 \/ i \in 1 .. Ins) /\ (j = Ins + 1 \/ j \in 1 .. Ins)
      BY <1>2, <1>3
    <3>. QED
      BY <1>1, <1>2, <1>3, <2>3, <3>1 DEF Path
  <2>4. ASSUME NEW i \in Outs' .. Ins', i < Ins' PROVE next'[Place(i)'] = pushed'[i + 1]
    <3>1. i \in Outs .. Ins
      BY <1>2, <1>3, <2>4
    <3>2. CASE i = Ins
      BY <1>0, <1>1, <1>3, <1>5, <3>1, <3>2
    <3>3. CASE i # Ins
      <4>1. i < Ins /\ i + 1 \in 1 .. Ins
        BY <1>2, <3>1, <3>3
      <4>. QED
        BY <1>0, <1>2, <1>3, <1>5, <3>1, <4>1 DEF Path
    <3>. QED
      BY <3>2, <3>3
  <2>5. next'[Place(Ins)'] = Null
    BY <1>0, <1>3, <1>5, <1>6
  <2>6. \A n \in Node : n \notin ToSet(pushed') => next'[n] = Null
    BY <1>0, <1>2, <1>4 DEF Path
  <2>. QED
    BY <2>1, <2>2, <2>3, <2>4, <2>5, <2>6 DEF Path
<1>8. TailAt'
  BY <1>0, <1>3, <1>5 DEF TailAt
<1>9. Distinct'
  BY <1>0, <1>2 DEF Distinct
<1>10. ASSUME NEW u \in Thread PROVE PushFits(u)' /\ PopFits(u)'
  <2>1. CASE u = t
    <3>1. pc'[u] = "idle"
      BY <1>0, <1>2, <2>1
    <3>. QED
      BY <3>1 DEF PushFits, PopFits, PushLabels
  <2>2. CASE u # t
    <3>1. pc'[u] = pc[u] /\ node'[u] = node[u] /\ at'[u] = at[u] /\ nx'[u] = nx[u]
      BY <2>2, OthersStay DEF Act, PushStep
    <3>2. /\ PushFits(u) /\ PopFits(u) /\ ~Emptying(u)
          /\ pc[u] \in PushLabels => node[u] # m
      BY <1>1, <1>2, <2>2 DEF Core, Distinct, LTypes
    <3>3. PushFits(u)'
      BY <1>0, <1>4, <3>1, <3>2 DEF PushFits
    <3>4. PopFits(u)'
      BY <1>0, <1>6, <3>1, <3>2 DEF PopFits
    <3>. QED
      BY <3>3, <3>4
  <2>. QED
    BY <2>1, <2>2
<1>. QED
  BY <1>7, <1>8, <1>9, <1>10 DEF Core

\* tail_ goes to head_: the pop holds the only node left.
LEMMA TailKeeps ==
  ASSUME LTypes, Core, NEW t \in Thread, PopTail(t), PopsLast(t)
  PROVE  Core'
<1>0. /\ pc[t] = "popTail" /\ pc' = [pc EXCEPT ![t] = "popLast"] /\ tail = at[t] /\ tail' = Head0
      /\ UNCHANGED <<next, node, at, nx, pushed, out>>
  BY DEF PopTail, PopsLast, Step, EmptyTail
<1>1. Ins' = Ins /\ Outs' = Outs /\ \A i : Place(i)' = Place(i)
  BY <1>0, PlacesSame
<1>2. /\ Path /\ Ins \in Nat /\ Outs \in Nat /\ Outs <= Ins /\ Head0 \notin Node
      /\ Place(Outs) = Head0 /\ at[t] \in Node
      /\ pc \in [Thread -> {"idle"} \cup PushLabels \cup PopLabels]
  BY <1>0, Facts DEF Core, LTypes, TypeOK
<1>3. tail = Place(Ins) /\ Outs < Ins /\ \A u \in Thread : ~Emptying(u)
  BY <1>0, <1>2 DEF Core, TailAt, Emptying
<1>4. at[t] = next[Head0] /\ next[Head0] = pushed[Outs + 1] /\ Place(Ins) = pushed[Ins]
  <2>1. Ins \in Outs .. Ins /\ Ins \in Outs + 1 .. Ins
    BY <1>2, <1>3
  <2>2. at[t] \notin ToSet(out)
    BY <1>0, <1>3, <2>1, PlacesDiffer
  <2>. QED
    BY <1>0, <1>2, <1>3, <2>1, <2>2, Facts DEF Core, PopFits
<1>5. Ins = Outs + 1
  <2>1. Outs + 1 \in 1 .. Ins /\ Ins \in 1 .. Ins
    BY <1>2, <1>3
  <2>. QED
    BY <1>0, <1>2, <1>3, <1>4, <2>1 DEF Path
<1>6. Emptying(t)'
  BY <1>0, <1>1, <1>2, <1>3, <1>4, <1>5 DEF Emptying
<1>7. TailAt' /\ Distinct' /\ Path'
  BY <1>0, <1>1, <1>2, <1>6 DEF TailAt, Core, Distinct, Path, Unfinished
<1>8. ASSUME NEW u \in Thread PROVE PushFits(u)' /\ PopFits(u)'
  <2>1. PushFits(u) /\ PopFits(u) /\ ~Emptying(u)
    BY <1>3 DEF Core
  <2>2. pc'[u] = IF u = t THEN "popLast" ELSE pc[u]
    BY <1>0, <1>2
  <2>3. PushFits(u)'
    BY <1>0, <2>1, <2>2 DEF PushFits, PushLabels
  <2>4. PopFits(u)'
    <3>1. CASE u = t
      BY <1>0, <1>6, <2>1, <2>2, <3>1 DEF PopFits
    <3>2. CASE u # t
      <4>1. pc[u] = "popHead" => at[u] # Head0
        BY <1>2 DEF LTypes
      <4>. QED
        BY <1>0, <2>1, <2>2, <3>2, <4>1 DEF PopFits
    <3>. QED
      BY <3>1, <3>2
  <2>. QED
    BY <2>3, <2>4
<1>. QED
  BY <1>7, <1>8 DEF Core

\* The node a pop takes off is the first one pushed and not popped; unless
\* something follows it and it is not the tail, it is the only one and tail_
\* is on head_ already.
Unlinks(t, v) == (PopLast(t) /\ v = Null) \/ (PopHead(t) /\ v = nx[t])

LEMMA UnlinkIs ==
  ASSUME LTypes, Core, NEW t \in Thread, NEW v, Unlinks(t, v), HeadUnchanged(t), ~hazard'
  PROVE  /\ Outs < Ins /\ at[t] = pushed[Outs + 1] /\ at[t] = next[Head0] /\ at[t] \in Node
         /\ \/ v = next[at[t]] /\ tail # at[t]
            \/ v = Null /\ Ins = Outs + 1 /\ tail = Head0
<1>1. /\ Path /\ Ins \in Nat /\ Outs \in Nat /\ Outs <= Ins /\ at[t] \in Node /\ Null \notin Node
      /\ Head0 \notin Node /\ next[Head0] = at[t] /\ PopFits(t) /\ Place(Outs) = Head0
  BY Facts DEF Core, LTypes, Unlinks, PopLast, PopHead, Unlink, Step, HeadUnchanged
<1>2. \A u \in Thread : Emptying(u) => Ins = Outs + 1 /\ tail = Head0
  BY DEF Emptying
<1>3. ~(Outs < Ins) => Unfinished(at[t]) /\ next[at[t]] = Null
  <2>1. ASSUME ~(Outs < Ins) PROVE Unfinished(at[t])
    <3>1. Place(Ins) = Head0
      BY <1>1, <2>1
    <3>. QED
      BY <1>1, <3>1 DEF Path
  <2>. QED
    BY <1>1, <2>1, UnfinishedIs
<1>4. Outs < Ins => at[t] = pushed[Outs + 1]
  BY <1>1, Facts
<1>5. CASE PopLast(t) /\ v = Null
  <2>1. Emptying(t)
    BY <1>1, <1>5 DEF PopLast, Unlink, Step, PopFits
  <2>2. Ins = Outs + 1 /\ tail = Head0
    BY <1>2, <2>1
  <2>. QED
    BY <1>1, <1>4, <1>5, <2>2
<1>6. CASE PopHead(t) /\ v = nx[t]
  <2>1. pc[t] = "popHead" /\ nx[t] \in {Null, next[at[t]]} /\ (nx[t] # Null => tail # at[t])
    BY <1>1, <1>6 DEF PopHead, Unlink, Step, PopFits
  <2>2. CASE nx[t] # Null
    BY <1>1, <1>3, <1>4, <1>6, <2>1, <2>2
  <2>3. CASE nx[t] = Null
    <3>1. tail = Head0 /\ ~Unfinished(at[t])
      BY <1>6, <2>3 DEF PopHead, Unlink, EmptiesUnawares
    <3>2. Outs < Ins
      BY <1>3, <3>1
    <3>3. tail # Place(Ins)
      <4>1. Ins \in Outs + 1 .. Ins /\ Ins \in 1 .. Ins
        BY <1>1, <3>2
      <4>2. Place(Ins) \in Node
        BY <1>1, <4>1, Facts
      <4>. QED
        BY <1>1, <3>1, <4>2
    <3>4. Ins = Outs + 1
      BY <1>2, <3>3 DEF Core, TailAt
    <3>. QED
      BY <1>1, <1>4, <1>6, <2>3, <3>1, <3>2, <3>4
  <2>. QED
    BY <2>2, <2>3
<1>. QED
  BY <1>5, <1>6 DEF Unlinks

LEMMA UnlinkKeeps ==
  ASSUME LTypes, Core, NEW t \in Thread, NEW v, Unlinks(t, v), HeadUnchanged(t), ~hazard'
  PROVE  Core'
<1>0. /\ pc[t] \in {"popLast", "popHead"} /\ pc' = [pc EXCEPT ![t] = "idle"]
      /\ next' = [next EXCEPT ![Head0] = v] /\ out' = Append(out, at[t])
      /\ UNCHANGED <<tail, node, pushed>>
  BY DEF Unlinks, PopLast, PopHead, Unlink, Step, EmptyHead
<1>1. /\ Outs < Ins /\ at[t] = pushed[Outs + 1] /\ at[t] = next[Head0] /\ at[t] \in Node
      /\ \/ v = next[at[t]] /\ tail # at[t]
         \/ v = Null /\ Ins = Outs + 1 /\ tail = Head0
  BY UnlinkIs
<1>2. /\ Path /\ TailAt /\ Distinct /\ Ins \in Nat /\ Outs \in Nat /\ Null \notin Node /\ Head0 \notin Node
      /\ \A i \in 1 .. Ins : pushed[i] \in Node /\ pushed[i] \in ToSet(pushed)
      /\ \A i \in Outs + 1 .. Ins : i \in 1 .. Ins /\ Place(i) = pushed[i]
      /\ pc \in [Thread -> {"idle"} \cup PushLabels \cup PopLabels]
      /\ next \in [Node \cup {Head0} -> Node \cup {Null}]
  BY Facts DEF Core, LTypes, TypeOK
<1>3. /\ Ins' = Ins /\ Outs' = Outs + 1 /\ out'[Outs + 1] = at[t]
      /\ \A i \in 1 .. Outs : out'[i] = out[i]
  BY <1>0, <1>1 DEF Ins, Outs, LTypes
<1>4. ToSet(out') = ToSet(out) \cup {at[t]}
  <2>1. \A i \in 1 .. Outs + 1 : i = Outs + 1 \/ i \in 1 .. Outs
    BY <1>2
  <2>2. (\A i \in 1 .. Outs : i \in 1 .. Outs + 1) /\ Outs + 1 \in 1 .. Outs + 1
    BY <1>2
  <2>3. ToSet(out) = {out[i] : i \in 1 .. Outs}
    BY DEF ToSet, LTypes, Outs
  <2>4. ToSet(out') = {out'[i] : i \in 1 .. Outs + 1}
    <3>1. out' \in Seq(Node) /\ Len(out') = Outs + 1
      BY <1>0, <1>1 DEF LTypes, Outs
    <3>. QED
      BY <3>1 DEF ToSet
  <2>. QED
    BY <1>3, <2>1, <2>2, <2>3, <2>4
<1>5. /\ \A i \in Outs + 1 .. Ins : Place(i)' = IF i = Outs + 1 THEN Head0 ELSE Place(i)
      /\ Place(Ins)' = IF Ins = Outs + 1 THEN Head0 ELSE Place(Ins)
  <2>1. \A i \in Outs + 1 .. Ins : i # Outs
    BY <1>2
  <2>2. Ins \in Outs + 1 .. Ins
    BY <1>1, <1>2
  <2>3. \A i \in Outs + 1 .. Ins : Place(i)' = IF i = Outs + 1 THEN Head0 ELSE Place(i)
    BY <1>0, <1>3, <2>1 DEF Place
  <2>4. Place(Ins)' = IF Ins = Outs + 1 THEN Head0 ELSE Place(Ins)
    BY <1>0, <1>3, <2>1, <2>2 DEF Place
  <2>. QED
    BY <2>3, <2>4
<1>6. Ins # Outs + 1 => v = pushed[Outs + 2] /\ Outs + 2 \in 1 .. Ins
  <2>1. ASSUME Ins # Outs + 1 PROVE v = pushed[Outs + 2] /\ Outs + 2 \in 1 .. Ins
    <3>1. /\ Outs + 1 \in Outs .. Ins /\ Outs + 1 \in Outs + 1 .. Ins /\ Outs + 1 < Ins
          /\ Outs + 1 + 1 = Outs + 2 /\ Outs + 2 \in 1 .. Ins
      BY <1>1, <1>2, <2>1
    <3>2. next[Place(Outs + 1)] = pushed[Outs + 2] /\ Place(Outs + 1) = pushed[Outs + 1]
      BY <1>2, <3>1 DEF Path
    <3>. QED
      BY <1>1, <2>1, <3>1, <3>2
  <2>. QED
    BY <2>1
<1>7. Ins = Outs + 1 => v = Null \/ (v \in Node /\ v \notin ToSet(pushed) /\ Unfinished(v))
  <2>1. ASSUME Ins = Outs + 1, v # Null PROVE v \in Node /\ v \notin ToSet(pushed) /\ Unfinished(v)
    <3>1. Ins \in Outs + 1 .. Ins
      BY <1>2, <2>1
    <3>2. v = next[Place(Ins)]
      BY <1>1, <1>2, <2>1, <3>1
    <3>3. Unfinished(v) /\ v \in Node
      BY <1>1, <1>2, <2>1, <3>2 DEF Path
    <3>. QED
      BY <2>1, <3>3, UnfinishedIs
  <2>. QED
    BY <2>1
<1>8. v \notin {pushed[i] : i \in 1 .. Outs + 1}
  <2>1. \A i \in 1 .. Outs + 1 : i \in 1 .. Ins /\ i # Outs + 2
    BY <1>1, <1>2
  <2>2. CASE Ins # Outs + 1
    BY <1>2, <1>6, <2>1, <2>2 DEF Path
  <2>3. CASE Ins = Outs + 1
    BY <1>2, <1>7, <2>1, <2>3
  <2>. QED
    BY <2>2, <2>3
<1>9. Path'
  <2>1. Outs' <= Ins'
    BY <1>1, <1>2, <1>3
  <2>2. ASSUME NEW i \in 1 .. Outs' PROVE out'[i] = pushed'[i]
    <3>1. i = Outs + 1 \/ i \in 1 .. Outs
      BY <1>2, <1>3
    <3>. QED
      BY <1>0, <1>1, <1>2, <1>3, <3>1 DEF Path
  <2>3. ASSUME NEW i \in Outs' .. Ins', i < Ins' PROVE next'[Place(i)'] = pushed'[i + 1]
    <3>1. i \in Outs + 1 .. Ins /\ i \in Outs .. Ins /\ i < Ins
      BY <1>2, <1>3, <2>3
    <3>2. CASE i = Outs + 1
      <4>1. Place(i)' = Head0 /\ Ins # Outs + 1 /\ i + 1 = Outs + 2
        BY <1>2, <1>5, <3>1, <3>2
      <4>2. next'[Head0] = v
        BY <1>0, <1>2
      <4>. QED
        BY <1>0, <1>6, <4>1, <4>2
    <3>3. CASE i # Outs + 1
      <4>1. Place(i)' = Place(i) /\ Place(i) \in Node
        BY <1>2, <1>5, <3>1, <3>3
      <4>2. next'[Place(i)] = next[Place(i)]
        BY <1>0, <1>2, <4>1
      <4>. QED
        BY <1>0, <1>2, <3>1, <4>1, <4>2 DEF Path
    <3>. QED
      BY <3>2, <3>3
  <2>4. next'[Place(Ins)'] = Null \/ \E u \in Thread : node'[u] = next'[Place(Ins)']
    <3>1. CASE Ins = Outs + 1
      <4>1. next'[Place(Ins)'] = v
        BY <1>0, <1>2, <1>5, <3>1
      <4>. QED
        BY <1>0, <1>7, <3>1, <4>1 DEF Unfinished
    <3>2. CASE Ins # Outs + 1
      <4>1. Ins \in Outs + 1 .. Ins
        BY <1>1, <1>2
      <4>2. Place(Ins) \in Node
        BY <1>2, <4>1
      <4>3. next'[Place(Ins)'] = next[Place(Ins)]
        BY <1>0, <1>2, <1>5, <3>2, <4>2
      <4>. QED
        BY <1>0, <1>2, <4>3 DEF Path, Unfinished
    <3>. QED
      BY <3>1, <3>2
  <2>5. \A n \in Node : n \notin ToSet(pushed') => next'[n] = Null
    BY <1>0, <1>2 DEF Path
  <2>6. \A i, j \in 1 .. Ins' : pushed'[i] = pushed'[j] => i = j
    BY <1>0, <1>2, <1>3 DEF Path
  <2>. QED
    BY <2>1, <2>2, <2>3, <2>4, <2>5, <2>6 DEF Path, Unfinished
<1>10. tail' = Place(Ins)'
  <2>1. CASE tail = Head0 /\ Ins = Outs + 1
    BY <1>0, <1>5, <2>1
  <2>2. CASE ~(tail = Head0 /\ Ins = Outs + 1)
    <3>1. \A u \in Thread : ~Emptying(u)
      BY <2>2 DEF Emptying
    <3>2. tail = Place(Ins) /\ tail # at[t]
      BY <1>1, <1>2, <2>2, <3>1 DEF TailAt
    <3>3. Ins \in Outs + 1 .. Ins
      BY <1>1, <1>2
    <3>4. Ins # Outs + 1
      BY <1>1, <1>2, <3>2, <3>3
    <3>. QED
      BY <1>0, <1>5, <3>2, <3>4
  <2>. QED
    BY <2>1, <2>2
<1>11. TailAt' /\ Distinct'
  BY <1>0, <1>2, <1>10 DEF TailAt, Distinct
<1>12. ASSUME NEW u \in Thread PROVE PushFits(u)' /\ PopFits(u)'
  <2>1. CASE u = t
    <3>1. pc'[u] = "idle"
      BY <1>0, <1>2, <2>1
    <3>. QED
      BY <3>1 DEF PushFits, PopFits, PushLabels
  <2>2. CASE u # t
    <3>1. pc'[u] = pc[u] /\ node'[u] = node[u] /\ at'[u] = at[u] /\ nx'[u] = nx[u]
      BY <2>2, OthersStay DEF Act, PopStep, Unlinks
    <3>2. PushFits(u) /\ PopFits(u)
      BY DEF Core
    <3>3. PushFits(u)'
      <4>1. pc[u] = "pushSwing" => at[u] # Head0
        <5>1. ASSUME pc[u] = "pushSwing", at[u] = Head0 PROVE FALSE
          <6>1. next[Head0] = node[u] /\ node[u] \notin ToSet(pushed)
            BY <3>2, <5>1 DEF PushFits, PushLabels
          <6>2. Outs + 1 \in 1 .. Ins
            BY <1>1, <1>2
          <6>. QED
            BY <1>1, <1>2, <6>1, <6>2
        <5>. QED
          BY <5>1
      <4>2. pc[u] = "pushSwing" => next'[at[u]] = next[at[u]]
        BY <1>0, <1>2, <3>2, <4>1 DEF PushFits
      <4>. QED
        BY <1>0, <3>1, <3>2, <4>2 DEF PushFits
    <3>4. PopFits(u)'
      <4>1. CASE pc[u] \notin {"popNext", "popTail", "popLast", "popHead"}
        BY <3>1, <4>1 DEF PopFits
      <4>2. CASE pc[u] \in {"popNext", "popTail", "popLast", "popHead"}
        <5>1. at[u] \in ToSet(out) \/ at[u] = at[t]
          BY <1>1, <3>2, <4>2 DEF PopFits
        <5>2. at[u] \in Node /\ next'[at[u]] = next[at[u]]
          BY <1>0, <1>2, <4>2 DEF LTypes
        <5>3. at[u] # next'[Head0]
          <6>1. \A n \in ToSet(out) : \E i \in 1 .. Outs : n = pushed[i]
            BY <1>2, Facts
          <6>2. Outs + 1 \in 1 .. Outs + 1 /\ \A i \in 1 .. Outs : i \in 1 .. Outs + 1
            BY <1>2
          <6>3. next'[Head0] = v
            BY <1>0, <1>2
          <6>. QED
            BY <1>1, <1>8, <5>1, <6>1, <6>2, <6>3
        <5>. QED
          BY <1>0, <1>4, <3>1, <3>2, <5>1, <5>2, <5>3 DEF PopFits
      <4>. QED
        BY <4>1, <4>2
    <3>. QED
      BY <3>3, <3>4
  <2>. QED
    BY <2>1, <2>2
<1>. QED
  BY <1>9, <1>11, <1>12 DEF Core

-----------------------------------------------------------------------------
LEMMA StillLInv == ASSUME LInv, [Next]_vars PROVE LInv'
<1>1. CASE UNCHANGED vars
  <2>. USE <1>1 DEF vars
  <2>1. LTypes' = LTypes
    BY DEF LTypes, TypeOK
  <2>2. \A n, t : Unfinished(n)' = Unfinished(n) /\ Emptying(t)' = Emptying(t)
    BY DEF Unfinished, Emptying, Ins, Outs
  <2>3. Path' = Path /\ TailAt' = TailAt /\ Distinct' = Distinct
    BY <2>2, PlacesSame DEF Path, TailAt, Distinct, Unfinished
  <2>4. \A t : PushFits(t)' = PushFits(t) /\ PopFits(t)' = PopFits(t)
    BY <2>2 DEF PushFits, PopFits
  <2>. QED
    BY <2>1, <2>3, <2>4 DEF LInv, Core
<1>2. ASSUME NEW t \in Thread, Act(t) PROVE LInv'
  <2>1. LTypes'
    BY <1>2, TypesKept DEF LInv
  <2>2. ASSUME ~hazard' PROVE Core'
    <3>1. ~hazard
      BY <1>2, <2>2 DEF Act, PushStep, PopStep, PushCall, PushLoad, PushNext, PushLink,
            PushLinkFails, PushSwing, PopCall, PopLoad, PopNext, PopTail, PopLast, PopHead, Unlink
    <3>2. LTypes /\ Core
      BY <3>1 DEF LInv
    <3>3. CASE PushCall(t) \/ PushStep(t)
      BY <3>2, <3>3, PushQuiet, LinkKeeps, SwingKeeps DEF PushStep
    <3>4. CASE PopCall(t) \/ PopStep(t)
      <4>1. CASE PopCall(t) \/ PopLoad(t) \/ PopNext(t) \/ PopTail(t)
        BY <3>2, <4>1, PopQuiet, TailKeeps
      <4>2. CASE PopLast(t) \/ PopHead(t)
        BY <2>2, <3>2, <4>2, PopQuiet, UnlinkKeeps DEF Unlinks
      <4>. QED
        BY <3>4, <4>1, <4>2 DEF PopStep
    <3>. QED
      BY <1>2, <3>3, <3>4 DEF Act
  <2>. QED
    BY <2>1, <2>2 DEF LInv
<1>. QED
  BY <1>1, <1>2 DEF Next, Act

-----------------------------------------------------------------------------
(* What the callers see *)

LEMMA TakenAndLeft ==
  ASSUME NEW S, NEW p \in Seq(S), NEW q \in Seq(S), NEW s \in Seq(S),
         Len(s) = Len(p) + Len(q),
         \A i \in 1 .. Len(p) : p[i] = s[i],
         \A i \in 1 .. Len(q) : q[i] = s[Len(p) + i]
  PROVE  p \o q = s
<1>1. /\ p \o q \in Seq(S) /\ Len(p \o q) = Len(s)
      /\ \A i \in 1 .. Len(s) : (p \o q)[i] = IF i <= Len(p) THEN p[i] ELSE q[i - Len(p)]
  BY ConcatProperties
<1>2. Len(p) \in Nat /\ Len(q) \in Nat /\ Len(s) \in Nat
  OBVIOUS
<1>3. ASSUME NEW i \in 1 .. Len(s) PROVE (p \o q)[i] = s[i]
  <2>1. CASE i <= Len(p)
    <3>1. i \in 1 .. Len(p)
      BY <1>2, <2>1
    <3>. QED
      BY <1>1, <2>1, <3>1
  <2>2. CASE ~(i <= Len(p))
    <3>1. i - Len(p) \in 1 .. Len(q) /\ Len(p) + (i - Len(p)) = i
      BY <1>2, <2>2
    <3>. QED
      BY <1>1, <2>2, <3>1
  <2>. QED
    BY <2>1, <2>2
<1>. QED
  BY <1>1, <1>3, SeqEqual

\* Between operations no node has been lost, doubled or overtaken and tail_ is
\* the last linked node: TailIsLast, however the operations before overlapped.
THEOREM TailStaysLast == Spec => []TailIsLast
<1>1. LInv => TailIsLast
  <2>. SUFFICES ASSUME LTypes, Core, ~Running(PushLabels \cup PopLabels)
                PROVE  /\ out \o Linked = pushed
                       /\ tail = IF Linked = <<>> THEN Head0 ELSE Last(Linked)
    BY DEF TailIsLast, LInv, LTypes
  <2>1. /\ Path /\ Ins \in Nat /\ Outs \in Nat /\ Outs <= Ins /\ pushed \in Seq(Node) /\ out \in Seq(Node)
        /\ Len(out) = Outs /\ Len(pushed) = Ins /\ \A i \in 1 .. Outs : out[i] = pushed[i]
    BY Facts DEF Core, LTypes, Path, Ins, Outs
  <2>2. \A t \in Thread : pc[t] \notin PushLabels \cup PopLabels
    BY DEF Running
  <2>3. \A n \in Node : ~Unfinished(n)
    BY <2>2 DEF Unfinished, LTypes
  <2>4. next[Place(Ins)] = Null
    <3>1. Ins \in Outs .. Ins /\ \A n \in ToSet(pushed) : n \in Node
      BY <2>1 DEF ToSet
    <3>2. Place(Ins) \in Node \cup {Head0}
      BY <3>1, PlacesDiffer
    <3>. QED
      BY <2>1, <2>3, <3>2 DEF Path, LTypes, TypeOK
  <2>5. /\ Linked = Kept /\ Kept \in Seq(Node) /\ Len(Kept) = Ins - Outs
        /\ \A i \in 1 .. Ins - Outs : Kept[i] = pushed[Outs + i]
    BY <2>1, <2>4, LinkedIs, KeptIs
  <2>. HIDE DEF Kept
  <2>6. out \o Linked = pushed
    <3>1. Len(pushed) = Len(out) + Len(Kept)
      BY <2>1, <2>5
    <3>2. \A i \in 1 .. Len(Kept) : Kept[i] = pushed[Len(out) + i]
      BY <2>1, <2>5
    <3>3. \A i \in 1 .. Len(out) : out[i] = pushed[i]
      BY <2>1
    <3>. QED
      BY <2>1, <2>5, <3>1, <3>2, <3>3, TakenAndLeft
  <2>7. tail = Place(Ins)
    BY <2>2 DEF Core, TailAt, Emptying, PopLabels
  <2>8. tail = IF Linked = <<>> THEN Head0 ELSE Last(Linked)
    <3>1. CASE Ins = Outs
      <4>1. Len(Kept) = 0
        BY <2>1, <2>5, <3>1
      <4>2. Kept = <<>> /\ tail = Head0
        BY <2>5, <2>7, <3>1, <4>1 DEF Place
      <4>. QED
        BY <2>5, <4>2
    <3>2. CASE Ins # Outs
      <4>1. Ins - Outs \in 1 .. Ins - Outs /\ Outs + (Ins - Outs) = Ins /\ Ins - Outs # 0
        BY <2>1, <3>2
      <4>2. Last(Kept) = pushed[Ins] /\ Kept # <<>>
        BY <2>5, <4>1 DEF Last
      <4>3. Place(Ins) = pushed[Ins]
        BY <3>2 DEF Place
      <4>. QED
        BY <2>5, <2>7, <4>2, <4>3
    <3>. QED
      BY <3>1, <3>2
  <2>. QED
    BY <2>6, <2>8
<1>. QED
  BY <1>1, InitLInv, StillLInv, PTL DEF Spec

LEMMA QueuedNext == (LTypes /\ Core => Queued = Kept)'
<1>1. LTypes /\ Core => Queued = Kept
  BY QueuedIs
<1>. QED
  BY <1>1, PTL

LEMMA KeptNext ==
  (LTypes /\ Core => /\ Kept \in Seq(Node) /\ Len(Kept) = Ins - Outs
                     /\ \A i \in 1 .. Ins - Outs : Kept[i] = pushed[Outs + i])'
<1>1. LTypes /\ Core => /\ Kept \in Seq(Node) /\ Len(Kept) = Ins - Outs
                        /\ \A i \in 1 .. Ins - Outs : Kept[i] = pushed[Outs + i]
  BY KeptIs DEF Core
<1>. QED
  BY <1>1, PTL

\* The move of tail_ to a node is the abstract push.
LEMMA SwingRefines ==
  ASSUME LTypes, Core, LTypes', Core', NEW t \in Thread, PushSwing(t), tail = at[t]
  PROVE  node[t] \in Node /\ Abstract!Push(node[t])
<1>1. /\ node[t] \in Node /\ node[t] \notin ToSet(pushed) /\ pushed' = Append(pushed, node[t])
      /\ out' = out
  BY SwingIs DEF PushSwing
<1>2. /\ Queued = Kept /\ Kept \in Seq(Node) /\ Len(Kept) = Ins - Outs
      /\ \A i \in 1 .. Ins - Outs : Kept[i] = pushed[Outs + i]
  BY QueuedIs, KeptIs DEF Core
<1>3. /\ Queued' = Kept' /\ Kept' \in Seq(Node) /\ Len(Kept') = Ins' - Outs'
      /\ \A i \in 1 .. Ins' - Outs' : Kept'[i] = pushed'[Outs' + i]
  BY QueuedNext, KeptNext
<1>. HIDE DEF Kept
<1>4. /\ Ins \in Nat /\ Outs \in Nat /\ Outs <= Ins /\ Ins' = Ins + 1 /\ Outs' = Outs
      /\ \A i \in 1 .. Ins : pushed'[i] = pushed[i] /\ pushed[i] \in ToSet(pushed)
      /\ pushed'[Ins + 1] = node[t]
  <2>1. /\ Ins \in Nat /\ Outs \in Nat /\ Outs <= Ins
        /\ \A i \in 1 .. Ins : pushed[i] \in ToSet(pushed)
    BY Facts DEF Core
  <2>. QED
    BY <1>1, <2>1 DEF LTypes, Ins, Outs
<1>5. Kept' = Append(Kept, node[t])
  <2>1. Append(Kept, node[t]) \in Seq(Node) /\ Len(Append(Kept, node[t])) = Ins - Outs + 1
    <3>1. /\ Append(Kept, node[t]) \in Seq(Node)
          /\ Len(Append(Kept, node[t])) = Len(Kept) + 1
      BY <1>1, <1>2, AppendProperties
    <3>. QED
      BY <1>2, <3>1
  <2>2. ASSUME NEW i \in 1 .. Ins - Outs + 1 PROVE Kept'[i] = Append(Kept, node[t])[i]
    <3>1. Kept'[i] = pushed'[Outs + i]
      BY <1>3, <1>4
    <3>2. CASE i = Ins - Outs + 1
      <4>1. Outs + i = Ins + 1 /\ i = Len(Kept) + 1
        BY <1>2, <1>4, <3>2
      <4>. QED
        BY <1>1, <1>2, <1>4, <3>1, <4>1, AppendProperties
    <3>3. CASE i # Ins - Outs + 1
      <4>1. i \in 1 .. Ins - Outs /\ i \in 1 .. Len(Kept) /\ Outs + i \in 1 .. Ins
        BY <1>2, <1>4, <3>3
      <4>2. Kept'[i] = Kept[i]
        BY <1>2, <1>4, <3>1, <4>1
      <4>3. Append(Kept, node[t])[i] = Kept[i]
        BY <1>1, <1>2, <4>1, AppendProperties
      <4>. QED
        BY <4>2, <4>3
    <3>. QED
      BY <3>2, <3>3
  <2>. QED
    BY <1>3, <1>4, <2>1, <2>2, SeqEqual
<1>6. node[t] \notin ToSet(Kept) \cup ToSet(out)
  <2>1. \A i \in 1 .. Ins - Outs : Outs + i \in 1 .. Ins
    BY <1>4
  <2>2. \A i \in 1 .. Outs : i \in 1 .. Ins
    BY <1>4
  <2>3. \A n \in ToSet(Kept) : n \in ToSet(pushed)
    <3>1. ToSet(Kept) = {Kept[i] : i \in 1 .. Ins - Outs}
      BY <1>2 DEF ToSet
    <3>. QED
      BY <1>2, <1>4, <2>1, <3>1
  <2>4. \A n \in ToSet(out) : n \in ToSet(pushed)
    BY <1>4, <2>2, Facts DEF Core
  <2>. QED
    BY <1>1, <2>3, <2>4
<1>. QED
  BY <1>1, <1>2, <1>3, <1>5, <1>6 DEF Abstract!Push, Abstract!ToSet, ToSet

\* The unlink of a node is the abstract pop.
LEMMA UnlinkRefines ==
  ASSUME LTypes, Core, LTypes', Core', NEW t \in Thread, NEW v, Unlinks(t, v), HeadUnchanged(t), ~hazard'
  PROVE  Abstract!Pop
<1>1. Outs < Ins /\ out' = Append(out, pushed[Outs + 1]) /\ pushed' = pushed
  BY UnlinkIs DEF Unlinks, PopLast, PopHead, Unlink
<1>2. /\ Queued = Kept /\ Kept \in Seq(Node) /\ Len(Kept) = Ins - Outs
      /\ \A i \in 1 .. Ins - Outs : Kept[i] = pushed[Outs + i]
  BY QueuedIs, KeptIs DEF Core
<1>3. /\ Queued' = Kept' /\ Kept' \in Seq(Node) /\ Len(Kept') = Ins' - Outs'
      /\ \A i \in 1 .. Ins' - Outs' : Kept'[i] = pushed'[Outs' + i]
  BY QueuedNext, KeptNext
<1>. HIDE DEF Kept
<1>4. Ins \in Nat /\ Outs \in Nat /\ Ins' = Ins /\ Outs' = Outs + 1
  <2>1. Ins \in Nat /\ Outs \in Nat /\ Outs + 1 \in 1 .. Ins
    BY <1>1, Facts DEF Core
  <2>2. pushed[Outs + 1] \in Node
    BY <2>1 DEF LTypes, Ins
  <2>. QED
    BY <1>1, <2>1, <2>2 DEF LTypes, Ins, Outs
<1>5. Kept # <<>> /\ Head(Kept) = pushed[Outs + 1]
  <2>1. 1 \in 1 .. Ins - Outs /\ Len(Kept) # 0
    BY <1>1, <1>2, <1>4
  <2>. QED
    BY <1>2, <2>1
<1>6. Kept' = Tail(Kept)
  <2>1. Tail(Kept) \in Seq(Node) /\ Len(Tail(Kept)) = Ins - Outs - 1
    BY <1>2, <1>4, <1>5
  <2>2. ASSUME NEW i \in 1 .. Ins - Outs - 1 PROVE Kept'[i] = Tail(Kept)[i]
    <3>1. Kept'[i] = pushed[Outs + 1 + i]
      BY <1>1, <1>3, <1>4
    <3>2. Tail(Kept)[i] = Kept[i + 1] /\ i + 1 \in 1 .. Ins - Outs
      BY <1>2, <1>4, <1>5
    <3>3. Outs + (i + 1) = Outs + 1 + i
      BY <1>4
    <3>. QED
      BY <1>2, <3>1, <3>2, <3>3
  <2>. QED
    BY <1>3, <1>4, <2>1, <2>2
<1>. QED
  BY <1>1, <1>2, <1>3, <1>5, <1>6 DEF Abstract!Pop

\* PushBack and PopHead are the operations of a FIFO queue: IsFifo, whatever
\* the number of threads and of nodes and however the operations overlap.
THEOREM ImplementsFifo == Spec => IsFifo
<1>1. Init => Abstract!Init
  <2>. SUFFICES ASSUME Init PROVE Queued = <<>> /\ out = <<>>
    BY DEF Abstract!Init
  <2>1. LTypes /\ Core /\ Ins = 0 /\ Outs = 0
    BY InitLInv DEF Init, LInv, Ins, Outs
  <2>2. Queued = Kept
    BY <2>1, QueuedIs
  <2>3. Kept \in Seq(Node) /\ Len(Kept) = 0
    BY <2>1, KeptIs DEF Core
  <2>. QED
    BY <2>2, <2>3 DEF Init
<1>2. ASSUME LInv, LInv', [Next]_vars PROVE [hazard' \/ Abstract!Next]_<<Queued, out>>
  <2>. SUFFICES ASSUME ~hazard' PROVE Abstract!Next \/ UNCHANGED <<Queued, out>>
    OBVIOUS
  <2>1. CASE UNCHANGED vars
    BY <2>1 DEF vars, Queued, Linked, Unfinished
  <2>2. ASSUME NEW t \in Thread, Act(t) PROVE Abstract!Next \/ UNCHANGED <<Queued, out>>
    <3>1. ~hazard
      BY <2>2 DEF Act, PushStep, PopStep, PushCall, PushLoad, PushNext, PushLink,
            PushLinkFails, PushSwing, PopCall, PopLoad, PopNext, PopTail, PopLast, PopHead, Unlink
    <3>2. LTypes /\ Core /\ LTypes' /\ Core'
      BY <1>2, <3>1 DEF LInv
    <3>3. CASE PushSwing(t) /\ tail = at[t]
      BY <3>2, <3>3, SwingRefines DEF Abstract!Next
    <3>4. CASE (PopLast(t) \/ PopHead(t)) /\ HeadUnchanged(t)
      <4>1. PICK v : Unlinks(t, v)
        BY <3>4 DEF Unlinks
      <4>. QED
        BY <3>2, <3>4, <4>1, UnlinkRefines DEF Abstract!Next
    <3>5. CASE UNCHANGED <<pushed, out>>
      <4>1. Queued = Kept /\ Queued' = Kept'
        BY <3>2, QueuedIs, QueuedNext
      <4>2. Kept' = Kept
        BY <3>5 DEF Kept, Ins, Outs
      <4>. QED
        BY <3>5, <4>1, <4>2
    <3>6. \/ PushSwing(t) /\ tail = at[t]
          \/ (PopLast(t) \/ PopHead(t)) /\ HeadUnchanged(t)
          \/ UNCHANGED <<pushed, out>>
      BY <2>2 DEF Act, PushStep, PopStep, PushCall, PushLoad, PushNext, PushLink,
            PushLinkFails, PushSwing, PopCall, PopLoad, PopNext, PopTail, PopLast, PopHead, Unlink
    <3>. QED
      BY <3>3, <3>4, <3>5, <3>6
  <2>. QED
    BY <1>2, <2>1, <2>2 DEF Next, Act
<1>. QED
  BY <1>1, <1>2, InitLInv, StillLInv, PTL DEF Spec, IsFifo
=============================================================================
