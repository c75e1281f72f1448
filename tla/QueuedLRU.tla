----------------------------- MODULE QueuedLRU -----------------------------
(***************************************************************************)
(* LRUCache of c++/utils/lru_cache_lockfree_queued.h.  Instead of moving a *)
(* key's node on every use, Get appends another node for the key to a      *)
(* linked queue and counts the nodes of each key; eviction pops nodes      *)
(* until the count of some key reaches zero.                               *)
(*                                                                         *)
(* Get runs under the read lock, so Gets interleave with one another: each *)
(* atomic access of Get and PutTail is an action.  Put runs under the      *)
(* write lock, which excludes every Get and every other Put                *)
(* (RWLock!MutualExclusion), so a whole Put is one action that needs no    *)
(* thread to be inside.  The linked list is the sequence of its nodes'     *)
(* keys; a pointer into it is a position, 0 for head_.                     *)
(***************************************************************************)
EXTENDS Naturals, Sequences, FiniteSets, SequencesExt

CONSTANTS
    Thread,
    Key,
    NoKey,      \* no key
    Capacity,   \* max_size_
    MaxQueue    \* bound of the model: no call starts when the queue is longer

ASSUME ThreadAssumption   == IsFiniteSet(Thread)
ASSUME NoKeyAssumption    == NoKey \notin Key
\* A cache of capacity 0 would pop the node it has just linked.
ASSUME CapacityAssumption == Capacity \in Nat \ {0}
ASSUME MaxQueueAssumption == MaxQueue \in Nat

VARIABLES
    map,    \* the keys of underly_
    cnt,    \* cnt[k]: ValueWrapper::cnt of key k, 0 when k is not in the map
    queue,  \* the keys of the nodes linked from head_, oldest first
    tail,   \* tail_, the position of the node it points to
    size,   \* current_size_
    pc,     \* pc[t]: the next access of the Get thread t is in
    key,    \* key[t]: the argument of that Get
    at      \* at[t]: PutTail's local `tail'

vars == <<map, cnt, queue, tail, size, pc, key, at>>

TypeOK ==
    /\ map   \subseteq Key
    /\ cnt   \in [Key -> Nat]
    /\ queue \in Seq(Key)
    /\ tail  \in 0 .. Len(queue)
    /\ size  \in 0 .. Capacity
    /\ pc    \in [Thread -> {"idle", "count", "load", "next", "link", "swing"}]
    /\ key   \in [Thread -> Key \cup {NoKey}]
    /\ at    \in [Thread -> Nat]

Init == /\ map   = {}
        /\ cnt   = [k \in Key |-> 0]
        /\ queue = <<>>
        /\ tail  = 0
        /\ size  = 0
        /\ pc    = [t \in Thread |-> "idle"]
        /\ key   = [t \in Thread |-> NoKey]
        /\ at    = [t \in Thread |-> 0]

-----------------------------------------------------------------------------
Goto(t, from, to) == pc[t] = from /\ pc' = [pc EXCEPT ![t] = to]

Occurrences(k, s) == Cardinality({i \in DOMAIN s : s[i] = k})

Inside == {t \in Thread : pc[t] # "idle"}

\* A step of t that only moves t.
Only(t, from, to) == Goto(t, from, to) /\ UNCHANGED <<map, cnt, queue, tail, size, key, at>>

(* Get: a key that is not in the map changes nothing. *)
GetFind(t) == /\ Goto(t, "idle", "count")
              /\ Len(queue) + Cardinality(Inside) < MaxQueue
              /\ \E k \in map : key' = [key EXCEPT ![t] = k]
              /\ UNCHANGED <<map, cnt, queue, tail, size, at>>

GetCount_Missing(t) == Only(t, "count", "load")
GetCount(t) == /\ Goto(t, "count", "load")
               /\ cnt' = [cnt EXCEPT ![key[t]] = @ + 1]
               /\ UNCHANGED <<map, queue, tail, size, key, at>>

(* PutTail, called by Get.  tail->next is null exactly at the end of the    *)
(* queue, and compare_exchange_weak may fail for no reason.                 *)
PutTailLoad(t) == /\ Goto(t, "load", "next")
                  /\ at' = [at EXCEPT ![t] = tail]
                  /\ UNCHANGED <<map, cnt, queue, tail, size, key>>

PutTailNext(t) == Only(t, "next", IF at[t] = Len(queue) THEN "link" ELSE "load")

PutTailLink(t) == /\ Goto(t, "link", "swing")
                  /\ at[t] = Len(queue)   \* tail->next is still null
                  /\ queue' = Append(queue, key[t])
                  /\ UNCHANGED <<map, cnt, tail, size, key, at>>

PutTailLinkFails(t) == Only(t, "link", "load")

\* When tail_ has moved, the whole loop runs again for the same node.
PutTailSwing(t) ==
    /\ IF tail = at[t]
       THEN /\ Goto(t, "swing", "idle")
            /\ tail' = at[t] + 1
            /\ key' = [key EXCEPT ![t] = NoKey] /\ at' = [at EXCEPT ![t] = 0]
       ELSE Goto(t, "swing", "load") /\ UNCHANGED <<tail, key, at>>
    /\ UNCHANGED <<map, cnt, queue, size>>

(* PopHead: how many nodes of s it pops when the counts are c.  It stops    *)
(* after the first node that takes its key's count to zero.                 *)
PopLength_One(s, c) == 1
PopLength(s, c) ==
    LET stops == {i \in DOMAIN s : Occurrences(s[i], SubSeq(s, 1, i)) = c[s[i]]}
    IN  IF stops = {} THEN Len(s) ELSE Min(stops)

\* current_size_ after a Put that inserted a key
SizeAfterPut == IF size = Capacity THEN size ELSE size + 1

(* Put of a new key; Put of a key in the map returns false. *)
Put(k) ==
    /\ Inside = {}
    /\ k \notin map
    /\ Len(queue) < MaxQueue
    /\ LET s == Append(queue, k)
           c == [cnt EXCEPT ![k] = 1]
           n == IF size = Capacity THEN PopLength(s, c) ELSE 0
           popped == SubSeq(s, 1, n)
           left(x) == c[x] - Occurrences(x, popped)
           gone == {x \in ToSet(popped) : left(x) = 0}
       IN  /\ queue' = SubSeq(s, n + 1, Len(s))
           /\ tail' = Len(s) - n
           /\ cnt' = [x \in Key |-> left(x)]
           /\ map' = (map \cup {k}) \ gone
    /\ size' = SizeAfterPut
    /\ UNCHANGED <<pc, key, at>>

GetStep(t) == \/ GetFind(t) \/ GetCount(t)
              \/ PutTailLoad(t) \/ PutTailNext(t)
              \/ PutTailLink(t) \/ PutTailLinkFails(t)
              \/ PutTailSwing(t)

Next == (\E t \in Thread : GetStep(t)) \/ (\E k \in Key : Put(k))

Spec == Init /\ [][Next]_vars

-----------------------------------------------------------------------------
(* Properties *)

\* <<a, b>> for the keys a and b of s of which b has a node behind all of a's
UsedBefore(s) ==
    {p \in ToSet(s) \X ToSet(s) :
        \E j \in DOMAIN s : s[j] = p[2] /\ \A i \in DOMAIN s : s[i] = p[1] => i < j}

Abstract == INSTANCE LRU WITH keys <- map, older <- UsedBefore(queue)

\* The cache evicts the least recently used key, although nodes of that key
\* and of others are scattered over the queue and Gets interleave.
IsLRU == Abstract!Spec

\* current_size_ counts the keys of the map, the keys of the map are those of
\* the queue, and so the capacity is respected.
SizeExact == size = Cardinality(map) /\ map = ToSet(queue)

\* Both counts are exact.  A key's is the number of its nodes: those in the
\* queue and those a Get has counted and not linked yet.  PopHead relies on it
\* to stop.
CountExact ==
    /\ TypeOK
    /\ SizeExact
    /\ \A k \in Key :
         cnt[k] = Occurrences(k, queue)
                    + Cardinality({t \in Thread : key[t] = k /\ pc[t] \in {"load", "next", "link"}})

=============================================================================
