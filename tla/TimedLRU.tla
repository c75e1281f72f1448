------------------------------ MODULE TimedLRU ------------------------------
(***************************************************************************)
(* LRUCache of c++/utils/cache/lru_cache.h: a map whose nodes are also in  *)
(* a doubly linked list between head_ and tail_, least recently used       *)
(* first, with an expiry time and a write lock in every node.              *)
(*                                                                         *)
(* Get holds the read lock of the cache, so Gets relink nodes together:    *)
(* each lock they take and each access between two locks is an action.     *)
(* Put holds the write lock, which excludes every Get and every other Put  *)
(* (RWLock!MutualExclusion), so a whole Put is one action that needs no    *)
(* thread to be inside; the two overloads differ only in how the value is  *)
(* stored.  The locks of the nodes are only ever taken for writing: such a *)
(* lock has one owner and makes everyone else spin, its owner too.         *)
(***************************************************************************)
EXTENDS Naturals, FiniteSets, Sequences, SequencesExt

CONSTANTS
    Thread,
    Key,
    Head0, Tail0,    \* head_ and tail_
    Null,           \* no node, no key, no thread
    Capacity,       \* max_size_
    Timeout,        \* timeout_
    MaxTime,        \* bound of the model: the clock stops here
    MaxSize         \* bound of the model: no Put starts when size is larger

ASSUME NodesAssumption  == Head0 # Tail0 /\ {Head0, Tail0} \cap Key = {}
ASSUME NullAssumption   == Null \notin Thread \cup Key \cup {Head0, Tail0}
ASSUME BoundsAssumption == {Capacity, Timeout, MaxTime, MaxSize} \subseteq Nat

Node == Key \cup {Head0, Tail0}

VARIABLES
    now,        \* std::time
    size,       \* current_size_
    map,        \* the keys of underly_
    next, pred, \* the links of every node
    expire,     \* expire_time of every node in the map
    owner,      \* owner[n]: the thread that holds the lock of node n
    pc,         \* pc[t]: the next step of the Get thread t is in
    key,        \* key[t]: the argument of that Get, the node it moves
    aim,        \* aim[t]: the neighbour whose lock t is about to take
    hazard,     \* history: which of `Hazards' have happened
    lost        \* a call has met freed memory, or goes round for ever

list == <<size, map, next, pred, expire>>
vars == <<now, list, owner, pc, key, aim, hazard, lost>>

Unlinking == {"aimNext", "takeNext", "takeNode", "aimPred", "takePred", "unlink", "unlinkNext"}
Appending == {"test", "takeTail", "takeSelf", "aimLast", "takeLast", "append",
              "swing", "point", "link"}

\* "shared": two Gets were inside for one key.  "stale": a Get held the lock
\* of a node that another Get had moved away from behind its own.
Hazards == {"shared", "stale"}

TypeOK ==
    /\ now    \in 0 .. MaxTime
    /\ size   \in Nat
    /\ map    \subseteq Key
    /\ next   \in [Node -> Node \cup {Null}]
    /\ pred   \in [Node -> Node \cup {Null}]
    /\ expire \in [Key -> Nat]
    /\ owner  \in [Node -> Thread \cup {Null}]
    /\ pc     \in [Thread -> {"idle", "stamp"} \cup Unlinking \cup Appending]
    /\ key    \in [Thread -> Key \cup {Null}]
    /\ aim    \in [Thread -> Node \cup {Null}]
    /\ hazard \subseteq Hazards
    /\ lost   \in BOOLEAN

Init == /\ now = 0 /\ size = 0 /\ map = {}
        /\ next   = [n \in Node |-> IF n = Head0 THEN Tail0 ELSE Null]
        /\ pred   = [n \in Node |-> IF n = Tail0 THEN Head0 ELSE Null]
        /\ expire = [k \in Key |-> 0]
        /\ owner  = [n \in Node |-> Null]
        /\ pc     = [t \in Thread |-> "idle"]
        /\ key    = [t \in Thread |-> Null]
        /\ aim    = [t \in Thread |-> Null]
        /\ hazard = {}
        /\ lost   = FALSE

-----------------------------------------------------------------------------
Inside == {t \in Thread : pc[t] # "idle"}

\* The list from head_ to tail_ with the entries s: its nodes by place, and
\* that the links go through them in both directions
At(s, i) == IF i = 0 THEN Head0 ELSE IF i > Len(s) THEN Tail0 ELSE s[i]

Lists(s) == \A i \in 0 .. Len(s) : /\ next[At(s, i)] = At(s, i + 1)
                                   /\ pred[At(s, i + 1)] = At(s, i)

Intact == \E s \in SetToSeqs(map) : Lists(s)

\* Links to freed memory are Null.  Freed(t): the node that thread t is about
\* to lock or to write to is freed.
Freed(t) == \/ pc[t] \in {"takeNext", "takePred", "takeLast"} /\ aim[t] = Null
            \/ pc[t] \in {"unlink", "link"} /\ pred[key[t]] = Null
            \/ pc[t] = "unlinkNext" /\ next[key[t]] = Null

Goto(t, from, to) == /\ pc[t] = from /\ ~Freed(t) /\ ~lost
                     /\ pc' = [pc EXCEPT ![t] = to]

\* A lock_guard on node n
Take(t, n) == owner[n] = Null /\ owner' = [owner EXCEPT ![n] = t]

\* The lock_guards of a block are destroyed.
Release(t) == owner' = [n \in Node |-> IF owner[n] = t THEN Null ELSE owner[n]]

Locks(t, from, n, to) == /\ Goto(t, from, to) /\ Take(t, n)
                         /\ UNCHANGED <<now, list, key, aim, hazard, lost>>

Aims(t, from, n, to) == /\ Goto(t, from, to) /\ aim' = [aim EXCEPT ![t] = n]
                        /\ UNCHANGED <<now, list, owner, key, hazard, lost>>

(* Get(k) of an entry whose time is over.  Every other Get answers null and *)
(* changes nothing.                                                         *)
Expired(k, time) == expire[k] < time

GetFind(t) ==
    /\ Goto(t, "idle", "aimNext")
    /\ \E k \in map :
          /\ Expired(k, now)
          /\ key' = [key EXCEPT ![t] = k]
          /\ hazard' = hazard \cup {h \in {"shared"} : \E u \in Inside : key[u] = k}
    /\ UNCHANGED <<now, list, owner, aim, lost>>

(* PutTail, first block: the node is linked, for every node of the map is.  *)
(* next is read before its lock is taken, and pred under the node's lock.   *)
AimNext(t)  == Aims(t, "aimNext", next[key[t]], "takeNext")
TakeNext(t) == Locks(t, "takeNext", aim[t], "takeNode")
TakeNode(t) == /\ Goto(t, "takeNode", "aimPred") /\ Take(t, key[t])
               /\ hazard' = hazard \cup {h \in {"stale"} : next[key[t]] # aim[t]}
               /\ UNCHANGED <<now, list, key, aim, lost>>
AimPred_Next(t) == Aims(t, "aimPred", next[key[t]], "takePred")
AimPred(t)  == Aims(t, "aimPred", pred[key[t]], "takePred")
TakePred(t) == Locks(t, "takePred", aim[t], "unlink")

UnlinkPred(t) == /\ Goto(t, "unlink", "unlinkNext")
                 /\ next' = [next EXCEPT ![pred[key[t]]] = next[key[t]]]
                 /\ UNCHANGED <<now, size, map, pred, expire, owner, key, aim, hazard, lost>>
UnlinkNext(t) == /\ Goto(t, "unlinkNext", "test")
                 /\ pred' = [pred EXCEPT ![next[key[t]]] = pred[key[t]]]
                 /\ Release(t)
                 /\ UNCHANGED <<now, size, map, next, expire, key, aim, hazard, lost>>

(* PutTail, second block: the test reads tail_.pred without a lock.         *)
Test(t) == /\ Goto(t, "test", IF pred[Tail0] = key[t] THEN "stamp" ELSE "takeTail")
           /\ UNCHANGED <<now, list, owner, key, aim, hazard, lost>>

TakeTail(t) == Locks(t, "takeTail", Tail0, "takeSelf")
TakeSelf(t) == Locks(t, "takeSelf", key[t], "aimLast")
AimLast(t)  == Aims(t, "aimLast", pred[Tail0], "takeLast")
TakeLast(t) == Locks(t, "takeLast", aim[t], "append")

\* One store of the node's insertion before tail_
Stores(t, from, to, n, p) == /\ Goto(t, from, to) /\ next' = n /\ pred' = p
                             /\ UNCHANGED <<now, size, map, expire, key, aim, hazard, lost>>

SetPred_AfterSwing(t) == /\ Stores(t, "append", "swing", next, [pred EXCEPT ![key[t]] = key[t]])
                         /\ UNCHANGED owner
SetPred(t)  == /\ Stores(t, "append", "swing", next, [pred EXCEPT ![key[t]] = pred[Tail0]])
               /\ UNCHANGED owner
SwingTail(t) == /\ Stores(t, "swing", "point", next, [pred EXCEPT ![Tail0] = key[t]])
                /\ UNCHANGED owner
SetNext(t)  == /\ Stores(t, "point", "link", [next EXCEPT ![key[t]] = Tail0], pred)
               /\ UNCHANGED owner
LinkLast(t) == /\ Stores(t, "link", "stamp", [next EXCEPT ![pred[key[t]]] = key[t]], pred)
               /\ Release(t)

\* The end of PutTail; Get returns the value.
Stamp(t) == /\ Goto(t, "stamp", "idle")
            /\ expire' = [expire EXCEPT ![key[t]] = now + Timeout]
            /\ key' = [key EXCEPT ![t] = Null] /\ aim' = [aim EXCEPT ![t] = Null]
            /\ UNCHANGED <<now, size, map, next, pred, owner, hazard, lost>>

PutPops_Exact == size + 1 = Capacity
PutPops == size + 1 >= Capacity

\* current_size_ after a Put
SizeAfterPut_Once == IF PutPops THEN size ELSE size + 1
SizeAfterPut == IF PutPops THEN size + 1 ELSE size + 2

(* Put of a new key k (for a key in the map it returns false).  First the   *)
(* links as PutTail leaves them, which are those of a list only if tail_ is *)
(* at the end of one.                                                       *)
NextAfterTail(k) == [next EXCEPT ![k] = Tail0, ![pred[Tail0]] = k]
PredAfterTail(k) == [pred EXCEPT ![k] = pred[Tail0], ![Tail0] = k]

(* PopHead follows the links from head_: over one entry in any case, then   *)
(* over those in `over', to the first node, `end', that is not.  It erases  *)
(* what it came over, which is nothing if it came round to where it began.  *)
Pops(k) == PutPops /\ NextAfterTail(k)[Head0] # Tail0

Walk(k, gone, end, over) ==
    /\ gone # <<>> /\ end \notin over
    /\ NextAfterTail(k)[Head0] = gone[1]
    /\ \A i \in 1 .. Len(gone) :
          /\ NextAfterTail(k)[gone[i]] = IF i = Len(gone) THEN end ELSE gone[i + 1]
          /\ i > 1 => gone[i] \in over

Walks(S) == UNION {SetToSeqs(R) : R \in SUBSET S}

Erased(gone, end) == IF end = gone[1] THEN {} ELSE ToSet(gone)

\* An erased node is freed: it has no links, and those to it are Null.
Forget(f, gone) == [n \in Node |-> IF n \in gone \/ f[n] \in gone THEN Null ELSE f[n]]

MayPut(k) == ~lost /\ Inside = {} /\ k \notin map /\ size <= MaxSize

\* The clock is read again in PopHead and may have moved on by then.
Later == {time \in now .. MaxTime : time <= now + 1}

Over(k, time) == {n \in Key : [expire EXCEPT ![k] = now + Timeout][n] < time}

PutPop(k) ==
    \E gone \in Walks(map \cup {k}), end \in Node :
       /\ Walk(k, gone, end, Over(k, now'))
       /\ map'  = (map \cup {k}) \ Erased(gone, end)
       /\ next' = Forget([NextAfterTail(k) EXCEPT ![Head0] = end], Erased(gone, end))
       /\ pred' = Forget([PredAfterTail(k) EXCEPT ![end] = Head0], Erased(gone, end))

PutOnly(k) == /\ map'  = map \cup {k}
              /\ next' = NextAfterTail(k)
              /\ pred' = PredAfterTail(k)

Put(k) == /\ MayPut(k) /\ pred[Tail0] # Null
          /\ now' \in Later
          /\ IF Pops(k) THEN PutPop(k) ELSE PutOnly(k)
          /\ size' = SizeAfterPut
          /\ expire' = [expire EXCEPT ![k] = now + Timeout]
          /\ UNCHANGED <<owner, pc, key, aim, hazard, lost>>

(* The list is not one any more, and PutTail writes to a freed node,        *)
(* PopHead comes to one, or PopHead goes round expired entries for ever.    *)
(* What the program does with freed memory is undefined, and a Put that     *)
(* does not return keeps every other call out: there is no further step.    *)
PutLost(k) == /\ MayPut(k)
              /\ now' \in Later
              /\ \/ pred[Tail0] = Null
                 \/ Pops(k) /\ \A gone \in Walks(map \cup {k}), end \in Node :
                                  ~Walk(k, gone, end, Over(k, now'))
              /\ lost' = TRUE
              /\ UNCHANGED <<list, owner, pc, key, aim, hazard>>

(* The same for a Get.                                                      *)
GetLost(t) == /\ ~lost /\ Freed(t) /\ lost' = TRUE
              /\ UNCHANGED <<now, list, owner, pc, key, aim, hazard>>

Tick == ~lost /\ now < MaxTime /\ now' = now + 1 /\ UNCHANGED <<list, owner, pc, key, aim, hazard, lost>>

GetStep(t) == \/ AimNext(t) \/ TakeNext(t) \/ TakeNode(t) \/ AimPred(t) \/ TakePred(t)
              \/ UnlinkPred(t) \/ UnlinkNext(t) \/ Test(t) \/ TakeTail(t) \/ TakeSelf(t)
              \/ AimLast(t) \/ TakeLast(t) \/ SetPred(t) \/ SwingTail(t) \/ SetNext(t)
              \/ LinkLast(t) \/ Stamp(t)

Next == \/ \E t \in Thread : GetFind(t) \/ GetStep(t) \/ GetLost(t)
        \/ \E k \in Key : Put(k) \/ PutLost(k)
        \/ Tick

Spec == Init /\ [][Next]_vars

-----------------------------------------------------------------------------
(* Properties *)

\* When no Get is inside, the list holds every node of the map once and its
\* links agree in both directions, and no call follows a link into freed
\* memory or goes round for ever, unless two Gets were inside for one key
\* (both pass PutTail's test before either has relinked the node), or a Get
\* held a lock too far from its node, so that another could write the links
\* it was about to write.
IntactUnlessHazard ==
    TypeOK /\ (hazard = {} => ~lost /\ (Inside = {} => Intact))

Waits(t, n) == /\ owner[n] # Null
               /\ \/ pc[t] \in {"takeNext", "takePred", "takeLast"} /\ n = aim[t]
                  \/ pc[t] \in {"takeNode", "takeSelf"} /\ n = key[t]
                  \/ pc[t] = "takeTail" /\ n = Tail0

\* The Gets inside never all wait for locks of nodes, which would hang every
\* later Put as well, unless two Gets were inside for one key, or a Get held
\* the lock of a node that had stopped being its neighbour: locks are
\* otherwise taken from the tail towards the head.
StuckOnlyByHazard ==
    (\E t \in Inside : TRUE) /\ (\A t \in Inside : \E n \in Node : Waits(t, n))
        => hazard # {}

\* current_size_ counts twice and is never decremented, and PopHead gives up
\* the first entry of the list.  While the list is one, the cache thus never
\* holds more than half of max_size_ entries, and once current_size_ has
\* reached max_size_ no Put leaves it with more entries than it found: what
\* expired entries leave behind stays empty.  On a broken list head_ may have
\* lost the entries that tail_ still has, and PopHead then erases nothing.
NeverRefills == [][hazard = {} /\ size >= Capacity => Cardinality(map') <= Cardinality(map)]_vars
AtMostHalf   == hazard = {} => 2 * Cardinality(map) <= Capacity

=============================================================================
