------------------------------ MODULE HashMap ------------------------------
(***************************************************************************)
(* ConcurrentHashMap of c++/utils/cache/concurrent_hashmap_element_lock.h  *)
(* with the lists, the pool of nodes and the spin locks it is built on:    *)
(* find, insert and emplace (erase does not compile when instantiated, so  *)
(* no node ever leaves a bucket or returns to the pool).                   *)
(*                                                                         *)
(* A bucket is a list between two dummy cells, begin_ and end_, and so is  *)
(* the pool.  Find takes no lock; PushBack holds the locks of end_ and of  *)
(* the last cell; PopHead holds the lock of the pool's first cell and then *)
(* that of its begin_.  PopHead of an empty pool returns the pool's own    *)
(* end_ cell, PoolEnd, which GetOne takes for a node.                      *)
(*                                                                         *)
(* Only PopHead touches the pool, all under the lock of begin_, which is   *)
(* therefore one action.  Back pointers other than end_.pred are written   *)
(* and never read, and are left out.                                       *)
(*                                                                         *)
(* The usual names are prefixed with Map: HttpAndMapProofs extends this    *)
(* module and HttpDemo.                                                    *)
(***************************************************************************)
EXTENDS Chains

CONSTANTS
    Thread,
    Key,
    Node,       \* the nodes the pool begins with
    PoolEnd,    \* the dummy last cell of the pool
    Bucket,
    Hash,       \* HashResult
    Null        \* nullptr

Begin(b) == <<b, "begin">>
End(b)   == <<b, "end">>
Dummies  == {Begin(b) : b \in Bucket} \cup {End(b) : b \in Bucket}
Cell     == Node \cup {PoolEnd} \cup Dummies

ASSUME HashAssumption == IsFiniteSet(Bucket) /\ Hash \in [Key -> Bucket]
ASSUME NodeAssumption == IsFiniteSet(Node) /\ PoolEnd \notin Node
ASSUME CellAssumption == Dummies \cap (Node \cup {PoolEnd}) = {}
ASSUME NullAssumption == Null \notin Cell \cup Key

VARIABLES
    next,   \* next[c]: c->next; the pool's nodes are in `pool'
    last,   \* last[b]: end_.pred of bucket b
    value,  \* value[c]: the key in the cell, Null when it has no value
    pool,   \* the nodes in resouce_
    locked, \* the cells whose mtx is held
    at,     \* at[t]: where thread t is
    call,   \* call[t]: "find" or "insert"
    arg,    \* arg[t]: the key
    cur,    \* cur[t]: Find's cursor, LockWithTryLoop's node
    node    \* node[t]: the node insert got

mapVars == <<next, last, value, pool, locked, at, call, arg, cur, node>>

Labels == {"idle", "find", "popLoad", "popTry", "pop", "popUnlock", "prepare",
           "endLock", "pushLoad", "pushTry", "link", "close", "last", "unlock"}

MapTypeOK ==
    /\ next   \in [Cell -> Cell \cup {Null}]
    /\ last   \in [Bucket -> Cell]
    /\ value  \in [Cell -> Key \cup {Null}]
    /\ pool   \in Seq(Node)
    /\ locked \subseteq Cell
    /\ at     \in [Thread -> Labels]
    /\ call   \in [Thread -> {"find", "insert"}]
    /\ arg    \in [Thread -> Key \cup {Null}]
    /\ cur    \in [Thread -> Cell \cup {Null}]
    /\ node   \in [Thread -> Node \cup {PoolEnd, Null}]

MapInit ==
    /\ next   = [c \in Cell |-> IF \E b \in Bucket : c = Begin(b)
                                THEN End(CHOOSE b \in Bucket : c = Begin(b)) ELSE Null]
    /\ last   = [b \in Bucket |-> Begin(b)]
    /\ value  = [c \in Cell |-> Null]
    /\ pool   = SetToSeq(Node)
    /\ locked = {}
    /\ at     = [t \in Thread |-> "idle"]
    /\ call   = [t \in Thread |-> "find"]
    /\ arg    = [t \in Thread |-> Null]
    /\ cur    = [t \in Thread |-> Null]
    /\ node   = [t \in Thread |-> Null]

-----------------------------------------------------------------------------
lists  == <<next, last, value>>
callOf == <<call, arg>>

Step(t, from, to) == at[t] = from /\ at' = [at EXCEPT ![t] = to]
Bkt(t) == Hash[arg[t]]

\* PopHead found the pool empty.
Exhausted == value[PoolEnd] # Null \/ \E t \in Thread : node[t] = PoolEnd

\* A call begins with Find at the first cell of the key's bucket.  Bound: none
\* begins once the pool has run empty; those under way go on.
Call(t, c, k) ==
    /\ Step(t, "idle", "find") /\ ~Exhausted
    /\ call' = [call EXCEPT ![t] = c] /\ arg' = [arg EXCEPT ![t] = k]
    /\ cur' = [cur EXCEPT ![t] = next[Begin(Hash[k])]]
    /\ UNCHANGED <<lists, pool, locked, node>>

Return(t, from) ==
    /\ Step(t, from, "idle")
    /\ call' = [call EXCEPT ![t] = "find"] /\ arg' = [arg EXCEPT ![t] = Null]
    /\ cur' = [cur EXCEPT ![t] = Null] /\ node' = [node EXCEPT ![t] = Null]

(* Find *)
Matches(t) == cur[t] # Null /\ value[cur[t]] = arg[t]

FindStep(t) == /\ at[t] = "find" /\ cur[t] # Null /\ ~Matches(t)
               /\ cur' = [cur EXCEPT ![t] = next[cur[t]]]
               /\ UNCHANGED <<lists, pool, locked, at, node, callOf>>

Found(t) == Matches(t) /\ Return(t, "find") /\ UNCHANGED <<lists, pool, locked>>

NotFound(t) ==
    /\ cur[t] = Null
    /\ IF call[t] = "find"
       THEN Return(t, "find")
       ELSE Step(t, "find", "popLoad") /\ UNCHANGED <<cur, node, callOf>>
    /\ UNCHANGED <<lists, pool, locked>>

(* GetOne: PopHead of the pool, then the node's next is cleared.            *)
FirstInPool == IF pool = <<>> THEN PoolEnd ELSE Head(pool)

PopLoad(t) == /\ Step(t, "popLoad", "popTry")
              /\ cur' = [cur EXCEPT ![t] = FirstInPool]
              /\ UNCHANGED <<lists, pool, locked, node, callOf>>

\* try_lock in LockWithTryLoop: on failure the pointer is loaded again.
TryLock(t, from, won, again) ==
    /\ Step(t, from, IF cur[t] \in locked THEN again ELSE won)
    /\ locked' = locked \cup {cur[t]}
    /\ UNCHANGED <<lists, pool, cur, node, callOf>>

PopTry(t) == TryLock(t, "popTry", "pop", "popLoad")

\* Under the lock of begin_ the first cell is read again: it may not be the
\* one that was locked.
Popped(t) == FirstInPool

Pop(t) == /\ Step(t, "pop", "popUnlock")
          /\ node' = [node EXCEPT ![t] = Popped(t)]
          /\ pool' = IF pool = <<>> THEN pool ELSE Tail(pool)
          /\ UNCHANGED <<lists, locked, cur, callOf>>

PopUnlock(t) == /\ Step(t, "popUnlock", "prepare")
                /\ locked' = locked \ {cur[t]}
                /\ cur' = [cur EXCEPT ![t] = Null]
                /\ UNCHANGED <<lists, pool, node, callOf>>

(* insert: Reset *)
Prepare(t) == /\ Step(t, "prepare", "endLock")
              /\ next' = [next EXCEPT ![node[t]] = Null]
              /\ value' = [value EXCEPT ![node[t]] = arg[t]]
              /\ UNCHANGED <<last, pool, locked, cur, node, callOf>>

(* PushBack *)
EndFree_Always(t) == TRUE
EndFree(t) == End(Bkt(t)) \notin locked

EndLock(t) == /\ Step(t, "endLock", "pushLoad") /\ EndFree(t)
              /\ locked' = locked \cup {End(Bkt(t))}
              /\ UNCHANGED <<lists, pool, cur, node, callOf>>

PushLoad(t) == /\ Step(t, "pushLoad", "pushTry")
               /\ cur' = [cur EXCEPT ![t] = last[Bkt(t)]]
               /\ UNCHANGED <<lists, pool, locked, node, callOf>>

PushTry(t) == TryLock(t, "pushTry", "link", "pushLoad")

Link(t) == /\ Step(t, "link", "close")
           /\ next' = [next EXCEPT ![cur[t]] = node[t]]
           /\ UNCHANGED <<last, value, pool, locked, cur, node, callOf>>

CloseList(t) == /\ Step(t, "close", "last")
                /\ next' = [next EXCEPT ![node[t]] = End(Bkt(t))]
                /\ UNCHANGED <<last, value, pool, locked, cur, node, callOf>>

NewLast_Old(t) == last[Bkt(t)]
NewLast(t) == node[t]

SetLast(t) == /\ Step(t, "last", "unlock")
              /\ last' = [last EXCEPT ![Bkt(t)] = NewLast(t)]
              /\ UNCHANGED <<next, value, pool, locked, cur, node, callOf>>

\* ep->mtx.unlock(), and on return the lock of end_
Unlocked_Cell(t) == locked \ {cur[t]}
Unlocked(t) == locked \ {cur[t], End(Bkt(t))}

PushUnlock(t) == /\ Return(t, "unlock")
                 /\ locked' = Unlocked(t)
                 /\ UNCHANGED <<lists, pool>>

Moves(t) == \/ FindStep(t) \/ Found(t) \/ NotFound(t)
            \/ PopLoad(t) \/ PopTry(t) \/ Pop(t) \/ PopUnlock(t) \/ Prepare(t)
            \/ EndLock(t) \/ PushLoad(t) \/ PushTry(t)
            \/ Link(t) \/ CloseList(t) \/ SetLast(t) \/ PushUnlock(t)

MapNext == \E t \in Thread :
            \/ Moves(t)
            \/ \E k \in Key, c \in {"find", "insert"} : Call(t, c, k)

MapSpec == MapInit /\ [][MapNext]_mapVars

\* A thread inside a call is scheduled.
MapFairSpec == MapSpec /\ \A t \in Thread : WF_mapVars(Moves(t))

-----------------------------------------------------------------------------
(* Properties *)

\* The cells from begin_ on, less end_
InBucket(b) == LET cells == Chain(next, Begin(b), Null)
               IN  IF cells # <<>> /\ Last(cells) = End(b) THEN Front(cells) ELSE cells

\* PopHead may hold the lock of a cell that is no longer the first, and the
\* pool may run empty: each node is still given to one insert, which alone has
\* it until it is in its bucket.  Only the dummy cell is given twice.
OneOwner ==
    \A t \in Thread : node[t] \in Node =>
        /\ node[t] \notin ToSet(pool)
        /\ \A u \in Thread \ {t} : node[u] # node[t]
        /\ at[t] \notin {"close", "last", "unlock"} =>
             \A b \in Bucket : node[t] \notin ToSet(InBucket(b))

\* The keys linked in some bucket
Keys == {value[c] : c \in UNION {ToSet(InBucket(b)) : b \in Bucket}}

\* What t has done of its call: find is over once its cursor is at a node with
\* the key or past the last node, insert once it has linked its node.
Answer(t) ==
    CASE at[t] = "idle" -> "none"
      [] at[t] = "find" -> IF Matches(t) THEN "present"
                           ELSE IF cur[t] \in {Null} \cup {End(b) : b \in Bucket} THEN "absent"
                           ELSE "open"
      [] at[t] \in {"close", "last", "unlock"} -> "added"
      [] OTHER -> "absent"

Abstract == INSTANCE KeySet WITH keys <- Keys, answer <- [t \in Thread |-> Answer(t)]

\* Find takes no lock and may meet a list that PushBack has half linked, and
\* insert looks and links in two steps.  Still, until the pool runs empty, every
\* answer was true at one moment of the call, no key is ever lost, and an
\* insert that answers true has added its key.
IsKeySet == Abstract!Init /\ [][Exhausted' \/ Abstract!Next]_(Abstract!vars)

\* Every node has one owner.  Until the pool runs empty: when no PushBack is
\* working on a bucket, its list holds exactly the nodes inserted into it and
\* ends at end_, whose pred is the last of them.
BucketsIntact ==
    /\ MapTypeOK /\ OneOwner
    /\ ~Exhausted =>
        \A b \in Bucket : End(b) \notin locked =>
            /\ ToSet(InBucket(b)) =
                 {c \in Node : /\ value[c] # Null /\ Hash[value[c]] = b
                               /\ \A t \in Thread : node[t] # c}
            /\ last[b] = Last(<<Begin(b)>> \o InBucket(b))
            /\ next[last[b]] = End(b)

\* PopHead locks a cell and then begin_, PushBack end_ and then a cell, and they
\* may meet on one cell: no two calls block one another for ever.
CallsReturn == \A t \in Thread : at[t] # "idle" ~> at[t] = "idle" \/ Exhausted

=============================================================================
