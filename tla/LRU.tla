-------------------------------- MODULE LRU --------------------------------
(***************************************************************************)
(* What a cache of at most Capacity keys with least-recently-used eviction *)
(* promises.  The values play no part: a key keeps the value it was first  *)
(* put with until it is evicted.                                           *)
(***************************************************************************)
EXTENDS Naturals, FiniteSets

CONSTANTS Key, Capacity

VARIABLES
    keys,   \* the keys in the cache
    older   \* <<j, k>> when the last use of j was before that of k

vars == <<keys, older>>

Init == keys = {} /\ older = {}

\* The keys become those of S, with their uses so far, and k, used last.
Renews(S, k) == /\ keys'  = S \cup {k}
                /\ older' = (older \cap (S \X S)) \cup (S \X {k})

\* A Get that finds k makes it the most recently used key.
Use(k) == k \in keys /\ Renews(keys \ {k}, k)

Oldest == {v \in keys : \A j \in keys : <<j, v>> \notin older}

\* A Put of a new key evicts the least recently used one when it is full.
Insert(k) ==
    /\ k \notin keys
    /\ \/ Cardinality(keys) < Capacity /\ Renews(keys, k)
       \/ Cardinality(keys) = Capacity /\ \E v \in Oldest : Renews(keys \ {v}, k)

Next == \E k \in Key : Use(k) \/ Insert(k)

Spec == Init /\ [][Next]_vars

=============================================================================
