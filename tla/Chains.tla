------------------------------- MODULE Chains -------------------------------
(* Reading a linked structure: what its properties need, none of its code.  *)
EXTENDS Naturals, FiniteSets, Sequences, SequencesExt

\* The nodes that follow `first' under the function `next' up to `null', in
\* order.  At most as many as `next' has nodes are followed.
Chain(next, first, null) ==
    LET Bound   == Cardinality(DOMAIN next)
        walk[k \in 0 .. Bound] == IF k = 0 THEN next[first]
                                  ELSE IF walk[k - 1] = null THEN null
                                  ELSE next[walk[k - 1]]
        steps   == Cardinality({k \in 1 .. Bound : walk[k - 1] # null})
    IN  [k \in 1 .. steps |-> walk[k - 1]]
=============================================================================
