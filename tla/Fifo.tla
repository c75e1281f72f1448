-------------------------------- MODULE Fifo --------------------------------
(***************************************************************************)
(* What a queue of distinct nodes promises its users: PushBack appends a   *)
(* node that was never in the queue, PopHead removes the oldest one and    *)
(* gives it to exactly one caller.  A PopHead that finds the queue empty   *)
(* changes nothing.                                                        *)
(***************************************************************************)
EXTENDS Sequences, SequencesExt

CONSTANT Node

VARIABLES
    q,      \* the nodes in the queue, oldest first
    out     \* the nodes given to callers of PopHead, in order

Init == q = <<>> /\ out = <<>>

Push(n) == /\ n \notin ToSet(q) \cup ToSet(out)
           /\ q' = Append(q, n)
           /\ UNCHANGED out

Pop == /\ q # <<>>
       /\ q' = Tail(q)
       /\ out' = Append(out, Head(q))

Next == Pop \/ \E n \in Node : Push(n)

Spec == Init /\ [][Next]_<<q, out>>

=============================================================================
