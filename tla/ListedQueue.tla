---------------------------- MODULE ListedQueue ----------------------------
(***************************************************************************)
(* ListedQueue (c++/utils/cache/threadsafe_listed_queue.h): a linked queue *)
(* with a dummy node head_ and a tail pointer tail_ that moves after the   *)
(* link it follows.  Every atomic access of PushBack and of PopHead is one *)
(* action; `continue' goes back to the first load of the loop.             *)
(*                                                                         *)
(* Callers push every node at most once, as threadsafe_list_test.cc does,  *)
(* and a node that was popped is still readable: freeing it is the         *)
(* caller's business and is not modelled.                                  *)
(***************************************************************************)
EXTENDS Chains

CONSTANTS
    Node,       \* the nodes callers allocate
    Head0,      \* the dummy node head_
    Null,       \* nullptr
    Pusher,     \* threads that call PushBack
    Popper      \* threads that call PopHead

ASSUME NodeAssumption == IsFiniteSet(Node) /\ Head0 \notin Node
ASSUME NullAssumption == Null \notin Node \cup {Head0}

Thread == Pusher \cup Popper

VARIABLES
    next,   \* next[n]: n->next
    tail,   \* tail_
    pc,     \* pc[t]: the next access of thread t
    node,   \* node[t]: the argument of the PushBack t is in
    at,     \* at[t]: PushBack's local `tail', PopHead's local `p'
    nx,     \* nx[t]: PopHead's local `next'
    pushed, \* the nodes whose PushBack has moved tail_, in order
    out,    \* the nodes PopHead took off, in order
    hazard  \* whether a PopHead has emptied the list unawares (EmptiesUnawares)

vars == <<next, tail, pc, node, at, nx, pushed, out, hazard>>

PushLabels == {"pushLoad", "pushNext", "pushLink", "pushSwing"}
PopLabels  == {"popLoad", "popNext", "popTail", "popLast", "popHead"}

TypeOK ==
    /\ next \in [Node \cup {Head0} -> Node \cup {Null}]
    /\ tail \in Node \cup {Head0}
    /\ pc   \in [Thread -> {"idle"} \cup PushLabels \cup PopLabels]
    /\ node \in [Thread -> Node \cup {Null}]
    /\ at   \in [Thread -> Node \cup {Head0, Null}]
    /\ nx   \in [Thread -> Node \cup {Null}]
    /\ hazard \in BOOLEAN

Init == /\ next = [n \in Node \cup {Head0} |-> Null]
        /\ tail = Head0
        /\ pc   = [t \in Thread |-> "idle"]
        /\ node = [t \in Thread |-> Null]
        /\ at   = [t \in Thread |-> Null]
        /\ nx   = [t \in Thread |-> Null]
        /\ pushed = <<>>
        /\ out = <<>>
        /\ hazard = FALSE

-----------------------------------------------------------------------------
\* The access takes t from one label to another.
Step(t, from, to) == pc[t] = from /\ pc' = [pc EXCEPT ![t] = to]

\* The locals of t die: the call returned, or the loop starts again.
Forget(t) == at' = [at EXCEPT ![t] = Null] /\ nx' = [nx EXCEPT ![t] = Null]

Running(labels) == \E t \in Thread : pc[t] \in labels

Used == ToSet(pushed) \cup {node[t] : t \in Thread}

\* The CAS of head_.next (lines 48 and 54) succeeds only on the node read.
HeadUnchanged_Always(t) == TRUE
HeadUnchanged(t) == next[Head0] = at[t]

\* The CAS of tail_ in PopHead (line 47): p is the last node.
PopsLast(t) == tail = at[t]

\* What tail_ becomes when the last node is popped.
EmptyTail_Kept == tail
EmptyTail == Head0

\* What head_.next becomes then.
EmptyHead(t) == Null

\* n is the argument of a PushBack that has not returned.
Unfinished(n) == \E t \in Thread : node[t] = n

\* PopHead takes p for a node in the middle, as the CAS of tail_ failed, and
\* sets head_.next to null, which is what it read behind p before that CAS.
\* That is right only when another PopHead has already put tail_ on head_ for
\* p; otherwise a PushBack came between, or has still to move tail_ to p.
EmptiesUnawares(t) == nx[t] = Null /\ (tail # Head0 \/ Unfinished(at[t]))

(* PushBack *)
PushCall(t) == /\ t \in Pusher
               /\ Step(t, "idle", "pushLoad")
               /\ \E n \in Node \ Used : node' = [node EXCEPT ![t] = n]
               /\ UNCHANGED <<next, tail, at, nx, pushed, out, hazard>>

PushLoad(t) == /\ Step(t, "pushLoad", "pushNext")
               /\ at' = [at EXCEPT ![t] = tail]
               /\ UNCHANGED <<next, tail, node, nx, pushed, out, hazard>>

PushNext(t) == /\ Step(t, "pushNext", IF next[at[t]] = Null THEN "pushLink" ELSE "pushLoad")
               /\ IF next[at[t]] = Null THEN UNCHANGED <<at, nx>> ELSE Forget(t)
               /\ UNCHANGED <<next, tail, node, pushed, out, hazard>>

PushLink(t) == /\ Step(t, "pushLink", "pushSwing")
               /\ next[at[t]] = Null
               /\ next' = [next EXCEPT ![at[t]] = node[t]]
               /\ UNCHANGED <<tail, node, at, nx, pushed, out, hazard>>

\* compare_exchange_weak fails, perhaps for no reason.
PushLinkFails(t) == /\ Step(t, "pushLink", "pushLoad") /\ Forget(t)
                    /\ UNCHANGED <<next, tail, node, pushed, out, hazard>>

\* When tail_ has moved, the whole loop runs again for the same node.
PushSwing(t) == /\ IF tail = at[t]
                   THEN /\ Step(t, "pushSwing", "idle")
                        /\ tail' = node[t] /\ node' = [node EXCEPT ![t] = Null]
                        /\ pushed' = Append(pushed, node[t])
                   ELSE Step(t, "pushSwing", "pushLoad") /\ UNCHANGED <<tail, node, pushed>>
                /\ Forget(t) /\ UNCHANGED <<next, out, hazard>>

(* PopHead: an empty queue returns nullptr. *)
PopCall(t) == /\ t \in Popper
              /\ Step(t, "idle", "popLoad")
              /\ UNCHANGED <<next, tail, node, at, nx, pushed, out, hazard>>

PopLoad(t) == /\ Step(t, "popLoad", IF next[Head0] = Null THEN "idle" ELSE "popNext")
              /\ at' = [at EXCEPT ![t] = next[Head0]]
              /\ UNCHANGED <<next, tail, node, nx, pushed, out, hazard>>

PopNext(t) == /\ Step(t, "popNext", "popTail")
              /\ nx' = [nx EXCEPT ![t] = next[at[t]]]
              /\ UNCHANGED <<next, tail, node, at, pushed, out, hazard>>

PopTail(t) == /\ Step(t, "popTail", IF PopsLast(t) THEN "popLast" ELSE "popHead")
              /\ tail' = IF PopsLast(t) THEN EmptyTail ELSE tail
              /\ UNCHANGED <<next, node, at, nx, pushed, out, hazard>>

\* The CAS of head_.next from p to v: p is returned, or the loop runs again.
Unlink(t, from, v, spoils) ==
    /\ IF HeadUnchanged(t)
       THEN /\ Step(t, from, "idle")
            /\ next' = [next EXCEPT ![Head0] = v] /\ out' = Append(out, at[t])
            /\ hazard' = (hazard \/ spoils)
       ELSE Step(t, from, "popLoad") /\ UNCHANGED <<next, out, hazard>>
    /\ Forget(t) /\ UNCHANGED <<tail, node, pushed>>

PopLast(t) == Unlink(t, "popLast", EmptyHead(t), FALSE)
PopHead(t) == Unlink(t, "popHead", nx[t], EmptiesUnawares(t))

PushStep(t) == PushLoad(t) \/ PushNext(t) \/ PushLink(t) \/ PushLinkFails(t) \/ PushSwing(t)
PopStep(t)  == PopLoad(t) \/ PopNext(t) \/ PopTail(t) \/ PopLast(t) \/ PopHead(t)

Next == \E t \in Thread : PushCall(t) \/ PushStep(t) \/ PopCall(t) \/ PopStep(t)

Spec == Init /\ [][Next]_vars

-----------------------------------------------------------------------------
(* Properties *)

\* The nodes linked from head_, oldest first, and those of them that are in
\* the queue for good: a last one whose PushBack has yet to move tail_ may be
\* cut off by PopLast, and is then linked again.
Linked == Chain(next, Head0, Null)
Queued == IF Linked # <<>> /\ Unfinished(Last(Linked)) THEN Front(Linked) ELSE Linked

Abstract == INSTANCE Fifo WITH q <- Queued, out <- out

\* However many threads push and pop at once, PushBack and PopHead are the two
\* operations of a FIFO queue as long as no PopHead empties the list unawares.
\* (Afterwards nodes may be lost or linked twice.)
IsFifo == Abstract!Init /\ [][hazard' \/ Abstract!Next]_<<Queued, out>>

\* Until then, and whenever no operation is under way, no node has been lost,
\* doubled or overtaken, and tail_ is the last linked node (head_ when there
\* is none), so that the next PushBack links where a reader will find it.
TailIsLast ==
    /\ TypeOK
    /\ ~hazard /\ ~Running(PushLabels \cup PopLabels) =>
         /\ out \o Linked = pushed
         /\ tail = IF Linked = <<>> THEN Head0 ELSE Last(Linked)

=============================================================================
