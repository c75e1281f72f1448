---------------------------- MODULE LockFreeList ----------------------------
(***************************************************************************)
(* List of c++/utils/cache/lock_free_linked_list.h: an unordered linked    *)
(* list used as a set, with Insert and Search.                             *)
(*                                                                         *)
(* Only Delete and TryFlag would ever set a mark or a flag, and neither    *)
(* compiles when it is instantiated, so every mark and flag read is false  *)
(* and the code behind them (HelpMarked, HelpFlagged, TryMark) never runs. *)
(*                                                                         *)
(* SearchFrom reads one next pointer per action.  In Insert, the store to  *)
(* the new node is private until the CAS that follows publishes it, and    *)
(* the two are one action.                                                 *)
(*                                                                         *)
(* The usual names are prefixed with List: PoolAndListProofs extends this  *)
(* module and WorkerPool.                                                  *)
(***************************************************************************)
EXTENDS Chains

CONSTANTS
    Thread,
    Key,
    Node,       \* the nodes Insert allocates
    Head0,      \* the dummy node `head'
    Null        \* nullptr

ASSUME NodeAssumption == IsFiniteSet(Node) /\ Head0 \notin Node
ASSUME NullAssumption == Null \notin Node \cup {Head0} \cup Key

VARIABLES
    next,   \* next[n]: n->next
    value,  \* value[n]: the key of node n, Null before it is allocated
    pc,     \* pc[t]: "idle", "search" in SearchFrom, "cas" before Insert's CAS
    call,   \* call[t]: "insert" or "retry" in Insert, "find" in Search
    arg,    \* arg[t]: the key looked for
    node,   \* node[t]: Insert's new_node
    prev,   \* prev[t]: Insert's prev_node
    succ,   \* succ[t]: Insert's next_node
    cur,    \* cur[t]: SearchFrom's cur_node
    equal,  \* equal[t]: SearchFrom's `equal'
    result, \* result[t]: what the last call of t returned
    before  \* before[t]: the keys in the list when the last Search of t began

list     == <<next, value>>
locals   == <<pc, call, arg, node, prev, succ, cur, equal>>
listVars == <<list, locals, result, before>>

Nodes   == Chain(next, Head0, Null)
KeysOf(s) == {value[n] : n \in ToSet(s)}

ListTypeOK ==
    /\ next   \in [Node \cup {Head0} -> Node \cup {Null}]
    /\ value  \in [Node -> Key \cup {Null}]
    /\ pc     \in [Thread -> {"idle", "search", "cas"}]
    /\ call   \in [Thread -> {"insert", "retry", "find"}]
    /\ arg    \in [Thread -> Key \cup {Null}]
    /\ node   \in [Thread -> Node \cup {Null}]
    /\ prev   \in [Thread -> Node \cup {Head0, Null}]
    /\ succ   \in [Thread -> Node \cup {Null}]
    /\ cur    \in [Thread -> Node \cup {Head0}]
    /\ equal  \in [Thread -> BOOLEAN]
    /\ result \in [Thread -> {"none", "inserted", "present", "found", "missing"}]
    /\ before \in [Thread -> SUBSET Key]

ListInit ==
    /\ next   = [n \in Node \cup {Head0} |-> Null]
    /\ value  = [n \in Node |-> Null]
    /\ pc     = [t \in Thread |-> "idle"]
    /\ call   = [t \in Thread |-> "find"]
    /\ arg    = [t \in Thread |-> Null]
    /\ node   = [t \in Thread |-> Null]
    /\ prev   = [t \in Thread |-> Null]
    /\ succ   = [t \in Thread |-> Null]
    /\ cur    = [t \in Thread |-> Head0]
    /\ equal  = [t \in Thread |-> TRUE]
    /\ result = [t \in Thread |-> "none"]
    /\ before = [t \in Thread |-> {}]

-----------------------------------------------------------------------------
\* t enters SearchFrom(k, from).
Begin(t, c, k, from) ==
    /\ pc'    = [pc EXCEPT ![t] = "search"]
    /\ call'  = [call EXCEPT ![t] = c]
    /\ arg'   = [arg EXCEPT ![t] = k]
    /\ cur'   = [cur EXCEPT ![t] = from]
    /\ equal' = [equal EXCEPT ![t] = TRUE]

\* The call of t returns r and its locals die.
Return(t, r) ==
    /\ pc'     = [pc EXCEPT ![t] = "idle"]
    /\ call'   = [call EXCEPT ![t] = "find"]
    /\ node'   = [node EXCEPT ![t] = Null]
    /\ prev'   = [prev EXCEPT ![t] = Null]
    /\ succ'   = [succ EXCEPT ![t] = Null]
    /\ cur'    = [cur EXCEPT ![t] = Head0]
    /\ equal'  = [equal EXCEPT ![t] = TRUE]
    /\ result' = [result EXCEPT ![t] = r]

\* The nodes not allocated yet.  Their number bounds the Inserts begun.
Free == {n \in Node : value[n] = Null}

(* Insert(k), Search(k): the calls *)
InsertCall(t, k) ==
    /\ pc[t] = "idle"
    /\ Cardinality({u \in Thread : call[u] = "insert" /\ pc[u] = "search"})
         < Cardinality(Free)
    /\ Begin(t, "insert", k, Head0)
    /\ UNCHANGED <<list, node, prev, succ, result, before>>

SearchCall(t, k) ==
    /\ pc[t] = "idle"
    /\ Begin(t, "find", k, Head0)
    /\ before' = [before EXCEPT ![t] = KeysOf(Nodes)]
    /\ UNCHANGED <<list, node, prev, succ, result>>

-----------------------------------------------------------------------------
(* SearchFrom *)
Holds(n, k) == n # Null /\ value[n] = k

\* cur_node moves to the next node.
Advance(n) == next[n]

SearchStep(t) ==
    /\ pc[t] = "search"
    /\ next[cur[t]] # Null
    /\ ~Holds(next[cur[t]], arg[t])
    /\ cur' = [cur EXCEPT ![t] = Advance(cur[t])]
    /\ equal' = [equal EXCEPT ![t] = FALSE]
    /\ UNCHANGED <<list, pc, call, arg, node, prev, succ, result, before>>

\* The search ends at the end of the list or before a node with the key.
SearchEnds(t) ==
    /\ pc[t] = "search"
    /\ next[cur[t]] = Null \/ Holds(next[cur[t]], arg[t])

\* already_equal: `equal' keeps its last value at the end of the list, and a
\* key found behind `head' itself does not count.
AlreadyEqual_Never(t) == FALSE
AlreadyEqual(t) == /\ next[cur[t]] # Null \/ equal[t]
                   /\ cur[t] # Head0

(* Search returns. *)
SearchReturn(t) ==
    /\ SearchEnds(t)
    /\ call[t] = "find"
    /\ Return(t, IF AlreadyEqual(t) THEN "found" ELSE "missing")
    /\ UNCHANGED <<list, arg, before>>

(* Insert finds the key: it returns it, or deletes new_node and returns it. *)
InsertPresent(t) ==
    /\ SearchEnds(t)
    /\ call[t] # "find"
    /\ AlreadyEqual(t)
    /\ Return(t, "present")
    /\ UNCHANGED <<list, arg, before>>

\* Only the first SearchFrom of an Insert sets prev_node and next_node; the
\* node is allocated then.
SetsPosition(t) == call[t] = "insert"

InsertPosition(t) ==
    /\ SearchEnds(t)
    /\ call[t] # "find"
    /\ ~AlreadyEqual(t)
    /\ pc' = [pc EXCEPT ![t] = "cas"]
    /\ IF SetsPosition(t)
       THEN /\ prev' = [prev EXCEPT ![t] = cur[t]]
            /\ succ' = [succ EXCEPT ![t] = next[cur[t]]]
       ELSE UNCHANGED <<prev, succ>>
    /\ IF node[t] = Null
       THEN \E n \in Free : /\ node' = [node EXCEPT ![t] = n]
                            /\ value' = [value EXCEPT ![n] = arg[t]]
       ELSE UNCHANGED <<node, value>>
    /\ UNCHANGED <<next, call, arg, cur, equal, result, before>>

\* The CAS of prev_node->next
CasMatches(t) == next[prev[t]] = succ[t]

\* new_node->next
NewNext_Null(t) == Null
NewNext(t) == succ[t]

InsertCas(t) ==
    /\ pc[t] = "cas"
    /\ CasMatches(t)
    /\ next' = [next EXCEPT ![node[t]] = NewNext(t), ![prev[t]] = node[t]]
    /\ Return(t, "inserted")
    /\ UNCHANGED <<value, arg, before>>

InsertCasFails(t) ==
    /\ pc[t] = "cas"
    /\ ~CasMatches(t)
    /\ next' = [next EXCEPT ![node[t]] = NewNext(t)]
    /\ Begin(t, "retry", arg[t], prev[t])
    /\ UNCHANGED <<value, node, prev, succ, result, before>>

Step(t) == \/ SearchStep(t) \/ SearchReturn(t)
           \/ InsertPresent(t) \/ InsertPosition(t)
           \/ InsertCas(t) \/ InsertCasFails(t)

ListNext == \E t \in Thread :
                \/ Step(t)
                \/ \E k \in Key : InsertCall(t, k) \/ SearchCall(t, k)

ListSpec == ListInit /\ [][ListNext]_listVars

-----------------------------------------------------------------------------
(* Properties *)

\* The list is a set except for its first key: two nodes with one key are
\* both in a prefix of copies of that key, which Insert does not see because
\* SearchFrom ignores a match behind head.
UniqueExceptFirst ==
    \A i, j \in DOMAIN Nodes :
        i < j /\ value[Nodes[i]] = value[Nodes[j]]
            => \A m \in 1 .. j : value[Nodes[m]] = value[Nodes[j]]

\* Insert never reports a key that is not in the list; the node of an Insert
\* that returned true carries it.
InsertAnswers ==
    \A t \in Thread : result[t] \in {"inserted", "present"} /\ pc[t] = "idle"
                         => arg[t] \in KeysOf(Nodes)

\* Search misses no key that was in the list when it began, except the first
\* key of the list, which it always misses.
MissesOnlyFirst ==
    \A t \in Thread :
        result[t] = "missing" /\ pc[t] = "idle" /\ arg[t] \in before[t]
            => arg[t] = value[Nodes[1]]

\* The three together
AnswersFitList == ListTypeOK /\ UniqueExceptFirst /\ InsertAnswers /\ MissesOnlyFirst

\* A node that Insert linked stays reachable from head, in the same order,
\* whatever the CASes of other threads do.  An Insert whose first CAS failed
\* keeps the stale prev_node and next_node and can never link its node any
\* more.
LinksStay ==
    [][/\ \A i, j \in DOMAIN Nodes : i < j =>
            \E x, y \in DOMAIN Nodes' : x < y /\ Nodes'[x] = Nodes[i] /\ Nodes'[y] = Nodes[j]
       /\ \A t \in Thread : call[t] = "retry" => node[t] \notin ToSet(Nodes')]_listVars

=============================================================================
