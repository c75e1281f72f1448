----------------------------- MODULE SearchTree -----------------------------
(***************************************************************************)
(* c++/algos/BST.cpp.  A tree is a record of its nodes' values and links   *)
(* and of its root; a node is the number of its creation, 0 is NULL.  A    *)
(* node that is deleted keeps its links in the model and is in `freed'.    *)
(***************************************************************************)
EXTENDS Arrays, FiniteSets

EmptyTree == [val |-> <<>>, left |-> <<>>, right |-> <<>>, root |-> 0, freed |-> {}]

ChildOf(t, x, v) == IF v < t.val[x] THEN t.left[x] ELSE t.right[x]

\* The node of value v below x, or 0
RECURSIVE BSTSearch(_, _, _)
BSTSearch(t, x, v) == IF x = 0 THEN 0 ELSE IF t.val[x] = v THEN x ELSE BSTSearch(t, ChildOf(t, x, v), v)

\* The node under which v would be inserted
RECURSIVE ParentFor(_, _, _)
ParentFor(t, x, v) == IF ChildOf(t, x, v) = 0 THEN x ELSE ParentFor(t, ChildOf(t, x, v), v)

BSTInsert(t, v) ==
    LET n    == Len(t.val) + 1
        more == [t EXCEPT !.val = Append(@, v), !.left = Append(@, 0), !.right = Append(@, 0)]
        y    == ParentFor(t, t.root, v)
    IN  IF t.root = 0 THEN [more EXCEPT !.root = n]
        ELSE IF BSTSearch(t, t.root, v) # 0 THEN t
        ELSE IF v < t.val[y] THEN [more EXCEPT !.left[y] = n] ELSE [more EXCEPT !.right[y] = n]

BSTCreate(a) == For(Up(1, Len(a)), EmptyTree, LAMBDA t, i : BSTInsert(t, a[i]))

RECURSIVE InOrder(_, _)
InOrder(t, x) == IF x = 0 THEN <<>> ELSE InOrder(t, t.left[x]) \o <<t.val[x]>> \o InOrder(t, t.right[x])

\* A node with two children gets the value of the last node of its left
\* subtree, which is unlinked and never freed.  Any other node is freed, and
\* its parent keeps pointing to it: `node' is a copy of that pointer.
RECURSIVE Rightmost(_, _)
Rightmost(t, q) == IF t.right[t.right[q]] = 0 THEN q ELSE Rightmost(t, t.right[q])

DeleteHelper_WrongSide(t, x) ==
    LET l == t.left[x]
    IN  IF l = 0 \/ t.right[x] = 0 THEN [t EXCEPT !.freed = @ \cup {x}]
        ELSE IF t.right[l] = 0 THEN [t EXCEPT !.val[x] = t.val[l], !.left[x] = t.right[l]]
        ELSE LET q == Rightmost(t, l)
             IN  [t EXCEPT !.val[x] = t.val[t.right[q]], !.right[q] = t.left[t.right[q]]]
DeleteHelper(t, x) ==
    LET l == t.left[x]
    IN  IF l = 0 \/ t.right[x] = 0 THEN [t EXCEPT !.freed = @ \cup {x}]
        ELSE IF t.right[l] = 0 THEN [t EXCEPT !.val[x] = t.val[l], !.left[x] = t.left[l]]
        ELSE LET q == Rightmost(t, l)
             IN  [t EXCEPT !.val[x] = t.val[t.right[q]], !.right[q] = t.left[t.right[q]]]

BSTDelete(t, v) == LET x == BSTSearch(t, t.root, v) IN IF x = 0 THEN t ELSE DeleteHelper(t, x)
=============================================================================
