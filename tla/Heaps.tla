-------------------------------- MODULE Heaps --------------------------------
(***************************************************************************)
(* CustomHeap of c++/utils/custom_heap.hpp and CustomMaxHeap of            *)
(* custom_max_heap.hpp with the merge of sorted lists their test makes of  *)
(* them, and MinHeap of scripts/python/minheap.py, which keeps the largest *)
(* of the items it is given.  A heap is the sequence of the elements in    *)
(* use; an element is a record with a value.                               *)
(***************************************************************************)
EXTENDS Arrays

\* The comparison of custom_heap_test.cpp: less is nearer to the root.
Compare(x, y) == x.value > y.value

SwapIf(h, i, j) == IF j <= Len(h) /\ Compare(h[i], h[j]) THEN Swap(h, i, j) ELSE h

\* The child of i that build_heap compares with it
Child(h, i) == IF 2 * i + 1 <= Len(h) /\ Compare(h[2 * i], h[2 * i + 1]) THEN 2 * i + 1 ELSE 2 * i

\* One pass from the last parent to the root; what is swapped down stays there.
BuildHeap(h) == For(Down((Len(h) + 1) \div 2, 1), h, LAMBDA s, i : SwapIf(s, i, Child(s, i)))

\* fix_heap compares the left child with the node, not with its sibling: the
\* right child is looked at only when the left one is the larger, and the
\* walk ends there.
RECURSIVE FixHeap(_, _)
FixHeap(h, i) ==
    IF i > Len(h) THEN h
    ELSE IF 2 * i + 1 <= Len(h) /\ Compare(h[2 * i], h[i])
         THEN LET s == SwapIf(h, i, 2 * i + 1) IN IF s = h THEN h ELSE FixHeap(s, 2 * i + 1)
         ELSE FixHeap(SwapIf(h, i, 2 * i), 2 * i)

Insert(h, capacity, item) ==
    IF Len(h) < capacity
    THEN IF Len(h) + 1 = capacity THEN BuildHeap(Append(h, item)) ELSE Append(h, item)
    ELSE FixHeap([h EXCEPT ![1] = item], 1)

\* The root is replaced by the last element.
ResizeHeap(h) == LET n == Len(h) - 1
                 IN  IF n = 0 THEN <<>> ELSE BuildHeap([i \in 1 .. n |-> IF i = 1 THEN h[n + 1] ELSE h[i]])

\* CustomMaxHeap does the same, but its fix_heap ends at every right child, and
\* its resize_heap lowers the capacity: an insert after it replaces the root.
RECURSIVE FixMaxHeap(_, _)
FixMaxHeap(h, i) ==
    IF i > Len(h) THEN h
    ELSE IF 2 * i + 1 <= Len(h) /\ Compare(h[2 * i], h[i]) THEN SwapIf(h, i, 2 * i + 1)
    ELSE FixMaxHeap(SwapIf(h, i, 2 * i), 2 * i)

MaxInsert(h, item) == FixMaxHeap([h EXCEPT ![1] = item], 1)

(* main of custom_heap_test.cpp: the heap holds the next element of every   *)
(* list; `out' is what has been printed.                                    *)
Item(lists, l, i) == [value |-> lists[l][i], index |-> l]

RECURSIVE MergeWhile(_, _, _, _, _)
MergeWhile(lists, h, cur, out, max) ==
    IF h = <<>> THEN out
    ELSE LET l == h[1].index
             i == cur[l] + 1
             item == Item(lists, l, i)
         IN  MergeWhile(lists,
                        IF i > Len(lists[l]) THEN ResizeHeap(h)
                        ELSE IF max THEN MaxInsert(h, item)
                        ELSE Insert(h, Len(lists), item),
                        [cur EXCEPT ![l] = i],
                        Append(out, h[1].value), max)

\* `max': with a CustomMaxHeap
MergeLists(lists, max) ==
    MergeWhile(lists,
               For(Up(1, Len(lists)), <<>>, LAMBDA h, l : Insert(h, Len(lists), Item(lists, l, 1))),
               [l \in DOMAIN lists |-> 1], <<>>, max)

-----------------------------------------------------------------------------
(* minheap.py: build_heap is the one above, fix_heap sinks the root.        *)
RECURSIVE Sink(_, _)
Sink(h, i) == IF i > Len(h) THEN h ELSE Sink(SwapIf(h, i, Child(h, i)), Child(h, i))

InsertLarge(h, capacity, item) ==
    IF Len(h) < capacity THEN Insert(h, capacity, item)
    ELSE IF item.value > h[1].value THEN Sink([h EXCEPT ![1] = item], 1) ELSE h

\* What a MinHeap of that capacity holds after the values of `s'
Largest(s, capacity) ==
    LET h == For(Up(1, Len(s)), <<>>, LAMBDA r, i : InsertLarge(r, capacity, [value |-> s[i]]))
    IN  [i \in DOMAIN h |-> h[i].value]
=============================================================================
