-------------------------------- MODULE Sorts --------------------------------
(***************************************************************************)
(* The sorts of c++/algos/sort, each as a function of the array it is      *)
(* given.  Moving elements up until a place is free for the one that was   *)
(* saved is modelled as swapping it down to that place.  quickSort.cpp     *)
(* does not compile.                                                       *)
(***************************************************************************)
EXTENDS Arrays

(* bubbleSort.cpp *)
BubblePass(a, k) == For(Up(2, k), a, LAMBDA s, j : IF s[j - 1] > s[j] THEN Swap(s, j - 1, j) ELSE s)

RECURSIVE BubbleWhile(_, _)
BubbleWhile(a, k) == LET b == BubblePass(a, k) IN IF b = a THEN a ELSE BubbleWhile(b, k - 1)
BubbleSort(a) == BubbleWhile(a, Len(a))

\* The next pass ends where this one swapped last.
RECURSIVE BubbleWhile2(_, _)
BubbleWhile2(a, flag) ==
    IF flag = 0 THEN a
    ELSE LET swapped == {j \in 2 .. flag : BubblePass(a, j) # BubblePass(a, j - 1)}
         IN  BubbleWhile2(BubblePass(a, flag), IF swapped = {} THEN 0 ELSE Max(swapped) - 1)
BubbleSort2(a) == BubbleWhile2(a, Len(a))

(* insertSort.cpp and shellSort.cpp: a[i] goes back in steps of `gap'. *)
RECURSIVE Back(_, _, _)
Back(a, i, gap) == IF i > gap /\ a[i - gap] > a[i] THEN Back(Swap(a, i - gap, i), i - gap, gap) ELSE a

RECURSIVE BackPastEqual(_, _)
BackPastEqual(a, i) == IF i > 1 /\ a[i - 1] >= a[i] THEN BackPastEqual(Swap(a, i - 1, i), i - 1) ELSE a

InsertSort1(a) == For(Up(2, Len(a)), a, BackPastEqual)
InsertSort2(a) == For(Up(2, Len(a)), a, LAMBDA s, i : Back(s, i, 1))

\* n / 2, n / 4, ... 1
RECURSIVE Gaps(_)
Gaps(n) == IF n < 2 THEN <<>> ELSE <<n \div 2>> \o Gaps(n \div 2)

\* Group by group
ShellSort1(a) ==
    For(Gaps(Len(a)), a, LAMBDA s, gap :
        For(Up(1, gap), s, LAMBDA r, i :
            For(Up(1, (Len(a) - i) \div gap), r, LAMBDA p, m : Back(p, i + m * gap, gap))))

\* All groups together
ShellSort2_HalfOnly(a) ==
    For(IF Len(a) < 2 THEN <<>> ELSE <<Len(a) \div 2>>, a, LAMBDA s, gap :
        For(Up(gap + 1, Len(a)), s, LAMBDA r, j : Back(r, j, gap)))
ShellSort2(a) ==
    For(Gaps(Len(a)), a, LAMBDA s, gap :
        For(Up(gap + 1, Len(a)), s, LAMBDA r, j : Back(r, j, gap)))

(* selectSort.cpp *)
FirstLeast(a, i) == CHOOSE j \in i .. Len(a) : /\ \A k \in i .. Len(a) : a[j] <= a[k]
                                               /\ \A k \in i .. j - 1 : a[j] < a[k]
SelectSort(a) == For(Up(1, Len(a)), a, LAMBDA s, i : Swap(s, i, FirstLeast(s, i)))

(* heapSort.cpp: its "min heap" is a max heap. *)
RECURSIVE FixDown(_, _, _)
FixDown(a, i, n) ==
    LET j == IF 2 * i < n /\ a[2 * i + 1] > a[2 * i] THEN 2 * i + 1 ELSE 2 * i
    IN  IF 2 * i > n THEN a ELSE IF a[j] <= a[i] THEN a ELSE FixDown(Swap(a, i, j), j, n)

MakeHeap(a) == For(Down(Len(a) \div 2, 1), a, LAMBDA s, i : FixDown(s, i, Len(a)))
HeapSort(a) == For(Down(Len(a), 2), MakeHeap(a), LAMBDA s, i : FixDown(Swap(s, i, 1), 1, i - 1))

(* mergeSort.cpp *)
RECURSIVE MergeArray(_, _)
MergeArray(l, r) == IF l = <<>> \/ r = <<>> THEN l \o r
                    ELSE IF Head(l) < Head(r) THEN <<Head(l)>> \o MergeArray(Tail(l), r)
                    ELSE <<Head(r)>> \o MergeArray(l, Tail(r))

RECURSIVE MergeSort(_)
MergeSort(a) == LET mid == (Len(a) + 1) \div 2
                IN  IF Len(a) < 2 THEN a
                    ELSE MergeArray(MergeSort(SubSeq(a, 1, mid)), MergeSort(SubSeq(a, mid + 1, Len(a))))

(* radixSort.cpp: numbers that are not negative, ten buckets per digit *)
RECURSIVE PosCount(_)
PosCount(max) == IF max = 0 THEN 0 ELSE 1 + PosCount(max \div 10)

Distribute(a, pos) == FlattenSeq([d \in 1 .. 10 |->
                          SelectSeq(a, LAMBDA x : (x \div 10 ^ (pos - 1)) % 10 = d - 1)])

RadixSort(a) == For(Up(1, PosCount(Max(Range(a)))), a, Distribute)

\* What each sort makes of the array `a', which is not empty
Sorted(a) == {BubbleSort(a), BubbleSort2(a), InsertSort1(a), InsertSort2(a), ShellSort1(a),
              ShellSort2(a), SelectSort(a), HeapSort(a), MergeSort(a), RadixSort(a)}
=============================================================================
