------------------------------- MODULE Arrays -------------------------------
(* What the models of loops over arrays share: an array a[0 .. n - 1] of    *)
(* the code is a sequence, and `for' is a fold over the values of its       *)
(* variable.                                                                *)
EXTENDS Integers, Sequences, SequencesExt

Up(m, n)   == [i \in 1 .. (n - m + 1) |-> m + i - 1]
Down(m, n) == [i \in 1 .. (m - n + 1) |-> m - i + 1]

For(range, a, Body(_, _)) == FoldLeft(Body, a, range)

Swap(a, i, j) == [a EXCEPT ![i] = a[j], ![j] = a[i]]

\* All sequences of m to n members of S
SeqsOf(S, m, n) == UNION {[1 .. k -> S] : k \in m .. n}
=============================================================================
