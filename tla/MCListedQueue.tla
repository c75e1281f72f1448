--------------------------- MODULE MCListedQueue ---------------------------
(* ListedQueue for TLC: the nodes are interchangeable, and so are threads   *)
(* that play the same role.                                                *)
EXTENDS ListedQueue, TLC

CONSTANTS n1, n2, n3, a, b, c

MCNodes3 == {n1, n2, n3}
ABC == {a, b, c}

AllSymmetry  == Permutations(MCNodes3) \cup Permutations(ABC)
=============================================================================
