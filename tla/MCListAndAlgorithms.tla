------------------------- MODULE MCListAndAlgorithms -------------------------
(***************************************************************************)
(* LockFreeList and Algorithms, whose properties are all about safety, for *)
(* TLC.  They share nothing: a behaviour is one of the list, with two      *)
(* threads, two keys and four nodes, or picks an input of an algorithm.    *)
(* Algorithms comes first, so that TLC meets, and compares, the field kind *)
(* of a JSON value before its field value.                                 *)
(***************************************************************************)
EXTENDS Algorithms, LockFreeList

CONSTANTS t1, t2, k1, k2, n1, n2, n3, n4

MCThread == {t1, t2}
MCKey    == {k1, k2}
MCNode4  == {n1, n2, n3, n4}

\* The algorithms have none of the list's constants in their inputs.
Symmetric == Permutations(MCThread) \cup Permutations(MCKey) \cup Permutations(MCNode4)

VARIABLE part   \* "list" or "algorithms": whose behaviour this is

PartInit == part \in {"list", "algorithms"} /\ ListInit /\ Init

\* With its input picked an algorithm is done; the list never is, so that a
\* deadlock would be one of the list.
Done == topic # "none" /\ UNCHANGED vars

PartNext == /\ \/ part = "list" /\ ListNext /\ UNCHANGED vars
               \/ part = "algorithms" /\ (Next \/ Done) /\ UNCHANGED listVars
            /\ UNCHANGED part

PartSpec == PartInit /\ [][PartNext]_<<part, listVars, vars>>
=============================================================================
