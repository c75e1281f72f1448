---------------------------- MODULE MCQueuedLRU ----------------------------
(* QueuedLRU for TLC. *)
EXTENDS QueuedLRU, TLC

CONSTANTS t1, t2, t3, k1, k2, k3

MCThread == {t1, t2, t3}
MCKey    == {k1, k2, k3}

Symmetric == Permutations(MCThread) \cup Permutations(MCKey)
=============================================================================
