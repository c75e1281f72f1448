---------------------------- MODULE MCTimedLRU ----------------------------
(* TimedLRU for TLC. *)
EXTENDS TimedLRU, TLC

CONSTANTS t1, t2, k1, k2, k3, k4

MCThread == {t1, t2}
MCKey    == {k1, k2, k3, k4}

Symmetric == Permutations(MCThread) \cup Permutations(MCKey)
=============================================================================
