------------------------------ MODULE MCRWLock ------------------------------
(* RWLock for TLC: three threads, a sign bit just large enough for them. *)
EXTENDS RWLock, TLC

CONSTANTS t1, t2, t3

MCProc == {t1, t2, t3}
MCBit  == 4
=============================================================================
