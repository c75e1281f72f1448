---------------------------- MODULE MCPoolAndMap ----------------------------
(***************************************************************************)
(* WorkerPool and HashMap, the two parts of c++/utils/cache whose calls    *)
(* have to come back, for TLC.  They share nothing: a behaviour is one of  *)
(* the pool, with two workers and two submitters, or one of the map, where *)
(* two keys share a bucket and a third has its own.                        *)
(***************************************************************************)
EXTENDS WorkerPool, HashMap, TLC

CONSTANTS s1, s2, t1, t2, k1, k2, k3, n1, n2, n3, b1, b2

MCSubmitter == {s1, s2}

MCThread == {t1, t2}
MCKey    == {k1, k2, k3}
MCNode   == {n1, n2, n3}
MCBucket == {b1, b2}
MCHash   == (k1 :> b1) @@ (k2 :> b1) @@ (k3 :> b2)

VARIABLE part   \* "pool" or "map": whose behaviour this is

PartInit == part \in {"pool", "map"} /\ Init /\ MapInit

PartNext == /\ \/ part = "pool" /\ Next /\ UNCHANGED mapVars
               \/ part = "map" /\ MapNext /\ UNCHANGED vars
            /\ UNCHANGED part

\* The fairness of FairSpec and of MapFairSpec
PartFairness ==
    /\ WF_vars(part = "pool" /\ OwnerStep)
    /\ \A i \in Worker : WF_vars(part = "pool" /\ WorkerStep(i))
    /\ \A s \in Submitter : WF_vars(part = "pool" /\ Submit(s))
    /\ \A t \in Thread : WF_mapVars(part = "map" /\ Moves(t))

PartSpec == PartInit /\ [][PartNext]_<<part, vars, mapVars>> /\ PartFairness
=============================================================================
