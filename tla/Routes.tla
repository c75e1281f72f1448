------------------------------- MODULE Routes -------------------------------
(***************************************************************************)
(* Dijkstra.cpp, Floyd.cpp and Kruskal.cpp of c++/algos.  A graph is the   *)
(* matrix g of its edges' weights, INF where there is none.                *)
(***************************************************************************)
EXTENDS Arrays, FiniteSets

CONSTANT INF
ASSUME INFAssumption == INF \in Nat

Vertices(g) == 1 .. Len(g)

(* Dijkstra: `u' is the nearest vertex outside the set.  When there is none *)
(* below INF it keeps its last value, whose edges have been relaxed before; *)
(* if there never was one, it is read before it is written.                 *)
Nearest(open, dist, u) ==
    LET near == {j \in open : dist[j] < INF}
    IN  IF near = {} THEN u
        ELSE CHOOSE j \in near : /\ \A k \in near : dist[j] <= dist[k]
                                 /\ \A k \in near : k < j => dist[j] < dist[k]

Relax_Hops(dist, g, u, j) == IF 1 + g[u][j] < dist[j] THEN 1 + g[u][j] ELSE dist[j]
Relax(dist, g, u, j) == IF dist[u] + g[u][j] < dist[j] THEN dist[u] + g[u][j] ELSE dist[j]

DijkstraStep(s, g) ==
    LET u    == Nearest(s.open, s.dist, s.u)
        open == s.open \ {u}
    IN  [u |-> u, open |-> open,
         dist |-> [j \in Vertices(g) |-> IF j \in open THEN Relax(s.dist, g, u, j) ELSE s.dist[j]],
         path |-> [j \in Vertices(g) |-> IF j \in open /\ Relax(s.dist, g, u, j) < s.dist[j]
                                         THEN u ELSE s.path[j]]]

Dijkstra(g, v) ==
    For(Up(1, Len(g)),
        [u |-> v, open |-> Vertices(g) \ {v}, dist |-> g[v],
         path |-> [i \in Vertices(g) |-> IF i # v /\ g[v][i] < INF THEN v ELSE -1]],
        LAMBDA s, i : DijkstraStep(s, g))

\* u has a value when the first search of the loop finds a vertex.
Starts(g, v) == \E j \in Vertices(g) \ {v} : g[v][j] < INF

(* Floyd: Path[i][j] is a vertex between i and j, -1 for an edge. *)
Through(s, k, i, j) == IF s.A[i][j] > s.A[i][k] + s.A[k][j]
                       THEN [A |-> [s.A EXCEPT ![i][j] = s.A[i][k] + s.A[k][j]],
                             Path |-> [s.Path EXCEPT ![i][j] = k]]
                       ELSE s

Floyd(g) ==
    LET n == Len(g)
    IN  For(Up(1, n), [A |-> g, Path |-> [i \in 1 .. n |-> [j \in 1 .. n |-> -1]]], LAMBDA s, k :
            For(Up(1, n), s, LAMBDA r, i :
                For(Up(1, n), r, LAMBDA p, j : Through(p, k, i, j))))

(* Kruskal: road[1], road[2], ... in the order they are given; v[a] is the  *)
(* parent of a.  The loop ends after n - 1 roads, whether it has taken them *)
(* or not.  It neither sorts the roads nor prepares v, a global array whose *)
(* members are 0 when the program starts and what the call before left when *)
(* it is called again: v is a parameter here, and comes back.               *)
RECURSIVE GetRoot(_, _)
GetRoot(v, a) == IF v[a] = a THEN a ELSE GetRoot(v, v[a])

TakeRoad(s, road) == LET a == GetRoot(s.v, road.a)
                         b == GetRoot(s.v, road.b)
                     IN  IF a = b THEN s ELSE [v |-> [s.v EXCEPT ![a] = b], sum |-> s.sum + road.w]

Kruskal(v, n, roads) ==
    For(Up(1, n - 1), [v |-> v, sum |-> 0], LAMBDA s, i : TakeRoad(s, roads[i]))
=============================================================================
