--------------------------- MODULE RouteOptimizer ---------------------------
(***************************************************************************)
(* nearest_neighbor_order of geospatial/app/optimize.py, as the set of     *)
(* numberings it can give to a trip's stops.  The function works on the    *)
(* list of stops ordered by seq; its result is written back as seq 1..N.   *)
(***************************************************************************)
EXTENDS WaypointOrder

\* The ends it anchors: the first origin and the last destination, or the ends
\* of the list where there is none.
FirstStop(s) ==
  LET origins == {w \in DOMAIN s : StopType[w] = ORIGIN}
      from    == IF origins = {} THEN DOMAIN s ELSE origins
  IN  CHOOSE w \in from : \A v \in from : s[w] <= s[v]

FinalStop(s) ==
  LET from == IF Destinations(s) = {} THEN DOMAIN s ELSE Destinations(s)
  IN  CHOOSE w \in from : \A v \in from : s[v] <= s[w]

NothingToOrder(s) == Cardinality(DOMAIN s) < 3 \/ FirstStop(s) = FinalStop(s)

\* Every numbering that keeps the two ends where they must be; which of them
\* comes out depends on where the stops are.
OptimizedOrders(s) ==
  LET N == Cardinality(DOMAIN s)
  IN  IF NothingToOrder(s) THEN {Renumber(s)}
      ELSE {r \in [DOMAIN s -> 1..N] :
              Unique(r) /\ r[FirstStop(s)] = 1 /\ r[FinalStop(s)] = N}

\* min(remaining, key = distance from cur): the nearest one; of several equally
\* near the one that comes first in the list.
NextNearest(miles, s, cur, remaining) ==
  CHOOSE w \in remaining : \A v \in remaining :
    \/ miles[cur][w] < miles[cur][v]
    \/ miles[cur][w] = miles[cur][v] /\ s[w] <= s[v]

\* The numberings in which every stop between the ends is the nearest, to the
\* stop it follows, of those not visited by then.
NearestOrders(s, miles) ==
  {r \in OptimizedOrders(s) :
     \/ NothingToOrder(s)
     \/ LET visited == DOMAIN s \ {FinalStop(s)}
        IN  \A v, w \in visited :
              r[w] = r[v] + 1
              => w = NextNearest(miles, s, v, {x \in visited : r[x] > r[v]})}

\* Do r and s put the same stops in the same order?
SameOrder(r, s) == \A v, w \in DOMAIN s : s[v] < s[w] => r[v] < r[w]
=============================================================================
