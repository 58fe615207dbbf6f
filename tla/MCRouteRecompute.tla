------------------------- MODULE MCRouteRecompute -------------------------
(***************************************************************************)
(* A trip planned as origin, fuel, rest, destination along a road on which *)
(* the fuel and the rest stop are not in the nearest-neighbour order, and  *)
(* stops that can be added to it.                                          *)
(***************************************************************************)
EXTENDS RouteRecompute, TLC

CONSTANTS o1, f2, r3, d4, x5, p1, p2, g1, g2, i1, c1

MCWaypoints == {o1, f2, r3, d4, x5}

MCFewWaypoints == {o1, f2, r3, d4}

MCStopType == [w \in Waypoints |-> CASE w = o1 -> ORIGIN
                                     [] w = d4 -> DESTINATION
                                     [] OTHER  -> INTERMEDIATE]

MCInitialSeq == o1 :> 1 @@ f2 :> 2 @@ r3 :> 3 @@ d4 :> 4

MCShortTrip == o1 :> 1 @@ f2 :> 2 @@ d4 :> 3

Mile == o1 :> 0 @@ f2 :> 2 @@ r3 :> 1 @@ d4 :> 4 @@ x5 :> 3

MCMiles ==
  [v \in Waypoints |-> [w \in Waypoints |->
     IF Mile[v] < Mile[w] THEN Mile[w] - Mile[v] ELSE Mile[v] - Mile[w]]]

MCOnePage == g1 :> p1 @@ g2 :> p1

MCOneGesture == g1 :> p1
=============================================================================
