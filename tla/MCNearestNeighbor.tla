------------------------- MODULE MCNearestNeighbor -------------------------
(***************************************************************************)
(* Up to five stops with and without origins and destinations, in every    *)
(* order, lying at three places of a road so that many are equally near.   *)
(* Some numberings leave a slot out, as a race of deletes can.             *)
(***************************************************************************)
EXTENDS NearestNeighbor, TLC

CONSTANTS o1, o2, d3, d4, f5, x6

MCWaypoints == {o1, o2, d3, d4, f5, x6}

MCStopType == [w \in Waypoints |->
                 CASE w \in {o1, o2} -> ORIGIN
                   [] w \in {d3, d4} -> DESTINATION
                   [] OTHER          -> INTERMEDIATE]

Rowsets == {{o1, d3, f5, x6}, {o1, o2, d3, f5}, {o1, d3, d4, f5}, {d3, f5, x6},
            {o1, f5, x6}, {o1, d3}, {d3}}

\* The numberings of the rows by different numbers, at most one of 1..N unused.
MCTrips ==
  UNION {{s \in [R -> 1..Cardinality(R) + 1] : Unique(s)} : R \in Rowsets}
    \cup {s \in [{o1, o2, d3, f5, x6} -> 1..5] : Unique(s)}

Gap(a, b) == IF a < b THEN b - a ELSE a - b

MCMaps ==
  {[v \in Waypoints |-> [w \in Waypoints |-> Gap(place[v], place[w])]] :
     place \in {f \in [Waypoints -> 0..2] : f[o1] = 0}}
=============================================================================
