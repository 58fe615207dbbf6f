-------------------------- MODULE MCRouteGovernance --------------------------
(***************************************************************************)
(* Five stop ids, a trip planned as origin, fuel, destination, and room    *)
(* for another intermediate stop and a second destination.  A list that is *)
(* out of date has up to as many stops as there ever were.                 *)
(***************************************************************************)
EXTENDS RouteGovernance

CONSTANTS o1, f2, d3, x4, e5

MCWaypoints == {o1, f2, d3, x4, e5}

MCStopType == [w \in MCWaypoints |->
                 CASE w = o1        -> ORIGIN
                   [] w \in {d3, e5} -> DESTINATION
                   [] OTHER         -> INTERMEDIATE]

MCInitialSeq == [w \in {o1, f2, d3} |->
                   CASE w = o1 -> 1 [] w = f2 -> 2 [] w = d3 -> 3]

MCSlots == 1..Cardinality(MCWaypoints)
=============================================================================
