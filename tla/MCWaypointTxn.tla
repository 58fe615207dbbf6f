---------------------------- MODULE MCWaypointTxn ----------------------------
(***************************************************************************)
(* A trip planned as origin, fuel, destination, and a stop that can be     *)
(* added to it.                                                            *)
(***************************************************************************)
EXTENDS WaypointTxn, TLC

CONSTANTS o1, f2, d3, x4

MCWaypoints == {o1, f2, d3, x4}

MCStopType == [w \in Waypoints |->
                 CASE w = o1 -> ORIGIN
                   [] w = d3 -> DESTINATION
                   [] OTHER  -> INTERMEDIATE]

MCInitialSeq == o1 :> 1 @@ f2 :> 2 @@ d3 :> 3
=============================================================================
