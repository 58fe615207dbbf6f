------------------------------ MODULE TripRoute ------------------------------
(***************************************************************************)
(* What the route editor promises: a trip's stops are a list, and a        *)
(* gesture of a client inserts one stop, moves one stop or removes one     *)
(* stop of it, leaving the others in the order they had.  There are no     *)
(* slot numbers here, so no gaps and no collisions to speak of.            *)
(***************************************************************************)
EXTENDS Integers, SequencesExt

CONSTANTS
  Waypoints,   \* the ids a stop can have
  InitialRoute \* the stops the trip was planned with, in order

VARIABLE route \* the stops of the trip, first to last

Stops == {route[i] : i \in 1..Len(route)}

Init == route = InitialRoute

\* A new stop appears somewhere in the list.
InsertStop ==
  \E w \in Waypoints \ Stops, i \in 1..Len(route) + 1 :
    route' = InsertAt(route, i, w)

\* One stop of the list changes place.
MoveStop ==
  \E i, j \in 1..Len(route) :
    route' = InsertAt(RemoveAt(route, i), j, route[i])

\* One stop leaves the list.
RemoveStop == \E i \in 1..Len(route) : route' = RemoveAt(route, i)

Next == InsertStop \/ MoveStop \/ RemoveStop

Spec == Init /\ [][Next]_route
=============================================================================
