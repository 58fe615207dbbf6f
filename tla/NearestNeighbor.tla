-------------------------- MODULE NearestNeighbor --------------------------
(***************************************************************************)
(* The loop of nearest_neighbor_order (geospatial/app/optimize.py), and    *)
(* recompute_route's use of it on a trip nobody else writes to: the stops  *)
(* are read, ordered, written back if the order is a new one, and read     *)
(* again by the next recompute.                                            *)
(***************************************************************************)
EXTENDS RouteOptimizer, Sequences

CONSTANTS
  Trips,       \* the numberings a trip can have to begin with
  Maps         \* the ways the stops can lie: miles[v][w] for every two stops

\* A trip as it is read: rows with distinct numbers, gaps allowed.
Trip(s) ==
  /\ DOMAIN s \subseteq Waypoints
  /\ IsFiniteSet(DOMAIN s)
  /\ s \in [DOMAIN s -> Int]
  /\ Unique(s)

Distances == [Waypoints -> [Waypoints -> Int]]

ASSUME LoopAssumption ==
  /\ \A s \in Trips : Trip(s)
  /\ Maps \subseteq Distances

VARIABLES
  stops,       \* the trip's rows: id -> seq
  miles,       \* the distances, the same throughout
  ordered,     \* the list the function builds
  remaining,   \* the stops between the ends it has still to visit
  pc,          \* where the recompute is
  runs         \* the recomputes that have run to the end: 0, 1, then 2

loopVars == <<stops, miles, ordered, remaining, pc, runs>>

LoopInit ==
  /\ stops \in Trips
  /\ miles \in Maps
  /\ ordered = <<>>
  /\ remaining = {}
  /\ pc = "read"
  /\ runs = 0

\* Too few stops, or one stop at both ends: the list is returned as it is.
KeepOrder ==
  /\ pc = "read"
  /\ NothingToOrder(stops)
  /\ ordered' = AsList(Renumber(stops))
  /\ pc' = "ordered"
  /\ UNCHANGED <<stops, miles, remaining, runs>>

Start ==
  /\ pc = "read"
  /\ ~NothingToOrder(stops)
  /\ ordered' = <<FirstStop(stops)>>
  /\ remaining' = DOMAIN stops \ {FirstStop(stops), FinalStop(stops)}
  /\ pc' = "visiting"
  /\ UNCHANGED <<stops, miles, runs>>

\* Faulty: cur is not advanced, every stop is the nearest to the origin.
VisitFromOrigin ==
  /\ pc = "visiting"
  /\ remaining # {}
  /\ LET next == NextNearest(miles, stops, ordered[1], remaining)
     IN  /\ ordered' = Append(ordered, next)
         /\ remaining' = remaining \ {next}
  /\ UNCHANGED <<stops, miles, pc, runs>>

\* The nearest of the remaining stops to the last one visited.
Visit ==
  /\ pc = "visiting"
  /\ remaining # {}
  /\ LET next == NextNearest(miles, stops, ordered[Len(ordered)], remaining)
     IN  /\ ordered' = Append(ordered, next)
         /\ remaining' = remaining \ {next}
  /\ UNCHANGED <<stops, miles, pc, runs>>

Finish ==
  /\ pc = "visiting"
  /\ remaining = {}
  /\ ordered' = Append(ordered, FinalStop(stops))
  /\ pc' = "ordered"
  /\ UNCHANGED <<stops, miles, remaining, runs>>

\* The numbers _persist_order would write for the list.
Numbering(list) ==
  [w \in DOMAIN stops |-> CHOOSE k \in DOMAIN list : list[k] = w]

\* The new order is written; one that is the order read is not.
Persist ==
  /\ pc = "ordered"
  /\ stops' = IF SameOrder(Numbering(ordered), stops) THEN stops ELSE Numbering(ordered)
  /\ ordered' = <<>>
  /\ pc' = IF runs = 0 THEN "read" ELSE "stop"
  /\ runs' = runs + 1
  /\ UNCHANGED <<miles, remaining>>

LoopNext == KeepOrder \/ Start \/ Visit \/ Finish \/ Persist

LoopSpec == LoopInit /\ [][LoopNext]_loopVars

-----------------------------------------------------------------------------
\* The loop computes what RouteOptimizer says it does: every stop once, the
\* ends anchored, every other stop the nearest of those left.  A second recompute
\* of the same stops finds the order it would write, so several instances that
\* answer one event, or an event answered twice, do not push the stops to and fro
\* (recompute.py's "no recompute feedback loop").
ComputesNearestOrder ==
  pc = "ordered" =>
    /\ Numbering(ordered) \in NearestOrders(stops, miles)
    /\ runs = 1 => SameOrder(Numbering(ordered), stops)
=============================================================================
