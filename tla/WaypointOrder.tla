---------------------------- MODULE WaypointOrder ----------------------------
(***************************************************************************)
(* The three reshuffles of als-extensions/logic_discovery/                 *)
(* route_governance.py, as operators on one trip's stops.                  *)
(*                                                                         *)
(* A trip's stops are a function from the rows of `waypoint` that carry    *)
(* the trip's id to their `seq` column.  A rule reads the siblings of the  *)
(* row being written (every other stop of the trip) and assigns new        *)
(* numbers to some of them; here each rule is the function the siblings    *)
(* have become once it has run.                                            *)
(***************************************************************************)
EXTENDS Integers, FiniteSets

CONSTANTS
  Waypoints,   \* the ids a waypoint row can have (UUIDs: never used twice)
  StopType     \* StopType[w]: the stop_type of row w, fixed when it is created

ORIGIN       == "origin"
DESTINATION  == "destination"
INTERMEDIATE == "intermediate"    \* fuel, rest, lunch, load stop, ...

ASSUME StopTypeAssumption ==
  StopType \in [Waypoints -> {ORIGIN, DESTINATION, INTERMEDIATE}]

(***************************************************************************)
(* What "a contiguous, gap-free 1..N ordering" means for the stops s, in   *)
(* its two halves: no two rows share a slot (the database's UNIQUE         *)
(* constraint) and every slot of 1..N is some row's (nothing but the       *)
(* rules sees to that).                                                    *)
(***************************************************************************)
Unique(s) == \A v, w \in DOMAIN s : s[v] = s[w] => v = w

Contiguous(s) ==
  LET N == Cardinality(DOMAIN s)
  IN  /\ \A w \in DOMAIN s : s[w] \in 1..N
      /\ \A k \in 1..N : \E w \in DOMAIN s : s[w] = k

Dense(s) == Unique(s) /\ Contiguous(s)

\* _siblings: the stops of the trip other than the row being written.
Siblings(s, w) == [v \in DOMAIN s \ {w} |-> s[v]]

\* Stops of the trip that are destinations.
Destinations(s) == {w \in DOMAIN s : StopType[w] = DESTINATION}

(***************************************************************************)
(* _waypoint_place.  The slot of the inserted row w: the destination's, if *)
(* w is an intermediate stop and the trip has a destination (with several  *)
(* the query returns them in any order and the rule takes the first);      *)
(* else the slot after the highest one.                                    *)
(***************************************************************************)
LastSlot(s) ==
  IF DOMAIN s = {} THEN 0
  ELSE CHOOSE n \in {s[v] : v \in DOMAIN s} : \A v \in DOMAIN s : s[v] <= n

BeforeDestination(s, w) == StopType[w] = INTERMEDIATE /\ Destinations(s) # {}

\* Faulty: the client's append hint is kept.
PlaceSlotsAppend(s, w) == {LastSlot(s) + 1}

PlaceSlots(s, w) ==
  IF BeforeDestination(s, w) THEN {s[d] : d \in Destinations(s)}
  ELSE {LastSlot(s) + 1}

\* The siblings after the rule has made room at slot k.
ShiftFrom(s, k) == [v \in DOMAIN s |-> IF s[v] >= k THEN s[v] + 1 ELSE s[v]]

\* The siblings after the rule has placed row w at slot k, one of PlaceSlots.
\* An appended row shifts nothing.
ShiftForInsert(s, w, k) == IF BeforeDestination(s, w) THEN ShiftFrom(s, k) ELSE s

\* Faulty: a move down the list leaves the stop at the target slot in place.
ShiftForMoveShort(s, old, new) ==
  [v \in DOMAIN s |->
     IF new <= s[v] /\ s[v] < old THEN s[v] + 1
     ELSE IF old < s[v] /\ s[v] < new THEN s[v] - 1
     ELSE s[v]]

\* Faulty: the stop at the target slot changes places with the moved one.
ShiftForMoveSwap(s, old, new) ==
  [v \in DOMAIN s |-> IF s[v] = new THEN old ELSE s[v]]

(***************************************************************************)
(* _waypoint_reorder.  The siblings after the row that was at slot old has *)
(* been written to slot new: the stops in the crossed range move by one.   *)
(* The rule takes `new` as the client sent it: no bound is applied.        *)
(***************************************************************************)
ShiftForMove(s, old, new) ==
  [v \in DOMAIN s |->
     IF new <= s[v] /\ s[v] < old THEN s[v] + 1
     ELSE IF old < s[v] /\ s[v] <= new THEN s[v] - 1
     ELSE s[v]]

\* Faulty: a delete renumbers nothing.
RenumberNothing(s) == s

(***************************************************************************)
(* _waypoint_densify.  The siblings of a deleted row, renumbered 1..N in   *)
(* the order of their present numbers.                                     *)
(***************************************************************************)
Ahead(s, w) == {v \in DOMAIN s : s[v] < s[w]}

Renumber(s) == [w \in DOMAIN s |-> Cardinality(Ahead(s, w)) + 1]

\* The rows a rule really writes: the ORM sends an UPDATE for these only.
Changed(before, after) ==
  {w \in DOMAIN after : w \notin DOMAIN before \/ after[w] # before[w]}

\* The stops s overlaid with the new numbers in p, which may add rows.
Overlay(s, p) ==
  [w \in DOMAIN s \cup DOMAIN p |-> IF w \in DOMAIN p THEN p[w] ELSE s[w]]

(***************************************************************************)
(* The stops as the list the driver sees: slot k holds the row numbered k. *)
(* Meaningful when s is Dense.                                             *)
(***************************************************************************)
AsList(s) == [k \in 1..Cardinality(DOMAIN s) |-> CHOOSE w \in DOMAIN s : s[w] = k]

\* The stops as a page sorts them: by seq, whatever the gaps.
Listed(s) == AsList(Renumber(s))
=============================================================================
