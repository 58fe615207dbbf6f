--------------------------- MODULE RouteGovernance ---------------------------
(***************************************************************************)
(* The waypoint rules of als-extensions/logic_discovery/                   *)
(* route_governance.py with one API write on a trip at a time: an insert,  *)
(* an update of `seq` or a delete is one transaction, in which the rule    *)
(* renumbers the siblings before the commit.                               *)
(*                                                                         *)
(* Two facts of the middleware, which is not in this repository, are taken *)
(* from the module's docstring: a sibling the rule assigns to is written   *)
(* by the same commit, and that write does not fire the rule again.        *)
(***************************************************************************)
EXTENDS WaypointOrder

CONSTANTS
  InitialSeq,  \* the stops the trip was planned with, and their numbers
  Slots        \* the slots clients name in a move: from lists that may be out of date

ASSUME InitialSeqAssumption ==
  /\ DOMAIN InitialSeq \subseteq Waypoints
  /\ IsFiniteSet(DOMAIN InitialSeq)
  /\ InitialSeq \in [DOMAIN InitialSeq -> Int]
  /\ Dense(InitialSeq)
  /\ Slots \subseteq Int

VARIABLES
  seq,         \* the committed rows of `waypoint` of the trip: id -> seq
  used,        \* the ids that were ever given to a row
  beyond       \* history: since the last delete, a stop was moved to no slot of the trip

vars == <<seq, used, beyond>>

Rows == DOMAIN seq

Init ==
  /\ seq = InitialSeq
  /\ used = DOMAIN InitialSeq
  /\ beyond = FALSE

\* POST: _waypoint_place runs before the new row is flushed and overrides the
\* slot the client hinted at.
InsertWaypoint(w) ==
  /\ w \in Waypoints \ used
  /\ \E k \in PlaceSlots(seq, w) :
       seq' = Overlay(ShiftForInsert(seq, w, k), [x \in {w} |-> k])
  /\ used' = used \cup {w}
  /\ UNCHANGED beyond

\* PATCH {seq}: _waypoint_reorder shifts the stops between the row's old slot
\* and the one the client names.  The rule does not compare it with the number
\* of stops: a page that still shows a deleted stop names slot N + 1.
MoveWaypoint(w, k) ==
  /\ w \in Rows
  /\ k # seq[w]
  /\ seq' = Overlay(ShiftForMove(Siblings(seq, w), seq[w], k), [x \in {w} |-> k])
  /\ beyond' = (beyond \/ k \notin 1..Cardinality(Rows))
  /\ UNCHANGED used

\* DELETE: _waypoint_densify runs after the row is gone.
DeleteWaypoint(w) ==
  /\ w \in Rows
  /\ seq' = Renumber(Siblings(seq, w))
  /\ beyond' = FALSE
  /\ UNCHANGED used

Next ==
  \E w \in Waypoints :
    \/ InsertWaypoint(w)
    \/ \E k \in Slots : MoveWaypoint(w, k)
    \/ DeleteWaypoint(w)

Spec == Init /\ [][Next]_vars

-----------------------------------------------------------------------------
\* The trip's rows were created once each; their numbers can be any.
TypeOK ==
  /\ used \subseteq Waypoints
  /\ IsFiniteSet(used)
  /\ Rows \subseteq used
  /\ seq \in [Rows -> Int]
  /\ beyond \in BOOLEAN

\* route_governance.py: "waypoint.seq is a contiguous, gap-free 1..N ordering per
\* trip".  It is, from one delete to the next, until somebody moves a stop to a
\* slot that the trip does not have; and the next delete repairs that.
DenseUnlessBeyond == beyond \/ Dense(seq)

\* The rules implement the list the driver edits, which a page sorts by seq
\* whatever the gaps: one gesture inserts, moves or removes one stop and leaves
\* the others in their order, also a move to a slot of a list that is out of date.
List == INSTANCE TripRoute WITH
          route <- Listed(seq), InitialRoute <- Listed(InitialSeq)

ImplementsList == List!Spec
=============================================================================
