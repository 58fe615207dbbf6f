--------------------------- MODULE RouteRecompute ---------------------------
(***************************************************************************)
(* One trip end to end: drivers edit its stops (TripWaypointsPage.tsx),    *)
(* the API writes them under route_governance.py and emits change events   *)
(* (fleet_events.py), and every geospatial instance answers each event by  *)
(* recomputing the trip (recompute_consumer.py, recompute.py): reordering  *)
(* it unless it is route_locked, and replacing its `route` row.  A POST of *)
(* /route/recompute runs the same function in a thread of its own, beside  *)
(* the consumer's.                                                         *)
(*                                                                         *)
(* A row that is written stays locked until its transaction ends, and rows *)
(* are written one by one.  The middleware emits events when the rows are  *)
(* flushed, which is before the commit.  An API write reads the row and    *)
(* its siblings in one step; WaypointTxn takes the two queries apart.      *)
(***************************************************************************)
EXTENDS RouteOptimizer, SequencesExt

CONSTANTS
  Gestures,    \* the drivers' gestures, each made once
  Pages,       \* the open "Edit waypoints" pages of the trip
  PageOf,      \* PageOf[g]: the page gesture g is made on
  Kinds,       \* what gestures there are: a subset of AllKinds
  Instances,   \* the geospatial processes, one consumer thread each
  Calls,       \* the POSTs of /route/recompute, one thread each
  SiblingsTell,\* whether rules also fire for the siblings a rule has changed
  MaxTurns,    \* bound: the gestures and calls that are made, and the faults
  InitialSeq,  \* the stops the trip was planned with, and their numbers
  Miles,       \* Miles[v][w]: how far stop w is from stop v
  None         \* no row

AllKinds == {"add", "move", "remove", "unlock"}

Workers == Instances \cup Calls    \* the threads that recompute
Actors  == Gestures \cup Workers   \* those who write stops

ASSUME RecomputeAssumption ==
  /\ PageOf \in [Gestures -> Pages]
  /\ Kinds \subseteq AllKinds
  /\ MaxTurns \in Nat
  /\ SiblingsTell \in BOOLEAN
  /\ Instances \cap Calls = {}
  /\ Gestures \cap Workers = {}
  /\ DOMAIN InitialSeq \subseteq Waypoints
  /\ IsFiniteSet(DOMAIN InitialSeq)
  /\ InitialSeq \in [DOMAIN InitialSeq -> Int]
  /\ Dense(InitialSeq)
  /\ None \notin Waypoints

VARIABLES
  seq,      \* the committed rows of `waypoint` of the trip: id -> seq
  used,     \* the ids that were ever given to a row
  locked,   \* trip.route_locked; a trip can be locked already
  routes,   \* the rows of `route` of the trip: who inserted them, the stops in order
  made,     \* how many route rows were ever inserted
  pc,       \* pc[g]: where gesture g is
  req,      \* req[g]: what g asks for: the kind, the row and its new slot
  lockTxn,  \* lockTxn[g]: the server's transaction that locks the trip for g
  plan,     \* plan[g]: the numbers g's transaction stores: row -> seq
  view,     \* view[p]: the list of stops page p shows
  backlog,  \* backlog[i]: events instance i has not polled
  stage,    \* stage[i]: where the recompute of worker i is
  saw,      \* saw[i]: the route_locked it read
  rows,     \* rows[i]: the stops it read
  order,    \* order[i]: the numbers it writes: row -> seq, none if unchanged
  seen,     \* seen[i]: the route rows its DELETE finds
  held,     \* held[a]: the stops actor a has written and not committed
  faults,   \* the faults so far
  late      \* history: late[i]: reorders i committed since the trip was locked

tripVars   == <<seq, used, locked, routes, made>>
pageVars   == <<pc, req, lockTxn, plan, view>>
workerVars == <<stage, saw, rows, order, seen>>
vars == <<tripVars, pageVars, backlog, workerVars, held, faults, late>>

Rows   == DOMAIN seq
NoRows == [w \in {} |-> 0]
NoReq  == [kind |-> "none", row |-> None, slot |-> 0]

Init ==
  /\ seq = InitialSeq
  /\ used = DOMAIN InitialSeq
  /\ locked \in BOOLEAN
  /\ routes = {[no |-> 0, by |-> None, stops |-> Listed(InitialSeq)]}
  /\ made = 0
  /\ pc = [g \in Gestures |-> "idle"]
  /\ req = [g \in Gestures |-> NoReq]
  /\ lockTxn = [g \in Gestures |-> "none"]
  /\ plan = [g \in Gestures |-> NoRows]
  /\ view = [p \in Pages |-> Listed(InitialSeq)]
  /\ backlog = [i \in Instances |-> 0]
  /\ stage = [i \in Workers |-> IF i \in Calls THEN "off" ELSE "idle"]
  /\ saw = [i \in Workers |-> FALSE]
  /\ rows = [i \in Workers |-> NoRows]
  /\ order = [i \in Workers |-> NoRows]
  /\ seen = [i \in Workers |-> {}]
  /\ held = [a \in Actors |-> {}]
  /\ faults = 0
  /\ late = [i \in Workers |-> 0]

\* Bound: as many gestures, calls and faults there are.
TurnsLeft ==
  Cardinality({g \in Gestures : pc[g] # "idle"})
    + Cardinality({c \in Calls : stage[c] # "off"}) + faults < MaxTurns

Goto(g, where) == pc' = [pc EXCEPT ![g] = where]

\* A request fails on its way, or a process is restarted.
Fault == TurnsLeft /\ faults' = faults + 1

\* An event reaches every instance: each has a consumer group of its own.
EmitEvents(n) == backlog' = [i \in Instances |-> backlog[i] + n]
Emit == EmitEvents(1)

-----------------------------------------------------------------------------
(***************************************************************************)
(* The page.  A gesture first locks the trip's order and waits for the     *)
(* answer, then writes the one stop, then reloads the list.  Which of a    *)
(* page's gestures is made first makes no difference.                      *)
(***************************************************************************)
Ask(g, kind, w, slot, where) ==
  /\ pc[g] = "idle"
  /\ g = CHOOSE h \in Gestures : PageOf[h] = PageOf[g] /\ pc[h] = "idle"
  /\ TurnsLeft
  /\ kind \in Kinds
  /\ req' = [req EXCEPT ![g] = [kind |-> kind, row |-> w, slot |-> slot]]
  /\ Goto(g, where)
  /\ lockTxn' = IF where = "lock" THEN [lockTxn EXCEPT ![g] = "sent"] ELSE lockTxn
  /\ UNCHANGED <<seq, locked, routes, made, plan, backlog, workerVars, held, faults, late>>

\* applyAdd: only intermediate kinds of stop are offered.
AddStop(g, w) ==
  /\ w \in Waypoints \ used
  /\ StopType[w] = INTERMEDIATE
  /\ used' = used \cup {w}
  /\ Ask(g, "add", w, 0, "lock")
  /\ UNCHANGED view

\* removeStop: the trash button is on intermediate stops only.
RemoveStop(g, k) ==
  LET list == view[PageOf[g]]
  IN  /\ k \in DOMAIN list
      /\ StopType[list[k]] = INTERMEDIATE
      /\ Ask(g, "remove", list[k], 0, "lock")
      /\ UNCHANGED <<used, view>>

\* Faulty: the slot is the 0-based index.
TargetSlotZeroBased(to) == to - 1

\* The slot a stop dropped at position to of the list is sent to.
TargetSlot(to) == to

\* handleReorder: the page shows the new list at once, and asks for the slot
\* the stop was dropped at in the list it showed.
DragStop(g, from, to) ==
  LET p    == PageOf[g]
      list == view[p]
  IN  /\ {from, to} \subseteq DOMAIN list
      /\ from # to
      /\ view' = [view EXCEPT ![p] = InsertAt(RemoveAt(list, from), to, list[from])]
      /\ Ask(g, "move", list[from], TargetSlot(to), "lock")
      /\ UNCHANGED used

\* The unlock button of TripDetailPage.tsx, shown while the trip is locked.
Unlock(g) ==
  /\ locked
  /\ Ask(g, "unlock", None, 0, "unlock")
  /\ UNCHANGED <<used, view>>

\* load, when the page is opened: before any gesture is made on it.
OpenPage(p) ==
  /\ \A g \in Gestures : PageOf[g] = p => pc[g] = "idle"
  /\ view' = [view EXCEPT ![p] = Listed(seq)]
  /\ UNCHANGED <<tripVars, pc, req, lockTxn, plan, backlog, workerVars, held, faults, late>>

\* load, at the end of a gesture; its failure leaves the list as it is.
Reload(g) ==
  /\ pc[g] = "loading"
  /\ Goto(g, "done")
  /\ \/ /\ view' = [view EXCEPT ![PageOf[g]] = Listed(seq)]
        /\ UNCHANGED faults
     \/ Fault /\ UNCHANGED view
  /\ UNCHANGED <<tripVars, req, lockTxn, plan, backlog, workerVars, held, late>>

-----------------------------------------------------------------------------
(***************************************************************************)
(* The API.  `trip` and `waypoint` rows are written in transactions of     *)
(* their own; a row written and not committed makes other writers wait.    *)
(***************************************************************************)
TripRowFree == \A g \in Gestures : lockTxn[g] # "flushed" /\ pc[g] # "unlocking"

PatchesTrip == UNCHANGED <<seq, used, routes, made, req, plan, view, workerVars, held>>

\* The request to lock is over; the page, if it still waits, goes on with the edit.
LockAnswered(g) ==
  /\ lockTxn' = [lockTxn EXCEPT ![g] = "none"]
  /\ pc' = IF pc[g] = "lock" THEN [pc EXCEPT ![g] = "edit"] ELSE pc

\* route_locked is TRUE already: nothing to update.  Whether the middleware
\* reports an update that changes nothing is not settled in this repository.
LockHeld(g) ==
  /\ lockTxn[g] = "sent"
  /\ locked
  /\ LockAnswered(g)
  /\ Emit \/ UNCHANGED backlog
  /\ UNCHANGED <<locked, faults, late>>
  /\ PatchesTrip

FlushLock(g) ==
  /\ lockTxn[g] = "sent"
  /\ ~locked
  /\ TripRowFree
  /\ lockTxn' = [lockTxn EXCEPT ![g] = "flushed"]
  /\ Emit
  /\ UNCHANGED <<pc, locked, faults, late>>
  /\ PatchesTrip

CommitLock(g) ==
  /\ lockTxn[g] = "flushed"
  /\ LockAnswered(g)
  /\ locked' = TRUE
  /\ UNCHANGED <<backlog, faults, late>>
  /\ PatchesTrip

\* lockOrder swallows the error: the gesture goes on, whether the request failed
\* or its answer was lost while the server is still at it.
LockFails(g) ==
  /\ lockTxn[g] # "none"
  /\ Fault
  /\ \/ LockAnswered(g)
     \/ pc[g] = "lock" /\ Goto(g, "edit") /\ UNCHANGED lockTxn
  /\ UNCHANGED <<locked, backlog, late>>
  /\ PatchesTrip

FlushUnlock(g) ==
  /\ pc[g] = "unlock"
  /\ TripRowFree
  /\ Goto(g, "unlocking")
  /\ Emit
  /\ UNCHANGED <<lockTxn, locked, faults, late>>
  /\ PatchesTrip

CommitUnlock(g) ==
  /\ pc[g] = "unlocking"
  /\ Goto(g, "done")
  /\ locked' = FALSE
  /\ late' = [i \in Workers |-> 0]
  /\ UNCHANGED <<lockTxn, backlog, faults>>
  /\ PatchesTrip

UnlockFails(g) ==
  /\ pc[g] \in {"unlock", "unlocking"}
  /\ Goto(g, "failed")
  /\ Fault
  /\ UNCHANGED <<lockTxn, locked, backlog, late>>
  /\ PatchesTrip

Free(a, w) == \A b \in Actors \ {a} : w \notin held[b]

\* The rows a transaction has still to write: an API write in any order, for that
\* is the ORM's choice; _persist_order in the order of the new numbers.
Todo(g) == IF pc[g] = "writing" THEN DOMAIN plan[g] \ held[g] ELSE {}

Unwritten(i) == IF stage[i] = "order" THEN DOMAIN order[i] \ held[i] ELSE {}

NextRow(i) == {w \in Unwritten(i) : \A v \in Unwritten(i) : order[i][w] <= order[i][v]}

Wanted(a) == IF a \in Gestures THEN Todo(a) ELSE NextRow(a)

\* The deadlock detector may abort a member of a set in which everybody waits for
\* another of the set.
InDeadlock(a) ==
  \E C \in SUBSET Actors :
    a \in C /\ \A b \in C : \E c \in C \ {b} : Wanted(b) \cap held[c] # {}

\* The numbers the rule works out for a request, those that change anything.
OnlyChanged(before, after) == [w \in Changed(before, after) |-> after[w]]

Plans(r) ==
  LET s == Siblings(seq, r.row)
  IN  CASE r.kind = "add" ->
             {OnlyChanged(s, Overlay(ShiftForInsert(s, r.row, k), [x \in {r.row} |-> k])) :
                k \in PlaceSlots(s, r.row)}
        [] r.kind = "move" ->
             {Overlay(OnlyChanged(s, ShiftForMove(s, seq[r.row], r.slot)),
                      [x \in {r.row} |-> r.slot])}
        [] r.kind = "remove" -> {OnlyChanged(s, Renumber(s))}

WritesStops(g) ==
  UNCHANGED <<used, locked, routes, made, req, lockTxn, view, workerVars, late>>

\* The rule reads the siblings.  A removed row is deleted, and so locked, before
\* that; a row that is added nobody else can see yet.
ReadSiblings(g) ==
  LET r == req[g]
  IN  /\ pc[g] = "edit"
      /\ r.kind = "add" \/ r.row \in Rows
      /\ ~(r.kind = "move" /\ r.slot = seq[r.row])
      /\ r.kind = "remove" => Free(g, r.row)
      /\ \E p \in Plans(r) : plan' = [plan EXCEPT ![g] = p]
      /\ held' = [held EXCEPT ![g] = IF r.kind = "move" THEN {} ELSE {r.row}]
      /\ Goto(g, "writing")
      /\ UNCHANGED <<seq, backlog, faults>>
      /\ WritesStops(g)

UpdateRow(g, w) ==
  /\ w \in Todo(g) \cap Rows
  /\ Free(g, w)
  /\ held' = [held EXCEPT ![g] = @ \cup {w}]
  /\ UNCHANGED <<seq, pc, plan, backlog, faults>>
  /\ WritesStops(g)

\* The events of a flush: one for the row that was added or moved, none for one that
\* was deleted (_is_change); and one for each sibling, if the middleware's version
\* fires rules for those.
Told(g) ==
  IF SiblingsTell THEN Cardinality(DOMAIN plan[g])
  ELSE IF req[g].kind = "remove" THEN 0 ELSE 1

Flushed(g) ==
  /\ pc[g] = "writing"
  /\ Todo(g) = {}
  /\ EmitEvents(Told(g))
  /\ Goto(g, "flushed")
  /\ UNCHANGED <<seq, plan, held, faults>>
  /\ WritesStops(g)

\* The stop is at that slot: nothing to update.
NothingToMove(g) ==
  /\ pc[g] = "edit"
  /\ req[g].kind = "move"
  /\ req[g].row \in Rows
  /\ req[g].slot = seq[req[g].row]
  /\ Emit \/ UNCHANGED backlog
  /\ Goto(g, "loading")
  /\ UNCHANGED <<seq, plan, held, faults>>
  /\ WritesStops(g)

Result(g) ==
  Overlay(IF req[g].kind = "remove" THEN Siblings(seq, req[g].row) ELSE seq, plan[g])

\* The transaction ends: its locks are released.
End(g, where) ==
  /\ plan' = [plan EXCEPT ![g] = NoRows]
  /\ held' = [held EXCEPT ![g] = {}]
  /\ Goto(g, where)
  /\ UNCHANGED backlog
  /\ WritesStops(g)

\* If the answer is lost the page shows an error, and does not reload.
CommitWrite(g) ==
  /\ pc[g] = "flushed"
  /\ Unique(Result(g))
  /\ seq' = Result(g)
  /\ \/ End(g, "loading") /\ UNCHANGED faults
     \/ End(g, "done") /\ Fault

\* The stop is gone, or one of its siblings; a number is taken; or the detector
\* chose this transaction.
Refused(g) ==
  \/ pc[g] = "edit" /\ req[g].kind # "add" /\ req[g].row \notin Rows
  \/ Todo(g) \ Rows # {}
  \/ pc[g] = "flushed" /\ ~Unique(Result(g))
  \/ InDeadlock(g)

\* The request is refused, or fails for a reason of its own: the transaction is
\* rolled back and the page shows the error.  What was emitted stays emitted.
WriteFails(g) ==
  /\ pc[g] \in {"edit", "writing", "flushed"}
  /\ IF Refused(g) THEN UNCHANGED faults ELSE Fault
  /\ End(g, "failed")
  /\ UNCHANGED seq

-----------------------------------------------------------------------------
(***************************************************************************)
(* recompute_route(trip_id), in one transaction at READ COMMITTED: the     *)
(* consumer thread of an instance calls it for every event it polls, and   *)
(* a POST of /route/recompute in a thread of its own.                      *)
(***************************************************************************)
At(i, where) == stage' = [stage EXCEPT ![i] = where]

\* recompute_route returns or raises: its transaction is over, its locks are
\* released and its local variables are gone.
Leave(i, where) ==
  /\ At(i, where)
  /\ saw' = [saw EXCEPT ![i] = FALSE]
  /\ rows' = [rows EXCEPT ![i] = NoRows]
  /\ order' = [order EXCEPT ![i] = NoRows]
  /\ seen' = [seen EXCEPT ![i] = {}]
  /\ held' = [held EXCEPT ![i] = {}]

\* The first query: SELECT route_locked.
ReadLock(i) ==
  /\ saw' = [saw EXCEPT ![i] = locked]
  /\ At(i, "stops")
  /\ UNCHANGED <<tripVars, pageVars, rows, order, seen, held, faults, late>>

TakeEvent(i) ==
  /\ i \in Instances
  /\ stage[i] = "idle"
  /\ backlog[i] > 0
  /\ backlog' = [backlog EXCEPT ![i] = @ - 1]
  /\ ReadLock(i)

\* POST /route/recompute/{trip_id}.
PostRecompute(c) ==
  /\ stage[c] = "off"
  /\ TurnsLeft
  /\ ReadLock(c)
  /\ UNCHANGED backlog

\* Faulty: the lock is not looked at.
OrdersIgnoringLock(i, s) ==
  {IF SameOrder(r, s) THEN NoRows ELSE r : r \in NearestOrders(s, Miles)}

\* What _persist_order is given to write.
Orders(i, s) ==
  IF saw[i] THEN {NoRows}
  ELSE {IF SameOrder(r, s) THEN NoRows ELSE r : r \in NearestOrders(s, Miles)}

\* With fewer than two stops there is no route to compute.
ReadStops(i) ==
  /\ stage[i] = "stops"
  /\ IF Cardinality(Rows) < 2
     THEN Leave(i, "idle")
     ELSE /\ rows' = [rows EXCEPT ![i] = seq]
          /\ \E p \in Orders(i, seq) : order' = [order EXCEPT ![i] = p]
          /\ At(i, "order")
          /\ UNCHANGED <<saw, seen, held>>
  /\ UNCHANGED <<tripVars, pageVars, backlog, faults, late>>

\* _persist_order: UPDATE waypoint SET seq = ... WHERE id = w, for every stop.  A row
\* deleted meanwhile is not found.
PersistRow(i, w) ==
  /\ w \in NextRow(i)
  /\ w \in Rows => Free(i, w)
  /\ held' = [held EXCEPT ![i] = @ \cup {w}]
  /\ UNCHANGED <<tripVars, pageVars, backlog, workerVars, faults, late>>

\* DELETE FROM route: it removes the rows it sees when it starts ...
SeeRoutes(i) ==
  /\ stage[i] = "order"
  /\ Unwritten(i) = {}
  /\ seen' = [seen EXCEPT ![i] = routes]
  /\ At(i, "delete")
  /\ UNCHANGED <<tripVars, pageVars, backlog, saw, rows, order, held, faults, late>>

\* ... and first waits for another that is removing them.
DeleteRoutes(i) ==
  /\ stage[i] = "delete"
  /\ \A j \in Workers \ {i} : stage[j] = "commit" => seen[i] \cap seen[j] \cap routes = {}
  /\ At(i, "commit")
  /\ UNCHANGED <<tripVars, pageVars, backlog, saw, rows, order, seen, held, faults, late>>

\* Faulty: the stops in the order they were read in.
RouteStopsAsRead(i) == Listed(rows[i])

\* The stops that were read, in the order the new route visits them.
RouteStops(i) == Listed(Overlay(rows[i], order[i]))

\* The stops there are, under the new numbers.
Reordered(i) == Overlay(seq, [w \in DOMAIN order[i] \cap Rows |-> order[i][w]])

\* Faulty: the old rows stay.
ReplaceRouteKeeping(i) ==
  routes' = routes \cup {[no |-> made + 1, by |-> i, stops |-> RouteStops(i)]}

\* The old rows are gone and the new one is there.
ReplaceRoute(i) ==
  routes' = (routes \ seen[i]) \cup {[no |-> made + 1, by |-> i, stops |-> RouteStops(i)]}

CommitRecompute(i) ==
  /\ stage[i] = "commit"
  /\ Unique(Reordered(i))
  /\ seq' = Reordered(i)
  /\ ReplaceRoute(i)
  /\ made' = made + 1
  /\ late' = IF locked /\ order[i] # NoRows
             THEN [late EXCEPT ![i] = @ + 1] ELSE late
  /\ Leave(i, "idle")
  /\ UNCHANGED <<used, locked, pageVars, backlog, faults>>

\* A stop was added meanwhile at one of the numbers written.
Collides(i) == stage[i] = "commit" /\ ~Unique(Reordered(i))

Aborts(i) ==
  /\ stage[i] \notin {"off", "idle"}
  /\ IF Collides(i) \/ InDeadlock(i) THEN UNCHANGED faults ELSE Fault
  /\ UNCHANGED <<tripVars, pageVars, backlog, late>>

\* Faulty: nobody catches the exception, and the thread is over.
RecomputeFailsUncaught(i) == Aborts(i) /\ Leave(i, "off")

\* The recompute is refused, is a deadlock's victim, or fails for a reason of its
\* own: the exception is logged, the thread goes on, the event is not taken again.
RecomputeFails(i) == Aborts(i) /\ Leave(i, "idle")

\* The process is restarted: its transaction is rolled back, and its new
\* consumer group starts at the latest event.
Restart(i) ==
  /\ Fault
  /\ backlog' = [backlog EXCEPT ![i] = 0]
  /\ Leave(i, "idle")
  /\ UNCHANGED <<tripVars, pageVars, late>>

-----------------------------------------------------------------------------
Gesture(g) ==
  \/ \E w \in Waypoints : AddStop(g, w)
  \/ \E k \in DOMAIN view[PageOf[g]] : RemoveStop(g, k)
  \/ \E from, to \in DOMAIN view[PageOf[g]] : DragStop(g, from, to)
  \/ Unlock(g)

Serve(g) ==
  \/ LockHeld(g) \/ FlushLock(g) \/ CommitLock(g) \/ LockFails(g)
  \/ FlushUnlock(g) \/ CommitUnlock(g) \/ UnlockFails(g)
  \/ ReadSiblings(g) \/ NothingToMove(g) \/ \E w \in Waypoints : UpdateRow(g, w)
  \/ Flushed(g) \/ CommitWrite(g) \/ WriteFails(g)
  \/ Reload(g)

Recompute(i) ==
  \/ TakeEvent(i) \/ ReadStops(i) \/ \E w \in Waypoints : PersistRow(i, w)
  \/ SeeRoutes(i) \/ DeleteRoutes(i) \/ CommitRecompute(i) \/ RecomputeFails(i)

Next ==
  \/ \E g \in Gestures : Gesture(g) \/ Serve(g)
  \/ \E p \in Pages : OpenPage(p)
  \/ \E c \in Calls : PostRecompute(c)
  \/ \E i \in Workers : Recompute(i)
  \/ \E i \in Instances : Restart(i)

Spec == Init /\ [][Next]_vars

\* Drivers and dispatchers need not do anything; a request that was sent is
\* answered, and a thread goes on.
FairSpec ==
  /\ Spec
  /\ \A g \in Gestures : WF_vars(Serve(g))
  /\ \A i \in Workers : WF_vars(Recompute(i))

-----------------------------------------------------------------------------
Stages == {"off", "idle", "stops", "order", "delete", "commit"}
Places == {"idle", "lock", "edit", "writing", "flushed", "loading",
           "unlock", "unlocking", "done", "failed"}

\* Types; and whatever slots are taken from lists that were out of date, whatever
\* gaps deletes and reorders leave: numbers stay within 1..(stops ever added).
NumbersBounded ==
  /\ Rows \subseteq used /\ used \subseteq Waypoints
  /\ seq \in [Rows -> 1..Cardinality(used)]
  /\ locked \in BOOLEAN
  /\ made \in Nat
  /\ \A r \in routes : r.no \in 0..made
  /\ pc \in [Gestures -> Places]
  /\ lockTxn \in [Gestures -> {"none", "sent", "flushed"}]
  /\ backlog \in [Instances -> Nat]
  /\ stage \in [Workers -> Stages]
  /\ saw \in [Workers -> BOOLEAN]
  /\ faults \in Nat
  /\ late \in [Workers -> Nat]

\* A locked trip can still be reordered, by a recompute that read route_locked
\* before the lock was there; but by every thread once, not again and again.
LateReordersBounded == \A i \in Workers : late[i] <= 1

\* recompute.py: "upsert fleet.route".  It is a DELETE and an INSERT: recomputes that
\* overlap do not see each other's row and both stay.  But of one thread no two
\* ever do, so there are never more than the threads that recompute.
OneRouteEach ==
  \A r, s \in routes : r.by = s.by => r = s

Commits(i) == made' = made + 1 /\ stage[i] = "commit" /\ stage'[i] = "idle"

\* If no stop changed while a thread recomputed, the route it leaves visits
\* the stops in their committed order, reordered or not.
RouteIsWhatIsStored ==
  [][\A i \in Workers :
        Commits(i) /\ seq = rows[i]
        => \E r \in routes' \ routes : r.stops = Listed(seq')]_vars

\* TripWaypointsPage.tsx: lock first "so the auto-optimizer ... won't reorder
\* the manual change".  A move that is committed, under the lock, stays.
ManualOrderKept ==
  [][\A i \in Workers, g \in Gestures :
        /\ Commits(i)
        /\ locked
        /\ req[g].kind = "move"
        /\ pc[g] = "done"
        => SameOrder(seq', seq)]_vars

Quiet ==
  /\ \A g \in Gestures : pc[g] \in {"idle", "done", "failed"} /\ lockTxn[g] = "none"
  /\ \A i \in Workers : stage[i] \in {"off", "idle"}
  /\ \A i \in Instances : backlog[i] = 0

\* recompute_consumer.py: "add/remove/reorder from ANY client triggers an
\* automatic recompute".  When all is done the route visits the stops there
\* are, in their order.
QuietMeansFresh == Quiet => \A r \in routes : r.stops = Listed(seq)

\* Every event an instance is sent is handled, or lost with the instance: however a
\* recompute ends the thread goes on, and none waits for ever for rows that gestures
\* and other recomputes hold, who may wait for its own.
EventsAreHandled ==
  \A i \in Instances : backlog[i] > 0 ~> backlog[i] = 0 /\ stage[i] = "idle"
=============================================================================
