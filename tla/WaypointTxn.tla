----------------------------- MODULE WaypointTxn -----------------------------
(***************************************************************************)
(* The three writers of `waypoint.seq` -- API inserts, moves and deletes   *)
(* under route_governance.py, and the optimizer's _persist_order -- when   *)
(* their transactions overlap on one trip.                                 *)
(*                                                                         *)
(* Every write is one PostgreSQL transaction at READ COMMITTED: a query    *)
(* sees what is committed when it runs, an UPDATE locks its row until the  *)
(* transaction ends and then stores the absolute number the writer worked  *)
(* out from its earlier query, and UNIQUE (trip_id, seq) DEFERRABLE        *)
(* INITIALLY DEFERRED is checked at COMMIT.                                *)
(***************************************************************************)
EXTENDS RouteOptimizer

CONSTANTS
  Txns,        \* the writes of a behaviour, one transaction each
  Kinds,       \* the kinds of write there are: a subset of AllKinds
  InitialSeq,  \* the stops the trip was planned with, and their numbers
  None         \* no row

AllKinds == {"insert", "move", "delete", "optimize"}

ASSUME TxnAssumption ==
  /\ Kinds \subseteq AllKinds
  /\ None \notin Waypoints
  /\ DOMAIN InitialSeq \subseteq Waypoints
  /\ IsFiniteSet(DOMAIN InitialSeq)
  /\ InitialSeq \in [DOMAIN InitialSeq -> Int]
  /\ Dense(InitialSeq)

VARIABLES
  seq,   \* the committed rows of the trip: id -> seq
  used,  \* the ids that were ever given to a row
  pc,    \* pc[t]: where write t is
  op,    \* op[t]: what t asks for: the kind, the row, its old and its new slot
  snap,  \* snap[t]: the stops t's query returned
  plan,  \* plan[t]: the numbers t stores: row -> seq
  held   \* held[t]: the rows t has written and so locked

vars == <<seq, used, pc, op, snap, plan, held>>

NoOp   == [kind |-> "none", row |-> None, old |-> 0, new |-> 0]
NoRows == [w \in {} |-> 0]

Rows == DOMAIN seq

Init ==
  /\ seq = InitialSeq
  /\ used = DOMAIN InitialSeq
  /\ pc = [t \in Txns |-> "idle"]
  /\ op = [t \in Txns |-> NoOp]
  /\ snap = [t \in Txns |-> NoRows]
  /\ plan = [t \in Txns |-> NoRows]
  /\ held = [t \in Txns |-> {}]

LockedByOther(t, w) == \E u \in Txns \ {t} : w \in held[u]

-----------------------------------------------------------------------------
\* A request reaches its server.  For a PATCH and a DELETE the middleware has
\* loaded the row, so its number at this moment is the rule's old_row.seq.  Which
\* of the idle transactions serves it makes no difference.
Begin(t, request, where) ==
  /\ pc[t] = "idle"
  /\ t = CHOOSE u \in Txns : pc[u] = "idle"
  /\ request.kind \in Kinds
  /\ op' = [op EXCEPT ![t] = request]
  /\ pc' = [pc EXCEPT ![t] = where]
  /\ UNCHANGED <<seq, snap, plan, held>>

\* POST of a new stop; the slot the client hints at is ignored.
BeginInsert(t, w) ==
  /\ w \in Waypoints \ used
  /\ used' = used \cup {w}
  /\ Begin(t, [kind |-> "insert", row |-> w, old |-> 0, new |-> 0], "reading")

NobodyDeletes == \A t \in Txns : op[t].kind # "delete"

\* The slots of the list as it is now; or, once there are deletes, of a list that
\* still shows stops that are gone.
SlotsShown == 1..Cardinality(IF NobodyDeletes THEN Rows ELSE used)

\* PATCH of a stop's seq to another slot of the list a page shows.
BeginMove(t, w, k) ==
  /\ w \in Rows
  /\ k \in SlotsShown
  /\ k # seq[w]
  /\ UNCHANGED used
  /\ Begin(t, [kind |-> "move", row |-> w, old |-> seq[w], new |-> k], "reading")

\* DELETE of a stop.  The editor offers it for intermediate stops only.
BeginDelete(t, w) ==
  /\ w \in Rows
  /\ StopType[w] = INTERMEDIATE
  /\ UNCHANGED used
  /\ Begin(t, [kind |-> "delete", row |-> w, old |-> seq[w], new |-> 0], "deleting")

\* A recompute of a trip that is not route_locked.
BeginOptimize(t) ==
  /\ UNCHANGED used
  /\ Begin(t, [kind |-> "optimize", row |-> None, old |-> 0, new |-> 0], "reading")

\* The DELETE is flushed, and locks its row, before _waypoint_densify runs.
DeleteRow(t) ==
  /\ pc[t] = "deleting"
  /\ ~LockedByOther(t, op[t].row)
  /\ held' = [held EXCEPT ![t] = @ \cup {op[t].row}]
  /\ pc' = [pc EXCEPT ![t] = "reading"]
  /\ UNCHANGED <<seq, used, op, snap, plan>>

(***************************************************************************)
(* The writer queries the trip's other stops and works out the new         *)
(* numbers.  The optimizer may put the stops between the ends in any       *)
(* order: that depends on where they are.  A new order is written whole,   *)
(* an unchanged one not at all.                                            *)
(***************************************************************************)
OnlyChanged(before, after) == [w \in Changed(before, after) |-> after[w]]

InsertPlans(s, w) ==
  {OnlyChanged(s, Overlay(ShiftForInsert(s, w, k), [x \in {w} |-> k])) :
     k \in PlaceSlots(s, w)}

MovePlan(s, w, old, new) ==
  Overlay(OnlyChanged(s, ShiftForMove(s, old, new)), [x \in {w} |-> new])

DeletePlan(s) == OnlyChanged(s, Renumber(s))

OptimizePlans(s) == {IF SameOrder(r, s) THEN NoRows ELSE r : r \in OptimizedOrders(s)}

PlanWrites(t, p) == plan' = [plan EXCEPT ![t] = p]

\* A new row is inserted by this transaction: nobody else can see or lock it.
ReadStops(t) ==
  /\ pc[t] = "reading"
  /\ LET o == op[t]
         s == Siblings(seq, o.row)
     IN  /\ snap' = [snap EXCEPT ![t] = s]
         /\ held' = [held EXCEPT ![t] = IF o.kind = "insert" THEN {o.row} ELSE @]
         /\ \/ o.kind = "insert" /\ \E p \in InsertPlans(s, o.row) : PlanWrites(t, p)
            \/ o.kind = "move" /\ PlanWrites(t, MovePlan(s, o.row, o.old, o.new))
            \/ o.kind = "delete" /\ PlanWrites(t, DeletePlan(s))
            \/ o.kind = "optimize" /\ \E p \in OptimizePlans(s) : PlanWrites(t, p)
  /\ pc' = [pc EXCEPT ![t] = "writing"]
  /\ UNCHANGED <<seq, used, op>>

-----------------------------------------------------------------------------
\* The rows t has still to write.  In which order is the driver's choice.
Todo(t) == IF pc[t] = "writing" THEN DOMAIN plan[t] \ held[t] ELSE {}

\* UPDATE waypoint SET seq = ... WHERE id = w, once the row is free.
UpdateRow(t, w) ==
  /\ w \in Todo(t) \cap Rows
  /\ ~LockedByOther(t, w)
  /\ held' = [held EXCEPT ![t] = @ \cup {w}]
  /\ UNCHANGED <<seq, used, pc, op, snap, plan>>

\* The row has been deleted meanwhile.  The optimizer's SQL matches no row and
\* goes on.
SkipRow(t, w) ==
  /\ w \in Todo(t) \ Rows
  /\ op[t].kind = "optimize"
  /\ plan' = [plan EXCEPT ![t] = [x \in DOMAIN plan[t] \ {w} |-> plan[t][x]]]
  /\ UNCHANGED <<seq, used, pc, op, snap, held>>

\* Faulty: the transaction keeps its locks.
EndHolding(t, how) ==
  /\ pc' = [pc EXCEPT ![t] = how]
  /\ UNCHANGED <<used, op, snap, plan, held>>

\* The transaction ends: its locks are released.
End(t, how) ==
  /\ pc' = [pc EXCEPT ![t] = how]
  /\ held' = [held EXCEPT ![t] = {}]
  /\ UNCHANGED <<used, op, snap, plan>>

\* The row has been deleted meanwhile.  The ORM, whose UPDATE must match one
\* row, raises an error and the transaction is rolled back.
StaleRow(t, w) ==
  /\ w \in Todo(t) \ Rows
  /\ op[t].kind # "optimize"
  /\ End(t, "stale")
  /\ UNCHANGED seq

\* What the trip would be if t committed now.
Result(t) ==
  Overlay(IF op[t].kind = "delete" THEN Siblings(seq, op[t].row) ELSE seq, plan[t])

\* Faulty: nothing is checked.
ConstraintDropped(s) == TRUE

\* The deferred constraint as COMMIT checks it.
ConstraintHolds(s) == Unique(s)

Commit(t) ==
  /\ pc[t] = "writing"
  /\ Todo(t) = {}
  /\ ConstraintHolds(Result(t))
  /\ seq' = Result(t)
  /\ End(t, "committed")

UniqueViolation(t) ==
  /\ pc[t] = "writing"
  /\ Todo(t) = {}
  /\ ~ConstraintHolds(Result(t))
  /\ End(t, "collided")
  /\ UNCHANGED seq

\* The rows t may be waiting for, and the deadlock detector: a set of writes
\* in which each waits for another of the set loses one of its members.
Wanted(t) == IF pc[t] = "deleting" THEN {op[t].row} ELSE Todo(t)

InDeadlock(t) ==
  \E C \in SUBSET Txns :
    t \in C /\ \A u \in C : \E v \in C \ {u} : Wanted(u) \cap held[v] # {}

DeadlockVictim(t) ==
  /\ InDeadlock(t)
  /\ End(t, "deadlocked")
  /\ UNCHANGED seq

-----------------------------------------------------------------------------
Request(t) ==
  \/ \E w \in Waypoints : BeginInsert(t, w) \/ BeginDelete(t, w)
  \/ \E w \in Waypoints, k \in SlotsShown : BeginMove(t, w, k)
  \/ BeginOptimize(t)

Step(t) ==
  \/ DeleteRow(t)
  \/ ReadStops(t)
  \/ \E w \in Waypoints : UpdateRow(t, w) \/ SkipRow(t, w) \/ StaleRow(t, w)
  \/ Commit(t)
  \/ UniqueViolation(t)
  \/ DeadlockVictim(t)

Next == \E t \in Txns : Request(t) \/ Step(t)

Spec == Init /\ [][Next]_vars

\* Clients need not send anything; a server that has begun a write goes on.
FairSpec == Spec /\ \A t \in Txns : WF_vars(Step(t))

-----------------------------------------------------------------------------
AtRest   == {"idle", "committed", "collided", "stale", "deadlocked"}
Finished == AtRest \ {"idle"}

\* "waypoint.seq is a contiguous, gap-free 1..N ordering per trip"
\* (route_governance.py) whatever the overlap of the writes, as long as none of
\* them is a delete: inserts, moves and reorders collide or deadlock, but never
\* leave a gap.
DenseUnlessDeleted == NobodyDeletes => Dense(seq)

Commits(t) == pc[t] # "committed" /\ pc'[t] = "committed"

\* A delete that nobody interfered with between its query and its commit
\* leaves the trip dense, whatever gaps it found: the order heals.
DeleteHeals ==
  [][\A t \in Txns :
        Commits(t) /\ op[t].kind = "delete" /\ snap[t] = Siblings(seq, op[t].row)
        => Dense(seq')]_vars

\* An intermediate stop, once committed, stands just before a destination if
\* its transaction saw one, whatever the writes it overlapped did to the stops
\* it pushed down (_waypoint_place): a destination that was deleted in between
\* makes it fail instead.
InsertLandsBeforeDestination ==
  [][\A t \in Txns :
        /\ Commits(t)
        /\ op[t].kind = "insert"
        /\ BeforeDestination(snap[t], op[t].row)
        => \E d \in Destinations(seq') : seq'[d] = seq'[op[t].row] + 1]_vars

\* Every write that reaches the server is answered: committed or refused, it
\* never waits for ever for rows that other writes hold.
EveryWriteEnds == \A t \in Txns : pc[t] # "idle" ~> pc[t] \in Finished
=============================================================================
