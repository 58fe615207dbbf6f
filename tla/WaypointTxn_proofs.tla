-------------------------- MODULE WaypointTxn_proofs --------------------------
(***************************************************************************)
(* Until somebody deletes a stop, overlapping writes keep a trip dense:    *)
(* for any number of inserts, moves and recomputes in flight, any stops    *)
(* and any interleaving of their queries, row writes and commits.          *)
(*                                                                         *)
(* The argument: a write stores numbers it worked out from an older state  *)
(* of the trip, but without deletes the trip only grows, so these numbers  *)
(* are still within 1..N (1..N+1 for an insert, which brings its own row). *)
(* The deferred UNIQUE check then lets through only N different numbers    *)
(* in 1..N, which leave no gap (UniqueInRangeIsDense).                     *)
(*                                                                         *)
(* With deletes the trip may be left with gaps, and the theorems say what  *)
(* still holds: a delete whose query is still current when it commits      *)
(* leaves the trip dense, and an intermediate stop that is committed       *)
(* stands just before a destination.                                       *)
(***************************************************************************)
EXTENDS WaypointTxn, WaypointOrder_proofs

N == Cardinality(Rows)

Active(t) == pc[t] \in {"reading", "writing"}

RowsOK ==
  /\ Rows \subseteq used /\ used \subseteq Waypoints
  /\ IsFiniteSet(Rows)
  /\ seq = [w \in Rows |-> seq[w]]
  /\ Dense(seq)

Shapes ==
  /\ pc \in [Txns -> AtRest \cup {"reading", "writing"}]
  /\ op = [t \in Txns |-> op[t]]
  /\ plan = [t \in Txns |-> plan[t]]

\* What a write in flight asks for still makes sense for the trip as it is.
OpOK(t) ==
  Active(t) =>
    /\ op[t].kind \in {"insert", "move", "optimize"}
    /\ op[t].kind = "insert" => op[t].row \in used \ Rows
    /\ op[t].kind = "move" => /\ op[t].row \in Rows
                              /\ op[t].old \in 1..N /\ op[t].new \in 1..N
    /\ op[t].kind = "optimize" => op[t].row = None

\* The numbers it is about to store are within the trip as it is.
PlanOK(t) ==
  pc[t] = "writing" =>
    /\ op[t].kind = "insert" => /\ DOMAIN plan[t] \subseteq Rows \cup {op[t].row}
                                /\ op[t].row \in DOMAIN plan[t]
                                /\ \A w \in DOMAIN plan[t] : plan[t][w] \in 1..(N + 1)
    /\ op[t].kind # "insert" => /\ DOMAIN plan[t] \subseteq Rows
                                /\ \A w \in DOMAIN plan[t] : plan[t][w] \in 1..N

OneInserter ==
  \A t, u \in Txns :
    /\ Active(t) /\ op[t].kind = "insert"
    /\ Active(u) /\ op[u].kind = "insert"
    /\ op[t].row = op[u].row
    => t = u

Inv ==
  /\ RowsOK
  /\ Shapes
  /\ \A t \in Txns : OpOK(t) /\ PlanOK(t)
  /\ OneInserter

-----------------------------------------------------------------------------
\* The three plans store numbers of the trip they were worked out from.
LEMMA InsertPlanInRange ==
  ASSUME NEW s, IsFiniteSet(DOMAIN s), Dense(s), NEW w, w \notin DOMAIN s,
         NEW p \in InsertPlans(s, w)
  PROVE  /\ DOMAIN p \subseteq DOMAIN s \cup {w}
         /\ w \in DOMAIN p
         /\ \A v \in DOMAIN p : p[v] \in 1..(Cardinality(DOMAIN s) + 1)
<1>1. PICK k \in PlaceSlots(s, w) :
        p = OnlyChanged(s, Overlay(ShiftForInsert(s, w, k), [x \in {w} |-> k]))
  BY DEF InsertPlans
<1> DEFINE t == Overlay(ShiftForInsert(s, w, k), [x \in {w} |-> k])
<1>2. DOMAIN t = DOMAIN s \cup {w}
  BY DEF Overlay, ShiftForInsert, ShiftFrom
<1>3. Cardinality(DOMAIN t) = Cardinality(DOMAIN s) + 1 /\ IsFiniteSet(DOMAIN t)
  BY <1>2, FS_AddElement
<1>4. Dense(t)
  BY InsertIsDense
<1> HIDE DEF t
<1>5. \A v \in DOMAIN t : t[v] \in 1..(Cardinality(DOMAIN s) + 1)
  BY <1>3, <1>4, DenseRange
<1> QED
  BY <1>1, <1>2, <1>5 DEF OnlyChanged, Changed, t

LEMMA MovePlanInRange ==
  ASSUME NEW s, IsFiniteSet(DOMAIN s), Dense(s), NEW w \in DOMAIN s,
         NEW old \in 1..Cardinality(DOMAIN s), NEW new \in 1..Cardinality(DOMAIN s)
  PROVE  LET p == MovePlan(Siblings(s, w), w, old, new)
         IN  /\ DOMAIN p \subseteq DOMAIN s
             /\ \A v \in DOMAIN p : p[v] \in 1..Cardinality(DOMAIN s)
<1> DEFINE sib == Siblings(s, w)
           c == OnlyChanged(sib, ShiftForMove(sib, old, new))
           p == MovePlan(sib, w, old, new)
<1>1. Cardinality(DOMAIN s) \in Nat /\ \A v \in DOMAIN s : s[v] \in 1..Cardinality(DOMAIN s)
  BY DenseRange
<1>2. DOMAIN sib = DOMAIN s \ {w} /\ \A v \in DOMAIN sib : sib[v] = s[v]
  BY DEF Siblings
<1>3. DOMAIN c \subseteq DOMAIN sib
  BY DEF OnlyChanged, Changed, ShiftForMove
<1>4. \A v \in DOMAIN c : c[v] = IF new <= sib[v] /\ sib[v] < old THEN sib[v] + 1
                                 ELSE IF old < sib[v] /\ sib[v] <= new THEN sib[v] - 1
                                 ELSE sib[v]
  BY <1>3 DEF OnlyChanged, ShiftForMove
<1>5. \A v \in DOMAIN c : c[v] \in 1..Cardinality(DOMAIN s)
  BY <1>1, <1>2, <1>3, <1>4
<1>6. DOMAIN p = DOMAIN c \cup {w}
  BY DEF MovePlan, Overlay
<1>7. p[w] = new /\ \A v \in DOMAIN c \ {w} : p[v] = c[v]
  BY DEF MovePlan, Overlay
<1> HIDE DEF sib, c
<1> QED
  BY <1>2, <1>3, <1>5, <1>6, <1>7 DEF sib

LEMMA OptimizePlanInRange ==
  ASSUME NEW s, s = [w \in DOMAIN s |-> s[w]], IsFiniteSet(DOMAIN s), Dense(s),
         NEW p \in OptimizePlans(s)
  PROVE  /\ DOMAIN p \subseteq DOMAIN s
         /\ \A v \in DOMAIN p : p[v] \in 1..Cardinality(DOMAIN s)
<1>1. PICK r \in OptimizedOrders(s) : p = IF SameOrder(r, s) THEN NoRows ELSE r
  BY DEF OptimizePlans
<1>2. CASE r = Renumber(s)
  <2>1. s \in [DOMAIN s -> Int] /\ Unique(s)
    BY DenseRange DEF Dense
  <2>2. Dense(r) /\ DOMAIN r = DOMAIN s
    BY <1>2, <2>1, RenumberIsDense DEF Renumber
  <2> QED
    BY <1>1, <2>2, DenseRange DEF NoRows
<1>3. CASE r \in [DOMAIN s -> 1..Cardinality(DOMAIN s)]
  BY <1>1, <1>3 DEF NoRows
<1> QED
  BY <1>2, <1>3 DEF OptimizedOrders

-----------------------------------------------------------------------------
\* A trip that only grows keeps every write in flight meaningful.  This is the
\* step a delete would break.
LEMMA GrowthKeepsOthers ==
  ASSUME Inv, NEW t \in Txns,
         Rows \subseteq Rows', N \in Nat, N' \in Nat, N <= N', used' = used,
         UNCHANGED <<op, plan>>, pc'[t] = pc[t],
         op[t].kind = "insert" /\ Active(t) => op[t].row \notin Rows'
  PROVE  OpOK(t)' /\ PlanOK(t)'
BY DEF Inv, OpOK, PlanOK, Active

\* The steps that change neither the rows nor any write but t.
LEMMA OthersUnchanged ==
  ASSUME Inv, NEW t \in Txns, NEW u \in Txns, u # t, seq' = seq,
         used \subseteq used',
         pc'[u] = pc[u], op'[u] = op[u], plan'[u] = plan[u]
  PROVE  OpOK(u)' /\ PlanOK(u)'
BY DEF Inv, OpOK, PlanOK, Active, Rows, N

LEMMA InitInv == Init => Inv
<1> SUFFICES ASSUME Init PROVE Inv
  OBVIOUS
<1>1. RowsOK
  BY TxnAssumption DEF Init, RowsOK, Rows
<1>2. Shapes
  BY DEF Init, Shapes, AtRest
<1>3. \A t \in Txns : pc[t] = "idle"
  BY DEF Init
<1> QED
  BY <1>1, <1>2, <1>3 DEF Inv, OpOK, PlanOK, OneInserter, Active

LEMMA BeginInv ==
  ASSUME Inv, NobodyDeletes, NobodyDeletes', NEW t \in Txns, Request(t)
  PROVE  Inv'
<1>1. /\ seq' = seq /\ plan' = plan /\ pc[t] = "idle"
      /\ \E r, where : op' = [op EXCEPT ![t] = r] /\ pc' = [pc EXCEPT ![t] = where]
  BY DEF Request, BeginInsert, BeginMove, BeginDelete, BeginOptimize, Begin
<1>2. used \subseteq used' /\ used' \subseteq Waypoints
  BY DEF Request, BeginInsert, BeginMove, BeginDelete, BeginOptimize, Inv, RowsOK
<1>3. \A u \in Txns \ {t} : pc'[u] = pc[u] /\ op'[u] = op[u]
  BY <1>1 DEF Inv, Shapes
<1>4. \A u \in Txns \ {t} : OpOK(u)' /\ PlanOK(u)'
  BY <1>1, <1>2, <1>3, OthersUnchanged
<1>5. RowsOK'
  BY <1>1, <1>2 DEF Inv, RowsOK, Rows
<1>noDelete. ~ \E w \in Waypoints : BeginDelete(t, w)
  <2>1. ASSUME NEW w \in Waypoints, BeginDelete(t, w) PROVE op'[t].kind = "delete"
    BY <2>1 DEF BeginDelete, Begin, Inv, Shapes
  <2> QED
    BY <2>1 DEF NobodyDeletes
<1>6. pc'[t] = "reading"
  BY <1>1, <1>noDelete DEF Request, BeginInsert, BeginMove, BeginDelete, BeginOptimize,
                           Begin, Inv, Shapes
<1>7. Shapes'
  BY <1>1, <1>6 DEF Inv, Shapes
<1>8. PlanOK(t)'
  BY <1>6 DEF PlanOK
<1>9. N \in Nat /\ \A w \in Rows : seq[w] \in 1..N
  BY DenseRange DEF Inv, RowsOK, Rows, N
<1>10. OpOK(t)' /\ OneInserter'
  <2>1. CASE \E w \in Waypoints : BeginInsert(t, w)
    <3>1. PICK w \in Waypoints : BeginInsert(t, w)
      BY <2>1
    <3>2. op'[t].kind = "insert" /\ op'[t].row = w /\ w \notin used /\ w \in used'
      BY <3>1 DEF BeginInsert, Begin, Inv, Shapes
    <3>3. w \notin Rows'
      BY <1>1, <3>2 DEF Inv, RowsOK, Rows
    <3>4. OpOK(t)'
      BY <3>2, <3>3 DEF OpOK
    <3>5. \A u \in Txns \ {t} : Active(u) /\ op[u].kind = "insert" => op[u].row # w
      BY <3>2 DEF Inv, OpOK
    <3> QED
      BY <1>3, <3>2, <3>4, <3>5 DEF Inv, OneInserter, Active
  <2>2. CASE \E w \in Waypoints, k \in SlotsShown : BeginMove(t, w, k)
    <3>1. /\ op'[t].kind = "move" /\ op'[t].row \in Rows
          /\ op'[t].old \in 1..N /\ op'[t].new \in 1..N
      BY <1>9, <2>2 DEF BeginMove, Begin, Inv, Shapes, N, SlotsShown
    <3>2. OpOK(t)'
      BY <1>1, <3>1 DEF OpOK, N, Rows
    <3> QED
      BY <1>3, <3>1, <3>2 DEF Inv, OneInserter, Active
  <2>3. CASE BeginOptimize(t)
    <3>1. op'[t].kind = "optimize" /\ op'[t].row = None
      BY <2>3 DEF BeginOptimize, Begin, Inv, Shapes
    <3> QED
      BY <1>3, <3>1 DEF Inv, OneInserter, Active, OpOK
  <2> QED
    BY <2>1, <2>2, <2>3, <1>noDelete DEF Request
<1> QED
  BY <1>4, <1>5, <1>7, <1>8, <1>10 DEF Inv

LEMMA ReadInv ==
  ASSUME Inv, NEW t \in Txns, ReadStops(t)
  PROVE  Inv'
<1> DEFINE s == Siblings(seq, op[t].row)
<1>1. /\ pc[t] = "reading" /\ pc' = [pc EXCEPT ![t] = "writing"]
      /\ UNCHANGED <<seq, used, op>>
      /\ \E p : plan' = [plan EXCEPT ![t] = p]
  BY DEF ReadStops, PlanWrites
<1>2. \A u \in Txns \ {t} : pc'[u] = pc[u] /\ plan'[u] = plan[u]
  BY <1>1 DEF Inv, Shapes
<1>3. \A u \in Txns \ {t} : OpOK(u)' /\ PlanOK(u)'
  BY <1>1, <1>2, OthersUnchanged
<1>4. OpOK(t) /\ Active(t) /\ pc'[t] = "writing"
  BY <1>1 DEF Inv, Active, Shapes
<1>5. RowsOK' /\ Shapes' /\ OpOK(t)'
  BY <1>1, <1>4 DEF Inv, RowsOK, Shapes, OpOK, Active, Rows, N
<1>6. OneInserter'
  BY <1>1, <1>2, <1>4 DEF Inv, OneInserter, Active
<1>7. IsFiniteSet(DOMAIN seq) /\ Dense(seq) /\ seq = [w \in DOMAIN seq |-> seq[w]]
  BY DEF Inv, RowsOK, Rows
<1>8. op[t].row \notin Rows => s = seq
  BY <1>7 DEF Siblings, Rows
<1>9. PlanOK(t)'
  <2>1. CASE op[t].kind = "insert"
    <3>1. op[t].row \notin DOMAIN seq /\ s = seq
      BY <1>4, <1>8, <2>1 DEF OpOK, Rows
    <3>2. plan'[t] \in InsertPlans(seq, op[t].row)
      BY <2>1, <3>1 DEF ReadStops, PlanWrites, Inv, Shapes
    <3>3. /\ DOMAIN plan'[t] \subseteq DOMAIN seq \cup {op[t].row}
          /\ op[t].row \in DOMAIN plan'[t]
          /\ \A v \in DOMAIN plan'[t] : plan'[t][v] \in 1..(Cardinality(DOMAIN seq) + 1)
      BY <1>7, <3>1, <3>2, InsertPlanInRange
    <3> QED
      BY <1>1, <2>1, <3>3 DEF PlanOK, Rows, N
  <2>2. CASE op[t].kind = "move"
    <3>1. /\ op[t].row \in DOMAIN seq /\ op[t].old \in 1..Cardinality(DOMAIN seq)
          /\ op[t].new \in 1..Cardinality(DOMAIN seq)
      BY <1>4, <2>2 DEF OpOK, Rows, N
    <3>2. plan'[t] = MovePlan(Siblings(seq, op[t].row), op[t].row, op[t].old, op[t].new)
      BY <2>2 DEF ReadStops, PlanWrites, Inv, Shapes
    <3>3. /\ DOMAIN plan'[t] \subseteq DOMAIN seq
          /\ \A v \in DOMAIN plan'[t] : plan'[t][v] \in 1..Cardinality(DOMAIN seq)
      BY <1>7, <3>1, <3>2, MovePlanInRange
    <3> QED
      BY <1>1, <2>2, <3>3 DEF PlanOK, Rows, N
  <2>3. CASE op[t].kind = "optimize"
    <3>1. s = seq
      BY <1>4, <1>8, <2>3, TxnAssumption DEF OpOK, Inv, RowsOK
    <3>2. plan'[t] \in OptimizePlans(seq)
      BY <2>3, <3>1 DEF ReadStops, PlanWrites, Inv, Shapes
    <3>3. /\ DOMAIN plan'[t] \subseteq DOMAIN seq
          /\ \A v \in DOMAIN plan'[t] : plan'[t][v] \in 1..Cardinality(DOMAIN seq)
      BY <1>7, <3>2, OptimizePlanInRange
    <3> QED
      BY <1>1, <2>3, <3>3 DEF PlanOK, Rows, N
  <2> QED
    BY <1>4, <2>1, <2>2, <2>3 DEF OpOK
<1> QED
  BY <1>3, <1>5, <1>6, <1>9 DEF Inv

\* A row written or skipped changes no number that will be stored.
LEMMA RowInv ==
  ASSUME Inv, NEW t \in Txns, NEW w \in Waypoints, UpdateRow(t, w) \/ SkipRow(t, w)
  PROVE  Inv'
<1>1. UNCHANGED <<seq, used, pc, op>>
  BY DEF UpdateRow, SkipRow
<1>2. \A u \in Txns \ {t} : plan'[u] = plan[u]
  BY DEF UpdateRow, SkipRow, Inv, Shapes
<1>3. \/ plan'[t] = plan[t]
      \/ /\ op[t].kind = "optimize"
         /\ plan'[t] = [x \in DOMAIN plan[t] \ {w} |-> plan[t][x]]
  BY DEF UpdateRow, SkipRow, Inv, Shapes
<1>4. \A u \in Txns : OpOK(u)' /\ PlanOK(u)'
  BY <1>1, <1>2, <1>3 DEF Inv, OpOK, PlanOK, Active, Rows, N
<1>5. RowsOK' /\ Shapes' /\ OneInserter'
  BY <1>1 DEF UpdateRow, SkipRow, Inv, RowsOK, Shapes, OneInserter, Active, Rows
<1> QED
  BY <1>4, <1>5 DEF Inv

\* A write that is refused leaves the trip and the other writes alone.
LEMMA RefusedInv ==
  ASSUME Inv, NEW t \in Txns, NEW how \in AtRest, End(t, how), seq' = seq
  PROVE  Inv'
<1>1. /\ UNCHANGED <<seq, used, op, plan>>
      /\ pc' = [pc EXCEPT ![t] = how]
  BY DEF End
<1>2. ~Active(t)' /\ pc'[t] # "writing"
  BY <1>1 DEF Active, AtRest, Inv, Shapes
<1>3. \A u \in Txns \ {t} : pc'[u] = pc[u]
  BY <1>1 DEF Inv, Shapes
<1>4. \A u \in Txns : OpOK(u)' /\ PlanOK(u)'
  BY <1>1, <1>2, <1>3 DEF Inv, OpOK, PlanOK, Active, Rows, N
<1>5. RowsOK' /\ Shapes' /\ OneInserter'
  BY <1>1, <1>2, <1>3 DEF Inv, RowsOK, Shapes, OneInserter, Active, Rows
<1> QED
  BY <1>4, <1>5 DEF Inv

(***************************************************************************)
(* The commit: the rows are those there were, and an insert's own; their   *)
(* numbers are in 1..N, and the constraint lets only different ones pass.  *)
(***************************************************************************)
LEMMA CommitInv ==
  ASSUME Inv, NEW t \in Txns, Commit(t)
  PROVE  Inv'
<1>1. /\ pc[t] = "writing" /\ seq' = Result(t) /\ Unique(seq')
      /\ UNCHANGED <<used, op, plan>>
      /\ pc' = [pc EXCEPT ![t] = "committed"]
  BY DEF Commit, End, ConstraintHolds
<1>2. OpOK(t) /\ PlanOK(t) /\ Active(t) /\ RowsOK
  BY <1>1 DEF Inv, Active
<1>3. seq' = Overlay(seq, plan[t])
  BY <1>1, <1>2 DEF Result, OpOK
<1>4. DOMAIN seq' = DOMAIN seq \cup DOMAIN plan[t] /\ seq' = [w \in DOMAIN seq' |-> seq'[w]]
  BY <1>3 DEF Overlay
<1>5. /\ IsFiniteSet(DOMAIN seq) /\ N \in Nat
      /\ \A w \in DOMAIN seq : seq[w] \in 1..N
  BY <1>2, DenseRange DEF RowsOK, Rows, N
<1>6. /\ IsFiniteSet(DOMAIN seq') /\ N' \in Nat /\ N <= N'
      /\ \A w \in DOMAIN seq' : seq'[w] \in 1..N'
      /\ Rows' \subseteq Rows \cup (IF op[t].kind = "insert" THEN {op[t].row} ELSE {})
  <2>1. CASE op[t].kind = "insert"
    <3>1. op[t].row \notin DOMAIN seq /\ DOMAIN seq' = DOMAIN seq \cup {op[t].row}
      BY <1>1, <1>2, <1>4, <2>1 DEF OpOK, PlanOK, Rows
    <3>2. IsFiniteSet(DOMAIN seq') /\ N' = N + 1
      BY <1>5, <3>1, FS_AddElement DEF N, Rows
    <3>3. \A w \in DOMAIN seq' : seq'[w] \in 1..N'
      BY <1>1, <1>2, <1>3, <1>5, <2>1, <3>1, <3>2 DEF Overlay, PlanOK
    <3> QED
      BY <1>5, <2>1, <3>1, <3>2, <3>3 DEF Rows
  <2>2. CASE op[t].kind # "insert"
    <3>1. DOMAIN seq' = DOMAIN seq
      BY <1>1, <1>2, <1>4, <2>2 DEF PlanOK, Rows
    <3>2. IsFiniteSet(DOMAIN seq') /\ N' = N
      BY <1>5, <3>1 DEF N, Rows
    <3>3. \A w \in DOMAIN seq' : seq'[w] \in 1..N'
      BY <1>1, <1>2, <1>3, <1>5, <2>2, <3>1, <3>2 DEF Overlay, PlanOK
    <3> QED
      BY <1>5, <2>2, <3>1, <3>2, <3>3 DEF Rows
  <2> QED
    BY <2>1, <2>2
<1>7. Dense(seq')
  <2> DEFINE r == seq'
  <2>1. /\ IsFiniteSet(DOMAIN r) /\ Unique(r)
        /\ r \in [DOMAIN r -> 1..Cardinality(DOMAIN r)]
    BY <1>1, <1>4, <1>6 DEF N, Rows
  <2> HIDE DEF r
  <2>2. Dense(r)
    BY <2>1, UniqueInRangeIsDense
  <2> QED
    BY <2>2 DEF r
<1>8. RowsOK'
  <2>1. Rows' \subseteq used' /\ used' \subseteq Waypoints
    BY <1>1, <1>2, <1>6 DEF RowsOK, OpOK
  <2> QED
    BY <1>4, <1>6, <1>7, <2>1 DEF RowsOK, Rows
<1>9. ~Active(t)' /\ pc'[t] # "writing" /\ \A u \in Txns \ {t} : pc'[u] = pc[u]
  BY <1>1 DEF Active, Inv, Shapes
<1>10. \A u \in Txns \ {t} : OpOK(u)' /\ PlanOK(u)'
  <2> SUFFICES ASSUME NEW u \in Txns \ {t} PROVE OpOK(u)' /\ PlanOK(u)'
    OBVIOUS
  <2>1. op[u].kind = "insert" /\ Active(u) => op[u].row \notin Rows'
    BY <1>2, <1>6 DEF Inv, OneInserter, OpOK
  <2>2. Rows \subseteq Rows'
    BY <1>4 DEF Rows
  <2> QED
    BY <1>1, <1>5, <1>6, <1>9, <2>1, <2>2, GrowthKeepsOthers
<1>11. OpOK(t)' /\ PlanOK(t)' /\ Shapes' /\ OneInserter'
  BY <1>1, <1>9 DEF Inv, OpOK, PlanOK, Shapes, OneInserter, Active, AtRest
<1> QED
  BY <1>8, <1>10, <1>11 DEF Inv

\* Before its request a write asks for nothing; what it asks for never changes.
Asked ==
  /\ op = [t \in Txns |-> op[t]]
  /\ pc = [t \in Txns |-> pc[t]]
  /\ \A t \in Txns : pc[t] = "idle" => op[t] = NoOp

LEMMA NextInv ==
  ASSUME Inv, NobodyDeletes, NobodyDeletes', [Next]_vars
  PROVE  Inv'
<1>1. ASSUME NEW t \in Txns, Request(t) PROVE Inv'
  BY <1>1, BeginInv
<1>2. ASSUME NEW t \in Txns, Step(t) PROVE Inv'
  <2>1. ~DeleteRow(t)
    BY DEF DeleteRow, Inv, Shapes, AtRest
  <2>2. CASE ReadStops(t)
    BY <2>2, ReadInv
  <2>3. CASE \E w \in Waypoints : UpdateRow(t, w) \/ SkipRow(t, w)
    BY <2>3, RowInv
  <2>4. CASE (\E w \in Waypoints : StaleRow(t, w)) \/ UniqueViolation(t) \/ DeadlockVictim(t)
    <3>1. PICK how \in AtRest : End(t, how) /\ seq' = seq
      BY <2>4 DEF StaleRow, UniqueViolation, DeadlockVictim, AtRest
    <3> QED
      BY <3>1, RefusedInv
  <2>5. CASE Commit(t)
    BY <2>5, CommitInv
  <2> QED
    BY <1>2, <2>1, <2>2, <2>3, <2>4, <2>5 DEF Step
<1>3. CASE UNCHANGED vars
  BY <1>3 DEF vars, Inv, RowsOK, Shapes, OpOK, PlanOK, OneInserter, Active, Rows, N
<1> QED
  BY <1>1, <1>2, <1>3 DEF Next

\* A step after which nobody deletes follows a state in which nobody did.
LEMMA NextAsked ==
  ASSUME Asked, [Next]_vars
  PROVE  Asked' /\ (NobodyDeletes' => NobodyDeletes)
<1>1. ASSUME NEW t \in Txns, Request(t) PROVE Asked' /\ (NobodyDeletes' => NobodyDeletes)
  <2>1. PICK r, where : /\ op' = [op EXCEPT ![t] = r] /\ pc[t] = "idle"
                        /\ pc' = [pc EXCEPT ![t] = where] /\ where # "idle"
    BY <1>1 DEF Request, BeginInsert, BeginMove, BeginDelete, BeginOptimize, Begin
  <2>2. op[t].kind # "delete" /\ \A u \in Txns \ {t} : op'[u] = op[u]
    BY <2>1 DEF Asked, NoOp
  <2>3. \A u \in Txns : pc'[u] = "idle" => u # t /\ pc[u] = "idle"
    BY <2>1 DEF Asked
  <2>4. op' = [u \in Txns |-> op'[u]] /\ pc' = [u \in Txns |-> pc'[u]]
    BY <2>1 DEF Asked
  <2> QED
    BY <2>2, <2>3, <2>4 DEF Asked, NobodyDeletes
<1>2. ASSUME NEW t \in Txns, Step(t) PROVE Asked' /\ (NobodyDeletes' => NobodyDeletes)
  <2>1. op' = op
    BY <1>2 DEF Step, DeleteRow, ReadStops, UpdateRow, SkipRow, StaleRow, Commit,
               UniqueViolation, DeadlockVictim, End
  <2>2. pc' = pc \/ \E where : pc' = [pc EXCEPT ![t] = where] /\ where # "idle"
    BY <1>2 DEF Step, DeleteRow, ReadStops, UpdateRow, SkipRow, StaleRow, Commit,
               UniqueViolation, DeadlockVictim, End
  <2>3. pc' = [u \in Txns |-> pc'[u]] /\ \A u \in Txns : pc'[u] = "idle" => pc[u] = "idle"
    BY <2>2 DEF Asked
  <2> QED
    BY <2>1, <2>3 DEF Asked, NobodyDeletes
<1>3. CASE UNCHANGED vars
  BY <1>3 DEF vars, Asked, NobodyDeletes
<1> QED
  BY <1>1, <1>2, <1>3 DEF Next

IInv == Asked /\ (NobodyDeletes => Inv)

\* Inserts, moves and recomputes may overlap in any way: until somebody deletes
\* a stop, every committed trip is numbered 1..N without gap or repetition.
THEOREM DenseWithoutDeletes == Spec => []DenseUnlessDeleted
<1>1. Init => IInv
  BY InitInv DEF IInv, Init, Asked
<1>2. IInv /\ [Next]_vars => IInv'
  BY NextAsked, NextInv DEF IInv
<1>3. IInv => DenseUnlessDeleted
  BY DEF IInv, Inv, RowsOK, DenseUnlessDeleted
<1> QED
  BY <1>1, <1>2, <1>3, PTL DEF Spec

-----------------------------------------------------------------------------
(***************************************************************************)
(* What holds with deletes too.  The trip may have gaps now, but its stops *)
(* are always distinctly numbered, and a write in flight keeps what it     *)
(* worked out from the stops it read.                                      *)
(***************************************************************************)
IntNumbers(s) == s \in [DOMAIN s -> Int]

Forms ==
  /\ pc = [t \in Txns |-> pc[t]]
  /\ op = [t \in Txns |-> op[t]]
  /\ snap = [t \in Txns |-> snap[t]]
  /\ plan = [t \in Txns |-> plan[t]]

TripOK ==
  /\ IsFiniteSet(used)
  /\ Rows \subseteq used
  /\ IntNumbers(seq)
  /\ Unique(seq)

\* A destination is planned one slot behind the new stop.
PlannedBeforeDestination(t) ==
  \E d \in DOMAIN plan[t] :
    StopType[d] = DESTINATION /\ plan[t][d] = plan[t][op[t].row] + 1

WriteOK(t) ==
  /\ pc[t] # "idle" => /\ op[t].kind \in {"insert", "move"} => op[t].row \in used
                       /\ op[t].kind = "move" => op[t].old \in Int /\ op[t].new \in Int
  /\ pc[t] = "writing" =>
       /\ IntNumbers(plan[t])
       /\ DOMAIN plan[t] \subseteq used
       /\ op[t].kind = "delete" => plan[t] = DeletePlan(snap[t])
       /\ op[t].kind = "insert" /\ BeforeDestination(snap[t], op[t].row)
          => op[t].row \in DOMAIN plan[t] /\ PlannedBeforeDestination(t)

HealInv == Forms /\ TripOK /\ \A t \in Txns : WriteOK(t)

\* The numbers the plans store are integers, whatever gaps the trip has.
LEMMA PlaceIsInt ==
  ASSUME NEW s, IsFiniteSet(DOMAIN s), IntNumbers(s), Unique(s),
         NEW w, NEW k \in PlaceSlots(s, w)
  PROVE  k \in Int
<1>1. CASE BeforeDestination(s, w)
  BY <1>1 DEF PlaceSlots, Destinations, IntNumbers
<1>2. CASE ~BeforeDestination(s, w) /\ DOMAIN s = {}
  BY <1>2 DEF PlaceSlots, LastSlot
<1>3. CASE ~BeforeDestination(s, w) /\ DOMAIN s # {}
  <2> DEFINE IsLast(n) == \A v \in DOMAIN s : s[v] <= n
             L == CHOOSE n \in {s[v] : v \in DOMAIN s} : IsLast(n)
  <2>1. PICK v \in DOMAIN s : IsLast(s[v])
    BY <1>3, OneIsLast DEF IntNumbers
  <2>2. L \in {s[v2] : v2 \in DOMAIN s}
    BY <2>1
  <2>3. L \in Int
    BY <2>2 DEF IntNumbers
  <2> QED
    BY <1>3, <2>3 DEF PlaceSlots, LastSlot
<1> QED
  BY <1>1, <1>2, <1>3

LEMMA InsertPlanIsInt ==
  ASSUME NEW s, IsFiniteSet(DOMAIN s), IntNumbers(s), Unique(s),
         NEW w, w \notin DOMAIN s, NEW p \in InsertPlans(s, w)
  PROVE  /\ IntNumbers(p)
         /\ DOMAIN p \subseteq DOMAIN s \cup {w}
         /\ BeforeDestination(s, w)
            => /\ w \in DOMAIN p
               /\ \E d \in DOMAIN p : StopType[d] = DESTINATION /\ p[d] = p[w] + 1
<1>1. PICK k \in PlaceSlots(s, w) :
        p = OnlyChanged(s, Overlay(ShiftForInsert(s, w, k), [x \in {w} |-> k]))
  BY DEF InsertPlans
<1> DEFINE t == Overlay(ShiftForInsert(s, w, k), [x \in {w} |-> k])
<1>2. k \in Int
  BY PlaceIsInt
<1>3. /\ DOMAIN t = DOMAIN s \cup {w} /\ t[w] = k
      /\ \A v \in DOMAIN s : t[v] = ShiftForInsert(s, w, k)[v]
  BY DEF Overlay, ShiftForInsert, ShiftFrom
<1>4. \A v \in DOMAIN s : ShiftForInsert(s, w, k)[v] \in Int
  BY DEF ShiftForInsert, ShiftFrom, IntNumbers
<1>5. \A v \in DOMAIN t : t[v] \in Int
  BY <1>2, <1>3, <1>4
<1>6. ASSUME BeforeDestination(s, w)
      PROVE  \E d \in DOMAIN s : StopType[d] = DESTINATION /\ s[d] = k /\ t[d] = k + 1
  <2>1. PICK d \in Destinations(s) : s[d] = k
    BY <1>6 DEF PlaceSlots
  <2>2. d \in DOMAIN s /\ StopType[d] = DESTINATION
    BY <2>1 DEF Destinations
  <2>3. t[d] = k + 1
    BY <1>2, <1>3, <1>6, <2>1, <2>2 DEF ShiftForInsert, ShiftFrom
  <2> QED
    BY <2>1, <2>2, <2>3
<1> HIDE DEF t
<1>7. IntNumbers(p) /\ DOMAIN p \subseteq DOMAIN t
  BY <1>1, <1>5 DEF OnlyChanged, Changed, IntNumbers, t
<1>8. \A v \in DOMAIN t : v \notin DOMAIN s \/ t[v] # s[v] => v \in DOMAIN p /\ p[v] = t[v]
  BY <1>1 DEF OnlyChanged, Changed, t
<1>9. w \in DOMAIN p /\ p[w] = k
  BY <1>3, <1>8
<1>10. ASSUME BeforeDestination(s, w)
       PROVE  \E d \in DOMAIN p : StopType[d] = DESTINATION /\ p[d] = p[w] + 1
  <2>1. PICK d \in DOMAIN s : StopType[d] = DESTINATION /\ s[d] = k /\ t[d] = k + 1
    BY <1>6, <1>10
  <2>2. t[d] # s[d]
    BY <1>2, <2>1
  <2> QED
    BY <1>3, <1>8, <1>9, <2>1, <2>2
<1> QED
  BY <1>3, <1>7, <1>9, <1>10

LEMMA MovePlanIsInt ==
  ASSUME NEW s, IntNumbers(s), NEW w, NEW old \in Int, NEW new \in Int
  PROVE  /\ IntNumbers(MovePlan(s, w, old, new))
         /\ DOMAIN MovePlan(s, w, old, new) \subseteq DOMAIN s \cup {w}
<1> DEFINE c == OnlyChanged(s, ShiftForMove(s, old, new))
<1>1. DOMAIN c \subseteq DOMAIN s
  BY DEF OnlyChanged, Changed, ShiftForMove
<1>2. \A v \in DOMAIN c : c[v] = IF new <= s[v] /\ s[v] < old THEN s[v] + 1
                                 ELSE IF old < s[v] /\ s[v] <= new THEN s[v] - 1
                                 ELSE s[v]
  BY <1>1 DEF OnlyChanged, ShiftForMove
<1>3. \A v \in DOMAIN c : c[v] \in Int
  BY <1>1, <1>2 DEF IntNumbers
<1>4. MovePlan(s, w, old, new) = Overlay(c, [x \in {w} |-> new])
  BY DEF MovePlan
<1> HIDE DEF c
<1> QED
  BY <1>1, <1>3, <1>4 DEF Overlay, IntNumbers

LEMMA RenumberIsInt ==
  ASSUME NEW s, IsFiniteSet(DOMAIN s), IntNumbers(s), Unique(s)
  PROVE  IntNumbers(Renumber(s)) /\ DOMAIN Renumber(s) = DOMAIN s /\ Dense(Renumber(s))
<1>1. Dense(Renumber(s)) /\ DOMAIN Renumber(s) = DOMAIN s
  BY RenumberIsDense DEF Renumber, IntNumbers
<1>2. \A v \in DOMAIN s : Renumber(s)[v] \in Int
  BY <1>1, DenseRange
<1>3. Renumber(s) = [v \in DOMAIN s |-> Renumber(s)[v]]
  BY DEF Renumber
<1> QED
  BY <1>1, <1>2, <1>3 DEF IntNumbers

LEMMA DeletePlanIsInt ==
  ASSUME NEW s, IsFiniteSet(DOMAIN s), IntNumbers(s), Unique(s)
  PROVE  /\ IntNumbers(DeletePlan(s))
         /\ DOMAIN DeletePlan(s) \subseteq DOMAIN s
         /\ Dense(Overlay(s, DeletePlan(s)))
<1>1. IntNumbers(Renumber(s)) /\ DOMAIN Renumber(s) = DOMAIN s /\ Dense(Renumber(s))
  BY RenumberIsInt
<1> DEFINE r == Renumber(s)
<1>2. DeletePlan(s) = OnlyChanged(s, r)
  BY DEF DeletePlan
<1> HIDE DEF r
<1>3. IntNumbers(OnlyChanged(s, r)) /\ DOMAIN OnlyChanged(s, r) \subseteq DOMAIN s
  BY <1>1 DEF OnlyChanged, Changed, IntNumbers, r
<1>4. Overlay(s, OnlyChanged(s, r)) = r
  <2>1. DOMAIN r = DOMAIN s /\ r = [v \in DOMAIN s |-> r[v]]
    BY <1>1 DEF IntNumbers, r
  <2> QED
    BY <2>1 DEF Overlay, OnlyChanged, Changed
<1> QED
  BY <1>1, <1>2, <1>3, <1>4 DEF r

LEMMA OptimizePlanIsInt ==
  ASSUME NEW s, IsFiniteSet(DOMAIN s), IntNumbers(s), Unique(s), NEW p \in OptimizePlans(s)
  PROVE  IntNumbers(p) /\ DOMAIN p \subseteq DOMAIN s
<1>1. PICK r \in OptimizedOrders(s) : p = IF SameOrder(r, s) THEN NoRows ELSE r
  BY DEF OptimizePlans
<1>2. CASE r = Renumber(s)
  BY <1>1, <1>2, RenumberIsInt DEF NoRows, IntNumbers
<1>3. CASE r \in [DOMAIN s -> 1..Cardinality(DOMAIN s)]
  BY <1>1, <1>3 DEF NoRows, IntNumbers
<1> QED
  BY <1>2, <1>3 DEF OptimizedOrders

-----------------------------------------------------------------------------
LEMMA InitHeal == Init => HealInv
<1> SUFFICES ASSUME Init PROVE HealInv
  OBVIOUS
<1>1. TripOK
  BY TxnAssumption DEF Init, TripOK, Rows, IntNumbers, Dense
<1>2. Forms /\ \A t \in Txns : pc[t] = "idle"
  BY DEF Init, Forms
<1> QED
  BY <1>1, <1>2 DEF HealInv, WriteOK

\* A write that changes nothing of its own is as good as it was.
LEMMA OthersHeal ==
  ASSUME HealInv, NEW u \in Txns, used \subseteq used',
         pc'[u] = pc[u], op'[u] = op[u], snap'[u] = snap[u], plan'[u] = plan[u]
  PROVE  WriteOK(u)'
BY DEF HealInv, WriteOK, PlannedBeforeDestination

LEMMA BeginHeals ==
  ASSUME HealInv, NEW t \in Txns, Request(t)
  PROVE  HealInv'
<1>1. /\ UNCHANGED <<seq, snap, plan>> /\ used \subseteq used'
      /\ \E r, where : op' = [op EXCEPT ![t] = r] /\ pc' = [pc EXCEPT ![t] = where]
  BY DEF Request, BeginInsert, BeginMove, BeginDelete, BeginOptimize, Begin
<1>2. Forms'
  BY <1>1 DEF HealInv, Forms
<1>3. IsFiniteSet(used')
  <2>1. used' = used \/ \E w : used' = used \cup {w}
    BY DEF Request, BeginInsert, BeginMove, BeginDelete, BeginOptimize
  <2> QED
    BY <2>1, FS_AddElement DEF HealInv, TripOK
<1>4. TripOK'
  BY <1>1, <1>3 DEF HealInv, TripOK, Rows
<1>5. \A u \in Txns \ {t} : pc'[u] = pc[u] /\ op'[u] = op[u]
  BY <1>1 DEF HealInv, Forms
<1>6. \A u \in Txns \ {t} : WriteOK(u)'
  BY <1>1, <1>5, OthersHeal
<1>7. WriteOK(t)'
  <2>1. pc'[t] # "writing"
    BY DEF Request, BeginInsert, BeginMove, BeginDelete, BeginOptimize, Begin, HealInv, Forms
  <2>2. CASE \E w \in Waypoints : BeginInsert(t, w)
    <3>1. op'[t].kind = "insert" /\ op'[t].row \in used'
      BY <2>2 DEF BeginInsert, Begin, HealInv, Forms
    <3> QED
      BY <2>1, <3>1 DEF WriteOK
  <2>3. CASE \E w \in Waypoints, k \in SlotsShown : BeginMove(t, w, k)
    <3>1. PICK w \in Waypoints, k \in SlotsShown : BeginMove(t, w, k)
      BY <2>3
    <3>2. op'[t] = [kind |-> "move", row |-> w, old |-> seq[w], new |-> k] /\ w \in Rows
      BY <3>1 DEF BeginMove, Begin, HealInv, Forms
    <3>3. w \in used' /\ seq[w] \in Int
      BY <1>1, <3>2 DEF HealInv, TripOK, IntNumbers, Rows
    <3>4. k \in Int
      BY <3>1 DEF SlotsShown
    <3> QED
      BY <2>1, <3>2, <3>3, <3>4 DEF WriteOK
  <2>4. CASE BeginOptimize(t) \/ \E w \in Waypoints : BeginDelete(t, w)
    <3>1. op'[t].kind \in {"optimize", "delete"}
      BY <2>4 DEF BeginOptimize, BeginDelete, Begin, HealInv, Forms
    <3> QED
      BY <2>1, <3>1 DEF WriteOK
  <2> QED
    BY <2>2, <2>3, <2>4 DEF Request
<1> QED
  BY <1>2, <1>4, <1>6, <1>7 DEF HealInv

LEMMA ReadHeals ==
  ASSUME HealInv, NEW t \in Txns, ReadStops(t)
  PROVE  HealInv'
<1> DEFINE s == Siblings(seq, op[t].row)
<1>1. /\ pc[t] = "reading" /\ pc' = [pc EXCEPT ![t] = "writing"]
      /\ snap' = [snap EXCEPT ![t] = s]
      /\ UNCHANGED <<seq, used, op>>
      /\ \E p : plan' = [plan EXCEPT ![t] = p]
  BY DEF ReadStops, PlanWrites
<1>2. Forms'
  BY <1>1 DEF HealInv, Forms
<1>3. TripOK'
  BY <1>1 DEF HealInv, TripOK, Rows
<1>4. /\ pc'[t] = "writing" /\ snap'[t] = s
      /\ \A u \in Txns \ {t} : pc'[u] = pc[u] /\ snap'[u] = snap[u] /\ plan'[u] = plan[u]
  BY <1>1 DEF HealInv, Forms
<1>5. \A u \in Txns \ {t} : WriteOK(u)'
  BY <1>1, <1>4, OthersHeal
<1>6. DOMAIN s \subseteq used /\ op[t].row \notin DOMAIN s
  BY DEF Siblings, HealInv, TripOK, Rows
<1>7. IsFiniteSet(DOMAIN s) /\ IntNumbers(s) /\ Unique(s)
  <2>1. IsFiniteSet(DOMAIN s)
    BY <1>6, FS_Subset DEF HealInv, TripOK
  <2> QED
    BY <2>1 DEF Siblings, HealInv, TripOK, IntNumbers, Unique
<1>8. WriteOK(t)
  BY DEF HealInv
<1> HIDE DEF s
<1>9. /\ IntNumbers(plan'[t])
      /\ DOMAIN plan'[t] \subseteq used
      /\ op[t].kind = "delete" => plan'[t] = DeletePlan(s)
      /\ op[t].kind = "insert" /\ BeforeDestination(s, op[t].row)
         => op[t].row \in DOMAIN plan'[t] /\ PlannedBeforeDestination(t)'
  <2>1. CASE op[t].kind = "insert"
    <3>1. plan'[t] \in InsertPlans(s, op[t].row)
      BY <2>1 DEF ReadStops, PlanWrites, HealInv, Forms, s
    <3>2. op[t].row \in used
      BY <1>1, <1>8, <2>1 DEF WriteOK
    <3>3. PICK p : p = plan'[t]
      OBVIOUS
    <3>4. /\ IntNumbers(p)
          /\ DOMAIN p \subseteq DOMAIN s \cup {op[t].row}
          /\ BeforeDestination(s, op[t].row)
             => /\ op[t].row \in DOMAIN p
                /\ \E d \in DOMAIN p : StopType[d] = DESTINATION /\ p[d] = p[op[t].row] + 1
      BY <1>6, <1>7, <3>1, <3>3, InsertPlanIsInt
    <3> QED
      BY <1>1, <1>6, <2>1, <3>2, <3>3, <3>4 DEF PlannedBeforeDestination
  <2>2. CASE op[t].kind = "move"
    <3>1. plan'[t] = MovePlan(s, op[t].row, op[t].old, op[t].new)
      BY <2>2 DEF ReadStops, PlanWrites, HealInv, Forms, s
    <3>2. op[t].row \in used /\ op[t].old \in Int /\ op[t].new \in Int
      BY <1>1, <1>8, <2>2 DEF WriteOK
    <3> QED
      BY <1>6, <1>7, <2>2, <3>1, <3>2, MovePlanIsInt
  <2>3. CASE op[t].kind = "delete"
    <3>1. plan'[t] = DeletePlan(s)
      BY <2>3 DEF ReadStops, PlanWrites, HealInv, Forms, s
    <3> QED
      BY <1>6, <1>7, <2>3, <3>1, DeletePlanIsInt
  <2>4. CASE op[t].kind = "optimize"
    <3>1. plan'[t] \in OptimizePlans(s)
      BY <2>4 DEF ReadStops, PlanWrites, HealInv, Forms, s
    <3> QED
      BY <1>6, <1>7, <2>4, <3>1, OptimizePlanIsInt
  <2> QED
    BY <2>1, <2>2, <2>3, <2>4 DEF ReadStops
<1>10. WriteOK(t)'
  BY <1>1, <1>4, <1>8, <1>9 DEF WriteOK
<1> QED
  BY <1>2, <1>3, <1>5, <1>10 DEF HealInv

\* The steps that store nothing and plan nothing new.
LEMMA QuietHeals ==
  ASSUME HealInv, NEW t \in Txns, NEW where, where \notin {"idle", "writing"},
         pc[t] # "idle", pc' = [pc EXCEPT ![t] = where], UNCHANGED <<seq, used, op, snap, plan>>
  PROVE  HealInv'
<1>1. Forms' /\ TripOK'
  BY DEF HealInv, Forms, TripOK, Rows
<1>2. pc'[t] = where /\ \A u \in Txns \ {t} : pc'[u] = pc[u]
  BY DEF HealInv, Forms
<1>3. \A u \in Txns \ {t} : WriteOK(u)'
  BY <1>2, OthersHeal
<1>4. WriteOK(t)'
  BY <1>2 DEF HealInv, WriteOK
<1> QED
  BY <1>1, <1>3, <1>4 DEF HealInv

\* Only the optimizer leaves out a row it had planned.
LEMMA RowHeals ==
  ASSUME HealInv, NEW t \in Txns, NEW w \in Waypoints, UpdateRow(t, w) \/ SkipRow(t, w)
  PROVE  HealInv'
<1>1. UNCHANGED <<seq, used, pc, op, snap>>
  BY DEF UpdateRow, SkipRow
<1>2. Forms' /\ TripOK'
  BY <1>1 DEF UpdateRow, SkipRow, HealInv, Forms, TripOK, Rows
<1>3. \A u \in Txns \ {t} : plan'[u] = plan[u]
  BY DEF UpdateRow, SkipRow, HealInv, Forms
<1>4. \A u \in Txns \ {t} : WriteOK(u)'
  BY <1>1, <1>3, OthersHeal
<1>5. WriteOK(t)'
  <2>1. CASE UpdateRow(t, w)
    <3>1. plan'[t] = plan[t]
      BY <2>1 DEF UpdateRow
    <3> QED
      BY <1>1, <3>1, OthersHeal
  <2>2. CASE SkipRow(t, w)
    <3>1. /\ op[t].kind = "optimize"
          /\ plan'[t] = [x \in DOMAIN plan[t] \ {w} |-> plan[t][x]]
      BY <2>2 DEF SkipRow, HealInv, Forms
    <3> QED
      BY <1>1, <3>1 DEF HealInv, WriteOK, IntNumbers
  <2> QED
    BY <2>1, <2>2
<1> QED
  BY <1>2, <1>4, <1>5 DEF HealInv

LEMMA CommitHeals ==
  ASSUME HealInv, NEW t \in Txns, Commit(t)
  PROVE  HealInv'
<1>1. /\ pc[t] = "writing" /\ seq' = Result(t) /\ Unique(seq')
      /\ UNCHANGED <<used, op, snap, plan>>
      /\ pc' = [pc EXCEPT ![t] = "committed"]
  BY DEF Commit, End, ConstraintHolds
<1> DEFINE s == IF op[t].kind = "delete" THEN Siblings(seq, op[t].row) ELSE seq
<1>2. IntNumbers(s) /\ DOMAIN s \subseteq used
  BY DEF HealInv, TripOK, IntNumbers, Siblings, Rows
<1>3. IntNumbers(plan[t]) /\ DOMAIN plan[t] \subseteq used
  BY <1>1 DEF HealInv, WriteOK
<1>4. seq' = Overlay(s, plan[t])
  BY <1>1 DEF Result
<1> HIDE DEF s
<1>5. IntNumbers(seq') /\ DOMAIN seq' \subseteq used
  BY <1>2, <1>3, <1>4 DEF Overlay, IntNumbers
<1>6. TripOK'
  BY <1>1, <1>5 DEF HealInv, TripOK, Rows
<1>7. Forms' /\ pc'[t] = "committed" /\ \A u \in Txns \ {t} : pc'[u] = pc[u]
  BY <1>1 DEF HealInv, Forms
<1>8. \A u \in Txns \ {t} : WriteOK(u)'
  BY <1>1, <1>7, OthersHeal
<1>9. WriteOK(t)'
  BY <1>1, <1>7 DEF HealInv, WriteOK
<1> QED
  BY <1>6, <1>7, <1>8, <1>9 DEF HealInv

LEMMA NextHeals == HealInv /\ [Next]_vars => HealInv'
<1> SUFFICES ASSUME HealInv, [Next]_vars PROVE HealInv'
  OBVIOUS
<1>1. CASE UNCHANGED vars
  <2>1. Forms' /\ TripOK'
    BY <1>1 DEF vars, HealInv, Forms, TripOK, Rows
  <2>2. \A u \in Txns : WriteOK(u)'
    BY <1>1, OthersHeal DEF vars
  <2> QED
    BY <2>1, <2>2 DEF HealInv
<1>2. ASSUME NEW t \in Txns, Request(t) PROVE HealInv'
  BY <1>2, BeginHeals
<1>3. ASSUME NEW t \in Txns, Step(t) PROVE HealInv'
  <2>1. CASE ReadStops(t)
    BY <2>1, ReadHeals
  <2>2. CASE Commit(t)
    BY <2>2, CommitHeals
  <2>3. CASE \E w \in Waypoints : UpdateRow(t, w) \/ SkipRow(t, w)
    BY <2>3, RowHeals
  <2>4. CASE DeleteRow(t)
    <3>1. /\ pc[t] = "deleting" /\ pc' = [pc EXCEPT ![t] = "reading"]
          /\ UNCHANGED <<seq, used, op, snap, plan>>
      BY <2>4 DEF DeleteRow
    <3> QED
      BY <3>1, QuietHeals
  <2>5. CASE (\E w \in Waypoints : StaleRow(t, w)) \/ UniqueViolation(t)
    <3>1. PICK where \in {"stale", "collided"} : End(t, where) /\ seq' = seq
      BY <2>5 DEF StaleRow, UniqueViolation
    <3>2. pc[t] = "writing"
      BY <2>5 DEF StaleRow, UniqueViolation, Todo
    <3> QED
      BY <3>1, <3>2, QuietHeals DEF End
  <2>6. CASE DeadlockVictim(t)
    <3>1. End(t, "deadlocked") /\ seq' = seq
      BY <2>6 DEF DeadlockVictim
    <3>2. CASE pc[t] # "idle"
      BY <3>1, <3>2, QuietHeals DEF End
    <3>3. CASE pc[t] = "idle"
      <4>1. Wanted(t) = {}
        BY <3>3 DEF Wanted, Todo
      <4> QED
        BY <2>6, <4>1 DEF DeadlockVictim, InDeadlock
    <3> QED
      BY <3>2, <3>3
  <2> QED
    BY <1>3, <2>1, <2>2, <2>3, <2>4, <2>5, <2>6 DEF Step
<1> QED
  BY <1>1, <1>2, <1>3 DEF Next

LEMMA SpecHeals == Spec => []HealInv
BY InitHeal, NextHeals, PTL DEF Spec

\* Only a commit commits.
LEMMA OnlyCommitCommits ==
  ASSUME Forms, [Next]_vars, NEW t \in Txns, Commits(t)
  PROVE  Commit(t)
<1>1. pc'[t] = "committed" /\ pc[t] # "committed"
  BY DEF Commits
<1>2. ~UNCHANGED vars
  BY <1>1 DEF vars
<1>3. ASSUME NEW u \in Txns, Request(u) PROVE FALSE
  <2>1. PICK where \in {"reading", "deleting"} : pc' = [pc EXCEPT ![u] = where]
    BY <1>3 DEF Request, BeginInsert, BeginMove, BeginDelete, BeginOptimize, Begin
  <2> QED
    BY <1>1, <2>1 DEF Forms
<1>4. ASSUME NEW u \in Txns, Step(u), ~Commit(u) PROVE FALSE
  <2>1. pc' = pc \/ \E where : pc' = [pc EXCEPT ![u] = where] /\ where # "committed"
    BY <1>4 DEF Step, DeleteRow, ReadStops, UpdateRow, SkipRow, StaleRow, UniqueViolation,
                DeadlockVictim, End
  <2> QED
    BY <1>1, <2>1 DEF Forms
<1>5. PICK u \in Txns : Commit(u)
  BY <1>2, <1>3, <1>4 DEF Next
<1>6. u = t
  BY <1>1, <1>5 DEF Commit, End, Forms
<1> QED
  BY <1>5, <1>6

\* A delete that nobody interfered with leaves the trip dense, whatever gaps it
\* found: it renumbers every stop that is left.
THEOREM DeletesHeal == Spec => DeleteHeals
<1>1. ASSUME HealInv, [Next]_vars, NEW t \in Txns, Commits(t), op[t].kind = "delete",
             snap[t] = Siblings(seq, op[t].row)
      PROVE  Dense(seq')
  <2> DEFINE s == Siblings(seq, op[t].row)
  <2>1. pc[t] = "writing" /\ seq' = Overlay(s, plan[t])
    BY <1>1, OnlyCommitCommits DEF HealInv, Commit, Result
  <2>2. plan[t] = DeletePlan(s)
    BY <1>1, <2>1 DEF HealInv, WriteOK
  <2>3. IsFiniteSet(DOMAIN s) /\ IntNumbers(s) /\ Unique(s)
    <3>1. DOMAIN s \subseteq used
      BY <1>1 DEF Siblings, HealInv, TripOK, Rows
    <3>2. IsFiniteSet(DOMAIN s)
      BY <1>1, <3>1, FS_Subset DEF HealInv, TripOK
    <3> QED
      BY <1>1, <3>2 DEF Siblings, HealInv, TripOK, IntNumbers, Unique
  <2> HIDE DEF s
  <2>4. Dense(Overlay(s, DeletePlan(s)))
    BY <2>3, DeletePlanIsInt
  <2> QED
    BY <2>1, <2>2, <2>4
<1>2. HealInv /\ [Next]_vars
      => [\A t \in Txns :
            Commits(t) /\ op[t].kind = "delete" /\ snap[t] = Siblings(seq, op[t].row)
            => Dense(seq')]_vars
  BY <1>1
<1> QED
  BY <1>2, SpecHeals, PTL DEF Spec, DeleteHeals

\* An intermediate stop whose transaction saw a destination is committed just
\* before one, whatever writes its transaction overlapped: it stores both numbers,
\* and it fails when one of the two rows is gone.
THEOREM InsertsLand == Spec => InsertLandsBeforeDestination
<1>1. ASSUME HealInv, [Next]_vars, NEW t \in Txns, Commits(t), op[t].kind = "insert",
             BeforeDestination(snap[t], op[t].row)
      PROVE  \E d \in Destinations(seq') : seq'[d] = seq'[op[t].row] + 1
  <2>1. pc[t] = "writing" /\ seq' = Overlay(seq, plan[t])
    BY <1>1, OnlyCommitCommits DEF HealInv, Commit, Result
  <2>2. op[t].row \in DOMAIN plan[t] /\ PlannedBeforeDestination(t)
    BY <1>1, <2>1 DEF HealInv, WriteOK
  <2>3. PICK d \in DOMAIN plan[t] :
          StopType[d] = DESTINATION /\ plan[t][d] = plan[t][op[t].row] + 1
    BY <2>2 DEF PlannedBeforeDestination
  <2>4. seq'[d] = plan[t][d] /\ seq'[op[t].row] = plan[t][op[t].row] /\ d \in DOMAIN seq'
    BY <2>1, <2>2 DEF Overlay
  <2>5. d \in Destinations(seq')
    BY <2>3, <2>4 DEF Destinations
  <2> QED
    BY <2>3, <2>4, <2>5
<1>2. HealInv /\ [Next]_vars
      => [\A t \in Txns :
            /\ Commits(t)
            /\ op[t].kind = "insert"
            /\ BeforeDestination(snap[t], op[t].row)
            => \E d \in Destinations(seq') : seq'[d] = seq'[op[t].row] + 1]_vars
  BY <1>1
<1> QED
  BY <1>2, SpecHeals, PTL DEF Spec, InsertLandsBeforeDestination
=============================================================================
