----------------------- MODULE RouteRecompute_proofs -----------------------
(***************************************************************************)
(* What recomputes may do to a trip, for any number of gestures, pages,    *)
(* threads and stops: types and bounds, how often a locked trip is         *)
(* reordered, how many routes a trip has and which stops they follow.      *)
(***************************************************************************)
EXTENDS RouteRecompute, WaypointOrder_proofs

\* What a thread that recomputes may do next.
WorkerStep(i) == Recompute(i) \/ PostRecompute(i) \/ Restart(i)

\* The worker variables are functions on the threads.
Functions ==
  /\ stage \in [Workers -> Stages]
  /\ saw \in [Workers -> BOOLEAN]
  /\ order = [i \in Workers |-> order[i]]
  /\ seen = [i \in Workers |-> seen[i]]
  /\ late \in [Workers -> Nat]
  /\ locked \in BOOLEAN

\* A thread that has reordered the locked trip works, from then on, with a
\* route_locked that it read as TRUE; and then it has no order to write.
LateInv ==
  \A i \in Workers :
    /\ late[i] <= 1
    /\ late[i] = 1 => locked
    /\ late[i] = 1 /\ stage[i] \notin {"off", "idle"} => saw[i]
    /\ saw[i] /\ stage[i] \in {"order", "delete", "commit"} => order[i] = NoRows

\* The DELETE of a thread finds the row that the thread has left, if it is there.
RouteInv ==
  /\ \A r, s \in routes : r.by = s.by => r = s
  /\ \A i \in Workers :
       stage[i] \in {"delete", "commit"} => \A r \in routes : r.by = i => r \in seen[i]

-----------------------------------------------------------------------------
LEMMA WorkersOfNext ==
  ASSUME [Next]_vars
  PROVE  \/ UNCHANGED vars
         \/ \E g \in Gestures : Gesture(g) \/ Serve(g)
         \/ \E p \in Pages : OpenPage(p)
         \/ \E i \in Workers : WorkerStep(i)
BY DEF Next, Workers, WorkerStep

LEMMA InitFunctions == Init => Functions
<1> SUFFICES ASSUME Init PROVE Functions
  OBVIOUS
<1>1. stage \in [Workers -> Stages]
  BY DEF Init, Stages
<1>2. saw \in [Workers -> BOOLEAN] /\ late \in [Workers -> Nat] /\ locked \in BOOLEAN
  BY DEF Init
<1>3. order = [i \in Workers |-> order[i]] /\ seen = [i \in Workers |-> seen[i]]
  BY DEF Init
<1> QED
  BY <1>1, <1>2, <1>3 DEF Functions

\* No action of a gesture, of a page or of the API touches a worker; they
\* leave the lock set, cleared with the history, or as it is.
LEMMA OthersLeaveWorkers ==
  ASSUME \/ \E g \in Gestures : Gesture(g) \/ Serve(g)
         \/ \E p \in Pages : OpenPage(p)
  PROVE  /\ UNCHANGED <<stage, saw, order, seen, routes>>
         /\ \/ UNCHANGED <<locked, late>>
            \/ locked' = TRUE /\ UNCHANGED late
            \/ locked' = FALSE /\ late' = [i \in Workers |-> 0]
<1>1. ASSUME NEW g \in Gestures, Gesture(g)
      PROVE  UNCHANGED <<stage, saw, order, seen, routes, locked, late>>
  BY <1>1 DEF Gesture, AddStop, RemoveStop, DragStop, Unlock, Ask, workerVars
<1>2. ASSUME NEW p \in Pages, OpenPage(p)
      PROVE  UNCHANGED <<stage, saw, order, seen, routes, locked, late>>
  BY <1>2 DEF OpenPage, tripVars, workerVars
<1>3. ASSUME NEW g \in Gestures, LockHeld(g) \/ FlushLock(g) \/ LockFails(g)
                                 \/ FlushUnlock(g) \/ UnlockFails(g)
      PROVE  UNCHANGED <<stage, saw, order, seen, routes, locked, late>>
  BY <1>3 DEF LockHeld, FlushLock, LockFails, FlushUnlock, UnlockFails, PatchesTrip,
              workerVars
<1>4. ASSUME NEW g \in Gestures, CommitLock(g)
      PROVE  /\ UNCHANGED <<stage, saw, order, seen, routes, late>>
             /\ locked' = TRUE
  BY <1>4 DEF CommitLock, PatchesTrip, workerVars
<1>5. ASSUME NEW g \in Gestures, CommitUnlock(g)
      PROVE  /\ UNCHANGED <<stage, saw, order, seen, routes>>
             /\ locked' = FALSE
             /\ late' = [i \in Workers |-> 0]
  BY <1>5 DEF CommitUnlock, PatchesTrip, workerVars
<1>6. ASSUME NEW g \in Gestures,
             \/ ReadSiblings(g) \/ NothingToMove(g) \/ \E w \in Waypoints : UpdateRow(g, w)
             \/ Flushed(g) \/ CommitWrite(g) \/ WriteFails(g)
      PROVE  UNCHANGED <<stage, saw, order, seen, routes, locked, late>>
  BY <1>6 DEF ReadSiblings, NothingToMove, UpdateRow, Flushed, CommitWrite, WriteFails,
              End, WritesStops, workerVars
<1>7. ASSUME NEW g \in Gestures, Reload(g)
      PROVE  UNCHANGED <<stage, saw, order, seen, routes, locked, late>>
  BY <1>7 DEF Reload, tripVars, workerVars
<1> QED
  BY <1>1, <1>2, <1>3, <1>4, <1>5, <1>6, <1>7 DEF Serve

\* A recompute that ends, in whatever way, forgets what it read.
LEMMA LeaveForgets ==
  ASSUME Functions, NEW i \in Workers, Leave(i, "idle")
  PROVE  /\ stage' = [stage EXCEPT ![i] = "idle"]
         /\ stage' \in [Workers -> Stages]
         /\ saw' \in [Workers -> BOOLEAN]
         /\ order' = [j \in Workers |-> order'[j]]
         /\ seen' = [j \in Workers |-> seen'[j]]
         /\ \A j \in Workers \ {i} :
              /\ saw'[j] = saw[j]
              /\ order'[j] = order[j]
              /\ seen'[j] = seen[j]
BY DEF Leave, At, Functions, Stages

\* The ways a recompute begins and ends without a commit.
LEMMA BeginsOrEnds ==
  ASSUME NEW i \in Workers, WorkerStep(i)
  PROVE  \/ ReadLock(i) /\ stage[i] \in {"off", "idle"}
         \/ ReadStops(i)
         \/ \E w \in Waypoints : PersistRow(i, w)
         \/ SeeRoutes(i) \/ DeleteRoutes(i) \/ CommitRecompute(i)
         \/ Leave(i, "idle") /\ UNCHANGED <<tripVars, late>>
BY DEF WorkerStep, Recompute, TakeEvent, PostRecompute, RecomputeFails, Aborts, Restart

\* What one step of thread i does to the workers, the lock and the history.
LEMMA RecomputeKeepsFunctions ==
  ASSUME Functions, NEW i \in Workers, WorkerStep(i)
  PROVE  /\ Functions'
         /\ locked' = locked
         /\ \A j \in Workers \ {i} :
              /\ stage'[j] = stage[j]
              /\ saw'[j] = saw[j]
              /\ order'[j] = order[j]
              /\ seen'[j] = seen[j]
              /\ late'[j] = late[j]
<1>1. CASE ReadLock(i)
  BY <1>1 DEF ReadLock, At, Functions, Stages, tripVars
<1>2. CASE ReadStops(i)
  <2>1. CASE Leave(i, "idle")
    BY <1>2, <2>1, LeaveForgets DEF ReadStops, Functions, tripVars
  <2>2. CASE ~Leave(i, "idle")
    <3>1. PICK p \in Orders(i, seq) : order' = [order EXCEPT ![i] = p]
      BY <1>2, <2>2 DEF ReadStops
    <3>2. At(i, "order") /\ UNCHANGED <<saw, seen, late, locked>>
      BY <1>2, <2>2 DEF ReadStops, tripVars
    <3> QED
      BY <3>1, <3>2 DEF At, Functions, Stages
  <2> QED
    BY <2>1, <2>2
<1>3. CASE \E w \in Waypoints : PersistRow(i, w)
  BY <1>3 DEF PersistRow, Functions, tripVars, workerVars
<1>4. CASE SeeRoutes(i)
  BY <1>4 DEF SeeRoutes, At, Functions, Stages, tripVars
<1>5. CASE DeleteRoutes(i)
  BY <1>5 DEF DeleteRoutes, At, Functions, Stages, tripVars
<1>6. CASE CommitRecompute(i)
  <2>1. Leave(i, "idle") /\ UNCHANGED locked
    BY <1>6 DEF CommitRecompute
  <2>2. late' \in [Workers -> Nat] /\ \A j \in Workers \ {i} : late'[j] = late[j]
    BY <1>6 DEF CommitRecompute, Functions
  <2> QED
    BY <2>1, <2>2, LeaveForgets DEF Functions
<1>7. CASE Leave(i, "idle") /\ UNCHANGED <<tripVars, late>>
  BY <1>7, LeaveForgets DEF Functions, tripVars
<1> QED
  BY <1>1, <1>2, <1>3, <1>4, <1>5, <1>6, <1>7, BeginsOrEnds

LEMMA OthersKeepFunctions ==
  ASSUME Functions,
         \/ \E g \in Gestures : Gesture(g) \/ Serve(g)
         \/ \E p \in Pages : OpenPage(p)
  PROVE  Functions'
<1>1. UNCHANGED <<stage, saw, order, seen>>
  BY OthersLeaveWorkers
<1>2. CASE UNCHANGED <<locked, late>>
  BY <1>1, <1>2 DEF Functions
<1>3. CASE locked' = TRUE /\ UNCHANGED late
  BY <1>1, <1>3 DEF Functions
<1>4. CASE locked' = FALSE /\ late' = [i \in Workers |-> 0]
  <2>1. late' \in [Workers -> Nat]
    BY <1>4
  <2> QED
    BY <1>1, <1>4, <2>1 DEF Functions
<1> QED
  BY <1>2, <1>3, <1>4, OthersLeaveWorkers

LEMMA NextFunctions == Functions /\ [Next]_vars => Functions'
<1> SUFFICES ASSUME Functions, [Next]_vars PROVE Functions'
  OBVIOUS
<1>1. CASE UNCHANGED vars
  BY <1>1 DEF vars, tripVars, workerVars, Functions
<1>2. CASE \/ \E g \in Gestures : Gesture(g) \/ Serve(g)
           \/ \E p \in Pages : OpenPage(p)
  BY <1>2, OthersKeepFunctions
<1>3. CASE \E i \in Workers : WorkerStep(i)
  BY <1>3, RecomputeKeepsFunctions
<1> QED
  BY <1>1, <1>2, <1>3, WorkersOfNext

-----------------------------------------------------------------------------
LEMMA RecomputeKeepsLateInv ==
  ASSUME Functions, LateInv, NEW i \in Workers, WorkerStep(i)
  PROVE  LateInv'
<1>1. Functions' /\ locked' = locked
  BY RecomputeKeepsFunctions
<1>2. \A j \in Workers \ {i} :
        /\ stage'[j] = stage[j]
        /\ saw'[j] = saw[j]
        /\ order'[j] = order[j]
        /\ late'[j] = late[j]
  BY RecomputeKeepsFunctions
<1>3. /\ late'[i] <= 1
      /\ late'[i] = 1 => locked'
      /\ late'[i] = 1 /\ stage'[i] \notin {"off", "idle"} => saw'[i]
      /\ saw'[i] /\ stage'[i] \in {"order", "delete", "commit"} => order'[i] = NoRows
  <2>1. CASE ReadLock(i)
    BY <2>1 DEF ReadLock, At, Functions, LateInv, tripVars
  <2>2. CASE ReadStops(i) /\ ~Leave(i, "idle")
    <3>1. PICK p \in Orders(i, seq) : order' = [order EXCEPT ![i] = p]
      BY <2>2 DEF ReadStops
    <3>2. At(i, "order") /\ UNCHANGED <<saw, late>> /\ stage[i] = "stops"
      BY <2>2 DEF ReadStops
    <3>3. saw[i] => p = NoRows
      BY <3>1 DEF Orders
    <3> QED
      BY <1>1, <3>1, <3>2, <3>3 DEF At, Functions, LateInv
  <2>3. CASE \E w \in Waypoints : PersistRow(i, w)
    BY <2>3 DEF PersistRow, LateInv, tripVars, workerVars
  <2>4. CASE SeeRoutes(i)
    BY <2>4 DEF SeeRoutes, At, Functions, LateInv, tripVars
  <2>5. CASE DeleteRoutes(i)
    BY <2>5 DEF DeleteRoutes, At, Functions, LateInv, tripVars
  <2>6. CASE CommitRecompute(i)
    <3>1. stage[i] = "commit" /\ stage'[i] = "idle"
      BY <2>6 DEF CommitRecompute, Leave, At, Functions
    <3>2. CASE locked /\ order[i] # NoRows
      <4>1. late[i] = 0
        BY <3>1, <3>2 DEF LateInv, Functions
      <4>2. late'[i] = 1
        BY <2>6, <3>2, <4>1 DEF CommitRecompute, Functions
      <4> QED
        BY <1>1, <3>1, <3>2, <4>2
    <3>3. CASE ~(locked /\ order[i] # NoRows)
      <4>1. late' = late
        BY <2>6, <3>3 DEF CommitRecompute
      <4> QED
        BY <1>1, <3>1, <4>1 DEF LateInv
    <3> QED
      BY <3>2, <3>3
  <2>7. CASE Leave(i, "idle") /\ late' = late
    <3>1. stage'[i] = "idle"
      BY <2>7 DEF Leave, At, Functions
    <3> QED
      BY <1>1, <2>7, <3>1 DEF LateInv
  <2>8. ReadStops(i) => late' = late
    BY DEF ReadStops
  <2> QED
    BY <2>1, <2>2, <2>3, <2>4, <2>5, <2>6, <2>7, <2>8, BeginsOrEnds
<1> QED
  BY <1>1, <1>2, <1>3 DEF LateInv

LEMMA OthersKeepLateInv ==
  ASSUME Functions, LateInv,
         \/ \E g \in Gestures : Gesture(g) \/ Serve(g)
         \/ \E p \in Pages : OpenPage(p)
  PROVE  LateInv'
<1>1. UNCHANGED <<stage, saw, order>>
  BY OthersLeaveWorkers
<1>2. CASE UNCHANGED <<locked, late>>
  BY <1>1, <1>2 DEF LateInv
<1>3. CASE locked' = TRUE /\ UNCHANGED late
  BY <1>1, <1>3 DEF LateInv
<1>4. CASE late' = [i \in Workers |-> 0]
  BY <1>1, <1>4 DEF LateInv
<1> QED
  BY <1>2, <1>3, <1>4, OthersLeaveWorkers

\* A recompute can still reorder a trip after it was locked, having read
\* route_locked before; but every thread at most once, until the trip is
\* unlocked.
THEOREM LateReorders == Spec => []LateReordersBounded
<1>1. Init => Functions /\ LateInv
  BY InitFunctions DEF Init, LateInv
<1>2. (Functions /\ LateInv) /\ [Next]_vars => (Functions /\ LateInv)'
  <2> SUFFICES ASSUME Functions, LateInv, [Next]_vars PROVE Functions' /\ LateInv'
    OBVIOUS
  <2>1. Functions'
    BY NextFunctions
  <2>2. CASE UNCHANGED vars
    BY <2>1, <2>2 DEF vars, tripVars, workerVars, LateInv
  <2>3. CASE \/ \E g \in Gestures : Gesture(g) \/ Serve(g)
             \/ \E p \in Pages : OpenPage(p)
    BY <2>1, <2>3, OthersKeepLateInv
  <2>4. CASE \E i \in Workers : WorkerStep(i)
    BY <2>1, <2>4, RecomputeKeepsLateInv
  <2> QED
    BY <2>2, <2>3, <2>4, WorkersOfNext
<1>3. Functions /\ LateInv => LateReordersBounded
  BY DEF LateInv, LateReordersBounded
<1> QED
  BY <1>1, <1>2, <1>3, PTL DEF Spec

-----------------------------------------------------------------------------
LEMMA RecomputeKeepsRouteInv ==
  ASSUME Functions, RouteInv, NEW i \in Workers, WorkerStep(i)
  PROVE  RouteInv'
<1>1. Functions'
  BY RecomputeKeepsFunctions
<1>2. \A j \in Workers \ {i} : stage'[j] = stage[j] /\ seen'[j] = seen[j]
  BY RecomputeKeepsFunctions
<1>3. CASE ReadLock(i) \/ ReadStops(i)
  <2>1. stage'[i] \notin {"delete", "commit"} /\ routes' = routes
    BY <1>3 DEF ReadLock, ReadStops, Leave, At, Functions, tripVars
  <2> QED
    BY <1>2, <2>1 DEF RouteInv
<1>4. CASE \E w \in Waypoints : PersistRow(i, w)
  BY <1>4 DEF PersistRow, RouteInv, tripVars, workerVars
<1>5. CASE SeeRoutes(i)
  <2>1. seen'[i] = routes /\ routes' = routes
    BY <1>5 DEF SeeRoutes, Functions, tripVars
  <2> QED
    BY <1>2, <2>1 DEF RouteInv
<1>6. CASE DeleteRoutes(i)
  <2>1. stage[i] = "delete" /\ UNCHANGED <<seen, routes>>
    BY <1>6 DEF DeleteRoutes, tripVars
  <2> QED
    BY <1>2, <2>1 DEF RouteInv
<1>7. CASE CommitRecompute(i)
  <2> DEFINE new == [no |-> made + 1, by |-> i, stops |-> RouteStops(i)]
  <2>1. stage'[i] = "idle"
    BY <1>7 DEF CommitRecompute, Leave, At, Functions
  <2>2. \A r \in routes \ seen[i] : r.by # i
    BY <1>7 DEF CommitRecompute, RouteInv
  <2>3. routes' = (routes \ seen[i]) \cup {new}
    BY <1>7 DEF CommitRecompute, ReplaceRoute
  <2>4. new.by = i
    OBVIOUS
  <2> HIDE DEF new
  <2>5. \A r, s \in routes' : r.by = s.by => r = s
    BY <2>2, <2>3, <2>4 DEF RouteInv
  <2>6. \A j \in Workers \ {i} : \A r \in routes' : r.by = j => r \in routes
    BY <2>3, <2>4
  <2> QED
    BY <1>2, <2>1, <2>5, <2>6 DEF RouteInv
<1>8. CASE Leave(i, "idle") /\ UNCHANGED <<tripVars, late>>
  <2>1. stage'[i] = "idle" /\ routes' = routes
    BY <1>8 DEF Leave, At, Functions, tripVars
  <2> QED
    BY <1>2, <2>1 DEF RouteInv
<1> QED
  BY <1>3, <1>4, <1>5, <1>6, <1>7, <1>8, BeginsOrEnds

\* However many threads recompute a trip at once, fail and are restarted: of the
\* route rows they leave, no two are of one thread.
THEOREM OneRoutePerThread == Spec => []OneRouteEach
<1>1. Init => Functions /\ RouteInv
  BY InitFunctions DEF Init, RouteInv
<1>2. (Functions /\ RouteInv) /\ [Next]_vars => (Functions /\ RouteInv)'
  <2> SUFFICES ASSUME Functions, RouteInv, [Next]_vars PROVE Functions' /\ RouteInv'
    OBVIOUS
  <2>1. Functions'
    BY NextFunctions
  <2>2. CASE UNCHANGED vars
    BY <2>1, <2>2 DEF vars, tripVars, workerVars, RouteInv
  <2>3. CASE \/ \E g \in Gestures : Gesture(g) \/ Serve(g)
             \/ \E p \in Pages : OpenPage(p)
    BY <2>1, <2>3, OthersLeaveWorkers DEF RouteInv
  <2>4. CASE \E i \in Workers : WorkerStep(i)
    BY <2>1, <2>4, RecomputeKeepsRouteInv
  <2> QED
    BY <2>2, <2>3, <2>4, WorkersOfNext
<1>3. Functions /\ RouteInv => OneRouteEach
  BY DEF RouteInv, OneRouteEach
<1> QED
  BY <1>1, <1>2, <1>3, PTL DEF Spec
-----------------------------------------------------------------------------
(***************************************************************************)
(* What the rules of WaypointOrder give on stops with gaps: distinct       *)
(* numbers, none above n.                                                  *)
(***************************************************************************)
Numbers(s, S, n) ==
  /\ s = [w \in DOMAIN s |-> s[w]]
  /\ DOMAIN s \subseteq S
  /\ \A w \in DOMAIN s : s[w] \in 1..n

\* Distinctly numbered stops are no more than their highest number.
LEMMA NoMoreThanNumbers ==
  ASSUME NEW s, NEW n \in Nat, Unique(s), Numbers(s, DOMAIN s, n)
  PROVE  IsFiniteSet(DOMAIN s) /\ Cardinality(DOMAIN s) <= n
<1>1. s \in [DOMAIN s -> 1..n]
  BY DEF Numbers
<1>2. s \in Injection(DOMAIN s, 1..n)
  BY <1>1 DEF Unique, Injection, IsInjective
<1>3. IsFiniteSet(1..n) /\ Cardinality(1..n) = n
  BY FS_Interval
<1> QED
  BY <1>2, <1>3, FS_Injection

LEMMA LastSlotInRange ==
  ASSUME NEW s, NEW n \in Nat, Unique(s), Numbers(s, DOMAIN s, n)
  PROVE  LastSlot(s) \in 0..n
<1>1. CASE DOMAIN s = {}
  BY <1>1 DEF LastSlot
<1>2. CASE DOMAIN s # {}
  <2> DEFINE IsLast(k) == \A v \in DOMAIN s : s[v] <= k
             L == CHOOSE k \in {s[v] : v \in DOMAIN s} : IsLast(k)
  <2>1. IsFiniteSet(DOMAIN s) /\ s \in [DOMAIN s -> Int]
    BY NoMoreThanNumbers DEF Numbers
  <2>2. PICK w \in DOMAIN s : IsLast(s[w])
    BY <1>2, <2>1, OneIsLast
  <2>3. L \in {s[v] : v \in DOMAIN s}
    BY <2>2
  <2>4. L \in 1..n
    BY <2>3 DEF Numbers
  <2> QED
    BY <1>2, <2>4 DEF LastSlot
<1> QED
  BY <1>1, <1>2

\* A new stop, and the stops that make room for it, get numbers up to n + 1.
LEMMA AddInRange ==
  ASSUME NEW s, NEW n \in Nat, Unique(s), Numbers(s, DOMAIN s, n),
         NEW w, NEW k \in PlaceSlots(s, w)
  PROVE  Numbers(OnlyChanged(s, Overlay(ShiftForInsert(s, w, k), [x \in {w} |-> k])),
                 DOMAIN s \cup {w}, n + 1)
<1> DEFINE t == Overlay(ShiftForInsert(s, w, k), [x \in {w} |-> k])
<1>1. k \in 1..(n + 1)
  <2>1. CASE BeforeDestination(s, w)
    BY <2>1 DEF PlaceSlots, Destinations, Numbers
  <2>2. CASE ~BeforeDestination(s, w)
    BY <2>2, LastSlotInRange DEF PlaceSlots
  <2> QED
    BY <2>1, <2>2
<1>2. /\ DOMAIN ShiftForInsert(s, w, k) = DOMAIN s
      /\ \A v \in DOMAIN s : ShiftForInsert(s, w, k)[v] \in 1..(n + 1)
  <2>1. CASE BeforeDestination(s, w)
    BY <2>1 DEF ShiftForInsert, ShiftFrom, Numbers
  <2>2. CASE ~BeforeDestination(s, w)
    BY <2>2 DEF ShiftForInsert, Numbers
  <2> QED
    BY <2>1, <2>2
<1>3. DOMAIN t = DOMAIN s \cup {w} /\ \A v \in DOMAIN t : t[v] \in 1..(n + 1)
  BY <1>1, <1>2 DEF Overlay
<1> HIDE DEF t
<1>4. Numbers(OnlyChanged(s, t), DOMAIN s \cup {w}, n + 1)
  BY <1>3 DEF Numbers, OnlyChanged, Changed
<1> QED
  BY <1>4 DEF t

\* A move within 1..n stays within 1..n.
LEMMA MoveInRange ==
  ASSUME NEW s, NEW n \in Nat, Numbers(s, DOMAIN s, n),
         NEW w, NEW old \in 1..n, NEW new \in 1..n
  PROVE  Numbers(Overlay(OnlyChanged(s, ShiftForMove(s, old, new)), [x \in {w} |-> new]),
                 DOMAIN s \cup {w}, n)
<1> DEFINE c == OnlyChanged(s, ShiftForMove(s, old, new))
<1>1. DOMAIN c \subseteq DOMAIN s
  BY DEF OnlyChanged, Changed, ShiftForMove
<1>2. \A v \in DOMAIN c : c[v] = IF new <= s[v] /\ s[v] < old THEN s[v] + 1
                                 ELSE IF old < s[v] /\ s[v] <= new THEN s[v] - 1
                                 ELSE s[v]
  BY <1>1 DEF OnlyChanged, ShiftForMove
<1>3. \A v \in DOMAIN c : c[v] \in 1..n
  BY <1>1, <1>2 DEF Numbers
<1> HIDE DEF c
<1>4. Numbers(Overlay(c, [x \in {w} |-> new]), DOMAIN s \cup {w}, n)
  BY <1>1, <1>3 DEF Numbers, Overlay
<1> QED
  BY <1>4 DEF c

\* Renumbering gives no number above those there were.
LEMMA RenumberInRange ==
  ASSUME NEW s, NEW n \in Nat, Unique(s), Numbers(s, DOMAIN s, n)
  PROVE  /\ Dense(Renumber(s))
         /\ Numbers(Renumber(s), DOMAIN s, n)
         /\ DOMAIN Renumber(s) = DOMAIN s
<1>1. IsFiniteSet(DOMAIN s) /\ Cardinality(DOMAIN s) <= n
  BY NoMoreThanNumbers
<1>2. s \in [DOMAIN s -> Int]
  BY DEF Numbers
<1>3. Dense(Renumber(s)) /\ DOMAIN Renumber(s) = DOMAIN s
  BY <1>1, <1>2, RenumberIsDense DEF Renumber
<1>4. /\ Cardinality(DOMAIN s) \in Nat
      /\ \A w \in DOMAIN s : Renumber(s)[w] \in 1..Cardinality(DOMAIN s)
  BY <1>1, <1>3, DenseRange
<1>5. Renumber(s) = [w \in DOMAIN s |-> Renumber(s)[w]]
  BY DEF Renumber
<1> QED
  BY <1>1, <1>3, <1>4, <1>5 DEF Numbers

LEMMA RemoveInRange ==
  ASSUME NEW s, NEW n \in Nat, Unique(s), Numbers(s, DOMAIN s, n)
  PROVE  Numbers(OnlyChanged(s, Renumber(s)), DOMAIN s, n)
BY RenumberInRange DEF Numbers, OnlyChanged, Changed

\* Nearest-neighbour orders number n stops at most 1..n.
LEMMA OrderInRange ==
  ASSUME NEW s, NEW n \in Nat, Unique(s), Numbers(s, DOMAIN s, n),
         NEW miles, NEW r \in NearestOrders(s, miles)
  PROVE  Numbers(r, DOMAIN s, n) /\ DOMAIN r = DOMAIN s
<1>1. Cardinality(DOMAIN s) \in Nat /\ Cardinality(DOMAIN s) <= n
  BY NoMoreThanNumbers, FS_CardinalityType
<1>2. r \in OptimizedOrders(s)
  BY DEF NearestOrders
<1>3. CASE r = Renumber(s)
  BY <1>3, RenumberInRange
<1>4. CASE r \in [DOMAIN s -> 1..Cardinality(DOMAIN s)]
  BY <1>1, <1>4 DEF Numbers
<1> QED
  BY <1>2, <1>3, <1>4 DEF OptimizedOrders

\* The list a page shows has every stop once.
LEMMA ListedIsList ==
  ASSUME NEW s, NEW n \in Nat, NEW S, Unique(s), Numbers(s, S, n)
  PROVE  Listed(s) \in Seq(S) /\ Len(Listed(s)) <= n
<1> DEFINE r == Renumber(s)
           m == Cardinality(DOMAIN s)
<1>1. Numbers(s, DOMAIN s, n) /\ DOMAIN s \subseteq S
  BY DEF Numbers
<1>2. m \in Nat /\ m <= n
  BY <1>1, NoMoreThanNumbers, FS_CardinalityType
<1>3. Dense(r) /\ DOMAIN r = DOMAIN s
  BY <1>1, RenumberInRange
<1> HIDE DEF r
<1>4. \A k \in 1..m : \E w \in DOMAIN s : r[w] = k
  BY <1>3 DEF Dense, Contiguous
<1>5. \A k \in 1..m : (CHOOSE w \in DOMAIN s : r[w] = k) \in S
  BY <1>1, <1>4
<1>6. AsList(r) = [k \in 1..m |-> CHOOSE w \in DOMAIN s : r[w] = k]
  BY <1>3 DEF AsList
<1>7. AsList(r) \in [1..m -> S]
  BY <1>5, <1>6
<1>8. AsList(r) \in Seq(S) /\ Len(AsList(r)) = m
  BY <1>2, <1>7
<1> QED
  BY <1>2, <1>8 DEF Listed, r

\* Dropping a stop elsewhere changes neither the stops of a list nor how many.
LEMMA DraggedIsList ==
  ASSUME NEW S, NEW list \in Seq(S), NEW from \in DOMAIN list, NEW to \in DOMAIN list
  PROVE  /\ InsertAt(RemoveAt(list, from), to, list[from]) \in Seq(S)
         /\ Len(InsertAt(RemoveAt(list, from), to, list[from])) = Len(list)
<1> DEFINE short == RemoveAt(list, from)
<1>1. short \in Seq(S) /\ Len(short) = Len(list) - 1
  BY DEF RemoveAt
<1> HIDE DEF short
<1>2. /\ InsertAt(short, to, list[from]) \in Seq(S)
      /\ Len(InsertAt(short, to, list[from])) = Len(list)
  BY <1>1 DEF InsertAt
<1> QED
  BY <1>2 DEF short
-----------------------------------------------------------------------------
(***************************************************************************)
(* How high the numbers get.  Moves are sent to slots of lists that may be *)
(* out of date, deletes and reorders leave gaps, and what a recompute or a *)
(* request writes was worked out from an older state of the trip.  What    *)
(* bounds every number, asked for, planned or stored, is how many stops    *)
(* were ever committed, which only grows: an added stop may exceed it by   *)
(* one, and its commit makes it one more.                                  *)
(***************************************************************************)
PendingPlaces == {"lock", "edit", "writing", "flushed", "failed"}

\* The gestures whose new stop is not committed, or never will be, the ids of
\* these stops, and the ids of the stops that were committed at some time.
Pending == {g \in Gestures : req[g].kind = "add" /\ pc[g] \in PendingPlaces}
Unborn  == {req[g].row : g \in Pending}
Born    == used \ Unborn
Bound   == Cardinality(Born)

\* The rows a request may write, and the highest number it may give them.
Reach(g)  == IF req[g].kind = "add" THEN Born \cup {req[g].row} ELSE Born
Height(g) == IF req[g].kind = "add" THEN Bound + 1 ELSE Bound

Types ==
  /\ Functions
  /\ made \in Nat
  /\ \A r \in routes : r.no \in 0..made
  /\ pc \in [Gestures -> Places]
  /\ req = [g \in Gestures |-> req[g]]
  /\ lockTxn \in [Gestures -> {"none", "sent", "flushed"}]
  /\ plan = [g \in Gestures |-> plan[g]]
  /\ view = [p \in Pages |-> view[p]]
  /\ backlog \in [Instances -> Nat]
  /\ rows = [i \in Workers |-> rows[i]]
  /\ faults \in Nat

TripInv ==
  /\ IsFiniteSet(used)
  /\ used \subseteq Waypoints
  /\ Unique(seq)
  /\ Numbers(seq, Born, Bound)
  /\ \A g, h \in Pending : req[g].row = req[h].row => g = h

ListOK(p) == view[p] \in Seq(Born) /\ Len(view[p]) <= Bound

AskedOK(g) ==
  /\ pc[g] = "idle" => req[g].kind = "none"
  /\ pc[g] \in {"lock", "edit", "writing", "flushed"}
     => req[g].kind \in {"add", "move", "remove"}
  /\ req[g].kind = "add" => req[g].row \in used
  /\ req[g].kind = "move" => req[g].slot \in 1..Bound
  /\ pc[g] \in {"unlock", "unlocking"} => req[g].kind = "unlock"
  /\ pc[g] \in {"writing", "flushed"} => Numbers(plan[g], Reach(g), Height(g))

WorkOK(i) ==
  stage[i] \in {"order", "delete", "commit"}
  => /\ Numbers(rows[i], Born, Bound)
     /\ Numbers(order[i], DOMAIN rows[i], Bound)

NumInv ==
  /\ Types
  /\ TripInv
  /\ \A p \in Pages : ListOK(p)
  /\ \A g \in Gestures : AskedOK(g)
  /\ \A i \in Workers : WorkOK(i)

LEMMA BoundIsNat ==
  ASSUME TripInv
  PROVE  /\ Bound \in Nat
         /\ Born \subseteq used
         /\ Bound <= Cardinality(used)
         /\ IsFiniteSet(Born)
BY FS_Subset, FS_CardinalityType DEF TripInv, Born, Bound

LEMMA NumbersGrow ==
  ASSUME NEW s, NEW S, NEW T, NEW m \in Nat, NEW n \in Nat,
         Numbers(s, S, m), S \subseteq T, m <= n
  PROVE  Numbers(s, T, n)
BY DEF Numbers

LEMMA NoRowsNumbers == \A S, n : Numbers(NoRows, S, n)
BY DEF Numbers, NoRows

-----------------------------------------------------------------------------
\* The shapes of the variables.
LEMMA InitTypes == Init => Types
<1> SUFFICES ASSUME Init PROVE Types
  OBVIOUS
<1>1. Functions
  BY InitFunctions
<1>2. made \in Nat /\ \A r \in routes : r.no \in 0..made
  BY DEF Init
<1>3. pc \in [Gestures -> Places] /\ backlog \in [Instances -> Nat]
  BY DEF Init, Places
<1>4. /\ req = [g \in Gestures |-> req[g]]
      /\ lockTxn \in [Gestures -> {"none", "sent", "flushed"}]
      /\ plan = [g \in Gestures |-> plan[g]]
      /\ view = [p \in Pages |-> view[p]]
      /\ rows = [i \in Workers |-> rows[i]]
  BY DEF Init
<1>5. faults \in Nat
  BY RecomputeAssumption DEF Init
<1> QED
  BY <1>1, <1>2, <1>3, <1>4, <1>5 DEF Types

\* The requests that fail and the restarts are counted.
LEMMA FaultsCounted ==
  ASSUME faults \in Nat, Fault \/ UNCHANGED faults
  PROVE  faults' \in Nat
BY RecomputeAssumption DEF Fault

LEMMA EmitCounts ==
  ASSUME backlog \in [Instances -> Nat], NEW n \in Nat, EmitEvents(n)
  PROVE  backlog' \in [Instances -> Nat]
BY DEF EmitEvents

LEMMA GestureKeepsTypes ==
  ASSUME Types, NEW g \in Gestures, Gesture(g) \/ Serve(g), Flushed(g) => Told(g) \in Nat
  PROVE  Types'
<1>1. Functions'
  BY OthersKeepFunctions DEF Types
<1>2. CASE Gesture(g)
  <2>1. UNCHANGED <<made, routes, rows, plan, backlog, faults>>
    BY <1>2 DEF Gesture, AddStop, RemoveStop, DragStop, Unlock, Ask, workerVars
  <2>2. PICK kind, w, slot, where : where \in {"lock", "unlock"} /\ Ask(g, kind, w, slot, where)
    BY <1>2 DEF Gesture, AddStop, RemoveStop, DragStop, Unlock
  <2>3. /\ pc' \in [Gestures -> Places]
        /\ req' = [h \in Gestures |-> req'[h]]
    BY <2>2 DEF Ask, Goto, Types, Places
  <2>4. lockTxn' \in [Gestures -> {"none", "sent", "flushed"}]
    BY <2>2 DEF Ask, Types
  <2>5. view' = [p \in Pages |-> view'[p]]
    BY <1>2 DEF Gesture, AddStop, RemoveStop, DragStop, Unlock, Types
  <2> QED
    BY <1>1, <2>1, <2>3, <2>4, <2>5 DEF Types
<1>3. CASE \/ LockHeld(g) \/ FlushLock(g) \/ CommitLock(g) \/ LockFails(g)
           \/ FlushUnlock(g) \/ CommitUnlock(g) \/ UnlockFails(g)
  <2>1. UNCHANGED <<made, routes, rows, req, plan, view>>
    BY <1>3 DEF LockHeld, FlushLock, CommitLock, LockFails, FlushUnlock, CommitUnlock,
                UnlockFails, PatchesTrip, workerVars
  <2>2. pc' \in [Gestures -> Places]
    BY <1>3 DEF LockHeld, FlushLock, CommitLock, LockFails, LockAnswered, FlushUnlock,
                CommitUnlock, UnlockFails, Goto, Types, Places
  <2>3. lockTxn' \in [Gestures -> {"none", "sent", "flushed"}]
    BY <1>3 DEF LockHeld, FlushLock, CommitLock, LockFails, LockAnswered, FlushUnlock,
                CommitUnlock, UnlockFails, Types
  <2>4. Fault \/ UNCHANGED faults
    BY <1>3 DEF LockHeld, FlushLock, CommitLock, LockFails, FlushUnlock, CommitUnlock,
                UnlockFails
  <2>5. EmitEvents(1) \/ UNCHANGED backlog
    BY <1>3 DEF LockHeld, FlushLock, CommitLock, LockFails, FlushUnlock, CommitUnlock,
                UnlockFails, Emit
  <2>6. faults' \in Nat /\ backlog' \in [Instances -> Nat]
    BY <2>4, <2>5, FaultsCounted, EmitCounts DEF Types
  <2> QED
    BY <1>1, <2>1, <2>2, <2>3, <2>6 DEF Types
<1>4. CASE \/ ReadSiblings(g) \/ NothingToMove(g) \/ \E w \in Waypoints : UpdateRow(g, w)
           \/ Flushed(g) \/ CommitWrite(g) \/ WriteFails(g)
  <2>1. UNCHANGED <<made, routes, rows, req, lockTxn, view>>
    BY <1>4 DEF ReadSiblings, NothingToMove, UpdateRow, Flushed, CommitWrite, WriteFails,
                End, WritesStops, workerVars
  <2>2. pc' \in [Gestures -> Places]
    BY <1>4 DEF ReadSiblings, NothingToMove, UpdateRow, Flushed, CommitWrite, WriteFails,
                End, Goto, Types, Places
  <2>3. plan' = [h \in Gestures |-> plan'[h]]
    BY <1>4 DEF ReadSiblings, NothingToMove, UpdateRow, Flushed, CommitWrite, WriteFails,
                End, Types
  <2>4. faults' \in Nat
    BY <1>4, FaultsCounted DEF ReadSiblings, NothingToMove, UpdateRow, Flushed, CommitWrite,
                               WriteFails, Types
  <2>5. EmitEvents(1) \/ UNCHANGED backlog \/ (Flushed(g) /\ EmitEvents(Told(g)))
    BY <1>4 DEF ReadSiblings, NothingToMove, UpdateRow, Flushed, CommitWrite, WriteFails,
                End, Emit
  <2>6. backlog' \in [Instances -> Nat]
    BY <2>5, EmitCounts DEF Types
  <2> QED
    BY <1>1, <2>1, <2>2, <2>3, <2>4, <2>6 DEF Types
<1>5. CASE Reload(g)
  <2>1. UNCHANGED <<made, routes, rows, req, lockTxn, plan, backlog>>
    BY <1>5 DEF Reload, tripVars, workerVars
  <2>2. pc' \in [Gestures -> Places] /\ view' = [p \in Pages |-> view'[p]]
    BY <1>5 DEF Reload, Goto, Types, Places
  <2>3. faults' \in Nat
    BY <1>5, FaultsCounted DEF Reload, Types
  <2> QED
    BY <1>1, <2>1, <2>2, <2>3 DEF Types
<1> QED
  BY <1>2, <1>3, <1>4, <1>5 DEF Serve

LEMMA PageKeepsTypes ==
  ASSUME Types, NEW p \in Pages, OpenPage(p)
  PROVE  Types'
<1>1. Functions'
  BY OthersKeepFunctions DEF Types
<1>2. view' = [q \in Pages |-> view'[q]]
  BY DEF OpenPage, Types
<1>3. UNCHANGED <<made, routes, pc, req, lockTxn, plan, backlog, rows, faults>>
  BY DEF OpenPage, tripVars, workerVars
<1> QED
  BY <1>1, <1>2, <1>3 DEF Types

LEMMA RecomputeKeepsTypes ==
  ASSUME Types, NEW i \in Workers, WorkerStep(i)
  PROVE  Types'
<1>1. Functions'
  BY RecomputeKeepsFunctions DEF Types
<1>2. UNCHANGED pageVars
  BY DEF WorkerStep, Recompute, PostRecompute, ReadLock, TakeEvent, ReadStops, PersistRow,
         SeeRoutes, DeleteRoutes, CommitRecompute, RecomputeFails, Aborts, Restart
<1>3. rows' = [j \in Workers |-> rows'[j]]
  BY BeginsOrEnds DEF ReadLock, ReadStops, PersistRow, SeeRoutes, DeleteRoutes,
                      CommitRecompute, Leave, workerVars, Types
<1>4. backlog' \in [Instances -> Nat]
  BY DEF WorkerStep, Recompute, PostRecompute, TakeEvent, ReadStops, PersistRow,
         SeeRoutes, DeleteRoutes, CommitRecompute, RecomputeFails, Aborts, Restart, Types
<1>5. faults' \in Nat
  <2>1. Fault \/ UNCHANGED faults
    BY DEF WorkerStep, Recompute, PostRecompute, ReadLock, TakeEvent, ReadStops, PersistRow,
         SeeRoutes, DeleteRoutes, CommitRecompute, RecomputeFails, Aborts, Restart
  <2> QED
    BY <2>1, FaultsCounted DEF Types
<1>6. made' \in Nat /\ \A r \in routes' : r.no \in 0..made'
  <2>1. CASE CommitRecompute(i)
    <3>1. made' = made + 1
      BY <2>1 DEF CommitRecompute
    <3>2. \A r \in routes' : r \in routes \/ r.no = made + 1
      BY <2>1 DEF CommitRecompute, ReplaceRoute
    <3> QED
      BY <3>1, <3>2 DEF Types
  <2>2. CASE ~CommitRecompute(i)
    <3>1. UNCHANGED <<made, routes>>
      BY <2>2, BeginsOrEnds DEF ReadLock, ReadStops, PersistRow, SeeRoutes, DeleteRoutes,
                                tripVars
    <3> QED
      BY <3>1 DEF Types
  <2> QED
    BY <2>1, <2>2
<1> QED
  BY <1>1, <1>2, <1>3, <1>4, <1>5, <1>6 DEF Types, pageVars

LEMMA IdleKeepsTypes == Types /\ UNCHANGED vars => Types'
<1> SUFFICES ASSUME Types, UNCHANGED vars PROVE Types'
  OBVIOUS
<1>1. Functions'
  BY NextFunctions DEF Types
<1> QED
  BY <1>1 DEF vars, tripVars, pageVars, workerVars, Types

-----------------------------------------------------------------------------
LEMMA InitNumbers == Init => NumInv
<1> SUFFICES ASSUME Init PROVE NumInv
  OBVIOUS
<1>1. Types
  BY InitTypes
<1>2. Pending = {} /\ Born = DOMAIN seq /\ used = DOMAIN seq
  BY DEF Init, Pending, Born, Unborn, NoReq
<1>3. /\ IsFiniteSet(DOMAIN seq)
      /\ seq \in [DOMAIN seq -> Int]
      /\ Dense(seq)
      /\ DOMAIN seq \subseteq Waypoints
  BY RecomputeAssumption DEF Init
<1>4. Bound \in Nat /\ \A w \in DOMAIN seq : seq[w] \in 1..Bound
  BY <1>2, <1>3, DenseRange DEF Bound
<1>5. Unique(seq) /\ Numbers(seq, Born, Bound)
  BY <1>2, <1>3, <1>4 DEF Numbers, Dense
<1>6. TripInv
  BY <1>2, <1>3, <1>5 DEF TripInv
<1>7. \A p \in Pages : ListOK(p)
  <2>1. Listed(seq) \in Seq(Born) /\ Len(Listed(seq)) <= Bound
    BY <1>4, <1>5, ListedIsList
  <2>2. \A p \in Pages : view[p] = Listed(seq)
    BY DEF Init
  <2> QED
    BY <2>1, <2>2 DEF ListOK
<1>8. \A g \in Gestures : AskedOK(g)
  BY DEF Init, AskedOK, NoReq
<1>9. \A i \in Workers : WorkOK(i)
  BY DEF Init, WorkOK
<1> QED
  BY <1>1, <1>6, <1>7, <1>8, <1>9 DEF NumInv

LEMMA HeightsGrow ==
  \A kind, h, k : \A m, n \in Nat :
    /\ m <= n
    /\ h = IF kind = "add" THEN m + 1 ELSE m
    /\ k = IF kind = "add" THEN n + 1 ELSE n
    => h \in Nat /\ k \in Nat /\ h <= k
OBVIOUS

\* What has not changed is still in range when stops were added to the trip.
LEMMA OthersInRange ==
  ASSUME NumInv, TripInv', Born \subseteq Born', Bound <= Bound', used \subseteq used'
  PROVE  /\ \A p \in Pages : view'[p] = view[p] => ListOK(p)'
         /\ \A g \in Gestures :
              pc'[g] = pc[g] /\ req'[g] = req[g] /\ plan'[g] = plan[g] => AskedOK(g)'
         /\ \A i \in Workers :
              stage'[i] = stage[i] /\ rows'[i] = rows[i] /\ order'[i] = order[i]
              => WorkOK(i)'
<1>1. Bound \in Nat
  BY BoundIsNat DEF NumInv
<1>2. Bound' \in Nat
  BY FS_Subset, FS_CardinalityType DEF TripInv, Born, Bound
<1>3. ASSUME NEW p \in Pages, view'[p] = view[p] PROVE ListOK(p)'
  <2>1. view[p] \in Seq(Born) /\ Len(view[p]) <= Bound
    BY DEF NumInv, ListOK
  <2>2. Seq(Born) \subseteq Seq(Born')
    OBVIOUS
  <2>3. view'[p] \in Seq(Born') /\ Len(view'[p]) <= Bound'
    BY <1>1, <1>2, <1>3, <2>1, <2>2
  <2> QED
    BY <2>3 DEF ListOK
<1>4. ASSUME NEW g \in Gestures, pc'[g] = pc[g], req'[g] = req[g], plan'[g] = plan[g]
      PROVE  AskedOK(g)'
  <2>1. AskedOK(g)
    BY DEF NumInv
  <2>2. Reach(g) \subseteq Reach(g)'
    BY <1>4 DEF Reach
  <2>3. Height(g) \in Nat /\ Height(g)' \in Nat /\ Height(g) <= Height(g)'
    <3>1. Height(g) = IF req[g].kind = "add" THEN Bound + 1 ELSE Bound
      BY DEF Height
    <3>2. Height(g)' = IF req[g].kind = "add" THEN Bound' + 1 ELSE Bound'
      BY <1>4 DEF Height
    <3> QED
      BY <1>1, <1>2, <3>1, <3>2, HeightsGrow, Zenon
  <2>4. pc[g] \in {"writing", "flushed"} => Numbers(plan[g], Reach(g)', Height(g)')
    BY <2>1, <2>2, <2>3, NumbersGrow DEF AskedOK
  <2>5. req[g].kind = "move" => req[g].slot \in 1..Bound'
    BY <1>1, <1>2, <2>1 DEF AskedOK
  <2>6. req[g].kind = "add" => req[g].row \in used'
    BY <2>1 DEF AskedOK
  <2> QED
    BY <1>4, <2>1, <2>4, <2>5, <2>6 DEF AskedOK
<1>5. ASSUME NEW i \in Workers, stage'[i] = stage[i], rows'[i] = rows[i],
             order'[i] = order[i]
      PROVE  WorkOK(i)'
  <2>1. CASE stage[i] \in {"order", "delete", "commit"}
    <3>1. Numbers(rows[i], Born, Bound) /\ Numbers(order[i], DOMAIN rows[i], Bound)
      BY <2>1 DEF NumInv, WorkOK
    <3>2. Numbers(rows[i], Born', Bound') /\ Numbers(order[i], DOMAIN rows[i], Bound')
      BY <1>1, <1>2, <3>1, NumbersGrow
    <3> QED
      BY <1>5, <3>2 DEF WorkOK
  <2>2. CASE ~(stage[i] \in {"order", "delete", "commit"})
    BY <1>5, <2>2 DEF WorkOK
  <2> QED
    BY <2>1, <2>2
<1> QED
  BY <1>3, <1>4, <1>5

\* No request has been committed and none was made: the same stops are born.
LEMMA SameBorn ==
  ASSUME UNCHANGED <<used, req>>,
         \A g \in Gestures : req[g].kind = "add"
                             => (pc[g] \in PendingPlaces <=> pc'[g] \in PendingPlaces)
  PROVE  Pending' = Pending /\ Born' = Born /\ Bound' = Bound
<1>1. Pending' = Pending
  BY DEF Pending
<1>2. Unborn' = Unborn
  BY <1>1 DEF Unborn
<1> QED
  BY <1>1, <1>2 DEF Born, Bound

\* The trip is as it was.
LEMMA SameTrip ==
  ASSUME TripInv, UNCHANGED <<used, seq, req>>, Pending' = Pending, Born' = Born,
         Bound' = Bound
  PROVE  TripInv'
BY DEF TripInv

\* The gestures the drivers make.
LEMMA AddStopInRange ==
  ASSUME NumInv, NEW g \in Gestures, NEW w \in Waypoints, AddStop(g, w)
  PROVE  /\ TripInv'
         /\ Born' = Born /\ Bound' = Bound
         /\ AskedOK(g)'
<1>1. /\ pc[g] = "idle" /\ w \in Waypoints \ used
      /\ used' = used \cup {w}
      /\ req' = [req EXCEPT ![g] = [kind |-> "add", row |-> w, slot |-> 0]]
      /\ pc' = [pc EXCEPT ![g] = "lock"]
      /\ seq' = seq
  BY DEF AddStop, Ask, Goto
<1>2. /\ pc'[g] = "lock" /\ req'[g] = [kind |-> "add", row |-> w, slot |-> 0]
      /\ \A h \in Gestures \ {g} : pc'[h] = pc[h] /\ req'[h] = req[h]
  BY <1>1 DEF NumInv, Types
<1>3. g \notin Pending /\ Pending' = Pending \cup {g}
  BY <1>1, <1>2 DEF Pending, PendingPlaces
<1>4. \A h \in Pending : req'[h] = req[h] /\ req[h].row \in used
  BY <1>2, <1>3 DEF Pending, NumInv, AskedOK
<1>5. Unborn' = Unborn \cup {w}
  BY <1>2, <1>3, <1>4 DEF Unborn
<1>6. Born' = Born
  BY <1>1, <1>5 DEF Born
<1>7. Bound' = Bound
  BY <1>6 DEF Bound
<1>8. IsFiniteSet(used')
  BY <1>1, FS_AddElement DEF NumInv, TripInv
<1>9. \A h, k \in Pending' : req'[h].row = req'[k].row => h = k
  BY <1>1, <1>2, <1>3, <1>4 DEF NumInv, TripInv
<1>10. TripInv'
  BY <1>1, <1>6, <1>7, <1>8, <1>9 DEF NumInv, TripInv
<1>11. AskedOK(g)'
  BY <1>1, <1>2 DEF AskedOK
<1> QED
  BY <1>6, <1>7, <1>10, <1>11

LEMMA AskInRange ==
  ASSUME NumInv, NEW g \in Gestures, NEW kind \in {"move", "remove", "unlock"}, NEW w, NEW slot,
         NEW where \in {"lock", "unlock"}, kind = "unlock" <=> where = "unlock",
         kind = "move" => slot \in 1..Bound,
         Ask(g, kind, w, slot, where), UNCHANGED used
  PROVE  /\ TripInv'
         /\ Born' = Born /\ Bound' = Bound
         /\ AskedOK(g)'
<1>1. /\ pc[g] = "idle" /\ seq' = seq
      /\ req' = [req EXCEPT ![g] = [kind |-> kind, row |-> w, slot |-> slot]]
      /\ pc' = [pc EXCEPT ![g] = where]
  BY DEF Ask, Goto
<1>2. /\ pc'[g] = where /\ req'[g] = [kind |-> kind, row |-> w, slot |-> slot]
      /\ \A h \in Gestures \ {g} : pc'[h] = pc[h] /\ req'[h] = req[h]
  BY <1>1 DEF NumInv, Types
<1>3. g \notin Pending /\ Pending' = Pending
  BY <1>1, <1>2 DEF Pending, PendingPlaces
<1>4. \A h \in Pending : req'[h] = req[h]
  BY <1>2, <1>3 DEF Pending
<1>5. Unborn' = Unborn
  BY <1>3, <1>4 DEF Unborn
<1>6. Born' = Born /\ Bound' = Bound
  BY <1>5 DEF Born, Bound
<1>7. TripInv'
  BY <1>1, <1>3, <1>4, <1>6 DEF NumInv, TripInv
<1>8. AskedOK(g)'
  BY <1>2, <1>6 DEF AskedOK
<1> QED
  BY <1>6, <1>7, <1>8

\* A flush tells of no more stops than it writes.
LEMMA ToldIsNat ==
  ASSUME NumInv, NEW g \in Gestures, Flushed(g)
  PROVE  Told(g) \in Nat
<1>1. Numbers(plan[g], Reach(g), Height(g))
  BY DEF Flushed, NumInv, AskedOK
<1>2. IsFiniteSet(Born \cup {req[g].row})
  BY BoundIsNat, FS_AddElement DEF NumInv
<1>3. DOMAIN plan[g] \subseteq Born \cup {req[g].row}
  BY <1>1 DEF Numbers, Reach
<1>4. Cardinality(DOMAIN plan[g]) \in Nat
  BY <1>2, <1>3, FS_Subset, FS_CardinalityType
<1> QED
  BY <1>4 DEF Told

LEMMA GestureKeepsNumbers ==
  ASSUME NumInv, NEW g \in Gestures, Gesture(g)
  PROVE  NumInv'
<1>1. Types'
  BY GestureKeepsTypes, ToldIsNat DEF NumInv
<1>2. Bound \in Nat
  BY BoundIsNat DEF NumInv
<1>3. /\ UNCHANGED <<stage, rows, order, plan>>
      /\ \A h \in Gestures \ {g} : pc'[h] = pc[h] /\ req'[h] = req[h]
  BY DEF Gesture, AddStop, RemoveStop, DragStop, Unlock, Ask, Goto, workerVars, NumInv, Types
<1>4. /\ TripInv'
      /\ Born' = Born /\ Bound' = Bound
      /\ AskedOK(g)'
      /\ used \subseteq used'
      /\ \A p \in Pages : view'[p] = view[p] \/ ListOK(p)'
  <2>1. CASE \E w \in Waypoints : AddStop(g, w)
    <3>1. used \subseteq used' /\ view' = view
      BY <2>1 DEF AddStop
    <3> QED
      BY <2>1, <3>1, AddStopInRange
  <2>2. CASE \E k \in DOMAIN view[PageOf[g]] : RemoveStop(g, k)
    <3>1. PICK k \in DOMAIN view[PageOf[g]] : RemoveStop(g, k)
      BY <2>2
    <3> DEFINE w == view[PageOf[g]][k]
    <3>2. Ask(g, "remove", w, 0, "lock") /\ UNCHANGED <<used, view>>
      BY <3>1 DEF RemoveStop
    <3> HIDE DEF w
    <3> QED
      BY <3>2, AskInRange
  <2>3. CASE \E from, to \in DOMAIN view[PageOf[g]] : DragStop(g, from, to)
    <3>1. PICK from \in DOMAIN view[PageOf[g]], to \in DOMAIN view[PageOf[g]] :
            DragStop(g, from, to)
      BY <2>3
    <3> DEFINE p    == PageOf[g]
               list == view[p]
               new  == InsertAt(RemoveAt(list, from), to, list[from])
               w    == list[from]
    <3>2. /\ Ask(g, "move", w, to, "lock") /\ UNCHANGED used
          /\ view' = [view EXCEPT ![p] = new]
      BY <3>1 DEF DragStop, TargetSlot
    <3>3. p \in Pages
      BY RecomputeAssumption
    <3>4. list \in Seq(Born) /\ Len(list) <= Bound
      BY <3>3 DEF NumInv, ListOK
    <3>5. to \in 1..Bound
      BY <1>2, <3>4
    <3>6. new \in Seq(Born) /\ Len(new) <= Bound
      BY <3>4, DraggedIsList
    <3>7. TripInv' /\ Born' = Born /\ Bound' = Bound /\ AskedOK(g)'
      <4> HIDE DEF w, new
      <4> QED
        BY <3>2, <3>5, AskInRange
    <3> HIDE DEF new, list
    <3>8. view'[p] = new /\ \A q \in Pages \ {p} : view'[q] = view[q]
      BY <3>2, <3>3 DEF NumInv, Types
    <3>9. \A q \in Pages : view'[q] = view[q] \/ ListOK(q)'
      BY <3>6, <3>7, <3>8 DEF ListOK
    <3> QED
      BY <3>2, <3>7, <3>9
  <2>4. CASE Unlock(g)
    <3>1. Ask(g, "unlock", None, 0, "unlock") /\ UNCHANGED <<used, view>>
      BY <2>4 DEF Unlock
    <3> QED
      BY <3>1, AskInRange
  <2> QED
    BY <2>1, <2>2, <2>3, <2>4 DEF Gesture
<1> QED
  BY <1>1, <1>2, <1>3, <1>4, OthersInRange DEF NumInv

-----------------------------------------------------------------------------
\* The API.  What a request that is being served writes stays in range.
LEMMA PlanInRange ==
  ASSUME NumInv, NEW g \in Gestures, pc[g] = "edit",
         req[g].kind = "add" \/ req[g].row \in Rows,
         NEW p \in Plans(req[g])
  PROVE  Numbers(p, Reach(g), Height(g))
<1> DEFINE r == req[g]
           s == Siblings(seq, r.row)
<1>1. Bound \in Nat /\ Unique(seq) /\ Numbers(seq, Born, Bound)
  BY BoundIsNat DEF NumInv, TripInv
<1>2. Unique(s) /\ Numbers(s, DOMAIN s, Bound) /\ DOMAIN s \subseteq Born
  BY <1>1 DEF Unique, Numbers, Siblings
<1>3. r.kind \in {"add", "move", "remove"} /\ (r.kind = "move" => r.slot \in 1..Bound)
  BY DEF NumInv, AskedOK
<1> HIDE DEF s
<1>4. CASE r.kind = "add"
  <2>1. PICK k \in PlaceSlots(s, r.row) :
          p = OnlyChanged(s, Overlay(ShiftForInsert(s, r.row, k), [x \in {r.row} |-> k]))
    BY <1>4 DEF Plans, s
  <2>2. Numbers(p, DOMAIN s \cup {r.row}, Bound + 1)
    BY <1>1, <1>2, <2>1, AddInRange
  <2> QED
    BY <1>1, <1>2, <1>4, <2>2, NumbersGrow DEF Reach, Height
<1>5. CASE r.kind = "move"
  <2>1. p = Overlay(OnlyChanged(s, ShiftForMove(s, seq[r.row], r.slot)),
                    [x \in {r.row} |-> r.slot])
    BY <1>5 DEF Plans, s
  <2>2. r.row \in Born /\ seq[r.row] \in 1..Bound
    BY <1>1, <1>5 DEF Numbers, Rows
  <2>3. Numbers(p, DOMAIN s \cup {r.row}, Bound)
    BY <1>1, <1>2, <1>3, <1>5, <2>1, <2>2, MoveInRange
  <2> QED
    BY <1>1, <1>2, <1>5, <2>2, <2>3, NumbersGrow DEF Reach, Height
<1>6. CASE r.kind = "remove"
  <2>1. p = OnlyChanged(s, Renumber(s))
    BY <1>6 DEF Plans, s
  <2>2. Numbers(p, DOMAIN s, Bound)
    BY <1>1, <1>2, <2>1, RemoveInRange
  <2> QED
    BY <1>1, <1>2, <1>6, <2>2, NumbersGrow DEF Reach, Height
<1> QED
  BY <1>3, <1>4, <1>5, <1>6

LEMMA ReadSiblingsInRange ==
  ASSUME NumInv, NEW g \in Gestures, ReadSiblings(g)
  PROVE  TripInv' /\ Born' = Born /\ Bound' = Bound /\ AskedOK(g)'
<1>1. /\ pc[g] = "edit"
      /\ pc' = [pc EXCEPT ![g] = "writing"]
      /\ UNCHANGED <<used, req, seq>>
      /\ req[g].kind = "add" \/ req[g].row \in Rows
  BY DEF ReadSiblings, Goto, WritesStops
<1>2. PICK p \in Plans(req[g]) : plan' = [plan EXCEPT ![g] = p]
  BY DEF ReadSiblings
<1>3. pc'[g] = "writing" /\ plan'[g] = p /\ \A h \in Gestures \ {g} : pc'[h] = pc[h]
  BY <1>1, <1>2 DEF NumInv, Types
<1>4. Pending' = Pending /\ Born' = Born /\ Bound' = Bound
  BY <1>1, <1>3, SameBorn DEF PendingPlaces
<1>5. TripInv'
  BY <1>1, <1>4, SameTrip DEF NumInv
<1>6. Numbers(p, Reach(g), Height(g))
  BY <1>1, PlanInRange
<1>7. Reach(g)' = Reach(g) /\ Height(g)' = Height(g)
  BY <1>1, <1>4 DEF Reach, Height
<1>8. AskedOK(g)'
  <2>1. AskedOK(g)
    BY DEF NumInv
  <2> QED
    BY <1>1, <1>3, <1>4, <1>6, <1>7, <2>1 DEF AskedOK
<1> QED
  BY <1>4, <1>5, <1>8

\* The committed order: numbers up to those that were planned, no two alike.
LEMMA ResultInRange ==
  ASSUME NumInv, NEW g \in Gestures, pc[g] = "flushed"
  PROVE  Numbers(Result(g), Reach(g), Height(g))
<1> DEFINE s == IF req[g].kind = "remove" THEN Siblings(seq, req[g].row) ELSE seq
           p == plan[g]
<1>1. Bound \in Nat /\ Numbers(seq, Born, Bound)
  BY BoundIsNat DEF NumInv, TripInv
<1>2. Numbers(s, Born, Bound)
  BY <1>1 DEF Numbers, Siblings
<1>3. Numbers(s, Reach(g), Height(g))
  BY <1>1, <1>2, NumbersGrow DEF Reach, Height
<1>4. Numbers(p, Reach(g), Height(g))
  BY DEF NumInv, AskedOK
<1>5. Result(g) = Overlay(s, p)
  BY DEF Result
<1> HIDE DEF s, p
<1> QED
  BY <1>3, <1>4, <1>5 DEF Numbers, Overlay

LEMMA CommitWriteInRange ==
  ASSUME NumInv, NEW g \in Gestures, CommitWrite(g)
  PROVE  /\ TripInv'
         /\ Born \subseteq Born' /\ Bound <= Bound' /\ used' = used
         /\ AskedOK(g)'
<1>1. /\ pc[g] = "flushed" /\ Unique(Result(g)) /\ seq' = Result(g)
      /\ \E x \in {"loading", "done"} : pc' = [pc EXCEPT ![g] = x]
      /\ UNCHANGED <<used, req>>
  BY DEF CommitWrite, End, Goto, WritesStops
<1>2. pc'[g] \in {"loading", "done"} /\ \A h \in Gestures \ {g} : pc'[h] = pc[h]
  BY <1>1 DEF NumInv, Types
<1>3. Numbers(seq', Reach(g), Height(g))
  BY <1>1, ResultInRange
<1>4. Bound \in Nat /\ IsFiniteSet(Born) /\ IsFiniteSet(used)
  BY BoundIsNat DEF NumInv, TripInv
<1>5. Born' = Reach(g) /\ Bound' = Height(g) /\ Pending' \subseteq Pending
  <2>1. CASE req[g].kind = "add"
    <3>1. g \in Pending /\ Pending' = Pending \ {g}
      BY <1>1, <1>2, <2>1 DEF Pending, PendingPlaces
    <3>2. \A h \in Pending : req[h].row = req[g].row => h = g
      BY <3>1 DEF NumInv, TripInv
    <3>3. Unborn' = Unborn \ {req[g].row}
      BY <1>1, <3>1, <3>2 DEF Unborn
    <3>4. req[g].row \in used /\ req[g].row \in Unborn
      BY <2>1, <3>1 DEF NumInv, AskedOK, Unborn
    <3>5. Born' = Born \cup {req[g].row} /\ req[g].row \notin Born
      BY <1>1, <3>3, <3>4 DEF Born
    <3>6. Cardinality(Born \cup {req[g].row}) = Bound + 1
      BY <1>4, <3>5, FS_AddElement DEF Bound
    <3>7. Bound' = Bound + 1
      BY <3>5, <3>6 DEF Bound
    <3> QED
      BY <2>1, <3>1, <3>5, <3>7 DEF Reach, Height
  <2>2. CASE req[g].kind # "add"
    <3>1. Pending' = Pending /\ Born' = Born /\ Bound' = Bound
      BY <1>1, <1>2, <2>2, SameBorn
    <3> QED
      BY <2>2, <3>1 DEF Reach, Height
  <2> QED
    BY <2>1, <2>2
<1>6. Born \subseteq Born' /\ Bound <= Bound' /\ Bound' \in Nat
  BY <1>4, <1>5 DEF Reach, Height
<1>7. TripInv'
  <2>1. Numbers(seq', Born', Bound') /\ Unique(seq')
    BY <1>1, <1>3, <1>5
  <2>2. \A h, k \in Pending' : req'[h].row = req'[k].row => h = k
    BY <1>1, <1>5 DEF NumInv, TripInv
  <2> QED
    BY <1>1, <2>1, <2>2 DEF NumInv, TripInv
<1>8. AskedOK(g)'
  <2>1. AskedOK(g)
    BY DEF NumInv
  <2>2. req[g].kind = "move" => req[g].slot \in 1..Bound'
    BY <1>4, <1>6, <2>1 DEF AskedOK
  <2> QED
    BY <1>1, <1>2, <2>1, <2>2 DEF AskedOK
<1> QED
  BY <1>1, <1>6, <1>7, <1>8

\* The other answers change where the request is, and nothing of the trip.
LEMMA OtherAnswersInRange ==
  ASSUME NumInv, NEW g \in Gestures, Serve(g), ~ReadSiblings(g), ~CommitWrite(g)
  PROVE  /\ TripInv'
         /\ Born' = Born /\ Bound' = Bound /\ used' = used
         /\ AskedOK(g)'
<1> DEFINE Moves(x) ==
             /\ pc' = [pc EXCEPT ![g] = x]
             /\ x # "idle"
             /\ x = "edit" => pc[g] = "lock"
             /\ x = "unlocking" => pc[g] = "unlock"
             /\ x # "lock" /\ x # "unlock" /\ x # "writing"
             /\ x = "flushed" => pc[g] = "writing" /\ plan' = plan
             /\ req[g].kind = "add" => (pc[g] \in PendingPlaces <=> x \in PendingPlaces)
<1>1. AskedOK(g) /\ pc \in [Gestures -> Places]
  BY DEF NumInv, Types
<1>2. UNCHANGED <<used, req, seq>>
  BY DEF Serve, LockHeld, FlushLock, CommitLock, LockFails, FlushUnlock, CommitUnlock,
         UnlockFails, NothingToMove, UpdateRow, Flushed, WriteFails, End, Reload,
         PatchesTrip, WritesStops, tripVars
<1>3. UNCHANGED <<pc, plan>> \/ \E x \in Places : Moves(x)
  <2>1. CASE LockHeld(g) \/ LockFails(g) \/ CommitLock(g)
    <3>1. plan' = plan /\ (pc' = pc \/ (pc[g] = "lock" /\ pc' = [pc EXCEPT ![g] = "edit"]))
      BY <2>1 DEF LockHeld, LockFails, CommitLock, LockAnswered, Goto, PatchesTrip
    <3> QED
      BY <3>1 DEF Places, PendingPlaces
  <2>2. CASE FlushLock(g) \/ \E w \in Waypoints : UpdateRow(g, w)
    BY <2>2 DEF FlushLock, UpdateRow, PatchesTrip
  <2>3. CASE FlushUnlock(g)
    <3>1. Moves("unlocking")
      BY <2>3 DEF FlushUnlock, Goto, PendingPlaces
    <3> QED
      BY <3>1 DEF Places
  <2>4. CASE CommitUnlock(g) \/ Reload(g)
    <3>1. Moves("done")
      BY <2>4 DEF CommitUnlock, Reload, Goto, PendingPlaces
    <3> QED
      BY <3>1 DEF Places
  <2>5. CASE UnlockFails(g)
    <3>1. req[g].kind = "unlock"
      BY <1>1, <2>5 DEF UnlockFails, AskedOK
    <3>2. Moves("failed")
      BY <2>5, <3>1 DEF UnlockFails, Goto
    <3> QED
      BY <3>2 DEF Places
  <2>6. CASE NothingToMove(g)
    <3>1. Moves("loading")
      BY <2>6 DEF NothingToMove, Goto
    <3> QED
      BY <3>1 DEF Places
  <2>7. CASE WriteFails(g)
    <3>1. Moves("failed")
      BY <2>7 DEF WriteFails, End, Goto, PendingPlaces
    <3> QED
      BY <3>1 DEF Places
  <2>8. CASE Flushed(g)
    <3>1. Moves("flushed")
      BY <2>8 DEF Flushed, Goto, PendingPlaces
    <3> QED
      BY <3>1 DEF Places
  <2> QED
    BY <2>1, <2>2, <2>3, <2>4, <2>5, <2>6, <2>7, <2>8 DEF Serve
<1>4. CASE UNCHANGED <<pc, plan>>
  <2>1. Pending' = Pending /\ Born' = Born /\ Bound' = Bound
    BY <1>2, <1>4, SameBorn
  <2>2. TripInv'
    BY <1>2, <2>1, SameTrip DEF NumInv
  <2>3. AskedOK(g)'
    BY <1>1, <1>2, <1>4, <2>1 DEF AskedOK, Reach, Height
  <2> QED
    BY <1>2, <2>1, <2>2, <2>3
<1>5. CASE \E x \in Places : Moves(x)
  <2>1. PICK x \in Places : Moves(x)
    BY <1>5
  <2>2. pc'[g] = x /\ \A h \in Gestures \ {g} : pc'[h] = pc[h]
    BY <1>1, <2>1
  <2>3. Pending' = Pending /\ Born' = Born /\ Bound' = Bound
    BY <1>2, <2>1, <2>2, SameBorn
  <2>4. TripInv'
    BY <1>2, <2>3, SameTrip DEF NumInv
  <2>5. AskedOK(g)'
    BY <1>1, <1>2, <2>1, <2>2, <2>3 DEF AskedOK, Reach, Height
  <2> QED
    BY <1>2, <2>3, <2>4, <2>5
<1> QED
  BY <1>3, <1>4, <1>5

LEMMA ServeKeepsNumbers ==
  ASSUME NumInv, NEW g \in Gestures, Serve(g)
  PROVE  NumInv'
<1>1. Types'
  BY GestureKeepsTypes, ToldIsNat DEF NumInv
<1>2. Bound \in Nat
  BY BoundIsNat DEF NumInv
<1>3. TripInv' /\ Born \subseteq Born' /\ Bound <= Bound' /\ used' = used /\ AskedOK(g)'
  <2>1. CASE ReadSiblings(g)
    <3>1. used' = used
      BY <2>1 DEF ReadSiblings, WritesStops
    <3> QED
      BY <1>2, <2>1, <3>1, ReadSiblingsInRange
  <2>2. CASE CommitWrite(g)
    BY <2>2, CommitWriteInRange
  <2>3. CASE ~ReadSiblings(g) /\ ~CommitWrite(g)
    BY <1>2, <2>3, OtherAnswersInRange
  <2> QED
    BY <2>1, <2>2, <2>3
<1>4. /\ UNCHANGED <<stage, rows, order, req>>
      /\ \A h \in Gestures \ {g} : pc'[h] = pc[h] /\ plan'[h] = plan[h]
  BY DEF Serve, LockHeld, FlushLock, CommitLock, LockFails, LockAnswered, FlushUnlock,
         CommitUnlock, UnlockFails, ReadSiblings, NothingToMove, UpdateRow, Flushed,
         CommitWrite, WriteFails, End, Reload, PatchesTrip,
         WritesStops, Goto, workerVars, NumInv, Types
<1>5. \A p \in Pages : view'[p] = view[p] \/ ListOK(p)'
  <2>1. CASE Reload(g)
    <3>1. \A p \in Pages : view'[p] = view[p] \/ view'[p] = Listed(seq)
      BY <2>1 DEF Reload, NumInv, Types
    <3>2. ~ReadSiblings(g) /\ ~CommitWrite(g)
      BY <2>1 DEF Reload, ReadSiblings, CommitWrite
    <3>3. Born' = Born /\ Bound' = Bound
      BY <3>2, OtherAnswersInRange
    <3>4. Unique(seq) /\ Numbers(seq, Born, Bound)
      BY DEF NumInv, TripInv
    <3>5. Listed(seq) \in Seq(Born) /\ Len(Listed(seq)) <= Bound
      BY <1>2, <3>4, ListedIsList
    <3> QED
      BY <3>1, <3>3, <3>5 DEF ListOK
  <2>2. CASE ~Reload(g)
    BY <2>2 DEF Serve, LockHeld, FlushLock, CommitLock, LockFails, LockAnswered, FlushUnlock,
                CommitUnlock, UnlockFails, ReadSiblings, NothingToMove, UpdateRow, Flushed,
                CommitWrite, WriteFails, End, PatchesTrip, WritesStops
  <2> QED
    BY <2>1, <2>2
<1> QED
  BY <1>1, <1>3, <1>4, <1>5, OthersInRange DEF NumInv

LEMMA PageKeepsNumbers ==
  ASSUME NumInv, NEW p \in Pages, OpenPage(p)
  PROVE  NumInv'
<1>1. Types'
  BY PageKeepsTypes DEF NumInv
<1>2. UNCHANGED <<used, seq, req, pc, plan, stage, rows, order>>
  BY DEF OpenPage, tripVars, workerVars
<1>3. Pending' = Pending /\ Born' = Born /\ Bound' = Bound
  BY <1>2, SameBorn
<1>4. TripInv' /\ Bound \in Nat
  BY <1>2, <1>3, SameTrip, BoundIsNat DEF NumInv
<1>5. Listed(seq) \in Seq(Born) /\ Len(Listed(seq)) <= Bound
  BY <1>4, ListedIsList DEF NumInv, TripInv
<1>6. \A q \in Pages : view'[q] = view[q] \/ view'[q] = Listed(seq)
  BY DEF OpenPage, NumInv, Types
<1>7. \A q \in Pages : view'[q] = view[q] \/ ListOK(q)'
  BY <1>3, <1>5, <1>6 DEF ListOK
<1> QED
  BY <1>1, <1>2, <1>3, <1>4, <1>7, OthersInRange DEF NumInv

-----------------------------------------------------------------------------
\* The recomputes.  What one has read was in the trip, and it renumbers only
\* what it has read.
LEMMA ReadInRange ==
  ASSUME NumInv, NEW i \in Workers, NEW p \in Orders(i, seq)
  PROVE  Numbers(seq, Born, Bound) /\ Numbers(p, DOMAIN seq, Bound)
<1>1. Bound \in Nat /\ Unique(seq) /\ Numbers(seq, Born, Bound)
  BY BoundIsNat DEF NumInv, TripInv
<1>2. Numbers(seq, DOMAIN seq, Bound)
  BY <1>1 DEF Numbers
<1>3. p = NoRows \/ p \in NearestOrders(seq, Miles)
  BY DEF Orders
<1> QED
  BY <1>1, <1>2, <1>3, OrderInRange, NoRowsNumbers

LEMMA ReorderedInRange ==
  ASSUME NumInv, NEW i \in Workers, stage[i] = "commit"
  PROVE  Numbers(Reordered(i), Born, Bound)
<1> DEFINE p == [w \in DOMAIN order[i] \cap Rows |-> order[i][w]]
<1>1. Numbers(seq, Born, Bound)
  BY DEF NumInv, TripInv
<1>2. Numbers(order[i], DOMAIN rows[i], Bound)
  BY DEF NumInv, WorkOK
<1>3. DOMAIN p \subseteq DOMAIN seq /\ \A w \in DOMAIN p : p[w] \in 1..Bound
  BY <1>2 DEF Numbers, Rows
<1>4. Reordered(i) = Overlay(seq, p)
  BY DEF Reordered
<1> HIDE DEF p
<1> QED
  BY <1>1, <1>3, <1>4 DEF Numbers, Overlay

LEMMA RecomputeKeepsNumbers ==
  ASSUME NumInv, NEW i \in Workers, WorkerStep(i)
  PROVE  NumInv'
<1>1. Types'
  BY RecomputeKeepsTypes DEF NumInv
<1>2. UNCHANGED <<used, req, pc, plan, view>>
  BY DEF WorkerStep, Recompute, PostRecompute, ReadLock, TakeEvent, ReadStops, PersistRow,
         SeeRoutes, DeleteRoutes, CommitRecompute, RecomputeFails, Aborts, Restart,
         tripVars, pageVars
<1>3. Pending' = Pending /\ Born' = Born /\ Bound' = Bound
  BY <1>2, SameBorn
<1>4. Bound \in Nat
  BY BoundIsNat DEF NumInv
<1>5. seq' = seq \/ (Unique(seq') /\ Numbers(seq', Born, Bound))
  <2>1. CASE CommitRecompute(i)
    BY <2>1, ReorderedInRange DEF CommitRecompute
  <2>2. CASE ~CommitRecompute(i)
    BY <2>2, BeginsOrEnds DEF ReadLock, ReadStops, PersistRow, SeeRoutes, DeleteRoutes,
                              tripVars
  <2> QED
    BY <2>1, <2>2
<1>6. TripInv'
  BY <1>2, <1>3, <1>5 DEF NumInv, TripInv
<1>7. \A j \in Workers \ {i} :
        stage'[j] = stage[j] /\ order'[j] = order[j] /\ rows'[j] = rows[j]
  <2>1. \A j \in Workers \ {i} : stage'[j] = stage[j] /\ order'[j] = order[j]
    BY RecomputeKeepsFunctions DEF NumInv, Types
  <2>2. \A j \in Workers \ {i} : rows'[j] = rows[j]
    BY BeginsOrEnds DEF ReadLock, ReadStops, PersistRow, SeeRoutes, DeleteRoutes,
                        CommitRecompute, Leave, workerVars, NumInv, Types
  <2> QED
    BY <2>1, <2>2
<1>8. WorkOK(i)'
  <2>1. CASE Leave(i, "idle") \/ ReadLock(i)
    <3>1. stage'[i] \in {"idle", "stops"}
      BY <2>1 DEF Leave, ReadLock, At, NumInv, Types, Functions
    <3> QED
      BY <3>1 DEF WorkOK
  <2>2. CASE ReadStops(i) /\ ~Leave(i, "idle")
    <3>1. rows' = [rows EXCEPT ![i] = seq]
      BY <2>2 DEF ReadStops
    <3>2. PICK p \in Orders(i, seq) : order' = [order EXCEPT ![i] = p]
      BY <2>2 DEF ReadStops
    <3>3. rows'[i] = seq /\ order'[i] = p
      BY <3>1, <3>2 DEF NumInv, Types, Functions
    <3> QED
      BY <1>3, <3>3, ReadInRange DEF WorkOK
  <2>3. CASE (\E w \in Waypoints : PersistRow(i, w)) \/ SeeRoutes(i) \/ DeleteRoutes(i)
    <3>1. stage[i] \in {"order", "delete"} /\ UNCHANGED <<rows, order>>
      BY <2>3 DEF PersistRow, NextRow, Unwritten, SeeRoutes, DeleteRoutes, workerVars
    <3> QED
      BY <1>3, <3>1 DEF NumInv, WorkOK
  <2> QED
    BY <2>1, <2>2, <2>3, BeginsOrEnds DEF CommitRecompute
<1> QED
  BY <1>1, <1>2, <1>3, <1>4, <1>6, <1>7, <1>8, OthersInRange DEF NumInv

LEMMA NextNumbers == NumInv /\ [Next]_vars => NumInv'
<1> SUFFICES ASSUME NumInv, [Next]_vars PROVE NumInv'
  OBVIOUS
<1>1. CASE UNCHANGED vars
  <2>1. Types'
    BY <1>1, IdleKeepsTypes DEF NumInv
  <2>2. UNCHANGED <<used, seq, req, pc, plan, view, stage, rows, order>>
    BY <1>1 DEF vars, tripVars, pageVars, workerVars
  <2>3. Pending' = Pending /\ Born' = Born /\ Bound' = Bound
    BY <2>2, SameBorn
  <2>4. TripInv' /\ Bound \in Nat
    BY <2>2, <2>3, SameTrip, BoundIsNat DEF NumInv
  <2> QED
    BY <2>1, <2>2, <2>3, <2>4, OthersInRange DEF NumInv
<1>2. CASE \E g \in Gestures : Gesture(g) \/ Serve(g)
  BY <1>2, GestureKeepsNumbers, ServeKeepsNumbers
<1>3. CASE \E p \in Pages : OpenPage(p)
  BY <1>3, PageKeepsNumbers
<1>4. CASE \E i \in Workers : WorkerStep(i)
  BY <1>4, RecomputeKeepsNumbers
<1> QED
  BY <1>1, <1>2, <1>3, <1>4, WorkersOfNext

\* Whatever gestures are made on lists that are out of date, whatever requests
\* and recomputes overlap, fail or are lost: no stop's number is below 1 or
\* above how many stops the trip ever had.
THEOREM NumbersStayBounded == Spec => []NumbersBounded
<1>1. NumInv => NumbersBounded
  <2> SUFFICES ASSUME NumInv PROVE NumbersBounded
    OBVIOUS
  <2>1. Bound \in Nat /\ Born \subseteq used /\ Bound <= Cardinality(used)
    BY BoundIsNat DEF NumInv
  <2>2. Cardinality(used) \in Nat
    BY FS_CardinalityType DEF NumInv, TripInv
  <2>3. Rows \subseteq used /\ seq \in [Rows -> 1..Cardinality(used)]
    BY <2>1, <2>2 DEF NumInv, TripInv, Numbers, Rows
  <2> QED
    BY <2>3 DEF NumInv, TripInv, Types, Functions, NumbersBounded
<1> QED
  BY <1>1, InitNumbers, NextNumbers, PTL DEF Spec

-----------------------------------------------------------------------------
\* If nobody changed the stops since a recompute read them, the route it leaves
\* visits them in the order it commits: the order is written to the rows it was
\* worked out from, all of them, and the route is listed from the same numbers.
LEMMA SameOverlay ==
  ASSUME NumInv, NEW i \in Workers, stage[i] = "commit", seq = rows[i]
  PROVE  RouteStops(i) = Listed(Reordered(i))
<1>1. Numbers(order[i], DOMAIN seq, Bound)
  BY DEF NumInv, WorkOK
<1>2. DOMAIN order[i] \cap Rows = DOMAIN order[i]
  BY <1>1 DEF Numbers, Rows
<1>3. [w \in DOMAIN order[i] \cap Rows |-> order[i][w]] = order[i]
  BY <1>1, <1>2 DEF Numbers
<1>4. Reordered(i) = Overlay(rows[i], order[i])
  BY <1>3 DEF Reordered
<1> QED
  BY <1>4 DEF RouteStops

LEMMA NewRouteIsListed ==
  ASSUME NumInv, [Next]_vars, NEW i \in Workers, Commits(i), seq = rows[i]
  PROVE  \E r \in routes' \ routes : r.stops = Listed(seq')
<1>1. stage[i] = "commit" /\ stage'[i] = "idle" /\ made' = made + 1
  BY DEF Commits
<1>2. made \in Nat /\ \A r \in routes : r.no \in 0..made
  BY DEF NumInv, Types
<1>3. CommitRecompute(i)
  <2>1. ~UNCHANGED vars
    BY <1>1 DEF vars, workerVars
  <2>2. ~ \/ \E g \in Gestures : Gesture(g) \/ Serve(g)
          \/ \E p \in Pages : OpenPage(p)
    BY <1>1, OthersLeaveWorkers
  <2>3. PICK j \in Workers : WorkerStep(j)
    BY <2>1, <2>2, WorkersOfNext
  <2>4. j = i
    BY <1>1, <2>3, RecomputeKeepsFunctions DEF NumInv, Types
  <2>5. made' # made
    BY <1>1, <1>2
  <2> QED
    BY <2>3, <2>4, <2>5, BeginsOrEnds DEF ReadLock, ReadStops, PersistRow, SeeRoutes,
                                          DeleteRoutes, tripVars
<1> DEFINE r == [no |-> made + 1, by |-> i, stops |-> RouteStops(i)]
<1>4. r \in routes'
  BY <1>3 DEF CommitRecompute, ReplaceRoute
<1>5. r \notin routes
  BY <1>2
<1>6. r.stops = Listed(seq')
  BY <1>1, <1>3, SameOverlay DEF CommitRecompute
<1> QED
  BY <1>4, <1>5, <1>6

\* Every recompute that commits leaves a route that visits the stops in the
\* order it stores, as long as no stop changed while it ran.
THEOREM RouteFollowsStops == Spec => RouteIsWhatIsStored
<1>1. NumInv /\ [Next]_vars
      => [\A i \in Workers :
            Commits(i) /\ seq = rows[i]
            => \E r \in routes' \ routes : r.stops = Listed(seq')]_vars
  BY NewRouteIsListed
<1> QED
  BY <1>1, InitNumbers, NextNumbers, PTL DEF Spec, RouteIsWhatIsStored
=============================================================================
