--------------------------- MODULE StopOrder_proofs ---------------------------
(***************************************************************************)
(* The order of a trip's stops, under writers that take turns.             *)
(*                                                                         *)
(* First the rules of route_governance.py: one write at a time, they       *)
(* implement the list the driver edits, and a trip is dense from a delete  *)
(* until a stop is moved beyond its ends, for any set of stop ids, any     *)
(* stop types, any planned trip and any slots that clients name.           *)
(*                                                                         *)
(* Then the optimizer of optimize.py: its loop returns each stop once with *)
(* the ends anchored, always the nearest stop next, and a second recompute *)
(* finds the order the first one left.  The invariant of the loop (Walk)   *)
(* says of each stop of the list so far that it was the nearest of those   *)
(* left then; and what a recompute leaves is an order the loop would take  *)
(* again (Settled), because a tie goes to the stop that is first in the    *)
(* list, and that is now the one that was visited first.                   *)
(***************************************************************************)
EXTENDS RouteGovernance, NearestNeighbor, WaypointOrder_proofs, SequenceTheorems

\* The inductive invariant: what the rules do to distinct numbers leaves them
\* distinct, and keeps the order of the stops they are not about.
Inv == TypeOK /\ Unique(seq) /\ DenseUnlessBeyond

\* The stops s and t have in common are in the same order.
Alike(s, t) ==
  \A u, v \in DOMAIN s \cap DOMAIN t : s[u] < s[v] <=> t[u] < t[v]

\* The stops once w has been placed at slot k, or moved there.
Placed(s, w, k) == Overlay(ShiftForInsert(s, w, k), [x \in {w} |-> k])

Moved(s, w, k) == Overlay(ShiftForMove(Siblings(s, w), s[w], k), [x \in {w} |-> k])

\* The slot after the highest one is after every one.
LEMMA LastSlotIsLast ==
  ASSUME NEW s, IsFiniteSet(DOMAIN s), s \in [DOMAIN s -> Int], Unique(s)
  PROVE  LastSlot(s) \in Int /\ \A v \in DOMAIN s : s[v] <= LastSlot(s)
<1>1. CASE DOMAIN s = {}
  BY <1>1 DEF LastSlot
<1>2. CASE DOMAIN s # {}
  <2> DEFINE IsLast(n) == \A v \in DOMAIN s : s[v] <= n
  <2>1. \E n \in {s[v] : v \in DOMAIN s} : IsLast(n)
    BY <1>2, OneIsLast
  <2> DEFINE L == CHOOSE n \in {s[v] : v \in DOMAIN s} : IsLast(n)
  <2>2. L \in {s[v] : v \in DOMAIN s} /\ IsLast(L)
    BY <2>1
  <2>3. LastSlot(s) = L
    BY <1>2 DEF LastSlot
  <2> HIDE DEF L
  <2> QED
    BY <2>2, <2>3
<1> QED
  BY <1>1, <1>2

\* Place-on-insert: the stops there were stay in their order, and the new one
\* shares its slot with none of them.
LEMMA PlacedStop ==
  ASSUME NEW s, IsFiniteSet(DOMAIN s), s \in [DOMAIN s -> Int], Unique(s),
         NEW w, w \notin DOMAIN s, NEW k \in PlaceSlots(s, w)
  PROVE  /\ DOMAIN Placed(s, w, k) = DOMAIN s \cup {w}
         /\ Placed(s, w, k) \in [DOMAIN Placed(s, w, k) -> Int]
         /\ Unique(Placed(s, w, k)) /\ Alike(s, Placed(s, w, k))
<1> DEFINE t == Placed(s, w, k)
<1>1. /\ DOMAIN t = DOMAIN s \cup {w} /\ t = [x \in DOMAIN t |-> t[x]] /\ t[w] = k
      /\ \A v \in DOMAIN s : t[v] = ShiftForInsert(s, w, k)[v]
  BY DEF Placed, Overlay, ShiftForInsert, ShiftFrom
<1> HIDE DEF t
<1>2. CASE BeforeDestination(s, w)
  <2>1. k \in Int
    BY <1>2 DEF PlaceSlots, Destinations
  <2>2. \A v \in DOMAIN s : t[v] = IF s[v] >= k THEN s[v] + 1 ELSE s[v]
    BY <1>1, <1>2 DEF ShiftForInsert, ShiftFrom
  <2>3. t \in [DOMAIN t -> Int]
    <3>1. \A x \in DOMAIN t : t[x] \in Int
      BY <1>1, <2>1, <2>2
    <3> QED
      BY <1>1, <3>1
  <2>4. Unique(t)
    BY <1>1, <2>1, <2>2 DEF Unique
  <2>5. Alike(s, t)
    BY <2>1, <2>2 DEF Alike
  <2> QED
    BY <1>1, <2>3, <2>4, <2>5 DEF t
<1>3. CASE ~BeforeDestination(s, w)
  <2>1. k \in Int /\ \A v \in DOMAIN s : s[v] < k
    BY <1>3, LastSlotIsLast DEF PlaceSlots
  <2>2. \A v \in DOMAIN s : t[v] = s[v]
    BY <1>1, <1>3 DEF ShiftForInsert
  <2>3. t \in [DOMAIN t -> Int]
    <3>1. \A x \in DOMAIN t : t[x] \in Int
      BY <1>1, <2>1, <2>2
    <3> QED
      BY <1>1, <3>1
  <2>4. Unique(t)
    BY <1>1, <2>1, <2>2 DEF Unique
  <2>5. Alike(s, t)
    BY <2>2 DEF Alike
  <2> QED
    BY <1>1, <2>3, <2>4, <2>5 DEF t
<1> QED
  BY <1>2, <1>3

\* Shift-on-move, to any slot whatever: the other stops stay in their order, and
\* none of them is left at the slot.
LEMMA MovedStop ==
  ASSUME NEW s, s \in [DOMAIN s -> Int], Unique(s),
         NEW w \in DOMAIN s, NEW k \in Int
  PROVE  /\ DOMAIN Moved(s, w, k) = DOMAIN s
         /\ Moved(s, w, k) \in [DOMAIN Moved(s, w, k) -> Int]
         /\ Unique(Moved(s, w, k))
         /\ Alike(Siblings(s, w), Siblings(Moved(s, w, k), w))
<1> DEFINE t == Moved(s, w, k)
<1>1. /\ DOMAIN t = DOMAIN s /\ t = [x \in DOMAIN t |-> t[x]] /\ t[w] = k
      /\ \A v \in DOMAIN s \ {w} :
           t[v] = IF k <= s[v] /\ s[v] < s[w] THEN s[v] + 1
                  ELSE IF s[w] < s[v] /\ s[v] <= k THEN s[v] - 1
                  ELSE s[v]
  BY DEF Moved, Overlay, ShiftForMove, Siblings
<1> HIDE DEF t
<1>2. \A v \in DOMAIN s \ {w} : s[v] # s[w] /\ s[v] \in Int /\ s[w] \in Int
  BY DEF Unique
<1>3. t \in [DOMAIN t -> Int]
  <2>1. \A x \in DOMAIN t : t[x] \in Int
    BY <1>1, <1>2
  <2> QED
    BY <1>1, <2>1
<1>4. \A u, v \in DOMAIN s \ {w} : s[u] < s[v] => t[u] < t[v]
  BY <1>1, <1>2
<1>5. \A u, v \in DOMAIN s \ {w} : t[u] < t[v] => s[u] < s[v]
  BY <1>1, <1>2, <1>3, <1>4 DEF Unique
<1>6. \A v \in DOMAIN s \ {w} : t[v] # k
  BY <1>1, <1>2
<1>7. Unique(t)
  BY <1>1, <1>3, <1>4, <1>6 DEF Unique
<1>8. Alike(Siblings(s, w), Siblings(t, w))
  BY <1>1, <1>4, <1>5 DEF Alike, Siblings
<1> QED
  BY <1>1, <1>3, <1>7, <1>8 DEF t

LEMMA InitInv == Init => Inv
<1> SUFFICES ASSUME Init PROVE Inv
  OBVIOUS
<1> QED
  BY InitialSeqAssumption DEF Init, Inv, TypeOK, DenseUnlessBeyond, Dense, Rows

LEMMA InsertInv ==
  ASSUME Inv, NEW w \in Waypoints, InsertWaypoint(w)
  PROVE  Inv'
<1>1. PICK k \in PlaceSlots(seq, w) :
        seq' = Overlay(ShiftForInsert(seq, w, k), [x \in {w} |-> k])
  BY DEF InsertWaypoint
<1>2. /\ IsFiniteSet(DOMAIN seq) /\ w \notin DOMAIN seq
      /\ seq \in [DOMAIN seq -> Int] /\ Unique(seq)
  BY FS_Subset DEF Inv, TypeOK, Rows, InsertWaypoint
<1>3. DOMAIN seq' = DOMAIN seq \cup {w} /\ seq' \in [DOMAIN seq' -> Int] /\ Unique(seq')
  <2> DEFINE t == Placed(seq, w, k)
  <2>1. DOMAIN t = DOMAIN seq \cup {w} /\ t \in [DOMAIN t -> Int] /\ Unique(t)
    BY <1>1, <1>2, PlacedStop
  <2> QED
    BY <1>1, <2>1 DEF Placed
<1>4. Dense(seq) => Dense(seq')
  BY <1>1, <1>2, InsertIsDense
<1>5. IsFiniteSet(used')
  BY FS_AddElement DEF Inv, TypeOK, InsertWaypoint
<1> QED
  BY <1>2, <1>3, <1>4, <1>5 DEF Inv, TypeOK, DenseUnlessBeyond, Rows, InsertWaypoint

LEMMA MoveInv ==
  ASSUME Inv, NEW w \in Waypoints, NEW k \in Slots, MoveWaypoint(w, k)
  PROVE  Inv'
<1>1. /\ w \in DOMAIN seq /\ k \in Int /\ used' = used
      /\ beyond' = (beyond \/ k \notin 1..Cardinality(DOMAIN seq))
      /\ seq' = Overlay(ShiftForMove(Siblings(seq, w), seq[w], k), [x \in {w} |-> k])
  BY InitialSeqAssumption DEF MoveWaypoint, Rows
<1>2. IsFiniteSet(DOMAIN seq) /\ seq \in [DOMAIN seq -> Int] /\ Unique(seq)
  BY FS_Subset DEF Inv, TypeOK, Rows
<1>3. DOMAIN seq' = DOMAIN seq /\ seq' \in [DOMAIN seq' -> Int] /\ Unique(seq')
  <2> DEFINE t == Moved(seq, w, k)
  <2>1. DOMAIN t = DOMAIN seq /\ t \in [DOMAIN t -> Int] /\ Unique(t)
    <3>1. w \in DOMAIN seq /\ k \in Int
      BY <1>1
    <3> QED
      BY <1>2, <3>1, MovedStop
  <2> QED
    BY <1>1, <2>1 DEF Moved
<1>4. ~beyond' => Dense(seq')
  BY <1>1, <1>2, MoveIsDense DEF Inv, DenseUnlessBeyond
<1> QED
  BY <1>1, <1>3, <1>4 DEF Inv, TypeOK, DenseUnlessBeyond, Rows

LEMMA DeleteInv ==
  ASSUME Inv, NEW w \in Waypoints, DeleteWaypoint(w)
  PROVE  Inv'
<1>1. seq' = Renumber(Siblings(seq, w)) /\ used' = used /\ beyond' = FALSE
  BY DEF DeleteWaypoint
<1>2. IsFiniteSet(DOMAIN seq) /\ seq \in [DOMAIN seq -> Int] /\ Unique(seq)
  BY FS_Subset DEF Inv, TypeOK, Rows
<1>3. Dense(seq')
  BY <1>1, <1>2, DeleteIsDense
<1>4. DOMAIN seq' = DOMAIN seq \ {w} /\ seq' = [x \in DOMAIN seq' |-> seq'[x]]
  BY <1>1 DEF Renumber, Siblings
<1>5. seq' \in [DOMAIN seq' -> Int]
  <2> DEFINE t == seq'
  <2>1. IsFiniteSet(DOMAIN t) /\ Dense(t) /\ t = [x \in DOMAIN t |-> t[x]]
    BY <1>2, <1>3, <1>4, FS_Subset
  <2> HIDE DEF t
  <2>2. \A x \in DOMAIN t : t[x] \in Int
    BY <2>1, DenseRange
  <2>3. t \in [DOMAIN t -> Int]
    BY <2>1, <2>2
  <2> QED
    BY <2>3 DEF t
<1> QED
  BY <1>1, <1>3, <1>4, <1>5 DEF Inv, TypeOK, DenseUnlessBeyond, Dense, Rows

LEMMA SpecInv == Spec => []Inv
<1>1. Inv /\ [Next]_vars => Inv'
  <2> SUFFICES ASSUME Inv, [Next]_vars PROVE Inv'
    OBVIOUS
  <2>1. ASSUME NEW w \in Waypoints, InsertWaypoint(w) PROVE Inv'
    BY <2>1, InsertInv
  <2>2. ASSUME NEW w \in Waypoints, NEW k \in Slots, MoveWaypoint(w, k)
        PROVE  Inv'
    BY <2>2, MoveInv
  <2>3. ASSUME NEW w \in Waypoints, DeleteWaypoint(w) PROVE Inv'
    BY <2>3, DeleteInv
  <2>4. CASE UNCHANGED vars
    BY <2>4 DEF vars, Inv, TypeOK, DenseUnlessBeyond, Rows
  <2> QED
    BY <2>1, <2>2, <2>3, <2>4 DEF Next
<1> QED
  BY <1>1, InitInv, PTL DEF Spec

\* Every committed trip is typed: its rows were created once each and have
\* whole numbers.
THEOREM TypeCorrect == Spec => []TypeOK
<1>1. Inv => TypeOK
  BY DEF Inv
<1> QED
  BY <1>1, SpecInv, PTL

\* Every committed trip is numbered 1..N without gap or repetition
\* (route_governance.py's invariant) unless, since the last delete, a stop was
\* moved to a slot that the trip did not have: for writes that do not overlap,
\* whatever slots the clients name.
THEOREM DenseAlways == Spec => []DenseUnlessBeyond
<1>1. Inv => DenseUnlessBeyond
  BY DEF Inv
<1> QED
  BY <1>1, SpecInv, PTL

-----------------------------------------------------------------------------
(***************************************************************************)
(* The rules implement the driver's list.  The list depends on the order   *)
(* of the numbers only (RenumberedAlike), and a dense trip and its list    *)
(* determine each other (ListIsDetermined).  So it suffices that a rule    *)
(* keeps the order of the stops it is not about: the list without the one  *)
(* it is about is the same before and after (ListWithout), and that one is *)
(* somewhere in the list after (ListWith).                                 *)
(***************************************************************************)
LEMMA ListOfDense ==
  ASSUME NEW s, IsFiniteSet(DOMAIN s), Dense(s)
  PROVE  /\ Cardinality(DOMAIN s) \in Nat
         /\ AsList(s) \in Seq(DOMAIN s)
         /\ Len(AsList(s)) = Cardinality(DOMAIN s)
         /\ \A k \in 1..Cardinality(DOMAIN s) :
              AsList(s)[k] \in DOMAIN s /\ s[AsList(s)[k]] = k
         /\ \A w \in DOMAIN s : s[w] \in 1..Cardinality(DOMAIN s) /\ AsList(s)[s[w]] = w
<1> DEFINE n == Cardinality(DOMAIN s)
           Place(k) == CHOOSE w \in DOMAIN s : s[w] = k
<1>1. n \in Nat /\ \A w \in DOMAIN s : s[w] \in 1..n
  BY DenseRange
<1>2. ASSUME NEW k \in 1..n PROVE Place(k) \in DOMAIN s /\ s[Place(k)] = k
  <2>1. \E w \in DOMAIN s : s[w] = k
    BY DEF Dense, Contiguous
  <2> QED
    BY <2>1
<1>3. AsList(s) = [k \in 1..n |-> Place(k)]
  BY DEF AsList
<1> HIDE DEF Place
<1>4. AsList(s) \in [1..n -> DOMAIN s]
  BY <1>2, <1>3
<1>5. AsList(s) \in Seq(DOMAIN s) /\ Len(AsList(s)) = n
  BY <1>1, <1>4
<1>6. \A k \in 1..n : AsList(s)[k] \in DOMAIN s /\ s[AsList(s)[k]] = k
  BY <1>2, <1>3
<1>7. \A w \in DOMAIN s : AsList(s)[s[w]] = w
  BY <1>1, <1>6 DEF Dense, Unique
<1> QED
  BY <1>1, <1>5, <1>6, <1>7

LEMMA ListIsDetermined ==
  ASSUME NEW s, IsFiniteSet(DOMAIN s), Dense(s),
         NEW S, NEW list \in Seq(S), Len(list) = Cardinality(DOMAIN s),
         \A k \in 1..Len(list) : list[k] \in DOMAIN s /\ s[list[k]] = k
  PROVE  AsList(s) = list
<1>1. AsList(s) \in Seq(DOMAIN s) /\ Len(AsList(s)) = Len(list)
  BY ListOfDense
<1>2. \A k \in 1..Len(list) : AsList(s)[k] = list[k]
  BY ListOfDense DEF Dense, Unique
<1> QED
  BY <1>1, <1>2

\* What the list operators put where.
LEMMA Inserted ==
  ASSUME NEW S, NEW list \in Seq(S), NEW e \in S, NEW k \in 1..(Len(list) + 1)
  PROVE  /\ List!InsertAt(list, k, e) \in Seq(S)
         /\ Len(List!InsertAt(list, k, e)) = Len(list) + 1
         /\ \A m \in 1..(Len(list) + 1) :
              List!InsertAt(list, k, e)[m]
              = IF m < k THEN list[m] ELSE IF m = k THEN e ELSE list[m - 1]
<1> DEFINE n == Len(list)
           a == SubSeq(list, 1, k - 1)
           c == SubSeq(list, k, n)
           ab == a \o <<e>>
<1>0. n \in Nat /\ k \in Int
  OBVIOUS
<1>1. a \in Seq(S) /\ Len(a) = k - 1 /\ \A m \in 1..(k - 1) : a[m] = list[m]
  OBVIOUS
<1>2. c \in Seq(S) /\ Len(c) = n - k + 1 /\ \A m \in 1..(n - k + 1) : c[m] = list[k + m - 1]
  OBVIOUS
<1>3. List!InsertAt(list, k, e) = ab \o c
  BY DEF List!InsertAt
<1> HIDE DEF a, c
<1>4. ab \in Seq(S) /\ Len(ab) = k /\ ab[k] = e /\ \A m \in 1..(k - 1) : ab[m] = list[m]
  BY <1>1
<1> HIDE DEF ab
<1>5. ab \o c \in Seq(S) /\ Len(ab \o c) = n + 1
  BY <1>0, <1>2, <1>4, ConcatProperties
<1>6. ASSUME NEW m \in 1..(n + 1)
      PROVE  (ab \o c)[m] = IF m < k THEN list[m] ELSE IF m = k THEN e ELSE list[m - 1]
  <2>1. CASE m <= k
    <3>1. (ab \o c)[m] = ab[m]
      BY <1>2, <1>4, <2>1
    <3> QED
      BY <1>4, <2>1, <3>1
  <2>2. CASE m > k
    <3>1. (ab \o c)[m] = c[m - k]
      BY <1>2, <1>4, <2>2
    <3>2. m - k \in 1..(n - k + 1) /\ k + (m - k) - 1 = m - 1
      BY <2>2
    <3>3. c[m - k] = list[m - 1]
      BY <1>2, <3>2
    <3> QED
      BY <2>2, <3>1, <3>3
  <2>3. m <= k \/ m > k
    BY <1>0
  <2> QED
    BY <2>1, <2>2, <2>3, Zenon
<1> QED
  BY <1>3, <1>5, <1>6

LEMMA Removed ==
  ASSUME NEW S, NEW list \in Seq(S), NEW i \in 1..Len(list)
  PROVE  /\ List!RemoveAt(list, i) \in Seq(S)
         /\ Len(List!RemoveAt(list, i)) = Len(list) - 1
         /\ \A m \in 1..(Len(list) - 1) :
              List!RemoveAt(list, i)[m] = IF m < i THEN list[m] ELSE list[m + 1]
<1> DEFINE n == Len(list)
           a == SubSeq(list, 1, i - 1)
           c == SubSeq(list, i + 1, n)
<1>0. n \in Nat /\ i \in Int
  OBVIOUS
<1>1. a \in Seq(S) /\ Len(a) = i - 1 /\ \A m \in 1..(i - 1) : a[m] = list[m]
  OBVIOUS
<1>2. c \in Seq(S) /\ Len(c) = n - i /\ \A m \in 1..(n - i) : c[m] = list[i + m]
  OBVIOUS
<1>3. List!RemoveAt(list, i) = a \o c
  BY DEF List!RemoveAt
<1> HIDE DEF a, c
<1>4. a \o c \in Seq(S) /\ Len(a \o c) = n - 1
  <2>1. a \o c \in Seq(S) /\ Len(a \o c) = Len(a) + Len(c)
    BY <1>1, <1>2, ConcatProperties
  <2>2. Len(a) + Len(c) = n - 1
    BY <1>0, <1>1, <1>2
  <2> QED
    BY <2>1, <2>2
<1>5. ASSUME NEW m \in 1..(n - 1)
      PROVE  (a \o c)[m] = IF m < i THEN list[m] ELSE list[m + 1]
  <2>1. CASE m < i
    <3>1. (a \o c)[m] = a[m]
      BY <1>1, <1>2, <2>1
    <3> QED
      BY <1>1, <2>1, <3>1
  <2>2. CASE m >= i
    <3>1. (a \o c)[m] = c[m - (i - 1)]
      BY <1>1, <1>2, <2>2
    <3>2. m - (i - 1) \in 1..(n - i) /\ i + (m - (i - 1)) = m + 1
      BY <2>2
    <3>3. c[m - (i - 1)] = list[m + 1]
      BY <1>2, <3>2
    <3> QED
      BY <2>2, <3>1, <3>3
  <2>3. m < i \/ m >= i
    BY <1>0
  <2> QED
    BY <2>1, <2>2, <2>3, Zenon
<1> QED
  BY <1>3, <1>4, <1>5

-----------------------------------------------------------------------------
\* The stops numbered below m on a dense trip are m - 1.
LEMMA HowManyAhead ==
  ASSUME NEW s, IsFiniteSet(DOMAIN s), Dense(s), NEW w \in DOMAIN s
  PROVE  IsFiniteSet(Ahead(s, w)) /\ Cardinality(Ahead(s, w)) = s[w] - 1
<1> DEFINE A == Ahead(s, w)
           f == [v \in A |-> s[v]]
<1>1. s[w] \in 1..Cardinality(DOMAIN s) /\ Cardinality(DOMAIN s) \in Nat
  BY DenseRange
<1>2. A \subseteq DOMAIN s /\ IsFiniteSet(A)
  BY FS_Subset DEF Ahead
<1>3. f \in [A -> 1..(s[w] - 1)]
  <2>1. \A v \in A : s[v] \in 1..(s[w] - 1)
    BY <1>1, DenseRange DEF Ahead
  <2> QED
    BY <2>1
<1>4. f \in Injection(A, 1..(s[w] - 1))
  BY <1>2, <1>3 DEF Injection, IsInjective, Dense, Unique
<1>5. f \in Surjection(A, 1..(s[w] - 1))
  <2>1. ASSUME NEW k \in 1..(s[w] - 1) PROVE \E v \in A : f[v] = k
    <3>1. PICK v \in DOMAIN s : s[v] = k
      BY <1>1 DEF Dense, Contiguous
    <3> QED
      BY <1>1, <3>1 DEF Ahead
  <2> QED
    BY <1>3, <2>1 DEF Surjection
<1>6. Cardinality(1..(s[w] - 1)) = s[w] - 1
  BY <1>1, FS_Interval
<1> HIDE DEF A, f
<1>7. Cardinality(A) = s[w] - 1
  BY <1>2, <1>4, <1>5, <1>6, FS_Surjection
<1> QED
  BY <1>2, <1>7 DEF A

\* A delete takes the stop out, and those behind it close the gap.
LEMMA DeleteEdits ==
  ASSUME NEW s, IsFiniteSet(DOMAIN s), Dense(s), s \in [DOMAIN s -> Int],
         NEW w \in DOMAIN s
  PROVE  /\ s[w] \in 1..Len(AsList(s))
         /\ AsList(Renumber(Siblings(s, w))) = List!RemoveAt(AsList(s), s[w])
<1> DEFINE D == DOMAIN s
           n == Cardinality(D)
           i == s[w]
           L == AsList(s)
           sib == Siblings(s, w)
           t == Renumber(sib)
           new == List!RemoveAt(L, i)
<1>1. /\ n \in Nat /\ L \in Seq(D) /\ Len(L) = n
      /\ \A m \in 1..n : L[m] \in D /\ s[L[m]] = m
      /\ i \in 1..n /\ L[i] = w
  BY ListOfDense
<1>2. DOMAIN t = D \ {w}
  BY DEF Renumber, Siblings
<1>3. ASSUME NEW m \in 1..n, m # i
      PROVE  t[L[m]] = IF m < i THEN m ELSE m - 1
  <2> DEFINE v == L[m]
  <2>1. v \in D \ {w} /\ s[v] = m
    BY <1>1, <1>3
  <2> HIDE DEF v
  <2>2. Ahead(sib, v) = Ahead(s, v) \ {w}
    BY <2>1 DEF Ahead, Siblings
  <2>3. IsFiniteSet(Ahead(s, v)) /\ Cardinality(Ahead(s, v)) = m - 1
    BY <2>1, HowManyAhead
  <2>4. w \in Ahead(s, v) <=> i < m
    BY <2>1 DEF Ahead
  <2>5. Cardinality(Ahead(sib, v)) = IF i < m THEN m - 2 ELSE m - 1
    <3>1. Cardinality(Ahead(s, v) \ {w}) = IF w \in Ahead(s, v) THEN Cardinality(Ahead(s, v)) - 1
                                           ELSE Cardinality(Ahead(s, v))
      BY <2>3, FS_RemoveElement
    <3> QED
      BY <2>2, <2>3, <2>4, <3>1
  <2>6. t[v] = Cardinality(Ahead(sib, v)) + 1
    BY <2>1 DEF Renumber, Siblings
  <2> QED
    BY <1>1, <1>3, <2>5, <2>6 DEF v
<1>4. Dense(t)
  <2>1. Unique(s)
    BY DEF Dense
  <2> QED
    BY <2>1, DeleteIsDense
<1>5. IsFiniteSet(D \ {w}) /\ Cardinality(D \ {w}) = n - 1
  BY FS_RemoveElement
<1> HIDE DEF t, L, i, n, D
<1>6. /\ new \in Seq(D) /\ Len(new) = n - 1
      /\ \A m \in 1..(n - 1) : new[m] = IF m < i THEN L[m] ELSE L[m + 1]
  BY <1>1, Removed
<1> HIDE DEF new
<1>7. ASSUME NEW m \in 1..(n - 1) PROVE new[m] \in D \ {w} /\ t[new[m]] = m
  <2>1. CASE m < i
    <3>1. new[m] = L[m] /\ m \in 1..n
      BY <1>1, <1>6, <2>1
    <3>2. t[L[m]] = m /\ L[m] \in D /\ L[m] # w
      BY <1>1, <1>3, <2>1, <3>1 DEF i
    <3> QED
      BY <3>1, <3>2
  <2>2. CASE m >= i
    <3>1. new[m] = L[m + 1] /\ m + 1 \in 1..n
      BY <1>1, <1>6, <2>2
    <3>2. t[L[m + 1]] = m /\ L[m + 1] \in D /\ L[m + 1] # w
      BY <1>1, <1>3, <2>2, <3>1 DEF i
    <3> QED
      BY <3>1, <3>2
  <2> QED
    BY <1>1, <2>1, <2>2
<1>8. AsList(t) = new
  <2>1. IsFiniteSet(DOMAIN t) /\ Len(new) = Cardinality(DOMAIN t)
    BY <1>2, <1>5, <1>6
  <2>2. \A m \in 1..Len(new) : new[m] \in DOMAIN t /\ t[new[m]] = m
    BY <1>2, <1>6, <1>7
  <2> QED
    BY <1>4, <1>6, <2>1, <2>2, ListIsDetermined
<1> QED
  BY <1>1, <1>8 DEF t, L, new, i

-----------------------------------------------------------------------------
\* A stop that is taken out of a list, and put back where it was.
LEMMA PutBack ==
  ASSUME NEW S, NEW list \in Seq(S), NEW j \in 1..Len(list)
  PROVE  List!InsertAt(List!RemoveAt(list, j), j, list[j]) = list
<1> DEFINE short == List!RemoveAt(list, j)
           back == List!InsertAt(short, j, list[j])
<1>1. /\ short \in Seq(S) /\ Len(short) = Len(list) - 1
      /\ \A m \in 1..(Len(list) - 1) : short[m] = IF m < j THEN list[m] ELSE list[m + 1]
  BY Removed
<1> HIDE DEF short
<1> DEFINE e == list[j]
<1>2. e \in S /\ j \in 1..(Len(short) + 1) /\ Len(short) + 1 = Len(list)
  BY <1>1
<1> HIDE DEF e
<1>3. /\ back \in Seq(S) /\ Len(back) = Len(list)
      /\ \A m \in 1..Len(list) :
           back[m] = IF m < j THEN short[m] ELSE IF m = j THEN list[j] ELSE short[m - 1]
  <2>1. /\ List!InsertAt(short, j, e) \in Seq(S)
        /\ Len(List!InsertAt(short, j, e)) = Len(short) + 1
        /\ \A m \in 1..(Len(short) + 1) :
             List!InsertAt(short, j, e)[m]
             = IF m < j THEN short[m] ELSE IF m = j THEN e ELSE short[m - 1]
    <3>1. short \in Seq(S)
      BY <1>1
    <3> QED
      BY <1>2, <3>1, Inserted
  <2> QED
    BY <1>2, <2>1 DEF e
<1> HIDE DEF back
<1>4. ASSUME NEW m \in 1..Len(list) PROVE back[m] = list[m]
  <2>1. CASE m < j
    BY <1>1, <1>3, <2>1
  <2>2. CASE m = j
    BY <1>3, <2>2
  <2>3. CASE m > j
    BY <1>1, <1>3, <2>3
  <2> QED
    BY <2>1, <2>2, <2>3
<1>5. back = list
  BY <1>3, <1>4
<1> QED
  BY <1>5 DEF back, short

\* Stops in the same order are renumbered alike.
LEMMA RenumberedAlike ==
  ASSUME NEW s, NEW t, DOMAIN s = DOMAIN t, Alike(s, t)
  PROVE  Renumber(s) = Renumber(t)
<1>1. \A w \in DOMAIN s : Ahead(s, w) = Ahead(t, w)
  BY DEF Alike, Ahead
<1> QED
  BY <1>1 DEF Renumber

\* Renumbering keeps the order, so renumbering twice is renumbering once.
LEMMA RenumberIsAlike ==
  ASSUME NEW s, IsFiniteSet(DOMAIN s), s \in [DOMAIN s -> Int], Unique(s)
  PROVE  DOMAIN Renumber(s) = DOMAIN s /\ Alike(s, Renumber(s))
<1> DEFINE r == Renumber(s)
<1>1. /\ DOMAIN r = DOMAIN s /\ r \in [DOMAIN s -> 1..Cardinality(DOMAIN s)]
      /\ \A v, w \in DOMAIN s : s[v] < s[w] => r[v] < r[w]
  BY RenumberKeepsOrder
<1> HIDE DEF r
<1>2. Cardinality(DOMAIN s) \in Nat
  BY FS_CardinalityType
<1>3. ASSUME NEW u \in DOMAIN s, NEW v \in DOMAIN s, r[u] < r[v] PROVE s[u] < s[v]
  <2>1. r[u] \in Int /\ r[v] \in Int /\ ~(r[v] < r[u]) /\ u # v
    BY <1>1, <1>2, <1>3
  <2>2. ~(s[v] < s[u]) /\ s[u] # s[v]
    BY <1>1, <2>1 DEF Unique
  <2> QED
    BY <2>2
<1>4. Alike(s, r)
  BY <1>1, <1>3 DEF Alike
<1> QED
  BY <1>1, <1>4 DEF r

\* The list of a trip: its stops, each at the slot that renumbering gives it.
LEMMA ListOfTrip ==
  ASSUME NEW s, IsFiniteSet(DOMAIN s), s \in [DOMAIN s -> Int], Unique(s)
  PROVE  /\ Listed(s) \in Seq(DOMAIN s)
         /\ Len(Listed(s)) = Cardinality(DOMAIN s)
         /\ \A k \in 1..Len(Listed(s)) : Listed(s)[k] \in DOMAIN s
         /\ \A w \in DOMAIN s : /\ Renumber(s)[w] \in 1..Len(Listed(s))
                                /\ Listed(s)[Renumber(s)[w]] = w
<1> DEFINE r == Renumber(s)
<1>1. Dense(r) /\ DOMAIN r = DOMAIN s /\ Listed(s) = AsList(r)
  BY RenumberIsDense DEF Renumber, Listed
<1> HIDE DEF r
<1>2. /\ AsList(r) \in Seq(DOMAIN s) /\ Len(AsList(r)) = Cardinality(DOMAIN s)
      /\ \A k \in 1..Cardinality(DOMAIN s) : AsList(r)[k] \in DOMAIN s
      /\ \A w \in DOMAIN s : r[w] \in 1..Cardinality(DOMAIN s) /\ AsList(r)[r[w]] = w
  BY <1>1, ListOfDense
<1> QED
  BY <1>1, <1>2 DEF r

\* The list without one of the stops, whatever their numbers.
LEMMA ListWithout ==
  ASSUME NEW s, IsFiniteSet(DOMAIN s), s \in [DOMAIN s -> Int], Unique(s),
         NEW w \in DOMAIN s
  PROVE  Listed(Siblings(s, w)) = List!RemoveAt(Listed(s), Renumber(s)[w])
<1> DEFINE r == Renumber(s)
<1>1. Dense(r) /\ DOMAIN r = DOMAIN s /\ Alike(s, r) /\ r \in [DOMAIN r -> Int]
  <2>1. r \in [DOMAIN s -> 1..Cardinality(DOMAIN s)] /\ Cardinality(DOMAIN s) \in Nat
    BY RenumberKeepsOrder, FS_CardinalityType
  <2> QED
    BY <2>1, RenumberIsDense, RenumberIsAlike
<1>2. Listed(s) = AsList(r) /\ Listed(Siblings(s, w)) = AsList(Renumber(Siblings(s, w)))
  BY DEF Listed
<1> HIDE DEF r
<1>3. AsList(Renumber(Siblings(r, w))) = List!RemoveAt(AsList(r), r[w])
  BY <1>1, DeleteEdits
<1>4. DOMAIN Siblings(s, w) = DOMAIN Siblings(r, w) /\ Alike(Siblings(s, w), Siblings(r, w))
  BY <1>1 DEF Alike, Siblings
<1>5. Renumber(Siblings(s, w)) = Renumber(Siblings(r, w))
  BY <1>4, RenumberedAlike
<1> QED
  BY <1>2, <1>3, <1>5 DEF r

\* A list that has one stop more than another, or has it elsewhere, and the
\* others in the same order, is that one with the stop put in.
LEMMA ListWith ==
  ASSUME NEW t, IsFiniteSet(DOMAIN t), t \in [DOMAIN t -> Int], Unique(t),
         NEW w \in DOMAIN t,
         NEW rest, rest = Listed(Siblings(t, w))
  PROVE  \E j \in 1..(Len(rest) + 1) : Listed(t) = List!InsertAt(rest, j, w)
<1> DEFINE L == Listed(t)
           j == Renumber(t)[w]
<1>1. L \in Seq(DOMAIN t) /\ j \in 1..Len(L) /\ L[j] = w
  BY ListOfTrip
<1>2. rest = List!RemoveAt(L, j)
  BY ListWithout
<1> HIDE DEF L, j
<1>3. List!InsertAt(rest, j, L[j]) = L
  BY <1>1, <1>2, PutBack
<1>4. Len(rest) = Len(L) - 1
  BY <1>1, <1>2, Removed
<1>5. j \in 1..(Len(rest) + 1)
  BY <1>1, <1>4
<1> QED
  BY <1>1, <1>3, <1>5 DEF L

\* What a rule does is one edit of the list, or leaves it alone.
LEMMA StepEdits ==
  ASSUME Inv, [Next]_vars
  PROVE  [List!Next]_(Listed(seq))
<1> DEFINE L == Listed(seq)
<1>1. /\ IsFiniteSet(DOMAIN seq) /\ Unique(seq)
      /\ seq \in [DOMAIN seq -> Int] /\ DOMAIN seq \subseteq used
  BY FS_Subset DEF Inv, TypeOK, Rows
<1>2. /\ L \in Seq(DOMAIN seq) /\ \A k \in 1..Len(L) : L[k] \in DOMAIN seq
      /\ \A w \in DOMAIN seq : Renumber(seq)[w] \in 1..Len(L) /\ L[Renumber(seq)[w]] = w
  BY <1>1, ListOfTrip
<1>3. ASSUME NEW w \in Waypoints, InsertWaypoint(w) PROVE List!InsertStop
  <2>1. PICK k \in PlaceSlots(seq, w) :
          seq' = Overlay(ShiftForInsert(seq, w, k), [x \in {w} |-> k])
    BY <1>3 DEF InsertWaypoint
  <2>2. w \notin DOMAIN seq
    BY <1>1, <1>3 DEF InsertWaypoint
  <2> DEFINE t == Placed(seq, w, k)
  <2>3. /\ DOMAIN t = DOMAIN seq \cup {w} /\ t \in [DOMAIN t -> Int]
        /\ Unique(t) /\ Alike(seq, t)
    BY <1>1, <2>1, <2>2, PlacedStop
  <2> HIDE DEF t
  <2>4. IsFiniteSet(DOMAIN t)
    BY <1>1, <2>3, FS_AddElement
  <2>5. DOMAIN Siblings(t, w) = DOMAIN seq /\ Alike(Siblings(t, w), seq)
    BY <2>2, <2>3 DEF Alike, Siblings
  <2>6. Listed(Siblings(t, w)) = L
    BY <2>5, RenumberedAlike DEF Listed
  <2>7. \E j \in 1..(Len(L) + 1) : Listed(t) = List!InsertAt(L, j, w)
    BY <2>3, <2>4, <2>6, ListWith
  <2>8. w \notin List!Stops
    BY <1>2, <2>2 DEF List!Stops
  <2> QED
    BY <2>1, <2>7, <2>8 DEF List!InsertStop, t, Placed
<1>4. ASSUME NEW w \in Waypoints, NEW k \in Slots, MoveWaypoint(w, k)
      PROVE  List!MoveStop
  <2>1. /\ w \in DOMAIN seq /\ k \in Int
        /\ seq' = Overlay(ShiftForMove(Siblings(seq, w), seq[w], k), [x \in {w} |-> k])
    BY <1>4, InitialSeqAssumption DEF MoveWaypoint, Rows
  <2> DEFINE t == Moved(seq, w, k)
             i == Renumber(seq)[w]
  <2>2. /\ DOMAIN t = DOMAIN seq /\ t \in [DOMAIN t -> Int]
        /\ Unique(t) /\ Alike(Siblings(seq, w), Siblings(t, w))
    BY <1>1, <2>1, MovedStop
  <2> HIDE DEF t
  <2>3. Renumber(Siblings(seq, w)) = Renumber(Siblings(t, w))
    <3>1. DOMAIN Siblings(seq, w) = DOMAIN Siblings(t, w)
      BY <2>2 DEF Siblings
    <3> QED
      BY <2>2, <3>1, RenumberedAlike
  <2>4. Listed(Siblings(t, w)) = List!RemoveAt(L, i)
    <3>1. Listed(Siblings(seq, w)) = List!RemoveAt(L, i)
      BY <1>1, <2>1, ListWithout
    <3> QED
      BY <2>3, <3>1 DEF Listed
  <2> DEFINE rest == List!RemoveAt(L, i)
  <2>5. i \in 1..Len(L) /\ L[i] = w
    BY <1>2, <2>1
  <2>6. \E j \in 1..(Len(rest) + 1) : Listed(t) = List!InsertAt(rest, j, w)
    BY <1>1, <2>1, <2>2, <2>4, ListWith
  <2>7. Len(rest) + 1 = Len(L)
    <3>1. Len(rest) = Len(L) - 1 /\ Len(L) \in Nat
      BY <1>2, <2>5, Removed
    <3> QED
      BY <3>1
  <2> QED
    BY <2>1, <2>5, <2>6, <2>7 DEF List!MoveStop, t, Moved
<1>5. ASSUME NEW w \in Waypoints, DeleteWaypoint(w) PROVE List!RemoveStop
  <2>1. w \in DOMAIN seq /\ seq' = Renumber(Siblings(seq, w))
    BY <1>5 DEF DeleteWaypoint, Rows
  <2> DEFINE sib == Siblings(seq, w)
  <2>2. DOMAIN sib = DOMAIN seq \ {w} /\ sib \in [DOMAIN sib -> Int] /\ Unique(sib)
    BY <1>1 DEF Siblings, Unique
  <2>3. IsFiniteSet(DOMAIN sib) /\ sib = Siblings(seq, w)
    BY <1>1, <2>2, FS_Subset
  <2> HIDE DEF sib
  <2>4. Renumber(Renumber(sib)) = Renumber(sib)
    BY <2>2, <2>3, RenumberIsAlike, RenumberedAlike
  <2>5. Listed(seq') = Listed(sib)
    BY <2>1, <2>3, <2>4 DEF Listed
  <2>6. Listed(seq') = List!RemoveAt(L, Renumber(seq)[w])
    BY <1>1, <2>1, <2>3, <2>5, ListWithout
  <2> QED
    BY <1>2, <2>1, <2>6 DEF List!RemoveStop
<1>6. CASE UNCHANGED vars
  BY <1>6 DEF vars
<1> QED
  BY <1>3, <1>4, <1>5, <1>6 DEF Next, List!Next

\* With one write at a time the rules implement the list the driver edits: every
\* write inserts, moves or removes one stop, and the others keep their order,
\* whatever slots the clients name and whatever gaps that leaves.
THEOREM ImplementsTheList == Spec => ImplementsList
<1>1. Init => List!Init
  BY DEF Init, List!Init
<1>2. Inv /\ [Next]_vars => [List!Next]_(Listed(seq))
  BY StepEdits
<1> QED
  BY <1>1, <1>2, SpecInv, PTL DEF Spec, ImplementsList, List!Spec

-----------------------------------------------------------------------------
(***************************************************************************)
(* What the optimizer makes of a trip that nobody else writes to.          *)
(***************************************************************************)
\* The stops before the one that must be the last.
Visited(s) == DOMAIN s \ {FinalStop(s)}

\* Those that are left after the first k stops of the list.
LeftAfter(s, list, k) == Visited(s) \ {list[i] : i \in 1..k}

\* A list as the loop builds it: each stop is the nearest, to the one before
\* it, of those that were left.
Walk(s, m, list) ==
  /\ list \in Seq(Visited(s))
  /\ Len(list) >= 1
  /\ list[1] = FirstStop(s)
  /\ \A i, j \in 1..Len(list) : list[i] = list[j] => i = j
  /\ \A k \in 1..(Len(list) - 1) :
       list[k + 1] = NextNearest(m, s, list[k], LeftAfter(s, list, k))

\* What a recompute leaves: the next one would find this order again.
Settled(s, m) == NothingToOrder(s) \/ Renumber(s) \in NearestOrders(s, m)

\* Python's min and next: a finite set that is not empty has a least element.
LEMMA MinExists ==
  ASSUME NEW T, IsFiniteSet(T), T # {}, NEW f, \A v \in T : f[v] \in Int
  PROVE  \E w \in T : \A v \in T : f[w] <= f[v]
<1> DEFINE g == [x \in T |-> 0 - f[x]]
           V == {g[x] : x \in T}
           id == [y \in V |-> y]
<1>1. g \in Surjection(T, V)
  BY DEF Surjection
<1>2. IsFiniteSet(V)
  BY <1>1, FS_Surjection
<1>3. V # {} /\ id \in [V -> Int] /\ DOMAIN id = V
  OBVIOUS
<1>4. Unique(id)
  BY <1>3 DEF Unique
<1>5. \E y \in V : \A z \in V : id[z] <= id[y]
  <2> HIDE DEF id, V
  <2> QED BY <1>2, <1>3, <1>4, OneIsLast
<1>6. PICK w \in T : \A z \in V : z <= g[w]
  BY <1>5
<1>7. \A v \in T : g[v] <= g[w]
  BY <1>6
<1> QED
  BY <1>7

LEMMA MaxExists ==
  ASSUME NEW T, IsFiniteSet(T), T # {}, NEW f, \A v \in T : f[v] \in Int
  PROVE  \E w \in T : \A v \in T : f[v] <= f[w]
<1> DEFINE g == [x \in T |-> 0 - f[x]]
<1>1. \A v \in T : g[v] \in Int
  OBVIOUS
<1>2. \E w \in T : \A v \in T : g[w] <= g[v]
  <2> HIDE DEF g
  <2> QED BY <1>1, MinExists
<1>3. PICK w \in T : \A v \in T : g[w] <= g[v]
  BY <1>2
<1> QED
  BY <1>3

\* The anchors are stops of the trip, and each is the only one of its kind.
LEMMA Ends ==
  ASSUME NEW s, Trip(s), DOMAIN s # {}
  PROVE  /\ FirstStop(s) \in DOMAIN s /\ FinalStop(s) \in DOMAIN s
         /\ LET origins == {w \in DOMAIN s : StopType[w] = ORIGIN}
                from    == IF origins = {} THEN DOMAIN s ELSE origins
            IN  FirstStop(s) \in from /\ \A v \in from : s[FirstStop(s)] <= s[v]
         /\ LET from == IF Destinations(s) = {} THEN DOMAIN s ELSE Destinations(s)
            IN  FinalStop(s) \in from /\ \A v \in from : s[v] <= s[FinalStop(s)]
<1> DEFINE origins == {w \in DOMAIN s : StopType[w] = ORIGIN}
           from == IF origins = {} THEN DOMAIN s ELSE origins
           to == IF Destinations(s) = {} THEN DOMAIN s ELSE Destinations(s)
<1>1. /\ from \subseteq DOMAIN s /\ from # {} /\ IsFiniteSet(from)
      /\ \A v \in from : s[v] \in Int
  <2>1. from \subseteq DOMAIN s /\ from # {}
    OBVIOUS
  <2> QED BY <2>1, FS_Subset DEF Trip
<1>2. /\ to \subseteq DOMAIN s /\ to # {} /\ IsFiniteSet(to)
      /\ \A v \in to : s[v] \in Int
  <2>1. to \subseteq DOMAIN s /\ to # {}
    BY DEF Destinations
  <2> QED BY <2>1, FS_Subset DEF Trip
<1>3. FirstStop(s) = CHOOSE w \in from : \A v \in from : s[w] <= s[v]
  BY DEF FirstStop
<1>4. FinalStop(s) = CHOOSE w \in to : \A v \in to : s[v] <= s[w]
  BY DEF FinalStop
<1> HIDE DEF from, to
<1>5. \E w \in from : \A v \in from : s[w] <= s[v]
  BY <1>1, MinExists
<1>6. \E w \in to : \A v \in to : s[v] <= s[w]
  BY <1>2, MaxExists
<1>7. FirstStop(s) \in from /\ \A v \in from : s[FirstStop(s)] <= s[v]
  BY <1>3, <1>5
<1>8. FinalStop(s) \in to /\ \A v \in to : s[v] <= s[FinalStop(s)]
  BY <1>4, <1>6
<1>9. FirstStop(s) \in DOMAIN s /\ FinalStop(s) \in DOMAIN s
  BY <1>1, <1>2, <1>7, <1>8
<1> QED
  BY <1>7, <1>8, <1>9 DEF from, to

\* Is w a nearest of R to cur, and the first of these in the list?
IsNextNearest(m, s, cur, R, w) ==
  /\ w \in R
  /\ \A v \in R : \/ m[cur][w] < m[cur][v]
                  \/ m[cur][w] = m[cur][v] /\ s[w] <= s[v]

\* min() finds it, and there is no other.
LEMMA NearestExists ==
  ASSUME NEW s, Trip(s), NEW m \in Distances, NEW cur \in Waypoints,
         NEW R, R \subseteq DOMAIN s, R # {}
  PROVE  /\ IsNextNearest(m, s, cur, R, NextNearest(m, s, cur, R))
         /\ \A w : IsNextNearest(m, s, cur, R, w) => w = NextNearest(m, s, cur, R)
<1> DEFINE far == [v \in R |-> m[cur][v]]
<1>1. IsFiniteSet(R) /\ R \subseteq Waypoints /\ \A v \in R : s[v] \in Int
  BY FS_Subset DEF Trip
<1>2. \A v \in R : m[cur][v] \in Int
  BY <1>1 DEF Distances
<1>3. \A v \in R : far[v] \in Int
  BY <1>2
<1>4. \E w \in R : \A v \in R : far[w] <= far[v]
  <2> HIDE DEF far
  <2> QED BY <1>1, <1>3, MinExists
<1>5. PICK n \in R : \A v \in R : m[cur][n] <= m[cur][v]
  BY <1>4
<1> DEFINE Q == {v \in R : m[cur][v] = m[cur][n]}
<1>6. Q # {} /\ Q \subseteq R /\ IsFiniteSet(Q) /\ \A v \in Q : s[v] \in Int
  <2>1. Q # {} /\ Q \subseteq R
    BY <1>5
  <2> QED BY <1>1, <2>1, FS_Subset
<1>7. \E w \in Q : \A v \in Q : s[w] <= s[v]
  <2> HIDE DEF Q
  <2> QED BY <1>6, MinExists
<1>8. PICK w \in Q : \A v \in Q : s[w] <= s[v]
  BY <1>7
<1>9. IsNextNearest(m, s, cur, R, w)
  <2>1. w \in R /\ m[cur][w] = m[cur][n]
    BY <1>8
  <2>2. ASSUME NEW v \in R
        PROVE  \/ m[cur][w] < m[cur][v]
               \/ m[cur][w] = m[cur][v] /\ s[w] <= s[v]
    <3>1. CASE v \in Q
      BY <1>8, <2>1, <3>1
    <3>2. CASE v \notin Q
      <4>1. m[cur][v] # m[cur][n] /\ m[cur][n] <= m[cur][v]
        BY <1>5, <3>2
      <4>2. m[cur][v] \in Int /\ m[cur][n] \in Int
        BY <1>2
      <4>3. m[cur][n] < m[cur][v]
        BY <4>1, <4>2
      <4> QED BY <2>1, <4>3
    <3> QED BY <3>1, <3>2
  <2> QED BY <2>1, <2>2 DEF IsNextNearest
<1> DEFINE Nearer(x) == \A v \in R : \/ m[cur][x] < m[cur][v]
                                     \/ m[cur][x] = m[cur][v] /\ s[x] <= s[v]
<1>10. w \in R /\ Nearer(w)
  BY <1>9 DEF IsNextNearest
<1>11. IsNextNearest(m, s, cur, R, NextNearest(m, s, cur, R))
  <2> DEFINE c == CHOOSE x \in R : Nearer(x)
  <2>1. c \in R /\ Nearer(c)
    <3> HIDE DEF Nearer
    <3> QED BY <1>10
  <2>2. NextNearest(m, s, cur, R) = c
    BY Zenon DEF NextNearest
  <2> QED BY <2>1, <2>2 DEF IsNextNearest
<1>12. ASSUME NEW x, NEW y, IsNextNearest(m, s, cur, R, x), IsNextNearest(m, s, cur, R, y)
       PROVE  x = y
  <2>1. x \in R /\ y \in R
    BY <1>12 DEF IsNextNearest
  <2>2. s[x] <= s[y] /\ s[y] <= s[x]
    BY <1>1, <1>2, <1>12, <2>1 DEF IsNextNearest
  <2>3. s[x] = s[y]
    BY <1>1, <2>1, <2>2
  <2> QED BY <2>1, <2>3 DEF Trip, Unique
<1> QED
  BY <1>11, <1>12

\* Too few stops, or one at both ends.
LEMMA HasEnds ==
  ASSUME NEW s, Trip(s), ~NothingToOrder(s)
  PROVE  /\ FirstStop(s) \in Visited(s) /\ FinalStop(s) \in DOMAIN s
         /\ FirstStop(s) # FinalStop(s)
         /\ Visited(s) \subseteq DOMAIN s /\ FinalStop(s) \notin Visited(s)
<1>1. DOMAIN s # {}
  BY FS_EmptySet DEF NothingToOrder
<1>2. FirstStop(s) \in DOMAIN s /\ FinalStop(s) \in DOMAIN s
  BY <1>1, Ends
<1> QED
  BY <1>2 DEF NothingToOrder, Visited

-----------------------------------------------------------------------------
\* The steps of the loop.

LEMMA WalkStarts ==
  ASSUME NEW s, Trip(s), ~NothingToOrder(s), NEW m
  PROVE  /\ Walk(s, m, <<FirstStop(s)>>)
         /\ LeftAfter(s, <<FirstStop(s)>>, Len(<<FirstStop(s)>>))
              = DOMAIN s \ {FirstStop(s), FinalStop(s)}
<1> DEFINE list == <<FirstStop(s)>>
<1>1. list \in Seq(Visited(s)) /\ Len(list) = 1 /\ list[1] = FirstStop(s)
  BY HasEnds
<1> HIDE DEF list
<1>2. {list[i] : i \in 1..1} = {FirstStop(s)}
  BY <1>1
<1>3. Walk(s, m, list)
  BY <1>1 DEF Walk
<1>4. LeftAfter(s, list, Len(list)) = DOMAIN s \ {FirstStop(s), FinalStop(s)}
  BY <1>1, <1>2 DEF LeftAfter, Visited
<1> QED
  BY <1>3, <1>4 DEF list

LEMMA WalkGoesOn ==
  ASSUME NEW s, Trip(s), ~NothingToOrder(s), NEW m \in Distances,
         NEW list, Walk(s, m, list),
         LeftAfter(s, list, Len(list)) # {}
  PROVE  LET left == LeftAfter(s, list, Len(list))
             next == NextNearest(m, s, list[Len(list)], left)
         IN  /\ next \in left
             /\ Walk(s, m, Append(list, next))
             /\ LeftAfter(s, Append(list, next), Len(Append(list, next))) = left \ {next}
<1> DEFINE n == Len(list)
           left == LeftAfter(s, list, n)
           next == NextNearest(m, s, list[n], left)
           longer == Append(list, next)
<1>1. /\ list \in Seq(Visited(s)) /\ n \in Nat /\ n >= 1
      /\ \A i \in 1..n : list[i] \in Visited(s)
  BY ElementOfSeq DEF Walk
<1>2. left \subseteq Visited(s) /\ left \subseteq DOMAIN s /\ list[n] \in Waypoints
  BY <1>1, HasEnds DEF LeftAfter, Trip
<1>3. next \in left
  BY <1>2, NearestExists DEF IsNextNearest
<1>4. next \in Visited(s) /\ \A i \in 1..n : list[i] # next
  BY <1>2, <1>3 DEF LeftAfter
<1> HIDE DEF next
<1>5. /\ longer \in Seq(Visited(s)) /\ Len(longer) = n + 1
      /\ \A i \in 1..n : longer[i] = list[i]
      /\ longer[n + 1] = next
  BY <1>1, <1>4, AppendProperties
<1> HIDE DEF longer
<1>6. \A k \in 1..n : {longer[i] : i \in 1..k} = {list[i] : i \in 1..k}
  BY <1>1, <1>5
<1>7. \A i, j \in 1..(n + 1) : longer[i] = longer[j] => i = j
  <2>1. \A i, j \in 1..n : list[i] = list[j] => i = j
    BY DEF Walk
  <2>2. \A i \in 1..(n + 1) : i \in 1..n \/ i = n + 1
    BY <1>1
  <2> QED BY <1>4, <1>5, <2>1, <2>2
<1>8. ASSUME NEW k \in 1..n
      PROVE  longer[k + 1] = NextNearest(m, s, longer[k], LeftAfter(s, longer, k))
  <2>1. LeftAfter(s, longer, k) = LeftAfter(s, list, k) /\ longer[k] = list[k]
    BY <1>5, <1>6 DEF LeftAfter
  <2>2. CASE k = n
    BY <1>5, <2>1, <2>2 DEF next
  <2>3. CASE k \in 1..(n - 1)
    <3>1. list[k + 1] = NextNearest(m, s, list[k], LeftAfter(s, list, k))
      BY <2>3 DEF Walk
    <3>2. k + 1 \in 1..n
      BY <1>1, <2>3
    <3> QED BY <1>5, <2>1, <3>1, <3>2
  <2> QED BY <1>1, <2>2, <2>3
<1>9. Walk(s, m, longer)
  <2>1. longer[1] = FirstStop(s) /\ n + 1 >= 1 /\ (n + 1) - 1 = n
    BY <1>1, <1>5 DEF Walk
  <2> QED BY <1>5, <1>7, <1>8, <2>1 DEF Walk
<1>10. LeftAfter(s, longer, n + 1) = left \ {next}
  <2>1. {longer[i] : i \in 1..(n + 1)} = {list[i] : i \in 1..n} \cup {next}
    <3>1. \A i \in 1..(n + 1) : i \in 1..n \/ i = n + 1
      BY <1>1
    <3>2. \A i \in 1..n : i \in 1..(n + 1)
      BY <1>1
    <3>3. n + 1 \in 1..(n + 1)
      BY <1>1
    <3> QED BY <1>5, <3>1, <3>2, <3>3
  <2> QED BY <2>1 DEF LeftAfter
<1> QED
  BY <1>3, <1>5, <1>9, <1>10 DEF longer, next

\* The whole list: each stop once.
LEMMA WalkIsComplete ==
  ASSUME NEW s, Trip(s), ~NothingToOrder(s), NEW m,
         NEW walk, Walk(s, m, walk), LeftAfter(s, walk, Len(walk)) = {}
  PROVE  LET list == Append(walk, FinalStop(s))
         IN  /\ list \in Seq(DOMAIN s)
             /\ Len(list) = Cardinality(DOMAIN s) /\ Len(list) = Len(walk) + 1
             /\ \A i \in 1..Len(walk) : list[i] = walk[i]
             /\ list[Len(list)] = FinalStop(s) /\ list[1] = FirstStop(s)
             /\ \A i, j \in 1..Len(list) : list[i] = list[j] => i = j
             /\ \A w \in DOMAIN s : \E k \in 1..Len(list) : list[k] = w
<1> DEFINE n == Len(walk)
           list == Append(walk, FinalStop(s))
           D == DOMAIN s
<1>1. /\ walk \in Seq(Visited(s)) /\ n \in Nat /\ n >= 1
      /\ \A i \in 1..n : walk[i] \in Visited(s)
  BY ElementOfSeq DEF Walk
<1>2. Visited(s) \subseteq D /\ FinalStop(s) \in D /\ FinalStop(s) \notin Visited(s)
  BY HasEnds
<1>3. walk \in Seq(D)
  BY <1>1, <1>2
<1>4. /\ list \in Seq(D) /\ Len(list) = n + 1
      /\ \A i \in 1..n : list[i] = walk[i]
      /\ list[n + 1] = FinalStop(s)
  BY <1>2, <1>3, AppendProperties
<1> HIDE DEF list
<1>5. \A i \in 1..(n + 1) : i \in 1..n \/ i = n + 1
  BY <1>1
<1>6. \A i, j \in 1..(n + 1) : list[i] = list[j] => i = j
  <2>1. \A i, j \in 1..n : walk[i] = walk[j] => i = j
    BY DEF Walk
  <2> QED BY <1>1, <1>2, <1>4, <1>5, <2>1
<1>7. ASSUME NEW w \in D PROVE \E k \in 1..(n + 1) : list[k] = w
  <2>1. CASE w = FinalStop(s)
    BY <1>1, <1>4, <2>1
  <2>2. CASE w # FinalStop(s)
    <3>1. PICK i \in 1..n : walk[i] = w
      BY <2>2 DEF LeftAfter, Visited
    <3>2. i \in 1..(n + 1)
      BY <1>1
    <3> QED BY <1>4, <3>1, <3>2
  <2> QED BY <2>1, <2>2
<1>8. list[1] = FirstStop(s)
  BY <1>1, <1>4 DEF Walk
<1>9. n + 1 = Cardinality(D)
  <2> DEFINE f == [k \in 1..(n + 1) |-> list[k]]
  <2>1. \A k \in 1..(n + 1) : list[k] \in D
    BY <1>1, <1>2, <1>4, <1>5
  <2>2. f \in Bijection(1..(n + 1), D)
    BY <1>6, <1>7, <2>1 DEF Bijection, Injection, Surjection, IsInjective
  <2>3. ExistsBijection(1..(n + 1), D)
    BY <2>2 DEF ExistsBijection
  <2>4. IsFiniteSet(1..(n + 1)) /\ Cardinality(1..(n + 1)) = n + 1
    BY <1>1, FS_Interval
  <2> QED BY <2>3, <2>4, FS_Bijection
<1> QED
  BY <1>4, <1>6, <1>7, <1>8, <1>9 DEF list

-----------------------------------------------------------------------------
\* What the list says of the order.

\* Renumbering leaves distinct numbers 1..N in the order that was.
LEMMA RenumberOfTrip ==
  ASSUME NEW s, Trip(s)
  PROVE  /\ Dense(Renumber(s)) /\ DOMAIN Renumber(s) = DOMAIN s
         /\ Renumber(s) \in [DOMAIN s -> 1..Cardinality(DOMAIN s)]
         /\ Cardinality(DOMAIN s) \in Nat
         /\ SameOrder(Renumber(s), s)
         /\ NothingToOrder(s) => Renumber(s) \in OptimizedOrders(s)
<1>1. IsFiniteSet(DOMAIN s) /\ s \in [DOMAIN s -> Int] /\ Unique(s)
  BY DEF Trip
<1> QED
  BY <1>1, RenumberKeepsOrder, RenumberIsDense, FS_CardinalityType
  DEF SameOrder, OptimizedOrders

\* What the optimizer may return numbers the stops 1..N.
LEMMA NearestIsDense ==
  ASSUME NEW s, Trip(s), NEW m, NEW r \in NearestOrders(s, m)
  PROVE  /\ Dense(r) /\ DOMAIN r = DOMAIN s
         /\ r \in [DOMAIN s -> 1..Cardinality(DOMAIN s)]
         /\ Cardinality(DOMAIN s) \in Nat
         /\ Trip(r)
<1>1. r \in OptimizedOrders(s)
  BY DEF NearestOrders
<1>2. IsFiniteSet(DOMAIN s) /\ Cardinality(DOMAIN s) \in Nat /\ DOMAIN s \subseteq Waypoints
  BY FS_CardinalityType DEF Trip
<1>3. CASE NothingToOrder(s)
  <2>1. r = Renumber(s)
    BY <1>1, <1>3 DEF OptimizedOrders
  <2>2. Dense(r) /\ DOMAIN r = DOMAIN s /\ r \in [DOMAIN s -> 1..Cardinality(DOMAIN s)]
    BY <2>1, RenumberOfTrip
  <2> QED BY <1>2, <2>2 DEF Trip, Dense
<1>4. CASE ~NothingToOrder(s)
  <2>1. r \in [DOMAIN s -> 1..Cardinality(DOMAIN s)] /\ Unique(r)
    BY <1>1, <1>4 DEF OptimizedOrders
  <2>2. DOMAIN r = DOMAIN s
    BY <2>1
  <2>3. Dense(r)
    BY <1>2, <2>1, <2>2, UniqueInRangeIsDense
  <2> QED BY <1>2, <2>1, <2>2, <2>3 DEF Trip
<1> QED
  BY <1>3, <1>4

\* There is one dense numbering of an order.
LEMMA OrderDetermines ==
  ASSUME NEW s, Trip(s), NEW r, Dense(r), DOMAIN r = DOMAIN s,
         r \in [DOMAIN s -> 1..Cardinality(DOMAIN s)], SameOrder(r, s)
  PROVE  r = Renumber(s)
<1>1. IsFiniteSet(DOMAIN s) /\ Cardinality(DOMAIN s) \in Nat /\ \A w \in DOMAIN s : s[w] \in Int
  BY FS_CardinalityType DEF Trip
<1>2. ASSUME NEW w \in DOMAIN s PROVE r[w] = Renumber(s)[w]
  <2>1. \A v \in DOMAIN s : r[v] \in 1..Cardinality(DOMAIN s)
    OBVIOUS
  <2>2. \A v \in DOMAIN s : s[v] < s[w] <=> r[v] < r[w]
    <3>1. ASSUME NEW v \in DOMAIN s, r[v] < r[w] PROVE s[v] < s[w]
      <4>1. ~(s[w] < s[v])
        BY <1>1, <2>1, <3>1 DEF SameOrder
      <4>2. v # w
        BY <1>1, <2>1, <3>1
      <4>3. s[v] # s[w]
        BY <4>2 DEF Trip, Unique
      <4> QED BY <1>1, <4>1, <4>3
    <3> QED BY <3>1 DEF SameOrder
  <2>3. Ahead(s, w) = Ahead(r, w)
    BY <2>2 DEF Ahead
  <2>4. Cardinality(Ahead(r, w)) = r[w] - 1
    BY <1>1, HowManyAhead
  <2> QED BY <1>1, <2>1, <2>3, <2>4 DEF Renumber
<1> QED
  BY <1>2, RenumberOfTrip

\* The numbers of a complete walk are what RouteOptimizer says.
LEMMA WalkIsNearest ==
  ASSUME NEW s, Trip(s), ~NothingToOrder(s), NEW m,
         NEW walk, Walk(s, m, walk), LeftAfter(s, walk, Len(walk)) = {},
         NEW list, list = Append(walk, FinalStop(s)),
         NEW r, r = [w \in DOMAIN s |-> r[w]],
         \A w \in DOMAIN s : r[w] \in 1..Len(list) /\ list[r[w]] = w,
         \A k \in 1..Len(list) : r[list[k]] = k
  PROVE  r \in NearestOrders(s, m)
<1> DEFINE n == Len(walk)
           N == Cardinality(DOMAIN s)
<1>1. /\ Len(list) = N /\ N = n + 1 /\ n \in Nat /\ n >= 1
      /\ \A i \in 1..n : list[i] = walk[i]
      /\ list[N] = FinalStop(s) /\ list[1] = FirstStop(s)
  <2>1. n \in Nat /\ n >= 1
    BY DEF Walk
  <2> QED BY <2>1, WalkIsComplete
<1>2. r \in [DOMAIN s -> 1..N]
  BY <1>1
<1>3. Unique(r)
  BY DEF Unique
<1>4. r[FirstStop(s)] = 1 /\ r[FinalStop(s)] = N
  <2>1. 1 \in 1..Len(list) /\ N \in 1..Len(list)
    BY <1>1
  <2>2. r[list[1]] = 1 /\ r[list[N]] = N
    BY <2>1
  <2> QED BY <1>1, <2>2
<1>5. ASSUME NEW v \in Visited(s), NEW w \in Visited(s), r[w] = r[v] + 1
      PROVE  w = NextNearest(m, s, v, {x \in Visited(s) : r[x] > r[v]})
  <2>1. /\ v \in DOMAIN s /\ w \in DOMAIN s /\ w # FinalStop(s)
        /\ r[v] \in 1..N /\ r[w] \in 1..N
    BY <1>1 DEF Visited
  <2>2. r[w] # N
    BY <1>1, <2>1
  <2> DEFINE k == r[v]
  <2>3. k \in 1..(n - 1) /\ k \in 1..n /\ k + 1 \in 1..n
    BY <1>1, <1>5, <2>1, <2>2
  <2>4. list[k] = v /\ list[k + 1] = w
    BY <1>5, <2>1
  <2>5. w = NextNearest(m, s, v, LeftAfter(s, walk, k))
    BY <1>1, <2>3, <2>4 DEF Walk
  <2>6. LeftAfter(s, walk, k) = {x \in Visited(s) : r[x] > k}
    <3>1. ASSUME NEW x \in Visited(s)
          PROVE  (\E i \in 1..k : x = walk[i]) <=> ~(r[x] > k)
      <4>1. x \in DOMAIN s /\ r[x] \in 1..N /\ list[r[x]] = x
        BY <1>1 DEF Visited
      <4>2. ASSUME NEW i \in 1..k, x = walk[i] PROVE ~(r[x] > k)
        <5>1. i \in 1..n /\ i \in 1..N
          BY <1>1, <2>3
        <5>2. r[x] = i
          BY <1>1, <4>2, <5>1
        <5> QED BY <2>3, <5>2
      <4>3. ASSUME ~(r[x] > k) PROVE \E i \in 1..k : x = walk[i]
        <5>1. r[x] \in 1..k /\ r[x] \in 1..n
          BY <1>1, <2>3, <4>1, <4>3
        <5> QED BY <1>1, <4>1, <5>1
      <4> QED BY <4>2, <4>3
    <3> QED BY <3>1 DEF LeftAfter
  <2> QED BY <2>5, <2>6
<1> QED
  BY <1>2, <1>3, <1>4, <1>5 DEF NearestOrders, OptimizedOrders, Visited

-----------------------------------------------------------------------------
\* The second recompute.

\* What is written is settled: the ends stay the ends, and of several stops that
\* are equally near the one that was visited first comes first in the list now.
LEMMA WrittenIsSettled ==
  ASSUME NEW s, Trip(s), ~NothingToOrder(s), NEW m \in Distances,
         NEW r \in NearestOrders(s, m)
  PROVE  Settled(r, m)
<1> DEFINE N == Cardinality(DOMAIN s)
           F == FirstStop(s)
           L == FinalStop(s)
<1>1. /\ Dense(r) /\ DOMAIN r = DOMAIN s /\ r \in [DOMAIN s -> 1..N]
      /\ Trip(r) /\ N \in Nat
  BY NearestIsDense
<1>2. F \in DOMAIN s /\ L \in DOMAIN s /\ F # L /\ r[F] = 1 /\ r[L] = N /\ DOMAIN s # {}
  BY HasEnds DEF NearestOrders, OptimizedOrders
<1>3. FirstStop(r) = F
  <2> DEFINE origins == {w \in DOMAIN s : StopType[w] = ORIGIN}
             from == IF origins = {} THEN DOMAIN s ELSE origins
  <2>1. FirstStop(r) \in from /\ \A v \in from : r[FirstStop(r)] <= r[v]
    BY <1>1, <1>2, Ends
  <2>2. F \in from /\ from \subseteq DOMAIN s
    BY <1>2, Ends
  <2> HIDE DEF from
  <2>3. r[FirstStop(r)] = r[F]
    BY <1>1, <1>2, <2>1, <2>2
  <2> QED BY <1>1, <2>1, <2>2, <2>3 DEF Trip, Unique
<1>4. FinalStop(r) = L
  <2> DEFINE to == IF Destinations(s) = {} THEN DOMAIN s ELSE Destinations(s)
  <2>1. Destinations(r) = Destinations(s)
    BY <1>1 DEF Destinations
  <2>2. FinalStop(r) \in to /\ \A v \in to : r[v] <= r[FinalStop(r)]
    BY <1>1, <1>2, <2>1, Ends
  <2>3. L \in to /\ to \subseteq DOMAIN s
    BY <1>2, Ends DEF Destinations
  <2> HIDE DEF to
  <2>4. r[FinalStop(r)] = r[L]
    BY <1>1, <1>2, <2>2, <2>3
  <2> QED BY <1>1, <2>2, <2>3, <2>4 DEF Trip, Unique
<1>5. ~NothingToOrder(r) /\ Visited(r) = Visited(s)
  BY <1>1, <1>2, <1>3, <1>4 DEF NothingToOrder, Visited
<1>6. r = Renumber(r)
  BY <1>1, OrderDetermines DEF SameOrder
<1>7. ASSUME NEW v \in Visited(s), NEW w \in Visited(s), r[w] = r[v] + 1
      PROVE  w = NextNearest(m, r, v, {x \in Visited(s) : r[x] > r[v]})
  <2> DEFINE R == {x \in Visited(s) : r[x] > r[v]}
  <2>1. /\ v \in DOMAIN s /\ w \in DOMAIN s /\ v \in Waypoints
        /\ \A x \in DOMAIN s : r[x] \in 1..N
    BY <1>1 DEF Visited, Trip
  <2>2. w \in R /\ R # {} /\ R \subseteq DOMAIN s
    BY <1>7, <2>1 DEF Visited
  <2>3. w = NextNearest(m, s, v, R)
    BY <1>7 DEF NearestOrders, Visited, NothingToOrder
  <2> HIDE DEF R
  <2>4. IsNextNearest(m, s, v, R, w)
    BY <2>1, <2>2, <2>3, NearestExists
  <2>5. \A x \in R : r[w] <= r[x]
    BY <1>7, <2>1 DEF R, Visited
  <2>6. IsNextNearest(m, r, v, R, w)
    BY <2>4, <2>5 DEF IsNextNearest
  <2>7. w = NextNearest(m, r, v, R)
    BY <1>1, <2>1, <2>2, <2>6, NearestExists
  <2> QED BY <2>7 DEF R
<1>8. r \in NearestOrders(r, m)
  <2>1. r \in OptimizedOrders(r)
    BY <1>1, <1>2, <1>3, <1>4, <1>5 DEF OptimizedOrders, Dense
  <2> QED BY <1>4, <1>5, <1>7, <2>1 DEF NearestOrders, Visited
<1> QED
  BY <1>6, <1>8 DEF Settled

\* An order that is not written because it is the one that was read.
LEMMA KeptIsSettled ==
  ASSUME NEW s, Trip(s), NEW m, NEW r \in NearestOrders(s, m), SameOrder(r, s)
  PROVE  Settled(s, m)
BY NearestIsDense, OrderDetermines DEF Settled

\* The loop follows a settled order.
LEMMA WalkFollows ==
  ASSUME NEW s, Trip(s), ~NothingToOrder(s), NEW m \in Distances, Settled(s, m),
         NEW list, Walk(s, m, list), LeftAfter(s, list, Len(list)) # {},
         \A k \in 1..Len(list) : Renumber(s)[list[k]] = k
  PROVE  Renumber(s)[NextNearest(m, s, list[Len(list)], LeftAfter(s, list, Len(list)))]
           = Len(list) + 1
<1> DEFINE n == Len(list)
           r == Renumber(s)
           N == Cardinality(DOMAIN s)
           left == LeftAfter(s, list, n)
<1>1. /\ Dense(r) /\ DOMAIN r = DOMAIN s /\ r \in [DOMAIN s -> 1..N] /\ N \in Nat
      /\ r \in NearestOrders(s, m)
  BY RenumberOfTrip DEF Settled
<1> HIDE DEF r
<1>2. r[FinalStop(s)] = N
  BY <1>1 DEF NearestOrders, OptimizedOrders
<1>3. /\ n \in Nat /\ n >= 1 /\ \A i \in 1..n : list[i] \in Visited(s) /\ r[list[i]] = i
      /\ Visited(s) \subseteq DOMAIN s
  BY ElementOfSeq, HasEnds DEF Walk, r
<1>4. left = {x \in Visited(s) : r[x] > n}
  <2>1. ASSUME NEW x \in Visited(s)
        PROVE  (\E i \in 1..n : x = list[i]) <=> ~(r[x] > n)
    <3>1. x \in DOMAIN s /\ r[x] \in 1..N
      BY <1>1, <1>3
    <3>2. ASSUME ~(r[x] > n) PROVE \E i \in 1..n : x = list[i]
      <4>1. r[x] \in 1..n
        BY <1>1, <1>3, <3>1, <3>2
      <4>2. r[list[r[x]]] = r[x] /\ list[r[x]] \in DOMAIN s
        BY <1>3, <4>1
      <4>3. list[r[x]] = x
        BY <1>1, <3>1, <4>2 DEF Dense, Unique
      <4> QED BY <4>1, <4>3
    <3> QED BY <1>3, <3>2
  <2> QED BY <2>1 DEF LeftAfter
<1>5. PICK x \in Visited(s) : r[x] > n
  BY <1>4
<1>6. n + 1 \in 1..N /\ n + 1 # N
  <2>1. x \in DOMAIN s /\ x # FinalStop(s) /\ FinalStop(s) \in DOMAIN s
    BY <1>3, HasEnds DEF Visited
  <2>2. r[x] # N
    BY <1>1, <1>2, <2>1 DEF Dense, Unique
  <2> QED BY <1>1, <1>3, <1>5, <2>1, <2>2
<1>7. PICK w \in DOMAIN s : r[w] = n + 1
  BY <1>1, <1>6 DEF Dense, Contiguous
<1>8. w \in Visited(s) /\ list[n] \in Visited(s) /\ r[list[n]] = n
  BY <1>2, <1>3, <1>6, <1>7 DEF Visited
<1>9. w = NextNearest(m, s, list[n], {y \in Visited(s) : r[y] > r[list[n]]})
  BY <1>1, <1>7, <1>8 DEF NearestOrders, Visited
<1>10. w = NextNearest(m, s, list[n], left)
  BY <1>4, <1>8, <1>9
<1> QED
  BY <1>7, <1>10 DEF r

-----------------------------------------------------------------------------
\* The list when the function returns.
Returned(s, m, list) ==
  IF NothingToOrder(s) THEN list = AsList(Renumber(s))
  ELSE \E walk : /\ Walk(s, m, walk) /\ LeftAfter(s, walk, Len(walk)) = {}
                 /\ list = Append(walk, FinalStop(s))

\* While the second recompute runs, the list is the order it read.
Follows(s, list) == \A k \in 1..Len(list) : Renumber(s)[list[k]] = k

LoopInv ==
  /\ Trip(stops)
  /\ miles \in Distances
  /\ runs \in {0, 1, 2}
  /\ pc # "stop" => runs # 2
  /\ pc = "visiting" =>
       /\ ~NothingToOrder(stops)
       /\ Walk(stops, miles, ordered)
       /\ remaining = LeftAfter(stops, ordered, Len(ordered))
  /\ pc = "ordered" => Returned(stops, miles, ordered)
  /\ runs = 1 =>
       /\ Settled(stops, miles)
       /\ pc \in {"visiting", "ordered"} => Follows(stops, ordered)

\* A list of a trip's stops, each once, and the numbers _persist_order gives them.
LEMMA NumberingOfList ==
  ASSUME NEW list, list \in Seq(DOMAIN stops),
         \A i, j \in 1..Len(list) : list[i] = list[j] => i = j,
         \A w \in DOMAIN stops : \E k \in 1..Len(list) : list[k] = w
  PROVE  /\ Numbering(list) = [w \in DOMAIN stops |-> Numbering(list)[w]]
         /\ \A w \in DOMAIN stops :
              Numbering(list)[w] \in 1..Len(list) /\ list[Numbering(list)[w]] = w
         /\ \A k \in 1..Len(list) : Numbering(list)[list[k]] = k
<1> DEFINE Place(w) == CHOOSE k \in DOMAIN list : list[k] = w
<1>1. DOMAIN list = 1..Len(list) /\ \A k \in 1..Len(list) : list[k] \in DOMAIN stops
  OBVIOUS
<1>2. ASSUME NEW w \in DOMAIN stops PROVE Place(w) \in 1..Len(list) /\ list[Place(w)] = w
  BY <1>1
<1>3. Numbering(list) = [w \in DOMAIN stops |-> Place(w)]
  BY DEF Numbering
<1> HIDE DEF Place
<1> QED
  BY <1>1, <1>2, <1>3

LEMMA ListIsNearest ==
  ASSUME LoopInv, pc = "ordered"
  PROVE  /\ Numbering(ordered) \in NearestOrders(stops, miles)
         /\ NothingToOrder(stops) \/ runs = 1 => Numbering(ordered) = Renumber(stops)
<1> DEFINE s == stops
           r == Numbering(ordered)
<1>1. Trip(s) /\ Returned(s, miles, ordered)
  BY DEF LoopInv
<1>2. /\ Dense(Renumber(s)) /\ DOMAIN Renumber(s) = DOMAIN s
      /\ Renumber(s) \in [DOMAIN s -> 1..Cardinality(DOMAIN s)]
      /\ NothingToOrder(s) => Renumber(s) \in OptimizedOrders(s)
      /\ IsFiniteSet(DOMAIN s)
  BY <1>1, RenumberOfTrip DEF Trip
<1>3. /\ ordered \in Seq(DOMAIN s)
      /\ \A i, j \in 1..Len(ordered) : ordered[i] = ordered[j] => i = j
      /\ \A w \in DOMAIN s : \E k \in 1..Len(ordered) : ordered[k] = w
      /\ NothingToOrder(s) => Follows(s, ordered)
  <2>1. CASE NothingToOrder(s)
    <3>1. ordered = AsList(Renumber(s))
      BY <1>1, <2>1 DEF Returned
    <3>2. /\ AsList(Renumber(s)) \in Seq(DOMAIN s)
          /\ Len(AsList(Renumber(s))) = Cardinality(DOMAIN s)
          /\ \A k \in 1..Cardinality(DOMAIN s) : Renumber(s)[AsList(Renumber(s))[k]] = k
          /\ \A w \in DOMAIN s : /\ Renumber(s)[w] \in 1..Cardinality(DOMAIN s)
                                 /\ AsList(Renumber(s))[Renumber(s)[w]] = w
      BY <1>2, ListOfDense
    <3> QED BY <3>1, <3>2 DEF Follows
  <2>2. CASE ~NothingToOrder(s)
    BY <1>1, <2>2, WalkIsComplete DEF Returned
  <2> QED BY <2>1, <2>2
<1>4. /\ r = [w \in DOMAIN s |-> r[w]]
      /\ \A w \in DOMAIN s : r[w] \in 1..Len(ordered) /\ ordered[r[w]] = w
      /\ \A k \in 1..Len(ordered) : r[ordered[k]] = k
  BY <1>3, NumberingOfList
<1> HIDE DEF r
<1>5. ASSUME Follows(s, ordered) PROVE r = Renumber(s)
  <2>1. \A w \in DOMAIN s : Renumber(s)[w] = r[w]
    BY <1>4, <1>5 DEF Follows
  <2> QED BY <1>2, <1>4, <2>1
<1>6. NothingToOrder(s) \/ runs = 1 => r = Renumber(s)
  BY <1>3, <1>5 DEF LoopInv
<1>7. r \in NearestOrders(s, miles)
  <2>1. CASE NothingToOrder(s)
    BY <1>2, <1>6, <2>1 DEF NearestOrders
  <2>2. CASE ~NothingToOrder(s)
    <3>1. PICK walk : /\ Walk(s, miles, walk) /\ LeftAfter(s, walk, Len(walk)) = {}
                      /\ ordered = Append(walk, FinalStop(s))
      BY <1>1, <2>2 DEF Returned
    <3> QED BY <1>1, <1>4, <2>2, <3>1, WalkIsNearest
  <2> QED BY <2>1, <2>2
<1> QED
  BY <1>6, <1>7 DEF r

LEMMA LoopEnough == LoopInv => ComputesNearestOrder
<1> SUFFICES ASSUME LoopInv, pc = "ordered"
             PROVE  /\ Numbering(ordered) \in NearestOrders(stops, miles)
                    /\ runs = 1 => SameOrder(Numbering(ordered), stops)
  BY DEF ComputesNearestOrder
<1> QED
  BY ListIsNearest, RenumberOfTrip DEF LoopInv

LEMMA LoopBegins == LoopInit => LoopInv
BY LoopAssumption DEF LoopInit, LoopInv

LEMMA KeepStep ==
  ASSUME LoopInv, KeepOrder
  PROVE  LoopInv'
<1>1. /\ pc = "read" /\ NothingToOrder(stops) /\ ordered' = AsList(Renumber(stops))
      /\ pc' = "ordered" /\ stops' = stops /\ miles' = miles /\ runs' = runs
  BY DEF KeepOrder
<1>2. Returned(stops, miles, AsList(Renumber(stops)))
  BY <1>1 DEF Returned
<1>3. Follows(stops, AsList(Renumber(stops)))
  <2>1. /\ Dense(Renumber(stops)) /\ DOMAIN Renumber(stops) = DOMAIN stops
        /\ IsFiniteSet(DOMAIN stops)
    BY RenumberOfTrip DEF LoopInv, Trip
  <2> QED BY <2>1, ListOfDense DEF Follows
<1> QED
  BY <1>1, <1>2, <1>3 DEF LoopInv

LEMMA StartStep ==
  ASSUME LoopInv, Start
  PROVE  LoopInv'
<1> DEFINE first == <<FirstStop(stops)>>
<1>1. /\ pc = "read" /\ ~NothingToOrder(stops) /\ ordered' = first
      /\ remaining' = DOMAIN stops \ {FirstStop(stops), FinalStop(stops)}
      /\ pc' = "visiting" /\ stops' = stops /\ miles' = miles /\ runs' = runs
  BY DEF Start
<1>2. /\ Walk(stops, miles, first)
      /\ LeftAfter(stops, first, Len(first)) = remaining'
  BY <1>1, WalkStarts DEF LoopInv
<1>3. runs = 1 => Follows(stops, first)
  <2>1. runs = 1 => Renumber(stops)[FirstStop(stops)] = 1
    BY <1>1 DEF LoopInv, Settled, NearestOrders, OptimizedOrders
  <2> QED BY <2>1 DEF Follows
<1> HIDE DEF first
<1> QED
  BY <1>1, <1>2, <1>3 DEF LoopInv

LEMMA VisitStep ==
  ASSUME LoopInv, Visit
  PROVE  LoopInv'
<1> DEFINE left == LeftAfter(stops, ordered, Len(ordered))
           next == NextNearest(miles, stops, ordered[Len(ordered)], left)
           longer == Append(ordered, next)
<1>1. /\ pc = "visiting" /\ remaining = left /\ left # {} /\ ~NothingToOrder(stops)
      /\ Trip(stops) /\ miles \in Distances /\ Walk(stops, miles, ordered)
  BY DEF LoopInv, Visit
<1>2. /\ ordered' = longer /\ remaining' = left \ {next}
      /\ stops' = stops /\ miles' = miles /\ pc' = pc /\ runs' = runs
  BY <1>1 DEF Visit
<1>3. /\ Walk(stops, miles, longer)
      /\ LeftAfter(stops, longer, Len(longer)) = left \ {next}
  BY <1>1, WalkGoesOn
<1>4. runs = 1 => Follows(stops, longer)
  <2> SUFFICES ASSUME runs = 1 PROVE Follows(stops, longer)
    OBVIOUS
  <2>1. Settled(stops, miles) /\ Follows(stops, ordered)
    BY <1>1 DEF LoopInv
  <2>2. Renumber(stops)[next] = Len(ordered) + 1
    BY <1>1, <2>1, WalkFollows DEF Follows
  <2>3. ordered \in Seq(Visited(stops)) /\ next \in Visited(stops)
    <3>1. next \in left
      BY <1>1, WalkGoesOn
    <3> QED BY <1>1, <3>1 DEF Walk, LeftAfter
  <2> HIDE DEF next
  <2>4. /\ Len(longer) = Len(ordered) + 1 /\ Len(ordered) \in Nat
        /\ \A i \in 1..Len(ordered) : longer[i] = ordered[i]
        /\ longer[Len(ordered) + 1] = next
    BY <2>3, AppendProperties
  <2> HIDE DEF longer
  <2>5. \A k \in 1..Len(longer) : k \in 1..Len(ordered) \/ k = Len(ordered) + 1
    BY <2>4
  <2> QED BY <2>1, <2>2, <2>4, <2>5 DEF Follows
<1> HIDE DEF left, next, longer
<1> QED
  BY <1>1, <1>2, <1>3, <1>4 DEF LoopInv

LEMMA FinishStep ==
  ASSUME LoopInv, Finish
  PROVE  LoopInv'
<1> DEFINE list == Append(ordered, FinalStop(stops))
<1>1. /\ pc = "visiting" /\ LeftAfter(stops, ordered, Len(ordered)) = {}
      /\ ~NothingToOrder(stops) /\ Trip(stops) /\ Walk(stops, miles, ordered)
      /\ ordered' = list /\ pc' = "ordered"
      /\ stops' = stops /\ miles' = miles /\ runs' = runs
  BY DEF LoopInv, Finish
<1>2. /\ Len(list) = Cardinality(DOMAIN stops) /\ Len(list) = Len(ordered) + 1
      /\ \A i \in 1..Len(ordered) : list[i] = ordered[i]
      /\ list[Len(list)] = FinalStop(stops)
  BY <1>1, WalkIsComplete
<1>3. Returned(stops, miles, list)
  BY <1>1 DEF Returned
<1> HIDE DEF list
<1>4. runs = 1 => Follows(stops, list)
  <2> SUFFICES ASSUME runs = 1 PROVE Follows(stops, list)
    OBVIOUS
  <2>1. Settled(stops, miles) /\ Follows(stops, ordered)
    BY <1>1 DEF LoopInv
  <2>2. Renumber(stops)[FinalStop(stops)] = Len(list)
    BY <1>1, <1>2, <2>1 DEF Settled, NearestOrders, OptimizedOrders
  <2>3. \A k \in 1..Len(list) : k \in 1..Len(ordered) \/ k = Len(list)
    BY <1>1, <1>2 DEF Walk
  <2> QED BY <1>2, <2>1, <2>2, <2>3 DEF Follows
<1> QED
  BY <1>1, <1>3, <1>4 DEF LoopInv

LEMMA PersistStep ==
  ASSUME LoopInv, Persist
  PROVE  LoopInv'
<1> DEFINE r == Numbering(ordered)
<1>1. /\ pc = "ordered" /\ Trip(stops) /\ miles \in Distances
      /\ runs \in {0, 1}
  BY DEF LoopInv, Persist
<1>2. /\ r \in NearestOrders(stops, miles)
      /\ NothingToOrder(stops) => r = Renumber(stops)
  BY <1>1, ListIsNearest
<1>3. /\ stops' = IF SameOrder(r, stops) THEN stops ELSE r
      /\ pc' = IF runs = 0 THEN "read" ELSE "stop"
      /\ runs' = runs + 1 /\ miles' = miles
  BY DEF Persist
<1> HIDE DEF r
<1>4. Trip(stops') /\ Settled(stops', miles)
  <2>1. CASE SameOrder(r, stops)
    BY <1>1, <1>2, <1>3, <2>1, KeptIsSettled
  <2>2. CASE ~SameOrder(r, stops)
    <3>1. ~NothingToOrder(stops)
      BY <1>1, <1>2, <2>2, RenumberOfTrip
    <3> QED BY <1>1, <1>2, <1>3, <2>2, <3>1, WrittenIsSettled, NearestIsDense
  <2> QED BY <2>1, <2>2
<1>5. /\ runs' \in {0, 1, 2}
      /\ pc' # "stop" => runs' # 2
      /\ pc' \notin {"visiting", "ordered"}
  BY <1>1, <1>3
<1> QED
  BY <1>1, <1>3, <1>4, <1>5 DEF LoopInv

LEMMA LoopAlways == LoopSpec => []LoopInv
<1>1. LoopInv /\ [LoopNext]_loopVars => LoopInv'
  <2> SUFFICES ASSUME LoopInv, [LoopNext]_loopVars PROVE LoopInv'
    OBVIOUS
  <2>1. CASE LoopNext
    BY <2>1, KeepStep, StartStep, VisitStep, FinishStep, PersistStep DEF LoopNext
  <2>2. CASE UNCHANGED loopVars
    BY <2>2 DEF loopVars, LoopInv, Numbering
  <2> QED BY <2>1, <2>2
<1> QED
  BY LoopBegins, <1>1, PTL DEF LoopSpec

\* nearest_neighbor_order returns each stop once, with the ends anchored and every other
\* stop the nearest of those left; a second recompute of the same stops finds the order
\* it would write (optimize.py, and recompute.py's "no recompute feedback loop").  For
\* any trips, however many stops they have and whatever numbers a race left them, and
\* any distances, ties included.
THEOREM NearestOrderHolds == LoopSpec => []ComputesNearestOrder
BY LoopAlways, LoopEnough, PTL
=============================================================================
