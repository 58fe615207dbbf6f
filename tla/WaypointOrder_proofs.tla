------------------------- MODULE WaypointOrder_proofs -------------------------
(***************************************************************************)
(* What the three reshuffles guarantee, for any stops of any trip.         *)
(***************************************************************************)
EXTENDS WaypointOrder, FiniteSetTheorems, TLAPS

(***************************************************************************)
(* The fact the others rest on: N stops with N different numbers in 1..N   *)
(* leave no slot of 1..N empty.  It is why the database's UNIQUE           *)
(* constraint and a bound on the numbers are together as good as density.  *)
(***************************************************************************)
LEMMA UniqueInRangeIsDense ==
  ASSUME NEW s, IsFiniteSet(DOMAIN s), Unique(s),
         s \in [DOMAIN s -> 1..Cardinality(DOMAIN s)]
  PROVE  Dense(s)
<1> DEFINE D == DOMAIN s
           N == Cardinality(D)
<1>1. N \in Nat
  BY FS_CardinalityType
<1>2. IsFiniteSet(1..N) /\ Cardinality(1..N) = N
  BY <1>1, FS_Interval
<1>3. s \in Injection(D, 1..N)
  BY DEF Unique, Injection, IsInjective
<1>4. s \in Surjection(D, 1..N)
  BY <1>2, <1>3, FS_Injection
<1>5. \A k \in 1..N : \E w \in D : s[w] = k
  BY <1>4 DEF Surjection
<1> QED
  BY <1>5 DEF Dense, Contiguous

\* The converse reading: the numbers of a dense trip are in 1..N.
LEMMA DenseRange ==
  ASSUME NEW s, IsFiniteSet(DOMAIN s), Dense(s)
  PROVE  /\ Cardinality(DOMAIN s) \in Nat
         /\ \A w \in DOMAIN s : s[w] \in 1..Cardinality(DOMAIN s)
BY FS_CardinalityType DEF Dense, Contiguous

\* Renumbering numbers a stop within 1..N, and keeps the order of any two.
LEMMA RenumberKeepsOrder ==
  ASSUME NEW s, IsFiniteSet(DOMAIN s), s \in [DOMAIN s -> Int]
  PROVE  /\ DOMAIN Renumber(s) = DOMAIN s
         /\ Renumber(s) \in [DOMAIN s -> 1..Cardinality(DOMAIN s)]
         /\ \A v, w \in DOMAIN s : s[v] < s[w] => Renumber(s)[v] < Renumber(s)[w]
<1> DEFINE D == DOMAIN s
           N == Cardinality(D)
           r == Renumber(s)
<1>1. DOMAIN r = D
  BY DEF Renumber
<1>2. ASSUME NEW v \in D
      PROVE  /\ IsFiniteSet(Ahead(s, v))
             /\ Cardinality(Ahead(s, v)) \in Nat
             /\ Ahead(s, v) \subseteq D \ {v}
  <2>1. Ahead(s, v) \subseteq D \ {v}
    BY DEF Ahead
  <2>2. IsFiniteSet(Ahead(s, v))
    BY <2>1, FS_Subset
  <2> QED
    BY <2>1, <2>2, FS_CardinalityType
<1>3. ASSUME NEW v \in D
      PROVE  r[v] \in 1..N
  <2>1. IsFiniteSet(D \ {v}) /\ Cardinality(D \ {v}) = N - 1 /\ N \in Nat
    BY FS_RemoveElement, FS_CardinalityType
  <2>2. Cardinality(Ahead(s, v)) <= N - 1
    BY <1>2, <2>1, FS_Subset
  <2> QED
    BY <1>2, <2>1, <2>2 DEF Renumber
<1>4. ASSUME NEW v \in D, NEW w \in D, s[v] < s[w]
      PROVE  r[v] < r[w]
  <2>1. Ahead(s, v) \cup {v} \subseteq Ahead(s, w) /\ v \notin Ahead(s, v)
    BY <1>4 DEF Ahead
  <2>2. /\ IsFiniteSet(Ahead(s, v) \cup {v})
        /\ Cardinality(Ahead(s, v) \cup {v}) = Cardinality(Ahead(s, v)) + 1
    BY <1>2, <2>1, FS_AddElement
  <2>3. Cardinality(Ahead(s, v)) + 1 <= Cardinality(Ahead(s, w))
    BY <1>2, <2>1, <2>2, FS_Subset
  <2> QED
    BY <1>2, <2>3 DEF Renumber
<1>5. r \in [D -> 1..N]
  BY <1>1, <1>3 DEF Renumber
<1> QED
  BY <1>1, <1>4, <1>5

(***************************************************************************)
(* Densify-on-delete repairs any order: whatever distinct numbers the      *)
(* stops have, however large the gaps, renumbering makes them 1..N.        *)
(***************************************************************************)
THEOREM RenumberIsDense ==
  ASSUME NEW s, IsFiniteSet(DOMAIN s), s \in [DOMAIN s -> Int], Unique(s)
  PROVE  Dense(Renumber(s))
<1> DEFINE D == DOMAIN s
           N == Cardinality(D)
           r == Renumber(s)
<1>1. /\ DOMAIN r = D /\ r \in [D -> 1..N] /\ N \in Nat
      /\ \A v, w \in D : s[v] < s[w] => r[v] < r[w]
  BY RenumberKeepsOrder, FS_CardinalityType
<1> HIDE DEF r
<1>2. Unique(r)
  <2> SUFFICES ASSUME NEW v \in D, NEW w \in D, r[v] = r[w]
               PROVE  v = w
    BY <1>1 DEF Unique
  <2>1. ~(s[v] < s[w]) /\ ~(s[w] < s[v])
    BY <1>1
  <2> QED
    BY <2>1 DEF Unique
<1>3. Dense(r)
  BY <1>1, <1>2, UniqueInRangeIsDense
<1> QED
  BY <1>3 DEF r

\* One of distinctly numbered stops is the last: the one to which renumbering
\* gives the number of stops.
LEMMA OneIsLast ==
  ASSUME NEW s, IsFiniteSet(DOMAIN s), s \in [DOMAIN s -> Int], Unique(s),
         DOMAIN s # {}
  PROVE  \E w \in DOMAIN s : \A v \in DOMAIN s : s[v] <= s[w]
<1> DEFINE D == DOMAIN s
           n == Cardinality(D)
<1>1. n \in Nat \ {0}
  BY FS_CardinalityType, FS_EmptySet
<1>2. Dense(Renumber(s)) /\ DOMAIN Renumber(s) = D
  BY RenumberIsDense DEF Renumber
<1>3. PICK w \in D : Renumber(s)[w] = n
  BY <1>1, <1>2 DEF Dense, Contiguous
<1>4. Cardinality(Ahead(s, w)) = n - 1
  <2>1. Ahead(s, w) \subseteq D
    BY DEF Ahead
  <2>2. IsFiniteSet(Ahead(s, w)) /\ Cardinality(Ahead(s, w)) \in Nat
    BY <2>1, FS_Subset, FS_CardinalityType
  <2> QED
    BY <1>1, <1>3, <2>2 DEF Renumber
<1>5. Ahead(s, w) = D \ {w}
  <2>1. Ahead(s, w) \subseteq D \ {w}
    BY DEF Ahead
  <2>2. IsFiniteSet(D \ {w}) /\ Cardinality(D \ {w}) = n - 1
    BY FS_RemoveElement
  <2> QED
    BY <1>4, <2>1, <2>2, FS_Subset
<1>6. \A v \in D : s[v] <= s[w]
  BY <1>5 DEF Ahead
<1> QED
  BY <1>6

\* On a dense trip the highest number in use is the number of stops.
LEMMA LastSlotOfDense ==
  ASSUME NEW s, IsFiniteSet(DOMAIN s), Dense(s)
  PROVE  LastSlot(s) = Cardinality(DOMAIN s)
<1> DEFINE D == DOMAIN s
           N == Cardinality(D)
<1>1. CASE D = {}
  BY <1>1, FS_EmptySet DEF LastSlot
<1>2. CASE D # {}
  <2>1. N \in Nat \ {0} /\ \A v \in D : s[v] \in 1..N
    BY <1>2, DenseRange, FS_EmptySet
  <2>2. N \in {s[v] : v \in D} /\ \A v \in D : s[v] <= N
    <3>1. PICK v \in D : s[v] = N
      BY <2>1 DEF Dense, Contiguous
    <3> QED
      BY <2>1, <3>1
  <2> DEFINE IsLast(n) == \A v \in D : s[v] <= n
             L == CHOOSE n \in {s[v] : v \in D} : IsLast(n)
  <2>3. L \in {s[v] : v \in D} /\ IsLast(L)
    BY <2>2
  <2>4. L = N
    BY <2>1, <2>2, <2>3
  <2> QED
    BY <1>2, <2>4 DEF LastSlot
<1> QED
  BY <1>1, <1>2

(***************************************************************************)
(* Place-on-insert: a new stop put where _waypoint_place puts it leaves    *)
(* the trip dense, with one slot more.                                     *)
(***************************************************************************)
THEOREM InsertIsDense ==
  ASSUME NEW s, IsFiniteSet(DOMAIN s), Dense(s),
         NEW w, w \notin DOMAIN s, NEW k \in PlaceSlots(s, w)
  PROVE  Dense(Overlay(ShiftForInsert(s, w, k), [x \in {w} |-> k]))
<1> DEFINE D == DOMAIN s
           N == Cardinality(D)
           t == Overlay(ShiftForInsert(s, w, k), [x \in {w} |-> k])
<1>1. N \in Nat /\ \A v \in D : s[v] \in 1..N
  BY DenseRange
<1>2. DOMAIN ShiftForInsert(s, w, k) = D
  BY DEF ShiftForInsert, ShiftFrom
<1>3. DOMAIN t = D \cup {w}
  BY <1>2 DEF Overlay
<1>4. IsFiniteSet(DOMAIN t) /\ Cardinality(DOMAIN t) = N + 1
  BY <1>3, FS_AddElement
<1>5. t[w] = k /\ \A v \in D : t[v] = ShiftForInsert(s, w, k)[v]
  BY <1>2 DEF Overlay
<1>6. CASE BeforeDestination(s, w)
  <2>1. k \in 1..N
    BY <1>1, <1>6 DEF PlaceSlots, Destinations
  <2>2. \A v \in D : t[v] = IF s[v] >= k THEN s[v] + 1 ELSE s[v]
    BY <1>5, <1>6 DEF ShiftForInsert, ShiftFrom
  <2>3. t \in [DOMAIN t -> 1..(N + 1)]
    <3>1. \A x \in DOMAIN t : t[x] \in 1..(N + 1)
      BY <1>1, <1>3, <1>5, <2>1, <2>2
    <3> QED
      BY <3>1 DEF Overlay
  <2>4. Unique(t)
    BY <1>1, <1>3, <1>5, <2>1, <2>2 DEF Dense, Unique
  <2> QED
    BY <1>4, <2>3, <2>4, UniqueInRangeIsDense
<1>7. CASE ~BeforeDestination(s, w)
  <2>1. k = N + 1
    BY <1>7, LastSlotOfDense DEF PlaceSlots
  <2>2. \A v \in D : t[v] = s[v]
    BY <1>5, <1>7 DEF ShiftForInsert
  <2>3. t \in [DOMAIN t -> 1..(N + 1)]
    <3>1. \A x \in DOMAIN t : t[x] \in 1..(N + 1)
      BY <1>1, <1>3, <1>5, <2>1, <2>2
    <3> QED
      BY <3>1 DEF Overlay
  <2>4. Unique(t)
    BY <1>1, <1>3, <1>5, <2>1, <2>2 DEF Dense, Unique
  <2> QED
    BY <1>4, <2>3, <2>4, UniqueInRangeIsDense
<1> QED
  BY <1>6, <1>7

(***************************************************************************)
(* Shift-on-move: moving a stop to a slot of the list leaves the trip      *)
(* dense.  The bound on the slot is a hypothesis: _waypoint_reorder does   *)
(* not check it.                                                           *)
(***************************************************************************)
THEOREM MoveIsDense ==
  ASSUME NEW s, IsFiniteSet(DOMAIN s), Dense(s),
         NEW w \in DOMAIN s, NEW k \in 1..Cardinality(DOMAIN s)
  PROVE  Dense(Overlay(ShiftForMove(Siblings(s, w), s[w], k), [x \in {w} |-> k]))
<1> DEFINE D == DOMAIN s
           N == Cardinality(D)
           sib == Siblings(s, w)
           t == Overlay(ShiftForMove(sib, s[w], k), [x \in {w} |-> k])
<1>1. N \in Nat /\ \A v \in D : s[v] \in 1..N
  BY DenseRange
<1>2. DOMAIN ShiftForMove(sib, s[w], k) = D \ {w}
  BY DEF ShiftForMove, Siblings
<1>3. DOMAIN t = D
  BY <1>2 DEF Overlay
<1>4. /\ t[w] = k
      /\ \A v \in D \ {w} :
           t[v] = IF k <= s[v] /\ s[v] < s[w] THEN s[v] + 1
                  ELSE IF s[w] < s[v] /\ s[v] <= k THEN s[v] - 1
                  ELSE s[v]
  BY <1>2 DEF Overlay, ShiftForMove, Siblings
<1>5. \A v \in D \ {w} : s[v] # s[w]
  BY DEF Dense, Unique
<1>6. t \in [D -> 1..N]
  <2>1. \A v \in D : t[v] \in 1..N
    BY <1>1, <1>4, <1>5
  <2> QED
    BY <1>3, <2>1 DEF Overlay
<1>7. Unique(t)
  BY <1>1, <1>3, <1>4, <1>5 DEF Dense, Unique
<1> QED
  BY <1>3, <1>6, <1>7, UniqueInRangeIsDense

\* Densify-on-delete on a dense trip, as _waypoint_densify meets it.
LEMMA DeleteIsDense ==
  ASSUME NEW s, IsFiniteSet(DOMAIN s), s \in [DOMAIN s -> Int], Unique(s), NEW w
  PROVE  Dense(Renumber(Siblings(s, w)))
<1> DEFINE sib == Siblings(s, w)
<1>1. DOMAIN sib = DOMAIN s \ {w} /\ sib \in [DOMAIN sib -> Int]
  BY DEF Siblings
<1>2. IsFiniteSet(DOMAIN sib)
  BY <1>1, FS_Subset
<1>3. Unique(sib)
  BY <1>1 DEF Unique, Siblings
<1> HIDE DEF sib
<1> QED
  BY <1>1, <1>2, <1>3, RenumberIsDense DEF sib
=============================================================================
