--------------------------- MODULE Listing_proofs ---------------------------
(***************************************************************************)
(* Proofs about Listing, for any finite number of jobs, any filter and any *)
(* size of a page: what a walk over the pages can miss and repeat is       *)
(* bounded by the jobs that came and went meanwhile.  The offset divides   *)
(* the jobs into those the client is past and those it has yet to see.  A  *)
(* job that comes pushes at most one job across that line, and one that    *)
(* goes lets at most one slip back over it.                                *)
(***************************************************************************)
EXTENDS Listing, Induction_proofs

-----------------------------------------------------------------------------
(* The place of a job among the jobs of a set, in the order of the column. *)

Younger(times, i, j) == \/ times[i] > times[j]
                        \/ times[i] = times[j] /\ i > j

Ahead(jobs, times, j) == {i \in jobs : Younger(times, i, j)}
Place(jobs, times, j) == Cardinality(Ahead(jobs, times, j))

LEMMA PlaceIsNumber ==
    ASSUME NEW jobs \in SUBSET Ids, NEW times, NEW j
    PROVE  /\ IsFiniteSet(jobs) /\ Cardinality(jobs) \in Nat
           /\ IsFiniteSet(Ahead(jobs, times, j)) /\ Place(jobs, times, j) \in Nat
<1>1. Ahead(jobs, times, j) \in SUBSET jobs
  BY DEF Ahead
<1>2. IsFiniteSet(jobs)
  BY FS_Subset, ListingAssumption
<1>3. IsFiniteSet(Ahead(jobs, times, j))
  BY <1>1, <1>2, FS_Subset
<1>4. QED
  BY <1>2, <1>3, FS_CardinalityType DEF Place

\* A subset has no more elements, and fewer if an element is missing.
LEMMA FewerElements ==
    ASSUME NEW S, IsFiniteSet(S), NEW T \in SUBSET S
    PROVE  /\ Cardinality(T) \in Nat /\ Cardinality(S) \in Nat
           /\ Cardinality(T) <= Cardinality(S)
           /\ T # S => Cardinality(T) < Cardinality(S)
<1>1. IsFiniteSet(T)
  BY FS_Subset
<1>2. PICK m, n \in Nat : m = Cardinality(T) /\ n = Cardinality(S)
  BY <1>1, FS_CardinalityType
<1>3. m <= n /\ (m = n => S = T)
  BY <1>2, FS_Subset
<1>4. T # S => m < n
  BY <1>3
<1>5. QED
  BY <1>2, <1>3, <1>4

\* An older job comes later.
LEMMA OlderIsLater ==
    ASSUME NEW jobs \in SUBSET Ids, NEW times \in [Ids -> Nat],
           NEW i \in jobs, NEW j \in Ids, Younger(times, i, j)
    PROVE  Place(jobs, times, i) < Place(jobs, times, j)
<1>1. PICK S, T : S = Ahead(jobs, times, j) /\ T = Ahead(jobs, times, i)
  OBVIOUS
<1>2. /\ Ids \subseteq Int /\ \A x \in Ids : times[x] \in Nat
  BY ListingAssumption
<1>3. T \in SUBSET S /\ i \in S /\ i \notin T
  <2>1. i \in Int /\ j \in Int /\ times[i] \in Nat /\ times[j] \in Nat
    BY <1>2
  <2>2. ASSUME NEW x \in T  PROVE x \in S
    <3>1. x \in jobs /\ Younger(times, x, i) /\ x \in Int /\ times[x] \in Nat
      BY <1>1, <1>2 DEF Ahead
    <3>2. Younger(times, x, j)
      BY <2>1, <3>1 DEF Younger
    <3>3. QED
      BY <1>1, <3>1, <3>2 DEF Ahead
  <2>3. ~Younger(times, i, i)
    BY <2>1 DEF Younger
  <2>4. QED
    BY <1>1, <2>2, <2>3 DEF Ahead
<1>4. IsFiniteSet(S)
  BY <1>1, PlaceIsNumber
<1>5. QED
  BY <1>1, <1>3, <1>4, FewerElements DEF Place

\* No two jobs have the same place.
LEMMA PlacesDiffer ==
    ASSUME NEW jobs \in SUBSET Ids, NEW times \in [Ids -> Nat],
           NEW i \in jobs, NEW j \in jobs, i # j
    PROVE  Place(jobs, times, i) # Place(jobs, times, j)
<1>1. Younger(times, i, j) \/ Younger(times, j, i)
  <2>1. i \in Int /\ j \in Int /\ times[i] \in Nat /\ times[j] \in Nat
    BY ListingAssumption
  <2>2. QED
    BY <2>1 DEF Younger
<1>2. Place(jobs, times, i) \in Nat /\ Place(jobs, times, j) \in Nat
  BY PlaceIsNumber
<1>3. CASE Younger(times, i, j)
  <2>1. Place(jobs, times, i) < Place(jobs, times, j)
    BY <1>3, OlderIsLater
  <2>2. QED
    BY <1>2, <2>1
<1>4. CASE Younger(times, j, i)
  <2>1. Place(jobs, times, j) < Place(jobs, times, i)
    BY <1>4, OlderIsLater
  <2>2. QED
    BY <1>2, <2>1
<1>5. QED
  BY <1>1, <1>3, <1>4

\* One more job moves those behind it by one.
LEMMA OneMore ==
    ASSUME NEW jobs \in SUBSET Ids, NEW times, NEW k \in Ids \ jobs, NEW j
    PROVE  Place(jobs \union {k}, times, j)
             = Place(jobs, times, j) + IF Younger(times, k, j) THEN 1 ELSE 0
<1>1. PICK S, T : S = Ahead(jobs \union {k}, times, j) /\ T = Ahead(jobs, times, j)
  OBVIOUS
<1>2. k \notin T /\ IsFiniteSet(T) /\ Cardinality(T) \in Nat
  BY <1>1, PlaceIsNumber DEF Ahead, Place
<1>3. CASE Younger(times, k, j)
  <2>1. S = T \union {k}
    BY <1>1, <1>3 DEF Ahead
  <2>2. Cardinality(S) = Cardinality(T) + 1
    BY <1>2, <2>1, FS_AddElement
  <2>3. QED
    BY <1>1, <1>3, <2>2 DEF Place
<1>4. CASE ~Younger(times, k, j)
  <2>1. S = T
    BY <1>1, <1>4 DEF Ahead
  <2>2. QED
    BY <1>1, <1>2, <1>4, <2>1 DEF Place
<1>5. QED
  BY <1>3, <1>4

\* Of the jobs behind n others there are n fewer than of all jobs.
LEMMA BehindTheLine ==
    ASSUME NEW jobs \in SUBSET Ids, NEW times \in [Ids -> Nat], NEW n \in Nat,
           NEW T, T = {j \in jobs : Place(jobs, times, j) >= n}, T # {}
    PROVE  \E m, s \in Nat : m = Cardinality(T) /\ s = Cardinality(jobs) /\ m + n <= s
<1>1. PICK R : R = {Place(jobs, times, j) : j \in T}
  OBVIOUS
<1>2. R \in SUBSET Nat /\ R # {}
  BY <1>1, PlaceIsNumber
<1>3. PICK r \in R : \A q \in R : r <= q
  BY <1>2, LeastNumber
<1>4. PICK t \in T : r = Place(jobs, times, t)
  BY <1>1, <1>3
<1>5. PICK A : A = Ahead(jobs, times, t)
  OBVIOUS
<1>6. A \cap T = {} /\ A \union T \in SUBSET jobs /\ A \in SUBSET jobs /\ t \in jobs
  <2>1. ASSUME NEW x \in A, x \in T  PROVE FALSE
    <3>1. x \in jobs /\ Younger(times, x, t) /\ t \in Ids
      BY <1>4, <1>5, <2>1 DEF Ahead
    <3>2. Place(jobs, times, x) < r
      BY <1>4, <3>1, OlderIsLater
    <3>3. r <= Place(jobs, times, x)
      BY <1>1, <1>3, <2>1
    <3>4. r \in Nat /\ Place(jobs, times, x) \in Nat
      BY <1>2, <1>3, PlaceIsNumber
    <3>5. QED
      BY <3>2, <3>3, <3>4
  <2>2. QED
    BY <1>4, <1>5, <2>1 DEF Ahead
<1>7. IsFiniteSet(jobs) /\ IsFiniteSet(A) /\ IsFiniteSet(T) /\ IsFiniteSet(A \union T)
  BY <1>6, PlaceIsNumber, FS_Subset
<1>8. PICK a, m, u, s \in Nat : /\ a = Cardinality(A) /\ m = Cardinality(T)
                                /\ u = Cardinality(A \union T) /\ s = Cardinality(jobs)
  BY <1>7, FS_CardinalityType
<1>9. u = a + m
  <2>1. Cardinality(A \union T) = Cardinality(A) + Cardinality(T) - Cardinality(A \cap T)
    BY <1>7, FS_Union
  <2>2. Cardinality(A \cap T) = 0
    BY <1>6, FS_EmptySet
  <2>3. QED
    BY <1>8, <2>1, <2>2
<1>10. u <= s
  BY <1>6, <1>7, <1>8, FS_Subset
<1>11. n <= a
  BY <1>4, <1>5, <1>8 DEF Place
<1>12. m + n <= s
  BY <1>9, <1>10, <1>11
<1>13. QED
  BY <1>8, <1>12

Beyond(jobs, times, n) == {j \in jobs : Place(jobs, times, j) >= n}

\* A job that comes pushes at most one over the line, or is the one behind it itself.
LEMMA ArrivalMoves ==
    ASSUME NEW jobs \in SUBSET Ids, NEW times \in [Ids -> Nat],
           NEW k \in Ids \ jobs, NEW more, more = jobs \union {k}, NEW n \in Nat
    PROVE  /\ \A j : Place(jobs, times, j) <= Place(more, times, j)
           /\ \E x : Beyond(more, times, n) \subseteq Beyond(jobs, times, n) \union {x}
<1>1. \A j : /\ Place(jobs, times, j) \in Nat
             /\ Place(more, times, j)
                  = Place(jobs, times, j) + IF Younger(times, k, j) THEN 1 ELSE 0
  BY PlaceIsNumber, OneMore
<1>2. \A j : Place(more, times, j) \in Nat /\ Place(jobs, times, j) <= Place(more, times, j)
  BY <1>1
<1>3. CASE \E y \in jobs : Place(more, times, y) >= n /\ ~(Place(jobs, times, y) >= n)
  <2>1. PICK y \in jobs : Place(more, times, y) >= n /\ ~(Place(jobs, times, y) >= n)
    BY <1>3
  <2>2. Younger(times, k, y) /\ Place(jobs, times, y) = n - 1 /\ Place(more, times, y) = n
    <3>1. PICK p, q \in Nat : p = Place(jobs, times, y) /\ q = Place(more, times, y)
      BY <1>1, <1>2
    <3>2. q >= n /\ ~(p >= n) /\ q = p + IF Younger(times, k, y) THEN 1 ELSE 0
      BY <1>1, <2>1, <3>1
    <3>3. QED
      BY <3>1, <3>2
  <2>3. ASSUME NEW j \in more, Place(more, times, j) >= n, j # y
        PROVE  j \in jobs /\ Place(jobs, times, j) >= n
    <3>1. j # k
      <4>1. more \in SUBSET Ids /\ k \in more /\ y \in Ids
        OBVIOUS
      <4>2. Place(more, times, k) < Place(more, times, y)
        BY <2>2, <4>1, OlderIsLater
      <4>3. QED
        BY <1>2, <2>2, <2>3, <4>2
    <3>2. Place(jobs, times, j) # n - 1
      BY <2>2, <2>3, <3>1, PlacesDiffer
    <3>3. QED
      BY <1>1, <2>3, <3>1, <3>2
  <2>4. Beyond(more, times, n) \subseteq Beyond(jobs, times, n) \union {y}
    BY <2>3 DEF Beyond
  <2>5. QED
    BY <1>2, <2>4
<1>4. CASE \A y \in jobs : Place(more, times, y) >= n => Place(jobs, times, y) >= n
  <2>1. Beyond(more, times, n) \subseteq Beyond(jobs, times, n) \union {k}
    BY <1>4 DEF Beyond
  <2>2. QED
    BY <1>2, <2>1
<1>5. QED
  BY <1>3, <1>4

\* A job that goes lets at most one back over the line.
LEMMA DepartureMoves ==
    ASSUME NEW jobs \in SUBSET Ids, NEW times \in [Ids -> Nat],
           NEW k \in jobs, NEW fewer, fewer = jobs \ {k}, NEW n \in Nat
    PROVE  /\ \A j : Place(fewer, times, j) <= Place(jobs, times, j)
           /\ \E x : \A j \in fewer : Place(fewer, times, j) < n =>
                        j = x \/ Place(jobs, times, j) < n
<1>1. fewer \in SUBSET Ids /\ k \in Ids \ fewer /\ jobs = fewer \union {k}
  OBVIOUS
<1>2. \A j : /\ Place(fewer, times, j) \in Nat
             /\ Place(jobs, times, j)
                  = Place(fewer, times, j) + IF Younger(times, k, j) THEN 1 ELSE 0
  <2>1. \A j : Place(fewer, times, j) \in Nat
    BY <1>1, PlaceIsNumber
  <2>2. \A j : Place(fewer \union {k}, times, j)
                 = Place(fewer, times, j) + IF Younger(times, k, j) THEN 1 ELSE 0
    BY <1>1, OneMore
  <2>3. QED
    BY <1>1, <2>1, <2>2
<1>3. ASSUME NEW j
      PROVE  Place(jobs, times, j) \in Nat /\ Place(fewer, times, j) <= Place(jobs, times, j)
  <2>1. PICK p \in Nat : p = Place(fewer, times, j)
    BY <1>2
  <2>2. Place(jobs, times, j) = p + IF Younger(times, k, j) THEN 1 ELSE 0
    BY <1>2, <2>1
  <2>3. Place(jobs, times, j) = p \/ Place(jobs, times, j) = p + 1
    BY <2>2
  <2>4. QED
    BY <2>1, <2>3
<1>4. CASE \E y \in fewer : Place(fewer, times, y) < n /\ ~(Place(jobs, times, y) < n)
  <2>1. PICK y \in fewer : Place(fewer, times, y) < n /\ ~(Place(jobs, times, y) < n)
    BY <1>4
  <2>2. Place(jobs, times, y) = n
    <3>1. PICK p, q \in Nat : p = Place(fewer, times, y) /\ q = Place(jobs, times, y)
      BY <1>2, <1>3
    <3>2. p < n /\ ~(q < n) /\ (q = p \/ q = p + 1)
      BY <1>2, <2>1, <3>1
    <3>3. QED
      BY <3>1, <3>2
  <2>3. ASSUME NEW j \in fewer, Place(fewer, times, j) < n, j # y
        PROVE  Place(jobs, times, j) < n
    <3>1. Place(jobs, times, j) # n
      BY <2>2, <2>3, PlacesDiffer
    <3>2. QED
      BY <1>2, <2>3, <3>1
  <2>4. QED
    BY <1>3, <2>3
<1>5. CASE \A y \in fewer : Place(fewer, times, y) < n => Place(jobs, times, y) < n
  BY <1>3, <1>5
<1>6. QED
  BY <1>4, <1>5

LEMMA OneElementMore ==
    ASSUME NEW A, IsFiniteSet(A), NEW x, NEW B \in SUBSET (A \union {x})
    PROVE  Cardinality(A) \in Nat /\ Cardinality(B) \in Nat /\ Cardinality(B) <= Cardinality(A) + 1
<1>1. PICK U : U = A \union {x}
  OBVIOUS
<1>2. IsFiniteSet(U) /\ Cardinality(A) \in Nat /\ Cardinality(U) <= Cardinality(A) + 1
  BY <1>1, FS_AddElement, FS_CardinalityType
<1>3. Cardinality(B) \in Nat /\ Cardinality(U) \in Nat /\ Cardinality(B) <= Cardinality(U)
  BY <1>1, <1>2, FewerElements
<1>4. QED
  BY <1>2, <1>3

-----------------------------------------------------------------------------
(* The invariant.                                                          *)

Places == Statuses \union {"absent", "flushed", "deleted"}

ListingShape ==
    /\ moment \in Nat
    /\ row \in [Ids -> Places]
    /\ createdAt \in [Ids -> Nat]
    /\ walk \in [at : {"idle", "count", "page", "done"}, page : Nat \ {0}, total : Nat]
    /\ listed \in [Ids -> Nat]
    /\ stayed \in SUBSET Ids
    /\ arrivals \in Nat /\ departures \in Nat

Line == Offset(walk.page)

\* Jobs that may be shown again, as they are on a page that is yet to come.
Again == {j \in Matching : listed[j] >= 1 /\ Rank(j) >= Line}

\* Jobs that will not be shown, as the client is past them.
Skipped == {j \in stayed : listed[j] = 0 /\ Rank(j) < Line}

NotBegun == /\ walk.page = 1 /\ listed = [j \in Ids |-> 0] /\ stayed = {}
            /\ arrivals = 0 /\ departures = 0

\* What is repeated, and could be, stays within what came; what is missed so far
\* within what went.
Bounded == /\ stayed \subseteq Matching
           /\ Repeats + Cardinality(Again) <= arrivals
           /\ Cardinality(Skipped) <= departures

WalkInv ==
    /\ ListingShape
    /\ walk.at = "idle" => NotBegun
    /\ walk.at \in {"count", "page"} => Bounded
    /\ walk.at = "page" => Cardinality(Matching) <= walk.total + arrivals
    /\ walk.at = "done" => /\ Repeats <= arrivals
                           /\ Cardinality(Missed) <= arrivals + departures

LEMMA RepeatsIsNumber ==
    ASSUME ListingShape
    PROVE  Repeats \in Nat /\ (listed = [j \in Ids |-> 0] => Repeats = 0)
<1>1. PICK f : f = [j \in Ids |-> IF listed[j] > 1 THEN listed[j] - 1 ELSE 0]
  OBVIOUS
<1>2. f \in [Ids -> Nat] /\ IsFiniteSet(Ids)
  BY <1>1, ListingAssumption DEF ListingShape
<1>3. SumFunction(f) \in Nat
  BY <1>2, SumIsNumber
<1>4. ASSUME listed = [j \in Ids |-> 0]  PROVE SumFunction(f) = 0
  <2>1. f = [j \in Ids |-> 0]
    BY <1>1, <1>4
  <2>2. QED
    BY <1>2, <2>1, SumOfZeros
<1>5. QED
  BY <1>1, <1>3, <1>4 DEF Repeats

LEMMA LineIsNumber ==
    ASSUME NEW page \in Nat \ {0}
    PROVE  /\ Offset(page) \in Nat /\ Offset(page + 1) = Offset(page) + PageSize
           /\ Offset(1) = 0 /\ page * PageSize = Offset(page + 1)
           /\ Offset(page) + PageSize - 1 + 1 = Offset(page + 1)
<1>1. PICK k, s \in Nat : k = page - 1 /\ s = PageSize
  BY ListingAssumption
<1>2. k * s \in Nat /\ (k + 1) * s = k * s + s /\ 0 * s = 0
  BY <1>1
<1>3. page = k + 1 /\ (page + 1) - 1 = page /\ 1 - 1 = 0
  BY <1>1
<1>4. Offset(page) = k * s /\ Offset(page + 1) = (k + 1) * s /\ Offset(1) = 0 * s
  BY <1>1, <1>3 DEF Offset
<1>5. QED
  BY <1>1, <1>2, <1>3, <1>4

LEMMA MatchingIs ==
    ASSUME ListingShape
    PROVE  /\ Matching \in SUBSET Ids
           /\ IsFiniteSet(Matching) /\ Cardinality(Matching) \in Nat
           /\ \A j : Rank(j) = Place(Matching, createdAt, j) /\ Rank(j) \in Nat
<1>1. Matching \in SUBSET Ids
  BY DEF Matching
<1>2. \A j : Rank(j) = Place(Matching, createdAt, j)
  BY DEF Rank, Place, Ahead, Younger, Before
<1>3. QED
  BY <1>1, <1>2, PlaceIsNumber

LEMMA SetsAreFinite ==
    ASSUME ListingShape
    PROVE  /\ IsFiniteSet(Again) /\ Cardinality(Again) \in Nat
           /\ IsFiniteSet(Skipped) /\ Cardinality(Skipped) \in Nat
<1>1. Again \in SUBSET Ids /\ Skipped \in SUBSET Ids
  BY DEF Again, Skipped, Matching, ListingShape
<1>2. IsFiniteSet(Again) /\ IsFiniteSet(Skipped)
  BY <1>1, FS_Subset, ListingAssumption
<1>3. QED
  BY <1>2, FS_CardinalityType

-----------------------------------------------------------------------------
(* What the jobs do.                                                       *)

\* Nothing that the client could notice.
LEMMA StillStep ==
    ASSUME WalkInv, ListingShape', UNCHANGED <<walk, history>>,
           Matching' = Matching, \A j \in Matching : createdAt'[j] = createdAt[j]
    PROVE  WalkInv'
<1>1. PICK M, c, d : M = Matching /\ c = createdAt /\ d = createdAt'
  OBVIOUS
<1>2. M \in SUBSET Ids /\ \A j \in M : d[j] = c[j]
  BY <1>1 DEF Matching
<1>3. \A j \in M : Ahead(M, d, j) = Ahead(M, c, j)
  BY <1>2 DEF Ahead, Younger
<1>4. \A j \in M : Rank(j)' = Rank(j)
  <2>1. \A j : Rank(j)' = Place(M, d, j) /\ Rank(j) = Place(M, c, j)
    BY <1>1 DEF Rank, Place, Ahead, Younger, Before
  <2>2. QED
    BY <1>3, <2>1 DEF Place
<1>5. Again' = Again /\ Line' = Line
  BY <1>1, <1>4 DEF Again, Line, Offset, history
<1>6. Repeats' = Repeats /\ Missed' = Missed
  BY DEF Repeats, Missed, history
<1>7. stayed \subseteq Matching => Skipped' = Skipped
  BY <1>1, <1>4 DEF Skipped, Line, Offset, history
<1>8. QED
  BY <1>5, <1>6, <1>7 DEF WalkInv, Bounded, NotBegun, history

\* One job comes while the client walks.
LEMMA ArrivalStep ==
    ASSUME WalkInv, ListingShape', walk.at \in {"count", "page"},
           UNCHANGED <<walk, listed, createdAt, stayed, departures>>,
           NEW k \in Ids \ Matching, Matching' = Matching \union {k}, arrivals' = arrivals + 1
    PROVE  WalkInv'
<1>0. ListingShape /\ Bounded
  BY DEF WalkInv
<1>1. PICK M, N, c, n : /\ M = Matching /\ N = Matching' /\ c = createdAt /\ n = Line
                        /\ c = createdAt' /\ n = Line'
  BY DEF Line, Offset
<1>2. /\ M \in SUBSET Ids /\ N = M \union {k} /\ k \in Ids \ M
      /\ c \in [Ids -> Nat] /\ n \in Nat
  BY <1>0, <1>1, LineIsNumber DEF Matching, ListingShape, Line
<1>3. \A j : Rank(j) = Place(M, c, j) /\ Rank(j)' = Place(N, c, j)
  BY <1>1 DEF Rank, Place, Ahead, Younger, Before
<1>4. /\ \A j : Place(M, c, j) <= Place(N, c, j)
      /\ \E x : Beyond(N, c, n) \subseteq Beyond(M, c, n) \union {x}
  BY <1>2, ArrivalMoves
<1>5. \A j : Place(M, c, j) \in Nat /\ Place(N, c, j) \in Nat
  BY <1>2, PlaceIsNumber
<1>6. PICK A, B, S, R : A = Again /\ B = Again' /\ S = Skipped /\ R = Skipped'
  OBVIOUS
<1>7. \E x : B \in SUBSET (A \union {x})
  <2>1. PICK x : Beyond(N, c, n) \subseteq Beyond(M, c, n) \union {x}
    BY <1>4
  <2>2. B = {j \in Beyond(N, c, n) : listed[j] >= 1}
    BY <1>1, <1>3, <1>6 DEF Again, Beyond
  <2>3. A = {j \in Beyond(M, c, n) : listed[j] >= 1}
    BY <1>1, <1>3, <1>6 DEF Again, Beyond
  <2>4. QED
    BY <2>1, <2>2, <2>3
<1>8. R \in SUBSET S
  <2>1. R = {j \in stayed : listed[j] = 0 /\ Place(N, c, j) < n}
    BY <1>1, <1>3, <1>6 DEF Skipped
  <2>2. S = {j \in stayed : listed[j] = 0 /\ Place(M, c, j) < n}
    BY <1>1, <1>3, <1>6 DEF Skipped
  <2>3. ASSUME NEW j, Place(N, c, j) < n  PROVE Place(M, c, j) < n
    BY <1>2, <1>4, <1>5, <2>3
  <2>4. QED
    BY <2>1, <2>2, <2>3
<1>9. IsFiniteSet(A) /\ IsFiniteSet(S) /\ IsFiniteSet(M)
  BY <1>0, <1>1, <1>6, SetsAreFinite, MatchingIs
<1>10. PICK a, b, s, r, m \in Nat :
         /\ a = Cardinality(A) /\ b = Cardinality(B) /\ b <= a + 1
         /\ s = Cardinality(S) /\ r = Cardinality(R) /\ r <= s
         /\ m = Cardinality(M) /\ Cardinality(N) = m + 1
  <2>1. Cardinality(A) \in Nat /\ Cardinality(B) \in Nat /\ Cardinality(B) <= Cardinality(A) + 1
    BY <1>7, <1>9, OneElementMore
  <2>2. Cardinality(S) \in Nat /\ Cardinality(R) \in Nat /\ Cardinality(R) <= Cardinality(S)
    BY <1>8, <1>9, FewerElements
  <2>3. Cardinality(M) \in Nat /\ Cardinality(N) = Cardinality(M) + 1
    BY <1>2, <1>9, FS_AddElement, FS_CardinalityType
  <2>4. QED
    BY <2>1, <2>2, <2>3
<1>11. Repeats' = Repeats /\ Repeats \in Nat /\ arrivals \in Nat
  BY <1>0, RepeatsIsNumber DEF Repeats, ListingShape
<1>12. Bounded'
  <2>1. Repeats + a <= arrivals /\ s <= departures /\ stayed \subseteq Matching
    BY <1>0, <1>6, <1>10 DEF Bounded
  <2>2. Repeats + b <= arrivals + 1 /\ r <= departures
    BY <1>0, <1>10, <1>11, <2>1 DEF ListingShape
  <2>3. QED
    BY <1>6, <1>10, <1>11, <2>1, <2>2 DEF Bounded
<1>13. walk.at = "page" => Cardinality(Matching') <= walk.total + arrivals'
  <2>1. walk.total \in Nat
    BY <1>0 DEF ListingShape
  <2>2. walk.at = "page" => m <= walk.total + arrivals
    BY <1>1, <1>10 DEF WalkInv
  <2>3. QED
    BY <1>1, <1>10, <1>11, <2>1, <2>2
<1>14. QED
  BY <1>12, <1>13 DEF WalkInv

\* One job goes while the client walks.
LEMMA DepartureStep ==
    ASSUME WalkInv, ListingShape', walk.at \in {"count", "page"},
           UNCHANGED <<walk, listed, createdAt, arrivals>>,
           NEW k \in Matching, Matching' = Matching \ {k}, stayed' = stayed \ {k},
           departures' = departures + 1
    PROVE  WalkInv'
<1>0. ListingShape /\ Bounded
  BY DEF WalkInv
<1>1. PICK M, N, c, n : /\ M = Matching /\ N = Matching' /\ c = createdAt /\ n = Line
                        /\ c = createdAt' /\ n = Line'
  BY DEF Line, Offset
<1>2. /\ M \in SUBSET Ids /\ N = M \ {k} /\ k \in M
      /\ c \in [Ids -> Nat] /\ n \in Nat
  BY <1>0, <1>1, LineIsNumber DEF Matching, ListingShape, Line
<1>3. \A j : Rank(j) = Place(M, c, j) /\ Rank(j)' = Place(N, c, j)
  BY <1>1 DEF Rank, Place, Ahead, Younger, Before
<1>4. /\ \A j : Place(N, c, j) <= Place(M, c, j)
      /\ \E x : \A j \in N : Place(N, c, j) < n => j = x \/ Place(M, c, j) < n
  BY <1>2, DepartureMoves
<1>5. \A j : Place(M, c, j) \in Nat /\ Place(N, c, j) \in Nat
  BY <1>2, PlaceIsNumber
<1>6. PICK A, B, S, R : A = Again /\ B = Again' /\ S = Skipped /\ R = Skipped'
  OBVIOUS
<1>7. B \in SUBSET A
  <2>1. B = {j \in N : listed[j] >= 1 /\ Place(N, c, j) >= n}
    BY <1>1, <1>3, <1>6 DEF Again
  <2>2. A = {j \in M : listed[j] >= 1 /\ Place(M, c, j) >= n}
    BY <1>1, <1>3, <1>6 DEF Again
  <2>3. ASSUME NEW j, Place(N, c, j) >= n  PROVE Place(M, c, j) >= n
    BY <1>2, <1>4, <1>5, <2>3
  <2>4. QED
    BY <1>2, <2>1, <2>2, <2>3
<1>8. \E x : R \in SUBSET (S \union {x})
  <2>1. R = {j \in stayed \ {k} : listed[j] = 0 /\ Place(N, c, j) < n}
    BY <1>1, <1>3, <1>6 DEF Skipped
  <2>2. S = {j \in stayed : listed[j] = 0 /\ Place(M, c, j) < n}
    BY <1>1, <1>3, <1>6 DEF Skipped
  <2>3. stayed \ {k} \subseteq N
    BY <1>0, <1>1, <1>2 DEF Bounded
  <2>4. QED
    BY <1>4, <2>1, <2>2, <2>3
<1>9. IsFiniteSet(A) /\ IsFiniteSet(S) /\ IsFiniteSet(M)
  BY <1>0, <1>1, <1>6, SetsAreFinite, MatchingIs
<1>10. PICK a, b, s, r, m, q \in Nat :
         /\ a = Cardinality(A) /\ b = Cardinality(B) /\ b <= a
         /\ s = Cardinality(S) /\ r = Cardinality(R) /\ r <= s + 1
         /\ m = Cardinality(M) /\ q = Cardinality(N) /\ q <= m
  <2>1. Cardinality(S) \in Nat /\ Cardinality(R) \in Nat /\ Cardinality(R) <= Cardinality(S) + 1
    BY <1>8, <1>9, OneElementMore
  <2>2. Cardinality(A) \in Nat /\ Cardinality(B) \in Nat /\ Cardinality(B) <= Cardinality(A)
    BY <1>7, <1>9, FewerElements
  <2>3. Cardinality(M) \in Nat /\ Cardinality(N) \in Nat /\ Cardinality(N) <= Cardinality(M)
    BY <1>2, <1>9, FewerElements
  <2>4. QED
    BY <2>1, <2>2, <2>3
<1>11. Repeats' = Repeats /\ Repeats \in Nat /\ arrivals \in Nat /\ departures \in Nat
  BY <1>0, RepeatsIsNumber DEF Repeats, ListingShape
<1>12. Bounded'
  <2>1. Repeats + a <= arrivals /\ s <= departures /\ stayed \subseteq Matching
    BY <1>0, <1>6, <1>10 DEF Bounded
  <2>2. Repeats + b <= arrivals /\ r <= departures + 1
    BY <1>10, <1>11, <2>1
  <2>3. QED
    BY <1>6, <1>10, <1>11, <2>1, <2>2 DEF Bounded
<1>13. walk.at = "page" => Cardinality(Matching') <= walk.total + arrivals'
  <2>1. walk.total \in Nat
    BY <1>0 DEF ListingShape
  <2>2. walk.at = "page" => m <= walk.total + arrivals
    BY <1>1, <1>10 DEF WalkInv
  <2>3. QED
    BY <1>1, <1>10, <1>11, <2>1, <2>2
<1>14. QED
  BY <1>12, <1>13 DEF WalkInv

\* What a commit does to a row.
LEMMA BecomesStep ==
    ASSUME WalkInv, ListingShape', walk.at # "done", NEW k \in Ids, NEW status,
           Becomes(k, status), UNCHANGED createdAt
    PROVE  WalkInv'
<1>0. ListingShape
  BY DEF WalkInv
<1>1. /\ row' = [row EXCEPT ![k] = status] /\ row \in [Ids -> Places]
      /\ UNCHANGED <<moment, walk, listed>>
  BY <1>0 DEF Becomes, ListingShape
<1>2. \A j \in Ids : row'[j] = IF j = k THEN status ELSE row[j]
  BY <1>1
<1>3. CASE walk.at = "idle"
  <2>1. NotBegun'
    BY <1>1, <1>3 DEF WalkInv, NotBegun, Becomes
  <2>2. QED
    BY <1>1, <1>3, <2>1 DEF WalkInv
<1>4. CASE walk.at \in {"count", "page"}
  <2>0. stayed \subseteq Matching
    BY <1>4 DEF WalkInv, Bounded
  <2>1. CASE Matches(status) <=> Matches(row[k])
    <3>1. Matching' = Matching
      BY <1>2, <2>1 DEF Matching, Matches
    <3>2. stayed' = stayed
      BY <2>0, <2>1 DEF Becomes, Matching
    <3>3. arrivals' = arrivals /\ departures' = departures
      BY <1>0, <2>1 DEF Becomes, ListingShape
    <3>4. QED
      BY <1>1, <3>1, <3>2, <3>3, StillStep DEF history
  <2>2. CASE Matches(status) /\ ~Matches(row[k])
    <3>1. Matching' = Matching \union {k} /\ k \in Ids \ Matching
      BY <1>2, <2>2 DEF Matching, Matches
    <3>2. stayed' = stayed /\ arrivals' = arrivals + 1 /\ departures' = departures
      BY <1>0, <1>4, <2>2 DEF Becomes, ListingShape
    <3>3. QED
      BY <1>1, <1>4, <3>1, <3>2, ArrivalStep
  <2>3. CASE ~Matches(status) /\ Matches(row[k])
    <3>1. Matching' = Matching \ {k} /\ k \in Matching
      BY <1>2, <2>3 DEF Matching, Matches
    <3>2. stayed' = stayed \ {k} /\ arrivals' = arrivals /\ departures' = departures + 1
      BY <1>0, <1>4, <2>3 DEF Becomes, ListingShape
    <3>3. QED
      BY <1>1, <1>4, <3>1, <3>2, DepartureStep
  <2>4. QED
    BY <2>1, <2>2, <2>3
<1>5. QED
  BY <1>0, <1>3, <1>4 DEF ListingShape

LEMMA JobStepKeeps ==
    ASSUME WalkInv, ListingShape', walk.at # "done", NEW k \in Ids, JobStep(k)
    PROVE  WalkInv'
<1>1. CASE Flush(k)
  <2>1. row \in [Ids -> Places] /\ createdAt \in [Ids -> Nat] /\ Wanted \subseteq Statuses
    BY ListingAssumption DEF WalkInv, ListingShape
  <2>2. ~Matches("absent") /\ ~Matches("flushed")
    BY <2>1 DEF Matches, Statuses
  <2>3. \A j \in Ids : j # k => row'[j] = row[j] /\ createdAt'[j] = createdAt[j]
    BY <1>1, <2>1 DEF Flush
  <2>4. row[k] = "absent" /\ row'[k] = "flushed"
    BY <1>1, <2>1 DEF Flush
  <2>5. Matching' = Matching /\ \A j \in Matching : createdAt'[j] = createdAt[j]
    BY <2>2, <2>3, <2>4 DEF Matching, Matches
  <2>6. QED
    BY <1>1, <2>5, StillStep DEF Flush
<1>2. CASE CommitJob(k)
  BY <1>2, BecomesStep DEF CommitJob
<1>3. CASE Transition(k)
  BY <1>3, BecomesStep DEF Transition
<1>4. CASE Delete(k)
  BY <1>4, BecomesStep DEF Delete
<1>5. QED
  BY <1>1, <1>2, <1>3, <1>4 DEF JobStep

-----------------------------------------------------------------------------
(* What the client does.                                                   *)

LEMMA BeginStep ==
    ASSUME WalkInv, ListingShape', BeginWalk
    PROVE  WalkInv'
<1>1. /\ ListingShape /\ NotBegun /\ walk'.at = "count" /\ walk'.page = 1
      /\ UNCHANGED <<row, createdAt, listed, arrivals, departures>> /\ stayed' = Matching
  BY DEF WalkInv, ListingShape, NotBegun, BeginWalk
<1>2. Repeats' = 0 /\ arrivals' = 0 /\ departures' = 0
  BY <1>1, RepeatsIsNumber DEF Repeats, NotBegun
<1>3. Again' = {}
  <2>1. Matching' = Matching
    BY <1>1 DEF Matching
  <2>2. \A j \in Matching : listed'[j] = 0
    BY <1>1 DEF NotBegun, Matching
  <2>3. QED
    BY <2>1, <2>2 DEF Again
<1>4. Skipped' = {}
  <2>1. Line' = 0
    BY <1>1, LineIsNumber DEF Line
  <2>2. \A j : Rank(j)' = Rank(j) /\ Rank(j) \in Nat
    BY <1>1, MatchingIs DEF Rank, Matching, Before
  <2>3. QED
    BY <2>1, <2>2 DEF Skipped
<1>5. stayed' \subseteq Matching'
  BY <1>1 DEF Matching
<1>6. QED
  BY <1>1, <1>2, <1>3, <1>4, <1>5, FS_EmptySet DEF WalkInv, Bounded

LEMMA CountStep ==
    ASSUME WalkInv, ListingShape', Count
    PROVE  WalkInv'
<1>1. /\ ListingShape /\ Bounded /\ walk'.at = "page" /\ walk'.page = walk.page
      /\ walk'.total = Cardinality(Matching)
      /\ UNCHANGED <<moment, row, createdAt, listed, stayed, arrivals, departures>>
  BY DEF WalkInv, ListingShape, Count, history
<1>2. /\ Matching' = Matching /\ Line' = Line /\ Repeats' = Repeats
      /\ \A j : Rank(j)' = Rank(j)
  BY <1>1 DEF Matching, Line, Offset, Repeats, Rank, Before
<1>3. Again' = Again /\ Skipped' = Skipped
  BY <1>1, <1>2 DEF Again, Skipped
<1>4. Bounded'
  BY <1>1, <1>2, <1>3 DEF Bounded
<1>5. Cardinality(Matching') <= walk'.total + arrivals'
  <2>1. PICK m \in Nat : m = Cardinality(Matching) /\ arrivals \in Nat
    BY <1>1, MatchingIs DEF ListingShape
  <2>2. m <= m + arrivals
    BY <2>1
  <2>3. QED
    BY <1>1, <1>2, <2>1, <2>2
<1>6. QED
  BY <1>1, <1>4, <1>5 DEF WalkInv

\* A page shows again what was in front of the line, and moves the line past itself.
LEMMA PageShows ==
    ASSUME WalkInv, ListingShape', Page
    PROVE  LET next == Offset(walk.page + 1)
           IN /\ Repeats' + Cardinality({j \in Matching : listed'[j] >= 1 /\ Rank(j) >= next})
                   <= arrivals
              /\ Repeats' \in Nat
              /\ {j \in stayed : listed'[j] = 0 /\ Rank(j) < next} \in SUBSET Skipped
<1>0. ListingShape /\ Bounded /\ walk.page \in Nat \ {0}
  BY DEF WalkInv, ListingShape, Page
<1>1. PICK n, p \in Nat : n = Line /\ p = Offset(walk.page + 1) /\ p = n + PageSize
  BY <1>0, LineIsNumber DEF Line
<1>2. \A j : Rank(j) \in Nat /\ Matching \in SUBSET Ids
  BY <1>0, MatchingIs
<1>3. \A j \in Matching : j \in Items(walk.page) <=> n <= Rank(j) /\ Rank(j) < p
  <2>1. PageSize \in Nat \ {0}
    BY ListingAssumption
  <2>2. ASSUME NEW r \in Nat  PROVE r \in n .. n + PageSize - 1 <=> n <= r /\ r < p
    BY <1>1, <2>1
  <2>3. QED
    BY <1>1, <1>2, <2>2 DEF Items, Line
<1>4. \A j \in Ids : /\ listed[j] \in Nat
                      /\ listed'[j] = listed[j] + IF j \in Items(walk.page) THEN 1 ELSE 0
  BY <1>0 DEF Page, ListingShape
<1>5. PICK G : G = {j \in Items(walk.page) : listed[j] >= 1}
  OBVIOUS
<1>6. PICK A, B : A = Again /\ B = {j \in Matching : listed'[j] >= 1 /\ Rank(j) >= p}
  OBVIOUS
<1>7. G \in SUBSET A /\ G \in SUBSET Ids /\ B \in SUBSET (A \ G)
  <2>1. ASSUME NEW j \in G  PROVE j \in A /\ j \in Ids
    <3>1. j \in Items(walk.page) /\ j \in Matching /\ listed[j] >= 1
      BY <1>5 DEF Items
    <3>2. Rank(j) >= n
      BY <1>1, <1>2, <1>3, <3>1
    <3>3. QED
      BY <1>1, <1>2, <1>6, <3>1, <3>2 DEF Again
  <2>2. ASSUME NEW j \in B  PROVE j \in A /\ j \notin G
    <3>1. j \in Matching /\ j \in Ids /\ listed'[j] >= 1 /\ Rank(j) >= p /\ Rank(j) \in Nat
      BY <1>2, <1>6
    <3>2. j \notin Items(walk.page)
      BY <1>1, <1>3, <3>1
    <3>3. listed[j] >= 1 /\ Rank(j) >= n
      <4>1. listed[j] >= 1
        BY <1>4, <3>1, <3>2
      <4>2. PageSize \in Nat
        BY ListingAssumption
      <4>3. QED
        BY <1>1, <3>1, <4>1, <4>2
    <3>4. QED
      BY <1>1, <1>5, <1>6, <3>1, <3>2, <3>3 DEF Again
  <2>3. QED
    BY <2>1, <2>2
<1>8. Repeats' = Repeats + Cardinality(G)
  <2>1. PICK f, g : /\ f = [j \in Ids |-> IF listed[j] > 1 THEN listed[j] - 1 ELSE 0]
                    /\ g = [j \in Ids |-> IF listed'[j] > 1 THEN listed'[j] - 1 ELSE 0]
    OBVIOUS
  <2>2. f \in [Ids -> Nat] /\ g \in [Ids -> Nat]
    BY <1>0, <2>1 DEF ListingShape
  <2>3. ASSUME NEW j \in Ids  PROVE g[j] = f[j] + IF j \in G THEN 1 ELSE 0
    BY <1>4, <1>5, <2>1
  <2>4. IsFiniteSet(Ids)
    BY ListingAssumption
  <2>5. SumFunction(g) = SumFunction(f) + Cardinality(G)
    BY <1>7, <2>2, <2>3, <2>4, SumGrows
  <2>6. QED
    BY <2>1, <2>5 DEF Repeats
<1>9. PICK a, b, g, d \in Nat : /\ a = Cardinality(A) /\ b = Cardinality(B) /\ g = Cardinality(G)
                                /\ d = Cardinality(A \ G) /\ b <= d /\ d = a - g
  <2>1. IsFiniteSet(A) /\ IsFiniteSet(A \ G)
    BY <1>0, <1>6, SetsAreFinite, FS_Difference
  <2>2. /\ Cardinality(A) \in Nat /\ Cardinality(G) \in Nat
    BY <1>7, <2>1, FewerElements
  <2>3. /\ Cardinality(B) \in Nat /\ Cardinality(A \ G) \in Nat
        /\ Cardinality(B) <= Cardinality(A \ G)
    BY <1>7, <2>1, FewerElements
  <2>4. Cardinality(A \ G) = Cardinality(A) - Cardinality(G)
    <3>1. A \cap G = G
      BY <1>7
    <3>2. Cardinality(A \ G) = Cardinality(A) - Cardinality(A \cap G)
      BY <2>1, FS_Difference
    <3>3. QED
      BY <3>1, <3>2
  <2>5. QED
    BY <2>2, <2>3, <2>4
<1>10. PICK s \in Nat : s = Repeats /\ s + a <= arrivals /\ arrivals \in Nat
  BY <1>0, <1>6, <1>9, RepeatsIsNumber DEF Bounded, ListingShape
<1>11. Repeats' = s + g /\ (s + g) + b <= arrivals
  BY <1>8, <1>9, <1>10
<1>12. {j \in stayed : listed'[j] = 0 /\ Rank(j) < p} \in SUBSET Skipped
  <2>1. ASSUME NEW j \in stayed, listed'[j] = 0, Rank(j) < p  PROVE j \in Skipped
    <3>1. j \in Matching /\ j \in Ids /\ Rank(j) \in Nat
      BY <1>0, <1>2 DEF Bounded
    <3>2. j \notin Items(walk.page) /\ listed[j] = 0
      BY <1>4, <2>1, <3>1
    <3>3. Rank(j) < n
      BY <1>1, <1>3, <2>1, <3>1, <3>2
    <3>4. QED
      BY <1>1, <3>2, <3>3 DEF Skipped
  <2>2. QED
    BY <2>1
<1>13. /\ Repeats' + Cardinality({j \in Matching : listed'[j] >= 1 /\ Rank(j) >= p}) <= arrivals
       /\ Repeats' \in Nat
  <2>1. Repeats' + Cardinality(B) <= arrivals /\ Repeats' \in Nat
    BY <1>9, <1>10, <1>11
  <2>2. QED
    BY <1>6, <2>1
<1>14. QED
  BY <1>1, <1>12, <1>13

LEMMA PageStep ==
    ASSUME WalkInv, ListingShape', Page
    PROVE  WalkInv'
<1>0. /\ ListingShape /\ Bounded /\ walk.page \in Nat \ {0} /\ walk.total \in Nat
      /\ arrivals \in Nat /\ departures \in Nat
      /\ UNCHANGED <<moment, row, createdAt, stayed, arrivals, departures>>
      /\ Cardinality(Matching) <= walk.total + arrivals
  BY DEF WalkInv, ListingShape, Page
<1>1. PICK p \in Nat : p = Offset(walk.page + 1) /\ p = walk.page * PageSize
  BY <1>0, LineIsNumber
<1>2. PICK B, R : /\ B = {j \in Matching : listed'[j] >= 1 /\ Rank(j) >= p}
                  /\ R = {j \in stayed : listed'[j] = 0 /\ Rank(j) < p}
  OBVIOUS
<1>3. Repeats' + Cardinality(B) <= arrivals /\ Repeats' \in Nat /\ R \in SUBSET Skipped
  BY <1>1, <1>2, PageShows
<1>4. IsFiniteSet(B) /\ IsFiniteSet(R) /\ Cardinality(B) \in Nat /\ Cardinality(R) \in Nat
      /\ Cardinality(R) <= departures
  <2>1. IsFiniteSet(Skipped) /\ Cardinality(Skipped) <= departures /\ Cardinality(Skipped) \in Nat
    BY <1>0, SetsAreFinite DEF Bounded
  <2>2. /\ Cardinality(R) \in Nat /\ Cardinality(R) <= Cardinality(Skipped) /\ IsFiniteSet(R)
    BY <1>3, <2>1, FewerElements, FS_Subset
  <2>3. IsFiniteSet(Matching) /\ B \in SUBSET Matching
    BY <1>0, <1>2, MatchingIs
  <2>4. IsFiniteSet(B) /\ Cardinality(B) \in Nat
    BY <2>3, FewerElements, FS_Subset
  <2>5. QED
    BY <1>0, <2>1, <2>2, <2>4
<1>5. Matching' = Matching /\ \A j : Rank(j)' = Rank(j) /\ Rank(j) \in Nat
  BY <1>0, MatchingIs DEF Matching, Rank, Before
<1>6. CASE HasNext(walk.page, walk.total)
  <2>1. walk'.at = "count" /\ walk'.page = walk.page + 1
    BY <1>0, <1>6 DEF Page, ListingShape
  <2>2. Line' = p
    BY <1>1, <2>1 DEF Line, Offset
  <2>3. Again' = B /\ Skipped' = R
    BY <1>0, <1>2, <1>5, <2>2 DEF Again, Skipped
  <2>4. Bounded'
    BY <1>0, <1>3, <1>4, <1>5, <2>3 DEF Bounded
  <2>5. QED
    BY <2>1, <2>4 DEF WalkInv
<1>7. CASE ~HasNext(walk.page, walk.total)
  <2>1. walk'.at = "done"
    BY <1>0, <1>7 DEF Page, ListingShape
  <2>2. Repeats' <= arrivals'
    <3>1. PICK s, b \in Nat : s = Repeats' /\ b = Cardinality(B) /\ s + b <= arrivals
      BY <1>3, <1>4
    <3>2. s <= arrivals
      BY <1>0, <3>1
    <3>3. QED
      BY <1>0, <3>1, <3>2
  <2>3. walk.total <= p
    BY <1>0, <1>1, <1>7 DEF HasNext
  <2>4. PICK T, M, c : /\ T = {j \in M : Place(M, c, j) >= p} /\ M = Matching /\ c = createdAt
    OBVIOUS
  <2>5. M \in SUBSET Ids /\ c \in [Ids -> Nat] /\ IsFiniteSet(T)
        /\ \A j : Rank(j) = Place(M, c, j)
    <3>1. M \in SUBSET Ids /\ c \in [Ids -> Nat] /\ IsFiniteSet(M) /\ T \in SUBSET M
          /\ \A j : Rank(j) = Place(M, c, j)
      BY <1>0, <2>4, MatchingIs DEF ListingShape
    <3>2. QED
      BY <3>1, FS_Subset
  <2>6. PICK t \in Nat : t = Cardinality(T) /\ t <= arrivals
    <3>1. CASE T = {}
      BY <1>0, <3>1, FS_EmptySet
    <3>2. CASE T # {}
      <4>1. PICK m, s \in Nat : m = Cardinality(T) /\ s = Cardinality(M) /\ m + p <= s
        BY <2>4, <2>5, <3>2, BehindTheLine
      <4>2. s <= walk.total + arrivals
        BY <1>0, <2>4, <4>1
      <4>3. m <= arrivals
        BY <1>0, <2>3, <4>1, <4>2
      <4>4. QED
        BY <4>1, <4>3
    <3>3. QED
      BY <3>1, <3>2
  <2>7. Missed' \in SUBSET (R \union T)
    <3>1. ASSUME NEW j \in stayed, listed'[j] = 0, ~(Rank(j) < p)  PROVE j \in T
      <4>1. j \in M /\ Place(M, c, j) >= p
        BY <1>0, <1>1, <1>5, <2>4, <2>5, <3>1 DEF Bounded
      <4>2. QED
        BY <2>4, <4>1
    <3>2. Missed' = {j \in stayed : listed'[j] = 0}
      BY <1>0 DEF Missed
    <3>3. QED
      BY <1>2, <3>1, <3>2
  <2>8. Cardinality(Missed') <= arrivals + departures
    <3>1. PICK U : U = R \union T
      OBVIOUS
    <3>2. /\ IsFiniteSet(U)
          /\ Cardinality(U) = Cardinality(R) + Cardinality(T) - Cardinality(R \cap T)
      BY <1>4, <2>5, <3>1, FS_Union
    <3>3. Cardinality(R \cap T) \in Nat
      <4>1. R \cap T \in SUBSET R
        OBVIOUS
      <4>2. QED
        BY <1>4, <4>1, FewerElements
    <3>4. Cardinality(Missed') \in Nat /\ Cardinality(U) \in Nat
          /\ Cardinality(Missed') <= Cardinality(U)
      BY <2>7, <3>1, <3>2, FewerElements
    <3>5. PICK r, i, u, m \in Nat : /\ r = Cardinality(R) /\ i = Cardinality(R \cap T)
                                    /\ u = Cardinality(U) /\ m = Cardinality(Missed')
      BY <1>4, <3>3, <3>4
    <3>6. u = r + t - i /\ m <= u /\ r <= departures /\ t <= arrivals
      BY <1>4, <2>6, <3>2, <3>4, <3>5
    <3>7. m <= arrivals + departures
      BY <1>0, <2>6, <3>5, <3>6
    <3>8. QED
      BY <3>5, <3>7
  <2>9. QED
    BY <1>0, <2>1, <2>2, <2>8 DEF WalkInv
<1>8. QED
  BY <1>6, <1>7

-----------------------------------------------------------------------------
(* The theorems.                                                           *)

LEMMA ShapeStep ==
    ASSUME ListingShape, [ListingNext]_listingVars
    PROVE  ListingShape'
<1>1. CASE UNCHANGED listingVars
  BY <1>1 DEF ListingShape, listingVars, history
<1>2. CASE BeginWalk
  BY <1>2, MatchingIs DEF BeginWalk, ListingShape
<1>3. CASE Count
  BY <1>3, MatchingIs DEF Count, ListingShape, history
<1>4. CASE Page
  <2>1. \A j \in Ids : listed[j] + (IF j \in Items(walk.page) THEN 1 ELSE 0) \in Nat
    BY DEF ListingShape
  <2>2. listed' \in [Ids -> Nat]
    BY <1>4, <2>1 DEF Page
  <2>3. walk' \in [at : {"count", "done"}, page : Nat \ {0}, total : Nat]
    <3>1. PICK r : r = walk /\ r \in [at : {"idle", "count", "page", "done"}, page : Nat \ {0}, total : Nat]
      BY DEF ListingShape
    <3>2. /\ r = [at |-> r.at, page |-> r.page, total |-> r.total]
          /\ r.page \in Nat \ {0} /\ r.page + 1 \in Nat \ {0} /\ r.total \in Nat
      BY <3>1
    <3>3. \/ walk' = [at |-> "count", page |-> r.page + 1, total |-> r.total]
          \/ walk' = [at |-> "done", page |-> r.page, total |-> r.total]
      BY <1>4, <3>1, <3>2 DEF Page
    <3>4. QED
      BY <3>2, <3>3
  <2>4. QED
    BY <1>4, <2>2, <2>3 DEF Page, ListingShape
<1>5. CASE ClockTicks
  BY <1>5 DEF ClockTicks, ListingShape, history
<1>6. ASSUME NEW k \in Ids, Flush(k)  PROVE ListingShape'
  BY <1>6 DEF Flush, ListingShape, history, Places
<1>7. ASSUME NEW k \in Ids, NEW status \in Places, Becomes(k, status), UNCHANGED createdAt
      PROVE  ListingShape'
  BY <1>7 DEF Becomes, ListingShape
<1>8. ASSUME NEW k \in Ids, CommitJob(k) \/ Transition(k) \/ Delete(k)  PROVE ListingShape'
  BY <1>7, <1>8 DEF CommitJob, Transition, Delete, Places, Statuses
<1>9. QED
  BY <1>1, <1>2, <1>3, <1>4, <1>5, <1>6, <1>8 DEF ListingNext, ClientStep, JobStep

LEMMA WalkInvariance ==
    ListingSpec => []WalkInv
<1>1. ListingInit => WalkInv
  BY DEF ListingInit, WalkInv, ListingShape, NotBegun, Places, Statuses
<1>2. ASSUME WalkInv, [ListingNext]_listingVars  PROVE WalkInv'
  <2>1. ListingShape'
    BY <1>2, ShapeStep DEF WalkInv
  <2>2. CASE UNCHANGED listingVars \/ ClockTicks
    <3>1. UNCHANGED <<row, createdAt, walk, history>>
      BY <2>2 DEF listingVars, ClockTicks
    <3>2. Matching' = Matching
      BY <3>1 DEF Matching
    <3>3. QED
      BY <1>2, <2>1, <3>1, <3>2, StillStep
  <2>3. CASE ClientStep
    BY <1>2, <2>1, <2>3, BeginStep, CountStep, PageStep DEF ClientStep
  <2>4. CASE walk.at # "done" /\ \E j \in Ids : JobStep(j)
    BY <1>2, <2>1, <2>4, JobStepKeeps
  <2>5. QED
    BY <1>2, <2>2, <2>3, <2>4 DEF ListingNext
<1>3. QED
  BY <1>1, <1>2, PTL DEF ListingSpec

\* A walk over the pages of list_simulations is shown a job again at most once for each
\* job that arrived meanwhile; jobs that go never cause a repeat.
THEOREM RepeatsAreArrivals == ListingSpec => []OnlyArrivalsRepeat
<1>1. ASSUME WalkInv  PROVE OnlyArrivalsRepeat
  <2>1. ListingShape /\ Repeats \in Nat /\ arrivals \in Nat
    BY <1>1, RepeatsIsNumber DEF WalkInv, ListingShape
  <2>2. CASE walk.at = "idle"
    BY <1>1, <2>1, <2>2, RepeatsIsNumber DEF WalkInv, NotBegun, OnlyArrivalsRepeat
  <2>3. CASE walk.at \in {"count", "page"}
    <3>1. PICK a, s \in Nat : a = Cardinality(Again) /\ s = Repeats
      BY <2>1, SetsAreFinite
    <3>2. s + a <= arrivals
      BY <1>1, <2>3, <3>1 DEF WalkInv, Bounded
    <3>3. QED
      BY <2>1, <3>1, <3>2 DEF OnlyArrivalsRepeat
  <2>4. CASE walk.at = "done"
    BY <1>1, <2>4 DEF WalkInv, OnlyArrivalsRepeat
  <2>5. QED
    BY <2>1, <2>2, <2>3, <2>4 DEF ListingShape
<1>2. QED
  BY <1>1, WalkInvariance, PTL

\* A walk that is over has missed at most one of the jobs that were there all the time
\* for each job that came or went.
THEOREM ChangesHideFew == ListingSpec => []EachChangeHidesOneJob
<1>1. WalkInv => EachChangeHidesOneJob
  BY DEF WalkInv, EachChangeHidesOneJob
<1>2. QED
  BY <1>1, WalkInvariance, PTL

=============================================================================
