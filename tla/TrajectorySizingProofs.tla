------------------------ MODULE TrajectorySizingProofs ------------------------
(***************************************************************************)
(* Proofs about the ChompTrajectory constructors, for every width of       *)
(* size_t and every point count, duration and discretization.             *)
(***************************************************************************)
EXTENDS TrajectorySizing, TLAPS

\* What the proofs assume of the constants: size_t is at least one bit wide
\* (it holds 0 and 1), the point counts passed in are size_t values, the
\* durations are whole time units and a discretization is positive.
SizingHypothesis ==
  /\ SizeBits \in Nat \ {0} /\ 2 ^ SizeBits \in Nat \ {0, 1}
  /\ PointCounts \subseteq 0 .. 2 ^ SizeBits - 1
  /\ Durations \subseteq Nat /\ Discretizations \subseteq Nat \ {0}

\* Once a constructor has run, end_index_ lies inside the buffer exactly
\* when the buffer has at least two points.
FreeRangeExactlyWhenTwoPoints ==
  built => (endIndex <= numPoints - 1 <=> numPoints >= 2)

\* The inductive invariant: num_points_ is a size_t value, and once a
\* constructor has run, end_index_ is num_points_ - 2 taken on size_t.
SizingInv ==
  /\ numPoints \in 0 .. 2 ^ SizeBits - 1
  /\ built => endIndex = SizeT(numPoints - 2)

\* Unsigned subtraction on size_t: the result is a size_t value, a value
\* already in range is kept, and one below zero wraps by the modulus.
LEMMA SizeTFacts ==
  ASSUME SizingHypothesis, NEW x \in Int
  PROVE  /\ SizeT(x) \in 0 .. 2 ^ SizeBits - 1
         /\ x \in 0 .. 2 ^ SizeBits - 1 => SizeT(x) = x
         /\ x \in -(2 ^ SizeBits) .. -1 => SizeT(x) = x + 2 ^ SizeBits
<1> DEFINE W == 2 ^ SizeBits
<1>1. W \in Nat /\ W >= 2
  BY DEF SizingHypothesis
<1> HIDE DEF W
<1> QED
  BY <1>1 DEF SizeT, W

LEMMA SizingInvInit ==
  ASSUME SizingHypothesis PROVE Init => SizingInv
  BY DEF SizingHypothesis, Init, SizingInv

\* Both constructors keep SizingInv: the point-count constructor takes a
\* size_t argument, and the duration constructor's count is itself cast to
\* size_t; end_index_ is then computed from it.
LEMMA SizingInvStep ==
  ASSUME SizingHypothesis PROVE SizingInv /\ [Next]_vars => SizingInv'
<1> SUFFICES ASSUME SizingInv, [Next]_vars PROVE SizingInv'
  OBVIOUS
<1>1. ASSUME NEW n \in 0 .. 2 ^ SizeBits - 1, ConstructFromPoints(n)
      PROVE  SizingInv'
  <2>1. n - 2 \in Int
    BY DEF SizingHypothesis
  <2> QED
    BY <1>1, <2>1, SizeTFacts DEF ConstructFromPoints, SizingInv
<1>2. CASE \E n \in PointCounts : ConstructFromPoints(n)
  BY <1>1, <1>2 DEF SizingHypothesis
<1>3. CASE \E d \in Durations, disc \in Discretizations : ConstructFromDuration(d, disc)
  <2>1. PICK d \in Durations, disc \in Discretizations : ConstructFromDuration(d, disc)
    BY <1>3
  <2>2. d \div disc + 1 \in Int
    BY DEF SizingHypothesis
  <2>3. SizeT(d \div disc + 1) \in 0 .. 2 ^ SizeBits - 1
    BY <2>2, SizeTFacts
  <2> QED
    BY <1>1, <2>1, <2>3 DEF ConstructFromDuration
<1>4. CASE UNCHANGED vars
  BY <1>4 DEF vars, SizingInv
<1> QED
  BY <1>2, <1>3, <1>4 DEF Next

\* SizingInv implies the exact condition: for a buffer of two or more
\* points end_index_ = num_points_ - 2 without wrapping; for 0 or 1 points
\* it wraps to 2^w - 2 or 2^w - 1, past the last row.
LEMMA SizingInvExact ==
  ASSUME SizingHypothesis PROVE SizingInv => FreeRangeExactlyWhenTwoPoints
<1> SUFFICES ASSUME SizingInv, built
             PROVE  endIndex <= numPoints - 1 <=> numPoints >= 2
  BY DEF FreeRangeExactlyWhenTwoPoints
<1>1. numPoints \in 0 .. 2 ^ SizeBits - 1 /\ endIndex = SizeT(numPoints - 2)
  BY DEF SizingInv
<1>2. 2 ^ SizeBits \in Nat /\ 2 ^ SizeBits >= 2
  BY DEF SizingHypothesis
<1>3. CASE numPoints >= 2
  <2>1. numPoints - 2 \in 0 .. 2 ^ SizeBits - 1
    BY <1>1, <1>2, <1>3
  <2> QED
    BY <1>1, <1>3, <2>1, SizeTFacts
<1>4. CASE numPoints < 2
  <2>1. numPoints - 2 \in -(2 ^ SizeBits) .. -1
    BY <1>1, <1>2, <1>4
  <2>2. endIndex = numPoints - 2 + 2 ^ SizeBits
    BY <1>1, <2>1, SizeTFacts
  <2> QED
    BY <1>1, <1>2, <1>4, <2>2
<1> QED
  BY <1>1, <1>3, <1>4

(***************************************************************************)
(* For every width of size_t, the ChompTrajectory constructors put         *)
(* end_index_ inside the buffer exactly when it has at least two points:   *)
(* the wrap of num_points_ - 2 is the only way the free range can leave it.*)
(***************************************************************************)
THEOREM FreeRangeExactThm ==
  ASSUME SizingHypothesis PROVE Spec => []FreeRangeExactlyWhenTwoPoints
<1>1. Init => SizingInv
  BY SizingInvInit
<1>2. SizingInv /\ [Next]_vars => SizingInv'
  BY SizingInvStep
<1>3. SizingInv => FreeRangeExactlyWhenTwoPoints
  BY SizingInvExact
<1> QED
  BY <1>1, <1>2, <1>3, PTL DEF Spec

(***************************************************************************)
(* The duration constructor, called with a duration shorter than one       *)
(* discretization, builds a one-point buffer whose end_index_ is the       *)
(* largest size_t value: the wrap happens at every width of size_t.        *)
(***************************************************************************)
THEOREM ShortDurationWraps ==
  ASSUME SizingHypothesis, NEW d \in Nat, NEW disc \in Nat \ {0}, d < disc,
         ConstructFromDuration(d, disc)
  PROVE  numPoints' = 1 /\ endIndex' = 2 ^ SizeBits - 1
<1>1. d \div disc = 0
  OBVIOUS
<1>2. SizeT(d \div disc + 1) = 1
  <2>1. 1 \in 0 .. 2 ^ SizeBits - 1
    BY DEF SizingHypothesis
  <2> QED
    BY <1>1, <2>1, SizeTFacts
<1>3. SizeT(1 - 2) = 2 ^ SizeBits - 1
  <2>1. 1 - 2 \in -(2 ^ SizeBits) .. -1
    BY DEF SizingHypothesis
  <2>2. SizeT(1 - 2) = (1 - 2) + 2 ^ SizeBits
    BY <2>1, SizeTFacts
  <2> QED
    BY <2>2 DEF SizingHypothesis
<1> QED
  BY <1>2, <1>3 DEF ConstructFromDuration, ConstructFromPoints

=============================================================================
