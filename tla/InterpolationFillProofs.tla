----------------------- MODULE InterpolationFillProofs -----------------------
(***************************************************************************)
(* Facts about the filler formulas of InterpolationFill for every buffer   *)
(* size and every pair of boundary values.                                 *)
(***************************************************************************)
EXTENDS InterpolationFill, TLAPS

\* LinearStall: fillInLinearInterpolation writes the goal value itself into
\* row N-2, the last interior row, so the step from row N-2 to the goal row
\* N-1 stands still for every buffer of at least three points.
THEOREM LinearStall ==
  ASSUME n \in Nat, n >= 3, NEW x0 \in Int, NEW x1 \in Int
  PROVE  Cmp(LinearValue(x0, x1, Last - 1), Q(x1, 1)) = 0
<1>1. Last - 1 = n - 2
  BY DEF Last
<1>2. (x0 * (n - 2) + (n - 2) * (x1 - x0)) * 1 - x1 * (n - 2) = 0
  OBVIOUS
<1> QED BY <1>1, <1>2 DEF LinearValue, Cmp, Q

\* CubicStall: fillInCubicInterpolation, timed over end_index - 1 steps,
\* also reaches the goal value at row N-2.
THEOREM CubicStall ==
  ASSUME n \in Nat, n >= 3, NEW x0 \in Int, NEW x1 \in Int
  PROVE  Cmp(CubicValue(x0, x1, Last - 1), Q(x1, 1)) = 0
<1> DEFINE T == n - 2
<1>1. Last - 1 = T
  BY DEF Last
<1>3. (x0 * (T * T * T) + (x1 - x0) * (3 * (T * T) * T - 2 * (T * T * T))) * 1
        - x1 * (T * T * T) = 0
  OBVIOUS
<1> QED BY <1>1, <1>3 DEF CubicValue, Cmp, Q

\* MinJerkBoundaries: the quintic of fillInMinJerk takes the start value at
\* start_index and the goal value at end_index (spec section 8), for every
\* buffer of at least two points.
THEOREM MinJerkBoundaries ==
  ASSUME n \in Nat, n >= 2, NEW x0 \in Int, NEW x1 \in Int
  PROVE  /\ Cmp(MinJerkValue(x0, x1, First), Q(x0, 1)) = 0
         /\ Cmp(MinJerkValue(x0, x1, Last), Q(x1, 1)) = 0
<1> DEFINE D == n - 1
<1>1. First = 0 /\ Last - First = D
  BY DEF First, Last
<1>3. (x0 * ((D * D) * (D * D) * D) + (x1 - x0) * (10 * (0 * 0 * 0) * (D * D)
         - 15 * ((0 * 0 * 0) * 0) * D + 6 * ((0 * 0 * 0) * 0 * 0))) * 1
        - x0 * ((D * D) * (D * D) * D) = 0
  OBVIOUS
<1>4. (x0 * ((D * D) * (D * D) * D)
         + (x1 - x0) * (10 * (D * D * D) * (D * D) - 15 * ((D * D * D) * D) * D
                        + 6 * ((D * D * D) * D * D))) * 1
        - x1 * ((D * D) * (D * D) * D) = 0
  OBVIOUS
<1> QED BY <1>1, <1>3, <1>4 DEF MinJerkValue, Quintic, Cmp, Q

-----------------------------------------------------------------------------
(***************************************************************************)
(* Monotonicity of a filled column.  Each row is written as               *)
(* x0 + (x1 - x0) f / g; the sign of a step is then that of               *)
(* (x1 - x0) * (f' g - f g'), and the fillers differ only in f and g.      *)
(***************************************************************************)

\* The polynomial part of the quintic, 10 k^3 D^2 - 15 k^4 D + 6 k^5.
QP(k, D) == 10 * (k * k * k) * (D * D) - 15 * ((k * k * k) * k) * D + 6 * ((k * k * k) * k * k)

\* The quintic timed over D steps rises by at least one unit (of 1 / D^5)
\* from step k to step k + 1: with m = D - k - 1 the difference is a
\* polynomial in k and m with positive coefficients and constant term 1.
LEMMA QuinticStep ==
  ASSUME NEW D \in Nat, NEW k \in Nat, k + 1 <= D
  PROVE  QP(k + 1, D) - QP(k, D) >= 1
<1> DEFINE m == D - k - 1
<1>1. m \in Nat
  OBVIOUS
<1>2. QP(k + 1, D) - QP(k, D)
        = 1 + 5 * m + 10 * (m * m) + 5 * k + 20 * (k * m) + 30 * (k * (m * m))
          + 10 * (k * k) + 30 * ((k * k) * m) + 30 * ((k * k) * (m * m))
  BY DEF QP
<1>3. /\ m * m \in Nat /\ k * m \in Nat /\ k * k \in Nat
  BY <1>1
<1>4. /\ k * (m * m) \in Nat /\ (k * k) * m \in Nat /\ (k * k) * (m * m) \in Nat
  BY <1>1, <1>3
<1> QED BY <1>1, <1>2, <1>3, <1>4

\* The cubic numerator 3 j^2 T - 2 j^3 does not decrease from j to j + 1
\* while j + 1 <= T: the difference is 6 j (T - j - 1) + 3 T - 2.
LEMMA CubicStep ==
  ASSUME NEW T \in Nat, T >= 1, NEW j \in Nat, j + 1 <= T
  PROVE  (3 * ((j + 1) * (j + 1)) * T - 2 * ((j + 1) * (j + 1) * (j + 1)))
           - (3 * (j * j) * T - 2 * (j * j * j)) >= 1
<1>1. (3 * ((j + 1) * (j + 1)) * T - 2 * ((j + 1) * (j + 1) * (j + 1)))
        - (3 * (j * j) * T - 2 * (j * j * j)) = 6 * (j * (T - j - 1)) + 3 * T - 2
  OBVIOUS
<1>2. j * (T - j - 1) \in Nat
  OBVIOUS
<1> QED BY <1>1, <1>2

\* A step of sign d * s, weighed by the direction d, is never negative
\* when s >= 0.
LEMMA SignNonneg ==
  ASSUME NEW d \in Int, NEW s \in Int, s >= 0
  PROVE  (d * s) * d >= 0
<1>1. d * d >= 0
  OBVIOUS
<1>2. (d * s) * d = (d * d) * s
  OBVIOUS
<1> QED BY <1>1, <1>2

\* ... and when s >= 1 it is strictly positive, or zero for d = 0.
LEMMA SignStrict ==
  ASSUME NEW d \in Int, NEW s \in Int, s >= 1
  PROVE  IF d = 0 THEN d * s = 0 ELSE (d * s) * d > 0
<1>1. d # 0 => d * d >= 1
  OBVIOUS
<1>2. (d * s) * d = (d * d) * s
  OBVIOUS
<1> QED BY <1>1, <1>2

\* A column whose boundary rows hold x0 and x1 and whose interior rows are
\* the values a filler writes.
ColumnOf(value(_, _, _), x0, x1) ==
  /\ rows[First] = Q(x0, 1)
  /\ rows[Last] = Q(x1, 1)
  /\ \A j \in 1 .. n - 2 : rows[j] = value(x0, x1, j)

\* The column fillInLinearInterpolation writes never steps away from the goal.
LEMMA LinearMonotone ==
  ASSUME n \in Nat, n >= 2, NEW x0 \in Int, NEW x1 \in Int,
         ColumnOf(LinearValue, x0, x1), NEW j \in 0 .. n - 2
  PROVE  Cmp(rows[j + 1], rows[j]) * (x1 - x0) >= 0
<1> DEFINE d == x1 - x0
           T == n - 2
<1>0. d \in Int /\ T \in Int /\ First = 0 /\ Last = n - 1
  BY DEF First, Last
<1>1. CASE n = 2
  <2>1. rows[j + 1] = Q(x1, 1) /\ rows[j] = Q(x0, 1)
    BY <1>1, <1>0 DEF ColumnOf
  <2>2. Cmp(rows[j + 1], rows[j]) = d * 1
    BY <1>1, <2>1 DEF Cmp, Q
  <2>3. (d * 1) * d >= 0
    BY <1>1, <1>0, SignNonneg
  <2> QED BY <2>2, <2>3
<1>2. CASE n >= 3 /\ j = 0
  <2>1. rows[j + 1] = Q(x0 * T + 1 * d, T) /\ rows[j] = Q(x0, 1)
    BY <1>2, <1>0 DEF ColumnOf, LinearValue
  <2>2. Cmp(rows[j + 1], rows[j]) = d * 1
    BY <1>2, <2>1 DEF Cmp, Q
  <2>3. (d * 1) * d >= 0
    BY <1>2, <1>0, SignNonneg
  <2> QED BY <2>2, <2>3
<1>3. CASE n >= 3 /\ 1 <= j /\ j + 1 <= n - 2
  <2>1. rows[j + 1] = Q(x0 * T + (j + 1) * d, T) /\ rows[j] = Q(x0 * T + j * d, T)
    BY <1>3, <1>0 DEF ColumnOf, LinearValue
  <2>2. Cmp(rows[j + 1], rows[j]) = d * T
    BY <1>3, <2>1 DEF Cmp, Q
  <2>3. T >= 0
    BY <1>3, <1>0
  <2>4. (d * T) * d >= 0
    BY <1>3, <1>0, <2>3, SignNonneg
  <2> QED BY <2>2, <2>4
<1>4. CASE n >= 3 /\ j = n - 2
  <2>1. rows[j + 1] = Q(x1, 1) /\ rows[j] = Q(x0 * T + T * d, T)
    BY <1>4, <1>0 DEF ColumnOf, LinearValue
  <2>2. Cmp(rows[j + 1], rows[j]) = d * 0
    BY <1>4, <2>1 DEF Cmp, Q
  <2>3. (d * 0) * d >= 0
    BY <1>4, <1>0, SignNonneg
  <2> QED BY <2>2, <2>3
<1> QED BY <1>1, <1>2, <1>3, <1>4

\* The column fillInCubicInterpolation writes never steps away from the goal.
LEMMA CubicMonotone ==
  ASSUME n \in Nat, n >= 2, NEW x0 \in Int, NEW x1 \in Int,
         ColumnOf(CubicValue, x0, x1), NEW j \in 0 .. n - 2
  PROVE  Cmp(rows[j + 1], rows[j]) * (x1 - x0) >= 0
<1> DEFINE d == x1 - x0
           T == n - 2
           G == T * T * T
           CF(i) == 3 * (i * i) * T - 2 * (i * i * i)
<1>0. d \in Int /\ T \in Int /\ G \in Int /\ First = 0 /\ Last = n - 1
      /\ \A i \in Int : CF(i) \in Int
  BY DEF First, Last
<1>1. CASE n = 2
  <2>1. rows[j + 1] = Q(x1, 1) /\ rows[j] = Q(x0, 1)
    BY <1>1, <1>0 DEF ColumnOf
  <2>2. Cmp(rows[j + 1], rows[j]) = d * 1
    BY <1>1, <2>1 DEF Cmp, Q
  <2>3. (d * 1) * d >= 0
    BY <1>1, <1>0, SignNonneg
  <2> QED BY <2>2, <2>3
<1>2. CASE n >= 3 /\ j = 0
  <2>1. rows[j + 1] = Q(x0 * G + d * CF(1), G) /\ rows[j] = Q(x0, 1)
    BY <1>2, <1>0 DEF ColumnOf, CubicValue
  <2>2. Cmp(rows[j + 1], rows[j]) = d * CF(1)
    BY <1>2, <1>0, <2>1 DEF Cmp, Q
  <2>3. CF(1) >= 0 /\ CF(1) \in Int
    BY <1>2, <1>0
  <2>4. (d * CF(1)) * d >= 0
    BY <1>2, <1>0, <2>3, SignNonneg
  <2> QED BY <2>2, <2>4
<1>3. CASE n >= 3 /\ 1 <= j /\ j + 1 <= n - 2
  <2>1. rows[j + 1] = Q(x0 * G + d * CF(j + 1), G) /\ rows[j] = Q(x0 * G + d * CF(j), G)
    BY <1>3, <1>0 DEF ColumnOf, CubicValue
  <2>2. Cmp(rows[j + 1], rows[j]) = d * ((CF(j + 1) - CF(j)) * G)
    BY <1>3, <1>0, <2>1 DEF Cmp, Q
  <2>3. CF(j + 1) - CF(j) >= 1
    BY <1>3, <1>0, CubicStep
  <2>4. G >= 1
    BY <1>3, <1>0
  <2>5. (CF(j + 1) - CF(j)) * G >= 0 /\ (CF(j + 1) - CF(j)) * G \in Int
    BY <1>3, <1>0, <2>3, <2>4
  <2>6. (d * ((CF(j + 1) - CF(j)) * G)) * d >= 0
    BY <1>3, <1>0, <2>3, <2>4, <2>5, SignNonneg
  <2> QED BY <2>2, <2>6
<1>4. CASE n >= 3 /\ j = n - 2
  <2>1. rows[j + 1] = Q(x1, 1) /\ rows[j] = Q(x0 * G + d * CF(T), G)
    BY <1>4, <1>0 DEF ColumnOf, CubicValue
  <2>2. Cmp(rows[j + 1], rows[j]) = d * (G - CF(T))
    BY <1>4, <1>0, <2>1 DEF Cmp, Q
  <2>3. G - CF(T) = 0
    BY <1>4, <1>0
  <2>4. (d * (G - CF(T))) * d >= 0
    BY <1>4, <1>0, <2>3, SignNonneg
  <2> QED BY <2>2, <2>4
<1> QED BY <1>1, <1>2, <1>3, <1>4

\* QP(k, D) is an integer.
LEMMA QPInt ==
  ASSUME NEW k \in Int, NEW D \in Int
  PROVE  QP(k, D) \in Int
  BY DEF QP

\* The value fillInMinJerk writes into row i, as x0 + (x1 - x0) QP(i, D) / D^5.
LEMMA MinJerkForm ==
  ASSUME n \in Nat, NEW x0 \in Int, NEW x1 \in Int, NEW i \in Int
  PROVE  MinJerkValue(x0, x1, i)
           = Q(x0 * (((n - 1) * (n - 1)) * ((n - 1) * (n - 1)) * (n - 1))
               + (x1 - x0) * QP(i, n - 1),
               ((n - 1) * (n - 1)) * ((n - 1) * (n - 1)) * (n - 1))
<1>1. Last - First = n - 1 /\ i - First = i
  BY DEF Last, First
<1> QED BY <1>1 DEF MinJerkValue, Quintic, QP

\* Every row of a column fillInMinJerk writes is a rational with integer
\* numerator and denominator, so comparing two of its rows gives an integer.
LEMMA MinJerkRowsInt ==
  ASSUME n \in Nat, n >= 2, NEW x0 \in Int, NEW x1 \in Int,
         ColumnOf(MinJerkValue, x0, x1), NEW j \in 0 .. n - 2
  PROVE  Cmp(rows[j + 1], rows[j]) \in Int
<1> DEFINE D == n - 1
           G == (D * D) * (D * D) * D
<1>0. G \in Int /\ \A i \in Int : QP(i, D) \in Int
  BY QPInt
<1>1. ASSUME NEW i \in 0 .. n - 1
      PROVE  rows[i].num \in Int /\ rows[i].den \in Int
  <2>1. CASE i = 0 \/ i = n - 1
    BY <2>1 DEF ColumnOf, Q, First, Last
  <2>2. CASE i \in 1 .. n - 2
    <3>1. rows[i] = MinJerkValue(x0, x1, i)
      BY <2>2 DEF ColumnOf
    <3>2. rows[i] = Q(x0 * G + (x1 - x0) * QP(i, D), G)
      BY <2>2, <3>1, MinJerkForm
    <3> QED
      BY <2>2, <1>0, <3>2 DEF Q
  <2> QED
    BY <2>1, <2>2
<1> QED
  BY <1>1 DEF Cmp

\* The column fillInMinJerk writes moves strictly towards the goal at every
\* step, or stays put when start and goal coincide.
LEMMA MinJerkProgress ==
  ASSUME n \in Nat, n >= 2, NEW x0 \in Int, NEW x1 \in Int,
         ColumnOf(MinJerkValue, x0, x1), NEW j \in 0 .. n - 2
  PROVE  IF x1 - x0 = 0 THEN Cmp(rows[j + 1], rows[j]) = 0
                        ELSE Cmp(rows[j + 1], rows[j]) * (x1 - x0) > 0
<1> DEFINE d == x1 - x0
           D == n - 1
           G == (D * D) * (D * D) * D
<1>0. d \in Int /\ D \in Nat /\ G \in Int /\ First = 0 /\ Last = n - 1
      /\ \A i \in Int : QP(i, D) \in Int
  BY QPInt DEF First, Last
<1>1. CASE n = 2
  <2>1. rows[j + 1] = Q(x1, 1) /\ rows[j] = Q(x0, 1)
    BY <1>1, <1>0 DEF ColumnOf
  <2>2. Cmp(rows[j + 1], rows[j]) = d * 1
    BY <1>1, <2>1 DEF Cmp, Q
  <2>3. IF d = 0 THEN d * 1 = 0 ELSE (d * 1) * d > 0
    BY <1>1, <1>0, SignStrict
  <2> QED BY <2>2, <2>3
<1>2. CASE n >= 3 /\ j = 0
  <2>0. rows[j + 1] = MinJerkValue(x0, x1, 1) /\ rows[j] = Q(x0, 1)
    BY <1>2, <1>0 DEF ColumnOf
  <2>1. rows[j + 1] = Q(x0 * G + d * QP(1, D), G) /\ rows[j] = Q(x0, 1)
    BY <1>2, <2>0, MinJerkForm
  <2>2. Cmp(rows[j + 1], rows[j]) = d * QP(1, D)
    BY <1>2, <1>0, <2>1 DEF Cmp, Q
  <2>3. QP(0 + 1, D) - QP(0, D) >= 1
    BY <1>2, <1>0, QuinticStep
  <2>4. QP(0, D) = 0
    BY <1>2 DEF QP
  <2>5. QP(1, D) >= 1 /\ QP(1, D) \in Int
    BY <1>2, <1>0, <2>3, <2>4
  <2>6. IF d = 0 THEN d * QP(1, D) = 0 ELSE (d * QP(1, D)) * d > 0
    BY <1>2, <1>0, <2>3, <2>4, <2>5, SignStrict
  <2> QED BY <2>2, <2>6
<1>3. CASE n >= 3 /\ 1 <= j /\ j + 1 <= n - 2
  <2>0. rows[j + 1] = MinJerkValue(x0, x1, j + 1) /\ rows[j] = MinJerkValue(x0, x1, j)
    BY <1>3, <1>0 DEF ColumnOf
  <2>1. rows[j + 1] = Q(x0 * G + d * QP(j + 1, D), G) /\ rows[j] = Q(x0 * G + d * QP(j, D), G)
    BY <1>3, <2>0, MinJerkForm
  <2>2. Cmp(rows[j + 1], rows[j]) = d * ((QP(j + 1, D) - QP(j, D)) * G)
    <3>1. QP(j + 1, D) \in Int /\ QP(j, D) \in Int /\ G \in Int /\ d \in Int
      BY <1>0
    <3> HIDE DEF G
    <3> QED BY <2>1, <3>1 DEF Cmp, Q
  <2>3. QP(j + 1, D) - QP(j, D) >= 1
    BY <1>3, <1>0, QuinticStep
  <2>4. G >= 1
    BY <1>3, <1>0
  <2>5. (QP(j + 1, D) - QP(j, D)) * G >= 1 /\ (QP(j + 1, D) - QP(j, D)) * G \in Int
    BY <1>3, <1>0, <2>3, <2>4
  <2>6. IF d = 0 THEN d * ((QP(j + 1, D) - QP(j, D)) * G) = 0 ELSE (d * ((QP(j + 1, D) - QP(j, D)) * G)) * d > 0
    BY <1>3, <1>0, <2>3, <2>4, <2>5, SignStrict
  <2> QED BY <2>2, <2>6
<1>4. CASE n >= 3 /\ j = n - 2
  <2>0. rows[j + 1] = Q(x1, 1) /\ rows[j] = MinJerkValue(x0, x1, n - 2)
    BY <1>4, <1>0 DEF ColumnOf
  <2>1. rows[j + 1] = Q(x1, 1) /\ rows[j] = Q(x0 * G + d * QP(D - 1, D), G)
    BY <1>4, <2>0, MinJerkForm
  <2>2. Cmp(rows[j + 1], rows[j]) = d * (G - QP(D - 1, D))
    BY <1>4, <1>0, <2>1 DEF Cmp, Q
  <2>3. QP(D - 1 + 1, D) - QP(D - 1, D) >= 1
    BY <1>4, <1>0, QuinticStep
  <2>4. QP(D, D) = G
    BY <1>4, <1>0 DEF QP
  <2>5. G - QP(D - 1, D) >= 1 /\ G - QP(D - 1, D) \in Int
    BY <1>4, <1>0, <2>3, <2>4
  <2>6. IF d = 0 THEN d * (G - QP(D - 1, D)) = 0 ELSE (d * (G - QP(D - 1, D))) * d > 0
    BY <1>4, <1>0, <2>3, <2>4, <2>5, SignStrict
  <2> QED BY <2>2, <2>6
<1> QED BY <1>1, <1>2, <1>3, <1>4

-----------------------------------------------------------------------------
(***************************************************************************)
(* The inductive invariant: the boundary rows hold two joint values, and   *)
(* once a filler has returned, the interior is exactly what that filler    *)
(* writes from them.  FillMonotone and StepsProgress are not inductive by  *)
(* themselves: a step's sign depends on how every row was computed.        *)
(***************************************************************************)
FillInv ==
  /\ n \in Nat /\ n >= 2
  /\ method \in Methods
  /\ \E x0, x1 \in Int :
       /\ rows[First] = Q(x0, 1)
       /\ rows[Last] = Q(x1, 1)
       /\ filled => \/ method = "linear" /\ ColumnOf(LinearValue, x0, x1)
                    \/ method = "cubic" /\ ColumnOf(CubicValue, x0, x1)
                    \/ method = "quintic-spline" /\ ColumnOf(MinJerkValue, x0, x1)

\* Every initial buffer satisfies FillInv: the constructor sizes the buffer
\* with at least two rows and the boundary rows hold the start and goal.
LEMMA FillInvInit == Init => FillInv
<1> SUFFICES ASSUME Init PROVE FillInv
  OBVIOUS
<1>1. n \in Nat /\ n >= 2
  BY SizesAssumption DEF Init
<1>2. PICK x0, x1 \in Values :
        rows = [j \in 0 .. n - 1 |->
                  IF j = First THEN Q(x0, 1) ELSE IF j = Last THEN Q(x1, 1) ELSE Unset]
  BY DEF Init
<1>3. x0 \in Int /\ x1 \in Int
  BY ValuesAssumption
<1>4. rows[First] = Q(x0, 1) /\ rows[Last] = Q(x1, 1)
  BY <1>1, <1>2 DEF First, Last
<1>5. method \in Methods /\ ~filled
  BY DEF Init
<1> QED
  BY <1>1, <1>3, <1>4, <1>5 DEF FillInv

\* No filler call, and no stutter, breaks FillInv: a fill leaves the two
\* boundary rows alone and writes the interior from their values.
LEMMA FillInvStep == FillInv /\ [Next]_vars => FillInv'
<1> SUFFICES ASSUME FillInv, [Next]_vars PROVE FillInv'
  OBVIOUS
<1>1. PICK x0, x1 \in Int :
        /\ rows[First] = Q(x0, 1)
        /\ rows[Last] = Q(x1, 1)
        /\ filled => \/ method = "linear" /\ ColumnOf(LinearValue, x0, x1)
                     \/ method = "cubic" /\ ColumnOf(CubicValue, x0, x1)
                     \/ method = "quintic-spline" /\ ColumnOf(MinJerkValue, x0, x1)
  BY DEF FillInv
<1>2. n \in Nat /\ n >= 2 /\ method \in Methods
  BY DEF FillInv
<1>3. CASE FillLinear
  <2>1. /\ rows' = [j \in 0 .. n - 1 |->
                      IF First < j /\ j < Last THEN LinearValue(x0, x1, j) ELSE rows[j]]
        /\ filled' /\ n' = n /\ method' = method /\ method = "linear"
    BY <1>1, <1>3 DEF FillLinear, Fill, Q
  <2>2. rows'[First'] = Q(x0, 1) /\ rows'[Last'] = Q(x1, 1)
    BY <1>1, <1>2, <2>1 DEF First, Last
  <2>3. ColumnOf(LinearValue, x0, x1)'
    BY <1>2, <2>1, <2>2 DEF ColumnOf, LinearValue, First, Last
  <2> QED
    BY <1>2, <2>1, <2>2, <2>3 DEF FillInv
<1>4. CASE FillCubic
  <2>1. /\ rows' = [j \in 0 .. n - 1 |->
                      IF First < j /\ j < Last THEN CubicValue(x0, x1, j) ELSE rows[j]]
        /\ filled' /\ n' = n /\ method' = method /\ method = "cubic"
    BY <1>1, <1>4 DEF FillCubic, Fill, Q
  <2>2. rows'[First'] = Q(x0, 1) /\ rows'[Last'] = Q(x1, 1)
    BY <1>1, <1>2, <2>1 DEF First, Last
  <2>3. ColumnOf(CubicValue, x0, x1)'
    BY <1>2, <2>1, <2>2 DEF ColumnOf, CubicValue, First, Last
  <2> QED
    BY <1>2, <2>1, <2>2, <2>3 DEF FillInv
<1>5. CASE FillMinJerk
  <2>1. /\ rows' = [j \in 0 .. n - 1 |->
                      IF First < j /\ j < Last THEN MinJerkValue(x0, x1, j) ELSE rows[j]]
        /\ filled' /\ n' = n /\ method' = method /\ method = "quintic-spline"
    BY <1>1, <1>5 DEF FillMinJerk, Fill, Q
  <2>2. rows'[First'] = Q(x0, 1) /\ rows'[Last'] = Q(x1, 1)
    BY <1>1, <1>2, <2>1 DEF First, Last
  <2>3. ColumnOf(MinJerkValue, x0, x1)'
    BY <1>2, <2>1, <2>2 DEF ColumnOf, MinJerkValue, Quintic, First, Last
  <2> QED
    BY <1>2, <2>1, <2>2, <2>3 DEF FillInv
<1>6. CASE UNCHANGED vars
  BY <1>1, <1>2, <1>6 DEF FillInv, vars, ColumnOf, LinearValue, CubicValue,
                          MinJerkValue, Quintic, First, Last
<1> QED
  BY <1>3, <1>4, <1>5, <1>6 DEF Next

\* FillInv implies FillMonotone: whichever filler ran, each step of the
\* column has the sign of goal minus start, or is zero.
LEMMA FillInvMonotone == FillInv => FillMonotone
<1> SUFFICES ASSUME FillInv, filled, NEW j \in 0 .. n - 2
             PROVE  Cmp(rows[j + 1], rows[j]) * (rows[Last].num - rows[First].num) >= 0
  BY DEF FillMonotone
<1>1. PICK x0, x1 \in Int :
        /\ rows[First] = Q(x0, 1)
        /\ rows[Last] = Q(x1, 1)
        /\ \/ method = "linear" /\ ColumnOf(LinearValue, x0, x1)
           \/ method = "cubic" /\ ColumnOf(CubicValue, x0, x1)
           \/ method = "quintic-spline" /\ ColumnOf(MinJerkValue, x0, x1)
  BY DEF FillInv
<1>2. rows[Last].num - rows[First].num = x1 - x0
  BY <1>1 DEF Q
<1>3. n \in Nat /\ n >= 2
  BY DEF FillInv
<1>4. CASE ColumnOf(LinearValue, x0, x1)
  <2>1. Cmp(rows[j + 1], rows[j]) * (x1 - x0) >= 0
    BY <1>3, <1>4, LinearMonotone
  <2> QED
    BY <1>2, <2>1
<1>5. CASE ColumnOf(CubicValue, x0, x1)
  <2>1. Cmp(rows[j + 1], rows[j]) * (x1 - x0) >= 0
    BY <1>3, <1>5, CubicMonotone
  <2> QED
    BY <1>2, <2>1
<1>6. CASE ColumnOf(MinJerkValue, x0, x1)
  <2>1. IF x1 - x0 = 0 THEN Cmp(rows[j + 1], rows[j]) = 0
                       ELSE Cmp(rows[j + 1], rows[j]) * (x1 - x0) > 0
    BY <1>3, <1>6, MinJerkProgress
  <2>2. Cmp(rows[j + 1], rows[j]) \in Int
    BY <1>3, <1>6, MinJerkRowsInt
  <2>3. CASE x1 - x0 = 0
    <3>1. Cmp(rows[j + 1], rows[j]) = 0
      BY <2>1, <2>3
    <3> QED
      BY <1>2, <2>3, <3>1
  <2>4. CASE x1 - x0 # 0
    <3>1. Cmp(rows[j + 1], rows[j]) * (x1 - x0) > 0
      BY <2>1, <2>4
    <3> QED
      BY <1>2, <2>2, <3>1
  <2> QED
    BY <2>3, <2>4
<1> QED
  BY <1>1, <1>4, <1>5, <1>6

\* FillInv implies StepsProgress when the planner's filler is fillInMinJerk.
LEMMA FillInvProgress ==
  ASSUME Methods \subseteq {"quintic-spline"}
  PROVE  FillInv => StepsProgress
<1> SUFFICES ASSUME FillInv, filled, NEW j \in 0 .. n - 2
             PROVE  LET dir == rows[Last].num - rows[First].num
                    IN  IF dir = 0 THEN Cmp(rows[j + 1], rows[j]) = 0
                                   ELSE Cmp(rows[j + 1], rows[j]) * dir > 0
  BY DEF StepsProgress
<1>1. PICK x0, x1 \in Int :
        /\ rows[First] = Q(x0, 1)
        /\ rows[Last] = Q(x1, 1)
        /\ \/ method = "linear" /\ ColumnOf(LinearValue, x0, x1)
           \/ method = "cubic" /\ ColumnOf(CubicValue, x0, x1)
           \/ method = "quintic-spline" /\ ColumnOf(MinJerkValue, x0, x1)
  BY DEF FillInv
<1>2. rows[Last].num - rows[First].num = x1 - x0
  BY <1>1 DEF Q
<1>3. n \in Nat /\ n >= 2 /\ method = "quintic-spline"
  BY DEF FillInv
<1>4. ColumnOf(MinJerkValue, x0, x1)
  BY <1>1, <1>3
<1>5. IF x1 - x0 = 0 THEN Cmp(rows[j + 1], rows[j]) = 0
                     ELSE Cmp(rows[j + 1], rows[j]) * (x1 - x0) > 0
  BY <1>3, <1>4, MinJerkProgress
<1> QED
  BY <1>2, <1>5

(***************************************************************************)
(* The initial trajectory every filler of chomp_trajectory.cpp writes runs *)
(* monotonically from the start row to the goal row: no step moves away    *)
(* from the goal, for every buffer size and every pair of joint values.    *)
(***************************************************************************)
THEOREM FillMonotoneThm == Spec => []FillMonotone
<1>1. Init => FillInv
  BY FillInvInit
<1>2. FillInv /\ [Next]_vars => FillInv'
  BY FillInvStep
<1>3. FillInv => FillMonotone
  BY FillInvMonotone
<1> QED
  BY <1>1, <1>2, <1>3, PTL DEF Spec

(***************************************************************************)
(* The trajectory fillInMinJerk writes moves strictly towards the goal at  *)
(* every step, the steps into the boundary rows included, or stays put     *)
(* when start and goal coincide.                                           *)
(***************************************************************************)
THEOREM MinJerkStepsProgress ==
  ASSUME Methods \subseteq {"quintic-spline"}
  PROVE  Spec => []StepsProgress
<1>1. Init => FillInv
  BY FillInvInit
<1>2. FillInv /\ [Next]_vars => FillInv'
  BY FillInvStep
<1>3. FillInv => StepsProgress
  BY FillInvProgress
<1> QED
  BY <1>1, <1>2, <1>3, PTL DEF Spec

=============================================================================
