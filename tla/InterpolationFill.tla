-------------------------- MODULE InterpolationFill --------------------------
(***************************************************************************)
(* The values the three interpolating fillers of chomp_trajectory.cpp      *)
(* write for one joint: fillInLinearInterpolation, fillInCubicInterpolation*)
(* and fillInMinJerk.  Boundary rows start_index_ - 1 and end_index_ + 1   *)
(* hold the start and goal values; each filler writes every row strictly   *)
(* between them.  Values are exact rationals [num, den] with den > 0, so   *)
(* the floating-point arithmetic of the code is modelled by the exact      *)
(* value it approximates.                                                  *)
(***************************************************************************)
EXTENDS Integers

CONSTANTS
  Sizes,        \* values of num_points_ to try
  Values,       \* joint values of the start and goal rows
  Methods       \* the fillers to try

ASSUME SizesAssumption == Sizes \subseteq Nat /\ \A n \in Sizes : n >= 2

ASSUME ValuesAssumption == Values \subseteq Int

VARIABLES
  n,            \* num_points_
  rows,         \* the joint column: row -> rational, or Unset
  method,       \* the filler called
  filled        \* whether it has returned

vars == <<n, rows, method, filled>>

Unset == [num |-> 0, den |-> 0]

Q(num, den) == [num |-> num, den |-> den]

\* start_index and end_index of the fillers: start_index_ - 1 and
\* end_index_ + 1, with start_index_ = 1 and end_index_ = num_points - 2.
First == 0

Last == n - 1

\* fillInLinearInterpolation: theta = (x1 - x0) / (end_index - 1) and row
\* j gets x0 + j * theta.
LinearValue(x0, x1, j) ==
  Q(x0 * (Last - 1) + j * (x1 - x0), Last - 1)

\* Mutant: c3 written with the sign of c2.
CubicValueSignSlip(x0, x1, j) ==
  LET T == Last - 1
  IN  Q(x0 * (T * T * T) + (x1 - x0) * (3 * (j * j) * T + 2 * (j * j * j)), T * T * T)

\* fillInCubicInterpolation: total_time = (end_index - 1) * dt, t = j * dt,
\* x0 + c2 t^2 + c3 t^3 with c2 = 3 (x1 - x0) / T^2, c3 = -2 (x1 - x0) / T^3
\* (the micro-step dt cancels).
CubicValue(x0, x1, j) ==
  LET T == Last - 1
  IN  Q(x0 * (T * T * T) + (x1 - x0) * (3 * (j * j) * T - 2 * (j * j * j)), T * T * T)

\* x0 + (x1 - x0) (10 u^3 - 15 u^4 + 6 u^5) with u = k / D, over D^5; the
\* powers are products, as td[] and ti[] are built in fillInMinJerk.
Quintic(x0, x1, k, D) ==
  LET k3 == k * k * k
      D2 == D * D
  IN  Q(x0 * (D2 * D2 * D) + (x1 - x0) * (10 * k3 * D2 - 15 * (k3 * k) * D + 6 * (k3 * k * k)),
        D2 * D2 * D)

\* Mutant: the spline timed over one step less than the boundary span.
MinJerkValueShortDuration(x0, x1, i) ==
  LET D == Last - First - 1
      k == i - First
  IN  Quintic(x0, x1, k, D)

\* fillInMinJerk: td = (end_index - start_index) * discretization,
\* ti = (i - start_index) * discretization, coefficients
\* c3 = 20 (x1 - x0) / (2 td^3), c4 = -30 (x1 - x0) / (2 td^4),
\* c5 = 12 (x1 - x0) / (2 td^5); the discretization cancels.
MinJerkValue(x0, x1, i) ==
  LET D == Last - First
      k == i - First
  IN  Quintic(x0, x1, k, D)

Init ==
  /\ n \in Sizes
  /\ \E x0, x1 \in Values :
       rows = [j \in 0 .. n - 1 |->
                 IF j = First THEN Q(x0, 1) ELSE IF j = Last THEN Q(x1, 1) ELSE Unset]
  /\ method \in Methods
  /\ filled = FALSE

\* One call of a filler: every row j with start_index < j < end_index is
\* written from the two boundary rows.
Fill(value(_, _, _)) ==
  /\ ~filled
  /\ rows' = [j \in 0 .. n - 1 |->
                IF First < j /\ j < Last
                  THEN value(rows[First].num, rows[Last].num, j)
                  ELSE rows[j]]
  /\ filled' = TRUE
  /\ UNCHANGED <<n, method>>

FillLinear == method = "linear" /\ Fill(LinearValue)

FillCubic == method = "cubic" /\ Fill(CubicValue)

FillMinJerk == method = "quintic-spline" /\ Fill(MinJerkValue)

Next == FillLinear \/ FillCubic \/ FillMinJerk

Spec == Init /\ [][Next]_vars

-----------------------------------------------------------------------------

\* Sign of p - q for rationals with positive denominators.
Cmp(p, q) == p.num * q.den - q.num * p.den

TypeOK ==
  /\ n \in Sizes
  /\ rows \in [0 .. n - 1 -> [num : Int, den : Int]]
  /\ method \in Methods
  /\ filled \in BOOLEAN

\* After any of the three fills, no time step of the joint column moves away
\* from the goal: the initial trajectory runs monotonically from the start
\* row to the goal row, never overshooting the goal or undershooting the start.
FillMonotone ==
  filled =>
    \A j \in 0 .. n - 2 :
      Cmp(rows[j + 1], rows[j]) * (rows[Last].num - rows[First].num) >= 0

\* After a fill, every time step of the joint column moves strictly towards
\* the goal (or stays put when start and goal coincide): no step of the
\* trajectory stands still or turns back, in particular not the last
\* interior step into the goal row.
StepsProgress ==
  filled =>
    \A j \in 0 .. n - 2 :
      LET dir == rows[Last].num - rows[First].num
      IN  IF dir = 0 THEN Cmp(rows[j + 1], rows[j]) = 0
                     ELSE Cmp(rows[j + 1], rows[j]) * dir > 0

=============================================================================
