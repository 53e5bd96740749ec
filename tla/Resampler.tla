------------------------------ MODULE Resampler ------------------------------
(***************************************************************************)
(* ChompTrajectory::fillInFromTrajectory (chomp_trajectory.cpp 191-241):   *)
(* maps an external trajectory of L waypoints onto the num_points_ rows of *)
(* the buffer.  Both branches write target rows 0, 1, 2, ... in order, so  *)
(* the result is the sequence of external waypoint indices written, row by *)
(* row; assignCHOMPTrajectoryPointFromInputTrajectoryPoint copies one      *)
(* waypoint into one row and is abstracted to that index.                  *)
(***************************************************************************)
EXTENDS Integers, Sequences

CONSTANTS
  Sizes,        \* values of num_points_ of the buffer
  Lengths       \* values of the external waypoint count

ASSUME ResamplerAssumption ==
  /\ Sizes \subseteq Nat /\ \A n \in Sizes : n >= 2
  /\ Lengths \subseteq Nat

VARIABLES
  N,            \* num_chomp_trajectory_points
  L,            \* num_input_points
  emitted,      \* external index written into row k - 1, for k in 1..Len
  status        \* "idle" before the call, then its return value

vars == <<N, L, emitted, status>>

\* repeated_factor and repeated_balance_factor (lines 203-204).
Repeat == N \div L

Balance == N % L

\* Mutant: the remainder copy also given to waypoint repeated_balance_factor.
CopiesInclusive(i) == Repeat + (IF i <= Balance THEN 1 ELSE 0)

\* The copies of waypoint i written by one pass of the outer loop: the
\* repeated_factor copies of lines 214-218 and the one of lines 221-225.
Copies(i) == Repeat + (IF i < Balance THEN 1 ELSE 0)

\* Mutant: the remainder copies written after the loop, not after each waypoint.
RepeatEmitAppendRemainder ==
  LET base[i \in 0 .. L] ==
        IF i = 0 THEN << >> ELSE base[i - 1] \o [k \in 1 .. Repeat |-> i - 1]
  IN  base[L] \o [k \in 1 .. Balance |-> k - 1]

\* The upsampling branch (lines 208-226): waypoints in order, each written
\* Copies(i) times into consecutive rows from response_point_id = 0.
RepeatEmit ==
  LET emit[i \in 0 .. L] ==
        IF i = 0 THEN << >> ELSE emit[i - 1] \o [k \in 1 .. Copies(i - 1) |-> i - 1]
  IN  emit[L]

\* The decimation branch (lines 228-239): row i gets waypoint
\* floor(i * L / N), with the factor L / N taken exactly.
DecimateEmit == [k \in 1 .. N |-> ((k - 1) * L) \div N]

Init ==
  /\ N \in Sizes
  /\ L \in Lengths
  /\ emitted = << >>
  /\ status = "idle"

\* Lines 199-200: fewer than two waypoints, nothing is written.
RejectShortInput ==
  /\ status = "idle"
  /\ L < 2
  /\ status' = "false"
  /\ UNCHANGED <<N, L, emitted>>

Upsample ==
  /\ status = "idle"
  /\ L >= 2
  /\ N >= L
  /\ emitted' = RepeatEmit
  /\ status' = "true"
  /\ UNCHANGED <<N, L>>

Decimate ==
  /\ status = "idle"
  /\ L >= 2
  /\ N < L
  /\ emitted' = DecimateEmit
  /\ status' = "true"
  /\ UNCHANGED <<N, L>>

Next == RejectShortInput \/ Upsample \/ Decimate

Spec == Init /\ [][Next]_vars

-----------------------------------------------------------------------------

TypeOK ==
  /\ N \in Sizes
  /\ L \in Lengths
  /\ emitted \in Seq(Nat)
  /\ status \in {"idle", "true", "false"}

\* The length invariant of spec section 8: a successful resample writes
\* exactly num_points_ rows (no row left over from before, none written past
\* the end of the matrix) and reads only waypoints that exist.
ResampleLength ==
  status = "true" =>
    /\ Len(emitted) = N
    /\ \A k \in 1 .. Len(emitted) : emitted[k] < L

\* The resampled buffer keeps the time order of the input: it starts at the
\* first waypoint, never goes back, and when upsampling skips no waypoint.
ResampleOrder ==
  status = "true" =>
    /\ emitted[1] = 0
    /\ \A k \in 1 .. Len(emitted) - 1 :
         /\ emitted[k] <= emitted[k + 1]
         /\ N >= L => emitted[k + 1] <= emitted[k] + 1

\* Spec section 3: the first and last rows of a buffer are its start and
\* goal states; a resampled buffer should end at the input's last waypoint.
ResampleEndsAtGoal ==
  status = "true" => emitted[Len(emitted)] = L - 1

=============================================================================
