--------------------------- MODULE TrajectorySizing ---------------------------
(***************************************************************************)
(* The two ChompTrajectory constructors of chomp_trajectory.cpp 43-61:     *)
(* from a duration, num_points = static_cast<size_t>(duration /            *)
(* discretization) + 1; from a point count, start_index_ = 1 and           *)
(* end_index_ = num_points_ - 2 computed on size_t.  Durations and         *)
(* discretizations are whole multiples of one time unit, so the division   *)
(* and the truncating cast are an integer \div; size_t is SizeBits wide.   *)
(***************************************************************************)
EXTENDS Integers

CONSTANTS
  Durations,        \* durations passed to the duration constructor (> 0)
  Discretizations,  \* discretizations (> 0)
  PointCounts,      \* num_points passed to the point-count constructor
  SizeBits          \* width of size_t

VARIABLES
  numPoints,        \* num_points_
  startIndex,       \* start_index_
  endIndex,         \* end_index_
  built             \* whether a constructor has run

vars == <<numPoints, startIndex, endIndex, built>>

\* Unsigned arithmetic on size_t.
SizeT(x) == x % (2 ^ SizeBits)

Init ==
  /\ numPoints = 0
  /\ startIndex = 0
  /\ endIndex = 0
  /\ built = FALSE

\* ChompTrajectory(robot_model, num_points, discretization, group_name).
ConstructFromPoints(n) ==
  /\ ~built
  /\ numPoints' = n
  /\ startIndex' = 1
  /\ endIndex' = SizeT(n - 2)
  /\ built' = TRUE

\* ChompTrajectory(robot_model, duration, discretization, group_name)
\* delegates to the point-count constructor.
ConstructFromDuration(duration, disc) ==
  ConstructFromPoints(SizeT(duration \div disc + 1))

Next ==
  \/ \E n \in PointCounts : ConstructFromPoints(n)
  \/ \E d \in Durations, disc \in Discretizations : ConstructFromDuration(d, disc)

Spec == Init /\ [][Next]_vars

-----------------------------------------------------------------------------

\* Spec section 3: the free range [startIndex, endIndex] lies inside the
\* buffer, so that the fillers, which write rows start_index_ ..
\* end_index_, and the optimizer never address a row past num_points_ - 1.
FreeRangeInBuffer ==
  built => endIndex <= numPoints - 1

=============================================================================
