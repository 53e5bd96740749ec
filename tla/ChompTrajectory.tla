--------------------------- MODULE ChompTrajectory ---------------------------
(***************************************************************************)
(* The trajectory buffer of chomp_trajectory.cpp (class ChompTrajectory).  *)
(*                                                                         *)
(* A buffer is a record                                                    *)
(*   n    : num_points_                                                    *)
(*   s, e : start_index_, end_index_ (inclusive bounds of the free rows)   *)
(*   rows : the (point x joint) matrix, one entry per point                *)
(*   fti  : full_trajectory_index_ (only for padded copies)                *)
(* A row is abstracted to what it is a sample of: the kind of value it     *)
(* holds and the time index of the canonical trajectory it stands for      *)
(* ("at").  The joint values themselves are not modelled: the properties   *)
(* are about which rows are written, from where, and for which instant.    *)
(***************************************************************************)
EXTENDS Integers

\* Where the content of a row came from.
\*   undef  : memory allocated by Eigen resize and never written
\*   start  : the start state (robotStateToArray of start_state)
\*   goal   : the goal state (robotStateToArray of goal_state)
\*   interp : written by one of the interpolation fillers
\*   csv    : read from the pre-baked trajectory file
\*   opt    : written back by the optimizer
RowKinds == {"undef", "start", "goal", "interp", "csv", "opt"}

Row(kind, t) == [kind |-> kind, at |-> t]

RowType == [kind : RowKinds, at : Int]

\* ChompTrajectory(robot_model, num_points, discretization, group_name) and
\* init(): start_index_ = 1, end_index_ = num_points - 2, the matrix is
\* resized, which leaves its entries uninitialised.
NewTrajectory(n) ==
  [n    |-> n,
   s    |-> 1,
   e    |-> n - 2,
   rows |-> [i \in 0 .. n - 1 |-> Row("undef", i)]]

\* getTrajectoryPoint(i) = <row>, as done by robotStateToArray in solve().
SetPoint(traj, i, row) == [traj EXCEPT !.rows[i] = row]

\* Mutant: start_extra computed without the "- 1" of the stencil context.
StartExtraOffByOne(src, d) == d - src.s

\* The padding arithmetic of the copy constructor ChompTrajectory(source,
\* group_name, diff_rule_length): diff_rule_length - 1 points of context on
\* either side of the free rows.  Plain int arithmetic, no clamping at 0.
StartExtra(src, d) == (d - 1) - src.s

EndExtra(src, d)   == (d - 1) - ((src.n - 1) - src.e)

\* The source point of padded row i: i - start_extra clamped into the source.
SourcePoint(src, d, i) ==
  LET p == i - StartExtra(src, d)
  IN  IF p < 0 THEN 0 ELSE IF p >= src.n THEN src.n - 1 ELSE p

\* The padded working copy: rows replicated, not interpolated, from the
\* source, and full_trajectory_index_ recording where each came from.
PaddedCopy(src, d) ==
  LET n == src.n + StartExtra(src, d) + EndExtra(src, d)
  IN  [n    |-> n,
       s    |-> d - 1,
       e    |-> (n - 1) - (d - 1),
       fti  |-> [i \in 0 .. n - 1 |-> SourcePoint(src, d, i)],
       rows |-> [i \in 0 .. n - 1 |-> src.rows[SourcePoint(src, d, i)]]]

\* updateFromGroupTrajectory(group): the block of num_vars_free rows starting
\* at this->start_index_ is overwritten by the block of the same height
\* starting at group.start_index_; no size check is made.
UpdateFromGroupTrajectory(full, group) ==
  LET free == full.e - full.s + 1
  IN  [full EXCEPT !.rows =
         [i \in DOMAIN full.rows |->
            IF full.s <= i /\ i < full.s + free
              THEN group.rows[group.s + (i - full.s)]
              ELSE full.rows[i]]]

\* Mutant: the fill loop also writes the two boundary rows.
FillInteriorInclusive(traj) ==
  [traj EXCEPT !.rows =
     [j \in DOMAIN traj.rows |->
        IF traj.s - 1 <= j /\ j <= traj.e + 1
          THEN Row("interp", j)
          ELSE traj.rows[j]]]

\* fillInLinearInterpolation, fillInCubicInterpolation and fillInMinJerk all
\* write every row j with start_index_ - 1 < j < end_index_ + 1 from the two
\* rows start_index_ - 1 and end_index_ + 1; the value written at j is a
\* position for instant j.
FillInterior(traj) ==
  [traj EXCEPT !.rows =
     [j \in DOMAIN traj.rows |->
        IF traj.s - 1 < j /\ j < traj.e + 1
          THEN Row("interp", j)
          ELSE traj.rows[j]]]

\* One run of the external optimizer (ChompOptimizer::optimize, not part of
\* this repository's sources): it changes only the free rows of its padded
\* working copy, each to a new position for the instant that row stands for.
OptimizeGroup(group) ==
  [group EXCEPT !.rows =
     [i \in DOMAIN group.rows |->
        IF group.s <= i /\ i <= group.e
          THEN Row("opt", group.rows[i].at)
          ELSE group.rows[i]]]
=============================================================================
