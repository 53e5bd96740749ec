---------------------------- MODULE ChompPlanner ----------------------------
(***************************************************************************)
(* ChompPlanner::solve (chomp_planner.cpp): request validation, trajectory *)
(* set-up, goal wrap-around fix, initial fill, the recovery loop around    *)
(* the external optimizer, the output loop and the two final gates.        *)
(*                                                                         *)
(* One solve call is modelled; its inputs (what the planning scene, the    *)
(* request and the parameters hold, and what the optimizer answers) are    *)
(* chosen nondeterministically.  pc names the point of solve() reached.    *)
(***************************************************************************)
EXTENDS Integers, ChompTrajectory

CONSTANTS
  NumPoints,            \* points of the trajectory built at line 69 (89 in the code)
  DiffRuleLength,       \* DIFF_RULE_LENGTH, the stencil width of the optimizer's copy
  NumJoints,            \* active joints of the planning group
  Methods,              \* values of trajectory_initialization_method_ to try
  MaxRecoveryValues,    \* values of max_recovery_attempts_ to try
  CallerParams          \* the caller's learning_rate_, ridge_factor_, ... (scaled)

ASSUME NumPointsAssumption == NumPoints \in Nat /\ NumPoints >= 2
ASSUME DiffRuleAssumption  == DiffRuleLength \in Nat /\ DiffRuleLength >= 2
ASSUME NumJointsAssumption == NumJoints \in Nat \ {0}
ASSUME MaxRecoveryAssumption == MaxRecoveryValues \subseteq Int
ASSUME CallerParamsAssumption ==
  CallerParams \in [lr : Nat, rf : Nat, tl : Nat, mi : Nat]

\* The size of the std::vector initial_vel used for boundary velocities.
InitialVelSize == 7

GoalIndex == NumPoints - 1

Joints == 1 .. NumJoints

\* Parameter escalation of setRecoveryParams at line 209, in the units of
\* CallerParams: learning rate in 0.01, ridge factor in 0.001, time limit in
\* seconds, iterations.
\* Mutant: the ridge factor lowered instead of raised on escalation.
EscalateLowering(p) == [lr |-> p.lr + 2, rf |-> p.rf - 2, tl |-> p.tl + 5, mi |-> p.mi + 50]

Escalate(p) == [lr |-> p.lr + 2, rf |-> p.rf + 2, tl |-> p.tl + 5, mi |-> p.mi + 50]

ErrorCodes == {"NONE", "SUCCESS", "FAILURE", "INVALID_ROBOT_STATE",
               "INVALID_GOAL_CONSTRAINTS", "PLANNING_FAILED",
               "INVALID_MOTION_PLAN", "GOAL_CONSTRAINTS_VIOLATED"}

\* Velocity reported for a joint of an output waypoint: zero, the finite
\* difference from velocity_matrix, or whatever lies past the end of
\* initial_vel.
VelValues == {"zero", "fd", "garbage"}

Waypoint == [pos : RowType, vel : [Joints -> VelValues]]

NoTrajectory == <<>>

\* The inputs of one call: planning scene present, start state within
\* bounds, number of goal constraints, goal is joint-space only, goal state
\* within bounds, initialisation method, failure recovery enabled,
\* max_recovery_attempts_.
Requests ==
  [scene : BOOLEAN, startOk : BOOLEAN, nGoals : 0 .. 2, jointOnly : BOOLEAN,
   goalOk : BOOLEAN, method : Methods, recovery : BOOLEAN,
   maxRecovery : MaxRecoveryValues]

VARIABLES
  pc,             \* the point of solve() reached
  req,            \* the inputs of this call (never changed)
  traj,           \* the ChompTrajectory built at line 69
  group,          \* the optimizer's padded working copy of traj
  params,         \* params_nonconst
  replanCount,    \* replan_count
  replanFlag,     \* replan_flag
  optResult,      \* optimization_result of the last attempt
  collisionFree,  \* isCollisionFree() of the last optimizer
  res,            \* res.error_code_ and res.trajectory_
  ret             \* the value solve() returned

vars == <<pc, req, traj, group, params, replanCount, replanFlag,
          optResult, collisionFree, res, ret>>

loopVars == <<params, replanCount, replanFlag, optResult, collisionFree>>

NoGroup == [n |-> 0, s |-> 0, e |-> 0, fti |-> <<>>, rows |-> <<>>]

Init ==
  /\ pc = "entry"
  /\ req \in Requests
  /\ traj = NewTrajectory(NumPoints)
  /\ group = NoGroup
  /\ params = CallerParams
  /\ replanCount = 0
  /\ replanFlag = FALSE
  /\ optResult = FALSE
  /\ collisionFree = FALSE
  /\ res = [code |-> "NONE", trajectory |-> NoTrajectory]
  /\ ret = FALSE

\* An early "return false" with the given error code.
Fail(code) ==
  /\ pc' = "done"
  /\ res' = [res EXCEPT !.code = code]
  /\ ret' = FALSE
  /\ UNCHANGED <<req, traj, group>>
  /\ UNCHANGED loopVars

-----------------------------------------------------------------------------
(* Validation of the request and construction of the trajectory.          *)

NoPlanningScene ==
  /\ pc = "entry"
  /\ ~req.scene
  /\ Fail("FAILURE")

StartStateInvalid ==
  /\ pc = "entry"
  /\ req.scene
  /\ ~req.startOk
  /\ Fail("INVALID_ROBOT_STATE")

\* Lines 69-70: the trajectory is built and row 0 set to the start state.
CreateTrajectory ==
  /\ pc = "entry"
  /\ req.scene
  /\ req.startOk
  /\ traj' = SetPoint(NewTrajectory(NumPoints), 0, Row("start", 0))
  /\ pc' = "goal"
  /\ UNCHANGED <<req, group, res, ret>>
  /\ UNCHANGED loopVars

GoalConstraintCountInvalid ==
  /\ pc = "goal"
  /\ req.nGoals # 1
  /\ Fail("INVALID_GOAL_CONSTRAINTS")

GoalNotJointSpace ==
  /\ pc = "goal"
  /\ req.nGoals = 1
  /\ ~req.jointOnly
  /\ Fail("INVALID_GOAL_CONSTRAINTS")

GoalStateInvalid ==
  /\ pc = "goal"
  /\ req.nGoals = 1
  /\ req.jointOnly
  /\ ~req.goalOk
  /\ Fail("INVALID_ROBOT_STATE")

\* Lines 87-97: the goal state is written to the last row.
SetGoal ==
  /\ pc = "goal"
  /\ req.nGoals = 1
  /\ req.jointOnly
  /\ req.goalOk
  /\ traj' = SetPoint(traj, GoalIndex, Row("goal", GoalIndex))
  /\ pc' = "adjust"
  /\ UNCHANGED <<req, group, res, ret>>
  /\ UNCHANGED loopVars

\* Lines 99-119: for continuous joints the goal row is moved to
\* start + shortestAngularDistance(start, goal); it is still a goal
\* configuration (the same angles modulo 2 pi), so the row stays a goal row.
FixWrapAroundGoal ==
  /\ pc = "adjust"
  /\ traj' = SetPoint(traj, GoalIndex, Row("goal", GoalIndex))
  /\ pc' = "fill"
  /\ UNCHANGED <<req, group, res, ret>>
  /\ UNCHANGED loopVars

-----------------------------------------------------------------------------
(* Initial fill, lines 121-181.                                            *)

\* "quintic-spline", "linear" or "cubic".
FillInterpolated ==
  /\ pc = "fill"
  /\ req.method \in {"quintic-spline", "linear", "cubic"}
  /\ traj' = FillInterior(traj)
  /\ pc' = "store"
  /\ UNCHANGED <<req, group, res, ret>>
  /\ UNCHANGED loopVars

\* "equal": csvRead then setTrajectory replaces the whole matrix, the start
\* and goal rows included.  The file's first and last rows may or may not
\* coincide with the start and goal states.
FillFromCsv ==
  /\ pc = "fill"
  /\ req.method = "equal"
  /\ \E first \in {"csv", "start"}, last \in {"csv", "goal"} :
        traj' = [traj EXCEPT !.rows =
                   [i \in 0 .. NumPoints - 1 |->
                      IF i = 0 THEN Row(first, 0)
                      ELSE IF i = GoalIndex THEN Row(last, GoalIndex)
                      ELSE Row("csv", i)]]
  /\ pc' = "store"
  /\ UNCHANGED <<req, group, res, ret>>
  /\ UNCHANGED loopVars

\* Any other method: an error is logged and solve() goes on.
FillInvalidMethod ==
  /\ pc = "fill"
  /\ req.method \notin {"quintic-spline", "linear", "cubic", "equal"}
  /\ pc' = "store"
  /\ UNCHANGED <<req, traj, group, res, ret>>
  /\ UNCHANGED loopVars

-----------------------------------------------------------------------------
(* The recovery loop, lines 183-253.                                       *)

\* Lines 186-200: counters reset, original parameters stored and the
\* non-const copy made.
StoreParams ==
  /\ pc = "store"
  /\ params' = CallerParams
  /\ replanCount' = 0
  /\ replanFlag' = FALSE
  /\ pc' = "attempt"
  /\ UNCHANGED <<req, traj, group, optResult, collisionFree, res, ret>>

\* Lines 205-221: escalate if replanning, build the optimizer, which fails
\* to initialise.
OptimizerInitFailed ==
  /\ pc = "attempt"
  /\ params' = IF replanFlag THEN Escalate(params) ELSE params
  /\ pc' = "done"
  /\ res' = [res EXCEPT !.code = "PLANNING_FAILED"]
  /\ ret' = FALSE
  /\ UNCHANGED <<req, traj, group, replanCount, replanFlag, optResult, collisionFree>>

\* Lines 205-215: escalate if replanning and build the optimizer, whose
\* constructor makes the padded working copy of the trajectory.
CreateOptimizer ==
  /\ pc = "attempt"
  /\ params' = IF replanFlag THEN Escalate(params) ELSE params
  /\ group' = PaddedCopy(traj, DiffRuleLength)
  /\ pc' = "optimize"
  /\ UNCHANGED <<req, traj, replanCount, replanFlag, optResult, collisionFree, res, ret>>

\* Line 226: optimizer->optimize() changes the free rows of the working copy
\* and merges them back with updateFromGroupTrajectory; it reports success
\* or failure, and whether its final trajectory is collision free.
Optimize ==
  /\ pc = "optimize"
  /\ group' = OptimizeGroup(group)
  /\ traj' = UpdateFromGroupTrajectory(traj, OptimizeGroup(group))
  /\ optResult' \in BOOLEAN
  /\ collisionFree' \in BOOLEAN
  /\ pc' = "decide"
  /\ UNCHANGED <<req, params, replanCount, replanFlag, res, ret>>

\* Mutant: attempts compared with <= instead of <.
RetryOneMore ==
  /\ pc = "decide"
  /\ req.recovery
  /\ ~optResult
  /\ replanCount <= req.maxRecovery
  /\ replanCount' = replanCount + 1
  /\ replanFlag' = TRUE
  /\ pc' = "attempt"
  /\ UNCHANGED <<req, traj, group, params, optResult, collisionFree, res, ret>>

\* Lines 229-242: recovery enabled, the attempt failed and attempts remain.
Retry ==
  /\ pc = "decide"
  /\ req.recovery
  /\ ~optResult
  /\ replanCount < req.maxRecovery
  /\ replanCount' = replanCount + 1
  /\ replanFlag' = TRUE
  /\ pc' = "attempt"
  /\ UNCHANGED <<req, traj, group, params, optResult, collisionFree, res, ret>>

\* Mutant: the "else break;" of line 248-249 is missing, so with recovery
\* disabled the loop is never left.
EndRecoveryOnlyWithRecovery ==
  /\ pc = "decide"
  /\ req.recovery
  /\ ~(~optResult /\ replanCount < req.maxRecovery)
  /\ params' = CallerParams
  /\ pc' = "output"
  /\ UNCHANGED <<req, traj, group, replanCount, replanFlag, optResult, collisionFree, res, ret>>

\* Mutant: the loop is left without the restore of line 253.
EndRecoveryNoRestore ==
  /\ pc = "decide"
  /\ ~(req.recovery /\ ~optResult /\ replanCount < req.maxRecovery)
  /\ pc' = "output"
  /\ UNCHANGED <<req, traj, group, params, replanCount, replanFlag, optResult, collisionFree, res, ret>>

\* Lines 243-249 and 253: leave the loop, then restore the parameters.
EndRecovery ==
  /\ pc = "decide"
  /\ ~(req.recovery /\ ~optResult /\ replanCount < req.maxRecovery)
  /\ params' = CallerParams
  /\ pc' = "output"
  /\ UNCHANGED <<req, traj, group, replanCount, replanFlag, optResult, collisionFree, res, ret>>

-----------------------------------------------------------------------------
(* Output and the final gates, lines 255-327.                              *)

\* Lines 258-304: one waypoint per row; interior waypoints get the finite
\* difference velocity, the first and last get initial_vel[j], which is read
\* past its end for joints beyond the seventh.  res.trajectory_ is set and
\* the error code is SUCCESS before any gate is checked.
EmitTrajectory ==
  /\ pc = "output"
  /\ \E junk \in [Joints -> {"zero", "garbage"}] :
       res' = [code |-> "SUCCESS",
               trajectory |->
                 [i \in 0 .. NumPoints - 1 |->
                    [pos |-> traj.rows[i],
                     vel |-> [j \in Joints |->
                                IF i \in {0, GoalIndex}
                                  THEN IF j <= InitialVelSize THEN "zero" ELSE junk[j]
                                  ELSE "fd"]]]]
  /\ pc' = "gates"
  /\ UNCHANGED <<req, traj, group, ret>>
  /\ UNCHANGED loopVars

\* Whether a waypoint satisfies every joint constraint of the goal.
SatisfiesGoal(w) == w.pos.kind = "goal"

\* Lines 307-312.
CollisionGateFails ==
  /\ pc = "gates"
  /\ ~collisionFree
  /\ Fail("INVALID_MOTION_PLAN")

\* Lines 315-325: checked on the last waypoint of the result.
GoalGateFails ==
  /\ pc = "gates"
  /\ collisionFree
  /\ ~SatisfiesGoal(res.trajectory[GoalIndex])
  /\ Fail("GOAL_CONSTRAINTS_VIOLATED")

\* Line 327.
Succeed ==
  /\ pc = "gates"
  /\ collisionFree
  /\ SatisfiesGoal(res.trajectory[GoalIndex])
  /\ pc' = "done"
  /\ ret' = TRUE
  /\ UNCHANGED <<req, traj, group, res>>
  /\ UNCHANGED loopVars

Next ==
  \/ NoPlanningScene \/ StartStateInvalid \/ CreateTrajectory
  \/ GoalConstraintCountInvalid \/ GoalNotJointSpace \/ GoalStateInvalid
  \/ SetGoal \/ FixWrapAroundGoal
  \/ FillInterpolated \/ FillFromCsv \/ FillInvalidMethod
  \/ StoreParams \/ OptimizerInitFailed \/ CreateOptimizer \/ Optimize
  \/ Retry \/ EndRecovery
  \/ EmitTrajectory \/ CollisionGateFails \/ GoalGateFails \/ Succeed

\* solve() runs to completion on one thread; each step is synchronous code
\* or a call to the optimizer, which returns within its time limit.
Spec == Init /\ [][Next]_vars /\ WF_vars(Next)

-----------------------------------------------------------------------------
(* Properties.                                                             *)

PCs == {"entry", "goal", "adjust", "fill", "store", "attempt", "optimize",
        "decide", "output", "gates", "done"}

\* The type of every variable.
TypeOK ==
  /\ pc \in PCs
  /\ req \in Requests
  /\ traj \in [n : {NumPoints}, s : {1}, e : {NumPoints - 2},
               rows : [0 .. NumPoints - 1 -> RowType]]
  /\ DOMAIN group = {"n", "s", "e", "fti", "rows"}
  /\ group.n \in Nat /\ group.s \in Int /\ group.e \in Int
  /\ group.fti \in [0 .. group.n - 1 -> 0 .. NumPoints - 1]
  /\ group.rows \in [0 .. group.n - 1 -> RowType]
  /\ params \in [lr : Nat, rf : Nat, tl : Nat, mi : Nat]
  /\ replanCount \in Nat
  /\ replanFlag \in BOOLEAN
  /\ optResult \in BOOLEAN
  /\ collisionFree \in BOOLEAN
  /\ res \in [code : ErrorCodes,
              trajectory : [0 .. NumPoints - 1 -> Waypoint] \cup {NoTrajectory}]
  /\ ret \in BOOLEAN

\* Every row of the canonical trajectory holds a position for its own
\* instant, however many optimizer runs have merged their padded working
\* copies back (copy constructor padding + updateFromGroupTrajectory): the
\* padding offset and the merge offset must agree for every attempt.
TrajAligned == \A i \in 0 .. NumPoints - 1 : traj.rows[i].at = i

\* With an interpolating initialisation, once row 0 holds the start state
\* and the last row the goal state, no later step of solve() (in particular
\* no optimizer merge through updateFromGroupTrajectory) changes them.
BoundaryRowsKept ==
  [][req.method # "equal" =>
       /\ traj.rows[0].kind = "start" => traj'.rows[0].kind = "start"
       /\ traj.rows[GoalIndex].kind = "goal" => traj'.rows[GoalIndex].kind = "goal"
    ]_vars

\* The caller's parameters escalated k times (k calls of setRecoveryParams
\* at line 209).
EscalatedTimes(p, k) ==
  [lr |-> p.lr + 2 * k, rf |-> p.rf + 2 * k, tl |-> p.tl + 5 * k, mi |-> p.mi + 50 * k]

\* Recovery loop: every optimizer runs with the caller's parameters
\* escalated once per earlier failed attempt, retries happen only with
\* recovery enabled, and never more than max_recovery_attempts_ of them.
RecoveryEscalation ==
  pc \in {"optimize", "decide"} =>
    /\ params = EscalatedTimes(CallerParams, replanCount)
    /\ replanCount > 0 => req.recovery /\ replanCount <= req.maxRecovery

\* solve() returns: the recovery loop ends whatever the optimizer answers.
Termination == <>(pc = "done")

-----------------------------------------------------------------------------
(* Refinement of the abstract RecoveryController (RecoveryAbstract).       *)

\* The controller state solve() is in.  A failed validation stays "init";
\* after the loop, the last attempt's result says success or exhaustion,
\* through the output and the gates.
RecoveryState ==
  CASE pc \in {"attempt", "optimize", "decide"} -> "attempting"
    [] pc = "done" /\ res.code = "PLANNING_FAILED" -> "initfailed"
    [] pc \in {"output", "gates"}
         \/ (pc = "done" /\ res.code \in {"SUCCESS", "INVALID_MOTION_PLAN",
                                          "GOAL_CONSTRAINTS_VIOLATED"}) ->
         IF optResult THEN "success" ELSE "exhausted"
    [] OTHER -> "init"

\* The parameters of the current attempt: at "attempt" with replan_flag
\* set, the escalation of line 209 is still to be applied.
RecoveryParams ==
  IF pc = "attempt" /\ replanFlag THEN Escalate(params) ELSE params

Recovery == INSTANCE RecoveryAbstract WITH
  rstate <- RecoveryState, attempts <- replanCount, aparams <- RecoveryParams,
  recovery <- req.recovery, maxRec <- req.maxRecovery

\* The replanning loop of solve() (lines 183-253) implements the
\* RecoveryController of spec section 4.6: each attempt ends, retries with
\* escalated parameters only while allowed, and restores the caller's
\* parameters whenever the loop is left normally.
RefinesRecovery == Recovery!Spec

\* The spec (section 3): boundary rows are set from the start and goal
\* states and fills write only the interior, so a trajectory solve()
\* accepts begins at the start state.
SolvedTrajectoryStartsAtStartState ==
  (pc = "done" /\ ret) => res.trajectory[0].pos.kind = "start"

\* The spec (section 7): no partial trajectory is returned on failure.
NoTrajectoryOnFailure ==
  (pc = "done" /\ ~ret) => res.trajectory = NoTrajectory

\* The optimizer is never handed rows nobody wrote (the interior is filled
\* before optimisation, spec section 3).
OptimizerInputInitialised ==
  pc = "optimize" => \A i \in DOMAIN group.rows : group.rows[i].kind # "undef"

\* The spec (section 4.5): the first and last waypoints report zero
\* velocity for every joint.
BoundaryVelocityZero ==
  res.trajectory # NoTrajectory =>
    \A i \in {0, GoalIndex}, j \in Joints : res.trajectory[i].vel[j] = "zero"

=============================================================================
