----------------------- MODULE ChompRefinementProofs -----------------------
(***************************************************************************)
(* Proof that the replanning loop of ChompPlanner::solve implements the    *)
(* abstract RecoveryController of RecoveryAbstract under the refinement    *)
(* mapping RecoveryState / RecoveryParams of ChompPlanner, for every       *)
(* caller parameter set and every value of max_recovery_attempts_.         *)
(***************************************************************************)
EXTENDS ChompPlanner, TLAPS

\* The only fact about the past the mapping needs: once the output is
\* built (EmitTrajectory), the error code is SUCCESS until a gate fails.
GatesInv ==
  pc = "gates" => res = [code |-> "SUCCESS", trajectory |-> res.trajectory]

LEMMA GatesInvariant == Spec => []GatesInv
<1>1. Init => GatesInv
  BY DEF Init, GatesInv
<1>2. GatesInv /\ [Next]_vars => GatesInv'
  <2> SUFFICES ASSUME GatesInv, [Next]_vars PROVE GatesInv'
    OBVIOUS
  <2>1. CASE EmitTrajectory
    BY <2>1 DEF EmitTrajectory, GatesInv
  <2>2. CASE UNCHANGED vars
    BY <2>2 DEF vars, GatesInv
  <2>3. CASE ~EmitTrajectory /\ ~UNCHANGED vars
    <3>1. pc' # "gates"
      BY <2>3 DEF Next, NoPlanningScene, StartStateInvalid, CreateTrajectory,
         GoalConstraintCountInvalid, GoalNotJointSpace, GoalStateInvalid, SetGoal,
         FixWrapAroundGoal, FillInterpolated, FillFromCsv, FillInvalidMethod,
         StoreParams, OptimizerInitFailed, CreateOptimizer, Optimize, Retry,
         EndRecovery, CollisionGateFails, GoalGateFails, Succeed, Fail
    <3> QED BY <3>1 DEF GatesInv
  <2> QED BY <2>1, <2>2, <2>3
<1> QED BY <1>1, <1>2, PTL DEF Spec

LEMMA InitRefined == Init => Recovery!Init
  BY DEF Init, Recovery!Init, RecoveryState, RecoveryParams, Requests

\* Every step of solve() is a step of the abstract controller or leaves the
\* mapped state unchanged.
LEMMA StepRefined == GatesInv /\ [Next]_vars => [Recovery!Next]_Recovery!avars
<1> SUFFICES ASSUME GatesInv, [Next]_vars PROVE [Recovery!Next]_Recovery!avars
  OBVIOUS
<1> DEFINE Stutter == UNCHANGED Recovery!avars
<1>1. ASSUME NEW code, code \notin {"PLANNING_FAILED", "SUCCESS",
                                     "INVALID_MOTION_PLAN", "GOAL_CONSTRAINTS_VIOLATED"},
             pc \in {"entry", "goal"}, Fail(code)
      PROVE  Stutter
  <2>1. RecoveryState = "init" /\ RecoveryState' = "init"
    BY <1>1 DEF Fail, RecoveryState
  <2>2. RecoveryParams = params /\ RecoveryParams' = params'
    BY <1>1 DEF Fail, RecoveryParams
  <2> QED BY <1>1, <2>1, <2>2 DEF Fail, loopVars, Recovery!avars
<1>2. CASE NoPlanningScene \/ StartStateInvalid \/ GoalConstraintCountInvalid
           \/ GoalNotJointSpace \/ GoalStateInvalid
  BY <1>1, <1>2 DEF NoPlanningScene, StartStateInvalid, GoalConstraintCountInvalid,
     GoalNotJointSpace, GoalStateInvalid
<1>3. CASE CreateTrajectory \/ SetGoal \/ FixWrapAroundGoal \/ FillInterpolated
           \/ FillFromCsv \/ FillInvalidMethod
  <2>1. /\ pc \in {"entry", "goal", "adjust", "fill"}
        /\ pc' \in {"goal", "adjust", "fill", "store"}
        /\ UNCHANGED <<req, res>> /\ UNCHANGED loopVars
    BY <1>3 DEF CreateTrajectory, SetGoal, FixWrapAroundGoal, FillInterpolated,
       FillFromCsv, FillInvalidMethod
  <2>2. RecoveryState = "init" /\ RecoveryState' = "init"
    BY <2>1 DEF RecoveryState
  <2>3. RecoveryParams = params /\ RecoveryParams' = params'
    BY <2>1 DEF RecoveryParams
  <2> QED BY <2>1, <2>2, <2>3 DEF loopVars, Recovery!avars
<1>4. CASE StoreParams
  <2>1. /\ pc = "store" /\ pc' = "attempt" /\ replanFlag' = FALSE
        /\ params' = CallerParams /\ replanCount' = 0 /\ UNCHANGED req
    BY <1>4 DEF StoreParams
  <2>2. RecoveryState = "init" /\ RecoveryState' = "attempting"
    BY <2>1 DEF RecoveryState
  <2>3. RecoveryParams' = CallerParams
    BY <2>1 DEF RecoveryParams
  <2> QED BY <2>1, <2>2, <2>3 DEF Recovery!Next, Recovery!Begin
<1>5. CASE OptimizerInitFailed
  <2>1. /\ pc = "attempt" /\ pc' = "done"
        /\ res'.code = "PLANNING_FAILED"
        /\ params' = IF replanFlag THEN Escalate(params) ELSE params
        /\ UNCHANGED <<req, replanCount, replanFlag>>
    BY <1>5 DEF OptimizerInitFailed
  <2>2. RecoveryState = "attempting" /\ RecoveryState' = "initfailed"
    BY <2>1 DEF RecoveryState
  <2>3. RecoveryParams' = RecoveryParams
    BY <2>1 DEF RecoveryParams
  <2> QED BY <2>1, <2>2, <2>3 DEF Recovery!Next, Recovery!InitFails
<1>6. CASE CreateOptimizer \/ Optimize
  <2>1. /\ pc \in {"attempt", "optimize"} /\ pc' \in {"optimize", "decide"}
        /\ params' = IF pc = "attempt" /\ replanFlag THEN Escalate(params) ELSE params
        /\ UNCHANGED <<req, replanCount, replanFlag>>
    BY <1>6 DEF CreateOptimizer, Optimize
  <2>2. RecoveryState = "attempting" /\ RecoveryState' = "attempting"
    BY <2>1 DEF RecoveryState
  <2>3. RecoveryParams' = RecoveryParams
    BY <2>1 DEF RecoveryParams
  <2> QED BY <2>1, <2>2, <2>3 DEF Recovery!avars
<1>7. CASE Retry
  <2>1. /\ pc = "decide" /\ pc' = "attempt" /\ replanFlag' = TRUE
        /\ req.recovery /\ replanCount < req.maxRecovery
        /\ replanCount' = replanCount + 1 /\ UNCHANGED <<req, params>>
    BY <1>7 DEF Retry
  <2>2. RecoveryState = "attempting" /\ RecoveryState' = "attempting"
    BY <2>1 DEF RecoveryState
  <2>3. RecoveryParams = params /\ RecoveryParams' = Escalate(params)
    BY <2>1 DEF RecoveryParams
  <2>4. Escalate(params) = Recovery!EscalateOnce(params)
    BY DEF Escalate, Recovery!EscalateOnce
  <2> QED BY <2>1, <2>2, <2>3, <2>4 DEF Recovery!Next, Recovery!RetryAttempt
<1>8. CASE EndRecovery
  <2>1. /\ pc = "decide" /\ pc' = "output" /\ params' = CallerParams
        /\ ~(req.recovery /\ ~optResult /\ replanCount < req.maxRecovery)
        /\ UNCHANGED <<req, replanCount, optResult>>
    BY <1>8 DEF EndRecovery
  <2>2. RecoveryState = "attempting"
    BY <2>1 DEF RecoveryState
  <2>3. RecoveryState' = IF optResult THEN "success" ELSE "exhausted"
    BY <2>1 DEF RecoveryState
  <2>4. RecoveryParams' = CallerParams
    BY <2>1 DEF RecoveryParams
  <2>5. CASE optResult
    BY <2>1, <2>2, <2>3, <2>4, <2>5 DEF Recovery!Next, Recovery!Succeeded
  <2>6. CASE ~optResult
    BY <2>1, <2>2, <2>3, <2>4, <2>6 DEF Recovery!Next, Recovery!Exhaust
  <2> QED BY <2>5, <2>6
<1>9. CASE EmitTrajectory \/ CollisionGateFails \/ GoalGateFails \/ Succeed
  <2>1. /\ pc \in {"output", "gates"}
        /\ pc' \in {"gates", "done"}
        /\ pc' = "done" => res'.code \in {"SUCCESS", "INVALID_MOTION_PLAN",
                                          "GOAL_CONSTRAINTS_VIOLATED"}
        /\ UNCHANGED <<req, params, replanCount, replanFlag, optResult>>
    <3>1. CASE EmitTrajectory
      BY <3>1 DEF EmitTrajectory, loopVars
    <3>2. CASE CollisionGateFails \/ GoalGateFails
      <4>1. pc = "gates"
        BY <3>2 DEF CollisionGateFails, GoalGateFails
      <4>2. res = [code |-> "SUCCESS", trajectory |-> res.trajectory]
        BY <4>1 DEF GatesInv
      <4> QED BY <3>2, <4>1, <4>2 DEF CollisionGateFails, GoalGateFails, Fail, loopVars
    <3>3. CASE Succeed
      <4>1. pc = "gates" /\ pc' = "done" /\ res' = res
            /\ UNCHANGED <<req, params, replanCount, replanFlag, optResult>>
        BY <3>3 DEF Succeed, loopVars
      <4>2. res.code = "SUCCESS"
        BY <4>1 DEF GatesInv
      <4> QED BY <4>1, <4>2
    <3> QED BY <1>9, <3>1, <3>2, <3>3
  <2>2. RecoveryState = IF optResult THEN "success" ELSE "exhausted"
    BY <2>1 DEF RecoveryState
  <2>3. RecoveryState' = IF optResult THEN "success" ELSE "exhausted"
    BY <2>1 DEF RecoveryState
  <2>4. RecoveryParams' = RecoveryParams
    BY <2>1 DEF RecoveryParams
  <2> QED BY <2>1, <2>2, <2>3, <2>4 DEF Recovery!avars
<1>10. CASE UNCHANGED vars
  BY <1>10 DEF vars, Recovery!avars, RecoveryState, RecoveryParams
<1> QED BY <1>2, <1>3, <1>4, <1>5, <1>6, <1>7, <1>8, <1>9, <1>10 DEF Next

\* RefinesRecovery: the replanning loop of solve() (lines 183-253) is a
\* RecoveryController as spec section 4.6 describes it: retries only while
\* recovery is enabled and attempts remain, each with the parameters
\* escalated once more, and the caller's parameters restored on every
\* normal exit from the loop.
THEOREM RecoveryRefinement == Spec => RefinesRecovery
<1>1. Spec => []GatesInv
  BY GatesInvariant
<1> QED BY <1>1, InitRefined, StepRefined, PTL DEF Spec, RefinesRecovery, Recovery!Spec

=============================================================================
