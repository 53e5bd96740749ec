------------------------- MODULE ChompPlannerProofs -------------------------
(***************************************************************************)
(* Proofs about ChompPlanner for every NumPoints >= 2, every stencil width *)
(* DiffRuleLength >= 2 and every set of requests.                          *)
(***************************************************************************)
EXTENDS ChompPlanner, TLAPS

USE NumPointsAssumption, DiffRuleAssumption, NumJointsAssumption,
    MaxRecoveryAssumption, CallerParamsAssumption

\* The canonical trajectory has the shape the constructor of line 69 gives it.
TrajType ==
  [n : {NumPoints}, s : {1}, e : {NumPoints - 2},
   rows : [0 .. NumPoints - 1 -> RowType]]

\* Every row stands for its own instant.
Aligned(t) == \A i \in 0 .. NumPoints - 1 : t.rows[i].at = i

\* The inductive invariant: TypeOK and TrajAligned, and between building an
\* optimizer and running it, the optimizer's working copy is the padded copy
\* of the current trajectory.
IInv ==
  /\ TypeOK
  /\ TrajAligned
  /\ pc = "optimize" => group = PaddedCopy(traj, DiffRuleLength)
  /\ pc = "entry" => traj = NewTrajectory(NumPoints)

-----------------------------------------------------------------------------
(* Lemmas about the buffer operators.                                      *)

\* The padded copy of an aligned canonical trajectory is well typed, its
\* index map stays in the source and each of its rows stands for the
\* instant its index map names.
LEMMA PaddedCopyFacts ==
  ASSUME NEW t \in TrajType
  PROVE  LET P == PaddedCopy(t, DiffRuleLength)
         IN  /\ DOMAIN P = {"n", "s", "e", "fti", "rows"}
             /\ P.n = NumPoints + 2 * DiffRuleLength - 4
             /\ P.n \in Nat /\ P.s \in Int /\ P.e \in Int
             /\ P.s = DiffRuleLength - 1
             /\ P.fti \in [0 .. P.n - 1 -> 0 .. NumPoints - 1]
             /\ P.rows \in [0 .. P.n - 1 -> RowType]
             /\ \A k \in 0 .. P.n - 1 : P.rows[k] = t.rows[P.fti[k]]
             /\ \A k \in 0 .. P.n - 1 : P.fti[k] = SourcePoint(t, DiffRuleLength, k)
<1> DEFINE d == DiffRuleLength
           n == NumPoints + 2 * d - 4
<1>1. t.n = NumPoints /\ t.s = 1 /\ t.e = NumPoints - 2
  BY DEF TrajType
<1>2. StartExtra(t, d) = d - 2 /\ EndExtra(t, d) = d - 2
  BY <1>1 DEF StartExtra, EndExtra
<1>3. \A k \in Int : SourcePoint(t, d, k) \in 0 .. NumPoints - 1
  BY <1>1, <1>2 DEF SourcePoint
<1>9. t.n + StartExtra(t, d) + EndExtra(t, d) = n
  BY <1>1, <1>2
<1>4. PaddedCopy(t, d) =
        [n    |-> n,
         s    |-> d - 1,
         e    |-> (n - 1) - (d - 1),
         fti  |-> [i \in 0 .. n - 1 |-> SourcePoint(t, d, i)],
         rows |-> [i \in 0 .. n - 1 |-> t.rows[SourcePoint(t, d, i)]]]
  BY <1>9, Zenon DEF PaddedCopy
<1>5. n \in Nat
  OBVIOUS
<1>6. t.rows \in [0 .. NumPoints - 1 -> RowType]
  BY DEF TrajType
<1>7. \A k \in 0 .. n - 1 : SourcePoint(t, d, k) \in 0 .. NumPoints - 1
  BY <1>3
<1>8. [i \in 0 .. n - 1 |-> t.rows[SourcePoint(t, d, i)]] \in [0 .. n - 1 -> RowType]
  BY <1>6, <1>7
<1> QED BY <1>4, <1>5, <1>7, <1>8

\* The optimizer changes neither the shape nor the types of its copy.
LEMMA OptimizeGroupFacts ==
  ASSUME NEW g, DOMAIN g = {"n", "s", "e", "fti", "rows"},
         g.n \in Nat, g.s \in Int, g.e \in Int,
         g.fti \in [0 .. g.n - 1 -> 0 .. NumPoints - 1],
         g.rows \in [0 .. g.n - 1 -> RowType]
  PROVE  LET O == OptimizeGroup(g)
         IN  /\ DOMAIN O = {"n", "s", "e", "fti", "rows"}
             /\ O.n = g.n /\ O.s = g.s /\ O.e = g.e /\ O.fti = g.fti
             /\ O.rows \in [0 .. g.n - 1 -> RowType]
             /\ \A k \in 0 .. g.n - 1 : O.rows[k].at = g.rows[k].at
  BY DEF OptimizeGroup, Row, RowType, RowKinds

\* Merging the optimized padded copy of an aligned trajectory back into it
\* gives an aligned trajectory of the same shape.
LEMMA MergeAligned ==
  ASSUME NEW t \in TrajType,
         \A i \in 0 .. NumPoints - 1 : t.rows[i].at = i
  PROVE  LET P == PaddedCopy(t, DiffRuleLength)
             M == UpdateFromGroupTrajectory(t, OptimizeGroup(P))
         IN  /\ M \in TrajType
             /\ \A i \in 0 .. NumPoints - 1 : M.rows[i].at = i
<1> DEFINE P == PaddedCopy(t, DiffRuleLength)
           O == OptimizeGroup(P)
           M == UpdateFromGroupTrajectory(t, O)
<1>1. /\ DOMAIN P = {"n", "s", "e", "fti", "rows"}
      /\ P.n = NumPoints + 2 * DiffRuleLength - 4
      /\ P.n \in Nat /\ P.s \in Int /\ P.e \in Int
      /\ P.s = DiffRuleLength - 1
      /\ P.fti \in [0 .. P.n - 1 -> 0 .. NumPoints - 1]
      /\ P.rows \in [0 .. P.n - 1 -> RowType]
      /\ \A k \in 0 .. P.n - 1 : P.rows[k] = t.rows[P.fti[k]]
      /\ \A k \in 0 .. P.n - 1 : P.fti[k] = SourcePoint(t, DiffRuleLength, k)
  BY PaddedCopyFacts
<1>2. /\ O.s = P.s
      /\ O.rows \in [0 .. P.n - 1 -> RowType]
      /\ \A k \in 0 .. P.n - 1 : O.rows[k].at = P.rows[k].at
  BY <1>1, OptimizeGroupFacts
<1>3. \A i \in 1 .. NumPoints - 2 :
        /\ P.s + (i - 1) \in 0 .. P.n - 1
        /\ P.fti[P.s + (i - 1)] = i
  <2> SUFFICES ASSUME NEW i \in 1 .. NumPoints - 2
               PROVE  /\ P.s + (i - 1) \in 0 .. P.n - 1
                      /\ P.fti[P.s + (i - 1)] = i
    OBVIOUS
  <2>0. P.s = DiffRuleLength - 1 /\ P.n = NumPoints + 2 * DiffRuleLength - 4
    BY <1>1
  <2>1. P.s + (i - 1) \in 0 .. P.n - 1
    BY <2>0
  <2>2. t.n = NumPoints /\ t.s = 1
    BY DEF TrajType
  <2>3. SourcePoint(t, DiffRuleLength, P.s + (i - 1)) = i
    BY <2>0, <2>2 DEF SourcePoint, StartExtra
  <2>4. \A k \in 0 .. P.n - 1 : P.fti[k] = SourcePoint(t, DiffRuleLength, k)
    BY <1>1
  <2> QED
    BY <2>1, <2>3, <2>4
<1>4. \A i \in 1 .. NumPoints - 2 :
        /\ O.rows[O.s + (i - 1)] \in RowType
        /\ O.rows[O.s + (i - 1)].at = i
  <2> SUFFICES ASSUME NEW i \in 1 .. NumPoints - 2
               PROVE  /\ O.rows[O.s + (i - 1)] \in RowType
                      /\ O.rows[O.s + (i - 1)].at = i
    OBVIOUS
  <2>1. P.s + (i - 1) \in 0 .. P.n - 1 /\ P.fti[P.s + (i - 1)] = i
    BY <1>3
  <2>2. P.rows[P.s + (i - 1)] = t.rows[i]
    BY <2>1, <1>1
  <2>3. O.rows[P.s + (i - 1)] \in RowType
    BY <2>1, <1>2
  <2>4. O.rows[P.s + (i - 1)].at = t.rows[i].at
    BY <2>1, <2>2, <1>2
  <2>5. t.rows[i].at = i
    OBVIOUS
  <2> QED BY <2>3, <2>4, <2>5, <1>2
<1>5. t.s = 1 /\ t.e = NumPoints - 2 /\ DOMAIN t.rows = 0 .. NumPoints - 1
  BY DEF TrajType
<1>6. M = [t EXCEPT !.rows =
             [i \in DOMAIN t.rows |->
                IF t.s <= i /\ i < t.s + (t.e - t.s + 1)
                  THEN O.rows[O.s + (i - t.s)]
                  ELSE t.rows[i]]]
  BY DEF UpdateFromGroupTrajectory, M
<1> DEFINE R == [i \in 0 .. NumPoints - 1 |->
                  IF 1 <= i /\ i < 1 + (NumPoints - 2)
                    THEN O.rows[O.s + (i - 1)]
                    ELSE t.rows[i]]
<1>7. M = [t EXCEPT !.rows = R]
  <2>1. t.s + (t.e - t.s + 1) = 1 + (NumPoints - 2)
    BY <1>5, NumPointsAssumption
  <2>2. [i \in DOMAIN t.rows |->
           IF t.s <= i /\ i < t.s + (t.e - t.s + 1)
             THEN O.rows[O.s + (i - t.s)]
             ELSE t.rows[i]] = R
    BY <1>5, <2>1
  <2> QED
    BY <1>6, <2>2
<1>8. R \in [0 .. NumPoints - 1 -> RowType]
  <2> SUFFICES ASSUME NEW i \in 0 .. NumPoints - 1
               PROVE  R[i] \in RowType
    OBVIOUS
  <2>1. CASE 1 <= i /\ i < 1 + (NumPoints - 2)
    <3>1. i \in 1 .. NumPoints - 2
      BY <2>1
    <3> QED BY <2>1, <3>1, <1>4
  <2>2. CASE ~(1 <= i /\ i < 1 + (NumPoints - 2))
    BY <2>2 DEF TrajType
  <2> QED BY <2>1, <2>2
<1>9. \A i \in 0 .. NumPoints - 1 : R[i].at = i
  BY <1>4
<1> QED BY <1>7, <1>8, <1>9 DEF TrajType

\* A freshly built trajectory, and one with a row set for its own instant.
LEMMA NewTrajectoryFacts ==
  /\ NewTrajectory(NumPoints) \in TrajType
  /\ Aligned(NewTrajectory(NumPoints))
  BY DEF NewTrajectory, TrajType, Aligned, Row, RowType, RowKinds

LEMMA SetPointFacts ==
  ASSUME NEW t \in TrajType, Aligned(t),
         NEW i \in 0 .. NumPoints - 1, NEW k \in RowKinds
  PROVE  /\ SetPoint(t, i, Row(k, i)) \in TrajType
         /\ Aligned(SetPoint(t, i, Row(k, i)))
  BY DEF SetPoint, TrajType, Aligned, Row, RowType

\* The interpolation fillers keep the shape and write each row for its own
\* instant.
LEMMA FillInteriorFacts ==
  ASSUME NEW t \in TrajType, Aligned(t)
  PROVE  /\ FillInterior(t) \in TrajType
         /\ Aligned(FillInterior(t))
<1>1. DOMAIN t.rows = 0 .. NumPoints - 1
  BY DEF TrajType
<1> DEFINE R == [j \in 0 .. NumPoints - 1 |->
                  IF t.s - 1 < j /\ j < t.e + 1 THEN Row("interp", j) ELSE t.rows[j]]
<1>2. FillInterior(t) = [t EXCEPT !.rows = R]
  BY <1>1 DEF FillInterior
<1>3. R \in [0 .. NumPoints - 1 -> RowType] /\ \A j \in 0 .. NumPoints - 1 : R[j].at = j
  BY DEF TrajType, Aligned, Row, RowType, RowKinds
<1> QED BY <1>2, <1>3 DEF TrajType, Aligned

\* TypeOK split into one predicate per variable.
GroupOK(g) ==
  /\ DOMAIN g = {"n", "s", "e", "fti", "rows"}
  /\ g.n \in Nat /\ g.s \in Int /\ g.e \in Int
  /\ g.fti \in [0 .. g.n - 1 -> 0 .. NumPoints - 1]
  /\ g.rows \in [0 .. g.n - 1 -> RowType]

ResType ==
  [code : ErrorCodes, trajectory : [0 .. NumPoints - 1 -> Waypoint] \cup {NoTrajectory}]

ParamsType == [lr : Nat, rf : Nat, tl : Nat, mi : Nat]

TypeParts ==
  /\ pc \in PCs
  /\ req \in Requests
  /\ traj \in TrajType
  /\ GroupOK(group)
  /\ params \in ParamsType
  /\ replanCount \in Nat
  /\ replanFlag \in BOOLEAN
  /\ optResult \in BOOLEAN
  /\ collisionFree \in BOOLEAN
  /\ res \in ResType
  /\ ret \in BOOLEAN

LEMMA TypeOKParts == TypeOK <=> TypeParts
  BY DEF TypeOK, TypeParts, GroupOK, ResType, ParamsType, TrajType

LEMMA TypeOKPartsPrime == TypeOK' <=> TypeParts'
  BY DEF TypeOK, TypeParts, GroupOK, ResType, ParamsType, TrajType

-----------------------------------------------------------------------------
(* The inductive invariant.                                                *)

LEMMA InitIInv == Init => IInv
<1> SUFFICES ASSUME Init PROVE IInv
  OBVIOUS
<1>1. traj \in TrajType /\ Aligned(traj)
  BY NewTrajectoryFacts DEF Init
<1>2. /\ DOMAIN group = {"n", "s", "e", "fti", "rows"}
      /\ group.n \in Nat /\ group.s \in Int /\ group.e \in Int
      /\ group.fti \in [0 .. group.n - 1 -> 0 .. NumPoints - 1]
      /\ group.rows \in [0 .. group.n - 1 -> RowType]
  BY DEF Init, NoGroup
<1>3. res \in [code : ErrorCodes,
               trajectory : [0 .. NumPoints - 1 -> Waypoint] \cup {NoTrajectory}]
  BY DEF Init, ErrorCodes, NoTrajectory
<1>4. TypeParts
  BY <1>1, <1>2, <1>3 DEF Init, TypeParts, GroupOK, ResType, ParamsType, PCs
<1> QED BY <1>1, <1>4, TypeOKParts DEF Init, IInv, TrajAligned, Aligned

\* Every early "return false" keeps the invariant.
LEMMA FailStep ==
  ASSUME IInv, NEW code \in ErrorCodes, Fail(code)
  PROVE  IInv'
<1>1. TypeParts /\ TrajAligned
  BY TypeOKParts DEF IInv
<1>2. res' \in ResType
  BY <1>1 DEF Fail, ResType, TypeParts
<1>3. GroupOK(group')
  BY <1>1 DEF Fail, TypeParts
<1>4. TypeParts'
  BY <1>1, <1>2, <1>3 DEF Fail, TypeParts, loopVars, PCs
<1>5. TrajAligned'
  BY <1>1 DEF Fail, TrajAligned
<1>6. pc' = "done"
  BY DEF Fail
<1> QED BY <1>4, <1>5, <1>6, TypeOKPartsPrime DEF IInv

\* One step that keeps the trajectory, the working copy and the result.
LEMMA NextIInv == IInv /\ [Next]_vars => IInv'
<1> SUFFICES ASSUME IInv, [Next]_vars PROVE IInv'
  OBVIOUS
<1>0. /\ TypeParts /\ TrajAligned
      /\ pc = "optimize" => group = PaddedCopy(traj, DiffRuleLength)
      /\ pc = "entry" => traj = NewTrajectory(NumPoints)
  BY TypeOKParts DEF IInv
<1>1. ASSUME NEW code \in ErrorCodes, Fail(code) PROVE IInv'
  BY <1>1, FailStep
<1>2. CASE NoPlanningScene \/ StartStateInvalid \/ GoalConstraintCountInvalid
           \/ GoalNotJointSpace \/ GoalStateInvalid \/ CollisionGateFails
           \/ GoalGateFails
  BY <1>1, <1>2 DEF NoPlanningScene, StartStateInvalid, GoalConstraintCountInvalid,
     GoalNotJointSpace, GoalStateInvalid, CollisionGateFails, GoalGateFails, ErrorCodes
<1>3. CASE CreateTrajectory
  <2>1. /\ traj' = SetPoint(NewTrajectory(NumPoints), 0, Row("start", 0))
        /\ pc' = "goal" /\ UNCHANGED <<req, group, res, ret>> /\ UNCHANGED loopVars
    BY <1>3 DEF CreateTrajectory
  <2>2. traj' \in TrajType /\ Aligned(traj')
    BY <2>1, NewTrajectoryFacts, SetPointFacts DEF RowKinds
  <2>3. TypeParts'
    BY <2>1, <2>2, <1>0 DEF TypeParts, loopVars, PCs, GroupOK
  <2> QED BY <2>1, <2>2, <2>3, TypeOKPartsPrime DEF IInv, TrajAligned, Aligned
<1>4. CASE SetGoal \/ FixWrapAroundGoal
  <2>1. /\ traj' = SetPoint(traj, GoalIndex, Row("goal", GoalIndex))
        /\ pc' \in {"adjust", "fill"} /\ UNCHANGED <<req, group, res, ret>>
        /\ UNCHANGED loopVars
    BY <1>4 DEF SetGoal, FixWrapAroundGoal
  <2>2. traj \in TrajType /\ Aligned(traj)
    BY <1>0 DEF TypeParts, TrajAligned, Aligned
  <2>3. traj' \in TrajType /\ Aligned(traj')
    BY <2>1, <2>2, SetPointFacts DEF RowKinds, GoalIndex
  <2>4. TypeParts'
    BY <2>1, <2>3, <1>0 DEF TypeParts, loopVars, PCs, GroupOK
  <2> QED BY <2>1, <2>3, <2>4, TypeOKPartsPrime DEF IInv, TrajAligned, Aligned
<1>5. CASE FillInterpolated
  <2>1. /\ traj' = FillInterior(traj)
        /\ pc' = "store" /\ UNCHANGED <<req, group, res, ret>> /\ UNCHANGED loopVars
    BY <1>5 DEF FillInterpolated
  <2>2. traj \in TrajType /\ Aligned(traj)
    BY <1>0 DEF TypeParts, TrajAligned, Aligned
  <2>3. traj' \in TrajType /\ Aligned(traj')
    BY <2>1, <2>2, FillInteriorFacts
  <2>4. TypeParts'
    BY <2>1, <2>3, <1>0 DEF TypeParts, loopVars, PCs, GroupOK
  <2> QED BY <2>1, <2>3, <2>4, TypeOKPartsPrime DEF IInv, TrajAligned, Aligned
<1>6. CASE FillFromCsv
  <2>1. PICK first \in {"csv", "start"}, last \in {"csv", "goal"} :
          traj' = [traj EXCEPT !.rows =
                     [i \in 0 .. NumPoints - 1 |->
                        IF i = 0 THEN Row(first, 0)
                        ELSE IF i = GoalIndex THEN Row(last, GoalIndex)
                        ELSE Row("csv", i)]]
    BY <1>6, Zenon DEF FillFromCsv
  <2>2. pc' = "store" /\ UNCHANGED <<req, group, res, ret>> /\ UNCHANGED loopVars
    BY <1>6 DEF FillFromCsv
  <2>3. traj \in TrajType
    BY <1>0 DEF TypeParts
  <2> DEFINE R == [i \in 0 .. NumPoints - 1 |->
                     IF i = 0 THEN Row(first, 0)
                     ELSE IF i = GoalIndex THEN Row(last, GoalIndex)
                     ELSE Row("csv", i)]
  <2>a. traj' = [traj EXCEPT !.rows = R]
    BY <2>1
  <2>b. R \in [0 .. NumPoints - 1 -> RowType]
    BY DEF Row, RowType, RowKinds, GoalIndex
  <2>c. \A i \in 0 .. NumPoints - 1 : R[i].at = i
    BY DEF Row, GoalIndex
  <2>4. traj' \in TrajType /\ Aligned(traj')
    BY <2>a, <2>b, <2>c, <2>3 DEF TrajType, Aligned
  <2>5. TypeParts'
    BY <2>2, <2>4, <1>0 DEF TypeParts, loopVars, PCs, GroupOK
  <2> QED BY <2>2, <2>4, <2>5, TypeOKPartsPrime DEF IInv, TrajAligned, Aligned
<1>7. CASE FillInvalidMethod \/ Succeed \/ UNCHANGED vars
  <2>1. /\ pc' \in {"store", "done", pc}
        /\ UNCHANGED <<req, traj, group, res>> /\ UNCHANGED loopVars
        /\ ret' \in BOOLEAN
    <3>1. CASE FillInvalidMethod
      BY <3>1, <1>0 DEF FillInvalidMethod, TypeParts
    <3>2. CASE Succeed
      BY <3>2 DEF Succeed
    <3>3. CASE UNCHANGED vars
      BY <3>3, <1>0 DEF vars, loopVars, TypeParts
    <3> QED BY <1>7, <3>1, <3>2, <3>3
  <2>2. GroupOK(group')
    BY <2>1, <1>0 DEF TypeParts
  <2>3. pc' \in PCs
    BY <2>1, <1>0 DEF TypeParts, PCs
  <2>4. TypeParts'
    BY <2>1, <2>2, <2>3, <1>0 DEF TypeParts, loopVars
  <2>5. pc' = "optimize" => group' = PaddedCopy(traj', DiffRuleLength)
    BY <2>1, <1>0
  <2>6. pc' = "entry" => traj' = NewTrajectory(NumPoints)
    BY <2>1, <1>0
  <2> QED BY <2>1, <2>4, <2>5, <2>6, <1>0, TypeOKPartsPrime DEF IInv, TrajAligned
<1>8. CASE StoreParams \/ EndRecovery
  <2>1. /\ params' = CallerParams /\ pc' \in {"attempt", "output"}
        /\ UNCHANGED <<req, traj, group, res, ret, optResult, collisionFree>>
    BY <1>8 DEF StoreParams, EndRecovery
  <2>2. replanCount' \in Nat /\ replanFlag' \in BOOLEAN
    <3>1. CASE StoreParams
      BY <3>1 DEF StoreParams
    <3>2. CASE EndRecovery
      BY <3>2, <1>0 DEF EndRecovery, TypeParts
    <3> QED BY <1>8, <3>1, <3>2
  <2>3. GroupOK(group')
    BY <2>1, <1>0 DEF TypeParts
  <2>4. TypeParts'
    BY <2>1, <2>2, <2>3, <1>0 DEF TypeParts, ParamsType, PCs
  <2> QED BY <2>1, <2>4, <1>0, TypeOKPartsPrime DEF IInv, TrajAligned
<1>9. CASE Retry
  <2>1. /\ replanCount' = replanCount + 1 /\ replanFlag' = TRUE /\ pc' = "attempt"
        /\ UNCHANGED <<req, traj, group, params, optResult, collisionFree, res, ret>>
    BY <1>9 DEF Retry
  <2>2. TypeParts'
    BY <2>1, <1>0 DEF TypeParts, PCs, GroupOK
  <2> QED BY <2>1, <2>2, <1>0, TypeOKPartsPrime DEF IInv, TrajAligned
<1>10. CASE OptimizerInitFailed
  <2>1. /\ params' = IF replanFlag THEN Escalate(params) ELSE params
        /\ pc' = "done" /\ res' = [res EXCEPT !.code = "PLANNING_FAILED"]
        /\ ret' = FALSE
        /\ UNCHANGED <<req, traj, group, replanCount, replanFlag, optResult, collisionFree>>
    BY <1>10 DEF OptimizerInitFailed
  <2>2. params' \in ParamsType
    BY <2>1, <1>0 DEF Escalate, ParamsType, TypeParts
  <2>3. res' \in ResType
    BY <2>1, <1>0 DEF ResType, TypeParts, ErrorCodes
  <2>4. GroupOK(group')
    BY <2>1, <1>0 DEF TypeParts
  <2>5. TypeParts'
    BY <2>1, <2>2, <2>3, <2>4, <1>0 DEF TypeParts, PCs
  <2> QED BY <2>1, <2>5, <1>0, TypeOKPartsPrime DEF IInv, TrajAligned
<1>11. CASE CreateOptimizer
  <2>1. /\ params' = IF replanFlag THEN Escalate(params) ELSE params
        /\ group' = PaddedCopy(traj, DiffRuleLength) /\ pc' = "optimize"
        /\ UNCHANGED <<req, traj, replanCount, replanFlag, optResult, collisionFree, res, ret>>
    BY <1>11 DEF CreateOptimizer
  <2>2. params' \in ParamsType
    BY <2>1, <1>0 DEF Escalate, ParamsType, TypeParts
  <2>3. traj \in TrajType
    BY <1>0 DEF TypeParts
  <2>4. GroupOK(group')
    BY <2>1, <2>3, PaddedCopyFacts DEF GroupOK
  <2>5. TypeParts'
    BY <2>1, <2>2, <2>4, <1>0 DEF TypeParts, PCs
  <2> QED BY <2>1, <2>5, <1>0, TypeOKPartsPrime DEF IInv, TrajAligned
<1>12. CASE Optimize
  <2>1. /\ group' = OptimizeGroup(group)
        /\ traj' = UpdateFromGroupTrajectory(traj, OptimizeGroup(group))
        /\ optResult' \in BOOLEAN /\ collisionFree' \in BOOLEAN /\ pc' = "decide"
        /\ UNCHANGED <<req, params, replanCount, replanFlag, res, ret>>
    BY <1>12 DEF Optimize
  <2>2. traj \in TrajType /\ Aligned(traj) /\ group = PaddedCopy(traj, DiffRuleLength)
    BY <1>12, <1>0 DEF Optimize, TypeParts, TrajAligned, Aligned
  <2>3. traj' \in TrajType /\ Aligned(traj')
    BY <2>1, <2>2, MergeAligned DEF Aligned
  <2>4. GroupOK(group)
    BY <1>0 DEF TypeParts
  <2>5. GroupOK(group')
    BY <2>1, <2>4, OptimizeGroupFacts DEF GroupOK
  <2>6. TypeParts'
    BY <2>1, <2>3, <2>5, <1>0 DEF TypeParts, PCs
  <2> QED BY <2>1, <2>3, <2>6, TypeOKPartsPrime DEF IInv, TrajAligned, Aligned
<1>13. CASE EmitTrajectory
  <2>1. PICK junk \in [Joints -> {"zero", "garbage"}] :
          res' = [code |-> "SUCCESS",
                  trajectory |->
                    [i \in 0 .. NumPoints - 1 |->
                       [pos |-> traj.rows[i],
                        vel |-> [j \in Joints |->
                                   IF i \in {0, GoalIndex}
                                     THEN IF j <= InitialVelSize THEN "zero" ELSE junk[j]
                                     ELSE "fd"]]]]
    BY <1>13, Zenon DEF EmitTrajectory
  <2>2. pc' = "gates" /\ UNCHANGED <<req, traj, group, ret>> /\ UNCHANGED loopVars
    BY <1>13 DEF EmitTrajectory
  <2>3. traj.rows \in [0 .. NumPoints - 1 -> RowType]
    BY <1>0 DEF TypeParts, TrajType
  <2>4. res' \in ResType
    BY <2>1, <2>3 DEF ResType, Waypoint, VelValues, ErrorCodes
  <2>5. TypeParts'
    BY <2>2, <2>4, <1>0 DEF TypeParts, loopVars, PCs, GroupOK
  <2> QED BY <2>2, <2>5, <1>0, TypeOKPartsPrime DEF IInv, TrajAligned
<1> QED BY <1>2, <1>3, <1>4, <1>5, <1>6, <1>7, <1>8, <1>9, <1>10, <1>11,
           <1>12, <1>13 DEF Next

-----------------------------------------------------------------------------
(* The recovery loop.                                                      *)

\* Inside the loop, the flag says whether an attempt has failed, and the
\* parameters are escalated once per failed attempt, counting the pending
\* escalation of line 209 as not yet done while at "attempt".
RecInv ==
  pc \in {"attempt", "optimize", "decide"} =>
    /\ (replanFlag <=> replanCount > 0)
    /\ params = EscalatedTimes(CallerParams,
                  IF pc = "attempt" /\ replanFlag THEN replanCount - 1 ELSE replanCount)
    /\ replanCount > 0 => req.recovery /\ replanCount <= req.maxRecovery

THEOREM TypeAndAlignment == Spec => []IInv
BY InitIInv, NextIInv, PTL DEF Spec

\* TypeOK holds in every reachable state, for all values of the constants.
THEOREM TypeCorrect == Spec => []TypeOK
<1>1. IInv => TypeOK
  BY DEF IInv
<1> QED BY <1>1, TypeAndAlignment, PTL

\* TrajAligned: after any number of optimizer runs, padded-copy
\* construction and updateFromGroupTrajectory agree, so every row of the
\* canonical trajectory holds a position for its own instant.
THEOREM TrajectoryAligned == Spec => []TrajAligned
<1>1. IInv => TrajAligned
  BY DEF IInv
<1> QED BY <1>1, TypeAndAlignment, PTL

\* Escalating the caller's parameters k times and once more is escalating
\* them k + 1 times.
LEMMA EscalateStep ==
  ASSUME NEW k \in Nat \ {0}
  PROVE  Escalate(EscalatedTimes(CallerParams, k - 1)) = EscalatedTimes(CallerParams, k)
  BY DEF Escalate, EscalatedTimes

LEMMA EscalatedZero == EscalatedTimes(CallerParams, 0) = CallerParams
  BY DEF EscalatedTimes

LEMMA InitRecInv == Init => RecInv
  BY DEF Init, RecInv

LEMMA NextRecInv == TypeOK /\ RecInv /\ [Next]_vars => RecInv'
<1> SUFFICES ASSUME TypeOK, RecInv, [Next]_vars PROVE RecInv'
  OBVIOUS
<1>0. replanCount \in Nat /\ req \in Requests /\ replanFlag \in BOOLEAN
  BY DEF TypeOK
<1>1. CASE StoreParams
  <2>1. params' = CallerParams /\ replanCount' = 0 /\ replanFlag' = FALSE
        /\ pc' = "attempt"
    BY <1>1 DEF StoreParams
  <2>2. (IF pc' = "attempt" /\ replanFlag' THEN replanCount' - 1 ELSE replanCount') = 0
    BY <2>1
  <2>3. (replanFlag' <=> replanCount' > 0) /\ ~(replanCount' > 0)
    BY <2>1
  <2> QED BY <2>1, <2>2, <2>3, EscalatedZero DEF RecInv
<1>2. CASE CreateOptimizer
  <2>1. /\ params' = IF replanFlag THEN Escalate(params) ELSE params
        /\ pc = "attempt" /\ pc' = "optimize"
        /\ UNCHANGED <<req, replanCount, replanFlag>>
    BY <1>2 DEF CreateOptimizer
  <2>2. params = EscalatedTimes(CallerParams,
                   IF replanFlag THEN replanCount - 1 ELSE replanCount)
        /\ (replanFlag <=> replanCount > 0)
    BY <2>1 DEF RecInv
  <2>3. params' = EscalatedTimes(CallerParams, replanCount)
    <3>1. CASE replanFlag
      <4>1. replanCount \in Nat \ {0}
        BY <3>1, <2>2, <1>0
      <4>2. params' = Escalate(EscalatedTimes(CallerParams, replanCount - 1))
        BY <3>1, <2>1, <2>2
      <4> QED BY <4>1, <4>2, EscalateStep
    <3>2. CASE ~replanFlag
      BY <3>2, <2>1, <2>2
    <3> QED BY <3>1, <3>2
  <2> QED BY <2>1, <2>2, <2>3 DEF RecInv
<1>3. CASE Optimize
  <2>1. pc = "optimize" /\ pc' = "decide"
        /\ UNCHANGED <<req, params, replanCount, replanFlag>>
    BY <1>3 DEF Optimize
  <2> QED BY <2>1 DEF RecInv
<1>4. CASE Retry
  <2>1. /\ pc = "decide" /\ req.recovery /\ replanCount < req.maxRecovery
        /\ replanCount' = replanCount + 1 /\ replanFlag' = TRUE /\ pc' = "attempt"
        /\ UNCHANGED <<req, params>>
    BY <1>4 DEF Retry
  <2>2. params = EscalatedTimes(CallerParams, replanCount)
    BY <2>1 DEF RecInv
  <2>3. req.maxRecovery \in Int
    BY <1>0, MaxRecoveryAssumption DEF Requests
  <2>4. replanCount' \in Nat /\ replanCount' > 0 /\ replanCount' - 1 = replanCount
    BY <2>1, <1>0
  <2>5. replanFlag' <=> replanCount' > 0
    BY <2>1, <2>4
  <2>6. params' = EscalatedTimes(CallerParams,
                    IF pc' = "attempt" /\ replanFlag' THEN replanCount' - 1 ELSE replanCount')
    BY <2>1, <2>2, <2>4
  <2>7. req'.recovery /\ replanCount' <= req'.maxRecovery
    BY <2>1, <2>3, <1>0
  <2> QED BY <2>1, <2>5, <2>6, <2>7 DEF RecInv
<1>5. CASE UNCHANGED vars
  BY <1>5 DEF vars, RecInv
<1>6. CASE ~(StoreParams \/ CreateOptimizer \/ Optimize \/ Retry \/ UNCHANGED vars)
  <2>1. pc' \notin {"attempt", "optimize", "decide"}
    BY <1>6 DEF Next, NoPlanningScene, StartStateInvalid, CreateTrajectory,
       GoalConstraintCountInvalid, GoalNotJointSpace, GoalStateInvalid, SetGoal,
       FixWrapAroundGoal, FillInterpolated, FillFromCsv, FillInvalidMethod,
       OptimizerInitFailed, EndRecovery, EmitTrajectory, CollisionGateFails,
       GoalGateFails, Succeed, Fail
  <2> QED BY <2>1 DEF RecInv
<1> QED BY <1>1, <1>2, <1>3, <1>4, <1>5, <1>6

\* RecoveryEscalation: every optimizer of the replanning loop runs with the
\* caller's parameters escalated once (setRecoveryParams, line 209) per
\* earlier failed attempt, and retries happen only with failure recovery
\* enabled and at most max_recovery_attempts_ times.
THEOREM RecoveryEscalationThm == Spec => []RecoveryEscalation
<1>1. RecInv => RecoveryEscalation
  BY DEF RecInv, RecoveryEscalation
<1>2. Spec => []RecInv
  BY TypeCorrect, InitRecInv, NextRecInv, PTL DEF Spec
<1> QED BY <1>1, <1>2, PTL

\* One step of solve() keeps the start and goal rows (BoundaryRowsKept).
LEMMA BoundaryStep ==
  IInv /\ [Next]_vars =>
    [req.method # "equal" =>
       /\ traj.rows[0].kind = "start" => traj'.rows[0].kind = "start"
       /\ traj.rows[GoalIndex].kind = "goal" => traj'.rows[GoalIndex].kind = "goal"
    ]_vars
<1> SUFFICES ASSUME IInv, [Next]_vars, req.method # "equal"
             PROVE  /\ traj.rows[0].kind = "start" => traj'.rows[0].kind = "start"
                    /\ traj.rows[GoalIndex].kind = "goal" => traj'.rows[GoalIndex].kind = "goal"
  OBVIOUS
<1>0. traj \in TrajType /\ (pc = "entry" => traj = NewTrajectory(NumPoints))
      /\ (pc = "optimize" => group = PaddedCopy(traj, DiffRuleLength))
  BY DEF IInv, TypeOK, TrajType
<1>1. CASE CreateTrajectory
  BY <1>0, <1>1 DEF CreateTrajectory, NewTrajectory, SetPoint, Row, GoalIndex
<1>2. CASE SetGoal \/ FixWrapAroundGoal
  <2>1. traj' = SetPoint(traj, GoalIndex, Row("goal", GoalIndex))
    BY <1>2 DEF SetGoal, FixWrapAroundGoal
  <2>2. traj'.rows[0] = traj.rows[0] \/ GoalIndex = 0
    BY <2>1, <1>0 DEF SetPoint, TrajType
  <2>3. traj'.rows[GoalIndex].kind = "goal"
    BY <2>1, <1>0 DEF SetPoint, Row, GoalIndex, TrajType
  <2>4. GoalIndex # 0
    BY DEF GoalIndex
  <2> QED BY <2>2, <2>3, <2>4
<1>3. CASE FillInterpolated
  BY <1>0, <1>3 DEF FillInterpolated, FillInterior, GoalIndex, TrajType
<1>4. CASE FillFromCsv
  BY <1>4 DEF FillFromCsv
<1>5. CASE Optimize
  <2>1. traj' = UpdateFromGroupTrajectory(traj, OptimizeGroup(group))
    BY <1>5 DEF Optimize
  <2>2. /\ traj'.rows[0] = traj.rows[0]
        /\ traj'.rows[GoalIndex] = traj.rows[GoalIndex]
    BY <1>0, <2>1 DEF UpdateFromGroupTrajectory, GoalIndex, TrajType
  <2> QED BY <2>2
<1>6. CASE ~(CreateTrajectory \/ SetGoal \/ FixWrapAroundGoal \/ FillInterpolated
             \/ FillFromCsv \/ Optimize)
  BY <1>6 DEF Next, vars, NoPlanningScene, StartStateInvalid,
     GoalConstraintCountInvalid, GoalNotJointSpace, GoalStateInvalid,
     FillInvalidMethod, StoreParams, OptimizerInitFailed, CreateOptimizer,
     Retry, EndRecovery, EmitTrajectory, CollisionGateFails, GoalGateFails,
     Succeed, Fail
<1> QED BY <1>1, <1>2, <1>3, <1>4, <1>5, <1>6

\* BoundaryRowsKept: with an interpolating initialisation, no step of
\* solve() after the start and goal rows are written changes them.
THEOREM BoundaryRowsKeptThm == Spec => BoundaryRowsKept
BY TypeAndAlignment, BoundaryStep, PTL DEF Spec, BoundaryRowsKept

=============================================================================
