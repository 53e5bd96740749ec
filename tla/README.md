# TLA+ models of the CHOMP trajectory buffer and planner

This directory holds TLA+ models of two files:
- `src/unnamed/part_000` is `chomp_trajectory.cpp`, the class `ChompTrajectory`;
- `src/moveit_planners/chomp/chomp_motion_planner/src/chomp_planner.cpp` is `ChompPlanner::solve`.

It also holds the TLC configurations that check the models, TLAPS proofs, and `PROJECT.json`. `PROJECT.json` lists components, runs, mutants, the definition-to-source map, findings, hazards and theorems.

## 1. The system

`ChompPlanner::solve` handles one planning request, on one thread, synchronously. In order:

1. **Validation.** It returns early when there is no planning scene (line 51), when the start state is out of bounds (62), when the goal constraint count is not 1 (72), when the goal is not joint-space only (79), and when the goal state is out of bounds (91).
2. **Trajectory buffer.** A `ChompTrajectory` of 89 points is built (69). Its row 0 is set to the start state (70) and its last row to the goal state (97).
3. **GoalAdjuster.** Continuous joints of the goal row are moved by `shortestAngularDistance` (99-119).
4. **Initial fill (121-181).** Three methods write the interior rows `start_index_ .. end_index_`: `quintic-spline`, `linear` and `cubic`. The method `equal` reads a CSV file and calls `setTrajectory`, which replaces the whole matrix. Any other method only logs an error.
5. **RecoveryController (183-253).** The loop repeats these steps:
   - escalate `params_nonconst` when replanning (209);
   - construct a `ChompOptimizer`, whose constructor makes a *padded copy* of the buffer (copy constructor, part_000:63-95);
   - return `PLANNING_FAILED` if the optimizer does not initialise;
   - otherwise run `optimize()`. It changes the free rows of the padded copy and merges them back with `updateFromGroupTrajectory` (part_000:102-107).

   With recovery enabled, a failed attempt is retried while `replan_count < max_recovery_attempts_`. When the loop ends, the parameters are restored (253).
6. **VelocityDeriver and output (258-304).** There is one waypoint per row. Interior waypoints get finite-difference velocities. The first and last waypoints get `initial_vel[j]`, a vector of 7 zeros. `res.trajectory_` is set and the error code becomes `SUCCESS`.
7. **Gates.** The collision gate (307-312) and the goal-tolerance gate on the last waypoint (315-325) may still turn the result into a failure.

The interactions that matter are these:
- The padded copy and the merge must agree on offsets for every attempt.
- Each retry starts from the previous attempt's merged output.
- The output is built before the gates run.

## 2. Modules

### `ChompTrajectory.tla`: the buffer (operators only)

A buffer is a record `[n, s, e, rows, fti]`. The fields stand for `num_points_`, `start_index_`, `end_index_`, the matrix and `full_trajectory_index_`.

A row is abstracted to `[kind, at]`:
- `kind` says who wrote the row: `undef` (never written after Eigen resize), `start`, `goal`, `interp`, `csv` or `opt`;
- `at` is the instant of the canonical trajectory the row stands for.

Joint values are not modelled. The properties are about which rows are written, from where, and for which instant.

| Definition | Code |
|---|---|
| `NewTrajectory` | constructor from `num_points` plus `init()`: `s = 1`, `e = n-2`, every row `undef` |
| `StartExtra`, `EndExtra`, `SourcePoint`, `PaddedCopy` | copy constructor, line by line, in plain int arithmetic (no `max(0, ..)` clamp, unlike the spec) |
| `UpdateFromGroupTrajectory` | block copy of `e-s+1` rows from `group.s`, with no size check |
| `FillInterior` | the rows the three interpolating fillers write (`s-1 < j < e+1`) |
| `OptimizeGroup` | the contract of the external optimizer: only the free rows of the copy change, each keeping its instant |

### `ChompPlanner.tla`: `solve()`

`pc` names the point of `solve()` reached. The request, the method, the recovery setting and `max_recovery_attempts_` are chosen from `Requests`. The optimizer's answers (`optimize()`, `isCollisionFree()`) are chosen nondeterministically.

Each early return is an action built on `Fail(code)`. Each block of `solve()` is one action:

| Block | Actions |
|---|---|
| Validation and setup | `CreateTrajectory`, `SetGoal`, `FixWrapAroundGoal` |
| Initial fill | `FillInterpolated`, `FillFromCsv`, `FillInvalidMethod` |
| Recovery loop | `StoreParams`, `CreateOptimizer` / `OptimizerInitFailed`, `Optimize` (optimize plus merge), `Retry`, `EndRecovery` (loop exit plus restore) |
| Output and gates | `EmitTrajectory`, `CollisionGateFails`, `GoalGateFails`, `Succeed` |

Parameters are scaled to integers:
- the learning rate in units of 0.01;
- the ridge factor in units of 0.001;
- the time limit in seconds;
- the iteration count.

`Escalate` adds (2, 2, 5, 50), which is exactly line 209.

### `RecoveryAbstract.tla`: what the recovery loop promises

The RecoveryController of spec section 4.6, with no optimizer or trajectory in it. `rstate` goes `init -> attempting -> success | exhausted`, or to `initfailed` when an optimizer does not initialise. `RetryAttempt` is allowed only with recovery on and `attempts < maxRec`, and it escalates `aparams` once. `Succeeded` and `Exhaust` restore the caller's parameters.

`ChompPlanner` maps onto it (`RecoveryState`, `RecoveryParams`, `Recovery == INSTANCE RecoveryAbstract WITH ...`):
- `rstate` is `attempting` for `pc` in `attempt`, `optimize`, `decide`. It is `initfailed` at `done` with `PLANNING_FAILED`. After the loop it is `success` or `exhausted` according to the last `optimize()` answer, and `init` before the loop.
- `aparams` is `params`, escalated once more at `attempt` while the escalation of line 209 is pending.
- `attempts` is `replan_count`.

No history variable is needed. On `initfailed` the abstract parameters are not restored: `solve()` returns from inside the loop (line 220) before the restore of line 253. `params_nonconst` is a local copy, so the caller's object is unaffected.

### `InterpolationFill.tla`: the values the fillers write

One joint column, as exact rationals `[num, den]`. `LinearValue`, `CubicValue` and `MinJerkValue` are the formulas of the three fillers with the time step cancelled:
- linear: `x0 + j (x1-x0)/(N-2)`;
- cubic: a cubic timed over `N-2` steps;
- min-jerk: the quintic timed over `N-1` steps.

Each filler is one action that writes every row strictly between the boundary rows.

### `Resampler.tla`: `fillInFromTrajectory`

The result is the sequence of waypoint indices written into rows `0, 1, ...`. Both branches of the code write rows in that order. `RepeatEmit` is the repeat-and-remainder loop, written as a recursive function over the waypoints. `DecimateEmit` is `floor(i*L/N)`, with the factor taken exactly. Rejection of fewer than two waypoints is its own action.

### `TrajectorySizing.tla`: the two constructors

`num_points = duration div discretization + 1` on whole time units, and `end_index_ = num_points - 2` on a `size_t` of `SizeBits` bits. The run uses 16 bits, because TLC's integers cannot hold `2^64`. `ShortDurationWraps` and `FreeRangeExactThm` (section 5) prove that the wrap is the same at any width.

### `MC_ChompPlanner.tla`: the model values

It defines the caller's parameters and `max_recovery_attempts_ ∈ {-1, 0, 2}`. The value -1 cannot be written in a cfg.

### `ChompPlannerProofs.tla`, `ChompRefinementProofs.tla`, `InterpolationFillProofs.tla`, `ResamplerProofs.tla`, `TrajectorySizingProofs.tla`: the TLAPS proofs

Each extends the module it proves things about, together with `TLAPS`. See section 5.

## 3. Runs

All runs use `NumPoints = 5` and `DiffRuleLength = 3`. Five points give three free rows, and a stencil width of 3 gives one row of padding on each side of the copy. So the copy has two more rows than the source and the merge offset is not the identity. That is the case where an off-by-one would show. All five initialisation methods are enumerated.

| Run | Expect | Checks |
|---|---|---|
| `planner` (`MC_ChompPlanner.cfg`) | pass | `TypeOK`, `TrajAligned`, `RecoveryEscalation`, `BoundaryRowsKept`, `Termination`, `RefinesRecovery` |
| `csv_boundaries` | violation | `SolvedTrajectoryStartsAtStartState` |
| `partial_result` | violation | `NoTrajectoryOnFailure` |
| `uninitialised_rows` | violation | `OptimizerInputInitialised` |
| `boundary_velocity` (8 joints) | violation | `BoundaryVelocityZero` |
| `fill_progress` (`MC_InterpolationFill.cfg`, min-jerk) | pass | `StepsProgress` |
| `fill_monotone` (`MC_InterpolationFill_all.cfg`, all three) | pass | `FillMonotone` |
| `fill_stall` (linear, cubic) | violation | `StepsProgress` |
| `resampler` (`MC_Resampler.cfg`) | pass | `ResampleLength`, `ResampleOrder` |
| `resample_goal` | violation | `ResampleEndsAtGoal` |
| `sizing_wrap` (`MC_TrajectorySizing.cfg`) | violation | `FreeRangeInBuffer` |

The properties of the passing run:
- **`TrajAligned`**: after any number of pad/optimize/merge cycles, every row still stands for its own instant.
- **`RecoveryEscalation`**:
  - every optimizer runs with the caller's parameters escalated exactly `replan_count` times;
  - a retry happens only with recovery on;
  - `replan_count <= max_recovery_attempts_`, so at most `max + 1` attempts are made.

  `max_recovery_attempts_ = 2` lets two retries happen, and the escalated parameters differ from the caller's.
- **`BoundaryRowsKept`** (an action property): with an interpolating method, no step changes a start or goal row once it is written.
- **`Termination`**: the loop is always left.
- **`RefinesRecovery`**: every behaviour of `solve()`, under the mapping of section 2, is a behaviour of `RecoveryAbstract`.

The other passing runs:
- **`StepsProgress`** (`fill_progress`): after a fill, every time step moves strictly towards the goal, or stays put when start and goal are equal. The run covers 2 to 8 points and boundary values from {-2, 0, 1, 3}, so rising, falling and equal pairs all occur. Min-jerk passes. Linear and cubic fail on the last interior step (`fill_stall`).
- **`FillMonotone`** (`fill_monotone`): with all three fillers, no step moves away from the goal. The column runs from the start to the goal value without overshoot.
- **`ResampleLength`** (`resampler`): a successful resample writes exactly `num_points_` rows, from waypoints that exist. This is the length invariant of spec section 8.
- **`ResampleOrder`**: rows start at waypoint 0 and never go back. When upsampling, no waypoint is skipped. The sizes 2..9 and 89 against input lengths 0..10 cover rejection, both branches, a zero remainder and the 10-to-89 scenario of the spec.

`CHECK_DEADLOCK FALSE`: `pc = "done"` is the return from `solve()`, where the system really stops.

**Fairness.** `WF_vars(Next)` is justified because `solve()` is single-threaded and synchronous. Every step is plain code or a call to the optimizer, which returns within its time limit. So the next step is always taken.

**Mutants.** Each property of the passing run is broken by a plausible bug; see `PROJECT.json`:
- an off-by-one in `start_extra`;
- a filler that also writes the boundary rows;
- a ridge factor lowered instead of raised;
- a retry test with `<=`;
- a missing `else break` when recovery is off;
- a loop exit without the restore of line 253 (`RefinesRecovery`);
- a min-jerk spline timed one step short;
- a cubic coefficient with the wrong sign;
- a remainder test with `<=`;
- remainder copies appended after the loop instead of after each waypoint.

**Findings.** The first four violation runs record where the code disagrees with `spec.md`. Section 7 of the spec forbids partial trajectories on failure. Section 4.5 asks for zero boundary velocity for every joint. Section 3 says the boundary rows come from the start and goal states, and the "equal" fill breaks that. Section 3 also says the interior is filled before optimisation, and an unknown method breaks that. The last three are gaps in the spec:
- the linear and cubic formulas of section 4.2 stall on the last step;
- the decimation formula of section 4.3 never reaches the goal waypoint;
- section 3 requires at least 2 points, but the duration constructor does not enforce it.

## 4. Abstractions and their limits

- Row values are not modelled in `ChompTrajectory`/`ChompPlanner`, where every filled row stands for its own index. `InterpolationFill` models the values separately, for one joint, in exact arithmetic. Floating-point rounding, including the double decimation factor of the resampler, is not modelled.
- `DiffRuleLength >= 2` is assumed. With it, `start_extra = d-2 >= 0`, and the spec's `max(0, ..)` clamp never differs from the code.
- The optimizer is an oracle. The model does not say whether it really reaches its answer.
- The passing run has two joints, so the `initial_vel` over-read only shows in the 8-joint run.

## 5. Proofs (`ChompPlannerProofs.tla`, `ChompRefinementProofs.tla`, `InterpolationFillProofs.tla`, `ResamplerProofs.tla`, `TrajectorySizingProofs.tla`)

The proofs hold for every `NumPoints >= 2`, every `DiffRuleLength >= 2`, every joint count, every set of methods and of `max_recovery_attempts_` values, and every caller parameter set. Those are the named `ASSUME`s of `ChompPlanner`.

The four theorems:
- **`TypeCorrect`**: `Spec => []TypeOK`.
- **`TrajectoryAligned`**: `Spec => []TrajAligned`.
- **`BoundaryRowsKeptThm`**: `Spec => BoundaryRowsKept`.
- **`RecoveryEscalationThm`**: `Spec => []RecoveryEscalation`.

The first three rest on `TypeAndAlignment: Spec => []IInv`. The inductive invariant is

```
IInv == TypeOK /\ TrajAligned
        /\ (pc = "optimize" => group = PaddedCopy(traj, DiffRuleLength))
        /\ (pc = "entry"    => traj  = NewTrajectory(NumPoints))
```

`TrajAligned` alone is not inductive. The `Optimize` step merges back the working copy, and alignment after the merge depends on that copy being the padded copy of the current trajectory. The third conjunct records exactly that. The fourth conjunct ties the entry state to the freshly built buffer.

The lemmas:
- `PaddedCopyFacts`: the copy has `N + 2d - 4` rows, starts its free range at `d-1`, and row `k` is source row `fti[k]`.
- `MergeAligned`: the free row `i` of the source is found at `s' + (i-1)` of the copy, and that row's instant survives optimisation.
- `FillInteriorFacts`, `SetPointFacts`, `NewTrajectoryFacts`, `OptimizeGroupFacts`.
- `FailStep`: every early return keeps `IInv`.
- `NextIInv`: one step per action.

The `BoundaryRowsKept` proof has one case per action that writes `traj`.

`RecoveryEscalation` is not inductive either. At `"attempt"` the escalation of line 209 is still pending. The strengthening `RecInv` covers the whole loop (`attempt`, `optimize`, `decide`):
- `replan_flag` holds exactly when `replan_count > 0`;
- the parameters are the caller's escalated `replan_count` times, or `replan_count - 1` times while an escalation is pending;
- the retry bound holds.

`RecInv` rests on two arithmetic lemmas:
- `EscalateStep`: one more escalation adds one to the count;
- `EscalatedZero`: zero escalations give the caller's parameters.

`RecInv` is inductive relative to `TypeOK`, so `TypeCorrect` is used in its proof.

### Filler values (`InterpolationFillProofs.tla`)

These hold for every buffer size and every pair of integer boundary values:
- **`LinearStall`** and **`CubicStall`** (`n >= 3`): the value of row `N-2` equals the goal value. So what `fill_stall` finds on small buffers holds for every size.
- **`MinJerkBoundaries`** (`n >= 2`): the quintic takes the start value at `start_index` and the goal value at `end_index` (spec section 8).

The proofs are polynomial identities. Powers are written as products, as `td[]` and `ti[]` are in the code, because the provers do not expand `^`.

The two run properties of `InterpolationFill` are proved too, for every value of the constants. They rest on `SizesAssumption` (`n >= 2`) and `ValuesAssumption` (`Values \subseteq Int`):
- **`FillMonotoneThm`**: `Spec => []FillMonotone`, for any set of methods.
- **`MinJerkStepsProgress`**: `Spec => []StepsProgress` when `Methods \subseteq {"quintic-spline"}`. This is the configuration of `fill_progress`. With the linear or cubic filler the property fails (`fill_stall`, `LinearStall`).

Neither property is inductive. The sign of a step depends on how every row was computed. The inductive invariant `FillInv` says that:
- the boundary rows are `Q(x0, 1)` and `Q(x1, 1)` for some integers `x0` and `x1`;
- once `filled` holds, every interior row `j` is `value(x0, x1, j)` for the filler `method` names (`ColumnOf`).

TLC checked `FillInv` on the `fill_monotone` instance before it was proved. `FillInvInit` and `FillInvStep` show it is inductive: a fill keeps both boundary rows and writes the interior from their numerators. `FillInvMonotone` and `FillInvProgress` derive the properties from three column lemmas, `LinearMonotone`, `CubicMonotone` and `MinJerkProgress`. Each one splits a step `j -> j+1` into four cases: `n = 2`, the step out of the start row, an interior step, and the step into the goal row.

In every case `Cmp(rows[j+1], rows[j])` is `(x1 - x0) * S`, and the column lemma shows `S >= 0`, or `S >= 1` for min-jerk. The per-step facts behind `S` are:
- `CubicStep`: `3j²T - 2j³` does not decrease for `j < T`;
- `QuinticStep`: `QP(k, D) = 10k³D² - 15k⁴D + 6k⁵` strictly increases for `k < D`, by an explicit polynomial with non-negative coefficients in `k` and `D - k - 1`.

`SignNonneg` and `SignStrict` then give the sign of `(d * S) * d`.

### Resampler decimation (`ResamplerProofs.tla`)

**`DecimationResampleSafe`**: `Spec => []DecimatedResample`, where `DecimatedResample == N < L => ResampleLength /\ ResampleOrder`. It holds for every buffer size and input length allowed by `ResamplerAssumption`.
- The inductive invariant `DecimateInv` says that a successful call with `N < L` left exactly `DecimateEmit` in the buffer. The upsampling branch needs `N >= L`, so it never makes the antecedent true.
- `DecimateEmitShape` shows that row `k` gets `((k-1) * L) \div N`. There are `N` rows. The first is `0`, each is below `L`, and they never decrease.
- It rests on `DivBounds` (the quotient brackets the dividend) and `DivMonotone`.
- The factor is taken exactly. IEEE rounding of the code's `double` product is not covered (hazard at line 236).

### Constructor sizing (`TrajectorySizingProofs.tla`)

These hold for every width of `size_t` and every point count, duration and discretization that satisfy `SizingHypothesis`. That hypothesis, a hypothesis of each theorem, says:
- a `size_t` holds at least 0 and 1, so `2^SizeBits >= 2`;
- the point counts passed in are `size_t` values;
- durations are whole time units, and a discretization is positive.

The theorems:
- **`FreeRangeExactThm`**: `Spec => []FreeRangeExactlyWhenTwoPoints`. Once a constructor has run, `end_index_` lies inside the buffer exactly when the buffer has at least two points. No run checks this property, because at a fixed width it only restates the modular subtraction. The theorem is what adds something: it holds at every width.
- **`ShortDurationWraps`**: a duration shorter than one discretization builds a one-point buffer with `end_index_ = 2^w - 1`.

Together they turn what `sizing_wrap` finds at 16 bits into a fact about every width: the wrap happens, and it is the only way out of the buffer.

The inductive invariant `SizingInv` says that `num_points_` is a `size_t` value and that, once built, `end_index_ = SizeT(num_points_ - 2)`. It is needed because the property mentions only the result, while its proof needs `num_points_` below the modulus.

`SizeTFacts` gives what unsigned subtraction does: the result is in range, a value already in range is kept, and a negative value wraps by `2^w`. The provers treat `2^SizeBits` as an opaque number, so `SizingHypothesis` states `2^SizeBits >= 2` directly.

### Refinement (`ChompRefinementProofs.tla`)

**`RecoveryRefinement`**: `Spec => RefinesRecovery`, for every caller parameter set and every value of `max_recovery_attempts_`.
- `InitRefined`: the initial state maps to `Recovery!Init`.
- `StepRefined`: every step maps to an abstract step or a stutter. There is one case per group of actions:
  - `StoreParams` is `Begin`;
  - `OptimizerInitFailed` is `InitFails`;
  - `Retry` is `RetryAttempt`, because `Escalate` is `EscalateOnce`;
  - `EndRecovery` is `Succeeded` or `Exhaust`;
  - every other step stutters.
- The only invariant needed is `GatesInv`: at `gates` the result is a record with code `SUCCESS`. With it, a failing gate changes `rstate` from neither `success` nor `exhausted`.

Only TLC checks these:
- `Termination`, which is liveness under fairness and out of TLAPS's reach;
- the seven violation properties;
- `ResampleLength` and `ResampleOrder` on the upsampling branch. That branch builds its rows with the recursive function `emit` of `RepeatEmit`. Its length (`L * Repeat + Balance = N`) and its order are facts about what a recursion computes for every `L`. That is induction over data. Both the definition of `emit` and any fact about it rest on `NatInductiveDef` and `NatInduction`, whose operator parameter none of the installed provers instantiates. The decimation branch is proved (`DecimationResampleSafe`).

## 6. Not modelled

- The optimizer's internals, `getDiffMatrix`, `csvRead`, and the angles library: external collaborators, not under `src/`.
- Floating-point rounding: the sizing division, filler values and decimation factor are modelled exactly.
- The per-joint copy of `assignCHOMPTrajectoryPointFromInputTrajectoryPoint` and its joint-count assert.
- Logging and timing.

## 7. Plan for further work

1. Liveness of the planner under weak fairness, for larger `max_recovery_attempts_`.
