CONSTANTS
  NumPoints = 5
  DiffRuleLength = 3
  NumJoints = 2
  Methods = {"quintic-spline", "linear", "cubic", "equal", "none"}
  MaxRecoveryValues <- MCMaxRecovery
  CallerParams <- MCCallerParams
SPECIFICATION Spec
INVARIANT NoTrajectoryOnFailure
CHECK_DEADLOCK FALSE
