CONSTANTS
  NumPoints = 5
  DiffRuleLength = 3
  NumJoints = 8
  Methods = {"quintic-spline", "linear", "cubic", "equal", "none"}
  MaxRecoveryValues <- MCMaxRecovery
  CallerParams <- MCCallerParams
SPECIFICATION Spec
INVARIANT BoundaryVelocityZero
CHECK_DEADLOCK FALSE
