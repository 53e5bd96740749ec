CONSTANTS
  Sizes = {2, 3, 4, 5, 6, 7, 8}
  Values <- MCValues
  Methods = {"quintic-spline"}
SPECIFICATION Spec
INVARIANTS StepsProgress
CHECK_DEADLOCK FALSE
