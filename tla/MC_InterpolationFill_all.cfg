CONSTANTS
  Sizes = {2, 3, 4, 5, 6, 7, 8}
  Values <- MCValues
  Methods = {"linear", "cubic", "quintic-spline"}
SPECIFICATION Spec
INVARIANT FillMonotone
CHECK_DEADLOCK FALSE
