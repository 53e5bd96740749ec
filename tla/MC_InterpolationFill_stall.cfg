CONSTANTS
  Sizes = {2, 3, 4, 5, 6, 7, 8}
  Values <- MCValues
  Methods = {"linear", "cubic"}
SPECIFICATION Spec
INVARIANT StepsProgress
CHECK_DEADLOCK FALSE
