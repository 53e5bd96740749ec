CONSTANTS
  Sizes = {2, 3, 4, 5, 6, 7, 9, 89}
  Lengths = {0, 1, 2, 3, 4, 5, 7, 8, 10}
SPECIFICATION Spec
INVARIANT ResampleEndsAtGoal
CHECK_DEADLOCK FALSE
