SPECIFICATION Spec
CONSTANTS
  Programs <- ParsedTrees
  Values <- MCValues
INVARIANT ReadsBack
CHECK_DEADLOCK FALSE
