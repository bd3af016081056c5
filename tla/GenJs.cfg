SPECIFICATION Spec
CONSTANTS
  Programs <- Trees
  Values <- MCValues
INVARIANT ReadsBack
INVARIANT TokensApart
INVARIANT NamesPrinted
INVARIANT MatchAgrees
CHECK_DEADLOCK FALSE
