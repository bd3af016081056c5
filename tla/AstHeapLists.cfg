CONSTANTS
  MaxNodes = 2
  MaxElems = 2
  Handles = {h1}
  CtxId = 5
  MarkBit = 8
  AttributeLists = FALSE
SPECIFICATION FairSpec
INVARIANT IInv
PROPERTY GcComplete
PROPERTY GcTerminates
PROPERTY ImplementsReachableHeap
\* A dropped Context does nothing more.
CHECK_DEADLOCK FALSE
