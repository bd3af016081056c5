CONSTANTS
  MaxNodes = 2
  MaxElems = 2
  Handles = {h1}
  CtxId = 5
  MarkBit = 8
  AttributeLists = TRUE
SPECIFICATION Spec
INVARIANT NoDanglingPointer
CHECK_DEADLOCK FALSE
