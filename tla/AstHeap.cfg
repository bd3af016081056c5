CONSTANTS
  MaxNodes = 3
  MaxElems = 1
  Handles = {h1, h2}
  CtxId = 5
  MarkBit = 8
  AttributeLists = FALSE
SPECIFICATION Spec
INVARIANT TypeOK
INVARIANT NoDanglingPointer
INVARIANT CountsMatchHandles
INVARIANT FreeListExact
INVARIANT NoStaleMark
INVARIANT NoHandleOutlivesContext
PROPERTY GcComplete
SYMMETRY Symmetry
\* A dropped Context does nothing more.
CHECK_DEADLOCK FALSE
