CONSTANTS
  Key = {k1, k2}
  Value = {v1, v2}
  Ptr = {p1, p2, p3, p4, p5}
  Null = Null
  Absent = Absent
  MaxScopes = 3
SPECIFICATION Spec
INVARIANT TypeOK
INVARIANT NoStalePointer
INVARIANT PopsInnermost
INVARIANT NoNodeOutlivesScope
INVARIANT Inv
PROPERTY ImplementsScopeStack
SYMMETRY Symmetry
\* A map that has been dropped does nothing more.
CHECK_DEADLOCK FALSE
