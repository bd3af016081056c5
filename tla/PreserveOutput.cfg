CONSTANTS
  Texts <- MCTexts
  MaxEdits = 3
SPECIFICATION Spec
INVARIANT Inv
INVARIANT MergedExact
INVARIANT OutputExact
INVARIANT MapExact
INVARIANT FailsOnlyMisaligned
\* build_output has returned.
CHECK_DEADLOCK FALSE
