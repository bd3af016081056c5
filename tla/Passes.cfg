SPECIFICATION Spec
CONSTANTS
  Programs <- Trees
  Subtrees <- Subtrees1
  StripCall <- StripCall1
  ReduceCall <- ReduceCall1
  Erase <- Erase1
  Branches <- Branches1
INVARIANT TypesErased
INVARIANT Idempotent
INVARIANT StaysValid
INVARIANT LoweringKeepsMeaning
INVARIANT NamesStay
INVARIANT BranchesTaken
CHECK_DEADLOCK FALSE
