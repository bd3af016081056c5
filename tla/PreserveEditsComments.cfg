\* A comment with the word as between an expression and its type.
CONSTANT Texts <- CommentedCasts
SPECIFICATION Spec
INVARIANT CommentsWhole
CHECK_DEADLOCK FALSE
