\* A comment between a type specifier and the comma after it.
CONSTANT Texts <- CommentedImports
SPECIFICATION Spec
INVARIANT OutputParses
CHECK_DEADLOCK FALSE
