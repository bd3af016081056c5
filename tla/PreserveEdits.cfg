\* Every construct, with comments wherever the searches step over them.
CONSTANT Texts <- PlainTexts
SPECIFICATION Spec
INVARIANTS TypeOK ValuesKept TypesErased CommentsWhole OutputParses
CHECK_DEADLOCK FALSE
