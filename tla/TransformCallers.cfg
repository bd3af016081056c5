CONSTANT Requests <- MCRequests
CONSTANT PrinterOutput <- TransformedOutput
CONSTANT LayoutOutput <- PreservedOutput
CONSTANT StartsNode <- IsNodeStart
CONSTANT LayoutSupported <- IsPreservable
CONSTANT LayoutAligned <- IsAligned
SPECIFICATION Spec
INVARIANT CommentsInPlace
INVARIANT ExitStatusTrue
INVARIANT AnswerTrue
