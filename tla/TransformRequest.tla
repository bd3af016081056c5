--------------------------- MODULE TransformRequest ---------------------------
(* One transform, from the options of a caller to the code and the source   *)
(* map: packages/core/src/transform, the native module's lib.rs and         *)
(* transform.rs.  Values only; TransformCallers has the steps.              *)
(*                                                                          *)
(* A program is its text, its tree, and what the parser says of it in each  *)
(* dialect.  An option that is not given is "unset"; Booleans are strings   *)
(* so that an option may also be given a value it does not have.            *)
EXTENDS SourceText

CONSTANTS
    PrinterOutput(_, _),    \* what transform_once prints of a program, with options
    StartsNode(_, _),       \* whether a node starts at a place of a program
    LayoutOutput(_, _),     \* what the layout-preserving transform leaves of it
    LayoutSupported(_),     \* whether that transform can do all of it
    LayoutAligned(_, _)     \* whether its edits begin and end between characters

Dialects == {"flow", "flow-detect", "flow-unambiguous"}
Formats == {"compact", "preserve", "pretty"}
ReactTargets == {"18", "19"}
Booleans == {"true", "false"}

DEFAULT_OPTIONS ==
    [comments |-> "false", dialect |-> "flow-detect", format |-> "compact",
     reactRuntimeTarget |-> "19", sourcemap |-> "true"]

\* removed says that an option of an earlier version is given.
Unset == [comments |-> "unset", dialect |-> "unset", format |-> "unset",
          reactRuntimeTarget |-> "unset", sourcemap |-> "unset", removed |-> FALSE]

\* A failure: what failed, and the dialect of the attempt that found a place
\* in the source for it ("none" for a failure without line and column).
Failure(what, place) ==
    [ok |-> FALSE, what |-> what, place |-> place, code |-> <<>>,
     hasMap |-> FALSE, map |-> <<>>]
Success(code, hasMap, map) ==
    [ok |-> TRUE, what |-> "none", place |-> "none", code |-> code,
     hasMap |-> hasMap, map |-> map]

(***************************************************************************)
(* options.ts                                                               *)
(***************************************************************************)
Filled(raw) ==
    [name \in DOMAIN DEFAULT_OPTIONS |->
        IF raw[name] = "unset" THEN DEFAULT_OPTIONS[name] ELSE raw[name]]

OptionsValid(raw) ==
    LET o == Filled(raw)
    IN  /\ ~raw.removed
        /\ o.comments \in Booleans
        /\ o.sourcemap \in Booleans
        /\ o.dialect \in Dialects
        /\ o.format \in Formats
        /\ o.reactRuntimeTarget \in ReactTargets

(***************************************************************************)
(* transform.rs: one attempt with one dialect                               *)
(***************************************************************************)
\* The places of the tokens that are printed.
PrintedAt(code) == {code[i].at : i \in {j \in DOMAIN code : code[j].symbol \in Code}}

\* The places with a mapping: the printer adds a segment where the text of a
\* node starts, the layout-preserving transform one for each character.
MappedAt(program, code, options) ==
    IF options.format = "preserve" THEN {code[i].at : i \in DOMAIN code}
    ELSE {at \in PrintedAt(code) : StartsNode(program, at)}

\* Each mapping leads to its place in the source file.
NativeMap(places) == [at \in places |-> [source |-> "file", at |-> at]]

Printed(program, code, options) ==
    IF options.sourcemap = "true"
    THEN Success(code, TRUE, NativeMap(MappedAt(program, code, options)))
    ELSE Success(code, FALSE, <<>>)

\* transform_once after the parse.
TransformOnce(program, options) ==
    Printed(program, PrinterOutput(program, options), options)

\* Only what the collector refuses has a place, not what build_output does.
TransformPreservingLayout(program, dialect, options) ==
    CASE ~LayoutSupported(program) -> Failure("unsupported", dialect)
      [] LayoutSupported(program) /\ ~LayoutAligned(program, options) ->
            Failure("misaligned", "none")
      [] OTHER -> Printed(program, LayoutOutput(program, options), options)

Attempt(program, dialect, options) ==
    CASE program.parse[dialect] = "syntax" -> Failure("syntax", dialect)
      [] program.parse[dialect] = "convert" -> Failure("convert", "none")
      [] program.parse[dialect] = "ok" /\ options.format = "preserve" ->
            TransformPreservingLayout(program, dialect, options)
      [] OTHER -> TransformOnce(program, options)

\* Mutant: the failure of the second attempt is the one that is told.
ChooseLast(primary, second, options) ==
    IF options.dialect = "flow-detect" /\ ~primary.ok THEN second ELSE primary

\* flow-detect is tried again as flow, whose failure is not told.
ChooseAttempt(primary, second, options) ==
    IF options.dialect = "flow-detect" /\ ~primary.ok /\ second.ok
    THEN second ELSE primary

Transform(program, options) ==
    ChooseAttempt(Attempt(program, options.dialect, options),
                  Attempt(program, "flow", options), options)

(***************************************************************************)
(* mergeSourceMaps.ts.  An input map is a function on some places of the    *)
(* text; a place is in the original, or nowhere ("none").                   *)
(***************************************************************************)
\* originalPositionFor: the nearest mapping to the left on the same line.
OriginalPositionFor(inputMap, text, at) ==
    LET left == {i \in DOMAIN inputMap :
                    i <= at /\ LineNumber(text, i) = LineNumber(text, at)}
    IN  IF left = {} THEN [source |-> "none", at |-> 0]
        ELSE inputMap[CHOOSE i \in left : \A j \in left : j <= i]

MergeSourceMaps(inputMap, text, map) ==
    [at \in DOMAIN map |->
        LET upstream == OriginalPositionFor(inputMap, text, map[at].at)
        IN  IF upstream.source = "none" THEN map[at] ELSE upstream]

\* outputMap of index.ts, on what the binding returned.
OutputMap(result, options, inputMap, text) ==
    CASE options.sourcemap = "false" -> Success(result.code, FALSE, <<>>)
      [] options.sourcemap = "true" /\ ~result.hasMap -> Failure("no map", "none")
      [] OTHER ->
            Success(result.code, TRUE,
                    IF inputMap = <<>> THEN result.map
                    ELSE MergeSourceMaps(inputMap, text, result.map))
=============================================================================
