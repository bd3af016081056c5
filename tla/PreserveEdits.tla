---------------------------- MODULE PreserveEdits ----------------------------
(***************************************************************************)
(* PreserveCollector of crates/fft_node/src/preserve.rs: the spans it asks *)
(* PreserveOutput to delete from a declaration or an expression.           *)
(*                                                                         *)
(* The collector takes the ranges of nodes from the parser's tree and then *)
(* searches the text around them byte by byte, comments included, which    *)
(* the tree does not have.                                                 *)
(***************************************************************************)
EXTENDS Integers, Sequences

CONSTANT Texts     \* the texts to transform

ASSUME TextsAssumption == \A t \in Texts : t \in Seq(STRING)

VARIABLES
  text,            \* the source
  comments,        \* the option to keep comments
  phase,           \* what is to be visited next
  params,          \* the parameters that have yet to be visited
  edits            \* the spans to delete

vars == <<text, comments, phase, params, edits>>

INSTANCE ParsedText

Span == [start : 0..Size, end : 0..Size]

-----------------------------------------------------------------------------
(* Searching the text.                                                     *)

\* From o on past what is in S.
Forward(o, S) ==
  CHOOSE p \in o..Size :
    /\ p = Size \/ Sym(p) \notin S
    /\ \A q \in o..(p - 1) : Sym(q) \in S

\* From o back over what is in S, but not beyond the floor.
Back(o, floor, S) ==
  CHOOSE p \in floor..o :
    /\ p = floor \/ Sym(p - 1) \notin S
    /\ \A q \in p..(o - 1) : Sym(q) \in S

\* Back over blanks, and if a comma is there, over it and the blanks before.
BackOverComma(o, floor) ==
  LET p == Back(o, floor, Blank)
  IN  IF p > floor /\ Sym(p - 1) = "comma" THEN Back(p - 1, floor, Blank) ELSE p

\* Mutant: a list item takes the symbol after its comma with it.
ListItemSpanGreedy(item, floor) ==
  LET after == Forward(item.end, White)
  IN  IF after < Size /\ Sym(after) = "comma"
      THEN [start |-> item.start, end |-> Forward(after + 1, Blank) + 1]
      ELSE [start |-> BackOverComma(item.start, floor), end |-> item.end]

(* A list item goes with the comma after it, or else the one before it.    *)
ListItemSpan(item, floor) ==
  LET after == Forward(item.end, White)
  IN  IF after < Size /\ Sym(after) = "comma"
      THEN [start |-> item.start, end |-> Forward(after + 1, Blank)]
      ELSE [start |-> BackOverComma(item.start, floor), end |-> item.end]

\* The braces of the named imports, the first and last ones in the import.
Group ==
  [start |-> First({o \in Outer.start..(Outer.end - 1) : Sym(o) = "open"}),
   end |-> Final({o \in Outer.start..(Outer.end - 1) : Sym(o) = "close"}) + 1]

\* Mutant: the comma before the group is left.
GroupSpanAlone == [start |-> Back(Group.start, 0, Blank), end |-> Group.end]

GroupSpan == [start |-> BackOverComma(Group.start, 0), end |-> Group.end]

(* %checks goes alone after a return type, and else with its colon.        *)
PredicateSpan(p, returns) ==
  IF returns THEN p
  ELSE LET start == Back(p.start, 0, Blank)
       IN  [start |-> IF start > 0 /\ Sym(start - 1) = ":" THEN start - 1 ELSE start,
            end |-> p.end]

(* this goes with the comma after it and the white space around that.      *)
ThisParamSpan(p) ==
  LET after == Forward(p.end, White)
  IN  [start |-> p.start,
       end |-> IF after < Size /\ Sym(after) = "comma"
               THEN Forward(after + 1, White) ELSE after]

(* From the first "as" after the expression, with the blanks before it.    *)
AsSpan(e, end) ==
  LET found == {o \in e..(end - 1) : Sym(o) = "as"}
  IN  [start |-> IF found = {} THEN e ELSE Back(First(found), e, Blank),
       end |-> end]

\* Mutant: the span ends with the first interface.
ImplementsSpansFirst(interfaces) ==
  LET before == {o \in Outer.start..(First(interfaces) - 1) : Sym(o) = "implements"}
  IN  IF interfaces = {} \/ before = {} THEN {}
      ELSE {[start |-> Back(Final(before), Outer.start, Blank),
             end |-> First(interfaces) + 1]}

(* From the last "implements" before the first interface, with the blanks. *)
ImplementsSpans(interfaces) ==
  LET before == {o \in Outer.start..(First(interfaces) - 1) : Sym(o) = "implements"}
  IN  IF interfaces = {} \/ before = {} THEN {}
      ELSE {[start |-> Back(Final(before), Outer.start, Blank),
             end |-> Final(interfaces) + 1]}

(* The question mark of a parameter: the first one before its annotation   *)
(* or, without one, before what ends a parameter.                          *)
MarkerSpans(start, annotation) ==
  LET stops == {o \in start..(Size - 1) : Sym(o) \in {"comma", ")", "=", "open", "nl", "semicolon"}}
      end == IF annotation # {} THEN First(annotation)
             ELSE IF stops # {} THEN First(stops) ELSE Size
      marks == {o \in start..(end - 1) : Sym(o) = "?"}
  IN  IF marks = {} THEN {} ELSE {Node(First(marks))}

-----------------------------------------------------------------------------
(* The spans of each construct.                                            *)

ImportSpans ==
  LET types == NodesOf({"typeA"})
      named == Where({"b"})
  IN  IF types = {} THEN {}
      ELSE IF named = {} /\ Where({"D"}) = {} THEN {Outer}
      ELSE {ListItemSpan(t, Group.start) : t \in types}
             \cup (IF named = {} THEN {GroupSpan} ELSE {})

FunctionSpans ==
  LET returns == NodesOf({":R"})
  IN  NodesOf({"<T>"}) \cup returns
        \cup {PredicateSpan(p, returns # {}) : p \in NodesOf({"%checks"})}
        \cup {ThisParamSpan(p) : p \in NodesOf({"this:T"})}

\* A parameter's tokens, up to the next comma or the parenthesis.
ParamTokens(p) == {o \in After(p) : o < First({q \in After(p) : Sym(q) \in {"comma", ")"}})}

ParamSpans(p) ==
  LET annotation == {o \in ParamTokens(p) : Sym(o) = ":T"}
      optional == \E o \in ParamTokens(p) : Sym(o) = "?"
  IN  {Node(o) : o \in annotation} \cup (IF optional THEN MarkerSpans(p + 1, annotation) ELSE {})

\* The semicolon is not a part of e as T.
CastSpans == {AsSpan(First(Tokens) + 1, First(Where({"T"})) + 1)}

ClassSpans == NodesOf({"<T>"}) \cup ImplementsSpans(Where({"I"}))

(* A field of a class goes if it is only declared or, unless it is         *)
(* private, has no value.  A question mark is looked for right behind it.  *)
FieldSpans ==
  LET key == First(Where({"key", "#key"}))
      erased == \/ Where({"declare"}) # {}
                \/ Sym(key) = "key" /\ Where({"=v"}) = {}
  IN  IF erased THEN {Outer}
      ELSE NodesOf({"+", ":T"})
             \cup (IF Where({"?"}) # {} /\ Sym(key + 1) = "?" THEN {Node(key + 1)} ELSE {})

-----------------------------------------------------------------------------
(* push_span, for some spans.                                              *)
Clipped(S) ==
  {[start |-> s.start, end |-> IF s.end > Size THEN Size ELSE s.end] :
     s \in {r \in S : r.start < r.end /\ r.start < Size}}
Push(S) == edits' = edits \cup Clipped(S)

Init ==
  /\ text \in Texts
  /\ comments \in BOOLEAN
  /\ phase = "parse"
  /\ params = {}
  /\ edits = {}

(* An error of the parser is told before the collector is made.            *)
Parse ==
  /\ phase = "parse"
  /\ phase' = IF Accepted THEN "comments" ELSE "failed"
  /\ UNCHANGED <<text, comments, params, edits>>

\* Mutant: a comment's end is taken for its last byte.
CommentSpansShort == IF comments THEN {} ELSE {[s EXCEPT !.end = @ - 1] : s \in Comments}

\* The comments go unless they are asked for.
CommentSpans == IF comments THEN {} ELSE Comments

RemoveComments ==
  /\ phase = "comments"
  /\ phase' = "visit"
  /\ Push(CommentSpans)
  /\ UNCHANGED <<text, comments, params>>

(* An import of values and types.                                          *)
VisitImport ==
  /\ phase = "visit" /\ Starts("import")
  /\ Push(ImportSpans)
  /\ phase' = "done"
  /\ UNCHANGED <<text, comments, params>>

(* A type alias, an interface, an import type, a declare: all of it.       *)
VisitErased ==
  /\ phase = "visit" /\ Starts("type")
  /\ Push({Outer})
  /\ phase' = "done"
  /\ UNCHANGED <<text, comments, params>>

\* Mutant: the parameters of a function without a type are not visited.
VisitFunctionOnly ==
  /\ phase = "visit" /\ Starts("function")
  /\ Push(FunctionSpans)
  /\ phase' = IF Where({":R"}) = {} THEN "done" ELSE "params"
  /\ params' = Where({"p"})
  /\ UNCHANGED <<text, comments>>

(* A function; its parameters are visited after it.                        *)
VisitFunction ==
  /\ phase = "visit" /\ Starts("function")
  /\ Push(FunctionSpans)
  /\ phase' = "params"
  /\ params' = Where({"p"})
  /\ UNCHANGED <<text, comments>>

VisitParam ==
  /\ phase = "params" /\ params # {}
  /\ LET p == First(params)
     IN  Push(ParamSpans(p)) /\ params' = params \ {p}
  /\ UNCHANGED <<text, comments, phase>>

EndParams ==
  /\ phase = "params" /\ params = {}
  /\ phase' = "done"
  /\ UNCHANGED <<text, comments, params, edits>>

(* e as T, as const.                                                       *)
VisitAs ==
  /\ phase = "visit" /\ Starts("e")
  /\ Push(CastSpans)
  /\ phase' = "done"
  /\ UNCHANGED <<text, comments, params>>

VisitClass ==
  /\ phase = "visit" /\ Starts("class")
  /\ Push(ClassSpans)
  /\ phase' = "done"
  /\ UNCHANGED <<text, comments, params>>

VisitField ==
  /\ phase = "visit" /\ Where({"key", "#key"}) # {}
  /\ Push(FieldSpans)
  /\ phase' = "done"
  /\ UNCHANGED <<text, comments, params>>

(* What the layout-preserving path does not support.                       *)
VisitUnsupported ==
  /\ phase = "visit" /\ Starts("enum")
  /\ phase' = "failed"
  /\ UNCHANGED <<text, comments, params, edits>>

Next ==
  \/ Parse \/ RemoveComments
  \/ VisitImport \/ VisitErased \/ VisitFunction \/ VisitParam \/ EndParams
  \/ VisitAs \/ VisitClass \/ VisitField \/ VisitUnsupported

Spec == Init /\ [][Next]_vars

-----------------------------------------------------------------------------
(* Properties.                                                             *)

(* Every variable has its type, and a visit ends with all of it visited.   *)
TypeOK ==
  /\ text \in Seq(STRING) /\ comments \in BOOLEAN
  /\ phase \in {"parse", "comments", "visit", "params", "done", "failed"}
  /\ params \subseteq Offsets /\ (params # {} => phase = "params")
  /\ edits \subseteq {s \in Span : s.start < s.end}

Deleted == UNION {s.start..(s.end - 1) : s \in edits}
Kept == {o \in Offsets : o \notin Deleted}

TypeSymbols ==
  {"typeA", "type", "this:T", "?", ":T", ":R", ":", "%checks", "as", "T",
   "implements", "I", "<T>", "declare", "+"}
ValueSymbols ==
  {"D", "b", "function", "(", "p", ")", "class", "C", "e", "semicolon", "body", "enum", "=v"}

(* Nothing of the program itself is deleted, whatever stands next to what  *)
(* is, and whatever the searches ran into.                                 *)
ValuesKept == \A o \in Tokens : Sym(o) \in ValueSymbols => o \notin Deleted

(* No part of a type is left.                                              *)
TypesErased ==
  phase = "done" => \A o \in Tokens : Sym(o) \in TypeSymbols => o \in Deleted

(* A comment is kept as a whole or, if comments are not to be kept,        *)
(* deleted as a whole, so that none is left open.                          *)
CommentsWhole ==
  phase = "done" =>
    \A s \in Comments :
      LET bytes == s.start..(s.end - 1)
      IN  \/ bytes \subseteq Deleted
          \/ comments /\ bytes \cap Deleted = {}

(* The grammar of what is left: the tokens that may follow one another.    *)
Follows ==
  {<<"import", "D">>, <<"import", "open">>, <<"D", "comma">>, <<"comma", "open">>,
   <<"open", "b">>, <<"b", "comma">>, <<"comma", "b">>, <<"comma", "close">>, <<"b", "close">>,
   <<"close", "from">>, <<"D", "from">>,
   <<"function", "(">>, <<"(", "p">>, <<"p", "comma">>, <<"comma", "p">>, <<"comma", ")">>,
   <<"p", ")">>, <<"(", ")">>, <<")", "body">>,
   <<"e", "semicolon">>, <<"class", "C">>, <<"C", "body">>,
   <<"key", "=v">>, <<"#key", "=v">>}

(* What is left parses: no comma is left alone, doubled or missing.        *)
OutputParses ==
  phase = "done" =>
    \A e \in Adjacent(Tokens \cap Kept) : Symbols(e) \in Follows
=============================================================================
