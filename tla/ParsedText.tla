------------------------------ MODULE ParsedText ------------------------------
(***************************************************************************)
(* A text that PreserveCollector (crates/fft_node/src/preserve.rs) edits,  *)
(* what the parser says of it, and which texts the collector's searches    *)
(* find their way in.                                                      *)
(*                                                                         *)
(* The text is a sequence of symbols: tokens, blanks, newlines and the     *)
(* parts of comments.  A name, a type or a specifier is one symbol, as     *)
(* nothing looks inside it, and a comma, a semicolon and a brace have the  *)
(* word for them: open and close are the braces of the named imports, and  *)
(* a body with its braces is one symbol.  An offset is the number of       *)
(* symbols before.                                                         *)
(***************************************************************************)
EXTENDS Integers, Sequences

CONSTANT text

Blank == {"sp"}                             \* a space or a tab
White == Blank \cup {"nl"}

Size == Len(text)
Sym(o) == text[o + 1]
Offsets == 0..(Size - 1)

-----------------------------------------------------------------------------
(* The parser.  A text is one construct, known by its first token.         *)

First(S) == CHOOSE o \in S : \A p \in S : o <= p
Final(S) == CHOOSE o \in S : \A p \in S : o >= p

\* A comment that is not closed is none.
Closings(o) == {p \in o..(Size - 1) : Sym(p) = "*/"}
Comments ==
  {[start |-> o, end |-> First(Closings(o)) + 1] :
     o \in {p \in Offsets : Sym(p) = "/*" /\ Closings(p) # {}}}
Tokens ==
  {o \in Offsets : /\ Sym(o) \notin White
                   /\ \A c \in Comments : o \notin c.start..(c.end - 1)}
Where(S) == {o \in Tokens : Sym(o) \in S}
After(o) == {p \in Tokens : p > o}
\* The pairs of neighbours in a set of offsets.
Adjacent(S) == {e \in S \X S : e[1] < e[2] /\ \A q \in S : q <= e[1] \/ e[2] <= q}
Symbols(e) == <<Sym(e[1]), Sym(e[2])>>

\* The range of the node of one symbol.
Node(o) == [start |-> o, end |-> o + 1]
NodesOf(S) == {Node(o) : o \in Where(S)}

Starts(s) == Tokens # {} /\ Sym(First(Tokens)) = s
\* The declaration's or expression's own range.
Outer == [start |-> First(Tokens), end |-> Final(Tokens) + 1]

(* A construct by the tokens it starts with, those it ends with, and those *)
(* that may follow one another in it.                                      *)
Construct(first, last, follows) ==
  /\ Tokens # {}
  /\ Sym(First(Tokens)) \in first /\ Sym(Final(Tokens)) \in last
  /\ \A e \in Adjacent(Tokens) : Symbols(e) \in follows

\* An import of at least one name; the default import is before the braces.
IsImport ==
  /\ Construct({"import"}, {"from"},
       {<<"import", "D">>, <<"import", "open">>, <<"D", "comma">>, <<"comma", "open">>,
        <<"open", "b">>, <<"open", "typeA">>, <<"b", "comma">>, <<"typeA", "comma">>,
        <<"comma", "b">>, <<"comma", "typeA">>, <<"b", "close">>, <<"typeA", "close">>,
        <<"comma", "close">>, <<"close", "from">>})
  /\ \A e, f \in Adjacent(Tokens) :
       e[2] = f[1] /\ Sym(f[1]) = "comma" => (Sym(e[1]) = "D" <=> Sym(f[2]) = "open")
IsFunction ==
  Construct({"function"}, {"body"},
    {<<"function", "<T>">>, <<"function", "(">>, <<"<T>", "(">>,
     <<"(", "p">>, <<"(", "this:T">>, <<"(", ")">>,
     <<"p", "?">>, <<"p", ":T">>, <<"p", "comma">>, <<"p", ")">>,
     <<"?", ":T">>, <<"?", "comma">>, <<"?", ")">>, <<":T", "comma">>, <<":T", ")">>,
     <<"this:T", "comma">>, <<"this:T", ")">>, <<"comma", "p">>, <<"comma", ")">>,
     <<")", ":R">>, <<")", ":">>, <<")", "body">>, <<":R", "%checks">>, <<":R", "body">>,
     <<":", "%checks">>, <<"%checks", "body">>})
IsCast == Construct({"e"}, {"semicolon"}, {<<"e", "as">>, <<"as", "T">>, <<"T", "semicolon">>})
IsClass ==
  Construct({"class"}, {"body"},
    {<<"class", "C">>, <<"C", "<T>">>, <<"C", "implements">>, <<"C", "body">>,
     <<"<T>", "implements">>, <<"<T>", "body">>, <<"implements", "I">>,
     <<"I", "comma">>, <<"comma", "I">>, <<"I", "body">>})
\* A field that is only declared has no value.
KeyParts == {<<k, "?">> : k \in {"key", "#key"}} \cup {<<k, ":T">> : k \in {"key", "#key", "?"}}
IsField ==
  \/ Construct({"declare"}, {"key", "#key", "?", ":T"},
       {<<"declare", "key">>, <<"declare", "#key">>} \cup KeyParts)
  \/ Construct({"+", "key", "#key"}, {"key", "#key", "?", ":T", "=v"},
       {<<"+", "key">>, <<"+", "#key">>} \cup KeyParts
         \cup {<<k, "=v">> : k \in {"key", "#key", "?", ":T"}})
IsErased == Construct({"type"}, {"T"}, {<<"type", "T">>})
IsUnsupported == Construct({"enum"}, {"enum"}, {})

\* What the collector gets to see: it does not run where the parser reports
\* an error.
Accepted ==
  \/ IsImport \/ IsFunction \/ IsCast \/ IsClass \/ IsField
  \/ IsErased \/ IsUnsupported

-----------------------------------------------------------------------------
(* Where the searches find what they look for.                             *)

\* The symbols between two offsets.
Gap(e) == {Sym(q) : q \in (e[1] + 1)..(e[2] - 1)}
\* Between two tokens that follow one another there is only what is in S.
Only(S, pairs) ==
  \A e \in Adjacent(Tokens) : Symbols(e) \in pairs => Gap(e) \subseteq S

\* No comment holds a brace, a word or a question mark that is searched for.
WordsClear ==
  \A o \in Offsets \ Tokens : Sym(o) \notin {"open", "close", "as", "implements", "?"}

\* What marks a type is where it is looked for: the colon on the line of
\* %checks, the question mark of a field right behind its key, and that of a
\* parameter without annotation before all that ends a parameter.
MarkersClear ==
  /\ Only(Blank, {<<":", "%checks">>})
  /\ Only({}, {<<"key", "?">>, <<"#key", "?">>})
  /\ \A e \in Adjacent(Tokens) :
       Symbols(e) = <<"p", "?">>
         => \/ Gap(e) \cap {"comma", ")", "=", "open", "nl", "semicolon"} = {}
            \/ \E f \in Adjacent(Tokens) : f[1] = e[2] /\ Sym(f[2]) = ":T"

\* A comma is where it is looked for: behind what it goes with, and on the
\* line of the braces.
CommasClear ==
  /\ Only(White, {<<"typeA", "comma">>, <<"this:T", "comma">>})
  /\ Only(Blank, {<<"comma", "open">>})
=============================================================================
