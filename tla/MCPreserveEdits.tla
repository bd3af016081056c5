--------------------------- MODULE MCPreserveEdits ---------------------------
(***************************************************************************)
(* The texts PreserveEdits is checked with: every construct, with blanks,  *)
(* newlines and comments between its tokens.                               *)
(***************************************************************************)
EXTENDS PreserveEdits

LOCAL INSTANCE SequencesExt

\* The concatenations of one sequence of each of the sets.
Cat(sets) ==
  FoldLeft(LAMBDA S, T : {s \o t : s \in S, t \in T}, {<<>>}, sets)
Token(t) == {<<t>>}
Maybe(S) == S \cup {<<>>}
\* One to n of the items, with a separator between them.
List(items, separator, n) ==
  LET Lists[k \in 1..n] ==
        IF k = 1 THEN items ELSE Lists[k - 1] \cup Cat(<<Lists[k - 1], {separator}, items>>)
  IN  Lists[n]

Note(w) == <<"sp", "/*", w, "*/", "sp">>
Blanks == {<<>>, <<"sp">>}
Whites == {<<>>, <<"sp">>, <<"nl">>}
Gaps == Whites \cup {Note(".")}

\* An import, with the given gaps before a comma and before the braces.
Imports(beforeComma, afterDefault) ==
  UNION {
    Cat(<<Token("import"), Token("sp"),
          {<<>>, <<"D">> \o b \o <<"comma">> \o g}, Token("open"), {o},
          List({<<"b">>, <<"typeA">>}, b \o <<"comma">> \o a, 3),
          {<<>>, b \o <<"comma">>}, {o}, Token("close"), Token("sp"), Token("from")>>) :
    b \in beforeComma, a \in Gaps, g \in afterDefault, o \in Gaps}

\* A function, with the given gaps in its predicate, after a this parameter
\* and before a question mark.
Functions(inPredicate, afterThis, beforeMark) ==
  UNION {
    Cat(<<Token("function"), {<<>>, <<"<T>">>}, {o}, Token("("),
          {<<>>, <<"p">>, <<"this:T">> \o t, <<"this:T">> \o t \o <<"comma">> \o o \o <<"p">>}
            \cup Cat(<<Token("p"), {o, o \o <<"?">> \o o}, Token(":T"), {o}>>)
            \cup Cat(<<Token("p"), {o, m \o <<"?">> \o o}, Token("comma"), {o},
                       Token("p"), {o, m \o <<"?">>}>>),
          Token(")"),
          {<<>>, <<":R">>, <<":R">> \o o \o <<"%checks">>, <<":">> \o q \o <<"%checks">>},
          {o}, Token("body")>>) :
    o \in Gaps, q \in inPredicate, t \in afterThis, m \in beforeMark}

\* An expression with a type, with the given gaps before as.
Casts(beforeAs) ==
  Cat(<<Token("e"), beforeAs, Token("as"), Gaps, Token("T"), Gaps, Token("semicolon")>>)

\* A class, with the given gaps after implements.
Classes(afterImplements) ==
  Cat(<<Token("class"), Token("sp"), Token("C"), Maybe(Token("<T>")), Gaps,
        Maybe(Cat(<<Token("implements"), afterImplements,
                    List(Token("I"), <<"comma", "sp">>, 2)>>)),
        Gaps, Token("body")>>)

\* A field, with a question mark right behind it or none.
Fields ==
  Cat(<<Token("declare"), Gaps, {<<"key">>, <<"#key">>}, Gaps, Maybe(Token(":T"))>>)
    \cup Cat(<<Maybe(Token("+")), Blanks, {<<"key">>, <<"#key">>, <<"key", "?">>, <<"#key", "?">>},
              Gaps, Maybe(Token(":T")), Gaps, Maybe(Token("=v"))>>)

Others == Cat(<<Gaps, Token("type"), Gaps, Token("T")>>) \cup Cat(<<Gaps, Token("enum")>>)

\* Texts the parser has no construct for.
Rejected ==
  {<<>>, <<"enum", "/*", ".">>, <<"import", "sp", "from">>, <<"e", "as">>, <<"declare", "=v">>}

\* The texts the collector's searches find their way in.
ClearTexts ==
  Imports(Whites, Blanks) \cup Functions(Blanks, Whites, Gaps \ {<<"nl">>})
    \cup Casts(Gaps) \cup Classes(Gaps) \cup Fields \cup Others

\* They are texts the theorems of PreserveEditsProofs are about.
At(t) == INSTANCE ParsedText WITH text <- t
ASSUME PlainTextsClear ==
  \A t \in ClearTexts :
    At(t)!Accepted /\ At(t)!WordsClear /\ At(t)!MarkersClear /\ At(t)!CommasClear

PlainTexts == ClearTexts \cup Rejected

\* An import with a comment before a comma.
CommentedImports == Imports({Note(".")}, Blanks)

\* A cast with a comment that has the word as.
CommentedCasts == Casts({Note("as")})
=============================================================================
