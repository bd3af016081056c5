-------------------------- MODULE MCTransformCallers --------------------------
(* The requests TransformCallers is checked with: programs with comments    *)
(* at every sort of place, command lines, and the adapters with the options *)
(* and the answers of the parser that tell them apart.                      *)
EXTENDS PrintedComments

(***************************************************************************)
(* A program is laid out from pieces: gaps (symbols without code) and       *)
(* statements (a kind and the symbols it is written with).  A block has     *)
(* pieces between its braces.                                               *)
(***************************************************************************)
Gap(symbols) == [kind |-> "Gap", symbols |-> symbols, pieces |-> <<>>]
Simple(kind, symbols) == [kind |-> kind, symbols |-> symbols, pieces |-> <<>>]
Block(pieces) == [kind |-> "Block", symbols |-> <<>>, pieces |-> pieces]
Function(symbols, block) == [kind |-> "Function", symbols |-> symbols, pieces |-> <<block>>]

\* Layout of pieces from an offset: the text and the nodes.
RECURSIVE Layout(_, _)
Layout(pieces, offset) ==
    FoldLeft(LAMBDA acc, piece :
        LET start == offset + Len(acc.text)
            inner == Layout(piece.pieces, start + Len(piece.symbols)
                                + IF piece.kind = "Block" THEN 1 ELSE 0)
            text == piece.symbols \o
                    IF piece.kind = "Block" THEN <<"{">> \o inner.text \o <<"}">> ELSE inner.text
        IN  [text |-> acc.text \o text,
             nodes |-> IF piece.kind = "Gap" THEN acc.nodes
                       ELSE Append(acc.nodes,
                                Node(piece.kind, start, start + Len(text), inner.nodes))],
        [text |-> <<>>, nodes |-> <<>>], pieces)

Parses == [dialect \in Dialects |-> "ok"]
Program(pieces) ==
    LET laid == Layout(pieces, 1)
    IN  [text |-> laid.text, parse |-> Parses, aligned |-> TRUE,
         tree |-> Node("Program", 1, Len(laid.text) + 1, laid.nodes)]

(***************************************************************************)
(* Comments.  Left out: a block comment right next to the statement before  *)
(* or behind it, and a line comment that is followed by another comment in  *)
(* or behind the same statement (see the README).                           *)
(***************************************************************************)
Plain == {"block", "multi"}
Here == {"line"} \cup Plain

Gaps ==
    {<<"nl">>, <<"nl", "pragma", "nl">>, <<"nl", "block", "nl", "line", "nl">>,
     <<"nl", "line", "nl", "multi", "sp", "block", "nl">>,
     <<"sp", "block", "sp", "line", "nl">>, <<"sp", "line", "nl", "line", "nl">>}
    \cup {<<"sp", c, "nl">> : c \in Here}
    \cup {<<"nl", c, "nl">> : c \in Here}
    \cup {<<"sp", c, "sp">> : c \in Plain}
FewGaps == {<<"nl">>, <<"sp", "line", "nl">>, <<"nl", "line", "nl">>, <<"sp", "block", "sp">>}

Statements ==
    {Simple("Statement", s) : s \in {<<"x">>, <<"x", "x">>, <<"x", "line", "nl", "x">>}
        \cup {<<"x", c, "x">> : c \in Plain}
        \cup {<<"x", "block", "sp", "multi", "x">>, <<"x", "block", "nl", "line", "nl", "x">>}}
Types == {Simple("Type", s) : s \in {<<"x">>, <<"x", "block", "x">>, <<"x", "line", "nl", "x">>}}
Components == {Simple("Component", s) : s \in {<<"x">>, <<"x", "block", "x">>}}

X == Simple("Statement", <<"x">>)
T == Simple("Type", <<"x", "block", "x">>)
Blocks ==
    {Block(<<>>)} \cup {Block(<<Gap(g)>>) : g \in Gaps}
    \cup {Block(<<Gap(g), s, Gap(h)>>) : g, h \in FewGaps, s \in {X, T}}
    \cup {Block(<<Gap(<<"nl">>), s, Gap(g), r, Gap(<<"nl">>)>>) : g \in FewGaps, s, r \in {X, T}}
Functions == {Function(<<"x">>, Block(<<Gap(g), X, Gap(h)>>)) : g, h \in FewGaps}
    \cup {Function(<<"x", "block">>, Block(<<Gap(<<"nl", "line", "nl">>)>>))}

\* Behind a statement with a line comment in it no other comment may follow.
Behind(s) == IF \E i \in DOMAIN s.symbols : s.symbols[i] = "line"
             THEN {g \in Gaps : Head(g) = "nl"} ELSE Gaps

CommentPrograms ==
    {Program(<<Gap(g)>>) : g \in Gaps}
    \cup UNION {{Program(<<Gap(g), s, Gap(h)>>) : h \in Behind(s)} :
                    g \in Gaps, s \in Statements \cup Types \cup Components}
    \cup {Program(<<Gap(g), b, Gap(h)>>) : g, h \in FewGaps, b \in Blocks \cup Functions}
    \cup UNION {{Program(<<Gap(<<"nl">>), s, Gap(g), r, Gap(<<"nl">>)>>) : g \in Behind(s)} :
                    s, r \in {X, T, Block(<<Gap(<<"sp", "line", "nl">>)>>)}
                             \cup {Simple("Statement", <<"x", "line", "nl", "x">>)}
                             \cup Components}

\* A comment at the very start, and a hashbang.
FirstPrograms ==
    {Program(<<Gap(<<c, "nl">>), s, Gap(<<"nl">>)>>) :
        c \in {"hashbang", "line", "pragma"}, s \in {X, T}}

(***************************************************************************)
(* Requests                                                                 *)
(***************************************************************************)
Request(caller, args, raw, context, inputMap, isModule, program) ==
    [caller |-> caller, args |-> args, raw |-> raw, context |-> context,
     inputMap |-> inputMap, isModule |-> isModule, program |-> program,
     binding |-> "installed"]

Short == Program(<<Gap(<<"nl">>), X, Gap(<<"sp", "line", "nl">>), T, Gap(<<"nl">>),
                   Function(<<"x">>, Block(<<>>)), Gap(<<"nl">>)>>)
WithComponent == Program(<<Simple("Component", <<"x">>), Gap(<<"nl">>)>>)

\* An input map that has some tokens of Short, one of them without source.
InputMap == [at \in {2, 10} |->
                IF at = 2 THEN [source |-> "original", at |-> 7]
                ELSE [source |-> "none", at |-> 0]]
LaterMap == [at \in {10, 11} |-> [source |-> "original", at |-> at]]

CommentRequests ==
    {Request("cli", <<"a.js", "--comments", "--format", f, "--react-runtime-target", "19">>,
             Unset, "unset", <<>>, TRUE, p) :
        f \in {"compact", "pretty"}, p \in CommentPrograms \cup FirstPrograms}
    \cup {Request("cli", <<"a.js", "--comments", "--react-runtime-target", "18">>,
             Unset, "unset", <<>>, TRUE, p) :
        p \in {q \in CommentPrograms : "Component" \in Kinds(q.tree)}}

Groups ==
    {<<"a.js">>, <<"--out-file", "b.js">>, <<"--out-file", "a.js">>, <<"--source-map">>,
     <<"--no-source-map">>, <<"--source-map-file", "c.map">>, <<"--source-map-file", "b.js">>,
     <<"--input-source-map", "in.map">>,
     <<"--format", "preserve">>, <<"--dialect", "bogus">>, <<"--out-file">>,
     <<"--out-file", "">>, <<"">>, <<"-h">>, <<"--bogus">>, <<"b.js">>}
Commands ==
    {<<"a.js">> \o g \o h \o k : g, h, k \in Groups} \cup {g \o h : g, h \in Groups}
CommandRequests ==
    {Request("cli", c, Unset, "unset", InputMap, TRUE, Short) : c \in Commands}

RawOptions ==
    {[Unset EXCEPT !.sourcemap = m, !.dialect = d] :
        m \in {"unset", "true", "false", "bogus"},
        d \in {"unset", "flow", "bogus"}}
    \cup {[Unset EXCEPT !.removed = TRUE], [Unset EXCEPT !.format = "preserve"],
          [Unset EXCEPT !.reactRuntimeTarget = "17"], [Unset EXCEPT !.comments = "bogus"]}
Outcomes == {[Short EXCEPT !.parse = f] : f \in [Dialects -> {"ok", "syntax", "convert"}]}
    \cup {WithComponent, [Short EXCEPT !.aligned = FALSE]}

AdapterRequests ==
    {Request(a, <<>>, r, c, m, j, Short) :
        a \in Adapters, r \in RawOptions, c \in {"unset", "true", "false"},
        m \in {<<>>, InputMap, LaterMap}, j \in BOOLEAN}
    \cup {Request(a, <<>>, [Unset EXCEPT !.dialect = d, !.format = f], "unset", <<>>, TRUE, p) :
        a \in {"webpack", "esbuild"}, d \in Dialects, f \in {"compact", "preserve"}, p \in Outcomes}

\* The native module is missing, or an earlier request has loaded it.
BindingRequests ==
    {[r EXCEPT !.binding = b] : b \in {"missing", "cached"}, r \in
        {Request(c, <<"a.js">>, Unset, "unset", <<>>, TRUE, Short) :
            c \in Adapters \cup {"cli"}}}

MCRequests ==
    CommentRequests \cup CommandRequests \cup AdapterRequests \cup BindingRequests

\* The comments of these programs are those the theorems about places are about
\* (CommentPlacementProofs), whichever target the tree is stripped for.
ASSUME
    \A program \in CommentPrograms \cup FirstPrograms : \A react \in {"18", "19"} :
        LET At(i) == [start |-> i, end |-> i + 1]
            comments == {At(i) : i \in {j \in DOMAIN program.text :
                                           program.text[j] \in CommentKind}}
        IN  \A containers \in {Containers(StripTree(program.tree, react))} :
                \A comment \in comments :
                    \A container \in {BestContainer(containers, comment)} :
                        Sorted(container.body) /\ Apart(comment, container)
=============================================================================
