-------------------------- MODULE CommentAttachment --------------------------
(* Where the comments of a source text are printed once the passes have    *)
(* changed its tree: printer_comments.rs gives each comment a place beside  *)
(* a statement that is left, and gen_js.rs takes it from the table when it  *)
(* comes to that statement.                                                 *)
EXTENDS CommentPlacement, SequencesExt

(***************************************************************************)
(* What StripFlow does to the statements, as far as comments can tell: a    *)
(* type declaration goes, a component with a ref becomes two statements     *)
(* with the range of the one when the target is React 18.                   *)
(***************************************************************************)
RECURSIVE StripTree(_, _)
StripTree(node, react) ==
    LET Kept(child) ==
            CASE child.kind = "Type" -> <<>>
              [] child.kind = "Component" /\ react = "18" -> <<child, child>>
              [] OTHER -> <<StripTree(child, react)>>
    IN  [node EXCEPT !.body =
            FlattenSeq([i \in DOMAIN node.body |-> Kept(node.body[i])])]

(***************************************************************************)
(* RangeCollector                                                           *)
(***************************************************************************)
RECURSIVE Containers(_)
Containers(node) ==
    (IF node.kind \in {"Program", "Block"} THEN <<node>> ELSE <<>>)
    \o FlattenSeq([i \in DOMAIN node.body |-> Containers(node.body[i])])

RECURSIVE RemovedNodes(_)
RemovedNodes(node) ==
    (IF node.kind = "Type" THEN {node} ELSE {})
    \cup UNION {RemovedNodes(node.body[i]) : i \in DOMAIN node.body}

(***************************************************************************)
(* build_comment_table                                                      *)
(***************************************************************************)
\* The table, with the comments in the order in which they were pushed.
CommentTable(text, original, transformed) ==
    LET At(i) == [start |-> i, end |-> i + 1]
        Place(i) == ClassifyComment(text, At(i),
                        BestContainer(Containers(transformed), At(i)))
        Lost(i) == /\ ~Place(i).direct
                   /\ \E node \in RemovedNodes(original) : ContainsRange(node, At(i))
        pushed == SelectSeq([i \in DOMAIN text |-> i], LAMBDA i :
                    text[i] \in CommentKind \ {"pragma"} /\ ~Lost(i))
    IN  [j \in DOMAIN pushed |-> [place |-> Place(pushed[j]), at |-> pushed[j]]]

(***************************************************************************)
(* The printer, as far as it moves comments, statements and line breaks.    *)
(* fresh says that nothing stands on the current line, not even indent.     *)
(***************************************************************************)
Printer(table, pretty) ==
    [out |-> <<>>, table |-> table, pretty |-> pretty, indent |-> 0, fresh |-> TRUE]

Line == [symbol |-> "nl", at |-> 0]
Write(g, symbol, at) ==
    [g EXCEPT !.out = Append(@, [symbol |-> symbol, at |-> at]), !.fresh = FALSE]
ForceNewline(g) ==
    [g EXCEPT !.out = Append(@, Line), !.fresh = (g.indent = 0)]
Newline(g) == IF g.pretty THEN ForceNewline(g) ELSE g
IncIndent(g) == [g EXCEPT !.indent = @ + 1]
DecIndent(g) == [g EXCEPT !.indent = @ - 1]

\* take_leading, take_trailing and take_dangling: what they return, and the rest.
IsOf(entry, placement, node) ==
    entry.place.anchor = RangeOf(node) /\ entry.place.placement = placement
Taken(g, placement, node) ==
    SelectSeq(g.table, LAMBDA entry : IsOf(entry, placement, node))
Take(g, placement, node) ==
    [g EXCEPT !.table = SelectSeq(@, LAMBDA entry : ~IsOf(entry, placement, node))]

OwnLineComments(text, g, comments, breakAfterLast) ==
    FoldLeft(LAMBDA acc, i :
                LET at == comments[i].at
                    written == Write(acc, text[at], at)
                IN  IF IsLineLike(text[at]) \/ i < Len(comments) \/ breakAfterLast
                    THEN ForceNewline(written) ELSE written,
             g, [i \in DOMAIN comments |-> i])

\* Mutant: the line is not ended behind a line comment.
TrailingCommentsOpen(text, g, node) ==
    FoldLeft(LAMBDA acc, c : Write(acc, text[c.at], c.at),
             Take(g, "trailing", node), Taken(g, "trailing", node))

TrailingComments(text, g, node) ==
    LET comments == Taken(g, "trailing", node)
        written == FoldLeft(LAMBDA acc, c : Write(acc, text[c.at], c.at),
                            Take(g, "trailing", node), comments)
    IN  IF comments # <<>> /\ IsLineLike(text[Last(comments).at])
        THEN ForceNewline(written) ELSE written

RECURSIVE VisitStatements(_, _, _)

\* The dangling comments, on a line of their own behind statements.
DanglingComments(text, g, dangling, node, breakAfterLast) ==
    OwnLineComments(text,
        IF node.body # <<>> /\ dangling # <<>> /\ ~g.fresh THEN Newline(g) ELSE g,
        dangling, breakAfterLast)

\* A list of statements, then the dangling comments of the node they are in.
Body(text, g, node, breakAfterLast) ==
    DanglingComments(text,
        VisitStatements(text, Take(g, "dangling", node), node.body),
        Taken(g, "dangling", node), node, breakAfterLast)

NewlineIfNeeded(g) == IF g.pretty /\ ~g.fresh THEN ForceNewline(g) ELSE g

BracedBody(text, g, node) ==
    LET open == Write(g, "{", node.start)
        IsEmpty == node.body = <<>> /\ Taken(g, "dangling", node) = <<>>
        Filled == DecIndent(Body(text, Newline(IncIndent(open)), node, TRUE))
    IN  Write(IF IsEmpty THEN open ELSE NewlineIfNeeded(Filled), "}", node.end - 1)

\* The code of a statement up to its block, if it has one.
OwnTokens(text, node) ==
    SelectSeq([i \in 1 .. node.end - 1 |-> i],
              LAMBDA i : /\ i >= node.start
                         /\ text[i] \in Code
                         /\ \A j \in DOMAIN node.body : i < node.body[j].start)

RECURSIVE VisitNode(_, _, _)
VisitNode(text, g, node) ==
    IF node.kind = "Block" THEN BracedBody(text, g, node)
    ELSE FoldLeft(LAMBDA acc, child : VisitNode(text, acc, child),
                  FoldLeft(LAMBDA acc, i : Write(acc, text[i], i),
                           g, OwnTokens(text, node)),
                  node.body)

StatementInBlock(text, g, node) ==
    TrailingComments(text,
        VisitNode(text,
            OwnLineComments(text, Take(g, "leading", node),
                            Taken(g, "leading", node), TRUE),
            node),
        node)

VisitStatements(text, g, nodes) ==
    FoldLeft(LAMBDA acc, i :
                StatementInBlock(text,
                    IF i > 1 /\ ~acc.fresh THEN Newline(acc) ELSE acc, nodes[i]),
             g, [i \in DOMAIN nodes |-> i])

\* The output ends with a line break.
EnsureTrailingNewline(g) ==
    IF ~g.fresh \/ \A i \in DOMAIN g.out : g.out[i].symbol # "nl"
    THEN ForceNewline(g) ELSE g

\* gen_js::generate on a Program.
Generate(text, tree, table, pretty) ==
    EnsureTrailingNewline(Body(text, Printer(table, pretty), tree, FALSE)).out

(***************************************************************************)
(* What a reader of the output makes of it: a comment to the end of its     *)
(* line hides what follows on that line, and what follows a line break      *)
(* within a comment so hidden is read as code.                              *)
(***************************************************************************)
ReadBack(out) ==
    FoldLeft(LAMBDA r, item :
        CASE r.hidden /\ item.symbol = "nl" -> [r EXCEPT !.hidden = FALSE]
          [] r.hidden /\ item.symbol = "multi" ->
                [r EXCEPT !.hidden = FALSE, !.items = Append(@, [symbol |-> "x", at |-> 0])]
          [] ~r.hidden /\ item.symbol # "nl" ->
                [hidden |-> IsLineLike(item.symbol), items |-> Append(r.items, item)]
          [] OTHER -> r,
        [hidden |-> FALSE, items |-> <<>>], out).items
=============================================================================
