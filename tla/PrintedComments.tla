---------------------------- MODULE PrintedComments ----------------------------
(* TransformCallers with a printer: what transform_once prints of a program *)
(* and what the layout-preserving transform leaves of it, as far as         *)
(* statements and comments can tell.                                        *)
EXTENDS TransformCallers, CommentAttachment

\* transform_once after the parse: strip, give the comments places, print.
TransformedOutput(program, options) ==
    LET transformed == StripTree(program.tree, options.reactRuntimeTarget)
        table == IF options.comments = "true"
                 THEN CommentTable(program.text, program.tree, transformed)
                 ELSE <<>>
    IN  Generate(program.text, transformed, table, options.format = "pretty")

RECURSIVE Starts(_)
Starts(node) == {node.start} \cup UNION {Starts(node.body[i]) : i \in DOMAIN node.body}

\* The symbols within a statement behind its first are without nodes.
IsNodeStart(program, at) == at \in Starts(program.tree)

\* transform_preserving_layout: the source without types, and without
\* comments unless they are asked for.
PreservedOutput(program, options) ==
    LET text == program.text
        InType(i) == \E node \in RemovedNodes(program.tree) :
                        i >= node.start /\ i < node.end
        kept == SelectSeq([i \in DOMAIN text |-> i], LAMBDA i :
                    /\ ~InType(i)
                    /\ text[i] \in CommentKind => options.comments = "true")
    IN  [j \in DOMAIN kept |-> [symbol |-> text[kept[j]], at |-> kept[j]]]

RECURSIVE Kinds(_)
Kinds(node) == {node.kind} \cup UNION {Kinds(node.body[i]) : i \in DOMAIN node.body}

\* A component is a construct it refuses.
IsPreservable(program) == "Component" \notin Kinds(program.tree)

\* That an edit cuts a character or not is part of the program.
IsAligned(program, options) == program.aligned

(***************************************************************************)
(* Properties                                                               *)
(***************************************************************************)
\* The innermost node around an offset.
RECURSIVE Innermost(_, _)
Innermost(node, at) ==
    LET around == {i \in DOMAIN node.body : node.body[i].start <= at /\ at < node.body[i].end}
    IN  IF around = {} THEN node ELSE Innermost(node.body[CHOOSE i \in around : TRUE], at)

\* In the printed output every token of what is left of the program can be
\* read, and no text of a comment is read as code; every comment that is not
\* a pragma and not within a removed declaration can be read once; and all of
\* them stand in the order of the source, but that a comment from within a
\* simple statement follows the statement.  (printer_comments.rs and the
\* comments of gen_js.rs)
CommentsInPlace ==
    LET read == ReadBack(result.code)
        InRemoved(at) == \E node \in RemovedNodes(request.program.tree) :
                            node.start <= at /\ at < node.end
        left == {at \in DOMAIN Text :
                    /\ ~InRemoved(at)
                    /\ \/ Text[at] \in Code
                       \/ Options.comments = "true" /\ Text[at] \in CommentKind \ {"pragma"}}
        IsFirst(i) == \A j \in 1 .. i - 1 : read[j].at # read[i].at
        firsts == SelectSeq([i \in DOMAIN read |-> i], IsFirst)
        FollowsStatement(at, other) ==
            LET node == Innermost(request.program.tree, at)
            IN  /\ Text[at] \in CommentKind
                /\ node.kind \notin {"Program", "Block"}
                /\ node.start <= other /\ other < node.end
    IN  pc \in {"map", "emit"} /\ Options.format # "preserve" =>
            /\ {read[i].at : i \in DOMAIN read} = left
            /\ \A i \in DOMAIN read : read[i].symbol \in CommentKind => IsFirst(i)
            /\ \A i, j \in DOMAIN firsts :
                    i < j => \/ read[firsts[i]].at < read[firsts[j]].at
                             \/ FollowsStatement(read[firsts[j]].at, read[firsts[i]].at)
===============================================================================
