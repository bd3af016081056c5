--------------------------- MODULE CommentPlacement ---------------------------
(***************************************************************************)
(* classify_comment of printer_comments.rs: the statement of a container,  *)
(* or the container itself, that a comment is printed with.                *)
(*                                                                         *)
(* A node has a kind, the offsets where it starts and ends (the end is the *)
(* first offset behind it) and the nodes in its body.                      *)
(***************************************************************************)
EXTENDS SourceText

ContainsRange(outer, inner) == inner.start >= outer.start /\ inner.end <= outer.end

Node(kind, start, end, body) ==
    [kind |-> kind, start |-> start, end |-> end, body |-> body]
RangeOf(node) == <<node.start, node.end>>

BestContainer(containers, comment) ==
    LET around == SelectSeq(containers, LAMBDA k : ContainsRange(k, comment))
        Size(i) == around[i].end - around[i].start
        smallest == {i \in DOMAIN around :
                        \A j \in DOMAIN around : Size(i) <= Size(j)}
    IN  around[CHOOSE i \in smallest : \A j \in smallest : i <= j]

Placed(node, placement, direct) ==
    [anchor |-> RangeOf(node), placement |-> placement, direct |-> direct]

ClassifyComment(text, comment, container) ==
    LET kids == container.body
        first == kids[1]
        last == kids[Len(kids)]
        StartLine == LineNumber(text, comment.start)
        around == {i \in DOMAIN kids : ContainsRange(kids[i], comment)}
        before == {i \in 1 .. Len(kids) - 1 : /\ comment.start > kids[i].end
                                              /\ comment.end < kids[i + 1].start}
        Least(S) == CHOOSE i \in S : \A j \in S : i <= j
        Ends(node) == LineNumber(text, node.end)
    IN  CASE kids = <<>> -> Placed(container, "dangling", FALSE)
          [] kids # <<>> /\ comment.end < first.start ->
                Placed(first, "leading", FALSE)
          [] kids # <<>> /\ comment.end >= first.start /\ around # {} ->
                Placed(kids[Least(around)], "trailing", TRUE)
          [] kids # <<>> /\ comment.end >= first.start /\ around = {} /\ before # {} ->
                LET i == Least(before)
                IN  IF StartLine = Ends(kids[i])
                    THEN Placed(kids[i], "trailing", FALSE)
                    ELSE Placed(kids[i + 1], "leading", FALSE)
          [] OTHER ->
                IF StartLine = Ends(last)
                THEN Placed(last, "trailing", FALSE)
                ELSE Placed(container, "dangling", FALSE)

(***************************************************************************)
(* Where a comment stands in the source, and where it is printed.          *)
(***************************************************************************)
\* The nodes of a body in the order of the source.  A declaration that was
\* replaced by several leaves its range to each of them.
Sorted(kids) ==
    /\ \A i \in DOMAIN kids :
          /\ kids[i].start \in Nat /\ kids[i].end \in Nat /\ kids[i].start < kids[i].end
    /\ \A i, j \in DOMAIN kids :
          i < j => kids[i].end <= kids[j].start \/ RangeOf(kids[i]) = RangeOf(kids[j])

\* A comment in a container, within one of its nodes or with something between
\* it and each of them: classify_comment compares strictly, and a comment that
\* touches a node from outside is in no gap.
Apart(comment, container) ==
    /\ comment.start \in Nat /\ comment.end \in Nat /\ comment.start < comment.end
    /\ container.end \in Nat /\ comment.end <= container.end
    /\ \A i \in DOMAIN container.body :
          /\ container.body[i].end <= container.end
          /\ \/ ContainsRange(container.body[i], comment)
             \/ comment.end < container.body[i].start
             \/ container.body[i].end < comment.start

\* The offset a place is printed at: before a node, behind one, or at the end
\* of a body; twice the offset, to have a place between two that touch.
Point(place) ==
    IF place.placement = "trailing" THEN 2 * place.anchor[2]
    ELSE IF place.placement = "leading" THEN 2 * place.anchor[1] + 1
    ELSE 2 * place.anchor[2] + 1
=============================================================================
