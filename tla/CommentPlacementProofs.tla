------------------------ MODULE CommentPlacementProofs ------------------------
(***************************************************************************)
(* Comments are printed where they stood, for bodies of any length: among  *)
(* the statements, and among one another.                                  *)
(***************************************************************************)
EXTENDS CommentPlacement, FiniteSetTheorems, WellFoundedInduction, TLAPS

-----------------------------------------------------------------------------
(* Numbers.                                                                *)

\* A set of numbers has a least one.
LEMMA LeastIs ==
  ASSUME NEW S \in SUBSET Nat, S # {}
  PROVE  LET m == CHOOSE i \in S : \A j \in S : i <= j
         IN  m \in S /\ \A j \in S : m <= j
<1>1. PICK m \in S : \A p \in S : ~ (<<p, m>> \in OpToRel(<, Nat))
  BY WFMin, NatLessThanWellFounded
<1>2. \A p \in S : ~ (p < m)
  BY <1>1 DEF OpToRel
<1>3. \A p \in S : p \in Nat
  OBVIOUS
<1>4. \A p \in S : m <= p
  BY <1>2, <1>3
<1>. QED  BY <1>1, <1>4

\* Lines are counted up.
LEMMA LinesGrow ==
  ASSUME NEW text, NEW a \in Nat, NEW b \in Nat, a <= b
  PROVE  /\ LineNumber(text, a) \in Nat /\ LineNumber(text, b) \in Nat
         /\ LineNumber(text, a) <= LineNumber(text, b)
<1> DEFINE Breaks(o) == {i \in 1 .. o - 1 : text[i] \in {"nl", "multi"}}
<1>1. IsFiniteSet(1 .. a - 1) /\ IsFiniteSet(1 .. b - 1)
  BY FS_Interval
<1>2. Breaks(a) \subseteq 1 .. a - 1 /\ Breaks(b) \subseteq 1 .. b - 1
  OBVIOUS
<1>3. Breaks(a) \subseteq Breaks(b)
  OBVIOUS
<1>4. LineNumber(text, a) = 1 + Cardinality(Breaks(a)) /\ LineNumber(text, b) = 1 + Cardinality(Breaks(b))
  BY DEF LineNumber
<1> HIDE DEF Breaks
<1>5. IsFiniteSet(Breaks(a)) /\ IsFiniteSet(Breaks(b))
  BY <1>1, <1>2, FS_Subset
<1>6. Cardinality(Breaks(a)) \in Nat /\ Cardinality(Breaks(b)) \in Nat
      /\ Cardinality(Breaks(a)) <= Cardinality(Breaks(b))
  BY <1>3, <1>5, FS_CardinalityType, FS_Subset
<1>. QED  BY <1>4, <1>6

-----------------------------------------------------------------------------
(* The arms of classify_comment.                                           *)

\* Between the nodes k and k + 1.
InGap(comment, kids, k) == kids[k].end < comment.start /\ comment.end < kids[k + 1].start

\* Of two nodes the earlier starts and ends no later.
LEMMA OrderIs ==
  ASSUME NEW S, NEW kids \in Seq(S), Sorted(kids),
         NEW i \in 1 .. Len(kids), NEW j \in 1 .. Len(kids)
  PROVE  /\ kids[i].start \in Nat /\ kids[i].end \in Nat /\ kids[i].start < kids[i].end
         /\ i < j => \/ kids[i].end <= kids[j].start
                     \/ kids[i].start = kids[j].start /\ kids[i].end = kids[j].end
         /\ i <= j => kids[i].start <= kids[j].start /\ kids[i].end <= kids[j].end
<1>1. DOMAIN kids = 1 .. Len(kids)
  OBVIOUS
<1>2. \A k \in 1 .. Len(kids) :
         kids[k].start \in Nat /\ kids[k].end \in Nat /\ kids[k].start < kids[k].end
  BY <1>1 DEF Sorted
<1>3. i < j => \/ kids[i].end <= kids[j].start
               \/ kids[i].start = kids[j].start /\ kids[i].end = kids[j].end
  BY <1>1 DEF Sorted, RangeOf
<1>. QED  BY <1>2, <1>3

\* Where all the nodes are that are not around a comment, nor before a gap.
LEMMA AllBefore ==
  ASSUME NEW S, NEW kids \in Seq(S), Sorted(kids), NEW c, c.start \in Nat, c.end \in Nat,
         c.start < c.end, kids # <<>>, ~ (c.end < kids[1].start),
         \A i \in 1 .. Len(kids) : c.end < kids[i].start \/ kids[i].end < c.start,
         \A i \in 1 .. Len(kids) - 1 : ~ InGap(c, kids, i)
  PROVE  \A i \in 1 .. Len(kids) : kids[i].end < c.start
<1> DEFINE Bad == {i \in 1 .. Len(kids) : ~ (kids[i].end < c.start)}
<1>0. Len(kids) \in Nat /\ Len(kids) > 0
  OBVIOUS
<1> SUFFICES ASSUME Bad # {}  PROVE FALSE
  OBVIOUS
<1>1. Bad \in SUBSET Nat
  OBVIOUS
<1>2. PICK m \in Bad : \A i \in Bad : m <= i
  <2> HIDE DEF Bad
  <2>. QED  BY <1>1, LeastIs
<1>3. m \in 1 .. Len(kids) /\ m # 1 /\ ~ (kids[m].end < c.start) /\ c.end < kids[m].start
  BY <1>0
<1>4. m - 1 \in 1 .. Len(kids) - 1 /\ m - 1 \in 1 .. Len(kids) /\ m - 1 \notin Bad
  BY <1>0, <1>2, <1>3
<1>5. kids[m - 1].end < c.start
  BY <1>4
<1>6. (m - 1) + 1 = m
  BY <1>3
<1>. QED  BY <1>3, <1>4, <1>5, <1>6 DEF InGap

\* What p is for a comment c, by where c stands.
PlacedBy(text, container, c, p) ==
  LET kids == container.body
      n == Len(kids)
      line == LineNumber(text, c.start)
  IN  \/ kids = <<>> /\ p = Placed(container, "dangling", FALSE)
      \/ kids # <<>> /\ c.end < kids[1].start /\ p = Placed(kids[1], "leading", FALSE)
      \/ \E k \in 1 .. n :
           ContainsRange(kids[k], c) /\ p = Placed(kids[k], "trailing", TRUE)
      \/ \E k \in 1 .. n - 1 :
           /\ InGap(c, kids, k)
           /\ p = IF line = LineNumber(text, kids[k].end)
                  THEN Placed(kids[k], "trailing", FALSE)
                  ELSE Placed(kids[k + 1], "leading", FALSE)
      \/ /\ n > 0 /\ \A k \in 1 .. n : kids[k].end < c.start
         /\ p = IF line = LineNumber(text, kids[n].end)
                THEN Placed(kids[n], "trailing", FALSE)
                ELSE Placed(container, "dangling", FALSE)

\* classify_comment has one of these five results.
LEMMA PlaceIs ==
  ASSUME NEW S, NEW text, NEW container, container.body \in Seq(S), Sorted(container.body),
         NEW c, Apart(c, container)
  PROVE  PlacedBy(text, container, c, ClassifyComment(text, c, container))
<1> DEFINE kids == container.body
           n == Len(kids)
           line == LineNumber(text, c.start)
           p == ClassifyComment(text, c, container)
           around == {i \in DOMAIN kids : ContainsRange(kids[i], c)}
           before == {i \in 1 .. n - 1 : c.start > kids[i].end /\ c.end < kids[i + 1].start}
           a == CHOOSE i \in around : \A j \in around : i <= j
           b == CHOOSE i \in before : \A j \in before : i <= j
<1>1. n \in Nat /\ DOMAIN kids = 1 .. n /\ (kids # <<>> => n > 0)
  OBVIOUS
<1>2. c.start \in Nat /\ c.end \in Nat /\ c.start < c.end
  BY DEF Apart
<1>3. \A i \in 1 .. n : /\ kids[i].start \in Nat /\ kids[i].end \in Nat /\ kids[i].start < kids[i].end
                        /\ kids[1].start <= kids[i].start
  <2> SUFFICES ASSUME NEW i \in 1 .. n
               PROVE  /\ kids[i].start \in Nat /\ kids[i].end \in Nat /\ kids[i].start < kids[i].end
                      /\ kids[1].start <= kids[i].start
    OBVIOUS
  <2>1. 1 \in 1 .. n /\ 1 <= i
    BY <1>1
  <2>. QED  BY <2>1, OrderIs
<1>4. p = CASE kids = <<>> -> Placed(container, "dangling", FALSE)
            [] kids # <<>> /\ c.end < kids[1].start -> Placed(kids[1], "leading", FALSE)
            [] kids # <<>> /\ c.end >= kids[1].start /\ around # {} ->
                 Placed(kids[a], "trailing", TRUE)
            [] kids # <<>> /\ c.end >= kids[1].start /\ around = {} /\ before # {} ->
                 IF line = LineNumber(text, kids[b].end)
                 THEN Placed(kids[b], "trailing", FALSE)
                 ELSE Placed(kids[b + 1], "leading", FALSE)
            [] OTHER -> IF line = LineNumber(text, kids[n].end)
                        THEN Placed(kids[n], "trailing", FALSE)
                        ELSE Placed(container, "dangling", FALSE)
  BY DEF ClassifyComment
<1>5. around # {} => a \in around
  <2>1. around \in SUBSET Nat
    BY <1>1
  <2> HIDE DEF around
  <2>. QED  BY <2>1, LeastIs
<1>6. before # {} => b \in before
  <2>1. before \in SUBSET Nat
    BY <1>1
  <2> HIDE DEF before
  <2>. QED  BY <2>1, LeastIs
<1>7. \A i \in around : i \in 1 .. n /\ ContainsRange(kids[i], c)
  BY <1>1
<1>8. \A i \in before : i \in 1 .. n - 1 /\ InGap(c, kids, i)
  BY <1>1, <1>2, <1>3 DEF InGap
<1>9. \A i \in 1 .. n : i \notin around => c.end < kids[i].start \/ kids[i].end < c.start
  BY <1>1 DEF Apart
<1>10. \A i \in 1 .. n - 1 : i \notin before => ~ InGap(c, kids, i)
  <2> SUFFICES ASSUME NEW i \in 1 .. n - 1, InGap(c, kids, i)  PROVE i \in before
    OBVIOUS
  <2>1. i \in 1 .. n
    BY <1>1
  <2>. QED  BY <1>2, <1>3, <2>1 DEF InGap
<1> HIDE DEF p, around, before, a, b
<1> SUFFICES PlacedBy(text, container, c, p)
  BY DEF p
<1>11. CASE kids = <<>>
  BY <1>4, <1>11 DEF PlacedBy
<1>12. CASE kids # <<>> /\ c.end < kids[1].start
  <2>1. ~ (c.end >= kids[1].start)
    BY <1>1, <1>2, <1>3, <1>12
  <2>2. p = Placed(kids[1], "leading", FALSE)
    BY <1>4, <1>12, <2>1
  <2>. QED  BY <1>12, <2>2 DEF PlacedBy
<1>13. CASE kids # <<>> /\ ~ (c.end < kids[1].start) /\ around # {}
  <2>1. c.end >= kids[1].start
    BY <1>1, <1>2, <1>3, <1>13
  <2>2. p = Placed(kids[a], "trailing", TRUE)
    BY <1>4, <1>13, <2>1
  <2>. QED  BY <1>5, <1>7, <1>13, <2>2 DEF PlacedBy
<1>14. CASE kids # <<>> /\ ~ (c.end < kids[1].start) /\ around = {} /\ before # {}
  <2>0. c.end >= kids[1].start
    BY <1>1, <1>2, <1>3, <1>14
  <2>1. p = IF line = LineNumber(text, kids[b].end)
            THEN Placed(kids[b], "trailing", FALSE)
            ELSE Placed(kids[b + 1], "leading", FALSE)
    BY <1>4, <1>14, <2>0
  <2>. QED  BY <1>6, <1>8, <1>14, <2>1 DEF PlacedBy
<1>15. CASE kids # <<>> /\ ~ (c.end < kids[1].start) /\ around = {} /\ before = {}
  <2>1. p = IF line = LineNumber(text, kids[n].end)
            THEN Placed(kids[n], "trailing", FALSE)
            ELSE Placed(container, "dangling", FALSE)
    BY <1>4, <1>15
  <2>2. \A i \in 1 .. n : kids[i].end < c.start
    BY <1>2, <1>9, <1>10, <1>15, AllBefore
  <2>. QED  BY <1>1, <1>15, <2>1, <2>2 DEF PlacedBy
<1>. QED  BY <1>11, <1>12, <1>13, <1>14, <1>15

-----------------------------------------------------------------------------
(* Among the statements.                                                   *)

\* The three places beside a node.
LEMMA PointIs ==
  ASSUME NEW node, NEW direct
  PROVE  /\ Point(Placed(node, "trailing", direct)) = 2 * node.end
         /\ Point(Placed(node, "leading", direct)) = 2 * node.start + 1
         /\ Point(Placed(node, "dangling", direct)) = 2 * node.end + 1
BY DEF Point, Placed, RangeOf

\* The conditions on a comment and a body, spelled out.
LEMMA ApartIs ==
  ASSUME NEW S, NEW container, container.body \in Seq(S), Sorted(container.body),
         NEW c, Apart(c, container)
  PROVE  /\ c.start \in Nat /\ c.end \in Nat /\ c.start < c.end
         /\ container.end \in Nat /\ c.end <= container.end
         /\ \A i \in 1 .. Len(container.body) :
               LET kid == container.body[i]
               IN  /\ kid.start \in Nat /\ kid.end \in Nat /\ kid.start < kid.end
                   /\ kid.end <= container.end
                   /\ \/ kid.start <= c.start /\ c.end <= kid.end
                      \/ c.end < kid.start
                      \/ kid.end < c.start
<1> DEFINE kids == container.body
<1>1. DOMAIN kids = 1 .. Len(kids)
  OBVIOUS
<1>2. c.start \in Nat /\ c.end \in Nat /\ c.start < c.end
      /\ container.end \in Nat /\ c.end <= container.end
  BY DEF Apart
<1>3. ASSUME NEW i \in 1 .. Len(kids)
      PROVE  /\ kids[i].start \in Nat /\ kids[i].end \in Nat /\ kids[i].start < kids[i].end
             /\ kids[i].end <= container.end
             /\ ContainsRange(kids[i], c) \/ c.end < kids[i].start \/ kids[i].end < c.start
  BY <1>1, OrderIs DEF Apart
<1>4. \A i \in 1 .. Len(kids) :
         ContainsRange(kids[i], c) => kids[i].start <= c.start /\ c.end <= kids[i].end
  BY <1>2, <1>3 DEF ContainsRange
<1>. QED  BY <1>2, <1>3, <1>4

\* The other way round: where c stands decides which of these it is.
LEMMA GapIs ==
  ASSUME NEW S, NEW text, NEW container, container.body \in Seq(S), Sorted(container.body),
         NEW c, Apart(c, container), container.body # <<>>
  PROVE  LET kids == container.body
             n == Len(kids)
             line == LineNumber(text, c.start)
             p == ClassifyComment(text, c, container)
         IN  /\ c.end < kids[1].start => p = Placed(kids[1], "leading", FALSE)
             /\ \A k \in 1 .. n - 1 :
                  InGap(c, kids, k) =>
                     p = IF line = LineNumber(text, kids[k].end)
                         THEN Placed(kids[k], "trailing", FALSE)
                         ELSE Placed(kids[k + 1], "leading", FALSE)
             /\ kids[n].end < c.start =>
                  p = IF line = LineNumber(text, kids[n].end)
                      THEN Placed(kids[n], "trailing", FALSE)
                      ELSE Placed(container, "dangling", FALSE)
<1> DEFINE kids == container.body
           n == Len(kids)
           p == ClassifyComment(text, c, container)
<1>1. n \in Nat /\ n > 0 /\ 1 \in 1 .. n /\ n \in 1 .. n
  OBVIOUS
<1>2. /\ c.start \in Nat /\ c.end \in Nat /\ c.start < c.end
      /\ \A j \in 1 .. n : kids[j].start \in Nat /\ kids[j].end \in Nat /\ kids[j].start < kids[j].end
  BY ApartIs
<1>3. \A j, k \in 1 .. n :
         j <= k => kids[j].start <= kids[k].start /\ kids[j].end <= kids[k].end
  BY OrderIs
<1>4. \A j \in 1 .. n : ContainsRange(kids[j], c) => kids[j].start <= c.start /\ c.end <= kids[j].end
  BY <1>2 DEF ContainsRange
<1>5. PlacedBy(text, container, c, p)
  BY PlaceIs
<1> HIDE DEF p
\* Nothing holds c, before the first node, behind the last or in a gap.
<1>6. ASSUME NEW j \in 1 .. n, NEW k \in 1 .. n, j <= k, kids[k].end < c.start
      PROVE  ~ ContainsRange(kids[j], c) /\ ~ (c.end < kids[j].start) /\ kids[j].end < c.start
  <2>1. kids[j].end <= kids[k].end
    BY <1>3, <1>6
  <2>2. kids[j].start \in Nat /\ kids[j].end \in Nat /\ kids[k].end \in Nat
        /\ kids[j].start < kids[j].end
    BY <1>2
  <2>3. kids[j].end < c.start
    BY <1>2, <1>6, <2>1, <2>2
  <2>4. ~ (c.end < kids[j].start) /\ ~ (c.end <= kids[j].end)
    BY <1>2, <2>2, <2>3
  <2>. QED  BY <1>4, <2>3, <2>4
<1>7. ASSUME NEW j \in 1 .. n, NEW k \in 1 .. n, k <= j, c.end < kids[k].start
      PROVE  ~ ContainsRange(kids[j], c) /\ ~ (kids[j].end < c.start) /\ c.end < kids[j].start
  <2>1. kids[k].start <= kids[j].start
    BY <1>3, <1>7
  <2>2. kids[j].start \in Nat /\ kids[j].end \in Nat /\ kids[k].start \in Nat
        /\ kids[j].start < kids[j].end
    BY <1>2
  <2>3. c.end < kids[j].start
    BY <1>2, <1>7, <2>1, <2>2
  <2>4. ~ (kids[j].end < c.start) /\ ~ (kids[j].start <= c.start)
    BY <1>2, <2>2, <2>3
  <2>. QED  BY <1>4, <2>3, <2>4
<1>8. ASSUME c.end < kids[1].start
      PROVE  p = Placed(kids[1], "leading", FALSE)
  <2>1. \A j \in 1 .. n : ~ ContainsRange(kids[j], c) /\ ~ (kids[j].end < c.start)
    BY <1>1, <1>7, <1>8
  <2>2. \A j \in 1 .. n - 1 : ~ InGap(c, kids, j)
    BY <1>1, <2>1 DEF InGap
  <2>. QED  BY <1>1, <1>5, <2>1, <2>2 DEF PlacedBy
<1>9. ASSUME NEW k \in 1 .. n - 1, InGap(c, kids, k)
      PROVE  p = IF LineNumber(text, c.start) = LineNumber(text, kids[k].end)
                 THEN Placed(kids[k], "trailing", FALSE)
                 ELSE Placed(kids[k + 1], "leading", FALSE)
  <2>1. kids[k].end < c.start /\ c.end < kids[k + 1].start
    BY <1>9 DEF InGap
  <2>2. k \in 1 .. n /\ k + 1 \in 1 .. n
    BY <1>1
  <2>3. \A j \in 1 .. n : j <= k \/ k + 1 <= j
    BY <1>1, <2>2
  <2>4. \A j \in 1 .. n : ~ ContainsRange(kids[j], c)
    BY <1>6, <1>7, <2>1, <2>2, <2>3
  <2>5. ~ (c.end < kids[1].start) /\ ~ (kids[n].end < c.start)
    <3>1. 1 <= k /\ k + 1 <= n
      BY <1>1, <2>2
    <3>. QED  BY <1>1, <1>6, <1>7, <2>1, <2>2, <3>1
  <2>6. \A j \in 1 .. n - 1 : InGap(c, kids, j) => j = k
    <3> SUFFICES ASSUME NEW j \in 1 .. n - 1, InGap(c, kids, j), j # k  PROVE FALSE
      OBVIOUS
    <3>1. j \in 1 .. n /\ j + 1 \in 1 .. n /\ (j + 1 <= k \/ k + 1 <= j)
      BY <1>1, <2>2
    <3>2. kids[j].end < c.start /\ c.end < kids[j + 1].start
      BY DEF InGap
    <3>. QED  BY <1>6, <1>7, <2>1, <2>2, <3>1, <3>2
  <2>. QED  BY <1>1, <1>5, <2>4, <2>5, <2>6 DEF PlacedBy
<1>10. ASSUME kids[n].end < c.start
       PROVE  p = IF LineNumber(text, c.start) = LineNumber(text, kids[n].end)
                  THEN Placed(kids[n], "trailing", FALSE)
                  ELSE Placed(container, "dangling", FALSE)
  <2>1. \A j \in 1 .. n : ~ ContainsRange(kids[j], c) /\ ~ (c.end < kids[j].start)
    BY <1>1, <1>6, <1>10
  <2>2. \A j \in 1 .. n - 1 : ~ InGap(c, kids, j)
    <3> SUFFICES ASSUME NEW j \in 1 .. n - 1  PROVE ~ InGap(c, kids, j)
      OBVIOUS
    <3>1. j + 1 \in 1 .. n
      BY <1>1
    <3>. QED  BY <2>1, <3>1 DEF InGap
  <2>. QED  BY <1>1, <1>5, <2>1, <2>2 DEF PlacedBy
<1>. QED  BY <1>8, <1>9, <1>10 DEF p

\* A comment printed at point stays on its side of a statement.
Stands(c, kid, point) ==
  /\ point \in Nat
  /\ c.end < kid.start => point <= 2 * kid.start + 1
  /\ kid.end < c.start => 2 * kid.end <= point
  /\ ContainsRange(kid, c) => point = 2 * kid.end

\* A comment is printed between the statements it stands between, and one
\* within a statement behind that statement.
THEOREM StaysBetween ==
  ASSUME NEW S, NEW text, NEW container, container.body \in Seq(S), Sorted(container.body),
         NEW c, Apart(c, container), NEW i \in 1 .. Len(container.body)
  PROVE  Stands(c, container.body[i], Point(ClassifyComment(text, c, container)))
<1> DEFINE kids == container.body
           n == Len(kids)
           p == ClassifyComment(text, c, container)
<1>1. n \in Nat /\ n > 0 /\ kids # <<>> /\ 1 \in 1 .. n /\ n \in 1 .. n /\ i \in 1 .. n
  OBVIOUS
<1>2. /\ c.start \in Nat /\ c.end \in Nat /\ c.start < c.end
      /\ container.end \in Nat /\ c.end <= container.end
      /\ \A j \in 1 .. n : /\ kids[j].start \in Nat /\ kids[j].end \in Nat
                           /\ kids[j].start < kids[j].end /\ kids[j].end <= container.end
  BY ApartIs
<1>3. \A j, k \in 1 .. n :
         /\ j < k => \/ kids[j].end <= kids[k].start
                     \/ kids[j].start = kids[k].start /\ kids[j].end = kids[k].end
         /\ j <= k => kids[j].start <= kids[k].start /\ kids[j].end <= kids[k].end
  BY OrderIs
<1>4. \A j \in 1 .. n : ContainsRange(kids[j], c) => kids[j].start <= c.start /\ c.end <= kids[j].end
  BY <1>2 DEF ContainsRange
<1>5. PlacedBy(text, container, c, p)
  BY PlaceIs
<1>0. /\ c.start \in Nat /\ c.end \in Nat /\ c.start < c.end
      /\ kids[i].start \in Nat /\ kids[i].end \in Nat /\ kids[i].start < kids[i].end
      /\ container.end \in Nat /\ c.end <= container.end /\ kids[i].end <= container.end
      /\ ContainsRange(kids[i], c) => kids[i].start <= c.start /\ c.end <= kids[i].end
  BY <1>1, <1>2, <1>4
<1> SUFFICES /\ Point(p) \in Nat
             /\ c.end < kids[i].start => Point(p) <= 2 * kids[i].start + 1
             /\ kids[i].end < c.start => 2 * kids[i].end <= Point(p)
             /\ ContainsRange(kids[i], c) => Point(p) = 2 * kids[i].end
  BY DEF Stands
<1> HIDE DEF p
<1>6. CASE c.end < kids[1].start /\ p = Placed(kids[1], "leading", FALSE)
  <2>1. Point(p) = 2 * kids[1].start + 1
    BY <1>6, PointIs
  <2>2. kids[1].start <= kids[i].start /\ kids[1].start \in Nat
    BY <1>1, <1>2, <1>3
  <2> HIDE DEF kids, n
  <2>3. ~ ContainsRange(kids[i], c) /\ ~ (kids[i].end < c.start)
    BY <1>0, <1>6, <2>2
  <2>4. Point(p) \in Nat
    BY <2>1, <2>2
  <2>5. Point(p) <= 2 * kids[i].start + 1
    BY <1>0, <2>1, <2>2
  <2>. QED  BY <2>3, <2>4, <2>5
<1>7. ASSUME NEW k \in 1 .. n, ContainsRange(kids[k], c), p = Placed(kids[k], "trailing", TRUE)
      PROVE  /\ Point(p) \in Nat
             /\ c.end < kids[i].start => Point(p) <= 2 * kids[i].start + 1
             /\ kids[i].end < c.start => 2 * kids[i].end <= Point(p)
             /\ ContainsRange(kids[i], c) => Point(p) = 2 * kids[i].end
  <2>1. Point(p) = 2 * kids[k].end
    BY <1>7, PointIs
  <2>2. kids[k].start <= c.start /\ c.end <= kids[k].end
    BY <1>4, <1>7
  <2>3. /\ i \in Nat /\ k \in Nat
        /\ kids[k].start \in Nat /\ kids[k].end \in Nat /\ kids[k].start < kids[k].end
    BY <1>1, <1>2
  <2>4. /\ i < k => \/ kids[i].end <= kids[k].start
                    \/ kids[i].start = kids[k].start /\ kids[i].end = kids[k].end
        /\ k < i => \/ kids[k].end <= kids[i].start
                    \/ kids[i].start = kids[k].start /\ kids[i].end = kids[k].end
    BY <1>1, <1>3
  <2> HIDE DEF kids, n
  <2>5. i = k \/ i < k \/ k < i
    BY <2>3
  <2>6. \/ kids[i].end <= kids[k].start
        \/ kids[k].end <= kids[i].start
        \/ kids[i].start = kids[k].start /\ kids[i].end = kids[k].end
    BY <2>4, <2>5
  <2>7. c.end < kids[i].start => kids[k].end <= kids[i].start
    BY <1>0, <2>2, <2>3, <2>6
  <2>11. Point(p) \in Nat
    BY <2>1, <2>3
  <2>12. c.end < kids[i].start => Point(p) <= 2 * kids[i].start + 1
    BY <1>0, <2>1, <2>3, <2>7
  <2>13. kids[i].end < c.start => 2 * kids[i].end <= Point(p)
    BY <1>0, <2>1, <2>2, <2>3, <2>6
  <2>14. ContainsRange(kids[i], c) => Point(p) = 2 * kids[i].end
    BY <1>0, <2>1, <2>2, <2>3, <2>6
  <2>. QED  BY <2>11, <2>12, <2>13, <2>14
<1>8. ASSUME NEW k \in 1 .. n - 1, InGap(c, kids, k),
             p = IF LineNumber(text, c.start) = LineNumber(text, kids[k].end)
                 THEN Placed(kids[k], "trailing", FALSE)
                 ELSE Placed(kids[k + 1], "leading", FALSE)
      PROVE  /\ Point(p) \in Nat
             /\ c.end < kids[i].start => Point(p) <= 2 * kids[i].start + 1
             /\ kids[i].end < c.start => 2 * kids[i].end <= Point(p)
             /\ ContainsRange(kids[i], c) => Point(p) = 2 * kids[i].end
  <2>1. Point(p) = 2 * kids[k].end \/ Point(p) = 2 * kids[k + 1].start + 1
    BY <1>8, PointIs
  <2>2. k \in 1 .. n /\ k + 1 \in 1 .. n /\ (i <= k \/ k + 1 <= i)
    BY <1>1
  <2>3. kids[k].end < c.start /\ c.end < kids[k + 1].start
    BY <1>8 DEF InGap
  <2>4. i <= k => kids[i].start <= kids[k].start /\ kids[i].end <= kids[k].end
    BY <1>3, <2>2
  <2>5. k + 1 <= i => kids[k + 1].start <= kids[i].start
    BY <1>3, <2>2
  <2>6. /\ kids[k].start \in Nat /\ kids[k].end \in Nat /\ kids[k].start < kids[k].end
        /\ kids[k + 1].start \in Nat
    BY <1>2, <2>2
  <2> HIDE DEF kids, n
  <2>7. \/ kids[i].end <= kids[k].end /\ kids[i].end < c.start
        \/ kids[k + 1].start <= kids[i].start /\ c.end < kids[i].start
    <3>1. CASE i <= k
      BY <1>0, <2>3, <2>4, <2>6, <3>1
    <3>2. CASE k + 1 <= i
      BY <1>0, <2>3, <2>5, <2>6, <3>2
    <3>. QED  BY <2>2, <3>1, <3>2
  <2>8. ~ ContainsRange(kids[i], c)
    BY <1>0, <2>7
  <2>9. kids[i].end < c.start => kids[i].end <= kids[k].end
    BY <1>0, <2>7
  <2>10. c.end < kids[i].start => kids[k + 1].start <= kids[i].start
    BY <1>0, <2>7
  <2>11. Point(p) \in Nat
    BY <2>1, <2>6
  <2>12. 2 * kids[k].end <= Point(p) /\ Point(p) <= 2 * kids[k + 1].start + 1
    <3>1. kids[k].end < kids[k + 1].start
      BY <1>0, <2>3, <2>6
    <3>2. CASE Point(p) = 2 * kids[k].end
      BY <2>6, <3>1, <3>2
    <3>3. CASE Point(p) = 2 * kids[k + 1].start + 1
      BY <2>6, <3>1, <3>3
    <3>. QED  BY <2>1, <3>2, <3>3
  <2>13. c.end < kids[i].start => Point(p) <= 2 * kids[i].start + 1
    BY <1>0, <2>6, <2>10, <2>11, <2>12
  <2>14. kids[i].end < c.start => 2 * kids[i].end <= Point(p)
    BY <1>0, <2>6, <2>9, <2>11, <2>12
  <2>. QED  BY <2>8, <2>11, <2>13, <2>14
<1>9. ASSUME \A k \in 1 .. n : kids[k].end < c.start,
             p = IF LineNumber(text, c.start) = LineNumber(text, kids[n].end)
                 THEN Placed(kids[n], "trailing", FALSE)
                 ELSE Placed(container, "dangling", FALSE)
      PROVE  /\ Point(p) \in Nat
             /\ c.end < kids[i].start => Point(p) <= 2 * kids[i].start + 1
             /\ kids[i].end < c.start => 2 * kids[i].end <= Point(p)
             /\ ContainsRange(kids[i], c) => Point(p) = 2 * kids[i].end
  <2>1. Point(p) = 2 * kids[n].end \/ Point(p) = 2 * container.end + 1
    BY <1>9, PointIs
  <2>2. kids[i].end <= kids[n].end /\ kids[n].end \in Nat
    BY <1>1, <1>2, <1>3
  <2>3. kids[i].end < c.start
    BY <1>1, <1>9
  <2> HIDE DEF kids, n
  <2>11. Point(p) \in Nat
    BY <1>0, <2>1, <2>2
  <2>12. c.end < kids[i].start => Point(p) <= 2 * kids[i].start + 1
    BY <1>0, <2>1, <2>2, <2>3
  <2>13. kids[i].end < c.start => 2 * kids[i].end <= Point(p)
    BY <1>0, <2>1, <2>2, <2>3
  <2>14. ContainsRange(kids[i], c) => Point(p) = 2 * kids[i].end
    BY <1>0, <2>1, <2>2, <2>3
  <2>. QED  BY <2>11, <2>12, <2>13, <2>14
<1>. QED  BY <1>1, <1>5, <1>6, <1>7, <1>8, <1>9 DEF PlacedBy

-----------------------------------------------------------------------------
(* Among one another.                                                      *)

\* A comment behind another is printed at the same place or behind it, where
\* comments keep the order they are met in.
THEOREM KeepsOrder ==
  ASSUME NEW S, NEW text, NEW container, container.body \in Seq(S), Sorted(container.body),
         NEW c, Apart(c, container), NEW d, Apart(d, container), c.end <= d.start
  PROVE  Point(ClassifyComment(text, c, container)) <= Point(ClassifyComment(text, d, container))
<1> DEFINE kids == container.body
           n == Len(kids)
           p == ClassifyComment(text, c, container)
           q == ClassifyComment(text, d, container)
           Line(o) == LineNumber(text, o)
<1>1. n \in Nat /\ (n > 0 => 1 \in 1 .. n /\ n \in 1 .. n) /\ (kids # <<>> => n > 0)
  OBVIOUS
<1>2. /\ c.start \in Nat /\ c.end \in Nat /\ c.start < c.end /\ c.end <= container.end
      /\ d.start \in Nat /\ d.end \in Nat /\ d.start < d.end
      /\ container.end \in Nat /\ c.start < d.start /\ c.end < d.end
  <2>1. /\ c.start \in Nat /\ c.end \in Nat /\ c.start < c.end
        /\ container.end \in Nat /\ c.end <= container.end
    BY ApartIs
  <2>2. d.start \in Nat /\ d.end \in Nat /\ d.start < d.end
    BY ApartIs
  <2>. QED  BY <2>1, <2>2
<1>3. \A j \in 1 .. n :
         /\ kids[j].start \in Nat /\ kids[j].end \in Nat /\ kids[j].start < kids[j].end
         /\ kids[j].end <= container.end
         /\ \/ kids[j].start <= d.start /\ d.end <= kids[j].end
            \/ d.end < kids[j].start
            \/ kids[j].end < d.start
  BY ApartIs
<1>4. \A j, k \in 1 .. n :
         j <= k => kids[j].start <= kids[k].start /\ kids[j].end <= kids[k].end
  BY OrderIs
<1>5. PlacedBy(text, container, c, p) /\ PlacedBy(text, container, d, q)
  BY PlaceIs
<1>6. \A j \in 1 .. n :
         /\ kids[j].end < d.start => 2 * kids[j].end <= Point(q)
         /\ ContainsRange(kids[j], d) => Point(q) = 2 * kids[j].end
         /\ Point(q) \in Nat
  <2> SUFFICES ASSUME NEW j \in 1 .. n
               PROVE  /\ kids[j].end < d.start => 2 * kids[j].end <= Point(q)
                      /\ ContainsRange(kids[j], d) => Point(q) = 2 * kids[j].end
                      /\ Point(q) \in Nat
    OBVIOUS
  <2>1. Stands(d, kids[j], Point(q))
    BY StaysBetween
  <2>. QED  BY <2>1 DEF Stands
<1>7. \A j \in 1 .. n :
         ContainsRange(kids[j], d) <=> kids[j].start <= d.start /\ d.end <= kids[j].end
  BY <1>2, <1>3 DEF ContainsRange
\* d is not before the node j: it is within it or behind it.
<1>8. \A j \in 1 .. n : ~ (d.end < kids[j].start) => 2 * kids[j].end <= Point(q)
  <2> SUFFICES ASSUME NEW j \in 1 .. n, ~ (d.end < kids[j].start)
               PROVE  2 * kids[j].end <= Point(q)
    OBVIOUS
  <2>1. CASE ContainsRange(kids[j], d)
    <3>1. Point(q) = 2 * kids[j].end /\ kids[j].end \in Nat
      BY <1>3, <1>6, <2>1
    <3>. QED  BY <3>1
  <2>2. CASE kids[j].end < d.start
    BY <1>6, <2>2
  <2>. QED  BY <1>3, <1>7, <2>1, <2>2
<1>9. /\ Line(c.start) \in Nat /\ Line(d.start) \in Nat /\ Line(c.start) <= Line(d.start)
      /\ \A j \in 1 .. n : kids[j].end < c.start =>
            Line(kids[j].end) \in Nat /\ Line(kids[j].end) <= Line(c.start)
  <2>1. c.start <= d.start
    BY <1>2
  <2>2. \A j \in 1 .. n : kids[j].end < c.start => kids[j].end <= c.start
    BY <1>2, <1>3
  <2> HIDE DEF kids, n
  <2>. QED  BY <1>2, <1>3, <2>1, <2>2, LinesGrow
<1> SUFFICES Point(p) <= Point(q)
  OBVIOUS
<1> HIDE DEF p, q, Line
<1>10. CASE kids = <<>>
  <2>1. p = Placed(container, "dangling", FALSE) /\ q = Placed(container, "dangling", FALSE)
    BY <1>5, <1>10 DEF PlacedBy
  <2>2. Point(p) = 2 * container.end + 1 /\ Point(q) = 2 * container.end + 1
    BY <2>1, PointIs
  <2>. QED  BY <1>2, <2>2
<1>11. CASE kids # <<>> /\ c.end < kids[1].start /\ p = Placed(kids[1], "leading", FALSE)
  <2>1. Point(p) = 2 * kids[1].start + 1
    BY <1>11, PointIs
  <2>2. 1 \in 1 .. n
    BY <1>1, <1>11
  <2>3. kids[1].start \in Nat /\ kids[1].end \in Nat /\ kids[1].start < kids[1].end
    BY <1>3, <2>2
  <2>4. CASE d.end < kids[1].start
    <3>1. q = Placed(kids[1], "leading", FALSE)
      BY <1>11, <2>4, GapIs DEF q
    <3>2. Point(q) = 2 * kids[1].start + 1
      BY <3>1, PointIs
    <3>. QED  BY <2>1, <2>3, <3>2
  <2>5. CASE ~ (d.end < kids[1].start)
    <3>1. 2 * kids[1].end <= Point(q) /\ Point(q) \in Nat
      BY <1>6, <1>8, <2>2, <2>5
    <3>. QED  BY <2>1, <2>3, <3>1
  <2>. QED  BY <2>4, <2>5
<1>12. ASSUME NEW k \in 1 .. n, ContainsRange(kids[k], c), p = Placed(kids[k], "trailing", TRUE)
       PROVE  Point(p) <= Point(q)
  <2>1. Point(p) = 2 * kids[k].end
    BY <1>12, PointIs
  <2>2. kids[k].start <= c.start
    BY <1>12 DEF ContainsRange
  <2>3. ~ (d.end < kids[k].start)
    BY <1>2, <1>3, <2>2
  <2>. QED  BY <1>8, <2>1, <2>3
<1>13. ASSUME NEW k \in 1 .. n - 1, InGap(c, kids, k),
              p = IF Line(c.start) = Line(kids[k].end)
                  THEN Placed(kids[k], "trailing", FALSE)
                  ELSE Placed(kids[k + 1], "leading", FALSE)
       PROVE  Point(p) <= Point(q)
  <2>1. k \in 1 .. n /\ k + 1 \in 1 .. n
    BY <1>1
  <2>2. kids[k].end < c.start /\ c.end < kids[k + 1].start
    BY <1>13 DEF InGap
  <2>3. kids[k].end < d.start
    BY <1>2, <1>3, <2>1, <2>2
  <2>4. CASE Line(c.start) = Line(kids[k].end)
    <3>1. Point(p) = 2 * kids[k].end
      BY <1>13, <2>4, PointIs
    <3>. QED  BY <1>6, <2>1, <2>3, <3>1
  <2>5. CASE Line(c.start) # Line(kids[k].end)
    <3>1. Point(p) = 2 * kids[k + 1].start + 1
      BY <1>13, <2>5, PointIs
    <3>2. CASE d.end < kids[k + 1].start
      <4>1. InGap(d, kids, k)
        BY <2>3, <3>2 DEF InGap
      <4>2. Line(d.start) # Line(kids[k].end)
        BY <1>9, <2>1, <2>2, <2>5
      <4>3. kids # <<>>
        BY <2>1
      <4>4. q = Placed(kids[k + 1], "leading", FALSE)
        BY <4>1, <4>2, <4>3, GapIs DEF q, Line
      <4>5. Point(q) = 2 * kids[k + 1].start + 1
        BY <4>4, PointIs
      <4>6. kids[k + 1].start \in Nat
        BY <1>3, <2>1
      <4>. QED  BY <3>1, <4>5, <4>6
    <3>3. CASE ~ (d.end < kids[k + 1].start)
      <4>1. 2 * kids[k + 1].end <= Point(q) /\ Point(q) \in Nat
        BY <1>6, <1>8, <2>1, <3>3
      <4>2. /\ kids[k + 1].start \in Nat /\ kids[k + 1].end \in Nat
            /\ kids[k + 1].start < kids[k + 1].end
        BY <1>3, <2>1
      <4>. QED  BY <3>1, <4>1, <4>2
    <3>. QED  BY <3>2, <3>3
  <2>. QED  BY <2>4, <2>5
<1>14. ASSUME n > 0, \A k \in 1 .. n : kids[k].end < c.start,
              p = IF Line(c.start) = Line(kids[n].end)
                  THEN Placed(kids[n], "trailing", FALSE)
                  ELSE Placed(container, "dangling", FALSE)
       PROVE  Point(p) <= Point(q)
  <2>1. n \in 1 .. n /\ kids[n].end < c.start
    BY <1>1, <1>14
  <2>2. kids[n].end < d.start
    BY <1>2, <1>3, <2>1
  <2>3. CASE Line(c.start) = Line(kids[n].end)
    <3>1. Point(p) = 2 * kids[n].end
      BY <1>14, <2>3, PointIs
    <3>. QED  BY <1>6, <2>1, <2>2, <3>1
  <2>4. CASE Line(c.start) # Line(kids[n].end)
    <3>1. Point(p) = 2 * container.end + 1
      BY <1>14, <2>4, PointIs
    <3>2. Line(d.start) # Line(kids[n].end)
      BY <1>9, <2>1, <2>4
    <3>3. kids # <<>>
      BY <1>14
    <3>4. q = Placed(container, "dangling", FALSE)
      BY <2>2, <3>2, <3>3, GapIs DEF q, Line
    <3>5. Point(q) = 2 * container.end + 1
      BY <3>4, PointIs
    <3>. QED  BY <1>2, <3>1, <3>5
  <2>. QED  BY <2>3, <2>4
<1>. QED  BY <1>5, <1>10, <1>11, <1>12, <1>13, <1>14 DEF PlacedBy, Line
=============================================================================
