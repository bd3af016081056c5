------------------------ MODULE PreserveOutputProofs ------------------------
(***************************************************************************)
(* PreserveOutput's invariant, for every text and any number of spans, and *)
(* what follows from it for the output.                                    *)
(***************************************************************************)
EXTENDS PreserveOutput, SequenceTheorems, FiniteSetTheorems, TLAPS

\* A span of a text of n bytes.
LEMMA SpanFields ==
  ASSUME NEW n \in Nat, NEW s \in Span(n)
  PROVE  s.start \in 0..n /\ s.end \in 0..n /\ s.start < s.end
BY DEF Span

\* The text is a sequence; it does not begin within a character.
LEMMA TextFacts ==
  ASSUME Inv
  PROVE  /\ text \in Seq(ByteKind) /\ Size \in Nat
         /\ Aligned(0) /\ Aligned(Size)
<1>1. text \in Seq(ByteKind) /\ (text # <<>> => text[1] # "rest")
  BY TextsAssumption DEF Inv, TypeOK
<1>2. Size \in Nat
  BY <1>1, LenProperties DEF Size
<1>3. Size = 0 \/ text # <<>>
  BY <1>1, EmptySeq DEF Size
<1>. QED
  BY <1>1, <1>2, <1>3 DEF Aligned, Starts, Kind

\* The bytes of a sequence of spans.
LEMMA CoverMember ==
  ASSUME NEW q, NEW o
  PROVE  o \in Bytes(Elements(q)) <=>
           \E i \in 1..Len(q) : o \in q[i].start..(q[i].end - 1)
BY DEF Bytes, Elements

\* The bytes of a set of spans.
LEMMA BytesMember ==
  ASSUME NEW S, NEW o
  PROVE  o \in Bytes(S) <=> \E s \in S : o \in s.start..(s.end - 1)
BY DEF Bytes

\* At the start nothing is merged and nothing copied.
LEMMA InvInit == Init => Inv
<1> SUFFICES ASSUME Init PROVE Inv
  OBVIOUS
<1>1. text \in Seq(ByteKind) /\ Size \in Nat
  BY TextsAssumption, LenProperties DEF Init, Size
<1>2. merged = <<>> /\ Len(merged) = 0 /\ output = <<>> /\ Len(output) = 0
      /\ map = <<>> /\ Elements(merged) = {} /\ Elements(output) = {}
  BY DEF Init, Elements
<1>3. edits \subseteq Span(Size)
  BY DEF Init, Size
<1>4. TypeOK
  BY <1>1, <1>2, <1>3 DEF Init, TypeOK, Position
<1>5. Bytes(Elements(merged)) = {}
  BY <1>2 DEF Bytes
<1>6. Copied
  BY <1>1, <1>2 DEF Copied, Init
<1>7. SpansApart /\ BoundariesKnown /\ AtInv /\ AlignedInv
  BY <1>1, <1>2 DEF SpansApart, BoundariesKnown, Boundaries, AtInv, AlignedInv, Init
<1>8. MergeInv
  BY <1>2, <1>5 DEF MergeInv, Init
<1>. QED
  BY <1>4, <1>6, <1>7, <1>8 DEF Inv, Init

-----------------------------------------------------------------------------
(* Merging.                                                                *)

\* The merged span that a span touches grows to hold both.
LEMMA MergeTouching ==
  ASSUME Inv, phase = "merge", UNCHANGED <<text, edits, phase, copying>>,
         NEW s \in rest, \A t \in rest : Before(s, t), rest' = rest \ {s},
         Touches(s),
         merged' = [merged EXCEPT ![Len(merged)].end = Larger(@, s.end)]
  PROVE  Inv'
<1> DEFINE l == Len(merged)
<1>t. TypeOK /\ SpansApart /\ BoundariesKnown /\ MergeInv /\ Copied /\ AtInv
      /\ AlignedInv
  BY DEF Inv
<1>0. Size \in Nat
  BY TextFacts
<1>1. merged \in Seq(Span(Size)) /\ l \in Nat /\ l > 0
  BY <1>t, LenProperties, EmptySeq DEF TypeOK, Touches
<1>2. merged[l] \in Span(Size) /\ s \in Span(Size) /\ s \in edits
  BY <1>1, <1>t, ElementOfSeq DEF TypeOK
<1>3. /\ Last = merged[l]
      /\ merged[l].start <= s.start /\ s.start <= merged[l].end
  BY <1>t, <1>1, EmptySeq DEF Last, MergeInv, Touches
<1> DEFINE e == Larger(merged[l].end, s.end)
<1>4. /\ e \in Nat /\ e >= merged[l].end /\ e >= s.end
      /\ e \in {merged[l].end, s.end}
  BY <1>0, <1>2, SpanFields DEF Larger
<1>5. merged' = [merged EXCEPT ![l] = [merged[l] EXCEPT !.end = e]]
  BY <1>1
<1>6. [merged[l] EXCEPT !.end = e] \in Span(Size)
      /\ [merged[l] EXCEPT !.end = e].start = merged[l].start
      /\ [merged[l] EXCEPT !.end = e].end = e
  BY <1>0, <1>2, <1>4, SpanFields DEF Span
<1> DEFINE m == [merged[l] EXCEPT !.end = e]
<1> HIDE DEF m, e
<1>7. /\ merged' \in Seq(Span(Size)) /\ Len(merged') = l
      /\ merged'[l] = m /\ \A i \in 1..l : i # l => merged'[i] = merged[i]
  BY <1>1, <1>5, <1>6, ExceptSeq DEF m
<1>8. TypeOK'
  BY <1>t, <1>7 DEF TypeOK, copying, Size
<1>9. \A i \in 1..l : merged[i] \in Span(Size) /\ merged[i].start \in Nat
                       /\ merged[i].end \in Nat
  BY <1>0, <1>1, ElementOfSeq, SpanFields
<1>10. m.start = merged[l].start /\ m.end = e
  BY <1>6 DEF m
<1>11. SpansApart'
  <2> SUFFICES ASSUME NEW i \in 1..l, NEW j \in 1..l, i < j
               PROVE  merged'[i].end < merged'[j].start
    BY <1>7 DEF SpansApart
  <2>1. i # l /\ merged'[i] = merged[i] /\ merged'[j].start = merged[j].start
    BY <1>1, <1>7, <1>10
  <2>. QED  BY <2>1, <1>t DEF SpansApart
<1>12. BoundariesKnown'
  <2>1. \A i \in 1..l : merged'[i].start = merged[i].start
    BY <1>7, <1>10
  <2>2. \A i \in 1..l : merged'[i].end \in {merged[i].end, s.end}
    BY <1>4, <1>7, <1>10
  <2>. QED
    BY <2>1, <2>2, <1>7, <1>2, <1>t DEF BoundariesKnown, Boundaries
<1>13. Bytes(Elements(merged))' \cup Bytes(rest)' = Bytes(edits)'
  <2> SUFFICES ASSUME NEW o
               PROVE  o \in Bytes(Elements(merged')) \/ o \in Bytes(rest')
                        <=> o \in Bytes(Elements(merged)) \/ o \in Bytes(rest)
    BY <1>t DEF MergeInv, Bytes, Elements
  <2>1. o \in Bytes(rest) <=> o \in Bytes(rest') \/ o \in s.start..(s.end - 1)
    BY BytesMember
  <2>a. /\ merged[l].start \in Int /\ merged[l].end \in Int
        /\ s.start \in Int /\ s.end \in Int /\ e \in Int
        /\ merged'[l].start = merged[l].start /\ merged'[l].end = e
    <3>1. merged[l].start \in Int /\ merged[l].end \in Int
          /\ s.start \in Int /\ s.end \in Int
      BY <1>0, <1>2, SpanFields
    <3>. QED  BY <3>1, <1>4, <1>7, <1>10
  <2>2. o \in merged'[l].start..(merged'[l].end - 1)
          => o \in merged[l].start..(merged[l].end - 1)
             \/ o \in s.start..(s.end - 1)
    BY <2>a, <1>3, <1>4
  <2>3. o \in merged[l].start..(merged[l].end - 1)
             \/ o \in s.start..(s.end - 1)
          => o \in merged'[l].start..(merged'[l].end - 1)
    BY <2>a, <1>3, <1>4
  <2>4. l \in 1..l
    BY <1>1
  <2>5. o \in Bytes(Elements(merged')) <=>
          \E i \in 1..l : o \in merged'[i].start..(merged'[i].end - 1)
    BY <1>7, CoverMember
  <2>6. o \in Bytes(Elements(merged)) <=>
          \E i \in 1..l : o \in merged[i].start..(merged[i].end - 1)
    BY CoverMember
  <2>. QED
    BY <2>1, <2>2, <2>3, <2>4, <2>5, <2>6, <1>7
<1>14. \A t \in rest' : (Last.start)' <= t.start
  BY <1>1, <1>3, <1>7, <1>10, <1>t, EmptySeq DEF Last, MergeInv
<1>15. MergeInv'
  BY <1>13, <1>14, <1>t DEF MergeInv, copying
<1>16. Copied' /\ AtInv' /\ AlignedInv'
  <2>1. Copied'
    BY <1>t DEF Copied, Starts, Kind, copying, Bytes, Elements
  <2>2. AtInv'
    BY DEF AtInv
  <2>3. next = 1
    BY <1>t DEF MergeInv
  <2>4. AlignedInv'
    BY <2>3 DEF AlignedInv, copying
  <2>. QED  BY <2>1, <2>2, <2>4
<1>. QED
  BY <1>8, <1>11, <1>12, <1>15, <1>16 DEF Inv

\* A span apart from all merged ones is put after them.
LEMMA MergeApart ==
  ASSUME Inv, phase = "merge", UNCHANGED <<text, edits, phase, copying>>,
         NEW s \in rest, \A t \in rest : Before(s, t), rest' = rest \ {s},
         ~Touches(s), merged' = Append(merged, s)
  PROVE  Inv'
<1> DEFINE l == Len(merged)
<1>t. TypeOK /\ SpansApart /\ BoundariesKnown /\ MergeInv /\ Copied
  BY DEF Inv
<1>0. Size \in Nat
  BY TextFacts
<1>1. merged \in Seq(Span(Size)) /\ l \in Nat
  BY <1>t, LenProperties DEF TypeOK
<1>2. s \in Span(Size) /\ s \in edits
  BY <1>t DEF TypeOK
<1>3. /\ merged' \in Seq(Span(Size)) /\ Len(merged') = l + 1
      /\ merged'[l + 1] = s /\ \A i \in 1..l : merged'[i] = merged[i]
  BY <1>1, <1>2, AppendProperties
<1>4. TypeOK'
  BY <1>t, <1>1, <1>3 DEF TypeOK, copying, Size
<1>5. \A i \in 1..l : merged[i].start \in Nat /\ merged[i].end \in Nat
                       /\ merged[i].start < merged[i].end
  BY <1>0, <1>1, ElementOfSeq, SpanFields
<1>6. \A i \in 1..l : merged[i].end < s.start
  <2> SUFFICES ASSUME NEW i \in 1..l PROVE merged[i].end < s.start
    OBVIOUS
  <2>1. merged # <<>> /\ l \in 1..l
    BY <1>1, EmptySeq
  <2>2. merged[l].end < s.start
    BY <2>1, <1>0, <1>2, <1>5, SpanFields DEF Touches, Last
  <2>3. i # l => merged[i].end < merged[l].start
    BY <1>1, <2>1, <1>t DEF SpansApart
  <2>. QED  BY <2>1, <2>2, <2>3, <1>0, <1>2, <1>5, SpanFields
<1>7. SpansApart'
  <2> SUFFICES ASSUME NEW i \in 1..(l + 1), NEW j \in 1..(l + 1), i < j
               PROVE  merged'[i].end < merged'[j].start
    BY <1>3 DEF SpansApart
  <2>1. CASE j = l + 1
    BY <2>1, <1>1, <1>3, <1>6
  <2>2. CASE j # l + 1
    BY <2>2, <1>1, <1>3, <1>t DEF SpansApart
  <2>. QED  BY <2>1, <2>2
<1>8. BoundariesKnown'
  <2>1. \A i \in 1..(l + 1) : i \in 1..l \/ merged'[i] = s
    BY <1>1, <1>3
  <2>. QED
    BY <2>1, <1>2, <1>3, <1>t DEF BoundariesKnown, Boundaries
<1>9. Bytes(Elements(merged))' \cup Bytes(rest)' = Bytes(edits)'
  <2> SUFFICES ASSUME NEW o
               PROVE  o \in Bytes(Elements(merged')) \/ o \in Bytes(rest')
                        <=> o \in Bytes(Elements(merged)) \/ o \in Bytes(rest)
    BY <1>t DEF MergeInv, Bytes, Elements
  <2>1. o \in Bytes(rest) <=> o \in Bytes(rest') \/ o \in s.start..(s.end - 1)
    BY BytesMember
  <2>2. o \in Bytes(Elements(merged')) <=>
          \E i \in 1..(l + 1) : o \in merged'[i].start..(merged'[i].end - 1)
    BY <1>3, CoverMember
  <2>3. o \in Bytes(Elements(merged)) <=>
          \E i \in 1..l : o \in merged[i].start..(merged[i].end - 1)
    BY CoverMember
  <2>4. \A i \in 1..(l + 1) : i \in 1..l \/ i = l + 1
    BY <1>1
  <2>5. l + 1 \in 1..(l + 1) /\ 1..l \subseteq 1..(l + 1)
    BY <1>1
  <2>. QED
    BY <2>1, <2>2, <2>3, <2>4, <2>5, <1>3
<1>10. \A t \in rest' : (Last.start)' <= t.start
  BY <1>0, <1>2, <1>3, <1>t, SpanFields DEF Last, Before, TypeOK
<1>11. MergeInv'
  BY <1>9, <1>10, <1>t DEF MergeInv, copying
<1>12. Copied'
  BY <1>t DEF Copied, Starts, Kind, copying, Bytes, Elements
<1>13. AtInv' /\ AlignedInv'
  BY <1>t DEF AtInv, AlignedInv, MergeInv, copying
<1>. QED
  BY <1>4, <1>7, <1>8, <1>11, <1>12, <1>13 DEF Inv

\* All spans are merged.
LEMMA EndMergeInv ==
  ASSUME Inv, EndMerge
  PROVE  Inv'
<1>t. TypeOK /\ SpansApart /\ BoundariesKnown /\ MergeInv /\ Copied
  BY DEF Inv, EndMerge
<1>u. UNCHANGED <<text, edits, rest, merged, next, at, output, map, src, dst>>
      /\ phase' = "slice" /\ rest = {}
  BY DEF EndMerge, copying
<1>1. TypeOK'
  BY <1>t, <1>u DEF TypeOK, Size
<1>2. SpansApart' /\ BoundariesKnown'
  BY <1>t, <1>u DEF SpansApart, BoundariesKnown, Boundaries
<1>3. Bytes(Elements(merged)) = Bytes(edits)
  BY <1>t, <1>u DEF MergeInv, Bytes
<1>4. Copied'
  BY <1>t, <1>u DEF Copied, Starts, Kind, Bytes, Elements
<1>5. AtInv' /\ AlignedInv'
  BY <1>t, <1>u DEF AtInv, AlignedInv, MergeInv, SkippedTo
<1>6. Bytes(Elements(merged))' = Bytes(edits)'
  BY <1>3, <1>u DEF Bytes, Elements
<1>. QED
  BY <1>u, <1>1, <1>2, <1>4, <1>5, <1>6 DEF Inv

-----------------------------------------------------------------------------
(* Copying.                                                                *)

\* What holds of the spans once they are merged.
LEMMA MergedFacts ==
  ASSUME Inv, phase # "merge"
  PROVE  /\ Len(merged) \in Nat
         /\ \A i \in 1..Len(merged) :
              /\ merged[i].start \in 0..Size /\ merged[i].end \in 0..Size
              /\ merged[i].start < merged[i].end
         /\ \A o : o \in Bytes(edits) <=>
              \E i \in 1..Len(merged) : o \in merged[i].start..(merged[i].end - 1)
         /\ \A i, j \in 1..Len(merged) : i < j => merged[i].end < merged[j].start
<1>0. Size \in Nat
  BY TextFacts
<1>1. merged \in Seq(Span(Size))
  BY DEF Inv, TypeOK
<1>2. Len(merged) \in Nat
  BY <1>1, LenProperties
<1>3. \A i \in 1..Len(merged) :
        /\ merged[i].start \in 0..Size /\ merged[i].end \in 0..Size
        /\ merged[i].start < merged[i].end
  BY <1>0, <1>1, ElementOfSeq, SpanFields
<1>4. Bytes(edits) = Bytes(Elements(merged))
  BY DEF Inv
<1>5. \A o : o \in Bytes(edits) <=>
        \E i \in 1..Len(merged) : o \in merged[i].start..(merged[i].end - 1)
  BY <1>4, CoverMember
<1>. QED
  BY <1>2, <1>3, <1>5 DEF Inv, SpansApart

\* A step of the copy that appends nothing to the output.
LEMMA SameSpans ==
  ASSUME Inv, phase # "merge", phase' # "merge",
         UNCHANGED <<text, edits, rest, merged>>
  PROVE  /\ SpansApart' /\ BoundariesKnown'
         /\ rest' = {} /\ Bytes(Elements(merged))' = Bytes(edits)'
         /\ Size' = Size /\ (\A o : Starts(o)' <=> Starts(o))
         /\ (\A o : Aligned(o)' <=> Aligned(o))
BY DEF Inv, SpansApart, BoundariesKnown, Boundaries, Bytes, Elements, Size,
       Starts, Kind, Aligned

\* The chunk's two ends are looked at.
LEMMA SliceChunkInv ==
  ASSUME Inv, SliceChunk
  PROVE  Inv'
<1>u. UNCHANGED <<text, edits, rest, merged, next, at, output, map, src, dst>>
      /\ phase = "slice"
      /\ phase' = IF Aligned(at) /\ Aligned(ChunkEnd) THEN "chunk" ELSE "failed"
  BY DEF SliceChunk, copying
<1>t. TypeOK /\ BoundariesKnown /\ Copied /\ AtInv /\ AlignedInv
  BY DEF Inv
<1>n. next \in 1..(Len(merged) + 1) /\ next \in Int
  BY <1>t, MergedFacts, <1>u DEF TypeOK
<1>m. Size \in Nat /\ Aligned(0) /\ Aligned(Size)
  BY TextFacts
<1>1. TypeOK'
  BY <1>t, <1>u DEF TypeOK, Size
<1>2. Copied'
  BY <1>t, <1>u DEF Copied, Starts, Kind, Bytes, Elements
<1>3. AtInv'
  <2>1. at = SkippedTo
    BY <1>t, <1>u DEF AtInv
  <2>2. next <= Len(merged) /\ next > 1
          => merged[next - 1].end < merged[next].start
    <3> SUFFICES ASSUME next <= Len(merged), next > 1
                 PROVE  merged[next - 1].end < merged[next].start
      OBVIOUS
    <3>1. next - 1 \in 1..Len(merged) /\ next \in 1..Len(merged) /\ next - 1 < next
      BY <1>n, <1>u, MergedFacts
    <3>. QED  BY <3>1, <1>u, MergedFacts
  <2>3. next <= Len(merged) => merged[next].start \in 0..Size
    BY <1>n, <1>u, MergedFacts
  <2>4. at <= ChunkEnd /\ ChunkEnd \in Nat /\ at \in Nat
    BY <2>1, <2>2, <2>3, <1>t, <1>m, <1>n DEF SkippedTo, ChunkEnd, TypeOK
  <2>5. at \in SkippedTo..ChunkEnd
    BY <2>1, <2>4
  <2>. QED
    BY <2>5, <1>u DEF AtInv, SkippedTo, ChunkEnd, Size
<1>4. AlignedInv'
  <2>1. \A o : Aligned(o)' <=> Aligned(o)
    BY <1>u, SameSpans
  <2>2. ChunkEnd' = ChunkEnd /\ Boundaries' = Boundaries
    BY <1>u DEF ChunkEnd, Size, Boundaries
  <2>3. \A i \in 1..(next - 1) : Aligned(merged[i].start) /\ Aligned(merged[i].end)
    BY <1>t DEF AlignedInv
  <2>4. ~Aligned(at) => \E o \in Boundaries : ~Aligned(o)
    <3>1. at = SkippedTo
      BY <1>t, <1>u DEF AtInv
    <3>2. next # 1 => next - 1 \in 1..(next - 1)
      BY <1>n
    <3>. QED  BY <3>1, <3>2, <2>3, <1>m DEF SkippedTo
  <2>5. ~Aligned(ChunkEnd) => \E o \in Boundaries : ~Aligned(o)
    <3>1. next <= Len(merged) => merged[next].start \in Boundaries
      BY <1>n, <1>t, <1>u, MergedFacts DEF BoundariesKnown
    <3>. QED  BY <3>1, <1>m DEF ChunkEnd
  <2>6. phase' = "failed" => \E o \in Boundaries : ~Aligned(o)
    BY <2>4, <2>5, <1>u
  <2>. QED
    BY <1>u, <2>1, <2>2, <2>3, <2>6 DEF AlignedInv
<1>. QED
  BY <1>u, <1>1, <1>2, <1>3, <1>4, SameSpans DEF Inv

\* The span after the chunk is looked at.
LEMMA EndChunkInv ==
  ASSUME Inv, EndChunk
  PROVE  Inv'
<1>u. UNCHANGED <<text, edits, rest, merged, next, at, output, map, src, dst>>
      /\ phase = "chunk" /\ at = ChunkEnd
      /\ phase' = IF next > Len(merged) THEN "done"
                  ELSE IF Aligned(merged[next].end) THEN "skip" ELSE "failed"
  BY DEF EndChunk, copying
<1>t. TypeOK /\ BoundariesKnown /\ Copied /\ AtInv /\ AlignedInv
  BY DEF Inv
<1>n. next \in 1..(Len(merged) + 1) /\ next \in Int /\ Len(merged) \in Nat
  BY <1>t, MergedFacts, <1>u DEF TypeOK
<1>1. TypeOK'
  BY <1>t, <1>u DEF TypeOK, Size
<1>2. Copied'
  BY <1>t, <1>u DEF Copied, Starts, Kind, Bytes, Elements
<1>3. AtInv'
  <2>1. phase' = "done" => at = Size /\ next = Len(merged) + 1
    BY <1>u, <1>n DEF ChunkEnd
  <2>2. phase' = "skip" =>
          next <= Len(merged) /\ at \in merged[next].start..merged[next].end
    <3> SUFFICES ASSUME phase' = "skip"
                 PROVE  next <= Len(merged)
                        /\ at \in merged[next].start..merged[next].end
      OBVIOUS
    <3>1. next <= Len(merged) /\ next \in 1..Len(merged) /\ at = merged[next].start
      BY <1>u, <1>n DEF ChunkEnd
    <3>2. merged[next].start \in 0..Size /\ merged[next].end \in 0..Size
          /\ merged[next].start < merged[next].end
      BY <3>1, <1>u, MergedFacts
    <3>3. merged[next].start \in Int /\ merged[next].end \in Int
      BY <3>2, TextFacts
    <3>. QED  BY <3>1, <3>2, <3>3
  <2>. QED
    BY <2>1, <2>2, <1>u DEF AtInv, Size
<1>4. AlignedInv'
  <2>1. \A o : Aligned(o)' <=> Aligned(o)
    BY <1>u, SameSpans
  <2>2. ChunkEnd' = ChunkEnd /\ Boundaries' = Boundaries
    BY <1>u DEF ChunkEnd, Size, Boundaries
  <2>3. phase' = "failed" => \E o \in Boundaries : ~Aligned(o)
    <3>1. next <= Len(merged) => merged[next].end \in Boundaries
      BY <1>n, <1>t DEF BoundariesKnown
    <3>. QED  BY <3>1, <1>u, <1>n
  <2>. QED
    BY <1>u, <1>t, <2>1, <2>2, <2>3 DEF AlignedInv
<1>. QED
  BY <1>u, <1>1, <1>2, <1>3, <1>4, SameSpans DEF Inv

\* No byte of a chunk is deleted.
LEMMA ChunkIsKept ==
  ASSUME Inv, phase = "chunk", at < ChunkEnd
  PROVE  at \notin Bytes(edits) /\ at \in 0..(Size - 1)
<1>t. TypeOK /\ AtInv
  BY DEF Inv
<1>m. Size \in Nat
  BY TextFacts
<1>n. next \in 1..(Len(merged) + 1) /\ next \in Int /\ Len(merged) \in Nat
  BY <1>t, MergedFacts DEF TypeOK
<1>1. at \in Nat /\ SkippedTo <= at /\ at \in SkippedTo..ChunkEnd
  BY <1>t, <1>m DEF AtInv, TypeOK
<1>2. next <= Len(merged) => merged[next].start \in 0..Size
  BY <1>n, MergedFacts
<1>3. at \in 0..(Size - 1)
  BY <1>1, <1>2, <1>m, <1>n DEF ChunkEnd
<1>4. ASSUME NEW i \in 1..Len(merged)
      PROVE  at \notin merged[i].start..(merged[i].end - 1)
  <2>i. merged[i].start \in 0..Size /\ merged[i].end \in 0..Size /\ i \in Int
        /\ merged[i].start < merged[i].end
    BY MergedFacts
  <2>1. CASE i < next
    <3>1. next - 1 \in 1..Len(merged) /\ SkippedTo = merged[next - 1].end
      BY <1>n, <2>1, <2>i DEF SkippedTo
    <3>2. merged[next - 1].end \in 0..Size /\ merged[next - 1].start \in 0..Size
          /\ merged[next - 1].start < merged[next - 1].end
      BY <3>1, MergedFacts
    <3>3. i = next - 1 \/ i < next - 1
      BY <2>1, <2>i, <1>n
    <3>4. i < next - 1 => merged[i].end < merged[next - 1].start
      BY <3>1, MergedFacts
    <3>5. merged[i].end <= merged[next - 1].end
      BY <3>2, <3>3, <3>4, <2>i, <1>m
    <3>. QED  BY <3>1, <3>2, <3>5, <1>1, <2>i, <1>m
  <2>2. CASE i >= next
    <3>1. next \in 1..Len(merged) /\ ChunkEnd = merged[next].start
      BY <1>n, <2>2, <2>i DEF ChunkEnd
    <3>2. merged[next].end \in 0..Size /\ merged[next].start \in 0..Size
          /\ merged[next].start < merged[next].end
      BY <3>1, MergedFacts
    <3>3. i = next \/ next < i
      BY <2>2, <2>i, <1>n
    <3>4. next < i => merged[next].end < merged[i].start
      BY <3>1, MergedFacts
    <3>5. merged[next].start <= merged[i].start
      BY <3>2, <3>3, <3>4, <2>i, <1>m
    <3>. QED  BY <3>1, <3>2, <3>5, <1>1, <2>i, <1>m
  <2>. QED  BY <2>1, <2>2, <2>i, <1>n
<1>. QED
  BY <1>3, <1>4, MergedFacts

\* The position after a character is a position.
LEMMA AdvanceType ==
  ASSUME NEW p \in Position
  PROVE  Advance(p) \in Position
BY DEF Advance, Position

\* A first byte is appended to the output; any other is passed over.
LEMMA CopyByteInv ==
  ASSUME Inv, CopyByte
  PROVE  Inv'
<1>u. UNCHANGED <<text, edits, rest, merged, phase, next>>
      /\ phase = "chunk" /\ at < ChunkEnd /\ at' = at + 1
  BY DEF CopyByte
<1>t. TypeOK /\ Copied /\ AtInv /\ AlignedInv
  BY DEF Inv
<1>k. at \notin Bytes(edits) /\ at \in 0..(Size - 1)
  BY <1>u, ChunkIsKept
<1>m. Size \in Nat
  BY TextFacts
<1>o. output \in Seq(0..(Size - 1)) /\ Len(output) \in Nat
  BY <1>t, LenProperties DEF TypeOK
<1>s. (\A o : Starts(o)' <=> Starts(o)) /\ Bytes(edits)' = Bytes(edits)
      /\ Size' = Size
  BY <1>u DEF Starts, Kind, Bytes, Size
<1>1. TypeOK'
  <2>1. at' \in 0..Size
    BY <1>u, <1>k, <1>m
  <2>2. output' \in Seq(0..(Size - 1)) /\ map' \in Seq([dst : Position, src : Position])
        /\ src' \in Position /\ dst' \in Position
    <3>1. CASE Starts(at)
      <4>1. output' = Append(output, at)
            /\ map' = Append(map, [dst |-> dst, src |-> src])
            /\ src' = Advance(src) /\ dst' = Advance(dst)
        BY <3>1 DEF CopyByte
      <4>2. src' \in Position /\ dst' \in Position
        BY <4>1, <1>t, AdvanceType DEF TypeOK
      <4>3. [dst |-> dst, src |-> src] \in [dst : Position, src : Position]
        BY <1>t DEF TypeOK
      <4>. QED
        BY <4>1, <4>2, <4>3, <1>o, <1>k, <1>t, AppendProperties DEF TypeOK
    <3>2. CASE ~Starts(at)
      BY <3>2, <1>t DEF CopyByte, TypeOK
    <3>. QED  BY <3>1, <3>2
  <2>. QED
    BY <2>1, <2>2, <1>t, <1>u, <1>s DEF TypeOK
<1>2. Copied'
  <2>1. Elements(output') = {o \in 0..at : Starts(o)} \ Bytes(edits)
        /\ \A i, j \in 1..Len(output') : i < j => output'[i] < output'[j]
    <3>0. 0..at = (0..(at - 1)) \cup {at}
      BY <1>k, <1>m
    <3>a. Elements(output) = {o \in 0..(at - 1) : Starts(o)} \ Bytes(edits)
          /\ \A i, j \in 1..Len(output) : i < j => output[i] < output[j]
      BY <1>t DEF Copied
    <3>1. CASE Starts(at)
      <4>1. output' = Append(output, at)
        BY <3>1 DEF CopyByte
      <4>2. /\ Len(output') = Len(output) + 1 /\ output'[Len(output) + 1] = at
            /\ \A i \in 1..Len(output) : output'[i] = output[i]
        BY <4>1, <1>o, <1>k, AppendProperties
      <4>3. \A i \in 1..Len(output') : i = Len(output) + 1 \/ i \in 1..Len(output)
        BY <4>2, <1>o
      <4>4. 1..Len(output) \subseteq 1..Len(output')
            /\ Len(output) + 1 \in 1..Len(output')
        BY <4>2, <1>o
      <4>5. Elements(output') = Elements(output) \cup {at}
        BY <4>2, <4>3, <4>4 DEF Elements
      <4>6. \A i \in 1..Len(output) : output[i] < at
        <5> SUFFICES ASSUME NEW i \in 1..Len(output) PROVE output[i] < at
          OBVIOUS
        <5>1. output[i] \in 0..(at - 1)
          BY <3>a DEF Elements
        <5>. QED  BY <5>1, <1>k, <1>m
      <4>7. ASSUME NEW i \in 1..Len(output'), NEW j \in 1..Len(output'), i < j
            PROVE  output'[i] < output'[j]
        <5>1. i \in 1..Len(output)
          BY <4>7, <4>2, <1>o
        <5>2. CASE j = Len(output) + 1
          BY <5>1, <5>2, <4>2, <4>6
        <5>3. CASE j \in 1..Len(output)
          BY <5>1, <5>3, <4>2, <4>7, <3>a
        <5>. QED  BY <4>3, <5>2, <5>3
      <4>8. {o \in 0..at : Starts(o)} \ Bytes(edits)
              = ({o \in 0..(at - 1) : Starts(o)} \ Bytes(edits)) \cup {at}
        BY <3>0, <3>1, <1>k
      <4>. QED  BY <4>5, <4>7, <4>8, <3>a
    <3>2. CASE ~Starts(at)
      <4>1. output' = output
        BY <3>2 DEF CopyByte
      <4>2. {o \in 0..at : Starts(o)} = {o \in 0..(at - 1) : Starts(o)}
        BY <3>0, <3>2
      <4>. QED  BY <4>1, <4>2, <3>a
    <3>. QED  BY <3>1, <3>2
  <2>2. at' - 1 = at
    BY <1>u, <1>k, <1>m
  <2>3. {o \in 0..(at' - 1) : Starts(o)'} = {o \in 0..at : Starts(o)}
    BY <2>2, <1>s
  <2>4. Elements(output)' = Elements(output')
    BY DEF Elements
  <2>. QED
    BY <2>1, <2>3, <2>4, <1>s DEF Copied
<1>3. AtInv'
  <2>1. at \in SkippedTo..ChunkEnd
    BY <1>t, <1>u DEF AtInv
  <2>2. SkippedTo \in Int /\ ChunkEnd \in Int
    <3>1. next \in 1..(Len(merged) + 1) /\ next \in Int /\ Len(merged) \in Nat
      BY <1>t, <1>u, MergedFacts DEF TypeOK
    <3>2. next <= Len(merged) => merged[next].start \in 0..Size
      BY <3>1, <1>u, MergedFacts
    <3>3. next # 1 => next - 1 \in 1..Len(merged)
      BY <3>1
    <3>4. next # 1 => merged[next - 1].end \in 0..Size
      BY <3>3, <1>u, MergedFacts
    <3>. QED  BY <3>2, <3>4, <1>m DEF SkippedTo, ChunkEnd
  <2>3. at + 1 \in SkippedTo..ChunkEnd
    BY <2>1, <2>2, <1>u, <1>k, <1>m
  <2>4. SkippedTo' = SkippedTo /\ ChunkEnd' = ChunkEnd
    BY <1>u, <1>s DEF SkippedTo, ChunkEnd
  <2>. QED
    BY <2>3, <2>4, <1>u DEF AtInv
<1>4. AlignedInv'
  <2>1. \A o : Aligned(o)' <=> Aligned(o)
    BY <1>u, SameSpans
  <2>2. ChunkEnd' = ChunkEnd /\ Boundaries' = Boundaries
    BY <1>u, <1>s DEF ChunkEnd, Boundaries
  <2>. QED
    BY <1>u, <1>t, <2>1, <2>2 DEF AlignedInv
<1>. QED
  BY <1>u, <1>1, <1>2, <1>3, <1>4, SameSpans DEF Inv

\* A byte of a deleted span is passed over.
LEMMA SkipByteInv ==
  ASSUME Inv, SkipByte
  PROVE  Inv'
<1>u. UNCHANGED <<text, edits, rest, merged, phase, next, output, map, dst>>
      /\ phase = "skip" /\ at < merged[next].end /\ at' = at + 1
      /\ src' = IF Starts(at) THEN Advance(src) ELSE src
  BY DEF SkipByte
<1>t. TypeOK /\ Copied /\ AtInv /\ AlignedInv
  BY DEF Inv
<1>m. Size \in Nat
  BY TextFacts
<1>a. next <= Len(merged) /\ at \in merged[next].start..merged[next].end
      /\ at \in 0..Size
  BY <1>t, <1>u DEF AtInv, TypeOK
<1>n. next \in 1..Len(merged)
  <2>1. next \in 1..(Len(merged) + 1) /\ Len(merged) \in Nat
    BY <1>t, <1>u, MergedFacts DEF TypeOK
  <2>. QED  BY <2>1, <1>a
<1>b. merged[next].start \in 0..Size /\ merged[next].end \in 0..Size
  BY <1>n, <1>u, MergedFacts
<1>c. at \in merged[next].start..(merged[next].end - 1)
      /\ at + 1 \in merged[next].start..merged[next].end /\ at + 1 \in 0..Size
  BY <1>a, <1>b, <1>u, <1>m
<1>d. at \in Bytes(edits)
  BY <1>c, <1>n, <1>u, MergedFacts
<1>s. (\A o : Starts(o)' <=> Starts(o)) /\ Bytes(edits)' = Bytes(edits)
      /\ Size' = Size
  BY <1>u DEF Starts, Kind, Bytes, Size
<1>1. TypeOK'
  BY <1>c, <1>t, <1>u, <1>s, AdvanceType DEF TypeOK
<1>2. Copied'
  <2>1. 0..(at' - 1) = (0..(at - 1)) \cup {at}
    BY <1>a, <1>u, <1>m
  <2>2. {o \in 0..(at' - 1) : Starts(o)'} \ Bytes(edits)
          = {o \in 0..(at - 1) : Starts(o)} \ Bytes(edits)
    BY <2>1, <1>d, <1>s
  <2>3. Elements(output)' = Elements(output) /\ output' = output
    BY <1>u DEF Elements
  <2>. QED
    BY <2>2, <2>3, <1>t, <1>s DEF Copied
<1>3. AtInv'
  BY <1>a, <1>c, <1>u DEF AtInv
<1>4. AlignedInv'
  <2>1. \A o : Aligned(o)' <=> Aligned(o)
    BY <1>u, SameSpans
  <2>2. ChunkEnd' = ChunkEnd /\ Boundaries' = Boundaries
    BY <1>u, <1>s DEF ChunkEnd, Boundaries
  <2>. QED
    BY <1>u, <1>t, <2>1, <2>2 DEF AlignedInv
<1>. QED
  BY <1>u, <1>1, <1>2, <1>3, <1>4, SameSpans DEF Inv

\* The span is behind; the next chunk starts at its end.
LEMMA EndSkipInv ==
  ASSUME Inv, EndSkip
  PROVE  Inv'
<1>u. UNCHANGED <<text, edits, rest, merged, at, output, map, src, dst>>
      /\ phase = "skip" /\ at = merged[next].end /\ next' = next + 1
      /\ phase' = "slice"
  BY DEF EndSkip
<1>t. TypeOK /\ Copied /\ AtInv /\ AlignedInv
  BY DEF Inv
<1>n. next \in 1..Len(merged) /\ next \in Int /\ Len(merged) \in Nat
  <2>1. next \in 1..(Len(merged) + 1) /\ Len(merged) \in Nat /\ next <= Len(merged)
    BY <1>t, <1>u, MergedFacts DEF TypeOK, AtInv
  <2>. QED  BY <2>1
<1>s. (\A o : Starts(o)' <=> Starts(o)) /\ Bytes(edits)' = Bytes(edits)
      /\ Size' = Size
  BY <1>u DEF Starts, Kind, Bytes, Size
<1>1. TypeOK'
  <2>1. next' \in 1..(Len(merged) + 1)
    BY <1>n, <1>u
  <2>. QED
    BY <2>1, <1>t, <1>u, <1>s DEF TypeOK
<1>2. Copied'
  BY <1>t, <1>u, <1>s DEF Copied, Elements
<1>3. AtInv'
  <2>1. next' - 1 = next /\ next' # 1
    BY <1>n, <1>u
  <2>. QED
    BY <2>1, <1>u DEF AtInv, SkippedTo
<1>4. AlignedInv'
  <2>1. \A o : Aligned(o)' <=> Aligned(o)
    BY <1>u, SameSpans
  <2>2. Aligned(merged[next].start) /\ Aligned(merged[next].end)
    BY <1>t, <1>u, <1>n DEF AlignedInv, ChunkEnd
  <2>3. \A i \in 1..(next' - 1) : i \in 1..(next - 1) \/ i = next
    BY <1>n, <1>u
  <2>4. \A i \in 1..(next' - 1) : Aligned(merged[i].start) /\ Aligned(merged[i].end)
    BY <2>2, <2>3, <1>t DEF AlignedInv
  <2>. QED
    BY <2>1, <2>4, <1>u DEF AlignedInv
<1>. QED
  BY <1>u, <1>1, <1>2, <1>3, <1>4, SameSpans DEF Inv

-----------------------------------------------------------------------------
(* The theorems.                                                           *)

\* The invariant survives every step.
LEMMA InvNext == Inv /\ [Next]_vars => Inv'
<1> SUFFICES ASSUME Inv, [Next]_vars PROVE Inv'
  OBVIOUS
<1>1. CASE MergeSpan
  <2>1. phase = "merge" /\ UNCHANGED <<text, edits, phase, copying>>
    BY <1>1 DEF MergeSpan
  <2>2. PICK s \in rest :
          /\ \A t \in rest : Before(s, t)
          /\ rest' = rest \ {s}
          /\ \/ /\ Touches(s)
                /\ merged' = [merged EXCEPT ![Len(merged)].end = Larger(@, s.end)]
             \/ /\ ~Touches(s)
                /\ merged' = Append(merged, s)
    BY <1>1 DEF MergeSpan
  <2>. QED
    BY <2>1, <2>2, MergeTouching, MergeApart
<1>2. CASE EndMerge
  BY <1>2, EndMergeInv
<1>3. CASE SliceChunk
  BY <1>3, SliceChunkInv
<1>4. CASE CopyByte
  BY <1>4, CopyByteInv
<1>5. CASE EndChunk
  BY <1>5, EndChunkInv
<1>6. CASE SkipByte
  BY <1>6, SkipByteInv
<1>7. CASE EndSkip
  BY <1>7, EndSkipInv
<1>8. CASE UNCHANGED vars
  <2>u. UNCHANGED <<text, edits, rest, merged, phase, next, at, output, map, src, dst>>
    BY <1>8 DEF vars
  <2>s. Size' = Size /\ (\A o : Aligned(o)' <=> Aligned(o)) /\ Boundaries' = Boundaries
        /\ Bytes(edits)' = Bytes(edits) /\ (\A o : Starts(o)' <=> Starts(o))
    BY <2>u DEF Size, Aligned, Starts, Kind, Boundaries, Bytes
  <2>1. TypeOK'
    BY <2>u, <2>s DEF Inv, TypeOK
  <2>2. SpansApart' /\ BoundariesKnown'
    BY <2>u, <2>s DEF Inv, SpansApart, BoundariesKnown
  <2>3. phase' = "merge" => MergeInv'
    BY <2>u DEF Inv, MergeInv, Last, Bytes, Elements
  <2>4. phase' # "merge" =>
          rest' = {} /\ Bytes(Elements(merged))' = Bytes(edits)'
    BY <2>u DEF Inv, Bytes, Elements
  <2>5. Copied'
    BY <2>u, <2>s DEF Inv, Copied, Elements
  <2>6. SkippedTo' = SkippedTo /\ ChunkEnd' = ChunkEnd
    BY <2>u, <2>s DEF SkippedTo, ChunkEnd
  <2>7. AtInv' /\ AlignedInv'
    BY <2>u, <2>s, <2>6 DEF Inv, AtInv, AlignedInv
  <2>. QED
    BY <2>1, <2>2, <2>3, <2>4, <2>5, <2>7 DEF Inv
<1>. QED
  BY <1>1, <1>2, <1>3, <1>4, <1>5, <1>6, <1>7, <1>8 DEF Next

\* The invariant holds of every run.
THEOREM Invariance == Spec => []Inv
<1>. QED
  BY InvInit, InvNext, PTL DEF Spec

\* Every variable keeps its type.
THEOREM TypeCorrect == Spec => []TypeOK
<1>1. Inv => TypeOK
  BY DEF Inv
<1>. QED
  BY <1>1, Invariance, PTL

\* merge_spans neither gains nor loses a byte to delete, and leaves something
\* to copy between any two spans.
THEOREM MergedIsExact == Spec => []MergedExact
<1>1. Inv => MergedExact
  BY DEF Inv, MergedExact, SpansApart
<1>. QED
  BY <1>1, Invariance, PTL

\* The output of build_output is the source without what was to be deleted.
THEOREM OutputIsExact == Spec => []OutputExact
<1>1. Inv => OutputExact
  BY DEF Inv, OutputExact, Copied, AtInv
<1>. QED
  BY <1>1, Invariance, PTL

\* build_output fails only if a span begins or ends within a character, and
\* a result it returns has no half of one.
THEOREM FailureIsMisaligned == Spec => []FailsOnlyMisaligned
<1>1. ASSUME Inv PROVE FailsOnlyMisaligned
  <2>1. phase = "failed" => \E s \in edits : ~Aligned(s.start) \/ ~Aligned(s.end)
    BY <1>1 DEF Inv, AlignedInv, Boundaries
  <2>2. ASSUME phase = "done", NEW i \in 1..Len(merged)
        PROVE  Aligned(merged[i].start) /\ Aligned(merged[i].end)
    <3>1. next = Len(merged) + 1 /\ Len(merged) \in Nat
      BY <1>1, <2>2, MergedFacts DEF Inv, AtInv
    <3>2. i \in 1..(next - 1)
      BY <3>1
    <3>. QED  BY <1>1, <3>2 DEF Inv, AlignedInv
  <2>. QED
    BY <2>1, <2>2 DEF FailsOnlyMisaligned
<1>. QED
  BY <1>1, Invariance, PTL

-----------------------------------------------------------------------------
(* The source map.  Positions are counted in a text that is a parameter    *)
(* here, so that they can be compared across a step.                       *)

CharsIn(t, n) == {o \in 0..(n - 1) : t[o + 1] # "rest"}
NewlinesIn(t, S) == {o \in S : t[o + 1] = "newline"}
LastLineIn(t, S) == {o \in S : \A p \in NewlinesIn(t, S) : p < o}
PositionIn(t, S) ==
  [line |-> Cardinality(NewlinesIn(t, S)), col |-> Cardinality(LastLineIn(t, S))]

(* What has been counted so far is the position of the character at the    *)
(* offset, and each token has the two positions of its own character.      *)
MapInv ==
  /\ Len(map) = Len(output)
  /\ src = PositionIn(text, CharsIn(text, at))
  /\ dst = PositionIn(text, Elements(output))
  /\ \A i \in 1..Len(output) :
       /\ map[i].src = PositionIn(text, CharsIn(text, output[i]))
       /\ map[i].dst = PositionIn(text, {output[j] : j \in 1..(i - 1)})

\* One more character moves the position as advance_char does.
LEMMA PositionStep ==
  ASSUME NEW t, NEW n \in Nat, NEW S \in SUBSET (0..(n - 1))
  PROVE  PositionIn(t, S \cup {n}) =
           IF t[n + 1] = "newline"
           THEN [line |-> PositionIn(t, S).line + 1, col |-> 0]
           ELSE [PositionIn(t, S) EXCEPT !.col = @ + 1]
<1>1. IsFiniteSet(S)
  <2>1. IsFiniteSet(0..(n - 1))
    BY FS_Interval
  <2>. QED  BY <2>1, FS_Subset
<1>2. IsFiniteSet(NewlinesIn(t, S)) /\ IsFiniteSet(LastLineIn(t, S))
  BY <1>1, FS_Subset DEF NewlinesIn, LastLineIn
<1>3. n \notin S /\ \A o \in S : o \in Nat /\ o < n
  OBVIOUS
<1>4. CASE t[n + 1] = "newline"
  <2>1. NewlinesIn(t, S \cup {n}) = NewlinesIn(t, S) \cup {n}
    BY <1>4 DEF NewlinesIn
  <2>2. LastLineIn(t, S \cup {n}) = {}
    <3>1. \A o \in S \cup {n} : ~(n < o)
      BY <1>3
    <3>. QED  BY <2>1, <3>1 DEF LastLineIn
  <2>3. n \notin NewlinesIn(t, S)
    BY <1>3 DEF NewlinesIn
  <2>4. Cardinality(NewlinesIn(t, S \cup {n})) = Cardinality(NewlinesIn(t, S)) + 1
    BY <2>1, <2>3, <1>2, FS_AddElement
  <2>5. Cardinality(LastLineIn(t, S \cup {n})) = 0
    BY <2>2, FS_EmptySet
  <2>. QED
    BY <2>4, <2>5, <1>4 DEF PositionIn
<1>5. CASE t[n + 1] # "newline"
  <2>1. NewlinesIn(t, S \cup {n}) = NewlinesIn(t, S)
    BY <1>5 DEF NewlinesIn
  <2>2. LastLineIn(t, S \cup {n}) = LastLineIn(t, S) \cup {n}
    BY <2>1, <1>3 DEF LastLineIn, NewlinesIn
  <2>3. n \notin LastLineIn(t, S)
    BY <1>3 DEF LastLineIn
  <2>4. Cardinality(LastLineIn(t, S \cup {n})) = Cardinality(LastLineIn(t, S)) + 1
    BY <2>2, <2>3, <1>2, FS_AddElement
  <2>. QED
    BY <2>1, <2>4, <1>5 DEF PositionIn
<1>. QED
  BY <1>4, <1>5

\* The characters before the next offset.
LEMMA CharsStep ==
  ASSUME NEW t, NEW n \in Nat
  PROVE  CharsIn(t, n + 1) =
           IF t[n + 1] # "rest" THEN CharsIn(t, n) \cup {n} ELSE CharsIn(t, n)
<1>1. 0..(n + 1 - 1) = (0..(n - 1)) \cup {n}
  OBVIOUS
<1>. QED
  BY <1>1 DEF CharsIn

\* Nothing is counted at the start.
LEMMA MapInit == Init => MapInv
<1> SUFFICES ASSUME Init PROVE MapInv
  OBVIOUS
<1>1. CharsIn(text, 0) = {}
  BY DEF CharsIn
<1>2. Elements(output) = {} /\ Len(output) = 0 /\ Len(map) = 0
  BY DEF Init, Elements
<1>3. NewlinesIn(text, {}) = {} /\ LastLineIn(text, {}) = {}
  BY DEF NewlinesIn, LastLineIn
<1>4. PositionIn(text, {}) = [line |-> 0, col |-> 0]
  BY <1>3, FS_EmptySet DEF PositionIn
<1>5. /\ at = 0 /\ src = [line |-> 0, col |-> 0] /\ dst = [line |-> 0, col |-> 0]
  BY DEF Init
<1>6. 1..Len(output) = {}
  BY <1>2
<1>7. src = PositionIn(text, CharsIn(text, at))
  BY <1>1, <1>4, <1>5
<1>8. dst = PositionIn(text, Elements(output))
  BY <1>2, <1>4, <1>5
<1>. QED
  BY <1>2, <1>6, <1>7, <1>8 DEF MapInv

\* A character that is copied gets its token.
LEMMA CopyByteMap ==
  ASSUME Inv, MapInv, CopyByte
  PROVE  MapInv'
<1>u. UNCHANGED <<text, edits>> /\ at' = at + 1
      /\ phase = "chunk" /\ at < ChunkEnd
  BY DEF CopyByte
<1>k. at \in Nat /\ at \in 0..(Size - 1) /\ Size \in Nat
  BY <1>u, ChunkIsKept, TextFacts
<1>o. /\ output \in Seq(0..(Size - 1)) /\ Len(output) \in Nat
      /\ map \in Seq([dst : Position, src : Position])
      /\ src \in Position /\ dst \in Position
  BY LenProperties DEF Inv, TypeOK
<1>e. Elements(output) \in SUBSET (0..(at - 1)) /\ CharsIn(text, at) \in SUBSET (0..(at - 1))
  BY DEF Inv, Copied, CharsIn
<1>1. CASE Starts(at)
  <2>1. /\ output' = Append(output, at)
        /\ map' = Append(map, [dst |-> dst, src |-> src])
        /\ src' = Advance(src) /\ dst' = Advance(dst)
    BY <1>1 DEF CopyByte
  <2>2. /\ Len(output') = Len(output) + 1 /\ output'[Len(output) + 1] = at
        /\ \A i \in 1..Len(output) : output'[i] = output[i]
    BY <2>1, <1>o, <1>k, AppendProperties
  <2>3. [dst |-> dst, src |-> src] \in [dst : Position, src : Position]
    BY <1>o
  <2>4. /\ Len(map') = Len(map) + 1
        /\ map'[Len(map) + 1] = [dst |-> dst, src |-> src]
        /\ \A i \in 1..Len(map) : map'[i] = map[i]
    BY <2>1, <2>3, <1>o, AppendProperties
  <2>5. 1..(Len(output) + 1) = (1..Len(output)) \cup {Len(output) + 1}
    BY <1>o
  <2>6. Elements(output') = Elements(output) \cup {at}
    BY <2>2, <2>5 DEF Elements
  <2>7. src' = PositionIn(text, CharsIn(text, at'))
    <3>1. CharsIn(text, at + 1) = CharsIn(text, at) \cup {at}
      BY <1>1, <1>k, CharsStep DEF Starts, Kind
    <3>2. PositionIn(text, CharsIn(text, at) \cup {at}) = Advance(src)
      BY <1>k, <1>e, PositionStep DEF MapInv, Advance, Kind
    <3>. QED  BY <3>1, <3>2, <2>1, <1>u
  <2>8. dst' = PositionIn(text, Elements(output'))
    <3>1. PositionIn(text, Elements(output) \cup {at}) = Advance(dst)
      BY <1>k, <1>e, PositionStep DEF MapInv, Advance, Kind
    <3>. QED  BY <3>1, <2>1, <2>6
  <2>9. ASSUME NEW i \in 1..Len(output')
        PROVE  /\ map'[i].src = PositionIn(text, CharsIn(text, output'[i]))
               /\ map'[i].dst = PositionIn(text, {output'[j] : j \in 1..(i - 1)})
    <3>1. {output'[j] : j \in 1..(i - 1)} = {output[j] : j \in 1..(i - 1)}
      <4>1. 1..(i - 1) \subseteq 1..Len(output)
        BY <2>2, <1>o
      <4>. QED  BY <4>1, <2>2
    <3>2. CASE i = Len(output) + 1
      <4>1. i - 1 = Len(output) /\ map'[i] = [dst |-> dst, src |-> src]
        BY <3>2, <2>4, <1>o DEF MapInv
      <4>2. {output[j] : j \in 1..(i - 1)} = Elements(output)
        BY <4>1 DEF Elements
      <4>3. output'[i] = at
        BY <3>2, <2>2
      <4>4. /\ src = PositionIn(text, CharsIn(text, at))
            /\ dst = PositionIn(text, Elements(output))
        BY DEF MapInv
      <4>5. map'[i].dst = PositionIn(text, {output'[j] : j \in 1..(i - 1)})
        <5>1. map'[i].dst = PositionIn(text, Elements(output))
          BY <4>1, <4>4
        <5>2. {output'[j] : j \in 1..(i - 1)} = Elements(output)
          BY <3>1, <4>2
        <5>. QED  BY <5>1, <5>2
      <4>6. map'[i].src = PositionIn(text, CharsIn(text, output'[i]))
        BY <4>1, <4>3, <4>4
      <4>. QED  BY <4>5, <4>6
    <3>3. CASE i \in 1..Len(output)
      BY <3>1, <3>3, <2>2, <2>4 DEF MapInv
    <3>. QED  BY <3>2, <3>3, <2>2, <2>5
  <2>. QED
    BY <2>2, <2>4, <2>7, <2>8, <2>9, <1>u DEF MapInv
<1>2. CASE ~Starts(at)
  <2>1. UNCHANGED <<output, map, src, dst>>
    BY <1>2 DEF CopyByte
  <2>2. CharsIn(text, at + 1) = CharsIn(text, at)
    BY <1>2, <1>k, CharsStep DEF Starts, Kind
  <2>. QED
    BY <2>1, <2>2, <1>u DEF MapInv
<1>. QED
  BY <1>1, <1>2

\* A character that is deleted moves only the position in the source.
LEMMA SkipByteMap ==
  ASSUME Inv, MapInv, SkipByte
  PROVE  MapInv'
<1>u. UNCHANGED <<text, output, map, dst>> /\ at' = at + 1
      /\ src' = IF Starts(at) THEN Advance(src) ELSE src
  BY DEF SkipByte
<1>k. at \in Nat
  BY TextFacts DEF Inv, TypeOK
<1>1. CharsIn(text, at) \in SUBSET (0..(at - 1))
  BY DEF CharsIn
<1>2. src' = PositionIn(text, CharsIn(text, at + 1))
  <2>1. CASE Starts(at)
    <3>1. CharsIn(text, at + 1) = CharsIn(text, at) \cup {at}
      BY <2>1, <1>k, CharsStep DEF Starts, Kind
    <3>2. PositionIn(text, CharsIn(text, at) \cup {at}) = Advance(src)
      BY <1>k, <1>1, PositionStep DEF MapInv, Advance, Kind
    <3>. QED  BY <3>1, <3>2, <2>1, <1>u
  <2>2. CASE ~Starts(at)
    BY <2>2, <1>u, <1>k, CharsStep DEF Starts, Kind, MapInv
  <2>. QED  BY <2>1, <2>2
<1>. QED
  BY <1>2, <1>u DEF MapInv

\* Every token of the source map is right, whatever is deleted.
THEOREM MapIsExact == Spec => []MapExact
<1>1. Inv /\ MapInv /\ [Next]_vars => MapInv'
  <2> SUFFICES ASSUME Inv, MapInv, [Next]_vars PROVE MapInv'
    OBVIOUS
  <2>1. CASE CopyByte
    BY <2>1, CopyByteMap
  <2>2. CASE SkipByte
    BY <2>2, SkipByteMap
  <2>3. CASE UNCHANGED <<text, at, output, map, src, dst>>
    BY <2>3 DEF MapInv
  <2>. QED
    BY <2>1, <2>2, <2>3 DEF Next, MergeSpan, EndMerge, SliceChunk, EndChunk,
       EndSkip, copying, vars
<1>2. ASSUME MapInv PROVE MapExact
  <2>1. \A S : PositionAfter(S) = PositionIn(text, S)
    BY DEF PositionAfter, Newlines, Kind, PositionIn, NewlinesIn, LastLineIn
  <2>2. \A n : {o \in 0..(n - 1) : Starts(o)} = CharsIn(text, n)
    BY DEF Starts, Kind, CharsIn
  <2>. QED
    BY <1>2, <2>1, <2>2 DEF MapInv, MapExact
<1>. QED
  BY <1>1, <1>2, MapInit, Invariance, PTL DEF Spec
=============================================================================
