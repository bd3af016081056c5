--------------------------- MODULE PreserveOutput ---------------------------
(***************************************************************************)
(* build_output of crates/fft_node/src/preserve_output.rs: the source text *)
(* without the spans that PreserveCollector asked to delete, and the       *)
(* source map that joins the two.                                          *)
(*                                                                         *)
(* The text is what matters of its UTF-8 bytes: a byte continues a         *)
(* character, or is the first of one, which may be a newline.  Offsets are *)
(* byte offsets; a character is named by the offset of its first byte.     *)
(* Copying is one step per byte, as the loop over chars() is turned once   *)
(* for every first byte.                                                   *)
(***************************************************************************)
EXTENDS Integers, Sequences, FiniteSets

CONSTANTS
  Texts,           \* the source texts
  MaxEdits         \* bound on the spans to delete

ByteKind == {"newline", "first", "rest"}

ASSUME TextsAssumption ==
  \A t \in Texts : t \in Seq(ByteKind) /\ (t # <<>> => t[1] # "rest")
ASSUME MaxEditsAssumption == MaxEdits \in Nat

VARIABLES
  text,            \* the source
  edits,           \* the spans to delete, as the collector left them
  rest,            \* those that merge_spans has yet to take
  merged,          \* merge_spans's result
  phase,           \* where build_output is
  next,            \* the merged span that comes next
  at,              \* the offset it has come to
  output,          \* the characters of the output
  map,             \* the tokens of the source map, one per character
  src, dst         \* the positions in the source and in the output

vars == <<text, edits, rest, merged, phase, next, at, output, map, src, dst>>

Size == Len(text)
Kind(o) == text[o + 1]
Starts(o) == Kind(o) # "rest"                \* a character starts at o
\* What str::get asks of both ends of a slice.
Aligned(o) == o = Size \/ Starts(o)

(* push_span lets only non-empty spans within the text through.            *)
Span(n) == {s \in [start : 0..n, end : 0..n] : s.start < s.end}
Bytes(S) == UNION {s.start..(s.end - 1) : s \in S}
Elements(q) == {q[i] : i \in 1..Len(q)}

Before(s, t) == s.start < t.start \/ (s.start = t.start /\ s.end <= t.end)
Larger(a, b) == IF a < b THEN b ELSE a

Init ==
  /\ text \in Texts
  /\ edits \in {E \in SUBSET Span(Len(text)) : Cardinality(E) <= MaxEdits}
  /\ rest = edits
  /\ merged = <<>>
  /\ phase = "merge"
  /\ next = 1
  /\ at = 0
  /\ output = <<>> /\ map = <<>>
  /\ src = [line |-> 0, col |-> 0]
  /\ dst = [line |-> 0, col |-> 0]

-----------------------------------------------------------------------------
copying == <<next, at, output, map, src, dst>>

Last == merged[Len(merged)]
Touches(s) == merged # <<>> /\ s.start <= Last.end

\* Mutant: a span within the one before it cuts that one short.
MergeSpanShrinks ==
  /\ phase = "merge"
  /\ \E s \in rest :
       /\ \A t \in rest : Before(s, t)
       /\ rest' = rest \ {s}
       /\ \/ /\ Touches(s)
             /\ merged' = [merged EXCEPT ![Len(merged)].end = s.end]
          \/ /\ ~Touches(s)
             /\ merged' = Append(merged, s)
  /\ UNCHANGED <<text, edits, phase, copying>>

\* Mutant: the spans are taken in no order.
MergeSpanUnsorted ==
  /\ phase = "merge"
  /\ \E s \in rest :
       /\ rest' = rest \ {s}
       /\ \/ /\ Touches(s)
             /\ merged' = [merged EXCEPT ![Len(merged)].end = Larger(@, s.end)]
          \/ /\ ~Touches(s)
             /\ merged' = Append(merged, s)
  /\ UNCHANGED <<text, edits, phase, copying>>

(* One turn of merge_spans, which takes the spans by start and end.  A     *)
(* span given twice is merged with itself.                                 *)
MergeSpan ==
  /\ phase = "merge"
  /\ \E s \in rest :
       /\ \A t \in rest : Before(s, t)
       /\ rest' = rest \ {s}
       /\ \/ /\ Touches(s)
             /\ merged' = [merged EXCEPT ![Len(merged)].end = Larger(@, s.end)]
          \/ /\ ~Touches(s)
             /\ merged' = Append(merged, s)
  /\ UNCHANGED <<text, edits, phase, copying>>

EndMerge ==
  /\ phase = "merge" /\ rest = {}
  /\ phase' = "slice"
  /\ UNCHANGED <<text, edits, rest, merged, copying>>

(* The chunk to copy next: up to the next span, or all that is left.       *)
ChunkEnd == IF next <= Len(merged) THEN merged[next].start ELSE Size

\* Mutant: a chunk is cut wherever its span says.
SliceChunkAnywhere ==
  /\ phase = "slice"
  /\ phase' = "chunk"
  /\ UNCHANGED <<text, edits, rest, merged, copying>>

SliceChunk ==
  /\ phase = "slice"
  /\ phase' = IF Aligned(at) /\ Aligned(ChunkEnd) THEN "chunk" ELSE "failed"
  /\ UNCHANGED <<text, edits, rest, merged, copying>>

Advance(p) ==
  IF Kind(at) = "newline" THEN [line |-> p.line + 1, col |-> 0]
                          ELSE [p EXCEPT !.col = @ + 1]

CopyByte ==
  /\ phase = "chunk" /\ at < ChunkEnd
  /\ \/ /\ Starts(at)
        /\ map' = Append(map, [dst |-> dst, src |-> src])
        /\ output' = Append(output, at)
        /\ src' = Advance(src)
        /\ dst' = Advance(dst)
     \/ /\ ~Starts(at)
        /\ UNCHANGED <<output, map, src, dst>>
  /\ at' = at + 1
  /\ UNCHANGED <<text, edits, rest, merged, phase, next>>

(* The span after the chunk is sliced too, to advance over it.             *)
EndChunk ==
  /\ phase = "chunk" /\ at = ChunkEnd
  /\ phase' = IF next > Len(merged) THEN "done"
              ELSE IF Aligned(merged[next].end) THEN "skip" ELSE "failed"
  /\ UNCHANGED <<text, edits, rest, merged, copying>>

\* Mutant: the position in the source stays behind at a deleted span.
SkipByteUncounted ==
  /\ phase = "skip" /\ at < merged[next].end
  /\ at' = at + 1
  /\ UNCHANGED <<text, edits, rest, merged, phase, next, output, map, src, dst>>

SkipByte ==
  /\ phase = "skip" /\ at < merged[next].end
  /\ src' = IF Starts(at) THEN Advance(src) ELSE src
  /\ at' = at + 1
  /\ UNCHANGED <<text, edits, rest, merged, phase, next, output, map, dst>>

\* Mutant: the next chunk starts one byte too far on.
EndSkipPast ==
  /\ phase = "skip" /\ at = merged[next].end
  /\ next' = next + 1
  /\ at' = IF at < Size THEN at + 1 ELSE at
  /\ phase' = "slice"
  /\ UNCHANGED <<text, edits, rest, merged, output, map, src, dst>>

EndSkip ==
  /\ phase = "skip" /\ at = merged[next].end
  /\ next' = next + 1
  /\ phase' = "slice"
  /\ UNCHANGED <<text, edits, rest, merged, at, output, map, src, dst>>

Next ==
  \/ MergeSpan \/ EndMerge
  \/ SliceChunk \/ CopyByte \/ EndChunk \/ SkipByte \/ EndSkip

Spec == Init /\ [][Next]_vars
-----------------------------------------------------------------------------
(* Properties.                                                             *)

Position == [line : Nat, col : Nat]

(* Every variable has the type of the local it stands for.                 *)
TypeOK ==
  /\ text \in Texts
  /\ edits \subseteq Span(Size)
  /\ rest \subseteq edits
  /\ merged \in Seq(Span(Size))
  /\ phase \in {"merge", "slice", "chunk", "skip", "done", "failed"}
  /\ next \in 1..(Len(merged) + 1)
  /\ at \in 0..Size
  /\ output \in Seq(0..(Size - 1))
  /\ map \in Seq([dst : Position, src : Position])
  /\ src \in Position /\ dst \in Position

(* However the spans overlapped, touched or contained each other, the      *)
(* merged ones delete the same bytes, in order, with something kept        *)
(* between any two.                                                        *)
MergedExact ==
  phase # "merge" =>
    /\ Bytes(Elements(merged)) = Bytes(edits)
    /\ \A i, j \in 1..Len(merged) : i < j => merged[i].end < merged[j].start

(* The output is the source's characters that no span deletes, all of them *)
(* and in their order.                                                     *)
OutputExact ==
  phase = "done" =>
    /\ Elements(output) = {o \in 0..(Size - 1) : Starts(o)} \ Bytes(edits)
    /\ \A i, j \in 1..Len(output) : i < j => output[i] < output[j]

\* The position of the character after those given, by counting.
Newlines(S) == {o \in S : Kind(o) = "newline"}
PositionAfter(S) ==
  [line |-> Cardinality(Newlines(S)),
   col |-> Cardinality({o \in S : \A p \in Newlines(S) : p < o})]

(* A token of the source map joins a character's position in the output to *)
(* the position of the same character in the source, whatever was deleted  *)
(* before it.                                                              *)
MapExact ==
  /\ Len(map) = Len(output)
  /\ \A i \in 1..Len(map) :
       /\ map[i].src = PositionAfter({o \in 0..(output[i] - 1) : Starts(o)})
       /\ map[i].dst = PositionAfter({output[j] : j \in 1..(i - 1)})

(* The transform fails only over a span that starts or ends within a       *)
(* character, and never hands out half a character.                        *)
FailsOnlyMisaligned ==
  /\ phase = "failed" => \E s \in edits : ~Aligned(s.start) \/ ~Aligned(s.end)
  /\ phase = "done" =>
       \A i \in 1..Len(merged) : Aligned(merged[i].start) /\ Aligned(merged[i].end)

-----------------------------------------------------------------------------
(* The inductive invariant.                                                *)

SpansApart ==
  \A i, j \in 1..Len(merged) : i < j => merged[i].end < merged[j].start

(* The boundaries of a merged span are boundaries of spans it was made of. *)
Boundaries == {s.start : s \in edits} \cup {s.end : s \in edits}
BoundariesKnown ==
  \A i \in 1..Len(merged) : {merged[i].start, merged[i].end} \subseteq Boundaries

(* While merging, the rest starts no earlier than what has been merged.    *)
MergeInv ==
  /\ next = 1 /\ at = 0 /\ output = <<>>
  /\ Bytes(Elements(merged)) \cup Bytes(rest) = Bytes(edits)
  /\ merged # <<>> => \A s \in rest : Last.start <= s.start

(* Behind the offset everything that is kept has been copied.              *)
Copied ==
  /\ Elements(output) = {o \in 0..(at - 1) : Starts(o)} \ Bytes(edits)
  /\ \A i, j \in 1..Len(output) : i < j => output[i] < output[j]

(* Where the offset is, relative to the spans.                             *)
SkippedTo == IF next = 1 THEN 0 ELSE merged[next - 1].end
AtInv ==
  /\ phase = "slice" => at = SkippedTo
  /\ phase = "chunk" => at \in SkippedTo..ChunkEnd
  /\ phase = "skip" =>
       next <= Len(merged) /\ at \in merged[next].start..merged[next].end
  /\ phase = "done" => at = Size /\ next = Len(merged) + 1

(* The slices taken so far were cut between characters.                    *)
AlignedInv ==
  /\ \A i \in 1..(next - 1) : Aligned(merged[i].start) /\ Aligned(merged[i].end)
  /\ phase \in {"chunk", "skip"} => Aligned(ChunkEnd)
  /\ phase = "skip" => Aligned(merged[next].end)
  /\ phase = "failed" => \E o \in Boundaries : ~Aligned(o)

Inv ==
  /\ TypeOK
  /\ SpansApart
  /\ BoundariesKnown
  /\ phase = "merge" => MergeInv
  /\ phase # "merge" => rest = {} /\ Bytes(Elements(merged)) = Bytes(edits)
  /\ Copied
  /\ AtInv
  /\ AlignedInv
=============================================================================
