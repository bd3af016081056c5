------------------------- MODULE PreserveEditsProofs -------------------------
(***************************************************************************)
(* What the collector deletes, for texts of any length: lists with any     *)
(* number of items, and any blanks and comments between the tokens.        *)
(***************************************************************************)
EXTENDS PreserveEdits, WellFoundedInduction, TLAPS

-----------------------------------------------------------------------------
(* The first and the last of a set of offsets.                             *)

LEMMA FirstIs ==
  ASSUME NEW S \in SUBSET Nat, S # {}
  PROVE  First(S) \in S /\ \A p \in S : First(S) <= p
<1>1. PICK m \in S : \A p \in S : ~ (<<p, m>> \in OpToRel(<, Nat))
  BY WFMin, NatLessThanWellFounded
<1>2. \A p \in S : ~ (p < m)
  BY <1>1 DEF OpToRel
<1>3. \A p \in S : p \in Nat
  OBVIOUS
<1>4. \A p \in S : m <= p
  BY <1>2, <1>3
<1>. QED  BY <1>1, <1>4 DEF First

LEMMA FinalIs ==
  ASSUME NEW n \in Nat, NEW S \in SUBSET (0..n), S # {}
  PROVE  Final(S) \in S /\ \A p \in S : Final(S) >= p
<1> DEFINE T == {n - p : p \in S}
<1>0. \A p \in S : p \in 0..n /\ n - p \in Nat
  OBVIOUS
<1>1. T \subseteq Nat /\ T # {}
  BY <1>0
<1>2. First(T) \in T /\ \A t \in T : First(T) <= t
  <2> HIDE DEF T
  <2>. QED  BY <1>1, FirstIs
<1>3. PICK m \in S : First(T) = n - m
  BY <1>2
<1>4. \A p \in S : n - m <= n - p
  BY <1>2, <1>3
<1>5. \A p \in S : m >= p
  BY <1>0, <1>4
<1>. QED  BY <1>5 DEF Final

-----------------------------------------------------------------------------
(* The searches.                                                           *)

LEMMA ForwardIs ==
  ASSUME Size \in Nat, NEW o \in 0..Size, NEW S
  PROVE  /\ Forward(o, S) \in o..Size
         /\ Forward(o, S) = Size \/ Sym(Forward(o, S)) \notin S
         /\ \A q \in o..(Forward(o, S) - 1) : Sym(q) \in S
<1> DEFINE P == {p \in o..Size : p = Size \/ Sym(p) \notin S}
<1>1. P \in SUBSET Nat /\ P # {}
  OBVIOUS
<1>2. First(P) \in P /\ \A p \in P : First(P) <= p
  <2> HIDE DEF P
  <2>. QED  BY <1>1, FirstIs
<1>3. \A q \in o..(First(P) - 1) : Sym(q) \in S
  BY <1>2
<1>. QED  BY <1>2, <1>3 DEF Forward

LEMMA BackIs ==
  ASSUME NEW o \in Nat, NEW floor \in 0..o, NEW S
  PROVE  /\ Back(o, floor, S) \in floor..o
         /\ Back(o, floor, S) = floor \/ Sym(Back(o, floor, S) - 1) \notin S
         /\ \A q \in Back(o, floor, S)..(o - 1) : Sym(q) \in S
<1> DEFINE P == {p \in floor..o : p = floor \/ Sym(p - 1) \notin S}
<1>1. P \in SUBSET (0..o) /\ P # {}
  OBVIOUS
<1>2. Final(P) \in P /\ \A p \in P : Final(P) >= p
  <2> HIDE DEF P
  <2>. QED  BY <1>1, FinalIs
<1>3. \A q \in Final(P)..(o - 1) : Sym(q) \in S
  <2> SUFFICES ASSUME NEW q \in Final(P)..(o - 1) PROVE Sym(q) \in S
    OBVIOUS
  <2>1. q + 1 \notin P
    BY <1>2
  <2>2. q + 1 \in floor..o /\ q + 1 # floor /\ (q + 1) - 1 = q
    BY <1>2
  <2>. QED  BY <2>1, <2>2
<1>. QED  BY <1>2, <1>3 DEF Back

-----------------------------------------------------------------------------
(* Comments, and the offsets that are not within one.                      *)

Boundary(o) == \A c \in Comments : o <= c.start \/ c.end <= o

LEMMA CommentIs ==
  ASSUME Size \in Nat, NEW c \in Comments
  PROVE  /\ c.start \in Offsets /\ c.end \in 1..Size /\ c.start < c.end - 1
         /\ Sym(c.start) = "/*" /\ Sym(c.end - 1) = "*/"
<1>1. PICK o \in Offsets : /\ Sym(o) = "/*" /\ Closings(o) # {}
                          /\ c = [start |-> o, end |-> First(Closings(o)) + 1]
  BY DEF Comments
<1>2. Closings(o) \in SUBSET Nat
  BY DEF Closings, Offsets
<1>3. First(Closings(o)) \in Closings(o)
  BY <1>1, <1>2, FirstIs
<1>4. First(Closings(o)) \in o..(Size - 1) /\ Sym(First(Closings(o))) = "*/"
  BY <1>3 DEF Closings
<1>. QED  BY <1>1, <1>4 DEF Offsets

LEMMA TokenBoundary ==
  ASSUME Size \in Nat, NEW o \in Tokens
  PROVE  Boundary(o) /\ Boundary(o + 1)
<1>1. \A c \in Comments : o \notin c.start..(c.end - 1)
  BY DEF Tokens
<1>2. \A c \in Comments : c.start \in Int /\ c.end \in Int
  BY CommentIs DEF Offsets
<1>3. o \in Int
  BY DEF Tokens, Offsets
<1>. QED  BY <1>1, <1>2, <1>3 DEF Boundary

LEMMA ForwardBoundary ==
  ASSUME Size \in Nat, NEW o \in 0..Size, NEW S \in SUBSET White, Boundary(o)
  PROVE  Boundary(Forward(o, S))
<1> DEFINE p == Forward(o, S)
<1>1. p \in o..Size /\ \A q \in o..(p - 1) : Sym(q) \in White
  BY ForwardIs
<1> SUFFICES ASSUME NEW c \in Comments, c.start < p PROVE c.end <= p
  BY <1>1, CommentIs DEF Boundary, Offsets
<1>2. c.start \in Nat /\ c.end \in Nat /\ Sym(c.start) \notin White
  BY CommentIs DEF White, Blank, Offsets
<1>3. ~ (o <= c.start)
  BY <1>1, <1>2
<1>. QED  BY <1>1, <1>2, <1>3 DEF Boundary

LEMMA BackBoundary ==
  ASSUME Size \in Nat, NEW o \in Nat, NEW floor \in 0..o, NEW S \in SUBSET White, Boundary(o)
  PROVE  Boundary(Back(o, floor, S))
<1> DEFINE p == Back(o, floor, S)
<1>1. p \in floor..o /\ \A q \in p..(o - 1) : Sym(q) \in White
  BY BackIs
<1> SUFFICES ASSUME NEW c \in Comments, p < c.end PROVE p <= c.start
  BY <1>1, CommentIs DEF Boundary, Offsets
<1>2. c.start \in Nat /\ c.end \in Nat /\ Sym(c.end - 1) \notin White
  BY CommentIs DEF White, Blank, Offsets
<1>3. ~ (c.end <= o)
  BY <1>1, <1>2
<1>. QED  BY <1>1, <1>2, <1>3 DEF Boundary

\* What stands at a boundary, or right before one, is a token or a blank.
LEMMA BoundaryToken ==
  ASSUME Size \in Nat, NEW o \in Offsets, Sym(o) \notin White \cup {"/*", "*/"},
         Boundary(o) \/ Boundary(o + 1)
  PROVE  o \in Tokens
<1> SUFFICES ASSUME NEW c \in Comments, o \in c.start..(c.end - 1) PROVE FALSE
  BY DEF Tokens
<1>1. /\ c.start \in Int /\ c.end \in Int
      /\ o # c.start /\ o # c.end - 1
  BY CommentIs DEF Offsets
<1>2. c.start < o /\ o < c.end - 1 /\ o \in Int
  BY <1>1 DEF Offsets
<1>. QED  BY <1>1, <1>2 DEF Boundary

-----------------------------------------------------------------------------
(* Neighbours.                                                             *)

LEMMA Neighbour ==
  ASSUME Size \in Nat, NEW S \in SUBSET Offsets, NEW a \in S, NEW b \in S, a < b
  PROVE  /\ \E p \in S : a <= p /\ <<p, b>> \in Adjacent(S)
         /\ \E p \in S : p <= b /\ <<a, p>> \in Adjacent(S)
<1>0. \A q \in S : q \in Nat /\ q \in 0..Size
  BY DEF Offsets
<1>1. \E p \in S : a <= p /\ <<p, b>> \in Adjacent(S)
  <2> DEFINE L == {q \in S : q < b}
  <2>1. L \in SUBSET (0..Size) /\ L # {}
    BY <1>0
  <2>2. Final(L) \in L /\ \A q \in L : Final(L) >= q
    <3> HIDE DEF L
    <3>. QED  BY <2>1, FinalIs
  <2>3. <<Final(L), b>> \in Adjacent(S)
    BY <1>0, <2>2 DEF Adjacent
  <2>. QED  BY <2>2, <2>3
<1>2. \E p \in S : p <= b /\ <<a, p>> \in Adjacent(S)
  <2> DEFINE G == {q \in S : a < q}
  <2>1. G \in SUBSET Nat /\ G # {}
    BY <1>0
  <2>2. First(G) \in G /\ \A q \in G : First(G) <= q
    <3> HIDE DEF G
    <3>. QED  BY <2>1, FirstIs
  <2>3. <<a, First(G)>> \in Adjacent(S)
    BY <1>0, <2>2 DEF Adjacent
  <2>. QED  BY <2>2, <2>3
<1>. QED  BY <1>1, <1>2

LEMMA AdjacentIs ==
  ASSUME NEW S, NEW o, NEW p
  PROVE  <<o, p>> \in Adjacent(S) <=>
           o \in S /\ p \in S /\ o < p /\ \A q \in S : q <= o \/ p <= q
BY DEF Adjacent

LEMMA TokensAre ==
  ASSUME Size \in Nat
  PROVE  /\ Tokens \in SUBSET Offsets /\ Tokens \in SUBSET Nat
         /\ \A o \in Tokens : o \in Nat /\ o < Size /\ Sym(o) \notin White
BY DEF Tokens, Offsets

\* The tokens next to a token.
Pre(o) == CHOOSE p : <<p, o>> \in Adjacent(Tokens)
Suc(o) == CHOOSE p : <<o, p>> \in Adjacent(Tokens)
Start == First(Tokens)
End == Final(Tokens)

LEMMA Outermost ==
  ASSUME Size \in Nat, Tokens # {}
  PROVE  /\ Start \in Tokens /\ \A o \in Tokens : Start <= o
         /\ End \in Tokens /\ \A o \in Tokens : End >= o
<1>1. Tokens \in SUBSET Nat /\ Tokens \in SUBSET (0..Size)
  BY TokensAre DEF Offsets
<1>. QED  BY <1>1, FirstIs, FinalIs DEF Start, End

LEMMA PreIs ==
  ASSUME Size \in Nat, NEW o \in Tokens, o # Start
  PROVE  /\ Pre(o) \in Tokens /\ Pre(o) \in Nat /\ Pre(o) < o
         /\ \A q \in Tokens : q <= Pre(o) \/ o <= q
         /\ Suc(Pre(o)) = o /\ Pre(o) # End /\ <<Pre(o), o>> \in Adjacent(Tokens)
<1>1. Start \in Tokens /\ Start < o
  BY Outermost, TokensAre
<1>2. \E p : <<p, o>> \in Adjacent(Tokens)
  BY <1>1, Neighbour, TokensAre
<1>3. <<Pre(o), o>> \in Adjacent(Tokens)
  BY <1>2 DEF Pre
<1>4. <<Pre(o), Suc(Pre(o))>> \in Adjacent(Tokens)
  BY <1>3 DEF Suc
<1>5. /\ Pre(o) \in Tokens /\ Pre(o) < o /\ \A q \in Tokens : q <= Pre(o) \/ o <= q
      /\ Suc(Pre(o)) \in Tokens /\ Pre(o) < Suc(Pre(o))
      /\ \A q \in Tokens : q <= Pre(o) \/ Suc(Pre(o)) <= q
  BY <1>3, <1>4, AdjacentIs
<1>6. Suc(Pre(o)) = o /\ Pre(o) \in Nat
  BY <1>5, TokensAre
<1>7. Pre(o) # End
  BY <1>5, Outermost, TokensAre
<1>. QED  BY <1>3, <1>5, <1>6, <1>7

LEMMA SucIs ==
  ASSUME Size \in Nat, NEW o \in Tokens, o # End
  PROVE  /\ Suc(o) \in Tokens /\ Suc(o) \in Nat /\ o < Suc(o)
         /\ \A q \in Tokens : q <= o \/ Suc(o) <= q
         /\ Pre(Suc(o)) = o /\ Suc(o) # Start /\ <<o, Suc(o)>> \in Adjacent(Tokens)
<1>1. End \in Tokens /\ o < End
  BY Outermost, TokensAre
<1>2. \E p : <<o, p>> \in Adjacent(Tokens)
  BY <1>1, Neighbour, TokensAre
<1>3. <<o, Suc(o)>> \in Adjacent(Tokens)
  BY <1>2 DEF Suc
<1>4. <<Pre(Suc(o)), Suc(o)>> \in Adjacent(Tokens)
  BY <1>3 DEF Pre
<1>5. /\ Suc(o) \in Tokens /\ o < Suc(o) /\ \A q \in Tokens : q <= o \/ Suc(o) <= q
      /\ Pre(Suc(o)) \in Tokens /\ Pre(Suc(o)) < Suc(o)
      /\ \A q \in Tokens : q <= Pre(Suc(o)) \/ Suc(o) <= q
  BY <1>3, <1>4, AdjacentIs
<1>6. Pre(Suc(o)) = o /\ Suc(o) \in Nat
  BY <1>5, TokensAre
<1>7. Suc(o) # Start
  BY <1>5, Outermost, TokensAre
<1>. QED  BY <1>3, <1>5, <1>6, <1>7

\* A construct, token by token.
LEMMA ConstructIs ==
  ASSUME Size \in Nat, NEW first, NEW last, NEW follows, Construct(first, last, follows)
  PROVE  /\ Tokens # {}
         /\ Start \in Tokens /\ Sym(Start) \in first
         /\ End \in Tokens /\ Sym(End) \in last
         /\ \A o \in Tokens : o # Start => <<Sym(Pre(o)), Sym(o)>> \in follows
         /\ \A o \in Tokens : o # End => <<Sym(o), Sym(Suc(o))>> \in follows
<1>1. \A e \in Adjacent(Tokens) : Symbols(e) \in follows
  BY DEF Construct
<1>2. \A o, p : <<o, p>> \in Adjacent(Tokens) => <<Sym(o), Sym(p)>> \in follows
  BY <1>1 DEF Symbols
<1>3. \A o \in Tokens : o # Start => <<Sym(Pre(o)), Sym(o)>> \in follows
  BY <1>2, PreIs
<1>4. \A o \in Tokens : o # End => <<Sym(o), Sym(Suc(o))>> \in follows
  BY <1>2, SucIs
<1>. QED  BY <1>3, <1>4, Outermost DEF Construct, Start, End

-----------------------------------------------------------------------------
(* From a token to the one next to it.                                     *)

LEMMA ForwardTo ==
  ASSUME Size \in Nat, NEW S, NEW o \in Nat, NEW c \in o..(Size - 1),
         Sym(c) \notin S, \A q \in o..(c - 1) : Sym(q) \in S
  PROVE  Forward(o, S) = c
<1> DEFINE f == Forward(o, S)
<1>1. /\ f \in o..Size
      /\ f = Size \/ Sym(f) \notin S
      /\ \A q \in o..(f - 1) : Sym(q) \in S
  BY ForwardIs
<1>2. ~ (c < f)
  BY <1>1
<1>3. ~ (f < c)
  BY <1>1
<1>. QED  BY <1>1, <1>2, <1>3

LEMMA BackTo ==
  ASSUME NEW S, NEW o \in Nat, NEW floor \in 0..o, NEW c \in floor..(o - 1),
         Sym(c) \notin S, \A q \in (c + 1)..(o - 1) : Sym(q) \in S
  PROVE  Back(o, floor, S) = c + 1
<1> DEFINE b == Back(o, floor, S)
<1>1. /\ b \in floor..o
      /\ b = floor \/ Sym(b - 1) \notin S
      /\ \A q \in b..(o - 1) : Sym(q) \in S
  BY BackIs
<1>2. ~ (b <= c)
  BY <1>1
<1>3. ~ (c + 1 < b)
  BY <1>1
<1>. QED  BY <1>1, <1>2, <1>3

\* Over blanks from one token one comes to the next, or stops before it.
LEMMA ForwardStops ==
  ASSUME Size \in Nat, NEW o \in Tokens, NEW S \in SUBSET White
  PROVE  /\ Forward(o + 1, S) \in Nat /\ o < Forward(o + 1, S) /\ Forward(o + 1, S) <= Size
         /\ Boundary(Forward(o + 1, S))
         /\ \A q \in Tokens : q <= o \/ Forward(o + 1, S) <= q
<1>1. o \in Nat /\ o + 1 \in 0..Size /\ \A q \in Tokens : q \in Nat /\ Sym(q) \notin White
  BY TokensAre
<1>2. /\ Forward(o + 1, S) \in (o + 1)..Size
      /\ \A q \in (o + 1)..(Forward(o + 1, S) - 1) : Sym(q) \in S
  BY <1>1, ForwardIs
<1>3. Boundary(Forward(o + 1, S))
  BY <1>1, TokenBoundary, ForwardBoundary
<1>. QED  BY <1>1, <1>2, <1>3

LEMMA ForwardToken ==
  ASSUME Size \in Nat, NEW o \in Tokens, NEW S \in SUBSET White, NEW a, a = Forward(o + 1, S)
  PROVE  /\ a \in Nat /\ o < a /\ a <= Size /\ Boundary(a)
         /\ \A q \in Tokens : q <= o \/ a <= q
         /\ a < Size /\ Sym(a) = "comma" => a \in Tokens /\ a = Suc(o) /\ o # End
         /\ o # End /\ Sym(Suc(o)) \notin S /\ Gap(<<o, Suc(o)>>) \subseteq S => a = Suc(o)
<1>1. o \in Nat /\ o + 1 \in 0..Size /\ \A q \in Tokens : q \in Nat /\ Sym(q) \notin White
  BY TokensAre
<1>a. a \in Nat /\ o < a /\ a <= Size
  BY ForwardStops
<1>3. Boundary(a)
  BY ForwardStops
<1>4. \A q \in Tokens : q <= o \/ a <= q
  BY ForwardStops
<1>5. ASSUME a < Size, Sym(a) = "comma"  PROVE a \in Tokens /\ a = Suc(o) /\ o # End
  <2>1. a \in Offsets /\ Sym(a) \notin White \cup {"/*", "*/"}
    BY <1>a, <1>5 DEF Offsets, White, Blank
  <2>2. a \in Tokens
    BY <2>1, <1>3, BoundaryToken
  <2>3. o # End
    BY <1>1, <1>a, <2>2, Outermost
  <2>4. Suc(o) \in Nat /\ Suc(o) \in Tokens /\ o < Suc(o) /\ \A q \in Tokens : q <= o \/ Suc(o) <= q
    BY <2>3, SucIs
  <2>5. Suc(o) <= a /\ a <= Suc(o) /\ Suc(o) \in Nat
    BY <1>1, <1>a, <1>4, <2>2, <2>4
  <2>. QED  BY <2>2, <2>3, <2>5, <1>a
<1>6. ASSUME o # End, Sym(Suc(o)) \notin S, Gap(<<o, Suc(o)>>) \subseteq S  PROVE a = Suc(o)
  <2>1. Suc(o) \in Tokens /\ Suc(o) \in Nat /\ o < Suc(o)
    BY <1>6, SucIs
  <2>2. \A q \in (o + 1)..(Suc(o) - 1) : Sym(q) \in S
    BY <1>6 DEF Gap
  <2>3. Suc(o) \in (o + 1)..(Size - 1)
    BY <2>1, <1>1, TokensAre
  <2>. QED  BY <2>2, <2>3, <1>1, <1>6, ForwardTo
<1>. QED  BY <1>a, <1>3, <1>4, <1>5, <1>6

LEMMA BackStops ==
  ASSUME Size \in Nat, NEW o \in Tokens, NEW floor \in Nat, floor <= o, NEW S \in SUBSET White
  PROVE  /\ Back(o, floor, S) \in Nat /\ floor <= Back(o, floor, S) /\ Back(o, floor, S) <= o
         /\ Boundary(Back(o, floor, S))
         /\ \A q \in Tokens : q < Back(o, floor, S) \/ o <= q
<1>1. o \in Nat /\ \A q \in Tokens : q \in Nat /\ Sym(q) \notin White
  BY TokensAre
<1>2. floor \in 0..o
  BY <1>1
<1>3. /\ Back(o, floor, S) \in floor..o
      /\ \A q \in Back(o, floor, S)..(o - 1) : Sym(q) \in S
  BY <1>1, <1>2, BackIs
<1>4. Boundary(Back(o, floor, S))
  BY <1>1, <1>2, TokenBoundary, BackBoundary
<1>. QED  BY <1>1, <1>3, <1>4

LEMMA BackToken ==
  ASSUME Size \in Nat, NEW o \in Tokens, NEW floor \in Nat, floor <= o, NEW S \in SUBSET White,
         NEW b, b = Back(o, floor, S)
  PROVE  /\ b \in Nat /\ floor <= b /\ b <= o /\ Boundary(b)
         /\ \A q \in Tokens : q < b \/ o <= q
         /\ b > floor /\ Sym(b - 1) \in {"comma", ":"}
              => b - 1 \in Tokens /\ b - 1 = Pre(o) /\ o # Start
         /\ o # Start /\ Sym(Pre(o)) \notin S /\ Gap(<<Pre(o), o>>) \subseteq S
            /\ floor <= Pre(o) => b = Pre(o) + 1
<1>1. o \in Nat /\ o < Size /\ \A q \in Tokens : q \in Nat /\ q < Size /\ Sym(q) \notin White
  BY TokensAre
<1>0. floor \in 0..o
  BY <1>1
<1>a. b \in Nat /\ floor <= b /\ b <= o
  BY BackStops
<1>3. Boundary(b)
  BY BackStops
<1>4. \A q \in Tokens : q < b \/ o <= q
  BY BackStops
<1>5. ASSUME b > floor, Sym(b - 1) \in {"comma", ":"}
      PROVE  b - 1 \in Tokens /\ b - 1 = Pre(o) /\ o # Start
  <2>0. b - 1 \in 0..(Size - 1) /\ (b - 1) + 1 = b
    BY <1>1, <1>a, <1>5
  <2>1. b - 1 \in Offsets /\ Sym(b - 1) \notin White \cup {"/*", "*/"}
    BY <2>0, <1>5 DEF Offsets, White, Blank
  <2>2. b - 1 \in Tokens
    BY <2>0, <2>1, <1>3, BoundaryToken
  <2>3. o # Start
    BY <1>1, <1>a, <2>2, Outermost
  <2>4. Pre(o) \in Nat /\ Pre(o) \in Tokens /\ Pre(o) < o /\ \A q \in Tokens : q <= Pre(o) \/ o <= q
    BY <2>3, PreIs
  <2>5. Pre(o) <= b - 1 /\ b - 1 <= Pre(o) /\ Pre(o) \in Nat
    BY <1>1, <1>a, <1>4, <2>2, <2>4
  <2>. QED  BY <2>2, <2>3, <2>5, <1>a
<1>6. ASSUME o # Start, Sym(Pre(o)) \notin S, Gap(<<Pre(o), o>>) \subseteq S, floor <= Pre(o)
      PROVE  b = Pre(o) + 1
  <2>1. Pre(o) \in Tokens /\ Pre(o) \in Nat /\ Pre(o) < o
    BY <1>6, PreIs
  <2>2. \A q \in (Pre(o) + 1)..(o - 1) : Sym(q) \in S
    BY <1>6 DEF Gap
  <2>3. Pre(o) \in floor..(o - 1)
    BY <2>1, <1>1, <1>6
  <2>. QED  BY <2>2, <2>3, <1>0, <1>1, <1>6, BackTo
<1>. QED  BY <1>a, <1>3, <1>4, <1>5, <1>6

\* Back over a comma, no other token is passed.
LEMMA BackOverCommaIs ==
  ASSUME Size \in Nat, NEW o \in Tokens, NEW floor \in Nat, floor <= o,
         NEW b, b = BackOverComma(o, floor)
  PROVE  /\ b \in Nat /\ floor <= b /\ b <= o /\ Boundary(b)
         /\ \A q \in Tokens : b <= q /\ q < o => q = Pre(o) /\ o # Start /\ Sym(q) = "comma"
         /\ o # Start /\ Sym(Pre(o)) = "comma" /\ Gap(<<Pre(o), o>>) \subseteq Blank
            /\ floor <= Pre(o) => b <= Pre(o)
<1> DEFINE p == Back(o, floor, Blank)
<1>0. Blank \in SUBSET White /\ "comma" \notin Blank
  BY DEF White, Blank
<1>1. o \in Nat /\ \A q \in Tokens : q \in Nat
  BY TokensAre
<1>2. /\ p \in Nat /\ floor <= p /\ p <= o /\ Boundary(p)
      /\ \A q \in Tokens : q < p \/ o <= q
      /\ p > floor /\ Sym(p - 1) \in {"comma", ":"}
           => p - 1 \in Tokens /\ p - 1 = Pre(o) /\ o # Start
      /\ o # Start /\ Sym(Pre(o)) \notin Blank /\ Gap(<<Pre(o), o>>) \subseteq Blank
         /\ floor <= Pre(o) => p = Pre(o) + 1
  BY <1>0, BackToken
<1>3. b = IF p > floor /\ Sym(p - 1) = "comma" THEN Back(p - 1, floor, Blank) ELSE p
  BY DEF BackOverComma
<1> HIDE DEF p
<1>4. CASE p > floor /\ Sym(p - 1) = "comma"
  <2>1. p - 1 \in Tokens /\ p - 1 = Pre(o) /\ o # Start /\ b = Back(p - 1, floor, Blank)
    BY <1>2, <1>3, <1>4
  <2>2. floor <= p - 1 /\ p - 1 < o /\ p - 1 \in Nat
    BY <1>1, <1>2, <1>4
  <2> DEFINE m == p - 1
  <2>a. m \in Tokens /\ floor <= m /\ b = Back(m, floor, Blank)
    BY <2>1, <2>2
  <2>3. /\ b \in Nat /\ floor <= b /\ b <= p - 1 /\ Boundary(b)
        /\ \A q \in Tokens : q < b \/ p - 1 <= q
    <3> HIDE DEF m
    <3>1. /\ b \in Nat /\ floor <= b /\ b <= m /\ Boundary(b)
          /\ \A q \in Tokens : q < b \/ m <= q
      BY <1>0, <2>a, BackStops
    <3>. QED  BY <3>1 DEF m
  <2>4. \A q \in Tokens : b <= q /\ q < o => q = p - 1
    BY <1>1, <1>2, <2>3
  <2>5. b <= o
    BY <1>1, <2>2, <2>3
  <2>6. \A q \in Tokens : b <= q /\ q < o => q = Pre(o) /\ o # Start /\ Sym(q) = "comma"
    BY <2>1, <2>4, <1>4
  <2>. QED  BY <2>1, <2>3, <2>5, <2>6
<1>5. CASE ~ (p > floor /\ Sym(p - 1) = "comma")
  <2>1. b = p
    BY <1>3, <1>5
  <2>2. ASSUME o # Start, Sym(Pre(o)) = "comma", Gap(<<Pre(o), o>>) \subseteq Blank, floor <= Pre(o)
        PROVE  FALSE
    <3>1. p = Pre(o) + 1 /\ Pre(o) \in Nat
      BY <1>0, <1>1, <1>2, <2>2, PreIs
    <3>2. p - 1 = Pre(o) /\ p > floor
      BY <3>1, <2>2
    <3>. QED  BY <3>2, <2>2, <1>5
  <2>3. \A q \in Tokens : ~ (b <= q /\ q < o)
    BY <1>1, <1>2, <2>1
  <2>. QED  BY <1>2, <2>1, <2>2, <2>3
<1>. QED  BY <1>4, <1>5

-----------------------------------------------------------------------------
(* What some spans cover.                                                  *)

Covers(S, o) == \E s \in S : s.start <= o /\ o < s.end
Typed(S) == \A s \in S : s.start \in Nat /\ s.end \in Nat
\* Spans that begin and end outside of comments.
Bounded(S) == Typed(S) /\ \A s \in S : Boundary(s.start) /\ Boundary(s.end)

LEMMA CoversNone == ASSUME NEW o PROVE ~ Covers({}, o)
BY DEF Covers

LEMMA CoversOne ==
  ASSUME NEW a, NEW b, NEW o
  PROVE  Covers({[start |-> a, end |-> b]}, o) <=> a <= o /\ o < b
BY DEF Covers

LEMMA CoversUnion ==
  ASSUME NEW S, NEW T, NEW o
  PROVE  Covers(S \cup T, o) <=> Covers(S, o) \/ Covers(T, o)
BY DEF Covers

LEMMA BoundedUnion ==
  ASSUME NEW S, NEW T, Bounded(S), Bounded(T)
  PROVE  Bounded(S \cup T)
BY DEF Bounded, Typed

LEMMA Family ==
  ASSUME NEW F
  PROVE  /\ \A o : Covers(UNION F, o) <=> \E S \in F : Covers(S, o)
         /\ (\A S \in F : Bounded(S)) => Bounded(UNION F)
BY DEF Covers, Bounded, Typed

LEMMA NodeIs ==
  ASSUME Size \in Nat, NEW o \in Tokens
  PROVE  /\ Bounded({Node(o)})
         /\ \A q \in Tokens : Covers({Node(o)}, q) <=> q = o
<1>1. o \in Nat /\ o + 1 \in Nat /\ \A q \in Tokens : q \in Nat
  BY TokensAre
<1>2. Boundary(o) /\ Boundary(o + 1)
  BY TokenBoundary
<1>. QED  BY <1>1, <1>2 DEF Bounded, Typed, Node, Covers

LEMMA NodesOfIs ==
  ASSUME Size \in Nat, NEW X
  PROVE  /\ Bounded(NodesOf(X))
         /\ \A q \in Tokens : Covers(NodesOf(X), q) <=> Sym(q) \in X
<1>1. \A o \in Where(X) : o \in Tokens /\ Sym(o) \in X
  BY DEF Where
<1>2. Bounded(NodesOf(X))
  BY <1>1, NodeIs DEF NodesOf, Bounded, Typed
<1>3. ASSUME NEW q \in Tokens  PROVE Covers(NodesOf(X), q) <=> Sym(q) \in X
  <2>1. Covers(NodesOf(X), q) <=> \E o \in Where(X) : Covers({Node(o)}, q)
    BY DEF Covers, NodesOf
  <2>2. Covers(NodesOf(X), q) <=> \E o \in Where(X) : q = o
    BY <1>1, <2>1, NodeIs
  <2>. QED  BY <2>2 DEF Where
<1>. QED  BY <1>2, <1>3

LEMMA OuterIs ==
  ASSUME Size \in Nat, Tokens # {}
  PROVE  /\ Bounded({Outer})
         /\ \A q \in Tokens : Covers({Outer}, q)
<1>1. Start \in Tokens /\ End \in Tokens /\ \A q \in Tokens : q \in Nat /\ Start <= q /\ End >= q
  BY TokensAre, Outermost
<1>2. Boundary(Start) /\ Boundary(End + 1)
  BY <1>1, TokenBoundary
<1>3. Outer = [start |-> Start, end |-> End + 1]
  BY DEF Outer, Start, End
<1>4. Start \in Nat /\ End + 1 \in Nat
  BY <1>1
<1>5. \A q \in Tokens : Start <= q /\ q < End + 1
  BY <1>1
<1>. QED  BY <1>2, <1>3, <1>4, <1>5 DEF Bounded, Typed, Covers

-----------------------------------------------------------------------------
(* The spans that are pushed.                                              *)

LEMMA ClippedIs ==
  ASSUME Size \in Nat, NEW S, Typed(S)
  PROVE  /\ Clipped(S) \subseteq {s \in Span : s.start < s.end}
         /\ \A o \in Offsets : Covers(Clipped(S), o) <=> Covers(S, o)
<1> DEFINE clip(s) == [start |-> s.start, end |-> IF s.end > Size THEN Size ELSE s.end]
<1>1. Clipped(S) = {clip(s) : s \in {r \in S : r.start < r.end /\ r.start < Size}}
  BY DEF Clipped
<1>2. \A s \in S : s.start \in Nat /\ s.end \in Nat
  BY DEF Typed
<1>3. ASSUME NEW s \in S, s.start < s.end, s.start < Size
      PROVE  /\ clip(s) \in Span /\ clip(s).start < clip(s).end
             /\ \A o \in Offsets : clip(s).start <= o /\ o < clip(s).end
                                     <=> s.start <= o /\ o < s.end
  <2>1. s.start \in Nat /\ s.end \in Nat
    BY <1>2
  <2>. QED  BY <1>3, <2>1 DEF Span, Offsets
<1>4. ASSUME NEW o \in Offsets, NEW s \in S, s.start <= o, o < s.end
      PROVE  s.start < s.end /\ s.start < Size
  BY <1>2, <1>4 DEF Offsets
<1> HIDE DEF clip
<1>5. Clipped(S) \subseteq {s \in Span : s.start < s.end}
  BY <1>1, <1>3
<1>6. ASSUME NEW o \in Offsets  PROVE Covers(Clipped(S), o) <=> Covers(S, o)
  <2>1. ASSUME Covers(Clipped(S), o)  PROVE Covers(S, o)
    <3>1. PICK s \in S : /\ s.start < s.end /\ s.start < Size
                         /\ clip(s).start <= o /\ o < clip(s).end
      BY <1>1, <2>1 DEF Covers
    <3>. QED  BY <1>3, <3>1 DEF Covers
  <2>2. ASSUME Covers(S, o)  PROVE Covers(Clipped(S), o)
    <3>1. PICK s \in S : s.start <= o /\ o < s.end
      BY <2>2 DEF Covers
    <3>2. clip(s).start <= o /\ o < clip(s).end /\ clip(s) \in Clipped(S)
      BY <1>1, <1>3, <1>4, <3>1
    <3>. QED  BY <3>2 DEF Covers
  <2>. QED  BY <2>1, <2>2
<1>. QED  BY <1>5, <1>6

LEMMA ClippedUnion ==
  ASSUME NEW S, NEW T
  PROVE  Clipped(S) \cup Clipped(T) = Clipped(S \cup T)
<1> DEFINE clip(s) == [start |-> s.start, end |-> IF s.end > Size THEN Size ELSE s.end]
           P(r) == r.start < r.end /\ r.start < Size
<1>1. \A X : Clipped(X) = {clip(s) : s \in {r \in X : P(r)}}
  BY DEF Clipped
<1> HIDE DEF clip, P
<1>2. {r \in S \cup T : P(r)} = {r \in S : P(r)} \cup {r \in T : P(r)}
  OBVIOUS
<1>. QED  BY <1>1, <1>2

LEMMA CommentSpansAre ==
  ASSUME Size \in Nat
  PROVE  /\ Typed(CommentSpans)
         /\ \A q \in Tokens : ~ Covers(CommentSpans, q)
<1>1. \A c \in Comments : c.start \in Nat /\ c.end \in Nat
  BY CommentIs DEF Offsets
<1>2. ASSUME NEW q \in Tokens, NEW c \in Comments, c.start <= q, q < c.end  PROVE FALSE
  <2>1. q \notin c.start..(c.end - 1) /\ q \in Nat
    BY TokensAre DEF Tokens
  <2>. QED  BY <1>1, <1>2, <2>1
<1>. QED  BY <1>1, <1>2 DEF CommentSpans, Typed, Covers

-----------------------------------------------------------------------------
(* From token to token.                                                    *)

\* What holds next to a token, and next to where it holds, holds from there on.
LEMMA AllAfter ==
  ASSUME Size \in Nat, NEW m \in Tokens, NEW X,
         \A q \in Tokens : q # Start /\ (Pre(q) = m \/ Pre(q) \in X) => q \in X
  PROVE  \A q \in Tokens : m < q => q \in X
<1> DEFINE Y == {q \in Tokens : m < q /\ q \notin X}
<1>1. Tokens \in SUBSET Nat /\ Y \in SUBSET Nat
  BY TokensAre
<1> SUFFICES ASSUME Y # {} PROVE FALSE
  OBVIOUS
<1>2. PICK q \in Tokens : m < q /\ q \notin X /\ \A r \in Y : q <= r
  <2>1. First(Y) \in Y /\ \A r \in Y : First(Y) <= r
    BY <1>1, FirstIs
  <2>. QED  BY <2>1
<1>3. q # Start
  BY <1>1, <1>2, Outermost
<1>4. Pre(q) \in Tokens /\ Pre(q) \in Nat /\ Pre(q) < q /\ (m <= Pre(q) \/ q <= m)
  BY <1>3, PreIs
<1>5. Pre(q) = m \/ (m < Pre(q) /\ Pre(q) \in Tokens)
  BY <1>1, <1>2, <1>4
<1>6. Pre(q) \notin Y
  BY <1>1, <1>2, <1>4
<1>. QED  BY <1>2, <1>3, <1>5, <1>6

\* The neighbour of o in K is not before the token after o.
LEMMA Skip ==
  ASSUME Size \in Nat, NEW K \in SUBSET Tokens, NEW o, NEW p, <<o, p>> \in Adjacent(K),
         NEW x \in Tokens, o <= x, x < p
  PROVE  /\ x # End
         /\ \/ Suc(x) \in K /\ p = Suc(x)
            \/ Suc(x) \notin K /\ o <= Suc(x) /\ Suc(x) < p
<1>1. o \in K /\ p \in K /\ o < p /\ \A q \in K : q <= o \/ p <= q
  BY AdjacentIs
<1>2. Tokens \in SUBSET Nat
  BY TokensAre
<1>3. x # End
  BY <1>1, <1>2, Outermost
<1>a. Suc(x) \in Tokens /\ Suc(x) \in Nat /\ x < Suc(x) /\ (p <= x \/ Suc(x) <= p)
  BY <1>1, <1>3, SucIs
<1>4. p \in Nat /\ o \in Nat /\ x \in Nat /\ Suc(x) <= p
  BY <1>1, <1>2, <1>a
<1>5. Suc(x) \in K => p = Suc(x)
  BY <1>1, <1>4, <1>a
<1>6. Suc(x) \notin K => o <= Suc(x) /\ Suc(x) < p
  BY <1>1, <1>4, <1>a
<1>. QED  BY <1>3, <1>5, <1>6

\* The neighbour of p in K is not after the token before p.
LEMMA SkipBack ==
  ASSUME Size \in Nat, NEW K \in SUBSET Tokens, NEW o, NEW p, <<o, p>> \in Adjacent(K)
  PROVE  /\ p # Start
         /\ Pre(p) \in K => o = Pre(p)
<1>1. o \in K /\ p \in K /\ o < p /\ \A q \in K : q <= o \/ p <= q
  BY AdjacentIs
<1>2. Tokens \in SUBSET Nat
  BY TokensAre
<1>3. p # Start
  BY <1>1, <1>2, Outermost
<1>4. Pre(p) \in Tokens /\ Pre(p) \in Nat /\ Pre(p) < p /\ (o <= Pre(p) \/ p <= o)
  BY <1>1, <1>3, PreIs
<1>. QED  BY <1>1, <1>2, <1>3, <1>4

-----------------------------------------------------------------------------
(* The spans of the searches.                                              *)

LEMMA ListItemSpanIs ==
  ASSUME Size \in Nat, NEW t \in Tokens, NEW floor \in Nat, floor <= t
  PROVE  LET S == {ListItemSpan(Node(t), floor)}
         IN  /\ Bounded(S) /\ Covers(S, t)
             /\ \A q \in Tokens : Covers(S, q) =>
                  \/ q = t
                  \/ t # End /\ q = Suc(t) /\ Sym(q) = "comma"
                  \/ t # Start /\ q = Pre(t) /\ Sym(q) = "comma"
                     /\ ~ (t # End /\ Sym(Suc(t)) = "comma" /\ Gap(<<t, Suc(t)>>) \subseteq White)
             /\ t # End /\ Sym(Suc(t)) = "comma" /\ Gap(<<t, Suc(t)>>) \subseteq White
                  => Covers(S, Suc(t))
<1> DEFINE after == Forward(t + 1, White)
           S == {ListItemSpan(Node(t), floor)}
           clear == t # End /\ Sym(Suc(t)) = "comma" /\ Gap(<<t, Suc(t)>>) \subseteq White
<1>0. "comma" \notin White /\ Blank \in SUBSET White /\ White \in SUBSET White
  BY DEF White, Blank
<1>1. t \in Nat /\ \A q \in Tokens : q \in Nat
  BY TokensAre
<1>2. /\ after < Size /\ Sym(after) = "comma" => after \in Tokens /\ after = Suc(t) /\ t # End
      /\ clear => after = Suc(t)
  BY <1>0, ForwardToken
<1>3. S = {IF after < Size /\ Sym(after) = "comma"
           THEN [start |-> t, end |-> Forward(after + 1, Blank)]
           ELSE [start |-> BackOverComma(t, floor), end |-> t + 1]}
  BY DEF ListItemSpan, Node
<1> HIDE DEF after, S
<1>4. CASE after < Size /\ Sym(after) = "comma"
  <2> DEFINE e == Forward(after + 1, Blank)
  <2>1. after \in Tokens /\ after = Suc(t) /\ t # End /\ t < after /\ S = {[start |-> t, end |-> e]}
    BY <1>2, <1>3, <1>4, SucIs
  <2>2. \A q \in Tokens : q <= t \/ after <= q
    BY <2>1, SucIs
  <2>3. /\ e \in Nat /\ after < e /\ Boundary(e)
        /\ \A q \in Tokens : q <= after \/ e <= q
    BY <1>0, <2>1, ForwardStops
  <2>4. Boundary(t)
    BY TokenBoundary
  <2>5. Bounded(S)
    BY <1>1, <2>1, <2>3, <2>4 DEF Bounded, Typed
  <2>6. \A q : Covers(S, q) <=> t <= q /\ q < e
    BY <2>1, CoversOne
  <2> HIDE DEF e
  <2>7. Covers(S, t) /\ Covers(S, after)
    BY <1>1, <2>1, <2>3, <2>6
  <2>8. \A q \in Tokens : Covers(S, q) => q = t \/ q = after
    BY <1>1, <2>1, <2>2, <2>3, <2>6
  <2>. QED  BY <2>1, <2>5, <2>7, <2>8, <1>4 DEF S
<1>5. CASE ~ (after < Size /\ Sym(after) = "comma")
  <2> DEFINE b == BackOverComma(t, floor)
  <2>1. S = {[start |-> b, end |-> t + 1]}
    BY <1>3, <1>5
  <2>2. ~ clear
    BY <1>2, <1>5, SucIs, TokensAre
  <2>3. /\ b \in Nat /\ b <= t /\ Boundary(b)
        /\ \A q \in Tokens : b <= q /\ q < t => q = Pre(t) /\ t # Start /\ Sym(q) = "comma"
    BY BackOverCommaIs
  <2>4. Boundary(t + 1) /\ t + 1 \in Nat
    BY <1>1, TokenBoundary
  <2>5. Bounded(S)
    BY <2>1, <2>3, <2>4 DEF Bounded, Typed
  <2>6. \A q : Covers(S, q) <=> b <= q /\ q < t + 1
    BY <2>1, CoversOne
  <2> HIDE DEF b
  <2>7. Covers(S, t)
    BY <1>1, <2>3, <2>6
  <2>8. \A q \in Tokens : Covers(S, q) => q = t \/ (b <= q /\ q < t)
    BY <1>1, <2>3, <2>6
  <2>. QED  BY <2>2, <2>3, <2>5, <2>7, <2>8 DEF S
<1>. QED  BY <1>4, <1>5

LEMMA ThisParamSpanIs ==
  ASSUME Size \in Nat, NEW t \in Tokens
  PROVE  LET S == {ThisParamSpan(Node(t))}
         IN  /\ Bounded(S) /\ Covers(S, t)
             /\ \A q \in Tokens : Covers(S, q) => \/ q = t
                                                  \/ t # End /\ q = Suc(t) /\ Sym(q) = "comma"
             /\ t # End /\ Sym(Suc(t)) = "comma" /\ Gap(<<t, Suc(t)>>) \subseteq White
                  => Covers(S, Suc(t))
<1> DEFINE after == Forward(t + 1, White)
           S == {ThisParamSpan(Node(t))}
           clear == t # End /\ Sym(Suc(t)) = "comma" /\ Gap(<<t, Suc(t)>>) \subseteq White
<1>0. "comma" \notin White /\ White \in SUBSET White
  BY DEF White, Blank
<1>1. t \in Nat /\ \A q \in Tokens : q \in Nat
  BY TokensAre
<1>2. /\ after < Size /\ Sym(after) = "comma" => after \in Tokens /\ after = Suc(t) /\ t # End
      /\ clear => after = Suc(t)
      /\ after \in Nat /\ t < after /\ Boundary(after) /\ \A q \in Tokens : q <= t \/ after <= q
  BY <1>0, ForwardToken
<1>3. S = {[start |-> t,
            end |-> IF after < Size /\ Sym(after) = "comma"
                    THEN Forward(after + 1, White) ELSE after]}
  BY DEF ThisParamSpan, Node
<1>b. Boundary(t)
  BY TokenBoundary
<1> HIDE DEF after, S
<1>4. CASE after < Size /\ Sym(after) = "comma"
  <2> DEFINE e == Forward(after + 1, White)
  <2>1. after \in Tokens /\ after = Suc(t) /\ t # End /\ S = {[start |-> t, end |-> e]}
    BY <1>2, <1>3, <1>4
  <2>3. /\ e \in Nat /\ after < e /\ Boundary(e)
        /\ \A q \in Tokens : q <= after \/ e <= q
    BY <1>0, <2>1, ForwardStops
  <2>5. Bounded(S)
    BY <1>1, <1>b, <2>1, <2>3 DEF Bounded, Typed
  <2>6. \A q : Covers(S, q) <=> t <= q /\ q < e
    BY <2>1, CoversOne
  <2> HIDE DEF e
  <2>7. Covers(S, t) /\ Covers(S, after)
    BY <1>1, <1>2, <2>3, <2>6
  <2>8. \A q \in Tokens : Covers(S, q) => q = t \/ q = after
    BY <1>1, <1>2, <2>3, <2>6
  <2>. QED  BY <2>1, <2>5, <2>7, <2>8, <1>4 DEF S
<1>5. CASE ~ (after < Size /\ Sym(after) = "comma")
  <2>1. S = {[start |-> t, end |-> after]}
    BY <1>3, <1>5
  <2>2. ~ clear
    BY <1>2, <1>5, SucIs, TokensAre
  <2>5. Bounded(S)
    BY <1>1, <1>2, <1>b, <2>1 DEF Bounded, Typed
  <2>6. \A q : Covers(S, q) <=> t <= q /\ q < after
    BY <2>1, CoversOne
  <2>7. Covers(S, t)
    BY <1>1, <1>2, <2>6
  <2>8. \A q \in Tokens : Covers(S, q) => q = t
    BY <1>1, <1>2, <2>6
  <2>. QED  BY <2>2, <2>5, <2>7, <2>8 DEF S
<1>. QED  BY <1>4, <1>5

-----------------------------------------------------------------------------
(* What is to hold of the spans of a construct.                            *)

Left(S) == {q \in Tokens : ~ Covers(S, q)}
Sound(S) == Bounded(S) /\ \A q \in Tokens : Sym(q) \in ValueSymbols => ~ Covers(S, q)
Erasing(S) == \A q \in Tokens : Sym(q) \in TypeSymbols => Covers(S, q)
Parsing(S) == \A e \in Adjacent(Left(S)) : Symbols(e) \in Follows

LEMMA FirstOfOne ==
  ASSUME NEW S \in SUBSET Nat, NEW x \in S, \A q \in S : q = x
  PROVE  First(S) = x
BY FirstIs

LEMMA FinalOfOne ==
  ASSUME NEW n \in Nat, NEW S \in SUBSET (0..n), NEW x \in S, \A q \in S : q = x
  PROVE  Final(S) = x
BY FinalIs

LEMMA ParsingIs ==
  ASSUME NEW S,
         \A o, p : <<o, p>> \in Adjacent(Left(S)) => <<Sym(o), Sym(p)>> \in Follows
  PROVE  Parsing(S)
<1> SUFFICES ASSUME NEW e \in Adjacent(Left(S)) PROVE Symbols(e) \in Follows
  BY DEF Parsing
<1>1. e \in Left(S) \X Left(S)
  BY DEF Adjacent
<1>2. e = <<e[1], e[2]>>
  BY <1>1
<1>. QED  BY <1>2 DEF Symbols

-----------------------------------------------------------------------------
(* A declaration that goes as a whole.                                     *)

LEMMA ErasedSpans ==
  ASSUME Size \in Nat, IsErased
  PROVE  Sound({Outer}) /\ Erasing({Outer}) /\ Parsing({Outer})
<1>1. /\ Tokens # {} /\ Sym(Start) \in {"type"}
      /\ \A o \in Tokens : o # Start => <<Sym(Pre(o)), Sym(o)>> \in {<<"type", "T">>}
  BY ConstructIs DEF IsErased
<1>2. Bounded({Outer}) /\ \A q \in Tokens : Covers({Outer}, q)
  BY <1>1, OuterIs
<1>3. \A q \in Tokens : Sym(q) \in {"type", "T"}
  BY <1>1
<1>4. Sound({Outer})
  BY <1>2, <1>3 DEF Sound, ValueSymbols
<1>5. Left({Outer}) = {}
  BY <1>2 DEF Left
<1>. QED  BY <1>2, <1>4, <1>5 DEF Erasing, Parsing, Adjacent

-----------------------------------------------------------------------------
(* e as T.                                                                 *)

LEMMA CastShape ==
  ASSUME Size \in Nat, IsCast
  PROVE  \E a, t \in Tokens :
           /\ Sym(Start) = "e" /\ Start \in Tokens /\ Start < a /\ a < t
           /\ \A q \in Tokens : q <= Start \/ a <= q
           /\ \A q \in Tokens : q <= a \/ t <= q
           /\ \A q \in Tokens : \/ q = Start
                                \/ q = a /\ Sym(q) = "as"
                                \/ q = t /\ Sym(q) = "T"
                                \/ q = End /\ t < q /\ Sym(q) = "semicolon"
<1> DEFINE follows == {<<"e", "as">>, <<"as", "T">>, <<"T", "semicolon">>}
           a == Suc(Start)
           t == Suc(a)
<1>1. /\ Start \in Tokens /\ Sym(Start) = "e" /\ End \in Tokens /\ Sym(End) = "semicolon"
      /\ \A o \in Tokens : o # Start => <<Sym(Pre(o)), Sym(o)>> \in follows
      /\ \A o \in Tokens : o # End => <<Sym(o), Sym(Suc(o))>> \in follows
  <2>1. Construct({"e"}, {"semicolon"}, follows)
    BY DEF IsCast
  <2> HIDE DEF follows
  <2>. QED  BY <2>1, ConstructIs
<1>2. /\ a \in Tokens /\ Start < a /\ \A q \in Tokens : q <= Start \/ a <= q
      /\ Sym(a) = "as"
  BY <1>1, SucIs
<1>3. /\ t \in Tokens /\ a < t /\ \A q \in Tokens : q <= a \/ t <= q
      /\ Sym(t) = "T"
  BY <1>1, <1>2, SucIs
<1>4. \A q \in Tokens : Sym(q) = "e" => q = Start
  BY <1>1
<1>5. \A q \in Tokens : Sym(q) = "as" => q = a
  BY <1>1, <1>4, PreIs
<1>6. \A q \in Tokens : Sym(q) = "T" => q = t
  BY <1>1, <1>5, PreIs
<1>7. \A q \in Tokens : Sym(q) = "semicolon" => q = End
  BY <1>1
<1>8. t < End
  BY <1>1, <1>3, Outermost, TokensAre
<1>9. \A q \in Tokens : Sym(q) \in {"e", "as", "T", "semicolon"}
  BY <1>1
<1> HIDE DEF a, t
<1>. QED  BY <1>1, <1>2, <1>3, <1>4, <1>5, <1>6, <1>7, <1>8, <1>9

LEMMA CastSpansAre ==
  ASSUME Size \in Nat, IsCast, WordsClear
  PROVE  Sound(CastSpans) /\ Erasing(CastSpans) /\ Parsing(CastSpans)
<1>1. PICK a, t \in Tokens :
           /\ Sym(Start) = "e" /\ Start \in Tokens /\ Start < a /\ a < t
           /\ \A q \in Tokens : q <= Start \/ a <= q
           /\ \A q \in Tokens : q <= a \/ t <= q
           /\ \A q \in Tokens : \/ q = Start
                                \/ q = a /\ Sym(q) = "as"
                                \/ q = t /\ Sym(q) = "T"
                                \/ q = End /\ t < q /\ Sym(q) = "semicolon"
  BY CastShape
<1>2. /\ a \in Nat /\ t \in Nat /\ t < Size /\ Start \in Nat /\ \A q \in Tokens : q \in Nat
      /\ Sym(a) = "as" /\ Sym(t) = "T" /\ End \in Tokens
  <2>1. a \in Nat /\ t \in Nat /\ t < Size /\ Start \in Nat /\ \A q \in Tokens : q \in Nat
    BY <1>1, TokensAre
  <2>2. a # Start /\ a # t /\ t # Start /\ ~ (t < a) /\ ~ (t < t)
    BY <1>1, <2>1
  <2>3. End \in Tokens
    BY <1>1, Outermost
  <2>. QED  BY <1>1, <2>1, <2>2, <2>3
<1>3. First(Where({"T"})) = t
  <2>1. t \in Where({"T"}) /\ Where({"T"}) \in SUBSET Nat
    BY <1>2 DEF Where
  <2>2. \A q \in Where({"T"}) : q = t
    BY <1>1 DEF Where
  <2>. QED  BY <2>1, <2>2, FirstOfOne
<1> DEFINE found == {o \in (Start + 1)..t : Sym(o) = "as"}
           b == Back(a, Start + 1, Blank)
<1>4. found # {} /\ First(found) = a
  <2>1. a \in found /\ found \in SUBSET Nat
    BY <1>1, <1>2
  <2>2. ASSUME NEW o \in found  PROVE o = a
    <3>1. o \in Offsets /\ Sym(o) = "as"
      BY <1>2 DEF Offsets
    <3>2. o \in Tokens
      BY <3>1 DEF WordsClear
    <3>3. o # Start
      BY <1>1, <3>1
    <3>. QED  BY <1>1, <3>1, <3>2, <3>3
  <2> HIDE DEF found
  <2>. QED  BY <2>1, <2>2, FirstOfOne
<1>5. CastSpans = {[start |-> b, end |-> t + 1]}
  <2>1. (t + 1) - 1 = t /\ Start = First(Tokens)
    BY <1>2 DEF Start
  <2>2. found = {o \in (Start + 1)..((t + 1) - 1) : Sym(o) = "as"}
    BY <2>1
  <2> HIDE DEF found
  <2>. QED  BY <1>3, <1>4, <2>1, <2>2 DEF CastSpans, AsSpan
<1>6. b \in Nat /\ Start + 1 <= b /\ b <= a /\ Boundary(b) /\ \A q \in Tokens : q < b \/ a <= q
  <2>1. Start + 1 \in Nat /\ Start + 1 <= a
    BY <1>1, <1>2
  <2>2. Blank \in SUBSET White
    BY DEF White
  <2>. QED  BY <2>1, <2>2, BackStops
<1> HIDE DEF b, found
<1>7. \A q : Covers(CastSpans, q) <=> b <= q /\ q < t + 1
  BY <1>5, CoversOne
<1>8. \A q \in Tokens : Covers(CastSpans, q) <=> q = a \/ q = t
  BY <1>1, <1>2, <1>6, <1>7
<1>9. Bounded(CastSpans)
  BY <1>2, <1>5, <1>6, TokenBoundary DEF Bounded, Typed
<1>10. Sound(CastSpans)
  BY <1>2, <1>8, <1>9 DEF Sound, ValueSymbols
<1>11. Erasing(CastSpans)
  BY <1>1, <1>8 DEF Erasing, TypeSymbols
<1>12. Parsing(CastSpans)
  <2> SUFFICES ASSUME NEW o, NEW p, <<o, p>> \in Adjacent(Left(CastSpans))
               PROVE  <<Sym(o), Sym(p)>> \in Follows
    BY ParsingIs
  <2>1. o \in Tokens /\ p \in Tokens /\ o < p /\ ~ Covers(CastSpans, o) /\ ~ Covers(CastSpans, p)
    BY AdjacentIs DEF Left
  <2>2. /\ o = Start \/ (o = End /\ Sym(o) = "semicolon")
        /\ p = Start \/ (p = End /\ Sym(p) = "semicolon")
    BY <1>1, <1>8, <2>1
  <2>3. ~ (o < o) /\ ~ (End < Start)
    BY <1>1, <1>2, <2>1, Outermost
  <2>4. o = Start /\ p # Start /\ p = End
    BY <2>1, <2>2, <2>3
  <2>. QED  BY <1>1, <2>2, <2>4 DEF Follows
<1>. QED  BY <1>10, <1>11, <1>12

-----------------------------------------------------------------------------
(* class C<T> implements I, J {}                                           *)

LEMMA ClassShape ==
  ASSUME Size \in Nat, IsClass
  PROVE  /\ Start \in Tokens /\ Sym(Start) = "class" /\ End \in Tokens /\ Sym(End) = "body"
         /\ \A q \in Tokens : Sym(q) \in {"class", "C", "<T>", "implements", "I", "comma", "body"}
         /\ \A q \in Tokens : Sym(q) = "class" => q = Start
         /\ \A q \in Tokens : Sym(q) = "C" => q # Start /\ Pre(q) = Start
         /\ \E q \in Tokens : Sym(q) = "C"
         /\ \A q \in Tokens : Sym(q) = "body" => q = End
         /\ \A q \in Tokens : Sym(q) = "I" => q # Start /\ Sym(Pre(q)) \in {"implements", "comma"}
         /\ \A q \in Tokens : Sym(q) = "comma" =>
              q # Start /\ q # End /\ Sym(Pre(q)) = "I" /\ Sym(Suc(q)) = "I"
         /\ \A q \in Tokens : Sym(q) = "implements" => q # End /\ Sym(Suc(q)) = "I"
         /\ \A m, q \in Tokens :
              Sym(m) = "implements" /\ m < q => Sym(q) \in {"I", "comma", "body"}
<1> DEFINE follows ==
             {<<"class", "C">>, <<"C", "<T>">>, <<"C", "implements">>, <<"C", "body">>,
              <<"<T>", "implements">>, <<"<T>", "body">>, <<"implements", "I">>,
              <<"I", "comma">>, <<"comma", "I">>, <<"I", "body">>}
<1>1. /\ Start \in Tokens /\ Sym(Start) = "class" /\ End \in Tokens /\ Sym(End) = "body"
      /\ \A o \in Tokens : o # Start => <<Sym(Pre(o)), Sym(o)>> \in follows
      /\ \A o \in Tokens : o # End => <<Sym(o), Sym(Suc(o))>> \in follows
  <2>1. Construct({"class"}, {"body"}, follows)
    BY DEF IsClass
  <2> HIDE DEF follows
  <2>. QED  BY <2>1, ConstructIs
<1>2. \A q \in Tokens : Sym(q) \in {"class", "C", "<T>", "implements", "I", "comma", "body"}
  BY <1>1
<1>3. \A q \in Tokens : Sym(q) = "class" => q = Start
  BY <1>1
<1>4. \A q \in Tokens : Sym(q) = "C" => q # Start /\ Pre(q) = Start
  BY <1>1, <1>3, PreIs
<1>5. \A q \in Tokens : Sym(q) = "body" => q = End
  BY <1>1
<1>6. \A q \in Tokens : Sym(q) = "I" => q # Start /\ Sym(Pre(q)) \in {"implements", "comma"}
  BY <1>1
<1>7. \A q \in Tokens : Sym(q) = "comma" =>
        q # Start /\ q # End /\ Sym(Pre(q)) = "I" /\ Sym(Suc(q)) = "I"
  BY <1>1
<1>8. \A q \in Tokens : Sym(q) = "implements" => q # End /\ Sym(Suc(q)) = "I"
  BY <1>1
<1>9. ASSUME NEW m \in Tokens, Sym(m) = "implements", NEW q \in Tokens, m < q
      PROVE  Sym(q) \in {"I", "comma", "body"}
  <2> DEFINE X == {x \in Tokens : Sym(x) \in {"I", "comma", "body"}}
  <2>1. ASSUME NEW x \in Tokens, x # Start, Pre(x) = m \/ Pre(x) \in X
        PROVE  x \in X
    BY <1>1, <1>9, <2>1
  <2>2. \A x \in Tokens : m < x => x \in X
    <3> HIDE DEF X
    <3>. QED  BY <2>1, AllAfter
  <2>. QED  BY <1>9, <2>2
<1>10. \E q \in Tokens : Sym(q) = "C"
  BY <1>1, SucIs
<1>. QED  BY <1>1, <1>2, <1>3, <1>4, <1>5, <1>6, <1>7, <1>8, <1>9, <1>10

\* From implements to the last interface.
LEMMA ImplementsSpansAre ==
  ASSUME Size \in Nat, IsClass, WordsClear
  PROVE  LET S == ImplementsSpans(Where({"I"}))
         IN  /\ Bounded(S)
             /\ \A q \in Tokens : Covers(S, q) <=> Sym(q) \in {"implements", "I", "comma"}
<1> DEFINE S == ImplementsSpans(Where({"I"}))
           W == Where({"I"})
           i == First(W)
           j == Final(W)
           before == {o \in Start..(i - 1) : Sym(o) = "implements"}
           m == Pre(i)
           b == Back(m, Start, Blank)
<1>1. /\ Start \in Tokens /\ Sym(Start) = "class" /\ End \in Tokens /\ Sym(End) = "body"
      /\ \A q \in Tokens : Sym(q) = "I" => q # Start /\ Sym(Pre(q)) \in {"implements", "comma"}
      /\ \A q \in Tokens : Sym(q) = "comma" =>
           q # Start /\ q # End /\ Sym(Pre(q)) = "I" /\ Sym(Suc(q)) = "I"
      /\ \A q \in Tokens : Sym(q) = "implements" => q # End /\ Sym(Suc(q)) = "I"
      /\ \A q \in Tokens : Sym(q) = "body" => q = End
  BY ClassShape
<1>2. \A x, q \in Tokens : Sym(x) = "implements" /\ x < q => Sym(q) \in {"I", "comma", "body"}
  BY ClassShape
<1>3. \A q \in Tokens : q \in Nat /\ q < Size /\ Start <= q /\ q <= End
  BY TokensAre, Outermost
<1>4. \A q \in W : q \in Tokens /\ Sym(q) = "I"
  BY DEF Where
<1>w. \A q \in Tokens : Sym(q) = "I" => q \in W
  BY DEF Where
<1>5. CASE W = {}
  <2>1. \A q \in Tokens : Sym(q) \notin {"implements", "I", "comma"}
    BY <1>1, <1>5, <1>w, SucIs
  <2>2. S = {}
    BY <1>5 DEF ImplementsSpans
  <2>. QED  BY <2>1, <2>2, CoversNone DEF Bounded, Typed
<1>6. CASE W # {}
  <2>1. /\ i \in Tokens /\ Sym(i) = "I" /\ j \in Tokens /\ Sym(j) = "I"
        /\ \A q \in Tokens : Sym(q) = "I" => i <= q /\ q <= j
    <3>1. W \in SUBSET Nat /\ W \in SUBSET (0..Size)
      BY <1>3, <1>4
    <3>2. i \in W /\ \A q \in W : i <= q
      <4> HIDE DEF W
      <4>. QED  BY <1>6, <3>1, FirstIs
    <3>3. j \in W /\ \A q \in W : j >= q
      <4> HIDE DEF W
      <4>. QED  BY <1>6, <3>1, FinalIs
    <3> HIDE DEF i, j
    <3>4. \A q \in Tokens : Sym(q) = "I" => i <= q /\ q <= j
      BY <1>3, <1>4, <1>w, <3>2, <3>3
    <3>. QED  BY <1>4, <3>2, <3>3, <3>4
  <2> HIDE DEF i, j, W
  <2>2. m \in Tokens /\ m \in Nat /\ m < i /\ Sym(m) = "implements"
    <3>1. m \in Tokens /\ m \in Nat /\ m < i /\ Sym(m) \in {"implements", "comma"}
      BY <1>1, <2>1, PreIs
    <3>2. ASSUME Sym(m) = "comma"  PROVE FALSE
      <4>1. Pre(m) \in Tokens /\ Pre(m) \in Nat /\ Pre(m) < m /\ Sym(Pre(m)) = "I"
        BY <1>1, <3>1, <3>2, PreIs
      <4>2. i <= Pre(m) /\ i \in Nat
        BY <1>3, <2>1, <4>1
      <4>. QED  BY <3>1, <4>1, <4>2
    <3>. QED  BY <3>1, <3>2
  <2> HIDE DEF m
  <2>3. \A q \in Tokens : Sym(q) = "implements" => q = m
    <3> SUFFICES ASSUME NEW q \in Tokens, Sym(q) = "implements", q # m PROVE FALSE
      OBVIOUS
    <3>1. q < m \/ m < q
      BY <1>3, <2>2
    <3>. QED  BY <1>2, <2>2, <3>1
  <2>4. before # {} /\ Final(before) = m
    <3>1. m \in before /\ before \in SUBSET (0..Size)
      BY <1>1, <1>3, <2>1, <2>2
    <3>2. ASSUME NEW o \in before  PROVE o = m
      <4>1. o \in Offsets /\ Sym(o) = "implements"
        BY <1>1, <1>3, <2>1 DEF Offsets
      <4>2. o \in Tokens
        BY <4>1 DEF WordsClear
      <4>. QED  BY <2>3, <4>1, <4>2
    <3> HIDE DEF before
    <3>. QED  BY <3>1, <3>2, FinalOfOne
  <2>5. S = {[start |-> b, end |-> j + 1]}
    <3>1. Outer.start = Start
      BY DEF Outer, Start
    <3> HIDE DEF b
    <3>2. before = {o \in Outer.start..(First(W) - 1) : Sym(o) = "implements"}
      BY <3>1 DEF i
    <3> HIDE DEF before
    <3>. QED  BY <1>6, <2>4, <3>1, <3>2 DEF ImplementsSpans, b, W, j
  <2>6. b \in Nat /\ b <= m /\ Boundary(b) /\ \A q \in Tokens : q < b \/ m <= q
    <3>1. Start \in Nat /\ Start <= m /\ Blank \in SUBSET White
      BY <1>1, <1>3, <2>2 DEF White
    <3>. QED  BY <2>2, <3>1, BackStops
  <2> HIDE DEF b, before, S
  <2>7. Bounded(S)
    BY <1>3, <2>1, <2>5, <2>6, TokenBoundary DEF Bounded, Typed
  <2>8. \A q : Covers(S, q) <=> b <= q /\ q < j + 1
    BY <2>5, CoversOne
  <2>9. \A q \in Tokens : Covers(S, q) <=> m <= q /\ q <= j
    BY <1>3, <2>1, <2>2, <2>6, <2>8
  <2>10. ASSUME NEW q \in Tokens, m <= q, q <= j
         PROVE  Sym(q) \in {"implements", "I", "comma"}
    <3>1. q = m \/ m < q
      BY <1>3, <2>2, <2>10
    <3>2. q # End
      <4>1. j # End
        BY <1>1, <2>1
      <4>. QED  BY <1>3, <2>1, <2>10, <4>1
    <3>. QED  BY <1>1, <1>2, <2>2, <3>1, <3>2
  <2>11. ASSUME NEW q \in Tokens, Sym(q) \in {"implements", "I", "comma"}
         PROVE  m <= q /\ q <= j
    <3>1. CASE Sym(q) = "implements"
      <4>1. q = m
        BY <2>3, <3>1
      <4>. QED  BY <1>3, <2>1, <2>2, <4>1
    <3>2. CASE Sym(q) = "I"
      <4>1. i <= q /\ q <= j
        BY <2>1, <3>2
      <4>. QED  BY <1>3, <2>1, <2>2, <4>1
    <3>3. CASE Sym(q) = "comma"
      <4>1. /\ Pre(q) \in Tokens /\ Pre(q) < q /\ Sym(Pre(q)) = "I"
            /\ Suc(q) \in Tokens /\ q < Suc(q) /\ Sym(Suc(q)) = "I"
        BY <1>1, <3>3, PreIs, SucIs
      <4>2. i <= Pre(q) /\ Suc(q) <= j
        BY <2>1, <4>1
      <4>3. Pre(q) \in Nat /\ Suc(q) \in Nat /\ i \in Nat /\ j \in Nat /\ q \in Nat
        BY <1>3, <2>1, <4>1
      <4>4. Pre(q) < q /\ q < Suc(q)
        BY <4>1
      <4>. QED  BY <2>2, <4>2, <4>3, <4>4
    <3>. QED  BY <2>11, <3>1, <3>2, <3>3
  <2>. QED  BY <2>7, <2>9, <2>10, <2>11 DEF S
<1>. QED  BY <1>5, <1>6

LEMMA ClassSpansAre ==
  ASSUME Size \in Nat, IsClass, WordsClear
  PROVE  Sound(ClassSpans) /\ Erasing(ClassSpans) /\ Parsing(ClassSpans)
<1>1. /\ Start \in Tokens /\ Sym(Start) = "class" /\ End \in Tokens /\ Sym(End) = "body"
      /\ \A q \in Tokens : Sym(q) \in {"class", "C", "<T>", "implements", "I", "comma", "body"}
      /\ \A q \in Tokens : Sym(q) = "class" => q = Start
      /\ \A q \in Tokens : Sym(q) = "C" => q # Start /\ Pre(q) = Start
      /\ \A q \in Tokens : Sym(q) = "body" => q = End
  BY ClassShape
<1> DEFINE N == NodesOf({"<T>"})
           S == ImplementsSpans(Where({"I"}))
<1>2. /\ Bounded(N) /\ Bounded(S)
      /\ \A q \in Tokens : Covers(N, q) <=> Sym(q) \in {"<T>"}
      /\ \A q \in Tokens : Covers(S, q) <=> Sym(q) \in {"implements", "I", "comma"}
  BY NodesOfIs, ImplementsSpansAre
<1>3. ClassSpans = N \cup S
  BY DEF ClassSpans
<1> HIDE DEF N, S
<1>4. Bounded(ClassSpans)
  BY <1>2, <1>3, BoundedUnion
<1>5. \A q \in Tokens : Covers(ClassSpans, q) <=> Sym(q) \in {"<T>", "implements", "I", "comma"}
  BY <1>2, <1>3, CoversUnion
<1>6. Sound(ClassSpans)
  BY <1>4, <1>5 DEF Sound, ValueSymbols
<1>7. Erasing(ClassSpans)
  BY <1>1, <1>5 DEF Erasing, TypeSymbols
<1>8. Parsing(ClassSpans)
  <2> SUFFICES ASSUME NEW o, NEW p, <<o, p>> \in Adjacent(Left(ClassSpans))
               PROVE  <<Sym(o), Sym(p)>> \in Follows
    BY ParsingIs
  <2>1. o \in Tokens /\ p \in Tokens /\ o < p /\ ~ Covers(ClassSpans, o) /\ ~ Covers(ClassSpans, p)
    BY AdjacentIs DEF Left
  <2>2. Sym(o) \in {"class", "C", "body"} /\ Sym(p) \in {"class", "C", "body"}
    BY <1>1, <1>5, <2>1
  <2>3. o # p /\ p # Start /\ o # End
    BY <1>1, <2>1, Outermost, TokensAre
  <2>4. Sym(p) # "class" /\ Sym(o) # "body"
    BY <1>1, <2>1, <2>3
  <2>5. ASSUME Sym(o) = "C", Sym(p) = "C"  PROVE FALSE
    <3>1. Suc(Start) = o /\ Suc(Start) = p
      BY <1>1, <2>1, <2>5, PreIs
    <3>. QED  BY <2>3, <3>1
  <2>6. ASSUME Sym(o) = "class", Sym(p) = "body"  PROVE FALSE
    <3>1. o = Start /\ p = End
      BY <1>1, <2>1, <2>6
    <3>2. PICK c \in Tokens : Sym(c) = "C"
      BY ClassShape
    <3>3. ~ Covers(ClassSpans, c) /\ c # Start /\ c # End
      BY <1>1, <1>5, <3>2
    <3>4. o < c /\ c < p
      BY <3>1, <3>2, <3>3, Outermost, TokensAre
    <3>5. c \in Left(ClassSpans)
      BY <3>2, <3>3 DEF Left
    <3>. QED  BY <2>1, <3>2, <3>4, <3>5, AdjacentIs, TokensAre
  <2>. QED  BY <2>2, <2>4, <2>5, <2>6 DEF Follows
<1>. QED  BY <1>6, <1>7, <1>8

-----------------------------------------------------------------------------
(* declare +key?: T = v                                                    *)

LEMMA FieldShape ==
  ASSUME Size \in Nat, IsField
  PROVE  \E k \in Tokens :
           /\ Sym(k) \in {"key", "#key"}
           /\ \A q \in Tokens : Sym(q) \in {"key", "#key"} => q = k
           /\ \A q \in Tokens :
                Sym(q) \in {"declare", "+", "key", "#key", "?", ":T", "=v"}
           /\ \A q \in Tokens : Sym(q) = "?" => k # End /\ q = Suc(k)
           /\ \A q \in Tokens : Sym(q) = "=v" => q = End
           /\ \A q \in Tokens : Sym(q) = "declare" =>
                \A r \in Tokens : Sym(r) # "=v"
<1> DEFINE last == {"key", "#key", "?", ":T"}
           declared == {<<"declare", "key">>, <<"declare", "#key">>} \cup KeyParts
           valued == {<<"+", "key">>, <<"+", "#key">>} \cup KeyParts
                       \cup {<<x, "=v">> : x \in {"key", "#key", "?", ":T"}}
           all == declared \cup valued
<1>1. \A x, y : <<x, y>> \in KeyParts <=>
        \/ x \in {"key", "#key"} /\ y = "?"
        \/ x \in {"key", "#key", "?"} /\ y = ":T"
  BY DEF KeyParts
<1>2. \A x, y : <<x, y>> \in declared <=>
        \/ x = "declare" /\ y \in {"key", "#key"}
        \/ x \in {"key", "#key"} /\ y = "?"
        \/ x \in {"key", "#key", "?"} /\ y = ":T"
  BY <1>1
<1>3. \A x, y : <<x, y>> \in valued <=>
        \/ x = "+" /\ y \in {"key", "#key"}
        \/ x \in {"key", "#key"} /\ y = "?"
        \/ x \in {"key", "#key", "?"} /\ y = ":T"
        \/ x \in {"key", "#key", "?", ":T"} /\ y = "=v"
  BY <1>1
<1>4. \/ Construct({"declare"}, last, declared)
      \/ Construct({"+", "key", "#key"}, last \cup {"=v"}, valued)
  <2>1. last \cup {"=v"} = {"key", "#key", "?", ":T", "=v"}
    OBVIOUS
  <2> HIDE DEF declared, valued
  <2>. QED  BY <2>1 DEF IsField, declared, valued
<1> HIDE DEF declared, valued
<1>5. /\ Start \in Tokens /\ End \in Tokens
      /\ \A o \in Tokens : o # Start => <<Sym(Pre(o)), Sym(o)>> \in all
      /\ \A o \in Tokens : o # End => <<Sym(o), Sym(Suc(o))>> \in all
      /\ \/ /\ Sym(Start) = "declare" /\ Sym(End) \in last
            /\ \A o \in Tokens : o # Start => <<Sym(Pre(o)), Sym(o)>> \in declared
         \/ Sym(Start) \in {"+", "key", "#key"} /\ Sym(End) \in last \cup {"=v"}
  <2>1. CASE Construct({"declare"}, last, declared)
    BY <2>1, ConstructIs
  <2>2. CASE Construct({"+", "key", "#key"}, last \cup {"=v"}, valued)
    BY <2>2, ConstructIs
  <2>. QED  BY <1>4, <2>1, <2>2
<1>6. \A o \in Tokens : o # Start => Sym(o) \in {"key", "#key", "?", ":T", "=v"}
  BY <1>2, <1>3, <1>5
<1>p. \A x, y : <<x, y>> \in all =>
        /\ y \in {"key", "#key"} => x \in {"+", "declare"}
        /\ y = "?" => x \in {"key", "#key"}
  BY <1>2, <1>3
<1>q. \A o \in Tokens : o # Start =>
        /\ Sym(o) \in {"key", "#key"} => Sym(Pre(o)) \in {"+", "declare"}
        /\ Sym(o) = "?" => Sym(Pre(o)) \in {"key", "#key"}
  <2> HIDE DEF all
  <2>. QED  BY <1>p, <1>5
<1>7. \A o \in Tokens : Sym(o) \in {"key", "#key"} =>
        \/ o = Start
        \/ o # Start /\ Pre(o) = Start /\ Sym(Start) \in {"+", "declare"}
  <2>1. \A o \in Tokens : o # Start /\ Sym(o) \in {"key", "#key"} =>
          Sym(Pre(o)) \in {"+", "declare"}
    BY <1>q
  <2>2. \A o \in Tokens : o # Start => Pre(o) \in Tokens
    BY PreIs
  <2>. QED  BY <1>6, <2>1, <2>2
<1>8. PICK k \in Tokens : Sym(k) \in {"key", "#key"}
  <2>1. CASE Sym(Start) \in {"key", "#key"}
    BY <1>5, <2>1
  <2>2. CASE Sym(Start) \in {"+", "declare"}
    <3>1. Start # End
      BY <1>5, <2>2
    <3>2. Suc(Start) \in Tokens /\ <<Sym(Start), Sym(Suc(Start))>> \in all
      BY <1>5, <3>1, SucIs
    <3>3. Sym(Suc(Start)) \in {"key", "#key"}
      BY <1>2, <1>3, <2>2, <3>2
    <3>. QED  BY <3>2, <3>3
  <2>. QED  BY <1>5, <2>1, <2>2
<1>9. \A q \in Tokens : Sym(q) \in {"key", "#key"} => q = k
  <2> SUFFICES ASSUME NEW q \in Tokens, Sym(q) \in {"key", "#key"}, q # k PROVE FALSE
    OBVIOUS
  <2>1. \/ q = Start \/ (q # Start /\ Pre(q) = Start /\ Sym(Start) \in {"+", "declare"})
    BY <1>7
  <2>2. \/ k = Start \/ (k # Start /\ Pre(k) = Start /\ Sym(Start) \in {"+", "declare"})
    BY <1>7, <1>8
  <2>3. q # Start /\ k # Start /\ Pre(q) = Start /\ Pre(k) = Start
    BY <1>8, <2>1, <2>2
  <2>4. Suc(Start) = q /\ Suc(Start) = k
    BY <2>3, PreIs
  <2>. QED  BY <2>4
<1>10. \A q \in Tokens : Sym(q) \in {"declare", "+", "key", "#key", "?", ":T", "=v"}
  BY <1>5, <1>6
<1>11. ASSUME NEW q \in Tokens, Sym(q) = "?"  PROVE k # End /\ q = Suc(k)
  <2>1. q # Start
    BY <1>5, <1>11
  <2>2. Sym(Pre(q)) \in {"key", "#key"}
    BY <1>q, <1>11, <2>1
  <2>3. Pre(q) \in Tokens /\ Suc(Pre(q)) = q /\ Pre(q) # End
    BY <2>1, PreIs
  <2>. QED  BY <1>9, <2>2, <2>3
<1>12. \A q \in Tokens : Sym(q) = "=v" => q = End
  BY <1>2, <1>3, <1>5
<1>13. ASSUME NEW q \in Tokens, Sym(q) = "declare", NEW r \in Tokens  PROVE Sym(r) # "=v"
  <2>1. q = Start /\ Sym(Start) = "declare"
    BY <1>6, <1>13
  <2>2. r # Start => <<Sym(Pre(r)), Sym(r)>> \in declared
    BY <1>5, <2>1
  <2>. QED  BY <1>2, <2>1, <2>2
<1> HIDE DEF all, last
<1>. QED  BY <1>8, <1>9, <1>10, <1>11, <1>12, <1>13

LEMMA FieldSpansAre ==
  ASSUME Size \in Nat, IsField, WordsClear
  PROVE  Sound(FieldSpans) /\ (MarkersClear => Erasing(FieldSpans) /\ Parsing(FieldSpans))
<1>1. PICK k \in Tokens :
           /\ Sym(k) \in {"key", "#key"}
           /\ \A q \in Tokens : Sym(q) \in {"key", "#key"} => q = k
           /\ \A q \in Tokens :
                Sym(q) \in {"declare", "+", "key", "#key", "?", ":T", "=v"}
           /\ \A q \in Tokens : Sym(q) = "?" => k # End /\ q = Suc(k)
           /\ \A q \in Tokens : Sym(q) = "=v" => q = End
           /\ \A q \in Tokens : Sym(q) = "declare" =>
                \A r \in Tokens : Sym(r) # "=v"
  BY FieldShape
<1>2. First(Where({"key", "#key"})) = k
  <2>1. k \in Where({"key", "#key"}) /\ Where({"key", "#key"}) \in SUBSET Nat
    BY <1>1, TokensAre DEF Where
  <2>2. \A q \in Where({"key", "#key"}) : q = k
    BY <1>1 DEF Where
  <2>. QED  BY <2>1, <2>2, FirstOfOne
<1> DEFINE erased == \/ Where({"declare"}) # {}
                     \/ Sym(k) = "key" /\ Where({"=v"}) = {}
           N == NodesOf({"+", ":T"})
           M == IF Where({"?"}) # {} /\ Sym(k + 1) = "?" THEN {Node(k + 1)} ELSE {}
<1>3. FieldSpans = IF erased THEN {Outer} ELSE N \cup M
  BY <1>2 DEF FieldSpans
<1>4. CASE erased
  <2>1. FieldSpans = {Outer} /\ \A q \in Tokens : Sym(q) # "=v"
    BY <1>1, <1>3, <1>4 DEF Where
  <2>2. Bounded({Outer}) /\ \A q \in Tokens : Covers({Outer}, q)
    BY <1>1, OuterIs
  <2>3. Sound({Outer})
    BY <1>1, <2>1, <2>2 DEF Sound, ValueSymbols
  <2>4. Left({Outer}) = {}
    BY <2>2 DEF Left
  <2>. QED  BY <2>1, <2>2, <2>3, <2>4 DEF Erasing, Parsing, Adjacent
<1>5. CASE ~ erased
  <2>1. FieldSpans = N \cup M /\ \A q \in Tokens : Sym(q) # "declare"
    BY <1>3, <1>5 DEF Where
  <2>2. /\ Bounded(M)
        /\ \A q \in Tokens : Covers(M, q) => Sym(q) = "?"
        /\ \A q \in Tokens : q = k + 1 /\ Sym(q) = "?" => Covers(M, q)
    <3>1. CASE Where({"?"}) # {} /\ Sym(k + 1) = "?"
      <4>1. k + 1 \in Offsets
        <5>1. PICK q \in Tokens : Sym(q) = "?"
          BY <3>1 DEF Where
        <5>2. q = Suc(k) /\ k < q /\ q < Size /\ k \in Nat /\ q \in Nat
          BY <1>1, <5>1, SucIs, TokensAre
        <5>. QED  BY <5>2 DEF Offsets
      <4>2. k + 1 \in Tokens
        BY <3>1, <4>1 DEF WordsClear
      <4>. QED  BY <3>1, <4>2, NodeIs
    <3>2. CASE ~ (Where({"?"}) # {} /\ Sym(k + 1) = "?")
      <4>1. M = {}
        BY <3>2
      <4>2. \A q \in Tokens : ~ (q = k + 1 /\ Sym(q) = "?")
        BY <3>2 DEF Where
      <4>. QED  BY <4>1, <4>2, CoversNone DEF Bounded, Typed
    <3>. QED  BY <3>1, <3>2
  <2>3. Bounded(N) /\ \A q \in Tokens : Covers(N, q) <=> Sym(q) \in {"+", ":T"}
    BY NodesOfIs
  <2> HIDE DEF N, M
  <2>4. Bounded(FieldSpans)
    BY <2>1, <2>2, <2>3, BoundedUnion
  <2>5. \A q \in Tokens : Covers(FieldSpans, q) <=> Covers(N, q) \/ Covers(M, q)
    BY <2>1, CoversUnion
  <2>6. Sound(FieldSpans)
    BY <2>2, <2>3, <2>4, <2>5 DEF Sound, ValueSymbols
  <2>7. ASSUME MarkersClear, NEW q \in Tokens, Sym(q) = "?"  PROVE Covers(M, q)
    <3>1. k # End /\ q = Suc(k) /\ k < q /\ k \in Nat /\ q \in Nat
          /\ <<k, q>> \in Adjacent(Tokens)
      BY <1>1, <2>7, SucIs, TokensAre
    <3>2. Gap(<<k, q>>) \subseteq {}
      <4>1. Symbols(<<k, q>>) \in {<<"key", "?">>, <<"#key", "?">>}
        BY <1>1, <2>7 DEF Symbols
      <4>. QED  BY <2>7, <3>1, <4>1 DEF MarkersClear, Only
    <3>3. q = k + 1
      <4> SUFFICES ASSUME q # k + 1 PROVE FALSE
        OBVIOUS
      <4>1. k + 1 \in (k + 1)..(q - 1)
        BY <3>1
      <4>2. Sym(k + 1) \in Gap(<<k, q>>)
        BY <4>1 DEF Gap
      <4>. QED  BY <3>2, <4>2
    <3>. QED  BY <2>2, <2>7, <3>3
  <2>8. ASSUME MarkersClear  PROVE Erasing(FieldSpans)
    BY <1>1, <2>1, <2>3, <2>5, <2>7, <2>8 DEF Erasing, TypeSymbols
  <2>9. ASSUME MarkersClear  PROVE Parsing(FieldSpans)
    <3> SUFFICES ASSUME NEW o, NEW p, <<o, p>> \in Adjacent(Left(FieldSpans))
                 PROVE  <<Sym(o), Sym(p)>> \in Follows
      BY ParsingIs
    <3>1. /\ o \in Tokens /\ p \in Tokens /\ o < p
          /\ ~ Covers(FieldSpans, o) /\ ~ Covers(FieldSpans, p)
      BY AdjacentIs DEF Left
    <3>2. Sym(o) \in {"key", "#key", "=v"} /\ Sym(p) \in {"key", "#key", "=v"}
      BY <1>1, <2>1, <2>3, <2>5, <2>7, <2>9, <3>1
    <3>3. o # p /\ o # End
      BY <3>1, Outermost, TokensAre
    <3>4. Sym(o) \in {"key", "#key"} /\ Sym(p) = "=v"
      BY <1>1, <3>1, <3>2, <3>3
    <3>. QED  BY <3>4 DEF Follows
  <2>. QED  BY <2>6, <2>8, <2>9
<1>. QED  BY <1>4, <1>5

-----------------------------------------------------------------------------
(* function<T>(this: T, p?: T): R %checks {}                               *)

LEMMA FunctionShape ==
  ASSUME Size \in Nat, IsFunction
  PROVE  /\ Start \in Tokens /\ Sym(Start) = "function" /\ End \in Tokens /\ Sym(End) = "body"
         /\ \A q \in Tokens :
              Sym(q) \in {"function", "<T>", "(", "p", "?", ":T", "this:T", "comma", ")",
                          ":R", ":", "%checks", "body"}
         /\ \A q \in Tokens : (Sym(q) = "function" => q = Start) /\ (Sym(q) = "body" => q = End)
         /\ \A q \in Tokens : q # End =>
              /\ Sym(q) = "function" => Sym(Suc(q)) \in {"<T>", "("}
              /\ Sym(q) = "<T>" => Sym(Suc(q)) = "("
              /\ Sym(q) = "(" => Sym(Suc(q)) \in {"p", "this:T", ")"}
              /\ Sym(q) = "p" => Sym(Suc(q)) \in {"?", ":T", "comma", ")"}
              /\ Sym(q) = "?" => Sym(Suc(q)) \in {":T", "comma", ")"}
              /\ Sym(q) = ":T" => Sym(Suc(q)) \in {"comma", ")"}
              /\ Sym(q) = "this:T" => Sym(Suc(q)) \in {"comma", ")"}
              /\ Sym(q) = "comma" => Sym(Suc(q)) \in {"p", ")"}
              /\ Sym(q) = ")" => Sym(Suc(q)) \in {":R", ":", "body"}
              /\ Sym(q) = ":R" => Sym(Suc(q)) \in {"%checks", "body"}
              /\ Sym(q) = ":" => Sym(Suc(q)) = "%checks"
              /\ Sym(q) = "%checks" => Sym(Suc(q)) = "body"
         /\ \A q \in Tokens : q # Start =>
              /\ Sym(q) = "?" => Sym(Pre(q)) = "p"
              /\ Sym(q) = ":T" => Sym(Pre(q)) \in {"p", "?"}
              /\ Sym(q) \in {":R", ":"} => Sym(Pre(q)) = ")"
              /\ Sym(q) = "%checks" => Sym(Pre(q)) \in {":", ":R"}
              /\ Sym(Pre(q)) = ")" => Sym(q) \in {":R", ":", "body"}
              /\ Sym(Pre(q)) \in {":R", ":", "%checks", "body"} => Sym(q) \in {"%checks", "body"}
<1> DEFINE follows ==
             {<<"function", "<T>">>, <<"function", "(">>, <<"<T>", "(">>,
              <<"(", "p">>, <<"(", "this:T">>, <<"(", ")">>,
              <<"p", "?">>, <<"p", ":T">>, <<"p", "comma">>, <<"p", ")">>,
              <<"?", ":T">>, <<"?", "comma">>, <<"?", ")">>, <<":T", "comma">>, <<":T", ")">>,
              <<"this:T", "comma">>, <<"this:T", ")">>, <<"comma", "p">>, <<"comma", ")">>,
              <<")", ":R">>, <<")", ":">>, <<")", "body">>, <<":R", "%checks">>, <<":R", "body">>,
              <<":", "%checks">>, <<"%checks", "body">>}
<1>1. /\ Start \in Tokens /\ Sym(Start) = "function" /\ End \in Tokens /\ Sym(End) = "body"
      /\ \A o \in Tokens : o # Start => <<Sym(Pre(o)), Sym(o)>> \in follows
      /\ \A o \in Tokens : o # End => <<Sym(o), Sym(Suc(o))>> \in follows
  <2>1. Construct({"function"}, {"body"}, follows)
    BY DEF IsFunction
  <2> HIDE DEF follows
  <2>. QED  BY <2>1, ConstructIs
<1>2. \A x, y : <<x, y>> \in follows =>
        /\ y \in {"<T>", "(", "p", "?", ":T", "this:T", "comma", ")", ":R", ":", "%checks", "body"}
        /\ x # "body"
        /\ x = "function" => y \in {"<T>", "("}
        /\ x = "<T>" => y = "("
        /\ x = "(" => y \in {"p", "this:T", ")"}
        /\ x = "p" => y \in {"?", ":T", "comma", ")"}
        /\ x = "?" => y \in {":T", "comma", ")"}
        /\ x = ":T" => y \in {"comma", ")"}
        /\ x = "this:T" => y \in {"comma", ")"}
        /\ x = "comma" => y \in {"p", ")"}
        /\ x = ")" => y \in {":R", ":", "body"}
        /\ x = ":R" => y \in {"%checks", "body"}
        /\ x = ":" => y = "%checks"
        /\ x = "%checks" => y = "body"
  OBVIOUS
<1>3. \A x, y : <<x, y>> \in follows =>
        /\ y = "?" => x = "p"
        /\ y = ":T" => x \in {"p", "?"}
        /\ y \in {":R", ":"} => x = ")"
        /\ y = "%checks" => x \in {":", ":R"}
  OBVIOUS
<1> HIDE DEF follows
<1>4. \A q \in Tokens : q # Start =>
        Sym(q) \in {"<T>", "(", "p", "?", ":T", "this:T", "comma", ")", ":R",
                    ":", "%checks", "body"}
  BY <1>1, <1>2
<1>5. \A q \in Tokens : q # End => Sym(q) # "body"
  BY <1>1, <1>2
<1>6. \A q \in Tokens : q # End =>
        /\ Sym(q) = "function" => Sym(Suc(q)) \in {"<T>", "("}
        /\ Sym(q) = "<T>" => Sym(Suc(q)) = "("
        /\ Sym(q) = "(" => Sym(Suc(q)) \in {"p", "this:T", ")"}
        /\ Sym(q) = "p" => Sym(Suc(q)) \in {"?", ":T", "comma", ")"}
        /\ Sym(q) = "?" => Sym(Suc(q)) \in {":T", "comma", ")"}
        /\ Sym(q) = ":T" => Sym(Suc(q)) \in {"comma", ")"}
        /\ Sym(q) = "this:T" => Sym(Suc(q)) \in {"comma", ")"}
        /\ Sym(q) = "comma" => Sym(Suc(q)) \in {"p", ")"}
        /\ Sym(q) = ")" => Sym(Suc(q)) \in {":R", ":", "body"}
        /\ Sym(q) = ":R" => Sym(Suc(q)) \in {"%checks", "body"}
        /\ Sym(q) = ":" => Sym(Suc(q)) = "%checks"
        /\ Sym(q) = "%checks" => Sym(Suc(q)) = "body"
  BY <1>1, <1>2
<1>7. \A q \in Tokens : q # Start =>
        /\ Sym(q) = "?" => Sym(Pre(q)) = "p"
        /\ Sym(q) = ":T" => Sym(Pre(q)) \in {"p", "?"}
        /\ Sym(q) \in {":R", ":"} => Sym(Pre(q)) = ")"
        /\ Sym(q) = "%checks" => Sym(Pre(q)) \in {":", ":R"}
  BY <1>1, <1>3
<1>8. \A q \in Tokens : q # Start =>
        /\ Sym(Pre(q)) = ")" => Sym(q) \in {":R", ":", "body"}
        /\ Sym(Pre(q)) \in {":R", ":", "%checks", "body"} => Sym(q) \in {"%checks", "body"}
  BY <1>1, <1>2
<1>. QED  BY <1>1, <1>4, <1>5, <1>6, <1>7, <1>8

\* A function has either a return type or a colon before its predicate.
LEMMA FunctionReturns ==
  ASSUME Size \in Nat, IsFunction, NEW r \in Tokens, Sym(r) = ":R", NEW c \in Tokens, Sym(c) = ":"
  PROVE  FALSE
<1>1. /\ Sym(Start) = "function"
      /\ \A q \in Tokens : q # Start /\ Sym(q) \in {":R", ":"} => Sym(Pre(q)) = ")"
      /\ \A q \in Tokens : q # Start =>
           /\ Sym(Pre(q)) = ")" => Sym(q) \in {":R", ":", "body"}
           /\ Sym(Pre(q)) \in {":R", ":", "%checks", "body"} => Sym(q) \in {"%checks", "body"}
  BY FunctionShape
<1>2. r # Start /\ c # Start /\ r # c /\ r \in Nat /\ c \in Nat
  BY <1>1, TokensAre
<1>3. /\ Pre(r) \in Tokens /\ Pre(r) < r /\ Sym(Pre(r)) = ")" /\ Suc(Pre(r)) = r
      /\ Pre(c) \in Tokens /\ Pre(c) < c /\ Sym(Pre(c)) = ")" /\ Suc(Pre(c)) = c
  BY <1>1, <1>2, PreIs
<1> DEFINE X == {x \in Tokens : Sym(x) \in {":R", ":", "%checks", "body"}}
<1>4. ASSUME NEW m \in Tokens, Sym(m) = ")"
      PROVE  \A x \in Tokens : m < x => x \in X
  <2>1. ASSUME NEW x \in Tokens, x # Start, Pre(x) = m \/ Pre(x) \in X
        PROVE  x \in X
    BY <1>1, <1>4, <2>1
  <2> HIDE DEF X
  <2>. QED  BY <2>1, AllAfter
<1>5. Pre(r) \notin X /\ Pre(c) \notin X
  BY <1>3
<1>6. ~ (Pre(r) < Pre(c)) /\ ~ (Pre(c) < Pre(r))
  BY <1>3, <1>4, <1>5
<1>7. Pre(r) = Pre(c)
  BY <1>3, <1>6, TokensAre
<1>. QED  BY <1>2, <1>3, <1>7

LEMMA PredicateSpanIs ==
  ASSUME Size \in Nat, NEW c \in Tokens, NEW returns \in BOOLEAN
  PROVE  LET S == {PredicateSpan(Node(c), returns)}
         IN  /\ Bounded(S) /\ Covers(S, c)
             /\ \A q \in Tokens : Covers(S, q) => \/ q = c
                                                  \/ c # Start /\ q = Pre(c) /\ Sym(q) = ":"
             /\ ~ returns /\ c # Start /\ Sym(Pre(c)) = ":" /\ Gap(<<Pre(c), c>>) \subseteq Blank
                  => Covers(S, Pre(c))
<1> DEFINE S == {PredicateSpan(Node(c), returns)}
           b == Back(c, 0, Blank)
<1>1. c \in Nat /\ c + 1 \in Nat /\ \A q \in Tokens : q \in Nat
  BY TokensAre
<1>2. Boundary(c) /\ Boundary(c + 1)
  BY TokenBoundary
<1>3. CASE returns
  <2>1. S = {Node(c)}
    BY <1>3 DEF PredicateSpan
  <2>. QED  BY <1>3, <2>1, NodeIs
<1>4. CASE ~ returns
  <2>0. Blank \in SUBSET White /\ ":" \notin Blank /\ 0 \in Nat /\ 0 <= c
    BY <1>1 DEF White, Blank
  <2>1. /\ b \in Nat /\ b <= c /\ Boundary(b)
        /\ \A q \in Tokens : q < b \/ c <= q
    BY <2>0, BackStops
  <2>2. b > 0 /\ Sym(b - 1) = ":" => b - 1 \in Tokens /\ b - 1 = Pre(c) /\ c # Start
    BY <2>0, BackToken
  <2>3. c # Start /\ Sym(Pre(c)) = ":" /\ Gap(<<Pre(c), c>>) \subseteq Blank => b = Pre(c) + 1
    <3> SUFFICES ASSUME c # Start, Sym(Pre(c)) = ":", Gap(<<Pre(c), c>>) \subseteq Blank
                 PROVE  b = Pre(c) + 1
      OBVIOUS
    <3>1. Pre(c) \in Nat
      BY PreIs
    <3>2. 0 <= Pre(c)
      BY <3>1
    <3>. QED  BY <2>0, <3>2, BackToken
  <2>4. S = {[start |-> IF b > 0 /\ Sym(b - 1) = ":" THEN b - 1 ELSE b, end |-> c + 1]}
    BY <1>4 DEF PredicateSpan, Node
  <2> HIDE DEF b, S
  <2>5. CASE b > 0 /\ Sym(b - 1) = ":"
    <3> DEFINE d == b - 1
    <3>1. d \in Tokens /\ d = Pre(c) /\ c # Start /\ Sym(d) = ":"
      BY <2>2, <2>5
    <3>2. d \in Nat /\ d < c /\ \A q \in Tokens : q <= d \/ c <= q
      BY <3>1, PreIs
    <3>3. S = {[start |-> d, end |-> c + 1]}
      BY <2>4, <2>5
    <3> HIDE DEF d
    <3>4. Boundary(d)
      BY <3>1, TokenBoundary
    <3>5. Bounded(S)
      BY <1>1, <1>2, <3>2, <3>3, <3>4 DEF Bounded, Typed
    <3>6. \A q : Covers(S, q) <=> d <= q /\ q < c + 1
      BY <3>3, CoversOne
    <3>7. Covers(S, c) /\ Covers(S, d) /\ \A q \in Tokens : Covers(S, q) => q = c \/ q = d
      BY <1>1, <3>2, <3>6
    <3>. QED  BY <3>1, <3>5, <3>7 DEF S
  <2>6. CASE ~ (b > 0 /\ Sym(b - 1) = ":")
    <3>1. S = {[start |-> b, end |-> c + 1]}
      BY <2>4, <2>6
    <3>2. Bounded(S)
      BY <1>1, <1>2, <2>1, <3>1 DEF Bounded, Typed
    <3>3. \A q : Covers(S, q) <=> b <= q /\ q < c + 1
      BY <3>1, CoversOne
    <3>4. Covers(S, c) /\ \A q \in Tokens : Covers(S, q) => q = c
      BY <1>1, <2>1, <3>3
    <3>5. ASSUME c # Start, Sym(Pre(c)) = ":", Gap(<<Pre(c), c>>) \subseteq Blank  PROVE FALSE
      <4>1. b = Pre(c) + 1 /\ Pre(c) \in Nat
        BY <2>3, <3>5, PreIs
      <4>2. b > 0 /\ b - 1 = Pre(c)
        BY <4>1
      <4>. QED  BY <2>6, <3>5, <4>2
    <3>. QED  BY <3>2, <3>4, <3>5 DEF S
  <2>. QED  BY <2>5, <2>6
<1>. QED  BY <1>3, <1>4

Ends(p) == {q \in After(p) : Sym(q) \in {"comma", ")"}}

LEMMA ParamTokensAre ==
  ASSUME Size \in Nat, IsFunction, NEW p \in Tokens, Sym(p) = "p"
  PROVE  /\ p # End
         /\ ParamTokens(p) \in SUBSET Tokens /\ \A q \in ParamTokens(p) : p < q
         /\ Sym(Suc(p)) \in {"?", ":T"} => Suc(p) \in ParamTokens(p)
         /\ Sym(Suc(p)) = "?" => Suc(p) # End
         /\ Sym(Suc(p)) = "?" /\ Sym(Suc(Suc(p))) = ":T" => Suc(Suc(p)) \in ParamTokens(p)
<1>1. /\ End \in Tokens /\ Sym(End) = "body"
      /\ \A q \in Tokens : q # End =>
           /\ Sym(q) = "p" => Sym(Suc(q)) \in {"?", ":T", "comma", ")"}
           /\ Sym(q) = "?" => Sym(Suc(q)) \in {":T", "comma", ")"}
           /\ Sym(q) = ":T" => Sym(Suc(q)) \in {"comma", ")"}
  BY FunctionShape
<1> DEFINE a == Suc(p)
           c == Suc(a)
           d == Suc(c)
<1>2. p # End /\ a \in Tokens /\ a \in Nat /\ p < a /\ \A q \in Tokens : q <= p \/ a <= q
  BY <1>1, SucIs
<1>3. Sym(a) \in {"?", ":T", "comma", ")"}
  BY <1>1, <1>2
<1> HIDE DEF a
<1>4. Sym(a) \in {"?", ":T"} => a # End /\ c \in Tokens /\ c \in Nat /\ a < c
                               /\ \A q \in Tokens : q <= a \/ c <= q
  BY <1>1, <1>2, SucIs
<1>5. /\ Sym(a) = "?" => Sym(c) \in {":T", "comma", ")"}
      /\ Sym(a) = ":T" => Sym(c) \in {"comma", ")"}
  BY <1>1, <1>2, <1>4
<1> HIDE DEF c
<1>6. Sym(a) = "?" /\ Sym(c) = ":T" => c # End /\ d \in Tokens /\ d \in Nat /\ c < d
                                      /\ \A q \in Tokens : q <= c \/ d <= q
  BY <1>1, <1>4, SucIs
<1>7. Sym(a) = "?" /\ Sym(c) = ":T" => Sym(d) \in {"comma", ")"}
  BY <1>1, <1>4, <1>6
<1> HIDE DEF d
<1>8. p \in Nat /\ \A q \in Tokens : q \in Nat
  BY TokensAre
<1>9. \A q : q \in Ends(p) <=> q \in Tokens /\ p < q /\ Sym(q) \in {"comma", ")"}
  BY <1>8 DEF Ends, After
<1>10. Ends(p) # {}
  <2>1. CASE Sym(a) \in {"comma", ")"}
    BY <1>2, <1>9, <2>1
  <2>2. CASE Sym(a) \in {"?", ":T"} /\ Sym(c) \in {"comma", ")"}
    <3>1. p < c
      BY <1>2, <1>4, <1>8, <2>2
    <3>. QED  BY <1>4, <1>9, <2>2, <3>1
  <2>3. CASE Sym(a) = "?" /\ Sym(c) = ":T"
    <3>1. p < d
      BY <1>2, <1>4, <1>6, <1>8, <2>3
    <3>. QED  BY <1>6, <1>7, <1>9, <2>3, <3>1
  <2>. QED  BY <1>3, <1>5, <2>1, <2>2, <2>3
<1> DEFINE e == First(Ends(p))
<1>11. e \in Tokens /\ e \in Nat /\ p < e /\ Sym(e) \in {"comma", ")"}
  <2>1. Ends(p) \in SUBSET Nat
    BY <1>8, <1>9
  <2>2. e \in Ends(p)
    BY <1>10, <2>1, FirstIs
  <2>. QED  BY <1>8, <1>9, <2>2
<1>12. ParamTokens(p) = {q \in Tokens : p < q /\ q < e}
  BY <1>8 DEF ParamTokens, After, Ends
<1> HIDE DEF e
<1>13. ASSUME Sym(a) \in {"?", ":T"}  PROVE a < e
  <2>1. a # e /\ a <= e
    BY <1>2, <1>11, <1>13
  <2>. QED  BY <1>2, <1>11, <2>1
<1>14. ASSUME Sym(a) = "?", Sym(c) = ":T"  PROVE c < e /\ p < c
  <2>1. c # e /\ a < e
    BY <1>11, <1>13, <1>14
  <2>2. c <= e /\ c \in Nat /\ a < c
    BY <1>2, <1>4, <1>11, <1>14, <2>1
  <2>. QED  BY <1>2, <1>8, <1>11, <2>1, <2>2
<1>15. Sym(a) = "?" => a # End
  BY <1>4
<1>16. Sym(a) \in {"?", ":T"} => a \in ParamTokens(p)
  BY <1>2, <1>12, <1>13
<1>17. Sym(a) = "?" /\ Sym(c) = ":T" => c \in ParamTokens(p)
  BY <1>4, <1>12, <1>14
<1>18. ParamTokens(p) \in SUBSET Tokens /\ \A q \in ParamTokens(p) : p < q
  BY <1>12
<1>. QED  BY <1>2, <1>15, <1>16, <1>17, <1>18 DEF a, c

\* The question mark is found, if nothing that ends the search is before it.
LEMMA MarkerSpansAre ==
  ASSUME Size \in Nat, WordsClear, NEW p \in Tokens, NEW A \in SUBSET Tokens
  PROVE  LET S == MarkerSpans(p + 1, A)
             stops == {"comma", ")", "=", "open", "nl", "semicolon"}
         IN  /\ Bounded(S)
             /\ \A q \in Tokens : Covers(S, q) => Sym(q) = "?"
             /\ \A m \in Tokens :
                  /\ p # End /\ m = Suc(p) /\ Sym(m) = "?"
                  /\ \/ A # {} /\ \A x \in A : m < x
                     \/ A = {} /\ Gap(<<p, m>>) \cap stops = {}
                  => Covers(S, m)
<1> DEFINE S == MarkerSpans(p + 1, A)
           ends == {"comma", ")", "=", "open", "nl", "semicolon"}
           stops == {o \in (p + 1)..(Size - 1) : Sym(o) \in ends}
           end == IF A # {} THEN First(A) ELSE IF stops # {} THEN First(stops) ELSE Size
           marks == {o \in (p + 1)..(end - 1) : Sym(o) = "?"}
<1>1. p \in Nat /\ p < Size /\ \A q \in Tokens : q \in Nat /\ q < Size
  BY TokensAre
<1>2. S = IF marks = {} THEN {} ELSE {Node(First(marks))}
  BY DEF MarkerSpans
<1>3. end \in Nat /\ end <= Size
  <2>1. A # {} => First(A) \in A
    BY <1>1, FirstIs
  <2>2. stops # {} => First(stops) \in stops
    <3>1. stops \in SUBSET Nat
      BY <1>1
    <3> HIDE DEF stops
    <3>. QED  BY <3>1, FirstIs
  <2>3. \A o \in stops : o \in Nat /\ o <= Size
    BY <1>1
  <2> HIDE DEF stops, marks, S
  <2>4. CASE A # {}
    <3>1. end = First(A)
      BY <2>4
    <3> HIDE DEF end
    <3>2. First(A) \in Tokens
      BY <2>1, <2>4
    <3>3. First(A) \in Nat /\ First(A) < Size
      BY <1>1, <3>2
    <3>. QED  BY <3>1, <3>3
  <2>5. CASE A = {} /\ stops # {}
    <3>1. end = First(stops)
      BY <2>5
    <3> HIDE DEF end
    <3>. QED  BY <2>2, <2>3, <2>5, <3>1
  <2>6. CASE A = {} /\ stops = {}
    <3>1. end = Size
      BY <2>6
    <3> HIDE DEF end
    <3>. QED  BY <3>1
  <2>. QED  BY <2>4, <2>5, <2>6
<1>4. ASSUME NEW m \in Tokens, p # End, m = Suc(p), Sym(m) = "?",
             \/ A # {} /\ \A x \in A : m < x
             \/ A = {} /\ Gap(<<p, m>>) \cap ends = {}
      PROVE  m \in marks
  <2>1. p < m
    BY <1>4, SucIs
  <2>2. m < end
    <3>1. CASE A # {} /\ \A x \in A : m < x
      <4>1. First(A) \in A
        BY <1>1, <3>1, FirstIs
      <4>. QED  BY <3>1, <4>1
    <3>2. CASE A = {} /\ Gap(<<p, m>>) \cap ends = {}
      <4>1. CASE stops # {}
        <5>1. stops \in SUBSET Nat
          BY <1>1
        <5>2. First(stops) \in stops
          <6> HIDE DEF stops
          <6>. QED  BY <4>1, <5>1, FirstIs
        <5> DEFINE f == First(stops)
        <5>3. f \in (p + 1)..(Size - 1) /\ Sym(f) \in ends
          BY <5>2
        <5> HIDE DEF f, stops
        <5>4. f \notin (p + 1)..(m - 1)
          BY <3>2, <5>3 DEF Gap
        <5>5. f # m
          BY <1>4, <5>3
        <5>6. m < f
          BY <1>1, <2>1, <5>3, <5>4, <5>5
        <5>. QED  BY <3>2, <4>1, <5>6 DEF f
      <4>2. CASE stops = {}
        BY <1>1, <3>2, <4>2
      <4>. QED  BY <4>1, <4>2
    <3>. QED  BY <1>4, <3>1, <3>2
  <2> HIDE DEF end
  <2>. QED  BY <1>1, <1>3, <1>4, <2>1, <2>2
<1>5. ASSUME NEW o \in marks  PROVE o \in Tokens /\ p < o /\ Sym(o) = "?"
  <2>1. o \in Offsets /\ p < o /\ Sym(o) = "?"
    <3> HIDE DEF end
    <3>. QED  BY <1>1, <1>3 DEF Offsets
  <2>. QED  BY <2>1 DEF WordsClear
<1> HIDE DEF end, marks, S, ends
<1>6. CASE marks = {}
  <2>1. S = {}
    BY <1>2, <1>6
  <2>. QED  BY <1>4, <1>6, <2>1, CoversNone DEF Bounded, Typed, S, ends
<1>7. CASE marks # {}
  <2> DEFINE f == First(marks)
  <2>1. f \in marks /\ \A o \in marks : f <= o
    BY <1>1, <1>5, <1>7, FirstIs
  <2>2. S = {Node(f)}
    BY <1>2, <1>7
  <2> HIDE DEF f
  <2>3. f \in Tokens /\ p < f /\ Sym(f) = "?"
    BY <1>5, <2>1
  <2>4. Bounded(S) /\ \A q \in Tokens : Covers(S, q) <=> q = f
    BY <2>2, <2>3, NodeIs
  <2>5. ASSUME NEW m \in marks, p # End, m = Suc(p)  PROVE m = f
    <3>1. f <= m
      BY <2>1
    <3>2. m <= f
      <4>1. f <= p \/ m <= f
        BY <2>3, <2>5, SucIs
      <4>. QED  BY <1>1, <2>3, <4>1
    <3>3. m \in Nat /\ f \in Nat
      BY <1>1, <1>5, <2>3
    <3>. QED  BY <3>1, <3>2, <3>3
  <2>. QED  BY <1>4, <2>3, <2>4, <2>5 DEF S, ends
<1>. QED  BY <1>6, <1>7

LEMMA ParamSpansAre ==
  ASSUME Size \in Nat, IsFunction, WordsClear, NEW p \in Tokens, Sym(p) = "p"
  PROVE  /\ Bounded(ParamSpans(p))
         /\ \A q \in Tokens : Covers(ParamSpans(p), q) => Sym(q) \in {"?", ":T"}
         /\ \A q \in Tokens : Sym(q) = ":T" /\ q = Suc(p) => Covers(ParamSpans(p), q)
         /\ \A q \in Tokens :
              Sym(q) = ":T" /\ Sym(Suc(p)) = "?" /\ q = Suc(Suc(p)) => Covers(ParamSpans(p), q)
         /\ \A q \in Tokens :
              MarkersClear /\ Sym(q) = "?" /\ q = Suc(p) => Covers(ParamSpans(p), q)
<1> DEFINE A == {o \in ParamTokens(p) : Sym(o) = ":T"}
           optional == \E o \in ParamTokens(p) : Sym(o) = "?"
           N == {Node(o) : o \in A}
           M == IF optional THEN MarkerSpans(p + 1, A) ELSE {}
           stops == {"comma", ")", "=", "open", "nl", "semicolon"}
<1>1. /\ p # End
      /\ ParamTokens(p) \in SUBSET Tokens /\ \A q \in ParamTokens(p) : p < q
      /\ Sym(Suc(p)) \in {"?", ":T"} => Suc(p) \in ParamTokens(p)
      /\ Sym(Suc(p)) = "?" => Suc(p) # End
      /\ Sym(Suc(p)) = "?" /\ Sym(Suc(Suc(p))) = ":T" => Suc(Suc(p)) \in ParamTokens(p)
  BY ParamTokensAre
<1>2. ParamSpans(p) = N \cup M
  BY DEF ParamSpans
<1>3. A \in SUBSET Tokens /\ \A q \in A : Sym(q) = ":T" /\ p < q
  BY <1>1
<1>4. Bounded(N) /\ \A q \in Tokens : Covers(N, q) <=> q \in A
  <2>1. \A o \in A : Bounded({Node(o)}) /\ \A q \in Tokens : Covers({Node(o)}, q) <=> q = o
    BY <1>3, NodeIs
  <2> HIDE DEF A
  <2>2. Bounded(N)
    BY <2>1 DEF Bounded, Typed
  <2>3. ASSUME NEW q \in Tokens  PROVE Covers(N, q) <=> q \in A
    <3>1. Covers(N, q) <=> \E o \in A : Covers({Node(o)}, q)
      BY DEF Covers
    <3>. QED  BY <1>3, <2>1, <3>1
  <2>. QED  BY <2>2, <2>3
<1>5. /\ Bounded(MarkerSpans(p + 1, A))
      /\ \A q \in Tokens : Covers(MarkerSpans(p + 1, A), q) => Sym(q) = "?"
      /\ \A m \in Tokens :
           /\ p # End /\ m = Suc(p) /\ Sym(m) = "?"
           /\ \/ A # {} /\ \A x \in A : m < x
              \/ A = {} /\ Gap(<<p, m>>) \cap stops = {}
           => Covers(MarkerSpans(p + 1, A), m)
  <2> HIDE DEF A
  <2>. QED  BY <1>3, MarkerSpansAre
<1>6. Bounded(M) /\ \A q \in Tokens : Covers(M, q) => Sym(q) = "?"
  BY <1>5, CoversNone DEF Bounded, Typed
<1>7. ASSUME MarkersClear, NEW q \in Tokens, Sym(q) = "?", q = Suc(p)  PROVE Covers(M, q)
  <2>1. optional
    BY <1>1, <1>7
  <2>2. \A x \in A : q < x
    <3> SUFFICES ASSUME NEW x \in A PROVE q < x
      OBVIOUS
    <3>1. x \in Tokens /\ p < x /\ x # q
      BY <1>3, <1>7
    <3>2. x <= p \/ q <= x
      BY <1>1, <1>7, <3>1, SucIs
    <3>3. x \in Nat /\ q \in Nat /\ p \in Nat
      BY <3>1, TokensAre
    <3>. QED  BY <3>1, <3>2, <3>3
  <2>3. ASSUME A = {}  PROVE Gap(<<p, q>>) \cap stops = {}
    <3>1. <<p, q>> \in Adjacent(Tokens) /\ Symbols(<<p, q>>) = <<"p", "?">>
      BY <1>1, <1>7, SucIs DEF Symbols
    <3>2. \/ Gap(<<p, q>>) \cap stops = {}
          \/ \E f \in Adjacent(Tokens) : f[1] = q /\ Sym(f[2]) = ":T"
      BY <1>7, <3>1 DEF MarkersClear
    <3>3. ASSUME NEW f \in Adjacent(Tokens), f[1] = q, Sym(f[2]) = ":T"  PROVE FALSE
      <4>1. f = <<q, f[2]>>
        BY <3>3 DEF Adjacent
      <4>2. f[2] \in Tokens /\ q < f[2] /\ \A x \in Tokens : x <= q \/ f[2] <= x
        BY <4>1, AdjacentIs
      <4>3. q # End
        BY <1>1, <1>7
      <4>4. Suc(q) \in Tokens /\ q < Suc(q) /\ \A x \in Tokens : x <= q \/ Suc(q) <= x
        BY <4>3, SucIs
      <4>5. Suc(q) = f[2]
        BY <4>2, <4>4, TokensAre
      <4>6. Suc(Suc(p)) \in A
        BY <1>1, <1>7, <3>3, <4>5
      <4>. QED  BY <2>3, <4>6
    <3>. QED  BY <3>2, <3>3
  <2> HIDE DEF A
  <2>4. Covers(MarkerSpans(p + 1, A), q)
    BY <1>1, <1>5, <1>7, <2>2, <2>3
  <2>. QED  BY <2>1, <2>4
<1>8. /\ \A q \in Tokens : Sym(q) = ":T" /\ q = Suc(p) => q \in A
      /\ \A q \in Tokens : Sym(q) = ":T" /\ Sym(Suc(p)) = "?" /\ q = Suc(Suc(p)) => q \in A
  BY <1>1
<1> HIDE DEF A, N, M
<1>9. \A q \in Tokens : Covers(ParamSpans(p), q) <=> Covers(N, q) \/ Covers(M, q)
  BY <1>2, CoversUnion
<1>10. Bounded(ParamSpans(p))
  BY <1>2, <1>4, <1>6, BoundedUnion
<1>11. \A q \in Tokens : Covers(ParamSpans(p), q) => Sym(q) \in {"?", ":T"}
  BY <1>3, <1>4, <1>6, <1>9
<1>12. \A q \in Tokens : q \in A => Covers(ParamSpans(p), q)
  BY <1>4, <1>9
<1>13. \A q \in Tokens :
         MarkersClear /\ Sym(q) = "?" /\ q = Suc(p) => Covers(ParamSpans(p), q)
  BY <1>7, <1>9
<1>. QED  BY <1>8, <1>10, <1>11, <1>12, <1>13

\* All that is deleted from a function once these parameters are visited.
VisitedSpans(X) == FunctionSpans \cup UNION {ParamSpans(p) : p \in X}

LEMMA VisitedSpansAre ==
  ASSUME Size \in Nat, IsFunction, WordsClear, NEW X \in SUBSET Where({"p"})
  PROVE  LET S == VisitedSpans(X)
         IN  /\ Bounded(S)
             /\ \A q \in Tokens : Covers(S, q) =>
                  \/ Sym(q) \in {"<T>", ":R", ":", "%checks", "this:T", "?", ":T"}
                  \/ Sym(q) = "comma" /\ q # Start /\ Sym(Pre(q)) = "this:T"
             /\ \A q \in Tokens : Sym(q) \in {"<T>", ":R", "%checks", "this:T"} => Covers(S, q)
             /\ \A q \in Tokens : MarkersClear /\ Sym(q) = ":" => Covers(S, q)
             /\ \A q \in Tokens :
                  CommasClear /\ q # Start /\ Sym(q) = "comma" /\ Sym(Pre(q)) = "this:T"
                    => Covers(S, q)
             /\ \A p \in X : \A q \in Tokens : Covers(ParamSpans(p), q) => Covers(S, q)
<1> DEFINE returns == NodesOf({":R"}) # {}
           S == VisitedSpans(X)
           G == NodesOf({"<T>"})
           R == NodesOf({":R"})
           C == {PredicateSpan(n, returns) : n \in NodesOf({"%checks"})}
           T == {ThisParamSpan(n) : n \in NodesOf({"this:T"})}
           P == UNION {ParamSpans(p) : p \in X}
<1>1. S = G \cup R \cup C \cup T \cup P
  BY DEF VisitedSpans, FunctionSpans
<1>2. Bounded(G) /\ \A q \in Tokens : Covers(G, q) <=> Sym(q) = "<T>"
  <2>1. Bounded(G) /\ \A q \in Tokens : Covers(G, q) <=> Sym(q) \in {"<T>"}
    BY NodesOfIs
  <2>. QED  BY <2>1
<1>3. Bounded(R) /\ \A q \in Tokens : Covers(R, q) <=> Sym(q) = ":R"
  <2>1. Bounded(R) /\ \A q \in Tokens : Covers(R, q) <=> Sym(q) \in {":R"}
    BY NodesOfIs
  <2>. QED  BY <2>1
<1>r. returns \in BOOLEAN /\ (returns <=> \E q \in Tokens : Sym(q) = ":R")
  BY DEF NodesOf, Where
<1>4. /\ Bounded(C)
      /\ \A q \in Tokens : Covers(C, q) => \/ Sym(q) = "%checks" \/ Sym(q) = ":"
      /\ \A q \in Tokens : Sym(q) = "%checks" => Covers(C, q)
      /\ \A q \in Tokens : MarkersClear /\ Sym(q) = ":" => Covers(C, q)
  <2> DEFINE f(c) == {PredicateSpan(Node(c), returns)}
             W == Where({"%checks"})
  <2>1. \A c \in W : c \in Tokens /\ Sym(c) = "%checks"
    BY DEF Where
  <2>w. \A c \in Tokens : Sym(c) = "%checks" => c \in W
    BY DEF Where
  <2> DEFINE F == {f(c) : c \in W}
  <2>2. C = UNION F
    BY DEF NodesOf
  <2>3. \A c \in W :
          /\ Bounded(f(c)) /\ Covers(f(c), c)
          /\ \A q \in Tokens : Covers(f(c), q) => \/ q = c
                                                  \/ c # Start /\ q = Pre(c) /\ Sym(q) = ":"
          /\ ~ returns /\ c # Start /\ Sym(Pre(c)) = ":" /\ Gap(<<Pre(c), c>>) \subseteq Blank
               => Covers(f(c), Pre(c))
    <3> HIDE DEF returns
    <3>. QED  BY <1>r, <2>1, PredicateSpanIs
  <2> HIDE DEF f, W, C
  <2>f. \A Z : Z \in F <=> \E c \in W : Z = f(c)
    OBVIOUS
  <2> HIDE DEF F
  <2>4. \A q : Covers(C, q) <=> \E c \in W : Covers(f(c), q)
    BY <2>2, <2>f, Family
  <2>5. Bounded(C)
    <3>1. \A c \in W : Bounded(f(c))
      BY <2>3
    <3>2. \A Z \in F : Bounded(Z)
      BY <2>f, <3>1
    <3>. QED  BY <2>2, <3>2, Family
  <2>6. \A q \in Tokens : Covers(C, q) => \/ Sym(q) = "%checks" \/ Sym(q) = ":"
    BY <2>1, <2>3, <2>4
  <2>7. \A q \in Tokens : Sym(q) = "%checks" => Covers(C, q)
    BY <2>w, <2>3, <2>4
  <2>8. ASSUME MarkersClear, NEW q \in Tokens, Sym(q) = ":"  PROVE Covers(C, q)
    <3>1. /\ End \in Tokens /\ Sym(End) = "body"
          /\ \A x \in Tokens : x # End /\ Sym(x) = ":" => Sym(Suc(x)) = "%checks"
      BY FunctionShape
    <3> DEFINE c == Suc(q)
    <3>2. /\ c \in Tokens /\ Sym(c) = "%checks" /\ Pre(c) = q /\ c # Start
          /\ <<q, c>> \in Adjacent(Tokens)
      BY <2>8, <3>1, SucIs
    <3> HIDE DEF c
    <3>3. ~ returns
      <4> HIDE DEF returns
      <4>. QED  BY <1>r, <2>8, FunctionReturns
    <3>4. Gap(<<q, c>>) \subseteq Blank
      <4>1. Symbols(<<q, c>>) = <<":", "%checks">>
        BY <2>8, <3>2 DEF Symbols
      <4>. QED  BY <2>8, <3>2, <4>1 DEF MarkersClear, Only
    <3>5. c \in W
      BY <2>w, <3>2
    <3> HIDE DEF returns
    <3>. QED  BY <2>3, <2>4, <2>8, <3>2, <3>3, <3>4, <3>5
  <2>. QED  BY <2>5, <2>6, <2>7, <2>8
<1>5. /\ Bounded(T)
      /\ \A q \in Tokens : Covers(T, q) =>
           \/ Sym(q) = "this:T"
           \/ Sym(q) = "comma" /\ q # Start /\ Sym(Pre(q)) = "this:T"
      /\ \A q \in Tokens : Sym(q) = "this:T" => Covers(T, q)
      /\ \A q \in Tokens :
           CommasClear /\ q # Start /\ Sym(q) = "comma" /\ Sym(Pre(q)) = "this:T" => Covers(T, q)
  <2> DEFINE f(c) == {ThisParamSpan(Node(c))}
             W == Where({"this:T"})
  <2>1. \A c \in W : c \in Tokens /\ Sym(c) = "this:T"
    BY DEF Where
  <2>w. \A c \in Tokens : Sym(c) = "this:T" => c \in W
    BY DEF Where
  <2> DEFINE F == {f(c) : c \in W}
  <2>2. T = UNION F
    BY DEF NodesOf
  <2>3. \A c \in W :
          /\ Bounded(f(c)) /\ Covers(f(c), c)
          /\ \A q \in Tokens : Covers(f(c), q) => \/ q = c
                                                  \/ c # End /\ q = Suc(c) /\ Sym(q) = "comma"
          /\ c # End /\ Sym(Suc(c)) = "comma" /\ Gap(<<c, Suc(c)>>) \subseteq White
               => Covers(f(c), Suc(c))
    BY <2>1, ThisParamSpanIs
  <2> HIDE DEF f, W, T
  <2>f. \A Z : Z \in F <=> \E c \in W : Z = f(c)
    OBVIOUS
  <2> HIDE DEF F
  <2>4. \A q : Covers(T, q) <=> \E c \in W : Covers(f(c), q)
    BY <2>2, <2>f, Family
  <2>5. Bounded(T)
    <3>1. \A c \in W : Bounded(f(c))
      BY <2>3
    <3>2. \A Z \in F : Bounded(Z)
      BY <2>f, <3>1
    <3>. QED  BY <2>2, <3>2, Family
  <2>6. ASSUME NEW q \in Tokens, Covers(T, q)
        PROVE  \/ Sym(q) = "this:T"
               \/ Sym(q) = "comma" /\ q # Start /\ Sym(Pre(q)) = "this:T"
    <3>1. PICK c \in W : Covers(f(c), q)
      BY <2>4, <2>6
    <3>2. CASE q = c
      BY <2>1, <3>2
    <3>3. CASE c # End /\ q = Suc(c) /\ Sym(q) = "comma"
      BY <2>1, <3>3, SucIs
    <3>. QED  BY <2>3, <3>1, <3>2, <3>3
  <2>7. \A q \in Tokens : Sym(q) = "this:T" => Covers(T, q)
    BY <2>w, <2>3, <2>4
  <2>8. ASSUME CommasClear, NEW q \in Tokens, q # Start, Sym(q) = "comma", Sym(Pre(q)) = "this:T"
        PROVE  Covers(T, q)
    <3> DEFINE c == Pre(q)
    <3>1. /\ c \in Tokens /\ Suc(c) = q /\ c # End /\ Sym(c) = "this:T"
          /\ <<c, q>> \in Adjacent(Tokens)
      BY <2>8, PreIs
    <3> HIDE DEF c
    <3>2. Gap(<<c, q>>) \subseteq White
      <4>1. Symbols(<<c, q>>) \in {<<"typeA", "comma">>, <<"this:T", "comma">>}
        BY <2>8, <3>1 DEF Symbols
      <4>. QED  BY <2>8, <3>1, <4>1 DEF CommasClear, Only
    <3>3. c \in W
      BY <2>w, <3>1
    <3>. QED  BY <2>3, <2>4, <2>8, <3>1, <3>2, <3>3
  <2>. QED  BY <2>5, <2>6, <2>7, <2>8
<1>6. /\ Bounded(P)
      /\ \A q \in Tokens : Covers(P, q) => Sym(q) \in {"?", ":T"}
      /\ \A q : Covers(P, q) <=> \E p \in X : Covers(ParamSpans(p), q)
  <2>1. \A p \in X : p \in Tokens /\ Sym(p) = "p"
    BY DEF Where
  <2>2. \A p \in X : /\ Bounded(ParamSpans(p))
                     /\ \A q \in Tokens : Covers(ParamSpans(p), q) => Sym(q) \in {"?", ":T"}
    BY <2>1, ParamSpansAre
  <2>3. \A q : Covers(P, q) <=> \E p \in X : Covers(ParamSpans(p), q)
    BY DEF Covers
  <2>4. Bounded(P)
    BY <2>2 DEF Bounded, Typed
  <2>. QED  BY <2>2, <2>3, <2>4
<1> HIDE DEF S, G, R, C, T, P
<1>7. Bounded(S)
  BY <1>1, <1>2, <1>3, <1>4, <1>5, <1>6, BoundedUnion
<1>8. \A q : Covers(S, q) <=> \/ Covers(G, q) \/ Covers(R, q) \/ Covers(C, q)
                              \/ Covers(T, q) \/ Covers(P, q)
  BY <1>1 DEF Covers
<1>9. \A q \in Tokens : Covers(S, q) =>
                  \/ Sym(q) \in {"<T>", ":R", ":", "%checks", "this:T", "?", ":T"}
                  \/ Sym(q) = "comma" /\ q # Start /\ Sym(Pre(q)) = "this:T"
  BY <1>2, <1>3, <1>4, <1>5, <1>6, <1>8
<1>10. \A q \in Tokens : Sym(q) \in {"<T>", ":R", "%checks", "this:T"} => Covers(S, q)
  BY <1>2, <1>3, <1>4, <1>5, <1>8
<1>. QED  BY <1>4, <1>5, <1>6, <1>7, <1>8, <1>9, <1>10 DEF S

LEMMA FunctionSpansAre ==
  ASSUME Size \in Nat, IsFunction, WordsClear
  PROVE  /\ \A X \in SUBSET Where({"p"}) : Sound(VisitedSpans(X))
         /\ MarkersClear => Erasing(VisitedSpans(Where({"p"})))
         /\ MarkersClear /\ CommasClear => Parsing(VisitedSpans(Where({"p"})))
<1> DEFINE W == Where({"p"})
           S == VisitedSpans(W)
           Gone == {"<T>", ":R", ":", "%checks", "this:T", "?", ":T"}
<1>1. ASSUME NEW X \in SUBSET W  PROVE Sound(VisitedSpans(X))
  <2>1. /\ Bounded(VisitedSpans(X))
        /\ \A q \in Tokens : Covers(VisitedSpans(X), q) => Sym(q) \in Gone \/ Sym(q) = "comma"
    BY VisitedSpansAre
  <2>. QED  BY <2>1 DEF Sound, ValueSymbols
<1>2. \A p \in Tokens : Sym(p) = "p" => p \in W
  BY DEF Where
<1>3. /\ \A q \in Tokens : Covers(S, q) =>
           \/ Sym(q) \in Gone
           \/ Sym(q) = "comma" /\ q # Start /\ Sym(Pre(q)) = "this:T"
      /\ \A q \in Tokens : Sym(q) \in {"<T>", ":R", "%checks", "this:T"} => Covers(S, q)
      /\ \A q \in Tokens : MarkersClear /\ Sym(q) = ":" => Covers(S, q)
      /\ \A q \in Tokens :
           CommasClear /\ q # Start /\ Sym(q) = "comma" /\ Sym(Pre(q)) = "this:T" => Covers(S, q)
  BY VisitedSpansAre
<1>4. \A p \in W : \A q \in Tokens : Covers(ParamSpans(p), q) => Covers(S, q)
  BY VisitedSpansAre
<1> HIDE DEF S, W
<1>5. /\ Start \in Tokens /\ Sym(Start) = "function" /\ End \in Tokens /\ Sym(End) = "body"
      /\ \A q \in Tokens :
           Sym(q) \in {"function", "<T>", "(", "p", "?", ":T", "this:T", "comma", ")",
                       ":R", ":", "%checks", "body"}
      /\ \A q \in Tokens : (Sym(q) = "function" => q = Start) /\ (Sym(q) = "body" => q = End)
      /\ \A q \in Tokens : q # Start =>
           /\ Sym(q) = "?" => Sym(Pre(q)) = "p"
           /\ Sym(q) = ":T" => Sym(Pre(q)) \in {"p", "?"}
  BY FunctionShape
<1>6. /\ \A p, q \in Tokens :
           Sym(p) = "p" /\ Sym(q) = ":T" /\ q = Suc(p) => Covers(ParamSpans(p), q)
      /\ \A p, q \in Tokens :
           Sym(p) = "p" /\ Sym(q) = ":T" /\ Sym(Suc(p)) = "?" /\ q = Suc(Suc(p))
             => Covers(ParamSpans(p), q)
      /\ \A p, q \in Tokens :
           MarkersClear /\ Sym(p) = "p" /\ Sym(q) = "?" /\ q = Suc(p) => Covers(ParamSpans(p), q)
  BY ParamSpansAre
<1>7. ASSUME MarkersClear, NEW q \in Tokens, Sym(q) = "?"  PROVE Covers(S, q)
  <2>1. q # Start /\ Sym(Pre(q)) = "p"
    BY <1>5, <1>7
  <2>2. Pre(q) \in Tokens /\ Suc(Pre(q)) = q
    BY <2>1, PreIs
  <2>. QED  BY <1>2, <1>4, <1>6, <1>7, <2>1, <2>2
<1>8. ASSUME NEW q \in Tokens, Sym(q) = ":T"  PROVE Covers(S, q)
  <2>1. q # Start /\ Sym(Pre(q)) \in {"p", "?"}
    BY <1>5, <1>8
  <2>2. Pre(q) \in Tokens /\ Suc(Pre(q)) = q
    BY <2>1, PreIs
  <2>3. CASE Sym(Pre(q)) = "p"
    <3> DEFINE m == Pre(q)
    <3>1. m \in Tokens /\ Suc(m) = q /\ Sym(m) = "p"
      BY <2>2, <2>3
    <3> HIDE DEF m
    <3>2. Covers(ParamSpans(m), q)
      BY <1>6, <1>8, <3>1
    <3>. QED  BY <1>2, <1>4, <3>1, <3>2
  <2>4. CASE Sym(Pre(q)) = "?"
    <3> DEFINE m == Pre(q)
    <3>1. m \in Tokens /\ Suc(m) = q /\ Sym(m) = "?" /\ m # Start /\ Sym(Pre(m)) = "p"
      BY <1>5, <2>2, <2>4
    <3> HIDE DEF m
    <3>2. Pre(m) \in Tokens /\ Suc(Pre(m)) = m
      BY <3>1, PreIs
    <3>. QED  BY <1>2, <1>4, <1>6, <1>8, <3>1, <3>2
  <2>. QED  BY <2>1, <2>3, <2>4
<1>9. MarkersClear => \A q \in Tokens : Sym(q) \in Gone => Covers(S, q)
  BY <1>3, <1>7, <1>8
<1>10. MarkersClear => Erasing(S)
  BY <1>5, <1>9 DEF Erasing, TypeSymbols
<1>11. ASSUME MarkersClear, CommasClear  PROVE Parsing(S)
  <2> SUFFICES ASSUME NEW o, NEW p, <<o, p>> \in Adjacent(Left(S))
               PROVE  <<Sym(o), Sym(p)>> \in Follows
    BY ParsingIs
  <2> DEFINE K == Left(S)
  <2>1. K \in SUBSET Tokens /\ o \in K /\ p \in K /\ o \in Nat /\ p \in Nat /\ o < p
    BY AdjacentIs, TokensAre DEF Left
  <2>2. \A q \in Tokens : q \in K <=>
          \/ Sym(q) \in {"function", "(", "p", ")", "body"}
          \/ Sym(q) = "comma" /\ ~ (q # Start /\ Sym(Pre(q)) = "this:T")
    BY <1>3, <1>5, <1>9, <1>11 DEF Left
  <2>3. \A x \in Tokens : o <= x /\ x < p =>
           /\ x # End
           /\ \/ Suc(x) \in K /\ p = Suc(x)
              \/ Suc(x) \notin K /\ o <= Suc(x) /\ Suc(x) < p
    BY <2>1, Skip
  <2>4. \A x \in Tokens : x # End => Suc(x) \in Tokens /\ Pre(Suc(x)) = x /\ Suc(x) # Start
    BY SucIs
  <2> HIDE DEF K
  <2>5. \A q \in Tokens : q # End =>
              /\ Sym(q) = "function" => Sym(Suc(q)) \in {"<T>", "("}
              /\ Sym(q) = "<T>" => Sym(Suc(q)) = "("
              /\ Sym(q) = "(" => Sym(Suc(q)) \in {"p", "this:T", ")"}
              /\ Sym(q) = "p" => Sym(Suc(q)) \in {"?", ":T", "comma", ")"}
              /\ Sym(q) = "?" => Sym(Suc(q)) \in {":T", "comma", ")"}
              /\ Sym(q) = ":T" => Sym(Suc(q)) \in {"comma", ")"}
              /\ Sym(q) = "this:T" => Sym(Suc(q)) \in {"comma", ")"}
              /\ Sym(q) = "comma" => Sym(Suc(q)) \in {"p", ")"}
              /\ Sym(q) = ")" => Sym(Suc(q)) \in {":R", ":", "body"}
              /\ Sym(q) = ":R" => Sym(Suc(q)) \in {"%checks", "body"}
              /\ Sym(q) = ":" => Sym(Suc(q)) = "%checks"
              /\ Sym(q) = "%checks" => Sym(Suc(q)) = "body"
    BY FunctionShape
  \* What may come after x, if x is o or is deleted.
  <2> DEFINE at(x) == x \in Tokens /\ o <= x /\ x < p
  <2>6. ASSUME NEW x, at(x)
        PROVE  /\ x # End /\ x \in Tokens /\ Suc(x) \in Tokens /\ Suc(x) # Start /\ Pre(Suc(x)) = x
               /\ Suc(x) \in K => p = Suc(x)
               /\ Suc(x) \notin K => at(Suc(x))
    BY <2>3, <2>4, <2>6
  <2>7. at(o)
    BY <2>1
  <2> HIDE DEF at
  <2>8. \A x : at(x) /\ Sym(x) = ":T" => Sym(p) \in {"comma", ")"}
    BY <2>2, <2>5, <2>6
  <2>9. \A x : at(x) /\ Sym(x) = "?" => Sym(p) \in {"comma", ")"}
    BY <2>2, <2>5, <2>6, <2>8
  <2>10. \A x : at(x) /\ Sym(x) = "p" => Sym(p) \in {"comma", ")"}
    BY <2>2, <2>5, <2>6, <2>8, <2>9
  <2>11. \A x : at(x) /\ Sym(x) = "comma" => Sym(p) \in {"p", ")"}
    BY <2>2, <2>5, <2>6
  <2>12. \A x : at(x) /\ Sym(x) = "this:T" => Sym(p) \in {"p", ")"}
    BY <2>2, <2>5, <2>6, <2>11
  <2>13. \A x : at(x) /\ Sym(x) = "(" => Sym(p) \in {"p", ")"}
    BY <2>2, <2>5, <2>6, <2>12
  <2>14. \A x : at(x) /\ Sym(x) = "<T>" => Sym(p) = "("
    BY <2>2, <2>5, <2>6
  <2>15. \A x : at(x) /\ Sym(x) = "function" => Sym(p) = "("
    BY <2>2, <2>5, <2>6, <2>14
  <2>16. \A x : at(x) /\ Sym(x) = "%checks" => Sym(p) = "body"
    BY <2>2, <2>5, <2>6
  <2>17. \A x : at(x) /\ Sym(x) \in {":", ":R"} => Sym(p) = "body"
    BY <2>2, <2>5, <2>6, <2>16
  <2>18. \A x : at(x) /\ Sym(x) = ")" => Sym(p) = "body"
    BY <2>2, <2>5, <2>6, <2>17
  <2>19. Sym(o) # "body" /\ Sym(o) \in {"function", "(", "p", ")", "comma", "body"}
    BY <1>5, <2>1, <2>2, <2>6, <2>7
  <2>20. <<Sym(o), Sym(p)>> \in {<<"function", "(">>, <<"(", "p">>, <<"(", ")">>, <<"p", "comma">>,
              <<"p", ")">>, <<"comma", "p">>, <<"comma", ")">>, <<")", "body">>}
    BY <2>7, <2>10, <2>11, <2>13, <2>15, <2>18, <2>19
  <2>. QED  BY <2>20 DEF Follows
<1>. QED  BY <1>1, <1>10, <1>11 DEF S, W

-----------------------------------------------------------------------------
(* import D, { b, type A } from                                            *)

LEMMA ImportPairs ==
  ASSUME Size \in Nat, IsImport
  PROVE  /\ Start \in Tokens /\ Sym(Start) = "import" /\ End \in Tokens /\ Sym(End) = "from"
         /\ \A q \in Tokens :
              Sym(q) \in {"import", "D", "comma", "open", "b", "typeA", "close", "from"}
         /\ \A q \in Tokens : Sym(q) = "import" => q = Start
         /\ \A q \in Tokens : Sym(q) = "from" => q = End
         /\ \A q \in Tokens : q # Start =>
              /\ Sym(q) = "D" => Sym(Pre(q)) = "import"
              /\ Sym(q) = "comma" => Sym(Pre(q)) \in {"D", "b", "typeA"}
              /\ Sym(q) = "open" => Sym(Pre(q)) \in {"import", "comma"}
              /\ Sym(q) \in {"b", "typeA"} => Sym(Pre(q)) \in {"open", "comma"}
              /\ Sym(q) = "close" => Sym(Pre(q)) \in {"b", "typeA", "comma"}
              /\ Sym(q) = "from" => Sym(Pre(q)) = "close"
         /\ \A q \in Tokens : q # End =>
              /\ Sym(q) = "import" => Sym(Suc(q)) \in {"D", "open"}
              /\ Sym(q) = "D" => Sym(Suc(q)) = "comma"
              /\ Sym(q) = "comma" => Sym(Suc(q)) \in {"open", "b", "typeA", "close"}
              /\ Sym(q) = "open" => Sym(Suc(q)) \in {"b", "typeA"}
              /\ Sym(q) \in {"b", "typeA"} => Sym(Suc(q)) \in {"comma", "close"}
              /\ Sym(q) = "close" => Sym(Suc(q)) = "from"
         /\ \A q \in Tokens : Sym(q) = "comma" /\ q # Start /\ q # End =>
              (Sym(Pre(q)) = "D" <=> Sym(Suc(q)) = "open")
<1> DEFINE follows ==
       {<<"import", "D">>, <<"import", "open">>, <<"D", "comma">>, <<"comma", "open">>,
        <<"open", "b">>, <<"open", "typeA">>, <<"b", "comma">>, <<"typeA", "comma">>,
        <<"comma", "b">>, <<"comma", "typeA">>, <<"b", "close">>, <<"typeA", "close">>,
        <<"comma", "close">>, <<"close", "from">>}
<1>1. /\ Start \in Tokens /\ Sym(Start) = "import" /\ End \in Tokens /\ Sym(End) = "from"
      /\ \A o \in Tokens : o # Start => <<Sym(Pre(o)), Sym(o)>> \in follows
      /\ \A o \in Tokens : o # End => <<Sym(o), Sym(Suc(o))>> \in follows
  <2>1. Construct({"import"}, {"from"}, follows)
    BY DEF IsImport
  <2> HIDE DEF follows
  <2>. QED  BY <2>1, ConstructIs
<1>2. \A x, y : <<x, y>> \in follows =>
        /\ x \in {"import", "D", "comma", "open", "b", "typeA", "close"}
        /\ y \in {"D", "comma", "open", "b", "typeA", "close", "from"}
        /\ y = "D" => x = "import"
        /\ y = "comma" => x \in {"D", "b", "typeA"}
        /\ y = "open" => x \in {"import", "comma"}
        /\ y \in {"b", "typeA"} => x \in {"open", "comma"}
        /\ y = "close" => x \in {"b", "typeA", "comma"}
        /\ y = "from" => x = "close"
        /\ x = "import" => y \in {"D", "open"}
        /\ x = "D" => y = "comma"
        /\ x = "comma" => y \in {"open", "b", "typeA", "close"}
        /\ x = "open" => y \in {"b", "typeA"}
        /\ x \in {"b", "typeA"} => y \in {"comma", "close"}
        /\ x = "close" => y = "from"
  OBVIOUS
<1> HIDE DEF follows
<1>3. \A q \in Tokens : q # Start =>
        Sym(q) \in {"D", "comma", "open", "b", "typeA", "close", "from"}
  BY <1>1, <1>2
<1>4. \A q \in Tokens : q # End => Sym(q) # "from"
  BY <1>1, <1>2
<1>5. \A q \in Tokens : q # Start =>
              /\ Sym(q) = "D" => Sym(Pre(q)) = "import"
              /\ Sym(q) = "comma" => Sym(Pre(q)) \in {"D", "b", "typeA"}
              /\ Sym(q) = "open" => Sym(Pre(q)) \in {"import", "comma"}
              /\ Sym(q) \in {"b", "typeA"} => Sym(Pre(q)) \in {"open", "comma"}
              /\ Sym(q) = "close" => Sym(Pre(q)) \in {"b", "typeA", "comma"}
              /\ Sym(q) = "from" => Sym(Pre(q)) = "close"
  BY <1>1, <1>2
<1>6. \A q \in Tokens : q # End =>
              /\ Sym(q) = "import" => Sym(Suc(q)) \in {"D", "open"}
              /\ Sym(q) = "D" => Sym(Suc(q)) = "comma"
              /\ Sym(q) = "comma" => Sym(Suc(q)) \in {"open", "b", "typeA", "close"}
              /\ Sym(q) = "open" => Sym(Suc(q)) \in {"b", "typeA"}
              /\ Sym(q) \in {"b", "typeA"} => Sym(Suc(q)) \in {"comma", "close"}
              /\ Sym(q) = "close" => Sym(Suc(q)) = "from"
  BY <1>1, <1>2
<1>7. ASSUME NEW q \in Tokens, Sym(q) = "comma", q # Start, q # End
      PROVE  Sym(Pre(q)) = "D" <=> Sym(Suc(q)) = "open"
  <2>1. \A e, f \in Adjacent(Tokens) :
          e[2] = f[1] /\ Sym(f[1]) = "comma" => (Sym(e[1]) = "D" <=> Sym(f[2]) = "open")
    BY DEF IsImport
  <2> DEFINE e == <<Pre(q), q>>
             f == <<q, Suc(q)>>
  <2>2. e \in Adjacent(Tokens) /\ f \in Adjacent(Tokens)
    BY <1>7, PreIs, SucIs
  <2>3. e[2] = q /\ f[1] = q /\ e[1] = Pre(q) /\ f[2] = Suc(q)
    OBVIOUS
  <2> HIDE DEF e, f
  <2>. QED  BY <1>7, <2>1, <2>2, <2>3
<1>. QED  BY <1>1, <1>3, <1>4, <1>5, <1>6, <1>7

\* The braces, and what is before, between and after them.
LEMMA ImportBraces ==
  ASSUME Size \in Nat, IsImport
  PROVE  \E O, C \in Tokens :
           /\ O < C /\ Sym(O) = "open" /\ Sym(C) = "close"
           /\ \A q \in Tokens : Sym(q) = "open" => q = O
           /\ \A q \in Tokens : Sym(q) = "close" => q = C
           /\ \A q \in Tokens : Sym(q) = "D" => q < O
           /\ \A q \in Tokens : q < O /\ Sym(q) = "comma" => O # Start /\ q = Pre(O)
           /\ \A q \in Tokens : Sym(q) \in {"b", "typeA"} => O < q /\ q < C
           /\ \A q \in Tokens : O < q /\ q < C => Sym(q) \in {"b", "typeA", "comma"}
           /\ \A q \in Tokens : C < q => q = End
<1>1. /\ Start \in Tokens /\ Sym(Start) = "import" /\ End \in Tokens /\ Sym(End) = "from"
      /\ \A q \in Tokens :
           Sym(q) \in {"import", "D", "comma", "open", "b", "typeA", "close", "from"}
      /\ \A q \in Tokens : Sym(q) = "import" => q = Start
      /\ \A q \in Tokens : Sym(q) = "from" => q = End
      /\ \A q \in Tokens : Sym(q) = "comma" /\ q # Start /\ q # End =>
           (Sym(Pre(q)) = "D" <=> Sym(Suc(q)) = "open")
  BY ImportPairs
<1>2. \A q \in Tokens : q # Start =>
           /\ Sym(q) = "D" => Sym(Pre(q)) = "import"
           /\ Sym(q) = "open" => Sym(Pre(q)) \in {"import", "comma"}
           /\ Sym(q) = "from" => Sym(Pre(q)) = "close"
  BY ImportPairs
<1>3. \A q \in Tokens : q # End =>
           /\ Sym(q) = "import" => Sym(Suc(q)) \in {"D", "open"}
           /\ Sym(q) = "D" => Sym(Suc(q)) = "comma"
           /\ Sym(q) = "close" => Sym(Suc(q)) = "from"
  BY ImportPairs
<1>4. \A q \in Tokens : q \in Nat /\ Start <= q /\ q <= End
  BY TokensAre, Outermost
<1> DEFINE s == Suc(Start)
           c == Suc(s)
           t == Suc(c)
<1>5. /\ s \in Tokens /\ Start < s /\ s # Start /\ Pre(s) = Start
      /\ \A q \in Tokens : q <= Start \/ s <= q
      /\ Sym(s) \in {"D", "open"}
  BY <1>1, <1>3, SucIs
<1> HIDE DEF s
<1>6. ASSUME Sym(s) = "D"
      PROVE  /\ c \in Tokens /\ s < c /\ c # Start /\ Pre(c) = s
             /\ \A q \in Tokens : q <= s \/ c <= q
             /\ Sym(c) = "comma"
  BY <1>1, <1>3, <1>5, <1>6, SucIs
<1> HIDE DEF c
<1>7. ASSUME Sym(s) = "D"
      PROVE  /\ t \in Tokens /\ c < t /\ t # Start /\ Pre(t) = c
             /\ \A q \in Tokens : q <= c \/ t <= q
             /\ Sym(t) = "open"
  <2>1. c \in Tokens /\ c # Start /\ c # End /\ Pre(c) = s /\ Sym(c) = "comma"
    BY <1>1, <1>6, <1>7
  <2>. QED  BY <1>1, <1>7, <2>1, SucIs
<1> HIDE DEF t
<1>8. \A q \in Tokens : Sym(q) = "D" => q = s
  BY <1>1, <1>2, PreIs DEF s
<1>9. ASSUME NEW q \in Tokens, Sym(q) = "open"
      PROVE  IF Sym(s) = "D" THEN q = t ELSE q = s
  <2>1. q # Start /\ Sym(Pre(q)) \in {"import", "comma"}
    BY <1>1, <1>2, <1>9
  <2>2. Pre(q) \in Tokens /\ Suc(Pre(q)) = q /\ Pre(q) # End
    BY <2>1, PreIs
  <2>3. CASE Sym(Pre(q)) = "import"
    <3>1. q = s
      BY <1>1, <2>2, <2>3 DEF s
    <3>. QED  BY <1>9, <3>1
  <2>4. CASE Sym(Pre(q)) = "comma"
    <3> DEFINE x == Pre(q)
    <3>1. x \in Tokens /\ Suc(x) = q /\ x # End /\ Sym(x) = "comma" /\ x # Start
      BY <1>1, <2>2, <2>4
    <3> HIDE DEF x
    <3>2. Sym(Pre(x)) = "D"
      BY <1>1, <1>9, <3>1
    <3>3. Pre(x) \in Tokens /\ Suc(Pre(x)) = x
      BY <3>1, PreIs
    <3>4. Pre(x) = s /\ Sym(s) = "D"
      BY <1>8, <3>2, <3>3
    <3>5. x = c /\ q = t
      BY <3>1, <3>3, <3>4 DEF c, t
    <3>. QED  BY <3>4, <3>5
  <2>. QED  BY <2>1, <2>3, <2>4
<1> DEFINE O == IF Sym(s) = "D" THEN t ELSE s
           C == Pre(End)
<1>10. O \in Tokens /\ Sym(O) = "open" /\ \A q \in Tokens : Sym(q) = "open" => q = O
  BY <1>5, <1>7, <1>9
<1>11. \A q \in Tokens : Sym(q) = "D" => q < O
  <2> SUFFICES ASSUME Sym(s) = "D" PROVE s < t
    BY <1>8
  <2>. QED  BY <1>4, <1>5, <1>6, <1>7
<1>12. ASSUME NEW q \in Tokens, q < O
       PROVE  /\ Sym(q) \in {"import", "D", "comma"}
              /\ Sym(q) = "comma" => O # Start /\ q = Pre(O)
  <2>1. CASE Sym(s) = "D"
    <3>1. q < t
      BY <1>12, <2>1
    <3>2. q <= c
      BY <1>4, <1>7, <2>1, <3>1
    <3>3. q = c \/ q <= s
      BY <1>4, <1>6, <2>1, <3>2
    <3>4. q = c \/ q = s \/ q = Start
      BY <1>1, <1>4, <1>5, <3>3
    <3>5. O = t
      BY <2>1
    <3> HIDE DEF O
    <3>. QED  BY <1>1, <1>6, <1>7, <2>1, <3>4, <3>5
  <2>2. CASE Sym(s) # "D"
    <3>1. q < s
      BY <1>12, <2>2
    <3>2. q = Start
      BY <1>1, <1>4, <1>5, <3>1
    <3>. QED  BY <1>1, <3>2
  <2>. QED  BY <2>1, <2>2
<1> HIDE DEF O
<1>13. C \in Tokens /\ C < End /\ Sym(C) = "close" /\ \A q \in Tokens : q <= C \/ End <= q
  BY <1>1, <1>2, PreIs
<1>14. \A q \in Tokens : Sym(q) = "close" => q = C
  <2> SUFFICES ASSUME NEW q \in Tokens, Sym(q) = "close" PROVE q = C
    OBVIOUS
  <2>1. q # End /\ Sym(Suc(q)) = "from"
    BY <1>1, <1>3
  <2>2. Suc(q) \in Tokens /\ Pre(Suc(q)) = q
    BY <2>1, SucIs
  <2>. QED  BY <1>1, <2>1, <2>2
<1> HIDE DEF C
<1>15. \A q \in Tokens : C < q => q = End
  BY <1>1, <1>4, <1>13
<1>16. O < C
  <2>1. O # C
    BY <1>10, <1>13
  <2>2. ~ (C < O)
    BY <1>12, <1>13
  <2>. QED  BY <1>4, <1>10, <1>13, <2>1, <2>2
<1>17. ASSUME NEW q \in Tokens, Sym(q) \in {"b", "typeA"}  PROVE O < q /\ q < C
  <2>1. ~ (q < O) /\ q # O /\ q # C
    BY <1>10, <1>12, <1>13, <1>17
  <2>2. ~ (C < q)
    BY <1>1, <1>15, <1>17
  <2>. QED  BY <1>4, <1>10, <1>13, <2>1, <2>2
<1>18. ASSUME NEW q \in Tokens, O < q, q < C  PROVE Sym(q) \in {"b", "typeA", "comma"}
  <2>1. q # O /\ q # C /\ q # End /\ ~ (q < O)
    BY <1>4, <1>10, <1>13, <1>18
  <2>2. q # Start
    BY <1>1, <1>4, <1>10, <1>18
  <2>. QED  BY <1>1, <1>10, <1>11, <1>14, <2>1, <2>2
<1>19. \A q \in Tokens : q < O /\ Sym(q) = "comma" => O # Start /\ q = Pre(O)
  BY <1>12
<1>. QED  BY <1>10, <1>11, <1>13, <1>14, <1>15, <1>16, <1>17, <1>18, <1>19

LEMMA GroupIs ==
  ASSUME Size \in Nat, WordsClear, Tokens # {}, NEW O \in Tokens, NEW C \in Tokens,
         Sym(O) = "open", Sym(C) = "close",
         \A q \in Tokens : Sym(q) = "open" => q = O,
         \A q \in Tokens : Sym(q) = "close" => q = C
  PROVE  Group = [start |-> O, end |-> C + 1]
<1> DEFINE opens == {o \in Outer.start..(Outer.end - 1) : Sym(o) = "open"}
           closes == {o \in Outer.start..(Outer.end - 1) : Sym(o) = "close"}
<1>1. /\ Start \in Tokens /\ End \in Tokens
      /\ \A q \in Tokens : q \in Nat /\ q < Size /\ Start <= q /\ q <= End
  BY TokensAre, Outermost
<1>2. Outer.start = Start /\ Outer.end - 1 = End
  <2>1. Outer = [start |-> Start, end |-> End + 1]
    BY DEF Outer, Start, End
  <2>2. (End + 1) - 1 = End
    BY <1>1
  <2>. QED  BY <2>1, <2>2
<1>3. \A o \in Start..End : o \in Offsets
  BY <1>1 DEF Offsets
<1>4. \A o \in opens : o = O
  BY <1>2, <1>3 DEF WordsClear
<1>5. \A o \in closes : o = C
  BY <1>2, <1>3 DEF WordsClear
<1>6. O \in opens /\ C \in closes
  BY <1>1, <1>2
<1>7. opens \in SUBSET Nat /\ closes \in SUBSET (0..Size)
  BY <1>1, <1>2
<1> HIDE DEF opens, closes
<1>8. First(opens) = O
  BY <1>4, <1>6, <1>7, FirstOfOne
<1>9. Final(closes) = C
  BY <1>5, <1>6, <1>7, FinalOfOne
<1>. QED  BY <1>8, <1>9 DEF Group, opens, closes

\* The list items that are types.
LEMMA ItemSpansAre ==
  ASSUME Size \in Nat, IsImport, NEW O \in Tokens,
         \A q \in Tokens : Sym(q) = "typeA" => O < q
  PROVE  LET S == {ListItemSpan(n, O) : n \in NodesOf({"typeA"})}
         IN  /\ Bounded(S)
             /\ \A q \in Tokens : Sym(q) = "typeA" => Covers(S, q)
             /\ \A q \in Tokens : Covers(S, q) =>
                  \/ Sym(q) = "typeA"
                  \/ Sym(q) = "comma" /\ q # Start /\ Sym(Pre(q)) = "typeA"
                  \/ Sym(q) = "comma" /\ q # End /\ Sym(Suc(q)) = "typeA"
                     /\ (CommasClear => Sym(Suc(Suc(q))) = "close")
             /\ \A q \in Tokens :
                  CommasClear /\ Sym(q) = "comma" /\ q # Start /\ Sym(Pre(q)) = "typeA"
                    => Covers(S, q)
<1> DEFINE S == {ListItemSpan(n, O) : n \in NodesOf({"typeA"})}
           f(t) == {ListItemSpan(Node(t), O)}
           W == Where({"typeA"})
           F == {f(t) : t \in W}
<1>1. \A t \in W : t \in Tokens /\ Sym(t) = "typeA"
  BY DEF Where
<1>2. \A t \in Tokens : Sym(t) = "typeA" => t \in W
  BY DEF Where
<1>3. S = UNION F
  BY DEF NodesOf
<1>4. \A t \in W :
        /\ Bounded(f(t)) /\ Covers(f(t), t)
        /\ \A q \in Tokens : Covers(f(t), q) =>
             \/ q = t
             \/ t # End /\ q = Suc(t) /\ Sym(q) = "comma"
             \/ t # Start /\ q = Pre(t) /\ Sym(q) = "comma"
                /\ ~ (t # End /\ Sym(Suc(t)) = "comma" /\ Gap(<<t, Suc(t)>>) \subseteq White)
        /\ t # End /\ Sym(Suc(t)) = "comma" /\ Gap(<<t, Suc(t)>>) \subseteq White
             => Covers(f(t), Suc(t))
  <2> HIDE DEF W
  <2>1. O \in Nat /\ \A t \in W : t \in Tokens /\ O <= t
    BY <1>1, TokensAre
  <2>. QED  BY <2>1, ListItemSpanIs
<1> HIDE DEF f, W, S
<1>5. \A Z : Z \in F <=> \E t \in W : Z = f(t)
  OBVIOUS
<1> HIDE DEF F
<1>6. \A q : Covers(S, q) <=> \E t \in W : Covers(f(t), q)
  BY <1>3, <1>5, Family
<1>7. Bounded(S)
  <2>1. \A t \in W : Bounded(f(t))
    BY <1>4
  <2>2. \A Z \in F : Bounded(Z)
    BY <1>5, <2>1
  <2>. QED  BY <1>3, <2>2, Family
<1>8. \A q \in Tokens : Sym(q) = "typeA" => Covers(S, q)
  BY <1>2, <1>4, <1>6
<1>9. /\ End \in Tokens /\ Sym(End) = "from"
      /\ \A q \in Tokens : q # End /\ Sym(q) \in {"b", "typeA"}
             => Sym(Suc(q)) \in {"comma", "close"}
  BY ImportPairs
\* Where commas are clear, the search for a comma after an item finds it.
<1>10. ASSUME CommasClear, NEW t \in W, Sym(Suc(t)) = "comma"
       PROVE  Gap(<<t, Suc(t)>>) \subseteq White
  <2>1. t # End /\ t \in Tokens
    BY <1>1, <1>9
  <2>2. <<t, Suc(t)>> \in Adjacent(Tokens)
    BY <2>1, SucIs
  <2>3. Symbols(<<t, Suc(t)>>) \in {<<"typeA", "comma">>, <<"this:T", "comma">>}
    BY <1>1, <1>10 DEF Symbols
  <2>. QED  BY <1>10, <2>2, <2>3 DEF CommasClear, Only
<1>11. ASSUME NEW q \in Tokens, Covers(S, q)
       PROVE  \/ Sym(q) = "typeA"
              \/ Sym(q) = "comma" /\ q # Start /\ Sym(Pre(q)) = "typeA"
              \/ Sym(q) = "comma" /\ q # End /\ Sym(Suc(q)) = "typeA"
                 /\ (CommasClear => Sym(Suc(Suc(q))) = "close")
  <2>1. PICK t \in W : Covers(f(t), q)
    BY <1>6, <1>11
  <2>2. t \in Tokens /\ Sym(t) = "typeA" /\ t # End /\ Sym(Suc(t)) \in {"comma", "close"}
    BY <1>1, <1>9
  <2>3. CASE q = t
    BY <2>2, <2>3
  <2>4. CASE q = Suc(t) /\ Sym(q) = "comma"
    BY <2>2, <2>4, SucIs
  <2>5. CASE /\ t # Start /\ q = Pre(t) /\ Sym(q) = "comma"
             /\ ~ (t # End /\ Sym(Suc(t)) = "comma" /\ Gap(<<t, Suc(t)>>) \subseteq White)
    <3>1. Suc(q) = t /\ q # End
      BY <2>2, <2>5, PreIs
    <3>2. CommasClear => Sym(Suc(t)) = "close"
      BY <1>10, <2>2, <2>5
    <3>. QED  BY <2>2, <2>5, <3>1, <3>2
  <2>. QED  BY <1>4, <2>1, <2>3, <2>4, <2>5
<1>12. ASSUME CommasClear, NEW q \in Tokens, Sym(q) = "comma", q # Start, Sym(Pre(q)) = "typeA"
       PROVE  Covers(S, q)
  <2> DEFINE t == Pre(q)
  <2>1. t \in Tokens /\ Suc(t) = q /\ t # End /\ Sym(t) = "typeA"
    BY <1>12, PreIs
  <2> HIDE DEF t
  <2>2. t \in W
    BY <1>2, <2>1
  <2>3. Gap(<<t, Suc(t)>>) \subseteq White
    BY <1>10, <1>12, <2>1, <2>2
  <2>4. Covers(f(t), q)
    BY <1>4, <1>12, <2>1, <2>2, <2>3
  <2>. QED  BY <1>6, <2>2, <2>4
<1>. QED  BY <1>7, <1>8, <1>11, <1>12 DEF S

\* The braces, with the comma before them.
LEMMA GroupSpanIs ==
  ASSUME Size \in Nat, NEW O \in Tokens, NEW C \in Tokens, O < C,
         Group = [start |-> O, end |-> C + 1]
  PROVE  LET S == {GroupSpan}
         IN  /\ Bounded(S)
             /\ \A q \in Tokens : O <= q /\ q <= C => Covers(S, q)
             /\ \A q \in Tokens : Covers(S, q) =>
                  \/ O <= q /\ q <= C
                  \/ O # Start /\ q = Pre(O) /\ Sym(q) = "comma"
             /\ O # Start /\ Sym(Pre(O)) = "comma" /\ Gap(<<Pre(O), O>>) \subseteq Blank
                  => Covers(S, Pre(O))
<1> DEFINE S == {GroupSpan}
           b == BackOverComma(O, 0)
<1>1. O \in Nat /\ C \in Nat /\ C + 1 \in Nat /\ \A q \in Tokens : q \in Nat
  BY TokensAre
<1>2. /\ b \in Nat /\ b <= O /\ Boundary(b)
      /\ \A q \in Tokens : b <= q /\ q < O => q = Pre(O) /\ O # Start /\ Sym(q) = "comma"
  <2>1. 0 \in Nat /\ 0 <= O
    BY <1>1
  <2>. QED  BY <2>1, BackOverCommaIs
<1>3. ASSUME O # Start, Sym(Pre(O)) = "comma", Gap(<<Pre(O), O>>) \subseteq Blank
      PROVE  b <= Pre(O) /\ Pre(O) \in Tokens /\ Pre(O) \in Nat /\ Pre(O) < O
  <2>1. Pre(O) \in Tokens /\ Pre(O) \in Nat /\ Pre(O) < O
    BY <1>3, PreIs
  <2>2. 0 \in Nat /\ 0 <= O /\ 0 <= Pre(O)
    BY <1>1, <2>1
  <2>3. b <= Pre(O)
    BY <1>3, <2>2, BackOverCommaIs
  <2>. QED  BY <2>1, <2>3
<1>4. S = {[start |-> b, end |-> C + 1]}
  BY DEF GroupSpan
<1> HIDE DEF b, S
<1>5. Bounded(S)
  BY <1>1, <1>2, <1>4, TokenBoundary DEF Bounded, Typed
<1>6. \A q : Covers(S, q) <=> b <= q /\ q < C + 1
  BY <1>4, CoversOne
<1>7. \A q \in Tokens : Covers(S, q) <=> b <= q /\ q <= C
  BY <1>1, <1>2, <1>6
<1>8. \A q \in Tokens : O <= q /\ q <= C => Covers(S, q)
  BY <1>1, <1>2, <1>7
<1>9. \A q \in Tokens : Covers(S, q) =>
        \/ O <= q /\ q <= C
        \/ O # Start /\ q = Pre(O) /\ Sym(q) = "comma"
  BY <1>1, <1>2, <1>7
<1>10. O # Start /\ Sym(Pre(O)) = "comma" /\ Gap(<<Pre(O), O>>) \subseteq Blank
         => Covers(S, Pre(O))
  <2> SUFFICES ASSUME O # Start, Sym(Pre(O)) = "comma", Gap(<<Pre(O), O>>) \subseteq Blank
               PROVE  Covers(S, Pre(O))
    OBVIOUS
  <2>1. b <= Pre(O) /\ Pre(O) \in Tokens /\ Pre(O) \in Nat /\ Pre(O) < O
    BY <1>3
  <2>2. Pre(O) <= C
    BY <1>1, <2>1
  <2>. QED  BY <1>7, <2>1, <2>2
<1>. QED  BY <1>5, <1>8, <1>9, <1>10 DEF S

LEMMA ImportSpansAre ==
  ASSUME Size \in Nat, IsImport, WordsClear
  PROVE  /\ Sound(ImportSpans) /\ Erasing(ImportSpans)
         /\ CommasClear => Parsing(ImportSpans)
<1>1. /\ Start \in Tokens /\ Sym(Start) = "import" /\ End \in Tokens /\ Sym(End) = "from"
      /\ \A q \in Tokens :
           Sym(q) \in {"import", "D", "comma", "open", "b", "typeA", "close", "from"}
      /\ \A q \in Tokens : Sym(q) = "import" => q = Start
      /\ \A q \in Tokens : Sym(q) = "from" => q = End
  BY ImportPairs
<1>2. \A q \in Tokens : q # Start =>
        /\ Sym(q) = "D" => Sym(Pre(q)) = "import"
        /\ Sym(q) = "comma" => Sym(Pre(q)) \in {"D", "b", "typeA"}
        /\ Sym(q) = "open" => Sym(Pre(q)) \in {"import", "comma"}
        /\ Sym(q) \in {"b", "typeA"} => Sym(Pre(q)) \in {"open", "comma"}
        /\ Sym(q) = "close" => Sym(Pre(q)) \in {"b", "typeA", "comma"}
        /\ Sym(q) = "from" => Sym(Pre(q)) = "close"
  BY ImportPairs
<1>3. /\ \A q \in Tokens : q # End /\ Sym(q) \in {"b", "typeA"}
             => Sym(Suc(q)) \in {"comma", "close"}
      /\ \A q \in Tokens : Sym(q) = "comma" /\ q # Start /\ q # End =>
           (Sym(Pre(q)) = "D" <=> Sym(Suc(q)) = "open")
  BY ImportPairs
<1>4. PICK O, C \in Tokens :
           /\ O < C /\ Sym(O) = "open" /\ Sym(C) = "close"
           /\ \A q \in Tokens : Sym(q) = "open" => q = O
           /\ \A q \in Tokens : Sym(q) = "close" => q = C
           /\ \A q \in Tokens : Sym(q) = "D" => q < O
           /\ \A q \in Tokens : q < O /\ Sym(q) = "comma" => O # Start /\ q = Pre(O)
           /\ \A q \in Tokens : Sym(q) \in {"b", "typeA"} => O < q /\ q < C
           /\ \A q \in Tokens : O < q /\ q < C => Sym(q) \in {"b", "typeA", "comma"}
           /\ \A q \in Tokens : C < q => q = End
  BY ImportBraces
<1>5. \A q \in Tokens : q \in Nat /\ Start <= q /\ q <= End
  BY TokensAre, Outermost
<1>6. Group = [start |-> O, end |-> C + 1]
  BY <1>1, <1>4, GroupIs
<1> DEFINE types == NodesOf({"typeA"})
           named == Where({"b"})
           S == {ListItemSpan(n, O) : n \in NodesOf({"typeA"})}
<1>7. /\ types = {} <=> \A q \in Tokens : Sym(q) # "typeA"
      /\ named = {} <=> \A q \in Tokens : Sym(q) # "b"
      /\ Where({"D"}) = {} <=> \A q \in Tokens : Sym(q) # "D"
  BY DEF NodesOf, Where
<1>8. ImportSpans = IF types = {} THEN {}
                    ELSE IF named = {} /\ Where({"D"}) = {} THEN {Outer}
                    ELSE S \cup (IF named = {} THEN {GroupSpan} ELSE {})
  BY <1>6 DEF ImportSpans
<1>9. /\ Bounded(S)
      /\ \A q \in Tokens : Sym(q) = "typeA" => Covers(S, q)
      /\ \A q \in Tokens : Covers(S, q) =>
           \/ Sym(q) = "typeA"
           \/ Sym(q) = "comma" /\ q # Start /\ Sym(Pre(q)) = "typeA"
           \/ Sym(q) = "comma" /\ q # End /\ Sym(Suc(q)) = "typeA"
              /\ (CommasClear => Sym(Suc(Suc(q))) = "close")
      /\ \A q \in Tokens :
           CommasClear /\ Sym(q) = "comma" /\ q # Start /\ Sym(Pre(q)) = "typeA"
             => Covers(S, q)
  BY <1>4, ItemSpansAre
<1> HIDE DEF types, named, S
<1>10. CASE types = {}
  <2>1. ImportSpans = {} /\ \A q \in Tokens : Sym(q) # "typeA" /\ ~ Covers({}, q)
    BY <1>7, <1>8, <1>10, CoversNone
  <2>2. Sound({})
    BY <2>1 DEF Sound, Bounded, Typed
  <2>3. Erasing({})
    BY <1>1, <2>1 DEF Erasing, TypeSymbols
  <2>4. Parsing({})
    <3> SUFFICES ASSUME NEW o, NEW p, <<o, p>> \in Adjacent(Left({}))
                 PROVE  <<Sym(o), Sym(p)>> \in Follows
      BY ParsingIs
    <3>1. Left({}) = Tokens
      BY <2>1 DEF Left
    <3>2. p \in Tokens
      BY <3>1, AdjacentIs
    <3>3. p # Start /\ Pre(p) \in Tokens /\ o = Pre(p)
      BY <3>1, <3>2, SkipBack, PreIs
    <3>4. <<Sym(o), Sym(p)>> \in
            {<<"import", "D">>, <<"D", "comma">>, <<"b", "comma">>, <<"import", "open">>,
             <<"comma", "open">>, <<"open", "b">>, <<"comma", "b">>, <<"b", "close">>,
             <<"comma", "close">>, <<"close", "from">>}
      BY <1>1, <1>2, <2>1, <3>2, <3>3
    <3>. QED  BY <3>4 DEF Follows
  <2>. QED  BY <2>1, <2>2, <2>3, <2>4
<1>11. CASE types # {} /\ named = {} /\ Where({"D"}) = {}
  <2>1. ImportSpans = {Outer} /\ \A q \in Tokens : Sym(q) \notin {"b", "D"}
    BY <1>7, <1>8, <1>11
  <2>2. Bounded({Outer}) /\ \A q \in Tokens : Covers({Outer}, q)
    BY <1>1, OuterIs
  <2>3. Sound({Outer})
    BY <1>1, <2>1, <2>2 DEF Sound, ValueSymbols
  <2>4. Left({Outer}) = {}
    BY <2>2 DEF Left
  <2>. QED  BY <2>1, <2>2, <2>3, <2>4 DEF Erasing, Parsing, Adjacent
\* Only the default import is left.
<1>12. CASE types # {} /\ named = {} /\ Where({"D"}) # {}
  <2> DEFINE G == {GroupSpan}
  <2>1. /\ ImportSpans = S \cup G /\ \A q \in Tokens : Sym(q) # "b"
        /\ \E q \in Tokens : Sym(q) = "D"
    BY <1>7, <1>8, <1>12
  <2>2. /\ Bounded(G)
        /\ \A q \in Tokens : O <= q /\ q <= C => Covers(G, q)
        /\ \A q \in Tokens : Covers(G, q) =>
             \/ O <= q /\ q <= C
             \/ O # Start /\ q = Pre(O) /\ Sym(q) = "comma"
        /\ O # Start /\ Sym(Pre(O)) = "comma" /\ Gap(<<Pre(O), O>>) \subseteq Blank
             => Covers(G, Pre(O))
    BY <1>4, <1>6, GroupSpanIs
  <2> HIDE DEF G
  <2>3. \A q \in Tokens : Covers(ImportSpans, q) <=> Covers(S, q) \/ Covers(G, q)
    BY <2>1, CoversUnion
  <2>4. Bounded(ImportSpans)
    BY <1>9, <2>1, <2>2, BoundedUnion
  <2>5. ASSUME NEW q \in Tokens, O <= q, q <= C
        PROVE  Sym(q) \in {"open", "typeA", "comma", "close"}
    <3>1. q = O \/ q = C \/ (O < q /\ q < C)
      BY <1>5, <2>5
    <3>. QED  BY <1>4, <2>1, <3>1
  <2>6. \A q \in Tokens : Covers(ImportSpans, q) =>
          Sym(q) \in {"open", "typeA", "comma", "close"}
    BY <1>9, <2>2, <2>3, <2>5
  <2>7. Sound(ImportSpans)
    BY <2>4, <2>6 DEF Sound, ValueSymbols
  <2>8. Erasing(ImportSpans)
    BY <1>1, <1>9, <2>3 DEF Erasing, TypeSymbols
  <2>9. ASSUME CommasClear  PROVE Parsing(ImportSpans)
    <3> SUFFICES ASSUME NEW o, NEW p, <<o, p>> \in Adjacent(Left(ImportSpans))
                 PROVE  <<Sym(o), Sym(p)>> \in Follows
      BY ParsingIs
    <3>1. /\ o \in Tokens /\ p \in Tokens /\ o < p
          /\ ~ Covers(ImportSpans, o) /\ ~ Covers(ImportSpans, p)
          /\ \A q \in Tokens : ~ Covers(ImportSpans, q) => q <= o \/ p <= q
      BY AdjacentIs DEF Left
    <3>2. O # Start /\ Sym(Pre(O)) = "comma" => Covers(G, Pre(O))
      <4> SUFFICES ASSUME O # Start, Sym(Pre(O)) = "comma" PROVE Covers(G, Pre(O))
        OBVIOUS
      <4>1. <<Pre(O), O>> \in Adjacent(Tokens)
        BY PreIs
      <4>2. Symbols(<<Pre(O), O>>) = <<"comma", "open">>
        BY <1>4 DEF Symbols
      <4>3. Gap(<<Pre(O), O>>) \subseteq Blank
        BY <2>9, <4>1, <4>2 DEF CommasClear, Only
      <4>. QED  BY <2>2, <4>3
    <3>3. ASSUME NEW q \in Tokens, ~ Covers(ImportSpans, q)
          PROVE  Sym(q) \in {"import", "D", "from"}
      <4>1. q < O \/ C < q
        BY <1>5, <2>2, <2>3, <3>3
      <4>2. CASE q < O
        <5>1. Sym(q) # "comma"
          BY <1>4, <2>3, <3>2, <3>3, <4>2
        <5>2. ~ (O < q) /\ q # O /\ q # C
          BY <1>4, <1>5, <4>2
        <5>. QED  BY <1>1, <1>4, <5>1, <5>2
      <4>3. CASE C < q
        BY <1>1, <1>4, <4>3
      <4>. QED  BY <4>1, <4>2, <4>3
    <3>4. p # Start /\ o # End /\ o # p
      BY <1>1, <1>5, <3>1
    <3>5. Sym(o) \in {"import", "D"} /\ Sym(p) \in {"D", "from"}
      BY <1>1, <3>1, <3>3, <3>4
    <3>6. ASSUME Sym(o) = "import", Sym(p) = "from"  PROVE FALSE
      <4>1. o = Start /\ p = End
        BY <1>1, <3>1, <3>6
      <4>2. PICK d \in Tokens : Sym(d) = "D"
        BY <2>1
      <4>3. d # Start /\ d # End /\ ~ Covers(ImportSpans, d)
        BY <1>1, <2>6, <4>2
      <4>4. d <= o \/ p <= d
        BY <3>1, <4>3
      <4>. QED  BY <1>1, <1>5, <4>1, <4>3, <4>4
    <3>7. ASSUME Sym(o) = "D", Sym(p) = "D"  PROVE FALSE
      <4>0. /\ o # Start /\ Pre(o) \in Tokens /\ Pre(p) \in Tokens
            /\ Sym(Pre(o)) = "import" /\ Sym(Pre(p)) = "import"
        <5>1. o # Start
          BY <1>1, <3>7
        <5>2. Pre(o) \in Tokens /\ Pre(p) \in Tokens
          BY <3>1, <3>4, <5>1, PreIs
        <5>3. Sym(Pre(o)) = "import" /\ Sym(Pre(p)) = "import"
          BY <1>2, <3>1, <3>4, <3>7, <5>1
        <5>. QED  BY <5>1, <5>2, <5>3
      <4>1. o # Start /\ Pre(o) = Start /\ Pre(p) = Start
        BY <1>1, <4>0
      <4>2. o = Suc(Start) /\ p = Suc(Start)
        BY <3>1, <3>4, <4>1, PreIs
      <4>. QED  BY <3>4, <4>2
    <3>. QED  BY <3>5, <3>6, <3>7 DEF Follows
  <2>. QED  BY <2>7, <2>8, <2>9
\* Some names are left between the braces.
<1>13. CASE types # {} /\ named # {}
  <2>1. ImportSpans = S
    BY <1>8, <1>13
  <2>2. PICK n \in Tokens : Sym(n) = "b" /\ O < n /\ n < C
    BY <1>4, <1>7, <1>13
  <2>3. Sound(S)
    BY <1>9 DEF Sound, ValueSymbols
  <2>4. Erasing(S)
    BY <1>1, <1>9 DEF Erasing, TypeSymbols
  <2>5. ASSUME CommasClear  PROVE Parsing(S)
    <3> SUFFICES ASSUME NEW o, NEW p, <<o, p>> \in Adjacent(Left(S))
                 PROVE  <<Sym(o), Sym(p)>> \in Follows
      BY ParsingIs
    <3> DEFINE K == Left(S)
    <3>1. \A q : q \in K <=> q \in Tokens /\ ~ Covers(S, q)
      BY DEF Left
    <3>2. /\ o \in K /\ p \in K /\ o \in Tokens /\ p \in Tokens /\ o < p
          /\ \A q \in K : q <= o \/ p <= q
      BY <3>1, AdjacentIs
    <3>3. /\ p # Start /\ Pre(p) \in Tokens /\ Suc(Pre(p)) = p /\ Pre(p) # End
          /\ Pre(p) \in K => o = Pre(p)
      <4>1. K \in SUBSET Tokens
        BY <3>1
      <4>2. p # Start /\ (Pre(p) \in K => o = Pre(p))
        BY <4>1, SkipBack
      <4>. QED  BY <3>2, <4>2, PreIs
    <3> HIDE DEF K
    <3>4. \A q \in Tokens : Sym(q) \notin {"typeA", "comma"} => q \in K
      BY <1>9, <3>1
    <3>5. \A q \in Tokens : q \in K => Sym(q) # "typeA"
      BY <1>9, <3>1
    <3>6. \A q \in Tokens : q \in K /\ Sym(q) = "comma" /\ q # Start => Sym(Pre(q)) # "typeA"
      BY <1>9, <2>5, <3>1
    <3>7. Sym(p) \in {"D", "comma", "open", "b", "close", "from"}
      BY <1>1, <3>2, <3>3, <3>5
    <3>8. CASE Sym(p) = "D"
      <4>1. Sym(Pre(p)) = "import"
        BY <1>2, <3>2, <3>3, <3>8
      <4>2. o = Pre(p)
        BY <3>3, <3>4, <4>1
      <4>. QED  BY <3>8, <4>1, <4>2 DEF Follows
    <3>9. CASE Sym(p) = "comma"
      <4>1. Sym(Pre(p)) \in {"D", "b"}
        BY <1>2, <3>2, <3>3, <3>6, <3>9
      <4>2. o = Pre(p)
        BY <3>3, <3>4, <4>1
      <4>. QED  BY <3>9, <4>1, <4>2 DEF Follows
    <3>10. CASE Sym(p) = "from"
      <4>1. Sym(Pre(p)) = "close"
        BY <1>2, <3>2, <3>3, <3>10
      <4>2. o = Pre(p)
        BY <3>3, <3>4, <4>1
      <4>. QED  BY <3>10, <4>1, <4>2 DEF Follows
    <3>11. CASE Sym(p) = "open"
      <4> DEFINE x == Pre(p)
      <4>1. x \in Tokens /\ x # End /\ Suc(x) = p /\ Sym(x) \in {"import", "comma"}
        BY <1>2, <3>2, <3>3, <3>11
      <4>2. x \in K => o = x
        BY <3>3
      <4> HIDE DEF x
      <4>3. ASSUME Sym(x) = "comma"  PROVE x \in K
        <5>1. x # Start /\ Sym(Pre(x)) = "D"
          BY <1>1, <1>3, <3>11, <4>1, <4>3
        <5>2. ~ Covers(S, x)
          BY <1>9, <3>11, <4>1, <4>3, <5>1
        <5>. QED  BY <3>1, <4>1, <5>2
      <4>4. o = x
        BY <3>4, <4>1, <4>2, <4>3
      <4>. QED  BY <3>11, <4>1, <4>4 DEF Follows
    <3>12. O <= o \/ p <= O
      <4>1. O \in K
        BY <1>4, <3>4
      <4>. QED  BY <1>5, <3>2, <4>1
    \* After the opening brace there are names and commas.
    <3>13. ASSUME O < p, p <= C
           PROVE  \/ o = O
                  \/ O < o /\ o < C /\ Sym(o) \in {"b", "comma"}
      <4>1. o = O \/ (O < o /\ o < C)
        BY <1>4, <1>5, <3>2, <3>12, <3>13
      <4>. QED  BY <1>4, <3>2, <3>5, <4>1
    <3>14. CASE Sym(p) = "b"
      <4>1. O < p /\ p < C
        BY <1>4, <3>2, <3>14
      <4>2. p <= C
        BY <1>5, <3>2, <4>1
      <4>3. ASSUME Sym(o) = "b"  PROVE FALSE
        <5> DEFINE x == Suc(o)
                   y == Suc(x)
                   z == Suc(y)
        <5>1. o # End /\ Sym(x) \in {"comma", "close"}
          BY <1>1, <1>3, <3>2, <4>3
        <5>2. /\ x \in Tokens /\ o < x /\ Pre(x) = o /\ x # Start
              /\ \A q \in Tokens : q <= o \/ x <= q
          BY <3>2, <5>1, SucIs
        <5> HIDE DEF x
        <5>3. x <= p /\ x # C
          BY <1>4, <1>5, <3>2, <4>1, <5>2
        <5>4. Sym(x) = "comma"
          BY <1>4, <5>1, <5>2, <5>3
        <5>5. x # p /\ x < p
          BY <1>5, <3>2, <3>14, <5>2, <5>3, <5>4
        <5>6. x \notin K
          BY <1>5, <3>2, <5>2, <5>5
        <5>7. x # End /\ Sym(y) = "typeA" /\ Sym(z) = "close"
          BY <1>9, <2>5, <3>1, <4>3, <5>2, <5>4, <5>6
        <5>8. y \in Tokens /\ x < y /\ \A q \in Tokens : q <= x \/ y <= q
          BY <5>2, <5>7, SucIs
        <5> HIDE DEF y
        <5>9. y # p /\ y <= p /\ y < p /\ y # End
          <6>1. y # p /\ y # End
            BY <1>1, <3>14, <5>7
          <6>2. y <= p
            BY <1>5, <3>2, <5>2, <5>5, <5>8
          <6>. QED  BY <1>5, <3>2, <5>8, <6>1, <6>2
        <5>10. z \in Tokens /\ y < z /\ \A q \in Tokens : q <= y \/ z <= q
          BY <5>8, <5>9, SucIs
        <5>11. z = C
          BY <1>4, <5>7, <5>10
        <5>12. z <= p
          BY <1>5, <3>2, <5>8, <5>9, <5>10
        <5>. QED  BY <1>5, <3>2, <4>1, <5>11, <5>12
      <4>4. Sym(o) \in {"open", "comma"}
        BY <1>4, <3>13, <4>1, <4>2, <4>3
      <4>. QED  BY <3>14, <4>4 DEF Follows
    <3>15. CASE Sym(p) = "close"
      <4>1. p = C /\ O < p /\ p <= C
        BY <1>4, <1>5, <3>2, <3>15
      <4>2. o # O
        <5>1. n <= o \/ p <= n
          BY <2>2, <3>2, <3>4
        <5>. QED  BY <1>5, <2>2, <3>2, <4>1, <5>1
      <4>3. Sym(o) \in {"b", "comma"}
        BY <3>13, <4>1, <4>2
      <4>. QED  BY <3>15, <4>3 DEF Follows
    <3>. QED  BY <3>7, <3>8, <3>9, <3>10, <3>11, <3>14, <3>15
  <2>. QED  BY <2>1, <2>3, <2>4, <2>5
<1>. QED  BY <1>10, <1>11, <1>12, <1>13

-----------------------------------------------------------------------------
(* Spans that begin and end at an offset, also where a search runs into a  *)
(* comment.                                                                *)

LEMMA TypedUnion ==
  ASSUME NEW S, NEW T, Typed(S), Typed(T)
  PROVE  Typed(S \cup T)
BY DEF Typed

LEMMA TypedImportSpans ==
  ASSUME Size \in Nat, IsImport
  PROVE  Typed(ImportSpans)
<1> DEFINE opens == {o \in Outer.start..(Outer.end - 1) : Sym(o) = "open"}
           closes == {o \in Outer.start..(Outer.end - 1) : Sym(o) = "close"}
           g == Group.start
<1>1. Start \in Tokens /\ End \in Tokens
  BY ImportPairs
<1>2. PICK O, C \in Tokens :
           /\ O < C /\ Sym(O) = "open" /\ Sym(C) = "close"
           /\ \A q \in Tokens : Sym(q) \in {"b", "typeA"} => O < q /\ q < C
  BY ImportBraces
<1>3. \A q \in Tokens : q \in Nat /\ Start <= q /\ q <= End
  BY TokensAre, Outermost
<1>4. Outer.start = Start /\ Outer.end - 1 = End
  <2>1. Outer = [start |-> Start, end |-> End + 1]
    BY DEF Outer, Start, End
  <2>. QED  BY <1>1, <1>3, <2>1
<1>5. opens \in SUBSET Nat /\ closes \in SUBSET (0..End) /\ O \in opens /\ C \in closes
  BY <1>1, <1>2, <1>3, <1>4
<1>6. Group = [start |-> First(opens), end |-> Final(closes) + 1]
  BY DEF Group
<1>n. (\A q \in opens : q \in Nat) /\ \A q \in closes : q \in Nat
  BY <1>1, <1>3, <1>5
<1> HIDE DEF opens, closes
<1>7. First(opens) \in opens /\ First(opens) <= O
  BY <1>5, FirstIs
<1>8. Final(closes) \in closes
  BY <1>1, <1>3, <1>5, FinalIs
<1>9. g \in Nat /\ g <= O /\ Group.end \in Nat
  <2>1. First(opens) \in Nat /\ Final(closes) \in Nat
    BY <1>7, <1>8, <1>n
  <2>. QED  BY <1>6, <1>7, <2>1
<1>10. Typed({Outer})
  BY <1>1, OuterIs DEF Bounded
<1> HIDE DEF g
<1>11. Typed({GroupSpan})
  <2> DEFINE p == Back(g, 0, Blank)
  <2>1. p \in 0..g
    BY <1>9, BackIs
  <2> HIDE DEF p
  <2>2. p > 0 => Back(p - 1, 0, Blank) \in Nat
    <3> SUFFICES ASSUME p > 0  PROVE Back(p - 1, 0, Blank) \in Nat
      OBVIOUS
    <3>1. p - 1 \in Nat /\ 0 \in 0..(p - 1)
      BY <1>9, <2>1
    <3>2. Back(p - 1, 0, Blank) \in 0..(p - 1)
      BY <3>1, BackIs
    <3>. QED  BY <3>1, <3>2
  <2>3. BackOverComma(g, 0) = IF p > 0 /\ Sym(p - 1) = "comma" THEN Back(p - 1, 0, Blank) ELSE p
    BY DEF BackOverComma, p
  <2>4. BackOverComma(g, 0) \in Nat
    BY <1>9, <2>1, <2>2, <2>3
  <2>5. GroupSpan = [start |-> BackOverComma(g, 0), end |-> Group.end]
    BY DEF GroupSpan, g
  <2>. QED  BY <1>9, <2>4, <2>5 DEF Typed
<1>12. ASSUME NEW t \in Tokens, Sym(t) = "typeA"  PROVE Typed({ListItemSpan(Node(t), g)})
  <2>1. g <= t
    BY <1>2, <1>3, <1>9, <1>12
  <2>. QED  BY <1>9, <2>1, ListItemSpanIs DEF Bounded
<1>13. Typed({ListItemSpan(n, g) : n \in NodesOf({"typeA"})})
  BY <1>12 DEF Typed, NodesOf, Where
<1>. QED  BY <1>10, <1>11, <1>13 DEF ImportSpans, Typed, g

LEMMA TypedCastSpans ==
  ASSUME Size \in Nat, IsCast
  PROVE  Typed(CastSpans)
<1>1. PICK a, t \in Tokens :
           /\ Start \in Tokens /\ Start < a /\ a < t
           /\ \A q \in Tokens : \/ q = Start
                                \/ q = a /\ Sym(q) = "as"
                                \/ q = t /\ Sym(q) = "T"
                                \/ q = End /\ t < q /\ Sym(q) = "semicolon"
  BY CastShape
<1> DEFINE i == First(Where({"T"}))
           e == Start + 1
           found == {o \in e..((i + 1) - 1) : Sym(o) = "as"}
<1>2. \A q \in Tokens : q \in Nat
  BY TokensAre
<1>3. i \in Nat
  <2>1. t \in Where({"T"}) /\ Where({"T"}) \in SUBSET Nat
    BY <1>1, <1>2 DEF Where
  <2>. QED  BY <2>1, FirstIs
<1> HIDE DEF i
<1>4. e \in Nat /\ found \in SUBSET Nat /\ \A q \in found : q \in Nat /\ e <= q
  BY <1>1, <1>2, <1>3
<1>5. CastSpans = {[start |-> IF found = {} THEN e ELSE Back(First(found), e, Blank),
                    end |-> i + 1]}
  BY DEF CastSpans, AsSpan, i, Start
<1> HIDE DEF found, e
<1>6. found # {} => Back(First(found), e, Blank) \in Nat
  <2> SUFFICES ASSUME found # {}  PROVE Back(First(found), e, Blank) \in Nat
    OBVIOUS
  <2>f. First(found) \in found
    BY <1>4, FirstIs
  <2>1. First(found) \in Nat /\ e \in 0..First(found)
    <3>1. e \in Nat /\ First(found) \in Nat /\ e <= First(found)
      BY <1>4, <2>f
    <3>. QED  BY <3>1
  <2>2. Back(First(found), e, Blank) \in e..First(found)
    BY <2>1, BackIs
  <2>. QED  BY <1>4, <2>1, <2>2
<1>. QED  BY <1>3, <1>4, <1>5, <1>6 DEF Typed

LEMMA TypedClassSpans ==
  ASSUME Size \in Nat, IsClass
  PROVE  Typed(ClassSpans)
<1> DEFINE W == Where({"I"})
           before == {o \in Outer.start..(First(W) - 1) : Sym(o) = "implements"}
<1>1. Start \in Tokens /\ \A q \in Tokens : q \in Nat /\ q < Size
  BY ClassShape, TokensAre
<1>2. Outer.start = Start
  BY DEF Outer, Start
<1>3. Typed(NodesOf({"<T>"}))
  BY NodesOfIs DEF Bounded
<1>4. Typed(ImplementsSpans(W))
  <2>1. CASE W = {} \/ before = {}
    BY <2>1 DEF ImplementsSpans, Typed
  <2>2. CASE W # {} /\ before # {}
    <3>1. W \in SUBSET Nat /\ W \in SUBSET (0..Size)
      BY <1>1 DEF Where
    <3> HIDE DEF W
    <3>2. First(W) \in Nat /\ Final(W) \in Nat
      BY <2>2, <3>1, FirstIs, FinalIs
    <3>3. before \in SUBSET (0..First(W)) /\ \A q \in before : Start <= q
      BY <1>1, <1>2, <3>2
    <3>4. ImplementsSpans(W) = {[start |-> Back(Final(before), Start, Blank), end |-> Final(W) + 1]}
      BY <1>2, <2>2 DEF ImplementsSpans
    <3> HIDE DEF before
    <3>b. Final(before) \in before
      BY <2>2, <3>2, <3>3, FinalIs
    <3>n. \A q \in before : q \in Nat /\ Start <= q
      BY <3>2, <3>3
    <3>5. Final(before) \in Nat /\ Start \in 0..Final(before)
      <4>1. Final(before) \in Nat /\ Start <= Final(before) /\ Start \in Nat
        BY <1>1, <3>b, <3>n
      <4>. QED  BY <4>1
    <3>6. Back(Final(before), Start, Blank) \in Start..Final(before)
      BY <3>5, BackIs
    <3>7. Back(Final(before), Start, Blank) \in Nat
      BY <1>1, <3>5, <3>6
    <3>. QED  BY <3>2, <3>4, <3>7 DEF Typed
  <2>. QED  BY <2>1, <2>2
<1>. QED  BY <1>3, <1>4, TypedUnion DEF ClassSpans

LEMMA TypedFieldSpans ==
  ASSUME Size \in Nat, IsField
  PROVE  Typed(FieldSpans)
<1> DEFINE W == Where({"key", "#key"})
           key == First(W)
<1>1. PICK k \in Tokens : Sym(k) \in {"key", "#key"}
  BY FieldShape
<1>2. k \in W /\ W \in SUBSET Nat
  BY <1>1, TokensAre DEF Where
<1>3. key \in Nat
  BY <1>2, FirstIs
<1>4. Typed({Outer})
  BY <1>1, OuterIs DEF Bounded
<1>5. Typed(NodesOf({"+", ":T"}))
  BY NodesOfIs DEF Bounded
<1> HIDE DEF key
<1>6. Typed({Node(key + 1)})
  BY <1>3 DEF Typed, Node
<1>. QED  BY <1>4, <1>5, <1>6 DEF FieldSpans, key, Typed

LEMMA TypedParamSpans ==
  ASSUME Size \in Nat, NEW p \in Tokens
  PROVE  Typed(ParamSpans(p))
<1> DEFINE A == {o \in ParamTokens(p) : Sym(o) = ":T"}
           stops == {o \in (p + 1)..(Size - 1) :
                       Sym(o) \in {"comma", ")", "=", "open", "nl", "semicolon"}}
           end == IF A # {} THEN First(A) ELSE IF stops # {} THEN First(stops) ELSE Size
           marks == {o \in (p + 1)..(end - 1) : Sym(o) = "?"}
<1>1. p \in Nat /\ A \in SUBSET Tokens /\ A \in SUBSET Nat /\ stops \in SUBSET Nat
  BY TokensAre DEF ParamTokens, After
<1>2. MarkerSpans(p + 1, A) = IF marks = {} THEN {} ELSE {Node(First(marks))}
  BY DEF MarkerSpans
<1>3. ParamSpans(p) \subseteq {Node(o) : o \in A} \cup MarkerSpans(p + 1, A)
  BY DEF ParamSpans
<1> HIDE DEF A, stops
<1>4. end \in Nat
  BY <1>1, FirstIs
<1> HIDE DEF end
<1>5. marks \in SUBSET Nat
  BY <1>1, <1>4
<1> HIDE DEF marks
<1>6. marks # {} => First(marks) \in Nat
  BY <1>5, FirstIs
<1>7. Typed({Node(o) : o \in A}) /\ Typed(MarkerSpans(p + 1, A))
  BY <1>1, <1>2, <1>6 DEF Typed, Node
<1>. QED  BY <1>3, <1>7 DEF Typed

LEMMA TypedVisitedSpans ==
  ASSUME Size \in Nat, NEW X \in SUBSET Tokens
  PROVE  Typed(VisitedSpans(X))
<1> DEFINE returns == NodesOf({":R"}) # {}
<1>1. Typed(NodesOf({"<T>"})) /\ Typed(NodesOf({":R"}))
  BY NodesOfIs DEF Bounded
<1>2. \A c \in Tokens : Typed({PredicateSpan(Node(c), returns)})
  BY PredicateSpanIs DEF Bounded
<1>3. \A t \in Tokens : Typed({ThisParamSpan(Node(t))})
  BY ThisParamSpanIs DEF Bounded
<1>4. \A p \in X : Typed(ParamSpans(p))
  BY TypedParamSpans
<1> HIDE DEF returns
<1>5. Typed({PredicateSpan(n, returns) : n \in NodesOf({"%checks"})})
  BY <1>2 DEF Typed, NodesOf, Where
<1>6. Typed({ThisParamSpan(n) : n \in NodesOf({"this:T"})})
  BY <1>3 DEF Typed, NodesOf, Where
<1>7. Typed(UNION {ParamSpans(p) : p \in X})
  BY <1>4 DEF Typed
<1>. QED  BY <1>1, <1>5, <1>6, <1>7 DEF VisitedSpans, FunctionSpans, Typed, returns

-----------------------------------------------------------------------------
(* One construct, and its spans.                                           *)

Keys == Where({"key", "#key"})

\* What the collector has an arm for.
Supported ==
  (\E s \in {"import", "type", "function", "e", "class"} : Starts(s)) \/ Keys # {}

\* The spans asked for so far.
Visited ==
  IF Starts("import") THEN ImportSpans
  ELSE IF Starts("type") THEN {Outer}
  ELSE IF Starts("function") THEN VisitedSpans(Where({"p"}) \ params)
  ELSE IF Starts("e") THEN CastSpans
  ELSE IF Starts("class") THEN ClassSpans
  ELSE FieldSpans

LEMMA StartsIs ==
  ASSUME Size \in Nat, Accepted
  PROVE  Tokens # {} /\ \A s : Starts(s) <=> Sym(Start) = s
BY DEF Accepted, IsImport, IsFunction, IsCast, IsClass, IsField, IsErased, IsUnsupported,
       Construct, Starts, Start

\* The symbols of each construct.
LEMMA ConstructSymbols ==
  ASSUME Size \in Nat
  PROVE  /\ IsImport => Sym(Start) = "import" /\ Keys = {}
         /\ IsFunction => Sym(Start) = "function" /\ Keys = {}
         /\ IsCast => Sym(Start) = "e" /\ Keys = {}
         /\ IsClass => Sym(Start) = "class" /\ Keys = {}
         /\ IsErased => Sym(Start) = "type" /\ Keys = {}
         /\ IsUnsupported => Sym(Start) = "enum" /\ Keys = {}
         /\ IsField => Sym(Start) \in {"declare", "+", "key", "#key"} /\ Keys # {}
<1>k. Keys = {} <=> \A q \in Tokens : Sym(q) \notin {"key", "#key"}
  BY DEF Keys, Where
<1>1. ASSUME IsImport  PROVE Sym(Start) = "import" /\ Keys = {}
  <2>1. /\ Sym(Start) = "import"
        /\ \A q \in Tokens :
             Sym(q) \in {"import", "D", "comma", "open", "b", "typeA", "close", "from"}
    BY <1>1, ImportPairs
  <2>. QED  BY <1>k, <2>1
<1>2. ASSUME IsFunction  PROVE Sym(Start) = "function" /\ Keys = {}
  <2>1. /\ Sym(Start) = "function"
        /\ \A q \in Tokens :
             Sym(q) \in {"function", "<T>", "(", "p", "?", ":T", "this:T", "comma", ")",
                         ":R", ":", "%checks", "body"}
    BY <1>2, FunctionShape
  <2>. QED  BY <1>k, <2>1
<1>3. ASSUME IsCast  PROVE Sym(Start) = "e" /\ Keys = {}
  <2>1. PICK a, t \in Tokens :
           /\ Sym(Start) = "e"
           /\ \A q \in Tokens : \/ q = Start
                                \/ q = a /\ Sym(q) = "as"
                                \/ q = t /\ Sym(q) = "T"
                                \/ q = End /\ t < q /\ Sym(q) = "semicolon"
    BY <1>3, CastShape
  <2>. QED  BY <1>k, <2>1
<1>4. ASSUME IsClass  PROVE Sym(Start) = "class" /\ Keys = {}
  <2>1. /\ Sym(Start) = "class"
        /\ \A q \in Tokens : Sym(q) \in {"class", "C", "<T>", "implements", "I", "comma", "body"}
    BY <1>4, ClassShape
  <2>. QED  BY <1>k, <2>1
<1>5. ASSUME IsErased  PROVE Sym(Start) = "type" /\ Keys = {}
  <2>1. /\ Sym(Start) \in {"type"}
        /\ \A o \in Tokens : o # Start => <<Sym(Pre(o)), Sym(o)>> \in {<<"type", "T">>}
    BY <1>5, ConstructIs DEF IsErased
  <2>. QED  BY <1>k, <2>1
<1>6. ASSUME IsUnsupported  PROVE Sym(Start) = "enum" /\ Keys = {}
  <2>1. Sym(Start) = "enum" /\ Adjacent(Tokens) = {}
    BY <1>6 DEF IsUnsupported, Construct, Start
  <2>2. \A o \in Tokens : o = Start
    BY <2>1, PreIs
  <2>. QED  BY <1>k, <2>1, <2>2
<1>7. ASSUME IsField  PROVE Sym(Start) \in {"declare", "+", "key", "#key"} /\ Keys # {}
  <2>1. \E k \in Tokens : Sym(k) \in {"key", "#key"}
    BY <1>7, FieldShape
  <2>2. Sym(Start) \in {"declare", "+", "key", "#key"}
    BY <1>7 DEF IsField, Construct, Start
  <2>. QED  BY <1>k, <2>1, <2>2
<1>. QED  BY <1>1, <1>2, <1>3, <1>4, <1>5, <1>6, <1>7

\* The arm of the collector is that of the construct.
LEMMA ArmIs ==
  ASSUME Size \in Nat, Accepted
  PROVE  /\ Starts("import") => IsImport
         /\ Starts("type") => IsErased
         /\ Starts("function") => IsFunction
         /\ Starts("e") => IsCast
         /\ Starts("class") => IsClass
         /\ Keys # {} => /\ IsField
                         /\ \A s \in {"import", "type", "function", "e", "class"} : ~ Starts(s)
<1>1. \A s : Starts(s) <=> Sym(Start) = s
  BY StartsIs
<1>. QED  BY <1>1, ConstructSymbols DEF Accepted

LEMMA VisitedIs ==
  ASSUME Size \in Nat, Accepted, Supported
  PROVE  /\ Typed(Visited)
         /\ WordsClear =>
              /\ Sound(Visited)
              /\ params = {} /\ MarkersClear => Erasing(Visited)
              /\ params = {} /\ MarkersClear /\ CommasClear => Parsing(Visited)
<1> DEFINE P == Where({"p"})
<1>1. \A s : Starts(s) <=> Sym(Start) = s
  BY StartsIs
<1>2. CASE Starts("import")
  <2>1. IsImport /\ Visited = ImportSpans
    BY <1>2, ArmIs DEF Visited
  <2>. QED  BY <2>1, TypedImportSpans, ImportSpansAre
<1>3. CASE Starts("type")
  <2>1. IsErased /\ Visited = {Outer}
    BY <1>1, <1>3, ArmIs DEF Visited
  <2>. QED  BY <2>1, ErasedSpans DEF Sound, Bounded
<1>4. CASE Starts("function")
  <2>1. IsFunction /\ Visited = VisitedSpans(P \ params)
    BY <1>1, <1>4, ArmIs DEF Visited
  <2>2. P \ params \in SUBSET P /\ P \ params \in SUBSET Tokens
    BY DEF Where
  <2>3. params = {} => P \ params = P
    OBVIOUS
  <2> HIDE DEF P
  <2>4. Typed(Visited)
    BY <2>1, <2>2, TypedVisitedSpans
  <2>5. WordsClear => /\ \A X \in SUBSET P : Sound(VisitedSpans(X))
                      /\ MarkersClear => Erasing(VisitedSpans(P))
                      /\ MarkersClear /\ CommasClear => Parsing(VisitedSpans(P))
    BY <2>1, FunctionSpansAre DEF P
  <2>. QED  BY <2>1, <2>2, <2>3, <2>4, <2>5
<1>5. CASE Starts("e")
  <2>1. IsCast /\ Visited = CastSpans
    BY <1>1, <1>5, ArmIs DEF Visited
  <2>. QED  BY <2>1, TypedCastSpans, CastSpansAre
<1>6. CASE Starts("class")
  <2>1. IsClass /\ Visited = ClassSpans
    BY <1>1, <1>6, ArmIs DEF Visited
  <2>. QED  BY <2>1, TypedClassSpans, ClassSpansAre
<1>7. CASE Keys # {}
  <2>1. IsField /\ Visited = FieldSpans
    BY <1>7, ArmIs DEF Visited
  <2>. QED  BY <2>1, TypedFieldSpans, FieldSpansAre
<1>. QED  BY <1>2, <1>3, <1>4, <1>5, <1>6, <1>7 DEF Supported

-----------------------------------------------------------------------------
(* The text and the option never change, and with them nothing that is     *)
(* computed from them.                                                     *)

LEMMA TextIs ==
  ASSUME text' = text, comments' = comments
  PROVE  /\ Size' = Size /\ Accepted' = Accepted /\ CommentSpans' = CommentSpans
         /\ (\A s : Starts(s)' = Starts(s)) /\ \A S : Where(S)' = Where(S)
<1>1. Comments' = Comments
  BY DEF Comments, Closings, First, Size, Sym, Offsets
<1>2. Tokens' = Tokens
  BY <1>1 DEF Tokens, Size, Sym, Offsets, White, Blank
<1>3. IsImport' = IsImport
  BY <1>2 DEF IsImport, Construct, First, Final, Sym, Adjacent, Symbols
<1>4. IsFunction' = IsFunction
  BY <1>2 DEF IsFunction, Construct, First, Final, Sym, Adjacent, Symbols
<1>5. IsField' = IsField
  BY <1>2 DEF IsField, Construct, KeyParts, First, Final, Sym, Adjacent, Symbols
<1>6. IsClass' = IsClass /\ IsCast' = IsCast
  BY <1>2 DEF IsClass, IsCast, Construct, First, Final, Sym, Adjacent, Symbols
<1>7. IsErased' = IsErased /\ IsUnsupported' = IsUnsupported
  BY <1>2 DEF IsErased, IsUnsupported, Construct, First, Final, Sym, Adjacent, Symbols
<1>8. Accepted' = Accepted
  BY <1>3, <1>4, <1>5, <1>6, <1>7 DEF Accepted
<1>9. \A s : Starts(s)' = Starts(s)
  BY <1>2 DEF Starts, First, Sym
<1>10. \A S : Where(S)' = Where(S)
  BY <1>2 DEF Where, Sym
<1>. QED  BY <1>1, <1>8, <1>9, <1>10 DEF CommentSpans, Size

LEMMA SpansAre ==
  ASSUME text' = text, comments' = comments
  PROVE  /\ Outer' = Outer /\ ImportSpans' = ImportSpans /\ CastSpans' = CastSpans
         /\ ClassSpans' = ClassSpans /\ FieldSpans' = FieldSpans
         /\ FunctionSpans' = FunctionSpans /\ \A p : ParamSpans(p)' = ParamSpans(p)
<1>1. Comments' = Comments
  BY DEF Comments, Closings, First, Size, Sym, Offsets
<1>2. Tokens' = Tokens
  BY <1>1 DEF Tokens, Size, Sym, Offsets, White, Blank
<1>3. Outer' = Outer
  BY <1>2 DEF Outer, First, Final
<1>4. Group' = Group
  BY <1>3 DEF Group, Sym, First, Final
<1>5. GroupSpan' = GroupSpan
  BY <1>4 DEF GroupSpan, BackOverComma, Back, Blank, Sym
<1>6. ImportSpans' = ImportSpans
  BY <1>2, <1>3, <1>4, <1>5
     DEF ImportSpans, NodesOf, Where, ListItemSpan, Forward, Back, BackOverComma, Node, Size,
         Sym, White, Blank
<1>7. CastSpans' = CastSpans
  BY <1>2 DEF CastSpans, AsSpan, First, Where, Back, Blank, Sym
<1>8. ClassSpans' = ClassSpans
  BY <1>2, <1>3
     DEF ClassSpans, NodesOf, Where, Node, Sym, ImplementsSpans, First, Final, Back, Blank
<1>9. FieldSpans' = FieldSpans
  BY <1>2, <1>3 DEF FieldSpans, First, Where, NodesOf, Node, Sym
<1>10. FunctionSpans' = FunctionSpans
  BY <1>2
     DEF FunctionSpans, NodesOf, Where, Node, Sym, PredicateSpan, ThisParamSpan, Forward, Back,
         Size, White, Blank
<1>11. \A p : ParamSpans(p)' = ParamSpans(p)
  BY <1>2 DEF ParamSpans, ParamTokens, MarkerSpans, After, First, Node, Sym, Size
<1>. QED  BY <1>3, <1>6, <1>7, <1>8, <1>9, <1>10, <1>11

LEMMA VisitedPrimed ==
  ASSUME text' = text, comments' = comments
  PROVE  /\ Visited' = IF Starts("import") THEN ImportSpans
                       ELSE IF Starts("type") THEN {Outer}
                       ELSE IF Starts("function") THEN VisitedSpans(Where({"p"}) \ params')
                       ELSE IF Starts("e") THEN CastSpans
                       ELSE IF Starts("class") THEN ClassSpans
                       ELSE FieldSpans
         /\ params' = params => Visited' = Visited
<1>1. /\ \A s : Starts(s)' = Starts(s)
      /\ Where({"p"})' = Where({"p"})
  BY TextIs
<1>2. (VisitedSpans(Where({"p"}) \ params))' = VisitedSpans(Where({"p"}) \ params')
  BY <1>1, SpansAre DEF VisitedSpans
<1>. QED  BY <1>1, <1>2, SpansAre DEF Visited

-----------------------------------------------------------------------------
(* The invariant.                                                          *)

(* The spans are those of the comments and of what has been visited; for   *)
(* a function these are its own and those of the parameters that are no    *)
(* longer to be visited.                                                   *)
IInv ==
  /\ text \in Seq(STRING) /\ comments \in BOOLEAN
  /\ phase \in {"parse", "comments", "visit", "params", "done", "failed"}
  /\ phase \in {"comments", "visit", "params", "done"} => Accepted
  /\ phase = "params" => Starts("function")
  /\ phase = "done" => Supported
  /\ params \subseteq Where({"p"}) /\ (params # {} => phase = "params")
  /\ phase \in {"parse", "comments"} => edits = {}
  /\ phase = "visit" => edits = Clipped(CommentSpans)
  /\ phase \in {"params", "done"} => edits = Clipped(CommentSpans \cup Visited)
  /\ phase = "failed" => edits \in {{}, Clipped(CommentSpans)}

LEMMA InvSize == IInv => Size \in Nat
BY DEF IInv, Size

LEMMA InitInv == Init => IInv
BY TextsAssumption DEF Init, IInv

LEMMA NextInv == IInv /\ [Next]_vars => IInv'
<1> SUFFICES ASSUME IInv, [Next]_vars  PROVE IInv'
  OBVIOUS
<1>1. text' = text /\ comments' = comments
  BY DEF Next, vars, Parse, RemoveComments, VisitImport, VisitErased, VisitFunction, VisitParam,
         EndParams, VisitAs, VisitClass, VisitField, VisitUnsupported
<1>2. /\ Size' = Size /\ Accepted' = Accepted /\ CommentSpans' = CommentSpans
      /\ (\A s : Starts(s)' = Starts(s)) /\ \A S : Where(S)' = Where(S)
  BY <1>1, TextIs
<1>3. Supported' = Supported /\ Where({"p"})' = Where({"p"})
  BY <1>2 DEF Supported, Keys
<1>4. Clipped(CommentSpans)' = Clipped(CommentSpans)
  BY <1>2 DEF Clipped
<1>5. Clipped(CommentSpans \cup Visited)' = Clipped(CommentSpans \cup Visited')
  BY <1>2 DEF Clipped
<1>6. params' = params => Visited' = Visited
  BY <1>1, VisitedPrimed
<1>s. Size \in Nat
  BY InvSize
<1>p. Where({"p"}) \in SUBSET Nat
  BY <1>s, TokensAre DEF Where
\* The arm of a construct without parameters.
<1>v. ASSUME NEW S, phase = "visit", phase' = "done", UNCHANGED params, Push(S),
             Visited' = S, Supported
      PROVE  IInv'
  <2>1. edits' = Clipped(CommentSpans \cup S)
    BY <1>v, ClippedUnion DEF IInv, Push
  <2>. QED  BY <1>1, <1>2, <1>3, <1>5, <1>v, <2>1 DEF IInv
<1>a. ASSUME phase = "visit", NEW s, Starts(s)
      PROVE  /\ Accepted /\ (\A t : Starts(t) <=> t = s)
             /\ s \in {"import", "type", "function", "e", "class"} => Supported
  <2>1. Accepted
    BY <1>a DEF IInv
  <2>2. \A t : Starts(t) <=> Sym(Start) = t
    BY <1>s, <2>1, StartsIs
  <2>3. s \in {"import", "type", "function", "e", "class"} => Supported
    BY <1>a DEF Supported
  <2>. QED  BY <1>a, <2>1, <2>2, <2>3
<1>7. CASE Parse
  BY <1>1, <1>2, <1>3, <1>7 DEF Parse, IInv
<1>8. CASE RemoveComments
  <2>1. edits' = Clipped(CommentSpans)
    BY <1>8 DEF RemoveComments, Push, IInv
  <2>. QED  BY <1>1, <1>2, <1>3, <1>4, <1>8, <2>1 DEF RemoveComments, IInv
<1>9. CASE VisitImport
  <2>1. Visited' = ImportSpans
    BY <1>1, <1>9, VisitedPrimed DEF VisitImport
  <2>2. Supported
    BY <1>9 DEF VisitImport, Supported
  <2>. QED  BY <1>9, <1>v, <2>1, <2>2 DEF VisitImport
<1>10. CASE VisitErased
  <2>1. Supported /\ ~ Starts("import")
    BY <1>10, <1>a DEF VisitErased
  <2>2. Visited' = {Outer}
    BY <1>1, <1>10, <2>1, VisitedPrimed DEF VisitErased
  <2>. QED  BY <1>10, <1>v, <2>1, <2>2 DEF VisitErased
<1>11. CASE VisitFunction
  <2>1. Supported /\ ~ Starts("import") /\ ~ Starts("type")
    BY <1>11, <1>a DEF VisitFunction
  <2>2. Visited' = VisitedSpans(Where({"p"}) \ params')
    BY <1>1, <1>11, <2>1, VisitedPrimed DEF VisitFunction
  <2>3. VisitedSpans(Where({"p"}) \ params') = FunctionSpans
    BY <1>11 DEF VisitFunction, VisitedSpans
  <2>4. edits' = Clipped(CommentSpans \cup Visited')
    BY <1>11, <2>2, <2>3, ClippedUnion DEF VisitFunction, Push, IInv
  <2>. QED  BY <1>1, <1>2, <1>3, <1>5, <1>11, <2>4 DEF VisitFunction, IInv
<1>12. CASE VisitParam
  <2> DEFINE p == First(params)
             W == Where({"p"})
  <2>1. p \in params /\ params \subseteq W /\ phase = "params" /\ params' = params \ {p}
    BY <1>12, <1>p, FirstIs DEF VisitParam, IInv
  <2>2. Starts("function") /\ Accepted
    BY <2>1 DEF IInv
  <2>3. ~ Starts("import") /\ ~ Starts("type")
    BY <1>s, <2>2, StartsIs
  <2>4. Visited = VisitedSpans(W \ params) /\ Visited' = VisitedSpans(W \ params')
    BY <1>1, <2>2, <2>3, VisitedPrimed DEF Visited
  <2>5. edits' = Clipped(CommentSpans \cup Visited) \cup Clipped(ParamSpans(p))
    BY <1>12, <2>1 DEF VisitParam, Push, IInv
  <2> HIDE DEF p, W
  <2>6. W \ params' = (W \ params) \cup {p}
    BY <2>1
  <2>7. VisitedSpans(W \ params') = VisitedSpans(W \ params) \cup ParamSpans(p)
    BY <2>6 DEF VisitedSpans
  <2>8. edits' = Clipped(CommentSpans \cup Visited')
    <3>1. (CommentSpans \cup Visited) \cup ParamSpans(p) = CommentSpans \cup Visited'
      BY <2>4, <2>7
    <3>. QED  BY <2>5, <3>1, ClippedUnion
  <2>9. params' \subseteq Where({"p"})
    BY <2>1 DEF W
  <2>10. phase' = "params"
    BY <1>12, <2>1 DEF VisitParam
  <2>. QED  BY <1>1, <1>2, <1>3, <1>5, <2>2, <2>8, <2>9, <2>10 DEF IInv
<1>13. CASE EndParams
  <2>1. Supported
    BY <1>13 DEF EndParams, IInv, Supported
  <2>2. edits' = Clipped(CommentSpans \cup Visited')
    BY <1>6, <1>13 DEF EndParams, IInv
  <2>. QED  BY <1>1, <1>2, <1>3, <1>5, <1>13, <2>1, <2>2 DEF EndParams, IInv
<1>14. CASE VisitAs
  <2>1. Supported /\ ~ Starts("import") /\ ~ Starts("type") /\ ~ Starts("function")
    BY <1>14, <1>a DEF VisitAs
  <2>2. Visited' = CastSpans
    BY <1>1, <1>14, <2>1, VisitedPrimed DEF VisitAs
  <2>. QED  BY <1>14, <1>v, <2>1, <2>2 DEF VisitAs
<1>15. CASE VisitClass
  <2>1. /\ Supported /\ ~ Starts("import") /\ ~ Starts("type") /\ ~ Starts("function")
        /\ ~ Starts("e")
    BY <1>15, <1>a DEF VisitClass
  <2>2. Visited' = ClassSpans
    BY <1>1, <1>15, <2>1, VisitedPrimed DEF VisitClass
  <2>. QED  BY <1>15, <1>v, <2>1, <2>2 DEF VisitClass
<1>16. CASE VisitField
  <2>1. Accepted /\ Keys # {}
    BY <1>16 DEF VisitField, IInv, Keys
  <2>2. Supported
    BY <2>1 DEF Supported
  <2>3. /\ ~ Starts("import") /\ ~ Starts("type") /\ ~ Starts("function") /\ ~ Starts("e")
        /\ ~ Starts("class")
    BY <1>s, <2>1, ArmIs
  <2>4. Visited' = FieldSpans
    BY <1>1, <2>3, VisitedPrimed
  <2>. QED  BY <1>16, <1>v, <2>2, <2>4 DEF VisitField
<1>17. CASE VisitUnsupported
  BY <1>1, <1>2, <1>3, <1>4, <1>17 DEF VisitUnsupported, IInv
<1>18. CASE UNCHANGED vars
  BY <1>1, <1>2, <1>3, <1>4, <1>5, <1>6, <1>18 DEF vars, IInv
<1>. QED  BY <1>7, <1>8, <1>9, <1>10, <1>11, <1>12, <1>13, <1>14, <1>15, <1>16, <1>17, <1>18
          DEF Next

LEMMA SpecInv == Spec => []IInv
BY InitInv, NextInv, PTL DEF Spec

-----------------------------------------------------------------------------
(* What the invariant says of what is deleted.                             *)

LEMMA DeletedIs ==
  ASSUME Size \in Nat, NEW S, Typed(S), edits = Clipped(S)
  PROVE  /\ edits \subseteq {s \in Span : s.start < s.end}
         /\ \A o \in Offsets : o \in Deleted <=> Covers(S, o)
<1>1. /\ edits \subseteq {s \in Span : s.start < s.end}
      /\ \A o \in Offsets : Covers(edits, o) <=> Covers(S, o)
  BY ClippedIs
<1>2. \A s \in edits : s.start \in Nat /\ s.end \in Nat
  BY <1>1 DEF Span
<1>3. \A o \in Offsets : o \in Deleted <=> Covers(edits, o)
  BY <1>2 DEF Deleted, Covers, Offsets
<1>. QED  BY <1>1, <1>3

\* At every phase the edits are those of some spans.
LEMMA EditsAre ==
  ASSUME IInv
  PROVE  \/ edits = Clipped({})
         \/ edits = Clipped(CommentSpans)
         \/ edits = Clipped(CommentSpans \cup Visited) /\ Accepted /\ Supported
<1>1. Clipped({}) = {}
  BY DEF Clipped
<1>2. phase = "params" => Accepted /\ Supported
  BY DEF IInv, Supported
<1>. QED  BY <1>1, <1>2 DEF IInv

LEMMA InvTypeOK == IInv => TypeOK
<1> SUFFICES ASSUME IInv  PROVE TypeOK
  OBVIOUS
<1>1. Size \in Nat
  BY InvSize
<1>2. params \subseteq Offsets
  BY <1>1, TokensAre DEF IInv, Where
<1>3. edits \subseteq {s \in Span : s.start < s.end}
  <2>1. Typed({}) /\ Typed(CommentSpans)
    BY <1>1, CommentSpansAre DEF Typed
  <2>2. Accepted /\ Supported => Typed(CommentSpans \cup Visited)
    BY <1>1, <2>1, VisitedIs, TypedUnion
  <2>. QED  BY <1>1, <2>1, <2>2, EditsAre, DeletedIs
<1>. QED  BY <1>2, <1>3 DEF TypeOK, IInv

LEMMA InvValuesKept == IInv /\ WordsClear => ValuesKept
<1> SUFFICES ASSUME IInv, WordsClear, NEW o \in Tokens, Sym(o) \in ValueSymbols
             PROVE  o \notin Deleted
  BY DEF ValuesKept
<1>1. Size \in Nat
  BY InvSize
<1>2. o \in Offsets
  BY <1>1, TokensAre
<1>3. Typed({}) /\ ~ Covers({}, o)
  BY DEF Typed, Covers
<1>4. Typed(CommentSpans) /\ ~ Covers(CommentSpans, o)
  BY <1>1, CommentSpansAre
<1>5. ASSUME Accepted, Supported
      PROVE  Typed(CommentSpans \cup Visited) /\ ~ Covers(CommentSpans \cup Visited, o)
  <2>1. Typed(Visited) /\ Sound(Visited)
    BY <1>1, <1>5, VisitedIs
  <2>2. ~ Covers(Visited, o)
    BY <2>1 DEF Sound
  <2>. QED  BY <1>4, <2>1, <2>2, TypedUnion, CoversUnion
<1>. QED  BY <1>1, <1>2, <1>3, <1>4, <1>5, EditsAre, DeletedIs

\* When all is visited, a token is deleted if the visit asked for it.
LEMMA DoneIs ==
  ASSUME IInv, phase = "done"
  PROVE  /\ Size \in Nat /\ Accepted /\ Supported /\ params = {} /\ Typed(Visited)
         /\ \A o \in Offsets :
              o \in Deleted <=> Covers(CommentSpans, o) \/ Covers(Visited, o)
         /\ \A o \in Tokens : o \in Offsets /\ (o \in Deleted <=> Covers(Visited, o))
<1>1. Size \in Nat /\ Accepted /\ Supported /\ params = {}
  BY InvSize DEF IInv
<1>2. Typed(CommentSpans) /\ \A q \in Tokens : ~ Covers(CommentSpans, q)
  BY <1>1, CommentSpansAre
<1>3. Typed(Visited)
  BY <1>1, VisitedIs
<1>4. edits = Clipped(CommentSpans \cup Visited)
  BY DEF IInv
<1>5. Typed(CommentSpans \cup Visited)
  BY <1>2, <1>3, TypedUnion
<1>6. \A o \in Offsets : o \in Deleted <=> Covers(CommentSpans \cup Visited, o)
  BY <1>1, <1>4, <1>5, DeletedIs
<1>7. \A o \in Offsets : o \in Deleted <=> Covers(CommentSpans, o) \/ Covers(Visited, o)
  BY <1>6, CoversUnion
<1>8. \A o \in Tokens : o \in Offsets
  BY <1>1, TokensAre
<1>. QED  BY <1>1, <1>2, <1>3, <1>7, <1>8

LEMMA InvTypesErased == IInv /\ WordsClear /\ MarkersClear => TypesErased
<1> SUFFICES ASSUME IInv, WordsClear, MarkersClear, phase = "done",
                    NEW o \in Tokens, Sym(o) \in TypeSymbols
             PROVE  o \in Deleted
  BY DEF TypesErased
<1>1. Size \in Nat /\ Accepted /\ Supported /\ params = {}
  BY DoneIs
<1>2. Erasing(Visited)
  BY <1>1, VisitedIs
<1>3. Covers(Visited, o)
  BY <1>2 DEF Erasing
<1>. QED  BY <1>3, DoneIs

LEMMA InvOutputParses == IInv /\ WordsClear /\ MarkersClear /\ CommasClear => OutputParses
<1> SUFFICES ASSUME IInv, WordsClear, MarkersClear, CommasClear, phase = "done"
             PROVE  \A e \in Adjacent(Tokens \cap Kept) : Symbols(e) \in Follows
  BY DEF OutputParses
<1>1. Size \in Nat /\ Accepted /\ Supported /\ params = {}
  BY DoneIs
<1>2. Parsing(Visited)
  BY <1>1, VisitedIs
<1>3. \A o \in Tokens : o \in Offsets /\ (o \in Deleted <=> Covers(Visited, o))
  BY DoneIs
<1>4. Tokens \cap Kept = Left(Visited)
  BY <1>3 DEF Kept, Left
<1>. QED  BY <1>2, <1>4 DEF Parsing

LEMMA InvCommentsWhole == IInv /\ WordsClear => CommentsWhole
<1> SUFFICES ASSUME IInv, WordsClear, phase = "done", NEW c \in Comments
             PROVE  LET bytes == c.start..(c.end - 1)
                    IN  \/ bytes \subseteq Deleted
                        \/ comments /\ bytes \cap Deleted = {}
  BY DEF CommentsWhole
<1> DEFINE bytes == c.start..(c.end - 1)
<1>1. Size \in Nat /\ Accepted /\ Supported
  BY DoneIs
<1>2. c.start \in Nat /\ c.end \in Nat /\ c.end <= Size
  BY <1>1, CommentIs DEF Offsets
<1>3. bytes \subseteq Offsets /\ \A o \in bytes : c.start <= o /\ o < c.end /\ o \in Nat
  BY <1>1, <1>2 DEF Offsets
<1>4. \A o \in bytes : o \in Deleted <=> Covers(CommentSpans, o) \/ Covers(Visited, o)
  BY <1>3, DoneIs
<1> HIDE DEF bytes
<1>5. CASE ~ comments
  <2>1. c \in CommentSpans
    BY <1>5 DEF CommentSpans
  <2>2. \A o \in bytes : Covers(CommentSpans, o)
    BY <1>3, <2>1 DEF Covers
  <2>. QED  BY <1>4, <2>2 DEF bytes
<1>6. CASE comments
  <2>1. \A o : ~ Covers(CommentSpans, o)
    BY <1>6 DEF CommentSpans, Covers
  <2>2. Bounded(Visited)
    BY <1>1, VisitedIs DEF Sound
  \* A span that has a byte of the comment has all of it.
  <2>3. ASSUME NEW o \in bytes, NEW q \in bytes, Covers(Visited, o)  PROVE Covers(Visited, q)
    <3>1. PICK s \in Visited : s.start <= o /\ o < s.end
      BY <2>3 DEF Covers
    <3>2. /\ s.start \in Nat /\ s.end \in Nat
          /\ s.start <= c.start \/ c.end <= s.start
          /\ s.end <= c.start \/ c.end <= s.end
      BY <2>2 DEF Bounded, Typed, Boundary
    <3>3. /\ c.start <= o /\ o < c.end /\ o \in Nat
          /\ c.start <= q /\ q < c.end /\ q \in Nat
      BY <1>3
    <3>4. s.start <= q /\ q < s.end
      BY <1>2, <3>1, <3>2, <3>3
    <3>. QED  BY <3>4 DEF Covers
  <2>4. CASE \E o \in bytes : Covers(Visited, o)
    BY <1>4, <2>3, <2>4 DEF bytes
  <2>5. CASE \A o \in bytes : ~ Covers(Visited, o)
    BY <1>4, <1>6, <2>1, <2>5 DEF bytes
  <2>. QED  BY <2>4, <2>5
<1>. QED  BY <1>5, <1>6, DoneIs DEF IInv

-----------------------------------------------------------------------------
(* The theorems.                                                           *)

(* Every variable has its type, whatever the text: also where a search     *)
(* goes wrong, push_span gets a span of the text, and a function's visit   *)
(* ends with all its parameters visited.                                   *)
THEOREM Typing == Spec => []TypeOK
BY SpecInv, InvTypeOK, PTL

(* No token of the program itself is deleted, whatever comments and blanks *)
(* stand between the tokens and however long the lists are, if no comment  *)
(* holds a word that the text is searched for.                             *)
THEOREM KeepsValues == Spec => [](WordsClear => ValuesKept)
BY SpecInv, InvValuesKept, PTL

(* No comment is cut: an edit that touches one deletes all of it, and the  *)
(* comments option decides about the others.                               *)
THEOREM CutsNoComment == Spec => [](WordsClear => CommentsWhole)
BY SpecInv, InvCommentsWhole, PTL

(* Every token of a type goes where the question mark and the colon of     *)
(* %checks are found next to what they belong to.                          *)
THEOREM ErasesTypes == Spec => [](WordsClear /\ MarkersClear => TypesErased)
BY SpecInv, InvTypesErased, PTL

(* What is left of a construct follows the grammar: of a list of imports   *)
(* or parameters of any length, with any of them types, no comma is left   *)
(* alone, doubled or missing, if each is where the collector looks for it. *)
THEOREM LeavesProgram ==
  Spec => [](WordsClear /\ MarkersClear /\ CommasClear => OutputParses)
BY SpecInv, InvOutputParses, PTL
=============================================================================
