----------------------------- MODULE PassesProofs -----------------------------
(***************************************************************************)
(* What the passes do to trees of any size.                                *)
(***************************************************************************)
EXTENDS Passes, WellFoundedInduction, TLAPS

-----------------------------------------------------------------------------
(* Sequences.                                                              *)

\* A set of numbers has a least one.
LEMMA LeastIs ==
  ASSUME NEW S \in SUBSET Nat, S # {}
  PROVE  \E m \in S : \A j \in S : m <= j
<1>1. PICK m \in S : \A p \in S : ~ (<<p, m>> \in OpToRel(<, Nat))
  <2>1. IsWellFoundedOn(OpToRel(<, Nat), Nat)
    BY NatLessThanWellFounded
  <2>2. S \subseteq Nat
    OBVIOUS
  <2>. QED  BY <2>1, <2>2, WFMin, Zenon
<1>2. \A p \in S : ~ (p < m)
  BY <1>1 DEF OpToRel
<1>3. \A p \in S : p \in Nat
  OBVIOUS
<1>4. \A p \in S : m <= p
  BY <1>2, <1>3
<1>. QED  BY <1>1, <1>4

\* What holds at 0 and from each number to the next holds at n.
LEMMA UpTo ==
  ASSUME NEW n \in Nat, NEW S, 0 \in S, \A m \in 0 .. n - 1 : m \in S => m + 1 \in S
  PROVE  n \in S
<1> DEFINE Bad == {m \in 0 .. n : m \notin S}
<1> SUFFICES ASSUME Bad # {} PROVE FALSE
  OBVIOUS
<1>1. PICK m \in Bad : \A j \in Bad : m <= j
  <2>1. Bad \in SUBSET Nat
    OBVIOUS
  <2> HIDE DEF Bad
  <2>. QED  BY <2>1, LeastIs
<1>2. m \in 0 .. n /\ m \notin S /\ m # 0
  OBVIOUS
<1>3. m - 1 \in 0 .. n - 1 /\ m - 1 \in 0 .. n /\ ~(m <= m - 1) /\ (m - 1) + 1 = m
  BY <1>2
<1>4. m - 1 \in S
  BY <1>1, <1>3
<1>. QED  BY <1>2, <1>3, <1>4

Sequence(s) == s \in Seq(Range(s))

LEMMA SequenceIs ==
  ASSUME NEW s, Sequence(s)
  PROVE  Len(s) \in Nat /\ DOMAIN s = 1 .. Len(s) /\ s = [i \in 1 .. Len(s) |-> s[i]]
  BY DEF Sequence

LEMMA IsSequence ==
  ASSUME NEW s, NEW n \in Nat, s = [i \in 1 .. n |-> s[i]]
  PROVE  Sequence(s) /\ Len(s) = n /\ DOMAIN s = 1 .. n
<1>1. s \in [1 .. n -> Range(s)]
  BY DEF Range
<1>2. s \in Seq(Range(s))
  BY <1>1
<1>. QED  BY <1>2 DEF Sequence

LEMMA SequencesEqual ==
  ASSUME NEW s, NEW t, Sequence(s), Sequence(t), Len(s) = Len(t), \A i \in 1 .. Len(s) : s[i] = t[i]
  PROVE  s = t
  BY SequenceIs

LEMMA EmptySequence ==
  /\ Sequence(<<>>)
  /\ \A s : Sequence(s) => (s = <<>> <=> Len(s) = 0)
  BY DEF Sequence, Range

LEMMA OneSequence ==
  ASSUME NEW x
  PROVE  Sequence(<<x>>) /\ Len(<<x>>) = 1 /\ <<x>>[1] = x /\ <<x>> # <<>>
  BY DEF Sequence, Range

LEMMA AppendIs ==
  ASSUME NEW s, NEW x, Sequence(s)
  PROVE  /\ Sequence(Append(s, x)) /\ Len(Append(s, x)) = Len(s) + 1
         /\ \A i \in 1 .. Len(s) : Append(s, x)[i] = s[i]
         /\ Append(s, x)[Len(s) + 1] = x
<1> DEFINE T == Range(s) \cup {x}
<1>1. s \in Seq(T) /\ x \in T
  BY SequenceIs DEF Range
<1> HIDE DEF T
<1>2. /\ Append(s, x) \in Seq(T) /\ Len(Append(s, x)) = Len(s) + 1
      /\ \A i \in 1 .. Len(s) : Append(s, x)[i] = s[i]
      /\ Append(s, x)[Len(s) + 1] = x
  BY <1>1
<1>3. /\ Append(s, x) = [i \in 1 .. Len(Append(s, x)) |-> Append(s, x)[i]] /\ Len(Append(s, x)) \in Nat
  <2> DEFINE a == Append(s, x)
  <2>1. a \in Seq(T)
    BY <1>2
  <2> HIDE DEF a
  <2>2. a = [i \in 1 .. Len(a) |-> a[i]] /\ Len(a) \in Nat
    BY <2>1
  <2>. QED  BY <2>2 DEF a
<1>. QED  BY <1>2, <1>3, IsSequence

LEMMA ConcatIs ==
  ASSUME NEW s, NEW t, Sequence(s), Sequence(t)
  PROVE  /\ Sequence(s \o t) /\ Len(s \o t) = Len(s) + Len(t)
         /\ \A i \in 1 .. Len(s) : (s \o t)[i] = s[i]
         /\ \A i \in 1 .. Len(t) : (s \o t)[Len(s) + i] = t[i]
         /\ s \o <<>> = s /\ <<>> \o t = t
         /\ \A x : s \o <<x>> = Append(s, x)
<1> DEFINE T == Range(s) \cup Range(t)
<1>1. s \in Seq(T) /\ t \in Seq(T)
  BY SequenceIs DEF Range
<1> HIDE DEF T
<1>2. /\ s \o t \in Seq(T) /\ Len(s \o t) = Len(s) + Len(t)
      /\ \A i \in 1 .. Len(s) : (s \o t)[i] = s[i]
      /\ \A i \in 1 .. Len(t) : (s \o t)[Len(s) + i] = t[i]
  BY <1>1
<1>3. s \o t = [i \in 1 .. Len(s \o t) |-> (s \o t)[i]] /\ Len(s \o t) \in Nat
  <2> DEFINE a == s \o t
  <2>1. a \in Seq(T)
    BY <1>2
  <2> HIDE DEF a
  <2>2. a = [i \in 1 .. Len(a) |-> a[i]] /\ Len(a) \in Nat
    BY <2>1
  <2>. QED  BY <2>2 DEF a
<1>4. s \o <<>> = s /\ <<>> \o t = t
  BY <1>1
<1>5. ASSUME NEW x PROVE s \o <<x>> = Append(s, x)
  <2>1. s \in Seq(T \cup {x}) /\ x \in T \cup {x}
    BY <1>1
  <2>. QED  BY <2>1
<1>. QED  BY <1>2, <1>3, <1>4, <1>5, IsSequence

-----------------------------------------------------------------------------
(* FlattenSeq.                                                             *)

\* g holds what the first sequences of ss flatten to.
Flat(ss, n, g) == g = [i \in 1 .. n |-> IF i = 1 THEN ss[i] ELSE g[i - 1] \o ss[i]]

LEMMA FlatExists ==
  ASSUME NEW ss, NEW n \in Nat
  PROVE  \E g : Flat(ss, n, g)
<1> DEFINE Bad == {m \in Nat : ~\E g : Flat(ss, m, g)}
<1> SUFFICES ASSUME n \in Bad PROVE FALSE
  OBVIOUS
<1>1. PICK m \in Bad : \A j \in Bad : m <= j
  <2>1. Bad \in SUBSET Nat /\ Bad # {}
    OBVIOUS
  <2> HIDE DEF Bad
  <2>. QED  BY <2>1, LeastIs
<1>2. CASE m = 0
  <2>1. Flat(ss, 0, <<>>)
    BY DEF Flat
  <2>. QED  BY <1>2, <2>1
<1>3. CASE m # 0
  <2>1. m \in Nat /\ m - 1 \in Nat /\ m - 1 \notin Bad
    BY <1>1, <1>3
  <2>2. PICK g : Flat(ss, m - 1, g)
    BY <2>1
  <2> DEFINE h == [i \in 1 .. m |-> IF i = m THEN (IF m = 1 THEN ss[1] ELSE g[m - 1] \o ss[m]) ELSE g[i]]
  <2>3. \A i \in 1 .. m : h[i] = IF i = 1 THEN ss[i] ELSE h[i - 1] \o ss[i]
    <3> SUFFICES ASSUME NEW i \in 1 .. m PROVE h[i] = IF i = 1 THEN ss[i] ELSE h[i - 1] \o ss[i]
      OBVIOUS
    <3>1. CASE i = m
      <4>1. i # 1 => i - 1 \in 1 .. m /\ i - 1 # m
        BY <2>1
      <4>. QED  BY <3>1, <4>1
    <3>2. CASE i # m
      <4>1. i \in 1 .. m - 1 /\ (i # 1 => i - 1 \in 1 .. m - 1 /\ i - 1 \in 1 .. m /\ i - 1 # m)
        BY <2>1, <3>2
      <4>2. g[i] = IF i = 1 THEN ss[i] ELSE g[i - 1] \o ss[i]
        BY <2>2, <4>1 DEF Flat
      <4>3. h[i] = g[i] /\ (i # 1 => h[i - 1] = g[i - 1])
        BY <3>2, <4>1
      <4>. QED  BY <4>2, <4>3
    <3>. QED  BY <3>1, <3>2
  <2>4. h = [i \in 1 .. m |-> IF i = 1 THEN ss[i] ELSE h[i - 1] \o ss[i]]
    <3>1. h = [i \in 1 .. m |-> h[i]]
      OBVIOUS
    <3> HIDE DEF h
    <3>. QED  BY <2>3, <3>1
  <2>5. Flat(ss, m, h)
    BY <2>4 DEF Flat
  <2>. QED  BY <2>5
<1>. QED  BY <1>2, <1>3

LEMMA FlattenIs ==
  ASSUME NEW ss, Sequence(ss), ss # <<>>
  PROVE  \E g : Flat(ss, Len(ss), g) /\ FlattenSeq(ss) = g[Len(ss)]
<1>1. Len(ss) \in Nat /\ Len(ss) # 0
  BY SequenceIs, EmptySequence
<1> DEFINE g == CHOOSE flatten : flatten = [i \in 1 .. Len(ss) |-> IF i = 1 THEN ss[i] ELSE flatten[i - 1] \o ss[i]]
<1>2. FlattenSeq(ss) = g[Len(ss)]
  BY <1>1 DEF FlattenSeq
<1>3. \E f : f = [i \in 1 .. Len(ss) |-> IF i = 1 THEN ss[i] ELSE f[i - 1] \o ss[i]]
  BY <1>1, FlatExists DEF Flat
<1>4. g = [i \in 1 .. Len(ss) |-> IF i = 1 THEN ss[i] ELSE g[i - 1] \o ss[i]]
  BY <1>3
<1>. QED  BY <1>2, <1>4 DEF Flat

LEMMA FlattenNone == FlattenSeq(<<>>) = <<>>
  BY DEF FlattenSeq

\* The functions for a sequence and for one that goes on agree.
LEMMA FlatAgrees ==
  ASSUME NEW ss, NEW tt, NEW n \in Nat, NEW k \in Nat, n <= k, NEW g, NEW h,
         Flat(ss, n, g), Flat(tt, k, h), \A i \in 1 .. n : ss[i] = tt[i]
  PROVE  \A i \in 1 .. n : g[i] = h[i]
<1> DEFINE Bad == {i \in 1 .. n : g[i] # h[i]}
<1> SUFFICES ASSUME Bad # {} PROVE FALSE
  OBVIOUS
<1>1. PICK m \in Bad : \A j \in Bad : m <= j
  <2>1. Bad \in SUBSET Nat
    OBVIOUS
  <2> HIDE DEF Bad
  <2>. QED  BY <2>1, LeastIs
<1>2. m \in 1 .. n /\ g[m] # h[m] /\ m \in 1 .. k
  OBVIOUS
<1>3. g[m] = IF m = 1 THEN ss[m] ELSE g[m - 1] \o ss[m]
  BY <1>2 DEF Flat
<1>4. h[m] = IF m = 1 THEN tt[m] ELSE h[m - 1] \o tt[m]
  BY <1>2 DEF Flat
<1>5. ss[m] = tt[m]
  BY <1>2
<1>6. m # 1 => g[m - 1] = h[m - 1]
  <2> SUFFICES ASSUME m # 1 PROVE g[m - 1] = h[m - 1]
    OBVIOUS
  <2>1. m - 1 \in 1 .. n /\ ~(m <= m - 1)
    BY <1>2
  <2>2. m - 1 \notin Bad
    BY <1>1, <2>1
  <2>. QED  BY <2>1, <2>2
<1>. QED  BY <1>2, <1>3, <1>4, <1>5, <1>6

LEMMA FlattenOne ==
  ASSUME NEW s
  PROVE  FlattenSeq(<<s>>) = s
<1>1. Sequence(<<s>>) /\ Len(<<s>>) = 1 /\ <<s>>[1] = s /\ <<s>> # <<>>
  BY OneSequence
<1>2. PICK g : Flat(<<s>>, 1, g) /\ FlattenSeq(<<s>>) = g[1]
  BY <1>1, FlattenIs
<1>. QED  BY <1>1, <1>2 DEF Flat

\* Flattening one more.
LEMMA FlattenAppend ==
  ASSUME NEW ss, NEW s, Sequence(ss), Sequence(s)
  PROVE  FlattenSeq(Append(ss, s)) = FlattenSeq(ss) \o s
<1> DEFINE tt == Append(ss, s)
<1>1. /\ Sequence(tt) /\ Len(tt) = Len(ss) + 1 /\ tt[Len(ss) + 1] = s /\ Len(ss) \in Nat
      /\ \A i \in 1 .. Len(ss) : tt[i] = ss[i]
  BY AppendIs, SequenceIs
<1> HIDE DEF tt
<1>2. tt # <<>>
  BY <1>1, EmptySequence
<1>3. PICK h : Flat(tt, Len(tt), h) /\ FlattenSeq(tt) = h[Len(tt)]
  BY <1>1, <1>2, FlattenIs
<1>4. CASE ss = <<>>
  <2>1. Len(ss) = 0
    BY <1>4, EmptySequence
  <2>2. h[1] = tt[1]
    BY <1>1, <1>3, <2>1 DEF Flat
  <2>3. FlattenSeq(tt) = s
    BY <1>1, <1>3, <2>1, <2>2
  <2>4. FlattenSeq(ss) \o s = s
    BY <1>4, FlattenNone, ConcatIs, EmptySequence
  <2>. QED  BY <2>3, <2>4 DEF tt
<1>5. CASE ss # <<>>
  <2>1. PICK g : Flat(ss, Len(ss), g) /\ FlattenSeq(ss) = g[Len(ss)]
    BY <1>5, FlattenIs
  <2>2. Len(ss) # 0
    BY <1>5, EmptySequence
  <2>3. \A i \in 1 .. Len(ss) : ss[i] = tt[i]
    BY <1>1
  <2>4. Len(ss) <= Len(tt) /\ Len(tt) \in Nat
    BY <1>1
  <2>5. \A i \in 1 .. Len(ss) : g[i] = h[i]
    <3> DEFINE n == Len(ss)
               k == Len(tt)
    <3>1. /\ n \in Nat /\ k \in Nat /\ n <= k /\ Flat(ss, n, g) /\ Flat(tt, k, h)
          /\ \A i \in 1 .. n : ss[i] = tt[i]
      BY <1>1, <1>3, <2>1, <2>3, <2>4
    <3> HIDE DEF n, k
    <3>2. \A i \in 1 .. n : g[i] = h[i]
      BY <3>1, FlatAgrees
    <3>. QED  BY <3>2 DEF n
  <2>6. h[Len(ss) + 1] = h[Len(ss)] \o tt[Len(ss) + 1]
    <3>1. Len(ss) + 1 \in 1 .. Len(tt) /\ Len(ss) + 1 # 1 /\ (Len(ss) + 1) - 1 = Len(ss)
      BY <1>1, <2>2
    <3>2. h[Len(ss) + 1] = IF Len(ss) + 1 = 1 THEN tt[Len(ss) + 1] ELSE h[(Len(ss) + 1) - 1] \o tt[Len(ss) + 1]
      BY <1>3, <3>1 DEF Flat
    <3>. QED  BY <3>1, <3>2
  <2>7. Len(ss) \in 1 .. Len(ss)
    BY <1>1, <2>2
  <2>. QED  BY <1>1, <1>3, <2>1, <2>5, <2>6, <2>7 DEF tt
<1>. QED  BY <1>4, <1>5

\* The first m of a sequence.
Prefix(e, m) == [i \in 1 .. m |-> e[i]]

LEMMA PrefixIs ==
  ASSUME NEW e, NEW m \in Nat
  PROVE  /\ Sequence(Prefix(e, m)) /\ Len(Prefix(e, m)) = m
         /\ \A i \in 1 .. m : Prefix(e, m)[i] = e[i]
         /\ Prefix(e, m + 1) = Append(Prefix(e, m), e[m + 1])
         /\ Prefix(e, 0) = <<>>
         /\ Sequence(e) /\ Len(e) = m => Prefix(e, m) = e
<1>1. ASSUME NEW k \in Nat
      PROVE  Sequence(Prefix(e, k)) /\ Len(Prefix(e, k)) = k /\ \A i \in 1 .. k : Prefix(e, k)[i] = e[i]
  <2>1. Prefix(e, k) = [i \in 1 .. k |-> Prefix(e, k)[i]] /\ \A i \in 1 .. k : Prefix(e, k)[i] = e[i]
    BY DEF Prefix
  <2>. QED  BY <2>1, IsSequence
<1>2. Prefix(e, m + 1) = Append(Prefix(e, m), e[m + 1])
  <2> DEFINE a == Append(Prefix(e, m), e[m + 1])
             p == Prefix(e, m + 1)
  <2>1. Sequence(a) /\ Len(a) = m + 1 /\ (\A i \in 1 .. m : a[i] = e[i]) /\ a[m + 1] = e[m + 1]
    BY <1>1, AppendIs
  <2>2. Sequence(p) /\ Len(p) = m + 1 /\ \A i \in 1 .. m + 1 : p[i] = e[i]
    BY <1>1
  <2> HIDE DEF a, p
  <2>3. \A i \in 1 .. m + 1 : i \in 1 .. m \/ i = m + 1
    OBVIOUS
  <2>4. \A i \in 1 .. Len(p) : p[i] = a[i]
    BY <2>1, <2>2, <2>3
  <2>5. p = a
    BY <2>1, <2>2, <2>4, SequencesEqual
  <2>. QED  BY <2>5 DEF a, p
<1>3. Prefix(e, 0) = <<>>
  BY <1>1, EmptySequence
<1>4. Sequence(e) /\ Len(e) = m => Prefix(e, m) = e
  BY <1>1, SequencesEqual
<1>. QED  BY <1>1, <1>2, <1>3, <1>4

LEMMA FlattenPrefix ==
  ASSUME NEW e, NEW m \in Nat, Sequence(e[m + 1])
  PROVE  FlattenSeq(Prefix(e, m + 1)) = FlattenSeq(Prefix(e, m)) \o e[m + 1]
  BY PrefixIs, FlattenAppend

\* What is flattened is a sequence of what the sequences hold.
LEMMA FlattenSequence ==
  ASSUME NEW ss, Sequence(ss), \A i \in 1 .. Len(ss) : Sequence(ss[i])
  PROVE  /\ Sequence(FlattenSeq(ss))
         /\ \A x \in Range(FlattenSeq(ss)) : \E i \in 1 .. Len(ss) : x \in Range(ss[i])
<1> DEFINE n == Len(ss)
           Fine(m) == /\ Sequence(FlattenSeq(Prefix(ss, m)))
                      /\ \A x \in Range(FlattenSeq(Prefix(ss, m))) : \E i \in 1 .. n : x \in Range(ss[i])
<1>0. n \in Nat
  BY SequenceIs
<1>1. Fine(0)
  <2>1. FlattenSeq(Prefix(ss, 0)) = <<>>
    BY PrefixIs, FlattenNone
  <2>. QED  BY <2>1, EmptySequence DEF Range
<1>2. ASSUME NEW m \in 0 .. n - 1, Fine(m) PROVE Fine(m + 1)
  <2>1. m \in Nat /\ m + 1 \in 1 .. n
    BY <1>0
  <2> DEFINE a == FlattenSeq(Prefix(ss, m))
             b == FlattenSeq(Prefix(ss, m + 1))
             c == ss[m + 1]
  <2>2. b = a \o c /\ Sequence(c)
    BY <2>1, FlattenPrefix
  <2>3. Sequence(a) /\ \A x \in Range(a) : \E i \in 1 .. n : x \in Range(ss[i])
    BY <1>2
  <2> HIDE DEF a, b, c
  <2>4. /\ Sequence(b) /\ Len(b) = Len(a) + Len(c)
        /\ \A i \in 1 .. Len(a) : b[i] = a[i]
        /\ \A i \in 1 .. Len(c) : b[Len(a) + i] = c[i]
    BY <2>2, <2>3, ConcatIs
  <2>5. /\ DOMAIN b = 1 .. Len(b) /\ DOMAIN a = 1 .. Len(a) /\ Len(a) \in Nat /\ Len(c) \in Nat
        /\ DOMAIN c = 1 .. Len(c)
    BY <2>2, <2>3, <2>4, SequenceIs
  <2>6. ASSUME NEW j \in DOMAIN b PROVE \E i \in 1 .. n : b[j] \in Range(ss[i])
    <3>1. CASE j \in 1 .. Len(a)
      <4>1. b[j] = a[j] /\ j \in DOMAIN a
        BY <2>4, <2>5, <3>1
      <4>2. b[j] \in Range(a)
        BY <4>1 DEF Range
      <4>. QED  BY <2>3, <4>2
    <3>2. CASE j \notin 1 .. Len(a)
      <4>1. j - Len(a) \in 1 .. Len(c) /\ Len(a) + (j - Len(a)) = j
        BY <2>4, <2>5, <3>2
      <4>2. b[j] = c[j - Len(a)]
        BY <2>4, <4>1
      <4>3. b[j] \in Range(c)
        BY <2>5, <4>1, <4>2 DEF Range
      <4>. QED  BY <2>1, <4>3 DEF c
    <3>. QED  BY <3>1, <3>2
  <2>7. \A x \in Range(b) : \E i \in 1 .. n : x \in Range(ss[i])
    BY <2>6 DEF Range
  <2>. QED  BY <2>4, <2>7 DEF b
<1> HIDE DEF Fine
<1>4. Fine(n)
  <2> DEFINE S == {m \in 0 .. n : Fine(m)}
  <2>1. 0 \in S /\ \A m \in 0 .. n - 1 : m \in S => m + 1 \in S
    BY <1>0, <1>1, <1>2
  <2> HIDE DEF S
  <2>2. n \in S
    BY <1>0, <2>1, UpTo
  <2>. QED  BY <2>2 DEF S
<1>5. Prefix(ss, n) = ss
  BY <1>0, PrefixIs
<1>. QED  BY <1>4, <1>5 DEF Fine

\* A sequence of one element each.
LEMMA FlattenSingles ==
  ASSUME NEW s, Sequence(s), NEW ss, Sequence(ss), Len(ss) = Len(s), \A i \in 1 .. Len(s) : ss[i] = <<s[i]>>
  PROVE  FlattenSeq(ss) = s
<1> DEFINE n == Len(ss)
           Fine(m) == FlattenSeq(Prefix(ss, m)) = Prefix(s, m)
<1>0. n \in Nat
  BY SequenceIs
<1>1. Fine(0)
  BY PrefixIs, FlattenNone
<1>2. ASSUME NEW m \in 0 .. n - 1, Fine(m) PROVE Fine(m + 1)
  <2>1. m \in Nat /\ m + 1 \in 1 .. n /\ ss[m + 1] = <<s[m + 1]>>
    BY <1>0
  <2>2. FlattenSeq(Prefix(ss, m + 1)) = FlattenSeq(Prefix(ss, m)) \o <<s[m + 1]>>
    <3>1. Sequence(ss[m + 1])
      BY <2>1, OneSequence
    <3>. QED  BY <2>1, <3>1, FlattenPrefix
  <2>3. Prefix(s, m) \o <<s[m + 1]>> = Append(Prefix(s, m), s[m + 1])
    BY <2>1, PrefixIs, ConcatIs, EmptySequence
  <2>4. Prefix(s, m + 1) = Append(Prefix(s, m), s[m + 1])
    BY <2>1, PrefixIs
  <2>. QED  BY <1>2, <2>2, <2>3, <2>4
<1> HIDE DEF Fine
<1>4. Fine(n)
  <2> DEFINE S == {m \in 0 .. n : Fine(m)}
  <2>1. 0 \in S /\ \A m \in 0 .. n - 1 : m \in S => m + 1 \in S
    BY <1>0, <1>1, <1>2
  <2> HIDE DEF S
  <2>2. n \in S
    BY <1>0, <2>1, UpTo
  <2>. QED  BY <2>2 DEF S
<1>5. Prefix(ss, n) = ss /\ Prefix(s, n) = s
  BY <1>0, PrefixIs
<1>. QED  BY <1>4, <1>5 DEF Fine

\* Each element's image.
Images(G, s) == [i \in DOMAIN s |-> G[s[i]]]

LEMMA ImagesIs ==
  ASSUME NEW G, NEW a, Sequence(a), NEW y
  PROVE  /\ Sequence(Images(G, a)) /\ Len(Images(G, a)) = Len(a)
         /\ \A i \in 1 .. Len(a) : Images(G, a)[i] = G[a[i]]
         /\ Images(G, Append(a, y)) = Append(Images(G, a), G[y])
<1>1. ASSUME NEW s, Sequence(s)
      PROVE  /\ Sequence(Images(G, s)) /\ Len(Images(G, s)) = Len(s)
             /\ \A i \in 1 .. Len(s) : Images(G, s)[i] = G[s[i]]
  <2>1. DOMAIN s = 1 .. Len(s) /\ Len(s) \in Nat
    BY <1>1, SequenceIs
  <2>2. Images(G, s) = [i \in 1 .. Len(s) |-> Images(G, s)[i]] /\ \A i \in 1 .. Len(s) : Images(G, s)[i] = G[s[i]]
    BY <2>1 DEF Images
  <2>. QED  BY <2>1, <2>2, IsSequence
<1> DEFINE b == Append(a, y)
           p == Images(G, b)
           q == Append(Images(G, a), G[y])
           n == Len(a)
<1>2. /\ Sequence(b) /\ Len(b) = n + 1 /\ (\A i \in 1 .. n : b[i] = a[i]) /\ b[n + 1] = y
      /\ n \in Nat
  BY AppendIs, SequenceIs
<1> HIDE DEF b
<1>3. Sequence(p) /\ Len(p) = n + 1 /\ \A i \in 1 .. n + 1 : p[i] = G[b[i]]
  BY <1>1, <1>2
<1>4. Sequence(q) /\ Len(q) = n + 1 /\ q[n + 1] = G[y] /\ \A i \in 1 .. n : q[i] = G[a[i]]
  BY <1>1, <1>2, AppendIs
<1> HIDE DEF p, q, n
<1>5. \A i \in 1 .. n + 1 : p[i] = q[i]
  <2> SUFFICES ASSUME NEW i \in 1 .. n + 1 PROVE p[i] = q[i]
    OBVIOUS
  <2>1. i = n + 1 \/ i \in 1 .. n
    BY <1>2
  <2>2. p[i] = G[b[i]]
    BY <1>3
  <2>. QED  BY <1>2, <1>4, <2>1, <2>2
<1>6. p = q
  BY <1>3, <1>4, <1>5, SequencesEqual
<1>. QED  BY <1>1, <1>6 DEF b, p, q, n

LEMMA FlattenImages ==
  ASSUME NEW G, NEW a, Sequence(a), NEW y, Sequence(G[y])
  PROVE  /\ Sequence(a \o <<y>>)
         /\ FlattenSeq(Images(G, a \o <<y>>)) = FlattenSeq(Images(G, a)) \o G[y]
<1>1. a \o <<y>> = Append(a, y)
  BY ConcatIs, EmptySequence
<1>2. Sequence(Append(a, y))
  BY AppendIs
<1>3. Images(G, Append(a, y)) = Append(Images(G, a), G[y]) /\ Sequence(Images(G, a))
  BY ImagesIs
<1>4. FlattenSeq(Append(Images(G, a), G[y])) = FlattenSeq(Images(G, a)) \o G[y]
  BY <1>3, FlattenAppend
<1>. QED  BY <1>1, <1>2, <1>3, <1>4

LEMMA FlattenMapStep ==
  ASSUME NEW ss, NEW ee, NEW G, NEW m \in Nat, NEW y,
         Sequence(FlattenSeq(Prefix(ss, m))), Sequence(FlattenSeq(Prefix(ee, m))),
         FlattenSeq(Images(G, FlattenSeq(Prefix(ss, m)))) = FlattenSeq(Prefix(ee, m)),
         ss[m + 1] = <<y>>, ee[m + 1] = G[y], Sequence(G[y])
  PROVE  /\ Sequence(FlattenSeq(Prefix(ss, m + 1))) /\ Sequence(FlattenSeq(Prefix(ee, m + 1)))
         /\ FlattenSeq(Images(G, FlattenSeq(Prefix(ss, m + 1)))) = FlattenSeq(Prefix(ee, m + 1))
<1>1. Sequence(ss[m + 1]) /\ Sequence(ee[m + 1])
  BY OneSequence
<1>2. FlattenSeq(Prefix(ss, m + 1)) = FlattenSeq(Prefix(ss, m)) \o <<y>>
  BY <1>1, FlattenPrefix
<1>3. FlattenSeq(Prefix(ee, m + 1)) = FlattenSeq(Prefix(ee, m)) \o G[y]
  BY <1>1, FlattenPrefix
<1>4. Sequence(FlattenSeq(Prefix(ee, m)) \o G[y])
  BY ConcatIs
<1>. QED  BY <1>2, <1>3, <1>4, FlattenImages

\* What each element becomes can be flattened before or after the elements are.
LEMMA FlattenMap ==
  ASSUME NEW ss, Sequence(ss), \A i \in 1 .. Len(ss) : ss[i] = <<>> \/ \E y : ss[i] = <<y>>,
         NEW ee, Sequence(ee), Len(ee) = Len(ss), NEW G,
         \A i \in 1 .. Len(ss) : ss[i] = <<>> => ee[i] = <<>>,
         \A i \in 1 .. Len(ss) : \A y : ss[i] = <<y>> => ee[i] = G[y] /\ Sequence(G[y])
  PROVE  FlattenSeq(Images(G, FlattenSeq(ss))) = FlattenSeq(ee)
<1> DEFINE n == Len(ss)
           First(m) == FlattenSeq(Prefix(ss, m))
           Second(m) == FlattenSeq(Prefix(ee, m))
           Fine(m) == Sequence(First(m)) /\ Sequence(Second(m)) /\ FlattenSeq(Images(G, First(m))) = Second(m)
<1>0. n \in Nat
  BY SequenceIs
<1>1. Fine(0)
  <2>1. First(0) = <<>> /\ Second(0) = <<>>
    BY PrefixIs, FlattenNone
  <2>2. Images(G, <<>>) = <<>>
    BY DEF Images
  <2>. QED  BY <2>1, <2>2, FlattenNone, EmptySequence
<1>2. ASSUME NEW m \in 0 .. n - 1, Fine(m) PROVE Fine(m + 1)
  <2>1. m \in Nat /\ m + 1 \in 1 .. n
    BY <1>0
  <2>3. CASE ss[m + 1] = <<>>
    <3>1. ss[m + 1] = <<>> /\ ee[m + 1] = <<>> /\ Sequence(<<>>)
      BY <2>1, <2>3, EmptySequence
    <3>2. First(m + 1) = First(m) \o <<>> /\ Second(m + 1) = Second(m) \o <<>>
      <4>1. First(m + 1) = First(m) \o ss[m + 1]
        BY <2>1, <3>1, FlattenPrefix
      <4>2. Second(m + 1) = Second(m) \o ee[m + 1]
        BY <2>1, <3>1, FlattenPrefix
      <4>. QED  BY <3>1, <4>1, <4>2
    <3> HIDE DEF First, Second
    <3>3. First(m + 1) = First(m) /\ Second(m + 1) = Second(m)
      BY <1>2, <3>2, ConcatIs, EmptySequence
    <3>. QED  BY <1>2, <3>3
  <2>4. ASSUME NEW y, ss[m + 1] = <<y>> PROVE Fine(m + 1)
    <3>1. ee[m + 1] = G[y] /\ Sequence(G[y])
      BY <2>1, <2>4
    <3>2. Sequence(First(m)) /\ Sequence(Second(m)) /\ FlattenSeq(Images(G, First(m))) = Second(m)
      BY <1>2
    <3>. QED  BY <2>1, <2>4, <3>1, <3>2, FlattenMapStep
  <2>. QED  BY <2>1, <2>3, <2>4
<1> HIDE DEF Fine
<1>4. Fine(n)
  <2> DEFINE S == {m \in 0 .. n : Fine(m)}
  <2>1. 0 \in S /\ \A m \in 0 .. n - 1 : m \in S => m + 1 \in S
    BY <1>0, <1>1, <1>2
  <2> HIDE DEF S
  <2>2. n \in S
    BY <1>0, <2>1, UpTo
  <2>. QED  BY <2>2 DEF S
<1>5. Prefix(ss, n) = ss /\ Prefix(ee, n) = ee
  BY <1>0, PrefixIs
<1>. QED  BY <1>4, <1>5 DEF Fine

-----------------------------------------------------------------------------
(* Trees: nodes that are not below themselves, however deep.               *)

IsNode(n) ==
  /\ n = Node(n.kind, n.op, n.flags, n.k) /\ n.k = [f \in Fields(n) |-> n.k[f]]
  /\ \A f \in Fields(n) : Sequence(n.k[f])
Closed(S) == \A n \in S : IsNode(n) /\ Children(n) \subseteq S
Founded(S) == \A T \in SUBSET S : T # {} => \E n \in T : \A c \in Children(n) : c \notin T
Tree(n) == \E S : n \in S /\ Closed(S) /\ Founded(S)

\* What holds of a node when it holds of its children holds of all.
LEMMA TreeInduction ==
  ASSUME NEW S, Founded(S), NEW Good,
         \A n \in S : (\A c \in Children(n) : c \in S => c \in Good) => n \in Good
  PROVE  S \subseteq Good
<1> SUFFICES ASSUME S \ Good # {} PROVE FALSE
  OBVIOUS
<1>1. PICK n \in S \ Good : \A c \in Children(n) : c \notin S \ Good
  BY DEF Founded
<1>. QED  BY <1>1

LEMMA TreeIs ==
  ASSUME NEW n, Tree(n)
  PROVE  IsNode(n) /\ \A c \in Children(n) : Tree(c)
  BY DEF Tree, Closed

LEMMA Child ==
  ASSUME NEW n, IsNode(n), NEW f \in Fields(n), NEW i \in DOMAIN n.k[f]
  PROVE  n.k[f][i] \in Children(n)
  BY DEF Children

\* A node over trees is a tree.
LEMMA TreeMade ==
  ASSUME NEW n, IsNode(n), \A c \in Children(n) : Tree(c)
  PROVE  Tree(n)
<1> DEFINE In(c) == CHOOSE S : c \in S /\ Closed(S) /\ Founded(S)
           Below == UNION {In(c) : c \in Children(n)}
<1>1. ASSUME NEW c \in Children(n)
      PROVE  c \in In(c) /\ Closed(In(c)) /\ Founded(In(c))
  BY DEF Tree
<1> HIDE DEF In
<1>2. Children(n) \subseteq Below
  BY <1>1
<1>3. \A m \in Below : IsNode(m) /\ Children(m) \subseteq Below
  <2> SUFFICES ASSUME NEW c \in Children(n), NEW m \in In(c)
               PROVE  IsNode(m) /\ Children(m) \subseteq Below
    OBVIOUS
  <2>1. IsNode(m) /\ Children(m) \subseteq In(c)
    BY <1>1 DEF Closed
  <2>. QED  BY <2>1
<1>4. Closed({n} \cup Below)
  <2> SUFFICES ASSUME NEW m \in {n} \cup Below PROVE IsNode(m) /\ Children(m) \subseteq {n} \cup Below
    BY DEF Closed
  <2>. QED  BY <1>2, <1>3
<1>5. ASSUME NEW T \in SUBSET ({n} \cup Below), T # {}
      PROVE  \E m \in T : \A c \in Children(m) : c \notin T
  <2>1. ASSUME NEW c \in Children(n), T \cap In(c) # {}
        PROVE  \E m \in T : \A d \in Children(m) : d \notin T
    <3>1. PICK m \in T \cap In(c) : \A d \in Children(m) : d \notin T \cap In(c)
      <4>1. T \cap In(c) \in SUBSET In(c)
        OBVIOUS
      <4>. QED  BY <1>1, <2>1, <4>1 DEF Founded
    <3>2. Children(m) \subseteq In(c)
      BY <1>1 DEF Closed
    <3>. QED  BY <3>1, <3>2
  <2>2. CASE \A c \in Children(n) : T \cap In(c) = {}
    <3>1. T \cap Below = {}
      BY <2>2
    <3>2. T = {n}
      BY <1>5, <3>1
    <3>3. \A c \in Children(n) : c \notin T
      BY <1>2, <3>1
    <3>. QED  BY <3>2, <3>3
  <2>. QED  BY <2>1, <2>2
<1>6. Founded({n} \cup Below)
  BY <1>5 DEF Founded
<1>. QED  BY <1>4, <1>6 DEF Tree

\* The recursions.
SubtreesUnfolds == \A n : Tree(n) => Subtrees(n) = SubtreesOf(n)
ReduceUnfolds == \A n : Tree(n) => ReduceCall(n) = ReduceConditionalCall(n)
BranchesUnfolds == \A n : Tree(n) => Branches(n) = BranchesOf(n)

\* The subtrees of a tree are closed, and founded.
LEMMA SubtreesAre ==
  ASSUME SubtreesUnfolds, NEW p, Tree(p)
  PROVE  /\ p \in Subtrees(p) /\ Closed(Subtrees(p)) /\ Founded(Subtrees(p))
         /\ \A n \in Subtrees(p) : Tree(n)
<1>1. PICK S : p \in S /\ Closed(S) /\ Founded(S)
  BY DEF Tree
<1> DEFINE Good == {n \in S : n \in Subtrees(n) /\ Subtrees(n) \subseteq S
                              /\ \A m \in Subtrees(n) : Children(m) \subseteq Subtrees(n)}
<1>2. ASSUME NEW n \in S, \A c \in Children(n) : c \in S => c \in Good
      PROVE  n \in Good
  <2>1. Tree(n)
    BY <1>1 DEF Tree
  <2>2. Subtrees(n) = {n} \cup UNION {Subtrees(c) : c \in Children(n)}
    BY <2>1 DEF SubtreesUnfolds, SubtreesOf
  <2>3. Children(n) \subseteq S
    BY <1>1 DEF Closed
  <2>4. \A c \in Children(n) : /\ c \in Subtrees(c) /\ Subtrees(c) \subseteq S
                               /\ \A m \in Subtrees(c) : Children(m) \subseteq Subtrees(c)
    BY <1>2, <2>3
  <2>5. Subtrees(n) \subseteq S
    BY <2>2, <2>4
  <2>6. \A m \in Subtrees(n) : Children(m) \subseteq Subtrees(n)
    <3>1. Children(n) \subseteq Subtrees(n)
      BY <2>2, <2>4
    <3>2. ASSUME NEW c \in Children(n), NEW m \in Subtrees(c) PROVE Children(m) \subseteq Subtrees(n)
      <4>1. Children(m) \subseteq Subtrees(c)
        BY <2>4
      <4>. QED  BY <2>2, <4>1
    <3>. QED  BY <2>2, <3>1, <3>2
  <2>. QED  BY <2>2, <2>5, <2>6
<1> HIDE DEF Good
<1>3. S \subseteq Good
  BY <1>1, <1>2, TreeInduction
<1>4. /\ p \in Subtrees(p) /\ Subtrees(p) \subseteq S
      /\ \A m \in Subtrees(p) : Children(m) \subseteq Subtrees(p)
  BY <1>1, <1>3 DEF Good
<1>5. Closed(Subtrees(p))
  BY <1>1, <1>4 DEF Closed
<1>6. Founded(Subtrees(p))
  BY <1>1, <1>4 DEF Founded
<1>7. \A n \in Subtrees(p) : Tree(n)
  BY <1>1, <1>4 DEF Tree
<1>. QED  BY <1>4, <1>5, <1>6, <1>7

-----------------------------------------------------------------------------
(* ReduceConditional.                                                      *)

LEMMA NodeIs ==
  ASSUME NEW kind, NEW op, NEW flags, NEW k
  PROVE  /\ Node(kind, op, flags, k).kind = kind /\ Node(kind, op, flags, k).op = op
         /\ Node(kind, op, flags, k).flags = flags /\ Node(kind, op, flags, k).k = k
  BY DEF Node

LEMMA Rebuilt ==
  ASSUME NEW n, IsNode(n), NEW k
  PROVE  [n EXCEPT !.k = k] = Node(n.kind, n.op, n.flags, k)
  BY DEF IsNode, Node

\* A node rebuilt over trees is a tree.
LEMMA RebuiltTree ==
  ASSUME NEW kind, NEW op, NEW flags, NEW F, NEW k, k = [f \in F |-> k[f]],
         \A f \in F : Sequence(k[f]) /\ \A i \in DOMAIN k[f] : Tree(k[f][i])
  PROVE  Tree(Node(kind, op, flags, k))
<1> DEFINE n == Node(kind, op, flags, k)
<1>1. n.kind = kind /\ n.op = op /\ n.flags = flags /\ n.k = k
  BY NodeIs
<1>2. DOMAIN k = F
  OBVIOUS
<1>3. Fields(n) = F
  BY <1>1, <1>2 DEF Fields
<1> HIDE DEF n
<1>4. n = Node(n.kind, n.op, n.flags, n.k)
  BY <1>1 DEF n
<1>5. IsNode(n)
  BY <1>1, <1>3, <1>4 DEF IsNode
<1>6. \A c \in Children(n) : Tree(c)
  BY <1>1, <1>3 DEF Children
<1>7. Tree(n)
  BY <1>5, <1>6, TreeMade
<1>. QED  BY <1>7 DEF n

EmptyStatement == Node("EmptyStatement", "", {}, <<>>)

LEMMA EmptyTree == Tree(EmptyStatement)
<1>1. <<>> = [f \in {} |-> <<>>[f]]
  OBVIOUS
<1>. QED  BY <1>1, RebuiltTree DEF EmptyStatement

\* What a node is reduced to has the same branches.
Reduced(n, out) ==
  \/ out = Removed /\ Branches(n) = <<>>
  \/ \E y : out = Changed(y) /\ Tree(y) /\ Branches(y) = Branches(n)

LEMMA OutcomesAre ==
  ASSUME NEW n, NEW y
  PROVE  /\ VisitNode(n, Changed(y)) = y /\ VisitOption(n, Changed(y)) = y
         /\ VisitElement(n, Changed(y)) = <<y>> /\ VisitElement(n, Removed) = <<>>
         /\ VisitNode(n, Removed) = EmptyStatement /\ VisitOption(n, Removed) = EmptyStatement
         /\ Changed(y).nodes[1] = y /\ Changed(y) # Removed /\ Changed(y).is = "Changed"
  BY DEF VisitNode, VisitOption, VisitElement, Changed, Removed, Outcome, EmptyStatement

\* The branches of what stands in a field.
InField(nodes) == FlattenSeq([i \in DOMAIN nodes |-> Branches(nodes[i])])

LEMMA ReducedField ==
  ASSUME BranchesUnfolds, NEW sort \in {"One", "Maybe", "List", "MaybeList"}, NEW nodes, Sequence(nodes),
         NEW outs, \A i \in DOMAIN nodes : Reduced(nodes[i], outs[i]) /\ Sequence(Branches(nodes[i])),
         sort = "One" => Len(nodes) = 1
  PROVE  LET now == VisitField(sort, nodes, outs)
         IN  /\ Sequence(now) /\ \A i \in DOMAIN now : Tree(now[i])
             /\ InField(now) = InField(nodes)
             /\ sort \in {"One", "Maybe"} =>
                  Len(now) = Len(nodes) /\ \A i \in DOMAIN nodes : Branches(now[i]) = Branches(nodes[i])
<1> DEFINE now == VisitField(sort, nodes, outs)
<1>1. /\ Len(nodes) \in Nat /\ DOMAIN nodes = 1 .. Len(nodes)
  BY SequenceIs
<1>2. Branches(EmptyStatement) = <<>>
  <2>1. Branches(EmptyStatement) = BranchesOf(EmptyStatement)
    BY EmptyTree DEF BranchesUnfolds
  <2>2. EmptyStatement.kind = "EmptyStatement"
    BY DEF EmptyStatement, Node
  <2>. QED  BY <2>1, <2>2 DEF BranchesOf
<1>3. ASSUME NEW i \in DOMAIN nodes
      PROVE  /\ Tree(VisitNode(nodes[i], outs[i])) /\ Tree(VisitOption(nodes[i], outs[i]))
             /\ Branches(VisitNode(nodes[i], outs[i])) = Branches(nodes[i])
             /\ Branches(VisitOption(nodes[i], outs[i])) = Branches(nodes[i])
  <2>1. CASE outs[i] = Removed /\ Branches(nodes[i]) = <<>>
    BY <1>2, <2>1, OutcomesAre, EmptyTree
  <2>2. ASSUME NEW y, outs[i] = Changed(y), Tree(y), Branches(y) = Branches(nodes[i])
        PROVE  /\ Tree(VisitNode(nodes[i], outs[i])) /\ Tree(VisitOption(nodes[i], outs[i]))
               /\ Branches(VisitNode(nodes[i], outs[i])) = Branches(nodes[i])
               /\ Branches(VisitOption(nodes[i], outs[i])) = Branches(nodes[i])
    BY <2>2, OutcomesAre
  <2>. QED  BY <2>1, <2>2 DEF Reduced
<1>4. CASE sort \in {"One", "Maybe"}
  <2>1. /\ now = [i \in 1 .. Len(nodes) |-> now[i]]
        /\ \A i \in DOMAIN nodes : Tree(now[i]) /\ Branches(now[i]) = Branches(nodes[i])
    <3>1. CASE sort = "One"
      <4>1. now = <<VisitNode(nodes[1], outs[1])>> /\ Len(nodes) = 1 /\ DOMAIN nodes = 1 .. 1
        BY <1>1, <3>1 DEF VisitField
      <4>2. now = [i \in 1 .. 1 |-> now[i]] /\ now[1] = VisitNode(nodes[1], outs[1])
        BY <4>1
      <4> HIDE DEF now
      <4>. QED  BY <1>3, <4>1, <4>2
    <3>2. CASE sort = "Maybe"
      <4>1. now = [i \in DOMAIN nodes |-> VisitOption(nodes[i], outs[i])]
        BY <3>2 DEF VisitField
      <4> HIDE DEF now
      <4>. QED  BY <1>1, <1>3, <4>1
    <3>. QED  BY <1>4, <3>1, <3>2
  <2> HIDE DEF now
  <2>2. Sequence(now) /\ Len(now) = Len(nodes) /\ DOMAIN now = DOMAIN nodes
    BY <1>1, <2>1, IsSequence
  <2>3. InField(now) = InField(nodes)
    <3>1. [i \in DOMAIN now |-> Branches(now[i])] = [i \in DOMAIN nodes |-> Branches(nodes[i])]
      BY <2>1, <2>2
    <3>. QED  BY <3>1 DEF InField
  <2>. QED  BY <2>1, <2>2, <2>3 DEF now
<1>5. CASE sort \in {"List", "MaybeList"}
  <2> DEFINE ss == [i \in DOMAIN nodes |-> VisitElement(nodes[i], outs[i])]
             ee == [i \in DOMAIN nodes |-> Branches(nodes[i])]
             T == {ss[i][1] : i \in DOMAIN nodes}
             G == [y \in T |-> Branches(y)]
  <2>1. now = FlattenSeq(ss)
    BY <1>5 DEF VisitField
  <2>2. ASSUME NEW i \in DOMAIN nodes
        PROVE  \/ ss[i] = <<>> /\ ee[i] = <<>>
               \/ \E y \in T : ss[i] = <<y>> /\ Tree(y) /\ ee[i] = G[y] /\ Sequence(G[y])
    <3>1. CASE outs[i] = Removed /\ Branches(nodes[i]) = <<>>
      BY <3>1, OutcomesAre
    <3>2. ASSUME NEW y, outs[i] = Changed(y), Tree(y), Branches(y) = Branches(nodes[i])
          PROVE  \E z \in T : ss[i] = <<z>> /\ Tree(z) /\ ee[i] = G[z] /\ Sequence(G[z])
      <4>1. ss[i] = <<y>> /\ ss[i][1] = y
        BY <3>2, OutcomesAre
      <4>2. y \in T
        BY <4>1
      <4>3. G[y] = Branches(nodes[i]) /\ ee[i] = Branches(nodes[i])
        BY <3>2, <4>2
      <4>. QED  BY <3>2, <4>1, <4>2, <4>3
    <3>. QED  BY <3>1, <3>2 DEF Reduced
  <2>3. Sequence(ss) /\ Len(ss) = Len(nodes)
    <3>1. ss = [i \in 1 .. Len(nodes) |-> ss[i]]
      BY <1>1
    <3> HIDE DEF ss
    <3>. QED  BY <1>1, <3>1, IsSequence
  <2>4. Sequence(ee) /\ Len(ee) = Len(nodes)
    <3>1. ee = [i \in 1 .. Len(nodes) |-> ee[i]]
      BY <1>1
    <3> HIDE DEF ee
    <3>. QED  BY <1>1, <3>1, IsSequence
  <2>5. InField(nodes) = FlattenSeq(ee)
    BY DEF InField
  <2>6. DOMAIN G = T /\ \A y \in T : G[y] = Branches(y)
    OBVIOUS
  <2> HIDE DEF ss, ee, T, G, now
  <2>7. \A i \in 1 .. Len(ss) : Sequence(ss[i])
    BY <1>1, <2>2, <2>3, EmptySequence, OneSequence
  <2>8. Sequence(now) /\ \A x \in Range(now) : \E i \in 1 .. Len(ss) : x \in Range(ss[i])
    BY <2>1, <2>3, <2>7, FlattenSequence
  <2>9. ASSUME NEW j \in DOMAIN now PROVE Tree(now[j]) /\ now[j] \in T
    <3>1. PICK i \in DOMAIN nodes : now[j] \in Range(ss[i])
      BY <1>1, <2>3, <2>8 DEF Range
    <3>2. ss[i] # <<>>
      BY <3>1 DEF Range
    <3>3. PICK y \in T : ss[i] = <<y>> /\ Tree(y)
      BY <2>2, <3>2
    <3>4. now[j] = y
      BY <3>1, <3>3 DEF Range
    <3>. QED  BY <3>3, <3>4
  <2>10. FlattenSeq(Images(G, now)) = FlattenSeq(ee)
    <3>1. \A i \in 1 .. Len(ss) : ss[i] = <<>> \/ \E y : ss[i] = <<y>>
      BY <1>1, <2>2, <2>3
    <3>2. \A i \in 1 .. Len(ss) : ss[i] = <<>> => ee[i] = <<>>
      BY <1>1, <2>2, <2>3, OneSequence
    <3>3. \A i \in 1 .. Len(ss) : \A y : ss[i] = <<y>> => ee[i] = G[y] /\ Sequence(G[y])
      <4> SUFFICES ASSUME NEW i \in DOMAIN nodes, NEW y, ss[i] = <<y>> PROVE ee[i] = G[y] /\ Sequence(G[y])
        BY <1>1, <2>3
      <4>1. ss[i] # <<>> /\ ss[i][1] = y
        BY OneSequence
      <4>. QED  BY <2>2, <4>1
    <3>. QED  BY <2>1, <2>3, <2>4, <3>1, <3>2, <3>3, FlattenMap
  <2>11. Images(G, now) = [j \in DOMAIN now |-> Branches(now[j])]
    BY <2>6, <2>9 DEF Images
  <2>12. InField(now) = InField(nodes)
    BY <2>5, <2>10, <2>11 DEF InField
  <2>. QED  BY <1>5, <2>8, <2>9, <2>12 DEF now
<1>. QED  BY <1>4, <1>5

\* Whether the node can be reduced, and its branches stay.
Reduces(n) ==
  /\ Sequence(Branches(n)) /\ Reduced(n, ReduceCall(n))
  /\ Tree(ReduceChildren(n)) /\ Branches(ReduceChildren(n)) = Branches(n)

LEMMA ShapedField ==
  ASSUME NEW n, Shaped(n), NEW f \in Fields(n)
  PROVE  /\ SortOf(n, f) \in {"One", "Maybe", "List", "MaybeList"}
         /\ SortOf(n, f) = "One" => Len(n.k[f]) = 1
         /\ SortOf(n, f) = "Maybe" => Len(n.k[f]) <= 1
<1>1. n.kind \in DOMAIN Kinds /\ Fields(n) = DOMAIN Kinds[n.kind].fields
  BY DEF Shaped
<1>2. \A k \in DOMAIN Kinds : Sorts(k, DOMAIN Kinds[k].fields, {"One", "Maybe", "List", "MaybeList"})
  BY TableAssumption
<1>3. SortOf(n, f) \in {"One", "Maybe", "List", "MaybeList"}
  BY <1>1, <1>2 DEF Sorts, SortOf
<1>. QED  BY <1>3 DEF Shaped

\* Visiting the children keeps what each field comes to.
LEMMA ReducedChildren ==
  ASSUME BranchesUnfolds, NEW n, Tree(n), Shaped(n), \A c \in Children(n) : Reduces(c)
  PROVE  LET y == ReduceChildren(n)
         IN  /\ Tree(y) /\ y.kind = n.kind /\ y.op = n.op /\ y.flags = n.flags /\ Fields(y) = Fields(n)
             /\ \A f \in Fields(n) :
                  /\ InField(y.k[f]) = InField(n.k[f])
                  /\ SortOf(n, f) \in {"One", "Maybe"} =>
                       Len(y.k[f]) = Len(n.k[f]) /\ \A i \in DOMAIN n.k[f] : Branches(y.k[f][i]) = Branches(n.k[f][i])
<1> DEFINE outs(f) == [i \in DOMAIN n.k[f] |-> ReduceCall(n.k[f][i])]
           k == [f \in Fields(n) |-> VisitField(SortOf(n, f), n.k[f], outs(f))]
           y == ReduceChildren(n)
<1>0. IsNode(n)
  BY TreeIs
<1>1. y = [n EXCEPT !.k = k]
  BY DEF ReduceChildren, VisitChildren, SortOf
<1>2. y = Node(n.kind, n.op, n.flags, k)
  <2> HIDE DEF k, y
  <2>. QED  BY <1>0, <1>1, Rebuilt
<1>3. y.kind = n.kind /\ y.op = n.op /\ y.flags = n.flags /\ y.k = k
  <2> HIDE DEF k, y
  <2>. QED  BY <1>2 DEF Node
<1>4. DOMAIN k = Fields(n)
  OBVIOUS
<1>5. ASSUME NEW f \in Fields(n)
      PROVE  /\ Sequence(k[f]) /\ \A i \in DOMAIN k[f] : Tree(k[f][i])
             /\ InField(k[f]) = InField(n.k[f])
             /\ SortOf(n, f) \in {"One", "Maybe"} =>
                  Len(k[f]) = Len(n.k[f]) /\ \A i \in DOMAIN n.k[f] : Branches(k[f][i]) = Branches(n.k[f][i])
  <2> DEFINE nodes == n.k[f]
             sort == SortOf(n, f)
             o == outs(f)
  <2>1. k[f] = VisitField(sort, nodes, o)
    OBVIOUS
  <2>2. Sequence(nodes)
    BY <1>0 DEF IsNode
  <2>3. \A i \in DOMAIN nodes : Reduced(nodes[i], o[i]) /\ Sequence(Branches(nodes[i]))
    BY <1>0, Child DEF Reduces
  <2>4. sort \in {"One", "Maybe", "List", "MaybeList"} /\ (sort = "One" => Len(nodes) = 1)
    BY ShapedField
  <2> HIDE DEF nodes, sort, o, k
  <2>5. LET now == VisitField(sort, nodes, o)
        IN  /\ Sequence(now) /\ \A i \in DOMAIN now : Tree(now[i])
            /\ InField(now) = InField(nodes)
            /\ sort \in {"One", "Maybe"} =>
                 Len(now) = Len(nodes) /\ \A i \in DOMAIN nodes : Branches(now[i]) = Branches(nodes[i])
    BY <2>2, <2>3, <2>4, ReducedField
  <2>. QED  BY <2>1, <2>5 DEF nodes, sort
<1>6. Tree(y)
  <2>1. k = [f \in Fields(n) |-> k[f]]
    OBVIOUS
  <2> HIDE DEF k, y
  <2>2. \A f \in Fields(n) : Sequence(k[f]) /\ \A i \in DOMAIN k[f] : Tree(k[f][i])
    BY <1>5
  <2>3. Tree(Node(n.kind, n.op, n.flags, k))
    BY <2>1, <2>2, RebuiltTree
  <2>. QED  BY <1>2, <2>3
<1>7. Fields(y) = Fields(n)
  <2> HIDE DEF y
  <2>. QED  BY <1>3, <1>4 DEF Fields
<1> HIDE DEF k, y
<1>8. /\ Tree(y) /\ y.kind = n.kind /\ y.op = n.op /\ y.flags = n.flags /\ Fields(y) = Fields(n)
      /\ \A f \in Fields(n) :
           /\ InField(y.k[f]) = InField(n.k[f])
           /\ SortOf(n, f) \in {"One", "Maybe"} =>
                Len(y.k[f]) = Len(n.k[f]) /\ \A i \in DOMAIN n.k[f] : Branches(y.k[f][i]) = Branches(n.k[f][i])
  BY <1>3, <1>5, <1>6, <1>7
<1>. QED  BY <1>8 DEF y

Conditional(n) == n.kind \in {"ConditionalExpression", "IfStatement"}

\* The fields of a condition.
LEMMA ConditionalIs ==
  ASSUME NEW n, Tree(n), Shaped(n), Conditional(n)
  PROVE  /\ {"test", "consequent", "alternate"} \subseteq Fields(n)
         /\ SortOf(n, "test") = "One" /\ SortOf(n, "consequent") = "One"
         /\ SortOf(n, "alternate") \in {"One", "Maybe"}
         /\ Len(n.k.test) = 1 /\ Len(n.k.consequent) = 1 /\ Len(n.k.alternate) \in {0, 1}
         /\ \A f \in {"test", "consequent", "alternate"} : Sequence(n.k[f])
<1>1. /\ Sorts(n.kind, {"test", "consequent"}, {"One"}) /\ Sorts(n.kind, {"alternate"}, {"One", "Maybe"})
  BY TableAssumption DEF Conditional
<1>2. /\ n.kind \in DOMAIN Kinds /\ Fields(n) = DOMAIN Kinds[n.kind].fields
  BY DEF Shaped
<1>3. /\ {"test", "consequent", "alternate"} \subseteq Fields(n)
      /\ SortOf(n, "test") = "One" /\ SortOf(n, "consequent") = "One"
      /\ SortOf(n, "alternate") \in {"One", "Maybe"}
  BY <1>1, <1>2 DEF Sorts, SortOf
<1>4. \A f \in {"test", "consequent", "alternate"} : Sequence(n.k[f])
  BY <1>3, TreeIs DEF IsNode
<1>5. \A f \in {"test", "consequent", "alternate"} : Len(n.k[f]) \in Nat
  BY <1>4, SequenceIs
<1>6. Len(n.k.test) = 1 /\ Len(n.k.consequent) = 1
  BY <1>3, ShapedField
<1>7. Len(n.k.alternate) = 1 \/ Len(n.k.alternate) <= 1
  BY <1>3, ShapedField
<1>8. Len(n.k.alternate) \in Nat
  BY <1>5
<1>9. Len(n.k.alternate) \in {0, 1}
  <2>1. \A m \in Nat : m = 1 \/ m <= 1 => m \in {0, 1}
    OBVIOUS
  <2>. QED  BY <1>7, <1>8, <2>1
<1>. QED  BY <1>3, <1>4, <1>6, <1>9

LEMMA BranchesAre ==
  ASSUME BranchesUnfolds, NEW n, Tree(n)
  PROVE  LET test == Branches(n.k.test[1])[1]
             taken == IF test.op = "true" THEN n.k.consequent ELSE n.k.alternate
         IN  /\ n.kind = "EmptyStatement" => Branches(n) = <<>>
             /\ Conditional(n) /\ test.kind = "BooleanLiteral" =>
                  Branches(n) = IF taken = None THEN <<>> ELSE Branches(taken[1])
             /\ n.kind # "EmptyStatement" /\ ~(Conditional(n) /\ test.kind = "BooleanLiteral") =>
                  Branches(n) = <<Node(n.kind, n.op, n.flags, [f \in Fields(n) |-> InField(n.k[f])])>>
<1>1. Branches(n) = BranchesOf(n)
  BY DEF BranchesUnfolds
<1>2. [n EXCEPT !.k = [f \in Fields(n) |-> InField(n.k[f])]]
        = Node(n.kind, n.op, n.flags, [f \in Fields(n) |-> InField(n.k[f])])
  <2> DEFINE k == [f \in Fields(n) |-> InField(n.k[f])]
  <2> HIDE DEF k
  <2>1. [n EXCEPT !.k = k] = Node(n.kind, n.op, n.flags, k)
    BY TreeIs, Rebuilt
  <2>. QED  BY <2>1 DEF k
<1>3. n.kind = "EmptyStatement" => Branches(n) = <<>>
  BY <1>1 DEF BranchesOf
<1>4. ASSUME Conditional(n), Branches(n.k.test[1])[1].kind = "BooleanLiteral"
      PROVE  LET test == Branches(n.k.test[1])[1]
                 taken == IF test.op = "true" THEN n.k.consequent ELSE n.k.alternate
             IN  Branches(n) = IF taken = None THEN <<>> ELSE Branches(taken[1])
  BY <1>1, <1>4 DEF BranchesOf, Conditional
<1>5. ASSUME n.kind # "EmptyStatement",
             ~(Conditional(n) /\ Branches(n.k.test[1])[1].kind = "BooleanLiteral")
      PROVE  Branches(n) = <<[n EXCEPT !.k = [f \in Fields(n) |-> InField(n.k[f])]]>>
  BY <1>1, <1>5, Zenon DEF BranchesOf, Conditional, InField
<1>. QED  BY <1>2, <1>3, <1>4, <1>5, Zenon

\* Nodes that agree on what their fields come to have the same branches.
LEMMA SameBranches ==
  ASSUME BranchesUnfolds, NEW n, Tree(n), Shaped(n),
         NEW y, Tree(y), y.kind = n.kind, y.op = n.op, y.flags = n.flags, Fields(y) = Fields(n),
         \A f \in Fields(n) :
           /\ InField(y.k[f]) = InField(n.k[f])
           /\ SortOf(n, f) \in {"One", "Maybe"} =>
                Len(y.k[f]) = Len(n.k[f]) /\ \A i \in DOMAIN n.k[f] : Branches(y.k[f][i]) = Branches(n.k[f][i])
  PROVE  Branches(y) = Branches(n)
<1>1. CASE n.kind = "EmptyStatement"
  <2>1. Branches(n) = <<>>
    BY <1>1, BranchesAre
  <2>2. Branches(y) = <<>>
    BY <1>1, BranchesAre
  <2>. QED  BY <2>1, <2>2
<1>2. [f \in Fields(y) |-> InField(y.k[f])] = [f \in Fields(n) |-> InField(n.k[f])]
  OBVIOUS
<1>3. CASE Conditional(n)
  <2>1. /\ {"test", "consequent", "alternate"} \subseteq Fields(n)
        /\ SortOf(n, "test") = "One" /\ SortOf(n, "consequent") = "One"
        /\ SortOf(n, "alternate") \in {"One", "Maybe"}
        /\ Len(n.k.test) = 1 /\ Len(n.k.consequent) = 1 /\ Len(n.k.alternate) \in {0, 1}
        /\ \A f \in {"test", "consequent", "alternate"} : Sequence(n.k[f])
    BY <1>3, ConditionalIs
  <2>2. Branches(y.k.test[1]) = Branches(n.k.test[1])
    <3>1. 1 \in DOMAIN n.k.test
      BY <2>1, SequenceIs
    <3>. QED  BY <2>1, <3>1
  <2>3. ASSUME NEW f \in {"consequent", "alternate"}
        PROVE  /\ y.k[f] = None <=> n.k[f] = None
               /\ n.k[f] # None => Branches(y.k[f][1]) = Branches(n.k[f][1])
    <3>1. Sequence(n.k[f]) /\ Sequence(y.k[f]) /\ Len(y.k[f]) = Len(n.k[f])
      BY <2>1, TreeIs DEF IsNode
    <3>2. Len(n.k[f]) \in {0, 1}
      BY <2>1
    <3>3. y.k[f] = None <=> n.k[f] = None
      BY <3>1, EmptySequence DEF None
    <3>4. ASSUME n.k[f] # None PROVE Branches(y.k[f][1]) = Branches(n.k[f][1])
      <4>1. Len(n.k[f]) = 1
        BY <3>1, <3>2, <3>4, EmptySequence DEF None
      <4>2. 1 \in DOMAIN n.k[f]
        BY <3>1, <4>1, SequenceIs
      <4>. QED  BY <2>1, <4>2
    <3>. QED  BY <3>3, <3>4
  <2>4. y.kind = n.kind /\ Conditional(y) /\ n.kind # "EmptyStatement" /\ y.kind # "EmptyStatement"
    BY <1>3 DEF Conditional
  <2>5. CASE Branches(n.k.test[1])[1].kind = "BooleanLiteral"
    <3> DEFINE taken(m) == IF Branches(n.k.test[1])[1].op = "true" THEN m.k.consequent ELSE m.k.alternate
    <3>1. Branches(n) = IF taken(n) = None THEN <<>> ELSE Branches(taken(n)[1])
      BY <1>3, <2>5, BranchesAre
    <3>2. Branches(y) = IF taken(y) = None THEN <<>> ELSE Branches(taken(y)[1])
      BY <2>2, <2>4, <2>5, BranchesAre
    <3>. QED  BY <2>3, <3>1, <3>2
  <2>6. CASE Branches(n.k.test[1])[1].kind # "BooleanLiteral"
    <3>1. Branches(n) = <<Node(n.kind, n.op, n.flags, [f \in Fields(n) |-> InField(n.k[f])])>>
      BY <2>4, <2>6, BranchesAre
    <3>2. Branches(y) = <<Node(y.kind, y.op, y.flags, [f \in Fields(y) |-> InField(y.k[f])])>>
      BY <2>2, <2>4, <2>6, BranchesAre
    <3>. QED  BY <1>2, <3>1, <3>2
  <2>. QED  BY <2>5, <2>6
<1>4. CASE ~Conditional(n) /\ n.kind # "EmptyStatement"
  <2>1. ~Conditional(y) /\ y.kind # "EmptyStatement"
    BY <1>4 DEF Conditional
  <2>2. Branches(n) = <<Node(n.kind, n.op, n.flags, [f \in Fields(n) |-> InField(n.k[f])])>>
    BY <1>4, BranchesAre
  <2>3. Branches(y) = <<Node(y.kind, y.op, y.flags, [f \in Fields(y) |-> InField(y.k[f])])>>
    BY <2>1, BranchesAre
  <2>. QED  BY <1>2, <2>2, <2>3
<1>. QED  BY <1>1, <1>3, <1>4

\* A condition with a literal test, and its branch.
LEMMA LiteralBranches ==
  ASSUME BranchesUnfolds, NEW n, Tree(n), Shaped(n), Conditional(n), Literal(n)
  PROVE  /\ Branches(n) = IF Taken(n) = None THEN <<>> ELSE Branches(Taken(n)[1])
         /\ Taken(n) # None => Taken(n)[1] \in Children(n)
<1> DEFINE test == n.k.test[1]
<1>1. /\ {"test", "consequent", "alternate"} \subseteq Fields(n)
      /\ Len(n.k.test) = 1 /\ Len(n.k.consequent) = 1 /\ Len(n.k.alternate) \in {0, 1}
      /\ \A f \in {"test", "consequent", "alternate"} : Sequence(n.k[f])
  BY ConditionalIs
<1>2. IsNode(n)
  BY TreeIs
<1>3. Tree(test)
  <2>1. 1 \in DOMAIN n.k.test
    BY <1>1, SequenceIs
  <2>2. test \in Children(n)
    BY <1>1, <1>2, <2>1, Child
  <2>. QED  BY <2>2, TreeIs
<1>4. Branches(test) = <<Node(test.kind, test.op, test.flags, [f \in Fields(test) |-> InField(test.k[f])])>>
  <2>1. test.kind = "BooleanLiteral"
    BY DEF Literal
  <2>2. ~Conditional(test) /\ test.kind # "EmptyStatement"
    BY <2>1 DEF Conditional
  <2> HIDE DEF test
  <2>. QED  BY <1>3, <2>2, BranchesAre
<1>5. Branches(test)[1].kind = "BooleanLiteral" /\ Branches(test)[1].op = test.op
  <2> DEFINE k == [f \in Fields(test) |-> InField(test.k[f])]
  <2>1. test.kind = "BooleanLiteral"
    BY DEF Literal
  <2>2. Branches(test)[1] = Node(test.kind, test.op, test.flags, k)
    BY <1>4, OneSequence
  <2> HIDE DEF k, test
  <2>. QED  BY <2>1, <2>2 DEF Node
<1>6. Branches(n) = IF Taken(n) = None THEN <<>> ELSE Branches(Taken(n)[1])
  BY <1>5, BranchesAre DEF Taken
<1>7. ASSUME Taken(n) # None PROVE Taken(n)[1] \in Children(n)
  <2>1. PICK f \in {"consequent", "alternate"} : Taken(n) = n.k[f]
    BY DEF Taken
  <2>2. Sequence(n.k[f]) /\ Len(n.k[f]) \in {0, 1}
    BY <1>1
  <2>3. 1 \in DOMAIN n.k[f]
    BY <1>7, <2>1, <2>2, SequenceIs, EmptySequence DEF None
  <2>. QED  BY <1>1, <1>2, <2>1, <2>3, Child
<1>. QED  BY <1>6, <1>7

\* A node over nodes that reduce reduces.
LEMMA NodeReduces ==
  ASSUME BranchesUnfolds, ReduceUnfolds, NEW n, Tree(n), Shaped(n), \A c \in Children(n) : Reduces(c)
  PROVE  Reduces(n)
<1>1. Tree(ReduceChildren(n)) /\ Branches(ReduceChildren(n)) = Branches(n)
  <2> DEFINE y == ReduceChildren(n)
  <2>1. /\ Tree(y) /\ y.kind = n.kind /\ y.op = n.op /\ y.flags = n.flags /\ Fields(y) = Fields(n)
        /\ \A f \in Fields(n) :
             /\ InField(y.k[f]) = InField(n.k[f])
             /\ SortOf(n, f) \in {"One", "Maybe"} =>
                  Len(y.k[f]) = Len(n.k[f]) /\ \A i \in DOMAIN n.k[f] : Branches(y.k[f][i]) = Branches(n.k[f][i])
    BY ReducedChildren
  <2> HIDE DEF y
  <2>2. Branches(y) = Branches(n)
    BY <2>1, SameBranches
  <2>. QED  BY <2>1, <2>2 DEF y
<1>2. ReduceCall(n) = ReduceConditionalCall(n)
  BY DEF ReduceUnfolds
<1>3. CASE Conditional(n) /\ Literal(n)
  <2>1. /\ Branches(n) = IF Taken(n) = None THEN <<>> ELSE Branches(Taken(n)[1])
        /\ Taken(n) # None => Taken(n)[1] \in Children(n)
    BY <1>3, LiteralBranches
  <2>2. ReduceCall(n) = IF Taken(n) = None THEN Removed ELSE Changed(ReduceChildren(Taken(n)[1]))
    BY <1>2, <1>3 DEF ReduceConditionalCall, Conditional
  <2>3. CASE Taken(n) = None
    BY <1>1, <2>1, <2>2, <2>3, EmptySequence DEF Reduces, Reduced
  <2>4. CASE Taken(n) # None
    <3> DEFINE c == Taken(n)[1]
    <3>1. Reduces(c) /\ Branches(n) = Branches(c) /\ ReduceCall(n) = Changed(ReduceChildren(c))
      BY <2>1, <2>2, <2>4
    <3> HIDE DEF c
    <3>2. Sequence(Branches(n))
      BY <3>1 DEF Reduces
    <3>3. Reduced(n, ReduceCall(n))
      BY <3>1 DEF Reduces, Reduced
    <3>. QED  BY <1>1, <3>2, <3>3 DEF Reduces
  <2>. QED  BY <2>3, <2>4
<1>4. CASE ~(Conditional(n) /\ Literal(n))
  <2>1. ReduceCall(n) = Changed(ReduceChildren(n))
    BY <1>2, <1>4 DEF ReduceConditionalCall, Conditional
  <2>2. Reduced(n, ReduceCall(n))
    BY <1>1, <2>1 DEF Reduced
  <2>3. Sequence(Branches(n))
    <3> DEFINE test == Branches(n.k.test[1])[1]
               taken == IF test.op = "true" THEN n.k.consequent ELSE n.k.alternate
    <3>1. CASE n.kind = "EmptyStatement"
      <4>1. Branches(n) = <<>>
        BY <3>1, BranchesAre
      <4>. QED  BY <4>1, EmptySequence
    <3>2. CASE n.kind # "EmptyStatement" /\ ~(Conditional(n) /\ test.kind = "BooleanLiteral")
      <4>1. Branches(n) = <<Node(n.kind, n.op, n.flags, [f \in Fields(n) |-> InField(n.k[f])])>>
        BY <3>2, BranchesAre
      <4> DEFINE y == Node(n.kind, n.op, n.flags, [f \in Fields(n) |-> InField(n.k[f])])
      <4> HIDE DEF y
      <4>2. Sequence(<<y>>)
        BY OneSequence
      <4>. QED  BY <4>1, <4>2 DEF y
    <3>3. CASE Conditional(n) /\ test.kind = "BooleanLiteral"
      <4>1. Branches(n) = IF taken = None THEN <<>> ELSE Branches(taken[1])
        BY <3>3, BranchesAre
      <4>2. ASSUME taken # None PROVE taken[1] \in Children(n)
        <5>1. PICK f \in {"consequent", "alternate"} : taken = n.k[f]
          OBVIOUS
        <5>2. f \in Fields(n) /\ Sequence(n.k[f]) /\ Len(n.k[f]) \in {0, 1}
          <6>1. /\ {"test", "consequent", "alternate"} \subseteq Fields(n)
                /\ Len(n.k.test) = 1 /\ Len(n.k.consequent) = 1 /\ Len(n.k.alternate) \in {0, 1}
                /\ \A g \in {"test", "consequent", "alternate"} : Sequence(n.k[g])
            BY <3>3, ConditionalIs
          <6>. QED  BY <6>1
        <5>3. 1 \in DOMAIN n.k[f]
          BY <4>2, <5>1, <5>2, SequenceIs, EmptySequence DEF None
        <5>. QED  BY <5>1, <5>2, <5>3, TreeIs, Child
      <4>3. CASE taken = None
        BY <4>1, <4>3, EmptySequence
      <4>4. CASE taken # None
        BY <4>1, <4>2, <4>4 DEF Reduces
      <4>. QED  BY <4>3, <4>4
    <3>. QED  BY <3>1, <3>2, <3>3 DEF Conditional
  <2>. QED  BY <1>1, <2>2, <2>3 DEF Reduces
<1>. QED  BY <1>3, <1>4

\* What the parser returns: trees.
ProgramsAreTrees == \A p \in Programs : Tree(p)

LEMMA ProgramReduces ==
  ASSUME SubtreesUnfolds, BranchesUnfolds, ReduceUnfolds, ProgramsAreTrees, NEW p \in Programs
  PROVE  Branches(ReduceCall(p).nodes[1]) = Branches(p)
<1> DEFINE S == Subtrees(p)
           Good == {n \in S : Reduces(n)}
<1>1. p \in S /\ Closed(S) /\ Founded(S) /\ \A n \in S : Tree(n)
  BY SubtreesAre DEF ProgramsAreTrees
<1>2. p.kind = "Program" /\ \A n \in S : Shaped(n)
  BY ProgramsAssumption
<1>3. ASSUME NEW n \in S, \A c \in Children(n) : c \in S => c \in Good
      PROVE  n \in Good
  <2>1. \A c \in Children(n) : Reduces(c)
    BY <1>1, <1>3 DEF Closed
  <2>2. Tree(n) /\ Shaped(n)
    BY <1>1, <1>2
  <2>. QED  BY <2>1, <2>2, NodeReduces
<1> HIDE DEF S, Good
<1>4. S \subseteq Good
  BY <1>1, <1>3, TreeInduction
<1>5. Reduces(p)
  BY <1>1, <1>4 DEF Good
<1>6. ReduceCall(p) = Changed(ReduceChildren(p))
  BY <1>2, Zenon DEF ReduceUnfolds, ReduceConditionalCall, ProgramsAreTrees
<1>7. ReduceCall(p).nodes[1] = ReduceChildren(p)
  BY <1>6, OutcomesAre
<1>. QED  BY <1>5, <1>7 DEF Reduces

-----------------------------------------------------------------------------
(* The runs.                                                               *)

\* A result is what the pass makes of the program.
IsResult ==
  /\ program \in Programs /\ pass \in {"StripFlow", "ReduceConditional"} /\ target \in {"V18", "V19"}
  /\ result # Nothing =>
       result = IF pass = "StripFlow" THEN Strip(program) ELSE ReduceCall(program).nodes[1]

\* PassManager::run returns what the pass made of the program it was given: the
\* theorems below are about that.
LEMMA PassRuns == Spec => []IsResult
<1>1. Init => IsResult
  BY DEF Init, IsResult
<1>2. IsResult /\ [run]_vars => IsResult'
  <2> SUFFICES ASSUME IsResult, [run]_vars PROVE IsResult'
    OBVIOUS
  <2>1. CASE run
    BY <2>1 DEF IsResult, run, Strip
  <2>2. CASE UNCHANGED vars
    BY <2>2 DEF IsResult, vars, Strip
  <2>. QED  BY <2>1, <2>2
<1>. QED  BY <1>1, <1>2, PTL DEF Spec

\* Reducing keeps the branches that run: for every tree that the parser may
\* return, however deep, the tree that ReduceConditional returns takes the same
\* branches wherever a test comes to a literal.
THEOREM ReducingKeepsBranches ==
  ASSUME SubtreesUnfolds, BranchesUnfolds, ReduceUnfolds, ProgramsAreTrees
  PROVE  Spec => []BranchesTaken
<1>1. IsResult => BranchesTaken
  BY ProgramReduces DEF IsResult, BranchesTaken, Ran
<1>. QED  BY <1>1, PassRuns, PTL

-----------------------------------------------------------------------------
(* StripFlow.                                                              *)

StripUnfolds == \A n, react : Tree(n) => StripCall(n, react) = StripFlowCall(n, react)

Replaced == Casts \cup Lowered \cup {"ComponentParameter"}

\* The validation, when all that the parser returns is accepted.
Checked == SubtreesUnfolds /\ AllAccepted
Valid(y) == Checked => validate_tree(y)
Suits(by, kind) == Checked => StandsFor(by, kind)

\* What a node is stripped to: the pass leaves it as it is, called on it or on
\* its children.
Done(y, react) ==
  /\ Tree(y) /\ Shaped(y) /\ ~OnlyTypes(y) /\ y.kind \notin Replaced /\ Valid(y)
  /\ StripCall(y, react) = Changed(y) /\ StripChildren(y, react) = y
Drops(n, react) == OnlyTypes(n) /\ StripCall(n, react) = Removed
Settles(n, react) ==
  /\ ~OnlyTypes(n)
  /\ \E y : /\ StripCall(n, react) = Changed(y) /\ Done(y, react) /\ Suits(y.kind, n.kind)
            /\ n.kind \notin Replaced \cup ExportKinds => y.kind = n.kind /\ y.op = n.op
Expands(n, react) ==
  /\ ~OnlyTypes(n) /\ n.kind \in ExportKinds \cup {"ComponentDeclaration"}
  /\ \E ys : /\ StripCall(n, react) = Expanded(ys) /\ Sequence(ys)
             /\ \A i \in DOMAIN ys : Done(ys[i], react) /\ Suits(ys[i].kind, n.kind)
Strips(n, react) == Tree(n) /\ (Drops(n, react) \/ Settles(n, react) \/ Expands(n, react))

\* The nodes that the nodes of a field are stripped to.
After(nodes, react) == FlattenSeq([i \in DOMAIN nodes |-> StripCall(nodes[i], react).nodes])

LEMMA OutcomesBecome ==
  /\ \A n, y : VisitNode(n, Changed(y)) = y /\ VisitOption(n, Changed(y)) = y /\ VisitElement(n, Changed(y)) = <<y>>
  /\ \A y : Changed(y).nodes = <<y>>
  /\ \A n : VisitElement(n, Removed) = <<>> /\ Removed.nodes = <<>>
  /\ \A n, ys : VisitElement(n, Expanded(ys)) = ys /\ Expanded(ys).nodes = ys
  BY DEF VisitNode, VisitOption, VisitElement, Changed, Removed, Expanded, Outcome

\* What a node in a list is stripped to.
LEMMA ElementStrips ==
  ASSUME NEW n, NEW react, Strips(n, react)
  PROVE  LET out == StripCall(n, react)
         IN  /\ VisitElement(n, out) = out.nodes /\ Sequence(out.nodes)
             /\ \A i \in DOMAIN out.nodes : Done(out.nodes[i], react) /\ Suits(out.nodes[i].kind, n.kind)
             /\ \A y : out = Changed(y) => Done(y, react)
<1> DEFINE out == StripCall(n, react)
<1>1. CASE out = Removed
  <2>1. /\ VisitElement(n, out) = out.nodes /\ Sequence(out.nodes) /\ DOMAIN out.nodes = {}
    BY <1>1, OutcomesBecome, EmptySequence
  <2>2. \A y : out # Changed(y)
    BY <1>1 DEF Removed, Changed, Outcome
  <2>. QED  BY <2>1, <2>2
<1>2. ASSUME NEW y, out = Changed(y), Done(y, react), Suits(y.kind, n.kind)
      PROVE  /\ VisitElement(n, out) = out.nodes /\ Sequence(out.nodes)
             /\ \A i \in DOMAIN out.nodes : Done(out.nodes[i], react) /\ Suits(out.nodes[i].kind, n.kind)
             /\ \A z : out = Changed(z) => Done(z, react)
  <2>1. VisitElement(n, out) = <<y>> /\ out.nodes = <<y>>
    BY <1>2, OutcomesBecome
  <2>2. \A z : out = Changed(z) => z = y
    <3>1. \A z : out = Changed(z) => <<z>> = <<y>>
      BY <2>1, OutcomesBecome
    <3>. QED  BY <3>1
  <2>. QED  BY <1>2, <2>1, <2>2, OneSequence
<1>3. ASSUME NEW ys, out = Expanded(ys), Sequence(ys),
             \A i \in DOMAIN ys : Done(ys[i], react) /\ Suits(ys[i].kind, n.kind)
      PROVE  /\ VisitElement(n, out) = out.nodes /\ Sequence(out.nodes)
             /\ \A i \in DOMAIN out.nodes : Done(out.nodes[i], react) /\ Suits(out.nodes[i].kind, n.kind)
             /\ \A z : out = Changed(z) => Done(z, react)
  <2>1. VisitElement(n, out) = ys /\ out.nodes = ys
    BY <1>3, OutcomesBecome
  <2>2. \A y : out # Changed(y)
    BY <1>3 DEF Expanded, Changed, Outcome
  <2>. QED  BY <1>3, <2>1, <2>2
<1>. QED  BY <1>1, <1>2, <1>3 DEF Strips, Drops, Settles, Expands

Single(sort) == sort \in {"One", "Maybe"}

\* A field of stripped nodes stays.
LEMMA DoneField ==
  ASSUME NEW react, NEW sort \in {"One", "Maybe", "List", "MaybeList"}, NEW nodes, Sequence(nodes),
         \A i \in DOMAIN nodes : Done(nodes[i], react), sort = "One" => Len(nodes) = 1
  PROVE  VisitField(sort, nodes, [i \in DOMAIN nodes |-> StripCall(nodes[i], react)]) = nodes
<1> DEFINE outs == [i \in DOMAIN nodes |-> StripCall(nodes[i], react)]
           now == VisitField(sort, nodes, outs)
<1>1. Len(nodes) \in Nat /\ DOMAIN nodes = 1 .. Len(nodes) /\ nodes = [i \in 1 .. Len(nodes) |-> nodes[i]]
  BY SequenceIs
<1>2. \A i \in DOMAIN nodes : /\ VisitNode(nodes[i], outs[i]) = nodes[i] /\ VisitOption(nodes[i], outs[i]) = nodes[i]
                              /\ VisitElement(nodes[i], outs[i]) = <<nodes[i]>>
  BY OutcomesBecome DEF Done
<1> HIDE DEF outs
<1>3. CASE sort = "One"
  <2>1. now = <<VisitNode(nodes[1], outs[1])>> /\ Len(nodes) = 1 /\ DOMAIN nodes = 1 .. 1
    BY <1>1, <1>3 DEF VisitField
  <2>2. now = <<nodes[1]>>
    BY <1>2, <2>1
  <2>. QED  BY <1>1, <2>1, <2>2, OneSequence, SequencesEqual DEF outs
<1>4. CASE sort = "Maybe"
  <2>1. now = [i \in DOMAIN nodes |-> VisitOption(nodes[i], outs[i])]
    BY <1>4 DEF VisitField
  <2>2. now = nodes
    BY <1>1, <1>2, <2>1
  <2>. QED  BY <2>2 DEF outs
<1>5. CASE sort \in {"List", "MaybeList"}
  <2> DEFINE ss == [i \in DOMAIN nodes |-> VisitElement(nodes[i], outs[i])]
  <2>1. now = FlattenSeq(ss)
    BY <1>5 DEF VisitField
  <2>2. ss = [i \in 1 .. Len(nodes) |-> ss[i]] /\ \A i \in 1 .. Len(nodes) : ss[i] = <<nodes[i]>>
    BY <1>1, <1>2
  <2> HIDE DEF ss
  <2>3. Sequence(ss) /\ Len(ss) = Len(nodes)
    BY <1>1, <2>2, IsSequence
  <2>4. FlattenSeq(ss) = nodes
    BY <2>2, <2>3, FlattenSingles
  <2>. QED  BY <2>1, <2>4 DEF outs
<1>. QED  BY <1>3, <1>4, <1>5

\* A node without its types, which is what the handlers for one node make of it
\* before they visit its children.
CleanedFlags(kind) ==
  IF kind \in PatternKinds THEN {"optional"} ELSE IF kind \in PropertyKinds THEN {"declare", "optional"} ELSE {}
NoThis(nodes) == FlattenSeq([i \in DOMAIN nodes |-> IF IsThis(nodes[i]) THEN <<>> ELSE <<nodes[i]>>])
CleanedField(n, f) ==
  IF f \in TypeFields(n.kind) THEN None
  ELSE IF f = "params" /\ n.kind \in ThisKinds THEN NoThis(n.k[f]) ELSE n.k[f]
Cleaned(n) ==
  Node(n.kind, n.op, n.flags \ CleanedFlags(n.kind), [f \in Fields(n) |-> CleanedField(n, f)])
LowersDeclared(n) ==
  \/ n.kind = "ExportNamedDeclaration" /\ n.op = "value" /\ DeclaredKind(n) = "ComponentDeclaration"
  \/ n.kind = "ExportDefaultDeclaration" /\ DeclaredKind(n) \in {"ComponentDeclaration", "EnumDeclaration"}
\* Nodes that no handler takes types out of have none.
NoOtherTypes(n) == n.kind \notin TypedKinds => \A f \in TypeFields(n.kind) \cap Fields(n) : n.k[f] = None

LEMMA WithoutMade ==
  ASSUME NEW kind, NEW op, NEW had, NEW k, NEW fields, NEW flags
  PROVE  Without(Node(kind, op, had, k), fields, flags)
           = Node(kind, op, had \ flags, [f \in DOMAIN k |-> IF f \in fields THEN None ELSE k[f]])
<1> DEFINE n == Node(kind, op, had, k)
           left == had \ flags
           now == [f \in DOMAIN k |-> IF f \in fields THEN None ELSE k[f]]
<1>1. n.flags = had /\ n.k = k
  BY DEF Node
<1>2. Without(n, fields, flags) = [[n EXCEPT !.flags = left] EXCEPT !.k = now]
  <2> HIDE DEF n
  <2>. QED  BY <1>1 DEF Without
<1> HIDE DEF left, now
<1>3. [n EXCEPT !.flags = left] = Node(kind, op, left, k)
  BY DEF Node
<1>4. [Node(kind, op, left, k) EXCEPT !.k = now] = Node(kind, op, left, now)
  BY DEF Node
<1>. QED  BY <1>2, <1>3, <1>4 DEF left, now

LEMMA WithoutIs ==
  ASSUME NEW n, IsNode(n), NEW fields, NEW flags
  PROVE  Without(n, fields, flags)
           = Node(n.kind, n.op, n.flags \ flags, [f \in Fields(n) |-> IF f \in fields THEN None ELSE n.k[f]])
<1>1. n = Node(n.kind, n.op, n.flags, n.k) /\ DOMAIN n.k = Fields(n)
  BY DEF IsNode, Fields
<1>. QED  BY <1>1, WithoutMade

LEMMA WithoutThisIs ==
  ASSUME NEW n, IsNode(n), "params" \in Fields(n)
  PROVE  WithoutThis(n)
           = Node(n.kind, n.op, n.flags, [f \in Fields(n) |-> IF f = "params" THEN NoThis(n.k.params) ELSE n.k[f]])
<1> DEFINE k == [n.k EXCEPT !.params = NoThis(n.k.params)]
<1>1. WithoutThis(n) = [n EXCEPT !.k = k]
  BY DEF WithoutThis, NoThis
<1>2. k = [f \in Fields(n) |-> IF f = "params" THEN NoThis(n.k.params) ELSE n.k[f]]
  <2>1. n.k = [f \in Fields(n) |-> n.k[f]]
    BY DEF IsNode
  <2>. QED  BY <2>1
<1> HIDE DEF k
<1>3. WithoutThis(n) = Node(n.kind, n.op, n.flags, k)
  BY <1>1, Rebuilt
<1>. QED  BY <1>2, <1>3

\* What the handler of a kind does.
LEMMA HandlerIs ==
  ASSUME StripUnfolds, NEW react, NEW n, Tree(n), Shaped(n),
         ~OnlyTypes(n), n.kind \notin Replaced, ~LowersDeclared(n), NoOtherTypes(n)
  PROVE  StripCall(n, react) = Changed(StripChildren(Cleaned(n), react))
<1> DEFINE Plain(fields, flags) ==
             Node(n.kind, n.op, n.flags \ flags, [f \in Fields(n) |-> IF f \in fields THEN None ELSE n.k[f]])
<1>1. StripCall(n, react) = StripFlowCall(n, react)
  BY DEF StripUnfolds
<1>2. IsNode(n)
  BY TreeIs
<1>3. /\ n.kind \in DOMAIN Kinds /\ Fields(n) = DOMAIN Kinds[n.kind].fields
  BY DEF Shaped
<1>4. \A fields, flags : Without(n, fields, flags) = Plain(fields, flags)
  BY <1>2, WithoutIs
<1>5. n.kind \notin ThisKinds => Cleaned(n) = Plain(TypeFields(n.kind), CleanedFlags(n.kind))
  <2> SUFFICES ASSUME n.kind \notin ThisKinds PROVE Cleaned(n) = Plain(TypeFields(n.kind), CleanedFlags(n.kind))
    OBVIOUS
  <2>1. \A f \in Fields(n) : CleanedField(n, f) = IF f \in TypeFields(n.kind) THEN None ELSE n.k[f]
    BY DEF CleanedField
  <2>2. [f \in Fields(n) |-> CleanedField(n, f)]
          = [f \in Fields(n) |-> IF f \in TypeFields(n.kind) THEN None ELSE n.k[f]]
    BY <2>1
  <2>. QED  BY <2>2 DEF Cleaned
<1>6. CASE n.kind \in PatternKinds
  <2>1. TypeFields(n.kind) = {"type_annotation"} /\ CleanedFlags(n.kind) = {"optional"} /\ n.kind \notin ThisKinds
    BY <1>6, TypesAssumption DEF CleanedFlags, PatternKinds, ThisKinds
  <2>2. StripFlowCall(n, react) = ReplaceWith(Without(n, {"type_annotation"}, {"optional"}), react)
    BY <1>6 DEF StripFlowCall, PatternKinds, Replaced, Casts, Lowered, ThisKinds
  <2>. QED  BY <1>1, <1>4, <1>5, <2>1, <2>2 DEF ReplaceWith
<1>7. CASE n.kind \in ThisKinds
  <2>1. TypeFields(n.kind) = FunctionTypes /\ CleanedFlags(n.kind) = {}
    BY <1>7, TypesAssumption DEF CleanedFlags, PatternKinds, PropertyKinds, ThisKinds
  <2>2. StripFlowCall(n, react) = ReplaceWith(Without(WithoutThis(n), FunctionTypes, {}), react)
    BY <1>7 DEF StripFlowCall, Replaced, Casts, Lowered, ThisKinds
  <2>3. "params" \in Fields(n) /\ "params" \notin FunctionTypes
    <3>1. Sorts(n.kind, {"params"}, {"List"}) /\ "params" \notin TypeFields(n.kind)
      BY <1>7, SortsAssumption
    <3>. QED  BY <1>3, <2>1, <3>1 DEF Sorts
  <2> DEFINE k == [f \in Fields(n) |-> IF f = "params" THEN NoThis(n.k.params) ELSE n.k[f]]
             m == WithoutThis(n)
  <2>4. m = Node(n.kind, n.op, n.flags, k)
    BY <1>2, <2>3, WithoutThisIs
  <2>5. DOMAIN k = Fields(n) /\ k = [f \in Fields(n) |-> k[f]]
        /\ \A f \in Fields(n) : k[f] = IF f = "params" THEN NoThis(n.k.params) ELSE n.k[f]
    OBVIOUS
  <2>6. CleanedField(n, "params") = NoThis(n.k.params)
    BY <1>7, <2>1, <2>3 DEF CleanedField
  <2>7. \A f \in Fields(n) : CleanedField(n, f) = IF f \in FunctionTypes THEN None ELSE k[f]
    BY <1>7, <2>1, <2>3, <2>5, <2>6 DEF CleanedField
  <2> HIDE DEF k, m
  <2>8. m.kind = n.kind /\ m.op = n.op /\ m.flags = n.flags /\ m.k = k /\ Fields(m) = Fields(n)
    BY <2>4, <2>5 DEF Node, Fields
  <2>9. Without(m, FunctionTypes, {})
          = Node(n.kind, n.op, n.flags \ {}, [f \in Fields(n) |-> IF f \in FunctionTypes THEN None ELSE k[f]])
    BY <2>4, <2>5, WithoutMade
  <2>10. Cleaned(n)
           = Node(n.kind, n.op, n.flags \ {}, [f \in Fields(n) |-> IF f \in FunctionTypes THEN None ELSE k[f]])
    BY <2>1, <2>7 DEF Cleaned
  <2>. QED  BY <1>1, <2>2, <2>9, <2>10 DEF ReplaceWith, m
<1>8. CASE n.kind = "ArrowFunctionExpression"
  <2>1. TypeFields(n.kind) = FunctionTypes /\ CleanedFlags(n.kind) = {} /\ n.kind \notin ThisKinds
    BY <1>8, TypesAssumption DEF CleanedFlags, PatternKinds, PropertyKinds, ThisKinds
  <2>2. StripFlowCall(n, react) = ReplaceWith(Without(n, FunctionTypes, {}), react)
    BY <1>8 DEF StripFlowCall, Replaced, Casts, Lowered
  <2>. QED  BY <1>1, <1>4, <1>5, <2>1, <2>2 DEF ReplaceWith
<1>9. CASE n.kind \in ClassKinds
  <2>1. TypeFields(n.kind) = ClassTypes /\ CleanedFlags(n.kind) = {} /\ n.kind \notin ThisKinds
    BY <1>9, TypesAssumption DEF CleanedFlags, PatternKinds, PropertyKinds, ThisKinds, ClassKinds
  <2>2. StripFlowCall(n, react) = ReplaceWith(Without(n, ClassTypes, {}), react)
    BY <1>9 DEF StripFlowCall, Replaced, Casts, Lowered, ClassKinds
  <2>. QED  BY <1>1, <1>4, <1>5, <2>1, <2>2 DEF ReplaceWith
<1>10. CASE n.kind \in PropertyKinds
  <2>1. TypeFields(n.kind) = FieldTypes /\ CleanedFlags(n.kind) = {"declare", "optional"} /\ n.kind \notin ThisKinds
    BY <1>10, TypesAssumption DEF CleanedFlags, PatternKinds, PropertyKinds, ThisKinds
  <2>2. StripFlowCall(n, react) = ReplaceWith(Without(n, FieldTypes, {"declare", "optional"}), react)
    BY <1>10 DEF StripFlowCall, Replaced, Casts, Lowered, PropertyKinds
  <2>. QED  BY <1>1, <1>4, <1>5, <2>1, <2>2 DEF ReplaceWith
<1>11. CASE n.kind \in CallKinds
  <2>1. TypeFields(n.kind) = {"type_arguments"} /\ CleanedFlags(n.kind) = {} /\ n.kind \notin ThisKinds
    BY <1>11, TypesAssumption DEF CleanedFlags, PatternKinds, PropertyKinds, ThisKinds, CallKinds
  <2>2. StripFlowCall(n, react) = ReplaceWith(Without(n, {"type_arguments"}, {}), react)
    BY <1>11 DEF StripFlowCall, Replaced, Casts, Lowered, CallKinds
  <2>. QED  BY <1>1, <1>4, <1>5, <2>1, <2>2 DEF ReplaceWith
<1>12. CASE n.kind \notin TypedKinds
  <2>1. CleanedFlags(n.kind) = {} /\ n.kind \notin ThisKinds
    BY <1>12 DEF CleanedFlags, TypedKinds
  <2>2. StripFlowCall(n, react) = Changed(StripChildren(n, react))
    BY <1>12 DEF StripFlowCall, Replaced, Casts, Lowered, TypedKinds, PatternKinds, ThisKinds, ClassKinds, PropertyKinds, CallKinds, LowersDeclared
  <2>3. \A f \in Fields(n) : (IF f \in TypeFields(n.kind) THEN None ELSE n.k[f]) = n.k[f]
    BY <1>12 DEF NoOtherTypes
  <2>4. Cleaned(n) = Node(n.kind, n.op, n.flags \ {}, [f \in Fields(n) |-> n.k[f]])
    <3>1. [f \in Fields(n) |-> IF f \in TypeFields(n.kind) THEN None ELSE n.k[f]] = [f \in Fields(n) |-> n.k[f]]
      BY <2>3
    <3>. QED  BY <1>5, <2>1, <3>1
  <2>5. Cleaned(n) = n
    <3>1. n = Node(n.kind, n.op, n.flags, n.k) /\ n.k = [f \in Fields(n) |-> n.k[f]]
      BY <1>2 DEF IsNode
    <3>2. n.flags \ {} = n.flags
      OBVIOUS
    <3>. QED  BY <2>4, <3>1, <3>2
  <2>. QED  BY <1>1, <2>2, <2>5
<1>. QED  BY <1>6, <1>7, <1>8, <1>9, <1>10, <1>11, <1>12 DEF TypedKinds, Replaced

LEMMA NoThisIs ==
  ASSUME NEW nodes, Sequence(nodes)
  PROVE  /\ Sequence(NoThis(nodes)) /\ \A x \in Range(NoThis(nodes)) : x \in Range(nodes) /\ ~IsThis(x)
         /\ (\A i \in DOMAIN nodes : ~IsThis(nodes[i])) => NoThis(nodes) = nodes
<1> DEFINE ss == [i \in DOMAIN nodes |-> IF IsThis(nodes[i]) THEN <<>> ELSE <<nodes[i]>>]
<1>1. Len(nodes) \in Nat /\ DOMAIN nodes = 1 .. Len(nodes)
  BY SequenceIs
<1>2. ss = [i \in 1 .. Len(nodes) |-> ss[i]]
      /\ \A i \in 1 .. Len(nodes) : ss[i] = IF IsThis(nodes[i]) THEN <<>> ELSE <<nodes[i]>>
  BY <1>1
<1>3. NoThis(nodes) = FlattenSeq(ss)
  BY DEF NoThis
<1> HIDE DEF ss
<1>4. Sequence(ss) /\ Len(ss) = Len(nodes)
  BY <1>1, <1>2, IsSequence
<1>5. ASSUME NEW i \in 1 .. Len(nodes)
      PROVE  Sequence(ss[i]) /\ \A x \in Range(ss[i]) : x \in Range(nodes) /\ ~IsThis(x)
  <2>1. CASE IsThis(nodes[i])
    <3>1. ss[i] = <<>> /\ Range(<<>>) = {}
      BY <1>2, <2>1 DEF Range
    <3>. QED  BY <3>1, EmptySequence
  <2>2. CASE ~IsThis(nodes[i])
    <3>1. ss[i] = <<nodes[i]>> /\ Range(<<nodes[i]>>) = {nodes[i]}
      BY <1>2, <2>2 DEF Range
    <3>2. nodes[i] \in Range(nodes)
      BY <1>1 DEF Range
    <3>. QED  BY <2>2, <3>1, <3>2, OneSequence
  <2>. QED  BY <2>1, <2>2
<1>6. Sequence(FlattenSeq(ss)) /\ \A x \in Range(FlattenSeq(ss)) : \E i \in 1 .. Len(ss) : x \in Range(ss[i])
  BY <1>4, <1>5, FlattenSequence
<1>7. ASSUME \A i \in DOMAIN nodes : ~IsThis(nodes[i]) PROVE NoThis(nodes) = nodes
  <2>1. \A i \in 1 .. Len(nodes) : ss[i] = <<nodes[i]>>
    BY <1>1, <1>2, <1>7
  <2>. QED  BY <1>3, <1>4, <2>1, FlattenSingles
<1>. QED  BY <1>3, <1>4, <1>5, <1>6, <1>7

\* No handler takes anything out of the node.
IsClean(n) ==
  /\ n.flags \cap CleanedFlags(n.kind) = {}
  /\ \A f \in Fields(n) :
       /\ f \in TypeFields(n.kind) => n.k[f] = None
       /\ f = "params" /\ n.kind \in ThisKinds => \A i \in DOMAIN n.k[f] : ~IsThis(n.k[f][i])

LEMMA CleanStays ==
  ASSUME NEW n, IsNode(n), IsClean(n)
  PROVE  Cleaned(n) = n
<1>1. n.flags \ CleanedFlags(n.kind) = n.flags
  BY DEF IsClean
<1>2. \A f \in Fields(n) : CleanedField(n, f) = n.k[f]
  BY NoThisIs DEF IsClean, CleanedField, IsNode
<1>3. [f \in Fields(n) |-> CleanedField(n, f)] = [f \in Fields(n) |-> n.k[f]]
  BY <1>2
<1>4. n = Node(n.kind, n.op, n.flags, n.k) /\ n.k = [f \in Fields(n) |-> n.k[f]]
  BY DEF IsNode
<1>. QED  BY <1>1, <1>3, <1>4 DEF Cleaned

LEMMA CleanedIs ==
  ASSUME NEW n, Tree(n), Shaped(n), n.kind \notin Casts, NoOtherTypes(n)
  PROVE  LET m == Cleaned(n)
         IN  /\ IsNode(m) /\ Shaped(m) /\ IsClean(m) /\ m.kind = n.kind /\ m.op = n.op /\ Fields(m) = Fields(n)
             /\ m.flags \subseteq n.flags
             /\ \A f \in Fields(n) : /\ m.k[f] = CleanedField(n, f)
                                     /\ \A x \in Range(m.k[f]) : x \in Range(n.k[f]) /\ f \notin TypeFields(n.kind)
<1> DEFINE m == Cleaned(n)
           k == [f \in Fields(n) |-> CleanedField(n, f)]
<1>1. IsNode(n)
  BY TreeIs
<1>2. n.kind \in DOMAIN Kinds /\ Fields(n) = DOMAIN Kinds[n.kind].fields
  BY DEF Shaped
<1>3. DOMAIN k = Fields(n) /\ k = [f \in Fields(n) |-> k[f]] /\ \A f \in Fields(n) : k[f] = CleanedField(n, f)
  OBVIOUS
<1>4. m = Node(n.kind, n.op, n.flags \ CleanedFlags(n.kind), k)
  BY DEF Cleaned
<1> HIDE DEF k, m
<1>5. m.kind = n.kind /\ m.op = n.op /\ m.flags = n.flags \ CleanedFlags(n.kind) /\ m.k = k
  BY <1>4, NodeIs
<1>6. Fields(m) = Fields(n)
  BY <1>3, <1>5 DEF Fields
<1>7. ASSUME NEW f \in Fields(n)
      PROVE  /\ Sequence(k[f]) /\ \A x \in Range(k[f]) : x \in Range(n.k[f]) /\ f \notin TypeFields(n.kind)
             /\ f = "params" /\ n.kind \in ThisKinds => \A i \in DOMAIN k[f] : ~IsThis(k[f][i])
             /\ f \in TypeFields(n.kind) => k[f] = None
             /\ SortOf(n, f) \in {"One", "Maybe"} => k[f] = n.k[f] \/ (SortOf(n, f) = "Maybe" /\ k[f] = None)
  <2>0. Sequence(n.k[f])
    BY <1>1 DEF IsNode
  <2>1. CASE f \in TypeFields(n.kind)
    <3>1. k[f] = None
      BY <1>3, <2>1 DEF CleanedField
    <3>2. SortOf(n, f) = "One" => k[f] = n.k[f]
      <4>1. CASE n.kind \in TypedKinds
        <5>1. Sorts(n.kind, TypeFields(n.kind), {"Maybe", "List"})
          BY <4>1, TypesAssumption
        <5>. QED  BY <2>1, <5>1 DEF Sorts, SortOf
      <4>2. CASE n.kind \notin TypedKinds
        BY <2>1, <3>1, <4>2 DEF NoOtherTypes
      <4>. QED  BY <4>1, <4>2
    <3>3. Sequence(None) /\ Range(None) = {}
      BY EmptySequence DEF None, Range
    <3>4. f = "params" => n.kind \notin ThisKinds
      <4> SUFFICES ASSUME f = "params", n.kind \in ThisKinds PROVE FALSE
        OBVIOUS
      <4>1. "params" \notin TypeFields(n.kind)
        BY SortsAssumption
      <4>. QED  BY <2>1, <4>1
    <3>. QED  BY <3>1, <3>2, <3>3, <3>4
  <2>2. CASE f \notin TypeFields(n.kind) /\ f = "params" /\ n.kind \in ThisKinds
    <3>1. k[f] = NoThis(n.k[f])
      BY <1>3, <2>2 DEF CleanedField
    <3>2. Sequence(k[f]) /\ \A x \in Range(k[f]) : x \in Range(n.k[f]) /\ ~IsThis(x)
      BY <2>0, <3>1, NoThisIs
    <3>3. SortOf(n, f) = "List"
      <4>1. Sorts(n.kind, {"params"}, {"List"})
        BY <2>2, SortsAssumption
      <4>. QED  BY <2>2, <4>1 DEF Sorts, SortOf
    <3>4. \A i \in DOMAIN k[f] : ~IsThis(k[f][i])
      BY <3>2 DEF Range
    <3>. QED  BY <2>2, <3>2, <3>3, <3>4
  <2>3. CASE f \notin TypeFields(n.kind) /\ ~(f = "params" /\ n.kind \in ThisKinds)
    <3>1. k[f] = n.k[f]
      BY <1>3, <2>3 DEF CleanedField
    <3>. QED  BY <2>0, <2>3, <3>1
  <2>. QED  BY <2>1, <2>2, <2>3
<1>8. IsNode(m)
  <2>1. m = Node(m.kind, m.op, m.flags, m.k)
    BY <1>4, <1>5
  <2>. QED  BY <1>3, <1>5, <1>6, <1>7, <2>1 DEF IsNode
<1>9. Shaped(m)
  <2>1. ASSUME NEW f \in Fields(m)
        PROVE  SortOf(m, f) = SortOf(n, f) /\ (SortOf(m, f) = "One" => Len(m.k[f]) = 1)
               /\ (SortOf(m, f) = "Maybe" => Len(m.k[f]) <= 1)
    <3>1. SortOf(m, f) = SortOf(n, f)
      BY <1>5 DEF SortOf
    <3>2. /\ SortOf(n, f) = "One" => Len(n.k[f]) = 1
          /\ SortOf(n, f) = "Maybe" => Len(n.k[f]) <= 1
      BY <1>6, ShapedField
    <3>3. Len(None) = 0
      BY DEF None
    <3>4. m.k[f] = k[f] /\ f \in Fields(n)
      BY <1>5, <1>6
    <3>5. SortOf(n, f) \in {"One", "Maybe"} => k[f] = n.k[f] \/ (SortOf(n, f) = "Maybe" /\ k[f] = None)
      BY <1>7, <3>4
    <3>. QED  BY <3>1, <3>2, <3>3, <3>4, <3>5
  <2>. QED  BY <1>2, <1>5, <1>6, <2>1 DEF Shaped
<1>10. IsClean(m)
  <2>1. m.flags \cap CleanedFlags(m.kind) = {}
    BY <1>5
  <2>. QED  BY <1>5, <1>6, <1>7, <2>1 DEF IsClean
<1>11. /\ IsNode(m) /\ Shaped(m) /\ IsClean(m) /\ m.kind = n.kind /\ m.op = n.op /\ Fields(m) = Fields(n)
       /\ m.flags \subseteq n.flags
       /\ \A f \in Fields(n) : /\ m.k[f] = CleanedField(n, f)
                               /\ \A x \in Range(m.k[f]) : x \in Range(n.k[f]) /\ f \notin TypeFields(n.kind)
  BY <1>3, <1>5, <1>6, <1>7, <1>8, <1>9, <1>10
<1>. QED  BY <1>11 DEF m

\* The children of a node can be stripped where they stand.
ChildrenStrip(m, react) ==
  \A f \in Fields(m) : \A x \in Range(m.k[f]) : Strips(x, react) /\ (InList(m, f) \/ Settles(x, react))

LEMMA FieldStrips ==
  ASSUME NEW react, NEW m, IsNode(m), Shaped(m), ChildrenStrip(m, react), NEW f \in Fields(m),
         NEW now, now = VisitField(SortOf(m, f), m.k[f], [i \in DOMAIN m.k[f] |-> StripCall(m.k[f][i], react)])
  PROVE  /\ now = After(m.k[f], react) /\ Sequence(now)
         /\ \A x \in Range(now) :
              Done(x, react) /\ \E i \in DOMAIN m.k[f] : x \in Range(StripCall(m.k[f][i], react).nodes)
         /\ ~InList(m, f) =>
              Len(now) = Len(m.k[f]) /\ \A i \in DOMAIN m.k[f] : StripCall(m.k[f][i], react) = Changed(now[i])
<1> DEFINE nodes == m.k[f]
           sort == SortOf(m, f)
           outs == [i \in DOMAIN nodes |-> StripCall(nodes[i], react)]
<1>a. Sequence(nodes)
  BY DEF IsNode
<1>b. sort \in {"One", "Maybe", "List", "MaybeList"} /\ (sort = "One" => Len(nodes) = 1)
  BY ShapedField
<1>c. \A i \in DOMAIN nodes : Strips(nodes[i], react)
  BY DEF ChildrenStrip, Range
<1>d. Single(sort) => \A i \in DOMAIN nodes : Settles(nodes[i], react)
  BY DEF ChildrenStrip, Range, InList, Single
<1>e. \A i \in DOMAIN nodes : outs[i] = StripCall(nodes[i], react)
  OBVIOUS
<1>f. now = VisitField(sort, nodes, outs)
  OBVIOUS
<1>g. ~InList(m, f) => Single(sort)
  BY <1>b DEF InList, Single
<1> HIDE DEF nodes, sort, outs
<1> DEFINE ss == [i \in DOMAIN nodes |-> StripCall(nodes[i], react).nodes]
<1>1. Len(nodes) \in Nat /\ DOMAIN nodes = 1 .. Len(nodes)
  BY <1>a, SequenceIs
<1>2. ASSUME NEW i \in DOMAIN nodes
      PROVE  /\ VisitElement(nodes[i], outs[i]) = ss[i] /\ Sequence(ss[i])
             /\ \A x \in Range(ss[i]) : Done(x, react)
  BY <1>c, <1>e, ElementStrips DEF Range
<1>3. Sequence(ss) /\ Len(ss) = Len(nodes)
  <2>1. ss = [i \in 1 .. Len(nodes) |-> ss[i]]
    BY <1>1
  <2> HIDE DEF ss
  <2>. QED  BY <1>1, <2>1, IsSequence
<1>4. After(nodes, react) = FlattenSeq(ss)
  BY DEF After
<1>5. \A i \in DOMAIN nodes : ss[i] = StripCall(nodes[i], react).nodes
  OBVIOUS
<1>6. Sequence(After(nodes, react)) /\ \A x \in Range(After(nodes, react)) : \E i \in 1 .. Len(ss) : x \in Range(ss[i])
  <2> HIDE DEF ss
  <2>. QED  BY <1>1, <1>2, <1>3, <1>4, FlattenSequence
<1>7. \A x \in Range(After(nodes, react)) :
        Done(x, react) /\ \E i \in DOMAIN nodes : x \in Range(StripCall(nodes[i], react).nodes)
  <2> HIDE DEF ss
  <2>. QED  BY <1>1, <1>2, <1>3, <1>5, <1>6
<1> DEFINE Goal ==
             /\ now = After(nodes, react) /\ Sequence(now)
             /\ Single(sort) => Len(now) = Len(nodes)
             /\ Single(sort) => \A i \in DOMAIN nodes : StripCall(nodes[i], react) = Changed(now[i])
<1>8. ASSUME sort \in {"List", "MaybeList"} PROVE Goal
  <2>1. now = FlattenSeq([i \in DOMAIN nodes |-> VisitElement(nodes[i], outs[i])])
    BY <1>8, <1>f DEF VisitField
  <2>2. [i \in DOMAIN nodes |-> VisitElement(nodes[i], outs[i])] = ss
    BY <1>2
  <2>3. now = After(nodes, react)
    BY <1>4, <2>1, <2>2
  <2>. QED  BY <1>6, <1>8, <2>3 DEF Single
<1>9. ASSUME Single(sort) PROVE Goal
  <2>1. ASSUME NEW i \in DOMAIN nodes
        PROVE  \E y : outs[i] = Changed(y) /\ VisitNode(nodes[i], outs[i]) = y /\ VisitOption(nodes[i], outs[i]) = y
                      /\ ss[i] = <<y>>
    BY <1>9, <1>d, <1>e, <2>1, OutcomesBecome DEF Settles
  <2>2. now = [i \in 1 .. Len(nodes) |-> now[i]] /\ \A i \in DOMAIN nodes : outs[i] = Changed(now[i]) /\ ss[i] = <<now[i]>>
    <3>1. CASE sort = "One"
      <4>1. now = <<VisitNode(nodes[1], outs[1])>> /\ Len(nodes) = 1 /\ DOMAIN nodes = 1 .. 1
        BY <1>1, <1>b, <1>f, <3>1 DEF VisitField
      <4>2. now = [i \in 1 .. 1 |-> now[i]] /\ now[1] = VisitNode(nodes[1], outs[1])
        BY <4>1
      <4> HIDE DEF ss
      <4>. QED  BY <2>1, <4>1, <4>2
    <3>2. CASE sort = "Maybe"
      <4>1. now = [i \in DOMAIN nodes |-> VisitOption(nodes[i], outs[i])]
        BY <1>f, <3>2 DEF VisitField
      <4> HIDE DEF ss
      <4>. QED  BY <1>1, <2>1, <4>1
    <3>. QED  BY <1>9, <3>1, <3>2 DEF Single
  <2> HIDE DEF ss
  <2>3. Sequence(now) /\ Len(now) = Len(nodes)
    BY <1>1, <2>2, IsSequence
  <2>4. FlattenSeq(ss) = now
    BY <1>1, <1>3, <2>2, <2>3, FlattenSingles
  <2>5. now = After(nodes, react)
    BY <1>4, <2>4
  <2>6. \A i \in DOMAIN nodes : StripCall(nodes[i], react) = Changed(now[i])
    BY <1>e, <2>2
  <2>. QED  BY <1>6, <2>3, <2>5, <2>6
<1>10. Goal
  BY <1>b, <1>8, <1>9 DEF Single
<1>. QED  BY <1>7, <1>10, <1>g DEF nodes, sort

LEMMA StrippedChildren ==
  ASSUME NEW react, NEW m, IsNode(m), Shaped(m), ChildrenStrip(m, react)
  PROVE  LET y == StripChildren(m, react)
         IN  /\ Tree(m) /\ Tree(y) /\ Shaped(y) /\ y = Node(m.kind, m.op, m.flags, y.k)
             /\ y.kind = m.kind /\ y.op = m.op /\ y.flags = m.flags /\ Fields(y) = Fields(m)
             /\ StripChildren(y, react) = y
             /\ \A f \in Fields(m) :
                  /\ y.k[f] = After(m.k[f], react)
                  /\ \A x \in Range(y.k[f]) :
                       Done(x, react) /\ \E i \in DOMAIN m.k[f] : x \in Range(StripCall(m.k[f][i], react).nodes)
                  /\ ~InList(m, f) =>
                       Len(y.k[f]) = Len(m.k[f]) /\ \A i \in DOMAIN m.k[f] : StripCall(m.k[f][i], react) = Changed(y.k[f][i])
<1> DEFINE y == StripChildren(m, react)
           k == [f \in Fields(m) |->
                   VisitField(SortOf(m, f), m.k[f], [i \in DOMAIN m.k[f] |-> StripCall(m.k[f][i], react)])]
<1>1. y = Node(m.kind, m.op, m.flags, k)
  <2>1. y = [m EXCEPT !.k = k]
    BY DEF StripChildren, VisitChildren, SortOf
  <2> HIDE DEF y, k
  <2>. QED  BY <2>1, Rebuilt
<1>2. DOMAIN k = Fields(m) /\ k = [f \in Fields(m) |-> k[f]]
      /\ \A f \in Fields(m) :
           k[f] = VisitField(SortOf(m, f), m.k[f], [i \in DOMAIN m.k[f] |-> StripCall(m.k[f][i], react)])
  OBVIOUS
<1> HIDE DEF k, y
<1>3. y.kind = m.kind /\ y.op = m.op /\ y.flags = m.flags /\ y.k = k
  BY <1>1, NodeIs
<1>4. Fields(y) = Fields(m)
  BY <1>2, <1>3 DEF Fields
<1>5. ASSUME NEW f \in Fields(m)
      PROVE  /\ k[f] = After(m.k[f], react) /\ Sequence(k[f])
             /\ \A x \in Range(k[f]) :
                  Done(x, react) /\ \E i \in DOMAIN m.k[f] : x \in Range(StripCall(m.k[f][i], react).nodes)
             /\ ~InList(m, f) =>
                  Len(k[f]) = Len(m.k[f]) /\ \A i \in DOMAIN m.k[f] : StripCall(m.k[f][i], react) = Changed(k[f][i])
  <2>1. k[f] = VisitField(SortOf(m, f), m.k[f], [i \in DOMAIN m.k[f] |-> StripCall(m.k[f][i], react)])
    BY <1>2
  <2>. QED  BY <2>1, FieldStrips
<1>6. Tree(m)
  <2>1. \A c \in Children(m) : Tree(c)
    BY DEF ChildrenStrip, Strips, Children, Range
  <2>. QED  BY <2>1, TreeMade
<1>7. \A f \in Fields(m) : Sequence(k[f]) /\ \A i \in DOMAIN k[f] : Done(k[f][i], react)
  BY <1>5 DEF Range
<1>8. Tree(y)
  <2>1. \A f \in Fields(m) : Sequence(k[f]) /\ \A i \in DOMAIN k[f] : Tree(k[f][i])
    BY <1>7 DEF Done
  <2>. QED  BY <1>1, <1>2, <2>1, RebuiltTree
<1>9. \A f \in Fields(m) : SortOf(y, f) = SortOf(m, f)
  BY <1>3 DEF SortOf
<1>10. ASSUME NEW f \in Fields(m)
       PROVE  /\ SortOf(m, f) = "One" => Len(k[f]) = 1
              /\ SortOf(m, f) = "Maybe" => Len(k[f]) <= 1
              /\ SortOf(m, f) \in {"One", "Maybe", "List", "MaybeList"}
  <2>1. /\ SortOf(m, f) = "One" => Len(m.k[f]) = 1
        /\ SortOf(m, f) = "Maybe" => Len(m.k[f]) <= 1
        /\ SortOf(m, f) \in {"One", "Maybe", "List", "MaybeList"}
    BY ShapedField
  <2>2. SortOf(m, f) \in {"One", "Maybe"} => Len(k[f]) = Len(m.k[f])
    BY <1>5 DEF InList
  <2>. QED  BY <2>1, <2>2
<1>11. Shaped(y)
  BY <1>3, <1>4, <1>9, <1>10 DEF Shaped
<1>12. StripChildren(y, react) = y
  <2> DEFINE kk == [f \in Fields(y) |->
                      VisitField(SortOf(y, f), y.k[f], [i \in DOMAIN y.k[f] |-> StripCall(y.k[f][i], react)])]
  <2>1. StripChildren(y, react) = [y EXCEPT !.k = kk]
    BY DEF StripChildren, VisitChildren, SortOf
  <2>2. ASSUME NEW f \in Fields(y)
        PROVE  VisitField(SortOf(y, f), y.k[f], [i \in DOMAIN y.k[f] |-> StripCall(y.k[f][i], react)]) = k[f]
    <3>1. y.k[f] = k[f] /\ Sequence(k[f]) /\ \A i \in DOMAIN k[f] : Done(k[f][i], react)
      BY <1>3, <1>4, <1>7
    <3>2. SortOf(y, f) \in {"One", "Maybe", "List", "MaybeList"} /\ (SortOf(y, f) = "One" => Len(k[f]) = 1)
      BY <1>4, <1>9, <1>10
    <3>. QED  BY <3>1, <3>2, DoneField
  <2>3. kk = k
    <3>1. kk = [f \in Fields(m) |-> k[f]]
      BY <1>4, <2>2
    <3>. QED  BY <1>2, <3>1
  <2> HIDE DEF kk
  <2>4. IsNode(y)
    BY <1>8, TreeIs
  <2>5. [y EXCEPT !.k = kk] = Node(y.kind, y.op, y.flags, kk)
    BY <2>4, Rebuilt
  <2>. QED  BY <1>1, <1>3, <2>1, <2>3, <2>5
<1>13. /\ Tree(m) /\ Tree(y) /\ Shaped(y) /\ y = Node(m.kind, m.op, m.flags, y.k)
       /\ y.kind = m.kind /\ y.op = m.op /\ y.flags = m.flags /\ Fields(y) = Fields(m)
       /\ StripChildren(y, react) = y
  BY <1>1, <1>3, <1>4, <1>6, <1>8, <1>11, <1>12
<1>14. \A f \in Fields(m) :
         /\ y.k[f] = After(m.k[f], react)
         /\ \A x \in Range(y.k[f]) :
              Done(x, react) /\ \E i \in DOMAIN m.k[f] : x \in Range(StripCall(m.k[f][i], react).nodes)
         /\ ~InList(m, f) =>
              Len(y.k[f]) = Len(m.k[f]) /\ \A i \in DOMAIN m.k[f] : StripCall(m.k[f][i], react) = Changed(y.k[f][i])
  BY <1>3, <1>5
<1>. QED  BY <1>13, <1>14 DEF y

(* The validation of what a visit leaves.                                  *)

LEMMA ValidMade ==
  ASSUME SubtreesUnfolds, NEW y, Tree(y), validate_node(y), \A c \in Children(y) : validate_tree(c)
  PROVE  validate_tree(y)
<1>1. Subtrees(y) = {y} \cup UNION {Subtrees(c) : c \in Children(y)}
  BY DEF SubtreesUnfolds, SubtreesOf
<1>2. \A m \in Subtrees(y) : validate_node(m)
  <2> SUFFICES ASSUME NEW c \in Children(y), NEW m \in Subtrees(c) PROVE validate_node(m)
    BY <1>1
  <2>. QED  BY DEF validate_tree
<1>. QED  BY <1>2 DEF validate_tree

LEMMA ValidNode ==
  ASSUME SubtreesUnfolds, NEW n, Tree(n), validate_tree(n)
  PROVE  validate_node(n)
<1>1. n \in Subtrees(n)
  BY DEF SubtreesUnfolds, SubtreesOf
<1>. QED  BY <1>1 DEF validate_tree

LEMMA AcceptSetsHave ==
  /\ \A k \in DOMAIN Kinds : \A f \in DOMAIN Kinds[k].fields : Kinds[k].fields[f].accepts \in AcceptSets
  /\ {"Expression"} \in AcceptSets /\ {"Identifier"} \in AcceptSets /\ {"Identifier", "Literal"} \in AcceptSets
  /\ {"FunctionExpression"} \in AcceptSets
<1> DEFINE OfKind(k) == {Kinds[k].fields[f].accepts : f \in DOMAIN Kinds[k].fields}
           OfKinds == (UNION {OfKind(k) : k \in DOMAIN Kinds})
           Customs == {{"Expression"}, {"Identifier"}, {"Identifier", "Literal"}, {"FunctionExpression"}}
<1>1. AcceptSets = OfKinds \cup Customs
  BY Zenon DEF AcceptSets
<1>2. ASSUME NEW k \in DOMAIN Kinds, NEW f \in DOMAIN Kinds[k].fields
      PROVE  Kinds[k].fields[f].accepts \in OfKinds
  <2>1. Kinds[k].fields[f].accepts \in OfKind(k)
    OBVIOUS
  <2> HIDE DEF OfKind
  <2>. QED  BY <2>1
<1>3. /\ {"Expression"} \in Customs /\ {"Identifier"} \in Customs /\ {"Identifier", "Literal"} \in Customs
      /\ {"FunctionExpression"} \in Customs
  OBVIOUS
<1> HIDE DEF OfKinds, Customs
<1>. QED  BY <1>1, <1>2, <1>3

\* What validate_custom says stays where what stands in each field does.
LEMMA NodeStays ==
  ASSUME NEW m, Shaped(m), validate_node(m), NEW y, y.kind = m.kind, y.op = m.op, y.flags = m.flags,
         \A f \in Fields(m) : \A a \in AcceptSets : validate_child(m.k[f], a) => validate_child(y.k[f], a)
  PROVE  validate_node(y)
<1>1. m.kind \in DOMAIN Kinds /\ Fields(m) = DOMAIN Kinds[m.kind].fields
  BY DEF Shaped
<1>2. ASSUME NEW f \in DOMAIN Kinds[m.kind].fields PROVE validate_child(y.k[f], Kinds[m.kind].fields[f].accepts)
  <2>1. Kinds[m.kind].fields[f].accepts \in AcceptSets
    BY <1>1, AcceptSetsHave
  <2>2. validate_child(m.k[f], Kinds[m.kind].fields[f].accepts)
    BY DEF validate_node
  <2>. QED  BY <1>1, <2>1, <2>2
<1>3. {"Expression"} \in AcceptSets /\ {"Identifier"} \in AcceptSets /\ {"Identifier", "Literal"} \in AcceptSets
      /\ {"FunctionExpression"} \in AcceptSets
  BY AcceptSetsHave
<1>4. validate_custom(m)
  BY DEF validate_node
<1>5. validate_custom(y)
  <2>1. CASE m.kind \in {"MemberExpression", "OptionalMemberExpression"}
    <3>1. "property" \in Fields(m)
      BY <1>1, <2>1, AcceptsAssumption
    <3>2. validate_child(m.k["property"], {IF Has(m, "computed") THEN "Expression" ELSE "Identifier"})
      BY <1>4, <2>1 DEF validate_custom
    <3>3. validate_child(y.k["property"], {IF Has(y, "computed") THEN "Expression" ELSE "Identifier"})
      BY <1>3, <3>1, <3>2 DEF Has
    <3>. QED  BY <2>1, <3>3 DEF validate_custom
  <2>2. CASE m.kind = "Property"
    <3>1. "key" \in Fields(m) /\ "value" \in Fields(m)
      BY <1>1, <2>2, MadeAssumption DEF Made
    <3>2. /\ ~(Has(m, "computed") /\ Has(m, "shorthand"))
          /\ Has(m, "computed") \/ validate_child(m.k["key"], {"Identifier", "Literal"})
          /\ (Has(m, "method") \/ m.op \in {"get", "set"}) => validate_child(m.k["value"], {"FunctionExpression"})
      BY <1>4, <2>2 DEF validate_custom
    <3>3. /\ ~(Has(y, "computed") /\ Has(y, "shorthand"))
          /\ Has(y, "computed") \/ validate_child(y.k["key"], {"Identifier", "Literal"})
          /\ (Has(y, "method") \/ y.op \in {"get", "set"}) => validate_child(y.k["value"], {"FunctionExpression"})
      BY <1>3, <3>1, <3>2 DEF Has
    <3>. QED  BY <2>2, <3>3 DEF validate_custom
  <2>3. CASE m.kind \notin {"MemberExpression", "OptionalMemberExpression", "Property"}
    BY <2>3 DEF validate_custom
  <2>. QED  BY <2>1, <2>2, <2>3
<1>. QED  BY <1>1, <1>2, <1>5 DEF validate_node

LEMMA StrippedField ==
  ASSUME NEW react, NEW m, IsNode(m), Shaped(m), ChildrenStrip(m, react), Checked, NEW f \in Fields(m),
         NEW a \in AcceptSets, validate_child(m.k[f], a)
  PROVE  validate_child(StripChildren(m, react).k[f], a)
<1> DEFINE now == StripChildren(m, react).k[f]
<1>1. \A x \in Range(now) : \E i \in DOMAIN m.k[f] : x \in Range(StripCall(m.k[f][i], react).nodes)
  BY StrippedChildren
<1> HIDE DEF now
<1>2. ASSUME NEW i \in DOMAIN now PROVE accepted(now[i].kind, a)
  <2>1. now[i] \in Range(now)
    BY DEF Range
  <2>2. PICK j \in DOMAIN m.k[f] : now[i] \in Range(StripCall(m.k[f][j], react).nodes)
    BY <1>1, <2>1
  <2> DEFINE c == m.k[f][j]
  <2>3. Strips(c, react) /\ accepted(c.kind, a)
    BY DEF ChildrenStrip, Range, validate_child, accepted
  <2>4. now[i] \in Range(StripCall(c, react).nodes)
    BY <2>2
  <2> HIDE DEF c
  <2>5. Suits(now[i].kind, c.kind)
    <3>1. \A g \in DOMAIN StripCall(c, react).nodes : Suits(StripCall(c, react).nodes[g].kind, c.kind)
      BY <2>3, ElementStrips
    <3>. QED  BY <2>4, <3>1 DEF Range
  <2>. QED  BY <2>3, <2>5 DEF Suits, StandsFor
<1>3. validate_child(now, a)
  BY <1>2 DEF validate_child, accepted
<1>. QED  BY <1>3 DEF now

LEMMA StrippedValid ==
  ASSUME NEW react, NEW m, IsNode(m), Shaped(m), ChildrenStrip(m, react), Checked, validate_node(m)
  PROVE  validate_tree(StripChildren(m, react))
<1> DEFINE y == StripChildren(m, react)
<1>1. /\ Tree(y) /\ y.kind = m.kind /\ y.op = m.op /\ y.flags = m.flags /\ Fields(y) = Fields(m)
      /\ \A f \in Fields(m) : \A x \in Range(y.k[f]) : Done(x, react)
  BY StrippedChildren
<1>2. \A f \in Fields(m) : \A a \in AcceptSets : validate_child(m.k[f], a) => validate_child(y.k[f], a)
  BY StrippedField
<1> HIDE DEF y
<1>3. validate_node(y)
  BY <1>1, <1>2, NodeStays
<1>4. \A c \in Children(y) : validate_tree(c)
  BY <1>1 DEF Children, Range, Done, Valid
<1>5. validate_tree(y)
  BY <1>1, <1>3, <1>4, ValidMade DEF Checked
<1>. QED  BY <1>5 DEF y

\* A node without types over nodes that can be stripped.
Ready(m, react) ==
  /\ IsNode(m) /\ Shaped(m) /\ ~OnlyTypes(m) /\ m.kind \notin Replaced /\ IsClean(m) /\ ~LowersDeclared(m)
  /\ ChildrenStrip(m, react) /\ (Checked => validate_node(m))
  /\ m.kind \in ThisKinds => \A p \in Range(m.k.params) : Parameter(p)

\* What a parameter is stripped to is this if the parameter is.
LEMMA ParameterStrips ==
  ASSUME NEW react, NEW p, Strips(p, react), Parameter(p), NEW x \in Range(StripCall(p, react).nodes)
  PROVE  StripCall(p, react) = Changed(x) /\ x.kind = p.kind /\ x.op = p.op
<1>1. p.kind \notin Replaced \cup ExportKinds \cup {"ComponentDeclaration"}
  BY DEF Parameter, Replaced, Lowered
<1>2. ~Expands(p, react)
  BY <1>1 DEF Expands
<1>3. ~Drops(p, react)
  <2>1. Removed.nodes = <<>> /\ Range(<<>>) = {}
    BY OutcomesBecome DEF Range
  <2>. QED  BY <2>1 DEF Drops
<1>4. Settles(p, react)
  BY <1>2, <1>3 DEF Strips
<1>5. PICK y : StripCall(p, react) = Changed(y) /\ y.kind = p.kind /\ y.op = p.op
  BY <1>1, <1>4 DEF Settles
<1>6. Changed(y).nodes = <<y>> /\ Range(<<y>>) = {y}
  BY OutcomesBecome DEF Range
<1>. QED  BY <1>5, <1>6

LEMMA FieldOf ==
  ASSUME NEW n, Shaped(n), NEW f, NEW sorts, Sorts(n.kind, {f}, sorts)
  PROVE  f \in Fields(n) /\ SortOf(n, f) \in sorts
<1>1. Fields(n) = DOMAIN Kinds[n.kind].fields
  BY DEF Shaped
<1>. QED  BY <1>1 DEF Sorts, SortOf

LEMMA StaysValue ==
  ASSUME StripUnfolds, NEW react, NEW m, Ready(m, react)
  PROVE  ~OnlyTypes(StripChildren(m, react))
<1> DEFINE y == StripChildren(m, react)
<1>1. IsNode(m) /\ Shaped(m) /\ ChildrenStrip(m, react) /\ ~OnlyTypes(m)
  BY DEF Ready
<1>2. /\ Shaped(y) /\ Tree(y)
      /\ y.kind = m.kind /\ y.op = m.op /\ y.flags = m.flags /\ Fields(y) = Fields(m)
      /\ \A f \in Fields(m) : \A x \in Range(y.k[f]) : Done(x, react)
      /\ \A f \in Fields(m) : ~InList(m, f) => Len(y.k[f]) = Len(m.k[f])
  BY <1>1, StrippedChildren
<1> HIDE DEF y
<1>3. y.kind \notin Declarations
  BY <1>1, <1>2 DEF OnlyTypes
<1>4. ~(y.kind = "ImportDeclaration" /\ (y.op # "value" \/ should_remove_empty_import(y)))
  <2> SUFFICES ASSUME y.kind = "ImportDeclaration", y.op # "value" \/ should_remove_empty_import(y) PROVE FALSE
    OBVIOUS
  <2>1. y.op = "value"
    BY <1>1, <1>2 DEF OnlyTypes
  <2>2. "specifiers" \in Fields(m)
    BY <1>1, <1>2, SortsAssumption, FieldOf
  <2>3. Sequence(y.k.specifiers)
    BY <1>2, <2>2, TreeIs DEF IsNode
  <2>4. should_remove_empty_import(y)
    BY <2>1
  <2>5. y.k.specifiers # <<>>
    BY <2>4 DEF should_remove_empty_import
  <2>6. 1 \in DOMAIN y.k.specifiers
    BY <2>3, <2>5, EmptySequence, SequenceIs
  <2>7. y.k.specifiers[1].kind = "ImportSpecifier" /\ y.k.specifiers[1].op # "value"
    BY <2>4, <2>6 DEF should_remove_empty_import
  <2>8. Done(y.k.specifiers[1], react)
    BY <1>2, <2>2, <2>6 DEF Range
  <2>. QED  BY <2>7, <2>8 DEF Done, OnlyTypes
<1>5. ~(y.kind \in {"ImportSpecifier", "ExportNamedDeclaration", "ExportAllDeclaration"} /\ y.op # "value")
  BY <1>1, <1>2 DEF OnlyTypes
<1>6. ~(y.kind = "ClassProperty" /\ (y.k.value = None \/ Has(y, "declare")))
  <2> SUFFICES ASSUME y.kind = "ClassProperty", y.k.value = None \/ Has(y, "declare") PROVE FALSE
    OBVIOUS
  <2>1. m.k.value # None /\ ~Has(m, "declare")
    BY <1>1, <1>2 DEF OnlyTypes
  <2>2. y.k.value = None
    BY <1>2, <2>1 DEF Has
  <2>3. "value" \in Fields(m) /\ SortOf(m, "value") \in {"Maybe"}
    BY <1>1, <1>2, SortsAssumption, FieldOf DEF PropertyKinds
  <2>4. Len(y.k.value) = Len(m.k.value)
    BY <1>2, <2>3 DEF InList
  <2>5. Sequence(m.k.value)
    BY <1>1, <2>3 DEF IsNode
  <2>. QED  BY <2>1, <2>2, <2>4, <2>5, EmptySequence DEF None
<1>7. ~(y.kind = "ClassPrivateProperty" /\ Has(y, "declare"))
  BY <1>1, <1>2 DEF OnlyTypes, Has
<1>8. ~OnlyTypes(y)
  BY <1>3, <1>4, <1>5, <1>6, <1>7 DEF OnlyTypes
<1>. QED  BY <1>8 DEF y

LEMMA StaysClean ==
  ASSUME NEW react, NEW m, Ready(m, react)
  PROVE  IsClean(StripChildren(m, react))
<1> DEFINE y == StripChildren(m, react)
<1>1. IsNode(m) /\ Shaped(m) /\ ChildrenStrip(m, react) /\ IsClean(m)
      /\ (m.kind \in ThisKinds => \A p \in Range(m.k.params) : Parameter(p))
  BY DEF Ready
<1>2. /\ y.kind = m.kind /\ y.flags = m.flags /\ Fields(y) = Fields(m)
      /\ \A f \in Fields(m) :
           /\ y.k[f] = After(m.k[f], react)
           /\ \A x \in Range(y.k[f]) : \E i \in DOMAIN m.k[f] : x \in Range(StripCall(m.k[f][i], react).nodes)
  BY <1>1, StrippedChildren
<1> HIDE DEF y
<1>3. y.flags \cap CleanedFlags(y.kind) = {}
  BY <1>1, <1>2 DEF IsClean
<1>4. After(None, react) = None
  <2>1. [i \in DOMAIN None |-> StripCall(None[i], react).nodes] = <<>>
    BY DEF None
  <2>. QED  BY <2>1, FlattenNone DEF After, None
<1>5. ASSUME NEW f \in Fields(y), f \in TypeFields(y.kind) PROVE y.k[f] = None
  <2>1. m.k[f] = None
    BY <1>1, <1>2, <1>5 DEF IsClean
  <2>. QED  BY <1>2, <1>4, <2>1
<1>6. ASSUME "params" \in Fields(y), y.kind \in ThisKinds, NEW i \in DOMAIN y.k.params
      PROVE  ~IsThis(y.k.params[i])
  <2> DEFINE x == y.k.params[i]
  <2>1. x \in Range(y.k.params)
    BY DEF Range
  <2>2. PICK j \in DOMAIN m.k.params : x \in Range(StripCall(m.k.params[j], react).nodes)
    BY <1>2, <1>6, <2>1
  <2> DEFINE p == m.k.params[j]
  <2>3. p \in Range(m.k.params)
    BY DEF Range
  <2>4. Strips(p, react) /\ Parameter(p) /\ ~IsThis(p)
    <3>1. Strips(p, react)
      BY <1>1, <1>2, <1>6, <2>3 DEF ChildrenStrip
    <3>2. Parameter(p)
      BY <1>1, <1>2, <1>6, <2>3
    <3>3. ~IsThis(p)
      BY <1>1, <1>2, <1>6 DEF IsClean
    <3>. QED  BY <3>1, <3>2, <3>3
  <2>5. x.kind = p.kind /\ x.op = p.op
    <3> HIDE DEF x, p
    <3>. QED  BY <2>2, <2>4, ParameterStrips DEF p
  <2>. QED  BY <2>4, <2>5 DEF IsThis
<1>7. IsClean(y)
  BY <1>3, <1>5, <1>6 DEF IsClean
<1>. QED  BY <1>7 DEF y

\* What a node without types is stripped to stays.
LEMMA ReadyIsDone ==
  ASSUME StripUnfolds, NEW react, NEW m, Ready(m, react)
  PROVE  Done(StripChildren(m, react), react) /\ StripChildren(m, react).kind = m.kind
<1> DEFINE y == StripChildren(m, react)
<1>1. IsNode(m) /\ Shaped(m) /\ ChildrenStrip(m, react) /\ m.kind \notin Replaced
  BY DEF Ready
<1>0. Valid(y)
  BY <1>1, StrippedValid DEF Ready, Valid
<1>2. /\ Shaped(y) /\ Tree(y) /\ StripChildren(y, react) = y
      /\ y.kind = m.kind /\ Fields(y) = Fields(m)
      /\ \A f \in Fields(m) : \A x \in Range(y.k[f]) : Done(x, react)
  BY <1>1, StrippedChildren
<1>3. IsClean(y) /\ ~OnlyTypes(y)
  BY StaysClean, StaysValue
<1> HIDE DEF y
<1>4. NoOtherTypes(y)
  BY <1>3 DEF IsClean, NoOtherTypes
<1>5. ~LowersDeclared(y)
  <2> SUFFICES ASSUME y.kind \in ExportKinds, DeclaredKind(y) \in Lowered PROVE FALSE
    BY DEF LowersDeclared, ExportKinds, Lowered
  <2>1. Declared(y) /\ y.k.declaration[1].kind \in Lowered
    BY DEF DeclaredKind, Lowered
  <2>2. "declaration" \in Fields(m)
    BY <1>1, <1>2, SortsAssumption, FieldOf DEF ExportKinds
  <2>3. Sequence(y.k.declaration)
    BY <1>2, <2>2, TreeIs DEF IsNode
  <2>4. 1 \in DOMAIN y.k.declaration
    BY <2>1, <2>3, EmptySequence, SequenceIs DEF Declared, None
  <2>5. Done(y.k.declaration[1], react)
    BY <1>2, <2>2, <2>4 DEF Range
  <2>. QED  BY <2>1, <2>5 DEF Done, Replaced
<1>6. Cleaned(y) = y
  BY <1>2, <1>3, TreeIs, CleanStays
<1>7. StripCall(y, react) = Changed(y)
  <2>1. StripCall(y, react) = Changed(StripChildren(Cleaned(y), react))
    BY <1>1, <1>2, <1>3, <1>4, <1>5, HandlerIs
  <2>. QED  BY <1>2, <1>6, <2>1
<1>8. Done(y, react)
  BY <1>0, <1>1, <1>2, <1>3, <1>7 DEF Done
<1>. QED  BY <1>2, <1>8 DEF y

\* A node that is without types once the handler took them out is stripped.
LEMMA CleanSettles ==
  ASSUME StripUnfolds, NEW react, NEW n, Tree(n), Shaped(n), ~OnlyTypes(n), n.kind \notin Replaced,
         ~LowersDeclared(n), NoOtherTypes(n), Ready(Cleaned(n), react)
  PROVE  Settles(n, react) /\ StripCall(n, react) = Changed(StripChildren(Cleaned(n), react))
<1> DEFINE m == Cleaned(n)
           y == StripChildren(m, react)
<1>1. StripCall(n, react) = Changed(y)
  BY HandlerIs
<1>2. Done(y, react)
  BY ReadyIsDone
<1>3. y.kind = n.kind /\ y.op = n.op
  <2>1. IsNode(m) /\ Shaped(m) /\ ChildrenStrip(m, react)
    BY DEF Ready
  <2>2. m.kind = n.kind /\ m.op = n.op
    BY NodeIs DEF Cleaned
  <2> HIDE DEF m
  <2>3. y.kind = m.kind /\ y.op = m.op
    BY <2>1, StrippedChildren
  <2>. QED  BY <2>2, <2>3
<1> HIDE DEF y
<1>4. Suits(y.kind, n.kind)
  BY <1>3 DEF Suits, StandsFor
<1>5. Settles(n, react)
  BY <1>1, <1>2, <1>3, <1>4 DEF Settles
<1>. QED  BY <1>1, <1>5 DEF y

-----------------------------------------------------------------------------
(* What the parser returns is stripped.                                    *)

LEMMA UntypedStays ==
  ASSUME NEW n, IsNode(n), n.kind \notin TypedKinds, NoOtherTypes(n)
  PROVE  Cleaned(n) = n
<1>1. CleanedFlags(n.kind) = {} /\ n.kind \notin ThisKinds
  BY DEF CleanedFlags, TypedKinds
<1>2. IsClean(n)
  BY <1>1 DEF IsClean, NoOtherTypes
<1>. QED  BY <1>2, CleanStays

\* The pass comes to it: a type only if it is declared.
Visited(n) == Type(n) => n.kind \in Declarations

\* The pass removes what is for types and nothing else.
LEMMA TypesOnly ==
  ASSUME NEW n, Grammatical(n), Visited(n)
  PROVE  OnlyTypes(n) <=> Type(n) \/ ForTypes(n)
<1>1. n.kind \in Declarations <=> Type(n)
  BY TypesAssumption DEF Visited, Type
<1>2. ASSUME n.kind = "ImportDeclaration", n.op = "value", n.k.specifiers # <<>>, NEW i \in DOMAIN n.k.specifiers
      PROVE  n.k.specifiers[i].op \in {"type", "typeof"}
               <=> n.k.specifiers[i].kind = "ImportSpecifier" /\ n.k.specifiers[i].op # "value"
  <2>1. n.k.specifiers[i] \in ToSet(n.k.specifiers)
    BY DEF ToSet
  <2>. QED  BY <1>2, <2>1 DEF Grammatical
<1>3. CASE n.kind = "ImportDeclaration" /\ n.op = "value"
  <2>1. should_remove_empty_import(n)
          <=> n.k.specifiers # <<>> /\ \A i \in DOMAIN n.k.specifiers : n.k.specifiers[i].op \in {"type", "typeof"}
    BY <1>2, <1>3 DEF should_remove_empty_import
  <2>2. OnlyTypes(n) <=> n.kind \in Declarations \/ should_remove_empty_import(n)
    BY <1>3 DEF OnlyTypes
  <2>3. ForTypes(n)
          <=> n.k.specifiers # <<>> /\ \A i \in DOMAIN n.k.specifiers : n.k.specifiers[i].op \in {"type", "typeof"}
    BY <1>3 DEF ForTypes
  <2>. QED  BY <1>1, <2>1, <2>2, <2>3
<1>4. CASE n.kind = "ImportDeclaration" /\ n.op # "value"
  BY <1>4 DEF OnlyTypes, ForTypes
<1>5. CASE n.kind # "ImportDeclaration"
  BY <1>1, <1>5 DEF OnlyTypes, ForTypes
<1>. QED  BY <1>3, <1>4, <1>5

LEMMA PlacedTypes ==
  ASSUME NEW n, IsNode(n), Placed(n)
  PROVE  NoOtherTypes(n)
<1> SUFFICES ASSUME n.kind \notin TypedKinds, NEW f \in TypeFields(n.kind) \cap Fields(n) PROVE n.k[f] = None
  BY DEF NoOtherTypes
<1>1. \A i \in DOMAIN n.k[f] : FALSE
  BY DEF Placed
<1>2. Sequence(n.k[f])
  BY DEF IsNode
<1>3. Len(n.k[f]) = 0
  BY <1>1, <1>2, SequenceIs
<1>. QED  BY <1>2, <1>3, EmptySequence DEF None

\* What stands where the pass comes to it can be stripped there.
LEMMA StandsWell ==
  ASSUME NEW react, NEW n, IsNode(n), Shaped(n), Placed(n), ~LowersDeclared(n), ~OnlyTypes(n),
         NEW f \in Fields(n), f \notin TypeFields(n.kind), NEW x \in Range(n.k[f]), Grammatical(x), Strips(x, react)
  PROVE  Visited(x) /\ (InList(n, f) \/ Settles(x, react))
<1>1. PICK i \in DOMAIN n.k[f] : x = n.k[f][i]
  BY DEF Range
<1>2. /\ Type(x) => x.kind \in Declarations
      /\ Type(x) \/ ForTypes(x) \/ x.kind \in ExportKinds => InList(n, f)
      /\ x.kind = "ComponentDeclaration" => InList(n, f) \/ (n.kind \in ExportKinds /\ f = "declaration")
  BY <1>1 DEF Placed
<1>3. Visited(x)
  BY <1>2 DEF Visited
<1>4. ASSUME ~InList(n, f) PROVE Settles(x, react)
  <2>1. ~Drops(x, react)
    BY <1>2, <1>3, <1>4, TypesOnly DEF Drops
  <2>2. ASSUME x.kind = "ComponentDeclaration" PROVE FALSE
    <3>1. n.kind \in ExportKinds /\ f = "declaration"
      BY <1>2, <1>4, <2>2
    <3>2. SortOf(n, "declaration") \in {"One", "Maybe"}
      <4>1. PICK sorts \in {{"One"}, {"Maybe"}} : Sorts(n.kind, {"declaration"}, sorts)
        BY <3>1, SortsAssumption DEF ExportKinds
      <4>2. SortOf(n, "declaration") \in sorts
        BY <4>1, FieldOf
      <4>. QED  BY <4>1, <4>2
    <3>3. Len(n.k.declaration) <= 1 /\ Sequence(n.k.declaration)
      <4>1. "declaration" \in Fields(n)
        BY <3>1
      <4>2. /\ SortOf(n, "declaration") = "One" => Len(n.k["declaration"]) = 1
            /\ SortOf(n, "declaration") = "Maybe" => Len(n.k["declaration"]) <= 1
        BY <4>1, ShapedField
      <4>3. Sequence(n.k.declaration)
        BY <4>1 DEF IsNode
      <4>4. Len(n.k["declaration"]) <= 1
        <5>1. CASE SortOf(n, "declaration") = "One"
          <6>1. Len(n.k["declaration"]) = 1
            BY <4>2, <5>1
          <6>. QED  BY <6>1
        <5>2. CASE SortOf(n, "declaration") = "Maybe"
          BY <4>2, <5>2
        <5>. QED  BY <3>2, <5>1, <5>2
      <4>. QED  BY <4>3, <4>4
    <3>4. i = 1 /\ n.k.declaration # None
      BY <1>1, <3>1, <3>3, SequenceIs, EmptySequence DEF None
    <3>5. DeclaredKind(n) = "ComponentDeclaration"
      BY <1>1, <2>2, <3>1, <3>4 DEF DeclaredKind, Declared
    <3>6. n.kind = "ExportNamedDeclaration" => n.op = "value"
      BY DEF OnlyTypes
    <3>. QED  BY <3>1, <3>5, <3>6 DEF LowersDeclared, ExportKinds
  <2>3. ~Expands(x, react)
    BY <1>2, <1>4, <2>2 DEF Expands
  <2>. QED  BY <2>1, <2>3 DEF Strips
<1>. QED  BY <1>3, <1>4

LEMMA CleanedReady ==
  ASSUME NEW react, NEW n, Tree(n), Shaped(n), Placed(n), Grammatical(n), ~OnlyTypes(n), n.kind \notin Replaced,
         ~LowersDeclared(n), \A c \in Children(n) : Grammatical(c) /\ (Visited(c) => Strips(c, react)),
         Checked => validate_node(n)
  PROVE  Ready(Cleaned(n), react)
<1> DEFINE m == Cleaned(n)
<1>1. IsNode(n)
  BY TreeIs
<1>2. NoOtherTypes(n) /\ n.kind \notin Casts
  BY <1>1, PlacedTypes DEF Replaced
<1>3. /\ IsNode(m) /\ Shaped(m) /\ IsClean(m) /\ m.kind = n.kind /\ m.op = n.op /\ Fields(m) = Fields(n)
      /\ m.flags \subseteq n.flags
      /\ \A f \in Fields(n) : /\ m.k[f] = CleanedField(n, f)
                              /\ \A x \in Range(m.k[f]) : x \in Range(n.k[f]) /\ f \notin TypeFields(n.kind)
  BY <1>2, CleanedIs
<1>4. n.kind \notin TypedKinds => m = n
  BY <1>1, <1>2, UntypedStays
<1> HIDE DEF m
<1>5. ChildrenStrip(m, react)
  <2> SUFFICES ASSUME NEW f \in Fields(m), NEW x \in Range(m.k[f])
               PROVE  Strips(x, react) /\ (InList(m, f) \/ Settles(x, react))
    BY DEF ChildrenStrip
  <2>1. f \in Fields(n) /\ x \in Range(n.k[f]) /\ f \notin TypeFields(n.kind)
    BY <1>3
  <2>2. PICK i \in DOMAIN n.k[f] : x = n.k[f][i]
    BY <2>1 DEF Range
  <2>3. x \in Children(n)
    BY <1>1, <2>1, <2>2, Child
  <2>4. Visited(x)
    BY <2>1, <2>2 DEF Placed, Visited
  <2>5. Strips(x, react) /\ Grammatical(x)
    BY <2>3, <2>4
  <2>6. InList(n, f) \/ Settles(x, react)
    BY <1>1, <2>1, <2>5, StandsWell
  <2>. QED  BY <1>3, <2>5, <2>6 DEF InList, SortOf
<1>6. ~OnlyTypes(m)
  <2>1. CASE n.kind \notin TypedKinds
    BY <1>4, <2>1
  <2>2. CASE n.kind \in TypedKinds
    <3>1. m.kind \notin Declarations
      BY <1>3 DEF OnlyTypes
    <3>2. m.kind \notin {"ImportDeclaration", "ImportSpecifier", "ExportNamedDeclaration", "ExportAllDeclaration"}
      BY <1>3, <2>2 DEF TypedKinds, PatternKinds, ThisKinds, ClassKinds, PropertyKinds, CallKinds, Casts, Lowered
    <3>3. m.kind \in PropertyKinds => "value" \in Fields(n) /\ m.k.value = n.k.value
      <4> SUFFICES ASSUME m.kind \in PropertyKinds PROVE "value" \in Fields(n) /\ m.k.value = n.k.value
        OBVIOUS
      <4>1. "value" \in Fields(n)
        BY <1>3, SortsAssumption, FieldOf
      <4>2. "value" \notin TypeFields(n.kind)
        BY <1>3, TypesAssumption DEF FieldTypes
      <4>. QED  BY <1>3, <4>1, <4>2 DEF CleanedField
    <3>4. Has(m, "declare") => Has(n, "declare")
      BY <1>3 DEF Has
    <3>. QED  BY <1>3, <3>1, <3>2, <3>3, <3>4 DEF OnlyTypes, PropertyKinds
  <2>. QED  BY <2>1, <2>2
<1>7. ~LowersDeclared(m)
  <2>1. n.kind \in ExportKinds => m = n
    BY <1>4 DEF ExportKinds, TypedKinds, PatternKinds, ThisKinds, ClassKinds, PropertyKinds, CallKinds, Casts, Lowered
  <2>. QED  BY <1>3, <2>1 DEF LowersDeclared, ExportKinds
<1>8. ASSUME m.kind \in ThisKinds, NEW p \in Range(m.k.params) PROVE Parameter(p)
  <2>1. "params" \in Fields(n)
    BY <1>3, <1>8, SortsAssumption, FieldOf
  <2>2. p \in Range(n.k.params)
    BY <1>3, <2>1
  <2>3. p \in ToSet(n.k.params)
    BY <2>2 DEF Range, ToSet
  <2>. QED  BY <1>3, <1>8, <2>3 DEF Grammatical
<1>9. Checked => validate_node(m)
  <2> SUFFICES ASSUME Checked PROVE validate_node(m)
    OBVIOUS
  <2>1. CASE n.kind \notin TypedKinds
    BY <1>4, <2>1
  <2>2. CASE n.kind \in TypedKinds
    <3>1. \A f \in Fields(n) : validate_child(m.k[f], Kinds[n.kind].fields[f].accepts)
      <4> SUFFICES ASSUME NEW f \in Fields(n), NEW i \in DOMAIN m.k[f]
                   PROVE  accepted(m.k[f][i].kind, Kinds[n.kind].fields[f].accepts)
        BY DEF validate_child, accepted
      <4>1. m.k[f][i] \in Range(n.k[f])
        BY <1>3 DEF Range
      <4>2. validate_child(n.k[f], Kinds[n.kind].fields[f].accepts)
        BY DEF validate_node, Shaped
      <4>. QED  BY <4>1, <4>2 DEF validate_child, accepted, Range
    <3>2. validate_custom(m)
      BY <1>3, <2>2 DEF validate_custom, TypedKinds, PatternKinds, ThisKinds, ClassKinds, PropertyKinds, CallKinds, Casts, Lowered
    <3>. QED  BY <1>3, <3>1, <3>2 DEF validate_node, Shaped
  <2>. QED  BY <2>1, <2>2
<1>10. Ready(m, react)
  BY <1>3, <1>5, <1>6, <1>7, <1>8, <1>9 DEF Ready
<1>. QED  BY <1>10 DEF m

\* What the pass comes to is stripped when what is below it is: the kinds that
\* are not lowered.
LEMMA NodeStrips ==
  ASSUME StripUnfolds, NEW react, NEW n, Tree(n), Shaped(n), Placed(n), Grammatical(n),
         n.kind \notin Lowered \cup {"ComponentParameter"},
         ~LowersDeclared(n), \A c \in Children(n) : Grammatical(c) /\ (Visited(c) => Strips(c, react)),
         Checked => Accepted(n)
  PROVE  /\ Strips(n, react)
         /\ ~OnlyTypes(n) /\ n.kind \notin Casts => StripCall(n, react) = Changed(StripChildren(Cleaned(n), react))
         /\ n.kind \in Casts =>
              /\ n.k.expression[1] \in Children(n) /\ Visited(n.k.expression[1])
              /\ StripCall(n, react) = StripCall(n.k.expression[1], react)
<1>1. IsNode(n)
  BY TreeIs
<1>2. StripCall(n, react) = StripFlowCall(n, react)
  BY DEF StripUnfolds
<1>0. Checked => validate_node(n)
  BY DEF Accepted, Lowered
<1>3. CASE OnlyTypes(n)
  <2>1. StripFlowCall(n, react) = Removed
    BY <1>3 DEF StripFlowCall, OnlyTypes, Declarations, Casts
  <2>2. n.kind \notin Casts
    <3>1. \A k \in Casts : ~TypeKind(k)
      BY TypesAssumption
    <3>2. \A k \in Declarations : TypeKind(k)
      BY TypesAssumption
    <3>3. \A k \in Casts : k \notin {"ImportDeclaration", "ImportSpecifier", "ExportNamedDeclaration",
                                      "ExportAllDeclaration", "ClassProperty", "ClassPrivateProperty"}
      BY DEF Casts
    <3>. QED  BY <1>3, <3>1, <3>2, <3>3 DEF OnlyTypes
  <2>. QED  BY <1>2, <1>3, <2>1, <2>2 DEF Strips, Drops
<1>4. CASE ~OnlyTypes(n) /\ n.kind \in Casts
  <2> DEFINE e == n.k.expression[1]
  <2>1. Sorts(n.kind, {"expression"}, {"One"}) /\ "expression" \notin TypeFields(n.kind)
    BY <1>4, SortsAssumption
  <2>2. "expression" \in Fields(n) /\ SortOf(n, "expression") \in {"One"}
    BY <2>1, FieldOf
  <2>3. Len(n.k.expression) = 1 /\ Sequence(n.k.expression)
    <3>1. SortOf(n, "expression") = "One" => Len(n.k["expression"]) = 1
      BY <2>2, ShapedField
    <3>. QED  BY <1>1, <2>2, <3>1 DEF IsNode
  <2>4. 1 \in DOMAIN n.k.expression
    BY <2>3, SequenceIs
  <2>5. e \in Children(n) /\ e \in Range(n.k["expression"])
    BY <1>1, <2>2, <2>4, Child DEF Range
  <2>6. Visited(e)
    BY <2>1, <2>2, <2>4 DEF Visited, Placed
  <2>7. Strips(e, react) /\ Grammatical(e)
    BY <2>5, <2>6
  <2>8. Settles(e, react)
    <3>1. ~InList(n, "expression")
      BY <2>2 DEF InList
    <3> HIDE DEF e
    <3>. QED  BY <1>1, <1>4, <2>1, <2>2, <2>5, <2>7, <3>1, StandsWell
  <2> HIDE DEF e
  <2>9. PICK y : StripCall(e, react) = Changed(y) /\ Done(y, react) /\ Suits(y.kind, e.kind)
    BY <2>8 DEF Settles
  <2>10. Stripped(e, react) = y
    BY <2>9, OutcomesAre DEF Stripped
  <2>11. StripFlowCall(n, react) = ReplaceWith(Stripped(e, react), react)
    BY <1>4 DEF StripFlowCall, Casts, e
  <2>12. StripCall(n, react) = Changed(y)
    BY <1>2, <2>9, <2>10, <2>11 DEF ReplaceWith, Done
  <2>14. Suits(y.kind, n.kind)
    <3> DEFINE held == Kinds[n.kind].fields["expression"].accepts
    <3>1. SUFFICES ASSUME Checked, NEW a \in AcceptSets, accepted(n.kind, a) PROVE accepted(y.kind, a)
      BY DEF Suits, StandsFor
    <3>2. n.kind \in DOMAIN Kinds /\ "expression" \in DOMAIN Kinds[n.kind].fields
      BY <2>2 DEF Shaped
    <3>3. held \in AcceptSets
      BY <3>2, AcceptSetsHave
    <3>4. accepted(e.kind, held)
      <4>1. validate_child(n.k["expression"], held)
        BY <1>0, <3>1, <3>2 DEF validate_node
      <4>. QED  BY <2>4, <4>1 DEF validate_child, accepted, e
    <3>5. Within(held, a)
      BY <1>4, <3>1, AcceptsAssumption DEF Yields
    <3> HIDE DEF held
    <3>6. accepted(y.kind, held)
      BY <2>9, <3>1, <3>3, <3>4 DEF Suits, StandsFor
    <3>7. y.kind \in DOMAIN Kinds
      BY <2>9 DEF Done, Shaped
    <3>. QED  BY <3>5, <3>6, <3>7 DEF Within
  <2>13. Settles(n, react)
    BY <1>4, <2>9, <2>12, <2>14 DEF Settles, Replaced
  <2>. QED  BY <1>4, <2>5, <2>6, <2>9, <2>12, <2>13 DEF Strips, e
<1>5. CASE ~OnlyTypes(n) /\ n.kind \notin Casts
  <2>1. n.kind \notin Replaced
    BY <1>5 DEF Replaced
  <2>2. NoOtherTypes(n)
    BY <1>1, PlacedTypes
  <2>3. Ready(Cleaned(n), react)
    BY <1>0, <1>5, <2>1, CleanedReady
  <2>4. Settles(n, react) /\ StripCall(n, react) = Changed(StripChildren(Cleaned(n), react))
    BY <1>5, <2>1, <2>2, <2>3, CleanSettles
  <2>. QED  BY <1>5, <2>4 DEF Strips
<1>. QED  BY <1>3, <1>4, <1>5

-----------------------------------------------------------------------------
(* What is stripped is what Erase says.                                    *)

EraseUnfolds == \A n : Tree(n) => Erase(n) = EraseNode(n)
Erases(n, react) == Strips(n, react) /\ Erase(n) = StripCall(n, react).nodes
ErasedIn(f, c) == IF f = "params" /\ IsThis(c) THEN <<>> ELSE Erase(c)

LEMMA FlattenNothing ==
  ASSUME NEW ss, Sequence(ss), \A i \in DOMAIN ss : ss[i] = <<>>
  PROVE  FlattenSeq(ss) = <<>>
<1>1. DOMAIN ss = 1 .. Len(ss) /\ Range(<<>>) = {}
  BY SequenceIs DEF Range
<1>2. Sequence(FlattenSeq(ss)) /\ \A x \in Range(FlattenSeq(ss)) : \E i \in 1 .. Len(ss) : x \in Range(ss[i])
  BY <1>1, EmptySequence, FlattenSequence
<1>3. Range(FlattenSeq(ss)) = {}
  BY <1>1, <1>2
<1>4. DOMAIN FlattenSeq(ss) = {}
  BY <1>3 DEF Range
<1>5. Len(FlattenSeq(ss)) = 0
  BY <1>2, <1>4, SequenceIs
<1>. QED  BY <1>2, <1>5, EmptySequence

\* Parameters without the one that says what this is.
LEMMA ErasedParameters ==
  ASSUME NEW react, NEW nodes, Sequence(nodes), \A i \in DOMAIN nodes : Erases(nodes[i], react)
  PROVE  After(NoThis(nodes), react)
           = FlattenSeq([i \in DOMAIN nodes |-> IF IsThis(nodes[i]) THEN <<>> ELSE Erase(nodes[i])])
<1> DEFINE ss == [i \in DOMAIN nodes |-> IF IsThis(nodes[i]) THEN <<>> ELSE <<nodes[i]>>]
           ee == [i \in DOMAIN nodes |-> IF IsThis(nodes[i]) THEN <<>> ELSE Erase(nodes[i])]
           G == [x \in Range(nodes) |-> StripCall(x, react).nodes]
<1>1. Len(nodes) \in Nat /\ DOMAIN nodes = 1 .. Len(nodes)
  BY SequenceIs
<1>2. ss = [i \in 1 .. Len(nodes) |-> ss[i]]
      /\ \A i \in 1 .. Len(nodes) : ss[i] = IF IsThis(nodes[i]) THEN <<>> ELSE <<nodes[i]>>
  BY <1>1
<1>3. ee = [i \in 1 .. Len(nodes) |-> ee[i]]
      /\ \A i \in 1 .. Len(nodes) : ee[i] = IF IsThis(nodes[i]) THEN <<>> ELSE Erase(nodes[i])
  BY <1>1
<1>4. \A x \in Range(nodes) : G[x] = StripCall(x, react).nodes
  OBVIOUS
<1>5. NoThis(nodes) = FlattenSeq(ss)
  BY DEF NoThis
<1> HIDE DEF ss, ee, G
<1>6. Sequence(ss) /\ Len(ss) = Len(nodes) /\ Sequence(ee) /\ Len(ee) = Len(nodes)
  BY <1>1, <1>2, <1>3, IsSequence
<1>7. \A i \in 1 .. Len(nodes) : nodes[i] \in Range(nodes) /\ G[nodes[i]] = Erase(nodes[i]) /\ Sequence(G[nodes[i]])
  <2> SUFFICES ASSUME NEW i \in 1 .. Len(nodes)
               PROVE  nodes[i] \in Range(nodes) /\ G[nodes[i]] = Erase(nodes[i]) /\ Sequence(G[nodes[i]])
    OBVIOUS
  <2>1. nodes[i] \in Range(nodes) /\ Erases(nodes[i], react)
    BY <1>1 DEF Range
  <2>2. Sequence(StripCall(nodes[i], react).nodes)
    BY <2>1, ElementStrips DEF Erases
  <2>. QED  BY <1>4, <2>1, <2>2 DEF Erases
<1>8. \A i \in 1 .. Len(ss) : ss[i] = <<>> \/ \E y : ss[i] = <<y>>
  BY <1>2, <1>6
<1>9. \A i \in 1 .. Len(ss) : ss[i] = <<>> => ee[i] = <<>>
  <2> SUFFICES ASSUME NEW i \in 1 .. Len(ss), ss[i] = <<>> PROVE ee[i] = <<>>
    OBVIOUS
  <2>1. <<nodes[i]>> # <<>>
    BY OneSequence
  <2>2. IsThis(nodes[i])
    BY <1>2, <1>6, <2>1
  <2>. QED  BY <1>3, <1>6, <2>2
<1>10. \A i \in 1 .. Len(ss) : \A y : ss[i] = <<y>> => ee[i] = G[y] /\ Sequence(G[y])
  <2> SUFFICES ASSUME NEW i \in 1 .. Len(ss), NEW y, ss[i] = <<y>> PROVE ee[i] = G[y] /\ Sequence(G[y])
    OBVIOUS
  <2>1. <<y>> # <<>>
    BY OneSequence
  <2>2. ~IsThis(nodes[i]) /\ <<y>> = <<nodes[i]>>
    BY <1>2, <1>6, <2>1
  <2>3. y = nodes[i]
    BY <2>2
  <2>. QED  BY <1>3, <1>6, <1>7, <2>2, <2>3
<1>11. FlattenSeq(Images(G, FlattenSeq(ss))) = FlattenSeq(ee)
  BY <1>6, <1>8, <1>9, <1>10, FlattenMap
<1>12. Images(G, NoThis(nodes)) = [i \in DOMAIN NoThis(nodes) |-> StripCall(NoThis(nodes)[i], react).nodes]
  <2>1. \A i \in DOMAIN NoThis(nodes) : NoThis(nodes)[i] \in Range(nodes)
    BY NoThisIs DEF Range
  <2>2. \A i \in DOMAIN NoThis(nodes) : G[NoThis(nodes)[i]] = StripCall(NoThis(nodes)[i], react).nodes
    BY <1>4, <2>1
  <2>. QED  BY <2>2 DEF Images
<1>13. After(NoThis(nodes), react) = FlattenSeq(ee)
  BY <1>5, <1>11, <1>12 DEF After
<1>. QED  BY <1>13 DEF ee

LEMMA TypesVanish ==
  ASSUME EraseUnfolds, NEW n, Tree(n), Shaped(n), Type(n)
  PROVE  Erase(n) = <<>>
<1>1. n.kind \in DOMAIN Kinds /\ TypeKind(n.kind)
  BY DEF Shaped, Type
<1>2. ~instanceof(n.kind, "FlowExpression")
  BY <1>1, TypesAssumption
<1>3. Erase(n) = EraseNode(n)
  BY DEF EraseUnfolds
<1>. QED  BY <1>2, <1>3, Zenon DEF EraseNode

\* A field without its types.
LEMMA ErasedField ==
  ASSUME EraseUnfolds, NEW react, NEW n, Tree(n), Shaped(n), Placed(n), Grammatical(n),
         n.kind \notin Lowered \cup Casts, NEW f \in Fields(n),
         \A c \in Children(n) : Tree(c) /\ Shaped(c) /\ (Visited(c) => Erases(c, react))
  PROVE  After(CleanedField(n, f), react)
           = FlattenSeq([i \in DOMAIN n.k[f] |-> ErasedIn(f, n.k[f][i])])
<1> DEFINE nodes == n.k[f]
           ee == [i \in DOMAIN nodes |-> ErasedIn(f, nodes[i])]
<1>1. IsNode(n) /\ Sequence(nodes)
  BY TreeIs DEF IsNode
<1>2. Len(nodes) \in Nat /\ DOMAIN nodes = 1 .. Len(nodes)
  BY <1>1, SequenceIs
<1>3. \A i \in DOMAIN nodes : nodes[i] \in Children(n)
  BY <1>1, Child
<1>4. ee = [i \in 1 .. Len(nodes) |-> ee[i]]
      /\ \A i \in DOMAIN nodes : ee[i] = IF f = "params" /\ IsThis(nodes[i]) THEN <<>> ELSE Erase(nodes[i])
  BY <1>2 DEF ErasedIn
<1>5. \A i \in DOMAIN nodes :
        IF f \in TypeFields(n.kind) THEN Type(nodes[i]) ELSE Visited(nodes[i])
  BY DEF Placed, Visited
<1>6. n.kind \in DOMAIN Kinds /\ Fields(n) = DOMAIN Kinds[n.kind].fields
  BY DEF Shaped
<1>7. CASE f \in TypeFields(n.kind)
  <2>1. \A i \in DOMAIN nodes : Erase(nodes[i]) = <<>>
    BY <1>3, <1>5, <1>7, TypesVanish
  <2>2. \A i \in DOMAIN nodes : ee[i] = <<>>
    BY <1>4, <2>1
  <2> HIDE DEF ee
  <2>3. Sequence(ee) /\ DOMAIN ee = DOMAIN nodes
    BY <1>2, <1>4, IsSequence
  <2>4. FlattenSeq(ee) = <<>>
    BY <2>2, <2>3, FlattenNothing
  <2>5. CleanedField(n, f) = <<>>
    BY <1>7 DEF CleanedField, None
  <2>6. After(<<>>, react) = <<>>
    <3>1. [i \in DOMAIN <<>> |-> StripCall(<<>>[i], react).nodes] = <<>>
      OBVIOUS
    <3>. QED  BY <3>1, FlattenNone DEF After
  <2>. QED  BY <2>4, <2>5, <2>6 DEF ee
<1>8. CASE f \notin TypeFields(n.kind) /\ f = "params" /\ n.kind \in ThisKinds
  <2>1. CleanedField(n, f) = NoThis(nodes)
    BY <1>8 DEF CleanedField
  <2>2. \A i \in DOMAIN nodes : Erases(nodes[i], react)
    BY <1>3, <1>5, <1>8
  <2>3. ee = [i \in DOMAIN nodes |-> IF IsThis(nodes[i]) THEN <<>> ELSE Erase(nodes[i])]
    BY <1>8 DEF ErasedIn
  <2> HIDE DEF ee, nodes
  <2>4. After(NoThis(nodes), react)
           = FlattenSeq([i \in DOMAIN nodes |-> IF IsThis(nodes[i]) THEN <<>> ELSE Erase(nodes[i])])
    BY <1>1, <2>2, ErasedParameters
  <2>5. After(CleanedField(n, f), react) = FlattenSeq(ee)
    BY <2>1, <2>3, <2>4
  <2>. QED  BY <2>5 DEF ee, nodes
<1>9. CASE f \notin TypeFields(n.kind) /\ ~(f = "params" /\ n.kind \in ThisKinds)
  <2>1. CleanedField(n, f) = nodes
    BY <1>9 DEF CleanedField
  <2>2. ASSUME f = "params", NEW i \in DOMAIN nodes PROVE ~IsThis(nodes[i])
    <3>1. n.kind = "ArrowFunctionExpression"
      <4>1. n.kind \in ThisKinds \cup {"ArrowFunctionExpression", "ComponentDeclaration", "HookDeclaration"}
        BY <1>6, <2>2, SortsAssumption
      <4>. QED  BY <1>9, <2>2, <4>1 DEF Lowered
    <3>2. nodes[i] \in ToSet(n.k.params)
      BY <2>2 DEF ToSet
    <3>. QED  BY <3>1, <3>2 DEF Grammatical
  <2>3. \A i \in DOMAIN nodes : ee[i] = StripCall(nodes[i], react).nodes
    BY <1>3, <1>4, <1>5, <1>9, <2>2 DEF Erases
  <2>4. ee = [i \in DOMAIN nodes |-> StripCall(nodes[i], react).nodes]
    BY <2>3
  <2>5. After(nodes, react) = FlattenSeq(ee)
    BY <2>4 DEF After
  <2>. QED  BY <2>1, <2>5
<1>. QED  BY <1>7, <1>8, <1>9

LEMMA NodeErases ==
  ASSUME StripUnfolds, EraseUnfolds, NEW react, NEW n, Tree(n), Shaped(n), Placed(n), Grammatical(n),
         n.kind \notin Lowered \cup {"ComponentParameter"}, Visited(n), ~LowersDeclared(n),
         \A c \in Children(n) :
           Tree(c) /\ Shaped(c) /\ Grammatical(c) /\ (Visited(c) => Erases(c, react)),
         Checked => Accepted(n)
  PROVE  Erases(n, react)
<1>1. IsNode(n) /\ n.kind \in DOMAIN Kinds
  BY TreeIs DEF Shaped
<1>2. \A c \in Children(n) : Grammatical(c) /\ (Visited(c) => Strips(c, react))
  BY DEF Erases
<1>3. /\ Strips(n, react)
      /\ ~OnlyTypes(n) /\ n.kind \notin Casts => StripCall(n, react) = Changed(StripChildren(Cleaned(n), react))
      /\ n.kind \in Casts =>
           /\ n.k.expression[1] \in Children(n) /\ Visited(n.k.expression[1])
           /\ StripCall(n, react) = StripCall(n.k.expression[1], react)
  BY <1>2, NodeStrips
<1>4. Erase(n) = EraseNode(n)
  BY DEF EraseUnfolds
<1>5. instanceof(n.kind, "FlowExpression") <=> n.kind \in Casts
  BY <1>1, TypesAssumption
<1>6. OnlyTypes(n) <=> Type(n) \/ ForTypes(n)
  BY TypesOnly
<1>7. CASE n.kind \in Casts
  <2>1. EraseNode(n) = Erase(n.k.expression[1])
    BY <1>5, <1>7, Zenon DEF EraseNode
  <2>2. Erases(n.k.expression[1], react)
    BY <1>3, <1>7
  <2>. QED  BY <1>3, <1>4, <1>7, <2>1, <2>2 DEF Erases
<1>8. CASE n.kind \notin Casts /\ OnlyTypes(n)
  <2>1. EraseNode(n) = <<>>
    BY <1>5, <1>6, <1>8, Zenon DEF EraseNode
  <2>2. StripCall(n, react) = Removed
    BY <1>3, <1>8 DEF Strips, Drops, Settles, Expands
  <2>. QED  BY <1>3, <1>4, <2>1, <2>2, OutcomesBecome DEF Erases
<1>9. CASE n.kind \notin Casts /\ ~OnlyTypes(n)
  <2> DEFINE m == Cleaned(n)
             y == StripChildren(m, react)
             kept == n.flags \ TypeFlags(n)
             k == [f \in Fields(n) |-> FlattenSeq([i \in DOMAIN n.k[f] |-> ErasedIn(f, n.k[f][i])])]
  <2>1. EraseNode(n) = <<[[n EXCEPT !.flags = kept] EXCEPT !.k = k]>>
    BY <1>5, <1>6, <1>9 DEF EraseNode, ErasedIn
  <2>2. [[n EXCEPT !.flags = kept] EXCEPT !.k = k] = Node(n.kind, n.op, kept, k)
    <3> HIDE DEF k, kept
    <3>1. [n EXCEPT !.flags = kept] = Node(n.kind, n.op, kept, n.k)
      BY <1>1 DEF IsNode, Node
    <3>2. [Node(n.kind, n.op, kept, n.k) EXCEPT !.k = k] = Node(n.kind, n.op, kept, k)
      BY DEF Node
    <3>. QED  BY <3>1, <3>2
  <2>3. kept = m.flags
    <3>1. m.flags = n.flags \ CleanedFlags(n.kind)
      BY NodeIs DEF Cleaned
    <3>2. n.flags \ TypeFlags(n) = n.flags \ CleanedFlags(n.kind)
      <4>1. CASE n.kind = "Identifier"
        <5>1. "declare" \notin n.flags
          BY <4>1 DEF Grammatical, Has
        <5>2. TypeFlags(n) = {"optional", "declare"} /\ CleanedFlags(n.kind) = {"optional"}
          BY <4>1 DEF TypeFlags, CleanedFlags, PatternKinds
        <5>. QED  BY <5>1, <5>2
      <4>2. CASE n.kind \in {"ObjectPattern", "ArrayPattern"}
        <5>1. "optional" \notin n.flags
          BY <4>2 DEF Grammatical, Has
        <5>2. TypeFlags(n) = {} /\ CleanedFlags(n.kind) = {"optional"}
          BY <4>2 DEF TypeFlags, CleanedFlags, PatternKinds
        <5>. QED  BY <5>1, <5>2
      <4>3. CASE n.kind \in PropertyKinds
        <5>1. TypeFlags(n) = {"optional", "declare"} /\ CleanedFlags(n.kind) = {"declare", "optional"}
          BY <4>3 DEF TypeFlags, CleanedFlags, PatternKinds, PropertyKinds
        <5>. QED  BY <5>1
      <4>4. CASE n.kind \notin PatternKinds \cup PropertyKinds
        <5>1. TypeFlags(n) = {} /\ CleanedFlags(n.kind) = {}
          BY <4>4 DEF TypeFlags, CleanedFlags, PatternKinds, PropertyKinds
        <5>. QED  BY <5>1
      <4>. QED  BY <4>1, <4>2, <4>3, <4>4 DEF PatternKinds
    <3>. QED  BY <3>1, <3>2
  <2>4. NoOtherTypes(n) /\ n.kind \notin Replaced
    BY <1>1, <1>9, PlacedTypes DEF Replaced
  <2>5. IsNode(m) /\ Shaped(m) /\ m.kind = n.kind /\ m.op = n.op /\ Fields(m) = Fields(n)
        /\ \A f \in Fields(n) : m.k[f] = CleanedField(n, f)
    BY <1>9, <2>4, CleanedIs
  <2>6. ChildrenStrip(m, react)
    <3>1. Ready(m, react)
      <4>1. Checked => validate_node(n)
        BY DEF Accepted, Lowered
      <4>. QED  BY <1>2, <1>9, <2>4, <4>1, CleanedReady
    <3>. QED  BY <3>1 DEF Ready
  <2> HIDE DEF m
  <2>7. y = Node(m.kind, m.op, m.flags, y.k) /\ Tree(y) /\ Fields(y) = Fields(m)
        /\ \A f \in Fields(m) : y.k[f] = After(m.k[f], react)
    BY <2>5, <2>6, StrippedChildren
  <2>8. \A f \in Fields(n) :
          After(CleanedField(n, f), react) = FlattenSeq([i \in DOMAIN n.k[f] |-> ErasedIn(f, n.k[f][i])])
    BY <1>9, ErasedField
  <2>9. y.k = k
    <3>1. y.k = [f \in Fields(y) |-> y.k[f]]
      BY <2>7, TreeIs DEF IsNode
    <3>2. \A f \in Fields(n) : y.k[f] = FlattenSeq([i \in DOMAIN n.k[f] |-> ErasedIn(f, n.k[f][i])])
      BY <2>5, <2>7, <2>8
    <3> HIDE DEF y
    <3>. QED  BY <2>5, <2>7, <3>1, <3>2
  <2>10. StripCall(n, react) = Changed(y)
    BY <1>3, <1>9 DEF m
  <2> HIDE DEF y, k, kept
  <2>11. Erase(n) = <<y>>
    BY <1>4, <2>1, <2>2, <2>3, <2>5, <2>7, <2>9
  <2>. QED  BY <1>3, <2>10, <2>11, OutcomesBecome DEF Erases
<1>. QED  BY <1>7, <1>8, <1>9

LEMMA ProgramErases ==
  ASSUME SubtreesUnfolds, StripUnfolds, EraseUnfolds, ProgramsAreTrees, NEW react, NEW p \in Programs,
         ~Uses(p, Lowered)
  PROVE  <<StripCall(p, react).nodes[1]>> = Erase(p)
<1> DEFINE S == Subtrees(p)
           \* Nothing is said of what only components have.
           Good == {n \in S : Visited(n) /\ n.kind # "ComponentParameter" => Erases(n, react)}
<1>1. p \in S /\ Closed(S) /\ Founded(S) /\ \A n \in S : Tree(n)
  BY SubtreesAre DEF ProgramsAreTrees
<1>2. p.kind = "Program" /\ \A n \in S : Shaped(n) /\ (Type(n) \/ Placed(n)) /\ Grammatical(n)
  BY ProgramsAssumption
<1>3. \A n \in S : n.kind \notin Lowered
  BY DEF Uses
<1>4. ASSUME NEW n \in S, \A c \in Children(n) : c \in S => c \in Good
      PROVE  n \in Good
  <2> SUFFICES ASSUME Visited(n), n.kind # "ComponentParameter" PROVE Erases(n, react)
    OBVIOUS
  <2>1. Tree(n) /\ Shaped(n) /\ Grammatical(n) /\ n.kind \notin Lowered /\ IsNode(n) /\ Children(n) \subseteq S
    BY <1>1, <1>2, <1>3 DEF Closed
  <2>2. CASE Type(n)
    <3>1. OnlyTypes(n)
      BY <2>1, <2>2, TypesOnly
    <3>2. StripCall(n, react) = Removed
      <4>1. StripCall(n, react) = StripFlowCall(n, react)
        BY <2>1 DEF StripUnfolds
      <4>2. StripFlowCall(n, react) = Removed
        BY <3>1 DEF StripFlowCall, OnlyTypes, Declarations, Casts
      <4>. QED  BY <4>1, <4>2
    <3>3. Erase(n) = <<>>
      BY <2>1, <2>2, TypesVanish
    <3>. QED  BY <2>1, <3>1, <3>2, <3>3, OutcomesBecome DEF Erases, Strips, Drops
  <2>3. CASE Placed(n) /\ ~Type(n)
    <3>1. ASSUME NEW c \in Children(n)
          PROVE  Tree(c) /\ Shaped(c) /\ Grammatical(c) /\ (Visited(c) => Erases(c, react))
      <4>1. c \in S /\ c \in Good
        BY <1>4, <2>1
      <4>2. ASSUME Visited(c), c.kind = "ComponentParameter" PROVE FALSE
        <5>1. PICK f \in Fields(n) : \E i \in DOMAIN n.k[f] : c = n.k[f][i]
          BY DEF Children
        <5>. QED
          <6>1. f \in TypeFields(n.kind) => Type(c)
            BY <5>1, <2>3 DEF Placed
          <6>2. ~TypeKind("ComponentParameter")
            BY TypesAssumption
          <6>3. f \notin TypeFields(n.kind) => n.kind = "ComponentDeclaration"
            BY <5>1, <2>3, <4>2 DEF Placed
          <6>. QED  BY <2>1, <4>2, <6>1, <6>2, <6>3 DEF Type, Lowered
      <4>3. Visited(c) => Erases(c, react)
        BY <4>1, <4>2
      <4>. QED  BY <1>1, <1>2, <4>1, <4>3
    <3>2. ~LowersDeclared(n)
      <4> SUFFICES ASSUME n.kind \in ExportKinds, DeclaredKind(n) \in Lowered PROVE FALSE
        BY DEF LowersDeclared, ExportKinds, Lowered
      <4>1. Declared(n) /\ n.k.declaration[1].kind \in Lowered
        BY DEF DeclaredKind, Lowered
      <4>2. "declaration" \in Fields(n)
        BY <2>1, SortsAssumption, FieldOf DEF ExportKinds
      <4>3. Sequence(n.k.declaration)
        BY <2>1, <4>2 DEF IsNode
      <4>4. 1 \in DOMAIN n.k.declaration
        BY <4>1, <4>3, EmptySequence, SequenceIs DEF Declared, None
      <4>5. n.k.declaration[1] \in S
        BY <2>1, <4>2, <4>4, Child
      <4>. QED  BY <1>3, <4>1, <4>5
    <3>3. Checked => Accepted(n)
      BY <2>3 DEF Checked, AllAccepted
    <3>. QED  BY <2>1, <2>3, <3>1, <3>2, <3>3, NodeErases
  <2>. QED  BY <1>2, <2>2, <2>3
<1> HIDE DEF S, Good
<1>5. S \subseteq Good
  BY <1>1, <1>4, TreeInduction
<1>6. Visited(p) /\ ~OnlyTypes(p)
  BY <1>2, TypesAssumption DEF Visited, Type, OnlyTypes, Declarations
<1>7. Erases(p, react)
  BY <1>1, <1>2, <1>5, <1>6 DEF Good
<1>8. Settles(p, react)
  BY <1>2, <1>6, <1>7 DEF Erases, Strips, Drops, Expands, ExportKinds
<1>9. PICK y : StripCall(p, react) = Changed(y)
  BY <1>8 DEF Settles
<1>10. StripCall(p, react).nodes = <<y>> /\ StripCall(p, react).nodes[1] = y
  BY <1>9, OutcomesBecome, OneSequence
<1>. QED  BY <1>7, <1>10 DEF Erases

\* Nothing but types is removed and all of them are: for every tree that the
\* parser may return, however deep, StripFlow returns what is left when each
\* type, each declaration for types and each flag of one is gone.
THEOREM StrippingErasesTypes ==
  ASSUME SubtreesUnfolds, StripUnfolds, EraseUnfolds, ProgramsAreTrees
  PROVE  Spec => []TypesErased
<1>1. IsResult => TypesErased
  BY ProgramErases DEF IsResult, TypesErased, Ran, Strip
<1>. QED  BY <1>1, PassRuns, PTL

-----------------------------------------------------------------------------
(* The nodes that the pass makes.                                          *)

LEMMA ReadySettles ==
  ASSUME StripUnfolds, NEW react, NEW m, Ready(m, react)
  PROVE  Tree(m) /\ Settles(m, react) /\ Strips(m, react)
<1>1. /\ IsNode(m) /\ Shaped(m) /\ ~OnlyTypes(m) /\ m.kind \notin Replaced /\ IsClean(m) /\ ~LowersDeclared(m)
      /\ ChildrenStrip(m, react)
  BY DEF Ready
<1>2. Tree(m)
  BY <1>1, StrippedChildren
<1>3. NoOtherTypes(m)
  BY <1>1 DEF IsClean, NoOtherTypes
<1>4. Cleaned(m) = m
  BY <1>1, CleanStays
<1>5. Settles(m, react)
  BY <1>1, <1>2, <1>3, <1>4, CleanSettles
<1>. QED  BY <1>2, <1>5 DEF Strips

\* It is accepted there, when all that the parser returns is.
Fills(x, accepts) == Checked => accepted(x.kind, accepts)

\* What can stand in a field of a node that is made.
Fits(kind, f, nodes, react) ==
  /\ Sequence(nodes)
  /\ Made[kind][f] = "One" => Len(nodes) = 1
  /\ Made[kind][f] = "Maybe" => Len(nodes) <= 1
  /\ f \in TypeFields(kind) => nodes = None
  /\ \A x \in Range(nodes) :
       /\ Strips(x, react) /\ (Made[kind][f] = "List" \/ Settles(x, react))
       /\ Fills(x, Kinds[kind].fields[f].accepts)

\* A node of a kind that the pass makes.
LEMMA MadeReady ==
  ASSUME NEW react, NEW m, IsNode(m), m.kind \in DOMAIN Made, Fields(m) = DOMAIN Made[m.kind],
         ~OnlyTypes(m), ~LowersDeclared(m), m.flags \cap CleanedFlags(m.kind) = {},
         \A f \in Fields(m) : Fits(m.kind, f, m.k[f], react), Checked => validate_custom(m),
         m.kind \in ThisKinds => \A p \in Range(m.k.params) : Parameter(p) /\ ~IsThis(p)
  PROVE  Ready(m, react)
<1>1. /\ m.kind \in DOMAIN Kinds /\ Fields(m) = DOMAIN Kinds[m.kind].fields
      /\ \A f \in Fields(m) : SortOf(m, f) = Made[m.kind][f]
  BY MadeAssumption DEF SortOf
<1>2. Shaped(m)
  BY <1>1 DEF Shaped, Fits
<1>3. IsClean(m)
  <2>1. ASSUME m.kind \in ThisKinds, NEW i \in DOMAIN m.k.params PROVE ~IsThis(m.k.params[i])
    BY <2>1 DEF Range
  <2>. QED  BY <2>1 DEF IsClean, Fits
<1>4. ChildrenStrip(m, react)
  BY <1>1 DEF ChildrenStrip, InList, Fits
<1>5. m.kind \notin Replaced
  BY DEF Made, Replaced, Casts, Lowered
<1>6. Checked => validate_node(m)
  <2> SUFFICES ASSUME Checked, NEW f \in Fields(m) PROVE validate_child(m.k[f], Kinds[m.kind].fields[f].accepts)
    BY <1>1 DEF validate_node
  <2>. QED  BY DEF Fits, Fills, Range, validate_child, accepted
<1>. QED  BY <1>2, <1>3, <1>4, <1>5, <1>6 DEF Ready

\* A field of one node.
LEMMA OneIs ==
  ASSUME NEW x
  PROVE  Sequence(<<x>>) /\ Len(<<x>>) = 1 /\ Range(<<x>>) = {x} /\ <<x>> # None
  BY OneSequence DEF Range, None

LEMMA NoneIs == Sequence(None) /\ Len(None) = 0 /\ Range(None) = {}
  BY EmptySequence DEF Range, None

LEMMA NodeMade ==
  ASSUME NEW kind, NEW op, NEW flags, NEW k, k = [f \in DOMAIN k |-> k[f]], \A f \in DOMAIN k : Sequence(k[f])
  PROVE  LET m == Node(kind, op, flags, k)
         IN  IsNode(m) /\ m.kind = kind /\ m.op = op /\ m.flags = flags /\ m.k = k /\ Fields(m) = DOMAIN k
  BY DEF IsNode, Node, Fields

LEMMA NoneFits ==
  ASSUME NEW react, NEW kind, NEW f, Made[kind][f] # "One"
  PROVE  Fits(kind, f, None, react)
  BY NoneIs DEF Fits

\* One node that is stripped to one.
Keeps(x, react) == Strips(x, react) /\ Settles(x, react)
Whole(nodes, react) == Sequence(nodes) /\ Len(nodes) = 1 /\ \A x \in Range(nodes) : Keeps(x, react)

LEMMA OneFits ==
  ASSUME NEW react, NEW kind, NEW f, f \notin TypeFields(kind), NEW x, Keeps(x, react),
         Fills(x, Kinds[kind].fields[f].accepts)
  PROVE  Fits(kind, f, <<x>>, react)
  BY OneIs DEF Fits, Keeps

LEMMA WholeFits ==
  ASSUME NEW react, NEW kind, NEW f, f \notin TypeFields(kind), NEW nodes, Whole(nodes, react),
         \A x \in Range(nodes) : Fills(x, Kinds[kind].fields[f].accepts)
  PROVE  Fits(kind, f, nodes, react)
  BY DEF Fits, Whole, Keeps

LEMMA ListFits ==
  ASSUME NEW react, NEW kind, NEW f, f \notin TypeFields(kind), Made[kind][f] = "List",
         NEW nodes, Sequence(nodes),
         \A x \in Range(nodes) : Strips(x, react) /\ Fills(x, Kinds[kind].fields[f].accepts)
  PROVE  Fits(kind, f, nodes, react)
  BY DEF Fits

\* What the table says of the kinds that are made.
LEMMA AllowedFills ==
  ASSUME NEW kind, NEW f, NEW kinds, Allows(kind, f, kinds), NEW x, x.kind \in kinds
  PROVE  Fills(x, Kinds[kind].fields[f].accepts)
  BY DEF Allows, Fills

Custom == {"MemberExpression", "Property"}

LEMMA NodeReady ==
  ASSUME NEW react, NEW kind \in DOMAIN Made \ (ThisKinds \cup ExportKinds), NEW op,
         NEW flags, flags \cap CleanedFlags(kind) = {},
         NEW k, k = [f \in DOMAIN Made[kind] |-> k[f]], \A f \in DOMAIN Made[kind] : Fits(kind, f, k[f], react),
         kind \in Custom => (Checked => validate_custom(Node(kind, op, flags, k)))
  PROVE  LET m == Node(kind, op, flags, k) IN Ready(m, react) /\ m.kind = kind /\ m.op = op
<1> DEFINE m == Node(kind, op, flags, k)
<1>1. DOMAIN k = DOMAIN Made[kind]
  OBVIOUS
<1>2. k = [f \in DOMAIN k |-> k[f]] /\ \A f \in DOMAIN k : Sequence(k[f])
  BY <1>1 DEF Fits
<1>3. IsNode(m) /\ m.kind = kind /\ m.op = op /\ m.flags = flags /\ m.k = k /\ Fields(m) = DOMAIN k
  BY <1>2, NodeMade
<1>7. kind \in Custom => (Checked => validate_custom(m))
  OBVIOUS
<1> HIDE DEF m
<1>8. Checked => validate_custom(m)
  <2>1. kind # "OptionalMemberExpression"
    BY DEF Made
  <2>2. CASE kind \notin Custom
    BY <1>3, <2>1, <2>2 DEF validate_custom, Custom
  <2>. QED  BY <1>7, <2>2
<1>4. ~OnlyTypes(m) /\ ~LowersDeclared(m)
  <2>1. kind \notin Declarations \cup {"ImportDeclaration", "ImportSpecifier", "ExportNamedDeclaration", "ExportAllDeclaration",
                                        "ClassProperty", "ClassPrivateProperty", "ExportDefaultDeclaration"}
    BY DEF Made, Declarations, ExportKinds
  <2>. QED  BY <1>3, <2>1 DEF OnlyTypes, LowersDeclared
<1>5. \A f \in Fields(m) : Fits(m.kind, f, m.k[f], react)
  BY <1>1, <1>3
<1>6. Ready(m, react)
  BY <1>1, <1>3, <1>4, <1>5, <1>8, MadeReady
<1>. QED  BY <1>3, <1>6 DEF m

\* One of a kind that validate_custom says nothing of.
LEMMA PlainReady ==
  ASSUME NEW react, NEW kind \in DOMAIN Made \ (ThisKinds \cup ExportKinds \cup Custom), NEW op,
         NEW k, k = [f \in DOMAIN Made[kind] |-> k[f]], \A f \in DOMAIN Made[kind] : Fits(kind, f, k[f], react)
  PROVE  LET m == Node(kind, op, {}, k) IN Ready(m, react) /\ m.kind = kind /\ m.op = op
<1>1. {} \cap CleanedFlags(kind) = {} /\ kind \in DOMAIN Made \ (ThisKinds \cup ExportKinds) /\ kind \notin Custom
  OBVIOUS
<1>. QED  BY <1>1, NodeReady

\* The fields for types of the kinds that are made.
LEMMA MadeTypes ==
  /\ \A k \in {"StringLiteral", "Property", "RestElement", "MemberExpression", "VariableDeclaration", "VariableDeclarator",
               "ArrayExpression", "ObjectExpression", "ExportNamedDeclaration", "ExportSpecifier",
               "ExportDefaultDeclaration"} : TypeFields(k) = {} /\ CleanedFlags(k) = {}
  /\ \A k \in {"Identifier", "ObjectPattern"} : TypeFields(k) = {"type_annotation"}
  /\ TypeFields("CallExpression") = {"type_arguments"}
  /\ TypeFields("FunctionDeclaration") = FunctionTypes /\ CleanedFlags("FunctionDeclaration") = {}
<1>1. ASSUME NEW k \in {"StringLiteral", "Property", "RestElement", "MemberExpression", "VariableDeclaration",
                        "VariableDeclarator", "ArrayExpression", "ObjectExpression", "ExportNamedDeclaration",
                        "ExportSpecifier", "ExportDefaultDeclaration"}
      PROVE  TypeFields(k) = {} /\ CleanedFlags(k) = {}
  <2>1. k \notin TypedKinds
    BY DEF TypedKinds, PatternKinds, ThisKinds, ClassKinds, PropertyKinds, CallKinds, Casts, Lowered
  <2>2. k \in DOMAIN Made
    BY DEF Made
  <2>. QED  BY <2>1, <2>2, MadeAssumption DEF CleanedFlags, TypedKinds
<1>2. \A k \in {"Identifier", "ObjectPattern"} : TypeFields(k) = {"type_annotation"}
  BY TypesAssumption DEF PatternKinds
<1>3. TypeFields("CallExpression") = {"type_arguments"}
  BY TypesAssumption DEF CallKinds
<1>4. TypeFields("FunctionDeclaration") = FunctionTypes
  BY TypesAssumption DEF ThisKinds
<1>5. CleanedFlags("FunctionDeclaration") = {}
  BY DEF CleanedFlags, PatternKinds, PropertyKinds
<1>. QED  BY <1>1, <1>2, <1>3, <1>4, <1>5

LEMMA IdentifierReady ==
  ASSUME NEW react, NEW name
  PROVE  Ready(Identifier(name), react) /\ Identifier(name).kind = "Identifier" /\ Identifier(name).op = name
<1> DEFINE k == [type_annotation |-> None]
<1>1. /\ "Identifier" \in DOMAIN Made \ (ThisKinds \cup ExportKinds \cup Custom)
      /\ Made["Identifier"] = [type_annotation |-> "Maybe"]
  BY DEF Made, ThisKinds, ExportKinds, Custom
<1>2. k = [f \in {"type_annotation"} |-> k[f]] /\ k.type_annotation = None
  OBVIOUS
<1> HIDE DEF k
<1>3. \A f \in DOMAIN Made["Identifier"] : Fits("Identifier", f, k[f], react)
  BY <1>1, <1>2, NoneFits
<1>4. k = [f \in DOMAIN Made["Identifier"] |-> k[f]]
  BY <1>1, <1>2
<1>. QED  BY <1>1, <1>3, <1>4, PlainReady DEF Identifier, k

LEMMA StringReady ==
  ASSUME NEW react, NEW text
  PROVE  Ready(String(text), react) /\ String(text).kind = "StringLiteral"
<1> DEFINE k == <<>>
<1>1. "StringLiteral" \in DOMAIN Made \ (ThisKinds \cup ExportKinds \cup Custom) /\ Made["StringLiteral"] = <<>>
  BY DEF Made, ThisKinds, ExportKinds, Custom
<1>2. k = [f \in {} |-> k[f]] /\ DOMAIN <<>> = {}
  OBVIOUS
<1> HIDE DEF k
<1>3. \A f \in DOMAIN Made["StringLiteral"] : Fits("StringLiteral", f, k[f], react)
  BY <1>1, <1>2
<1>4. k = [f \in DOMAIN Made["StringLiteral"] |-> k[f]]
  BY <1>1, <1>2
<1>5. Ready(Node("StringLiteral", text, {}, k), react)
  BY <1>1, <1>3, <1>4, PlainReady
<1>6. Node("StringLiteral", text, {}, k).kind = "StringLiteral"
  BY DEF Node
<1>. QED  BY <1>5, <1>6 DEF String, k

\* What can be the key and the value of a property that is made.
IsKey(x) == Fills(x, Kinds["Property"].fields["key"].accepts) /\ Fills(x, {"Identifier", "Literal"})
IsValue(x) == Fills(x, Kinds["Property"].fields["value"].accepts)

LEMMA PropertyReady ==
  ASSUME NEW react, NEW flags \in SUBSET {"shorthand"}, NEW key, NEW value, Keeps(key, react), Keeps(value, react),
         IsKey(key), IsValue(value)
  PROVE  Ready(Property(flags, key, value), react) /\ Property(flags, key, value).kind = "Property"
<1> DEFINE k == [key |-> <<key>>, value |-> <<value>>]
<1>1. /\ "Property" \in DOMAIN Made \ (ThisKinds \cup ExportKinds)
      /\ Made["Property"] = [key |-> "One", value |-> "One"]
  BY DEF Made, ThisKinds, ExportKinds
<1>2. k = [f \in {"key", "value"} |-> k[f]] /\ k.key = <<key>> /\ k.value = <<value>>
  OBVIOUS
<1>5. validate_custom(Node("Property", "init", flags, k)) <=> \A i \in DOMAIN <<key>> : accepted(<<key>>[i].kind, {"Identifier", "Literal"})
  BY DEF validate_custom, validate_child, accepted, Node, Has
<1>6. Checked => validate_custom(Node("Property", "init", flags, k))
  BY <1>5 DEF IsKey, Fills
<1> HIDE DEF k
<1>3. \A f \in DOMAIN Made["Property"] : Fits("Property", f, k[f], react)
  <2>1. Fits("Property", "key", <<key>>, react) /\ Fits("Property", "value", <<value>>, react)
    BY MadeTypes, OneFits DEF IsKey, IsValue
  <2>. QED  BY <1>1, <1>2, <2>1
<1>4. k = [f \in DOMAIN Made["Property"] |-> k[f]]
  BY <1>1, <1>2
<1>. QED  BY <1>1, <1>3, <1>4, <1>6, MadeTypes, NodeReady DEF Property, k

LEMMA WholeIs ==
  ASSUME NEW react, NEW x, Keeps(x, react)
  PROVE  Whole(<<x>>, react)
  BY OneIs DEF Whole

LEMMA ReadyKeeps ==
  ASSUME StripUnfolds, NEW react, NEW m, Ready(m, react)
  PROVE  Keeps(m, react) /\ Whole(<<m>>, react)
  BY ReadySettles, WholeIs DEF Keeps

LEMMA RestReady ==
  ASSUME NEW react, NEW argument, Whole(argument, react),
         \A x \in Range(argument) : Fills(x, Kinds["RestElement"].fields["argument"].accepts)
  PROVE  Ready(Node("RestElement", "", {}, [argument |-> argument]), react) /\ Node("RestElement", "", {}, [argument |-> argument]).kind = "RestElement"
<1> DEFINE k == [argument |-> argument]
<1>1. /\ "RestElement" \in DOMAIN Made \ (ThisKinds \cup ExportKinds \cup Custom)
      /\ Made["RestElement"] = [argument |-> "One"]
  BY DEF Made, ThisKinds, ExportKinds, Custom
<1>2. k = [f \in {"argument"} |-> k[f]] /\ k.argument = argument
  OBVIOUS
<1> HIDE DEF k
<1>3. Fits("RestElement", "argument", k.argument, react)
  BY <1>1, <1>2, MadeTypes, WholeFits
<1>4. k = [f \in DOMAIN Made["RestElement"] |-> k[f]]
  BY <1>1, <1>2
<1>5. \A f \in DOMAIN Made["RestElement"] : Fits("RestElement", f, k[f], react)
  BY <1>1, <1>2, <1>3
<1>6. "RestElement" \in DOMAIN Made \ (ThisKinds \cup ExportKinds \cup Custom)
  BY <1>1
<1>7. Ready(Node("RestElement", "", {}, k), react)
  BY <1>4, <1>5, <1>6, PlainReady
<1>8. Node("RestElement", "", {}, k).kind = "RestElement"
  BY DEF Node
<1>. QED  BY <1>7, <1>8 DEF k

LEMMA PatternReady ==
  ASSUME NEW react, NEW properties, Sequence(properties),
         \A x \in Range(properties) : Strips(x, react) /\ Fills(x, Kinds["ObjectPattern"].fields["properties"].accepts)
  PROVE  Ready(Node("ObjectPattern", "", {}, [properties |-> properties, type_annotation |-> None]), react) /\ Node("ObjectPattern", "", {}, [properties |-> properties, type_annotation |-> None]).kind = "ObjectPattern"
<1> DEFINE k == [properties |-> properties, type_annotation |-> None]
<1>1. /\ "ObjectPattern" \in DOMAIN Made \ (ThisKinds \cup ExportKinds \cup Custom)
      /\ Made["ObjectPattern"] = [properties |-> "List", type_annotation |-> "Maybe"]
  BY DEF Made, ThisKinds, ExportKinds, Custom
<1>2. k = [f \in {"properties", "type_annotation"} |-> k[f]] /\ k.properties = properties /\ k.type_annotation = None
  OBVIOUS
<1> HIDE DEF k
<1>3. Fits("ObjectPattern", "properties", k.properties, react)
  BY <1>1, <1>2, MadeTypes, ListFits
<1>4. Fits("ObjectPattern", "type_annotation", k.type_annotation, react)
  BY <1>1, <1>2, MadeTypes, NoneFits
<1>5. k = [f \in DOMAIN Made["ObjectPattern"] |-> k[f]]
  BY <1>1, <1>2
<1>6. \A f \in DOMAIN Made["ObjectPattern"] : Fits("ObjectPattern", f, k[f], react)
  BY <1>1, <1>2, <1>3, <1>4
<1>7. "ObjectPattern" \in DOMAIN Made \ (ThisKinds \cup ExportKinds \cup Custom)
  BY <1>1
<1>8. Ready(Node("ObjectPattern", "", {}, k), react)
  BY <1>5, <1>6, <1>7, PlainReady
<1>9. Node("ObjectPattern", "", {}, k).kind = "ObjectPattern"
  BY DEF Node
<1>. QED  BY <1>8, <1>9 DEF k

LEMMA CallReady ==
  ASSUME NEW react, NEW callee, NEW argument, Keeps(callee, react), Keeps(argument, react),
         callee.kind \in {"Identifier", "MemberExpression", "CallExpression"},
         argument.kind \in {"Identifier", "StringLiteral", "ArrayExpression", "ObjectExpression"}
  PROVE  Ready(Call1(callee, argument), react) /\ Call1(callee, argument).kind = "CallExpression"
<1> DEFINE k == [callee |-> <<callee>>, type_arguments |-> None, arguments |-> <<argument>>]
<1>1. /\ "CallExpression" \in DOMAIN Made \ (ThisKinds \cup ExportKinds \cup Custom)
      /\ Made["CallExpression"] = [callee |-> "One", type_arguments |-> "Maybe", arguments |-> "List"]
  BY DEF Made, ThisKinds, ExportKinds, Custom
<1>2. k = [f \in {"callee", "type_arguments", "arguments"} |-> k[f]] /\ k.callee = <<callee>> /\ k.type_arguments = None /\ k.arguments = <<argument>>
  OBVIOUS
<1>0. /\ Fills(callee, Kinds["CallExpression"].fields["callee"].accepts)
      /\ Fills(argument, Kinds["CallExpression"].fields["arguments"].accepts)
  BY AllowedFills, TakesAssumption
<1> HIDE DEF k
<1>3. Fits("CallExpression", "callee", k.callee, react)
  <2>1. "callee" \notin TypeFields("CallExpression")
    BY MadeTypes
  <2>2. Fits("CallExpression", "callee", <<callee>>, react)
    BY <1>0, <2>1, OneFits
  <2>. QED  BY <1>2, <2>2
<1>4. Fits("CallExpression", "type_arguments", k.type_arguments, react)
  BY <1>1, <1>2, MadeTypes, NoneFits
<1>5. Fits("CallExpression", "arguments", k.arguments, react)
  <2>1. "arguments" \notin TypeFields("CallExpression")
    BY MadeTypes
  <2>2. Fits("CallExpression", "arguments", <<argument>>, react)
    BY <1>0, <2>1, OneFits
  <2>. QED  BY <1>2, <2>2
<1>6. k = [f \in DOMAIN Made["CallExpression"] |-> k[f]]
  BY <1>1, <1>2
<1>7. \A f \in DOMAIN Made["CallExpression"] : Fits("CallExpression", f, k[f], react)
  BY <1>1, <1>2, <1>3, <1>4, <1>5
<1>8. "CallExpression" \in DOMAIN Made \ (ThisKinds \cup ExportKinds \cup Custom)
  BY <1>1
<1>9. Ready(Node("CallExpression", "", {}, k), react)
  BY <1>6, <1>7, <1>8, PlainReady
<1>10. Node("CallExpression", "", {}, k).kind = "CallExpression"
  BY DEF Node
<1>. QED  BY <1>9, <1>10 DEF Call1, k

LEMMA MemberReady ==
  ASSUME NEW react, NEW object, NEW name, StripUnfolds, Keeps(object, react),
         object.kind \in {"Identifier", "CallExpression"}
  PROVE  Ready(Member(object, name), react) /\ Member(object, name).kind = "MemberExpression"
<1> DEFINE k == [object |-> <<object>>, property |-> <<Identifier(name)>>]
<1>1. /\ "MemberExpression" \in DOMAIN Made \ (ThisKinds \cup ExportKinds)
      /\ Made["MemberExpression"] = [object |-> "One", property |-> "One"]
  BY DEF Made, ThisKinds, ExportKinds
<1>2. k = [f \in {"object", "property"} |-> k[f]] /\ k.object = <<object>> /\ k.property = <<Identifier(name)>>
  OBVIOUS
<1>0. /\ Fills(object, Kinds["MemberExpression"].fields["object"].accepts)
      /\ Fills(Identifier(name), Kinds["MemberExpression"].fields["property"].accepts) /\ Keeps(Identifier(name), react)
  <2>1. Identifier(name).kind \in {"Identifier"}
    BY IdentifierReady
  <2>2. /\ Allows("MemberExpression", "object", {"Identifier", "CallExpression"})
        /\ Allows("MemberExpression", "property", {"Identifier"})
    BY TakesAssumption
  <2>3. Fills(object, Kinds["MemberExpression"].fields["object"].accepts)
    BY <2>2, AllowedFills
  <2>4. Fills(Identifier(name), Kinds["MemberExpression"].fields["property"].accepts)
    BY <2>1, <2>2, AllowedFills
  <2>5. Keeps(Identifier(name), react)
    BY IdentifierReady, ReadyKeeps
  <2>. QED  BY <2>3, <2>4, <2>5
<1>10. validate_custom(Node("MemberExpression", "", {}, k))
  <2>1. \A i \in DOMAIN <<Identifier(name)>> : <<Identifier(name)>>[i].kind = "Identifier"
    BY IdentifierReady
  <2>2. validate_child(<<Identifier(name)>>, {"Identifier"})
    BY <2>1 DEF validate_child, instanceof
  <2>. QED  BY <2>2 DEF validate_custom, Node, Has
<1> HIDE DEF k
<1>3. Fits("MemberExpression", "object", k.object, react)
  <2>1. "object" \notin TypeFields("MemberExpression")
    BY MadeTypes
  <2>2. Fits("MemberExpression", "object", <<object>>, react)
    BY <1>0, <2>1, OneFits
  <2>. QED  BY <1>2, <2>2
<1>4. Fits("MemberExpression", "property", k.property, react)
  <2>1. "property" \notin TypeFields("MemberExpression")
    BY MadeTypes
  <2>2. Fits("MemberExpression", "property", <<Identifier(name)>>, react)
    BY <1>0, <2>1, OneFits
  <2>. QED  BY <1>2, <2>2
<1>5. k = [f \in DOMAIN Made["MemberExpression"] |-> k[f]]
  BY <1>1, <1>2
<1>6. \A f \in DOMAIN Made["MemberExpression"] : Fits("MemberExpression", f, k[f], react)
  BY <1>1, <1>2, <1>3, <1>4
<1>7. "MemberExpression" \in DOMAIN Made \ (ThisKinds \cup ExportKinds)
  BY <1>1
<1>8. Ready(Node("MemberExpression", "", {}, k), react)
  <2>1. {} \cap CleanedFlags("MemberExpression") = {}
    OBVIOUS
  <2>. QED  BY <1>5, <1>6, <1>7, <1>10, <2>1, NodeReady
<1>9. Node("MemberExpression", "", {}, k).kind = "MemberExpression"
  BY DEF Node
<1>. QED  BY <1>8, <1>9 DEF Member, k

LEMMA ListReady ==
  ASSUME NEW react, NEW elements, Sequence(elements),
         \A x \in Range(elements) : Strips(x, react) /\ x.kind = "StringLiteral"
  PROVE  Ready(Node("ArrayExpression", "", {}, [elements |-> elements]), react) /\ Node("ArrayExpression", "", {}, [elements |-> elements]).kind = "ArrayExpression"
<1> DEFINE k == [elements |-> elements]
<1>1. /\ "ArrayExpression" \in DOMAIN Made \ (ThisKinds \cup ExportKinds \cup Custom)
      /\ Made["ArrayExpression"] = [elements |-> "List"]
  BY DEF Made, ThisKinds, ExportKinds, Custom
<1>2. k = [f \in {"elements"} |-> k[f]] /\ k.elements = elements
  OBVIOUS
<1>0. \A x \in Range(elements) : Fills(x, Kinds["ArrayExpression"].fields["elements"].accepts)
  BY AllowedFills, TakesAssumption
<1> HIDE DEF k
<1>3. Fits("ArrayExpression", "elements", k.elements, react)
  BY <1>0, <1>1, <1>2, MadeTypes, ListFits
<1>4. k = [f \in DOMAIN Made["ArrayExpression"] |-> k[f]]
  BY <1>1, <1>2
<1>5. \A f \in DOMAIN Made["ArrayExpression"] : Fits("ArrayExpression", f, k[f], react)
  BY <1>1, <1>2, <1>3
<1>6. "ArrayExpression" \in DOMAIN Made \ (ThisKinds \cup ExportKinds \cup Custom)
  BY <1>1
<1>7. Ready(Node("ArrayExpression", "", {}, k), react)
  BY <1>4, <1>5, <1>6, PlainReady
<1>8. Node("ArrayExpression", "", {}, k).kind = "ArrayExpression"
  BY DEF Node
<1>. QED  BY <1>7, <1>8 DEF k

LEMMA ObjectReady ==
  ASSUME NEW react, NEW properties, Sequence(properties),
         \A x \in Range(properties) : Strips(x, react) /\ x.kind = "Property"
  PROVE  Ready(Node("ObjectExpression", "", {}, [properties |-> properties]), react) /\ Node("ObjectExpression", "", {}, [properties |-> properties]).kind = "ObjectExpression"
<1> DEFINE k == [properties |-> properties]
<1>1. /\ "ObjectExpression" \in DOMAIN Made \ (ThisKinds \cup ExportKinds \cup Custom)
      /\ Made["ObjectExpression"] = [properties |-> "List"]
  BY DEF Made, ThisKinds, ExportKinds, Custom
<1>2. k = [f \in {"properties"} |-> k[f]] /\ k.properties = properties
  OBVIOUS
<1>0. \A x \in Range(properties) : Fills(x, Kinds["ObjectExpression"].fields["properties"].accepts)
  BY AllowedFills, TakesAssumption
<1> HIDE DEF k
<1>3. Fits("ObjectExpression", "properties", k.properties, react)
  BY <1>0, <1>1, <1>2, MadeTypes, ListFits
<1>4. k = [f \in DOMAIN Made["ObjectExpression"] |-> k[f]]
  BY <1>1, <1>2
<1>5. \A f \in DOMAIN Made["ObjectExpression"] : Fits("ObjectExpression", f, k[f], react)
  BY <1>1, <1>2, <1>3
<1>6. "ObjectExpression" \in DOMAIN Made \ (ThisKinds \cup ExportKinds \cup Custom)
  BY <1>1
<1>7. Ready(Node("ObjectExpression", "", {}, k), react)
  BY <1>4, <1>5, <1>6, PlainReady
<1>8. Node("ObjectExpression", "", {}, k).kind = "ObjectExpression"
  BY DEF Node
<1>. QED  BY <1>7, <1>8 DEF k

LEMMA DeclaratorReady ==
  ASSUME NEW react, NEW id, NEW init, Keeps(id, react), Keeps(init, react),
         id.kind = "Identifier", init.kind = "CallExpression"
  PROVE  Ready(Node("VariableDeclarator", "", {}, [id |-> <<id>>, init |-> <<init>>]), react) /\ Node("VariableDeclarator", "", {}, [id |-> <<id>>, init |-> <<init>>]).kind = "VariableDeclarator"
<1> DEFINE k == [id |-> <<id>>, init |-> <<init>>]
<1>1. /\ "VariableDeclarator" \in DOMAIN Made \ (ThisKinds \cup ExportKinds \cup Custom)
      /\ Made["VariableDeclarator"] = [id |-> "One", init |-> "Maybe"]
  BY DEF Made, ThisKinds, ExportKinds, Custom
<1>2. k = [f \in {"id", "init"} |-> k[f]] /\ k.id = <<id>> /\ k.init = <<init>>
  OBVIOUS
<1>0. /\ Fills(id, Kinds["VariableDeclarator"].fields["id"].accepts)
      /\ Fills(init, Kinds["VariableDeclarator"].fields["init"].accepts)
  BY AllowedFills, TakesAssumption
<1> HIDE DEF k
<1>3. Fits("VariableDeclarator", "id", k.id, react)
  <2>1. "id" \notin TypeFields("VariableDeclarator")
    BY MadeTypes
  <2>2. Fits("VariableDeclarator", "id", <<id>>, react)
    BY <1>0, <2>1, OneFits
  <2>. QED  BY <1>2, <2>2
<1>4. Fits("VariableDeclarator", "init", k.init, react)
  <2>1. "init" \notin TypeFields("VariableDeclarator")
    BY MadeTypes
  <2>2. Fits("VariableDeclarator", "init", <<init>>, react)
    BY <1>0, <2>1, OneFits
  <2>. QED  BY <1>2, <2>2
<1>5. k = [f \in DOMAIN Made["VariableDeclarator"] |-> k[f]]
  BY <1>1, <1>2
<1>6. \A f \in DOMAIN Made["VariableDeclarator"] : Fits("VariableDeclarator", f, k[f], react)
  BY <1>1, <1>2, <1>3, <1>4
<1>7. "VariableDeclarator" \in DOMAIN Made \ (ThisKinds \cup ExportKinds \cup Custom)
  BY <1>1
<1>8. Ready(Node("VariableDeclarator", "", {}, k), react)
  BY <1>5, <1>6, <1>7, PlainReady
<1>9. Node("VariableDeclarator", "", {}, k).kind = "VariableDeclarator"
  BY DEF Node
<1>. QED  BY <1>8, <1>9 DEF k

LEMMA ConstReady ==
  ASSUME NEW react, NEW id, NEW init, StripUnfolds, Keeps(id, react), Keeps(init, react),
         id.kind = "Identifier", init.kind = "CallExpression"
  PROVE  Ready(Const(id, init), react) /\ Const(id, init).kind = "VariableDeclaration"
<1> DEFINE declarator == Node("VariableDeclarator", "", {}, [id |-> <<id>>, init |-> <<init>>])
           k == [declarations |-> <<declarator>>]
<1>1. /\ "VariableDeclaration" \in DOMAIN Made \ (ThisKinds \cup ExportKinds \cup Custom)
      /\ Made["VariableDeclaration"] = [declarations |-> "List"]
  BY DEF Made, ThisKinds, ExportKinds, Custom
<1>2. k = [f \in {"declarations"} |-> k[f]] /\ k.declarations = <<declarator>>
  OBVIOUS
<1>0. Fills(declarator, Kinds["VariableDeclaration"].fields["declarations"].accepts) /\ Keeps(declarator, react)
  <2>1. Ready(declarator, react) /\ declarator.kind \in {"VariableDeclarator"}
    BY DeclaratorReady
  <2>2. Allows("VariableDeclaration", "declarations", {"VariableDeclarator"})
    BY TakesAssumption
  <2> HIDE DEF declarator
  <2>3. Keeps(declarator, react)
    BY <2>1, ReadyKeeps
  <2>4. Fills(declarator, Kinds["VariableDeclaration"].fields["declarations"].accepts)
    BY <2>1, <2>2, AllowedFills
  <2>. QED  BY <2>3, <2>4
<1> HIDE DEF k, declarator
<1>3. Fits("VariableDeclaration", "declarations", k.declarations, react)
  <2>1. "declarations" \notin TypeFields("VariableDeclaration")
    BY MadeTypes
  <2>2. Fits("VariableDeclaration", "declarations", <<declarator>>, react)
    BY <1>0, <2>1, OneFits
  <2>. QED  BY <1>2, <2>2
<1>4. k = [f \in DOMAIN Made["VariableDeclaration"] |-> k[f]]
  BY <1>1, <1>2
<1>5. \A f \in DOMAIN Made["VariableDeclaration"] : Fits("VariableDeclaration", f, k[f], react)
  BY <1>1, <1>2, <1>3
<1>6. "VariableDeclaration" \in DOMAIN Made \ (ThisKinds \cup ExportKinds \cup Custom)
  BY <1>1
<1>7. Ready(Node("VariableDeclaration", "const", {}, k), react)
  BY <1>4, <1>5, <1>6, PlainReady
<1>8. Node("VariableDeclaration", "const", {}, k).kind = "VariableDeclaration"
  BY DEF Node
<1>. QED  BY <1>7, <1>8 DEF Const, k, declarator

LEMMA SpecifierReady ==
  ASSUME NEW react, NEW id, Keeps(id, react), id.kind = "Identifier"
  PROVE  Ready(Node("ExportSpecifier", "", {}, [exported |-> <<id>>, local |-> <<id>>]), react)
         /\ Node("ExportSpecifier", "", {}, [exported |-> <<id>>, local |-> <<id>>]).kind = "ExportSpecifier"
<1> DEFINE k == [exported |-> <<id>>, local |-> <<id>>]
<1>1. /\ "ExportSpecifier" \in DOMAIN Made \ (ThisKinds \cup ExportKinds \cup Custom)
      /\ Made["ExportSpecifier"] = [exported |-> "One", local |-> "One"]
  BY DEF Made, ThisKinds, ExportKinds, Custom
<1>2. k = [f \in {"exported", "local"} |-> k[f]] /\ k.exported = <<id>> /\ k.local = <<id>>
  OBVIOUS
<1>0. /\ Fills(id, Kinds["ExportSpecifier"].fields["exported"].accepts)
      /\ Fills(id, Kinds["ExportSpecifier"].fields["local"].accepts)
  BY AllowedFills, TakesAssumption
<1> HIDE DEF k
<1>3. Fits("ExportSpecifier", "exported", k.exported, react)
  <2>1. "exported" \notin TypeFields("ExportSpecifier")
    BY MadeTypes
  <2>2. Fits("ExportSpecifier", "exported", <<id>>, react)
    BY <1>0, <2>1, OneFits
  <2>. QED  BY <1>2, <2>2
<1>4. Fits("ExportSpecifier", "local", k.local, react)
  <2>1. "local" \notin TypeFields("ExportSpecifier")
    BY MadeTypes
  <2>2. Fits("ExportSpecifier", "local", <<id>>, react)
    BY <1>0, <2>1, OneFits
  <2>. QED  BY <1>2, <2>2
<1>5. k = [f \in DOMAIN Made["ExportSpecifier"] |-> k[f]]
  BY <1>1, <1>2
<1>6. \A f \in DOMAIN Made["ExportSpecifier"] : Fits("ExportSpecifier", f, k[f], react)
  BY <1>1, <1>2, <1>3, <1>4
<1>7. "ExportSpecifier" \in DOMAIN Made \ (ThisKinds \cup ExportKinds \cup Custom)
  BY <1>1
<1>8. Ready(Node("ExportSpecifier", "", {}, k), react)
  BY <1>5, <1>6, <1>7, PlainReady
<1>9. Node("ExportSpecifier", "", {}, k).kind = "ExportSpecifier"
  BY DEF Node
<1>. QED  BY <1>8, <1>9 DEF k

LEMMA NamedExportReady ==
  ASSUME NEW react, NEW declaration, NEW specifiers,
         declaration = None \/ \E d : declaration = <<d>> /\ Keeps(d, react) /\ d.kind = "FunctionDeclaration",
         Sequence(specifiers), \A x \in Range(specifiers) : Strips(x, react) /\ x.kind = "ExportSpecifier"
  PROVE  Ready(NamedExport(declaration, specifiers), react) /\ NamedExport(declaration, specifiers).kind = "ExportNamedDeclaration"
<1> DEFINE k == [declaration |-> declaration, specifiers |-> specifiers, source |-> None]
           m == Node("ExportNamedDeclaration", "value", {}, k)
<1>1. "ExportNamedDeclaration" \in DOMAIN Made /\ Made["ExportNamedDeclaration"] = [declaration |-> "Maybe", specifiers |-> "List", source |-> "Maybe"]
  BY DEF Made
<1>2. k = [f \in {"declaration", "specifiers", "source"} |-> k[f]] /\ k.declaration = declaration /\ k.specifiers = specifiers /\ k.source = None
  OBVIOUS
<1>0. /\ \A d : d.kind = "FunctionDeclaration" => Fills(d, Kinds["ExportNamedDeclaration"].fields["declaration"].accepts)
      /\ \A x \in Range(specifiers) : Fills(x, Kinds["ExportNamedDeclaration"].fields["specifiers"].accepts)
  BY AllowedFills, TakesAssumption
<1> HIDE DEF k
<1>3. Fits("ExportNamedDeclaration", "declaration", k.declaration, react)
  BY <1>0, <1>1, <1>2, MadeTypes, OneFits, NoneFits
<1>4. Fits("ExportNamedDeclaration", "specifiers", k.specifiers, react)
  BY <1>0, <1>1, <1>2, MadeTypes, ListFits
<1>5. Fits("ExportNamedDeclaration", "source", k.source, react)
  BY <1>1, <1>2, MadeTypes, NoneFits
<1>6. k = [f \in DOMAIN k |-> k[f]] /\ DOMAIN k = DOMAIN Made["ExportNamedDeclaration"]
  BY <1>1, <1>2
<1>7. \A f \in DOMAIN k : Fits("ExportNamedDeclaration", f, k[f], react)
  BY <1>1, <1>2, <1>3, <1>4, <1>5
<1>8. m.kind = "ExportNamedDeclaration" /\ m.op = "value" /\ m.flags = {} /\ m.k = k
  BY DEF Node
<1>9. IsNode(m) /\ Fields(m) = DOMAIN k
  <2>1. \A f \in DOMAIN k : Sequence(k[f])
    BY <1>7 DEF Fits
  <2>2. m = Node(m.kind, m.op, m.flags, m.k)
    BY <1>8
  <2> HIDE DEF m
  <2>. QED  BY <1>6, <1>8, <2>1, <2>2 DEF IsNode, Fields
<1> HIDE DEF m
<1>10. DeclaredKind(m) \notin Lowered
  BY <1>2, <1>8 DEF DeclaredKind, Declared, Lowered
<1>11. ~OnlyTypes(m) /\ ~LowersDeclared(m)
  BY <1>8, <1>10 DEF OnlyTypes, Declarations, LowersDeclared, Lowered
<1>12. (\A f \in Fields(m) : Fits(m.kind, f, m.k[f], react)) /\ validate_custom(m)
  BY <1>7, <1>8, <1>9 DEF validate_custom
<1>13. m.flags \cap CleanedFlags(m.kind) = {} /\ m.kind \notin ThisKinds
  BY <1>8 DEF ThisKinds
<1>14. Ready(m, react)
  BY <1>1, <1>6, <1>8, <1>9, <1>11, <1>12, <1>13, MadeReady
<1>. QED  BY <1>8, <1>14 DEF NamedExport, m, k

LEMMA DefaultExportReady ==
  ASSUME NEW react, NEW declaration, Keeps(declaration, react), declaration.kind \in {"FunctionDeclaration", "Identifier"}
  PROVE  Ready(build_default_export(declaration), react) /\ build_default_export(declaration).kind = "ExportDefaultDeclaration"
<1> DEFINE k == [declaration |-> <<declaration>>]
           m == Node("ExportDefaultDeclaration", "", {}, k)
<1>1. "ExportDefaultDeclaration" \in DOMAIN Made /\ Made["ExportDefaultDeclaration"] = [declaration |-> "One"]
  BY DEF Made
<1>2. k = [f \in {"declaration"} |-> k[f]] /\ k.declaration = <<declaration>>
  OBVIOUS
<1>0. Fills(declaration, Kinds["ExportDefaultDeclaration"].fields["declaration"].accepts) /\ declaration.kind \notin Lowered
  BY AllowedFills, TakesAssumption DEF Lowered
<1> HIDE DEF k
<1>3. Fits("ExportDefaultDeclaration", "declaration", k.declaration, react)
  BY <1>0, <1>1, <1>2, MadeTypes, OneFits
<1>4. k = [f \in DOMAIN k |-> k[f]] /\ DOMAIN k = DOMAIN Made["ExportDefaultDeclaration"]
  BY <1>1, <1>2
<1>5. \A f \in DOMAIN k : Fits("ExportDefaultDeclaration", f, k[f], react)
  BY <1>1, <1>2, <1>3
<1>6. m.kind = "ExportDefaultDeclaration" /\ m.op = "" /\ m.flags = {} /\ m.k = k
  BY DEF Node
<1>7. IsNode(m) /\ Fields(m) = DOMAIN k
  <2>1. \A f \in DOMAIN k : Sequence(k[f])
    BY <1>5 DEF Fits
  <2>2. m = Node(m.kind, m.op, m.flags, m.k)
    BY <1>6
  <2> HIDE DEF m
  <2>. QED  BY <1>4, <1>6, <2>1, <2>2 DEF IsNode, Fields
<1> HIDE DEF m
<1>8. DeclaredKind(m) \notin Lowered
  <2>3. k.declaration = <<declaration>>
    BY <1>2
  <2>4. m.k.declaration = <<declaration>>
    BY <1>6, <2>3, Zenon
  <2>5. <<declaration>>[1] = declaration
    OBVIOUS
  <2>1. m.k.declaration = <<declaration>> /\ m.k.declaration[1] = declaration
    BY <2>4, <2>5, Zenon
  <2>2. m.k.declaration # None
    BY <2>1, OneIs
  <2>6. DeclaredKind(m) = declaration.kind
    BY <2>1, <2>2 DEF DeclaredKind, Declared
  <2>. QED  BY <1>0, <2>6
<1>9. ~OnlyTypes(m) /\ ~LowersDeclared(m)
  <2>1. m.kind \notin Declarations
    BY <1>6 DEF Declarations
  <2>. QED  BY <1>6, <1>8, <2>1 DEF OnlyTypes, LowersDeclared, Lowered
<1>10. (\A f \in Fields(m) : Fits(m.kind, f, m.k[f], react)) /\ validate_custom(m)
  BY <1>5, <1>6, <1>7 DEF validate_custom
<1>11. m.flags \cap CleanedFlags(m.kind) = {} /\ m.kind \notin ThisKinds
  BY <1>6 DEF ThisKinds
<1>12. Ready(m, react)
  BY <1>1, <1>4, <1>6, <1>7, <1>9, <1>10, <1>11, MadeReady
<1>. QED  BY <1>6, <1>12 DEF build_default_export, m, k

-----------------------------------------------------------------------------
(* What components, hooks and enums become.                                *)

\* What can be the parameters of a function that is made.
Takes(params, react) ==
  /\ Sequence(params)
  /\ \A x \in Range(params) : Strips(x, react) /\ Parameter(x) /\ ~IsThis(x) /\ Fills(x, {"Pattern"})

\* The function of a component or a hook.
LEMMA FunctionReady ==
  ASSUME NEW react, NEW id, Keeps(id, react), id.kind = "Identifier",
         NEW n, "body" \in DOMAIN n.k, Whole(n.k.body, react), \A x \in Range(n.k.body) : Fills(x, {"BlockStatement"}),
         NEW params, Takes(params, react)
  PROVE  Ready(FunctionDeclaration(id, params, n), react)
         /\ FunctionDeclaration(id, params, n).kind = "FunctionDeclaration"
<1> DEFINE k == [id |-> <<id>>, params |-> params, body |-> n.k.body, type_parameters |-> None,
                 return_type |-> None, predicate |-> None]
           flags == n.flags \cap {"is_async"}
           m == Node("FunctionDeclaration", "", flags, k)
<1>1. Made["FunctionDeclaration"] = [id |-> "Maybe", params |-> "List", body |-> "One", type_parameters |-> "Maybe",
                                     return_type |-> "Maybe", predicate |-> "Maybe"]
      /\ "FunctionDeclaration" \in DOMAIN Made
  BY DEF Made
<1>2. /\ k = [f \in {"id", "params", "body", "type_parameters", "return_type", "predicate"} |-> k[f]]
      /\ k.id = <<id>> /\ k.params = params /\ k.body = n.k.body
      /\ k.type_parameters = None /\ k.return_type = None /\ k.predicate = None
  OBVIOUS
<1>0. /\ Fills(id, Kinds["FunctionDeclaration"].fields["id"].accepts)
      /\ Kinds["FunctionDeclaration"].fields["params"].accepts = {"Pattern"}
      /\ Kinds["FunctionDeclaration"].fields["body"].accepts = {"BlockStatement"}
  BY AllowedFills, TakesAssumption
<1> HIDE DEF k, flags
<1>3. TypeFields("FunctionDeclaration") = FunctionTypes /\ CleanedFlags("FunctionDeclaration") = {}
  BY MadeTypes
<1>4. Fits("FunctionDeclaration", "id", k.id, react)
  <2>1. "id" \notin TypeFields("FunctionDeclaration")
    BY <1>3 DEF FunctionTypes
  <2>. QED  BY <1>0, <1>2, <2>1, OneFits
<1>5. Fits("FunctionDeclaration", "params", k.params, react)
  <2>1. "params" \notin TypeFields("FunctionDeclaration") /\ Made["FunctionDeclaration"]["params"] = "List"
    BY <1>1, <1>3 DEF FunctionTypes
  <2>. QED  BY <1>0, <1>2, <2>1, ListFits DEF Takes
<1>6. Fits("FunctionDeclaration", "body", k.body, react)
  <2>1. "body" \notin TypeFields("FunctionDeclaration")
    BY <1>3 DEF FunctionTypes
  <2>. QED  BY <1>0, <1>2, <2>1, WholeFits
<1>7. /\ Fits("FunctionDeclaration", "type_parameters", k.type_parameters, react)
      /\ Fits("FunctionDeclaration", "return_type", k.return_type, react)
      /\ Fits("FunctionDeclaration", "predicate", k.predicate, react)
  BY <1>1, <1>2, NoneFits
<1>8. k = [f \in DOMAIN k |-> k[f]] /\ DOMAIN k = DOMAIN Made["FunctionDeclaration"]
  BY <1>1, <1>2
<1>9. \A f \in DOMAIN k : Fits("FunctionDeclaration", f, k[f], react)
  BY <1>1, <1>4, <1>5, <1>6, <1>7, <1>8
<1>10. m.kind = "FunctionDeclaration" /\ m.op = "" /\ m.flags = flags /\ m.k = k
  BY DEF Node
<1>11. IsNode(m) /\ Fields(m) = DOMAIN k
  <2>1. \A f \in DOMAIN k : Sequence(k[f])
    BY <1>9 DEF Fits
  <2>2. m = Node(m.kind, m.op, m.flags, m.k)
    BY <1>10
  <2> HIDE DEF m
  <2>. QED  BY <1>8, <1>10, <2>1, <2>2 DEF IsNode, Fields
<1> HIDE DEF m
<1>12. ~OnlyTypes(m) /\ ~LowersDeclared(m)
  <2>1. m.kind \notin Declarations
    BY <1>10 DEF Declarations
  <2>. QED  BY <1>10, <2>1 DEF OnlyTypes, LowersDeclared
<1>13. (\A f \in Fields(m) : Fits(m.kind, f, m.k[f], react)) /\ validate_custom(m)
  BY <1>9, <1>10, <1>11 DEF validate_custom
<1>14. m.flags \cap CleanedFlags(m.kind) = {}
  BY <1>3, <1>10
<1>15. \A p \in Range(m.k.params) : Parameter(p) /\ ~IsThis(p)
  BY <1>2, <1>10 DEF Takes
<1>16. Ready(m, react)
  BY <1>1, <1>8, <1>10, <1>11, <1>12, <1>13, <1>14, <1>15, MadeReady
<1>. QED  BY <1>10, <1>16 DEF FunctionDeclaration, m, k, flags

\* The nodes below one, when all of them are stripped.
Known(S, react) ==
  /\ Closed(S)
  /\ \A m \in S : /\ Tree(m) /\ Shaped(m) /\ (Type(m) \/ Placed(m)) /\ Grammatical(m)
                  /\ Visited(m) /\ m.kind # "ComponentParameter" => Strips(m, react)
                  /\ Checked => Type(m) \/ Accepted(m)
\* A node above them that stays where it is until they are stripped.
Stands(n, S) ==
  /\ Tree(n) /\ Shaped(n) /\ Placed(n) /\ Grammatical(n) /\ Children(n) \subseteq S
  /\ ~OnlyTypes(n) /\ ~LowersDeclared(n) /\ n.kind \notin Casts /\ (Checked => Accepted(n))

\* What stands in a field is accepted there.
LEMMA AcceptedBelow ==
  ASSUME NEW S, NEW n, Stands(n, S), n.kind \notin {"ComponentDeclaration", "ComponentParameter"},
         NEW f \in Fields(n), NEW x \in Range(n.k[f])
  PROVE  Fills(x, Kinds[n.kind].fields[f].accepts)
<1> SUFFICES ASSUME Checked PROVE accepted(x.kind, Kinds[n.kind].fields[f].accepts)
  BY DEF Fills
<1>1. validate_node(n)
  BY DEF Stands, Accepted
<1>2. f \in DOMAIN Kinds[n.kind].fields
  BY DEF Stands, Shaped
<1>. QED  BY <1>1, <1>2 DEF validate_node, validate_child, accepted, Range

LEMMA AcceptedWithin ==
  ASSUME NEW x, x.kind \in DOMAIN Kinds, NEW a, NEW b, Within(a, b), Fills(x, a)
  PROVE  Fills(x, b)
  BY DEF Within, Fills

\* A parameter of a component stands in a component alone.
LEMMA BelowStands ==
  ASSUME NEW react, NEW S, Known(S, react), NEW n, Stands(n, S), NEW f \in Fields(n), NEW x \in Range(n.k[f]),
         f \notin TypeFields(n.kind),
         n.kind # "ComponentDeclaration" \/ f # "params" \/ x.kind # "ComponentParameter"
  PROVE  x \in S /\ x \in Children(n) /\ Strips(x, react) /\ (InList(n, f) \/ Settles(x, react))
<1>1. IsNode(n)
  BY TreeIs DEF Stands
<1>2. PICK i \in DOMAIN n.k[f] : x = n.k[f][i]
  BY DEF Range
<1>3. x \in Children(n) /\ x \in S
  BY <1>1, <1>2, Child DEF Stands
<1>4. Visited(x) /\ x.kind # "ComponentParameter"
  <2>1. /\ Type(x) => x.kind \in Declarations
        /\ x.kind = "ComponentParameter" => n.kind = "ComponentDeclaration" /\ f = "params"
    BY <1>2 DEF Stands, Placed
  <2>. QED  BY <2>1 DEF Visited
<1>5. Strips(x, react) /\ Grammatical(x)
  BY <1>3, <1>4 DEF Known
<1>6. InList(n, f) \/ Settles(x, react)
  BY <1>1, <1>5, StandsWell DEF Stands
<1>. QED  BY <1>3, <1>5, <1>6

\* A field of one node.
LEMMA OneStands ==
  ASSUME NEW react, NEW S, Known(S, react), NEW n, Stands(n, S), NEW f, Sorts(n.kind, {f}, {"One"})
  PROVE  /\ f \in Fields(n) /\ n.k[f][1] \in Children(n) /\ n.k[f][1] \in S /\ n.k[f][1] \in Range(n.k[f])
         /\ Keeps(n.k[f][1], react) /\ Whole(n.k[f], react)
<1>1. IsNode(n) /\ Shaped(n)
  BY TreeIs DEF Stands
<1>2. f \in Fields(n) /\ SortOf(n, f) = "One"
  <2>1. f \in Fields(n) /\ SortOf(n, f) \in {"One"}
    BY <1>1, FieldOf
  <2>. QED  BY <2>1
<1>3. Len(n.k[f]) = 1 /\ Sequence(n.k[f])
  <2>1. SortOf(n, f) = "One" => Len(n.k[f]) = 1
    BY <1>1, <1>2, ShapedField
  <2>. QED  BY <1>1, <1>2, <2>1 DEF IsNode
<1>4. DOMAIN n.k[f] = 1 .. 1
  BY <1>3, SequenceIs
<1>5. n.k[f][1] \in Range(n.k[f]) /\ \A x \in Range(n.k[f]) : x = n.k[f][1]
  BY <1>4 DEF Range
<1>6. n.k[f][1] \in Children(n) /\ n.k[f][1] \in S
  BY <1>1, <1>2, <1>4, Child DEF Stands
<1>7. f \notin TypeFields(n.kind)
  <2> SUFFICES ASSUME f \in TypeFields(n.kind) PROVE FALSE
    OBVIOUS
  <2>1. n.kind \in TypedKinds
    BY <1>2, <1>4 DEF Stands, Placed
  <2>2. Sorts(n.kind, TypeFields(n.kind), {"Maybe", "List"})
    BY <2>1, TypesAssumption DEF Stands
  <2>. QED  BY <1>2, <2>2 DEF Sorts, SortOf
<1>8. ~InList(n, f)
  BY <1>2 DEF InList
<1>9. Keeps(n.k[f][1], react) /\ Whole(n.k[f], react)
  <2>1. n.kind # "ComponentDeclaration" \/ f # "params"
    <3>1. Sorts("ComponentDeclaration", {"params"}, {"List"})
      BY SortsAssumption
    <3>. QED  BY <1>2, <3>1 DEF Sorts, SortOf
  <2>2. Keeps(n.k[f][1], react)
    BY <1>2, <1>5, <1>7, <1>8, <2>1, BelowStands DEF Keeps
  <2>. QED  BY <1>3, <1>5, <2>2 DEF Whole
<1>. QED  BY <1>2, <1>5, <1>6, <1>9

\* A list.
LEMMA ListStands ==
  ASSUME NEW react, NEW S, Known(S, react), NEW n, Stands(n, S), NEW f, Sorts(n.kind, {f}, {"List"}),
         f \notin TypeFields(n.kind)
  PROVE  /\ f \in Fields(n) /\ Sequence(n.k[f])
         /\ \A x \in Range(n.k[f]) :
              /\ x \in S /\ x \in Children(n)
              /\ n.kind # "ComponentDeclaration" \/ f # "params" \/ x.kind # "ComponentParameter" => Strips(x, react)
<1>1. IsNode(n) /\ Shaped(n)
  BY TreeIs DEF Stands
<1>2. f \in Fields(n)
  BY <1>1, FieldOf
<1>3. Sequence(n.k[f])
  BY <1>1, <1>2 DEF IsNode
<1>4. ASSUME NEW x \in Range(n.k[f])
      PROVE  /\ x \in S /\ x \in Children(n)
             /\ n.kind # "ComponentDeclaration" \/ f # "params" \/ x.kind # "ComponentParameter" => Strips(x, react)
  <2>1. PICK i \in DOMAIN n.k[f] : x = n.k[f][i]
    BY DEF Range
  <2>2. x \in Children(n) /\ x \in S
    BY <1>1, <1>2, <2>1, Child DEF Stands
  <2>3. ASSUME n.kind # "ComponentDeclaration" \/ f # "params" \/ x.kind # "ComponentParameter" PROVE Strips(x, react)
    BY <1>2, <2>3, BelowStands
  <2>. QED  BY <2>2, <2>3
<1>. QED  BY <1>2, <1>3, <1>4

\* The kinds in what is lowered.
LEMMA LoweredStands ==
  ASSUME NEW react, NEW S, Known(S, react), NEW n \in S,
         n.kind \in {"ComponentParameter", "RestElement", "ObjectPattern"} \cup Lowered \cup EnumBodies \cup EnumMembers
  PROVE  Stands(n, S)
<1>1. ~Type(n)
  <2>1. ~TypeKind("ComponentParameter")
    BY TypesAssumption
  <2>2. \A k \in EnumBodies \cup EnumMembers \cup {"RestElement", "ObjectPattern"} \cup Lowered : ~TypeKind(k)
    BY MadeAssumption
  <2>. QED  BY <2>1, <2>2 DEF Type
<1>2. Tree(n) /\ Shaped(n) /\ Placed(n) /\ Grammatical(n) /\ Children(n) \subseteq S
  BY <1>1 DEF Known, Closed
<1>3. ~OnlyTypes(n)
  <2>1. n.kind \notin Declarations
    BY <1>1, TypesAssumption DEF Type
  <2>. QED  BY <2>1 DEF OnlyTypes, Lowered, EnumBodies, EnumMembers
<1>4. ~LowersDeclared(n)
  BY DEF LowersDeclared, Lowered, EnumBodies, EnumMembers
<1>5. n.kind \notin Casts
  BY DEF Casts, Lowered, EnumBodies, EnumMembers
<1>6. Checked => Accepted(n)
  BY <1>1 DEF Known
<1>. QED  BY <1>2, <1>3, <1>4, <1>5, <1>6 DEF Stands

\* What a parameter of a component holds: the name, the prop's local or the rest.
Held(p) == /\ p.kind \in {"ComponentParameter", "RestElement"}
           /\ \A c \in Children(p) : Parameter(c) /\ ~IsThis(c)

LEMMA ParameterStands ==
  ASSUME NEW react, NEW S, Known(S, react), NEW p \in S, Held(p)
  PROVE  /\ p.kind = "ComponentParameter" =>
              /\ Keeps(p.k.name[1], react) /\ IsKey(p.k.name[1]) /\ IsValue(p.k.local[1])
              /\ Whole(p.k.local, react) /\ Keeps(p.k.local[1], react) /\ p.k.local[1] \in Children(p)
              /\ Fills(p.k.local[1], {"Pattern"})
         /\ p.kind = "RestElement" =>
              /\ p.k.argument[1] \in S /\ p.k.argument[1] \in Children(p)
              /\ Whole(p.k.argument, react) /\ Keeps(p.k.argument[1], react)
              /\ \A x \in Range(p.k.argument) : Fills(x, Kinds["RestElement"].fields["argument"].accepts)
<1>1. Stands(p, S)
  BY LoweredStands DEF Held
<1>2. \A x \in S : x.kind \in DOMAIN Kinds
  BY DEF Known, Shaped
<1>3. ASSUME p.kind = "ComponentParameter"
      PROVE  /\ Keeps(p.k.name[1], react) /\ IsKey(p.k.name[1]) /\ IsValue(p.k.local[1])
             /\ Whole(p.k.local, react) /\ Keeps(p.k.local[1], react) /\ p.k.local[1] \in Children(p)
             /\ Fills(p.k.local[1], {"Pattern"})
  <2>1. Sorts(p.kind, {"name"}, {"One"}) /\ Sorts(p.kind, {"local"}, {"One"})
    BY <1>3, SortsAssumption DEF Sorts
  <2>2. p.k["name"][1] \in S /\ Keeps(p.k["name"][1], react) /\ Whole(p.k["name"], react)
    BY <1>1, <2>1, OneStands
  <2>3. Whole(p.k["local"], react) /\ Keeps(p.k["local"][1], react) /\ p.k["local"][1] \in Children(p) /\ p.k["local"][1] \in S
    BY <1>1, <2>1, OneStands
  <2>4. ASSUME Checked
        PROVE  accepted(p.k["name"][1].kind, {"Identifier", "StringLiteral"}) /\ accepted(p.k["local"][1].kind, {"Pattern"})
    <3>1. validate_child(p.k["name"], {"Identifier", "StringLiteral"}) /\ validate_child(p.k["local"], {"Pattern"})
      BY <1>1, <1>3, <2>4 DEF Stands, Accepted
    <3>2. 1 \in DOMAIN p.k["name"] /\ 1 \in DOMAIN p.k["local"]
      BY <2>2, <2>3, SequenceIs DEF Whole
    <3>. QED  BY <3>1, <3>2 DEF validate_child, accepted
  <2>5. Fills(p.k["name"][1], {"Identifier", "StringLiteral"}) /\ Fills(p.k["local"][1], {"Pattern"})
    BY <2>4 DEF Fills
  <2>6. p.k["name"][1].kind \in DOMAIN Kinds /\ p.k["local"][1].kind \in DOMAIN Kinds
    BY <1>2, <2>2, <2>3
  <2>7. IsKey(p.k["name"][1]) /\ IsValue(p.k["local"][1])
    <3>1. /\ Within({"Pattern"}, Kinds["Property"].fields["value"].accepts)
          /\ Within({"Identifier", "StringLiteral"}, Kinds["Property"].fields["key"].accepts)
          /\ Within({"Identifier", "StringLiteral"}, {"Identifier", "Literal"})
      BY TakesAssumption
    <3>. QED  BY <2>5, <2>6, <3>1, AcceptedWithin DEF IsKey, IsValue
  <2>. QED  BY <2>2, <2>3, <2>5, <2>7
<1>4. ASSUME p.kind = "RestElement"
      PROVE  /\ p.k.argument[1] \in S /\ p.k.argument[1] \in Children(p)
             /\ Whole(p.k.argument, react) /\ Keeps(p.k.argument[1], react)
             /\ \A x \in Range(p.k.argument) : Fills(x, Kinds["RestElement"].fields["argument"].accepts)
  <2>1. Sorts(p.kind, {"argument"}, {"One"})
    BY <1>4, SortsAssumption DEF Sorts
  <2>2. /\ p.k["argument"][1] \in S /\ p.k["argument"][1] \in Children(p) /\ "argument" \in Fields(p)
        /\ Whole(p.k["argument"], react) /\ Keeps(p.k["argument"][1], react)
    BY <1>1, <2>1, OneStands
  <2>3. \A x \in Range(p.k["argument"]) : Fills(x, Kinds[p.kind].fields["argument"].accepts)
    BY <1>1, <1>4, <2>2, AcceptedBelow
  <2>. QED  BY <1>4, <2>2, <2>3
<1>. QED  BY <1>3, <1>4

\* What can stand in the pattern of the props.
IsProp(x) == Fills(x, Kinds["ObjectPattern"].fields["properties"].accepts)

LEMMA PropsStrip ==
  ASSUME StripUnfolds, NEW react, NEW S, Known(S, react), NEW p \in S, Held(p)
  PROVE  Sequence(PropsOf(p)) /\ \A x \in Range(PropsOf(p)) : Strips(x, react) /\ IsProp(x)
<1>0. \A x : x.kind \in {"Property", "RestElement"} => IsProp(x)
  <2>1. Allows("ObjectPattern", "properties", {"Property", "RestElement"})
    BY TakesAssumption
  <2>. QED  BY <2>1, AllowedFills DEF IsProp
<1>1. CASE p.kind = "ComponentParameter"
  <2> DEFINE property == Property(p.flags \cap {"shorthand"}, p.k.name[1], p.k.local[1])
  <2>1. Keeps(p.k.name[1], react) /\ Keeps(p.k.local[1], react) /\ IsKey(p.k.name[1]) /\ IsValue(p.k.local[1])
    BY <1>1, ParameterStands
  <2>2. Ready(property, react) /\ property.kind = "Property"
    BY <2>1, PropertyReady
  <2>3. PropsOf(p) = <<property>>
    BY <1>1 DEF PropsOf, IsComponentParameter
  <2> HIDE DEF property
  <2>4. Strips(property, react) /\ IsProp(property)
    BY <1>0, <2>2, ReadySettles
  <2>. QED  BY <2>3, <2>4, OneIs
<1>2. CASE p.kind = "RestElement" /\ p.k.argument[1].kind = "ObjectPattern"
  <2> DEFINE o == p.k.argument[1]
  <2>1. o \in S
    BY <1>2, ParameterStands
  <2>2. PropsOf(p) = o.k.properties
    BY <1>2 DEF PropsOf, IsComponentParameter
  <2>3. o.kind = "ObjectPattern"
    BY <1>2
  <2> HIDE DEF o
  <2>4. Stands(o, S)
    BY <2>1, <2>3, LoweredStands
  <2>5. Sorts(o.kind, {"properties"}, {"List"}) /\ "properties" \notin TypeFields(o.kind)
    BY <2>3, SortsAssumption, MadeTypes
  <2>6. /\ Sequence(o.k["properties"]) /\ "properties" \in Fields(o)
        /\ \A x \in Range(o.k["properties"]) : Strips(x, react)
    BY <2>3, <2>4, <2>5, ListStands
  <2>7. \A x \in Range(o.k["properties"]) : IsProp(x)
    <3>1. \A x \in Range(o.k["properties"]) : Fills(x, Kinds[o.kind].fields["properties"].accepts)
      BY <2>3, <2>4, <2>6, AcceptedBelow
    <3>. QED  BY <2>3, <3>1 DEF IsProp
  <2>. QED  BY <2>2, <2>6, <2>7
<1>3. CASE p.kind = "RestElement" /\ p.k.argument[1].kind # "ObjectPattern"
  <2> DEFINE rest == Node("RestElement", "", {}, [argument |-> p.k.argument])
  <2>1. Whole(p.k.argument, react) /\ \A x \in Range(p.k.argument) : Fills(x, Kinds["RestElement"].fields["argument"].accepts)
    BY <1>3, ParameterStands
  <2>2. Ready(rest, react) /\ rest.kind = "RestElement"
    BY <2>1, RestReady
  <2>3. PropsOf(p) = <<rest>>
    BY <1>3 DEF PropsOf, IsComponentParameter
  <2> HIDE DEF rest
  <2>4. Strips(rest, react) /\ IsProp(rest)
    BY <1>0, <2>2, ReadySettles
  <2>. QED  BY <2>3, <2>4, OneIs
<1>. QED  BY <1>1, <1>2, <1>3 DEF Held

LEMMA TakesOne ==
  ASSUME NEW react, NEW x, Strips(x, react), Parameter(x), ~IsThis(x), Fills(x, {"Pattern"})
  PROVE  Takes(<<x>>, react)
  BY OneIs DEF Takes

LEMMA PropsParameterTakes ==
  ASSUME StripUnfolds, NEW react, NEW S, Known(S, react),
         NEW params, Sequence(params), \A p \in Range(params) : p \in S /\ Held(p), NEW has_ref
  PROVE  Takes(build_component_props_parameter(params, has_ref), react)
<1> DEFINE n == Len(params)
           ss == [i \in DOMAIN params |-> PropsOf(params[i])]
           properties == FlattenSeq(ss)
           only == params[1]
           pattern == Node("ObjectPattern", "", {}, [properties |-> properties, type_annotation |-> None])
           alone == Len(params) = 1 /\ only.kind = "RestElement" /\ only.k.argument[1].kind = "Identifier"
           built == build_component_props_parameter(params, has_ref)
<1>1. n \in Nat /\ DOMAIN params = 1 .. n
  BY SequenceIs
<1>2. \A i \in 1 .. n : params[i] \in S /\ Held(params[i])
  BY <1>1 DEF Range
<1>3. ss = [i \in 1 .. n |-> ss[i]] /\ \A i \in 1 .. n : ss[i] = PropsOf(params[i])
  BY <1>1
<1>4. built = CASE properties = <<>> -> IF has_ref THEN Some(Placeholder) ELSE None
                [] alone -> only.k.argument
                [] OTHER -> Some(pattern)
  BY DEF build_component_props_parameter
<1>5. pattern = Node("ObjectPattern", "", {}, [properties |-> properties, type_annotation |-> None])
  OBVIOUS
<1>6. alone => n = 1 /\ only.kind = "RestElement" /\ only.k.argument[1].kind = "Identifier"
  OBVIOUS
<1>7. only = params[1] /\ properties = FlattenSeq(ss)
  OBVIOUS
<1> HIDE DEF ss, properties, only, pattern, alone, built, n
<1>8. Sequence(ss) /\ Len(ss) = n
  BY <1>1, <1>3, IsSequence
<1>9. \A i \in 1 .. n : Sequence(ss[i]) /\ \A x \in Range(ss[i]) : Strips(x, react) /\ IsProp(x)
  <2> SUFFICES ASSUME NEW i \in 1 .. n PROVE Sequence(ss[i]) /\ \A x \in Range(ss[i]) : Strips(x, react) /\ IsProp(x)
    OBVIOUS
  <2>1. params[i] \in S /\ Held(params[i]) /\ ss[i] = PropsOf(params[i])
    BY <1>2, <1>3
  <2>2. Sequence(PropsOf(params[i])) /\ \A x \in Range(PropsOf(params[i])) : Strips(x, react) /\ IsProp(x)
    BY <2>1, PropsStrip
  <2>. QED  BY <2>1, <2>2
<1>10. Sequence(properties) /\ \A x \in Range(properties) : Strips(x, react) /\ IsProp(x)
  <2>1. /\ Sequence(FlattenSeq(ss))
        /\ \A x \in Range(FlattenSeq(ss)) : \E i \in 1 .. Len(ss) : x \in Range(ss[i])
    BY <1>8, <1>9, FlattenSequence
  <2>. QED  BY <1>7, <1>8, <1>9, <2>1
<1>0. \A x : x.kind \in {"Identifier", "ObjectPattern"} => Fills(x, {"Pattern"})
  <2>1. Allows("FunctionDeclaration", "params", {"Identifier", "ObjectPattern"})
    BY TakesAssumption
  <2>2. Kinds["FunctionDeclaration"].fields["params"].accepts = {"Pattern"}
    BY TakesAssumption
  <2>3. \A x : x.kind \in {"Identifier", "ObjectPattern"} => Fills(x, Kinds["FunctionDeclaration"].fields["params"].accepts)
    BY <2>1, AllowedFills
  <2>. QED  BY <2>2, <2>3
<1>11. ASSUME alone PROVE properties # <<>> /\ Takes(only.k.argument, react)
  <2>1. n = 1 /\ only \in S /\ Held(only) /\ only.kind = "RestElement" /\ only.k.argument[1].kind = "Identifier"
    BY <1>2, <1>6, <1>7, <1>11
  <2> DEFINE rest == Node("RestElement", "", {}, [argument |-> only.k.argument])
  <2>2. PropsOf(only) = <<rest>>
    BY <2>1 DEF PropsOf, IsComponentParameter
  <2> HIDE DEF rest
  <2>3. ss[1] = <<rest>> /\ Len(ss) = 1
    BY <1>3, <1>7, <1>8, <2>1, <2>2
  <2>4. ss = <<ss[1]>>
    <3>1. Sequence(<<ss[1]>>) /\ Len(<<ss[1]>>) = 1 /\ <<ss[1]>>[1] = ss[1]
      BY OneSequence
    <3>2. \A i \in 1 .. Len(ss) : ss[i] = <<ss[1]>>[i]
      BY <2>3, <3>1
    <3>. QED  BY <1>8, <2>3, <3>1, <3>2, SequencesEqual
  <2>5. properties = <<rest>>
    <3>1. FlattenSeq(<<ss[1]>>) = ss[1]
      BY FlattenOne
    <3>. QED  BY <1>7, <2>3, <2>4, <3>1
  <2>6. Whole(only.k.argument, react) /\ only.k.argument[1] \in Children(only)
    BY <2>1, ParameterStands
  <2>7. Takes(only.k.argument, react)
    <3>1. Sequence(only.k.argument) /\ Len(only.k.argument) = 1 /\ \A x \in Range(only.k.argument) : Strips(x, react)
      BY <2>6 DEF Whole, Keeps
    <3>2. \A x \in Range(only.k.argument) : x = only.k.argument[1]
      BY <3>1, SequenceIs DEF Range
    <3>3. Parameter(only.k.argument[1]) /\ ~IsThis(only.k.argument[1]) /\ Fills(only.k.argument[1], {"Pattern"})
      BY <1>0, <2>1, <2>6 DEF Held
    <3>. QED  BY <3>1, <3>2, <3>3 DEF Takes
  <2>. QED  BY <2>5, <2>7, OneSequence
<1>12. Takes(<<pattern>>, react)
  <2>1. Ready(pattern, react) /\ pattern.kind = "ObjectPattern"
    BY <1>5, <1>10, PatternReady DEF IsProp
  <2>2. Strips(pattern, react)
    BY <2>1, ReadySettles
  <2>3. Parameter(pattern) /\ ~IsThis(pattern) /\ Fills(pattern, {"Pattern"})
    BY <1>0, <2>1 DEF Parameter, IsThis, Casts, Lowered, ExportKinds
  <2>. QED  BY <2>2, <2>3, TakesOne
<1>13. Takes(<<Placeholder>>, react)
  <2>1. Ready(Placeholder, react) /\ Placeholder.kind = "Identifier" /\ Placeholder.op # "this"
    BY IdentifierReady DEF Placeholder
  <2>2. Strips(Placeholder, react)
    BY <2>1, ReadySettles
  <2>3. Parameter(Placeholder) /\ ~IsThis(Placeholder) /\ Fills(Placeholder, {"Pattern"})
    BY <1>0, <2>1 DEF Parameter, IsThis, Casts, Lowered, ExportKinds
  <2>. QED  BY <2>2, <2>3, TakesOne
<1>14. Takes(None, react)
  BY NoneIs DEF Takes
<1>15. CASE properties = <<>>
  <2>1. built = IF has_ref THEN Some(Placeholder) ELSE None
    BY <1>4, <1>11, <1>15
  <2>. QED  BY <1>13, <1>14, <2>1 DEF built, Some
<1>16. CASE properties # <<>> /\ alone
  <2>1. built = only.k.argument
    BY <1>4, <1>16
  <2>. QED  BY <1>11, <1>16, <2>1 DEF built
<1>17. CASE properties # <<>> /\ ~alone
  <2>1. built = Some(pattern)
    BY <1>4, <1>17
  <2>. QED  BY <1>12, <2>1 DEF built, Some
<1>. QED  BY <1>15, <1>16, <1>17

\* The parameters that are picked from a list.
LEMMA PickedIs ==
  ASSUME NEW params, Sequence(params), NEW picked,
         picked = [i \in DOMAIN params |-> picked[i]],
         \A i \in DOMAIN params : picked[i] = <<>> \/ picked[i] = <<params[i]>>
  PROVE  Sequence(FlattenSeq(picked)) /\ Range(FlattenSeq(picked)) \subseteq Range(params)
<1>1. Len(params) \in Nat /\ DOMAIN params = 1 .. Len(params)
  BY SequenceIs
<1>2. Sequence(picked) /\ Len(picked) = Len(params)
  BY <1>1, IsSequence
<1>3. \A i \in 1 .. Len(picked) : Sequence(picked[i]) /\ \A x \in Range(picked[i]) : x \in Range(params)
  <2> SUFFICES ASSUME NEW i \in 1 .. Len(picked)
               PROVE  Sequence(picked[i]) /\ \A x \in Range(picked[i]) : x \in Range(params)
    OBVIOUS
  <2>1. params[i] \in Range(params)
    BY <1>1, <1>2 DEF Range
  <2>2. CASE picked[i] = <<>>
    BY <2>2, NoneIs DEF None
  <2>3. CASE picked[i] = <<params[i]>>
    BY <2>1, <2>3, OneIs
  <2>. QED  BY <1>1, <1>2, <2>2, <2>3
<1>4. /\ Sequence(FlattenSeq(picked))
      /\ \A x \in Range(FlattenSeq(picked)) : \E i \in 1 .. Len(picked) : x \in Range(picked[i])
  BY <1>2, <1>3, FlattenSequence
<1>. QED  BY <1>3, <1>4

LEMMA TakesBoth ==
  ASSUME NEW react, NEW s, NEW t, Takes(s, react), Takes(t, react)
  PROVE  Takes(s \o t, react)
<1>1. Sequence(s) /\ Sequence(t)
  BY DEF Takes
<1>2. /\ Sequence(s \o t) /\ Len(s \o t) = Len(s) + Len(t)
      /\ \A i \in 1 .. Len(s) : (s \o t)[i] = s[i]
      /\ \A i \in 1 .. Len(t) : (s \o t)[Len(s) + i] = t[i]
  BY <1>1, ConcatIs
<1>3. /\ Len(s) \in Nat /\ DOMAIN s = 1 .. Len(s) /\ Len(t) \in Nat /\ DOMAIN t = 1 .. Len(t)
      /\ DOMAIN (s \o t) = 1 .. Len(s \o t)
  BY <1>1, <1>2, SequenceIs
<1>4. ASSUME NEW x \in Range(s \o t) PROVE x \in Range(s) \/ x \in Range(t)
  <2>1. PICK i \in 1 .. Len(s) + Len(t) : x = (s \o t)[i]
    BY <1>2, <1>3 DEF Range
  <2>2. CASE i <= Len(s)
    BY <1>2, <1>3, <2>1, <2>2 DEF Range
  <2>3. CASE i > Len(s)
    <3>1. i - Len(s) \in 1 .. Len(t) /\ Len(s) + (i - Len(s)) = i
      BY <1>3, <2>3
    <3>2. x = t[i - Len(s)]
      BY <1>2, <2>1, <3>1
    <3>. QED  BY <1>3, <3>1, <3>2 DEF Range
  <2>. QED  BY <1>3, <2>2, <2>3
<1>. QED  BY <1>2, <1>4 DEF Takes

\* What can stand for a declaration that is lowered, or for its export.
Replaces(m, react) == Ready(m, react) /\ m.kind \in {"FunctionDeclaration", "VariableDeclaration"} \cup ExportKinds

\* The declarations of a component: the function, or before it the const that
\* wraps it.
LEMMA ComponentLowers ==
  ASSUME StripUnfolds, NEW react, NEW S, Known(S, react), NEW n, Stands(n, S), n.kind = "ComponentDeclaration"
  PROVE  LET ds == lower_component_declaration(n, react)
         IN  /\ Keeps(n.k.id[1], react) /\ n.k.id[1].kind = "Identifier"
             /\ \/ \E d : ds = <<d>> /\ Ready(d, react) /\ d.kind = "FunctionDeclaration"
                \/ \E c, d : ds = <<c, d>> /\ Replaces(c, react) /\ Replaces(d, react)
<1> DEFINE params == n.k.params
           refs0 == [i \in DOMAIN params |-> IF IsRef(params[i], react) THEN <<params[i]>> ELSE <<>>]
           rest0 == [i \in DOMAIN params |-> IF IsRef(params[i], react) THEN <<>> ELSE <<params[i]>>]
           refs == FlattenSeq(refs0)
           rest == FlattenSeq(rest0)
           has_ref == refs # <<>>
           ref_param == IF has_ref THEN Last(refs).k.local ELSE None
           id == n.k.id[1]
           function_id == IF has_ref THEN Identifier(id.op \o "_withRef") ELSE id
           props == build_component_props_parameter(rest, has_ref)
           function == FunctionDeclaration(function_id, props \o ref_param, n)
           const == Const(id, Call1(Member(Identifier("React"), "forwardRef"), function_id))
           ds == lower_component_declaration(n, react)
<1>1. ds = IF has_ref THEN <<const, function>> ELSE <<function>>
  BY DEF lower_component_declaration
<1>2. Sorts(n.kind, {"id"}, {"One"}) /\ Sorts(n.kind, {"body"}, {"One"})
  BY MadeAssumption DEF Sorts
<1>3. Sorts(n.kind, {"params"}, {"List"}) /\ "params" \notin TypeFields(n.kind)
  BY SortsAssumption
<1>4. id.kind = "Identifier" /\ \A p \in ToSet(n.k.params) : Held(p)
  BY DEF Stands, Grammatical, Held
<1>5. Keeps(id, react)
  <2>1. Keeps(n.k["id"][1], react)
    BY <1>2, OneStands
  <2>. QED  BY <2>1
<1>6. "body" \in DOMAIN n.k /\ Whole(n.k.body, react) /\ \A x \in Range(n.k.body) : Fills(x, {"BlockStatement"})
  <2>1. "body" \in Fields(n) /\ Whole(n.k["body"], react)
    BY <1>2, OneStands
  <2>2. ASSUME Checked, NEW x \in Range(n.k.body) PROVE accepted(x.kind, {"BlockStatement"})
    <3>1. validate_child(n.k.body, {"BlockStatement"})
      BY <2>2 DEF Stands, Accepted
    <3>. QED  BY <3>1 DEF validate_child, accepted, Range
  <2>. QED  BY <2>1, <2>2 DEF Fields, Fills
<1>7. Sequence(params) /\ \A p \in Range(params) : p \in S /\ Held(p)
  <2>1. Sequence(n.k["params"]) /\ \A x \in Range(n.k["params"]) : x \in S
    BY <1>3, ListStands
  <2>. QED  BY <1>4, <2>1 DEF Range, ToSet
<1>8. /\ refs0 = [i \in DOMAIN params |-> refs0[i]]
      /\ \A i \in DOMAIN params : refs0[i] = IF IsRef(params[i], react) THEN <<params[i]>> ELSE <<>>
  OBVIOUS
<1>9. /\ rest0 = [i \in DOMAIN params |-> rest0[i]]
      /\ \A i \in DOMAIN params : rest0[i] = IF IsRef(params[i], react) THEN <<>> ELSE <<params[i]>>
  OBVIOUS
<1>10. function_id = (IF has_ref THEN Identifier(id.op \o "_withRef") ELSE id)
       /\ ref_param = (IF has_ref THEN Last(refs).k.local ELSE None)
       /\ (has_ref <=> refs # <<>>) /\ refs = FlattenSeq(refs0) /\ rest = FlattenSeq(rest0)
  OBVIOUS
<1>11. const = Const(id, Call1(Member(Identifier("React"), "forwardRef"), function_id))
       /\ function = FunctionDeclaration(function_id, props \o ref_param, n)
       /\ props = build_component_props_parameter(rest, has_ref)
  OBVIOUS
<1> HIDE DEF ds, const, function, props, function_id, ref_param, has_ref, refs, rest, refs0, rest0, id, params
<1>12. Sequence(refs) /\ Range(refs) \subseteq Range(params) /\ Sequence(rest) /\ Range(rest) \subseteq Range(params)
  <2>1. Sequence(refs) /\ Range(refs) \subseteq Range(params)
    BY <1>7, <1>8, <1>10, PickedIs
  <2>2. Sequence(rest) /\ Range(rest) \subseteq Range(params)
    BY <1>7, <1>9, <1>10, PickedIs
  <2>. QED  BY <2>1, <2>2
<1>13. \A p \in Range(refs) : IsRef(p, react)
  <2>0. DOMAIN params = 1 .. Len(params) /\ Len(params) \in Nat
    BY <1>7, SequenceIs
  <2>4. refs0 = [i \in 1 .. Len(params) |-> refs0[i]]
    BY <1>8, <2>0
  <2>5. Sequence(refs0) /\ Len(refs0) = Len(params)
    BY <2>0, <2>4, IsSequence
  <2>1. Sequence(refs0) /\ Len(refs0) = Len(params) /\ DOMAIN params = 1 .. Len(params) /\ Len(params) \in Nat
    BY <2>0, <2>5
  <2>2. \A i \in 1 .. Len(refs0) : Sequence(refs0[i]) /\ \A x \in Range(refs0[i]) : IsRef(x, react)
    <3> SUFFICES ASSUME NEW i \in 1 .. Len(refs0) PROVE Sequence(refs0[i]) /\ \A x \in Range(refs0[i]) : IsRef(x, react)
      OBVIOUS
    <3>1. CASE IsRef(params[i], react)
      BY <1>8, <2>1, <3>1, OneIs
    <3>2. CASE ~IsRef(params[i], react)
      <4>1. refs0[i] = None
        BY <1>8, <2>1, <3>2 DEF None
      <4>. QED  BY <4>1, NoneIs
    <3>. QED  BY <3>1, <3>2
  <2>3. \A x \in Range(FlattenSeq(refs0)) : \E i \in 1 .. Len(refs0) : x \in Range(refs0[i])
    BY <2>1, <2>2, FlattenSequence
  <2>. QED  BY <1>10, <2>2, <2>3
<1>14. Takes(props, react)
  <2>1. \A p \in Range(rest) : p \in S /\ Held(p)
    BY <1>7, <1>12
  <2>. QED  BY <1>11, <1>12, <2>1, PropsParameterTakes
<1>15. Takes(ref_param, react)
  <2>1. CASE ~has_ref
    <3>1. ref_param = None
      BY <1>10, <2>1
    <3>. QED  BY <3>1, NoneIs DEF Takes
  <2>2. CASE has_ref
    <3> DEFINE p == Last(refs)
    <3>1. p \in Range(refs)
      <4>1. Len(refs) \in Nat /\ DOMAIN refs = 1 .. Len(refs) /\ Len(refs) # 0
        BY <1>10, <1>12, <2>2, SequenceIs, EmptySequence
      <4>. QED  BY <4>1 DEF Last, Range
    <3>2. ref_param = p.k.local
      BY <1>10, <2>2
    <3> HIDE DEF p
    <3>3. p \in S /\ Held(p) /\ p.kind = "ComponentParameter"
      BY <1>7, <1>12, <1>13, <3>1 DEF IsRef, IsComponentParameter
    <3>4. Whole(p.k.local, react) /\ p.k.local[1] \in Children(p) /\ Fills(p.k.local[1], {"Pattern"})
      BY <3>3, ParameterStands
    <3>5. Sequence(p.k.local) /\ Len(p.k.local) = 1 /\ \A x \in Range(p.k.local) : Strips(x, react)
      BY <3>4 DEF Whole, Keeps
    <3>6. \A x \in Range(p.k.local) : x = p.k.local[1]
      BY <3>5, SequenceIs DEF Range
    <3>7. Parameter(p.k.local[1]) /\ ~IsThis(p.k.local[1])
      BY <3>3, <3>4 DEF Held
    <3>. QED  BY <3>2, <3>4, <3>5, <3>6, <3>7 DEF Takes
  <2>. QED  BY <2>1, <2>2
<1>16. Keeps(function_id, react) /\ function_id.kind = "Identifier"
  <2>1. Keeps(Identifier(id.op \o "_withRef"), react) /\ Identifier(id.op \o "_withRef").kind = "Identifier"
    BY IdentifierReady, ReadyKeeps
  <2>. QED  BY <1>4, <1>5, <1>10, <2>1
<1>17. Ready(function, react) /\ function.kind = "FunctionDeclaration"
  <2>1. Takes(props \o ref_param, react)
    BY <1>14, <1>15, TakesBoth
  <2>. QED  BY <1>6, <1>11, <1>16, <2>1, FunctionReady
<1>18. Ready(const, react) /\ const.kind = "VariableDeclaration"
  <2> DEFINE react_id == Identifier("React")
             member == Member(react_id, "forwardRef")
             call == Call1(member, function_id)
  <2>1. Keeps(react_id, react) /\ react_id.kind = "Identifier"
    BY IdentifierReady, ReadyKeeps
  <2>4. const = Const(id, call)
    BY <1>11
  <2> HIDE DEF react_id
  <2>2. Keeps(member, react) /\ member.kind = "MemberExpression"
    BY <2>1, MemberReady, ReadyKeeps
  <2> HIDE DEF member
  <2>3. Keeps(call, react) /\ call.kind = "CallExpression"
    BY <1>16, <2>2, CallReady, ReadyKeeps
  <2> HIDE DEF call
  <2>. QED  BY <1>4, <1>5, <2>3, <2>4, ConstReady
<1>19. \/ \E d : ds = <<d>> /\ Ready(d, react) /\ d.kind = "FunctionDeclaration"
       \/ \E c, d : ds = <<c, d>> /\ Replaces(c, react) /\ Replaces(d, react)
  <2>1. CASE has_ref
    BY <1>1, <1>17, <1>18, <2>1 DEF Replaces
  <2>2. CASE ~has_ref
    BY <1>1, <1>17, <2>2
  <2>. QED  BY <2>1, <2>2
<1>. QED  BY <1>4, <1>5, <1>19 DEF ds, id

\* The const of an enum.
LEMMA EnumLowers ==
  ASSUME StripUnfolds, NEW react, NEW S, Known(S, react), NEW n, Stands(n, S), n.kind = "EnumDeclaration"
  PROVE  LET const == transform_enum(n)
         IN  /\ Ready(const, react) /\ const.kind = "VariableDeclaration"
             /\ Keeps(n.k.id[1], react) /\ n.k.id[1].kind = "Identifier"
<1> DEFINE id == n.k.id[1]
           body == n.k.body[1]
           members == body.k.members
           count == DOMAIN members
           strings == [i \in count |-> String(members[i].k.id[1].op)]
           names == Node("ArrayExpression", "", {}, [elements |-> strings])
           values == [i \in count |-> MemberProperty(members[i])]
           properties == Node("ObjectExpression", "", {}, [properties |-> values])
           runtime == Call1(Identifier("require"), String("flow-enums-runtime"))
           const == transform_enum(n)
<1>1. const = CASE Mirrored(body) -> Const(id, Call1(Member(runtime, "Mirrored"), names))
                [] body.kind = "EnumBigIntBody" -> Panic
                [] OTHER -> Const(id, Call1(runtime, properties))
  BY DEF transform_enum
<1>2. Sorts(n.kind, {"id"}, {"One"}) /\ Sorts(n.kind, {"body"}, {"One"})
  BY MadeAssumption DEF Sorts
<1>3. id.kind = "Identifier" /\ body.kind \in EnumBodies /\ \A m \in ToSet(members) : m.kind \in EnumMembers
  BY DEF Stands, Grammatical
<1>4. Keeps(id, react)
  <2>1. Keeps(n.k["id"][1], react)
    BY <1>2, OneStands
  <2>. QED  BY <2>1
<1>5. body \in S
  <2>1. n.k["body"][1] \in S
    BY <1>2, OneStands
  <2>. QED  BY <2>1
<1>6. names = Node("ArrayExpression", "", {}, [elements |-> strings])
      /\ properties = Node("ObjectExpression", "", {}, [properties |-> values])
      /\ runtime = Call1(Identifier("require"), String("flow-enums-runtime"))
  OBVIOUS
<1>7. strings = [i \in DOMAIN members |-> strings[i]] /\ \A i \in DOMAIN members : strings[i] = String(members[i].k.id[1].op)
  OBVIOUS
<1>8. values = [i \in DOMAIN members |-> values[i]] /\ \A i \in DOMAIN members : values[i] = MemberProperty(members[i])
  OBVIOUS
<1>9. members = body.k.members
  OBVIOUS
<1> HIDE DEF const, properties, values, names, strings, runtime, count, members, body, id
<1>10. Stands(body, S)
  BY <1>3, <1>5, LoweredStands
<1>11. body.kind \notin {"ComponentDeclaration", "EnumBigIntBody"}
  BY <1>3 DEF EnumBodies
<1>12. Sequence(members) /\ \A m \in Range(members) : m \in S
  <2>1. Sorts(body.kind, {"members"}, {"List"})
    BY <1>3, MadeAssumption
  <2>2. "members" \notin TypeFields(body.kind)
    BY <1>3, MadeAssumption
  <2>3. Sequence(body.k["members"]) /\ \A m \in Range(body.k["members"]) : m \in S
    BY <1>10, <2>1, <2>2, ListStands
  <2>. QED  BY <1>9, <2>3
<1>13. ASSUME NEW m \in Range(members) PROVE m \in S /\ m.kind \in EnumMembers
  <2>1. m \in ToSet(members)
    BY DEF Range, ToSet
  <2>. QED  BY <1>3, <1>12, <2>1
<1>14. ASSUME NEW m \in Range(members) PROVE Strips(MemberProperty(m), react) /\ MemberProperty(m).kind = "Property"
  <2>1. Stands(m, S)
    BY <1>13, LoweredStands
  <2>2. Sorts(m.kind, {"id"}, {"One"})
    BY <1>13, MadeAssumption
  <2>3. /\ Keeps(m.k["id"][1], react) /\ m.k["id"][1] \in S /\ "id" \in Fields(m)
        /\ m.k["id"][1] \in Range(m.k["id"])
    BY <2>1, <2>2, OneStands
  <2>7. m.kind \notin {"ComponentDeclaration", "ComponentParameter"}
    BY <1>13 DEF EnumMembers
  <2>8. IsKey(m.k["id"][1])
    <3>1. Fills(m.k["id"][1], Kinds[m.kind].fields["id"].accepts)
      BY <2>1, <2>3, <2>7, AcceptedBelow
    <3>2. m.k["id"][1].kind \in DOMAIN Kinds
      BY <2>3 DEF Known, Shaped
    <3>3. /\ Within(Kinds[m.kind].fields["id"].accepts, {"Identifier"})
          /\ Within({"Identifier"}, Kinds["Property"].fields["key"].accepts) /\ Within({"Identifier"}, {"Identifier", "Literal"})
      BY <1>13, TakesAssumption
    <3>4. Fills(m.k["id"][1], {"Identifier"})
      BY <3>1, <3>2, <3>3, AcceptedWithin
    <3>. QED  BY <3>2, <3>3, <3>4, AcceptedWithin DEF IsKey
  <2> DEFINE value == IF m.kind = "EnumDefaultedMember"
                      THEN Call1(Identifier("Symbol"), String(m.k.id[1].op)) ELSE m.k.init[1]
  <2>4. MemberProperty(m) = Property({}, m.k.id[1], value)
    BY DEF MemberProperty
  <2>5. CASE m.kind = "EnumDefaultedMember"
    <3> DEFINE symbol == Identifier("Symbol")
               text == String(m.k.id[1].op)
    <3>1. Keeps(symbol, react) /\ Keeps(text, react) /\ symbol.kind = "Identifier" /\ text.kind = "StringLiteral"
      BY IdentifierReady, StringReady, ReadyKeeps
    <3>4. value = Call1(symbol, text)
      BY <2>5
    <3> HIDE DEF symbol, text
    <3>2. Keeps(Call1(symbol, text), react) /\ Call1(symbol, text).kind \in {"CallExpression"}
      BY <3>1, CallReady, ReadyKeeps
    <3>5. Allows("Property", "value", {"CallExpression"})
      BY TakesAssumption
    <3>3. Keeps(value, react) /\ IsValue(value)
      BY <3>2, <3>4, <3>5, AllowedFills DEF IsValue
    <3> HIDE DEF value
    <3>. QED  BY <2>3, <2>4, <2>8, <3>3, PropertyReady, ReadySettles
  <2>6. CASE m.kind # "EnumDefaultedMember"
    <3>1. Sorts(m.kind, {"init"}, {"One"})
      BY <1>13, <2>6, MadeAssumption
    <3>2. /\ Keeps(m.k["init"][1], react) /\ m.k["init"][1] \in S /\ "init" \in Fields(m)
          /\ m.k["init"][1] \in Range(m.k["init"])
      BY <2>1, <3>1, OneStands
    <3>4. IsValue(m.k["init"][1])
      <4>1. Fills(m.k["init"][1], Kinds[m.kind].fields["init"].accepts)
        BY <2>1, <2>7, <3>2, AcceptedBelow
      <4>2. m.k["init"][1].kind \in DOMAIN Kinds
        BY <3>2 DEF Known, Shaped
      <4>3. Within(Kinds[m.kind].fields["init"].accepts, Kinds["Property"].fields["value"].accepts)
        BY <1>13, <2>6, TakesAssumption
      <4>. QED  BY <4>1, <4>2, <4>3, AcceptedWithin DEF IsValue
    <3>3. Keeps(value, react) /\ IsValue(value)
      BY <2>6, <3>2, <3>4
    <3> HIDE DEF value
    <3>. QED  BY <2>3, <2>4, <2>8, <3>3, PropertyReady, ReadySettles
  <2>. QED  BY <2>5, <2>6
<1>15. DOMAIN members = 1 .. Len(members) /\ Len(members) \in Nat
  BY <1>12, SequenceIs
<1>16. Keeps(names, react) /\ names.kind = "ArrayExpression"
  <2>1. strings = [i \in 1 .. Len(members) |-> strings[i]]
    BY <1>7, <1>15
  <2>2. Sequence(strings) /\ DOMAIN strings = 1 .. Len(members)
    BY <1>15, <2>1, IsSequence
  <2>3. \A x \in Range(strings) : Strips(x, react) /\ x.kind = "StringLiteral"
    <3> SUFFICES ASSUME NEW i \in 1 .. Len(members) PROVE Strips(strings[i], react) /\ strings[i].kind = "StringLiteral"
      BY <2>2 DEF Range
    <3>1. strings[i] = String(members[i].k.id[1].op)
      BY <1>7, <1>15
    <3>. QED  BY <3>1, StringReady, ReadySettles
  <2>. QED  BY <1>6, <2>2, <2>3, ListReady, ReadyKeeps
<1>17. Keeps(properties, react) /\ properties.kind = "ObjectExpression"
  <2>1. values = [i \in 1 .. Len(members) |-> values[i]]
    BY <1>8, <1>15
  <2>2. Sequence(values) /\ DOMAIN values = 1 .. Len(members)
    BY <1>15, <2>1, IsSequence
  <2>3. \A x \in Range(values) : Strips(x, react) /\ x.kind = "Property"
    <3> SUFFICES ASSUME NEW i \in 1 .. Len(members) PROVE Strips(values[i], react) /\ values[i].kind = "Property"
      BY <2>2 DEF Range
    <3>1. members[i] \in Range(members) /\ values[i] = MemberProperty(members[i])
      BY <1>8, <1>15 DEF Range
    <3>. QED  BY <1>14, <3>1
  <2>. QED  BY <1>6, <2>2, <2>3, ObjectReady, ReadyKeeps
<1>18. Keeps(runtime, react) /\ runtime.kind = "CallExpression"
  <2> DEFINE require == Identifier("require")
             name == String("flow-enums-runtime")
  <2>1. Keeps(require, react) /\ Keeps(name, react) /\ require.kind = "Identifier" /\ name.kind = "StringLiteral"
    BY IdentifierReady, StringReady, ReadyKeeps
  <2>2. runtime = Call1(require, name)
    BY <1>6
  <2> HIDE DEF require, name
  <2>. QED  BY <2>1, <2>2, CallReady, ReadyKeeps
<1>19. Ready(Const(id, Call1(runtime, properties)), react) /\ Const(id, Call1(runtime, properties)).kind = "VariableDeclaration"
  <2> DEFINE call == Call1(runtime, properties)
  <2>1. Keeps(call, react) /\ call.kind = "CallExpression"
    BY <1>17, <1>18, CallReady, ReadyKeeps
  <2> HIDE DEF call
  <2>2. Ready(Const(id, call), react) /\ Const(id, call).kind = "VariableDeclaration"
    BY <1>3, <1>4, <2>1, ConstReady
  <2>. QED  BY <2>2 DEF call
<1>20. /\ Ready(Const(id, Call1(Member(runtime, "Mirrored"), names)), react)
       /\ Const(id, Call1(Member(runtime, "Mirrored"), names)).kind = "VariableDeclaration"
  <2> DEFINE member == Member(runtime, "Mirrored")
             call == Call1(member, names)
  <2>1. Keeps(member, react) /\ member.kind = "MemberExpression"
    BY <1>18, MemberReady, ReadyKeeps
  <2> HIDE DEF member
  <2>2. Keeps(call, react) /\ call.kind = "CallExpression"
    BY <1>16, <2>1, CallReady, ReadyKeeps
  <2> HIDE DEF call
  <2>3. Ready(Const(id, call), react) /\ Const(id, call).kind = "VariableDeclaration"
    BY <1>3, <1>4, <2>2, ConstReady
  <2>. QED  BY <2>3 DEF call, member
<1>21. const = Const(id, Call1(Member(runtime, "Mirrored"), names)) \/ const = Const(id, Call1(runtime, properties))
  <2>1. CASE Mirrored(body)
    BY <1>1, <1>11, <2>1
  <2>2. CASE ~Mirrored(body)
    BY <1>1, <1>11, <2>2
  <2>. QED  BY <2>1, <2>2
<1>22. Ready(const, react) /\ const.kind = "VariableDeclaration"
  BY <1>19, <1>20, <1>21
<1>. QED  BY <1>3, <1>4, <1>22 DEF const, id

\* The handlers that make nodes.
LEMMA LoweringIs ==
  ASSUME StripUnfolds, NEW react, NEW n, Tree(n), ~OnlyTypes(n), n.kind \in Lowered \/ LowersDeclared(n)
  PROVE  /\ n.kind = "HookDeclaration" =>
              StripCall(n, react) = ReplaceWith(FunctionDeclaration(n.k.id[1], n.k.params, n), react)
         /\ n.kind = "EnumDeclaration" => StripCall(n, react) = ReplaceWith(transform_enum(n), react)
         /\ n.kind = "ComponentDeclaration" => StripCall(n, react) = ComponentDeclaration(n, react)
         /\ n.kind \in ExportKinds /\ DeclaredKind(n) = "ComponentDeclaration" =>
              StripCall(n, react) = ExportedComponent(n, n.k.declaration[1], react)
         /\ n.kind \in ExportKinds /\ DeclaredKind(n) = "EnumDeclaration" =>
              StripCall(n, react) = ReplaceWithAll(<<transform_enum(n.k.declaration[1]),
                                                     build_default_export(n.k.declaration[1].k.id[1])>>, react)
<1>1. StripCall(n, react) = StripFlowCall(n, react)
  BY DEF StripUnfolds
<1>2. ASSUME n.kind = "HookDeclaration"
      PROVE  StripFlowCall(n, react) = ReplaceWith(FunctionDeclaration(n.k.id[1], n.k.params, n), react)
  BY <1>2 DEF StripFlowCall, Casts
<1>3. ASSUME n.kind = "EnumDeclaration" PROVE StripFlowCall(n, react) = ReplaceWith(transform_enum(n), react)
  BY <1>3 DEF StripFlowCall, Casts
<1>4. ASSUME n.kind = "ComponentDeclaration" PROVE StripFlowCall(n, react) = ComponentDeclaration(n, react)
  BY <1>4 DEF StripFlowCall, Casts
<1>5. ASSUME n.kind \in ExportKinds, DeclaredKind(n) = "ComponentDeclaration"
      PROVE  StripFlowCall(n, react) = ExportedComponent(n, n.k.declaration[1], react)
  <2>1. CASE n.kind = "ExportNamedDeclaration"
    <3>1. n.op = "value"
      BY <1>5, <2>1 DEF LowersDeclared, Lowered
    <3>. QED  BY <1>5, <2>1, <3>1 DEF StripFlowCall, Casts
  <2>2. CASE n.kind = "ExportDefaultDeclaration"
    BY <1>5, <2>2 DEF StripFlowCall, Casts
  <2>. QED  BY <1>5, <2>1, <2>2 DEF ExportKinds
<1>6. ASSUME n.kind \in ExportKinds, DeclaredKind(n) = "EnumDeclaration"
      PROVE  StripFlowCall(n, react)
               = ReplaceWithAll(<<transform_enum(n.k.declaration[1]),
                                  build_default_export(n.k.declaration[1].k.id[1])>>, react)
  <2>1. n.kind = "ExportDefaultDeclaration"
    BY <1>6 DEF LowersDeclared, Lowered, ExportKinds
  <2>. QED  BY <1>6, <2>1 DEF StripFlowCall, Casts
<1>. QED  BY <1>1, <1>2, <1>3, <1>4, <1>5, <1>6

LEMMA ReplacesSuits ==
  ASSUME NEW react, NEW m, Replaces(m, react), NEW kind \in Lowered \cup ExportKinds
  PROVE  Suits(m.kind, kind)
  BY AcceptsAssumption DEF Replaces, Suits

\* A node that is replaced by one of the nodes that are made, or by several.
LEMMA ReplacedSettles ==
  ASSUME StripUnfolds, NEW react, NEW n, Tree(n), ~OnlyTypes(n), n.kind \in Lowered \cup ExportKinds,
         NEW m, Replaces(m, react), StripCall(n, react) = ReplaceWith(m, react)
  PROVE  Strips(n, react) /\ Settles(n, react)
<1>1. Done(StripChildren(m, react), react) /\ StripChildren(m, react).kind = m.kind
  BY ReadyIsDone DEF Replaces
<1>2. Suits(StripChildren(m, react).kind, n.kind)
  BY <1>1, ReplacesSuits
<1>3. n.kind \in Replaced \cup ExportKinds
  BY DEF Replaced
<1>. QED  BY <1>1, <1>2, <1>3 DEF Strips, Settles, ReplaceWith

LEMMA ReplacedExpands ==
  ASSUME StripUnfolds, NEW react, NEW n, Tree(n), ~OnlyTypes(n), n.kind \in ExportKinds \cup {"ComponentDeclaration"},
         NEW ms, Sequence(ms), \A i \in DOMAIN ms : Replaces(ms[i], react), StripCall(n, react) = ReplaceWithAll(ms, react)
  PROVE  Strips(n, react)
<1> DEFINE ys == [i \in DOMAIN ms |-> StripChildren(ms[i], react)]
<1>1. StripCall(n, react) = Expanded(ys)
  BY DEF ReplaceWithAll
<1>2. DOMAIN ys = DOMAIN ms /\ \A i \in DOMAIN ys : Done(ys[i], react) /\ Suits(ys[i].kind, n.kind)
  <2> SUFFICES ASSUME NEW i \in DOMAIN ms
               PROVE  Done(StripChildren(ms[i], react), react) /\ Suits(StripChildren(ms[i], react).kind, n.kind)
    OBVIOUS
  <2>1. Done(StripChildren(ms[i], react), react) /\ StripChildren(ms[i], react).kind = ms[i].kind
    BY ReadyIsDone DEF Replaces
  <2>2. n.kind \in Lowered \cup ExportKinds
    BY DEF Lowered
  <2>. QED  BY <2>1, <2>2, ReplacesSuits
<1>3. ys = [i \in DOMAIN ms |-> ys[i]]
  OBVIOUS
<1> HIDE DEF ys
<1>4. Len(ms) \in Nat /\ DOMAIN ms = 1 .. Len(ms)
  BY SequenceIs
<1>5. ys = [i \in 1 .. Len(ms) |-> ys[i]]
  BY <1>3, <1>4
<1>6. Sequence(ys)
  BY <1>4, <1>5, IsSequence
<1>. QED  BY <1>1, <1>2, <1>6 DEF Strips, Expands

\* Two and three nodes.
LEMMA TwoIs ==
  ASSUME NEW x, NEW y
  PROVE  Sequence(<<x, y>>) /\ Len(<<x, y>>) = 2 /\ DOMAIN <<x, y>> = 1 .. 2 /\ <<x, y>>[1] = x /\ <<x, y>>[2] = y
<1>1. <<x, y>> \in Seq({x, y}) /\ Len(<<x, y>>) = 2 /\ <<x, y>>[1] = x /\ <<x, y>>[2] = y
  OBVIOUS
<1>2. DOMAIN <<x, y>> = 1 .. 2 /\ Range(<<x, y>>) = {x, y}
  BY <1>1 DEF Range
<1>. QED  BY <1>1, <1>2 DEF Sequence

\* Components, hooks and enums that stand on their own.
LEMMA NodeLowers ==
  ASSUME StripUnfolds, NEW react, NEW S, Known(S, react), NEW n, Stands(n, S), n.kind \in Lowered
  PROVE  Strips(n, react)
<1>1. Tree(n) /\ ~OnlyTypes(n) /\ n.kind \in Lowered \cup ExportKinds
  BY DEF Stands
<1>2. CASE n.kind = "HookDeclaration"
  <2> DEFINE id == n.k.id[1]
             params == n.k.params
             function == FunctionDeclaration(id, params, n)
  <2>1. Sorts(n.kind, {"id"}, {"One"}) /\ Sorts(n.kind, {"body"}, {"One"})
    BY <1>2, MadeAssumption DEF Sorts
  <2>2. Keeps(id, react)
    <3>1. Keeps(n.k["id"][1], react)
      BY <2>1, OneStands
    <3>. QED  BY <3>1
  <2>3. "body" \in DOMAIN n.k /\ Whole(n.k.body, react) /\ \A x \in Range(n.k.body) : Fills(x, {"BlockStatement"})
    <3>1. "body" \in Fields(n) /\ Whole(n.k["body"], react)
      BY <2>1, OneStands
    <3>2. \A x \in Range(n.k["body"]) : Fills(x, Kinds[n.kind].fields["body"].accepts)
      BY <1>2, <3>1, AcceptedBelow
    <3>3. Kinds[n.kind].fields["body"].accepts = {"BlockStatement"}
      BY <1>2, TakesAssumption
    <3>. QED  BY <3>1, <3>2, <3>3 DEF Fields
  <2>4. Sorts(n.kind, {"params"}, {"List"}) /\ "params" \notin TypeFields(n.kind)
    BY <1>2, SortsAssumption
  <2>5. Sequence(params) /\ \A p \in Range(params) : Strips(p, react) /\ Fills(p, {"Pattern"})
    <3>1. "params" \in Fields(n) /\ Sequence(n.k["params"]) /\ \A p \in Range(n.k["params"]) : Strips(p, react)
      BY <1>2, <2>4, ListStands
    <3>2. \A p \in Range(n.k["params"]) : Fills(p, Kinds[n.kind].fields["params"].accepts)
      BY <1>2, <3>1, AcceptedBelow
    <3>3. Kinds[n.kind].fields["params"].accepts = {"Pattern"}
      BY <1>2, TakesAssumption
    <3>. QED  BY <3>1, <3>2, <3>3
  <2>6. \A p \in Range(params) : Parameter(p) /\ ~IsThis(p)
    <3>1. \A p \in ToSet(n.k.params) : Parameter(p) /\ ~IsThis(p)
      BY <1>2 DEF Stands, Grammatical
    <3>. QED  BY <3>1 DEF Range, ToSet
  <2>7. StripCall(n, react) = ReplaceWith(function, react)
    BY <1>1, <1>2, LoweringIs
  <2>8. function = FunctionDeclaration(id, params, n)
    OBVIOUS
  <2>10. id.kind = "Identifier"
    BY <1>2 DEF Stands, Grammatical
  <2>11. Takes(params, react)
    BY <2>5, <2>6 DEF Takes
  <2> HIDE DEF function, id, params
  <2>9. Replaces(function, react)
    BY <2>2, <2>3, <2>8, <2>10, <2>11, FunctionReady DEF Replaces
  <2>. QED  BY <1>1, <2>7, <2>9, ReplacedSettles
<1>3. CASE n.kind = "EnumDeclaration"
  <2>1. Replaces(transform_enum(n), react)
    BY <1>3, EnumLowers DEF Replaces
  <2>2. StripCall(n, react) = ReplaceWith(transform_enum(n), react)
    BY <1>1, <1>3, LoweringIs
  <2>. QED  BY <1>1, <2>1, <2>2, ReplacedSettles
<1>4. CASE n.kind = "ComponentDeclaration"
  <2> DEFINE ds == lower_component_declaration(n, react)
  <2>1. \/ \E d : ds = <<d>> /\ Replaces(d, react)
        \/ \E c, d : ds = <<c, d>> /\ Replaces(c, react) /\ Replaces(d, react)
    BY <1>4, ComponentLowers DEF Replaces
  <2>2. StripCall(n, react) = ComponentDeclaration(n, react)
    BY <1>1, <1>4, LoweringIs
  <2>3. StripCall(n, react) = IF Len(ds) = 1 THEN ReplaceWith(ds[1], react) ELSE ReplaceWithAll(ds, react)
    BY <2>2 DEF ComponentDeclaration
  <2> HIDE DEF ds
  <2>4. ASSUME NEW d, ds = <<d>>, Replaces(d, react) PROVE Strips(n, react)
    <3>1. StripCall(n, react) = ReplaceWith(d, react)
      BY <2>3, <2>4, OneSequence
    <3>. QED  BY <1>1, <2>4, <3>1, ReplacedSettles
  <2>5. ASSUME NEW c, NEW d, ds = <<c, d>>, Replaces(c, react), Replaces(d, react) PROVE Strips(n, react)
    <3>1. Sequence(ds) /\ Len(ds) = 2 /\ DOMAIN ds = 1 .. 2 /\ ds[1] = c /\ ds[2] = d
      BY <2>5, TwoIs
    <3>2. StripCall(n, react) = ReplaceWithAll(ds, react)
      BY <2>3, <3>1
    <3>3. \A i \in DOMAIN ds : Replaces(ds[i], react)
      <4>1. \A i \in 1 .. 2 : i = 1 \/ i = 2
        OBVIOUS
      <4>. QED  BY <2>5, <3>1, <4>1
    <3>. QED  BY <1>1, <1>4, <3>1, <3>2, <3>3, ReplacedExpands
  <2>. QED  BY <2>1, <2>4, <2>5
<1>. QED  BY <1>2, <1>3, <1>4 DEF Lowered

LEMMA BothReplace ==
  ASSUME NEW react, NEW x, NEW y, Replaces(x, react), Replaces(y, react)
  PROVE  Sequence(<<x, y>>) /\ \A i \in DOMAIN <<x, y>> : Replaces(<<x, y>>[i], react)
<1>1. Sequence(<<x, y>>) /\ DOMAIN <<x, y>> = 1 .. 2 /\ <<x, y>>[1] = x /\ <<x, y>>[2] = y
  BY TwoIs
<1>2. \A i \in 1 .. 2 : i = 1 \/ i = 2
  OBVIOUS
<1>. QED  BY <1>1, <1>2

LEMMA ThreeReplace ==
  ASSUME NEW react, NEW x, NEW y, NEW z, Replaces(x, react), Replaces(y, react), Replaces(z, react)
  PROVE  LET s == <<x, y>> \o <<z>>
         IN  Sequence(s) /\ \A i \in DOMAIN s : Replaces(s[i], react)
<1> DEFINE s == <<x, y>> \o <<z>>
<1>1. Sequence(<<x, y>>) /\ Len(<<x, y>>) = 2 /\ \A i \in 1 .. 2 : Replaces(<<x, y>>[i], react)
  BY TwoIs, BothReplace
<1>2. Sequence(<<z>>) /\ Len(<<z>>) = 1 /\ <<z>>[1] = z
  BY OneSequence
<1>3. /\ Sequence(s) /\ Len(s) = 2 + 1
      /\ \A i \in 1 .. 2 : s[i] = <<x, y>>[i]
      /\ \A i \in 1 .. 1 : s[2 + i] = <<z>>[i]
  BY <1>1, <1>2, ConcatIs
<1> HIDE DEF s
<1>4. DOMAIN s = 1 .. 3
  BY <1>3, SequenceIs
<1>5. s[3] = z
  BY <1>2, <1>3
<1>6. \A i \in 1 .. 3 : i \in 1 .. 2 \/ i = 3
  OBVIOUS
<1>7. \A i \in DOMAIN s : Replaces(s[i], react)
  BY <1>1, <1>3, <1>4, <1>5, <1>6
<1>. QED  BY <1>3, <1>7 DEF s

\* The exports of components and the default exports of enums.
LEMMA DeclaredLowers ==
  ASSUME StripUnfolds, NEW react, NEW S, Known(S, react), NEW n, Tree(n), Shaped(n), ~OnlyTypes(n),
         LowersDeclared(n), Children(n) \subseteq S
  PROVE  Strips(n, react)
<1> DEFINE c == n.k.declaration[1]
           id == c.k.id[1]
<1>1. /\ n.kind \in ExportKinds /\ n.kind \in Lowered \cup ExportKinds
      /\ n.kind \in ExportKinds \cup {"ComponentDeclaration"}
      /\ DeclaredKind(n) \in {"ComponentDeclaration", "EnumDeclaration"}
  BY DEF LowersDeclared, ExportKinds
<1>2. IsNode(n)
  BY TreeIs
<1>3. Declared(n) /\ c.kind = DeclaredKind(n)
  BY <1>1 DEF DeclaredKind
<1>4. c \in S
  <2>1. "declaration" \in Fields(n)
    BY <1>1, SortsAssumption, FieldOf DEF ExportKinds
  <2>2. Sequence(n.k.declaration)
    BY <1>2, <2>1 DEF IsNode
  <2>3. 1 \in DOMAIN n.k.declaration
    BY <1>3, <2>2, EmptySequence, SequenceIs DEF Declared, None
  <2>. QED  BY <1>2, <2>1, <2>3, Child
<1>5. id = c.k.id[1]
  OBVIOUS
<1>6. /\ DeclaredKind(n) = "ComponentDeclaration" => StripCall(n, react) = ExportedComponent(n, c, react)
      /\ DeclaredKind(n) = "EnumDeclaration" =>
           StripCall(n, react) = ReplaceWithAll(<<transform_enum(c), build_default_export(id)>>, react)
  BY <1>1, LoweringIs
<1> HIDE DEF c, id
<1>7. Stands(c, S)
  BY <1>1, <1>3, <1>4, LoweredStands DEF Lowered
<1>8. ASSUME Keeps(id, react), id.kind = "Identifier"
      PROVE  Replaces(build_default_export(id), react) /\ Replaces(build_named_export(id), react)
  <2>1. Replaces(build_default_export(id), react)
    BY <1>8, DefaultExportReady DEF Replaces, ExportKinds
  <2> DEFINE specifier == Node("ExportSpecifier", "", {}, [exported |-> <<id>>, local |-> <<id>>])
  <2>2. Ready(specifier, react) /\ specifier.kind = "ExportSpecifier"
    BY <1>8, SpecifierReady
  <2>3. build_named_export(id) = NamedExport(None, <<specifier>>)
    BY DEF build_named_export
  <2> HIDE DEF specifier
  <2>4. Sequence(<<specifier>>) /\ \A x \in Range(<<specifier>>) : Strips(x, react) /\ x.kind = "ExportSpecifier"
    <3>1. Strips(specifier, react)
      BY <2>2, ReadySettles
    <3>. QED  BY <2>2, <3>1, OneIs
  <2>5. Replaces(NamedExport(None, <<specifier>>), react)
    BY <2>4, NamedExportReady DEF Replaces, ExportKinds
  <2>. QED  BY <2>1, <2>3, <2>5
<1>9. CASE c.kind = "EnumDeclaration"
  <2>1. Replaces(transform_enum(c), react) /\ Keeps(id, react) /\ id.kind = "Identifier"
    <3>1. /\ Replaces(transform_enum(c), react)
          /\ Keeps(c.k.id[1], react) /\ c.k.id[1].kind = "Identifier"
      BY <1>7, <1>9, EnumLowers DEF Replaces
    <3>. QED  BY <1>5, <3>1
  <2>2. StripCall(n, react) = ReplaceWithAll(<<transform_enum(c), build_default_export(id)>>, react)
    BY <1>3, <1>6, <1>9
  <2>3. Replaces(build_default_export(id), react)
    BY <1>8, <2>1
  <2>4. /\ Sequence(<<transform_enum(c), build_default_export(id)>>)
        /\ \A i \in DOMAIN <<transform_enum(c), build_default_export(id)>> :
             Replaces(<<transform_enum(c), build_default_export(id)>>[i], react)
    BY <2>1, <2>3, BothReplace
  <2>. QED  BY <1>1, <2>2, <2>4, ReplacedExpands
<1>10. CASE c.kind = "ComponentDeclaration"
  <2> DEFINE ds == lower_component_declaration(c, react)
             named == n.kind = "ExportNamedDeclaration"
             export == IF named THEN build_named_export(id) ELSE build_default_export(id)
             alone == IF named THEN NamedExport(ds, <<>>) ELSE build_default_export(ds[1])
  <2>1. /\ Keeps(id, react) /\ id.kind = "Identifier"
        /\ \/ \E d : ds = <<d>> /\ Ready(d, react) /\ d.kind = "FunctionDeclaration"
           \/ \E w, d : ds = <<w, d>> /\ Replaces(w, react) /\ Replaces(d, react)
    <3>1. /\ Keeps(c.k.id[1], react) /\ c.k.id[1].kind = "Identifier"
          /\ \/ \E d : ds = <<d>> /\ Ready(d, react) /\ d.kind = "FunctionDeclaration"
             \/ \E w, d : ds = <<w, d>> /\ Replaces(w, react) /\ Replaces(d, react)
      BY <1>7, <1>10, ComponentLowers
    <3>. QED  BY <1>5, <3>1
  <2>2. StripCall(n, react) = IF Len(ds) = 1 THEN ReplaceWith(alone, react) ELSE ReplaceWithAll(ds \o <<export>>, react)
    <3>1. StripCall(n, react) = ExportedComponent(n, c, react)
      BY <1>3, <1>6, <1>10
    <3>. QED  BY <1>5, <3>1 DEF ExportedComponent
  <2>3. Replaces(export, react)
    BY <1>8, <2>1
  <2>4. alone = IF named THEN NamedExport(ds, <<>>) ELSE build_default_export(ds[1])
    OBVIOUS
  <2> HIDE DEF ds, export, alone
  <2>5. ASSUME NEW d, ds = <<d>>, Ready(d, react), d.kind = "FunctionDeclaration" PROVE Strips(n, react)
    <3>1. Len(ds) = 1 /\ ds[1] = d /\ ds # None
      BY <2>5, OneSequence, OneIs
    <3>2. Keeps(d, react)
      BY <2>5, ReadyKeeps
    <3>3. CASE named
      <4>1. Sequence(<<>>) /\ Range(<<>>) = {}
        BY EmptySequence DEF Range
      <4>2. Replaces(NamedExport(ds, <<>>), react)
        BY <2>5, <3>2, <4>1, NamedExportReady DEF Replaces, ExportKinds
      <4>. QED  BY <1>1, <2>2, <2>4, <3>1, <3>3, <4>2, ReplacedSettles
    <3>4. CASE ~named
      <4>1. Replaces(build_default_export(d), react)
        BY <2>5, <3>2, DefaultExportReady DEF Replaces, ExportKinds
      <4>. QED  BY <1>1, <2>2, <2>4, <3>1, <3>4, <4>1, ReplacedSettles
    <3>. QED  BY <3>3, <3>4
  <2>6. ASSUME NEW w, NEW d, ds = <<w, d>>, Replaces(w, react), Replaces(d, react) PROVE Strips(n, react)
    <3>1. Len(ds) = 2
      BY <2>6, TwoIs
    <3>2. StripCall(n, react) = ReplaceWithAll(<<w, d>> \o <<export>>, react)
      BY <2>2, <2>6, <3>1
    <3>3. /\ Sequence(<<w, d>> \o <<export>>)
          /\ \A i \in DOMAIN (<<w, d>> \o <<export>>) : Replaces((<<w, d>> \o <<export>>)[i], react)
      BY <2>3, <2>6, ThreeReplace
    <3>. QED  BY <1>1, <3>2, <3>3, ReplacedExpands
  <2>. QED  BY <2>1, <2>5, <2>6
<1>. QED  BY <1>1, <1>3, <1>9, <1>10

\* What the pass comes to in a program is stripped.
LEMMA ProgramStrips ==
  ASSUME SubtreesUnfolds, StripUnfolds, ProgramsAreTrees, NEW react, NEW p \in Programs
  PROVE  Settles(p, react)
<1> DEFINE S == Subtrees(p)
           \* Nothing is said of what only components have.
           Good == {n \in S : /\ Subtrees(n) \subseteq S
                              /\ \A m \in Subtrees(n) :
                                   Visited(m) /\ m.kind # "ComponentParameter" => Strips(m, react)}
<1>1. p \in S /\ Closed(S) /\ Founded(S) /\ \A n \in S : Tree(n)
  BY SubtreesAre DEF ProgramsAreTrees
<1>2. p.kind = "Program" /\ \A n \in S : Shaped(n) /\ (Type(n) \/ Placed(n)) /\ Grammatical(n)
  BY ProgramsAssumption
<1>8. Checked => \A n \in S : Type(n) \/ Accepted(n)
  BY DEF Checked, AllAccepted
<1>3. ASSUME NEW n \in S, \A c \in Children(n) : c \in S => c \in Good
      PROVE  n \in Good
  <2> DEFINE B == UNION {Subtrees(c) : c \in Children(n)}
  <2>1. Tree(n) /\ Shaped(n) /\ Grammatical(n) /\ IsNode(n) /\ Children(n) \subseteq S
    BY <1>1, <1>2 DEF Closed
  <2>2. Subtrees(n) = {n} \cup B
    BY <2>1 DEF SubtreesUnfolds, SubtreesOf
  <2>3. B \subseteq S
    BY <1>3, <2>1
  <2>4. Known(B, react) /\ Children(n) \subseteq B
    <3>1. ASSUME NEW m \in B
          PROVE  /\ IsNode(m) /\ Children(m) \subseteq B
                 /\ Tree(m) /\ Shaped(m) /\ (Type(m) \/ Placed(m)) /\ Grammatical(m)
                 /\ Visited(m) /\ m.kind # "ComponentParameter" => Strips(m, react)
                 /\ Checked => Type(m) \/ Accepted(m)
      <4>1. PICK c \in Children(n) : m \in Subtrees(c)
        OBVIOUS
      <4>2. c \in S /\ c \in Good
        BY <1>3, <2>1, <4>1
      <4>3. Closed(Subtrees(c))
        BY <1>1, <4>2, SubtreesAre
      <4>. QED  BY <1>1, <1>2, <1>8, <2>3, <3>1, <4>1, <4>2, <4>3 DEF Closed
    <3>2. Children(n) \subseteq B
      <4> SUFFICES ASSUME NEW c \in Children(n) PROVE c \in Subtrees(c)
        OBVIOUS
      <4>. QED  BY <1>1, <2>1, SubtreesAre
    <3> HIDE DEF B, Good
    <3>. QED  BY <3>1, <3>2 DEF Known, Closed
  <2> HIDE DEF B
  <2>5. ASSUME Visited(n), n.kind # "ComponentParameter" PROVE Strips(n, react)
    <3>1. CASE Type(n)
      <4>1. OnlyTypes(n)
        BY <2>1, <2>5, <3>1, TypesOnly
      <4>2. StripCall(n, react) = StripFlowCall(n, react)
        BY <2>1 DEF StripUnfolds
      <4>3. StripFlowCall(n, react) = Removed
        BY <4>1 DEF StripFlowCall, OnlyTypes, Declarations, Casts
      <4>. QED  BY <2>1, <4>1, <4>2, <4>3 DEF Strips, Drops
    <3>2. CASE Placed(n) /\ ~OnlyTypes(n) /\ LowersDeclared(n)
      BY <2>1, <2>4, <3>2, DeclaredLowers
    <3>3. CASE Placed(n) /\ n.kind \in Lowered
      <4>1. ~OnlyTypes(n) /\ ~LowersDeclared(n) /\ n.kind \notin Casts
        <5>1. ~TypeKind(n.kind)
          BY <3>3, MadeAssumption
        <5>2. n.kind \notin Declarations
          BY <5>1, TypesAssumption
        <5>. QED  BY <3>3, <5>2 DEF OnlyTypes, LowersDeclared, Casts, Lowered
      <4>3. ~Type(n)
        BY <3>3, MadeAssumption DEF Type
      <4>2. Stands(n, B)
        BY <1>8, <2>1, <2>4, <3>3, <4>1, <4>3 DEF Stands
      <4>. QED  BY <2>4, <3>3, <4>2, NodeLowers
    <3>4. CASE Placed(n) /\ ~Type(n) /\ n.kind \notin Lowered /\ ~LowersDeclared(n)
      <4>1. ASSUME NEW c \in Children(n) PROVE Grammatical(c) /\ (Visited(c) => Strips(c, react))
        <5>1. c \in B
          BY <2>4
        <5>2. ASSUME Visited(c), c.kind = "ComponentParameter" PROVE FALSE
          <6>1. PICK f \in Fields(n) : \E i \in DOMAIN n.k[f] : c = n.k[f][i]
            BY DEF Children
          <6>2. f \in TypeFields(n.kind) => Type(c)
            BY <3>4, <6>1 DEF Placed
          <6>3. ~TypeKind("ComponentParameter")
            BY TypesAssumption
          <6>4. f \notin TypeFields(n.kind) => n.kind = "ComponentDeclaration"
            BY <3>4, <5>2, <6>1 DEF Placed
          <6>. QED  BY <3>4, <5>2, <6>2, <6>3, <6>4 DEF Type, Lowered
        <5>. QED  BY <2>4, <5>1, <5>2 DEF Known
      <4>2. n.kind \notin Lowered \cup {"ComponentParameter"}
        BY <2>5, <3>4
      <4>3. Checked => Accepted(n)
        BY <1>8, <3>4
      <4>. QED  BY <2>1, <3>4, <4>1, <4>2, <4>3, NodeStrips
    <3>5. CASE OnlyTypes(n)
      <4>1. StripFlowCall(n, react) = Removed
        BY <3>5 DEF StripFlowCall, OnlyTypes, Declarations, Casts
      <4>2. StripCall(n, react) = StripFlowCall(n, react)
        BY <2>1 DEF StripUnfolds
      <4>. QED  BY <2>1, <3>5, <4>1, <4>2 DEF Strips, Drops
    <3>. QED  BY <1>2, <3>1, <3>2, <3>3, <3>4, <3>5
  <2>6. \A m \in B : Visited(m) /\ m.kind # "ComponentParameter" => Strips(m, react)
    BY <2>4 DEF Known
  <2>. QED  BY <2>2, <2>3, <2>5, <2>6
<1>4. \A n \in Good : n \in Subtrees(n) => (Visited(n) /\ n.kind # "ComponentParameter" => Strips(n, react))
  OBVIOUS
<1> HIDE DEF S, Good
<1>5. S \subseteq Good
  BY <1>1, <1>3, TreeInduction
<1>6. Visited(p) /\ ~OnlyTypes(p)
  BY <1>2, TypesAssumption DEF Visited, Type, OnlyTypes, Declarations
<1>7. Strips(p, react)
  <2>1. p \in Subtrees(p) /\ p \in Good
    BY <1>1, <1>5 DEF S
  <2>. QED  BY <1>2, <1>4, <1>6, <2>1
<1>. QED  BY <1>2, <1>6, <1>7 DEF Strips, Drops, Expands, ExportKinds

\* A second run of StripFlow finds nothing to do: for every program that the
\* parser may return, with components, hooks and enums too, what the handlers
\* make and put in the place of a node is as stripped as what the pass visits.
THEOREM StrippingIsDone ==
  ASSUME SubtreesUnfolds, StripUnfolds, ProgramsAreTrees
  PROVE  Spec => []Idempotent
<1>1. IsResult => Idempotent
  <2> SUFFICES ASSUME IsResult, Ran("StripFlow") PROVE Strip(result) = result
    BY DEF Idempotent
  <2>1. program \in Programs /\ result = StripCall(program, target).nodes[1]
    BY DEF IsResult, Ran, Strip
  <2>2. Settles(program, target)
    BY <2>1, ProgramStrips
  <2>3. PICK y : StripCall(program, target) = Changed(y) /\ Done(y, target)
    BY <2>2 DEF Settles
  <2>4. result = y
    BY <2>1, <2>3, OutcomesAre
  <2>5. StripCall(y, target) = Changed(y)
    BY <2>3 DEF Done
  <2>. QED  BY <2>4, <2>5, OutcomesAre DEF Strip
<1>. QED  BY <1>1, PassRuns, PTL
-----------------------------------------------------------------------------
(* What is reduced stays valid.                                            *)

\* A valid tree that can stand where a node of the kind stands.
FitsFor(y, kind) == Tree(y) /\ validate_tree(y) /\ StandsFor(y.kind, kind)
\* What a node is reduced to fits where it stands; only an if goes.
Leaves(n, out) ==
  \/ out = Removed /\ n.kind = "IfStatement"
  \/ \E y : out = Changed(y) /\ FitsFor(y, n.kind)

LEMMA EmptyFits ==
  ASSUME SubtreesUnfolds
  PROVE  FitsFor(EmptyStatement, "IfStatement")
<1> DEFINE y == EmptyStatement
<1>1. y.kind = "EmptyStatement" /\ y.k = <<>>
  BY DEF EmptyStatement, Node
<1>2. Tree(y)
  BY EmptyTree
<1>3. /\ "EmptyStatement" \in DOMAIN Kinds /\ DOMAIN Kinds["EmptyStatement"].fields = {}
      /\ StandsFor("EmptyStatement", "IfStatement")
  BY AcceptsAssumption
<1> HIDE DEF y
<1>4. validate_node(y)
  BY <1>1, <1>3 DEF validate_node, validate_custom
<1>5. Children(y) = {}
  BY <1>1 DEF Children, Fields
<1>6. validate_tree(y)
  BY <1>2, <1>4, <1>5, ValidMade
<1>. QED  BY <1>1, <1>2, <1>3, <1>6 DEF FitsFor, y

LEMMA LeftInField ==
  ASSUME SubtreesUnfolds, NEW sort \in {"One", "Maybe", "List", "MaybeList"}, NEW nodes, Sequence(nodes),
         NEW outs, \A i \in DOMAIN nodes : Leaves(nodes[i], outs[i]),
         sort = "One" => Len(nodes) = 1
  PROVE  LET now == VisitField(sort, nodes, outs)
         IN  Sequence(now) /\ \A j \in DOMAIN now : \E i \in DOMAIN nodes : FitsFor(now[j], nodes[i].kind)
<1> DEFINE now == VisitField(sort, nodes, outs)
<1>1. /\ Len(nodes) \in Nat /\ DOMAIN nodes = 1 .. Len(nodes)
  BY SequenceIs
<1>2. ASSUME NEW i \in DOMAIN nodes
      PROVE  /\ FitsFor(VisitNode(nodes[i], outs[i]), nodes[i].kind)
             /\ FitsFor(VisitOption(nodes[i], outs[i]), nodes[i].kind)
             /\ \/ VisitElement(nodes[i], outs[i]) = <<>>
                \/ \E y : VisitElement(nodes[i], outs[i]) = <<y>> /\ FitsFor(y, nodes[i].kind)
  <2>1. CASE outs[i] = Removed /\ nodes[i].kind = "IfStatement"
    BY <2>1, OutcomesAre, EmptyFits
  <2>2. ASSUME NEW y, outs[i] = Changed(y), FitsFor(y, nodes[i].kind)
        PROVE  /\ VisitNode(nodes[i], outs[i]) = y /\ VisitOption(nodes[i], outs[i]) = y
               /\ VisitElement(nodes[i], outs[i]) = <<y>>
    BY <2>2, OutcomesAre
  <2>. QED  BY <2>1, <2>2 DEF Leaves
<1>3. CASE sort \in {"One", "Maybe"}
  <2>1. /\ now = [i \in 1 .. Len(nodes) |-> now[i]]
        /\ \A i \in DOMAIN nodes : FitsFor(now[i], nodes[i].kind)
    <3>1. CASE sort = "One"
      <4>1. now = <<VisitNode(nodes[1], outs[1])>> /\ Len(nodes) = 1 /\ DOMAIN nodes = 1 .. 1
        BY <1>1, <3>1 DEF VisitField
      <4>2. now = [i \in 1 .. 1 |-> now[i]] /\ now[1] = VisitNode(nodes[1], outs[1])
        BY <4>1
      <4> HIDE DEF now
      <4>. QED  BY <1>2, <4>1, <4>2
    <3>2. CASE sort = "Maybe"
      <4>1. now = [i \in DOMAIN nodes |-> VisitOption(nodes[i], outs[i])]
        BY <3>2 DEF VisitField
      <4> HIDE DEF now
      <4>. QED  BY <1>1, <1>2, <4>1
    <3>. QED  BY <1>3, <3>1, <3>2
  <2> HIDE DEF now
  <2>2. Sequence(now) /\ DOMAIN now = DOMAIN nodes
    BY <1>1, <2>1, IsSequence
  <2>. QED  BY <2>1, <2>2 DEF now
<1>4. CASE sort \in {"List", "MaybeList"}
  <2> DEFINE ss == [i \in DOMAIN nodes |-> VisitElement(nodes[i], outs[i])]
  <2>1. now = FlattenSeq(ss)
    BY <1>4 DEF VisitField
  <2>2. \A i \in DOMAIN nodes : ss[i] = <<>> \/ \E y : ss[i] = <<y>> /\ FitsFor(y, nodes[i].kind)
    BY <1>2
  <2>3. Sequence(ss) /\ Len(ss) = Len(nodes)
    <3>1. ss = [i \in 1 .. Len(nodes) |-> ss[i]]
      BY <1>1
    <3> HIDE DEF ss
    <3>. QED  BY <1>1, <3>1, IsSequence
  <2> HIDE DEF ss, now
  <2>4. \A i \in 1 .. Len(ss) : Sequence(ss[i])
    <3> SUFFICES ASSUME NEW i \in DOMAIN nodes PROVE Sequence(ss[i])
      BY <1>1, <2>3
    <3>1. CASE ss[i] = <<>>
      BY <3>1, EmptySequence
    <3>2. ASSUME NEW y, ss[i] = <<y>> PROVE Sequence(ss[i])
      BY <3>2, OneSequence
    <3>. QED  BY <2>2, <3>1, <3>2
  <2>5. Sequence(now) /\ \A x \in Range(now) : \E i \in 1 .. Len(ss) : x \in Range(ss[i])
    BY <2>1, <2>3, <2>4, FlattenSequence
  <2>6. ASSUME NEW j \in DOMAIN now PROVE \E i \in DOMAIN nodes : FitsFor(now[j], nodes[i].kind)
    <3>1. PICK i \in DOMAIN nodes : now[j] \in Range(ss[i])
      BY <1>1, <2>3, <2>5 DEF Range
    <3>2. ss[i] # <<>>
      BY <3>1 DEF Range
    <3>3. PICK y : ss[i] = <<y>> /\ FitsFor(y, nodes[i].kind)
      BY <2>2, <3>2
    <3>4. now[j] = y
      BY <3>1, <3>3 DEF Range
    <3>. QED  BY <3>3, <3>4
  <2>. QED  BY <2>5, <2>6 DEF now
<1>. QED  BY <1>3, <1>4

\* Visiting the children of a valid node leaves a valid tree.
LEMMA ReducedValid ==
  ASSUME SubtreesUnfolds, NEW n, Tree(n), Shaped(n), validate_node(n),
         \A c \in Children(n) : Leaves(c, ReduceCall(c))
  PROVE  /\ Tree(ReduceChildren(n)) /\ validate_tree(ReduceChildren(n))
         /\ ReduceChildren(n).kind = n.kind
<1> DEFINE outs(f) == [i \in DOMAIN n.k[f] |-> ReduceCall(n.k[f][i])]
           k == [f \in Fields(n) |-> VisitField(SortOf(n, f), n.k[f], outs(f))]
           y == ReduceChildren(n)
<1>0. IsNode(n)
  BY TreeIs
<1>1. y = [n EXCEPT !.k = k]
  BY DEF ReduceChildren, VisitChildren, SortOf
<1>2. y = Node(n.kind, n.op, n.flags, k)
  <2> HIDE DEF k, y
  <2>. QED  BY <1>0, <1>1, Rebuilt
<1>3. y.kind = n.kind /\ y.op = n.op /\ y.flags = n.flags /\ y.k = k
  <2> HIDE DEF k, y
  <2>. QED  BY <1>2 DEF Node
<1>4. k = [f \in Fields(n) |-> k[f]] /\ DOMAIN k = Fields(n)
  OBVIOUS
<1>5. ASSUME NEW f \in Fields(n)
      PROVE  Sequence(k[f]) /\ \A j \in DOMAIN k[f] : \E i \in DOMAIN n.k[f] : FitsFor(k[f][j], n.k[f][i].kind)
  <2> DEFINE nodes == n.k[f]
             sort == SortOf(n, f)
             o == outs(f)
  <2>1. k[f] = VisitField(sort, nodes, o)
    OBVIOUS
  <2>2. Sequence(nodes)
    BY <1>0 DEF IsNode
  <2>3. \A i \in DOMAIN nodes : Leaves(nodes[i], o[i])
    BY <1>0, Child
  <2>4. sort \in {"One", "Maybe", "List", "MaybeList"} /\ (sort = "One" => Len(nodes) = 1)
    BY ShapedField
  <2> HIDE DEF nodes, sort, o, k
  <2>5. LET now == VisitField(sort, nodes, o)
        IN  Sequence(now) /\ \A j \in DOMAIN now : \E i \in DOMAIN nodes : FitsFor(now[j], nodes[i].kind)
    BY <2>2, <2>3, <2>4, LeftInField
  <2>. QED  BY <2>1, <2>5 DEF nodes
<1> HIDE DEF k
<1>6. Tree(y)
  <2>1. \A f \in Fields(n) : Sequence(k[f]) /\ \A i \in DOMAIN k[f] : Tree(k[f][i])
    BY <1>5 DEF FitsFor
  <2> HIDE DEF y
  <2>2. Tree(Node(n.kind, n.op, n.flags, k))
    BY <1>4, <2>1, RebuiltTree
  <2>. QED  BY <1>2, <2>2
<1> HIDE DEF y
<1>7. \A f \in Fields(n) : \A a \in AcceptSets : validate_child(n.k[f], a) => validate_child(y.k[f], a)
  <2> SUFFICES ASSUME NEW f \in Fields(n), NEW a \in AcceptSets, validate_child(n.k[f], a),
                      NEW j \in DOMAIN k[f]
               PROVE  \E v \in a : instanceof(k[f][j].kind, v)
    BY <1>3 DEF validate_child
  <2>1. PICK i \in DOMAIN n.k[f] : FitsFor(k[f][j], n.k[f][i].kind)
    BY <1>5
  <2>2. accepted(n.k[f][i].kind, a)
    BY DEF validate_child, accepted
  <2>3. accepted(k[f][j].kind, a)
    BY <2>1, <2>2 DEF FitsFor, StandsFor
  <2>. QED  BY <2>3 DEF accepted
<1>8. validate_node(y)
  BY <1>3, <1>7, NodeStays
<1>9. \A c \in Children(y) : validate_tree(c)
  BY <1>3, <1>4, <1>5 DEF Children, Fields, FitsFor
<1>10. validate_tree(y)
  BY <1>6, <1>8, <1>9, ValidMade
<1>. QED  BY <1>3, <1>6, <1>10 DEF y

\* The branch that a literal test takes can stand for the condition.
LEMMA TakenFits ==
  ASSUME NEW n, Tree(n), Shaped(n), validate_node(n), Conditional(n),
         \A c \in Children(n) : c.kind \in DOMAIN Kinds
  PROVE  /\ Taken(n) = None => n.kind = "IfStatement"
         /\ Taken(n) # None => Taken(n)[1] \in Children(n) /\ StandsFor(Taken(n)[1].kind, n.kind)
<1>1. /\ {"test", "consequent", "alternate"} \subseteq Fields(n)
      /\ Len(n.k.test) = 1 /\ Len(n.k.consequent) = 1 /\ Len(n.k.alternate) \in {0, 1}
      /\ \A f \in {"test", "consequent", "alternate"} : Sequence(n.k[f])
  BY ConditionalIs
<1>2. IsNode(n) /\ n.kind \in DOMAIN Kinds /\ Fields(n) = DOMAIN Kinds[n.kind].fields
  BY TreeIs DEF Shaped
<1>3. PICK f \in {"consequent", "alternate"} : Taken(n) = n.k[f]
  BY DEF Taken
<1>4. ASSUME Taken(n) = None, n.kind # "IfStatement" PROVE FALSE
  <2>1. n.kind = "ConditionalExpression"
    BY <1>4 DEF Conditional
  <2>2. SortOf(n, "alternate") = "One"
    BY <2>1, AcceptsAssumption DEF Sorts, SortOf
  <2>3. Len(n.k["alternate"]) = 1
    BY <1>1, <2>2, ShapedField
  <2>4. Len(n.k[f]) = 1
    BY <1>1, <2>3
  <2>5. Len(None) = 0
    BY EmptySequence DEF None
  <2>. QED  BY <1>3, <1>4, <2>4, <2>5
<1>5. ASSUME Taken(n) # None PROVE Taken(n)[1] \in Children(n) /\ StandsFor(Taken(n)[1].kind, n.kind)
  <2> DEFINE held == Kinds[n.kind].fields[f].accepts
             c == n.k[f][1]
  <2>1. Sequence(n.k[f]) /\ Len(n.k[f]) \in {0, 1} /\ f \in Fields(n)
    BY <1>1
  <2>2. 1 \in DOMAIN n.k[f]
    BY <1>3, <1>5, <2>1, SequenceIs, EmptySequence DEF None
  <2>3. c \in Children(n)
    BY <1>2, <2>1, <2>2, Child
  <2>4. accepted(c.kind, held)
    <3>1. validate_child(n.k[f], held)
      BY <1>2, <2>1 DEF validate_node
    <3>. QED  BY <2>2, <3>1 DEF validate_child, accepted
  <2>5. Yields(n.kind, f)
    BY AcceptsAssumption DEF Conditional
  <2>6. StandsFor(c.kind, n.kind)
    <3> HIDE DEF held
    <3>1. c.kind \in DOMAIN Kinds
      BY <2>3
    <3> HIDE DEF c
    <3>. QED  BY <2>4, <2>5, <3>1 DEF StandsFor, Yields, Within, held
  <2>. QED  BY <1>3, <2>3, <2>6
<1>. QED  BY <1>4, <1>5

\* What a node is reduced to, and its children.
ReducesWell(n) ==
  /\ n.kind \in DOMAIN Kinds /\ Leaves(n, ReduceCall(n))
  /\ Tree(ReduceChildren(n)) /\ validate_tree(ReduceChildren(n)) /\ ReduceChildren(n).kind = n.kind

LEMMA NodeReducesWell ==
  ASSUME SubtreesUnfolds, ReduceUnfolds, NEW n, Tree(n), Shaped(n), validate_node(n),
         \A c \in Children(n) : ReducesWell(c)
  PROVE  ReducesWell(n)
<1>1. /\ Tree(ReduceChildren(n)) /\ validate_tree(ReduceChildren(n))
      /\ ReduceChildren(n).kind = n.kind
  BY ReducedValid DEF ReducesWell
<1>2. ReduceCall(n) = ReduceConditionalCall(n) /\ n.kind \in DOMAIN Kinds
  BY DEF ReduceUnfolds, Shaped
<1>3. CASE Conditional(n) /\ Literal(n)
  <2>1. ReduceCall(n) = IF Taken(n) = None THEN Removed ELSE Changed(ReduceChildren(Taken(n)[1]))
    BY <1>2, <1>3 DEF ReduceConditionalCall, Conditional
  <2>2. /\ Taken(n) = None => n.kind = "IfStatement"
        /\ Taken(n) # None => Taken(n)[1] \in Children(n) /\ StandsFor(Taken(n)[1].kind, n.kind)
    BY <1>3, TakenFits DEF ReducesWell
  <2>3. CASE Taken(n) = None
    BY <1>1, <1>2, <2>1, <2>2, <2>3 DEF ReducesWell, Leaves
  <2>4. CASE Taken(n) # None
    <3> DEFINE c == Taken(n)[1]
               y == ReduceChildren(c)
    <3>1. Tree(y) /\ validate_tree(y) /\ y.kind = c.kind /\ StandsFor(c.kind, n.kind)
      BY <2>2, <2>4 DEF ReducesWell
    <3>2. ReduceCall(n) = Changed(y)
      BY <2>1, <2>4
    <3> HIDE DEF c, y
    <3>3. FitsFor(y, n.kind)
      BY <3>1 DEF FitsFor
    <3>. QED  BY <1>1, <1>2, <3>2, <3>3 DEF ReducesWell, Leaves
  <2>. QED  BY <2>3, <2>4
<1>4. CASE ~(Conditional(n) /\ Literal(n))
  <2> DEFINE y == ReduceChildren(n)
  <2>1. ReduceCall(n) = Changed(y)
    BY <1>2, <1>4 DEF ReduceConditionalCall, Conditional
  <2>2. FitsFor(y, n.kind)
    <3>1. Tree(y) /\ validate_tree(y) /\ y.kind = n.kind
      BY <1>1
    <3> HIDE DEF y
    <3>. QED  BY <3>1 DEF FitsFor, StandsFor
  <2>. QED  BY <1>1, <1>2, <2>1, <2>2 DEF ReducesWell, Leaves
<1>. QED  BY <1>3, <1>4

LEMMA ProgramReducesWell ==
  ASSUME SubtreesUnfolds, ReduceUnfolds, ProgramsAreTrees, NEW p \in Programs, validate_tree(p)
  PROVE  validate_tree(ReduceCall(p).nodes[1])
<1> DEFINE S == Subtrees(p)
           Good == {n \in S : ReducesWell(n)}
<1>1. p \in S /\ Closed(S) /\ Founded(S) /\ \A n \in S : Tree(n)
  BY SubtreesAre DEF ProgramsAreTrees
<1>2. p.kind = "Program" /\ \A n \in S : Shaped(n) /\ validate_node(n)
  BY ProgramsAssumption DEF validate_tree
<1>3. ASSUME NEW n \in S, \A c \in Children(n) : c \in S => c \in Good
      PROVE  n \in Good
  <2>1. \A c \in Children(n) : ReducesWell(c)
    BY <1>1, <1>3 DEF Closed
  <2>2. Tree(n) /\ Shaped(n) /\ validate_node(n)
    BY <1>1, <1>2
  <2>. QED  BY <2>1, <2>2, NodeReducesWell
<1> HIDE DEF S, Good
<1>4. S \subseteq Good
  BY <1>1, <1>3, TreeInduction
<1>5. ReducesWell(p)
  BY <1>1, <1>4 DEF Good
<1>6. ReduceCall(p) = Changed(ReduceChildren(p))
  BY <1>2, Zenon DEF ReduceUnfolds, ReduceConditionalCall, ProgramsAreTrees
<1>7. ReduceCall(p).nodes[1] = ReduceChildren(p)
  BY <1>6, OutcomesAre
<1>. QED  BY <1>5, <1>7 DEF ReducesWell

\* The passes keep trees valid: for every program that the parser may return,
\* reducing a valid tree leaves a valid one, and so does StripFlow as long as
\* the validation accepts what the parser returns, components aside: every
\* node that a handler makes or moves is one that its new place accepts.
THEOREM PassesKeepTreesValid ==
  ASSUME SubtreesUnfolds, StripUnfolds, ReduceUnfolds, ProgramsAreTrees, AllAccepted
  PROVE  Spec => []StaysValid
<1>1. IsResult => StaysValid
  <2> SUFFICES ASSUME IsResult, result # Nothing, pass = "StripFlow" \/ validate_tree(program)
               PROVE  validate_tree(result)
    BY DEF StaysValid
  <2>1. CASE pass = "StripFlow"
    <3>1. program \in Programs /\ result = StripCall(program, target).nodes[1]
      BY <2>1 DEF IsResult, Strip
    <3>2. Settles(program, target)
      BY <3>1, ProgramStrips
    <3>3. PICK y : StripCall(program, target) = Changed(y) /\ Done(y, target)
      BY <3>2 DEF Settles
    <3>4. result = y
      BY <3>1, <3>3, OutcomesAre
    <3>. QED  BY <3>3, <3>4 DEF Done, Valid, Checked
  <2>2. CASE pass # "StripFlow"
    BY <2>2, ProgramReducesWell DEF IsResult
  <2>. QED  BY <2>1, <2>2
<1>. QED  BY <1>1, PassRuns, PTL
=============================================================================
