----------------------------- MODULE LineProofs -----------------------------
(***************************************************************************)
(* Sequences of lines on their way between two processes, as what they     *)
(* contain and what stands before what: what sending and reading a line    *)
(* changes of it. Sequences of sequences put end to end.                   *)
(***************************************************************************)
EXTENDS Naturals, SequencesExt, SequenceTheorems, WellFoundedInduction, TLAPS

Before(s, x, y) == \E i, j \in DOMAIN s : i < j /\ s[i] = x /\ s[j] = y

\* A pipe from which the first line is taken.
LEMMA TailFacts ==
  ASSUME NEW S, NEW s \in Seq(S), s # <<>>
  PROVE  /\ Head(s) \in S /\ Tail(s) \in Seq(S)
         /\ ToSet(s) = {Head(s)} \union ToSet(Tail(s))
         /\ \A x, y : Before(s, x, y) <=> Before(Tail(s), x, y) \/ (x = Head(s) /\ y \in ToSet(Tail(s)))
<1>1. /\ Head(s) \in S /\ Tail(s) \in Seq(S) /\ Len(Tail(s)) = Len(s) - 1
      /\ \A i \in 1 .. Len(Tail(s)) : Tail(s)[i] = s[i + 1]
  BY HeadTailProperties
<1>2. Head(s) = s[1] /\ Len(s) \in Nat \ {0} /\ DOMAIN s = 1 .. Len(s) /\ DOMAIN Tail(s) = 1 .. Len(s) - 1
  BY <1>1, EmptySeq, LenProperties
<1>3. ToSet(s) = {Head(s)} \union ToSet(Tail(s))
  <2>1. ASSUME NEW i \in DOMAIN s PROVE s[i] \in {Head(s)} \union ToSet(Tail(s))
    <3>1. CASE i = 1
      BY <3>1, <1>2
    <3>2. CASE i # 1
      <4>1. i - 1 \in DOMAIN Tail(s) /\ Tail(s)[i - 1] = s[i]
        BY <3>2, <1>1, <1>2
      <4> QED
        BY <4>1 DEF ToSet
    <3> QED
      BY <3>1, <3>2
  <2>2. ASSUME NEW i \in DOMAIN Tail(s) PROVE Tail(s)[i] \in ToSet(s)
    <3>1. i + 1 \in DOMAIN s /\ Tail(s)[i] = s[i + 1]
      BY <1>1, <1>2
    <3> QED
      BY <3>1 DEF ToSet
  <2>3. Head(s) \in ToSet(s)
    BY <1>2 DEF ToSet
  <2> QED
    BY <2>1, <2>2, <2>3 DEF ToSet
<1>4. ASSUME NEW x, NEW y, Before(s, x, y)
      PROVE  Before(Tail(s), x, y) \/ (x = Head(s) /\ y \in ToSet(Tail(s)))
  <2>1. PICK i, j \in DOMAIN s : i < j /\ s[i] = x /\ s[j] = y
    BY <1>4 DEF Before
  <2>2. j - 1 \in DOMAIN Tail(s) /\ Tail(s)[j - 1] = y
    BY <2>1, <1>1, <1>2
  <2>3. CASE i = 1
    BY <2>1, <2>2, <2>3, <1>2 DEF ToSet
  <2>4. CASE i # 1
    <3>1. i - 1 \in DOMAIN Tail(s) /\ Tail(s)[i - 1] = x /\ i - 1 < j - 1
      BY <2>1, <2>4, <1>1, <1>2
    <3> QED
      BY <3>1, <2>2 DEF Before
  <2> QED
    BY <2>3, <2>4
<1>5. ASSUME NEW x, NEW y, Before(Tail(s), x, y) PROVE Before(s, x, y)
  <2>1. PICK i, j \in DOMAIN Tail(s) : i < j /\ Tail(s)[i] = x /\ Tail(s)[j] = y
    BY <1>5 DEF Before
  <2>2. i + 1 \in DOMAIN s /\ j + 1 \in DOMAIN s /\ i + 1 < j + 1 /\ s[i + 1] = x /\ s[j + 1] = y
    BY <2>1, <1>1, <1>2
  <2> QED
    BY <2>2 DEF Before
<1>6. ASSUME NEW y \in ToSet(Tail(s)) PROVE Before(s, Head(s), y)
  <2>1. PICK j \in DOMAIN Tail(s) : Tail(s)[j] = y
    BY DEF ToSet
  <2>2. 1 \in DOMAIN s /\ j + 1 \in DOMAIN s /\ 1 < j + 1 /\ s[1] = Head(s) /\ s[j + 1] = y
    BY <2>1, <1>1, <1>2
  <2> QED
    BY <2>2 DEF Before
<1> QED
  BY <1>1, <1>3, <1>4, <1>5, <1>6

\* A pipe to which lines are added.
LEMMA ConcatFacts ==
  ASSUME NEW S, NEW s \in Seq(S), NEW u \in Seq(S)
  PROVE  /\ s \o u \in Seq(S)
         /\ ToSet(s \o u) = ToSet(s) \union ToSet(u)
         /\ \A x, y : Before(s \o u, x, y) <=> Before(s, x, y) \/ Before(u, x, y) \/ (x \in ToSet(s) /\ y \in ToSet(u))
<1> DEFINE c == s \o u
<1>1. /\ c \in Seq(S) /\ Len(c) = Len(s) + Len(u)
      /\ \A i \in 1 .. Len(s) + Len(u) : c[i] = IF i <= Len(s) THEN s[i] ELSE u[i - Len(s)]
  BY ConcatProperties
<1>2. /\ Len(s) \in Nat /\ Len(u) \in Nat /\ DOMAIN s = 1 .. Len(s) /\ DOMAIN u = 1 .. Len(u)
      /\ DOMAIN c = 1 .. Len(s) + Len(u)
  BY <1>1, LenProperties
<1> HIDE DEF c
<1>3. ASSUME NEW i \in DOMAIN s PROVE i \in DOMAIN c /\ c[i] = s[i] /\ i <= Len(s)
  BY <1>1, <1>2
<1>4. ASSUME NEW i \in DOMAIN u PROVE i + Len(s) \in DOMAIN c /\ c[i + Len(s)] = u[i] /\ i + Len(s) > Len(s)
  BY <1>1, <1>2
<1>5. ASSUME NEW i \in DOMAIN c
      PROVE  \/ i \in DOMAIN s /\ c[i] = s[i] /\ i <= Len(s)
             \/ i - Len(s) \in DOMAIN u /\ c[i] = u[i - Len(s)] /\ i > Len(s)
  BY <1>1, <1>2
<1>6. ToSet(c) = ToSet(s) \union ToSet(u)
  BY <1>3, <1>4, <1>5 DEF ToSet
<1>7. ASSUME NEW x, NEW y, Before(c, x, y)
      PROVE  Before(s, x, y) \/ Before(u, x, y) \/ (x \in ToSet(s) /\ y \in ToSet(u))
  <2>1. PICK i, j \in DOMAIN c : i < j /\ c[i] = x /\ c[j] = y
    BY <1>7 DEF Before
  <2>2. CASE j <= Len(s)
    <3>1. i \in DOMAIN s /\ j \in DOMAIN s /\ s[i] = x /\ s[j] = y
      BY <2>1, <2>2, <1>2, <1>5
    <3> QED
      BY <3>1, <2>1 DEF Before
  <2>3. CASE i > Len(s)
    <3>1. /\ i - Len(s) \in DOMAIN u /\ j - Len(s) \in DOMAIN u /\ u[i - Len(s)] = x /\ u[j - Len(s)] = y
          /\ i - Len(s) < j - Len(s)
      BY <2>1, <2>3, <1>2, <1>5
    <3> QED
      BY <3>1 DEF Before
  <2>4. CASE i <= Len(s) /\ j > Len(s)
    <3>1. i \in DOMAIN s /\ s[i] = x /\ j - Len(s) \in DOMAIN u /\ u[j - Len(s)] = y
      BY <2>1, <2>4, <1>2, <1>5
    <3> QED
      BY <3>1 DEF ToSet
  <2> QED
    BY <2>1, <2>2, <2>3, <2>4, <1>2
<1>8. ASSUME NEW x, NEW y, Before(s, x, y) PROVE Before(c, x, y)
  BY <1>8, <1>3 DEF Before
<1>9. ASSUME NEW x, NEW y, Before(u, x, y) PROVE Before(c, x, y)
  <2>1. PICK i, j \in DOMAIN u : i < j /\ u[i] = x /\ u[j] = y
    BY <1>9 DEF Before
  <2>2. i + Len(s) < j + Len(s)
    BY <2>1, <1>2
  <2> QED
    BY <2>1, <2>2, <1>4 DEF Before
<1>10. ASSUME NEW x \in ToSet(s), NEW y \in ToSet(u) PROVE Before(c, x, y)
  <2>1. PICK i \in DOMAIN s : s[i] = x
    BY DEF ToSet
  <2>2. PICK j \in DOMAIN u : u[j] = y
    BY DEF ToSet
  <2>3. i < j + Len(s)
    BY <1>2
  <2> QED
    BY <2>1, <2>2, <2>3, <1>3, <1>4 DEF Before
<1> QED
  BY <1>1, <1>6, <1>7, <1>8, <1>9, <1>10 DEF c

\* No lines, one line and two lines.
LEMMA ShortFacts ==
  ASSUME NEW S, NEW x \in S, NEW y \in S
  PROVE  /\ <<>> \in Seq(S) /\ ToSet(<<>>) = {} /\ \A v, w : ~Before(<<>>, v, w)
         /\ <<x>> \in Seq(S) /\ ToSet(<<x>>) = {x} /\ \A v, w : ~Before(<<x>>, v, w)
         /\ <<x, y>> \in Seq(S) /\ ToSet(<<x, y>>) = {x, y}
         /\ \A v, w : Before(<<x, y>>, v, w) => v = x /\ w = y
<1>1. <<>> \in Seq(S) /\ ToSet(<<>>) = {} /\ \A v, w : ~Before(<<>>, v, w)
  BY DEF ToSet, Before
<1>2. <<x>> \in Seq(S) /\ DOMAIN <<x>> = {1} /\ <<x>>[1] = x
  OBVIOUS
<1>3. ToSet(<<x>>) = {x} /\ \A v, w : ~Before(<<x>>, v, w)
  BY <1>2 DEF ToSet, Before
<1>4. <<x, y>> \in Seq(S) /\ DOMAIN <<x, y>> = {1, 2} /\ <<x, y>>[1] = x /\ <<x, y>>[2] = y
  OBVIOUS
<1>5. ToSet(<<x, y>>) = {x, y}
  BY <1>4 DEF ToSet
<1>6. \A v, w : Before(<<x, y>>, v, w) => v = x /\ w = y
  BY <1>4 DEF Before
<1> QED
  BY <1>1, <1>2, <1>3, <1>4, <1>5, <1>6

LEMMA AppendFacts ==
  ASSUME NEW S, NEW s \in Seq(S), NEW x \in S
  PROVE  /\ Append(s, x) \in Seq(S)
         /\ ToSet(Append(s, x)) = ToSet(s) \union {x}
         /\ \A v, w : Before(Append(s, x), v, w) <=> Before(s, v, w) \/ (v \in ToSet(s) /\ w = x)
<1>1. Append(s, x) = s \o <<x>>
  OBVIOUS
<1>2. <<x>> \in Seq(S) /\ ToSet(<<x>>) = {x} /\ \A v, w : ~Before(<<x>>, v, w)
  BY ShortFacts
<1> QED
  BY <1>1, <1>2, ConcatFacts

\* What was in a pipe is a prefix of what it becomes.
LEMMA PrefixFacts ==
  ASSUME NEW S, NEW s \in Seq(S), NEW e \in S
  PROVE  /\ IsPrefix(s, Append(s, e))
         /\ \A d \in S : IsPrefix(s, Append(Append(s, e), d))
<1>1. \A t \in Seq(S) : Len(t) >= Len(s) /\ (\A i \in 1 .. Len(s) : t[i] = s[i]) => IsPrefix(s, t)
  <2> SUFFICES ASSUME NEW t \in Seq(S), Len(t) >= Len(s), \A i \in 1 .. Len(s) : t[i] = s[i] PROVE IsPrefix(s, t)
    OBVIOUS
  <2>1. SubSeq(s, 1, Len(s)) = SubSeq(t, 1, Len(s)) /\ Len(s) \in Nat /\ Len(t) \in Nat
    OBVIOUS
  <2> QED
    BY <2>1 DEF IsPrefix
<1>2. /\ Append(s, e) \in Seq(S) /\ Len(Append(s, e)) >= Len(s)
      /\ \A i \in 1 .. Len(s) : Append(s, e)[i] = s[i]
  OBVIOUS
<1>3. ASSUME NEW d \in S
      PROVE  /\ Append(Append(s, e), d) \in Seq(S) /\ Len(Append(Append(s, e), d)) >= Len(s)
             /\ \A i \in 1 .. Len(s) : Append(Append(s, e), d)[i] = s[i]
  OBVIOUS
<1> QED
  BY <1>1, <1>2, <1>3

-----------------------------------------------------------------------------
(* Sequences of sequences put end to end. *)

\* The sums of the first sequences.
Sums(seqs, g) == g[0] = <<>> /\ \A i \in 1 .. Len(seqs) : g[i] = g[i - 1] \o seqs[i]

\* If a number has a property then a least one has.
LEMMA LeastFacts ==
  ASSUME NEW T, T \subseteq Nat, T # {}
  PROVE  \E m \in T : \A k \in T : m <= k
<1>1. PICK m \in T : \A k \in T : ~(<<k, m>> \in OpToRel(<, Nat))
  BY WFMin, NatLessThanWellFounded
<1>2. \A k \in T : ~(k < m)
  BY <1>1 DEF OpToRel
<1> QED
  BY <1>2

LEMMA SumsExist ==
  ASSUME NEW S, NEW seqs \in Seq(Seq(S))
  PROVE  \E g \in [0 .. Len(seqs) -> Seq(S)] : Sums(seqs, g)
<1> DEFINE To(n) == \E g \in [0 .. n -> Seq(S)] : g[0] = <<>> /\ \A i \in 1 .. n : g[i] = g[i - 1] \o seqs[i]
           T == {n \in 0 .. Len(seqs) : ~To(n)}
<1>1. Len(seqs) \in Nat /\ \A i \in 1 .. Len(seqs) : seqs[i] \in Seq(S)
  BY ElementOfSeq, LenProperties
<1>2. SUFFICES ASSUME T # {} PROVE FALSE
  <2>1. Len(seqs) \in 0 .. Len(seqs)
    BY <1>1
  <2> HIDE DEF To
  <2>2. To(Len(seqs))
    BY <1>2, <2>1
  <2> QED
    BY <2>2 DEF To, Sums
<1> HIDE DEF To
<1>3. PICK n \in T : \A k \in T : n <= k
  <2>1. T \subseteq Nat
    BY <1>1
  <2> HIDE DEF T
  <2> QED
    BY <1>2, <2>1, LeastFacts
<1>4. CASE n = 0
  <2> DEFINE g == [i \in 0 .. 0 |-> <<>>]
  <2>1. g \in [0 .. 0 -> Seq(S)] /\ g[0] = <<>> /\ \A i \in 1 .. 0 : g[i] = g[i - 1] \o seqs[i]
    OBVIOUS
  <2>2. To(0)
    BY <2>1 DEF To
  <2> QED
    BY <1>3, <1>4, <2>2
<1>5. CASE n # 0
  <2>1. n \in 1 .. Len(seqs) /\ n - 1 \in 0 .. Len(seqs) /\ n - 1 < n /\ n \in Nat
    BY <1>1, <1>3, <1>5
  <2>2. To(n - 1)
    BY <1>3, <2>1
  <2>3. PICK g \in [0 .. n - 1 -> Seq(S)] : g[0] = <<>> /\ \A i \in 1 .. n - 1 : g[i] = g[i - 1] \o seqs[i]
    BY <2>2 DEF To
  <2> DEFINE x == g[n - 1] \o seqs[n]
             h == [i \in 0 .. n |-> IF i = n THEN x ELSE g[i]]
  <2>4. g[n - 1] \in Seq(S) /\ seqs[n] \in Seq(S)
    BY <1>1, <2>1, <2>3
  <2>5. x \in Seq(S)
    BY <2>4
  <2>6. h \in [0 .. n -> Seq(S)]
    <3> HIDE DEF x
    <3>1. \A i \in 0 .. n : i # n => i \in 0 .. n - 1
      BY <2>1
    <3> QED
      BY <2>3, <2>5, <3>1
  <2>7. h[0] = <<>> /\ h[n] = g[n - 1] \o seqs[n]
    <3>1. 0 \in 0 .. n /\ n \in 0 .. n /\ 0 # n
      BY <2>1
    <3> QED
      BY <2>3, <3>1
  <2>8. \A i \in 1 .. n - 1 : h[i] = g[i] /\ h[i - 1] = g[i - 1]
    BY <2>1
  <2> HIDE DEF h
  <2>9. \A i \in 1 .. n : h[i] = h[i - 1] \o seqs[i]
    <3> SUFFICES ASSUME NEW i \in 1 .. n PROVE h[i] = h[i - 1] \o seqs[i]
      OBVIOUS
    <3>1. CASE i = n
      <4>1. h[n - 1] = g[n - 1]
        <5>1. n - 1 \in 0 .. n /\ n - 1 # n
          BY <2>1
        <5> QED
          BY <5>1 DEF h
      <4> QED
        BY <2>7, <3>1, <4>1
    <3>2. CASE i # n
      <4>1. i \in 1 .. n - 1
        BY <2>1, <3>2
      <4> QED
        BY <2>3, <2>8, <4>1
    <3> QED
      BY <3>1, <3>2
  <2>10. To(n)
    BY <2>6, <2>7, <2>9 DEF To
  <2> QED
    BY <1>3, <2>10
<1> QED
  BY <1>4, <1>5

\* The last of them is what the library calls the flattened sequence.
LEMMA FlatFacts ==
  ASSUME NEW S, NEW seqs \in Seq(Seq(S)), NEW g \in [0 .. Len(seqs) -> Seq(S)], Sums(seqs, g)
  PROVE  FlattenSeq(seqs) = g[Len(seqs)]
<1> DEFINE n == Len(seqs)
           Def(f) == [i \in 1 .. n |-> IF i = 1 THEN seqs[i] ELSE f[i - 1] \o seqs[i]]
           flatten == CHOOSE f : f = Def(f)
<1>1. n \in Nat /\ \A i \in 1 .. n : seqs[i] \in Seq(S)
  BY ElementOfSeq, LenProperties
<1>2. /\ g[0] = <<>>
      /\ \A i \in 1 .. n : g[i] = g[i - 1] \o seqs[i]
  BY DEF Sums
<1>5. ASSUME NEW i \in 1 .. n
      PROVE  g[i] = IF i = 1 THEN seqs[i] ELSE g[i - 1] \o seqs[i]
  <2> HIDE DEF n
  <2>1. g[i] = g[i - 1] \o seqs[i] /\ seqs[i] \in Seq(S)
    BY <1>1, <1>2
  <2>2. CASE i = 1
    <3>1. i - 1 = 0
      BY <2>2
    <3>2. g[i] = <<>> \o seqs[i]
      BY <1>2, <2>1, <3>1
    <3>3. <<>> \o seqs[i] = seqs[i]
      BY <2>1
    <3> QED
      BY <2>2, <3>2, <3>3
  <2> QED
    BY <2>1, <2>2
<1>4. CASE n = 0
  <2>1. FlattenSeq(seqs) = seqs
    BY <1>4 DEF FlattenSeq
  <2>2. seqs = <<>>
    BY <1>4, EmptySeq
  <2> QED
    BY <1>2, <1>4, <2>1, <2>2
<1>3. CASE n # 0
  <2>1. FlattenSeq(seqs) = flatten[n]
    BY <1>3 DEF FlattenSeq
  <2> DEFINE h == [i \in 1 .. n |-> g[i]]
  <2>2. h = Def(h)
    <3>1. ASSUME NEW i \in 1 .. n PROVE h[i] = IF i = 1 THEN seqs[i] ELSE h[i - 1] \o seqs[i]
      <4>1. h[i] = g[i]
        OBVIOUS
      <4>2. CASE i # 1
        <5>1. i - 1 \in 1 .. n
          BY <1>1, <4>2
        <5>2. h[i - 1] = g[i - 1]
          BY <5>1
        <5> HIDE DEF h
        <5> QED
          BY <1>5, <4>1, <4>2, <5>2
      <4> HIDE DEF h
      <4> QED
        BY <1>5, <4>1, <4>2
    <3>2. DOMAIN h = 1 .. n
      OBVIOUS
    <3>3. h = [i \in 1 .. n |-> h[i]]
      OBVIOUS
    <3> HIDE DEF h
    <3> QED
      BY <3>1, <3>2, <3>3
  <2>3. flatten = Def(flatten)
    <3> HIDE DEF h
    <3> QED
      BY <2>2
  <2> HIDE DEF flatten, h
  <2>4. ASSUME NEW i \in 1 .. n PROVE flatten[i] = IF i = 1 THEN seqs[i] ELSE flatten[i - 1] \o seqs[i]
    BY <2>3
  <2> DEFINE T == {i \in 1 .. n : flatten[i] # g[i]}
  <2>6. T = {}
    <3> SUFFICES ASSUME T # {} PROVE FALSE
      OBVIOUS
    <3>1. PICK m \in T : \A k \in T : m <= k
      <4>1. T \subseteq Nat
        BY <1>1
      <4> HIDE DEF T
      <4> QED
        BY <4>1, LeastFacts
    <3>2. m \in 1 .. n /\ flatten[m] # g[m]
      BY <3>1
    <3>3. m # 1
      BY <1>5, <2>4, <3>2
    <3>4. m - 1 \in 1 .. n /\ m - 1 < m
      BY <1>1, <3>2, <3>3
    <3>5. flatten[m - 1] = g[m - 1]
      <4>1. m - 1 \notin T
        <5> HIDE DEF T
        <5>1. m \in Nat /\ m - 1 \in Nat
          BY <1>1, <3>2, <3>4
        <5> QED
          BY <3>1, <3>4, <5>1
      <4> QED
        BY <3>4, <4>1
    <3> QED
      BY <1>5, <2>4, <3>2, <3>3, <3>5
  <2>7. n \in 1 .. n
    BY <1>1, <1>3
  <2> QED
    BY <2>1, <2>6, <2>7
<1> QED
  BY <1>3, <1>4
=============================================================================
