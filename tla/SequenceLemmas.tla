--------------------------- MODULE SequenceLemmas ----------------------------
(***************************************************************************)
(* Facts about channels and buffers, which are sequences in these models:  *)
(* what is in them, when they are in order, and what recursive functions   *)
(* over them are.                                                          *)
(***************************************************************************)
EXTENDS Naturals, Sequences, SequencesExt, SequenceTheorems, WellFoundedInduction, TLAPS

\* A sequence over a set is one over every larger set.
LEMMA SeqWider ==
  ASSUME NEW S, NEW T, S \subseteq T, NEW a \in Seq(S)
  PROVE  a \in Seq(T)
<1>1. Len(a) \in Nat /\ a = [i \in 1 .. Len(a) |-> a[i]] /\ \A i \in 1 .. Len(a) : a[i] \in T
  OBVIOUS
<1> QED
  BY <1>1

\* What is in a concatenation is in one of its parts.
LEMMA ContainsConcat ==
  ASSUME NEW S, NEW a \in Seq(S), NEW b \in Seq(S), NEW n
  PROVE  Contains(a \o b, n) <=> Contains(a, n) \/ Contains(b, n)
<1>1. ASSUME Contains(a, n) PROVE Contains(a \o b, n)
  <2>1. PICK i \in 1 .. Len(a) : a[i] = n
    BY <1>1 DEF Contains
  <2>2. i \in 1 .. Len(a \o b) /\ (a \o b)[i] = n
    BY <2>1
  <2> QED
    BY <2>2 DEF Contains
<1>2. ASSUME Contains(b, n) PROVE Contains(a \o b, n)
  <2>1. PICK i \in 1 .. Len(b) : b[i] = n
    BY <1>2 DEF Contains
  <2>2. i + Len(a) \in 1 .. Len(a \o b) /\ (a \o b)[i + Len(a)] = n
    BY <2>1
  <2> QED
    BY <2>2 DEF Contains
<1>3. ASSUME Contains(a \o b, n) PROVE Contains(a, n) \/ Contains(b, n)
  <2>1. PICK i \in 1 .. Len(a \o b) : (a \o b)[i] = n
    BY <1>3 DEF Contains
  <2>2. CASE i <= Len(a)
    BY <2>1, <2>2 DEF Contains
  <2>3. CASE i > Len(a)
    <3>1. i - Len(a) \in 1 .. Len(b) /\ b[i - Len(a)] = n
      BY <2>1, <2>3
    <3> QED
      BY <3>1 DEF Contains
  <2> QED
    BY <2>1, <2>2, <2>3
<1> QED
  BY <1>1, <1>2, <1>3

\* What is in an extended sequence was there before or is the last element.
LEMMA ContainsAppend ==
  ASSUME NEW S, NEW a \in Seq(S), NEW e \in S, NEW n
  PROVE  Contains(Append(a, e), n) <=> Contains(a, n) \/ n = e
<1>1. Append(a, e) = a \o <<e>> /\ <<e>> \in Seq(S)
  OBVIOUS
<1>2. Contains(<<e>>, n) <=> n = e
  BY DEF Contains
<1>3. Contains(a \o <<e>>, n) <=> Contains(a, n) \/ Contains(<<e>>, n)
  BY <1>1, ContainsConcat
<1> QED
  BY <1>1, <1>2, <1>3

\* Taking the head leaves everything else in the sequence.
LEMMA ContainsTail ==
  ASSUME NEW S, NEW a \in Seq(S), a # <<>>, NEW n
  PROVE  /\ Contains(a, n) => n = Head(a) \/ Contains(Tail(a), n)
         /\ Contains(Tail(a), n) => Contains(a, n)
<1>1. /\ Len(Tail(a)) = Len(a) - 1 /\ Len(a) \in Nat \ {0}
      /\ \A i \in 1 .. (Len(a) - 1) : Tail(a)[i] = a[i + 1]
      /\ Head(a) = a[1]
  OBVIOUS
<1>2. ASSUME Contains(a, n), n # Head(a) PROVE Contains(Tail(a), n)
  <2>1. PICK i \in 1 .. Len(a) : a[i] = n
    BY <1>2 DEF Contains
  <2>2. i - 1 \in 1 .. Len(Tail(a)) /\ Tail(a)[i - 1] = n
    BY <1>1, <1>2, <2>1
  <2> QED
    BY <2>2 DEF Contains
<1>3. ASSUME Contains(Tail(a), n) PROVE Contains(a, n)
  <2>1. PICK i \in 1 .. Len(Tail(a)) : Tail(a)[i] = n
    BY <1>3 DEF Contains
  <2>2. i + 1 \in 1 .. Len(a) /\ a[i + 1] = n
    BY <1>1, <2>1
  <2> QED
    BY <2>2 DEF Contains
<1> QED
  BY <1>2, <1>3

Ascending(a) == \A i, j \in DOMAIN a : i < j => a[i] < a[j]
Below(a, b) == \A i \in DOMAIN a : \A j \in DOMAIN b : a[i] < b[j]
UpTo(a, n) == \A i \in DOMAIN a : a[i] <= n

\* Two ascending sequences, the one below the other, make an ascending one.
LEMMA AscendingConcat ==
  ASSUME NEW a \in Seq(Nat), NEW b \in Seq(Nat), Ascending(a), Ascending(b), Below(a, b)
  PROVE  Ascending(a \o b)
<1> SUFFICES ASSUME NEW i \in 1 .. Len(a \o b), NEW j \in 1 .. Len(a \o b), i < j
             PROVE  (a \o b)[i] < (a \o b)[j]
  BY DEF Ascending
<1>1. CASE j <= Len(a)
  BY <1>1 DEF Ascending
<1>2. CASE i > Len(a)
  <2>1. (a \o b)[i] = b[i - Len(a)] /\ (a \o b)[j] = b[j - Len(a)]
    BY <1>2
  <2> QED
    BY <1>2, <2>1 DEF Ascending
<1>3. CASE i <= Len(a) /\ j > Len(a)
  <2>1. (a \o b)[i] = a[i] /\ (a \o b)[j] = b[j - Len(a)]
    BY <1>3
  <2> QED
    BY <1>3, <2>1 DEF Below
<1> QED
  BY <1>1, <1>2, <1>3

\* The same for a single element at the end.
LEMMA AscendingAppend ==
  ASSUME NEW a \in Seq(Nat), NEW n \in Nat, Ascending(a), UpTo(a, n - 1)
  PROVE  Ascending(Append(a, n)) /\ UpTo(Append(a, n), n)
BY DEF Ascending, UpTo

\* What is below a sequence and a later number is below the extended sequence.
LEMMA BelowAppend ==
  ASSUME NEW a \in Seq(Nat), NEW b \in Seq(Nat), NEW n \in Nat, Below(a, b), UpTo(a, n - 1)
  PROVE  Below(a, Append(b, n))
<1> SUFFICES ASSUME NEW i \in DOMAIN a, NEW j \in DOMAIN Append(b, n)
             PROVE  a[i] < Append(b, n)[j]
  BY DEF Below
<1>1. a[i] \in Nat /\ a[i] <= n - 1
  BY DEF UpTo
<1>2. CASE j \in DOMAIN b
  <2>1. Append(b, n)[j] = b[j]
    BY <1>2
  <2> QED
    BY <1>2, <2>1 DEF Below
<1>3. CASE j \notin DOMAIN b
  <2>1. Append(b, n)[j] = n
    BY <1>3
  <2> QED
    BY <1>1, <2>1
<1> QED
  BY <1>2, <1>3

\* Bounds and comparisons of a concatenation are those of its parts.
LEMMA BoundConcat ==
  ASSUME NEW a \in Seq(Nat), NEW b \in Seq(Nat), NEW c \in Seq(Nat), NEW n \in Nat
  PROVE  /\ UpTo(a, n) /\ UpTo(b, n) => UpTo(a \o b, n)
         /\ Below(a, c) /\ Below(b, c) => Below(a \o b, c)
<1>1. \A i \in DOMAIN (a \o b) :
         (\E j \in DOMAIN a : (a \o b)[i] = a[j]) \/ (\E j \in DOMAIN b : (a \o b)[i] = b[j])
  <2> TAKE i \in DOMAIN (a \o b)
  <2>1. CASE i <= Len(a)
    <3>1. i \in DOMAIN a /\ (a \o b)[i] = a[i]
      BY <2>1
    <3> QED
      BY <3>1
  <2>2. CASE i > Len(a)
    <3>1. i - Len(a) \in DOMAIN b /\ (a \o b)[i] = b[i - Len(a)]
      BY <2>2
    <3> QED
      BY <3>1
  <2> QED
    BY <2>1, <2>2
<1> QED
  BY <1>1 DEF UpTo, Below

\* When a sequence is the concatenation of two.
LEMMA IsConcat ==
  ASSUME NEW S, NEW a \in Seq(S), NEW b \in Seq(S), NEW c \in Seq(S),
         Len(c) = Len(a) + Len(b),
         \A i \in 1 .. Len(a) : c[i] = a[i],
         \A i \in 1 .. Len(b) : c[Len(a) + i] = b[i]
  PROVE  c = a \o b
<1>1. a \o b \in Seq(S) /\ Len(a \o b) = Len(c)
  OBVIOUS
<1>2. ASSUME NEW i \in 1 .. Len(c) PROVE c[i] = (a \o b)[i]
  <2>1. CASE i <= Len(a)
    BY <2>1
  <2>2. CASE i > Len(a)
    <3>1. i - Len(a) \in 1 .. Len(b) /\ Len(a) + (i - Len(a)) = i
      BY <2>2
    <3> QED
      BY <2>2, <3>1
  <2> QED
    BY <2>1, <2>2
<1> QED
  BY <1>1, <1>2, SeqEqual

\* The front of a concatenation and the rest of it.
LEMMA SplitConcat ==
  ASSUME NEW S, NEW a \in Seq(S), NEW b \in Seq(S)
  PROVE  SubSeq(a \o b, 1, Len(a)) = a /\ SubSeq(a \o b, Len(a) + 1, Len(a \o b)) = b
OBVIOUS

\* A channel is its head and the rest.
LEMMA HeadAndTail ==
  ASSUME NEW S, NEW a \in Seq(S), a # <<>>
  PROVE  a = <<Head(a)>> \o Tail(a) /\ Head(a) \in S /\ Tail(a) \in Seq(S)
OBVIOUS

\* Two elements one after the other.
LEMMA PairOf ==
  ASSUME NEW S, NEW a \in S, NEW b \in S
  PROVE  <<a, b>> \in Seq(S) /\ Append(<<a>>, b) = <<a, b>>
<1>1. <<a>> \in Seq(S) /\ Len(<<a>>) = 1 /\ <<a>>[1] = a
  OBVIOUS
<1>2. Append(<<a>>, b) \in Seq(S) /\ Len(Append(<<a>>, b)) = 2 /\ Append(<<a>>, b)[1] = a /\ Append(<<a>>, b)[2] = b
  BY <1>1
<1>3. Append(<<a>>, b) = [i \in 1 .. 2 |-> Append(<<a>>, b)[i]]
  BY <1>2
<1>4. <<a, b>> = [i \in 1 .. 2 |-> <<a, b>>[i]] /\ <<a, b>>[1] = a /\ <<a, b>>[2] = b
  OBVIOUS
<1>5. \A i \in 1 .. 2 : i = 1 \/ i = 2
  OBVIOUS
<1> QED
  BY <1>2, <1>3, <1>4, <1>5

------------------------------------------------------------------------------
(* Induction and recursion over the numbers.  Sets and functions stand for the*)
(* predicates and operators of the usual statements.                         *)

\* Every nonempty set of numbers has a least element.
LEMMA LeastOf ==
  ASSUME NEW T \in SUBSET Nat, T # {}
  PROVE  \E n \in T : \A m \in T : n <= m
<1> DEFINE R == OpToRel(<, Nat)
<1>1. IsWellFoundedOn(R, Nat)
  BY NatLessThanWellFounded
<1>2. \A x, y \in Nat : <<x, y>> \in R <=> x < y
  BY DEF OpToRel
<1> HIDE DEF R
<1>3. PICK n \in T : \A m \in T : ~(<<m, n>> \in R)
  BY <1>1, WFMin
<1>4. \A m \in T : ~(m < n)
  BY <1>2, <1>3
<1> QED
  BY <1>4

\* Induction over the numbers, for a set instead of a predicate.
LEMMA Induction ==
  ASSUME NEW T, 0 \in T, \A n \in Nat : n \in T => n + 1 \in T
  PROVE  \A n \in Nat : n \in T
<1> SUFFICES ASSUME Nat \ T # {} PROVE FALSE
  OBVIOUS
<1>1. PICK n \in Nat \ T : \A m \in Nat \ T : n <= m
  BY LeastOf
<1>2. n # 0 /\ n - 1 \in Nat /\ n - 1 \in T
  BY <1>1
<1> QED
  BY <1>1, <1>2

\* The first n values of a sequence defined by recursion.
StartOf(n, base, step, S, g) ==
  /\ g \in [0 .. n -> S]
  /\ g[0] = base
  /\ \A i \in 0 .. n - 1 : g[i + 1] = step[i][g[i]]

Iterates(f, base, step) == f[0] = base /\ \A n \in Nat : f[n + 1] = step[n][f[n]]

\* Definition by recursion: a first value and a step give a function.
LEMMA Recursion ==
  ASSUME NEW S, NEW base \in S, NEW step \in [Nat -> [S -> S]]
  PROVE  \E f \in [Nat -> S] : Iterates(f, base, step)
<1> DEFINE Q(n, g) == StartOf(n, base, step, S, g)
           T == {n \in Nat : \E g : Q(n, g)}
<1>1. 0 \in T
  <2>1. Q(0, [i \in 0 .. 0 |-> base])
    BY DEF StartOf
  <2> QED
    BY <2>1
<1>2. ASSUME NEW n \in Nat, n \in T PROVE n + 1 \in T
  <2>1. PICK g : Q(n, g)
    BY <1>2
  <2> DEFINE h == [i \in 0 .. n + 1 |-> IF i <= n THEN g[i] ELSE step[n][g[n]]]
  <2>2. g[n] \in S /\ step[n][g[n]] \in S
    BY <2>1 DEF StartOf
  <2>3. h \in [0 .. n + 1 -> S]
    BY <2>1, <2>2 DEF StartOf
  <2>4. h[0] = base
    BY <2>1 DEF StartOf
  <2>5. ASSUME NEW i \in 0 .. (n + 1) - 1 PROVE h[i + 1] = step[i][h[i]]
    BY <2>1 DEF StartOf
  <2> HIDE DEF h
  <2>6. Q(n + 1, h)
    BY <2>3, <2>4, <2>5 DEF StartOf
  <2> QED
    BY <2>6
<1>3. \A n \in Nat : n \in T
  <2> HIDE DEF T
  <2> QED
    BY <1>1, <1>2, Induction
<1>4. ASSUME NEW n \in Nat, NEW m \in Nat, NEW g, NEW h, Q(n, g), Q(m, h)
      PROVE  \A i \in Nat : i <= n /\ i <= m => g[i] = h[i]
  <2> DEFINE U == {i \in Nat : i <= n /\ i <= m => g[i] = h[i]}
  <2>1. 0 \in U
    BY <1>4 DEF StartOf
  <2>2. ASSUME NEW i \in Nat, i \in U PROVE i + 1 \in U
    <3> SUFFICES ASSUME i + 1 <= n, i + 1 <= m PROVE g[i + 1] = h[i + 1]
      BY i + 1 \in Nat
    <3>1. g[i] = h[i] /\ i \in 0 .. n - 1 /\ i \in 0 .. m - 1
      BY <2>2
    <3>2. g[i + 1] = step[i][g[i]] /\ h[i + 1] = step[i][h[i]]
      BY <1>4, <3>1 DEF StartOf
    <3> QED
      BY <3>1, <3>2
  <2>3. \A i \in Nat : i \in U
    <3> HIDE DEF U
    <3> QED
      BY <2>1, <2>2, Induction
  <2> QED
    BY <2>3
<1> DEFINE G(n) == CHOOSE g : Q(n, g)
           f == [n \in Nat |-> G(n)[n]]
<1>5. ASSUME NEW n \in Nat PROVE Q(n, G(n))
  BY <1>3
<1> HIDE DEF G
<1>6. ASSUME NEW n \in Nat PROVE f[n] \in S
  BY <1>5 DEF StartOf
<1>7. f[0] = base
  BY <1>5 DEF StartOf
<1>8. ASSUME NEW n \in Nat PROVE f[n + 1] = step[n][f[n]]
  <2>1. G(n + 1)[n + 1] = step[n][G(n + 1)[n]]
    BY <1>5, n + 1 \in Nat DEF StartOf
  <2>2. G(n + 1)[n] = G(n)[n]
    <3> HIDE DEF Q
    <3> QED
      BY <1>4, <1>5, n + 1 \in Nat
  <2> QED
    BY <2>1, <2>2
<1>9. f \in [Nat -> S]
  BY <1>6
<1> HIDE DEF f
<1> QED
  BY <1>7, <1>8, <1>9 DEF Iterates

------------------------------------------------------------------------------
(* FlattenSeq.                                                               *)

\* The sequences that a flattening of a goes through.
Flattening(f, a, S) ==
  /\ f \in [0 .. Len(a) -> Seq(S)]
  /\ f[0] = <<>>
  /\ \A i \in 1 .. Len(a) : f[i] = f[i - 1] \o a[i]

LEMMA FlatteningExists ==
  ASSUME NEW S, NEW a \in Seq(Seq(S))
  PROVE  \E f : Flattening(f, a, S)
<1> DEFINE step == [n \in Nat |-> [s \in Seq(S) |-> IF n + 1 <= Len(a) THEN s \o a[n + 1] ELSE s]]
<1>1. step \in [Nat -> [Seq(S) -> Seq(S)]]
  <2> SUFFICES ASSUME NEW n \in Nat, NEW s \in Seq(S), n + 1 <= Len(a)
               PROVE  s \o a[n + 1] \in Seq(S)
    OBVIOUS
  <2>1. a[n + 1] \in Seq(S)
    OBVIOUS
  <2> QED
    BY <2>1
<1>2. \A n \in Nat, s \in Seq(S) :
        step[n][s] = IF n + 1 <= Len(a) THEN s \o a[n + 1] ELSE s
  OBVIOUS
<1>3. <<>> \in Seq(S)
  OBVIOUS
<1> HIDE DEF step
<1>4. PICK f \in [Nat -> Seq(S)] : f[0] = <<>> /\ \A n \in Nat : f[n + 1] = step[n][f[n]]
  <2> DEFINE X == Seq(S)
             e == <<>>
  <2>1. e \in X /\ step \in [Nat -> [X -> X]]
    BY <1>1, <1>3
  <2> HIDE DEF X, e
  <2>2. \E f \in [Nat -> X] : Iterates(f, e, step)
    BY <2>1, Recursion
  <2> QED
    BY <2>2 DEF X, e, Iterates
<1> DEFINE g == [i \in 0 .. Len(a) |-> f[i]]
<1>5. ASSUME NEW i \in 1 .. Len(a) PROVE f[i] = f[i - 1] \o a[i]
  <2>1. i - 1 \in Nat /\ (i - 1) + 1 = i
    OBVIOUS
  <2>2. f[i] = step[i - 1][f[i - 1]]
    BY <1>4, <2>1
  <2>3. f[i - 1] \in Seq(S) /\ (i - 1) + 1 <= Len(a)
    BY <1>4, <2>1
  <2>4. step[i - 1][f[i - 1]] = f[i - 1] \o a[(i - 1) + 1]
    BY <1>2, <2>1, <2>3
  <2> QED
    BY <2>1, <2>2, <2>4
<1>6. Flattening(g, a, S)
  <2>1. \A i \in 1 .. Len(a) : i - 1 \in 0 .. Len(a) /\ i \in 0 .. Len(a)
    OBVIOUS
  <2>2. 0 \in 0 .. Len(a) /\ \A i \in 0 .. Len(a) : i \in Nat
    OBVIOUS
  <2> QED
    BY <1>4, <1>5, <2>1, <2>2 DEF Flattening
<1> QED
  BY <1>6

\* There is no choice in it.
LEMMA FlattenIs ==
  ASSUME NEW S, NEW a \in Seq(Seq(S)), NEW f, Flattening(f, a, S)
  PROVE  FlattenSeq(a) = f[Len(a)]
<1>1. CASE a = <<>>
  BY <1>1 DEF FlattenSeq, Flattening
<1>2. CASE a # <<>>
  <2> DEFINE Eqn(h) == h = [i \in 1 .. Len(a) |-> IF i = 1 THEN a[i] ELSE h[i - 1] \o a[i]]
             h0 == [i \in 1 .. Len(a) |-> f[i]]
             flatten == CHOOSE h : Eqn(h)
  <2>1. Len(a) \in Nat /\ Len(a) # 0
    BY <1>2
  <2>2. ASSUME NEW i \in 1 .. Len(a)
        PROVE  f[i] = IF i = 1 THEN a[i] ELSE h0[i - 1] \o a[i]
    <3>1. f[i] = f[i - 1] \o a[i] /\ f[0] = <<>>
      BY DEF Flattening
    <3>2. CASE i = 1
      <4>1. a[i] \in Seq(S)
        OBVIOUS
      <4>2. <<>> \o a[i] = a[i]
        BY <4>1
      <4>3. f[i - 1] = <<>>
        BY <3>1, <3>2
      <4>4. f[i] = a[i]
        BY <3>1, <4>2, <4>3
      <4> QED
        BY <3>2, <4>4
    <3>3. CASE i # 1
      <4>1. i - 1 \in 1 .. Len(a)
        BY <3>3
      <4>2. h0[i - 1] = f[i - 1]
        BY <4>1
      <4> QED
        BY <3>1, <3>3, <4>2
    <3> QED
      BY <3>2, <3>3
  <2>3. Eqn(h0)
    BY <2>2
  <2>4. Eqn(flatten)
    <3> HIDE DEF h0, Eqn
    <3> QED
      BY <2>3
  <2>5. FlattenSeq(a) = flatten[Len(a)]
    BY <2>1 DEF FlattenSeq
  <2> HIDE DEF flatten
  <2> DEFINE T == {n \in Nat : n + 1 <= Len(a) => flatten[n + 1] = f[n + 1]}
  <2>6. 0 \in T
    <3>1. flatten[1] = a[1]
      BY <2>1, <2>4
    <3>2. f[1] = a[1]
      <4>1. 1 \in 1 .. Len(a)
        BY <2>1
      <4> HIDE DEF h0
      <4> QED
        BY <2>2, <4>1
    <3> QED
      BY <2>1, <3>1, <3>2
  <2>7. ASSUME NEW n \in Nat, n \in T PROVE n + 1 \in T
    <3> SUFFICES ASSUME (n + 1) + 1 <= Len(a) PROVE flatten[(n + 1) + 1] = f[(n + 1) + 1]
      OBVIOUS
    <3> DEFINE i == (n + 1) + 1
    <3>1. i \in 1 .. Len(a) /\ i # 1 /\ i - 1 = n + 1 /\ n + 1 \in 1 .. Len(a)
      BY <2>1
    <3>2. flatten[n + 1] = f[n + 1]
      BY <2>1, <2>7
    <3>3. flatten[i] = flatten[i - 1] \o a[i]
      BY <2>4, <3>1
    <3>4. f[i] = h0[i - 1] \o a[i] /\ h0[n + 1] = f[n + 1]
      BY <2>2, <3>1
    <3> QED
      BY <3>1, <3>2, <3>3, <3>4
  <2>8. \A n \in Nat : n \in T
    <3> HIDE DEF T
    <3> QED
      BY <2>6, <2>7, Induction
  <2>9. Len(a) - 1 \in Nat /\ (Len(a) - 1) + 1 = Len(a) /\ Len(a) <= Len(a)
    BY <2>1
  <2>10. flatten[Len(a)] = f[Len(a)]
    BY <2>8, <2>9
  <2> QED
    BY <2>5, <2>10
<1> QED
  BY <1>1, <1>2

\* Flattening gives a sequence; nothing for nothing.
LEMMA FlattenType ==
  ASSUME NEW S, NEW a \in Seq(Seq(S))
  PROVE  FlattenSeq(a) \in Seq(S)
<1>1. PICK f : Flattening(f, a, S)
  BY FlatteningExists
<1>2. Len(a) \in 0 .. Len(a)
  OBVIOUS
<1>3. f[Len(a)] \in Seq(S)
  BY <1>1, <1>2 DEF Flattening
<1> QED
  BY <1>1, <1>3, FlattenIs

LEMMA FlattenEmpty == FlattenSeq(<<>>) = <<>>
BY DEF FlattenSeq

\* The last sequence comes last.
LEMMA FlattenAppend ==
  ASSUME NEW S, NEW a \in Seq(Seq(S)), NEW x \in Seq(S)
  PROVE  FlattenSeq(Append(a, x)) = FlattenSeq(a) \o x
<1> DEFINE b == Append(a, x)
<1>1. /\ b \in Seq(Seq(S)) /\ Len(b) = Len(a) + 1 /\ b[Len(a) + 1] = x /\ Len(a) \in Nat
      /\ \A i \in 1 .. Len(a) : b[i] = a[i]
  OBVIOUS
<1> HIDE DEF b
<1>2. PICK f : Flattening(f, b, S)
  BY <1>1, FlatteningExists
<1> DEFINE g == [i \in 0 .. Len(a) |-> f[i]]
<1>3. Flattening(g, a, S)
  <2>1. g \in [0 .. Len(a) -> Seq(S)]
    BY <1>1, <1>2 DEF Flattening
  <2>2. g[0] = <<>>
    BY <1>1, <1>2 DEF Flattening
  <2>3. ASSUME NEW i \in 1 .. Len(a) PROVE g[i] = g[i - 1] \o a[i]
    <3>1. i \in 1 .. Len(b) /\ i \in 0 .. Len(a) /\ i - 1 \in 0 .. Len(a)
      BY <1>1
    <3>2. f[i] = f[i - 1] \o b[i] /\ b[i] = a[i]
      BY <1>1, <1>2, <3>1 DEF Flattening
    <3> QED
      BY <3>1, <3>2
  <2> HIDE DEF g
  <2> QED
    BY <2>1, <2>2, <2>3 DEF Flattening
<1>4. FlattenSeq(a) = g[Len(a)]
  BY <1>3, FlattenIs
<1>5. FlattenSeq(b) = f[Len(a) + 1]
  BY <1>1, <1>2, FlattenIs
<1>6. f[Len(a) + 1] = f[Len(a)] \o x
  <2>1. Len(a) + 1 \in 1 .. Len(b) /\ (Len(a) + 1) - 1 = Len(a)
    BY <1>1
  <2> QED
    BY <1>1, <1>2, <2>1 DEF Flattening
<1>7. g[Len(a)] = f[Len(a)]
  BY <1>1
<1> HIDE DEF g
<1> QED
  BY <1>4, <1>5, <1>6, <1>7 DEF b

LEMMA FlattenSingle ==
  ASSUME NEW S, NEW x \in Seq(S)
  PROVE  FlattenSeq(<<x>>) = x
BY DEF FlattenSeq

\* Flattening commutes with concatenation.
LEMMA FlattenConcat ==
  ASSUME NEW S, NEW a \in Seq(Seq(S)), NEW b \in Seq(Seq(S))
  PROVE  FlattenSeq(a \o b) = FlattenSeq(a) \o FlattenSeq(b)
<1> DEFINE B(n) == SubSeq(b, 1, n)
           Both(n) == FlattenSeq(a \o B(n)) = FlattenSeq(a) \o FlattenSeq(B(n))
           T == {n \in Nat : n <= Len(b) => Both(n)}
<1>1. Both(0)
  <2>1. B(0) = <<>> /\ a \o B(0) = a
    OBVIOUS
  <2>2. FlattenSeq(a) \in Seq(S)
    BY FlattenType
  <2>3. FlattenSeq(a) \o <<>> = FlattenSeq(a)
    BY <2>2
  <2> QED
    BY <2>1, <2>3, FlattenEmpty
<1>2. ASSUME NEW n \in Nat, n + 1 <= Len(b), Both(n) PROVE Both(n + 1)
  <2> DEFINE x == b[n + 1]
             c == B(n)
  <2>1. c \in Seq(Seq(S)) /\ B(n + 1) = Append(c, x)
    BY <1>2
  <2>2. x \in Seq(S)
    BY <1>2
  <2>3. FlattenSeq(a \o c) = FlattenSeq(a) \o FlattenSeq(c)
    BY <1>2
  <2> HIDE DEF B, c, x
  <2>4. a \o Append(c, x) = Append(a \o c, x) /\ a \o c \in Seq(Seq(S))
    BY <2>1, <2>2
  <2>5. FlattenSeq(Append(a \o c, x)) = FlattenSeq(a \o c) \o x
    BY <2>2, <2>4, FlattenAppend
  <2>6. FlattenSeq(Append(c, x)) = FlattenSeq(c) \o x
    BY <2>1, <2>2, FlattenAppend
  <2>7. FlattenSeq(a) \in Seq(S) /\ FlattenSeq(c) \in Seq(S)
    BY <2>1, FlattenType
  <2>8. (FlattenSeq(a) \o FlattenSeq(c)) \o x = FlattenSeq(a) \o (FlattenSeq(c) \o x)
    BY <2>2, <2>7, ConcatAssociative
  <2> QED
    BY <2>1, <2>3, <2>4, <2>5, <2>6, <2>8
<1> HIDE DEF Both
<1>3. \A n \in Nat : n \in T
  <2>1. 0 \in T
    BY <1>1
  <2>2. ASSUME NEW n \in Nat, n \in T PROVE n + 1 \in T
    BY <1>2, <2>2
  <2> HIDE DEF T
  <2> QED
    BY <2>1, <2>2, Induction
<1>4. Len(b) \in Nat /\ B(Len(b)) = b /\ Len(b) <= Len(b)
  OBVIOUS
<1>5. Both(Len(b))
  BY <1>3, <1>4
<1> HIDE DEF B
<1> QED
  BY <1>4, <1>5 DEF Both
==============================================================================
