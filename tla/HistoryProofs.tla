---------------------------- MODULE HistoryProofs ----------------------------
(***************************************************************************)
(* Theorems about History, for any finite set of files, any length of a day*)
(* and any times of queries: what GetDaysDiffer returns, what a walk has   *)
(* found so far, and what the reply holds.                                 *)
(***************************************************************************)
EXTENDS History, SequenceLemmas, FiniteSetTheorems

------------------------------------------------------------------------------
(* Days.                                                                     *)

\* The day of a time is a number, and the day after is DayLength later.
LEMMA DayOfTime ==
  ASSUME NEW t \in Nat
  PROVE  Day(t) \in Nat /\ Day(t + DayLength) = Day(t) + 1 /\ DayLength \in Nat \ {0}
<1>1. DayLength \in Nat \ {0}
  BY HistoryAssumption
<1>2. t \div DayLength \in Nat
  BY <1>1
<1>3. (t + DayLength) \div DayLength = t \div DayLength + 1
  BY <1>1
<1> QED
  BY <1>1, <1>2, <1>3 DEF Day

\* A later time has no earlier day.
LEMMA DayGrows ==
  ASSUME NEW t \in Nat, NEW u \in Nat, t <= u
  PROVE  Day(t) <= Day(u)
<1>1. DayLength \in Nat \ {0}
  BY HistoryAssumption
<1>2. t \div DayLength <= u \div DayLength
  BY <1>1
<1> QED
  BY <1>2 DEF Day

\* The days from d to e.
DaysOf(d, e) == [i \in 1 .. e - d + 1 |-> d + i - 1]

\* They are a sequence, and the first of them can be taken apart.
LEMMA FirstOfDays ==
  ASSUME NEW d \in Nat, NEW e \in Nat, d <= e
  PROVE  /\ DaysOf(d, e) \in Seq(Nat) /\ Len(DaysOf(d, e)) = e - d + 1
         /\ DaysOf(d, d) = <<d>>
         /\ d < e => DaysOf(d, e) = <<d>> \o DaysOf(d + 1, e)
<1>1. ASSUME NEW k \in Nat, k <= e
      PROVE  DaysOf(k, e) \in Seq(Nat) /\ Len(DaysOf(k, e)) = e - k + 1
  <2>1. \A i \in 1 .. e - k + 1 : k + i - 1 \in Nat
    BY <1>1
  <2> QED
    BY <1>1, <2>1 DEF DaysOf
<1>2. DaysOf(d, d) = <<d>>
  <2>1. d - d + 1 = 1 /\ \A i \in 1 .. 1 : d + i - 1 = d
    OBVIOUS
  <2>2. DaysOf(d, d) = [i \in 1 .. 1 |-> d]
    BY <2>1 DEF DaysOf
  <2> QED
    BY <2>2
<1>3. ASSUME d < e PROVE DaysOf(d, e) = <<d>> \o DaysOf(d + 1, e)
  <2>1. /\ <<d>> \in Seq(Nat) /\ Len(<<d>>) = 1
        /\ DaysOf(d + 1, e) \in Seq(Nat) /\ Len(DaysOf(d + 1, e)) = e - d
    BY <1>1, <1>3
  <2>2. \A i \in 1 .. 1 : DaysOf(d, e)[i] = <<d>>[i]
    BY DEF DaysOf
  <2>3. \A i \in 1 .. e - d : DaysOf(d, e)[1 + i] = DaysOf(d + 1, e)[i]
    BY DEF DaysOf
  <2>4. DaysOf(d, e) \in Seq(Nat) /\ Len(DaysOf(d, e)) = 1 + (e - d)
    BY <1>1
  <2> QED
    BY <2>1, <2>2, <2>3, <2>4, IsConcat
<1> QED
  BY <1>1, <1>2, <1>3

\* GetDaysDiffer returns each day of the range once, in order.
LEMMA DaysDiffer ==
  ASSUME NEW t1 \in Nat, NEW t2 \in Nat, t1 <= t2
  PROVE  GetDaysDiffer(t1, t2) = DaysOf(Day(t1), Day(t2))
<1> DEFINE D == t1 .. t2 + DayLength
           e == Day(t2)
           Eqn(h) == h = [t \in D |-> IF Day(t) < e THEN <<Day(t)>> \o h[t + DayLength]
                                                   ELSE <<Day(t)>>]
           closed == [t \in D |-> DaysOf(Day(t), IF Day(t) < e THEN e ELSE Day(t))]
           h == CHOOSE g : Eqn(g)
<1>1. DayLength \in Nat \ {0} /\ e \in Nat
  BY DayOfTime
<1>2. ASSUME NEW t \in D
      PROVE  /\ t \in Nat /\ Day(t) \in Nat /\ Day(t + DayLength) = Day(t) + 1
             /\ Day(t) < e => t + DayLength \in D
  <2>1. t \in Nat
    BY <1>1, <1>2
  <2>2. Day(t) \in Nat /\ Day(t + DayLength) = Day(t) + 1
    BY <2>1, DayOfTime
  <2>3. Day(t) < e => t < t2
    <3>1. t2 <= t => e <= Day(t)
      BY <2>1, DayGrows
    <3> QED
      BY <1>1, <2>1, <2>2, <3>1
  <2>4. Day(t) < e => t + DayLength \in D
    BY <1>1, <2>1, <2>3
  <2> QED
    BY <2>1, <2>2, <2>4
<1>3. Eqn(closed)
  <2>1. ASSUME NEW t \in D
        PROVE  closed[t] = IF Day(t) < e THEN <<Day(t)>> \o closed[t + DayLength] ELSE <<Day(t)>>
    <3>1. CASE Day(t) < e
      <4>1. closed[t] = DaysOf(Day(t), e)
        BY <3>1
      <4>2. closed[t + DayLength] = DaysOf(Day(t) + 1, e)
        <5>1. Day(t) + 1 < e \/ Day(t) + 1 = e
          BY <1>1, <1>2, <3>1
        <5>2. closed[t + DayLength] = DaysOf(Day(t) + 1, IF Day(t) + 1 < e THEN e ELSE Day(t) + 1)
          BY <1>2, <3>1
        <5> QED
          BY <5>1, <5>2
      <4>3. DaysOf(Day(t), e) = <<Day(t)>> \o DaysOf(Day(t) + 1, e)
        <5>1. Day(t) \in Nat /\ Day(t) <= e
          BY <1>1, <1>2, <3>1
        <5> QED
          BY <1>1, <3>1, <5>1, FirstOfDays
      <4> QED
        BY <3>1, <4>1, <4>2, <4>3
    <3>2. CASE ~(Day(t) < e)
      <4>1. closed[t] = DaysOf(Day(t), Day(t))
        BY <3>2
      <4>2. DaysOf(Day(t), Day(t)) = <<Day(t)>>
        <5>1. Day(t) \in Nat /\ Day(t) <= Day(t)
          BY <1>2
        <5> QED
          BY <5>1, FirstOfDays
      <4> QED
        BY <3>2, <4>1, <4>2
    <3> QED
      BY <3>1, <3>2
  <2> QED
    BY <2>1
<1>4. Eqn(h)
  <2> HIDE DEF Eqn, closed
  <2> QED
    BY <1>3
<1> HIDE DEF h, closed
<1>5. \A t \in D : h[t] = IF Day(t) < e THEN <<Day(t)>> \o h[t + DayLength] ELSE <<Day(t)>>
  BY <1>4
<1> DEFINE T == {k \in Nat : \A t \in D : Day(t) + k = e => h[t] = DaysOf(Day(t), e)}
<1>6. 0 \in T
  <2> SUFFICES ASSUME NEW t \in D, Day(t) + 0 = e PROVE h[t] = DaysOf(Day(t), e)
    OBVIOUS
  <2>1. Day(t) = e
    BY <1>2
  <2>2. DaysOf(e, e) = <<e>>
    <3>1. e \in Nat /\ e <= e
      BY <1>1
    <3> HIDE DEF e
    <3> QED
      BY <3>1, FirstOfDays
  <2>3. h[t] = <<Day(t)>>
    <3>1. ~(Day(t) < e)
      BY <1>1, <2>1
    <3> QED
      BY <1>5, <3>1
  <2> QED
    BY <2>1, <2>2, <2>3
<1>7. ASSUME NEW k \in Nat, k \in T PROVE k + 1 \in T
  <2> SUFFICES ASSUME NEW t \in D, Day(t) + (k + 1) = e PROVE h[t] = DaysOf(Day(t), e)
    OBVIOUS
  <2>1. Day(t) < e /\ t + DayLength \in D /\ Day(t + DayLength) + k = e /\ Day(t) \in Nat
    BY <1>1, <1>2
  <2>2. h[t + DayLength] = DaysOf(Day(t + DayLength), e)
    BY <1>7, <2>1
  <2>3. h[t] = <<Day(t)>> \o DaysOf(Day(t) + 1, e)
    BY <1>2, <1>5, <2>1, <2>2
  <2>4. DaysOf(Day(t), e) = <<Day(t)>> \o DaysOf(Day(t) + 1, e)
    <3>1. Day(t) <= e
      BY <1>1, <2>1
    <3> QED
      BY <1>1, <2>1, <3>1, FirstOfDays
  <2> QED
    BY <2>3, <2>4
<1>8. \A k \in Nat : k \in T
  <2> HIDE DEF T
  <2> QED
    BY <1>6, <1>7, Induction
<1>9. h[t1] = DaysOf(Day(t1), e)
  <2>1. t1 \in D /\ Day(t1) <= e /\ Day(t1) \in Nat
    BY <1>1, DayGrows, DayOfTime
  <2>2. e - Day(t1) \in T /\ Day(t1) + (e - Day(t1)) = e
    BY <1>1, <1>8, <2>1
  <2> QED
    BY <2>1, <2>2
<1> QED
  BY <1>9 DEF GetDaysDiffer, h

------------------------------------------------------------------------------
(* The choices among files.                                                  *)

\* A finite set of numbers has a greatest.
LEMMA GreatestOf ==
  ASSUME NEW T \in SUBSET Nat, IsFiniteSet(T), T # {}
  PROVE  \E m \in T : \A x \in T : x <= m
<1> DEFINE Has(S) == \E m \in S : \A x \in S : x <= m
           U == {n \in Nat : \A S \in SUBSET Nat :
                   IsFiniteSet(S) /\ Cardinality(S) = n + 1 => Has(S)}
<1>1. 0 \in U
  <2> SUFFICES ASSUME NEW S \in SUBSET Nat, IsFiniteSet(S), Cardinality(S) = 0 + 1 PROVE Has(S)
    OBVIOUS
  <2>1. PICK x : S = {x}
    <3>1. Cardinality(S) = 1
      OBVIOUS
    <3> QED
      BY <3>1, FS_Singleton
  <2> QED
    BY <2>1
<1>2. ASSUME NEW n \in Nat, n \in U PROVE n + 1 \in U
  <2> SUFFICES ASSUME NEW S \in SUBSET Nat, IsFiniteSet(S), Cardinality(S) = (n + 1) + 1
               PROVE  Has(S)
    OBVIOUS
  <2>1. PICK y \in S : TRUE
    <3>1. Cardinality(S) # 0
      OBVIOUS
    <3> QED
      BY <3>1, FS_EmptySet
  <2>2. IsFiniteSet(S \ {y}) /\ Cardinality(S \ {y}) = n + 1
    BY <2>1, FS_RemoveElement
  <2>3. Has(S \ {y})
    BY <1>2, <2>2
  <2>4. PICK m \in S \ {y} : \A x \in S \ {y} : x <= m
    BY <2>3
  <2>5. CASE y <= m
    BY <2>4, <2>5
  <2>6. CASE ~(y <= m)
    <3>1. \A x \in S : x <= y
      BY <2>1, <2>4, <2>6
    <3> QED
      BY <2>1, <3>1
  <2> QED
    BY <2>5, <2>6
<1>3. \A n \in Nat : n \in U
  <2> HIDE DEF U
  <2> QED
    BY <1>1, <1>2, Induction
<1>4. Cardinality(T) \in Nat /\ Cardinality(T) # 0
  BY FS_CardinalityType, FS_EmptySet
<1>5. Cardinality(T) - 1 \in Nat /\ (Cardinality(T) - 1) + 1 = Cardinality(T)
  BY <1>4
<1>6. Cardinality(T) - 1 \in U
  BY <1>3, <1>5
<1> QED
  BY <1>5, <1>6

\* Files are numbered records, and any of them are finitely many.
LEMMA FilesAre ==
  /\ \A f \in Files : f.dir \in Nat /\ f.name \in Nat /\ f.parts \in Nat /\ f.start \in Nat /\ f.end \in Nat
  /\ \A S \in SUBSET Files : IsFiniteSet(S)
<1>1. \A S \in SUBSET Files : IsFiniteSet(S)
  BY HistoryAssumption, FS_Subset
<1>2. Files \subseteq [dir : Nat, name : Nat, parts : Nat, start : Nat, end : Nat]
  BY HistoryAssumption
<1> QED
  BY <1>1, <1>2

\* The file that stays for a start is a file of that start.
LEMMA LatestIs ==
  ASSUME NEW fs \in SUBSET Files, NEW t, \E f \in fs : f.start = t
  PROVE  Latest(fs, t) \in fs /\ Latest(fs, t).start = t
<1> DEFINE S == {f \in fs : f.start = t}
           name == [f \in S |-> f.name]
           T == {name[f] : f \in S}
<1>1. IsFiniteSet(S) /\ S # {}
  BY FilesAre
<1>2. name \in Surjection(S, T)
  BY DEF Surjection
<1>3. IsFiniteSet(T)
  <2> HIDE DEF S, T, name
  <2> QED
    BY <1>1, <1>2, FS_Surjection
<1>4. T \in SUBSET Nat /\ T # {}
  BY <1>1, FilesAre
<1>5. PICK m \in T : \A x \in T : x <= m
  <2> HIDE DEF T
  <2> QED
    BY <1>3, <1>4, GreatestOf
<1>6. PICK f \in S : f.name = m
  BY <1>5
<1>7. f \in fs /\ f.start = t /\ \A g \in fs : g.start = t => g.name <= f.name
  BY <1>5, <1>6
<1> QED
  BY <1>7 DEF Latest

\* Files with different starts can be put in the order of their starts.
Ascends(list, S) ==
  /\ list \in [1 .. Cardinality(S) -> S] /\ Range(list) = S
  /\ \A i, j \in 1 .. Cardinality(S) : i < j => list[i].start < list[j].start

\* By induction over their number, the greatest goes last.
LEMMA InOrder ==
  ASSUME NEW F \in SUBSET Files, \A f, g \in F : f.start = g.start => f = g
  PROVE  \E list : Ascends(list, F)
<1> DEFINE U == {n \in Nat : \A S \in SUBSET F : Cardinality(S) = n => \E list : Ascends(list, S)}
<1>0. \A S \in SUBSET F : IsFiniteSet(S)
  BY FilesAre
<1>1. 0 \in U
  <2> SUFFICES ASSUME NEW S \in SUBSET F, Cardinality(S) = 0 PROVE \E list : Ascends(list, S)
    OBVIOUS
  <2>1. S = {}
    BY <1>0, FS_EmptySet
  <2>2. Ascends(<<>>, S)
    BY <2>1 DEF Ascends, Range
  <2> QED
    BY <2>2
<1>2. ASSUME NEW n \in Nat, n \in U PROVE n + 1 \in U
  <2> SUFFICES ASSUME NEW S \in SUBSET F, Cardinality(S) = n + 1 PROVE \E list : Ascends(list, S)
    OBVIOUS
  <2> DEFINE T == {f.start : f \in S}
  <2>1. T \in SUBSET Nat /\ T # {}
    <3>1. S # {}
      BY FS_EmptySet
    <3> QED
      BY <3>1, FilesAre
  <2>2. PICK t \in T : \A u \in T : t <= u
    <3> HIDE DEF T
    <3> QED
      BY <2>1, LeastOf
  <2>3. PICK f \in S : f.start = t
    BY <2>2
  <2>4. \A g \in S \ {f} : f.start < g.start
    <3> SUFFICES ASSUME NEW g \in S \ {f} PROVE f.start < g.start
      OBVIOUS
    <3>1. f.start <= g.start /\ f.start # g.start
      BY <2>2, <2>3
    <3> QED
      BY <3>1, FilesAre
  <2>5. S \ {f} \in SUBSET F /\ Cardinality(S \ {f}) = n
    <3>1. IsFiniteSet(S) /\ f \in S
      BY <1>0
    <3>2. Cardinality(S \ {f}) = Cardinality(S) - 1
      BY <3>1, FS_RemoveElement
    <3> QED
      BY <3>2
  <2>6. PICK list : Ascends(list, S \ {f})
    BY <1>2, <2>5
  <2>7. /\ list \in [1 .. n -> S \ {f}] /\ Range(list) = S \ {f}
        /\ \A i, j \in 1 .. n : i < j => list[i].start < list[j].start
    BY <2>5, <2>6 DEF Ascends
  <2> DEFINE longer == [i \in 1 .. n + 1 |-> IF i = 1 THEN f ELSE list[i - 1]]
  <2>8. longer \in [1 .. n + 1 -> S]
    BY <2>7
  <2>9. Range(longer) = S
    <3>1. ASSUME NEW g \in S PROVE \E i \in 1 .. n + 1 : longer[i] = g
      <4>1. CASE g = f
        BY <4>1
      <4>2. CASE g # f
        <5>1. PICK i \in 1 .. n : list[i] = g
          BY <2>7, <4>2 DEF Range
        <5>2. i + 1 \in 1 .. n + 1 /\ longer[i + 1] = g
          BY <5>1
        <5> QED
          BY <5>2
      <4> QED
        BY <4>1, <4>2
    <3> QED
      BY <2>8, <3>1 DEF Range
  <2>10. ASSUME NEW i \in 1 .. n + 1, NEW j \in 1 .. n + 1, i < j
         PROVE  longer[i].start < longer[j].start
    <3>1. j - 1 \in 1 .. n /\ longer[j] = list[j - 1]
      BY <2>10
    <3>2. CASE i = 1
      BY <2>4, <2>7, <3>1, <3>2
    <3>3. CASE i # 1
      BY <2>7, <2>10, <3>1, <3>3
    <3> QED
      BY <3>2, <3>3
  <2> HIDE DEF longer
  <2>11. Ascends(longer, S)
    BY <2>8, <2>9, <2>10 DEF Ascends
  <2> QED
    BY <2>11
<1>3. \A n \in Nat : n \in U
  <2> HIDE DEF U
  <2> QED
    BY <1>1, <1>2, Induction
<1>4. Cardinality(F) \in Nat
  BY <1>0, FS_CardinalityType
<1> QED
  BY <1>3, <1>4

\* What sort.Strings leaves in starttimestamps.
LEMMA SortedIs ==
  ASSUME NEW F \in SUBSET Files, \A f, g \in F : f.start = g.start => f = g
  PROVE  Ascends(Sorted(F), F)
<1> DEFINE P(list) == /\ list \in [1 .. Cardinality(F) -> F] /\ Range(list) = F
                      /\ \A i, j \in DOMAIN list : i < j => list[i].start < list[j].start
<1>1. \A list : Ascends(list, F) <=> P(list)
  BY DEF Ascends
<1>2. \E list : P(list)
  BY <1>1, InOrder
<1>3. P(CHOOSE list : P(list))
  BY <1>2
<1>4. Sorted(F) = CHOOSE list : P(list)
  BY DEF Sorted
<1> QED
  BY <1>1, <1>3, <1>4

------------------------------------------------------------------------------
(* The inductive invariant.                                                  *)

\* All names of a directory can be read.
Readable(dir) == \A g \in disk : g.dir = dir => HasTimeRange(g)

StateTypes ==
  /\ disk \subseteq Files /\ before \subseteq disk
  /\ pc \in {"idle", "walk", "done"}
  /\ from \in Times /\ to \in Times

\* The walk goes through the days of the range in order.
WalkOrder ==
  /\ pc # "walk" => days = <<>>
  /\ pc = "walk" => from < to /\ \E d \in Day(from) .. Day(to) + 1 : days = DaysOf(d, Day(to))

Lists == \A t \in DOMAIN bigfilelists : bigfilelists[t] \in disk /\ bigfilelists[t].start = t

\* A file that was there is listed by its start once its day has been visited.
VisitedIsListed ==
  pc = "walk" =>
    \A f \in before : /\ f.dir \in Day(from) .. Day(to) /\ f.dir \notin Range(days)
                      /\ Readable(f.dir)
                      => f.start \in DOMAIN bigfilelists

Replied ==
  /\ pc # "done" => reply = NoReply
  /\ reply.code \in {None, BadRequest, NotFound, OK} /\ Range(reply.data) \subseteq disk
  /\ ReplyHoldsRange /\ OverlapIsListed

IInv == StateTypes /\ WalkOrder /\ Lists /\ VisitedIsListed /\ Replied

------------------------------------------------------------------------------
(* The steps.                                                                *)

\* The first of some days, the others, and all of them.
LEMMA DaysAre ==
  ASSUME NEW d \in Nat, NEW e \in Nat, d <= e + 1
  PROVE  /\ IsInjective(DaysOf(d, e)) /\ Range(DaysOf(d, e)) = d .. e
         /\ DaysOf(d, e) = <<>> <=> d = e + 1
         /\ d <= e => Head(DaysOf(d, e)) = d /\ Tail(DaysOf(d, e)) = DaysOf(d + 1, e)
<1>1. DaysOf(d, e) \in [1 .. e - d + 1 -> d .. e] /\ \A i \in 1 .. e - d + 1 : DaysOf(d, e)[i] = d + i - 1
  <2>1. \A i \in 1 .. e - d + 1 : d + i - 1 \in d .. e
    OBVIOUS
  <2> QED
    BY <2>1 DEF DaysOf
<1>2. IsInjective(DaysOf(d, e))
  BY <1>1 DEF IsInjective
<1>3. Range(DaysOf(d, e)) = d .. e
  <2>1. ASSUME NEW k \in d .. e PROVE \E i \in 1 .. e - d + 1 : DaysOf(d, e)[i] = k
    <3>1. k - d + 1 \in 1 .. e - d + 1 /\ d + (k - d + 1) - 1 = k
      OBVIOUS
    <3> QED
      BY <1>1, <3>1
  <2> QED
    BY <1>1, <2>1 DEF Range
<1>4. DaysOf(d, e) = <<>> <=> d = e + 1
  <2>1. CASE d = e + 1
    <3>1. 1 .. e - d + 1 = {}
      BY <2>1
    <3> QED
      BY <2>1, <3>1 DEF DaysOf
  <2>2. CASE d <= e
    <3>1. Len(DaysOf(d, e)) = e - d + 1
      BY <2>2, FirstOfDays
    <3>2. Len(DaysOf(d, e)) # 0 /\ Len(<<>>) = 0
      BY <2>2, <3>1
    <3> QED
      BY <2>2, <3>2
  <2> QED
    BY <2>1, <2>2
<1>5. ASSUME d <= e PROVE Head(DaysOf(d, e)) = d /\ Tail(DaysOf(d, e)) = DaysOf(d + 1, e)
  <2>1. CASE d < e
    <3>1. DaysOf(d, e) = <<d>> \o DaysOf(d + 1, e) /\ DaysOf(d + 1, e) \in Seq(Nat)
      <4>1. d + 1 \in Nat /\ d + 1 <= e
        BY <2>1
      <4> QED
        BY <1>5, <2>1, <4>1, FirstOfDays
    <3> HIDE DEF DaysOf
    <3> QED
      BY <3>1
  <2>2. CASE d = e
    <3>1. DaysOf(d, e) = <<d>>
      <4>1. d <= d
        OBVIOUS
      <4>2. DaysOf(d, d) = <<d>>
        BY <4>1, FirstOfDays
      <4> QED
        BY <2>2, <4>2
    <3>2. DaysOf(d + 1, e) = <<>>
      <4>1. 1 .. e - (d + 1) + 1 = {}
        BY <2>2
      <4> QED
        BY <4>1 DEF DaysOf
    <3> QED
      BY <3>1, <3>2
  <2> QED
    BY <1>5, <2>1, <2>2
<1> QED
  BY <1>2, <1>3, <1>4, <1>5

\* The times of a query have days.
LEMMA RangeOfDays ==
  ASSUME StateTypes
  PROVE  /\ from \in Nat /\ to \in Nat /\ Day(from) \in Nat /\ Day(to) \in Nat
         /\ from <= to => Day(from) <= Day(to)
<1>1. from \in Nat /\ to \in Nat
  BY HistoryAssumption DEF StateTypes, Times
<1>2. Day(from) \in Nat /\ Day(to) \in Nat
  BY <1>1, DayOfTime
<1> QED
  BY <1>1, <1>2, DayGrows

\* Nothing is promised before there is a reply.
LEMMA NothingReplied ==
  ASSUME reply = NoReply, pc # "done"
  PROVE  Replied
BY DEF NoReply, Replied, ReplyHoldsRange, OverlapIsListed, Range

\* The invariant holds before the query.
LEMMA InvInit == Init => IInv
<1> SUFFICES ASSUME Init PROVE IInv
  OBVIOUS
<1>1. Replied
  BY NothingReplied DEF Init
<1>2. StateTypes
  BY HistoryAssumption DEF Init, StateTypes, Times
<1> QED
  BY <1>1, <1>2 DEF Init, IInv, WalkOrder, Lists, VisitedIsListed

\* A query is refused, or its days are before it.
LEMMA RequestStep ==
  ASSUME IInv, NEW t1 \in Times, NEW t2 \in Times, Request(t1, t2)
  PROVE  IInv'
<1> USE DEF IInv
<1>0. /\ pc = "idle" /\ from' = t1 /\ to' = t2 /\ before' = disk /\ disk' = disk
      /\ bigfilelists' = bigfilelists /\ reply = NoReply /\ days = <<>>
  BY DEF Request, Replied, WalkOrder
<1>1. StateTypes'
  BY <1>0 DEF StateTypes, Request
<1>2. Lists'
  BY <1>0 DEF Lists
<1>3. CASE t2 <= t1
  <2>1. pc' = "done" /\ reply' = [code |-> BadRequest, data |-> <<>>] /\ days' = days
    BY <1>3 DEF Request
  <2>2. Replied'
    <3>1. t1 \in Nat /\ t2 \in Nat
      BY HistoryAssumption DEF Times
    <3>2. ~(t1 < t2)
      BY <1>3, <3>1
    <3>3. OverlapIsListed'
      BY <1>0, <3>2 DEF OverlapIsListed
    <3>4. ReplyHoldsRange'
      BY <2>1 DEF ReplyHoldsRange, BadRequest, OK
    <3> QED
      BY <2>1, <3>3, <3>4 DEF Replied, Range
  <2> QED
    BY <1>0, <1>1, <1>2, <2>1, <2>2 DEF WalkOrder, VisitedIsListed
<1>4. CASE ~(t2 <= t1)
  <2>1. pc' = "walk" /\ reply' = reply /\ days' = GetDaysDiffer(t1, t2)
    BY <1>4 DEF Request
  <2>2. t1 \in Nat /\ t2 \in Nat /\ t1 < t2
    BY <1>4, HistoryAssumption DEF Times
  <2>3. days' = DaysOf(Day(t1), Day(t2))
    BY <2>1, <2>2, DaysDiffer
  <2>4. Day(t1) \in Nat /\ Day(t2) \in Nat /\ Day(t1) <= Day(t2)
    <3>1. t1 <= t2
      BY <2>2
    <3> QED
      BY <2>2, <3>1, DayOfTime, DayGrows
  <2>5. WalkOrder'
    <3>1. Day(t1) \in Day(t1) .. Day(t2) + 1
      BY <2>4
    <3> QED
      BY <1>0, <2>1, <2>2, <2>3, <3>1 DEF WalkOrder
  <2>6. VisitedIsListed'
    <3>1. Day(t1) <= Day(t2) + 1
      BY <2>4
    <3>2. Range(days') = Day(t1) .. Day(t2)
      BY <2>3, <2>4, <3>1, DaysAre
    <3> QED
      BY <1>0, <3>2 DEF VisitedIsListed
  <2>7. Replied'
    BY <1>0, <2>1 DEF NoReply, Replied, ReplyHoldsRange, OverlapIsListed, Range
  <2> QED
    BY <1>1, <1>2, <2>5, <2>6, <2>7
<1> QED
  BY <1>3, <1>4

\* A day is taken from the days and its files are listed.
LEMMA ListDayStep == ASSUME IInv, ListDay PROVE IInv'
<1> USE DEF IInv
<1> DEFINE day == Head(days)
           fs == Listed(day)
           starts == {f.start : f \in fs}
<1>1. /\ pc = "walk" /\ days # <<>> /\ days' = Tail(days)
      /\ bigfilelists' = [t \in DOMAIN bigfilelists \cup starts |->
                            IF t \in starts THEN Latest(fs, t) ELSE bigfilelists[t]]
      /\ UNCHANGED <<disk, pc, queryVars, reply, before>>
  BY DEF ListDay
<1>2. fs \subseteq disk /\ fs \in SUBSET Files
  BY DEF Listed, StateTypes
<1>3. PICK d \in Day(from) .. Day(to) + 1 : days = DaysOf(d, Day(to))
  BY <1>1 DEF WalkOrder
<1>4. /\ d \in Nat /\ d + 1 \in Nat /\ Day(from) \in Nat /\ Day(to) \in Nat
      /\ d <= Day(to) + 1 /\ Day(from) <= d
  BY <1>3, RangeOfDays
<1>5. d # Day(to) + 1
  BY <1>1, <1>3, <1>4, DaysAre
<1>6. d <= Day(to) /\ d + 1 <= Day(to) + 1
  BY <1>4, <1>5
<1>7. day = d /\ days' = DaysOf(d + 1, Day(to)) /\ Range(days) = d .. Day(to)
  BY <1>1, <1>3, <1>4, <1>6, DaysAre
<1>8. Range(days') = d + 1 .. Day(to)
  BY <1>4, <1>6, <1>7, DaysAre
<1>9. StateTypes'
  BY <1>1 DEF StateTypes, queryVars
<1>10. WalkOrder'
  <2>1. d + 1 \in Day(from) .. Day(to) + 1
    BY <1>4, <1>6
  <2>2. from' = from /\ to' = to /\ pc' = "walk"
    BY <1>1 DEF queryVars
  <2> QED
    BY <1>1, <1>7, <2>1, <2>2 DEF WalkOrder
<1>11. Lists'
  <2> SUFFICES ASSUME NEW t \in DOMAIN bigfilelists'
               PROVE  bigfilelists'[t] \in disk' /\ bigfilelists'[t].start = t
    BY DEF Lists
  <2> HIDE DEF fs
  <2>1. CASE t \in starts
    <3>1. bigfilelists'[t] = Latest(fs, t)
      BY <1>1, <2>1
    <3>2. \E f \in fs : f.start = t
      BY <2>1
    <3> QED
      BY <1>1, <1>2, <3>1, <3>2, LatestIs
  <2>2. CASE t \notin starts
    <3>1. bigfilelists'[t] = bigfilelists[t] /\ t \in DOMAIN bigfilelists
      BY <1>1, <2>2
    <3> QED
      BY <1>1, <3>1 DEF Lists
  <2> QED
    BY <2>1, <2>2
<1>12. VisitedIsListed'
  <2> SUFFICES ASSUME NEW f \in before, f.dir \in Day(from) .. Day(to), f.dir \notin Range(days'),
                      Readable(f.dir)
               PROVE  f.start \in DOMAIN bigfilelists'
    BY <1>1 DEF VisitedIsListed, Readable, HasTimeRange, queryVars
  <2>1. DOMAIN bigfilelists' = DOMAIN bigfilelists \cup starts
    BY <1>1
  <2>2. f \in disk /\ f.dir \in Nat
    BY FilesAre DEF StateTypes
  <2>3. CASE f.dir = d
    <3>1. f \in fs
      BY <1>7, <2>2, <2>3 DEF Listed, Readable
    <3> QED
      BY <2>1, <3>1
  <2>4. CASE f.dir # d
    <3>1. f.dir \notin Range(days)
      BY <1>4, <1>6, <1>7, <1>8, <2>2, <2>4
    <3> QED
      BY <1>1, <2>1, <3>1 DEF VisitedIsListed
  <2> QED
    BY <2>3, <2>4
<1>13. Replied'
  <2>1. reply' = NoReply /\ pc' = "walk"
    BY <1>1 DEF Replied
  <2> QED
    BY <2>1 DEF NoReply, Replied, ReplyHoldsRange, OverlapIsListed, Range
<1> QED
  BY <1>9, <1>10, <1>11, <1>12, <1>13

\* The reply holds, in order, what is listed and overlaps the range.
LEMMA FilterStep == ASSUME IInv, Filter PROVE IInv'
<1> USE DEF IInv
<1> DEFINE found == {f \in Range(bigfilelists) : Overlaps(f)}
           n == Cardinality(found)
<1>1. /\ pc = "walk" /\ days = <<>> /\ pc' = "done"
      /\ reply' = (IF found = {} THEN [code |-> NotFound, data |-> <<>>]
                                 ELSE [code |-> OK, data |-> Sorted(found)])
      /\ UNCHANGED <<disk, queryVars, days, bigfilelists, before>>
  BY DEF Filter
<1>2. found \subseteq disk /\ found \in SUBSET Files
  BY DEF Lists, StateTypes, Range
<1>3. \A f, g \in found : f.start = g.start => f = g
  BY DEF Lists, Range
<1>4. \A f \in found : f.start <= to /\ f.end >= from
  <2>1. \A f \in found : f.end \in Nat
    BY <1>2, FilesAre
  <2> QED
    BY <2>1, RangeOfDays DEF Overlaps
<1>5. Ascends(Sorted(found), found)
  <2> HIDE DEF found
  <2> QED
    BY <1>2, <1>3, SortedIs
<1>6. n \in Nat /\ (n = 0 <=> found = {})
  <2>1. IsFiniteSet(found)
    BY <1>2, FilesAre
  <2> HIDE DEF found
  <2> QED
    BY <2>1, FS_CardinalityType, FS_EmptySet
<1> HIDE DEF found
<1>7. /\ Range(reply'.data) = found
      /\ DOMAIN reply'.data = 1 .. n
      /\ \A i \in 1 .. n : reply'.data[i] \in found
      /\ \A i, j \in 1 .. n : i < j => reply'.data[i].start < reply'.data[j].start
      /\ reply'.code = OK <=> found # {}
      /\ reply'.code \in {NotFound, OK}
  <2>1. CASE found = {}
    <3>1. reply' = [code |-> NotFound, data |-> <<>>] /\ n = 0
      BY <1>1, <1>6, <2>1
    <3> QED
      BY <2>1, <3>1 DEF Range, NotFound, OK
  <2>2. CASE found # {}
    <3>1. reply' = [code |-> OK, data |-> Sorted(found)]
      BY <1>1, <2>2
    <3> QED
      BY <1>5, <2>2, <3>1 DEF Ascends
  <2> QED
    BY <2>1, <2>2
<1>8. from' = from /\ to' = to /\ disk' = disk /\ before' = before
  BY <1>1 DEF queryVars
<1>9. ReplyHoldsRange'
  <2>1. \A i \in DOMAIN reply'.data : reply'.data[i].start <= to /\ reply'.data[i].end >= from
    BY <1>4, <1>7
  <2>2. reply'.data # <<>> <=> found # {}
    BY <1>6, <1>7
  <2> QED
    BY <1>7, <1>8, <2>1, <2>2 DEF ReplyHoldsRange
<1>10. OverlapIsListed'
  <2> SUFFICES ASSUME NEW f \in before, f.dir = Day(f.start), Day(from) <= Day(f.start),
                      f.start <= to, from <= f.end, Readable(f.dir)
               PROVE  \E g \in disk : g.start = f.start /\ (g \in Range(reply'.data) \/ g.end < from)
    BY <1>8 DEF OverlapIsListed, Readable, HasTimeRange, Day
  <2>1. f.start \in Nat /\ f \in disk
    BY FilesAre DEF StateTypes
  <2>2. f.dir \in Day(from) .. Day(to)
    <3>1. Day(f.start) <= Day(to) /\ Day(f.start) \in Nat
      BY <2>1, RangeOfDays, DayGrows, DayOfTime
    <3> QED
      BY <3>1, RangeOfDays
  <2>3. f.dir \notin Range(days)
    BY <1>1 DEF Range
  <2>4. f.start \in DOMAIN bigfilelists
    BY <1>1, <2>2, <2>3 DEF VisitedIsListed
  <2> DEFINE g == bigfilelists[f.start]
  <2>5. g \in disk /\ g.start = f.start /\ g \in Range(bigfilelists)
    BY <2>4 DEF Lists, Range
  <2>6. g.end \in Nat
    BY <2>5, FilesAre DEF StateTypes
  <2> HIDE DEF g
  <2>7. CASE from <= g.end
    <3>1. g \in found
      BY <2>5, <2>7 DEF found, Overlaps
    <3> QED
      BY <1>7, <2>5, <3>1
  <2>8. CASE ~(from <= g.end)
    <3>1. g.end < from
      BY <2>6, <2>8, RangeOfDays
    <3> QED
      BY <2>5, <3>1
  <2> QED
    BY <2>7, <2>8
<1>11. Replied'
  BY <1>1, <1>2, <1>7, <1>8, <1>9, <1>10 DEF Replied
<1>12. StateTypes' /\ WalkOrder' /\ Lists' /\ VisitedIsListed'
  BY <1>1, <1>8 DEF StateTypes, WalkOrder, Lists, VisitedIsListed
<1> QED
  BY <1>11, <1>12

\* A file that comes makes no name readable that was not.
LEMMA AddFileStep == ASSUME IInv, NEW f \in Files, AddFile(f) PROVE IInv'
<1> USE DEF IInv
<1>1. /\ disk' = disk \cup {f} /\ pc # "done"
      /\ UNCHANGED <<pc, queryVars, days, bigfilelists, reply, before>>
  BY DEF AddFile
<1>2. StateTypes'
  BY <1>1 DEF StateTypes, queryVars
<1>3. WalkOrder'
  BY <1>1 DEF WalkOrder, queryVars, Day
<1>4. Lists'
  BY <1>1 DEF Lists
<1>5. VisitedIsListed'
  <2>1. \A dir : Readable(dir)' => Readable(dir)
    BY <1>1 DEF Readable, HasTimeRange
  <2> QED
    BY <1>1, <2>1 DEF VisitedIsListed, queryVars, Day
<1>6. Replied'
  <2>1. reply' = NoReply /\ pc' # "done"
    BY <1>1 DEF Replied
  <2> QED
    BY <2>1 DEF NoReply, Replied, ReplyHoldsRange, OverlapIsListed, Range
<1> QED
  BY <1>2, <1>3, <1>4, <1>5, <1>6

\* Every step keeps it.
LEMMA InvStep == ASSUME IInv, [Next]_vars PROVE IInv'
<1>1. CASE UNCHANGED vars
  BY <1>1 DEF vars, queryVars, IInv, StateTypes, WalkOrder, Lists, VisitedIsListed, Readable, Replied,
              ReplyHoldsRange, OverlapIsListed, Day, HasTimeRange
<1> QED
  BY <1>1, RequestStep, ListDayStep, FilterStep, AddFileStep DEF Next

------------------------------------------------------------------------------
(* The theorems.                                                             *)

\* The variables have their types: a walk visits days of its range, none of them
\* twice, and lists files of the disk by their starts.
THEOREM TypeCorrect == Spec => []TypeOK
<1>1. IInv => TypeOK
  <2> SUFFICES ASSUME IInv PROVE TypeOK
    OBVIOUS
  <2>1. IsInjective(days) /\ Range(days) \subseteq Day(from) .. Day(to)
    <3>1. CASE pc = "walk"
      <4>1. PICK d \in Day(from) .. Day(to) + 1 : days = DaysOf(d, Day(to))
        BY <3>1 DEF IInv, WalkOrder
      <4>2. d \in Nat /\ Day(to) \in Nat /\ Day(from) \in Nat /\ d <= Day(to) + 1 /\ Day(from) <= d
        BY <4>1, RangeOfDays DEF IInv
      <4>3. IsInjective(days) /\ Range(days) = d .. Day(to)
        BY <4>1, <4>2, DaysAre
      <4> QED
        BY <4>2, <4>3
    <3>2. CASE pc # "walk"
      BY <3>2 DEF IInv, WalkOrder, IsInjective, Range
    <3> QED
      BY <3>1, <3>2
  <2> QED
    BY <2>1 DEF IInv, StateTypes, Lists, Replied, TypeOK
<1> QED
  BY <1>1, InvInit, InvStep, PTL DEF Spec

\* The reply holds files that overlap the range, in the order of time and one for
\* each start, and is a 404 rather than empty.
THEOREM RepliesHoldTheRange == Spec => []ReplyHoldsRange
<1>1. IInv => ReplyHoldsRange
  BY DEF IInv, Replied
<1> QED
  BY <1>1, InvInit, InvStep, PTL DEF Spec

\* Of the files that were there and overlap the range, in directories of its days
\* with readable names, the reply misses at most those that a file of the same
\* start hides, whatever files come while the query walks.
THEOREM OverlapsAreListed == Spec => []OverlapIsListed
<1>1. IInv => OverlapIsListed
  BY DEF IInv, Replied
<1> QED
  BY <1>1, InvInit, InvStep, PTL DEF Spec
==============================================================================
