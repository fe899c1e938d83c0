--------------------------- MODULE DispatchProofs ----------------------------
(***************************************************************************)
(* Theorems about Dispatch, for any streams, sensors, workers, messages and *)
(* capacities: what decode finds in a message, that a sensor's frames come *)
(* to one worker, and that the path implements FramePipe.                  *)
(***************************************************************************)
EXTENDS Dispatch, SequenceLemmas

------------------------------------------------------------------------------
(* The loop of decode.                                                       *)

\* A frame has its fixed fields and its data.
LEMMA LengthOfFrame ==
  ASSUME NEW f \in Frames
  PROVE  FrameLength(f) = 25 + f.data /\ FrameLength(f) \in Nat /\ FrameLength(f) > 0
BY DEF Frames, FrameLength, SizeField, LengthWithoutData, TimestampLength, IDLength, CrcLength

\* The next frame begins behind the end byte.
LEMMA EndOfFrame ==
  ASSUME NEW f \in Frames, NEW index \in Nat
  PROVE  /\ IndexOfEnd(f, index) = index + FrameLength(f) - 1
         /\ IndexOfEnd(f, index) + EndLength = index + FrameLength(f)
BY DEF Frames, FrameLength, SizeField, LengthWithoutData, IndexOfEnd, DataIndex, HeadLength,
       SizeLength, TimestampLength, IDLength, CrcLength, EndLength

\* Where the frames of a message begin.
LEMMA IndexIs ==
  ASSUME NEW frames \in Seq(Frames)
  PROVE  /\ IndexAfter(frames, 0) = 0
         /\ \A k \in 0 .. Len(frames) : IndexAfter(frames, k) \in Nat
         /\ \A k \in 1 .. Len(frames) :
              IndexAfter(frames, k) = IndexAfter(frames, k - 1) + FrameLength(frames[k])
<1> DEFINE Eqn(h) == h = [i \in 0 .. Len(frames) |->
                            IF i = 0 THEN 0 ELSE h[i - 1] + FrameLength(frames[i])]
           after == CHOOSE h : Eqn(h)
           lengths == [n \in Nat |->
                         IF n + 1 <= Len(frames) THEN FrameLength(frames[n + 1]) ELSE 0]
           step == [n \in Nat |-> [s \in Nat |-> s + lengths[n]]]
<1>1. \A k \in 1 .. Len(frames) : FrameLength(frames[k]) \in Nat
  <2>1. \A f \in Frames : FrameLength(f) \in Nat
    BY LengthOfFrame
  <2> QED
    BY <2>1
<1>2. lengths \in [Nat -> Nat]
  BY <1>1
<1>3. \A i \in 1 .. Len(frames) : FrameLength(frames[i]) = lengths[i - 1]
  OBVIOUS
<1> HIDE DEF lengths
<1>4. step \in [Nat -> [Nat -> Nat]]
  BY <1>2
<1>5. PICK f \in [Nat -> Nat] : Iterates(f, 0, step)
  <2> HIDE DEF step
  <2> QED
    BY <1>4, Recursion
<1>6. f[0] = 0 /\ \A n \in Nat : f[n + 1] = f[n] + lengths[n]
  BY <1>5 DEF Iterates
<1> DEFINE h0 == [i \in 0 .. Len(frames) |-> f[i]]
<1>7. Eqn(h0)
  <2>1. ASSUME NEW i \in 0 .. Len(frames)
        PROVE  h0[i] = IF i = 0 THEN 0 ELSE h0[i - 1] + FrameLength(frames[i])
    <3>1. CASE i = 0
      BY <1>6, <3>1
    <3>2. CASE i # 0
      <4>1. i - 1 \in Nat /\ i - 1 \in 0 .. Len(frames) /\ (i - 1) + 1 = i /\ i \in 1 .. Len(frames)
        BY <3>2
      <4>2. f[i] = f[i - 1] + lengths[i - 1]
        BY <1>6, <4>1
      <4> QED
        BY <1>3, <3>2, <4>1, <4>2
    <3> QED
      BY <3>1, <3>2
  <2> QED
    BY <2>1
<1>8. Eqn(after)
  <2> HIDE DEF h0, Eqn
  <2> QED
    BY <1>7
<1>9. \A k : IndexAfter(frames, k) = after[k]
  BY DEF IndexAfter
<1> HIDE DEF after
<1>10. after[0] = 0
  BY <1>8
<1>11. ASSUME NEW k \in 1 .. Len(frames) PROVE after[k] = after[k - 1] + FrameLength(frames[k])
  <2>1. k \in 0 .. Len(frames) /\ k # 0
    OBVIOUS
  <2>2. after = [i \in 0 .. Len(frames) |->
                   IF i = 0 THEN 0 ELSE after[i - 1] + FrameLength(frames[i])]
    BY <1>8
  <2> QED
    BY <2>1, <2>2
<1> DEFINE T == {k \in Nat : k <= Len(frames) => after[k] \in Nat}
<1>12. 0 \in T
  BY <1>10
<1>13. ASSUME NEW k \in Nat, k \in T PROVE k + 1 \in T
  <2> SUFFICES ASSUME k + 1 <= Len(frames) PROVE after[k + 1] \in Nat
    OBVIOUS
  <2>1. k + 1 \in 1 .. Len(frames) /\ (k + 1) - 1 = k /\ k <= Len(frames)
    OBVIOUS
  <2>2. after[k + 1] = after[k] + FrameLength(frames[k + 1])
    BY <1>11, <2>1
  <2>3. after[k] \in Nat
    BY <1>13, <2>1
  <2>4. FrameLength(frames[k + 1]) \in Nat
    BY <1>1, <2>1
  <2>5. \A x, y \in Nat : x + y \in Nat
    OBVIOUS
  <2> QED
    BY <2>2, <2>3, <2>4, <2>5
<1>14. \A k \in Nat : k \in T
  <2> HIDE DEF T
  <2> QED
    BY <1>12, <1>13, Induction
<1>15. \A k \in 0 .. Len(frames) : after[k] \in Nat
  BY <1>14
<1> QED
  BY <1>9, <1>10, <1>11, <1>15

\* Frames that come later begin later.
LEMMA IndexGrows ==
  ASSUME NEW frames \in Seq(Frames), NEW i \in 0 .. Len(frames), NEW j \in 0 .. Len(frames), i < j
  PROVE  IndexAfter(frames, i) < IndexAfter(frames, j)
<1> DEFINE I(k) == IndexAfter(frames, k)
           T == {d \in Nat : i + 1 + d <= Len(frames) => I(i) < I(i + 1 + d)}
<1>1. \A k \in 1 .. Len(frames) : FrameLength(frames[k]) \in Nat /\ FrameLength(frames[k]) > 0
  <2>1. \A f \in Frames : FrameLength(f) \in Nat /\ FrameLength(f) > 0
    BY LengthOfFrame
  <2> QED
    BY <2>1
<1>2. /\ \A k \in 0 .. Len(frames) : I(k) \in Nat
      /\ \A k \in 1 .. Len(frames) : I(k) = I(k - 1) + FrameLength(frames[k])
  BY IndexIs
<1>3. \A k \in 0 .. Len(frames) : k + 1 <= Len(frames) => I(k) < I(k + 1)
  <2> TAKE k \in 0 .. Len(frames)
  <2> HAVE k + 1 <= Len(frames)
  <2>1. k + 1 \in 1 .. Len(frames) /\ (k + 1) - 1 = k
    OBVIOUS
  <2> HIDE DEF I
  <2> QED
    BY <1>1, <1>2, <2>1
<1> HIDE DEF I
<1>4. 0 \in T
  BY <1>3
<1>5. ASSUME NEW d \in Nat, d \in T PROVE d + 1 \in T
  <2> SUFFICES ASSUME i + 1 + (d + 1) <= Len(frames) PROVE I(i) < I(i + 1 + (d + 1))
    OBVIOUS
  <2>1. i + 1 + d \in 0 .. Len(frames) /\ (i + 1 + d) + 1 = i + 1 + (d + 1)
    OBVIOUS
  <2>2. I(i + 1 + d) < I(i + 1 + (d + 1))
    BY <1>3, <2>1
  <2> QED
    BY <1>2, <1>5, <2>1, <2>2
<1>6. \A d \in Nat : d \in T
  <2> HIDE DEF T
  <2> QED
    BY <1>4, <1>5, Induction
<1>7. PICK d \in Nat : j = i + 1 + d
  <2>1. j - i - 1 \in Nat /\ j = i + 1 + (j - i - 1)
    OBVIOUS
  <2> QED
    BY <2>1
<1>8. d \in T
  BY <1>6
<1>9. I(i) < I(i + 1 + d)
  BY <1>7, <1>8
<1> QED
  BY <1>7, <1>9 DEF I

\* Where a frame begins there is its head and no other, and none at the end.
LEMMA HeadIs ==
  ASSUME NEW frames \in Seq(Frames)
  PROVE  /\ \A k \in 1 .. Len(frames) : HeadAt(frames, IndexAfter(frames, k - 1)) = {k}
         /\ HeadAt(frames, IndexAfter(frames, Len(frames))) = {}
<1>1. ASSUME NEW k \in 1 .. Len(frames), NEW j \in 1 .. Len(frames), k # j
      PROVE  IndexAfter(frames, k - 1) # IndexAfter(frames, j - 1)
  <2>1. /\ k - 1 \in 0 .. Len(frames) /\ j - 1 \in 0 .. Len(frames)
        /\ k - 1 < j - 1 \/ j - 1 < k - 1
    BY <1>1
  <2>2. IndexAfter(frames, k - 1) \in Nat /\ IndexAfter(frames, j - 1) \in Nat
    BY <2>1, IndexIs
  <2>3. \/ IndexAfter(frames, k - 1) < IndexAfter(frames, j - 1)
        \/ IndexAfter(frames, j - 1) < IndexAfter(frames, k - 1)
    BY <2>1, IndexGrows
  <2> QED
    BY <2>2, <2>3
<1>2. ASSUME NEW k \in 1 .. Len(frames)
      PROVE  IndexAfter(frames, k - 1) # IndexAfter(frames, Len(frames))
  <2>1. k - 1 \in 0 .. Len(frames) /\ Len(frames) \in 0 .. Len(frames) /\ k - 1 < Len(frames)
    OBVIOUS
  <2>2. IndexAfter(frames, k - 1) < IndexAfter(frames, Len(frames))
    BY <2>1, IndexGrows
  <2>3. IndexAfter(frames, k - 1) \in Nat /\ IndexAfter(frames, Len(frames)) \in Nat
    BY <2>1, IndexIs
  <2> QED
    BY <2>2, <2>3
<1>3. DOMAIN frames = 1 .. Len(frames)
  OBVIOUS
<1> QED
  BY <1>1, <1>2, <1>3 DEF HeadAt

\* A message from the k-th frame on.
From(frames, k) == SubSeq(frames, k, Len(frames))

\* The frames that can be decoded, one by one: nothing behind the end or behind
\* a frame that cannot, else a frame and what can be decoded behind it.
LEMMA DecodableIs ==
  ASSUME NEW frames \in Seq(Frames)
  PROVE  /\ Decodable(From(frames, Len(frames) + 1)) = <<>>
         /\ \A k \in 1 .. Len(frames) :
              Decodable(From(frames, k)) =
                IF ~frames[k].ok THEN <<>>
                ELSE <<frames[k].no>> \o Decodable(From(frames, k + 1))
<1> DEFINE Bad(s) == {i \in DOMAIN s : ~s[i].ok}
           First(s) == CHOOSE i \in Bad(s) : \A j \in Bad(s) : i <= j
           n(s) == IF Bad(s) = {} THEN Len(s) ELSE First(s) - 1
<1>1. \A s : Decodable(s) = [i \in 1 .. n(s) |-> s[i].no]
  BY DEF Decodable
<1>2. ASSUME NEW s \in Seq(Frames), Bad(s) # {}
      PROVE  First(s) \in Bad(s) /\ \A j \in Bad(s) : First(s) <= j
  <2>1. Bad(s) \in SUBSET Nat
    OBVIOUS
  <2>2. \E i \in Bad(s) : \A j \in Bad(s) : i <= j
    <3> HIDE DEF Bad
    <3> QED
      BY <1>2, <2>1, LeastOf
  <2> HIDE DEF Bad
  <2> QED
    BY <2>2
<1>3. Decodable(From(frames, Len(frames) + 1)) = <<>>
  <2>1. From(frames, Len(frames) + 1) = <<>>
    BY DEF From
  <2>2. n(<<>>) = 0
    OBVIOUS
  <2> HIDE DEF n
  <2>3. Decodable(<<>>) = [i \in 1 .. 0 |-> <<>>[i].no]
    BY <1>1, <2>2
  <2> QED
    BY <2>1, <2>3
<1>4. ASSUME NEW k \in 1 .. Len(frames)
      PROVE  Decodable(From(frames, k)) =
               IF ~frames[k].ok THEN <<>>
               ELSE <<frames[k].no>> \o Decodable(From(frames, k + 1))
  <2> DEFINE s == From(frames, k)
             t == From(frames, k + 1)
  <2>1. /\ s \in Seq(Frames) /\ Len(s) = Len(frames) - k + 1
        /\ \A i \in 1 .. Len(s) : s[i] = frames[k + i - 1]
    BY DEF From
  <2>2. /\ t \in Seq(Frames) /\ Len(t) = Len(frames) - k
        /\ \A i \in 1 .. Len(t) : t[i] = frames[k + i]
    BY DEF From
  <2> HIDE DEF s, t
  <2>3. Len(s) = Len(t) + 1 /\ Len(t) \in Nat /\ s[1] = frames[k]
    BY <2>1, <2>2
  <2>4. \A i \in 1 .. Len(t) : s[i + 1] = t[i]
    BY <2>1, <2>2
  <2>5. CASE ~frames[k].ok
    <3>1. 1 \in Bad(s)
      BY <2>1, <2>3, <2>5
    <3>2. First(s) \in 1 .. Len(s) /\ First(s) <= 1
      <4> HIDE DEF First
      <4>1. First(s) \in Bad(s) /\ First(s) <= 1
        BY <1>2, <2>1, <3>1
      <4> QED
        BY <2>1, <4>1
    <3>3. First(s) = 1
      BY <2>1, <3>2
    <3>4. n(s) = 0
      BY <3>1, <3>3
    <3> HIDE DEF n
    <3>5. Decodable(s) = [i \in 1 .. 0 |-> s[i].no]
      BY <1>1, <3>4
    <3> QED
      BY <2>5, <3>5 DEF s
  <2>6. CASE frames[k].ok
    <3>1. \A i \in 1 .. Len(t) : i \in Bad(t) <=> i + 1 \in Bad(s)
      BY <2>1, <2>2, <2>3, <2>4
    <3>2. \A i \in Bad(s) : i \in 1 .. Len(s) /\ i # 1 /\ i - 1 \in 1 .. Len(t) /\ (i - 1) + 1 = i
      BY <2>1, <2>2, <2>3, <2>6
    <3>3. \A i \in Bad(t) : i \in 1 .. Len(t)
      BY <2>2
    <3>4. n(s) = n(t) + 1 /\ n(t) \in Nat
      <4>1. CASE Bad(t) = {}
        <5>1. Bad(s) = {}
          <6> HIDE DEF Bad
          <6> QED
            BY <3>1, <3>2, <4>1
        <5> QED
          BY <2>3, <4>1, <5>1
      <4>2. CASE Bad(t) # {}
        <5> HIDE DEF Bad
        <5>1. First(t) \in Bad(t) /\ \A j \in Bad(t) : First(t) <= j
          BY <1>2, <2>2, <4>2
        <5>2. First(t) \in 1 .. Len(t) /\ First(t) + 1 \in Bad(s)
          BY <3>1, <3>3, <5>1
        <5>3. First(s) \in Bad(s) /\ \A j \in Bad(s) : First(s) <= j
          BY <1>2, <2>1, <5>2
        <5>4. First(s) - 1 \in Bad(t)
          BY <3>1, <3>2, <5>3
        <5> HIDE DEF First
        <5>5. First(s) = First(t) + 1
          BY <3>2, <5>1, <5>2, <5>3, <5>4
        <5>6. n(s) = First(s) - 1 /\ n(t) = First(t) - 1
          BY <4>2, <5>2
        <5> QED
          BY <5>2, <5>5, <5>6
      <4> QED
        BY <4>1, <4>2
    <3>5. n(t) <= Len(t)
      <4>1. CASE Bad(t) # {}
        <5>1. First(t) \in 1 .. Len(t)
          BY <1>2, <2>2, <3>3, <4>1
        <5> HIDE DEF First, Bad
        <5> QED
          BY <2>3, <4>1, <5>1
      <4> QED
        BY <2>3, <4>1
    <3> HIDE DEF n
    <3>6. Decodable(s) = [i \in 1 .. n(t) + 1 |-> s[i].no]
      BY <1>1, <3>4
    <3>7. Decodable(t) = [i \in 1 .. n(t) |-> t[i].no]
      BY <1>1
    <3>8. ASSUME NEW i \in 1 .. n(t) + 1
          PROVE  s[i].no = (<<frames[k].no>> \o Decodable(t))[i]
      <4>1. CASE i = 1
        BY <2>3, <3>4, <3>7, <4>1
      <4>2. CASE i # 1
        <5>1. i - 1 \in 1 .. n(t) /\ i - 1 \in 1 .. Len(t) /\ (i - 1) + 1 = i
          BY <2>3, <3>4, <3>5, <4>2
        <5>2. s[i] = t[i - 1]
          BY <2>4, <5>1
        <5>3. (<<frames[k].no>> \o Decodable(t))[i] = Decodable(t)[i - 1]
          BY <3>4, <3>7, <4>2
        <5> QED
          BY <3>7, <5>1, <5>2, <5>3
      <4> QED
        BY <4>1, <4>2
    <3>9. <<frames[k].no>> \o Decodable(t) = [i \in 1 .. n(t) + 1 |-> s[i].no]
      <4> DEFINE u == <<frames[k].no>> \o Decodable(t)
      <4>1. Len(u) = n(t) + 1 /\ u = [i \in 1 .. Len(u) |-> u[i]]
        BY <3>4, <3>7
      <4> QED
        BY <3>8, <4>1
    <3> QED
      BY <2>6, <3>6, <3>9 DEF s, t
  <2> QED
    BY <2>5, <2>6
<1> QED
  BY <1>3, <1>4

\* The index loop of decode finds, of a message of whole frames, exactly those
\* that come before the first that cannot be decoded.
LEMMA DecodeIsDecodable ==
  ASSUME NEW frames \in Seq(Frames)
  PROVE  Decode(frames) = Decodable(frames)
<1> DEFINE l == IndexAfter(frames, Len(frames))
           Eqn(h) == h = [index \in 0 .. l |->
              IF HeadAt(frames, index) = {} THEN <<>>
              ELSE LET f == frames[CHOOSE k \in HeadAt(frames, index) : TRUE] IN
                   IF ~f.ok \/ IndexOfEnd(f, index) >= l THEN <<>>
                   ELSE <<f.no>> \o h[IndexOfEnd(f, index) + EndLength]]
           from == CHOOSE h : Eqn(h)
           I(k) == IndexAfter(frames, k)
           D(k) == Decodable(From(frames, k))
           N == Len(frames)
           h0 == [index \in 0 .. l |->
              IF HeadAt(frames, index) = {} THEN <<>>
              ELSE D(CHOOSE k \in HeadAt(frames, index) : TRUE)]
<1>1. Decode(frames) = from[0]
  BY DEF Decode
<1>2. N \in Nat /\ N \in 0 .. N /\ l \in Nat
  BY IndexIs
<1>3. ASSUME NEW k \in 1 .. N
      PROVE  /\ I(k - 1) \in 0 .. l /\ I(k) \in 0 .. l
             /\ IndexOfEnd(frames[k], I(k - 1)) + EndLength = I(k)
             /\ ~(IndexOfEnd(frames[k], I(k - 1)) >= l)
             /\ HeadAt(frames, I(k - 1)) = {k}
  <2>1. k - 1 \in 0 .. N /\ k \in 0 .. N
    BY <1>2
  <2>2. I(k - 1) \in Nat /\ I(k) \in Nat /\ I(k) = I(k - 1) + FrameLength(frames[k])
    BY <2>1, IndexIs
  <2>3. k - 1 < N /\ (k < N \/ k = N)
    BY <1>2
  <2>4. I(k - 1) < l /\ I(k) <= l
    BY <1>2, <2>1, <2>2, <2>3, IndexGrows
  <2>5. frames[k] \in Frames
    OBVIOUS
  <2>6. /\ IndexOfEnd(frames[k], I(k - 1)) = I(k - 1) + FrameLength(frames[k]) - 1
        /\ IndexOfEnd(frames[k], I(k - 1)) + EndLength = I(k - 1) + FrameLength(frames[k])
    BY <2>2, <2>5, EndOfFrame
  <2>7. HeadAt(frames, I(k - 1)) = {k}
    BY HeadIs
  <2> HIDE DEF I, l, N
  <2>8. I(k - 1) \in 0 .. l /\ I(k) \in 0 .. l
    BY <1>2, <2>2, <2>4
  <2>9. ~(I(k) - 1 >= l)
    BY <1>2, <2>2, <2>4
  <2>10. IndexOfEnd(frames[k], I(k - 1)) = I(k) - 1
    <3>1. I(k - 1) + FrameLength(frames[k]) - 1 = I(k) - 1
      <4>1. FrameLength(frames[k]) \in Nat
        BY <2>5, LengthOfFrame
      <4> QED
        BY <2>2, <4>1
    <3> QED
      BY <2>6, <3>1
  <2> QED
    BY <2>2, <2>6, <2>7, <2>8, <2>9, <2>10
<1>4. HeadAt(frames, l) = {} /\ I(0) = 0 /\ I(N) = l
  BY HeadIs, IndexIs
<1>5. /\ D(N + 1) = <<>>
      /\ \A k \in 1 .. N : D(k) = IF ~frames[k].ok THEN <<>> ELSE <<frames[k].no>> \o D(k + 1)
  BY DecodableIs
<1>6. \A index : \A k \in HeadAt(frames, index) : k \in 1 .. N /\ I(k - 1) = index
  BY DEF HeadAt
<1> HIDE DEF l, I, D, N
<1>7. \A k \in 1 .. N : h0[I(k - 1)] = D(k)
  BY <1>3
<1>8. h0[l] = <<>> /\ \A k \in 1 .. N : h0[I(k)] = D(k + 1)
  <2>1. h0[l] = <<>>
    BY <1>2, <1>4
  <2>2. ASSUME NEW k \in 1 .. N PROVE h0[I(k)] = D(k + 1)
    <3>1. CASE k = N
      BY <1>4, <1>5, <2>1, <3>1
    <3>2. CASE k # N
      <4>1. k + 1 \in 1 .. N /\ (k + 1) - 1 = k
        BY <1>2, <3>2
      <4> HIDE DEF h0
      <4> QED
        BY <1>7, <4>1
    <3> QED
      BY <3>1, <3>2
  <2> QED
    BY <2>1, <2>2
<1>9. Eqn(h0)
  <2>1. ASSUME NEW index \in 0 .. l, HeadAt(frames, index) # {}
        PROVE  LET f == frames[CHOOSE k \in HeadAt(frames, index) : TRUE] IN
               h0[index] = IF ~f.ok \/ IndexOfEnd(f, index) >= l THEN <<>>
                           ELSE <<f.no>> \o h0[IndexOfEnd(f, index) + EndLength]
    <3>1. PICK k \in HeadAt(frames, index) : TRUE
      BY <2>1
    <3>2. k \in 1 .. N /\ I(k - 1) = index
      BY <1>6, <3>1
    <3>3. HeadAt(frames, index) = {k}
      BY <1>3, <3>2
    <3>4. (CHOOSE j \in HeadAt(frames, index) : TRUE) = k
      BY <3>3
    <3>5. h0[index] = D(k)
      BY <1>7, <3>2
    <3>6. h0[IndexOfEnd(frames[k], index) + EndLength] = D(k + 1)
      BY <1>3, <1>8, <3>2
    <3>7. ~(IndexOfEnd(frames[k], index) >= l)
      BY <1>3, <3>2
    <3>8. D(k) = IF ~frames[k].ok THEN <<>> ELSE <<frames[k].no>> \o D(k + 1)
      BY <1>5, <3>2
    <3> HIDE DEF h0
    <3> QED
      BY <3>4, <3>5, <3>6, <3>7, <3>8
  <2>2. \A index \in 0 .. l : HeadAt(frames, index) = {} => h0[index] = <<>>
    OBVIOUS
  <2>3. h0 = [index \in 0 .. l |-> h0[index]]
    OBVIOUS
  <2> HIDE DEF h0
  <2> QED
    BY <2>1, <2>2, <2>3
<1>10. Eqn(from)
  <2> HIDE DEF h0, Eqn
  <2> QED
    BY <1>9
<1> HIDE DEF h0, from
<1>11. ASSUME NEW k \in 1 .. N
       PROVE  from[I(k - 1)] = IF ~frames[k].ok THEN <<>> ELSE <<frames[k].no>> \o from[I(k)]
  <2>1. HeadAt(frames, I(k - 1)) = {k} /\ I(k - 1) \in 0 .. l
    BY <1>3
  <2>2. (CHOOSE j \in HeadAt(frames, I(k - 1)) : TRUE) = k
    BY <2>1
  <2>3. from[I(k - 1)] = IF ~frames[k].ok \/ IndexOfEnd(frames[k], I(k - 1)) >= l THEN <<>>
                         ELSE <<frames[k].no>> \o from[IndexOfEnd(frames[k], I(k - 1)) + EndLength]
    BY <1>10, <2>1, <2>2
  <2> HIDE DEF Eqn
  <2> QED
    BY <1>3, <2>3
<1>12. from[l] = <<>>
  BY <1>2, <1>4, <1>10
<1> HIDE DEF Eqn
<1> DEFINE T == {j \in Nat : j <= N => from[I(N - j)] = D(N - j + 1)}
<1>13. 0 \in T
  <2>1. N - 0 = N
    BY <1>2
  <2> QED
    BY <1>4, <1>5, <1>12, <2>1
<1>14. ASSUME NEW j \in Nat, j \in T PROVE j + 1 \in T
  <2> SUFFICES ASSUME j + 1 <= N PROVE from[I(N - (j + 1))] = D(N - (j + 1) + 1)
    OBVIOUS
  <2> DEFINE k == N - j
  <2>1. /\ k \in 1 .. N /\ N - (j + 1) = k - 1 /\ N - (j + 1) + 1 = k /\ j <= N
        /\ N - j + 1 = k + 1
    BY <1>2
  <2>2. from[I(k)] = D(k + 1)
    BY <1>14, <2>1
  <2> HIDE DEF k
  <2>3. from[I(k - 1)] = D(k)
    BY <1>5, <1>11, <2>1, <2>2
  <2> QED
    BY <2>1, <2>3
<1>15. \A j \in Nat : j \in T
  <2> HIDE DEF T
  <2> QED
    BY <1>13, <1>14, Induction
<1>16. N \in T /\ N - N = 0 /\ N - N + 1 = 1
  BY <1>2, <1>15
<1>17. from[I(0)] = D(1)
  BY <1>2, <1>16
<1>18. From(frames, 1) = frames
  BY DEF From
<1> QED
  BY <1>1, <1>4, <1>17, <1>18 DEF D

\* What can be decoded of a message is the names of some of its first frames.
LEMMA DecodableLen ==
  ASSUME NEW frames \in Seq(Frames)
  PROVE  \E n \in 0 .. Len(frames) : Decodable(frames) = [i \in 1 .. n |-> frames[i].no]
<1> DEFINE bad == {i \in DOMAIN frames : ~frames[i].ok}
           first == CHOOSE i \in bad : \A j \in bad : i <= j
<1>1. CASE bad = {}
  <2>1. Decodable(frames) = [i \in 1 .. Len(frames) |-> frames[i].no]
    BY <1>1 DEF Decodable
  <2> QED
    BY <2>1
<1>2. CASE bad # {}
  <2>1. bad \in SUBSET Nat /\ bad \subseteq 1 .. Len(frames)
    OBVIOUS
  <2>2. Decodable(frames) = [i \in 1 .. first - 1 |-> frames[i].no]
    BY <1>2 DEF Decodable
  <2> HIDE DEF bad
  <2>3. \E i \in bad : \A j \in bad : i <= j
    BY <1>2, <2>1, LeastOf
  <2>4. first \in bad
    BY <2>3
  <2> HIDE DEF first
  <2>5. first - 1 \in 0 .. Len(frames)
    BY <2>1, <2>4
  <2> QED
    BY <2>2, <2>5
<1> QED
  BY <1>1, <1>2

\* These are names of frames.
LEMMA DecodableType ==
  ASSUME NEW frames \in Seq(Frames)
  PROVE  Decodable(frames) \in Seq(Numbers)
<1>1. PICK n \in 0 .. Len(frames) : Decodable(frames) = [i \in 1 .. n |-> frames[i].no]
  BY DecodableLen
<1>2. ASSUME NEW i \in 1 .. n PROVE frames[i].no \in Numbers
  <2>1. frames[i] \in Frames
    OBVIOUS
  <2> QED
    BY <2>1 DEF Frames
<1> QED
  BY <1>1, <1>2

------------------------------------------------------------------------------
(* The frames of a line in a part of the path.                               *)

\* The part of a line in each result or message.
ResultParts(p, rs) == [i \in DOMAIN rs |-> PartOf(p, rs[i], rs[i].items)]
MessageParts(p, ms) == [i \in DOMAIN ms |-> PartOf(p, ms[i], Decodable(ms[i].frames))]

\* They are sequences of sequences of names of frames.
LEMMA ResultPartTypes ==
  ASSUME NEW p, NEW rs \in Seq(Results)
  PROVE  /\ ResultParts(p, rs) \in Seq(Seq(Numbers)) /\ Len(ResultParts(p, rs)) = Len(rs)
         /\ ItemsOf(p, rs) \in Seq(Numbers)
<1> DEFINE X == Seq(Numbers)
<1>1. ASSUME NEW i \in 1 .. Len(rs) PROVE PartOf(p, rs[i], rs[i].items) \in X
  <2>1. rs[i] \in Results
    OBVIOUS
  <2> QED
    BY <2>1 DEF PartOf, Results
<1>2. DOMAIN rs = 1 .. Len(rs) /\ Len(rs) \in Nat
  OBVIOUS
<1>3. ResultParts(p, rs) \in Seq(X) /\ Len(ResultParts(p, rs)) = Len(rs)
  <2> HIDE DEF X
  <2> QED
    BY <1>1, <1>2 DEF ResultParts
<1>4. ItemsOf(p, rs) = FlattenSeq(ResultParts(p, rs))
  BY DEF ItemsOf, ResultParts
<1> QED
  BY <1>3, <1>4, FlattenType

\* The same for the parts of messages.
LEMMA MessagePartTypes ==
  ASSUME NEW p, NEW ms \in Seq(Messages)
  PROVE  /\ MessageParts(p, ms) \in Seq(Seq(Numbers)) /\ Len(MessageParts(p, ms)) = Len(ms)
         /\ FramesOf(p, ms) \in Seq(Numbers)
<1> DEFINE X == Seq(Numbers)
<1>1. ASSUME NEW i \in 1 .. Len(ms) PROVE PartOf(p, ms[i], Decodable(ms[i].frames)) \in X
  <2>1. ms[i] \in Messages
    OBVIOUS
  <2>2. Decodable(ms[i].frames) \in Seq(Numbers)
    BY <2>1, DecodableType DEF Messages
  <2> QED
    BY <2>2 DEF PartOf
<1>2. DOMAIN ms = 1 .. Len(ms) /\ Len(ms) \in Nat
  OBVIOUS
<1>3. MessageParts(p, ms) \in Seq(X) /\ Len(MessageParts(p, ms)) = Len(ms)
  <2> HIDE DEF X
  <2> QED
    BY <1>1, <1>2 DEF MessageParts
<1>4. FramesOf(p, ms) = FlattenSeq(MessageParts(p, ms))
  BY DEF FramesOf, MessageParts
<1> QED
  BY <1>3, <1>4, FlattenType

\* The parts of what is under way together follow each other.
LEMMA ItemsConcat ==
  ASSUME NEW p, NEW a \in Seq(Results), NEW b \in Seq(Results)
  PROVE  ItemsOf(p, a \o b) = ItemsOf(p, a) \o ItemsOf(p, b)
<1> DEFINE X == Seq(Numbers)
           A == ResultParts(p, a)
           B == ResultParts(p, b)
           C == ResultParts(p, a \o b)
<1>1. /\ a \o b \in Seq(Results) /\ Len(a \o b) = Len(a) + Len(b)
      /\ \A i \in 1 .. Len(a) : (a \o b)[i] = a[i]
      /\ \A i \in 1 .. Len(b) : (a \o b)[Len(a) + i] = b[i]
      /\ Len(a) \in Nat /\ Len(b) \in Nat
  OBVIOUS
<1>2. A \in Seq(X) /\ Len(A) = Len(a) /\ B \in Seq(X) /\ Len(B) = Len(b)
  BY ResultPartTypes
<1>3. C \in Seq(X) /\ Len(C) = Len(a) + Len(b)
  BY <1>1, ResultPartTypes
<1>4. /\ DOMAIN a = 1 .. Len(a) /\ DOMAIN b = 1 .. Len(b)
      /\ DOMAIN (a \o b) = 1 .. Len(a) + Len(b)
  BY <1>1
<1>5. \A i \in 1 .. Len(a) : C[i] = A[i]
  BY <1>1, <1>4 DEF ResultParts
<1>6. \A i \in 1 .. Len(b) : C[Len(a) + i] = B[i]
  BY <1>1, <1>4 DEF ResultParts
<1>7. C = A \o B
  <2> HIDE DEF X, A, B, C
  <2>1. /\ Len(C) = Len(A) + Len(B)
        /\ \A i \in 1 .. Len(A) : C[i] = A[i]
        /\ \A i \in 1 .. Len(B) : C[Len(A) + i] = B[i]
    BY <1>2, <1>3, <1>5, <1>6
  <2> QED
    BY <1>2, <1>3, <2>1, IsConcat
<1>8. FlattenSeq(A \o B) = FlattenSeq(A) \o FlattenSeq(B)
  <2> HIDE DEF A, B
  <2> QED
    BY <1>2, FlattenConcat
<1> QED
  BY <1>7, <1>8 DEF ItemsOf, ResultParts

\* The same for messages.
LEMMA FramesConcat ==
  ASSUME NEW p, NEW a \in Seq(Messages), NEW b \in Seq(Messages)
  PROVE  FramesOf(p, a \o b) = FramesOf(p, a) \o FramesOf(p, b)
<1> DEFINE X == Seq(Numbers)
           A == MessageParts(p, a)
           B == MessageParts(p, b)
           C == MessageParts(p, a \o b)
<1>1. /\ a \o b \in Seq(Messages) /\ Len(a \o b) = Len(a) + Len(b)
      /\ \A i \in 1 .. Len(a) : (a \o b)[i] = a[i]
      /\ \A i \in 1 .. Len(b) : (a \o b)[Len(a) + i] = b[i]
      /\ Len(a) \in Nat /\ Len(b) \in Nat
  OBVIOUS
<1>2. A \in Seq(X) /\ Len(A) = Len(a) /\ B \in Seq(X) /\ Len(B) = Len(b)
  BY MessagePartTypes
<1>3. C \in Seq(X) /\ Len(C) = Len(a) + Len(b)
  BY <1>1, MessagePartTypes
<1>4. /\ DOMAIN a = 1 .. Len(a) /\ DOMAIN b = 1 .. Len(b)
      /\ DOMAIN (a \o b) = 1 .. Len(a) + Len(b)
  BY <1>1
<1>5. \A i \in 1 .. Len(a) : C[i] = A[i]
  BY <1>1, <1>4 DEF MessageParts
<1>6. \A i \in 1 .. Len(b) : C[Len(a) + i] = B[i]
  BY <1>1, <1>4 DEF MessageParts
<1>7. C = A \o B
  <2> HIDE DEF X, A, B, C
  <2>1. /\ Len(C) = Len(A) + Len(B)
        /\ \A i \in 1 .. Len(A) : C[i] = A[i]
        /\ \A i \in 1 .. Len(B) : C[Len(A) + i] = B[i]
    BY <1>2, <1>3, <1>5, <1>6
  <2> QED
    BY <1>2, <1>3, <2>1, IsConcat
<1>8. FlattenSeq(A \o B) = FlattenSeq(A) \o FlattenSeq(B)
  <2> HIDE DEF A, B
  <2> QED
    BY <1>2, FlattenConcat
<1> QED
  BY <1>7, <1>8 DEF FramesOf, MessageParts

\* How the parts are put together does not matter.
LEMMA NumbersAssociate ==
  \A a, b, c \in Seq(Numbers) : (a \o b) \o c = a \o (b \o c)
BY ConcatAssociative

\* The same for the results of a channel.
LEMMA ResultsAssociate ==
  \A a, b, c \in Seq(Results) : (a \o b) \o c = a \o (b \o c)
BY ConcatAssociative

\* And for messages.
LEMMA MessagesAssociate ==
  \A a, b, c \in Seq(Messages) : (a \o b) \o c = a \o (b \o c)
BY ConcatAssociative

\* A part by itself.
LEMMA ItemsSingle ==
  ASSUME NEW p, NEW r \in Results
  PROVE  ItemsOf(p, <<r>>) = PartOf(p, r, r.items) /\ ItemsOf(p, <<>>) = <<>>
<1>1. [i \in DOMAIN <<r>> |-> PartOf(p, <<r>>[i], <<r>>[i].items)] = <<PartOf(p, r, r.items)>>
  OBVIOUS
<1>2. [i \in DOMAIN <<>> |-> PartOf(p, <<>>[i], <<>>[i].items)] = <<>>
  OBVIOUS
<1>3. PartOf(p, r, r.items) \in Seq(Numbers)
  BY DEF PartOf, Results
<1> QED
  BY <1>1, <1>2, <1>3, FlattenSingle, FlattenEmpty DEF ItemsOf

\* The frames of one message.
LEMMA FramesSingle ==
  ASSUME NEW p, NEW m \in Messages
  PROVE  FramesOf(p, <<m>>) = PartOf(p, m, Decodable(m.frames)) /\ FramesOf(p, <<>>) = <<>>
<1>1. [i \in DOMAIN <<m>> |-> PartOf(p, <<m>>[i], Decodable(<<m>>[i].frames))]
        = <<PartOf(p, m, Decodable(m.frames))>>
  OBVIOUS
<1>2. [i \in DOMAIN <<>> |-> PartOf(p, <<>>[i], Decodable(<<>>[i].frames))] = <<>>
  OBVIOUS
<1>3. PartOf(p, m, Decodable(m.frames)) \in Seq(Numbers)
  BY DecodableType DEF PartOf, Messages
<1> QED
  BY <1>1, <1>2, <1>3, FlattenSingle, FlattenEmpty DEF FramesOf

\* Nothing of a line in another line's message.
LEMMA OtherLine ==
  ASSUME NEW p, NEW m \in Messages, m.from # p[1] \/ m.key # p[2],
         NEW a \in Seq(Messages), NEW b \in Seq(Messages)
  PROVE  FramesOf(p, a \o (<<m>> \o b)) = FramesOf(p, a \o b)
<1>1. FramesOf(p, <<m>>) = <<>>
  BY FramesSingle DEF PartOf
<1>2. <<m>> \in Seq(Messages) /\ <<m>> \o b \in Seq(Messages)
  OBVIOUS
<1>3. FramesOf(p, <<m>> \o b) = FramesOf(p, <<m>>) \o FramesOf(p, b)
  BY <1>2, FramesConcat
<1>4. FramesOf(p, a \o (<<m>> \o b)) = FramesOf(p, a) \o FramesOf(p, <<m>> \o b)
  BY <1>2, FramesConcat
<1>5. FramesOf(p, a \o b) = FramesOf(p, a) \o FramesOf(p, b)
  BY FramesConcat
<1>6. FramesOf(p, b) \in Seq(Numbers)
  BY MessagePartTypes
<1>7. <<>> \o FramesOf(p, b) = FramesOf(p, b)
  BY <1>6
<1> QED
  BY <1>1, <1>3, <1>4, <1>5, <1>7

------------------------------------------------------------------------------
(* The inductive invariant.                                                  *)

\* Messages that are on their way to a worker.
Keyed == {m \in Messages : m.key \in Keys}

MessageTypes ==
  /\ received \in [Streams -> Nat] /\ \A st \in Streams : received[st] <= MaxMessages[st]
  /\ sending \in [Streams -> Messages \cup {None}]
  /\ \A st \in Streams : sending[st] # None => sending[st].from = st
  /\ grpcmessage \in Seq(Messages) /\ Len(grpcmessage) <= GrpcCap
  /\ dispatching \in Keyed \cup {None} /\ returned \in BOOLEAN
  /\ jobs \in [Workers -> Seq(Keyed)] /\ \A w \in Workers : Len(jobs[w]) <= JobCap

ResultTypes ==
  /\ decoded \in [Workers -> Results \cup {None}]
  /\ results \in [Workers -> Seq(Results)] /\ \A w \in Workers : Len(results[w]) <= ResultCap
  /\ offered \in [Lines -> Seq(Numbers)] /\ done \in [Lines -> Seq(Numbers)]

\* A worker has messages and results only of sensors that are its own.
AtHome(w, x) == x.key \in Keys /\ WorkerOf[x.key] = w

KeysAtHome ==
  /\ \A w \in Workers : \A i \in DOMAIN jobs[w] : AtHome(w, jobs[w][i])
  /\ \A w \in Workers : decoded[w] # None => AtHome(w, decoded[w])
  /\ \A w \in Workers : \A i \in DOMAIN results[w] : AtHome(w, results[w][i])

\* The decoded frames of a line that its worker has not taken.
ToTake(p) == results[WorkerOf[p[2]]] \o Held(decoded[WorkerOf[p[2]]])

\* Kafka has been offered what the worker has taken and what it will take next.
OfferedIsOnItsWay == \A p \in Lines : offered[p] = done[p] \o ItemsOf(p, ToTake(p))

IInv == MessageTypes /\ ResultTypes /\ KeysAtHome /\ OfferedIsOnItsWay

------------------------------------------------------------------------------
(* The steps.                                                                *)

\* The capacities are numbers, and the worker of a sensor is a worker.
LEMMA Sizes ==
  /\ GrpcCap \in Nat /\ JobCap \in Nat /\ ResultCap \in Nat /\ MaxFrames \in Nat
  /\ \A st \in Streams : MaxMessages[st] \in Nat
  /\ \A k \in Keys : WorkerOf[k] \in Workers
BY DispatchAssumption

\* At the start nothing is under way.
LEMMA InvInit == Init => IInv
<1> SUFFICES ASSUME Init PROVE IInv
  OBVIOUS
<1>1. MessageTypes
  <2>1. \A st \in Streams : received[st] = 0 /\ sending[st] = None
    BY DEF Init
  <2>2. /\ received \in [Streams -> Nat] /\ sending \in [Streams -> Messages \cup {None}]
        /\ \A st \in Streams : received[st] <= MaxMessages[st]
    BY <2>1, Sizes DEF Init
  <2>3. grpcmessage \in Seq(Messages) /\ Len(grpcmessage) <= GrpcCap
    BY Sizes DEF Init
  <2>4. jobs \in [Workers -> Seq(Keyed)] /\ \A w \in Workers : Len(jobs[w]) <= JobCap
    <3>1. <<>> \in Seq(Keyed) /\ Len(<<>>) = 0
      OBVIOUS
    <3> QED
      BY <3>1, Sizes DEF Init
  <2> QED
    BY <2>1, <2>2, <2>3, <2>4 DEF Init, MessageTypes
<1>2. ResultTypes
  BY DispatchAssumption DEF Init, ResultTypes
<1>3. KeysAtHome
  BY DEF Init, KeysAtHome
<1>4. OfferedIsOnItsWay
  <2> SUFFICES ASSUME NEW p \in Lines PROVE offered[p] = done[p] \o ItemsOf(p, ToTake(p))
    BY DEF OfferedIsOnItsWay
  <2>1. WorkerOf[p[2]] \in Workers
    BY DispatchAssumption DEF Lines
  <2>2. ToTake(p) = <<>> /\ offered[p] = <<>> /\ done[p] = <<>>
    BY <2>1 DEF Init, ToTake, Held
  <2>3. ItemsOf(p, <<>>) = <<>>
    BY FlattenEmpty DEF ItemsOf
  <2> QED
    BY <2>2, <2>3
<1> QED
  BY <1>1, <1>2, <1>3, <1>4 DEF IInv

\* What Recv makes of the content is a message.
LEMMA Received ==
  ASSUME NEW st \in Streams, NEW n \in Nat, NEW key \in KeysOf[st], NEW content \in Contents
  PROVE  [from |-> st, key |-> key,
          frames |-> [i \in DOMAIN content |->
                        [no |-> <<n, i>>, data |-> content[i].data, ok |-> content[i].ok]]]
         \in Messages
<1>1. content \in Seq([data : Nat, ok : BOOLEAN]) /\ Len(content) <= MaxFrames
  BY DispatchAssumption
<1>2. key \in Keys \cup {NoKey}
  BY DispatchAssumption
<1>3. MaxFrames \in Nat
  BY DispatchAssumption
<1>4. ASSUME NEW i \in 1 .. Len(content)
      PROVE  [no |-> <<n, i>>, data |-> content[i].data, ok |-> content[i].ok] \in Frames
  <2>1. <<n, i>> \in Numbers
    BY <1>1, <1>3 DEF Numbers
  <2>2. content[i] \in [data : Nat, ok : BOOLEAN]
    <3> DEFINE R == [data : Nat, ok : BOOLEAN]
    <3>1. content \in Seq(R)
      BY <1>1
    <3> HIDE DEF R
    <3>2. content[i] \in R
      BY <3>1
    <3> QED
      BY <3>2 DEF R
  <2> QED
    BY <2>1, <2>2 DEF Frames
<1>5. [i \in 1 .. Len(content) |->
         [no |-> <<n, i>>, data |-> content[i].data, ok |-> content[i].ok]] \in Seq(Frames)
  BY <1>1, <1>4
<1>6. DOMAIN content = 1 .. Len(content)
  BY <1>1
<1> QED
  BY <1>2, <1>5, <1>6 DEF Messages

\* The steps keep the types of what lies before the workers.
LEMMA MessageStep == ASSUME MessageTypes, [Next]_vars PROVE MessageTypes'
<1> USE DEF MessageTypes
<1>1. ASSUME NEW st \in Streams, NEW key \in KeysOf[st], NEW content \in Contents,
             Recv(st, key, content)
      PROVE  MessageTypes'
  <2>1. received'[st] \in Nat /\ received'[st] <= MaxMessages[st]
    BY <1>1, Sizes DEF Recv
  <2>2. sending' \in [Streams -> Messages \cup {None}] /\ sending'[st].from = st
    BY <1>1, <2>1, Received DEF Recv
  <2>3. \A u \in Streams : u # st => sending'[u] = sending[u] /\ received'[u] = received[u]
    BY <1>1 DEF Recv
  <2>4. received' \in [Streams -> Nat]
    BY <1>1 DEF Recv
  <2> QED
    BY <1>1, <2>1, <2>2, <2>3, <2>4 DEF Recv, dispatcherVars
<1>2. ASSUME NEW st \in Streams, SendMessage(st) PROVE MessageTypes'
  <2>1. grpcmessage' \in Seq(Messages) /\ Len(grpcmessage') <= GrpcCap
    BY <1>2, Sizes DEF SendMessage, HasRoom
  <2> QED
    BY <1>2, <2>1 DEF SendMessage, dispatcherVars
<1>3. CASE TakeMessage
  <2>1. Head(grpcmessage) \in Messages /\ grpcmessage' \in Seq(Messages) /\ Len(grpcmessage') <= GrpcCap
    BY <1>3, Sizes DEF TakeMessage
  <2>2. dispatching' \in Keyed \cup {None}
    BY <1>3, <2>1 DEF TakeMessage, HasKey, Keyed, Messages
  <2> QED
    BY <1>3, <2>1, <2>2 DEF TakeMessage, streamVars
<1>4. CASE DispatchMessage
  <2> DEFINE w == JobChan(dispatching)
  <2>1. dispatching \in Keyed /\ w \in Workers
    BY <1>4, Sizes DEF DispatchMessage, JobChan, Keyed
  <2>2. jobs' = [jobs EXCEPT ![w] = Append(@, dispatching)] /\ Len(jobs[w]) < JobCap
    BY <1>4 DEF DispatchMessage, HasRoom
  <2> HIDE DEF w
  <2>3. jobs'[w] \in Seq(Keyed) /\ Len(jobs'[w]) <= JobCap
    BY <2>1, <2>2, Sizes
  <2>4. jobs' \in [Workers -> Seq(Keyed)] /\ \A v \in Workers : Len(jobs'[v]) <= JobCap
    BY <2>1, <2>2, <2>3
  <2> QED
    BY <1>4, <2>4 DEF DispatchMessage, streamVars
<1>5. CASE SignalDispatcher
  BY <1>5 DEF SignalDispatcher, streamVars
<1>6. ASSUME NEW w \in Workers, DecodeJob(w) PROVE MessageTypes'
  <2>1. jobs' = [jobs EXCEPT ![w] = Tail(@)] /\ jobs[w] # <<>>
    BY <1>6 DEF DecodeJob, Decoded
  <2>2. jobs'[w] \in Seq(Keyed) /\ Len(jobs'[w]) <= JobCap
    BY <2>1, Sizes
  <2>3. jobs' \in [Workers -> Seq(Keyed)] /\ \A v \in Workers : Len(jobs'[v]) <= JobCap
    BY <2>1, <2>2
  <2> QED
    BY <1>6, <2>3 DEF DecodeJob, Decoded, streamVars, dispatcherVars
<1>7. ASSUME NEW w \in Workers, Output(w) PROVE MessageTypes'
  BY <1>7 DEF Output, streamVars, dispatcherVars
<1>8. ASSUME NEW w \in Workers, TakeResult(w) PROVE MessageTypes'
  BY <1>8 DEF TakeResult, streamVars, dispatcherVars
<1>9. CASE UNCHANGED vars
  BY <1>9 DEF vars, streamVars, dispatcherVars
<1> QED
  BY <1>1, <1>2, <1>3, <1>4, <1>5, <1>6, <1>7, <1>8, <1>9 DEF Next, Callback

\* What decode makes of the first message of a worker: a result of the same
\* stream and sensor, with the frames of the message that can be decoded.
LEMMA DecodedIs ==
  ASSUME MessageTypes, NEW w \in Workers, DecodeJob(w), KeysAtHome
  PROVE  LET m == Head(jobs[w])
             r == [from |-> m.from, key |-> m.key, items |-> Decodable(m.frames)]
         IN  /\ m \in Messages /\ r \in Results /\ <<m.from, m.key>> \in Lines /\ WorkerOf[m.key] = w
             /\ decoded' = [decoded EXCEPT ![w] = r]
             /\ offered' = [offered EXCEPT ![<<m.from, m.key>>] = @ \o r.items]
             /\ jobs' = [jobs EXCEPT ![w] = Tail(@)]
<1> DEFINE m == Head(jobs[w])
<1>1. jobs[w] \in Seq(Keyed) /\ jobs[w] # <<>>
  BY DEF MessageTypes, DecodeJob
<1>2. m \in Keyed /\ m = jobs[w][1] /\ 1 \in DOMAIN jobs[w]
  BY <1>1
<1>3. m \in Messages /\ m.key \in Keys /\ m.from \in Streams /\ m.frames \in Seq(Frames)
  BY <1>2 DEF Keyed, Messages
<1>4. WorkerOf[m.key] = w
  BY <1>2 DEF KeysAtHome, AtHome
<1>5. Decode(m.frames) = Decodable(m.frames) /\ Decodable(m.frames) \in Seq(Numbers)
  BY <1>3, DecodeIsDecodable, DecodableType
<1>6. [from |-> m.from, key |-> m.key, items |-> Decodable(m.frames)] \in Results
  BY <1>3, <1>5 DEF Results
<1>7. <<m.from, m.key>> \in Lines
  BY <1>3 DEF Lines
<1> QED
  BY <1>3, <1>4, <1>5, <1>6, <1>7 DEF DecodeJob, Decoded

\* The steps keep the types of results and of what is counted.
LEMMA ResultStep ==
  ASSUME MessageTypes, ResultTypes, KeysAtHome, [Next]_vars
  PROVE  ResultTypes'
<1> USE DEF ResultTypes
<1>1. ASSUME NEW w \in Workers, DecodeJob(w) PROVE ResultTypes'
  <2> DEFINE m == Head(jobs[w])
             r == [from |-> m.from, key |-> m.key, items |-> Decodable(m.frames)]
  <2>1. /\ r \in Results /\ <<m.from, m.key>> \in Lines
        /\ decoded' = [decoded EXCEPT ![w] = r]
        /\ offered' = [offered EXCEPT ![<<m.from, m.key>>] = @ \o r.items]
    BY <1>1, DecodedIs
  <2>2. r.items \in Seq(Numbers)
    BY <2>1 DEF Results
  <2> HIDE DEF m, r
  <2>3. decoded' \in [Workers -> Results \cup {None}]
    BY <2>1
  <2>4. offered' \in [Lines -> Seq(Numbers)]
    BY <2>1, <2>2
  <2> QED
    BY <1>1, <2>3, <2>4 DEF DecodeJob, Decoded
<1>2. ASSUME NEW w \in Workers, Output(w) PROVE ResultTypes'
  <2>1. decoded[w] \in Results /\ Len(results[w]) < ResultCap
    BY <1>2 DEF Output, HasRoom
  <2>2. /\ results' = [results EXCEPT ![w] = Append(@, decoded[w])]
        /\ decoded' = [decoded EXCEPT ![w] = None]
    BY <1>2 DEF Output
  <2>3. results'[w] \in Seq(Results) /\ Len(results'[w]) <= ResultCap
    BY <2>1, <2>2, Sizes
  <2>4. results' \in [Workers -> Seq(Results)] /\ \A v \in Workers : Len(results'[v]) <= ResultCap
    BY <2>2, <2>3
  <2> QED
    BY <1>2, <2>2, <2>4 DEF Output
<1>3. ASSUME NEW w \in Workers, TakeResult(w) PROVE ResultTypes'
  <2> DEFINE r == Head(results[w])
  <2>1. r \in Results /\ results[w] # <<>>
    BY <1>3 DEF TakeResult
  <2>2. /\ results' = [results EXCEPT ![w] = Tail(@)]
        /\ done' = [done EXCEPT ![<<r.from, r.key>>] = @ \o r.items]
    BY <1>3 DEF TakeResult
  <2>3. <<r.from, r.key>> \in Lines /\ r.items \in Seq(Numbers)
    BY <2>1 DEF Results, Lines
  <2>4. results'[w] \in Seq(Results) /\ Len(results'[w]) <= ResultCap
    BY <2>1, <2>2, Sizes
  <2>5. results' \in [Workers -> Seq(Results)] /\ \A v \in Workers : Len(results'[v]) <= ResultCap
    BY <2>2, <2>4
  <2> HIDE DEF r
  <2>6. done' \in [Lines -> Seq(Numbers)]
    BY <2>2, <2>3
  <2> QED
    BY <1>3, <2>5, <2>6 DEF TakeResult
<1>4. CASE UNCHANGED <<decoded, results, offered, done>>
  BY <1>4
<1> QED
  BY <1>1, <1>2, <1>3, <1>4
     DEF Next, Callback, vars, Recv, SendMessage, TakeMessage, DispatchMessage, SignalDispatcher

\* The steps keep keys with their workers.
LEMMA HomeStep == ASSUME IInv, [Next]_vars PROVE KeysAtHome'
<1> USE DEF IInv, MessageTypes, ResultTypes
<1>1. CASE DispatchMessage
  <2> DEFINE w == WorkerOf[dispatching.key]
  <2>1. dispatching \in Keyed /\ dispatching.key \in Keys /\ w \in Workers
    BY <1>1, DispatchAssumption DEF DispatchMessage, Keyed
  <2>2. jobs' = [jobs EXCEPT ![w] = Append(@, dispatching)] /\ UNCHANGED <<decoded, results>>
    BY <1>1 DEF DispatchMessage, JobChan
  <2>3. jobs'[w] = Append(jobs[w], dispatching) /\ jobs[w] \in Seq(Keyed)
    BY <2>1, <2>2
  <2>4. ASSUME NEW i \in DOMAIN jobs'[w] PROVE AtHome(w, jobs'[w][i])
    <3>1. i \in 1 .. Len(jobs[w]) \/ i = Len(jobs[w]) + 1
      BY <2>3, <2>4
    <3>2. CASE i \in 1 .. Len(jobs[w])
      <4>1. jobs'[w][i] = jobs[w][i] /\ i \in DOMAIN jobs[w]
        BY <2>3, <3>2
      <4> QED
        BY <2>1, <4>1 DEF KeysAtHome
    <3>3. CASE i = Len(jobs[w]) + 1
      <4>1. jobs'[w][i] = dispatching
        BY <2>3, <3>3
      <4> QED
        BY <2>1, <4>1 DEF AtHome
    <3> QED
      BY <3>1, <3>2, <3>3
  <2>5. \A v \in Workers : v # w => jobs'[v] = jobs[v]
    BY <2>2
  <2> HIDE DEF w
  <2> QED
    BY <2>2, <2>4, <2>5 DEF KeysAtHome
<1>2. ASSUME NEW w \in Workers, DecodeJob(w) PROVE KeysAtHome'
  <2>1. jobs[w] \in Seq(Keyed) /\ jobs[w] # <<>>
    BY <1>2 DEF DecodeJob
  <2>2. AtHome(w, Head(jobs[w]))
    BY <2>1 DEF KeysAtHome
  <2>3. decoded'[w].key = Head(jobs[w]).key
    BY <1>2 DEF DecodeJob, Decoded
  <2>4. AtHome(w, decoded'[w])
    BY <2>2, <2>3 DEF AtHome
  <2>5. jobs'[w] = Tail(jobs[w]) /\ UNCHANGED results
    BY <1>2 DEF DecodeJob, Decoded
  <2>6. \A i \in DOMAIN jobs'[w] : AtHome(w, jobs'[w][i])
    BY <2>1, <2>5 DEF KeysAtHome
  <2>7. \A v \in Workers : v # w => jobs'[v] = jobs[v] /\ decoded'[v] = decoded[v]
    BY <1>2 DEF DecodeJob, Decoded
  <2> QED
    BY <2>4, <2>5, <2>6, <2>7 DEF KeysAtHome
<1>3. ASSUME NEW w \in Workers, Output(w) PROVE KeysAtHome'
  <2>1. PICK S : results[w] \in Seq(S)
    OBVIOUS
  <2>2. results'[w] = Append(results[w], decoded[w]) /\ UNCHANGED jobs
    BY <1>3 DEF Output
  <2>3. AtHome(w, decoded[w])
    BY <1>3 DEF Output, KeysAtHome
  <2>4. ASSUME NEW i \in DOMAIN results'[w] PROVE AtHome(w, results'[w][i])
    <3>1. results[w] \in Seq(S \cup {decoded[w]})
      BY <2>1, SeqWider
    <3>2. \/ i \in DOMAIN results[w] /\ results'[w][i] = results[w][i]
          \/ results'[w][i] = decoded[w]
      BY <2>2, <2>4, <3>1
    <3> QED
      BY <2>3, <3>2 DEF KeysAtHome
  <2>5. \A v \in Workers : v # w => results'[v] = results[v] /\ decoded'[v] = decoded[v]
    BY <1>3 DEF Output
  <2>6. decoded'[w] = None
    BY <1>3 DEF Output
  <2> QED
    BY <2>2, <2>4, <2>5, <2>6 DEF KeysAtHome
<1>4. ASSUME NEW w \in Workers, TakeResult(w) PROVE KeysAtHome'
  <2>1. PICK S : results[w] \in Seq(S)
    OBVIOUS
  <2>2. results'[w] = Tail(results[w]) /\ results[w] # <<>> /\ UNCHANGED <<jobs, decoded>>
    BY <1>4 DEF TakeResult
  <2>3. \A i \in DOMAIN results'[w] : AtHome(w, results'[w][i])
    BY <2>1, <2>2 DEF KeysAtHome
  <2>4. \A v \in Workers : v # w => results'[v] = results[v]
    BY <1>4 DEF TakeResult
  <2> QED
    BY <2>2, <2>3, <2>4 DEF KeysAtHome
<1>5. CASE UNCHANGED <<jobs, decoded, results>>
  BY <1>5 DEF KeysAtHome
<1> QED
  BY <1>1, <1>2, <1>3, <1>4, <1>5
     DEF Next, Callback, vars, Recv, SendMessage, TakeMessage, SignalDispatcher

\* What lies on the way of a line.
LEMMA LineTypes ==
  ASSUME IInv, NEW p \in Lines
  PROVE  /\ WorkerOf[p[2]] \in Workers /\ results[WorkerOf[p[2]]] \in Seq(Results)
         /\ Held(decoded[WorkerOf[p[2]]]) \in Seq(Results) /\ ToTake(p) \in Seq(Results)
         /\ ItemsOf(p, ToTake(p)) \in Seq(Numbers)
         /\ offered[p] \in Seq(Numbers) /\ done[p] \in Seq(Numbers)
         /\ offered[p] = done[p] \o ItemsOf(p, ToTake(p))
<1> DEFINE w == WorkerOf[p[2]]
<1>1. w \in Workers
  BY Sizes DEF Lines
<1>2. results[w] \in Seq(Results) /\ Held(decoded[w]) \in Seq(Results)
  BY <1>1 DEF IInv, ResultTypes, Held
<1>3. ToTake(p) \in Seq(Results)
  BY <1>2 DEF ToTake
<1>4. ItemsOf(p, ToTake(p)) \in Seq(Numbers)
  BY <1>3, ResultPartTypes
<1> QED
  BY <1>1, <1>2, <1>3, <1>4 DEF IInv, ResultTypes, OfferedIsOnItsWay

\* decode adds its result to what the worker will take, and to what is offered.
LEMMA DecodeAdds ==
  ASSUME IInv, NEW w \in Workers, DecodeJob(w), NEW p \in Lines
  PROVE  LET m == Head(jobs[w])
             part == PartOf(p, m, Decodable(m.frames))
         IN  /\ part \in Seq(Numbers) /\ offered'[p] = offered[p] \o part
             /\ ItemsOf(p, ToTake(p)') = ItemsOf(p, ToTake(p)) \o part
             /\ WorkerOf[p[2]] # w => part = <<>>
<1> DEFINE m == Head(jobs[w])
           r == [from |-> m.from, key |-> m.key, items |-> Decodable(m.frames)]
           part == PartOf(p, r, r.items)
<1>1. /\ r \in Results /\ <<m.from, m.key>> \in Lines /\ WorkerOf[m.key] = w
      /\ decoded' = [decoded EXCEPT ![w] = r]
      /\ offered' = [offered EXCEPT ![<<m.from, m.key>>] = @ \o r.items]
  BY DecodedIs DEF IInv
<1>2. r.from = m.from /\ r.key = m.key /\ decoded[w] = None /\ UNCHANGED <<results, done>>
  BY DEF DecodeJob, Decoded
<1>3. r # None
  BY <1>1, NoneAssumption
<1>4. decoded \in [Workers -> Results \cup {None}] /\ offered \in [Lines -> Seq(Numbers)]
  BY DEF IInv, ResultTypes
<1>5. part = PartOf(p, m, Decodable(m.frames))
  BY DEF PartOf
<1> HIDE DEF m, r
<1>6. part \in Seq(Numbers)
  BY <1>1 DEF PartOf, Results
<1>7. offered'[p] = offered[p] \o part
  <2>1. CASE p = <<m.from, m.key>>
    <3>1. part = r.items
      BY <1>2, <2>1 DEF PartOf
    <3> QED
      BY <1>1, <1>4, <2>1, <3>1
  <2>2. CASE p # <<m.from, m.key>>
    <3>1. part = <<>>
      BY <1>2, <2>2 DEF PartOf, Lines
    <3>2. offered'[p] = offered[p]
      BY <1>1, <1>4, <2>2
    <3>3. offered[p] \o <<>> = offered[p]
      BY LineTypes
    <3> QED
      BY <3>1, <3>2, <3>3
  <2> QED
    BY <2>1, <2>2
<1>8. CASE WorkerOf[p[2]] = w
  <2>1. ToTake(p) = results[w] /\ ToTake(p)' = results[w] \o <<r>>
    <3>1. results[w] \o <<>> = results[w]
      BY <1>8, LineTypes
    <3> QED
      BY <1>1, <1>2, <1>3, <1>4, <1>8, <3>1 DEF ToTake, Held
  <2>2. results[w] \in Seq(Results) /\ <<r>> \in Seq(Results)
    BY <1>1, <1>8, LineTypes
  <2>3. ItemsOf(p, results[w] \o <<r>>) = ItemsOf(p, results[w]) \o ItemsOf(p, <<r>>)
    BY <2>2, ItemsConcat
  <2>4. ItemsOf(p, <<r>>) = part
    BY <1>1, ItemsSingle
  <2> QED
    BY <1>5, <1>6, <1>7, <1>8, <2>1, <2>3, <2>4 DEF m
<1>9. CASE WorkerOf[p[2]] # w
  <2>1. part = <<>>
    BY <1>1, <1>2, <1>9 DEF PartOf
  <2>2. decoded'[WorkerOf[p[2]]] = decoded[WorkerOf[p[2]]]
    BY <1>1, <1>4, <1>9, LineTypes
  <2>3. ToTake(p)' = ToTake(p)
    BY <1>2, <2>2 DEF ToTake
  <2>4. ItemsOf(p, ToTake(p)) \o <<>> = ItemsOf(p, ToTake(p))
    BY LineTypes
  <2> QED
    BY <1>5, <1>6, <1>7, <2>1, <2>3, <2>4 DEF m
<1> QED
  BY <1>8, <1>9

\* The result channel keeps the order.
LEMMA OutputKeeps ==
  ASSUME IInv, NEW w \in Workers, Output(w), NEW p \in Lines
  PROVE  ToTake(p)' = ToTake(p)
<1>1. /\ results' = [results EXCEPT ![w] = Append(@, decoded[w])]
      /\ decoded' = [decoded EXCEPT ![w] = None] /\ decoded[w] # None
  BY DEF Output
<1>2. decoded \in [Workers -> Results \cup {None}] /\ results \in [Workers -> Seq(Results)]
  BY DEF IInv, ResultTypes
<1>3. CASE WorkerOf[p[2]] = w
  <2>1. ToTake(p)' = Append(results[w], decoded[w]) \o <<>>
    BY <1>1, <1>2, <1>3 DEF ToTake, Held
  <2>2. ToTake(p) = results[w] \o <<decoded[w]>>
    BY <1>1, <1>3 DEF ToTake, Held
  <2>3. results[w] \in Seq(Results) /\ decoded[w] \in Results
    BY <1>1, <1>2
  <2> QED
    BY <2>1, <2>2, <2>3
<1>4. CASE WorkerOf[p[2]] # w
  BY <1>1, <1>2, <1>4, LineTypes DEF ToTake
<1> QED
  BY <1>3, <1>4

\* A worker takes the first of what it is to take.
LEMMA TakeRemoves ==
  ASSUME IInv, NEW w \in Workers, TakeResult(w), NEW p \in Lines
  PROVE  LET r == Head(results[w])
             part == PartOf(p, r, r.items)
         IN  /\ <<r.from, r.key>> \in Lines /\ r.items \in Seq(Numbers)
             /\ part \in Seq(Numbers) /\ ToTake(p)' \in Seq(Results)
             /\ done'[p] = done[p] \o part
             /\ ItemsOf(p, ToTake(p)) = part \o ItemsOf(p, ToTake(p)')
<1> DEFINE r == Head(results[w])
           part == PartOf(p, r, r.items)
<1>1. /\ results' = [results EXCEPT ![w] = Tail(@)]
      /\ done' = [done EXCEPT ![<<r.from, r.key>>] = @ \o r.items]
      /\ UNCHANGED <<decoded, offered>> /\ results[w] # <<>>
  BY DEF TakeResult
<1>2. results \in [Workers -> Seq(Results)] /\ done \in [Lines -> Seq(Numbers)]
  BY DEF IInv, ResultTypes
<1>3. results[w] = <<r>> \o Tail(results[w]) /\ r \in Results /\ Tail(results[w]) \in Seq(Results)
  <2>1. results[w] \in Seq(Results)
    BY <1>2
  <2> QED
    BY <1>1, <2>1, HeadAndTail
<1>4. WorkerOf[r.key] = w /\ <<r.from, r.key>> \in Lines
  <2>1. r = results[w][1] /\ 1 \in DOMAIN results[w]
    BY <1>1, <1>2
  <2>2. AtHome(w, r)
    BY <2>1 DEF IInv, KeysAtHome
  <2> QED
    BY <1>3, <2>2 DEF AtHome, Results, Lines
<1> HIDE DEF r
<1>5. r.items \in Seq(Numbers)
  BY <1>3 DEF Results
<1>6. part \in Seq(Numbers)
  BY <1>5 DEF PartOf
<1>7. done'[p] = done[p] \o part
  <2>1. CASE p = <<r.from, r.key>>
    <3>1. part = r.items
      BY <2>1 DEF PartOf
    <3> QED
      BY <1>1, <1>2, <2>1, <3>1
  <2>2. CASE p # <<r.from, r.key>>
    <3>1. part = <<>>
      BY <2>2 DEF PartOf, Lines
    <3>2. done'[p] = done[p]
      BY <1>1, <1>2, <2>2
    <3>3. done[p] \o <<>> = done[p]
      BY LineTypes
    <3> QED
      BY <3>1, <3>2, <3>3
  <2> QED
    BY <2>1, <2>2
<1>8. CASE WorkerOf[p[2]] = w
  <2> DEFINE h == Held(decoded[w])
             t == Tail(results[w]) \o h
  <2>1. ToTake(p) = results[w] \o h /\ ToTake(p)' = t
    BY <1>1, <1>2, <1>8 DEF ToTake
  <2>2. h \in Seq(Results) /\ t \in Seq(Results) /\ <<r>> \in Seq(Results)
    BY <1>3, <1>8, LineTypes
  <2>3. ToTake(p) = <<r>> \o t
    <3>1. (<<r>> \o Tail(results[w])) \o h = <<r>> \o (Tail(results[w]) \o h)
      <4> HIDE DEF h
      <4> QED
        BY <1>3, <2>2, ResultsAssociate
    <3> QED
      BY <1>3, <2>1, <3>1
  <2> HIDE DEF t
  <2>4. ItemsOf(p, <<r>> \o t) = ItemsOf(p, <<r>>) \o ItemsOf(p, t)
    BY <2>2, ItemsConcat
  <2>5. ItemsOf(p, <<r>>) = part
    BY <1>3, ItemsSingle
  <2> QED
    BY <1>4, <1>5, <1>6, <1>7, <2>1, <2>2, <2>3, <2>4, <2>5 DEF r
<1>9. CASE WorkerOf[p[2]] # w
  <2>1. part = <<>>
    BY <1>4, <1>9 DEF PartOf
  <2>2. ToTake(p)' = ToTake(p)
    BY <1>1, <1>2, <1>9, LineTypes DEF ToTake
  <2>3. <<>> \o ItemsOf(p, ToTake(p)) = ItemsOf(p, ToTake(p)) /\ ToTake(p) \in Seq(Results)
    BY LineTypes
  <2> QED
    BY <1>4, <1>5, <1>6, <1>7, <2>1, <2>2, <2>3 DEF r
<1> QED
  BY <1>8, <1>9

\* What is taken follows what was taken, and what is offered follows that.
LEMMA OfferedStep == ASSUME IInv, [Next]_vars PROVE OfferedIsOnItsWay'
<1>1. ASSUME NEW w \in Workers, DecodeJob(w) PROVE OfferedIsOnItsWay'
  <2> SUFFICES ASSUME NEW p \in Lines PROVE offered'[p] = done'[p] \o ItemsOf(p, ToTake(p)')
    BY DEF OfferedIsOnItsWay
  <2> DEFINE part == PartOf(p, Head(jobs[w]), Decodable(Head(jobs[w]).frames))
  <2>1. /\ part \in Seq(Numbers) /\ offered'[p] = offered[p] \o part
        /\ ItemsOf(p, ToTake(p)') = ItemsOf(p, ToTake(p)) \o part
    BY <1>1, DecodeAdds
  <2>2. done' = done
    BY <1>1 DEF DecodeJob, Decoded
  <2> HIDE DEF part
  <2>3. (done[p] \o ItemsOf(p, ToTake(p))) \o part = done[p] \o (ItemsOf(p, ToTake(p)) \o part)
    BY <2>1, LineTypes, NumbersAssociate
  <2> QED
    BY <2>1, <2>2, <2>3, LineTypes
<1>2. ASSUME NEW w \in Workers, Output(w) PROVE OfferedIsOnItsWay'
  <2>1. UNCHANGED <<offered, done>>
    BY <1>2 DEF Output
  <2> QED
    BY <1>2, <2>1, OutputKeeps, LineTypes DEF OfferedIsOnItsWay
<1>3. ASSUME NEW w \in Workers, TakeResult(w) PROVE OfferedIsOnItsWay'
  <2> SUFFICES ASSUME NEW p \in Lines PROVE offered'[p] = done'[p] \o ItemsOf(p, ToTake(p)')
    BY DEF OfferedIsOnItsWay
  <2> DEFINE part == PartOf(p, Head(results[w]), Head(results[w]).items)
  <2>1. /\ part \in Seq(Numbers) /\ ToTake(p)' \in Seq(Results) /\ done'[p] = done[p] \o part
        /\ ItemsOf(p, ToTake(p)) = part \o ItemsOf(p, ToTake(p)')
    BY <1>3, TakeRemoves
  <2>2. offered' = offered
    BY <1>3 DEF TakeResult
  <2> HIDE DEF part
  <2>3. ItemsOf(p, ToTake(p)') \in Seq(Numbers)
    BY <2>1, ResultPartTypes
  <2>4. (done[p] \o part) \o ItemsOf(p, ToTake(p)') = done[p] \o (part \o ItemsOf(p, ToTake(p)'))
    BY <2>1, <2>3, LineTypes, NumbersAssociate
  <2> QED
    BY <2>1, <2>2, <2>4, LineTypes
<1>4. CASE UNCHANGED <<decoded, results, offered, done>>
  BY <1>4 DEF IInv, OfferedIsOnItsWay, ToTake
<1> QED
  BY <1>1, <1>2, <1>3, <1>4
     DEF Next, Callback, vars, Recv, SendMessage, TakeMessage, DispatchMessage, SignalDispatcher

------------------------------------------------------------------------------
(* The path of a line as a line of FramePipe.                                *)

\* The messages that its worker, the dispatcher and its stream have before them.
ToDecode(p) == jobs[WorkerOf[p[2]]] \o Held(dispatching) \o grpcmessage \o Held(sending[p[1]])

\* What is under way is what is decoded and what is to be decoded.
LEMMA UnderWayIs ==
  ASSUME NEW p
  PROVE  UnderWay(p) = ItemsOf(p, ToTake(p)) \o FramesOf(p, ToDecode(p))
BY DEF UnderWay, ToTake, ToDecode

\* The parts of it are sequences of messages.
LEMMA QueueTypes ==
  ASSUME IInv, NEW p \in Lines
  PROVE  /\ jobs[WorkerOf[p[2]]] \in Seq(Messages) /\ Held(dispatching) \in Seq(Messages)
         /\ grpcmessage \in Seq(Messages) /\ Held(sending[p[1]]) \in Seq(Messages)
         /\ ToDecode(p) \in Seq(Messages) /\ FramesOf(p, ToDecode(p)) \in Seq(Numbers)
         /\ UnderWay(p) \in Seq(Numbers)
<1>1. WorkerOf[p[2]] \in Workers /\ p[1] \in Streams
  BY LineTypes DEF Lines
<1>2. jobs[WorkerOf[p[2]]] \in Seq(Messages)
  <2>1. jobs[WorkerOf[p[2]]] \in Seq(Keyed)
    BY <1>1 DEF IInv, MessageTypes
  <2>2. \A m \in Keyed : m \in Messages
    BY DEF Keyed
  <2> QED
    BY <2>1, <2>2
<1>3. Held(dispatching) \in Seq(Messages)
  BY DEF IInv, MessageTypes, Held, Keyed
<1>4. grpcmessage \in Seq(Messages)
  BY DEF IInv, MessageTypes
<1>5. Held(sending[p[1]]) \in Seq(Messages)
  BY <1>1 DEF IInv, MessageTypes, Held
<1>6. ToDecode(p) \in Seq(Messages)
  BY <1>2, <1>3, <1>4, <1>5 DEF ToDecode
<1>7. FramesOf(p, ToDecode(p)) \in Seq(Numbers)
  BY <1>6, MessagePartTypes
<1>8. UnderWay(p) \in Seq(Numbers)
  <2>1. ItemsOf(p, ToTake(p)) \in Seq(Numbers)
    BY LineTypes
  <2>2. ItemsOf(p, ToTake(p)) \o FramesOf(p, ToDecode(p)) \in Seq(Numbers)
    BY <1>7, <2>1
  <2> QED
    BY <2>2, UnderWayIs
<1> QED
  BY <1>2, <1>3, <1>4, <1>5, <1>6, <1>7, <1>8

\* A message that is received joins its line at the end.
LEMMA RecvAdds ==
  ASSUME IInv, NEW st \in Streams, NEW key \in KeysOf[st], NEW content \in Contents,
         Recv(st, key, content), NEW p \in Lines
  PROVE  UnderWay(p)' = UnderWay(p) \o PartOf(p, sending'[st], Decodable(sending'[st].frames))
<1> DEFINE m == sending'[st]
           part == PartOf(p, m, Decodable(m.frames))
<1>1. sending \in [Streams -> Messages \cup {None}] /\ received \in [Streams -> Nat]
  BY DEF IInv, MessageTypes
<1>2. /\ m.from = st /\ sending[st] = None
      /\ \A u \in Streams : u # st => sending'[u] = sending[u]
      /\ UNCHANGED <<grpcmessage, dispatching, jobs, decoded, results>>
  BY <1>1 DEF Recv, dispatcherVars
<1>3. m \in Messages
  <2>1. received'[st] \in Nat
    BY <1>1 DEF Recv
  <2> QED
    BY <1>1, <2>1, Received DEF Recv
<1>4. m # None
  BY <1>3, NoneAssumption
<1> HIDE DEF m
<1>5. ToTake(p)' = ToTake(p)
  BY <1>2 DEF ToTake
<1>6. FramesOf(p, ToDecode(p)') = FramesOf(p, ToDecode(p)) \o part /\ part \in Seq(Numbers)
  <2> DEFINE q == jobs[WorkerOf[p[2]]] \o Held(dispatching) \o grpcmessage
  <2>1. q \in Seq(Messages)
    BY QueueTypes
  <2>2. Decodable(m.frames) \in Seq(Numbers)
    BY <1>3, DecodableType DEF Messages
  <2>3. part \in Seq(Numbers)
    BY <2>2 DEF PartOf
  <2>4. ToDecode(p) = q \o Held(sending[p[1]]) /\ ToDecode(p)' = q \o Held(sending'[p[1]])
    BY <1>2 DEF ToDecode
  <2> HIDE DEF q
  <2>5. CASE p[1] = st
    <3>1. ToDecode(p) = q /\ ToDecode(p)' = q \o <<m>>
      BY <1>2, <1>4, <2>1, <2>4, <2>5 DEF Held, m
    <3>2. <<m>> \in Seq(Messages)
      BY <1>3
    <3>3. FramesOf(p, q \o <<m>>) = FramesOf(p, q) \o FramesOf(p, <<m>>)
      BY <2>1, <3>2, FramesConcat
    <3>4. FramesOf(p, <<m>>) = part
      BY <1>3, FramesSingle
    <3> QED
      BY <2>3, <3>1, <3>3, <3>4
  <2>6. CASE p[1] # st
    <3>1. ToDecode(p)' = ToDecode(p)
      BY <1>2, <2>4, <2>6 DEF Lines
    <3>2. part = <<>>
      BY <1>2, <2>6 DEF PartOf
    <3>3. FramesOf(p, ToDecode(p)) \o <<>> = FramesOf(p, ToDecode(p))
      BY QueueTypes
    <3> QED
      BY <2>3, <3>1, <3>2, <3>3
  <2> QED
    BY <2>5, <2>6
<1>7. UnderWay(p)' = ItemsOf(p, ToTake(p)') \o FramesOf(p, ToDecode(p)')
  BY DEF UnderWay, ToTake, ToDecode
<1>8. (ItemsOf(p, ToTake(p)) \o FramesOf(p, ToDecode(p))) \o part
        = ItemsOf(p, ToTake(p)) \o (FramesOf(p, ToDecode(p)) \o part)
  BY <1>6, LineTypes, QueueTypes, NumbersAssociate
<1> QED
  BY <1>5, <1>6, <1>7, <1>8, UnderWayIs DEF m

\* A frame stays in its line where a message is passed on.
LEMMA SendKeeps ==
  ASSUME IInv, NEW st \in Streams, SendMessage(st), NEW p \in Lines
  PROVE  FramesOf(p, ToDecode(p)') = FramesOf(p, ToDecode(p))
<1> DEFINE m == sending[st]
           q == jobs[WorkerOf[p[2]]] \o Held(dispatching)
<1>1. sending \in [Streams -> Messages \cup {None}] /\ sending[st] # None
  BY DEF IInv, MessageTypes, SendMessage
<1>2. m \in Messages /\ m.from = st
  BY <1>1 DEF IInv, MessageTypes
<1>3. /\ sending' = [sending EXCEPT ![st] = None] /\ grpcmessage' = Append(grpcmessage, m)
      /\ UNCHANGED <<dispatching, jobs>>
  BY DEF SendMessage, dispatcherVars
<1>4. q \in Seq(Messages) /\ grpcmessage \in Seq(Messages) /\ <<m>> \in Seq(Messages)
  BY <1>2, QueueTypes
<1>5. ToDecode(p) = (q \o grpcmessage) \o Held(sending[p[1]])
  BY DEF ToDecode
<1>6. ToDecode(p)' = (q \o Append(grpcmessage, m)) \o Held(sending'[p[1]])
  BY <1>3 DEF ToDecode
<1>7. q \o Append(grpcmessage, m) = (q \o grpcmessage) \o <<m>>
  <2>1. Append(grpcmessage, m) = grpcmessage \o <<m>>
    BY <1>2, <1>4
  <2> HIDE DEF q, m
  <2> QED
    BY <1>4, <2>1, MessagesAssociate
<1>8. q \o grpcmessage \in Seq(Messages)
  BY <1>4
<1> HIDE DEF q
<1>9. CASE p[1] = st
  <2>1. Held(sending[p[1]]) = <<m>> /\ Held(sending'[p[1]]) = <<>>
    BY <1>1, <1>3, <1>9 DEF Held
  <2>2. ((q \o grpcmessage) \o <<m>>) \o <<>> = (q \o grpcmessage) \o <<m>>
    BY <1>4, <1>8
  <2> QED
    BY <1>5, <1>6, <1>7, <2>1, <2>2
<1>10. CASE p[1] # st
  <2> DEFINE s == Held(sending[p[1]])
  <2>1. Held(sending'[p[1]]) = s
    BY <1>1, <1>3, <1>10 DEF Lines
  <2>2. s \in Seq(Messages)
    BY QueueTypes
  <2> HIDE DEF s
  <2>3. ((q \o grpcmessage) \o <<m>>) \o s = (q \o grpcmessage) \o (<<m>> \o s)
    <3> HIDE DEF m
    <3> QED
      BY <1>4, <1>8, <2>2, MessagesAssociate
  <2>4. FramesOf(p, (q \o grpcmessage) \o (<<m>> \o s)) = FramesOf(p, (q \o grpcmessage) \o s)
    BY <1>2, <1>8, <1>10, <2>2, OtherLine
  <2>5. ToDecode(p)' = (q \o grpcmessage) \o (<<m>> \o s) /\ ToDecode(p) = (q \o grpcmessage) \o s
    BY <1>5, <1>6, <1>7, <2>1, <2>3 DEF s
  <2> QED
    BY <2>4, <2>5
<1> QED
  BY <1>9, <1>10

\* A message that the dispatcher takes, or drops for want of a key, keeps its place in each line.
LEMMA TakeKeeps ==
  ASSUME IInv, TakeMessage, NEW p \in Lines
  PROVE  FramesOf(p, ToDecode(p)') = FramesOf(p, ToDecode(p))
<1> DEFINE j == jobs[WorkerOf[p[2]]]
           m == Head(grpcmessage)
           t == Tail(grpcmessage)
           s == Held(sending[p[1]])
<1>1. /\ dispatching = None /\ grpcmessage # <<>> /\ grpcmessage' = t
      /\ dispatching' = (IF HasKey(m) THEN m ELSE None) /\ UNCHANGED <<sending, jobs>>
  BY DEF TakeMessage, streamVars
<1>2. j \in Seq(Messages) /\ s \in Seq(Messages) /\ grpcmessage \in Seq(Messages)
  BY QueueTypes
<1>3. grpcmessage = <<m>> \o t /\ m \in Messages /\ t \in Seq(Messages) /\ <<m>> \in Seq(Messages)
  BY <1>1, <1>2, HeadAndTail
<1>4. m # None
  BY <1>3, NoneAssumption
<1>5. Held(dispatching) = <<>> /\ Held(dispatching') = IF HasKey(m) THEN <<m>> ELSE <<>>
  <2> HIDE DEF m
  <2> QED
    BY <1>1, <1>4 DEF Held
<1>6. ToDecode(p) = ((j \o <<>>) \o grpcmessage) \o s
  BY <1>5 DEF ToDecode
<1>7. ToDecode(p)' = ((j \o Held(dispatching')) \o t) \o s
  BY <1>1 DEF ToDecode
<1> HIDE DEF j, m, t, s
<1>8. j \o <<>> = j
  BY <1>2
<1>9. (j \o grpcmessage) \o s = j \o (<<m>> \o (t \o s))
  <2>1. (j \o grpcmessage) \o s = j \o (grpcmessage \o s)
    BY <1>2, MessagesAssociate
  <2>2. (<<m>> \o t) \o s = <<m>> \o (t \o s)
    BY <1>2, <1>3, MessagesAssociate
  <2> QED
    BY <1>3, <2>1, <2>2
<1>10. t \o s \in Seq(Messages)
  BY <1>2, <1>3
<1>11. CASE HasKey(m)
  <2>1. ((j \o <<m>>) \o t) \o s = (j \o <<m>>) \o (t \o s)
    <3>1. j \o <<m>> \in Seq(Messages)
      BY <1>2, <1>3
    <3> QED
      BY <1>2, <1>3, <3>1, MessagesAssociate
  <2>2. (j \o <<m>>) \o (t \o s) = j \o (<<m>> \o (t \o s))
    BY <1>2, <1>3, <1>10, MessagesAssociate
  <2>3. Held(dispatching') = <<m>>
    BY <1>5, <1>11
  <2> QED
    BY <1>6, <1>7, <1>8, <1>9, <2>1, <2>2, <2>3
<1>12. CASE ~HasKey(m)
  <2>1. (j \o t) \o s = j \o (t \o s)
    BY <1>2, <1>3, MessagesAssociate
  <2>2. m.key # p[2]
    BY <1>12, DispatchAssumption DEF HasKey, Lines
  <2>3. FramesOf(p, j \o (<<m>> \o (t \o s))) = FramesOf(p, j \o (t \o s))
    BY <1>2, <1>3, <1>10, <2>2, OtherLine
  <2>4. Held(dispatching') = <<>>
    BY <1>5, <1>12
  <2> QED
    BY <1>6, <1>7, <1>8, <1>9, <2>1, <2>3, <2>4
<1> QED
  BY <1>11, <1>12

\* And so does one that it puts into a job channel.
LEMMA DispatchKeeps ==
  ASSUME IInv, DispatchMessage, NEW p \in Lines
  PROVE  FramesOf(p, ToDecode(p)') = FramesOf(p, ToDecode(p))
<1> DEFINE m == dispatching
           w == WorkerOf[m.key]
           j == jobs[WorkerOf[p[2]]]
           s == Held(sending[p[1]])
           g == grpcmessage
<1>1. m # None /\ m \in Keyed /\ m \in Messages
  BY DEF IInv, MessageTypes, DispatchMessage, Keyed
<1>2. w \in Workers
  BY <1>1, Sizes DEF Keyed
<1>3. /\ jobs' = [jobs EXCEPT ![w] = Append(@, m)] /\ dispatching' = None
      /\ UNCHANGED <<sending, grpcmessage>>
  BY DEF DispatchMessage, JobChan, streamVars
<1>4. Held(dispatching) = <<m>> /\ Held(dispatching') = <<>>
  BY <1>1, <1>3 DEF Held
<1>5. j \in Seq(Messages) /\ g \in Seq(Messages) /\ s \in Seq(Messages) /\ <<m>> \in Seq(Messages)
  BY <1>1, QueueTypes
<1>6. ToDecode(p) = ((j \o <<m>>) \o g) \o s
  BY <1>4 DEF ToDecode
<1>7. ToDecode(p)' = ((jobs'[WorkerOf[p[2]]] \o <<>>) \o g) \o s
  BY <1>3, <1>4 DEF ToDecode
<1>8. jobs \in [Workers -> Seq(Keyed)] /\ WorkerOf[p[2]] \in Workers
  BY LineTypes DEF IInv, MessageTypes
<1>9. CASE WorkerOf[p[2]] = w
  <2>1. jobs'[WorkerOf[p[2]]] = Append(j, m)
    BY <1>2, <1>3, <1>8, <1>9
  <2>2. Append(j, m) \o <<>> = j \o <<m>>
    <3> HIDE DEF j, m
    <3> QED
      BY <1>1, <1>5
  <2> QED
    BY <1>6, <1>7, <2>1, <2>2
<1>10. CASE WorkerOf[p[2]] # w
  <2>1. jobs'[WorkerOf[p[2]]] = j
    BY <1>3, <1>8, <1>10
  <2>2. m.key # p[2]
    BY <1>10
  <2> HIDE DEF j, g, s, m
  <2>3. j \o <<>> = j /\ g \o s \in Seq(Messages) /\ j \o <<m>> \in Seq(Messages)
    BY <1>5
  <2>4. (j \o g) \o s = j \o (g \o s)
    BY <1>5, MessagesAssociate
  <2>5. ((j \o <<m>>) \o g) \o s = (j \o <<m>>) \o (g \o s)
    BY <1>5, <2>3, MessagesAssociate
  <2>6. (j \o <<m>>) \o (g \o s) = j \o (<<m>> \o (g \o s))
    BY <1>5, <2>3, MessagesAssociate
  <2>7. FramesOf(p, j \o (<<m>> \o (g \o s))) = FramesOf(p, j \o (g \o s))
    BY <1>1, <1>5, <2>2, <2>3, OtherLine
  <2> QED
    BY <1>6, <1>7, <2>1, <2>3, <2>4, <2>5, <2>6, <2>7
<1> QED
  BY <1>9, <1>10

\* decode keeps the frames of a message that can be decoded.
LEMMA DecodeKeeps ==
  ASSUME IInv, NEW w \in Workers, DecodeJob(w), NEW p \in Lines
  PROVE  UnderWay(p)' = UnderWay(p)
<1> DEFINE m == Head(jobs[w])
           part == PartOf(p, m, Decodable(m.frames))
           rest == Held(dispatching) \o grpcmessage \o Held(sending[p[1]])
<1>1. /\ part \in Seq(Numbers) /\ ItemsOf(p, ToTake(p)') = ItemsOf(p, ToTake(p)) \o part
      /\ WorkerOf[p[2]] # w => part = <<>>
  BY DecodeAdds
<1>2. /\ m \in Messages /\ jobs[w] # <<>> /\ jobs' = [jobs EXCEPT ![w] = Tail(@)]
      /\ UNCHANGED <<sending, grpcmessage, dispatching>>
  BY DecodedIs DEF IInv, DecodeJob, Decoded, streamVars, dispatcherVars
<1>3. jobs \in [Workers -> Seq(Keyed)] /\ WorkerOf[p[2]] \in Workers
  BY LineTypes DEF IInv, MessageTypes
<1>4. /\ FramesOf(p, ToDecode(p)) = part \o FramesOf(p, ToDecode(p)')
      /\ ToDecode(p)' \in Seq(Messages)
  <2>1. CASE WorkerOf[p[2]] = w
    <3> DEFINE t == Tail(jobs[w])
               d == Held(dispatching)
               g == grpcmessage
               s == Held(sending[p[1]])
               q == t \o d \o g \o s
    <3>1. jobs[w] \in Seq(Messages) /\ d \in Seq(Messages) /\ g \in Seq(Messages) /\ s \in Seq(Messages)
      BY <2>1, QueueTypes
    <3>2. jobs[w] = <<m>> \o t /\ t \in Seq(Messages) /\ <<m>> \in Seq(Messages)
      BY <1>2, <3>1, HeadAndTail
    <3>3. ToDecode(p) = ((jobs[w] \o d) \o g) \o s
      BY <2>1 DEF ToDecode
    <3>4. ToDecode(p)' = q
      BY <1>2, <1>3, <2>1 DEF ToDecode
    <3>5. q \in Seq(Messages) /\ t \o d \in Seq(Messages) /\ (t \o d) \o g \in Seq(Messages)
      BY <3>1, <3>2
    <3>6. (((<<m>> \o t) \o d) \o g) \o s = <<m>> \o (((t \o d) \o g) \o s)
      <4> HIDE DEF m, t, d, g, s
      <4>1. (<<m>> \o t) \o d = <<m>> \o (t \o d)
        BY <3>1, <3>2, MessagesAssociate
      <4>2. (<<m>> \o (t \o d)) \o g = <<m>> \o ((t \o d) \o g)
        BY <3>1, <3>2, <3>5, MessagesAssociate
      <4>3. (<<m>> \o ((t \o d) \o g)) \o s = <<m>> \o (((t \o d) \o g) \o s)
        BY <3>1, <3>2, <3>5, MessagesAssociate
      <4> QED
        BY <4>1, <4>2, <4>3
    <3>7. ToDecode(p) = <<m>> \o q
      BY <3>2, <3>3, <3>6
    <3> HIDE DEF q
    <3>8. FramesOf(p, <<m>> \o q) = FramesOf(p, <<m>>) \o FramesOf(p, q)
      BY <3>2, <3>5, FramesConcat
    <3>9. FramesOf(p, <<m>>) = part
      BY <1>2, FramesSingle
    <3> QED
      BY <3>4, <3>5, <3>7, <3>8, <3>9
  <2>2. CASE WorkerOf[p[2]] # w
    <3>1. ToDecode(p)' = ToDecode(p)
      BY <1>2, <1>3, <2>2 DEF ToDecode
    <3>2. <<>> \o FramesOf(p, ToDecode(p)) = FramesOf(p, ToDecode(p))
      BY QueueTypes
    <3> QED
      BY <1>1, <2>2, <3>1, <3>2, QueueTypes
  <2> QED
    BY <2>1, <2>2
<1>5. FramesOf(p, ToDecode(p)') \in Seq(Numbers)
  BY <1>4, MessagePartTypes
<1> HIDE DEF part
<1>6. (ItemsOf(p, ToTake(p)) \o part) \o FramesOf(p, ToDecode(p)')
        = ItemsOf(p, ToTake(p)) \o (part \o FramesOf(p, ToDecode(p)'))
  BY <1>1, <1>5, LineTypes, NumbersAssociate
<1>7. UnderWay(p)' = ItemsOf(p, ToTake(p)') \o FramesOf(p, ToDecode(p)')
  BY DEF UnderWay, ToTake, ToDecode
<1> QED
  BY <1>1, <1>4, <1>6, <1>7, UnderWayIs

------------------------------------------------------------------------------
(* The theorems.                                                             *)

\* Every step keeps the invariant.
LEMMA InvStep == IInv /\ [Next]_vars => IInv'
BY MessageStep, ResultStep, HomeStep, OfferedStep DEF IInv

\* The variables have their types and no channel has more than its capacity.
THEOREM TypeCorrect == Spec => []TypeOK
<1>1. IInv => TypeOK
  <2> SUFFICES ASSUME IInv PROVE TypeOK
    OBVIOUS
  <2>1. /\ \A st \in Streams : received[st] \in 0 .. MaxMessages[st]
        /\ \A st \in Streams : sending[st] \in Messages \cup {None}
    BY Sizes DEF IInv, MessageTypes
  <2>2. dispatching \in Messages \cup {None}
    BY DEF IInv, MessageTypes, Keyed
  <2>3. ASSUME NEW w \in Workers PROVE jobs[w] \in Seq(Messages)
    <3>1. jobs[w] \in Seq(Keyed)
      BY DEF IInv, MessageTypes
    <3>2. \A m \in Keyed : m \in Messages
      BY DEF Keyed
    <3> QED
      BY <3>1, <3>2
  <2> QED
    BY <2>1, <2>2, <2>3 DEF IInv, MessageTypes, ResultTypes, TypeOK
<1> QED
  BY <1>1, InvInit, InvStep, PTL DEF Spec

\* The frames of a sensor never wait in the result channels of two workers, so
\* no two goroutines touch its volume.
THEOREM SensorsStayWithWorkers == Spec => []OneWorkerPerSensor
<1>1. IInv => OneWorkerPerSensor
  BY DEF IInv, KeysAtHome, AtHome, OneWorkerPerSensor
<1> QED
  BY <1>1, InvInit, InvStep, PTL DEF Spec

\* A worker has taken, in the same order, the first of what Kafka was offered.
THEOREM DoneFollowsOffered == Spec => []DoneIsOffered
<1>1. IInv => DoneIsOffered
  <2> SUFFICES ASSUME IInv, NEW p \in Lines PROVE IsPrefix(done[p], offered[p])
    BY DEF DoneIsOffered
  <2> DEFINE a == done[p]
             b == ItemsOf(p, ToTake(p))
  <2>1. a \in Seq(Numbers) /\ b \in Seq(Numbers) /\ offered[p] = a \o b
    BY LineTypes
  <2> HIDE DEF a, b
  <2>2. SubSeq(a \o b, 1, Len(a)) = a /\ SubSeq(a, 1, Len(a)) = a /\ Len(a) <= Len(a \o b)
    <3>1. SubSeq(a \o b, 1, Len(a)) = a
      BY <2>1, SplitConcat
    <3> QED
      BY <2>1, <3>1
  <2> QED
    BY <2>1, <2>2 DEF IsPrefix, a
<1> QED
  BY <1>1, InvInit, InvStep, PTL DEF Spec

\* The frames of a message, and what of them can be decoded, have joined together.
LEMMA BatchOf ==
  ASSUME IInv, NEW st \in Streams, NEW key \in KeysOf[st], NEW content \in Contents,
         Recv(st, key, content)
  PROVE  /\ Decodable(sending'[st].frames) \in Batches
         /\ sending'[st].from = st /\ sending'[st].key = key
         /\ Decodable(sending'[st].frames) \in Seq(Numbers)
<1> DEFINE m == sending'[st]
           n == received'[st]
<1>1. sending \in [Streams -> Messages \cup {None}] /\ received \in [Streams -> Nat]
  BY DEF IInv, MessageTypes
<1>2. n \in Nat /\ n \in 1 .. MaxMessages[st]
  BY <1>1, Sizes DEF Recv
<1>3. m = [from |-> st, key |-> key,
           frames |-> [i \in DOMAIN content |->
                         [no |-> <<n, i>>, data |-> content[i].data, ok |-> content[i].ok]]]
  BY <1>1 DEF Recv
<1> HIDE DEF m, n
<1>4. m \in Messages
  BY <1>2, <1>3, Received
<1>5. m.frames \in Seq(Frames) /\ m.from = st /\ m.key = key
  BY <1>3, <1>4 DEF Messages
<1>6. Len(content) \in 0 .. MaxFrames /\ DOMAIN content = 1 .. Len(content)
  BY DispatchAssumption
<1>7. Len(m.frames) = Len(content) /\ \A i \in 1 .. Len(content) : m.frames[i].no = <<n, i>>
  BY <1>3, <1>5, <1>6
<1>8. PICK k \in 0 .. Len(m.frames) : Decodable(m.frames) = [i \in 1 .. k |-> m.frames[i].no]
  BY <1>5, DecodableLen
<1>9. Decodable(m.frames) = [i \in 1 .. k |-> <<n, i>>] /\ k \in 0 .. MaxFrames
  BY <1>6, <1>7, <1>8, Sizes
<1>10. Decodable(m.frames) \in Batches
  <2>1. n \in UNION {1 .. MaxMessages[s] : s \in Streams}
    BY <1>2
  <2> HIDE DEF n
  <2> QED
    BY <1>9, <2>1 DEF Batches
<1> QED
  BY <1>5, <1>10, DecodableType DEF m

\* A message that is received joins its line, if it has a key.
LEMMA RecvJoins ==
  ASSUME IInv, NEW st \in Streams, NEW key \in KeysOf[st], NEW content \in Contents,
         Recv(st, key, content)
  PROVE  [Pipe!Next]_Pipe!vars
<1> DEFINE m == sending'[st]
           batch == Decodable(m.frames)
<1>1. batch \in Batches /\ m.from = st /\ m.key = key /\ batch \in Seq(Numbers)
  BY BatchOf
<1>2. \A p \in Lines : UnderWay(p)' = UnderWay(p) \o PartOf(p, m, batch)
  BY RecvAdds
<1>3. \A p \in Lines : UnderWay(p) \in Seq(Numbers)
  BY QueueTypes
<1>4. UNCHANGED done
  BY DEF Recv
<1>5. \A p \in Lines : p # <<st, key>> => UnderWay(p)' = UnderWay(p)
  <2> SUFFICES ASSUME NEW p \in Lines, p # <<st, key>> PROVE UnderWay(p)' = UnderWay(p)
    OBVIOUS
  <2>1. PartOf(p, m, batch) = <<>>
    <3> HIDE DEF m, batch
    <3> QED
      BY <1>1 DEF PartOf, Lines
  <2>2. UnderWay(p) \o <<>> = UnderWay(p)
    BY <1>3
  <2> QED
    BY <1>2, <2>1, <2>2
<1>6. CASE key \in Keys
  <2> DEFINE p0 == <<st, key>>
  <2>1. p0 \in Lines
    BY <1>6 DEF Lines
  <2>2. PartOf(p0, m, batch) = batch
    <3> HIDE DEF m, batch
    <3> QED
      BY <1>1 DEF PartOf
  <2>3. UnderWay(p0)' = UnderWay(p0) \o batch
    BY <1>2, <2>1, <2>2
  <2> HIDE DEF m, batch
  <2>4. [p \in Lines |-> UnderWay(p)]' = [[p \in Lines |-> UnderWay(p)] EXCEPT ![p0] = @ \o batch]
    BY <1>5, <2>1, <2>3
  <2>5. Pipe!Join(p0)
    BY <1>1, <1>4, <2>4 DEF Pipe!Join
  <2> QED
    BY <2>1, <2>5 DEF Pipe!Next
<1>7. CASE key \notin Keys
  <2>1. \A p \in Lines : p # <<st, key>>
    BY <1>7 DEF Lines
  <2>2. [p \in Lines |-> UnderWay(p)]' = [p \in Lines |-> UnderWay(p)]
    BY <1>5, <2>1
  <2> QED
    BY <1>4, <2>2 DEF Pipe!vars
<1> QED
  BY <1>6, <1>7

\* What a worker takes leaves the line.
LEMMA TakeLeaves ==
  ASSUME IInv, NEW w \in Workers, TakeResult(w)
  PROVE  [Pipe!Next]_Pipe!vars
<1> DEFINE r == Head(results[w])
           p0 == <<r.from, r.key>>
           F(p) == FramesOf(p, ToDecode(p))
<1>1. r.items \in Seq(Numbers) /\ done \in [Lines -> Seq(Numbers)] /\ results[w] # <<>>
  <2>1. results[w] \in Seq(Results) /\ results[w] # <<>>
    BY DEF IInv, ResultTypes, TakeResult
  <2>2. r \in Results
    BY <2>1, HeadAndTail
  <2> QED
    BY <2>1, <2>2 DEF Results, IInv, ResultTypes
<1>2. ASSUME NEW p \in Lines
      PROVE  /\ p0 \in Lines
             /\ UnderWay(p) = PartOf(p, r, r.items) \o UnderWay(p)'
             /\ done'[p] = done[p] \o PartOf(p, r, r.items)
             /\ UnderWay(p)' \in Seq(Numbers) /\ PartOf(p, r, r.items) \in Seq(Numbers)
  <2> DEFINE part == PartOf(p, r, r.items)
             b == ItemsOf(p, ToTake(p)')
  <2>1. /\ p0 \in Lines /\ done'[p] = done[p] \o part /\ part \in Seq(Numbers)
        /\ ItemsOf(p, ToTake(p)) = part \o b /\ ToTake(p)' \in Seq(Results)
    BY TakeRemoves
  <2>2. b \in Seq(Numbers)
    BY <2>1, ResultPartTypes
  <2>3. F(p) \in Seq(Numbers)
    BY QueueTypes
  <2>4. ToDecode(p)' = ToDecode(p)
    BY DEF TakeResult, ToDecode, streamVars, dispatcherVars
  <2>5. UnderWay(p)' = b \o F(p)
    BY <2>4 DEF UnderWay, ToTake, ToDecode
  <2>6. UnderWay(p) = (part \o b) \o F(p)
    BY <2>1, UnderWayIs
  <2> HIDE DEF part, b, F
  <2>7. (part \o b) \o F(p) = part \o (b \o F(p))
    BY <2>1, <2>2, <2>3, NumbersAssociate
  <2>8. b \o F(p) \in Seq(Numbers)
    BY <2>2, <2>3
  <2> QED
    BY <2>1, <2>5, <2>6, <2>7, <2>8 DEF part
<1>3. ASSUME NEW p \in Lines, p # p0 \/ r.items = <<>>
      PROVE  UnderWay(p)' = UnderWay(p) /\ done'[p] = done[p]
  <2>1. PartOf(p, r, r.items) = <<>>
    <3> HIDE DEF r
    <3> QED
      BY <1>3 DEF PartOf, Lines
  <2>2. <<>> \o UnderWay(p)' = UnderWay(p)' /\ done[p] \o <<>> = done[p]
    BY <1>1, <1>2
  <2> QED
    BY <1>2, <2>1, <2>2
<1>4. done' = [p \in Lines |-> done'[p]] /\ done = [p \in Lines |-> done[p]]
  BY <1>1 DEF TakeResult
<1>5. CASE r.items # <<>> /\ p0 \in Lines
  <2>0. PICK l \in Lines : l = p0
    BY <1>5
  <2> DEFINE n == Len(r.items)
             u == UnderWay(l)'
  <2>1. PartOf(l, r, r.items) = r.items
    <3> HIDE DEF r
    <3> QED
      BY <2>0 DEF PartOf
  <2>2. UnderWay(l) = r.items \o u /\ done'[l] = done[l] \o r.items /\ u \in Seq(Numbers)
    BY <1>2, <2>1
  <2> HIDE DEF u, r
  <2>3. SubSeq(r.items \o u, 1, n) = r.items /\ SubSeq(r.items \o u, n + 1, Len(r.items \o u)) = u
    BY <1>1, <2>2, SplitConcat
  <2>4. n \in 1 .. Len(r.items \o u)
    BY <1>1, <1>5, <2>2
  <2>5. done' = [done EXCEPT ![l] = @ \o SubSeq(UnderWay(l), 1, n)]
    BY <1>1, <1>3, <1>4, <2>0, <2>2, <2>3
  <2>6. [p \in Lines |-> UnderWay(p)]'
          = [[p \in Lines |-> UnderWay(p)] EXCEPT ![l] = SubSeq(@, n + 1, Len(@))]
    BY <1>3, <2>0, <2>2, <2>3 DEF u
  <2>7. Pipe!Leave(l)
    BY <2>2, <2>4, <2>5, <2>6 DEF Pipe!Leave
  <2> QED
    BY <2>7 DEF Pipe!Next
<1>6. CASE r.items = <<>> \/ p0 \notin Lines
  <2>1. \A p \in Lines : UnderWay(p)' = UnderWay(p) /\ done'[p] = done[p]
    BY <1>2, <1>3, <1>6
  <2>2. [p \in Lines |-> UnderWay(p)]' = [p \in Lines |-> UnderWay(p)] /\ done' = done
    BY <1>4, <2>1
  <2> QED
    BY <2>2 DEF Pipe!vars
<1> QED
  BY <1>5, <1>6

\* Four channels and three kinds of goroutines are a queue for each stream and
\* sensor: frames come to a worker in the order in which they were received, and
\* only those are missing that follow one that cannot be decoded.
THEOREM KeepsTheLine == Spec => ImplementsFramePipe
<1>1. Init => Pipe!Init
  <2> SUFFICES ASSUME Init PROVE Pipe!Init
    OBVIOUS
  <2>1. ASSUME NEW p \in Lines PROVE UnderWay(p) = <<>>
    <3>1. WorkerOf[p[2]] \in Workers /\ p[1] \in Streams
      BY DispatchAssumption DEF Lines
    <3>2. ToTake(p) = <<>>
      BY <3>1 DEF Init, ToTake, Held
    <3>3. ToDecode(p) = <<>>
      BY <3>1 DEF Init, ToDecode, Held
    <3>4. ItemsOf(p, <<>>) = <<>> /\ FramesOf(p, <<>>) = <<>>
      BY FlattenEmpty DEF ItemsOf, FramesOf
    <3> QED
      BY <3>2, <3>3, <3>4, UnderWayIs
  <2> QED
    BY <2>1 DEF Init, Pipe!Init
<1>2. IInv /\ [Next]_vars => [Pipe!Next]_Pipe!vars
  <2> SUFFICES ASSUME IInv, [Next]_vars PROVE [Pipe!Next]_Pipe!vars
    OBVIOUS
  <2>0. ASSUME \A p \in Lines : UnderWay(p)' = UnderWay(p), UNCHANGED done
        PROVE  [Pipe!Next]_Pipe!vars
    BY <2>0 DEF Pipe!vars
  <2>a. ASSUME \A p \in Lines : FramesOf(p, ToDecode(p)') = FramesOf(p, ToDecode(p)),
               UNCHANGED <<decoded, results, done>>
        PROVE  [Pipe!Next]_Pipe!vars
    <3>1. ASSUME NEW p \in Lines PROVE UnderWay(p)' = UnderWay(p)
      <4>1. UnderWay(p)' = ItemsOf(p, ToTake(p)') \o FramesOf(p, ToDecode(p)')
        BY DEF UnderWay, ToTake, ToDecode
      <4>2. ToTake(p)' = ToTake(p)
        BY <2>a DEF ToTake
      <4> QED
        BY <2>a, <4>1, <4>2, UnderWayIs
    <3> QED
      BY <2>a, <2>0, <3>1
  <2>1. ASSUME NEW st \in Streams, Callback(st) PROVE [Pipe!Next]_Pipe!vars
    <3>1. ASSUME SendMessage(st) PROVE [Pipe!Next]_Pipe!vars
      <4>1. UNCHANGED <<decoded, results, done>>
        BY <3>1 DEF SendMessage
      <4> QED
        BY <2>a, <3>1, <4>1, SendKeeps
    <3> QED
      BY <2>1, <3>1, RecvJoins DEF Callback
  <2>2. CASE TakeMessage
    <3>1. UNCHANGED <<decoded, results, done>>
      BY <2>2 DEF TakeMessage
    <3> QED
      BY <2>a, <2>2, <3>1, TakeKeeps
  <2>3. CASE DispatchMessage
    <3>1. UNCHANGED <<decoded, results, done>>
      BY <2>3 DEF DispatchMessage
    <3> QED
      BY <2>a, <2>3, <3>1, DispatchKeeps
  <2>4. ASSUME NEW w \in Workers, DecodeJob(w) PROVE [Pipe!Next]_Pipe!vars
    <3>1. UNCHANGED done
      BY <2>4 DEF DecodeJob, Decoded
    <3> QED
      BY <2>0, <2>4, <3>1, DecodeKeeps
  <2>5. ASSUME NEW w \in Workers, Output(w) PROVE [Pipe!Next]_Pipe!vars
    <3>1. UNCHANGED <<streamVars, grpcmessage, dispatcherVars, jobs, done>>
      BY <2>5 DEF Output
    <3>2. ASSUME NEW p \in Lines PROVE UnderWay(p)' = UnderWay(p)
      <4>1. UnderWay(p)' = ItemsOf(p, ToTake(p)') \o FramesOf(p, ToDecode(p)')
        BY DEF UnderWay, ToTake, ToDecode
      <4>2. ToDecode(p)' = ToDecode(p)
        BY <3>1 DEF ToDecode, streamVars, dispatcherVars
      <4> QED
        BY <2>5, <4>1, <4>2, OutputKeeps, UnderWayIs
    <3> QED
      BY <2>0, <3>1, <3>2
  <2>6. CASE UNCHANGED <<streamVars, grpcmessage, dispatching, jobs, decoded, results, done>>
    <3>1. \A p \in Lines : ToDecode(p)' = ToDecode(p)
      BY <2>6 DEF ToDecode, streamVars
    <3> QED
      BY <2>a, <2>6, <3>1
  <2>7. SignalDispatcher \/ UNCHANGED vars
          => UNCHANGED <<streamVars, grpcmessage, dispatching, jobs, decoded, results, done>>
    BY DEF SignalDispatcher, vars, dispatcherVars
  <2> QED
    BY <2>1, <2>2, <2>3, <2>4, <2>5, <2>6, <2>7, TakeLeaves DEF Next
<1> QED
  BY <1>1, <1>2, InvInit, InvStep, PTL DEF Spec, ImplementsFramePipe, Pipe!Spec
==============================================================================
