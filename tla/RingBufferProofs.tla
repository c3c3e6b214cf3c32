-------------------------- MODULE RingBufferProofs ---------------------------
(***************************************************************************)
(* Type correctness of the ring buffer, its window invariant and the       *)
(* refinement of the bounded FIFO, for every capacity and every set of     *)
(* elements.                                                               *)
(***************************************************************************)
EXTENDS RingBuffer, SequenceTheorems, TLAPS

\* Indices are computed from sums below twice the capacity: the remainder
\* wraps at most once (ERxRingBuffer.h:59, 77, 94).
LEMMA Wrap ==
  ASSUME NEW a \in 0 .. 2 * Capacity - 1
  PROVE  a % Capacity = IF a < Capacity THEN a ELSE a - Capacity
<1>1. CASE a < Capacity
  BY <1>1, CapacityAssumption
<1>2. CASE a >= Capacity
  BY <1>2, CapacityAssumption
<1>3. QED
  BY <1>1, <1>2, CapacityAssumption

\* A remainder is an index of the array.
LEMMA InSlots ==
  ASSUME NEW a \in Nat
  PROVE  a % Capacity \in Slots
BY CapacityAssumption DEF Slots

\* The distance from one index forward to another, without the remainder
\* (ERxRingBuffer.h:92-95).
LEMMA Distance ==
  ASSUME NEW h \in Slots, NEW t \in Slots
  PROVE  (Capacity + h - t) % Capacity =
            IF t <= h THEN h - t ELSE Capacity + h - t
<1>1. Capacity + h - t \in 0 .. 2 * Capacity - 1
  BY CapacityAssumption DEF Slots
<1>2. QED
  BY <1>1, Wrap, CapacityAssumption DEF Slots

\* The next index, without the remainder (ERxRingBuffer.h:59, 77).
LEMMA NextIndex ==
  ASSUME NEW h \in Slots
  PROVE  (h + 1) % Capacity = IF h + 1 < Capacity THEN h + 1 ELSE 0
BY Wrap, CapacityAssumption DEF Slots

-----------------------------------------------------------------------------
(* The inductive invariant: types and the window. *)

IInv == TypeOK /\ WindowFits

LEMMA InitIInv == Init => IInv
<1> SUFFICES ASSUME Init PROVE IInv
  OBVIOUS
<1>1. TypeOK
  BY CapacityAssumption DEF Init, TypeOK, Slots
<1>2. Size = 0
  BY <1>1, Distance, CapacityAssumption DEF Init, Size, Slots
<1>3. QED
  BY <1>1, <1>2, CapacityAssumption DEF IInv, WindowFits, Init

LEMMA NextIInv == IInv /\ [Next]_vars => IInv'
<1> SUFFICES ASSUME IInv, [Next]_vars PROVE IInv'
  OBVIOUS
<1> USE CapacityAssumption
<1>0. TypeOK /\ WindowFits
  BY DEF IInv
<1>a. Size = IF tail <= head THEN head - tail ELSE Capacity + head - tail
  BY <1>0, Distance DEF TypeOK, Size
<1>b. ASSUME TypeOK'
      PROVE  Size' = IF tail' <= head' THEN head' - tail'
                                       ELSE Capacity + head' - tail'
  BY <1>b, Distance DEF TypeOK, Size
<1>1. ASSUME NEW d \in Data, AppendData(d) PROVE IInv'
  <2>1. (head + 1) % Capacity = IF head + 1 < Capacity THEN head + 1 ELSE 0
    BY <1>0, NextIndex DEF TypeOK
  <2>2. CASE (head + 1) % Capacity = tail
    <3>1. UNCHANGED vars
      BY <1>1, <2>2 DEF AppendData, vars
    <3>2. QED
      BY <1>0, <3>1 DEF IInv, TypeOK, WindowFits, Size, vars
  <2>3. CASE (head + 1) % Capacity # tail
    <3>1. /\ head' = (head + 1) % Capacity
          /\ buffer' = [buffer EXCEPT ![head] = d]
          /\ behind' = Room(Capacity - Size - 2)
          /\ UNCHANGED <<tail, out>>
      BY <1>1, <2>3 DEF AppendData
    <3>2. Size + 2 <= Capacity
      BY <1>0, <1>a, <2>1, <2>3 DEF TypeOK, Slots
    <3>3. TypeOK'
      BY <1>0, <1>a, <2>1, <3>1, <3>2 DEF TypeOK, Slots, Room
    <3>4. Size' = Size + 1
      BY <1>0, <1>a, <1>b, <2>1, <2>3, <3>1, <3>3 DEF TypeOK, Slots
    <3>5. Size' + behind' <= Capacity - 1
      BY <1>0, <1>a, <3>1, <3>4 DEF TypeOK, Slots, Room
    <3>6. QED
      BY <3>3, <3>5 DEF IInv, WindowFits
  <2>4. QED
    BY <2>2, <2>3
<1>2. CASE Pop
  <2>1. (tail + 1) % Capacity = IF tail + 1 < Capacity THEN tail + 1 ELSE 0
    BY <1>0, NextIndex DEF TypeOK
  <2>2. TypeOK'
    BY <1>0, <1>2, <2>1 DEF TypeOK, Slots, Pop
  <2>3. Size' + behind' <= Capacity - 1
    BY <1>0, <1>2, <1>a, <1>b, <2>1, <2>2 DEF TypeOK, Slots, Pop, WindowFits
  <2>4. QED
    BY <2>2, <2>3 DEF IInv, WindowFits
<1>3. CASE Flush
  <2>1. TypeOK'
    BY <1>0, <1>3, <1>a DEF TypeOK, Slots, Flush
  <2>2. Size' + behind' <= Capacity - 1
    BY <1>0, <1>3, <1>a, <1>b, <2>1 DEF TypeOK, Slots, Flush, WindowFits
  <2>3. QED
    BY <2>1, <2>2 DEF IInv, WindowFits
<1>4. ASSUME NEW t \in 0 .. 2 * Capacity - 1, ResetTailIndex(t) PROVE IInv'
  <2> DEFINE slot == t % Capacity
  <2>1. slot \in Slots
    BY InSlots
  <2>2. Ahead(slot) = IF tail <= slot THEN slot - tail ELSE Capacity + slot - tail
    BY <1>0, <2>1, Distance DEF TypeOK, Ahead
  <2> HIDE DEF slot
  <2>3. /\ tail' = slot
        /\ \/ /\ Ahead(slot) <= Size
              /\ behind' = behind + Ahead(slot)
           \/ /\ Capacity - Ahead(slot) <= behind
              /\ behind' = behind - (Capacity - Ahead(slot))
        /\ UNCHANGED <<buffer, head, out>>
    BY <1>4 DEF ResetTailIndex, slot
  <2>4. TypeOK'
    BY <1>0, <2>1, <2>2, <2>3 DEF TypeOK, Slots
  <2>5. Size' + behind' <= Capacity - 1
    BY <1>0, <1>a, <1>b, <2>1, <2>2, <2>3, <2>4 DEF TypeOK, WindowFits, Slots
  <2>6. QED
    BY <2>4, <2>5 DEF IInv, WindowFits
<1>5. CASE UNCHANGED vars
  BY <1>0, <1>5 DEF IInv, TypeOK, WindowFits, Size, vars
<1>6. QED
  BY <1>1, <1>2, <1>3, <1>4, <1>5 DEF Next

\* The ring buffer's indices and contents are well typed, and the window of
\* elements a parser may still reach fits in the array, after any sequence of
\* calls, for every capacity.
THEOREM Typing == Spec => []TypeOK
<1>1. IInv => TypeOK
  BY DEF IInv
<1>2. QED
  BY InitIInv, NextIInv, <1>1, PTL DEF Spec

\* A position saved by a parser stays unambiguous: unread elements and
\* elements still reachable by ResetTailIndex never overlap.
THEOREM Window == Spec => []WindowFits
<1>1. IInv => WindowFits
  BY DEF IInv
<1>2. QED
  BY InitIInv, NextIInv, <1>1, PTL DEF Spec

\* Empty and Full agree with the tests Pop and Append make on the indices.
THEOREM Observers == Spec => []ObserversAgree
<1>1. IInv => ObserversAgree
  <2> SUFFICES ASSUME IInv PROVE ObserversAgree
    OBVIOUS
  <2>1. TypeOK
    BY DEF IInv
  <2>2. (head + 1) % Capacity = IF head + 1 < Capacity THEN head + 1 ELSE 0
    BY <2>1, NextIndex DEF TypeOK
  <2>3. Size = IF tail <= head THEN head - tail ELSE Capacity + head - tail
    BY <2>1, Distance DEF TypeOK, Size
  <2>4. Empty <=> head = tail
    BY <2>1, <2>3, CapacityAssumption DEF TypeOK, Slots, Empty
  <2>5. Full <=> (head + 1) % Capacity = tail
    BY <2>1, <2>2, <2>3, CapacityAssumption DEF TypeOK, Slots, Full
  <2>6. QED
    BY <2>4, <2>5 DEF ObserversAgree
<1>2. QED
  BY InitIInv, NextIInv, <1>1, PTL DEF Spec

-----------------------------------------------------------------------------
(* The refinement.  Element is what a slot can hold; Wr(x) is the slot an  *)
(* index computation reaches when it leaves the array at most once.        *)

Element == Data \union {Blank}

Wr(x) ==
  IF x < 0 THEN x + Capacity ELSE IF x < Capacity THEN x ELSE x - Capacity

\* An index computation that leaves the array at most once, at either end.
LEMMA WrapBoth ==
  ASSUME NEW x \in -Capacity .. 2 * Capacity - 1
  PROVE  /\ Wr(x) \in Slots
         /\ x >= 0 => x % Capacity = Wr(x)
         /\ x < Capacity => (Capacity + x) % Capacity = Wr(x)
<1> USE CapacityAssumption
<1>1. Wr(x) \in Slots
  BY DEF Wr, Slots
<1>2. ASSUME x >= 0 PROVE x % Capacity = Wr(x)
  <2>1. x % Capacity = IF x < Capacity THEN x ELSE x - Capacity
    BY <1>2, Wrap
  <2>2. QED
    BY <1>2, <2>1 DEF Wr
<1>3. ASSUME x < Capacity PROVE (Capacity + x) % Capacity = Wr(x)
  <2> DEFINE y == Capacity + x
  <2>1. y \in 0 .. 2 * Capacity - 1
    BY <1>3
  <2>2. y % Capacity = IF y < Capacity THEN y ELSE y - Capacity
    BY <2>1, Wrap
  <2>3. QED
    BY <1>3, <2>2 DEF Wr
<1>4. QED
  BY <1>1, <1>2, <1>3

\* What the two abstract sequences contain.
Reads ==
  /\ Size \in 0 .. Capacity - 1
  /\ behind \in 0 .. Capacity - 1 - Size
  /\ Items \in Seq(Element)
  /\ Len(Items) = Size
  /\ \A k \in 1 .. Size : Items[k] = buffer[Wr(tail + k - 1)]
  /\ Taken \in Seq(Element)
  /\ Len(Taken) = behind
  /\ \A k \in 1 .. behind : Taken[k] = buffer[Wr(tail - behind + k - 1)]

LEMMA Contents == IInv => Reads
<1> SUFFICES ASSUME IInv PROVE Reads
  OBVIOUS
<1> USE CapacityAssumption
<1>1. /\ buffer \in [Slots -> Element] /\ tail \in Slots /\ head \in Slots
      /\ behind \in Nat /\ Size + behind <= Capacity - 1
  BY DEF IInv, TypeOK, WindowFits, Element
<1>2. Size = IF tail <= head THEN head - tail ELSE Capacity + head - tail
  BY <1>1, Distance DEF Size
<1>3. /\ Size \in 0 .. Capacity - 1
      /\ behind \in 0 .. Capacity - 1
      /\ behind \in 0 .. Capacity - 1 - Size
  BY <1>1, <1>2 DEF Slots
<1>4. \A k \in 1 .. Size :
        /\ Items[k] = buffer[Wr(tail + k - 1)]
        /\ Wr(tail + k - 1) \in Slots
  <2> SUFFICES ASSUME NEW k \in 1 .. Size
               PROVE  /\ Items[k] = buffer[Wr(tail + k - 1)]
                      /\ Wr(tail + k - 1) \in Slots
    OBVIOUS
  <2>1. Items[k] = buffer[(tail + k - 1) % Capacity]
    BY DEF Items
  <2>2. /\ tail + k - 1 \in -Capacity .. 2 * Capacity - 1
        /\ tail + k - 1 >= 0
    BY <1>1, <1>3 DEF Slots
  <2>3. QED
    BY <2>1, <2>2, WrapBoth
<1>5. Items \in Seq(Element) /\ Len(Items) = Size
  <2>1. Items \in [1 .. Size -> Element]
    BY <1>1, <1>4 DEF Items
  <2>2. QED
    BY <1>3, <2>1
<1>6. \A k \in 1 .. behind :
        /\ Taken[k] = buffer[Wr(tail - behind + k - 1)]
        /\ Wr(tail - behind + k - 1) \in Slots
  <2> SUFFICES ASSUME NEW k \in 1 .. behind
               PROVE  /\ Taken[k] = buffer[Wr(tail - behind + k - 1)]
                      /\ Wr(tail - behind + k - 1) \in Slots
    OBVIOUS
  <2>1. Taken[k] = buffer[(Capacity + tail - behind + k - 1) % Capacity]
    BY DEF Taken
  <2>2. /\ tail - behind + k - 1 \in -Capacity .. 2 * Capacity - 1
        /\ tail - behind + k - 1 < Capacity
        /\ Capacity + tail - behind + k - 1 = Capacity + (tail - behind + k - 1)
    BY <1>1, <1>3 DEF Slots
  <2>3. QED
    BY <2>1, <2>2, WrapBoth
<1>7. Taken \in Seq(Element) /\ Len(Taken) = behind
  <2>1. Taken \in [1 .. behind -> Element]
    BY <1>1, <1>6 DEF Taken
  <2>2. QED
    BY <1>3, <2>1
<1>8. QED
  BY <1>3, <1>4, <1>5, <1>6, <1>7 DEF Reads

LEMMA ContentsNext == IInv' => Reads'
BY Contents, PTL

\* Two sequences that read the same elements, n further on.
SkipShape(i, t, i2, t2, n) ==
  /\ n \in 0 .. Len(i)
  /\ Len(i2) = Len(i) - n
  /\ \A k \in 1 .. Len(i2) : i2[k] = i[k + n]
  /\ Len(t2) = Len(t) + n
  /\ \A k \in 1 .. Len(t) : t2[k] = t[k]
  /\ \A k \in 1 .. n : t2[Len(t) + k] = i[k]

LEMMA SkipSequences ==
  ASSUME NEW S, NEW i \in Seq(S), NEW t \in Seq(S),
         NEW i2 \in Seq(S), NEW t2 \in Seq(S), NEW n,
         SkipShape(i, t, i2, t2, n)
  PROVE  /\ t2 = t \o SubSeq(i, 1, n)
         /\ i2 = SubSeq(i, n + 1, Len(i))
<1> USE DEF SkipShape
<1>1. /\ SubSeq(i, n + 1, Len(i)) \in Seq(S)
      /\ Len(SubSeq(i, n + 1, Len(i))) = Len(i) - n
      /\ \A k \in 1 .. Len(i) - n : SubSeq(i, n + 1, Len(i))[k] = i[k + n]
  OBVIOUS
<1>2. i2 = SubSeq(i, n + 1, Len(i))
  BY <1>1, SeqEqual
<1>3. /\ SubSeq(i, 1, n) \in Seq(S)
      /\ Len(SubSeq(i, 1, n)) = n
      /\ \A k \in 1 .. n : SubSeq(i, 1, n)[k] = i[k]
  OBVIOUS
<1>4. /\ t \o SubSeq(i, 1, n) \in Seq(S)
      /\ Len(t \o SubSeq(i, 1, n)) = Len(t) + n
      /\ \A k \in 1 .. Len(t) : (t \o SubSeq(i, 1, n))[k] = t[k]
      /\ \A k \in 1 .. n : (t \o SubSeq(i, 1, n))[Len(t) + k] = i[k]
  BY <1>3
<1>5. \A k \in 1 .. Len(t2) : t2[k] = (t \o SubSeq(i, 1, n))[k]
  <2> SUFFICES ASSUME NEW k \in 1 .. Len(t2)
               PROVE  t2[k] = (t \o SubSeq(i, 1, n))[k]
    OBVIOUS
  <2>1. CASE k <= Len(t)
    BY <1>4, <2>1
  <2>2. CASE k > Len(t)
    <3>1. k - Len(t) \in 1 .. n /\ k = Len(t) + (k - Len(t))
      BY <2>2
    <3>2. QED
      BY <1>4, <3>1
  <2>3. QED
    BY <2>1, <2>2
<1>6. t2 = t \o SubSeq(i, 1, n)
  BY <1>4, <1>5, SeqEqual
<1>7. QED
  BY <1>2, <1>6

\* Two sequences of which the last n elements of the second moved to the
\* front of the first.
RewindShape(i, t, i2, t2, n) ==
  /\ n \in 0 .. Len(t)
  /\ Len(t2) = Len(t) - n
  /\ \A k \in 1 .. Len(t2) : t2[k] = t[k]
  /\ Len(i2) = Len(i) + n
  /\ \A k \in 1 .. n : i2[k] = t[Len(t) - n + k]
  /\ \A k \in 1 .. Len(i) : i2[n + k] = i[k]

LEMMA RewindSequences ==
  ASSUME NEW S, NEW i \in Seq(S), NEW t \in Seq(S),
         NEW i2 \in Seq(S), NEW t2 \in Seq(S), NEW n,
         RewindShape(i, t, i2, t2, n)
  PROVE  /\ i2 = SubSeq(t, Len(t) - n + 1, Len(t)) \o i
         /\ t2 = SubSeq(t, 1, Len(t) - n)
<1> USE DEF RewindShape
<1> DEFINE back == SubSeq(t, Len(t) - n + 1, Len(t))
<1>0. Len(i) \in Nat /\ Len(t) \in Nat /\ n \in Nat /\ n <= Len(t)
  BY LenProperties
<1>1. /\ SubSeq(t, 1, Len(t) - n) \in Seq(S)
      /\ Len(SubSeq(t, 1, Len(t) - n)) = Len(t) - n
      /\ \A k \in 1 .. Len(t) - n : SubSeq(t, 1, Len(t) - n)[k] = t[k]
  OBVIOUS
<1>2. t2 = SubSeq(t, 1, Len(t) - n)
  BY <1>0, <1>1, SeqEqual
<1>3. /\ back \in Seq(S)
      /\ Len(back) = n
      /\ \A k \in 1 .. n : back[k] = t[Len(t) - n + k]
  OBVIOUS
<1> HIDE DEF back
<1> DEFINE cat == back \o i
<1>4. /\ cat \in Seq(S)
      /\ Len(cat) = n + Len(i)
      /\ \A k \in 1 .. n + Len(i) : cat[k] = IF k <= n THEN back[k] ELSE i[k - n]
  BY <1>3, ConcatProperties
<1> HIDE DEF cat
<1>5. \A k \in 1 .. Len(i2) : i2[k] = cat[k]
  <2> SUFFICES ASSUME NEW k \in 1 .. Len(i2) PROVE i2[k] = cat[k]
    OBVIOUS
  <2>0. k \in Int /\ k >= 1 /\ k <= n + Len(i)
    BY <1>0
  <2>1. CASE k <= n
    <3>1. k \in 1 .. n /\ k \in 1 .. n + Len(i)
      BY <1>0, <2>0, <2>1
    <3>2. i2[k] = t[Len(t) - n + k]
      BY <3>1
    <3>3. back[k] = t[Len(t) - n + k]
      BY <1>3, <3>1
    <3>4. cat[k] = back[k]
      BY <1>4, <2>1, <3>1
    <3>5. QED
      BY <3>2, <3>3, <3>4
  <2>2. CASE k > n
    <3>1. k - n \in 1 .. Len(i) /\ k = n + (k - n)
      BY <1>0, <2>0, <2>2
    <3>2. i2[n + (k - n)] = i[k - n]
      BY <3>1
    <3>3. QED
      BY <1>0, <1>4, <2>0, <2>2, <3>1, <3>2
  <2>3. QED
    BY <1>0, <2>0, <2>1, <2>2
<1>6. i2 = cat
  <2>1. Len(i2) = Len(cat)
    BY <1>0, <1>4
  <2>2. QED
    BY <1>4, <1>5, <2>1, SeqEqual
<1>7. i2 = back \o i
  BY <1>6 DEF cat
<1>8. QED
  BY <1>2, <1>7 DEF back

\* A sequence with one more element, and one that kept its last elements.
AppendShape(i, t, i2, t2, d, r) ==
  /\ Len(i2) = Len(i) + 1
  /\ \A k \in 1 .. Len(i) : i2[k] = i[k]
  /\ i2[Len(i) + 1] = d
  /\ Len(t2) = IF Len(t) <= r THEN Len(t) ELSE r
  /\ \A k \in 1 .. Len(t2) : t2[k] = t[Len(t) - Len(t2) + k]

LEMMA AppendSequences ==
  ASSUME NEW S, NEW i \in Seq(S), NEW t \in Seq(S), NEW d \in S, NEW r \in Nat,
         NEW i2 \in Seq(S), NEW t2 \in Seq(S), AppendShape(i, t, i2, t2, d, r)
  PROVE  i2 = Append(i, d) /\ t2 = Fifo!KeepLast(t, r)
<1> USE DEF AppendShape
<1>1. i2 = Append(i, d)
  <2>1. /\ Append(i, d) \in Seq(S)
        /\ Len(Append(i, d)) = Len(i) + 1
        /\ \A k \in 1 .. Len(i) : Append(i, d)[k] = i[k]
        /\ Append(i, d)[Len(i) + 1] = d
    OBVIOUS
  <2>2. \A k \in 1 .. Len(i2) : i2[k] = Append(i, d)[k]
    BY <2>1
  <2>3. QED
    BY <2>1, <2>2, SeqEqual
<1>2. CASE Len(t) <= r
  <2>1. \A k \in 1 .. Len(t2) : t2[k] = t[k]
    BY <1>2
  <2>2. t2 = t
    BY <1>2, <2>1, SeqEqual
  <2>3. QED
    BY <1>1, <1>2, <2>2 DEF Fifo!KeepLast
<1>3. CASE Len(t) > r
  <2> DEFINE back == SubSeq(t, Len(t) - r + 1, Len(t))
  <2>1. /\ back \in Seq(S)
        /\ Len(back) = r
        /\ \A k \in 1 .. r : back[k] = t[Len(t) - r + k]
    BY <1>3
  <2>2. t2 = back
    <3> HIDE DEF back
    <3>0. Len(t) \in Nat /\ Len(t2) = r
      BY <1>3, LenProperties
    <3>1. \A k \in 1 .. r : t2[k] = t[Len(t) - r + k]
      BY <3>0
    <3>2. \A k \in 1 .. Len(t2) : t2[k] = back[k]
      BY <2>1, <3>0, <3>1
    <3>3. QED
      BY <2>1, <3>0, <3>2, SeqEqual
  <2>3. QED
    BY <1>1, <1>3, <2>2 DEF Fifo!KeepLast
<1>4. QED
  BY <1>2, <1>3

\* A sequence without its first element, which another one gained.
PopShape(i, t, i2, t2) ==
  /\ Len(i) > 0
  /\ Len(i2) = Len(i) - 1
  /\ \A k \in 1 .. Len(i2) : i2[k] = i[k + 1]
  /\ Len(t2) = Len(t) + 1
  /\ \A k \in 1 .. Len(t) : t2[k] = t[k]
  /\ t2[Len(t) + 1] = i[1]

LEMMA PopSequences ==
  ASSUME NEW S, NEW i \in Seq(S), NEW t \in Seq(S),
         NEW i2 \in Seq(S), NEW t2 \in Seq(S), PopShape(i, t, i2, t2)
  PROVE  i2 = Tail(i) /\ t2 = Append(t, Head(i)) /\ i # <<>> /\ Head(i) = i[1]
<1> USE DEF PopShape
<1>1. i # <<>> /\ Head(i) = i[1] /\ i[1] \in S
  OBVIOUS
<1>2. i2 = Tail(i)
  <2>1. /\ Tail(i) \in Seq(S)
        /\ Len(Tail(i)) = Len(i) - 1
        /\ \A k \in 1 .. Len(i) - 1 : Tail(i)[k] = i[k + 1]
    BY <1>1
  <2>2. QED
    BY <2>1, SeqEqual
<1>3. t2 = Append(t, Head(i))
  <2>1. /\ Append(t, Head(i)) \in Seq(S)
        /\ Len(Append(t, Head(i))) = Len(t) + 1
        /\ \A k \in 1 .. Len(t) : Append(t, Head(i))[k] = t[k]
        /\ Append(t, Head(i))[Len(t) + 1] = i[1]
    BY <1>1
  <2>2. \A k \in 1 .. Len(t2) : t2[k] = Append(t, Head(i))[k]
    BY <2>1
  <2>3. QED
    BY <2>1, <2>2, SeqEqual
<1>4. QED
  BY <1>1, <1>2, <1>3

-----------------------------------------------------------------------------
(* Each operation of the ring is a step of the abstract buffer or none.    *)

\* Moving the tail forward over n unread elements.
LEMMA SkipStep ==
  ASSUME IInv, IInv', NEW n \in 0 .. Size,
         tail' = Wr(tail + n), behind' = behind + n,
         UNCHANGED <<buffer, head, out>>
  PROVE  Fifo!Next /\ Items' = SubSeq(Items, n + 1, Len(Items))
<1> USE CapacityAssumption
<1>1. Reads /\ Reads' /\ tail \in Slots /\ tail' \in Slots /\ head \in Slots
  BY Contents, ContentsNext DEF IInv, TypeOK
<1>0. Size \in 0 .. Capacity - 1 /\ behind \in Nat /\ n \in Nat /\ n <= Size
  BY <1>1 DEF Reads
<1>2. Size' = Size - n
  <2>1. /\ Size = IF tail <= head THEN head - tail ELSE Capacity + head - tail
        /\ Size' = IF tail' <= head THEN head - tail' ELSE Capacity + head - tail'
    BY <1>1, Distance DEF Size
  <2>2. QED
    BY <1>1, <2>1 DEF Slots, Wr
<1>3. \A k \in 1 .. Len(Items') : Items'[k] = Items[k + n]
  <2> SUFFICES ASSUME NEW k \in 1 .. Size - n PROVE Items'[k] = Items[k + n]
    BY <1>1, <1>2 DEF Reads
  <2>1. Wr(tail' + k - 1) = Wr(tail + (k + n) - 1)
    BY <1>1 DEF Slots, Wr, Reads
  <2>2. Items'[k] = buffer[Wr(tail' + k - 1)]
    BY <1>1, <1>2 DEF Reads
  <2>3. k + n \in 1 .. Size
    BY <1>1 DEF Reads
  <2>4. Items[k + n] = buffer[Wr(tail + (k + n) - 1)]
    BY <1>1, <2>3 DEF Reads
  <2>5. QED
    BY <2>1, <2>2, <2>4
<1>4. \A k \in 1 .. Len(Taken) : Taken'[k] = Taken[k]
  <2> SUFFICES ASSUME NEW k \in 1 .. behind PROVE Taken'[k] = Taken[k]
    BY <1>1 DEF Reads
  <2>1. Wr(tail' - behind' + k - 1) = Wr(tail - behind + k - 1)
    BY <1>1 DEF Slots, Wr, Reads
  <2>2. k \in 1 .. behind'
    BY <1>1 DEF Reads
  <2>3. Taken'[k] = buffer[Wr(tail' - behind' + k - 1)]
    BY <1>1, <2>2 DEF Reads
  <2>4. Taken[k] = buffer[Wr(tail - behind + k - 1)]
    BY <1>1 DEF Reads
  <2>5. QED
    BY <2>1, <2>3, <2>4
<1>5. \A k \in 1 .. n : Taken'[Len(Taken) + k] = Items[k]
  <2> SUFFICES ASSUME NEW k \in 1 .. n PROVE Taken'[behind + k] = Items[k]
    BY <1>1 DEF Reads
  <2>1. Wr(tail' - behind' + (behind + k) - 1) = Wr(tail + k - 1)
    BY <1>1 DEF Slots, Wr, Reads
  <2>2. behind + k \in 1 .. behind' /\ k \in 1 .. Size
    BY <1>0
  <2>3. Taken'[behind + k] = buffer[Wr(tail' - behind' + (behind + k) - 1)]
    BY <1>1, <2>2 DEF Reads
  <2>4. Items[k] = buffer[Wr(tail + k - 1)]
    BY <1>1, <2>2 DEF Reads
  <2>5. QED
    BY <2>1, <2>3, <2>4
<1>6. /\ n \in 0 .. Len(Items)
      /\ Len(Items') = Len(Items) - n
      /\ Len(Taken') = Len(Taken) + n
      /\ Items \in Seq(Element) /\ Taken \in Seq(Element)
      /\ Items' \in Seq(Element) /\ Taken' \in Seq(Element)
  BY <1>1, <1>2 DEF Reads
<1>7. SkipShape(Items, Taken, Items', Taken', n)
  BY <1>3, <1>4, <1>5, <1>6 DEF SkipShape
<1>8. Fifo!Skip(n)
  BY <1>6, <1>7, SkipSequences DEF Fifo!Skip
<1>9. Items' = SubSeq(Items, n + 1, Len(Items))
  BY <1>6, <1>7, SkipSequences
<1>10. QED
  BY <1>6, <1>8, <1>9 DEF Fifo!Next

\* Moving the tail back over n elements that were read and not overwritten.
LEMMA RewindStep ==
  ASSUME IInv, IInv', NEW n \in 0 .. behind,
         tail' = Wr(tail - n), behind' = behind - n,
         UNCHANGED <<buffer, head, out>>
  PROVE  Fifo!Next
<1> USE CapacityAssumption
<1>1. Reads /\ Reads' /\ tail \in Slots /\ tail' \in Slots /\ head \in Slots
  BY Contents, ContentsNext DEF IInv, TypeOK
<1>0. /\ Size \in 0 .. Capacity - 1 /\ behind \in 0 .. Capacity - 1 - Size
      /\ n \in Nat /\ n <= behind /\ tail \in Nat /\ tail < Capacity
  BY <1>1 DEF Reads, Slots
<1>2. Size' = Size + n
  <2>1. /\ Size = IF tail <= head THEN head - tail ELSE Capacity + head - tail
        /\ Size' = IF tail' <= head THEN head - tail' ELSE Capacity + head - tail'
    BY <1>1, Distance DEF Size
  <2>2. QED
    BY <1>0, <1>1, <2>1 DEF Slots, Wr
<1>3. \A k \in 1 .. Len(Taken') : Taken'[k] = Taken[k]
  <2> SUFFICES ASSUME NEW k \in 1 .. behind - n PROVE Taken'[k] = Taken[k]
    BY <1>1 DEF Reads
  <2>1. Wr(tail' - behind' + k - 1) = Wr(tail - behind + k - 1)
    BY <1>1 DEF Slots, Wr, Reads
  <2>2. k \in 1 .. behind' /\ k \in 1 .. behind
    BY <1>1 DEF Reads
  <2>3. Taken'[k] = buffer[Wr(tail' - behind' + k - 1)]
    BY <1>1, <2>2 DEF Reads
  <2>4. Taken[k] = buffer[Wr(tail - behind + k - 1)]
    BY <1>1, <2>2 DEF Reads
  <2>5. QED
    BY <2>1, <2>3, <2>4
<1>4. \A k \in 1 .. n : Items'[k] = Taken[Len(Taken) - n + k]
  <2> SUFFICES ASSUME NEW k \in 1 .. n PROVE Items'[k] = Taken[behind - n + k]
    BY <1>1 DEF Reads
  <2>1. Wr(tail' + k - 1) = Wr(tail - behind + (behind - n + k) - 1)
    BY <1>0, <1>1 DEF Slots, Wr
  <2>2. k \in 1 .. Size' /\ behind - n + k \in 1 .. behind
    BY <1>0, <1>2
  <2>3. Items'[k] = buffer[Wr(tail' + k - 1)]
    BY <1>1, <2>2 DEF Reads
  <2>4. Taken[behind - n + k] = buffer[Wr(tail - behind + (behind - n + k) - 1)]
    BY <1>1, <2>2 DEF Reads
  <2>5. QED
    BY <2>1, <2>3, <2>4
<1>5. \A k \in 1 .. Len(Items) : Items'[n + k] = Items[k]
  <2> SUFFICES ASSUME NEW k \in 1 .. Size PROVE Items'[n + k] = Items[k]
    BY <1>1 DEF Reads
  <2>1. Wr(tail' + (n + k) - 1) = Wr(tail + k - 1)
    BY <1>1 DEF Slots, Wr, Reads
  <2>2. n + k \in 1 .. Size'
    BY <1>0, <1>2
  <2>3. Items'[n + k] = buffer[Wr(tail' + (n + k) - 1)]
    BY <1>1, <2>2 DEF Reads
  <2>4. Items[k] = buffer[Wr(tail + k - 1)]
    BY <1>1 DEF Reads
  <2>5. QED
    BY <2>1, <2>3, <2>4
<1>6. /\ n \in 0 .. Len(Taken)
      /\ Len(Items') = Len(Items) + n
      /\ Len(Taken') = Len(Taken) - n
      /\ Items \in Seq(Element) /\ Taken \in Seq(Element)
      /\ Items' \in Seq(Element) /\ Taken' \in Seq(Element)
  BY <1>1, <1>2 DEF Reads
<1>7. RewindShape(Items, Taken, Items', Taken', n)
  BY <1>3, <1>4, <1>5, <1>6 DEF RewindShape
<1>8. Fifo!Rewind(n)
  BY <1>6, <1>7, RewindSequences DEF Fifo!Rewind
<1>9. QED
  BY <1>6, <1>8 DEF Fifo!Next

\* Storing an element in the slot before the free one.
LEMMA StoreStep ==
  ASSUME IInv, IInv', NEW d \in Data, AppendData(d), (head + 1) % Capacity # tail
  PROVE  Fifo!AppendData(d)
<1> USE CapacityAssumption
<1>1. /\ Reads /\ Reads' /\ tail \in Slots /\ tail' \in Slots
      /\ head \in Slots /\ head' \in Slots /\ buffer \in [Slots -> Element]
  BY Contents, ContentsNext DEF IInv, TypeOK, Element
<1>2. /\ head' = (head + 1) % Capacity
      /\ buffer' = [buffer EXCEPT ![head] = d]
      /\ behind' = Room(Capacity - Size - 2)
      /\ UNCHANGED <<tail, out>>
  BY DEF AppendData
<1>3. head' = IF head + 1 < Capacity THEN head + 1 ELSE 0
  BY <1>1, <1>2, NextIndex
<1>4. /\ Size = IF tail <= head THEN head - tail ELSE Capacity + head - tail
      /\ Size' = IF tail <= head' THEN head' - tail ELSE Capacity + head' - tail
  BY <1>1, <1>2, Distance DEF Size
<1>5. /\ Size' = Size + 1 /\ Size + 2 <= Capacity
      /\ Wr(tail + Size) = head
  BY <1>1, <1>2, <1>3, <1>4 DEF Slots, Wr
<1>0. /\ Size \in 0 .. Capacity - 2 /\ behind \in 0 .. Capacity - 1 - Size
      /\ behind' = IF behind <= Capacity - Size - 2 THEN behind
                                                    ELSE Capacity - Size - 2
      /\ tail \in Nat /\ tail < Capacity /\ head \in Nat /\ head < Capacity
  BY <1>1, <1>2, <1>5 DEF Reads, Slots, Room
<1>6. ASSUME NEW k \in 1 .. Size
      PROVE  /\ Wr(tail + k - 1) \in Slots
             /\ Wr(tail + k - 1) # head
  BY <1>0, <1>5 DEF Slots, Wr
<1>7. \A k \in 1 .. Size : Items'[k] = Items[k]
  <2> SUFFICES ASSUME NEW k \in 1 .. Size PROVE Items'[k] = Items[k]
    OBVIOUS
  <2>1. k \in 1 .. Size'
    BY <1>0, <1>5
  <2>2. Items'[k] = buffer'[Wr(tail + k - 1)]
    BY <1>1, <1>2, <2>1 DEF Reads
  <2>3. Items[k] = buffer[Wr(tail + k - 1)]
    BY <1>1 DEF Reads
  <2>4. QED
    BY <1>1, <1>2, <1>6, <2>2, <2>3
<1>8. Items'[Size + 1] = d
  <2>1. Size + 1 \in 1 .. Size' /\ tail + (Size + 1) - 1 = tail + Size
    BY <1>0, <1>5
  <2>2. Items'[Size + 1] = buffer'[Wr(tail + Size)]
    BY <1>1, <1>2, <2>1 DEF Reads
  <2>3. QED
    BY <1>1, <1>2, <1>5, <2>2
<1>9. \A k \in 1 .. behind' : Taken'[k] = Taken[behind - behind' + k]
  <2> SUFFICES ASSUME NEW k \in 1 .. behind'
               PROVE  Taken'[k] = Taken[behind - behind' + k]
    OBVIOUS
  <2>1. behind - behind' + k \in 1 .. behind
    BY <1>0
  <2>2. tail - behind + (behind - behind' + k) - 1 = tail - behind' + k - 1
    BY <1>0
  <2>3. Taken'[k] = buffer'[Wr(tail - behind' + k - 1)]
    BY <1>1, <1>2 DEF Reads
  <2>4. Taken[behind - behind' + k] = buffer[Wr(tail - behind' + k - 1)]
    BY <1>1, <2>1, <2>2 DEF Reads
  <2>5. Wr(tail - behind' + k - 1) \in Slots /\ Wr(tail - behind' + k - 1) # head
    BY <1>0, <1>4 DEF Slots, Wr
  <2>6. QED
    BY <1>1, <1>2, <2>3, <2>4, <2>5
<1>10. /\ Items \in Seq(Element) /\ Items' \in Seq(Element)
       /\ Taken \in Seq(Element) /\ Taken' \in Seq(Element)
       /\ Len(Items) = Size /\ Len(Items') = Size + 1
       /\ Len(Taken) = behind /\ Len(Taken') = behind'
  BY <1>1, <1>5 DEF Reads
<1>11. AppendShape(Items, Taken, Items', Taken', d, Capacity - Size - 2)
  BY <1>0, <1>7, <1>8, <1>9, <1>10 DEF AppendShape
<1>12. d \in Element /\ Capacity - Size - 2 \in Nat
  BY <1>0 DEF Element
<1>13. /\ Items' = Append(Items, d)
       /\ Taken' = Fifo!KeepLast(Taken, Capacity - Size - 2)
  BY <1>10, <1>11, <1>12, AppendSequences
<1>14. /\ Len(Items) < Capacity - 1
       /\ Capacity - 1 - Len(Items) - 1 = Capacity - Size - 2
  BY <1>0, <1>10
<1>15. QED
  BY <1>2, <1>13, <1>14 DEF Fifo!AppendData

\* Reading the element at the tail.
LEMMA TakeStep ==
  ASSUME IInv, IInv', Pop, head # tail
  PROVE  Fifo!Pop
<1> USE CapacityAssumption
<1>1. /\ Reads /\ Reads' /\ tail \in Slots /\ tail' \in Slots /\ head \in Slots
  BY Contents, ContentsNext DEF IInv, TypeOK
<1>2. /\ out' = buffer[tail]
      /\ tail' = (tail + 1) % Capacity
      /\ behind' = behind + 1
      /\ UNCHANGED <<buffer, head>>
  BY DEF Pop
<1>3. tail' = IF tail + 1 < Capacity THEN tail + 1 ELSE 0
  BY <1>1, <1>2, NextIndex
<1>4. /\ Size = IF tail <= head THEN head - tail ELSE Capacity + head - tail
      /\ Size' = IF tail' <= head THEN head - tail' ELSE Capacity + head - tail'
  BY <1>1, <1>2, Distance DEF Size
<1>5. Size' = Size - 1 /\ Size >= 1
  BY <1>1, <1>3, <1>4 DEF Slots
<1>0. /\ Size \in 1 .. Capacity - 1 /\ behind \in 0 .. Capacity - 1 - Size
      /\ tail \in Nat /\ tail < Capacity /\ behind' = behind + 1
  BY <1>1, <1>2, <1>5 DEF Reads, Slots
<1>6. \A k \in 1 .. Size - 1 : Items'[k] = Items[k + 1]
  <2> SUFFICES ASSUME NEW k \in 1 .. Size - 1 PROVE Items'[k] = Items[k + 1]
    OBVIOUS
  <2>1. Wr(tail' + k - 1) = Wr(tail + (k + 1) - 1)
    BY <1>0, <1>3 DEF Wr
  <2>2. k + 1 \in 1 .. Size /\ k \in 1 .. Size'
    BY <1>0, <1>5
  <2>3. Items'[k] = buffer[Wr(tail' + k - 1)]
    BY <1>1, <1>2, <2>2 DEF Reads
  <2>4. Items[k + 1] = buffer[Wr(tail + (k + 1) - 1)]
    BY <1>1, <2>2 DEF Reads
  <2>5. QED
    BY <2>1, <2>3, <2>4
<1>7. Items[1] = buffer[tail]
  <2>1. Wr(tail + 1 - 1) = tail /\ 1 \in 1 .. Size
    BY <1>0 DEF Wr
  <2>2. QED
    BY <1>1, <2>1 DEF Reads
<1>8. \A k \in 1 .. behind : Taken'[k] = Taken[k]
  <2> SUFFICES ASSUME NEW k \in 1 .. behind PROVE Taken'[k] = Taken[k]
    OBVIOUS
  <2>1. Wr(tail' - behind' + k - 1) = Wr(tail - behind + k - 1)
    BY <1>0, <1>3 DEF Wr
  <2>2. k \in 1 .. behind'
    BY <1>0
  <2>3. Taken'[k] = buffer[Wr(tail' - behind' + k - 1)]
    BY <1>1, <1>2, <2>2 DEF Reads
  <2>4. Taken[k] = buffer[Wr(tail - behind + k - 1)]
    BY <1>1 DEF Reads
  <2>5. QED
    BY <2>1, <2>3, <2>4
<1>9. Taken'[behind + 1] = buffer[tail]
  <2>1. Wr(tail' - behind' + (behind + 1) - 1) = tail /\ behind + 1 \in 1 .. behind'
    BY <1>0, <1>3 DEF Wr
  <2>2. QED
    BY <1>1, <1>2, <2>1 DEF Reads
<1>10. /\ Items \in Seq(Element) /\ Items' \in Seq(Element)
       /\ Taken \in Seq(Element) /\ Taken' \in Seq(Element)
       /\ Len(Items) = Size /\ Len(Items') = Size - 1
       /\ Len(Taken) = behind /\ Len(Taken') = behind + 1
  BY <1>0, <1>1, <1>5 DEF Reads
<1>11. PopShape(Items, Taken, Items', Taken')
  BY <1>0, <1>6, <1>7, <1>8, <1>9, <1>10 DEF PopShape
<1>12. /\ Items' = Tail(Items) /\ Taken' = Append(Taken, Head(Items))
       /\ Items # <<>> /\ Head(Items) = Items[1]
  BY <1>10, <1>11, PopSequences
<1>13. QED
  BY <1>2, <1>7, <1>12 DEF Fifo!Pop

LEMMA InitRefines == Init => Fifo!Init
<1> SUFFICES ASSUME Init PROVE Fifo!Init
  OBVIOUS
<1>1. IInv
  BY InitIInv
<1>2. Size = 0 /\ behind = 0 /\ out = Blank
  BY Distance, CapacityAssumption DEF Init, Size, Slots
<1>3. Items \in Seq(Element) /\ Len(Items) = 0
  BY <1>1, <1>2, Contents DEF Reads
<1>4. Taken \in Seq(Element) /\ Len(Taken) = 0
  BY <1>1, <1>2, Contents DEF Reads
<1>5. Items = <<>> /\ Taken = <<>>
  BY <1>3, <1>4
<1>6. QED
  BY <1>2, <1>5 DEF Fifo!Init

LEMMA StepRefines == IInv /\ IInv' /\ [Next]_vars => [Fifo!Next]_(Fifo!vars)
<1> SUFFICES ASSUME IInv, IInv', [Next]_vars PROVE [Fifo!Next]_(Fifo!vars)
  OBVIOUS
<1> USE CapacityAssumption
<1>0. Reads /\ tail \in Slots /\ head \in Slots
  BY Contents DEF IInv, TypeOK
<1>a. Size = IF tail <= head THEN head - tail ELSE Capacity + head - tail
  BY <1>0, Distance DEF Size
<1>b. ASSUME UNCHANGED vars PROVE UNCHANGED Fifo!vars
  BY <1>b DEF vars, Fifo!vars, Items, Taken, Size
<1>1. ASSUME NEW d \in Data, AppendData(d) PROVE [Fifo!Next]_(Fifo!vars)
  <2>1. CASE (head + 1) % Capacity # tail
    BY <1>1, <2>1, StoreStep DEF Fifo!Next
  <2>2. CASE (head + 1) % Capacity = tail
    <3>1. UNCHANGED vars
      BY <1>1, <2>2 DEF AppendData, vars
    <3>2. QED
      BY <1>b, <3>1
  <2>3. QED
    BY <2>1, <2>2
<1>2. CASE Pop
  <2>1. CASE head # tail
    BY <1>2, <2>1, TakeStep DEF Fifo!Next
  <2>2. CASE head = tail
    <3>1. out' = Blank /\ UNCHANGED <<buffer, head, tail, behind>>
      BY <1>2, <2>2 DEF Pop
    <3>2. UNCHANGED <<Items, Taken>>
      BY <3>1 DEF Items, Taken, Size
    <3>3. Items = <<>>
      <4>1. Size = 0
        BY <1>0, <1>a, <2>2 DEF Slots
      <4>2. Items \in Seq(Element) /\ Len(Items) = 0
        BY <1>0, <4>1 DEF Reads
      <4>3. QED
        BY <4>2
    <3>4. QED
      BY <3>1, <3>2, <3>3 DEF Fifo!PopEmpty, Fifo!Next
  <2>3. QED
    BY <2>1, <2>2
<1>3. CASE Flush
  <2>1. Size \in 0 .. Size /\ head = Wr(tail + Size)
    BY <1>0, <1>a DEF Slots, Wr, Reads
  <2>2. /\ tail' = Wr(tail + Size) /\ behind' = behind + Size
        /\ UNCHANGED <<buffer, head, out>>
    BY <1>3, <2>1 DEF Flush
  <2>3. Fifo!Next
    BY <2>1, <2>2, SkipStep
  <2>4. QED
    BY <2>3
<1>4. ASSUME NEW t \in 0 .. 2 * Capacity - 1, ResetTailIndex(t)
      PROVE  [Fifo!Next]_(Fifo!vars)
  <2> DEFINE slot == t % Capacity
  <2>1. slot \in Slots
    BY InSlots
  <2>2. Ahead(slot) = IF tail <= slot THEN slot - tail ELSE Capacity + slot - tail
    BY <1>0, <2>1, Distance DEF Ahead
  <2> HIDE DEF slot
  <2>3. /\ tail' = slot
        /\ \/ /\ Ahead(slot) <= Size
              /\ behind' = behind + Ahead(slot)
           \/ /\ Capacity - Ahead(slot) <= behind
              /\ behind' = behind - (Capacity - Ahead(slot))
        /\ UNCHANGED <<buffer, head, out>>
    BY <1>4 DEF ResetTailIndex, slot
  <2>4. CASE /\ Ahead(slot) <= Size
             /\ behind' = behind + Ahead(slot)
    <3> DEFINE n == Ahead(slot)
    <3>1. n \in 0 .. Size /\ slot = Wr(tail + n)
      BY <1>0, <2>1, <2>2, <2>4 DEF Slots, Wr, Reads
    <3> HIDE DEF n
    <3>2. behind' = behind + n
      BY <2>4 DEF n
    <3>3. Fifo!Next
      BY <2>3, <3>1, <3>2, SkipStep
    <3>4. QED
      BY <3>3
  <2>5. CASE /\ Capacity - Ahead(slot) <= behind
             /\ behind' = behind - (Capacity - Ahead(slot))
    <3> DEFINE n == Capacity - Ahead(slot)
    <3>1. n \in 0 .. behind /\ slot = Wr(tail - n)
      BY <1>0, <2>1, <2>2, <2>5 DEF Slots, Wr, Reads
    <3> HIDE DEF n
    <3>2. behind' = behind - n
      BY <2>5 DEF n
    <3>3. Fifo!Next
      BY <2>3, <3>1, <3>2, RewindStep
    <3>4. QED
      BY <3>3
  <2>6. QED
    BY <2>3, <2>4, <2>5
<1>5. CASE UNCHANGED vars
  BY <1>b, <1>5
<1>6. QED
  BY <1>1, <1>2, <1>3, <1>4, <1>5 DEF Next

\* For every capacity and every set of elements, the array with its two
\* indices behaves as the bounded first-in-first-out buffer with a movable
\* read position (ERxRingBuffer.h:57-110).
THEOREM Refinement == Spec => ImplementsFifo
<1>1. Spec => []IInv
  BY InitIInv, NextIInv, PTL DEF Spec
<1>2. QED
  BY <1>1, InitRefines, StepRefines, PTL DEF Spec, ImplementsFifo, Fifo!Spec
=============================================================================
