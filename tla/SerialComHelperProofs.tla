------------------------- MODULE SerialComHelperProofs -------------------------
(***************************************************************************)
(* GetFirstInstruction, for any bytes on the line, any noise and any ring  *)
(* buffer that a frame with the longest parameter fits into.               *)
(***************************************************************************)
EXTENDS SerialComHelper, WellFoundedInduction, SequenceTheorems, TLAPS

Buffer == INSTANCE RingBufferProofs WITH Data <- Byte, Blank <- NUL

\* A set of natural numbers has a smallest one.
LEMMA Smallest ==
  ASSUME NEW S, S \subseteq Nat, S # {}
  PROVE  \E m \in S : \A s \in S : m <= s
<1>1. \E R : IsWellFoundedOn(R, Nat) /\ \A s, m \in Nat : s < m => <<s, m>> \in R
  <2>1. \A s, m \in Nat : s < m => <<s, m>> \in OpToRel(<, Nat)
    BY DEF OpToRel
  <2>2. QED
    BY <2>1, NatLessThanWellFounded
<1>2. PICK R : IsWellFoundedOn(R, Nat) /\ \A s, m \in Nat : s < m => <<s, m>> \in R
  BY <1>1
<1>3. IsWellFoundedOn(R, Nat)
  BY <1>2
<1>4. PICK m \in S : \A s \in S : ~ (<<s, m>> \in R)
  BY <1>3, WFMin
<1>5. \A s \in S : ~ (s < m)
  BY <1>2, <1>4
<1>6. QED
  BY <1>5

-----------------------------------------------------------------------------
(* The search of Update.  It is a recursive function of the position, and  *)
(* each step goes on further behind: that there is such a function, and    *)
(* what it finds, is shown from the last position to the first.            *)

\* What the search finds behind the first "from" bytes, when p is what it finds further
\* behind: one step of the recursion.
Result(bytes, p, from) ==
  LET after == Min(Headers(bytes, from))
      left == Len(bytes) - after
      length == bytes[after + 4]
      end == after + 4 + length
      receiving == Found(after, 2, NoFrame)
  IN  IF Headers(bytes, from) = {} THEN Found(Len(bytes), 0, NoFrame)
      ELSE IF PrologueMissing(left) THEN receiving
      ELSE IF TooLong(length) THEN p[after + 4]
      ELSE IF left - 4 < length + 4 THEN receiving
      ELSE IF ~ Trailer(bytes, end) THEN p[after]
      ELSE Found(end + 4, 0,
                 Frame(bytes[after + 1], bytes[after + 2], bytes[after + 3],
                       SubSeq(bytes, after + 5, end)))

\* p is what it finds behind k bytes and more.
Finds(bytes, p, k) == p = [from \in k .. Len(bytes) |-> Result(bytes, p, from)]

\* The bytes up to position "after" end with those of the frame.
EndsWith(bytes, after, frame) ==
  LET f == FrameBytes(frame)
  IN  Len(f) <= after /\ SubSeq(bytes, after - Len(f) + 1, after) = f

\* A new tail lies in what was searched, and never before it.
Good(bytes, from, found) ==
  /\ found.after \in from .. Len(bytes) /\ found.back \in {0, 2}
  /\ found.after - found.back >= from
  /\ found.frame # NoFrame => found.back = 0 /\ EndsWith(bytes, found.after, found.frame)

LEMMA FirstHeader ==
  ASSUME NEW bytes \in Seq(Nat), NEW from \in Nat, Headers(bytes, from) # {}
  PROVE  /\ Min(Headers(bytes, from)) \in from + 2 .. Len(bytes)
         /\ bytes[Min(Headers(bytes, from)) - 1] = HEADER
         /\ bytes[Min(Headers(bytes, from))] = HEADER
<1> DEFINE H == Headers(bytes, from)
<1>1. H \subseteq Nat /\ H # {}
  BY DEF Headers
<1>2. \E m \in H : \A h \in H : m <= h
  <2> HIDE DEF H
  <2>1. QED
    BY <1>1, Smallest
<1>3. Min(H) \in H
  <2> HIDE DEF H
  <2>1. QED
    BY <1>2 DEF Min
<1>4. QED
  BY <1>3 DEF Headers

\* A step looks at what is found further behind only.
LEMMA ResultLooksBehind ==
  ASSUME NEW bytes \in Seq(Nat), NEW from \in 0 .. Len(bytes), NEW p, NEW q,
         \A i \in from + 1 .. Len(bytes) : p[i] = q[i]
  PROVE  Result(bytes, p, from) = Result(bytes, q, from)
<1> DEFINE after == Min(Headers(bytes, from))
<1>1. CASE Headers(bytes, from) = {}
  BY <1>1 DEF Result
<1>2. CASE Headers(bytes, from) # {}
  <2>1. after \in from + 2 .. Len(bytes) /\ from \in Nat /\ Len(bytes) \in Nat
    BY <1>2, FirstHeader
  <2> HIDE DEF after
  <2>2. after \in from + 1 .. Len(bytes) /\ p[after] = q[after]
    BY <2>1
  <2>3. ~ PrologueMissing(Len(bytes) - after) => p[after + 4] = q[after + 4]
    BY <2>1 DEF PrologueMissing
  <2>4. QED
    BY <1>2, <2>2, <2>3 DEF Result, after
<1>3. QED
  BY <1>1, <1>2

\* What the search takes for a frame ends with the bytes of the frame.
FrameAt(bytes, after, length) ==
  /\ bytes[after - 1] = HEADER /\ bytes[after] = HEADER /\ bytes[after + 4] = length
  /\ Trailer(bytes, after + 4 + length)

FrameRead(bytes, after, length) ==
  Frame(bytes[after + 1], bytes[after + 2], bytes[after + 3],
        SubSeq(bytes, after + 5, after + 4 + length))

LEMMA FrameFound ==
  ASSUME NEW bytes \in Seq(Nat), NEW after \in 2 .. Len(bytes),
         NEW length \in 0 .. MAX_PARAMETER_LENGTH, after + 8 + length <= Len(bytes),
         FrameAt(bytes, after, length)
  PROVE  EndsWith(bytes, after + 8 + length, FrameRead(bytes, after, length))
<1> DEFINE frame == FrameRead(bytes, after, length)
           end == after + 4 + length
           par == SubSeq(bytes, after + 5, end)
           first == <<HEADER, HEADER, bytes[after + 1], bytes[after + 2], bytes[after + 3], length>>
           last == SubSeq(bytes, end + 1, end + 4)
<1>1. /\ after \in Nat /\ length \in Nat /\ Len(bytes) \in Nat /\ after >= 2 /\ end \in Nat
      /\ MAX_PARAMETER_LENGTH \in Nat /\ length <= MAX_PARAMETER_LENGTH /\ end + 4 <= Len(bytes)
      /\ end = after + 4 + length
  BY ParameterAssumption
<1> HIDE DEF end
<1>2. \A i \in 1 .. Len(bytes) : bytes[i] \in Nat
  BY ElementOfSeq
<1>3. par \in Seq(Nat) /\ Len(par) = length
  <2>1. \A i \in after + 5 .. end : bytes[i] \in Nat
    BY <1>1, <1>2
  <2>2. QED
    BY <1>1, <2>1, SubSeqProperties
<1>4. Cut(par) = par
  <2>1. Min({length, MAX_PARAMETER_LENGTH}) = length
    BY <1>1 DEF Min
  <2>2. SubSeq(par, 1, length) = par
    BY <1>3, SubSeqFull
  <2>3. QED
    BY <1>3, <2>1, <2>2 DEF Cut
<1>5. last = <<EMPTY_CRC, EMPTY_CRC, FOOTER_0, FOOTER_1>>
  BY DEF FrameAt, Trailer, end
<1>6. FrameBytes(frame) = first \o par \o last
  BY <1>3, <1>4, <1>5 DEF FrameBytes, FrameRead, Frame, end
<1>7. first = SubSeq(bytes, after - 1, after + 4)
  <2>1. \A i \in after - 1 .. after + 4 : bytes[i] \in Nat
    BY <1>1, <1>2
  <2>2. /\ SubSeq(bytes, after - 1, after + 4) \in Seq(Nat)
        /\ Len(SubSeq(bytes, after - 1, after + 4)) = 6
        /\ \A i \in 1 .. 6 : SubSeq(bytes, after - 1, after + 4)[i] = bytes[after - 2 + i]
    <3>1. after - 1 <= after + 4 /\ after + 4 - (after - 1) + 1 = 6
          /\ \A i \in 1 .. 6 : after - 1 + i - 1 = after - 2 + i
      BY <1>1
    <3>2. QED
      BY <1>1, <2>1, <3>1, SubSeqProperties
  <2>3. bytes[after + 1] \in Nat /\ bytes[after + 2] \in Nat /\ bytes[after + 3] \in Nat
    BY <1>1, <1>2
  <2>4. first \in Seq(Nat) /\ Len(first) = 6
    <3>1. HEADER \in Nat
      BY ByteAssumption
    <3>2. QED
      BY <1>1, <2>3, <3>1
  <2>5. /\ first[1] = bytes[after - 2 + 1] /\ first[2] = bytes[after - 2 + 2]
        /\ first[3] = bytes[after - 2 + 3] /\ first[4] = bytes[after - 2 + 4]
        /\ first[5] = bytes[after - 2 + 5] /\ first[6] = bytes[after - 2 + 6]
    <3>1. /\ after - 2 + 1 = after - 1 /\ after - 2 + 2 = after /\ after - 2 + 3 = after + 1
          /\ after - 2 + 4 = after + 2 /\ after - 2 + 5 = after + 3 /\ after - 2 + 6 = after + 4
      BY <1>1
    <3>2. QED
      BY <3>1 DEF FrameAt
  <2> HIDE DEF first
  <2>6. \A i \in 1 .. 6 : first[i] = bytes[after - 2 + i]
    <3>1. \A i \in 1 .. 6 : i \in {1, 2, 3, 4, 5, 6}
      OBVIOUS
    <3>2. QED
      BY <2>5, <3>1
  <2> DEFINE segment == SubSeq(bytes, after - 1, after + 4)
  <2>7. segment \in Seq(Nat) /\ Len(segment) = 6 /\ \A i \in 1 .. 6 : segment[i] = first[i]
    BY <2>2, <2>6
  <2> HIDE DEF segment
  <2>8. first = segment
    BY <2>4, <2>7, SeqEqual
  <2>9. QED
    BY <2>8 DEF segment
<1>8. first \o par = SubSeq(bytes, after - 1, end)
  <2> DEFINE k == after + 4
  <2>1. k + 1 = after + 5 /\ k \in after - 2 .. Len(bytes) /\ end \in k .. Len(bytes)
        /\ after - 1 \in 1 .. Len(bytes) + 1 /\ after - 1 - 1 = after - 2
    BY <1>1
  <2> HIDE DEF k
  <2>2. SubSeq(bytes, after - 1, k) \o SubSeq(bytes, k + 1, end) = SubSeq(bytes, after - 1, end)
    BY <2>1, ConcatAdjacentSubSeq
  <2>3. first = SubSeq(bytes, after - 1, k) /\ par = SubSeq(bytes, k + 1, end)
    BY <1>7, <2>1 DEF k
  <2> HIDE DEF first, par
  <2>4. QED
    BY <2>2, <2>3
<1>9. SubSeq(bytes, after - 1, end) \o last = SubSeq(bytes, after - 1, end + 4)
  BY <1>1, ConcatAdjacentSubSeq
<1> HIDE DEF par, first, last, frame
<1>10. FrameBytes(frame) = SubSeq(bytes, after - 1, end + 4)
  BY <1>6, <1>8, <1>9
<1>11. Len(FrameBytes(frame)) = length + 10
  <2>1. \A i \in after - 1 .. end + 4 : bytes[i] \in Nat
    BY <1>1, <1>2
  <2>2. after - 1 <= end + 4 /\ end + 4 - (after - 1) + 1 = length + 10
    BY <1>1
  <2>3. QED
    BY <1>1, <1>10, <2>1, <2>2, SubSeqProperties
<1>12. end + 4 - (length + 10) + 1 = after - 1 /\ length + 10 <= end + 4 /\ end + 4 = after + 8 + length
  BY <1>1
<1>13. QED
  BY <1>10, <1>11, <1>12 DEF EndsWith, frame, end

\* A step finds something good when what it looks at is good.
LEMMA ResultGood ==
  ASSUME NEW bytes \in Seq(Nat), NEW from \in 0 .. Len(bytes), NEW p,
         \A i \in from + 1 .. Len(bytes) : Good(bytes, i, p[i])
  PROVE  Good(bytes, from, Result(bytes, p, from))
<1> DEFINE after == Min(Headers(bytes, from))
           length == bytes[after + 4]
<1>0. from \in Nat /\ Len(bytes) \in Nat /\ from <= Len(bytes)
  OBVIOUS
<1>1. CASE Headers(bytes, from) = {}
  <2>1. Result(bytes, p, from) = Found(Len(bytes), 0, NoFrame)
    BY <1>1 DEF Result
  <2>2. QED
    BY <1>0, <2>1 DEF Good, Found
<1>2. CASE Headers(bytes, from) # {}
  <2>1. after \in from + 2 .. Len(bytes) /\ bytes[after - 1] = HEADER /\ bytes[after] = HEADER
    BY <1>0, <1>2, FirstHeader
  <2>2. Result(bytes, p, from) =
          IF PrologueMissing(Len(bytes) - after) THEN Found(after, 2, NoFrame)
          ELSE IF TooLong(length) THEN p[after + 4]
          ELSE IF Len(bytes) - after - 4 < length + 4 THEN Found(after, 2, NoFrame)
          ELSE IF ~ Trailer(bytes, after + 4 + length) THEN p[after]
          ELSE Found(after + 4 + length + 4, 0, FrameRead(bytes, after, length))
    BY <1>2 DEF Result, FrameRead
  <2> HIDE DEF after, length
  <2>3. Good(bytes, from, Found(after, 2, NoFrame))
    BY <1>0, <2>1 DEF Good, Found
  <2>4. \A i \in from + 1 .. Len(bytes) : Good(bytes, from, p[i])
    <3>1. SUFFICES ASSUME NEW i \in from + 1 .. Len(bytes) PROVE Good(bytes, from, p[i])
      OBVIOUS
    <3>2. Good(bytes, i, p[i]) /\ i > from /\ i \in Nat
      BY <1>0
    <3>3. p[i].after \in i .. Len(bytes) /\ p[i].back \in {0, 2} /\ p[i].after - p[i].back >= i
      BY <3>2 DEF Good
    <3>4. p[i].after \in from .. Len(bytes) /\ p[i].after - p[i].back >= from
      BY <1>0, <3>2, <3>3
    <3>5. QED
      BY <3>2, <3>3, <3>4 DEF Good
  <2>5. Good(bytes, from, p[after])
    BY <1>0, <2>1, <2>4
  <2>6. ASSUME ~ PrologueMissing(Len(bytes) - after) PROVE Good(bytes, from, p[after + 4])
    <3>1. after + 4 \in from + 1 .. Len(bytes)
      BY <1>0, <2>1, <2>6 DEF PrologueMissing
    <3>2. QED
      BY <2>4, <3>1
  <2>7. ASSUME ~ PrologueMissing(Len(bytes) - after), ~ TooLong(length),
               ~ (Len(bytes) - after - 4 < length + 4), Trailer(bytes, after + 4 + length)
        PROVE  Good(bytes, from, Found(after + 4 + length + 4, 0, FrameRead(bytes, after, length)))
    <3>1. length \in Nat
      <4>1. after + 4 \in 1 .. Len(bytes)
        BY <1>0, <2>1, <2>7 DEF PrologueMissing
      <4>2. QED
        BY <4>1, ElementOfSeq DEF length
    <3>2. length \in 0 .. MAX_PARAMETER_LENGTH /\ after \in 2 .. Len(bytes)
          /\ after + 8 + length <= Len(bytes) /\ after + 4 + length + 4 = after + 8 + length
          /\ after + 8 + length >= from /\ after + 8 + length \in from .. Len(bytes)
          /\ after + 8 + length - 0 >= from
      BY <1>0, <2>1, <2>7, <3>1, ParameterAssumption DEF TooLong
    <3>3. FrameAt(bytes, after, length)
      BY <2>1, <2>7 DEF FrameAt, length
    <3>4. EndsWith(bytes, after + 8 + length, FrameRead(bytes, after, length))
      BY <3>2, <3>3, FrameFound
    <3> DEFINE end == after + 8 + length
               frame == FrameRead(bytes, after, length)
    <3>5. end \in from .. Len(bytes) /\ end - 0 >= from /\ EndsWith(bytes, end, frame)
          /\ after + 4 + length + 4 = end
      BY <3>2, <3>4
    <3> HIDE DEF end, frame
    <3>6. Good(bytes, from, Found(end, 0, frame))
      BY <3>5 DEF Good, Found
    <3>7. QED
      BY <3>5, <3>6 DEF frame
  <2>8. QED
    BY <2>2, <2>3, <2>5, <2>6, <2>7
<1>3. QED
  BY <1>1, <1>2

\* The search has a result at every position.
LEMMA FindsExists ==
  ASSUME NEW bytes \in Seq(Nat)
  PROVE  \E p : Finds(bytes, p, 0)
<1> DEFINE n == Len(bytes)
           Solved == {k \in 0 .. n : \E p : Finds(bytes, p, k)}
<1>0. n \in Nat
  OBVIOUS
<1>1. Solved \subseteq Nat
  OBVIOUS
<1>2. n \in Solved
  <2> DEFINE p == [from \in n .. n |-> Result(bytes, <<>>, from)]
  <2>1. p[n] = Result(bytes, <<>>, n)
    BY <1>0
  <2>2. Result(bytes, <<>>, n) = Result(bytes, p, n)
    <3>1. n \in 0 .. n /\ \A i \in n + 1 .. n : <<>>[i] = p[i]
      BY <1>0
    <3> HIDE DEF p
    <3>2. QED
      BY <3>1, ResultLooksBehind
  <2>3. \A from \in n .. n : from = n
    BY <1>0
  <2>4. Finds(bytes, p, n)
    BY <2>2, <2>3 DEF Finds
  <2> HIDE DEF p
  <2>5. QED
    BY <1>0, <2>4
<1>3. PICK k \in Solved : \A i \in Solved : k <= i
  <2> HIDE DEF Solved
  <2>1. QED
    BY <1>1, <1>2, Smallest
<1>4. k \in 0 .. n
  OBVIOUS
<1>5. ASSUME k # 0 PROVE FALSE
  <2>1. PICK p : Finds(bytes, p, k)
    OBVIOUS
  <2> DEFINE j == k - 1
             q == [from \in j .. n |-> IF from = j THEN Result(bytes, p, j) ELSE p[from]]
  <2>2. j \in 0 .. n /\ \A i \in j + 1 .. n : i \in k .. n /\ q[i] = p[i] /\ i # j
    BY <1>0, <1>4, <1>5
  <2>3. \A from \in j .. n : Result(bytes, p, from) = Result(bytes, q, from)
    <3>1. SUFFICES ASSUME NEW from \in j .. n PROVE Result(bytes, p, from) = Result(bytes, q, from)
      OBVIOUS
    <3>2. from \in 0 .. Len(bytes) /\ \A i \in from + 1 .. Len(bytes) : i \in j + 1 .. n
      BY <1>0, <2>2
    <3>3. \A i \in from + 1 .. Len(bytes) : p[i] = q[i]
      BY <2>2, <3>2
    <3> HIDE DEF q
    <3>4. QED
      BY <3>2, <3>3, ResultLooksBehind
  <2>4. \A from \in j .. n : q[from] = Result(bytes, p, from)
    <3>1. \A from \in k .. n : p[from] = Result(bytes, p, from)
      BY <2>1 DEF Finds
    <3>2. \A from \in j .. n : from = j \/ from \in k .. n
      BY <1>0, <1>4, <1>5
    <3>3. QED
      BY <3>1, <3>2
  <2>5. Finds(bytes, q, j)
    <3>1. q = [from \in j .. n |-> q[from]]
      OBVIOUS
    <3> HIDE DEF q
    <3>2. QED
      BY <2>3, <2>4, <3>1 DEF Finds
  <2>6. j \in Solved
    BY <2>2, <2>5
  <2>7. QED
    BY <1>0, <1>3, <1>4, <1>5, <2>6
<1>6. QED
  BY <1>5

LEMMA SearchIs ==
  ASSUME NEW bytes \in Seq(Nat)
  PROVE  \E p : /\ Search(bytes) = Result(bytes, p, 0)
                /\ \A i \in 0 .. Len(bytes) : Good(bytes, i, p[i])
<1> DEFINE p == CHOOSE p : Finds(bytes, p, 0)
           n == Len(bytes)
<1>1. Finds(bytes, p, 0)
  BY FindsExists
<1>2. Search(bytes) = p[0]
  BY DEF Search, Finds, Result
<1> HIDE DEF p
<1>3. \A from \in 0 .. n : p[from] = Result(bytes, p, from)
  BY <1>1 DEF Finds
<1> DEFINE Fine == {k \in 0 .. n : \A i \in k .. n : Good(bytes, i, p[i])}
<1>4. Fine \subseteq Nat /\ n \in Nat
  OBVIOUS
<1>5. n \in Fine
  <2>1. n \in 0 .. Len(bytes) /\ \A i \in n + 1 .. Len(bytes) : Good(bytes, i, p[i])
    BY <1>4
  <2>2. Good(bytes, n, p[n])
    BY <1>3, <2>1, ResultGood
  <2>3. QED
    BY <1>4, <2>2
<1>6. PICK k \in Fine : \A i \in Fine : k <= i
  <2> HIDE DEF Fine
  <2>1. QED
    BY <1>4, <1>5, Smallest
<1>7. ASSUME k # 0 PROVE FALSE
  <2> DEFINE j == k - 1
  <2>1. j \in 0 .. Len(bytes) /\ \A i \in j + 1 .. Len(bytes) : i \in k .. n
    BY <1>4, <1>7
  <2>2. \A i \in j + 1 .. Len(bytes) : Good(bytes, i, p[i])
    BY <2>1
  <2>3. Good(bytes, j, p[j])
    BY <1>3, <2>1, <2>2, ResultGood
  <2>4. \A i \in j .. n : i = j \/ i \in j + 1 .. Len(bytes)
    BY <1>4, <2>1
  <2>5. j \in Fine
    BY <2>1, <2>2, <2>3, <2>4
  <2>6. QED
    BY <1>6, <1>7, <2>5
<1>8. \A i \in 0 .. n : Good(bytes, i, p[i])
  BY <1>7
<1>9. Search(bytes) = Result(bytes, p, 0)
  BY <1>2, <1>3, <1>4
<1> HIDE DEF n
<1>10. QED
  BY <1>8, <1>9 DEF n

LEMMA SearchGood ==
  ASSUME NEW bytes \in Seq(Nat)
  PROVE  Good(bytes, 0, Search(bytes))
<1>1. PICK p : /\ Search(bytes) = Result(bytes, p, 0)
               /\ \A i \in 0 .. Len(bytes) : Good(bytes, i, p[i])
  BY SearchIs
<1>2. 0 \in 0 .. Len(bytes) /\ \A i \in 0 + 1 .. Len(bytes) : Good(bytes, i, p[i])
  BY <1>1
<1>3. QED
  BY <1>1, <1>2, ResultGood

\* When there is at least a longest frame, the search gets on.
LEMMA SearchMoves ==
  ASSUME NEW bytes \in Seq(Nat), Len(bytes) >= MAX_PARAMETER_LENGTH + 10
  PROVE  Search(bytes).after - Search(bytes).back > 0
<1>1. PICK p : /\ Search(bytes) = Result(bytes, p, 0)
               /\ \A i \in 0 .. Len(bytes) : Good(bytes, i, p[i])
  BY SearchIs
<1> DEFINE after == Min(Headers(bytes, 0))
           length == bytes[after + 4]
           n == Len(bytes)
           Moves(found) == found.after - found.back > 0
<1>2. n \in Nat /\ MAX_PARAMETER_LENGTH \in Nat /\ n >= MAX_PARAMETER_LENGTH + 10
  BY ParameterAssumption
<1>3. CASE Headers(bytes, 0) = {}
  <2>1. Result(bytes, p, 0) = Found(n, 0, NoFrame)
    BY <1>3 DEF Result
  <2>2. QED
    BY <1>1, <1>2, <2>1 DEF Found
<1>4. CASE Headers(bytes, 0) # {}
  <2>1. after \in 2 .. n /\ after \in 0 + 2 .. n
    BY <1>4, FirstHeader
  <2>2. Result(bytes, p, 0) =
          IF PrologueMissing(n - after) THEN Found(after, 2, NoFrame)
          ELSE IF TooLong(length) THEN p[after + 4]
          ELSE IF n - after - 4 < length + 4 THEN Found(after, 2, NoFrame)
          ELSE IF ~ Trailer(bytes, after + 4 + length) THEN p[after]
          ELSE Found(after + 4 + length + 4, 0, FrameRead(bytes, after, length))
    BY <1>4 DEF Result, FrameRead
  <2> HIDE DEF after, n
  <2>3. after > 2 => Moves(Found(after, 2, NoFrame))
    BY <1>2, <2>1 DEF Found
  <2>4. after > 2 \/ ~ PrologueMissing(n - after)
    BY <1>2, <2>1 DEF PrologueMissing
  <2>5. ASSUME ~ PrologueMissing(n - after) PROVE length \in Nat /\ after + 4 \in 1 .. n
    <3>1. after + 4 \in 1 .. n
      BY <1>2, <2>1, <2>5 DEF PrologueMissing
    <3>2. QED
      BY <3>1, ElementOfSeq DEF n
  <2> HIDE DEF length
  <2>6. ASSUME ~ PrologueMissing(n - after), ~ TooLong(length), after = 2
        PROVE  ~ (n - after - 4 < length + 4)
    BY <1>2, <2>5, <2>6 DEF TooLong
  <2>7. \A i \in 1 .. n : Moves(p[i])
    <3>1. SUFFICES ASSUME NEW i \in 1 .. n PROVE Moves(p[i])
      OBVIOUS
    <3>2. Good(bytes, i, p[i]) /\ i \in Nat /\ i >= 1
      BY <1>1, <1>2 DEF n
    <3>3. p[i].after \in i .. Len(bytes) /\ p[i].back \in {0, 2} /\ p[i].after - p[i].back >= i
      BY <3>2 DEF Good
    <3>4. QED
      BY <3>2, <3>3
  <2>8. Moves(p[after])
    BY <1>2, <2>1, <2>7
  <2>9. ~ PrologueMissing(n - after) => Moves(p[after + 4])
    BY <2>5, <2>7
  <2>10. ASSUME ~ PrologueMissing(n - after)
         PROVE  Moves(Found(after + 4 + length + 4, 0, FrameRead(bytes, after, length)))
    BY <2>1, <2>5, <2>10 DEF Found
  <2>11. after > 2 \/ after = 2
    BY <2>1
  <2>12. Moves(Result(bytes, p, 0))
    <3> HIDE DEF Moves
    <3>1. QED
      BY <2>2, <2>3, <2>4, <2>6, <2>8, <2>9, <2>10, <2>11
  <2>13. QED
    BY <1>1, <2>12
<1>5. QED
  BY <1>3, <1>4

\* Quotient and remainder are what they are made of.
LEMMA DivUnique ==
  ASSUME NEW d \in Nat \ {0}, NEW q \in Nat, NEW r \in 0 .. d - 1
  PROVE  (d * q + r) % d = r /\ (d * q + r) \div d = q
<1> DEFINE n == d * q + r
           p == n \div d
           s == n % d
<1>1. d * q \in Nat
  OBVIOUS
<1>2. n \in Nat
  BY <1>1
<1>3. p \in Nat /\ s \in 0 .. d - 1 /\ n = d * p + s
  <2> HIDE DEF n
  <2>1. QED
    BY <1>2
<1>4. d * (q - p) = s - r
  BY <1>3
<1> HIDE DEF p, s
<1>5. CASE q - p >= 1
  <2>1. d * (q - p) >= d
    <3>1. PICK k \in Nat : q - p = 1 + k
      <4>1. (q - p) - 1 \in Nat
        BY <1>5, <1>3
      <4>2. q - p = 1 + ((q - p) - 1)
        BY <1>3
      <4>3. QED
        BY <4>1, <4>2
    <3>2. d * k \in Nat
      OBVIOUS
    <3>3. d * (1 + k) = d + d * k
      OBVIOUS
    <3>4. QED
      BY <3>1, <3>2, <3>3
  <2>2. QED
    BY <1>3, <1>4, <2>1
<1>6. CASE p - q >= 1
  <2>1. d * (q - p) <= - d
    <3>1. PICK k \in Nat : p - q = 1 + k
      <4>1. (p - q) - 1 \in Nat
        BY <1>6, <1>3
      <4>2. p - q = 1 + ((p - q) - 1)
        BY <1>3
      <4>3. QED
        BY <4>1, <4>2
    <3>2. d * k \in Nat
      OBVIOUS
    <3>3. d * (q - p) = - (d + d * k)
      BY <3>1, <1>3
    <3>4. QED
      BY <3>1, <3>2, <3>3
  <2>2. QED
    BY <1>3, <1>4, <2>1
<1>7. p = q
  BY <1>3, <1>5, <1>6
<1>8. s = r
  BY <1>3, <1>4, <1>7
<1>9. QED
  BY <1>7, <1>8 DEF p, s

-----------------------------------------------------------------------------
(* The ring buffer.  What RingBufferProofs shows of every ring is used for *)
(* this one: both instances have the same definitions.                     *)

LEMMA Sizes ==
  /\ Capacity \in Nat \ {0} /\ MAX_PARAMETER_LENGTH \in Nat \ {0}
  /\ Capacity > MAX_PARAMETER_LENGTH + 10
BY RoomAssumption, ParameterAssumption

RingInv == Ring!TypeOK /\ Ring!WindowFits

LEMMA SameRing ==
  /\ RingInv <=> Buffer!IInv
  /\ Ring!Items = Buffer!Items /\ Ring!Size = Buffer!Size
BY DEF RingInv, Buffer!IInv, Ring!TypeOK, Buffer!TypeOK, Ring!WindowFits, Buffer!WindowFits,
       Ring!Size, Buffer!Size, Ring!Slots, Buffer!Slots, Ring!Items, Buffer!Items

LEMMA UnreadIs ==
  ASSUME RingInv
  PROVE  /\ Ring!Size \in 0 .. Capacity - 1 /\ behind \in 0 .. Capacity - 1 - Ring!Size
         /\ Unread \in Seq(Byte) /\ Unread \in Seq(Nat) /\ Len(Unread) = Ring!Size
         /\ \A k \in 1 .. Ring!Size : Unread[k] = buffer[Buffer!Wr(tail + k - 1)]
         /\ tail \in 0 .. Capacity - 1
<1>1. Buffer!IInv
  BY SameRing
<1>2. Buffer!Reads
  BY <1>1, Sizes, Buffer!Contents
<1>3. Buffer!Element = Byte
  BY ByteAssumption DEF Buffer!Element
<1>4. /\ Buffer!Size \in 0 .. Capacity - 1 /\ behind \in 0 .. Capacity - 1 - Buffer!Size
      /\ Buffer!Items \in Seq(Byte) /\ Len(Buffer!Items) = Buffer!Size
      /\ \A k \in 1 .. Buffer!Size : Buffer!Items[k] = buffer[Buffer!Wr(tail + k - 1)]
  BY <1>2, <1>3 DEF Buffer!Reads
<1>5. Buffer!Items \in Seq(Nat)
  BY <1>4, ByteAssumption, SeqMonotonic
<1>6. tail \in 0 .. Capacity - 1
  BY DEF RingInv, Ring!TypeOK, Ring!Slots
<1>7. QED
  BY <1>4, <1>5, <1>6, SameRing DEF Unread

LEMMA Multiple ==
  ASSUME NEW d \in Nat \ {0}, NEW w \in Nat \ {0}, w % d = 0
  PROVE  \E k \in Nat : d * k \in Nat /\ w = d * k + d
<1> DEFINE p == w \div d
<1>1. p \in Nat /\ w = d * p + (w % d)
  OBVIOUS
<1> HIDE DEF p
<1>2. w = d * p
  BY <1>1
<1>3. p # 0
  BY <1>2
<1>4. PICK k \in Nat : p = 1 + k
  <2>1. p - 1 \in Nat /\ p = 1 + (p - 1)
    BY <1>1, <1>3
  <2>2. QED
    BY <2>1
<1>5. d * k \in Nat
  OBVIOUS
<1>6. d * (1 + k) = d + d * k
  OBVIOUS
<1>7. QED
  BY <1>2, <1>4, <1>5, <1>6

\* The index b bytes before the one that is a bytes behind the tail, although the subtraction
\* wraps at the end of an unsigned integer.
LEMMA IndexMoves ==
  ASSUME NEW t \in 0 .. Capacity - 1, NEW a \in 0 .. Capacity - 1, NEW b \in {0, 2}, a - b >= 0
  PROVE  /\ ((((t + a) % Capacity) + Word - b) % Word) % Capacity
              = IF t + (a - b) < Capacity THEN t + (a - b) ELSE t + (a - b) - Capacity
         /\ (((t + a) % Capacity) + Word - b) % Word \in 0 .. Word - 1
<1> DEFINE x == (t + a) % Capacity
<1>1. /\ a \in Nat /\ b \in {0, 2} /\ a - b \in Nat /\ a < Capacity /\ t \in Nat
      /\ t < Capacity /\ t + a \in 0 .. 2 * Capacity - 1
      /\ t + (a - b) \in 0 .. 2 * Capacity - 1 /\ Capacity \in Nat /\ Capacity > 10
  BY Sizes
<1>2. x = IF t + a < Capacity THEN t + a ELSE t + a - Capacity
  BY <1>1, Sizes, Buffer!Wrap
<1> HIDE DEF x
<1>3. x \in 0 .. Capacity - 1
  BY <1>1, <1>2
<1>4. PICK k \in Nat : Capacity * k \in Nat /\ Word = Capacity * k + Capacity
  BY Sizes, WordAssumption, Multiple
<1>5. Word >= Capacity /\ Word \in Nat
  BY <1>1, <1>4
<1>6. CASE x >= b
  <2>1. (x + Word - b) % Word = x - b
    <3>1. x - b \in 0 .. Word - 1 /\ x + Word - b = Word * 1 + (x - b) /\ Word \in Nat \ {0}
      BY <1>1, <1>3, <1>5, <1>6
    <3>2. QED
      BY <3>1, DivUnique
  <2>2. (x - b) % Capacity = x - b
    <3>1. x - b \in 0 .. 2 * Capacity - 1 /\ x - b < Capacity
      BY <1>1, <1>3, <1>6
    <3>2. QED
      BY <3>1, Sizes, Buffer!Wrap
  <2>3. x - b = IF t + (a - b) < Capacity THEN t + (a - b) ELSE t + (a - b) - Capacity
    BY <1>1, <1>2, <1>6
  <2>4. x - b \in 0 .. Word - 1
    BY <1>1, <1>3, <1>5, <1>6
  <2>5. QED
    BY <2>1, <2>2, <2>3, <2>4 DEF x
<1>7. CASE x < b
  <2>1. (x + Word - b) % Word = x + Word - b
    <3>1. x + Word - b \in 0 .. Word - 1 /\ x + Word - b = Word * 0 + (x + Word - b)
          /\ Word \in Nat \ {0}
      BY <1>1, <1>3, <1>5, <1>7
    <3>2. QED
      BY <3>1, DivUnique
  <2>2. (x + Word - b) % Capacity = x + Capacity - b
    <3> DEFINE r == x + Capacity - b
    <3>1. r \in 0 .. Capacity - 1
      BY <1>1, <1>3, <1>7
    <3>2. x + Word - b = Capacity * k + r
      BY <1>1, <1>3, <1>4
    <3> HIDE DEF r
    <3>3. (Capacity * k + r) % Capacity = r
      BY <3>1, Sizes, DivUnique
    <3>4. QED
      BY <3>2, <3>3 DEF r
  <2>3. x + Capacity - b = IF t + (a - b) < Capacity THEN t + (a - b)
                           ELSE t + (a - b) - Capacity
    BY <1>1, <1>2, <1>7
  <2>4. x + Word - b \in 0 .. Word - 1
    BY <1>1, <1>3, <1>5, <1>7
  <2>5. QED
    BY <2>1, <2>2, <2>3, <2>4 DEF x
<1>8. QED
  BY <1>1, <1>3, <1>6, <1>7

LEMMA WrIs ==
  \A y \in Nat : Buffer!Wr(y) = IF y < Capacity THEN y ELSE y - Capacity
<1>1. \A y \in Nat : ~ (y < 0)
  OBVIOUS
<1>2. QED
  BY <1>1 DEF Buffer!Wr

\* Update is done with "after - back" bytes, and the index that it passes to ResetTailIndex
\* is the one behind them.
LEMMA NewTail ==
  ASSUME RingInv
  PROVE  LET found == Search(Unread)
             n == found.after - found.back
         IN  /\ n \in 0 .. Ring!Size
             /\ NewTailIndex(found) \in Nat
             /\ NewTailIndex(found) % Capacity = Buffer!Wr(tail + n)
<1> DEFINE found == Search(Unread)
<1>1. /\ Ring!Size \in 0 .. Capacity - 1 /\ Unread \in Seq(Nat) /\ Len(Unread) = Ring!Size
      /\ tail \in 0 .. Capacity - 1 /\ Capacity \in Nat
  BY UnreadIs, Sizes
<1>2. Good(Unread, 0, found)
  BY <1>1, SearchGood
<1> HIDE DEF found
<1>3. PICK a, b : a = found.after /\ b = found.back
  OBVIOUS
<1>4. a \in 0 .. Ring!Size /\ b \in {0, 2} /\ a - b >= 0
  BY <1>1, <1>2, <1>3 DEF Good
<1>5. NewTailIndex(found) = (((tail + a) % Capacity) + Word - b) % Word
  BY <1>3 DEF NewTailIndex, TailIndex
<1>6. PICK t : t = tail /\ t \in 0 .. Capacity - 1
  BY <1>1
<1>7. a \in 0 .. Capacity - 1 /\ a - b \in 0 .. Ring!Size /\ t + (a - b) >= 0
      /\ t + (a - b) \in Int
  BY <1>1, <1>4, <1>6
<1>8. /\ NewTailIndex(found) % Capacity
           = IF t + (a - b) < Capacity THEN t + (a - b) ELSE t + (a - b) - Capacity
      /\ NewTailIndex(found) \in 0 .. Word - 1
  <2>1. NewTailIndex(found) = (((t + a) % Capacity) + Word - b) % Word
    BY <1>5, <1>6
  <2>2. /\ ((((t + a) % Capacity) + Word - b) % Word) % Capacity
             = IF t + (a - b) < Capacity THEN t + (a - b) ELSE t + (a - b) - Capacity
        /\ (((t + a) % Capacity) + Word - b) % Word \in 0 .. Word - 1
    BY <1>4, <1>6, <1>7, IndexMoves
  <2>3. QED
    BY <2>1, <2>2
<1>9. NewTailIndex(found) % Capacity = Buffer!Wr(t + (a - b))
  <2>1. Buffer!Wr(t + (a - b))
          = IF t + (a - b) < Capacity THEN t + (a - b) ELSE t + (a - b) - Capacity
    <3>1. t + (a - b) \in Nat
      BY <1>6, <1>7
    <3>2. a \in Int /\ b \in Int /\ t \in Int
      BY <1>1, <1>4, <1>6
    <3>3. QED
      BY <3>1, <3>2, WrIs, Sizes
  <2>2. QED
    BY <1>8, <2>1
<1>10. NewTailIndex(found) \in Nat
  BY <1>8, WordAssumption
<1>11. QED
  BY <1>3, <1>6, <1>7, <1>9, <1>10 DEF found

\* Moving the tail to the index behind the first n unread bytes.
LEMMA ResetSkips ==
  ASSUME RingInv, NEW i \in Nat, NEW n \in 0 .. Ring!Size,
         i % Capacity = Buffer!Wr(tail + n), Ring!ResetTailIndex(i)
  PROVE  /\ Ring!Next
         /\ tail' = Buffer!Wr(tail + n) /\ behind' = behind + n
         /\ UNCHANGED <<buffer, head, out>>
<1> DEFINE slot == i % Capacity
<1>1. /\ Ring!Size \in 0 .. Capacity - 1 /\ behind \in 0 .. Capacity - 1 - Ring!Size
      /\ tail \in 0 .. Capacity - 1 /\ Capacity \in Nat /\ Capacity > 0
  BY UnreadIs, Sizes
<1>2. slot = Buffer!Wr(tail + n)
  OBVIOUS
<1>3. slot \in 0 .. Capacity - 1
  BY <1>1, <1>2 DEF Buffer!Wr
<1>4. /\ tail' = slot
      /\ \/ Ring!Ahead(slot) <= Ring!Size /\ behind' = behind + Ring!Ahead(slot)
         \/ /\ Capacity - Ring!Ahead(slot) <= behind
            /\ behind' = behind - (Capacity - Ring!Ahead(slot))
      /\ UNCHANGED <<buffer, head, out>>
  BY DEF Ring!ResetTailIndex
<1>5. slot % Capacity = slot
  BY <1>1, <1>3
<1>6. Ring!ResetTailIndex(slot)
  <2> HIDE DEF slot
  <2>1. QED
    BY <1>4, <1>5 DEF Ring!ResetTailIndex
<1> HIDE DEF slot
<1>7. Ring!Ahead(slot) = n
  <2>1. Ring!Ahead(slot) = IF tail <= slot THEN slot - tail ELSE Capacity + slot - tail
    <3>1. slot \in Buffer!Slots /\ tail \in Buffer!Slots
      BY <1>1, <1>3 DEF Buffer!Slots
    <3>2. QED
      BY <3>1, Sizes, Buffer!Distance DEF Ring!Ahead
  <2>2. QED
    BY <1>1, <1>2, <2>1 DEF Buffer!Wr
<1>8. behind' = behind + n
  BY <1>1, <1>4, <1>7
<1>9. Ring!Next
  <2>1. slot \in 0 .. 2 * Capacity - 1
    BY <1>1, <1>3
  <2>2. QED
    BY <1>6, <2>1 DEF Ring!Next
<1>10. QED
  BY <1>2, <1>4, <1>8, <1>9

LEMMA RingSteps ==
  ASSUME RingInv, [Ring!Next]_ring
  PROVE  RingInv'
<1>1. Buffer!IInv
  BY SameRing
<1>2. [Buffer!Next]_(Buffer!vars)
  BY DEF ring, Ring!Next, Ring!vars, Buffer!Next, Buffer!vars, Ring!AppendData, Buffer!AppendData,
         Ring!Pop, Buffer!Pop, Ring!Flush, Buffer!Flush, Ring!ResetTailIndex, Buffer!ResetTailIndex,
         Ring!Size, Buffer!Size, Ring!Room, Buffer!Room, Ring!Ahead, Buffer!Ahead
<1>3. (Buffer!IInv)'
  BY <1>1, <1>2, Sizes, Buffer!NextIInv
<1>4. QED
  BY <1>3 DEF RingInv, Buffer!IInv, Ring!TypeOK, Buffer!TypeOK, Ring!WindowFits, Buffer!WindowFits,
       Ring!Size, Buffer!Size, Ring!Slots, Buffer!Slots

LEMMA SameRingNext ==
  /\ RingInv' <=> (Buffer!IInv)'
  /\ Ring!Items' = Buffer!Items' /\ Ring!Size' = Buffer!Size'
BY DEF RingInv, Buffer!IInv, Ring!TypeOK, Buffer!TypeOK, Ring!WindowFits, Buffer!WindowFits,
       Ring!Size, Buffer!Size, Ring!Slots, Buffer!Slots, Ring!Items, Buffer!Items

\* A parameter is cut to the longest one.
LEMMA CutFits ==
  ASSUME NEW bytes \in Seq(Byte)
  PROVE  Cut(bytes) \in Seq(Byte) /\ Len(Cut(bytes)) \in 0 .. MAX_PARAMETER_LENGTH
<1> DEFINE m == Min({Len(bytes), MAX_PARAMETER_LENGTH})
<1>1. m \in 0 .. Len(bytes) /\ m <= MAX_PARAMETER_LENGTH
  BY ParameterAssumption DEF Min
<1> HIDE DEF m
<1>2. SubSeq(bytes, 1, m) \in Seq(Byte) /\ Len(SubSeq(bytes, 1, m)) = m
  <2>1. m \in Nat /\ m <= Len(bytes) /\ \A i \in 1 .. m : bytes[i] \in Byte
    BY <1>1, ElementOfSeq
  <2>2. 1 \in Nat /\ m - 1 + 1 = m
    BY <2>1
  <2>3. QED
    BY <2>1, <2>2, SubSeqProperties
<1>3. m \in 0 .. MAX_PARAMETER_LENGTH
  BY <1>1, ParameterAssumption
<1>4. SubSeq(bytes, 1, m) = Cut(bytes)
  BY DEF Cut, m
<1>5. QED
  BY <1>2, <1>3, <1>4

\* Parse takes the bytes that Update is done with and leaves the others as they are.
LEMMA ParseTakes ==
  ASSUME RingInv, Parse, Enough
  PROVE  LET found == Search(Unread)
             n == found.after - found.back
         IN  /\ Ring!Next /\ n \in 0 .. Len(Unread)
             /\ Unread' = SubSeq(Unread, n + 1, Len(Unread))
             /\ returned' = found.frame
<1> DEFINE found == Search(Unread)
           n == found.after - found.back
           i == NewTailIndex(found)
<1>1. n \in 0 .. Ring!Size /\ i \in Nat /\ i % Capacity = Buffer!Wr(tail + n)
  BY NewTail
<1>2. Ring!ResetTailIndex(i) /\ returned' = found.frame
  BY DEF Parse
<1> HIDE DEF found, n, i
<1>3. Ring!Next /\ tail' = Buffer!Wr(tail + n) /\ behind' = behind + n
      /\ UNCHANGED <<buffer, head, out>>
  BY <1>1, <1>2, ResetSkips
<1>4. RingInv'
  BY <1>3, RingSteps
<1>5. Buffer!IInv /\ (Buffer!IInv)' /\ n \in 0 .. Buffer!Size
  BY <1>1, <1>4, SameRing, SameRingNext
<1>6. Buffer!Items' = SubSeq(Buffer!Items, n + 1, Len(Buffer!Items))
  BY <1>3, <1>5, Sizes, Buffer!SkipStep
<1>7. Unread = Buffer!Items /\ Unread' = Buffer!Items'
  BY SameRing, SameRingNext DEF Unread
<1>8. Len(Unread) = Ring!Size
  BY UnreadIs
<1>9. QED
  BY <1>1, <1>2, <1>3, <1>6, <1>7, <1>8 DEF found, n

-----------------------------------------------------------------------------
(* The inductive invariant: the bytes are bytes, and the invariant of the  *)
(* ring buffer.                                                            *)

IInv == line \in Seq(Byte) /\ serial \in Seq(Byte) /\ RingInv

LEMMA SentBytes ==
  ASSUME NEW parameter \in Seq(Byte), NEW cmd \in Byte
  PROVE  FrameBytes(Frame(DEVICE_BROADCAST, DEVICE_BROADCAST, cmd, parameter)) \in Seq(Byte)
<1> DEFINE par == Cut(parameter)
<1>1. par \in Seq(Byte) /\ Len(par) \in 0 .. MAX_PARAMETER_LENGTH
  BY CutFits
<1> HIDE DEF par
<1>2. Len(par) \in Byte
  BY <1>1, ByteAssumption
<1>3. <<HEADER, HEADER, DEVICE_BROADCAST, DEVICE_BROADCAST, cmd, Len(par)>> \in Seq(Byte)
      /\ <<EMPTY_CRC, EMPTY_CRC, FOOTER_0, FOOTER_1>> \in Seq(Byte)
  BY <1>2, ByteAssumption
<1>4. QED
  BY <1>1, <1>3, ConcatProperties DEF FrameBytes, Frame, par

LEMMA InitIInv == Init => IInv
<1> SUFFICES ASSUME Init PROVE IInv
  OBVIOUS
<1>1. Buffer!Init
  BY DEF Init, Ring!Init, Buffer!Init, Ring!Slots, Buffer!Slots
<1>2. RingInv
  BY <1>1, Sizes, Buffer!InitIInv, SameRing
<1>3. QED
  BY <1>2 DEF Init, IInv

\* Every step leaves the ring buffer alone or calls one of its operations.
LEMMA RingStep == IInv /\ [Next]_vars => [Ring!Next]_ring
<1> SUFFICES ASSUME IInv, [Next]_vars PROVE [Ring!Next]_ring
  OBVIOUS
<1>1. CASE SendString \/ SendValue \/ Noise \/ Arrive
  BY <1>1 DEF SendString, SendValue, SendInstruction, Noise, Arrive, ring
<1>2. CASE ReadSerial
  <2>1. Head(serial) \in Byte
    BY <1>2 DEF IInv, ReadSerial
  <2>2. QED
    BY <1>2, <2>1 DEF ReadSerial, Ring!Next
<1>3. CASE Parse
  <2>1. CASE Enough
    BY <1>3, <2>1, ParseTakes DEF IInv
  <2>2. CASE ~ Enough
    BY <1>3, <2>2 DEF Parse, ring
  <2>3. QED
    BY <2>1, <2>2
<1>4. CASE UNCHANGED vars
  BY <1>4 DEF vars, ring
<1>5. QED
  BY <1>1, <1>2, <1>3, <1>4 DEF Next, GetFirstInstruction

LEMMA NextIInv == IInv /\ [Next]_vars => IInv'
<1> SUFFICES ASSUME IInv, [Next]_vars PROVE IInv'
  OBVIOUS
<1>1. RingInv'
  BY RingStep, RingSteps DEF IInv
<1>2. ASSUME NEW cmd \in Byte, NEW v, NEW parameter \in Seq(Byte),
             SendInstruction(cmd, v, parameter)
      PROVE  line' \in Seq(Byte) /\ serial' \in Seq(Byte)
  <2>1. FrameBytes(Frame(DEVICE_BROADCAST, DEVICE_BROADCAST, cmd, parameter)) \in Seq(Byte)
    BY SentBytes
  <2>2. QED
    BY <1>2, <2>1, ConcatProperties DEF IInv, SendInstruction
<1>3. TEXT \in Byte /\ VALUE \in Byte /\ NUL \in Byte /\ \A s \in Strings \cup Values : s \in Seq(Byte)
  BY ByteAssumption
<1>4. ASSUME SendString PROVE line' \in Seq(Byte) /\ serial' \in Seq(Byte)
  <2>1. PICK s \in Strings : SendInstruction(TEXT, s, StringBytes(s))
    BY <1>4 DEF SendString
  <2>2. s \in Seq(Byte)
    BY <1>3
  <2>3. Append(s, NUL) \in Seq(Byte)
    BY <1>3, <2>2, AppendProperties
  <2>4. StringBytes(s) \in Seq(Byte)
    BY <2>3, CutFits DEF StringBytes
  <2>5. QED
    BY <1>2, <1>3, <2>1, <2>4
<1>5. ASSUME SendValue PROVE line' \in Seq(Byte) /\ serial' \in Seq(Byte)
  BY <1>2, <1>3, <1>5 DEF SendValue
<1>6. ASSUME Noise PROVE line' \in Seq(Byte) /\ serial' \in Seq(Byte)
  <2>1. PICK b \in NoiseBytes : line' = Append(line, b)
    BY <1>6 DEF Noise
  <2>2. b \in Byte /\ serial' = serial
    BY <1>6, ByteAssumption DEF Noise
  <2>3. QED
    BY <2>1, <2>2, AppendProperties DEF IInv
<1>7. ASSUME Arrive PROVE line' \in Seq(Byte) /\ serial' \in Seq(Byte)
  <2>1. Head(line) \in Byte /\ Tail(line) \in Seq(Byte)
    BY <1>7 DEF IInv, Arrive
  <2>2. Append(serial, Head(line)) \in Seq(Byte)
    BY <2>1, AppendProperties DEF IInv
  <2>3. QED
    BY <1>7, <2>1, <2>2 DEF IInv, Arrive
<1>8. ASSUME ReadSerial PROVE line' \in Seq(Byte) /\ serial' \in Seq(Byte)
  BY <1>8 DEF IInv, ReadSerial
<1>9. ASSUME Parse PROVE line' \in Seq(Byte) /\ serial' \in Seq(Byte)
  BY <1>9 DEF IInv, Parse, link
<1>10. ASSUME UNCHANGED vars PROVE line' \in Seq(Byte) /\ serial' \in Seq(Byte)
  BY <1>10 DEF IInv, vars, link
<1>11. QED
  BY <1>1, <1>4, <1>5, <1>6, <1>7, <1>8, <1>9, <1>10 DEF IInv, Next, GetFirstInstruction

-----------------------------------------------------------------------------

\* The helper uses the ring buffer as the ring buffer allows: it stores bytes only, and the
\* index to which Update moves the tail is always that of an unread byte or the head
\* (SerialComHelper.cpp:21-38, ERxProtocol.cpp:253-345).
THEOREM HelperKeepsTheRing == Spec => Ring!Spec
<1>1. Init => Ring!Init
  BY DEF Init
<1>2. IInv /\ [Next]_vars => [Ring!Next]_(Ring!vars)
  BY RingStep DEF ring, Ring!vars
<1>3. QED
  BY InitIInv, NextIInv, <1>1, <1>2, PTL DEF Spec, Ring!Spec

\* An update of a full buffer takes some of it, so the loop can read on, whatever bytes came:
\* the buffer has room for a frame with the longest parameter (ERxMacros.h:33-36,
\* ERxProtocol.cpp:281-307).
THEOREM LoopReadsOn == Spec => []NeverStuck
<1>1. IInv => NeverStuck
  <2> SUFFICES ASSUME IInv, Ring!Full PROVE NewTailIndex(Search(Unread)) # tail
    BY DEF NeverStuck
  <2> DEFINE found == Search(Unread)
             n == found.after - found.back
             i == NewTailIndex(found)
  <2>1. n \in 0 .. Ring!Size /\ i % Capacity = Buffer!Wr(tail + n)
    BY NewTail DEF IInv
  <2>2. /\ Ring!Size = Capacity - 1 /\ tail \in 0 .. Capacity - 1 /\ Capacity \in Nat
        /\ Unread \in Seq(Nat) /\ Len(Unread) = Ring!Size
        /\ Capacity > MAX_PARAMETER_LENGTH + 10 /\ MAX_PARAMETER_LENGTH \in Nat
    BY UnreadIs, Sizes DEF IInv, Ring!Full
  <2>3. Len(Unread) >= MAX_PARAMETER_LENGTH + 10
    BY <2>2
  <2>4. n > 0
    BY <2>2, <2>3, SearchMoves
  <2> HIDE DEF found, n, i
  <2>5. Buffer!Wr(tail + n) # tail
    BY <2>1, <2>2, <2>4 DEF Buffer!Wr
  <2>6. tail % Capacity = tail
    BY <2>2
  <2>7. i # tail
    BY <2>1, <2>5, <2>6
  <2>8. QED
    BY <2>7 DEF i, found
<1>2. QED
  BY InitIInv, NextIInv, <1>1, PTL DEF Spec

\* A frame is returned only when its bytes arrived one behind the other, no byte belongs to two
\* frames, and an update leaves the bytes that it is not done with as they are, whatever bytes
\* came and wherever they lie in the ring (ERxProtocol.cpp:253-345).
THEOREM FramesArrived == Spec => ReturnsWhatArrived
<1> DEFINE Takes ==
      LET used == Len(Unread) - Len(Unread')
      IN  /\ Unread' = SubSeq(Unread, used + 1, Len(Unread))
          /\ returned' # NoFrame =>
               LET f == FrameBytes(returned')
               IN  SubSeq(Unread, used - Len(f) + 1, used) = f
<1>1. IInv /\ Parse => Takes
  <2> SUFFICES ASSUME IInv, Parse PROVE Takes
    OBVIOUS
  <2>1. Unread \in Seq(Nat) /\ Len(Unread) \in Nat
    BY UnreadIs DEF IInv
  <2>2. CASE Enough
    <3> DEFINE found == Search(Unread)
               n == found.after - found.back
    <3>1. /\ n \in 0 .. Len(Unread) /\ Unread' = SubSeq(Unread, n + 1, Len(Unread))
          /\ returned' = found.frame
      BY <2>2, ParseTakes DEF IInv
    <3>2. Good(Unread, 0, found)
      BY <2>1, SearchGood
    <3>3. returned' # NoFrame => n = found.after /\ EndsWith(Unread, n, returned')
      BY <3>1, <3>2 DEF Good
    <3> HIDE DEF found, n
    <3>4. Len(Unread') = Len(Unread) - n
      BY <2>1, <3>1, SubSeqProperties
    <3>5. Len(Unread) - Len(Unread') = n
      BY <2>1, <3>1, <3>4
    <3>6. QED
      BY <3>1, <3>3, <3>5 DEF EndsWith
  <2>3. CASE ~ Enough
    <3>1. returned' = NoFrame /\ Unread' = Unread
      BY <2>3 DEF Parse, ring, Unread, Ring!Items, Ring!Size
    <3>2. Len(Unread) - Len(Unread') = 0 /\ SubSeq(Unread, 0 + 1, Len(Unread)) = Unread
      BY <2>1, <3>1, SubSeqFull
    <3>3. QED
      BY <3>1, <3>2
  <2>4. QED
    BY <2>2, <2>3
<1>2. IInv /\ [Next]_vars => [Parse => Takes]_vars
  BY <1>1
<1>3. QED
  BY InitIInv, NextIInv, <1>2, PTL DEF Spec, ReturnsWhatArrived
=============================================================================
