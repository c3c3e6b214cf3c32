----------------------------- MODULE InfraredCode -----------------------------
(***************************************************************************)
(* The four infrared codes of IRremote: what is sent for a value, as a     *)
(* line of pulses, and what the receiver makes of the widths it recorded.  *)
(*                                                                         *)
(* A code is a record [type, bits] with the bits of the value, the highest *)
(* first.  A pulse is a pair of a level and a time in microseconds.  A     *)
(* recording is the sequence of widths in ticks of 50 us: the gap before   *)
(* the signal, a mark, a space, a mark ...                                 *)
(***************************************************************************)
EXTENDS Integers, Sequences, SequencesExt

USECPERTICK == 50
MARK_EXCESS == 100

Mark(us) == <<"mark", us>>
Space(us) == <<"space", us>>
Other(level) == IF level = "mark" THEN "space" ELSE "mark"

Code(type, bits) == [type |-> type, bits |-> bits]
NoCode == Code("none", <<>>)

-----------------------------------------------------------------------------
(* Sending.                                                                *)

\* Where one pulse ends and the next begins at the same level the line has one;
\* a bit has both levels, so that no more than two meet.
Joined(line) ==
  LET Goes(i) == i \in 2..Len(line) /\ line[i][1] = line[i - 1][1]
      begins == SelectSeq([i \in 1..Len(line) |-> i], LAMBDA i : ~Goes(i))
  IN  [k \in 1..Len(begins) |->
         LET i == begins[k] IN
           IF Goes(i + 1) THEN <<line[i][1], line[i][2] + line[i + 1][2]>> ELSE line[i]]

BitByBit(bits, Pulses(_, _)) ==
  FlattenSeq([i \in 1..Len(bits) |-> Pulses(i, bits[i] = 1)])

SentNEC(bits) ==
  <<Mark(9000), Space(4500)>>
  \o BitByBit(bits, LAMBDA i, one : <<Mark(560), Space(IF one THEN 1600 ELSE 560)>>)
  \o <<Mark(560)>>

SentSony(bits) ==
  <<Mark(2400), Space(600)>>
  \o BitByBit(bits, LAMBDA i, one : <<Mark(IF one THEN 1200 ELSE 600), Space(600)>>)

RC5_T1 == 889

SentRC5(bits) ==
  <<Mark(RC5_T1), Space(RC5_T1), Mark(RC5_T1)>>
  \o BitByBit(bits, LAMBDA i, one : IF one THEN <<Space(RC5_T1), Mark(RC5_T1)>>
                                           ELSE <<Mark(RC5_T1), Space(RC5_T1)>>)

RC6_T1 == 444

\* The fourth bit, the trailer, is sent at half the speed.
Trailer(i) == i = 4

SentRC6(bits) ==
  LET Pulses(i, one) ==
        LET t == IF Trailer(i) THEN 2 * RC6_T1 ELSE RC6_T1
        IN  IF one THEN <<Mark(t), Space(t)>> ELSE <<Space(t), Mark(t)>>
  IN  <<Mark(2666), Space(889), Mark(RC6_T1), Space(RC6_T1)>> \o BitByBit(bits, Pulses)

\* The line of pulses of a code.
Sent(code) ==
  Joined(
    CASE code.type = "NEC"  -> SentNEC(code.bits)
      [] code.type = "SONY" -> SentSony(code.bits)
      [] code.type = "RC5"  -> SentRC5(code.bits)
      [] code.type = "RC6"  -> SentRC6(code.bits))

-----------------------------------------------------------------------------
(* Decoding.  Position 1 of a recording is the gap, so a mark has an even   *)
(* position.  Where the code reads beyond what was recorded (decodeNEC and  *)
(* decodeRC6 look at the header before they look at the length) it returns  *)
(* ERR whatever it finds there.                                             *)

MatchClosely(ticks, us) ==
  /\ ticks >= (us * 75) \div (100 * USECPERTICK)
  /\ ticks <= (us * 125) \div (100 * USECPERTICK)

\* MATCH: within 25 percent, TICKS_LOW and TICKS_HIGH rounded down.
Match(ticks, us) ==
  /\ ticks >= (us * 75) \div (100 * USECPERTICK)
  /\ ticks <= (us * 125) \div (100 * USECPERTICK) + 1

IsMark(raw, i, us) == i \in DOMAIN raw /\ Match(raw[i], us + MARK_EXCESS)
IsSpace(raw, i, us) == i \in DOMAIN raw /\ Match(raw[i], us - MARK_EXCESS)

NEC_BITS == 32
REPEAT == [i \in 1..NEC_BITS |-> 1]

IsNecRepeat(raw) ==
  Len(raw) = 4 /\ IsMark(raw, 2, 9000) /\ IsSpace(raw, 3, 2250) /\ IsMark(raw, 4, 560)

IsNEC(raw) ==
  /\ Len(raw) >= 2 * NEC_BITS + 4
  /\ IsMark(raw, 2, 9000) /\ IsSpace(raw, 3, 4500)
  /\ \A i \in 1..NEC_BITS :
       /\ IsMark(raw, 2 * i + 2, 560)
       /\ IsSpace(raw, 2 * i + 3, 1600) \/ IsSpace(raw, 2 * i + 3, 560)

NecBits(raw) ==
  [i \in 1..NEC_BITS |-> IF IsSpace(raw, 2 * i + 3, 1600) THEN 1 ELSE 0]

SONY_BITS == 12

\* Sony's loop goes on to the first space that does not fit.
SonyCount(raw) ==
  LET Pair(i) == 2 * i + 2 <= Len(raw) /\ IsSpace(raw, 2 * i + 1, 600)
  IN  CHOOSE n \in 0..Len(raw) : ~Pair(n + 1) /\ \A i \in 1..n : Pair(i)

IsSony(raw) ==
  /\ Len(raw) >= 2 * SONY_BITS + 2 /\ IsMark(raw, 2, 2400)
  /\ SonyCount(raw) >= 12
  /\ \A i \in 1..SonyCount(raw) : IsMark(raw, 2 * i + 2, 1200) \/ IsMark(raw, 2 * i + 2, 600)

SonyBits(raw) ==
  [i \in 1..SonyCount(raw) |-> IF IsMark(raw, 2 * i + 2, 1200) THEN 1 ELSE 0]

\* getRClevel, one call after the other: the levels of the recording from
\* position "from", a width of two or three intervals t1 giving two or three.
\* After the recorded ones there is space.
Levels(raw, from, t1) ==
  LET Level(i) == IF i % 2 = 0 THEN "mark" ELSE "space"
      Fits(i, n) == IF i % 2 = 0 THEN IsMark(raw, i, n * t1) ELSE IsSpace(raw, i, n * t1)
      Units(i) == CASE Fits(i, 1) -> <<Level(i)>>
                    [] Fits(i, 2) -> <<Level(i), Level(i)>>
                    [] Fits(i, 3) -> <<Level(i), Level(i), Level(i)>>
                    [] OTHER      -> <<"bad">>
  IN  FlattenSeq([k \in 1..(Len(raw) - from + 1) |-> Units(from + k - 1)])

LevelAt(levels, i) == IF i <= Len(levels) THEN levels[i] ELSE "space"

\* Whether the levels from position p are n times one level, then n times the
\* other.
IsBit(levels, p, first, n) ==
  \A i \in 0..(2 * n - 1) :
    LevelAt(levels, p + i) = IF i < n THEN first ELSE Other(first)

\* decodeRC5 and decodeRC6 give up.
ERR == <<"err">>

\* The levels of a bit begin at At(i) and have Width(i) units a half; bits are
\* read while levels are left.
BitsRead(levels, one, At(_), Width(_)) ==
  LET n == CHOOSE k \in 0..Len(levels) : At(k + 1) > Len(levels) /\ (k = 0 \/ At(k) <= Len(levels))
      Is(i, first) == IsBit(levels, At(i), first, Width(i))
  IN  IF \A i \in 1..n : Is(i, "mark") \/ Is(i, "space")
        THEN [i \in 1..n |-> IF Is(i, one) THEN 1 ELSE 0]
        ELSE ERR

MIN_RC5_SAMPLES == 11

RC5Bits(raw) ==
  LET levels == Levels(raw, 2, RC5_T1) IN
    IF Len(raw) >= MIN_RC5_SAMPLES + 2 /\ SubSeq(levels, 1, 3) = <<"mark", "space", "mark">>
      THEN BitsRead(levels, "space", LAMBDA i : 2 * i + 2, LAMBDA i : 1)
      ELSE ERR

RC6Bits(raw) ==
  LET levels == Levels(raw, 4, RC6_T1)
      At(i) == IF i <= 4 THEN 2 * i + 1 ELSE 2 * i + 3
      Width(i) == IF Trailer(i) THEN 2 ELSE 1
  IN  IF /\ IsMark(raw, 2, 2666) /\ IsSpace(raw, 3, 889)
         /\ IsBit(levels, 1, "mark", 1)
        THEN BitsRead(levels, "mark", At, Width)
        ELSE ERR

\* decode: what is heard of a recording.  A recording that is none of the four
\* codes is UNKNOWN, and thrown away when it has less than 6 widths.
Decode(raw) ==
  CASE IsNecRepeat(raw)    -> Code("NEC", REPEAT)
    [] IsNEC(raw)          -> Code("NEC", NecBits(raw))
    [] IsSony(raw)         -> Code("SONY", SonyBits(raw))
    [] RC5Bits(raw) # ERR -> Code("RC5", RC5Bits(raw))
    [] RC6Bits(raw) # ERR -> Code("RC6", RC6Bits(raw))
    [] Len(raw) >= 6       -> Code("UNKNOWN", <<>>)
    [] OTHER               -> NoCode
=============================================================================
