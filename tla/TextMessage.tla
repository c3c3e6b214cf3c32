----------------------------- MODULE TextMessage ------------------------------
(***************************************************************************)
(* ERxTextMessage (libs/ERxTextMessage/ERxTextMessage.cpp) as a value: it  *)
(* takes characters from a raw stream into a cache, cuts the cache into    *)
(* frames, and keeps one frame for its client to read.  A frame is a line, *)
(* or a line that begins with the keyword DATA together with the lines     *)
(* that follow it up to one with a single dot.  A line that begins with    *)
(* ECHO is written back.                                                   *)
(*                                                                         *)
(* Text is a sequence of tokens as in Protocol; a keyword is one token,    *)
(* and two tokens are not separated unless SP stands between them.         *)
(***************************************************************************)
EXTENDS Protocol, Integers, FiniteSetsExt

CONSTANTS
  DOT, SP, NUL,   \* the characters '.', ' ' and '\0'
  DATA, ECHO,     \* the keywords
  Capacity        \* BUFFER_CAPACITY - 1, in tokens

ASSUME CapacityAssumption == Capacity \in Nat \ {0}

ONE_LINE_TERMINATOR == <<CR, LF>>
MULTI_LINES_TERMINATOR == <<CR, LF, DOT, CR, LF>>

\* "wire" is what the raw stream has received and nobody has read yet.
\*   raw     m_RawDataCache         over  m_bRawDataBufferOverflow
\*   msg     m_ReceivedMessage      cut   m_bReceivedMessageOverflow
\*   data    m_bIsDataTransferBegin echo  what was written back, frame by frame
NewTextMessage ==
  [wire |-> <<>>, raw |-> <<>>, msg |-> <<>>,
   over |-> FALSE, cut |-> FALSE, data |-> FALSE, echo |-> <<>>]

Dropped(s, n) == SubSeq(s, n + 1, Len(s))

-----------------------------------------------------------------------------
(* The search for a terminator reads on until it has matched the whole     *)
(* target or meets a NUL.  A character that breaks a match is compared     *)
(* again, with the first character of the target: peekFindUntil does so,   *)
(* Stream::find does not.                                                  *)

\* A mutant, for the checks only: no search compares again.
AdvanceOnce(target, index, c, again) ==
  IF c = target[index + 1] THEN index + 1 ELSE 0

\* How many characters are matched after c, when "index" were before it.
Advance(target, index, c, again) ==
  IF c = target[index + 1]
    THEN index + 1
    ELSE IF again /\ c = target[1] THEN 1 ELSE 0

\* How many are matched after each beginning of s.
Matched(s, target, again) ==
  LET index[k \in 0 .. Len(s)] ==
        IF k = 0 THEN 0
        ELSE LET i == index[k - 1]
             IN  IF i = Len(target) THEN i ELSE Advance(target, i, s[k], again)
  IN  index

Scan(s, target, again) ==
  LET index == Matched(s, target, again)
      stops == {k \in 1 .. Len(s) : s[k] = NUL \/ index[k] = Len(target)}
      read == Min(stops \union {Len(s)})
  IN  [read |-> read, found |-> index[read] = Len(target)]

\* The distance from the beginning to the target, -1 without one.
PeekFind(s, target) ==
  LET m == Scan(s, target, TRUE)
  IN  IF m.found THEN m.read - Len(target) ELSE -1

-----------------------------------------------------------------------------
(* The steps of available().                                               *)

\* _availableInternal: there is a whole frame to read.
Ready(t) == t.msg # <<>> /\ ~t.data

\* A mutant, for the checks only: full only when the cache has overflowed.
FullCacheLate(t) == Len(t.raw) > Capacity

FullCache(t) == Len(t.raw) = Capacity

\* 2.1
Filled(t) ==
  LET room == Capacity - Len(t.raw)
      n == IF Len(t.wire) <= room THEN Len(t.wire) ELSE room
  IN  [t EXCEPT !.raw = @ \o SubSeq(t.wire, 1, n), !.wire = Dropped(@, n)]

\* 2.2
Discarded(t, terminator) ==
  LET m == Scan(t.raw, terminator, FALSE)
  IN  [t EXCEPT !.raw = Dropped(@, m.read), !.over = ~m.found]

\* A mutant, for the checks only: what follows the frame is lost.
FramedAlone(t, length) ==
  [t EXCEPT !.msg = SubSeq(t.raw, 1, length), !.cut = FALSE, !.raw = <<>>, !.data = FALSE]

\* 3.  The body of a data transfer is added to the line that announced it.
Framed(t, length) ==
  LET kept == IF t.data THEN t.msg ELSE <<>>
      room == Capacity - Len(kept)
      n == IF length <= room THEN length ELSE room
  IN  [t EXCEPT !.msg = kept \o SubSeq(t.raw, 1, n), !.cut = n < length,
                !.raw = Dropped(@, length), !.data = FALSE]

Invalidated(t) == [t EXCEPT !.msg = <<>>, !.cut = FALSE, !.data = FALSE]

\* A mutant, for the checks only: the rest of the frame is not discarded.
OverflowForgotten(t) == [Invalidated(t) EXCEPT !.raw = <<>>]

Overflowed(t) == [Invalidated(t) EXCEPT !.raw = <<>>, !.over = TRUE]

\* 4.
KeywordChecked(t) ==
  CASE Len(t.msg) > 1 /\ t.msg[1] = DATA /\ t.msg[2] \in {SP, CR} ->
         [t EXCEPT !.data = TRUE]
    [] Len(t.msg) > 1 /\ t.msg[1] = ECHO /\ t.msg[2] \in {SP, CR} ->
         [t EXCEPT !.echo = Append(@, Tail(t.msg)), !.msg = <<>>]
    [] OTHER -> t

\* available()
Polled(t) ==
  LET terminator == IF t.data THEN MULTI_LINES_TERMINATOR ELSE ONE_LINE_TERMINATOR
      filled == Filled(t)
      clean == IF t.over THEN Discarded(filled, terminator) ELSE filled
      distance == PeekFind(clean.raw, terminator)
      frame == Framed(clean, distance + Len(terminator))
  IN  CASE Ready(t) -> t
        [] ~Ready(t) /\ clean.over -> clean
        [] ~Ready(t) /\ ~clean.over /\ distance # -1 ->
             IF t.data THEN frame ELSE KeywordChecked(frame)
        [] OTHER ->
             KeywordChecked(IF FullCache(clean) THEN Overflowed(clean) ELSE clean)
=============================================================================
