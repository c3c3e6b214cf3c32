---------------------------- MODULE UartProperties ----------------------------
(* What the command receiver makes of the characters that arrive, stated    *)
(* against the text that was sent.                                          *)
EXTENDS UartReceiver

\* The end of the first occurrence of target in s at or after from, 0 if none.
EndOf(target, s, from) ==
  LET ends == {e \in from + Len(target) - 1 .. Len(s) :
                 SubSeq(s, e - Len(target) + 1, e) = target}
  IN  IF ends = {} THEN 0 ELSE CHOOSE e \in ends : \A f \in ends : e <= f

\* The search of peekFindUntil, which looks at each character once and falls
\* back to the first character of the target only, finds the first occurrence
\* of either terminator, and no occurrence behind a NUL
\* (ERxTextMessage.cpp:82-129).
PeekFindsFirst ==
  \A target \in {ONE_LINE_TERMINATOR, MULTI_LINES_TERMINATOR} :
    LET e == EndOf(target, text.raw, 1)
        visible == e # 0 /\ \A k \in 1 .. e : text.raw[k] # NUL
    IN  PeekFind(text.raw, target) = IF visible THEN e - Len(target) ELSE -1

-----------------------------------------------------------------------------
(* What the sender means: the text is a sequence of frames, and each has    *)
(* its effect.                                                              *)

Announces(keyword, s, k) == s[k] = keyword /\ s[k + 1] \in {SP, CR}

\* The end of the frame that begins at k.
FrameEnd(s, k) ==
  LET line == EndOf(ONE_LINE_TERMINATOR, s, k)
  IN  IF line # 0 /\ Announces(DATA, s, k)
        THEN EndOf(MULTI_LINES_TERMINATOR, s, line + 1)
        ELSE line

FramesOf(s) ==
  LET from[k \in 1 .. Len(s) + 1] ==
        LET e == FrameEnd(s, k)
        IN  IF e = 0 THEN <<>> ELSE <<SubSeq(s, k, e)>> \o from[e + 1]
  IN  from[1]

\* A frame is written back, ignored, or becomes a command.
Effect(frame) ==
  LET p == [data |-> frame, rd |-> 0]
      id == UInt(ParseValue(p))
  IN  IF Announces(ECHO, frame, 1)
        THEN <<NewEcho(Tail(frame))>>
        ELSE IF id = SYS_INVALID_COMMAND
          THEN <<>>
          ELSE <<NewCommand(id, Truncated(FirstFrame(Unread(Parsed(p))), ParaCapacity))>>

\* The effects of a sequence of frames, in order.
EffectsOf(frames) ==
  LET upTo[k \in 0 .. Len(frames)] ==
        IF k = 0 THEN <<>> ELSE upTo[k - 1] \o Effect(frames[k])
  IN  upTo[Len(frames)]

Effects(s) == EffectsOf(FramesOf(s))

Overlong(frame) == Len(frame) > Capacity

Fitting(s) == SelectSeq(FramesOf(s), LAMBDA f : ~Overlong(f))

\* Every frame fits the buffers, and no NUL hides one.
Regular ==
  /\ \A k \in DOMAIN input : input[k] # NUL
  /\ \A k \in DOMAIN FramesOf(input) : ~Overlong(FramesOf(input)[k])

-----------------------------------------------------------------------------

IsSubsequence(s, t) ==
  \E at \in [DOMAIN s -> DOMAIN t] :
    /\ \A k \in DOMAIN s : s[k] = t[at[k]]
    /\ \A j, k \in DOMAIN s : j < k => at[j] < at[k]

\* Whatever overflows, and however the characters fall between the polls, no
\* piece of a frame is ever taken for a frame, none is handled twice and the
\* order is kept (ERxTextMessage.cpp:287-358).  A data transfer that overflows
\* is the exception: see RegularHandled.
HandledInOrder ==
  (\A k \in DOMAIN input : input[k] # DATA) => IsSubsequence(handled, EffectsOf(Fitting(input)))

\* Every frame that fits the buffers and arrived is handled in the end.
RegularHandled ==
  Regular => <>[](handled = Effects(SubSeq(input, 1, arrived)))

\* Two frames at the end of the text from which the receiver can be expected to
\* recover: both fit and hold no NUL and no DATA; nothing is behind them; the first
\* does not end in CR CR LF, whose end the search for the rest of a frame overlooks
\* (Stream::find does not compare a character again); a NUL, which hides every end
\* behind it until the cache overflows, is a cache and more before them; and no DATA
\* stands within a frame, where it is no announcement to the sender but may become one
\* when the beginning of the frame is lost.
Plain(frame) ==
  /\ ~Overlong(frame)
  /\ \A k \in DOMAIN frame : frame[k] \notin {NUL, DATA}

Recoverable ==
  LET frames == FramesOf(input)
      n == Len(frames)
  IN  /\ n > 1 /\ FlattenSeq(frames) = input
      /\ Plain(frames[n - 1]) /\ Plain(frames[n])
      /\ ~IsSuffix(<<CR, CR, LF>>, frames[n - 1])
      /\ \A k \in DOMAIN input :
           input[k] = NUL => k + Capacity + Len(frames[n - 1] \o frames[n]) <= Len(input) + 1
      /\ \A k \in DOMAIN frames : DATA \notin Range(Tail(frames[k]))

\* The last frame is handled, and nothing after it.
LastHandled ==
  Recoverable /\ arrived = Len(input) => IsSuffix(Effect(Last(FramesOf(input))), handled)

\* What was looked at so far ends between CR and LF of the last frame but one, while
\* discarding.
SplitEnd ==
  /\ Recoverable /\ text.over
  /\ arrived - Len(text.wire) = Len(input) - Len(Last(FramesOf(input))) - 1

\* No damage is lasting: whatever was truncated (ERxTextMessage.cpp:331), discarded,
\* hidden by a NUL, or read as commands because an overflow ended the mode (line 357),
\* the receiver is back in step one frame later, and of two frames as above the last is
\* handled last and whole.  One exception is left: the end of the first of the two
\* falls into two polls while the receiver discards.  The search starts anew in each
\* poll and overlooks it, and the last frame is discarded with it (line 302).
Resynchronises == <>SplitEnd \/ <>[]LastHandled

=============================================================================
