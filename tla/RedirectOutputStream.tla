------------------------- MODULE RedirectOutputStream ------------------------
(***************************************************************************)
(* One ERxRedirectOutputStream in use: its owner writes and flushes, time  *)
(* passes, and flush() waits so that packages are an interval apart        *)
(* (libs/ERxOutputStream/ERxRedirectOutputStream.cpp).                     *)
(*                                                                         *)
(* The clock is the program's: millis() counts modulo 2^32 and the         *)
(* difference to the last flush is a signed long.  Clock is the modulus    *)
(* here.  "since" and "waited" are history variables in real time: how     *)
(* long ago the last packet left (the boot, before the first) and how long *)
(* the last flush waited.  "written" is everything written so far, and     *)
(* "asked" holds the numbers of the packets that the owner's own flush     *)
(* sent: the others were sent by write().                                  *)
(***************************************************************************)
EXTENDS RedirectStream, Integers

CONSTANTS
  Prefix,         \* what SetPrefix was given
  Tokens,         \* what may be written
  FlushInterval,  \* FLUSH_INTERVAL
  Clock,          \* the modulus of millis()
  MaxWritten,     \* bound: tokens written
  MaxSince        \* bound: how far "since" counts

ASSUME ClockAssumption ==
  /\ FlushInterval \in Nat \ {0}
  /\ Clock \in Nat /\ Clock % 2 = 0 /\ FlushInterval < Clock \div 2

\* The cache has room behind the prefix, which addresses a node and holds no
\* control characters.
ASSUME PrefixAssumption ==
  /\ Prefix \in Seq(Range(Prefix)) /\ Len(Prefix) < CacheSize
  /\ CR \notin Range(Prefix)

VARIABLES
  stream,         \* the object
  now,            \* millis()
  previousFlush,  \* previous_flush, a global of the file
  since, waited, written, asked

vars == <<stream, now, previousFlush, since, waited, written, asked>>

Init ==
  /\ stream = NewStream(Prefix)
  /\ now = 0
  /\ previousFlush = 0
  /\ since = 0
  /\ waited = 0
  /\ written = <<>>
  /\ asked = {}

\* The unsigned difference of two readings of the clock, read as a signed one.
SignedDiff(a, b) ==
  LET d == (a + Clock - b) % Clock IN IF d < Clock \div 2 THEN d ELSE d - Clock

\* How long flush() waits: previous_flush is moved up to the present when the
\* clock shows less, which means that it wrapped.
Wait ==
  LET diff == SignedDiff(now, IF now < previousFlush THEN now ELSE previousFlush)
  IN  IF diff < FlushInterval THEN FlushInterval - diff ELSE 0

\* A mutant, for the checks only: the time of the flush is not recorded.
PassUnrecorded(packets) ==
  IF packets = 0
    THEN UNCHANGED <<now, previousFlush, since, waited>>
    ELSE /\ waited' = Wait
         /\ now' = (now + Wait + (packets - 1) * FlushInterval) % Clock
         /\ since' = 0
         /\ UNCHANGED previousFlush

\* Each packet sent waits for its turn; the second and later packets of one
\* call follow a flush that has just happened.
Pass(packets) ==
  IF packets = 0
    THEN UNCHANGED <<now, previousFlush, since, waited>>
    ELSE LET total == Wait + (packets - 1) * FlushInterval
         IN  /\ waited' = Wait
             /\ now' = (now + total) % Clock
             /\ previousFlush' = now'
             /\ since' = 0

Use(s) ==
  /\ stream' = s
  /\ Pass(Len(s.sent) - Len(stream.sent))

Write(c) ==
  /\ Len(written) < MaxWritten
  /\ Use(Written(stream, c))
  /\ written' = Append(written, c)
  /\ UNCHANGED asked

Flush ==
  /\ Use(Flushed(stream))
  /\ asked' = asked \union (Len(stream.sent) + 1 .. Len(stream'.sent))
  /\ UNCHANGED written

Tick ==
  /\ since < MaxSince
  /\ now' = (now + 1) % Clock
  /\ since' = since + 1
  /\ UNCHANGED <<stream, previousFlush, waited, written, asked>>

Next ==
  \/ \E c \in Tokens : Write(c)
  \/ Flush
  \/ Tick

Spec == Init /\ [][Next]_vars

-----------------------------------------------------------------------------

\* A packet, or the cache, without its prefix.
Body(p) == SubSeq(p, Len(Prefix) + 1, Len(p))

\* Whatever the cache size and however frames are cut, each packet on the air
\* begins with the prefix, and the packets' bodies and the cache together are
\* exactly what was written: nothing is lost, doubled or reordered when a
\* flush falls between two tokens or inside the prefix, and nothing is written
\* behind the buffer that the owner lent (lines 31-47, 112-118).
NothingLost ==
  /\ \A p \in {stream.cache} \union Range(stream.sent) : Len(p) <= CacheSize
  /\ \A k \in DOMAIN stream.sent : IsPrefix(Prefix, stream.sent[k])
  /\ stream.cache # <<>> => IsPrefix(Prefix, stream.cache)
  /\ FlattenSeq([k \in DOMAIN stream.sent |-> Body(stream.sent[k])])
       \o Body(stream.cache) = written

\* What went on the air, and behind it what is still in the cache.
Packets == Append(stream.sent, stream.cache)

\* The j-th token of packet k completes CR LF in what was written: prefixes are
\* not part of the text, so the CR may be the last token of the packet before.
EndsFrame(k, j) ==
  /\ Packets[k][j] = LF
  /\ IF j = Len(Prefix) + 1
       THEN k > 1 /\ Last(Packets[k - 1]) = CR
       ELSE Packets[k][j - 1] = CR

\* Where a frame ends its packet ends, and is sent at once (lines 49-63), so
\* that nothing of the next frame is behind it, with one exception: the packet
\* was cut between the CR and the LF, because the CR filled the cache or the
\* owner flushed there.  The flush forgets the CR (line 100), and the packet
\* behind begins with the LF and carries the next frame as well.
FrameEndSendsPacket ==
  \A k \in DOMAIN Packets : \A j \in Len(Prefix) + 1 .. Len(Packets[k]) :
    EndsFrame(k, j) =>
      \/ k <= Len(stream.sent) /\ j = Len(Packets[k])
      \/ /\ j = Len(Prefix) + 1
         /\ Len(Packets[k - 1]) = CacheSize \/ k - 1 \in asked

\* Two packets are at least the interval apart, however the clock wraps and
\* however long the stream was idle (lines 80-91).
Paced ==
  [][stream'.sent # stream.sent => since + waited' >= FlushInterval]_vars

=============================================================================
