----------------------------- MODULE BoundedFifo -----------------------------
(***************************************************************************)
(* What ERxRingBuffer promises its clients: a first-in-first-out buffer of *)
(* at most Limit elements that silently refuses an element when it is full *)
(* (libs/ERxCore/ERxRingBuffer.h:5-10), and whose read position a parser   *)
(* may save and move back to, as long as the elements read since then have *)
(* not been overwritten (libs/ERxProtocol/ERxProtocol.cpp:253-345).        *)
(***************************************************************************)
EXTENDS Integers, Sequences

CONSTANTS
  Limit,   \* the number of elements the buffer can hold
  Data,    \* the elements
  Blank    \* what Pop returns when there is nothing to return

VARIABLES
  items,   \* the elements not read yet, oldest first
  taken,   \* the elements read that a rewind can still bring back
  out      \* what the last Pop returned

vars == <<items, taken, out>>

KeepLast(s, n) == IF Len(s) <= n THEN s ELSE SubSeq(s, Len(s) - n + 1, Len(s))

Init ==
  /\ items = <<>>
  /\ taken = <<>>
  /\ out = Blank

AppendData(d) ==
  /\ Len(items) < Limit
  /\ items' = Append(items, d)
  /\ taken' = KeepLast(taken, Limit - Len(items) - 1)
  /\ UNCHANGED out

Pop ==
  /\ items # <<>>
  /\ out' = Head(items)
  /\ items' = Tail(items)
  /\ taken' = Append(taken, Head(items))

PopEmpty ==
  /\ items = <<>>
  /\ out' = Blank
  /\ UNCHANGED <<items, taken>>

\* Skip the next n elements without returning them.
Skip(n) ==
  /\ taken' = taken \o SubSeq(items, 1, n)
  /\ items' = SubSeq(items, n + 1, Len(items))
  /\ UNCHANGED out

\* Bring the last n elements read back.
Rewind(n) ==
  /\ items' = SubSeq(taken, Len(taken) - n + 1, Len(taken)) \o items
  /\ taken' = SubSeq(taken, 1, Len(taken) - n)
  /\ UNCHANGED out

Next ==
  \/ \E d \in Data : AppendData(d)
  \/ Pop
  \/ PopEmpty
  \/ \E n \in 0 .. Len(items) : Skip(n)
  \/ \E n \in 0 .. Len(taken) : Rewind(n)

Spec == Init /\ [][Next]_vars
=============================================================================
