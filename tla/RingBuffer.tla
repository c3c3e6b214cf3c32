----------------------------- MODULE RingBuffer ------------------------------
(***************************************************************************)
(* ERxRingBuffer<_Ty, BUFFER_CAPACITY> (libs/ERxCore/ERxRingBuffer.h): an  *)
(* array and two indices.  One slot always stays free, so that head = tail *)
(* means empty.                                                            *)
(*                                                                         *)
(* "behind" is a history variable the code does not have: the number of    *)
(* slots before the tail that still hold the elements read most recently.  *)
(* It states the contract ResetTailIndex leaves to its caller: the tail    *)
(* may be moved to a slot that holds an unread element, to the head, or to *)
(* an element read before and not overwritten since.                       *)
(***************************************************************************)
EXTENDS Integers, Sequences

CONSTANTS
  Capacity,  \* BUFFER_CAPACITY, the number of slots
  Data,      \* the elements stored
  Blank      \* value_type(): the initial content of a slot

ASSUME CapacityAssumption == Capacity \in Nat \ {0}

VARIABLES
  buffer,    \* m_Buffer
  head,      \* m_iHeadIndex
  tail,      \* m_iTailIndex
  out,       \* what the last Pop returned
  behind

vars == <<buffer, head, tail, out, behind>>

Slots == 0 .. Capacity - 1

Size == (Capacity + head - tail) % Capacity

Empty == Size = 0

Full == Size = Capacity - 1

\* The distance from the tail forward to slot t.
Ahead(t) == (Capacity + t - tail) % Capacity

\* The room the unread elements leave for the ones already read.
Room(n) == IF behind <= n THEN behind ELSE n

Init ==
  /\ buffer = [i \in Slots |-> Blank]
  /\ head = 0
  /\ tail = 0
  /\ out = Blank
  /\ behind = 0

AppendData(d) ==
  LET i == (head + 1) % Capacity
  IN  /\ IF i # tail
           THEN /\ buffer' = [buffer EXCEPT ![head] = d]
                /\ head' = i
                /\ behind' = Room(Capacity - Size - 2)
           ELSE UNCHANGED <<buffer, head, behind>>
      /\ UNCHANGED <<tail, out>>

\* A mutant, for the checks only: it does not test for an empty buffer.
PopEmpty ==
  /\ out' = buffer[tail]
  /\ tail' = (tail + 1) % Capacity
  /\ behind' = behind + 1
  /\ UNCHANGED <<buffer, head>>

\* A mutant, for the checks only: it moves the tail before it reads.
PopLate ==
  /\ head # tail
  /\ out' = buffer[(tail + 1) % Capacity]
  /\ tail' = (tail + 1) % Capacity
  /\ behind' = behind + 1
  /\ UNCHANGED <<buffer, head>>

Pop ==
  /\ IF head = tail
       THEN /\ out' = Blank
            /\ UNCHANGED <<tail, behind>>
       ELSE /\ out' = buffer[tail]
            /\ tail' = (tail + 1) % Capacity
            /\ behind' = behind + 1
  /\ UNCHANGED <<buffer, head>>

Flush ==
  /\ tail' = head
  /\ behind' = behind + Size
  /\ UNCHANGED <<buffer, head, out>>

\* The index passed is reduced modulo the capacity; a parser passes an index
\* it read with GetTailIndex, or a sum of such an index and a distance.
ResetTailIndex(t) ==
  LET slot == t % Capacity
      forward == Ahead(slot)
      back == Capacity - forward
  IN  /\ tail' = slot
      /\ \/ /\ forward <= Size
            /\ behind' = behind + forward
         \/ /\ back <= behind
            /\ behind' = behind - back
      /\ UNCHANGED <<buffer, head, out>>

Next ==
  \/ \E d \in Data : AppendData(d)
  \/ Pop
  \/ Flush
  \/ \E t \in 0 .. 2 * Capacity - 1 : ResetTailIndex(t)

Spec == Init /\ [][Next]_vars

-----------------------------------------------------------------------------
(* The abstract buffer the array and the indices stand for. *)

Items == [k \in 1 .. Size |-> buffer[(tail + k - 1) % Capacity]]

Taken ==
  [k \in 1 .. behind |-> buffer[(Capacity + tail - behind + k - 1) % Capacity]]

Fifo == INSTANCE BoundedFifo
          WITH Limit <- Capacity - 1, items <- Items, taken <- Taken

-----------------------------------------------------------------------------

\* The indices stay inside the array and every slot holds an element or its
\* initial value.
TypeOK ==
  /\ buffer \in [Slots -> Data \union {Blank}]
  /\ head \in Slots
  /\ tail \in Slots
  /\ out \in Data \union {Blank}
  /\ behind \in Nat

\* The unread elements and the ones a rewind may still reach never overlap
\* and never touch the free slot.  This is what makes the position a parser
\* hands to ResetTailIndex (ERxRingBuffer.h:107-110) unambiguous.
WindowFits == Size + behind <= Capacity - 1

\* What the program asks of the buffer tells the truth about the indices:
\* Empty is what Pop tests and Full is what Append tests
\* (ERxRingBuffer.h:57-100).
ObserversAgree ==
  /\ Empty <=> head = tail
  /\ Full <=> (head + 1) % Capacity = tail

\* Whatever the sequence of calls, the buffer behaves as a bounded
\* first-in-first-out buffer whose read position can be moved back: nothing
\* is reordered, duplicated or lost but the element refused when full
\* (ERxRingBuffer.h:57-110).
ImplementsFifo == Fifo!Spec
=============================================================================
