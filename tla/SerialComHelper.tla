--------------------------- MODULE SerialComHelper ---------------------------
(***************************************************************************)
(* Two devices that talk through SerialComHelper                           *)
(* (libs/ERxProtocol/SerialComHelper.cpp).  One sends instructions; the    *)
(* other polls GetFirstInstruction, which moves bytes from the serial port *)
(* to its ring buffer and updates its instruction frame from it.           *)
(*                                                                         *)
(* The serial port receives while the loop of GetFirstInstruction runs, so *)
(* each of its iterations is a step; Update, which only works on a copy of *)
(* the buffer, is one.  The wire and the port's own buffer are external.   *)
(***************************************************************************)
EXTENDS InstructionFrame, SequencesExt

CONSTANTS
  Byte,        \* the bytes that occur
  Capacity,    \* RING_BUFFER_SIZE
  Word,        \* the number of values of an ERUINT32
  SerialSize,  \* the bytes the serial port holds
  Strings,     \* the texts sent
  Values,      \* the bytes of the other parameters sent
  TEXT, VALUE, \* the commands of a text and of another parameter
  NoiseBytes,  \* what disturbances leave on the line
  MaxSent,     \* a bound on the instructions sent
  MaxNoise,    \* a bound on the bytes of noise that are no headers
  MaxSpoilt,   \* a bound on the headers among the noise and the bytes dropped
  MaxBoth      \* a bound on the other bytes of noise where there are such

ASSUME WordAssumption == Word \in Nat \ {0} /\ Word % Capacity = 0

\* A frame with the longest parameter has room (ERxMacros.h:33-36).
ASSUME RoomAssumption == Capacity \in Nat /\ Capacity > MAX_PARAMETER_LENGTH + 10

ASSUME ByteAssumption ==
  /\ Byte \subseteq Nat /\ NUL \in Byte /\ 0 .. MAX_PARAMETER_LENGTH \subseteq Byte
  /\ {HEADER, EMPTY_CRC, FOOTER_0, FOOTER_1, DEVICE_BROADCAST, TEXT, VALUE} \subseteq Byte
  /\ NoiseBytes \subseteq Byte
  /\ \A s \in Strings \cup Values : s \in Seq(Byte)

VARIABLES
  line,      \* the bytes on the wire
  serial,    \* the bytes the serial port holds
  buffer, head, tail, out, behind,  \* m_RingBuffer
  returned,  \* what the last call returned: a frame or NoFrame
  sent,      \* the instructions sent
  received,  \* the frames returned
  noise,     \* the number of bytes of noise that are no headers
  spoilt     \* the number of headers among the noise and of bytes dropped

ring == <<buffer, head, tail, out, behind>>

link == <<line, serial, sent, noise, spoilt>>

vars == <<link, ring, returned, received>>

Ring == INSTANCE RingBuffer WITH Data <- Byte, Blank <- NUL

Init ==
  /\ line = <<>>
  /\ serial = <<>>
  /\ Ring!Init
  /\ returned = NoFrame
  /\ sent = <<>>
  /\ received = <<>>
  /\ noise = 0
  /\ spoilt = 0

-----------------------------------------------------------------------------
(* The sender and the line *)

SendInstruction(cmd, value, parameter) ==
  LET f == Frame(DEVICE_BROADCAST, DEVICE_BROADCAST, cmd, parameter)
  IN  /\ Len(sent) < MaxSent
      /\ line' = line \o FrameBytes(f)
      /\ sent' = Append(sent, [frame |-> f, value |-> value])
      /\ UNCHANGED <<serial, noise, spoilt, ring, returned, received>>

SendString == \E s \in Strings : SendInstruction(TEXT, s, StringBytes(s))

SendValue == \E v \in Values : SendInstruction(VALUE, v, v)

\* The bounds allow n other bytes of noise and k headers and dropped bytes.
Bounded(n, k) ==
  /\ n <= MaxNoise
  /\ k <= MaxSpoilt
  /\ k > 0 => n <= MaxBoth

Noise ==
  /\ \E b \in NoiseBytes :
       /\ line' = Append(line, b)
       /\ \/ /\ b # HEADER
             /\ noise' = noise + 1
             /\ spoilt' = spoilt
          \/ /\ b = HEADER
             /\ noise' = noise
             /\ spoilt' = spoilt + 1
  /\ Bounded(noise', spoilt')
  /\ UNCHANGED <<serial, sent, ring, returned, received>>

\* The serial port stores a byte, or drops it when it is full.
Arrive ==
  /\ line # <<>>
  /\ line' = Tail(line)
  /\ \/ /\ Len(serial) < SerialSize
        /\ serial' = Append(serial, Head(line))
        /\ spoilt' = spoilt
     \/ /\ Len(serial) = SerialSize
        /\ Bounded(noise, spoilt + 1)
        /\ serial' = serial
        /\ spoilt' = spoilt + 1
  /\ UNCHANGED <<sent, noise, ring, returned, received>>

-----------------------------------------------------------------------------
(* GetFirstInstruction *)

\* The unread bytes: what Pop returns of the copy that Update makes.
Unread == Ring!Items

\* One iteration of the loop that reads the serial port.
ReadSerial ==
  /\ serial # <<>>
  /\ ~ Ring!Full
  /\ Ring!AppendData(Head(serial))
  /\ serial' = Tail(serial)
  /\ UNCHANGED <<line, sent, noise, spoilt, returned, received>>

\* The index of the byte behind the first n unread ones, as GetTailIndex of
\* the copy returns it after n calls of Pop.
TailIndex(n) == (tail + n) % Capacity

\* A mutant, for the checks only: the header's index without wrapping.
NewTailIndexSaturated(found) ==
  IF TailIndex(found.after) < found.back
    THEN 0 ELSE TailIndex(found.after) - found.back

\* The subtraction of unsigned integers.
NewTailIndex(found) == (TailIndex(found.after) + Word - found.back) % Word

\* A mutant, for the checks only: an update as soon as there is a byte.
EnoughAny == Ring!Size >= 1

Enough == Ring!Size >= PARA_HEADER_INDEX

\* The loop is over: the call parses what it has.
Parse ==
  /\ serial = <<>> \/ Ring!Full
  /\ IF Enough
       THEN LET found == Search(Unread)
            IN  /\ Ring!ResetTailIndex(NewTailIndex(found))
                /\ returned' = found.frame
                /\ received' = IF found.frame = NoFrame THEN received
                               ELSE Append(received, found.frame)
       ELSE returned' = NoFrame /\ UNCHANGED <<ring, received>>
  /\ UNCHANGED link

GetFirstInstruction == ReadSerial \/ Parse

Next == SendString \/ SendValue \/ Noise \/ Arrive \/ GetFirstInstruction

\* The line has a byte for which the port has room, or which it will drop.
Arriving == line # <<>> /\ (Len(serial) < SerialSize \/ Bounded(noise, spoilt + 1))

\* Another call would change nothing.
Idle ==
  /\ serial = <<>>
  /\ returned = NoFrame
  /\ Enough => LET found == Search(Unread)
               IN  found.frame = NoFrame /\ NewTailIndex(found) = tail

\* The line delivers, and loop() polls for ever: weak fairness of Arrive and of
\* GetFirstInstruction, with what enables them written out.
Fairness ==
  /\ []<>(~ Arriving) \/ []<><<Arrive>>_vars
  /\ []<>Idle \/ []<><<GetFirstInstruction>>_vars

Spec == Init /\ [][Next]_vars /\ Fairness

-----------------------------------------------------------------------------

\* A frame is returned only when its bytes arrived one behind the other, and no
\* byte belongs to two frames: what Update took ends with the bytes of the
\* frame and the rest of the buffer stays as it was (ERxProtocol.cpp:328-342).
ReturnsWhatArrived ==
  [][ Parse =>
        LET used == Len(Unread) - Len(Unread')
        IN  /\ Unread' = SubSeq(Unread, used + 1, Len(Unread))
            /\ returned' # NoFrame =>
                 LET f == FrameBytes(returned')
                 IN  SubSeq(Unread, used - Len(f) + 1, used) = f ]_vars

\* The parser never waits for bytes that have no room: an update of a full
\* buffer takes some of it, so the loop can read on (ERxProtocol.cpp:281-307,
\* ERxMacros.h:34-36).
NeverStuck == Ring!Full => NewTailIndex(Search(Unread)) # tail

Frames(log) == [i \in 1 .. Len(log) |-> log[i].frame]

\* Every byte is out of the line and the port, and no call returns a frame.
Drained ==
  /\ line = <<>>
  /\ serial = <<>>
  /\ Enough => Search(Unread).frame = NoFrame

\* Unless the port drops a byte or a stray header comes, every instruction sent
\* is returned, once and in order, wherever the polls cut the stream and whatever
\* wraps in the ring buffer, and although a few bytes of noise come between two
\* frames: less than it takes to make an update see half a header
\* (SerialComHelper.cpp:26-37, ERxProtocol.cpp:253-345).  A text is read as it was
\* sent, cut to what a parameter holds (ERxProtocol.cpp:43-70).
AllReturned ==
  spoilt = 0 =>
    /\ \A i \in 1 .. Len(received) :
         sent[i].frame.command = TEXT =>
           ReadString(received[i].parameter) = Cut(sent[i].value)
    /\ Len(received) <= Len(sent)
    /\ received = SubSeq(Frames(sent), 1, Len(received))
    /\ Drained => Len(received) = Len(sent)


\* An instruction that is sent is returned at last, unless the port drops a byte
\* or a stray header comes (SerialComHelper.cpp:21-38).
EventuallyReturned ==
  \A n \in 1 .. MaxSent :
    Len(sent) >= n ~> spoilt > 0 \/ Len(received) >= n
=============================================================================
