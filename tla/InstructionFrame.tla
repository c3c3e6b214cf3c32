-------------------------- MODULE InstructionFrame ---------------------------
(***************************************************************************)
(* ERxParameterStream and ERxInstructionFrame                              *)
(* (libs/ERxProtocol/ERxProtocol.cpp): the bytes of a parameter, the frame *)
(* around them, and the search for a frame in the bytes received.          *)
(*                                                                         *)
(* A frame is two header bytes, source, target, instruction, the length of *)
(* the parameter, the parameter, two unused CRC bytes, CR and LF.          *)
(***************************************************************************)
EXTENDS Integers, Sequences, FiniteSetsExt

CONSTANTS
  HEADER,                \* HEADER_0 and HEADER_1, the same byte
  EMPTY_CRC,
  FOOTER_0,
  FOOTER_1,
  DEVICE_BROADCAST,
  MAX_PARAMETER_LENGTH

ASSUME ParameterAssumption == MAX_PARAMETER_LENGTH \in Nat \ {0}

NUL == 0

PARA_HEADER_INDEX == 6

-----------------------------------------------------------------------------
(* ERxParameterStream: only its bytes, since a frame is read from the start. *)

\* What fits into the buffer of a parameter stream.
Cut(bytes) ==
  SubSeq(bytes, 1, Min({Len(bytes), MAX_PARAMETER_LENGTH}))

\* Write(ERINT8* pStr) on an empty stream: the string and its end.
StringBytes(str) == Cut(Append(str, NUL))

\* Read(ERINT8** ppStr): up to the end of the string, or of the stream.
ReadString(bytes) ==
  LET ends == {i \in 1 .. Len(bytes) : bytes[i] = NUL}
  IN  SubSeq(bytes, 1, IF ends = {} THEN Len(bytes) ELSE Min(ends) - 1)

-----------------------------------------------------------------------------
(* ERxInstructionFrame *)

NoFrame == [valid |-> FALSE]

\* What SetInstruction makes valid and the accessors return.
Frame(source, target, command, parameter) ==
  [source |-> source, target |-> target, command |-> command,
   parameter |-> Cut(parameter)]

\* The frame buffer as SetInstruction fills it and GetFrameDataBuffer gives it.
FrameBytes(f) ==
  <<HEADER, HEADER, f.source, f.target, f.command, Len(f.parameter)>>
    \o f.parameter \o <<EMPTY_CRC, EMPTY_CRC, FOOTER_0, FOOTER_1>>

\* What Update finds: the frame, if any, and the position the tail is reset
\* to, "back" bytes before the first "after" of the bytes.
Found(after, back, frame) == [after |-> after, back |-> back, frame |-> frame]

\* The number of bytes up to the end of each header behind the first "from".
Headers(bytes, from) ==
  {i \in from + 2 .. Len(bytes) : bytes[i - 1] = HEADER /\ bytes[i] = HEADER}

\* Fewer bytes behind the header than a frame without a parameter has.
PrologueMissing(left) == left < 8

\* A mutant, for the checks only: it takes a parameter one byte too long.
TooLongLate(length) == length > MAX_PARAMETER_LENGTH + 1

TooLong(length) == length > MAX_PARAMETER_LENGTH

\* A mutant, for the checks only: neither the CRC nor the footer is checked.
TrailerUnchecked(bytes, at) == TRUE

\* The CRC and the footer stand behind the first "at" bytes.
Trailer(bytes, at) ==
  SubSeq(bytes, at + 1, at + 4) = <<EMPTY_CRC, EMPTY_CRC, FOOTER_0, FOOTER_1>>

\* What Update finds in the bytes of the buffer.  A position is a number of
\* bytes popped from the copy of the buffer.  Two cases go on with the search:
\* an impossible length, behind that length, and a wrong end of the frame,
\* behind the header.
Search(bytes) ==
  LET Parsed[from \in 0 .. Len(bytes)] ==
        LET after == Min(Headers(bytes, from))
            left == Len(bytes) - after
            length == bytes[after + 4]
            end == after + 4 + length
            receiving == Found(after, 2, NoFrame)
        IN  IF Headers(bytes, from) = {} THEN Found(Len(bytes), 0, NoFrame)
            ELSE IF PrologueMissing(left) THEN receiving
            ELSE IF TooLong(length) THEN Parsed[after + 4]
            ELSE IF left - 4 < length + 4 THEN receiving
            ELSE IF ~ Trailer(bytes, end) THEN Parsed[after]
            ELSE Found(end + 4, 0,
                       Frame(bytes[after + 1], bytes[after + 2],
                             bytes[after + 3], SubSeq(bytes, after + 5, end)))
  IN  Parsed[0]
=============================================================================
