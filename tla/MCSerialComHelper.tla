------------------------- MODULE MCSerialComHelper ---------------------------
(* The bytes keep the order they have in the program: NUL, LF, CR, "0", "A", *)
(* "Z" and one that is too large for the length of a parameter.  The header, *)
(* the CRC and the footers are lengths a parameter can have, as in the       *)
(* program.  A frame of the largest parameter fills the ring buffer.         *)
EXTENDS SerialComHelper

MCByte == 0 .. 6

MCStrings == {<<4, 4, 4>>, <<4, 4, 4, 4, 6, 6>>}

MCValues == {<<>>, <<6>>, <<5, 5, 2, 1>>}
=============================================================================
