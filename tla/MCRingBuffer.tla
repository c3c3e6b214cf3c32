---------------------------- MODULE MCRingBuffer -----------------------------
(* A ring of four slots holds three elements, enough for the window of     *)
(* unread and read elements to wrap round in every way.                    *)
EXTENDS RingBuffer

CONSTANTS a, b, blank

MCData == {a, b}
=============================================================================
