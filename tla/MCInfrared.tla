------------------------------ MODULE MCInfrared ------------------------------
(* A code of each type, an alternating RC5 code, which has the fewest widths, *)
(* one RC5 code of ones, and the NEC code that is the repeat code.            *)
EXTENDS Infrared

Alternating(n) == [i \in 1..n |-> i % 2]
Ones(n) == [i \in 1..n |-> 1]

MCCommands ==
  {Code("NEC", Alternating(32)), Code("NEC", REPEAT), Code("SONY", Alternating(12)),
   Code("RC5", Ones(12)), Code("RC5", Alternating(12)), Code("RC6", Alternating(20))}

MCDistortions == {<<0, 1>>, <<100, 0>>}
=============================================================================
