------------------------------ MODULE MCTwoWire ------------------------------
(* Messages and answers that are empty, fill the buffer, and do not fit.     *)
EXTENDS TwoWire

MCMessages == {<<>>, <<1>>, <<2, 3>>, <<4, 5, 6>>}
MCReplies == {<<>>, <<7>>, <<8, 9>>}
=============================================================================
