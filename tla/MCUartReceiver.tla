---------------------------- MODULE MCUartReceiver -----------------------------
(* Frames in every combination: short, unknown, written back, too long for    *)
(* the cache, with a carriage return too many, with a NUL, data transfers.    *)
EXTENDS UartProperties

Frames ==
  { <<64, CR, LF>>, <<65, TXT, CR, CR, LF>>, <<TXT, CR, LF>>, <<ECHO, SP, 66, CR, LF>>,
    <<67, TXT, TXT, TXT, TXT, TXT, TXT, CR, LF>>,
    <<TXT, TXT, TXT, TXT, TXT, TXT, TXT, TXT, 68, CR, LF>> }

\* Data transfers, whose body holds lines that look like commands.
DataFrames ==
  { <<64, CR, LF>>, <<DATA, CR, LF>>, <<DATA, SP, CR, LF, CR, LF, DOT, CR, LF>>,
    <<66, CR, LF, DOT, CR, LF>>, <<DOT, CR, LF>> }

\* Data transfers that are cut or overflow the cache, and two frames behind them.
Body(n) == [k \in 1 .. n |-> IF k = 3 THEN 68 ELSE TXT]

Interrupted ==
  { <<DATA, CR, LF>> \o Body(n) \o b \o <<CR, LF, DOT, CR, LF, 64, CR, LF, 65, CR, LF>> :
      n \in 1 .. 8, b \in {<<>>, <<CR, LF, 69>>} }

Joined(S, n) == {FlattenSeq(f) : f \in [1 .. n -> S]}

\* Frames that are lost, some of them with an end that is overlooked or hidden, and
\* two frames behind them.
Lost ==
  { Body(9) \o <<CR, CR, LF>>, Body(9) \o <<CR, LF>>, Body(9) \o <<CR, CR, LF, 69, CR, LF>>,
    <<NUL>> \o Body(6) \o <<CR, LF>>, <<NUL>> \o Body(6) \o <<CR, CR, LF>>,
    <<NUL, 69, CR, LF, TXT, CR, LF, TXT, CR, LF>>, <<TXT, CR, LF, NUL>> \o Body(7) \o <<CR, LF>> }

Behind ==
  { l \o f \o g : l \in Lost,
      f \in {<<64, CR, LF>>, <<TXT, CR, LF>>, <<65, CR, TXT, CR, LF>>},
      g \in {<<64, CR, LF>>, <<66, TXT, CR, CR, LF>>} }

MCInputs ==
  Joined(Frames, 3) \union Joined(Frames \union {<<NUL, 69, CR, LF>>}, 2)
    \union Joined(DataFrames, 3) \union Interrupted \union Behind

=============================================================================
