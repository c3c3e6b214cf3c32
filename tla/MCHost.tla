------------------------------- MODULE MCHost --------------------------------
(* A host with every kind of service and the messages that tell its paths    *)
(* apart: local, unknown and routed commands, results, messages for another  *)
(* node, nested prefixes, missing or zero numbers, numbers beyond 16 bits    *)
(* and text longer than the buffers.                                         *)
EXTENDS HostProperties

\* Two routers, of which one relays: each may call the host back inside the
\* other.
MCServices ==
  << UartService, SystemService, RouterService(TRUE),
     ExecutorService(64, <<TXT, CR, LF, 25, TXT, TXT, CR, LF>>),
     GeneratorService(64, <<TXT>>), ExecutorService(65, <<>>),
     RouterService(FALSE) >>

Ended(tokens) == tokens \o <<CR, LF>>

MCMessages ==
  { Ended(m) : m \in
    { <<64, TXT>>, <<65>>, <<66, TXT>>, <<SYS_HELP>>, <<TXT>>, <<65536>>,
      <<64, TXT, TXT, TXT, TXT, TXT, TXT, TXT, TXT, TXT>>,
      <<64, CR, TXT, LF, TXT>>,
      <<SYS_RESULT, 64, 25>>, <<SYS_RESULT, 0, 25>>, <<SYS_RESULT>>,
      <<SYS_RESULT, SYS_RESULT, SYS_RESULT, SYS_RESULT, 64>>,
      <<MR_SEND_TO, 2, 3, 64, TXT>>, <<MR_SEND_TO, 2, 3, 65600>>,
      <<MR_SEND_TO, 2, 3, SYS_HELP>>, <<MR_SEND_TO, 2, 3, 66>>,
      <<MR_SEND_TO, 2, 3, SYS_RESULT, 64, 25>>,
      <<MR_SEND_TO, 2, 3, MR_SEND_TO, 2, 3, 64>>,
      <<MR_SEND_TO, 2, 3, MR_SEND_TO, 4, 3, 64>>,
      <<MR_SEND_TO, 2, 3, MR_SEND_TO, 2, 4, MR_SEND_TO, 2, 64>>,
      <<MR_SEND_TO, 2, 3, MR_SEND_TO, 2, 4, SYS_RESULT, 64>>,
      <<MR_SEND_TO, 4, 3, 64, TXT>>, <<MR_SEND_TO, 2, 3>>, <<MR_SEND_TO>> } }
=============================================================================
