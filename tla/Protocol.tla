------------------------------ MODULE Protocol -------------------------------
(***************************************************************************)
(* The command protocol the services share: command numbers                *)
(* (libs/ERxService/ERxCommandId.h), the parameter stream ERxIOStream      *)
(* (libs/ERxIOStream/ERxIOStream.cpp) as a value, and the kinds of service *)
(* a host is built from.                                                   *)
(*                                                                         *)
(* Text is a sequence of tokens as in RedirectStream; the spaces between   *)
(* two tokens are left out.                                                *)
(***************************************************************************)
EXTENDS RedirectStream

CONSTANTS
  TXT,             \* a word that holds no digit
  UIntSize,        \* 2^n for an unsigned int of n bits, 16 on the usual boards
  ParaCapacity,    \* COMMAND_PARAMETER_BUFFER_SIZE, in tokens
  ResultCapacity   \* RESULT_BUFFER_SIZE, in tokens

ASSUME ProtocolAssumption ==
  /\ UIntSize \in Nat \ {0}
  /\ ParaCapacity \in Nat \ {0} /\ ResultCapacity \in Nat \ {0}
  /\ CR \notin Nat /\ LF \notin Nat /\ TXT \notin Nat

Token == Nat \union {CR, LF, TXT}

SYS_INVALID_COMMAND == 0
SYS_HELP == 1
SYS_RESULT == 2
MR_SEND_TO == 80

\* A command number is an unsigned int, what parseULong returns is longer.
UInt(n) == n % UIntSize

-----------------------------------------------------------------------------
(* The parameter stream: what was written and the position read up to.     *)

NoPara == [data |-> <<>>, rd |-> 0]

Truncated(text, n) == IF Len(text) <= n THEN text ELSE SubSeq(text, 1, n)

Available(p) == Len(p.data) - p.rd

Unread(p) == SubSeq(p.data, p.rd + 1, Len(p.data))

\* A mutant, for the checks only: the capacity is not respected.
StoreAll(p, text) == [p EXCEPT !.data = @ \o text]

Store(p, text) == [p EXCEPT !.data = Truncated(@ \o text, ParaCapacity)]

\* A mutant, for the checks only: the position stays.
ResetSizeOnly(p, n) == [p EXCEPT !.data = SubSeq(@, 1, n)]

\* resetIterator(0, n): read again from the beginning, n tokens.
Reset(p, n) == [data |-> SubSeq(p.data, 1, n), rd |-> 0]

\* parseULong skips to the next number; without one it reads everything and
\* returns 0.
NumbersAhead(p) == {k \in p.rd + 1 .. Len(p.data) : p.data[k] \in Nat}

ParsePos(p) ==
  IF NumbersAhead(p) = {}
    THEN Len(p.data)
    ELSE CHOOSE k \in NumbersAhead(p) : \A j \in NumbersAhead(p) : k <= j

ParseValue(p) == IF NumbersAhead(p) = {} THEN 0 ELSE p.data[ParsePos(p)]

Parsed(p) == [p EXCEPT !.rd = ParsePos(p)]

-----------------------------------------------------------------------------
(* The services.                                                           *)

UartService == [kind |-> "uart"]
SystemService == [kind |-> "system"]
RouterService(relay) == [kind |-> "router", relay |-> relay]
GeneratorService(id, data) == [kind |-> "generator", id |-> id, data |-> data]
ExecutorService(id, result) == [kind |-> "executor", id |-> id, result |-> result]

\* One line of help for each service.
HelpText(services) ==
  [k \in 1 .. 3 * Len(services) |->
     CASE k % 3 = 1 -> TXT [] k % 3 = 2 -> CR [] OTHER -> LF]

\* The text that addresses a result to the node a routed command came from.
\* A mutant, for the checks only: the two addresses are swapped.
ReplyPrefixSwapped(source, me, id) == <<MR_SEND_TO, me, source, SYS_RESULT, id>>

\* A mutant, for the checks only: the number of the command is left out.
ReplyPrefixUnnumbered(source, me, id) == <<MR_SEND_TO, source, me, SYS_RESULT>>

ReplyPrefix(source, me, id) == <<MR_SEND_TO, source, me, SYS_RESULT, id>>

\* What the command receiver keeps of a message: everything up to and including the
\* first LF that has a CR anywhere before it.
FrameEnds(text) ==
  {k \in DOMAIN text : text[k] = LF /\ \E j \in 1 .. k - 1 : text[j] = CR}

FirstFrame(text) ==
  IF FrameEnds(text) = {}
    THEN text
    ELSE SubSeq(text, 1,
           CHOOSE k \in FrameEnds(text) : \A j \in FrameEnds(text) : k <= j)
=============================================================================
