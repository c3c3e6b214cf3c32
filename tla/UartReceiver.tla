----------------------------- MODULE UartReceiver -----------------------------
(***************************************************************************)
(* ERxUARTCmdReceiverService::Populate                                     *)
(* (libs/ERxUARTCmdReceiverService/ERxUARTCmdReceiverService.cpp) and its  *)
(* ERxTextMessage, while characters arrive one by one on the raw stream,   *)
(* also in the middle of Populate: the receive interrupt fills the raw     *)
(* stream at any time.                                                     *)
(*                                                                         *)
(* Populate is two phases: it polls for a frame and parses its number; it  *)
(* then copies the rest character by character and polls before each one.  *)
(* "input" is everything the sender ever sends, of which "arrived"         *)
(* characters have reached the raw stream.  "handled" lists what was done: *)
(* the commands left in the context, and the frames written back.          *)
(***************************************************************************)
EXTENDS TextMessage

CONSTANT Inputs   \* what the sender may send

ASSUME InputsAssumption == \A s \in Inputs : s \in Seq(Token \union {DOT, SP, NUL, DATA, ECHO})

VARIABLES
  text,       \* m_TextMessage
  copying,    \* in the copying phase
  number,     \* cmdId
  para,       \* the parameter stream
  cr,         \* bPreviousCharIsCR
  input, arrived, handled

receiver == <<text, copying, number, para, cr>>
vars == <<receiver, input, arrived, handled>>

Init ==
  /\ text = NewTextMessage
  /\ copying = FALSE
  /\ number = SYS_INVALID_COMMAND
  /\ para = NoPara
  /\ cr = FALSE
  /\ input \in Inputs
  /\ arrived = 0
  /\ handled = <<>>

\* A character reaches the raw stream.
Arrive ==
  /\ arrived < Len(input)
  /\ arrived' = arrived + 1
  /\ text' = [text EXCEPT !.wire = Append(@, input[arrived + 1])]
  /\ UNCHANGED <<copying, number, para, cr, input, handled>>

NewCommand(n, p) == [number |-> n, para |-> p]
NewEcho(frame) == [echo |-> frame]

\* What a poll wrote back, handled before what comes after it.
EchoesOf(t) ==
  IF Len(t.echo) > Len(text.echo) THEN <<NewEcho(t.echo[Len(t.echo)])>> ELSE <<>>

\* No frame: Populate returns.
PollNothing ==
  LET t == Polled(text) IN
  /\ ~copying
  /\ ~Ready(t)
  /\ text' = t
  /\ handled' = handled \o EchoesOf(t)
  /\ UNCHANGED <<copying, number, para, cr, input, arrived>>

\* A frame: its number is parsed; a frame without one is dropped.
PollFrame ==
  LET t == Polled(text)
      frame == [data |-> t.msg, rd |-> 0]
      id == UInt(ParseValue(frame))
  IN
  /\ ~copying
  /\ Ready(t)
  /\ IF id = SYS_INVALID_COMMAND
       THEN text' = Invalidated(t) /\ UNCHANGED <<copying, number, para, cr>>
       ELSE /\ text' = [t EXCEPT !.msg = Unread(Parsed(frame))]
            /\ copying' = TRUE
            /\ number' = id
            /\ para' = NoPara
            /\ cr' = FALSE
  /\ UNCHANGED <<input, arrived, handled>>

\* The command is complete; what is left of the frame is discarded.
Populated(t, p) ==
  /\ text' = Invalidated(t)
  /\ copying' = FALSE
  /\ handled' = handled \o EchoesOf(t) \o <<NewCommand(number, p.data)>>

\* One turn of the copying loop.
Copy ==
  LET t == Polled(text)
      c == Head(t.msg)
      p == Store(para, <<c>>)
  IN
  /\ copying
  /\ IF ~Ready(t)
       THEN /\ Populated(t, para)
            /\ UNCHANGED <<para, cr>>
       ELSE /\ para' = p
            /\ cr' = (cr \/ c = CR)
            /\ IF c = LF /\ cr
                 THEN Populated([t EXCEPT !.msg = Tail(@)], p)
                 ELSE /\ text' = [t EXCEPT !.msg = Tail(@)]
                      /\ handled' = handled \o EchoesOf(t)
                      /\ UNCHANGED copying
  /\ UNCHANGED <<number, input, arrived>>

Populate == PollNothing \/ PollFrame \/ Copy

Next == Arrive \/ Populate

\* There is nothing for Populate to do.
Idle == ~copying /\ Polled(text) = text /\ ~Ready(text)

\* loop() runs the host for ever, and so polls the receiver for ever; nothing
\* is assumed of the sender.  This is weak fairness of Populate, with Idle for
\* "no step of Populate changes anything".
Fairness == []<>Idle \/ []<><<Populate>>_vars

Spec == Init /\ [][Next]_vars /\ Fairness
=============================================================================
