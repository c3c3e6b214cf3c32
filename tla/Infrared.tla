------------------------------- MODULE Infrared -------------------------------
(***************************************************************************)
(* A remote control and a receiver: ERxIRControllerService on one board    *)
(* sends a code for each command it executes, the interrupt handler of     *)
(* IRremote on another board records the light every 50 us, and the main   *)
(* loop there, in ERxIRCmdReceiverService, decodes a finished recording    *)
(* and resumes the receiver.                                               *)
(*                                                                         *)
(* The light is a sequence of runs <<level, ticks>>; a step of Light lets  *)
(* one run pass, that is, as many interrupts.  resume() is two stores, and *)
(* an interrupt may come between them.                                     *)
(***************************************************************************)
EXTENDS InfraredCode, FiniteSetsExt

CONSTANTS
  Commands,     \* what the remote is told to send: codes
  Distortions,  \* <<e, r>>: marks e us longer, spaces as much shorter, and widths rounded up or not
  Silences,     \* how many ticks it may be dark at a time
  TimerSize,    \* the tick counter is an unsigned int
  MaxSignals

GAP_TICKS == 100
RAWBUF == 76

ASSUME InfraredAssumption ==
  /\ Silences \subseteq Nat \ {0} /\ MaxSignals \in Nat
  /\ TimerSize \in Nat /\ TimerSize > GAP_TICKS

VARIABLES
  receiver,   \* irparams: [state, timer, raw], raw with its rawlen
  resuming,   \* the main loop is between the two stores of resume()
  toggle,     \* m_toggle of the remote
  light,      \* the runs of the signal that still have to pass
  told,       \* the commands the remote executed: [code, reception]
  heard,      \* the codes the receiver populated
  torn        \* an interrupt came between the two stores and was lost

vars == <<receiver, resuming, toggle, light, told, heard, torn>>

Init ==
  /\ receiver = [state |-> "idle", timer |-> 0, raw |-> <<>>]
  /\ resuming = FALSE /\ torn = FALSE
  /\ toggle = 0
  /\ light = <<>>
  /\ told = <<>> /\ heard = <<>>

-----------------------------------------------------------------------------
(* The remote.                                                             *)

\* SendIR flips m_toggle for RC5 and RC6, and puts it into bit codeLen - 1.  An
\* int has 16 bits: 1 << 19 is 0, and an RC6 code goes out as it is.
FlippedNever(code) == toggle
Flipped(code) == IF code.type \in {"RC5", "RC6"} THEN 1 - toggle ELSE toggle
Coded(code) ==
  IF code.type = "RC5" THEN [code EXCEPT !.bits[1] = Flipped(code)] ELSE code

Ticks(pulse, d) ==
  <<pulse[1],
    (pulse[2] + IF pulse[1] = "mark" THEN d[1] ELSE -d[1]) \div USECPERTICK + d[2]>>

\* How a signal finds the receiver: "clear" when it will be recorded from its
\* beginning, "crowding" when the last signal is not yet over for a gap, and
\* "missed" otherwise.
Reception ==
  CASE receiver.state = "idle" /\ (receiver.timer + 1) % TimerSize >= GAP_TICKS -> "clear"
    [] receiver.state \in {"mark", "space"} -> "crowding"
    [] OTHER -> "missed"

Execute(code, d) ==
  LET pulses == Sent(Coded(code))
  IN  /\ light = <<>> /\ Len(told) < MaxSignals
      /\ toggle' = Flipped(code)
      /\ light' = [i \in 1..Len(pulses) |-> Ticks(pulses[i], d)]
      /\ told' = Append(told, [code |-> code, reception |-> Reception])
      /\ UNCHANGED <<receiver, resuming, heard, torn>>

-----------------------------------------------------------------------------
(* The receiver.                                                           *)

Full(r) == Len(r.raw) >= RAWBUF

\* The interrupt handler, every 50 us.
Interrupt(r, level) ==
  LET timer == (r.timer + 1) % TimerSize
      state == IF Full(r) THEN "stop" ELSE r.state
      Now(s, t) == [state |-> s, timer |-> t, raw |-> r.raw]
      Recorded(raw, s) == [state |-> s, timer |-> 0, raw |-> Append(raw, timer)]
  IN  CASE state = "idle" /\ level = "mark" ->
             IF timer < GAP_TICKS THEN Now("idle", 0) ELSE Recorded(<<>>, "mark")
        [] state = "mark" /\ level = "space" -> Recorded(r.raw, "space")
        [] state = "space" /\ level = "mark" -> Recorded(r.raw, "mark")
        [] state = "space" /\ level = "space" /\ timer > GAP_TICKS -> Now("stop", timer)
        [] state = "stop" /\ level = "mark" -> Now("stop", 0)
        [] OTHER -> Now(state, timer)

\* n more interrupts at the level the last one saw: the handler only counts, but
\* for the end of a signal and a full buffer, which stop it.
More(r, level, n) ==
  LET stops == \/ Full(r)
               \/ r.state = "space" /\ level = "space" /\ r.timer + n > GAP_TICKS
  IN  CASE n = 0 -> r
        [] level = "mark" /\ (stops \/ r.state \in {"idle", "stop"}) ->
             [r EXCEPT !.timer = 0, !.state = IF stops THEN "stop" ELSE @]
        [] OTHER ->
             [r EXCEPT !.timer = (@ + n) % TimerSize, !.state = IF stops THEN "stop" ELSE @]

Interrupts(r, level, n) ==
  IF n = 0 THEN r ELSE More(Interrupt(r, level), level, n - 1)

\* The second store of resume().
RewoundNot(r) == r
Rewound(r) == [r EXCEPT !.raw = <<>>]

\* One run of light or dark.  The main loop needs less than a tick from one
\* store to the other.
Pass(level, n) ==
  LET first == Interrupt(receiver, level) IN
    /\ receiver' = IF resuming THEN Interrupts(Rewound(first), level, n - 1)
                               ELSE Interrupts(receiver, level, n)
    /\ torn' = (torn \/ (resuming /\ first.state = "mark"))
    /\ resuming' = FALSE

Light ==
  /\ light # <<>>
  /\ Pass(Head(light)[1], Head(light)[2])
  /\ light' = Tail(light)
  /\ UNCHANGED <<toggle, told, heard>>

Dark(n) ==
  /\ light = <<>>
  /\ Pass("space", n)
  /\ UNCHANGED <<toggle, light, told, heard>>

\* A code becomes a command, except the repeat code of NEC.
Valid(code) == code.type \notin {"none", "UNKNOWN"} /\ code # Code("NEC", REPEAT)

\* Populate of the receiver service, up to the first store of resume().
Populate ==
  LET code == Decode(receiver.raw) IN
    /\ receiver.state = "stop" /\ ~resuming
    /\ heard' = IF Valid(code) THEN Append(heard, code) ELSE heard
    /\ receiver' = [receiver EXCEPT !.state = "idle"]
    /\ resuming' = TRUE
    /\ UNCHANGED <<toggle, light, told, torn>>

Resume ==
  /\ resuming
  /\ receiver' = Rewound(receiver)
  /\ resuming' = FALSE
  /\ UNCHANGED <<toggle, light, told, heard, torn>>

Next ==
  \/ \E code \in Commands, d \in Distortions : Execute(code, d)
  \/ Light
  \/ \E n \in Silences : Dark(n)
  \/ Populate
  \/ Resume

\* The light passes, time goes on in the dark, and the main loop goes round.  The
\* disjunctions say that these actions are weakly fair: what stands on the left
\* is when the action is not enabled.
Fairness ==
  /\ []<>(light = <<>>) \/ []<><<Light>>_vars
  /\ []<>(light # <<>>) \/ []<><<\E n \in Silences : Dark(n)>>_vars
  /\ []<>(receiver.state # "stop" /\ ~resuming) \/ []<><<Populate \/ Resume>>_vars

Spec == Init /\ [][Next]_vars /\ Fairness

-----------------------------------------------------------------------------
(* Properties.                                                             *)

\* What the remote was told, as the keys of a remote control are numbered: the
\* toggle bit of RC5 tells a new press from a key that is held down.
PressedBefore(k) ==
  Cardinality({j \in 1..k : told[j].code.type \in {"RC5", "RC6"}})
Pressed(k) ==
  IF told[k].code.type = "RC5" THEN [told[k].code EXCEPT !.bits[1] = PressedBefore(k) % 2]
                               ELSE told[k].code

IsHeardAs(ks) == heard = [i \in 1..Len(ks) |-> Pressed(ks[i])]

Crowded(k) == k + 1 \in DOMAIN told /\ told[k + 1].reception = "crowding"

\* Nothing is heard but what was sent, bit for bit and in that order, whatever
\* the receiver misses, whenever the main loop comes round, and also when an
\* interrupt in resume() costs a recording its first width.  Only signals that
\* crowd can make a code that nobody sent.
HeardWasSent ==
  \/ \E k \in DOMAIN told : Crowded(k)
  \/ \E ks \in SUBSET DOMAIN told : IsHeardAs(SetToSortSeq(ks, <))

\* The receiver is at rest: all recordings are handled.
AtRest == receiver.state = "idle" /\ ~resuming /\ light = <<>>

\* What began in a silence that was measured as a gap, and ended in one, is
\* heard, but for the NEC code that looks like a repeat.
ClearIsHeard ==
  AtRest /\ ~torn => \A k \in DOMAIN told :
     told[k].reception = "clear" /\ ~Crowded(k) /\ told[k].code # Code("NEC", REPEAT)
       => Pressed(k) \in Range(heard)

\* The receiver does not stay deaf: whatever it recorded, also when the buffer
\* was full or an interrupt came into resume(), it listens again.
ListensAgain == receiver.state # "idle" ~> AtRest
=============================================================================
