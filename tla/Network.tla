------------------------------- MODULE Network -------------------------------
(***************************************************************************)
(* A network of boards as the readme has it ("Arduino network"): every     *)
(* board runs a host with a command receiver, a system service, a message  *)
(* router and services of its own, and all packets go through one          *)
(* coordinator, whose router relays.  A terminal, which is no board, takes *)
(* part by radio.                                                          *)
(*                                                                         *)
(* A board handles one packet in one step: its answer is Node!Answer,      *)
(* which is what a run of Host gives (HostProperties!AnswersExactly).  The *)
(* radio may lose a packet, repeat it, and deliver packets in any order.   *)
(* MaxFaults bounds how often it loses or repeats one, MaxAsks how many    *)
(* commands boards and terminal ask for.                                   *)
(***************************************************************************)
EXTENDS Node, BagsExt

CONSTANTS
  ServicesOf,   \* the services of each board, by its address
  Hears,        \* the pairs <<a, b>> of addresses such that b hears a
  Asks,         \* the commands that may be asked for: [from, to, id]
  MaxAsks, MaxFaults

Boards == DOMAIN ServicesOf

\* An application is prepared for the results of what it asks for, and a
\* terminal is heard by a board.
ASSUME NetworkAssumption ==
  /\ \A a \in Asks : a.from \in Boards \/ \E b \in Boards : <<a.from, b>> \in Hears
  /\ \A a \in Asks : a.from # a.to /\ 0 \notin {a.from, a.to, a.id}
  /\ {MaxAsks, MaxFaults} \subseteq Nat

VARIABLES
  air,        \* the packets on their way: a bag of <<receiver, packet>>
  asked,      \* how often each command was asked for: a bag of Asks
  executed,   \* how often a board executed it for its asker
  printed,    \* the results that reached their asker: a bag of <<asker, id, text>>
  sent,       \* how many packets were sent
  lost, repeats

vars == <<air, asked, executed, printed, sent, lost, repeats>>

Init ==
  /\ air = EmptyBag
  /\ asked = EmptyBag /\ executed = EmptyBag /\ printed = EmptyBag
  /\ sent = 0 /\ lost = 0 /\ repeats = 0

Hearers(n) == {b \in Boards \union {a.from : a \in Asks} : <<n, b>> \in Hears}

\* A packet goes to everyone who hears the sender.
Broadcast(n, packets) ==
  FoldLeft(LAMBDA bag, p : bag (+) SetToBag(Hearers(n) \X {p}), EmptyBag, packets)

\* What Populate of the command receiver makes of a packet.
Command(packet) ==
  [id |-> UInt(Number(packet, 1)),
   data |-> Truncated(FirstFrame(Behind(packet, 1)), ParaCapacity)]

\* The command a board executes with this answer, as asked for.
ExecutedBy(n, cmd) ==
  {a \in Asks :
     /\ a.to = n /\ a = [from |-> Source(cmd), to |-> Dest(cmd), id |-> WrappedId(cmd)]
     /\ cmd.id = MR_SEND_TO
     /\ \E s \in Range(ServicesOf[n]) : Executes(s, Wrapped(cmd))}

PrintsBag(n, prints) ==
  FoldLeft(LAMBDA bag, p : bag (+) SetToBag({<<n, ServicesOf[n][p[1]].id, p[2]>>}),
           EmptyBag, prints)

\* One run of a board's host for the command.
Run(n, cmd, rest) ==
  LET answer == Answer(ServicesOf[n], n, cmd) IN
    /\ air' = rest (+) Broadcast(n, answer.packets)
    /\ sent' = sent + Len(answer.packets)
    /\ executed' = executed (+) SetToBag(ExecutedBy(n, cmd))
    /\ printed' = printed (+) PrintsBag(n, answer.prints)

Request(a) == <<MR_SEND_TO, a.to, a.from, a.id, CR, LF>>

MayAsk(a) == a \in Asks /\ BagCardinality(asked) < MaxAsks

\* An application service populates a command for another board.
Populate(a) ==
  /\ MayAsk(a) /\ a.from \in Boards
  /\ Run(a.from, Command(Request(a)), air)
  /\ asked' = asked (+) SetToBag({a})
  /\ UNCHANGED <<lost, repeats>>

\* A terminal sends one.
TerminalSend(a) ==
  /\ MayAsk(a) /\ a.from \notin Boards
  /\ air' = air (+) Broadcast(a.from, <<Request(a)>>)
  /\ asked' = asked (+) SetToBag({a})
  /\ sent' = sent + 1
  /\ UNCHANGED <<executed, printed, lost, repeats>>

Without(m) == air (-) SetToBag({m})

Receive(m) ==
  /\ BagIn(m, air) /\ m[1] \in Boards
  /\ Run(m[1], Command(m[2]), Without(m))
  /\ UNCHANGED <<asked, lost, repeats>>

\* A terminal reads what is addressed to it.
TerminalReceive(m) ==
  LET cmd == Command(m[2])
      inner == Wrapped(cmd)
  IN  /\ BagIn(m, air) /\ m[1] \notin Boards
      /\ air' = Without(m)
      /\ printed' = printed (+)
           IF cmd.id = MR_SEND_TO /\ Dest(cmd) = m[1] /\ HasResult(inner)
             THEN SetToBag({<<m[1], ResultId(inner), Result(inner)>>})
             ELSE EmptyBag
      /\ UNCHANGED <<asked, executed, sent, lost, repeats>>

Lose(m) ==
  /\ BagIn(m, air) /\ lost + repeats < MaxFaults
  /\ air' = Without(m)
  /\ lost' = lost + 1
  /\ UNCHANGED <<asked, executed, printed, sent, repeats>>

Repeat(m) ==
  /\ BagIn(m, air) /\ lost + repeats < MaxFaults
  /\ air' = air (+) SetToBag({m})
  /\ repeats' = repeats + 1
  /\ UNCHANGED <<asked, executed, printed, sent, lost>>

Deliver == \E m \in BagToSet(air) : Receive(m) \/ TerminalReceive(m)

Next ==
  \/ \E a \in Asks : Populate(a) \/ TerminalSend(a)
  \/ Deliver
  \/ \E m \in BagToSet(air) : Lose(m) \/ Repeat(m)

\* Radio and hosts go on; nobody has to ask, and no packet has to be lost.
Fairness == WF_vars(Deliver)

Spec == Init /\ [][Next]_vars /\ Fairness

-----------------------------------------------------------------------------
(* Properties.                                                             *)

\* How often a command was asked for, was executed, and had a result printed.
ResultText(a) ==
  Output(ServicesOf[a.to], [id |-> a.id, data |-> <<>>])
Returned(a) == CopiesIn(<<a.from, a.id, ResultText(a)>>, printed)

\* Each request is executed at most once, but for what the radio repeats: the
\* relay sends a command on once, nobody takes a command or a result that is
\* for another board, and no answer is taken for a command
\* (ERxMessageRouterService.cpp:35, 100; ERxSystemService.cpp:60).
ExecutedOnce ==
  \A a \in Asks : CopiesIn(a, executed) <= CopiesIn(a, asked) + repeats

\* A result is printed only where the command came from, under its number and
\* with the text its executor wrote, and once for each execution
\* (ERxMessageRouterService.cpp:74-92).
ReturnsToAsker ==
  /\ \A p \in BagToSet(printed) :
       \E a \in {a \in Asks : a.to \in Boards} : p = <<a.from, a.id, ResultText(a)>>
  /\ \A a \in {a \in Asks : a.to \in Boards} :
       Returned(a) <= BagCardinality([b \in {b \in BagToSet(executed) :
                        b.from = a.from /\ b.id = a.id} |-> executed[b]]) + repeats

\* The traffic that a command causes is bounded, also when its destination does
\* not exist: with one relay it is sent twice at most, and its result too.  Two
\* relays would send a message for node 7 to each other for ever
\* (ERxMessageRouterService.cpp:100-110).
TrafficBounded == sent <= 4 * (BagCardinality(asked) + repeats)

\* While nothing is lost, every command asked for comes to a result at its asker
\* (src/readme.md, "At last, the user service on A2 receives the execution
\* result"), however many results are under way at once.
Answered ==
  \A a \in {a \in Asks : a.to \in Boards} :
    (CopiesIn(a, asked) > 0) ~> (lost > 0 \/ Returned(a) > 0)
=============================================================================
