-------------------------------- MODULE Node ---------------------------------
(***************************************************************************)
(* What a host answers to one command, as a function of the command: the   *)
(* packets its routers send and the results its generators print.  Host is *)
(* the program that computes this answer with one shared context, nested   *)
(* calls and redirecting streams; Network uses the answer of each node.    *)
(***************************************************************************)
EXTENDS Protocol, Integers, FiniteSetsExt

\* The k-th element of a set of numbers.
Rank(S, x) == Cardinality({y \in S : y <= x})
Nth(S, k) == CHOOSE x \in S : Rank(S, x) = k

RoutersOf(services) == {i \in DOMAIN services : services[i].kind = "router"}

\* The router that takes the k-th prefix: a router that is routing is not asked
\* again.
RouterAt(services, k) == Nth(RoutersOf(services), k)

\* The k-th number in a text, 0 if there are fewer, and the text behind it.
Places(data) == {p \in DOMAIN data : data[p] \in Nat}
Number(data, k) == IF k <= Cardinality(Places(data)) THEN data[Nth(Places(data), k)] ELSE 0
Behind(data, k) ==
  IF k <= Cardinality(Places(data)) THEN SubSeq(data, Nth(Places(data), k) + 1, Len(data)) ELSE <<>>

Dest(cmd) == Number(cmd.data, 1)
Source(cmd) == Number(cmd.data, 2)

\* The command a router prefix wraps; its number is not reduced yet.
WrappedId(cmd) == Number(cmd.data, 3)
Wrapped(cmd) == [id |-> UInt(WrappedId(cmd)), data |-> Behind(cmd.data, 3)]

\* The command below k prefixes.
Below(cmd) ==
  LET under[k \in Nat] == IF k = 0 THEN cmd ELSE Wrapped(under[k - 1])
  IN  under

\* How many prefixes are addressed to this node, and taken off.
Taken(services, me, cmd) ==
  Max({k \in 0 .. Cardinality(RoutersOf(services)) :
         \A j \in 0 .. k - 1 :
           Below(cmd)[j].id = MR_SEND_TO /\ Dest(Below(cmd)[j]) = me})

\* A result from another node: the number and the data to dispatch.
ResultId(cmd) == Number(cmd.data, 1)
Result(cmd) == Behind(cmd.data, 1)
HasResult(cmd) ==
  cmd.id = SYS_RESULT /\ ResultId(cmd) # SYS_INVALID_COMMAND /\ Result(cmd) # <<>>

Dispatches(s, cmd) == s.kind = "system" /\ HasResult(cmd)

Executes(s, cmd) ==
  \/ s.kind = "executor" /\ cmd.id = s.id
  \/ s.kind = "system" /\ cmd.id = SYS_HELP

\* What the first service that executes cmd writes.
Output(services, cmd) ==
  LET able == {i \in DOMAIN services : Executes(services[i], cmd)}
  IN  IF able = {} THEN <<>>
      ELSE IF services[Min(able)].kind = "executor"
             THEN services[Min(able)].result
             ELSE HelpText(services)

\* The generators print what is dispatched under their number.
Prints(s, id) == s.kind = "generator" /\ s.id = id

PrintsUpTo(services, id, text) ==
  LET upTo[n \in 0 .. Len(services)] ==
        IF n = 0 THEN <<>>
        ELSE IF Prints(services[n], id) THEN Append(upTo[n - 1], <<n, text>>)
        ELSE upTo[n - 1]
  IN  upTo

PrintsOf(services, id, text) ==
  IF text = <<>> THEN <<>> ELSE PrintsUpTo(services, id, text)[Len(services)]

\* A mutant, for the checks only: bRelayMessage is not looked at.
RelaysAlways(services, k) == TRUE

Relays(services, k) == services[RouterAt(services, k)].relay

Answer(services, me, cmd) ==
  LET d == Taken(services, me, cmd)
      last == Below(cmd)[d]
      foreign == last.id = MR_SEND_TO /\ d < Cardinality(RoutersOf(services))
      stream == IF d = 0 THEN NewStream(<<>>)
                ELSE LET c == Below(cmd)[d - 1]
                     IN  NewStream(ReplyPrefix(Source(c), me, WrappedId(c)))
      local == Truncated(Truncated(Output(services, last), ResultCapacity), ParaCapacity)
  IN  [packets |->
         IF foreign
           THEN IF Relays(services, d + 1)
                  THEN WrittenAll(NewStream(<<>>), <<MR_SEND_TO>> \o last.data).sent
                  ELSE <<>>
           ELSE IF d = 0 THEN <<>> ELSE WrittenAll(stream, Output(services, last)).sent,
       prints |->
         IF \E i \in DOMAIN services : Dispatches(services[i], last)
           THEN PrintsOf(services, UInt(ResultId(last)), Result(last))
           ELSE IF d = 0 THEN PrintsOf(services, last.id, local) ELSE <<>>]
=============================================================================
