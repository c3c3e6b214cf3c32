--------------------------- MODULE HostProperties ----------------------------
(* What the host, its context, the router and the system service guarantee *)
(* together.                                                               *)
EXTENDS Host, Node

AnyFrame ==
  [fn : {"Run"}, i : 1 .. N + 1, pc : {"begin", "executing"}]
  \union
  [fn : {"Execute"}, i : 1 .. N + 1, pc : {"begin", "call", "end", "finish", "return"},
   cmd : [id : 0 .. UIntSize - 1, data : Seq(Token)]]
  \union
  [fn : {"HandleResult"}, i : 1 .. N + 1, pc : {"begin", "call", "end"}]
  \union
  [fn : {"Router"}, i : Routers, pc : {"call"}, previous : Routers \union {0}]
  \union
  [fn : {"System"}, i : 1 .. N, pc : {"call"}]

\* A call that is busy with service i does have that service.
Frame == {f \in AnyFrame : f.pc \in {"executing", "call", "end"} => f.i <= N}

\* The context and the call stack are well typed; the parameter and the result
\* fit their buffers.
TypeOK ==
  /\ stack \in Seq(Frame)
  /\ cmdId \in 0 .. UIntSize - 1
  /\ para \in [data : Seq(Token), rd : Nat]
  /\ para.rd <= Len(para.data) /\ Len(para.data) <= ParaCapacity
  /\ paraSize \in Nat
  /\ executed \in BOOLEAN
  /\ result \in Seq(Token) /\ Len(result) <= ResultCapacity
  /\ override \in Routers \union {0}
  /\ routing \in [Routers -> BOOLEAN]
  /\ DOMAIN streams = Routers
  /\ serial \in Seq((1 .. N) \X Seq(Token))

RouterFrames == {j \in 1 .. Depth : stack[j].fn = "Router"}

\* The router whose call is the innermost among the frames below k.
InnermostBelow(i, k) ==
  \/ i = 0 /\ \A j \in RouterFrames : j >= k
  \/ \E j \in RouterFrames :
       /\ j < k /\ stack[j].i = i
       /\ \A h \in RouterFrames : h < k => h <= j

\* The context's pointer to the overriding stream is never left pointing to a
\* stream whose call has returned: it points to the stream of the innermost
\* active router call, and each such call remembers the one around it
\* (ERxMessageRouterService.cpp:71-72, 97; ERxServiceContext.cpp:107-121).
OverrideLive ==
  /\ InnermostBelow(override, Depth + 1)
  /\ \A j \in RouterFrames : InnermostBelow(stack[j].previous, j)

\* bIsRouting is set exactly while a call of that router is active, and no
\* router is ever inside itself (lines 17-18, 23, 123): a router that kept the
\* flag would ignore every later message, one that lost it would recurse.
RoutingMatchesCalls ==
  /\ \A i \in Routers : routing[i] <=> \E j \in RouterFrames : stack[j].i = i
  /\ \A j, k \in RouterFrames : stack[j].i = stack[k].i => j = k

\* Every service is offered the command it was populated with: number and
\* parameter, unread, although services before it parsed the shared parameter
\* stream; and the size cached for the reset never reaches beyond what is
\* there, which would bring back bytes of an earlier command
\* (ERxServiceContext.cpp:50-77).
ParametersIntact ==
  /\ Running("Execute", "call") =>
       /\ cmdId = Top.cmd.id
       /\ para = [data |-> Top.cmd.data, rd |-> 0]
  /\ paraSize <= Len(para.data)

-----------------------------------------------------------------------------

\* The command of the outermost call is done: executed and dispatched, or
\* nothing to dispatch.
Done ==
  /\ Depth = 2
  /\ \/ Running("Execute", "return")
     \/ Offered /\ ~(executed /\ ResultSize > 0)

\* When a command is done, the node has sent and printed exactly what Node
\* computes from the command alone: the reply goes to the node that asked, with
\* this node's address and the number of the command, frame by frame; a foreign
\* command is sent on as it came; a generator prints the results of its own
\* command and no others; and nothing is left over from commands before, however
\* the calls nested and whoever parsed the shared parameter stream
\* (ERxMessageRouterService.cpp:33-113, ERxHost.cpp:85-91,
\* ERxSystemService.cpp:34-58).
\*
\* The header of the router (ERxMessageRouterService.h:4) says less than the code does
\* when a host has several: each router takes one prefix off, so a command under as
\* many prefixes as there are routers is executed and answered, and only the next
\* prefix is discarded.  What is left of the header's sentence is NestedDiscarded.
AnswersExactly ==
  Done => Answer(Services, MyAddress, Top.cmd) = [packets |-> radio, prints |-> serial]

\* More prefixes are addressed to this node than it has routers.
Nested(cmd) ==
  LET n == Cardinality(Routers)
  IN  /\ \A k \in 0 .. n - 1 : Below(cmd)[k].id = MR_SEND_TO /\ Dest(Below(cmd)[k]) = MyAddress
      /\ Below(cmd)[n].id = MR_SEND_TO

\* One router prefix is taken off for each router of the host and no more: a command
\* under one prefix too many is neither executed nor relayed nor answered.  With one
\* router, which is what every program of the repository has, this is the sentence of
\* ERxMessageRouterService.h:4 that only one level is supported
\* (ERxMessageRouterService.cpp:17-18).
NestedDiscarded == Done /\ Nested(Top.cmd) => radio = <<>> /\ serial = <<>>

-----------------------------------------------------------------------------
(* The state machine of the readme.                                        *)

Resuming == Depth = 1 /\ stack[1].pc = "executing"

\* While the host executes a command, its call is the second of the stack, and
\* a result is dispatched by the third.
Phase ==
  IF Depth = 0 THEN "idle"
  ELSE IF Depth = 1 THEN "population"
  ELSE CASE stack[2].pc = "return" -> "dispatch"
         [] stack[2].pc = "finish" -> "handled"
         [] OTHER -> "execution"

Cursor == IF Depth = 0 THEN 0 ELSE IF Resuming THEN stack[1].i + 1 ELSE stack[1].i

Turn ==
  IF Depth <= 1 THEN 0
  ELSE IF stack[2].pc # "return" THEN stack[2].i
  ELSE IF Depth = 2 THEN N + 1
  ELSE stack[3].i

Machine == INSTANCE Dispatcher WITH phase <- Phase, cursor <- Cursor, turn <- Turn

\* The host is the three-state machine of readme.md ("Framework"): a command
\* pauses the population, at most one service handles it, every service gets
\* the result once, and the population goes on with the next service, also
\* when the router or the system service calls the host back in between.  No
\* call lasts for ever.
ImplementsDispatcher == Machine!Spec

\* A generator whose command is executed here gets the result: once the host
\* starts on a command that an executor answers with text, the generator of
\* that command prints that text (ERxHost.cpp:76-91).
ResultDispatched ==
  \A g \in {i \in 1 .. N : Services[i].kind = "generator"} :
    LET cmd == [id |-> Services[g].id, data |-> <<>>]
        text == Truncated(Truncated(Output(Services, cmd), ResultCapacity), ParaCapacity)
    IN  text # <<>> =>
          (Depth = 2 /\ Top.fn = "Execute" /\ Top.cmd.id = cmd.id)
            ~> (\E k \in DOMAIN serial : serial[k] = <<g, text>>)
=============================================================================
