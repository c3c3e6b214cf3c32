-------------------------------- MODULE Host ---------------------------------
(***************************************************************************)
(* ERxHost with its ERxServiceContext and the services of the framework:   *)
(* the UART command receiver, the system service, the message router, and  *)
(* a command generator and a command executor.                             *)
(*                                                                         *)
(* The host calls its services, and the router and the system service call *)
(* the host back while they handle a command, so calls nest.  "stack" is   *)
(* the call stack, one frame for each active ERxHost::Run, ERxHost::       *)
(* Execute, ERxHost::HandleResult, ERxMessageRouterService::Execute and    *)
(* ERxSystemService::Execute; the last frame is the running one.  All of   *)
(* them share one context.  The ERxRedirectOutputStream of a routed        *)
(* command is a local object of the router's call; m_pStreamOverride       *)
(* points to it while the call lasts.                                      *)
(***************************************************************************)
EXTENDS Protocol, Integers, FiniteSets

CONSTANTS
  Services,    \* m_services, in the order they were added
  MyAddress,   \* m_myAddress
  Messages     \* what the UART may deliver: token sequences ended by CR LF

N == Len(Services)

SERVICE_CAPACITY == 8

ASSUME HostAssumption ==
  /\ Services \in Seq([kind : {"uart", "system"}]
       \union [kind : {"router"}, relay : BOOLEAN]
       \union [kind : {"generator"}, id : 0 .. UIntSize - 1, data : Seq(Token)]
       \union [kind : {"executor"}, id : 0 .. UIntSize - 1, result : Seq(Token)])
  /\ N \in 1 .. SERVICE_CAPACITY
  /\ MyAddress \in 0 .. 255
  /\ Messages \subseteq Seq(Token)

VARIABLES
  stack,      \* the call stack
  cmdId,      \* m_command.m_cmdId
  para,       \* m_command.m_paraStream
  paraSize,   \* m_parameterSize
  executed,   \* m_contextStatus.isCommandExecuted
  result,     \* what m_outputStream holds
  override,   \* m_pStreamOverride: the router whose stream it is, 0 for none
  routing,    \* bIsRouting of each router
  streams,    \* the local stream of each router's call
  radio,      \* the packets sent while the current command is handled
  serial      \* the results generators printed meanwhile, with their index

context == <<cmdId, para, paraSize, executed, result>>
routers == <<override, routing, streams>>
outputs == <<radio, serial>>
vars == <<stack, context, routers, outputs>>

Routers == {i \in 1 .. N : Services[i].kind = "router"}

-----------------------------------------------------------------------------
(* The call stack.                                                         *)

Depth == Len(stack)
Top == stack[Depth]

\* A call of the host goes on with service i at pc.
Call(fn, i, pc) == [fn |-> fn, i |-> i, pc |-> pc]

\* "cmd" is a history field: the command this call is to execute.
ExecuteCall(id, data) ==
  [fn |-> "Execute", i |-> 1, pc |-> "begin", cmd |-> [id |-> id, data |-> data]]

\* "previous" is pPreviousStream.
RouterCall(i) ==
  [fn |-> "Router", i |-> i, pc |-> "call", previous |-> override]

Running(fn, pc) == stack # <<>> /\ Top.fn = fn /\ Top.pc = pc

\* The stack when the running call goes on at pc, or with the next service, or
\* returns.
GoTo(pc) == [stack EXCEPT ![Depth].pc = pc]
Advance == [stack EXCEPT ![Depth].pc = "begin", ![Depth].i = @ + 1]
Return == SubSeq(stack, 1, Depth - 1)

-----------------------------------------------------------------------------
(* The context.                                                            *)

InvalidateCommand ==
  /\ cmdId' = SYS_INVALID_COMMAND
  /\ para' = NoPara
  /\ paraSize' = 0

\* InvalidateCommand, SetCommandId and a write to the parameter stream.
NewCommand(id, text) ==
  /\ cmdId' = UInt(id)
  /\ para' = Store(NoPara, text)
  /\ paraSize' = 0

\* GetResultStream() is the overriding stream, which may send packets, or else
\* the context's own.
OnOverride(s) ==
  /\ streams' = [streams EXCEPT ![override] = [s EXCEPT !.sent = <<>>]]
  /\ radio' = radio \o s.sent
  /\ UNCHANGED result

WriteResult(text) ==
  IF override = 0
    THEN /\ result' = Truncated(result \o text, ResultCapacity)
         /\ UNCHANGED <<streams, radio>>
    ELSE OnOverride(WrittenAll(streams[override], text))

FlushResult ==
  IF override = 0
    THEN result' = <<>> /\ UNCHANGED <<streams, radio>>
    ELSE OnOverride(Flushed(streams[override]))

\* size() of a redirecting stream is always 0.
ResultSize == IF override = 0 THEN Len(result) ELSE 0

Init ==
  /\ stack = <<>>
  /\ cmdId = SYS_INVALID_COMMAND
  /\ para = NoPara
  /\ paraSize = 0
  /\ executed = FALSE
  /\ result = <<>>
  /\ override = 0
  /\ routing = [i \in Routers |-> FALSE]
  /\ streams = [i \in Routers |-> NewStream(<<>>)]
  /\ radio = <<>>
  /\ serial = <<>>

-----------------------------------------------------------------------------
(* ERxHost::Run.                                                           *)

RunBegin ==
  /\ stack = <<>>
  /\ stack' = <<Call("Run", 1, "begin")>>
  /\ InvalidateCommand
  /\ UNCHANGED <<executed, result, routers, outputs>>

\* A service leaves a command in the context: the host executes it at once.
Command(id, text) ==
  /\ NewCommand(id, text)
  /\ stack' = Append(GoTo("executing"), ExecuteCall(cmdId', para'.data))
  /\ radio' = <<>>
  /\ serial' = <<>>

NoCommand ==
  /\ stack' = Advance
  /\ UNCHANGED <<cmdId, para, paraSize, outputs>>

\* A message whose number is 0 after the conversion to unsigned int is dropped.
UartPopulate(message) ==
  LET p == [data |-> message, rd |-> 0]
      id == ParseValue(p)
  IN  IF UInt(id) = SYS_INVALID_COMMAND
        THEN NoCommand
        ELSE Command(id, FirstFrame(Unread(Parsed(p))))

GeneratorPopulate(s) ==
  IF s.id = SYS_INVALID_COMMAND THEN NoCommand ELSE Command(s.id, s.data)

Populate ==
  /\ Running("Run", "begin")
  /\ Top.i <= N
  /\ LET s == Services[Top.i] IN
       \/ s.kind = "uart" /\ \E m \in Messages : UartPopulate(m)
       \/ s.kind = "generator" /\ GeneratorPopulate(s)
       \/ s.kind # "generator" /\ NoCommand
  /\ UNCHANGED <<executed, result, routers>>

\* A mutant, for the checks only: the same service is asked again.
RunResumeAgain ==
  /\ Running("Run", "executing")
  /\ stack' = GoTo("begin")
  /\ InvalidateCommand
  /\ UNCHANGED <<executed, result, routers, outputs>>

RunResume ==
  /\ Running("Run", "executing")
  /\ stack' = Advance
  /\ InvalidateCommand
  /\ UNCHANGED <<executed, result, routers, outputs>>

RunEnd ==
  /\ Running("Run", "begin")
  /\ Top.i > N
  /\ stack' = Return
  /\ UNCHANGED <<context, routers, outputs>>

-----------------------------------------------------------------------------
(* ERxHost::Execute and ERxHost::HandleResult: each service in turn is     *)
(* called between BeginCommandExecution and EndCommandExecution.           *)

BeginService ==
  /\ Running("Execute", "begin") \/ Running("HandleResult", "begin")
  /\ Top.i <= N
  /\ stack' = GoTo("call")
  /\ executed' = FALSE
  /\ paraSize' = Available(para)
  /\ FlushResult
  /\ UNCHANGED <<cmdId, para, override, routing, serial>>

EndService ==
  /\ Running("Execute", "end") \/ Running("HandleResult", "end")
  /\ para' = Reset(para, paraSize)
  /\ stack' = IF Top.fn = "Execute" /\ executed THEN GoTo("finish") ELSE Advance
  /\ UNCHANGED <<cmdId, paraSize, executed, result, routers, outputs>>

\* Every service was offered the command, or one of them executed it.
Offered == Running("Execute", "finish") \/ (Running("Execute", "begin") /\ Top.i > N)

\* A mutant, for the checks only: the command is invalidated last.
ExecuteDispatchInvalid ==
  /\ Offered
  /\ executed /\ ResultSize > 0
  /\ InvalidateCommand
  /\ stack' = Append(GoTo("return"), Call("HandleResult", 1, "begin"))
  /\ UNCHANGED <<executed, result, routers, outputs>>

\* The result becomes the parameter of the command and is dispatched.
ExecuteDispatch ==
  /\ Offered
  /\ executed /\ ResultSize > 0
  /\ NewCommand(cmdId, result)
  /\ stack' = Append(GoTo("return"), Call("HandleResult", 1, "begin"))
  /\ UNCHANGED <<executed, result, routers, outputs>>

ExecuteReturn ==
  /\ \/ Offered /\ ~(executed /\ ResultSize > 0)
     \/ Running("Execute", "return")
  /\ stack' = Return
  /\ UNCHANGED <<context, routers, outputs>>

HandleResultReturn ==
  /\ Running("HandleResult", "begin") /\ Top.i > N
  /\ stack' = Return
  /\ UNCHANGED <<context, routers, outputs>>

-----------------------------------------------------------------------------
(* Execute of the services.                                                *)

Service == Services[Top.i]

Executing(kind) == Running("Execute", "call") /\ Service.kind = kind

ExecutorExecute ==
  /\ Executing("executor")
  /\ cmdId = Service.id
  /\ WriteResult(Service.result)
  /\ executed' = TRUE
  /\ stack' = GoTo("end")
  /\ UNCHANGED <<cmdId, para, paraSize, override, routing, serial>>

SystemHelp ==
  /\ Executing("system")
  /\ cmdId = SYS_HELP
  /\ WriteResult(HelpText(Services))
  /\ executed' = TRUE
  /\ stack' = GoTo("end")
  /\ UNCHANGED <<cmdId, para, paraSize, override, routing, serial>>

\* A result from another node becomes a command of its own, for HandleResult.
SystemResult ==
  /\ Executing("system")
  /\ cmdId = SYS_RESULT
  /\ LET remote == Parsed(para)
         id == ParseValue(para)
     IN  /\ id # SYS_INVALID_COMMAND /\ Available(remote) > 0
         /\ NewCommand(id, Unread(remote))
  /\ stack' = GoTo("end") \o
       <<Call("System", Top.i, "call"), Call("HandleResult", 1, "begin")>>
  /\ UNCHANGED <<executed, result, routers, outputs>>

\* Without a command number or without data it is not executed.
SystemNoResult ==
  /\ Executing("system")
  /\ cmdId = SYS_RESULT
  /\ ParseValue(para) = SYS_INVALID_COMMAND \/ Available(Parsed(para)) = 0
  /\ para' = Parsed(para)
  /\ stack' = GoTo("end")
  /\ UNCHANGED <<cmdId, paraSize, executed, result, routers, outputs>>

SystemReturn ==
  /\ Running("System", "call")
  /\ executed' = TRUE
  /\ stack' = Return
  /\ UNCHANGED <<cmdId, para, paraSize, result, routers, outputs>>

\* A command is routed unless this router is routing one already.
Routes ==
  /\ Executing("router")
  /\ ~routing[Top.i]
  /\ cmdId = MR_SEND_TO

\* A mutant, for the checks only: the reply is addressed to this node.
ReplyStreamSwapped(source, id) == NewStream(ReplyPrefix(MyAddress, source, id))

\* The prefix is kept by value.  In the code it is the content of a block-local array,
\* and SetPrefix keeps a pointer to it that is used behind the block, when the array's
\* lifetime has ended (lines 74-92, 95; ERxRedirectOutputStream.cpp:72).  The language
\* leaves open what is read then.  Nothing is declared behind the block and the call's
\* frame stays, so the bytes are there unless the compiler gives their place to
\* something else: this module takes them to be.
ReplyStream(source, id) == NewStream(ReplyPrefix(source, MyAddress, id))

\* For this node: the wrapped command is executed, its result redirected.
RouterDeliver ==
  LET dest == Parsed(para)
      source == Parsed(dest)
      remote == Parsed(source)
      id == ParseValue(source)
  IN  /\ Routes /\ ParseValue(para) = MyAddress
      /\ NewCommand(id, Unread(remote))
      /\ routing' = [routing EXCEPT ![Top.i] = TRUE]
      /\ streams' = [streams EXCEPT ![Top.i] = ReplyStream(ParseValue(dest), id)]
      /\ override' = Top.i
      /\ stack' = GoTo("end") \o
                    <<RouterCall(Top.i), ExecuteCall(cmdId', para'.data)>>
      /\ UNCHANGED <<executed, result, outputs>>

\* A mutant, for the checks only: the override stays.
RouterReturnOverriding ==
  /\ Running("Router", "call")
  /\ streams' = [streams EXCEPT ![Top.i] = NewStream(<<>>)]
  /\ routing' = [routing EXCEPT ![Top.i] = FALSE]
  /\ executed' = TRUE
  /\ stack' = Return
  /\ UNCHANGED <<override, cmdId, para, paraSize, result, outputs>>

\* A mutant, for the checks only: bIsRouting stays.
RouterReturnRouting ==
  /\ Running("Router", "call")
  /\ streams' = [streams EXCEPT ![Top.i] = NewStream(<<>>)]
  /\ override' = Top.previous
  /\ executed' = TRUE
  /\ stack' = Return
  /\ UNCHANGED <<routing, cmdId, para, paraSize, result, outputs>>

\* The stream is destroyed, and what it still caches with it.
RouterReturn ==
  /\ Running("Router", "call")
  /\ streams' = [streams EXCEPT ![Top.i] = NewStream(<<>>)]
  /\ override' = Top.previous
  /\ routing' = [routing EXCEPT ![Top.i] = FALSE]
  /\ executed' = TRUE
  /\ stack' = Return
  /\ UNCHANGED <<cmdId, para, paraSize, result, outputs>>

\* For another node: sent on as it came, by a router that relays.
RouterRelay ==
  /\ Routes /\ ParseValue(para) # MyAddress
  /\ Service.relay
  /\ para' = Reset(para, paraSize)
  /\ radio' = radio \o
       WrittenAll(NewStream(<<>>), <<MR_SEND_TO>> \o para'.data).sent
  /\ executed' = TRUE
  /\ stack' = GoTo("end")
  /\ UNCHANGED <<cmdId, paraSize, result, routers, serial>>

RouterDiscard ==
  /\ Routes /\ ParseValue(para) # MyAddress
  /\ ~Service.relay
  /\ para' = Parsed(para)
  /\ executed' = TRUE
  /\ stack' = GoTo("end")
  /\ UNCHANGED <<cmdId, paraSize, result, routers, outputs>>

\* A service that is not interested in the command.
Ignore ==
  /\ \/ Executing("uart") \/ Executing("generator")
     \/ Executing("executor") /\ cmdId # Service.id
     \/ Executing("system") /\ cmdId \notin {SYS_HELP, SYS_RESULT}
     \/ Executing("router") /\ ~Routes
  /\ stack' = GoTo("end")
  /\ UNCHANGED <<context, routers, outputs>>

-----------------------------------------------------------------------------
(* HandleResult of the services: a generator prints a result of its own    *)
(* command.                                                                *)

Interested(s) == s.kind = "generator" /\ cmdId = s.id

HandleResult ==
  /\ Running("HandleResult", "call")
  /\ IF Interested(Service) /\ Available(para) > 0
       THEN /\ serial' = Append(serial, <<Top.i, Unread(para)>>)
            /\ para' = [para EXCEPT !.rd = Len(para.data)]
       ELSE UNCHANGED <<serial, para>>
  /\ stack' = GoTo("end")
  /\ UNCHANGED <<cmdId, paraSize, executed, result, routers, radio>>

-----------------------------------------------------------------------------

Next ==
  \/ RunBegin \/ Populate \/ RunResume \/ RunEnd
  \/ BeginService \/ EndService
  \/ ExecuteDispatch \/ ExecuteReturn \/ HandleResultReturn
  \/ ExecutorExecute \/ SystemHelp
  \/ SystemResult \/ SystemNoResult \/ SystemReturn
  \/ RouterDeliver \/ RouterReturn \/ RouterRelay \/ RouterDiscard
  \/ Ignore
  \/ HandleResult

\* loop() calls Run for ever, and every call in progress goes on.  A step is
\* possible in every state, so that this is what weak fairness amounts to.
Spec == Init /\ [][Next]_vars /\ []<><<Next>>_vars
=============================================================================
