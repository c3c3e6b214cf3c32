----------------------------- MODULE HostProofs ------------------------------
(***************************************************************************)
(* The host, its context and its routers, for every list of services and   *)
(* every set of messages.                                                  *)
(***************************************************************************)
EXTENDS HostProperties, FiniteSetTheorems, SequenceTheorems, WellFoundedInduction, TLAPS

-----------------------------------------------------------------------------
(* Numbers and parameter streams.                                          *)

LEMMA NatMin ==
  ASSUME NEW T, T \subseteq Nat, T # {}
  PROVE  \E x \in T : \A y \in T : x <= y
<1> DEFINE R == OpToRel(<, Nat)
<1>1. IsWellFoundedOn(R, Nat)
  BY NatLessThanWellFounded
<1>2. \A x, y \in Nat : y < x => <<y, x>> \in R
  BY DEF OpToRel
<1> HIDE DEF R
<1>3. PICK x \in T : \A y \in T : ~ (<<y, x>> \in R)
  BY <1>1, WFMin
<1>4. ASSUME NEW y \in T PROVE x <= y
  <2>1. x \in Nat /\ y \in Nat
    OBVIOUS
  <2>2. ~(y < x)
    BY <1>2, <1>3, <2>1
  <2>3. QED
    BY <2>1, <2>2
<1>5. QED
  BY <1>3, <1>4

\* A command number fits 16 bits.
LEMMA UIntType ==
  ASSUME NEW n \in Nat
  PROVE  UInt(n) \in 0 .. UIntSize - 1
BY ProtocolAssumption DEF UInt

\* A parameter stream that was not read beyond its end.
ParaOK(p) ==
  /\ p \in [data : Seq(Token), rd : Nat]
  /\ p.rd <= Len(p.data)

LEMMA SubSeqType ==
  ASSUME NEW S, NEW s \in Seq(S), NEW m \in Nat, NEW n \in Nat, m >= 1, n <= Len(s)
  PROVE  /\ SubSeq(s, m, n) \in Seq(S)
         /\ Len(SubSeq(s, m, n)) = IF m <= n THEN n - m + 1 ELSE 0
<1>1. CASE m <= n
  BY <1>1, SubSeqProperties
<1>2. CASE m > n
  <2>1. SubSeq(s, m, n) = <<>>
    BY <1>2
  <2>2. QED
    BY <1>2, <2>1
<1>3. QED
  BY <1>1, <1>2

\* parseULong reads up to a number, or to the end, and returns a number.
LEMMA ParsedType ==
  ASSUME NEW p, ParaOK(p)
  PROVE  /\ ParaOK(Parsed(p))
         /\ Parsed(p).data = p.data
         /\ ParseValue(p) \in Nat
<1>1. /\ NumbersAhead(p) \subseteq p.rd + 1 .. Len(p.data)
      /\ \A k \in NumbersAhead(p) : p.data[k] \in Nat
  BY DEF NumbersAhead
<1>2. Len(p.data) \in Nat /\ p.rd \in Nat
  BY DEF ParaOK
<1>3. CASE NumbersAhead(p) = {}
  <2>1. ParsePos(p) = Len(p.data) /\ ParseValue(p) = 0
    BY <1>3 DEF ParsePos, ParseValue
  <2>2. QED
    BY <1>2, <2>1 DEF ParaOK, Parsed
<1>4. CASE NumbersAhead(p) # {}
  <2>1. NumbersAhead(p) \subseteq Nat
    BY <1>1, <1>2
  <2>2. \E k \in NumbersAhead(p) : \A j \in NumbersAhead(p) : k <= j
    BY <1>4, <2>1, NatMin
  <2>3. ParsePos(p) \in NumbersAhead(p)
    BY <1>4, <2>2 DEF ParsePos
  <2>4. ParseValue(p) \in Nat
    BY <1>1, <1>4, <2>3 DEF ParseValue
  <2>5. ParsePos(p) \in Nat /\ ParsePos(p) <= Len(p.data)
    BY <1>1, <1>2, <2>3
  <2>6. QED
    BY <1>2, <2>4, <2>5 DEF ParaOK, Parsed
<1>5. QED
  BY <1>3, <1>4

LEMMA UnreadType ==
  ASSUME NEW p, ParaOK(p)
  PROVE  /\ Unread(p) \in Seq(Token)
         /\ Available(p) \in Nat /\ Available(p) <= Len(p.data)
<1>1. Len(p.data) \in Nat /\ p.rd \in Nat /\ p.data \in Seq(Token)
  BY DEF ParaOK
<1>2. Unread(p) \in Seq(Token)
  BY <1>1, SubSeqType DEF ParaOK, Unread
<1>3. QED
  BY <1>1, <1>2 DEF ParaOK, Available

LEMMA TruncatedType ==
  ASSUME NEW t \in Seq(Token), NEW n \in Nat
  PROVE  Truncated(t, n) \in Seq(Token) /\ Len(Truncated(t, n)) <= n
<1>1. Len(t) \in Nat
  OBVIOUS
<1>2. CASE Len(t) <= n
  BY <1>2 DEF Truncated
<1>3. CASE Len(t) > n
  <2>1. Truncated(t, n) = SubSeq(t, 1, n)
    BY <1>1, <1>3 DEF Truncated
  <2>2. /\ SubSeq(t, 1, n) \in Seq(Token)
        /\ Len(SubSeq(t, 1, n)) = IF 1 <= n THEN n - 1 + 1 ELSE 0
    BY <1>1, <1>3, SubSeqType
  <2>3. QED
    BY <2>1, <2>2
<1>4. QED
  BY <1>1, <1>2, <1>3

\* What a fresh command's parameter holds.
LEMMA StoreType ==
  ASSUME NEW t \in Seq(Token)
  PROVE  /\ ParaOK(Store(NoPara, t))
         /\ Store(NoPara, t).rd = 0
         /\ Len(Store(NoPara, t).data) <= ParaCapacity
<1>1. <<>> \o t \in Seq(Token)
  OBVIOUS
<1> USE ProtocolAssumption
<1>2. Store(NoPara, t) = [data |-> Truncated(<<>> \o t, ParaCapacity), rd |-> 0]
  BY DEF Store, NoPara
<1>3. /\ Truncated(<<>> \o t, ParaCapacity) \in Seq(Token)
      /\ Len(Truncated(<<>> \o t, ParaCapacity)) <= ParaCapacity
      /\ Len(Truncated(<<>> \o t, ParaCapacity)) \in Nat
  BY <1>1, TruncatedType
<1>4. QED
  BY <1>2, <1>3 DEF ParaOK

LEMMA ResetType ==
  ASSUME NEW p, ParaOK(p), NEW n \in Nat, n <= Len(p.data)
  PROVE  /\ ParaOK(Reset(p, n))
         /\ Len(Reset(p, n).data) = n
<1>1. /\ SubSeq(p.data, 1, n) \in Seq(Token)
      /\ Len(SubSeq(p.data, 1, n)) = n
  BY SubSeqType DEF ParaOK
<1>2. QED
  BY <1>1 DEF Reset, ParaOK

\* The text a message leaves for its command.
LEMMA FirstFrameType ==
  ASSUME NEW t \in Seq(Token)
  PROVE  FirstFrame(t) \in Seq(Token)
<1>1. FrameEnds(t) \subseteq 1 .. Len(t) /\ Len(t) \in Nat
  BY DEF FrameEnds
<1>2. CASE FrameEnds(t) = {}
  BY <1>2 DEF FirstFrame
<1>3. CASE FrameEnds(t) # {}
  <2>1. \E k \in FrameEnds(t) : \A j \in FrameEnds(t) : k <= j
    BY <1>1, <1>3, NatMin
  <2> DEFINE e == CHOOSE k \in FrameEnds(t) : \A j \in FrameEnds(t) : k <= j
  <2>2. e \in FrameEnds(t)
    BY <2>1
  <2>3. FirstFrame(t) = SubSeq(t, 1, e)
    BY <1>3 DEF FirstFrame
  <2> HIDE DEF e
  <2>4. e \in Nat /\ e <= Len(t)
    BY <1>1, <2>2
  <2>5. QED
    BY <2>3, <2>4, SubSeqType
<1>4. QED
  BY <1>2, <1>3

-----------------------------------------------------------------------------
(* The call stack.                                                         *)

ExecutePcs == {"begin", "call", "end", "finish", "return"}
HandlePcs == {"begin", "call", "end"}
Commands == [id : 0 .. UIntSize - 1, data : Seq(Token)]

\* A call moved to another point is still a call.
LEMMA FrameMoves ==
  ASSUME NEW f \in Frame, NEW pc, pc \in {"executing", "call", "end"} => f.i <= N
  PROVE  /\ f.fn = "Run" /\ pc \in {"begin", "executing"} =>
              [f EXCEPT !.pc = pc] \in Frame
         /\ f.fn = "Execute" /\ pc \in ExecutePcs => [f EXCEPT !.pc = pc] \in Frame
         /\ f.fn = "HandleResult" /\ pc \in HandlePcs => [f EXCEPT !.pc = pc] \in Frame
         /\ [f EXCEPT !.pc = pc].fn = f.fn
         /\ [f EXCEPT !.pc = pc].i = f.i
<1>1. CASE f \in [fn : {"Run"}, i : 1 .. N + 1, pc : {"begin", "executing"}]
  <2>1. [f EXCEPT !.pc = pc].fn = f.fn /\ [f EXCEPT !.pc = pc].i = f.i
    BY <1>1
  <2>2. [f EXCEPT !.pc = pc].pc = pc
    BY <1>1
  <2>3. QED
    BY <1>1, <2>1, <2>2 DEF Frame, AnyFrame
<1>2. CASE f \in [fn : {"Execute"}, i : 1 .. N + 1, pc : ExecutePcs, cmd : Commands]
  <2>1. [f EXCEPT !.pc = pc].fn = f.fn /\ [f EXCEPT !.pc = pc].i = f.i
    BY <1>2
  <2>2. [f EXCEPT !.pc = pc].pc = pc
    BY <1>2
  <2>3. QED
    BY <1>2, <2>1, <2>2 DEF Frame, AnyFrame, ExecutePcs, Commands
<1>3. CASE f \in [fn : {"HandleResult"}, i : 1 .. N + 1, pc : HandlePcs]
  <2>1. [f EXCEPT !.pc = pc].fn = f.fn /\ [f EXCEPT !.pc = pc].i = f.i
    BY <1>3
  <2>2. [f EXCEPT !.pc = pc].pc = pc
    BY <1>3
  <2>3. QED
    BY <1>3, <2>1, <2>2 DEF Frame, AnyFrame, HandlePcs
<1>4. CASE f \in [fn : {"Router"}, i : Routers, pc : {"call"}, previous : Routers \union {0}]
  BY <1>4 DEF Frame, AnyFrame
<1>5. CASE f \in [fn : {"System"}, i : 1 .. N, pc : {"call"}]
  BY <1>5 DEF Frame, AnyFrame
<1>6. QED
  BY <1>1, <1>2, <1>3, <1>4, <1>5 DEF Frame, AnyFrame, ExecutePcs, HandlePcs, Commands

\* A call that goes on with the next service is still a call.
LEMMA FrameAdvances ==
  ASSUME NEW f \in Frame, f.fn \in {"Run", "Execute", "HandleResult"}, f.i <= N
  PROVE  /\ [f EXCEPT !.pc = "begin", !.i = @ + 1] \in Frame
         /\ [f EXCEPT !.pc = "begin", !.i = @ + 1].fn = f.fn
<1>0. N \in Nat
  BY HostAssumption
<1>1. CASE f \in [fn : {"Run"}, i : 1 .. N + 1, pc : {"begin", "executing"}]
  <2>1. PICK k \in 1 .. N + 1 : k = f.i + 1
    BY <1>0, <1>1
  <2>2. [f EXCEPT !.pc = "begin", !.i = @ + 1] = [f EXCEPT !.pc = "begin", !.i = k]
    BY <2>1
  <2>3. [f EXCEPT !.pc = "begin", !.i = k] \in [fn : {"Run"}, i : 1 .. N + 1, pc : {"begin", "executing"}]
    BY <1>1
  <2>4. [f EXCEPT !.pc = "begin", !.i = k].fn = f.fn
    BY <1>1
  <2>5. [f EXCEPT !.pc = "begin", !.i = k].pc = "begin"
    BY <1>1
  <2>6. QED
    BY <2>2, <2>3, <2>4, <2>5 DEF Frame, AnyFrame
<1>2. CASE f \in [fn : {"Execute"}, i : 1 .. N + 1, pc : ExecutePcs, cmd : Commands]
  <2>1. PICK k \in 1 .. N + 1 : k = f.i + 1
    BY <1>0, <1>2
  <2>2. [f EXCEPT !.pc = "begin", !.i = @ + 1] = [f EXCEPT !.pc = "begin", !.i = k]
    BY <2>1
  <2>3. [f EXCEPT !.pc = "begin", !.i = k] \in [fn : {"Execute"}, i : 1 .. N + 1, pc : ExecutePcs, cmd : Commands]
    BY <1>2 DEF ExecutePcs
  <2>4. [f EXCEPT !.pc = "begin", !.i = k].fn = f.fn
    BY <1>2
  <2>5. [f EXCEPT !.pc = "begin", !.i = k].pc = "begin"
    BY <1>2
  <2>6. QED
    BY <2>2, <2>3, <2>4, <2>5 DEF Frame, AnyFrame, ExecutePcs, Commands
<1>3. CASE f \in [fn : {"HandleResult"}, i : 1 .. N + 1, pc : HandlePcs]
  <2>1. PICK k \in 1 .. N + 1 : k = f.i + 1
    BY <1>0, <1>3
  <2>2. [f EXCEPT !.pc = "begin", !.i = @ + 1] = [f EXCEPT !.pc = "begin", !.i = k]
    BY <2>1
  <2>3. [f EXCEPT !.pc = "begin", !.i = k] \in [fn : {"HandleResult"}, i : 1 .. N + 1, pc : HandlePcs]
    BY <1>3 DEF HandlePcs
  <2>4. [f EXCEPT !.pc = "begin", !.i = k].fn = f.fn
    BY <1>3
  <2>5. [f EXCEPT !.pc = "begin", !.i = k].pc = "begin"
    BY <1>3
  <2>6. QED
    BY <2>2, <2>3, <2>4, <2>5 DEF Frame, AnyFrame, HandlePcs
<1>4. QED
  BY <1>1, <1>2, <1>3 DEF Frame, AnyFrame, ExecutePcs, HandlePcs, Commands

LEMMA StackTop ==
  ASSUME TypeOK, stack # <<>>
  PROVE  /\ Depth \in Nat /\ Depth >= 1
         /\ Top \in Frame
         /\ stack \in Seq(Frame)
BY DEF TypeOK, Depth, Top

LEMMA GoToStack ==
  ASSUME TypeOK, stack # <<>>, NEW pc, [Top EXCEPT !.pc = pc] \in Frame
  PROVE  /\ GoTo(pc) \in Seq(Frame)
         /\ Len(GoTo(pc)) = Depth
         /\ GoTo(pc)[Depth] = [Top EXCEPT !.pc = pc]
         /\ \A j \in 1 .. Depth - 1 : GoTo(pc)[j] = stack[j]
<1>1. Depth \in Nat /\ Depth >= 1 /\ stack \in Seq(Frame)
  BY StackTop
<1>2. GoTo(pc) = [stack EXCEPT ![Depth] = [Top EXCEPT !.pc = pc]]
  BY DEF GoTo, Top
<1>3. QED
  BY <1>1, <1>2 DEF Depth

LEMMA AdvanceStack ==
  ASSUME TypeOK, stack # <<>>, Top.fn \in {"Run", "Execute", "HandleResult"},
         Top.i <= N
  PROVE  /\ Advance \in Seq(Frame)
         /\ Len(Advance) = Depth
         /\ Advance[Depth].fn = Top.fn
         /\ \A j \in 1 .. Depth - 1 : Advance[j] = stack[j]
<1>1. Depth \in Nat /\ Depth >= 1 /\ stack \in Seq(Frame) /\ Top \in Frame
  BY StackTop
<1> DEFINE f == [Top EXCEPT !.pc = "begin", !.i = @ + 1]
<1>2. Advance = [stack EXCEPT ![Depth] = f]
  BY <1>1 DEF Advance, Top, Depth
<1>3. f \in Frame /\ f.fn = Top.fn
  BY <1>1, FrameAdvances
<1> HIDE DEF f
<1>4. QED
  BY <1>1, <1>2, <1>3 DEF Depth

LEMMA ReturnStack ==
  ASSUME TypeOK, stack # <<>>
  PROVE  /\ Return \in Seq(Frame)
         /\ Len(Return) = Depth - 1
         /\ \A j \in 1 .. Depth - 1 : Return[j] = stack[j]
<1>1. Depth \in Nat /\ Depth >= 1 /\ stack \in Seq(Frame)
  BY StackTop
<1>2. /\ Return \in Seq(Frame)
      /\ Len(Return) = Depth - 1
  <2>1. 1 \in Nat /\ Depth - 1 \in Nat /\ Depth - 1 <= Len(stack)
    BY <1>1 DEF Depth
  <2>2. /\ SubSeq(stack, 1, Depth - 1) \in Seq(Frame)
        /\ Len(SubSeq(stack, 1, Depth - 1)) =
             IF 1 <= Depth - 1 THEN Depth - 1 - 1 + 1 ELSE 0
    BY <1>1, <2>1, SubSeqType
  <2>3. QED
    BY <1>1, <2>2 DEF Return
<1>3. \A j \in 1 .. Depth - 1 : Return[j] = stack[j]
  BY <1>1 DEF Return, Depth
<1>4. QED
  BY <1>2, <1>3

\* Frames pushed on a stack.
LEMMA PushOne ==
  ASSUME NEW s \in Seq(Frame), NEW a \in Frame
  PROVE  /\ Append(s, a) \in Seq(Frame)
         /\ Len(Append(s, a)) = Len(s) + 1
         /\ Append(s, a)[Len(s) + 1] = a
         /\ \A j \in 1 .. Len(s) : Append(s, a)[j] = s[j]
OBVIOUS

LEMMA PushTwo ==
  ASSUME NEW s \in Seq(Frame), NEW a \in Frame, NEW b \in Frame
  PROVE  /\ s \o <<a, b>> \in Seq(Frame)
         /\ Len(s \o <<a, b>>) = Len(s) + 2
         /\ (s \o <<a, b>>)[Len(s) + 1] = a
         /\ (s \o <<a, b>>)[Len(s) + 2] = b
         /\ \A j \in 1 .. Len(s) : (s \o <<a, b>>)[j] = s[j]
<1>1. s \o <<a, b>> = Append(Append(s, a), b)
  OBVIOUS
<1>2. QED
  BY <1>1

LEMMA NewFrames ==
  /\ Call("Run", 1, "begin") \in Frame
  /\ Call("HandleResult", 1, "begin") \in Frame
  /\ \A i \in 1 .. N : Call("System", i, "call") \in Frame
  /\ \A id \in 0 .. UIntSize - 1, data \in Seq(Token) : ExecuteCall(id, data) \in Frame
  /\ override \in Routers \union {0} => \A i \in Routers : RouterCall(i) \in Frame
<1>1. N \in Nat /\ 1 \in 1 .. N + 1
  BY HostAssumption
<1>2. \A i \in 1 .. N : Call("System", i, "call") \in Frame
  BY <1>1 DEF Call, Frame, AnyFrame
<1>3. \A id \in 0 .. UIntSize - 1, data \in Seq(Token) : ExecuteCall(id, data) \in Frame
  BY <1>1 DEF ExecuteCall, Frame, AnyFrame
<1>4. override \in Routers \union {0} => \A i \in Routers : RouterCall(i) \in Frame
  BY <1>1 DEF RouterCall, Frame, AnyFrame, Routers
<1>5. QED
  BY <1>1, <1>2, <1>3, <1>4 DEF Call, Frame, AnyFrame

-----------------------------------------------------------------------------
(* The context.                                                            *)

\* The typing of the context after a step.
ContextOK ==
  /\ cmdId \in 0 .. UIntSize - 1
  /\ ParaOK(para) /\ Len(para.data) <= ParaCapacity
  /\ paraSize \in Nat /\ paraSize <= Len(para.data)
  /\ executed \in BOOLEAN
  /\ result \in Seq(Token) /\ Len(result) <= ResultCapacity

LEMMA InvalidateContext ==
  ASSUME ContextOK, InvalidateCommand, UNCHANGED <<executed, result>>
  PROVE  ContextOK'
<1>1. ParaOK(NoPara) /\ Len(NoPara.data) = 0
  BY DEF ParaOK, NoPara
<1>2. 0 \in 0 .. UIntSize - 1
  BY ProtocolAssumption
<1>3. QED
  BY <1>1, <1>2, ProtocolAssumption DEF ContextOK, InvalidateCommand, SYS_INVALID_COMMAND

LEMMA NewCommandContext ==
  ASSUME ContextOK, NEW id \in Nat, NEW text \in Seq(Token), NewCommand(id, text),
         UNCHANGED <<executed, result>>
  PROVE  /\ ContextOK'
         /\ cmdId' \in 0 .. UIntSize - 1 /\ para'.data \in Seq(Token)
<1>1. cmdId' \in 0 .. UIntSize - 1
  BY UIntType DEF NewCommand
<1>2. para' = Store(NoPara, text) /\ paraSize' = 0
  BY DEF NewCommand
<1>3. ParaOK(para') /\ Len(para'.data) <= ParaCapacity
  BY <1>2, StoreType
<1>4. paraSize' \in Nat /\ paraSize' <= Len(para'.data)
  BY <1>2, <1>3 DEF ParaOK
<1>5. QED
  BY <1>1, <1>3, <1>4 DEF ContextOK, ParaOK

\* A result is cut off at the capacity of its buffer.
LEMMA WriteResultType ==
  ASSUME ContextOK, DOMAIN streams = Routers, NEW text \in Seq(Token), WriteResult(text)
  PROVE  /\ result' \in Seq(Token) /\ Len(result') <= ResultCapacity
         /\ DOMAIN streams' = Routers
<1>1. CASE override = 0
  <2>1. result \o text \in Seq(Token) /\ ResultCapacity \in Nat
    BY ProtocolAssumption DEF ContextOK
  <2>2. result' = Truncated(result \o text, ResultCapacity) /\ streams' = streams
    BY <1>1 DEF WriteResult
  <2>3. QED
    BY <2>1, <2>2, TruncatedType
<1>2. CASE override # 0
  <2>1. OnOverride(WrittenAll(streams[override], text))
    BY <1>2 DEF WriteResult
  <2>2. result' = result /\ DOMAIN streams' = DOMAIN streams
    BY <2>1 DEF OnOverride
  <2>3. QED
    BY <2>2 DEF ContextOK
<1>3. QED
  BY <1>1, <1>2

LEMMA FlushResultType ==
  ASSUME ContextOK, DOMAIN streams = Routers, FlushResult
  PROVE  /\ result' \in Seq(Token) /\ Len(result') <= ResultCapacity
         /\ DOMAIN streams' = Routers
<1>1. CASE override = 0
  BY <1>1, ProtocolAssumption DEF FlushResult
<1>2. CASE override # 0
  <2>1. OnOverride(Flushed(streams[override]))
    BY <1>2 DEF FlushResult
  <2>2. result' = result /\ DOMAIN streams' = DOMAIN streams
    BY <2>1 DEF OnOverride
  <2>3. QED
    BY <2>2 DEF ContextOK
<1>3. QED
  BY <1>1, <1>2

LEMMA HelpTextType == HelpText(Services) \in Seq(Token)
<1>1. 3 * Len(Services) \in Nat
  BY HostAssumption DEF N
<1>2. ASSUME NEW k \in 1 .. 3 * Len(Services)
      PROVE  (CASE k % 3 = 1 -> TXT [] k % 3 = 2 -> CR [] OTHER -> LF) \in Token
  BY DEF Token
<1>3. QED
  BY <1>1, <1>2 DEF HelpText

-----------------------------------------------------------------------------
(* The inductive invariant.  The typing of the context needs the bound on  *)
(* the cached size, because EndService cuts the parameter off there.       *)

CallsOK == OverrideLive /\ RoutingMatchesCalls

IInv == TypeOK /\ paraSize <= Len(para.data) /\ CallsOK

LEMMA InvContext ==
  ASSUME IInv
  PROVE  ContextOK
BY DEF IInv, TypeOK, ContextOK, ParaOK

\* A step that starts and ends no call of a router.
RouterCallsKept ==
  /\ stack' \in Seq(Frame)
  /\ RouterFrames' = RouterFrames
  /\ \A j \in RouterFrames :
       stack'[j].i = stack[j].i /\ stack'[j].previous = stack[j].previous
  /\ UNCHANGED <<override, routing>>

LEMMA KeepsCalls ==
  ASSUME IInv, RouterCallsKept
  PROVE  CallsOK'
<1> USE DEF IInv, RouterCallsKept
<1>1. /\ Depth \in Nat /\ RouterFrames \subseteq 1 .. Depth
      /\ Depth' \in Nat /\ RouterFrames \subseteq 1 .. Depth'
  <2>1. RouterFrames' \subseteq 1 .. Depth'
    BY DEF RouterFrames
  <2>2. QED
    BY <2>1 DEF RouterFrames, TypeOK, Depth
<1>2. InnermostBelow(override, Depth + 1)'
  <2>1. InnermostBelow(override, Depth + 1)
    BY DEF CallsOK, OverrideLive
  <2>2. \A j \in RouterFrames : j < Depth + 1 /\ j < Depth' + 1
    <3> HIDE DEF IInv, RouterCallsKept
    <3> SUFFICES ASSUME NEW j \in RouterFrames
                 PROVE  j < Depth + 1 /\ j < Depth' + 1
      OBVIOUS
    <3>1. j \in 1 .. Depth /\ j \in 1 .. Depth' /\ Depth \in Nat /\ Depth' \in Nat
      BY <1>1
    <3>2. \A d \in Nat : j \in 1 .. d => j < d + 1
      OBVIOUS
    <3>3. QED
      BY <3>1, <3>2
  <2>3. \A j \in RouterFrames' :
          j < Depth' + 1 /\ j < Depth + 1 /\ stack'[j].i = stack[j].i
    BY <2>2
  <2>4. RouterFrames' = RouterFrames /\ override' = override
    OBVIOUS
  <2>5. CASE override = 0 /\ \A j \in RouterFrames : j >= Depth + 1
    <3>1. RouterFrames = {}
      BY <1>1, <2>2, <2>5
    <3>2. QED
      BY <2>4, <2>5, <3>1 DEF InnermostBelow
  <2>6. CASE \E j \in RouterFrames : /\ stack[j].i = override
                                    /\ \A h \in RouterFrames : h <= j
    BY <2>2, <2>3, <2>4, <2>6 DEF InnermostBelow
  <2>7. QED
    BY <2>1, <2>2, <2>5, <2>6 DEF InnermostBelow
<1>3. ASSUME NEW j \in RouterFrames PROVE InnermostBelow(stack[j].previous, j)'
  <2>1. InnermostBelow(stack[j].previous, j)
    BY DEF CallsOK, OverrideLive
  <2>2. QED
    BY <1>1, <2>1 DEF InnermostBelow
<1>4. OverrideLive'
  BY <1>2, <1>3 DEF OverrideLive
<1>5. RoutingMatchesCalls'
  BY DEF CallsOK, RoutingMatchesCalls
<1>6. QED
  BY <1>4, <1>5 DEF CallsOK

LEMMA Preserved ==
  ASSUME IInv, RouterCallsKept, ContextOK', DOMAIN streams' = Routers,
         serial' \in Seq((1 .. N) \X Seq(Token))
  PROVE  IInv'
<1>1. CallsOK'
  BY KeepsCalls
<1>2. TypeOK' /\ (paraSize <= Len(para.data))'
  BY DEF IInv, RouterCallsKept, ContextOK, ParaOK, TypeOK
<1>3. QED
  BY <1>1, <1>2 DEF IInv

LEMMA SameBelow ==
  ASSUME IInv, stack # <<>>, Top.fn # "Router",
         stack' \in Seq(Frame), Len(stack') >= Depth - 1,
         \A j \in 1 .. Depth - 1 : stack'[j] = stack[j],
         \A j \in Depth .. Len(stack') : stack'[j].fn # "Router",
         UNCHANGED <<override, routing>>
  PROVE  RouterCallsKept
<1>1. Depth \in Nat /\ Depth >= 1 /\ Depth = Len(stack) /\ Top = stack[Depth]
  BY StackTop DEF IInv, Depth, Top
<1>2. Depth' = Len(stack') /\ Len(stack') \in Nat
  BY DEF Depth
<1>3. RouterFrames = {j \in 1 .. Depth - 1 : stack[j].fn = "Router"}
  BY <1>1 DEF RouterFrames
<1>4. RouterFrames' = {j \in 1 .. Depth - 1 : stack'[j].fn = "Router"}
  BY <1>1, <1>2 DEF RouterFrames
<1>5. QED
  BY <1>1, <1>3, <1>4 DEF RouterCallsKept

\* The running call may go on at pc.
MayGoTo(pc) ==
  /\ \/ Top.fn = "Run" /\ pc \in {"begin", "executing"}
     \/ Top.fn = "Execute" /\ pc \in ExecutePcs
     \/ Top.fn = "HandleResult" /\ pc \in HandlePcs
  /\ pc \in {"executing", "call", "end"} => Top.i <= N

LEMMA MovedStack ==
  ASSUME IInv, stack # <<>>, NEW pc, MayGoTo(pc)
  PROVE  /\ GoTo(pc) \in Seq(Frame)
         /\ Len(GoTo(pc)) = Depth
         /\ GoTo(pc)[Depth].fn = Top.fn
         /\ Top.fn # "Router"
         /\ \A j \in 1 .. Depth - 1 : GoTo(pc)[j] = stack[j]
<1>1. Top \in Frame
  BY StackTop DEF IInv
<1>2. [Top EXCEPT !.pc = pc] \in Frame /\ [Top EXCEPT !.pc = pc].fn = Top.fn
  BY <1>1, FrameMoves DEF MayGoTo
<1>3. QED
  BY <1>2, GoToStack DEF IInv, MayGoTo

LEMMA Moves ==
  ASSUME IInv, stack # <<>>, NEW pc, MayGoTo(pc), stack' = GoTo(pc),
         UNCHANGED <<override, routing>>
  PROVE  RouterCallsKept
<1>1. Depth \in Nat /\ Depth >= 1
  BY StackTop DEF IInv
<1>2. QED
  BY <1>1, MovedStack, SameBelow

LEMMA Advances ==
  ASSUME IInv, stack # <<>>, Top.fn \in {"Run", "Execute", "HandleResult"},
         Top.i <= N, stack' = Advance, UNCHANGED <<override, routing>>
  PROVE  RouterCallsKept
<1>1. Depth \in Nat /\ Depth >= 1
  BY StackTop DEF IInv
<1>2. QED
  BY <1>1, AdvanceStack, SameBelow DEF IInv

LEMMA Returns ==
  ASSUME IInv, stack # <<>>, Top.fn # "Router", stack' = Return,
         UNCHANGED <<override, routing>>
  PROVE  RouterCallsKept
<1>1. Depth \in Nat /\ Depth >= 1
  BY StackTop DEF IInv
<1>2. QED
  BY <1>1, ReturnStack, SameBelow DEF IInv

LEMMA Calls ==
  ASSUME IInv, stack # <<>>, NEW pc, MayGoTo(pc), NEW f \in Frame, f.fn # "Router",
         stack' = Append(GoTo(pc), f), UNCHANGED <<override, routing>>
  PROVE  RouterCallsKept
<1>1. Depth \in Nat /\ Depth >= 1
  BY StackTop DEF IInv
<1>2. /\ GoTo(pc) \in Seq(Frame) /\ Len(GoTo(pc)) = Depth
      /\ GoTo(pc)[Depth].fn = Top.fn /\ Top.fn # "Router"
      /\ \A j \in 1 .. Depth - 1 : GoTo(pc)[j] = stack[j]
  BY MovedStack
<1>3. /\ stack' \in Seq(Frame) /\ Len(stack') = Depth + 1
      /\ stack'[Depth + 1] = f
      /\ \A j \in 1 .. Depth : stack'[j] = GoTo(pc)[j]
  BY <1>2, PushOne
<1>4. \A j \in Depth .. Len(stack') : stack'[j].fn # "Router"
  BY <1>1, <1>2, <1>3
<1>5. QED
  BY <1>1, <1>2, <1>3, <1>4, SameBelow

LEMMA CallsTwo ==
  ASSUME IInv, stack # <<>>, NEW pc, MayGoTo(pc),
         NEW f \in Frame, f.fn # "Router", NEW g \in Frame, g.fn # "Router",
         stack' = GoTo(pc) \o <<f, g>>, UNCHANGED <<override, routing>>
  PROVE  RouterCallsKept
<1>1. Depth \in Nat /\ Depth >= 1
  BY StackTop DEF IInv
<1>2. /\ GoTo(pc) \in Seq(Frame) /\ Len(GoTo(pc)) = Depth
      /\ GoTo(pc)[Depth].fn = Top.fn /\ Top.fn # "Router"
      /\ \A j \in 1 .. Depth - 1 : GoTo(pc)[j] = stack[j]
  BY MovedStack
<1>3. /\ stack' \in Seq(Frame) /\ Len(stack') = Depth + 2
      /\ stack'[Depth + 1] = f /\ stack'[Depth + 2] = g
      /\ \A j \in 1 .. Depth : stack'[j] = GoTo(pc)[j]
  BY <1>2, PushTwo
<1>4. \A j \in Depth .. Len(stack') : stack'[j].fn # "Router"
  BY <1>1, <1>2, <1>3
<1>5. QED
  BY <1>1, <1>2, <1>3, <1>4, SameBelow

-----------------------------------------------------------------------------
(* The steps of ERxHost::Run.                                              *)

\* The parts of the invariant a step needs, and the running call.
LEMMA InvParts ==
  ASSUME IInv
  PROVE  /\ ContextOK /\ DOMAIN streams = Routers
         /\ serial \in Seq((1 .. N) \X Seq(Token))
         /\ cmdId \in Nat /\ result \in Seq(Token)
         /\ N \in Nat /\ N >= 1
         /\ stack # <<>> => Top \in Frame /\ Top.i \in Nat
<1>1. stack # <<>> => Top \in Frame
  BY StackTop DEF IInv
<1>2. N \in Nat /\ N >= 1
  BY HostAssumption
<1>3. \A f \in Frame : f.i \in Nat
  BY <1>2 DEF Frame, AnyFrame, Routers
<1>4. cmdId \in Nat
  BY ProtocolAssumption DEF IInv, TypeOK
<1>5. QED
  BY <1>1, <1>2, <1>3, <1>4, InvContext DEF IInv, TypeOK

LEMMA RunBeginInv ==
  ASSUME IInv, RunBegin
  PROVE  IInv'
<1>1. ContextOK'
  BY InvContext, InvalidateContext DEF RunBegin
<1>2. /\ stack' \in Seq(Frame) /\ Len(stack') = 1 /\ stack'[1].fn = "Run"
  BY NewFrames DEF RunBegin, Call
<1>3. RouterFrames = {} /\ RouterFrames' = {}
  BY <1>2 DEF RunBegin, RouterFrames, Depth
<1>4. RouterCallsKept
  BY <1>2, <1>3 DEF RunBegin, RouterCallsKept, routers
<1>5. DOMAIN streams' = Routers /\ serial' \in Seq((1 .. N) \X Seq(Token))
  BY InvParts DEF RunBegin, routers, outputs
<1>6. QED
  BY <1>1, <1>4, <1>5, Preserved

LEMMA CommandInv ==
  ASSUME IInv, Running("Run", "begin"), Top.i <= N,
         NEW id \in Nat, NEW text \in Seq(Token), Command(id, text),
         UNCHANGED <<executed, result, routers>>
  PROVE  IInv'
<1>1. /\ ContextOK'
      /\ cmdId' \in 0 .. UIntSize - 1 /\ para'.data \in Seq(Token)
  BY InvContext, NewCommandContext DEF Command
<1>2. stack # <<>> /\ MayGoTo("executing")
  BY DEF Running, MayGoTo
<1> DEFINE f == ExecuteCall(cmdId', para'.data)
<1>3. f \in Frame /\ f.fn # "Router"
  BY <1>1, NewFrames DEF ExecuteCall
<1>4. stack' = Append(GoTo("executing"), f)
  BY DEF Command
<1> HIDE DEF f
<1>5. RouterCallsKept
  BY <1>2, <1>3, <1>4, Calls DEF routers
<1>6. DOMAIN streams' = Routers /\ serial' \in Seq((1 .. N) \X Seq(Token))
  BY InvParts DEF Command, routers
<1>7. QED
  BY <1>1, <1>5, <1>6, Preserved

LEMMA NoCommandInv ==
  ASSUME IInv, Running("Run", "begin"), Top.i <= N, NoCommand,
         UNCHANGED <<executed, result, routers>>
  PROVE  IInv'
<1>1. ContextOK'
  BY InvContext DEF NoCommand, ContextOK, ParaOK
<1>2. RouterCallsKept
  BY Advances DEF Running, NoCommand, routers
<1>3. DOMAIN streams' = Routers /\ serial' \in Seq((1 .. N) \X Seq(Token))
  BY InvParts DEF NoCommand, routers, outputs
<1>4. QED
  BY <1>1, <1>2, <1>3, Preserved

LEMMA UartPopulateInv ==
  ASSUME IInv, Running("Run", "begin"), Top.i <= N, NEW m \in Messages,
         UartPopulate(m), UNCHANGED <<executed, result, routers>>
  PROVE  IInv'
<1> DEFINE p == [data |-> m, rd |-> 0]
           id == ParseValue(p)
           text == FirstFrame(Unread(Parsed(p)))
<1>1. ParaOK(p)
  BY HostAssumption DEF ParaOK
<1>2. NoCommand \/ Command(id, text)
  BY DEF UartPopulate
<1> HIDE DEF p
<1>3. id \in Nat /\ text \in Seq(Token)
  BY <1>1, ParsedType, UnreadType, FirstFrameType
<1> HIDE DEF id, text
<1>4. QED
  BY <1>2, <1>3, CommandInv, NoCommandInv

\* What the host knows of the service it calls.
LEMMA ServiceType ==
  ASSUME NEW i \in 1 .. N
  PROVE  /\ Services[i].kind = "generator" =>
              Services[i].id \in 0 .. UIntSize - 1 /\ Services[i].data \in Seq(Token)
         /\ Services[i].kind = "executor" => Services[i].result \in Seq(Token)
<1> DEFINE Kinds == [kind : {"uart", "system"}]
             \union [kind : {"router"}, relay : BOOLEAN]
             \union [kind : {"generator"}, id : 0 .. UIntSize - 1, data : Seq(Token)]
             \union [kind : {"executor"}, id : 0 .. UIntSize - 1, result : Seq(Token)]
<1>1. Services \in Seq(Kinds) /\ N = Len(Services)
  BY HostAssumption DEF N
<1>2. Services[i] \in Kinds
  <2> HIDE DEF Kinds
  <2>1. QED
    BY <1>1
<1>3. QED
  BY <1>2

LEMMA PopulateInv ==
  ASSUME IInv, Populate
  PROVE  IInv'
<1>1. Running("Run", "begin") /\ Top.i <= N /\ UNCHANGED <<executed, result, routers>>
  BY DEF Populate
<1>2. Top.i \in 1 .. N
  <2>1. Top \in Frame /\ N \in Nat
    BY <1>1, InvParts DEF Running
  <2>2. QED
    BY <1>1, <2>1 DEF Frame, AnyFrame, Routers
<1>3. CASE \E m \in Messages : UartPopulate(m)
  BY <1>1, <1>3, UartPopulateInv
<1>4. CASE Services[Top.i].kind = "generator" /\ GeneratorPopulate(Services[Top.i])
  <2>1. Services[Top.i].id \in Nat /\ Services[Top.i].data \in Seq(Token)
    BY <1>2, <1>4, ServiceType, ProtocolAssumption
  <2>2. NoCommand \/ Command(Services[Top.i].id, Services[Top.i].data)
    BY <1>4 DEF GeneratorPopulate
  <2>3. QED
    BY <1>1, <2>1, <2>2, CommandInv, NoCommandInv
<1>5. CASE NoCommand
  BY <1>1, <1>5, NoCommandInv
<1>6. QED
  BY <1>3, <1>4, <1>5 DEF Populate

LEMMA RunResumeInv ==
  ASSUME IInv, RunResume
  PROVE  IInv'
<1>1. ContextOK'
  BY InvContext, InvalidateContext DEF RunResume
<1>2. Top.fn = "Run" /\ Top.i <= N /\ stack # <<>>
  BY InvParts DEF RunResume, Running, Frame
<1>3. RouterCallsKept
  BY <1>2, Advances DEF RunResume, routers
<1>4. DOMAIN streams' = Routers /\ serial' \in Seq((1 .. N) \X Seq(Token))
  BY InvParts DEF RunResume, routers, outputs
<1>5. QED
  BY <1>1, <1>3, <1>4, Preserved

\* A call returns and leaves everything else as it is.
LEMMA ReturnInv ==
  ASSUME IInv, stack # <<>>, Top.fn # "Router", stack' = Return,
         UNCHANGED <<context, routers, outputs>>
  PROVE  IInv'
<1>1. ContextOK'
  BY InvContext DEF ContextOK, ParaOK, context
<1>2. RouterCallsKept
  BY Returns DEF routers
<1>3. DOMAIN streams' = Routers /\ serial' \in Seq((1 .. N) \X Seq(Token))
  BY InvParts DEF routers, outputs
<1>4. QED
  BY <1>1, <1>2, <1>3, Preserved

-----------------------------------------------------------------------------
(* The steps of ERxHost::Execute and ERxHost::HandleResult.                *)

LEMMA BeginServiceInv ==
  ASSUME IInv, BeginService
  PROVE  IInv'
<1>1. ContextOK /\ DOMAIN streams = Routers /\ FlushResult
  BY InvParts DEF BeginService
<1>2. /\ result' \in Seq(Token) /\ Len(result') <= ResultCapacity
      /\ DOMAIN streams' = Routers
  BY <1>1, FlushResultType
<1>3. paraSize' \in Nat /\ paraSize' <= Len(para'.data)
  BY <1>1, UnreadType DEF ContextOK, BeginService
<1>4. ContextOK'
  BY <1>1, <1>2, <1>3 DEF ContextOK, ParaOK, BeginService
<1>5. stack # <<>> /\ MayGoTo("call")
  BY DEF BeginService, Running, MayGoTo, ExecutePcs, HandlePcs
<1>6. RouterCallsKept
  BY <1>5, Moves DEF BeginService
<1>7. serial' \in Seq((1 .. N) \X Seq(Token))
  BY InvParts DEF BeginService
<1>8. QED
  BY <1>2, <1>4, <1>6, <1>7, Preserved

LEMMA EndServiceInv ==
  ASSUME IInv, EndService
  PROVE  IInv'
<1>1. ParaOK(Reset(para, paraSize)) /\ Len(Reset(para, paraSize).data) = paraSize
  BY InvContext, ResetType DEF ContextOK
<1>2. ContextOK'
  <2>1. paraSize' = paraSize /\ paraSize \in Nat /\ paraSize <= ParaCapacity
    BY InvContext, ProtocolAssumption DEF ContextOK, ParaOK, EndService
  <2>2. QED
    BY <1>1, <2>1, InvContext DEF ContextOK, ParaOK, EndService
<1>3. stack # <<>> /\ Top.fn \in {"Execute", "HandleResult"} /\ Top.i <= N
  BY InvParts DEF EndService, Running, Frame
<1>4. CASE Top.fn = "Execute" /\ executed
  <2>1. stack' = GoTo("finish")
    BY <1>4 DEF EndService
  <2>2. MayGoTo("finish")
    BY <1>4 DEF MayGoTo, ExecutePcs
  <2>3. QED
    BY <1>3, <2>1, <2>2, Moves, <1>2, InvParts, Preserved
       DEF EndService, routers, outputs
<1>5. CASE ~(Top.fn = "Execute" /\ executed)
  <2>1. stack' = Advance
    BY <1>5 DEF EndService
  <2>2. QED
    BY <1>3, <2>1, Advances, <1>2, InvParts, Preserved
       DEF EndService, routers, outputs
<1>6. QED
  BY <1>4, <1>5

LEMMA ExecuteDispatchInv ==
  ASSUME IInv, ExecuteDispatch
  PROVE  IInv'
<1>1. ContextOK'
  BY InvParts, NewCommandContext DEF ExecuteDispatch
<1>2. stack # <<>> /\ Top.fn = "Execute"
  BY DEF ExecuteDispatch, Offered, Running
<1>3. MayGoTo("return")
  BY <1>2 DEF MayGoTo, ExecutePcs
<1> DEFINE f == Call("HandleResult", 1, "begin")
<1>4. f \in Frame /\ f.fn # "Router"
  BY NewFrames DEF Call
<1>5. stack' = Append(GoTo("return"), f)
  BY DEF ExecuteDispatch
<1> HIDE DEF f
<1>6. RouterCallsKept
  BY <1>2, <1>3, <1>4, <1>5, Calls DEF ExecuteDispatch, routers
<1>7. DOMAIN streams' = Routers /\ serial' \in Seq((1 .. N) \X Seq(Token))
  BY InvParts DEF ExecuteDispatch, routers, outputs
<1>8. QED
  BY <1>1, <1>6, <1>7, Preserved

LEMMA ReturningInv ==
  ASSUME IInv, RunEnd \/ ExecuteReturn \/ HandleResultReturn
  PROVE  IInv'
<1>1. stack # <<>> /\ Top.fn # "Router" /\ stack' = Return
  BY DEF RunEnd, ExecuteReturn, HandleResultReturn, Offered, Running
<1>2. UNCHANGED <<context, routers, outputs>>
  BY DEF RunEnd, ExecuteReturn, HandleResultReturn
<1>3. QED
  BY <1>1, <1>2, ReturnInv

-----------------------------------------------------------------------------
(* The steps of the services.                                              *)

LEMMA ExecutingService ==
  ASSUME IInv, NEW kind, Executing(kind)
  PROVE  /\ stack # <<>> /\ Top.fn = "Execute" /\ Top.i \in 1 .. N
         /\ Service.kind = kind
         /\ MayGoTo("end")
<1>1. stack # <<>> /\ Top.fn = "Execute" /\ Top.pc = "call" /\ Service.kind = kind
  BY DEF Executing, Running
<1>2. Top \in Frame
  BY <1>1, InvParts
<1>3. Top.i \in 1 .. N
  BY <1>1, <1>2, InvParts DEF Frame, AnyFrame, Routers
<1>4. QED
  BY <1>1, <1>3 DEF MayGoTo, ExecutePcs

\* A service that is done, whether it executed the command or not.
LEMMA ServiceDone ==
  ASSUME IInv, stack # <<>>, MayGoTo("end"), stack' = GoTo("end"),
         UNCHANGED <<override, routing>>, ContextOK', DOMAIN streams' = Routers,
         serial' \in Seq((1 .. N) \X Seq(Token))
  PROVE  IInv'
<1>1. RouterCallsKept
  BY Moves
<1>2. QED
  BY <1>1, Preserved

LEMMA WriterInv ==
  ASSUME IInv, NEW kind, Executing(kind), NEW text \in Seq(Token),
         WriteResult(text), executed' = TRUE, stack' = GoTo("end"),
         UNCHANGED <<cmdId, para, paraSize, override, routing, serial>>
  PROVE  IInv'
<1>1. ContextOK /\ DOMAIN streams = Routers
  BY InvParts
<1>2. /\ result' \in Seq(Token) /\ Len(result') <= ResultCapacity
      /\ DOMAIN streams' = Routers
  BY <1>1, WriteResultType
<1>3. ContextOK'
  BY <1>1, <1>2 DEF ContextOK, ParaOK
<1>4. serial' \in Seq((1 .. N) \X Seq(Token))
  BY InvParts
<1>5. QED
  BY <1>2, <1>3, <1>4, ExecutingService, ServiceDone

LEMMA ExecutorExecuteInv ==
  ASSUME IInv, ExecutorExecute
  PROVE  IInv'
<1>1. Executing("executor")
  BY DEF ExecutorExecute
<1>2. Service.result \in Seq(Token)
  BY <1>1, ExecutingService, ServiceType DEF Service
<1>3. QED
  BY <1>1, <1>2, WriterInv DEF ExecutorExecute

LEMMA SystemHelpInv ==
  ASSUME IInv, SystemHelp
  PROVE  IInv'
BY HelpTextType, WriterInv DEF SystemHelp

LEMMA SystemResultInv ==
  ASSUME IInv, SystemResult
  PROVE  IInv'
<1>1. ParaOK(para)
  BY InvContext DEF ContextOK
<1>2. ParaOK(Parsed(para)) /\ ParseValue(para) \in Nat
  BY <1>1, ParsedType
<1>3. Unread(Parsed(para)) \in Seq(Token)
  BY <1>2, UnreadType
<1>4. NewCommand(ParseValue(para), Unread(Parsed(para)))
  BY DEF SystemResult
<1>5. ContextOK'
  BY <1>2, <1>3, <1>4, InvContext, NewCommandContext DEF SystemResult
<1>6. stack # <<>> /\ Top.i \in 1 .. N /\ MayGoTo("end")
  BY ExecutingService DEF SystemResult
<1> DEFINE f == Call("System", Top.i, "call")
           g == Call("HandleResult", 1, "begin")
<1>7. f \in Frame /\ f.fn # "Router" /\ g \in Frame /\ g.fn # "Router"
  BY <1>6, NewFrames DEF Call
<1>8. stack' = GoTo("end") \o <<f, g>>
  BY DEF SystemResult
<1> HIDE DEF f, g
<1>9. RouterCallsKept
  BY <1>6, <1>7, <1>8, CallsTwo DEF SystemResult, routers
<1>10. DOMAIN streams' = Routers /\ serial' \in Seq((1 .. N) \X Seq(Token))
  BY InvParts DEF SystemResult, routers, outputs
<1>11. QED
  BY <1>5, <1>9, <1>10, Preserved

\* The parameter was parsed, as far as the invariant can tell.
LEMMA ParsedContext ==
  ASSUME IInv, para' = Parsed(para) \/ para' = Reset(para, paraSize),
         UNCHANGED <<cmdId, paraSize, result>>, executed' \in BOOLEAN
  PROVE  ContextOK'
<1>1. /\ ContextOK /\ ParaOK(para) /\ paraSize \in Nat /\ paraSize <= Len(para.data)
      /\ Len(para.data) <= ParaCapacity /\ Len(para.data) \in Nat
  BY InvContext DEF ContextOK, ParaOK
<1>2. CASE para' = Parsed(para)
  BY <1>1, <1>2, ParsedType DEF ContextOK, ParaOK
<1>3. CASE para' = Reset(para, paraSize)
  <2>1. ParaOK(para') /\ Len(para'.data) = paraSize
    BY <1>1, <1>3, ResetType
  <2>2. Len(para'.data) <= ParaCapacity
    BY <1>1, <2>1, ProtocolAssumption
  <2>3. QED
    BY <1>1, <2>1, <2>2 DEF ContextOK, ParaOK
<1>4. QED
  BY <1>2, <1>3

LEMMA SystemNoResultInv ==
  ASSUME IInv, SystemNoResult
  PROVE  IInv'
<1>1. executed' \in BOOLEAN
  BY InvContext DEF SystemNoResult, ContextOK
<1>2. ContextOK'
  BY <1>1, ParsedContext DEF SystemNoResult
<1>3. QED
  BY <1>2, ExecutingService, InvParts, ServiceDone DEF SystemNoResult, routers, outputs

LEMMA SystemReturnInv ==
  ASSUME IInv, SystemReturn
  PROVE  IInv'
<1>1. ContextOK'
  BY InvContext DEF SystemReturn, ContextOK, ParaOK
<1>2. RouterCallsKept
  BY Returns DEF SystemReturn, Running, routers
<1>3. QED
  BY <1>1, <1>2, InvParts, Preserved DEF SystemReturn, routers, outputs

LEMMA RouterRelayInv ==
  ASSUME IInv, RouterRelay
  PROVE  IInv'
<1>1. ContextOK'
  BY ParsedContext DEF RouterRelay
<1>2. QED
  BY <1>1, ExecutingService, InvParts, ServiceDone DEF RouterRelay, Routes, routers

LEMMA RouterDiscardInv ==
  ASSUME IInv, RouterDiscard
  PROVE  IInv'
<1>1. ContextOK'
  BY ParsedContext DEF RouterDiscard
<1>2. QED
  BY <1>1, ExecutingService, InvParts, ServiceDone
     DEF RouterDiscard, Routes, routers, outputs

LEMMA IgnoreInv ==
  ASSUME IInv, Ignore
  PROVE  IInv'
<1>1. stack # <<>> /\ MayGoTo("end")
  BY ExecutingService DEF Ignore
<1>2. ContextOK'
  BY InvContext DEF Ignore, ContextOK, ParaOK, context
<1>3. QED
  BY <1>1, <1>2, InvParts, ServiceDone DEF Ignore, routers, outputs

LEMMA HandleResultInv ==
  ASSUME IInv, HandleResult
  PROVE  IInv'
<1>1. /\ stack # <<>> /\ Top.fn = "HandleResult" /\ Top.pc = "call" /\ Top \in Frame
  BY InvParts DEF HandleResult, Running
<1>2. Top.i \in 1 .. N
  BY <1>1, InvParts DEF Frame, AnyFrame, Routers
<1>3. MayGoTo("end")
  BY <1>1, <1>2 DEF MayGoTo, HandlePcs
<1>4. ParaOK(para) /\ ContextOK
  BY InvContext DEF ContextOK
<1>5. ParaOK(para') /\ para'.data = para.data
  BY <1>4 DEF HandleResult, ParaOK
<1>6. ContextOK'
  BY <1>4, <1>5 DEF HandleResult, ContextOK
<1>7. serial' \in Seq((1 .. N) \X Seq(Token))
  <2>1. Unread(para) \in Seq(Token) /\ serial \in Seq((1 .. N) \X Seq(Token))
    BY <1>4, UnreadType, InvParts
  <2>2. <<Top.i, Unread(para)>> \in (1 .. N) \X Seq(Token)
    BY <1>2, <2>1
  <2>3. serial' = serial \/ serial' = Append(serial, <<Top.i, Unread(para)>>)
    BY DEF HandleResult
  <2>4. PICK e \in (1 .. N) \X Seq(Token) : e = <<Top.i, Unread(para)>>
    BY <2>2
  <2>5. Append(serial, e) \in Seq((1 .. N) \X Seq(Token))
    BY <2>1
  <2>6. QED
    BY <2>1, <2>3, <2>4, <2>5
<1>8. QED
  BY <1>1, <1>3, <1>6, <1>7, InvParts, ServiceDone DEF HandleResult, routers

-----------------------------------------------------------------------------
(* A router's call begins and ends.                                        *)

\* The router is not routing, so none of the active calls is its own: the new
\* call is the only one, it is the innermost, and it remembers the one around.
LEMMA RouterDeliverInv ==
  ASSUME IInv, RouterDeliver
  PROVE  IInv'
<1> DEFINE dest == Parsed(para)
           source == Parsed(dest)
           remote == Parsed(source)
           id == ParseValue(source)
<1>1. ParaOK(para)
  BY InvContext DEF ContextOK
<1>2. ParaOK(source)
  BY <1>1, ParsedType
<1>3. id \in Nat /\ Unread(remote) \in Seq(Token)
  BY <1>2, ParsedType, UnreadType
<1>4. NewCommand(id, Unread(remote)) /\ UNCHANGED <<executed, result>>
  BY DEF RouterDeliver
<1>5. /\ ContextOK'
      /\ cmdId' \in 0 .. UIntSize - 1 /\ para'.data \in Seq(Token)
  BY <1>3, <1>4, InvContext, NewCommandContext
<1> HIDE DEF dest, source, remote, id
<1>6. Executing("router") /\ ~routing[Top.i]
  BY DEF RouterDeliver, Routes
<1>7. /\ stack # <<>> /\ Top.i \in Routers /\ MayGoTo("end")
  BY <1>6, ExecutingService DEF Service, Routers
<1> DEFINE f == RouterCall(Top.i)
           g == ExecuteCall(cmdId', para'.data)
<1>8. /\ f \in Frame /\ g \in Frame
      /\ f.fn = "Router" /\ f.i = Top.i /\ f.previous = override
      /\ g.fn # "Router"
  BY <1>5, <1>7, NewFrames DEF IInv, TypeOK, RouterCall, ExecuteCall
<1>9. stack' = GoTo("end") \o <<f, g>>
  BY DEF RouterDeliver
<1> HIDE DEF f, g
<1>10. /\ GoTo("end") \in Seq(Frame) /\ Len(GoTo("end")) = Depth
       /\ GoTo("end")[Depth].fn = Top.fn /\ Top.fn # "Router"
       /\ \A j \in 1 .. Depth - 1 : GoTo("end")[j] = stack[j]
  BY <1>7, MovedStack
<1>11. /\ Depth \in Nat /\ Depth >= 1 /\ Top = stack[Depth]
  BY <1>7, StackTop DEF IInv, Top
<1>12. /\ stack' \in Seq(Frame) /\ Len(stack') = Depth + 2
       /\ stack'[Depth + 1] = f /\ stack'[Depth + 2] = g
       /\ \A j \in 1 .. Depth : stack'[j] = GoTo("end")[j]
  <2>1. GoTo("end") \in Seq(Frame) /\ Len(GoTo("end")) = Depth /\ f \in Frame /\ g \in Frame
    BY <1>8, <1>10
  <2>2. QED
    BY <1>9, <2>1, PushTwo
<1>13. RouterFrames = {j \in 1 .. Depth - 1 : stack[j].fn = "Router"}
  BY <1>10, <1>11 DEF RouterFrames
<1>14. /\ RouterFrames' = RouterFrames \union {Depth + 1}
       /\ \A j \in RouterFrames : stack'[j] = stack[j] /\ j \in 1 .. Depth - 1
       /\ Depth' = Depth + 2
  <2>1. Depth' = Depth + 2
    BY <1>12 DEF Depth
  <2>2. RouterFrames' = {j \in 1 .. Depth + 2 : stack'[j].fn = "Router"}
    BY <2>1 DEF RouterFrames
  <2>3. stack'[Depth].fn # "Router"
    BY <1>10, <1>11, <1>12
  <2>4. \A j \in 1 .. Depth - 1 : stack'[j] = stack[j]
    BY <1>10, <1>11, <1>12
  <2>5. stack'[Depth + 1].fn = "Router" /\ stack'[Depth + 2].fn # "Router"
    BY <1>8, <1>12
  <2>6. RouterFrames' = {j \in 1 .. Depth - 1 : stack'[j].fn = "Router"} \union {Depth + 1}
    BY <1>11, <2>2, <2>3, <2>5
  <2>7. QED
    BY <1>13, <2>1, <2>4, <2>6
<1>15. override' = Top.i /\ routing' = [routing EXCEPT ![Top.i] = TRUE]
  BY DEF RouterDeliver
<1>16. OverrideLive'
  <2>1. InnermostBelow(override, Depth + 1) /\ override \in Routers \union {0}
    BY DEF IInv, CallsOK, OverrideLive, TypeOK
  <2>2. \E j \in RouterFrames' : /\ j < Depth' + 1 /\ stack'[j].i = override'
                                 /\ \A h \in RouterFrames' : h <= j
    BY <1>8, <1>11, <1>12, <1>14, <1>15
  <2>3. InnermostBelow(override, Depth + 1)'
    BY <2>2 DEF InnermostBelow
  <2>4. ASSUME NEW j \in RouterFrames PROVE InnermostBelow(stack[j].previous, j)'
    <3>1. InnermostBelow(stack[j].previous, j)
      BY DEF IInv, CallsOK, OverrideLive
    <3>2. \A h \in RouterFrames : h < j => h # Depth + 1
      BY <1>11, <1>14
    <3>3. stack'[j].previous = stack[j].previous /\ ~(Depth + 1 < j) /\ Depth + 1 >= j
      BY <1>11, <1>14
    <3>4. QED
      BY <1>14, <3>1, <3>2, <3>3 DEF InnermostBelow
  <2>5. ASSUME NEW k, k = Depth + 1 PROVE InnermostBelow(stack[k].previous, k)'
    <3>1. stack'[k].previous = override
      BY <1>8, <1>12, <2>5
    <3>2. \A j \in RouterFrames : j < k /\ ~(j >= k)
      BY <1>11, <1>14, <2>5
    <3>3. RouterFrames' = RouterFrames \union {k} /\ ~(k < k) /\ k >= k
      BY <1>11, <1>14, <2>5
    <3>4. CASE override = 0 /\ RouterFrames = {}
      BY <3>1, <3>3, <3>4 DEF InnermostBelow
    <3>5. CASE \E j \in RouterFrames : /\ stack[j].i = override
                                      /\ \A h \in RouterFrames : h <= j
      <4>1. PICK j \in RouterFrames : /\ stack[j].i = override
                                     /\ \A h \in RouterFrames : h <= j
        BY <3>5
      <4>2. j \in RouterFrames' /\ j < k /\ stack'[j].i = override
        BY <1>14, <3>2, <4>1
      <4>3. \A h \in RouterFrames' : h < k => h <= j
        BY <3>3, <4>1
      <4>4. QED
        BY <3>1, <4>2, <4>3 DEF InnermostBelow
    <3>6. QED
      BY <2>1, <2>5, <3>2, <3>4, <3>5 DEF InnermostBelow
  <2>6. QED
    BY <1>14, <2>3, <2>4, <2>5 DEF OverrideLive
<1>17. RoutingMatchesCalls'
  <2>1. /\ \A i \in Routers : routing[i] <=> \E j \in RouterFrames : stack[j].i = i
        /\ \A j, k \in RouterFrames : stack[j].i = stack[k].i => j = k
        /\ routing \in [Routers -> BOOLEAN]
    BY DEF IInv, CallsOK, RoutingMatchesCalls, TypeOK
  <2>2. \A j \in RouterFrames : stack'[j].i = stack[j].i /\ stack[j].i # Top.i
    BY <1>6, <1>7, <1>14, <2>1
  <2>3. stack'[Depth + 1].i = Top.i
    BY <1>8, <1>12
  <2>4. \A i \in Routers : routing'[i] <=> \E j \in RouterFrames' : stack'[j].i = i
    BY <1>14, <1>15, <2>1, <2>2, <2>3
  <2>5. \A j, k \in RouterFrames' : stack'[j].i = stack'[k].i => j = k
    BY <1>14, <2>1, <2>2, <2>3
  <2>6. QED
    BY <2>4, <2>5 DEF RoutingMatchesCalls
<1>18. TypeOK'
  <2>1. override' \in Routers \union {0} /\ routing' \in [Routers -> BOOLEAN]
    BY <1>7, <1>15 DEF IInv, TypeOK
  <2>2. DOMAIN streams' = Routers /\ serial' \in Seq((1 .. N) \X Seq(Token))
    BY InvParts DEF RouterDeliver, outputs
  <2>3. QED
    BY <1>5, <1>12, <2>1, <2>2 DEF TypeOK, ContextOK, ParaOK
<1>19. QED
  BY <1>5, <1>16, <1>17, <1>18 DEF IInv, CallsOK, ContextOK

\* The innermost call ends; the stream that overrides again is the one of the
\* call around it, and the router may be called again.
LEMMA RouterReturnInv ==
  ASSUME IInv, RouterReturn
  PROVE  IInv'
<1>1. stack # <<>> /\ Top.fn = "Router" /\ stack' = Return
  BY DEF RouterReturn, Running
<1>2. /\ Depth \in Nat /\ Depth >= 1 /\ Top = stack[Depth] /\ Top \in Frame
  BY <1>1, StackTop DEF IInv, Top
<1>3. Top.i \in Routers /\ Top.previous \in Routers \union {0}
  BY <1>1, <1>2 DEF Frame, AnyFrame
<1>4. /\ stack' \in Seq(Frame) /\ Len(stack') = Depth - 1
      /\ \A j \in 1 .. Depth - 1 : stack'[j] = stack[j]
  BY <1>1, ReturnStack DEF IInv
<1>5. /\ RouterFrames' = RouterFrames \ {Depth} /\ Depth \in RouterFrames
      /\ RouterFrames \subseteq 1 .. Depth
      /\ \A j \in RouterFrames' : stack'[j] = stack[j] /\ j <= Depth - 1
      /\ Depth' = Depth - 1
  <2>1. Depth' = Depth - 1
    BY <1>4 DEF Depth
  <2>2. RouterFrames' = {j \in 1 .. Depth - 1 : stack[j].fn = "Router"}
    BY <1>4, <2>1 DEF RouterFrames
  <2>3. RouterFrames = {j \in 1 .. Depth - 1 : stack[j].fn = "Router"} \union {Depth}
    BY <1>1, <1>2 DEF RouterFrames
  <2>4. QED
    BY <1>2, <1>4, <2>1, <2>2, <2>3
<1>6. override' = Top.previous /\ routing' = [routing EXCEPT ![Top.i] = FALSE]
  BY DEF RouterReturn
<1>7. OverrideLive'
  <2>1. \A j \in RouterFrames : InnermostBelow(stack[j].previous, j)
    BY DEF IInv, CallsOK, OverrideLive
  <2>2. ASSUME NEW k \in RouterFrames,
               \A h \in RouterFrames' : h < k <=> h \in RouterFrames /\ h < k,
               NEW p, InnermostBelow(p, k)
        PROVE  InnermostBelow(p, k)'
    <3>1. k \in Nat
      BY <1>2, <1>5
    <3>2. CASE p = 0 /\ \A j \in RouterFrames : j >= k
      BY <1>5, <2>2, <3>2 DEF InnermostBelow
    <3>3. CASE \E j \in RouterFrames : /\ j < k /\ stack[j].i = p
                                      /\ \A h \in RouterFrames : h < k => h <= j
      <4>1. PICK j \in RouterFrames : /\ j < k /\ stack[j].i = p
                                     /\ \A h \in RouterFrames : h < k => h <= j
        BY <3>3
      <4>2. j \in RouterFrames' /\ stack'[j].i = p
        <5>1. j \in 1 .. Depth /\ k \in 1 .. Depth
          BY <1>5
        <5>2. j # Depth
          BY <1>2, <4>1, <5>1
        <5>3. j \in RouterFrames'
          BY <1>5, <5>2
        <5>4. QED
          BY <1>5, <4>1, <5>3
      <4>3. \A h \in RouterFrames' : h < k => h <= j
        BY <1>5, <4>1
      <4>4. \E x \in RouterFrames' :
              /\ x < k /\ stack'[x].i = p
              /\ \A h \in RouterFrames' : h < k => h <= x
        BY <4>1, <4>2, <4>3
      <4>5. QED
        BY <4>4 DEF InnermostBelow
    <3>4. QED
      BY <2>2, <3>2, <3>3 DEF InnermostBelow
  <2>3. ASSUME NEW k, k = Depth PROVE InnermostBelow(stack[k].previous, k)
    BY <1>5, <2>1, <2>3
  <2>4. InnermostBelow(override, Depth + 1)'
    <3>1. PICK k \in RouterFrames : k = Depth
      BY <1>5
    <3>2. PICK p : p = stack[k].previous
      OBVIOUS
    <3>3. InnermostBelow(p, k)
      BY <2>1, <3>2
    <3>4. InnermostBelow(p, k)'
      BY <1>5, <2>2, <3>3
    <3>5. override' = p /\ Depth' + 1 = k
      BY <1>2, <1>5, <1>6, <3>1, <3>2
    <3>6. QED
      BY <3>4, <3>5 DEF InnermostBelow
  <2>5. ASSUME NEW j \in RouterFrames' PROVE InnermostBelow(stack[j].previous, j)'
    <3>1. j \in RouterFrames /\ stack'[j].previous = stack[j].previous
      BY <1>5
    <3>2. PICK p : p = stack[j].previous
      OBVIOUS
    <3>3. InnermostBelow(p, j)'
      BY <1>5, <2>1, <2>2, <3>1, <3>2
    <3>4. QED
      BY <3>1, <3>2, <3>3 DEF InnermostBelow
  <2>6. QED
    BY <2>4, <2>5 DEF OverrideLive
<1>8. RoutingMatchesCalls'
  <2>1. /\ \A i \in Routers : routing[i] <=> \E j \in RouterFrames : stack[j].i = i
        /\ \A j, k \in RouterFrames : stack[j].i = stack[k].i => j = k
        /\ routing \in [Routers -> BOOLEAN]
    BY DEF IInv, CallsOK, RoutingMatchesCalls, TypeOK
  <2>2. \A j \in RouterFrames' : stack'[j].i = stack[j].i /\ stack[j].i # Top.i
    BY <1>2, <1>5, <2>1
  <2>3. \A i \in Routers : routing'[i] <=> \E j \in RouterFrames' : stack'[j].i = i
    <3>1. ASSUME NEW i \in Routers, i = Top.i
          PROVE  routing'[i] <=> \E j \in RouterFrames' : stack'[j].i = i
      <4>1. routing'[i] = FALSE
        BY <1>6, <2>1, <3>1
      <4>2. ~\E j \in RouterFrames' : stack'[j].i = i
        BY <2>2, <3>1
      <4>3. QED
        BY <4>1, <4>2
    <3>2. ASSUME NEW i \in Routers, i # Top.i
          PROVE  routing'[i] <=> \E j \in RouterFrames' : stack'[j].i = i
      <4>1. routing'[i] <=> routing[i]
        BY <1>6, <2>1, <3>2
      <4>2. (\E j \in RouterFrames' : stack'[j].i = i) <=>
              \E j \in RouterFrames : stack[j].i = i
        BY <1>2, <1>5, <2>2, <3>2
      <4>3. QED
        BY <2>1, <4>1, <4>2
    <3>3. QED
      BY <3>1, <3>2
  <2>4. \A j, k \in RouterFrames' : stack'[j].i = stack'[k].i => j = k
    <3>1. ASSUME NEW j \in RouterFrames', NEW k \in RouterFrames',
                 stack'[j].i = stack'[k].i
          PROVE  j = k
      <4>1. j \in RouterFrames /\ k \in RouterFrames
        BY <1>5
      <4>2. stack[j].i = stack[k].i
        BY <2>2, <3>1
      <4>3. QED
        BY <2>1, <4>1, <4>2
    <3>2. QED
      BY <3>1
  <2>5. QED
    BY <2>3, <2>4 DEF RoutingMatchesCalls
<1>9. ContextOK'
  BY InvContext DEF RouterReturn, ContextOK, ParaOK
<1>10. TypeOK'
  <2>1. override' \in Routers \union {0} /\ routing' \in [Routers -> BOOLEAN]
    BY <1>3, <1>6 DEF IInv, TypeOK
  <2>2. DOMAIN streams' = Routers /\ serial' \in Seq((1 .. N) \X Seq(Token))
    BY InvParts DEF RouterReturn, outputs
  <2>3. QED
    BY <1>4, <1>9, <2>1, <2>2 DEF TypeOK, ContextOK, ParaOK
<1>11. QED
  BY <1>7, <1>8, <1>9, <1>10 DEF IInv, CallsOK, ContextOK

-----------------------------------------------------------------------------
(* The theorems.                                                           *)

LEMMA InitInv == Init => IInv
<1> SUFFICES ASSUME Init PROVE IInv
  OBVIOUS
<1>1. ParaOK(NoPara) /\ Len(NoPara.data) = 0
  BY DEF ParaOK, NoPara
<1>2. Depth = 0 /\ RouterFrames = {} /\ stack \in Seq(Frame)
  BY DEF Init, Depth, RouterFrames
<1>3. TypeOK /\ paraSize <= Len(para.data)
  <2>1. cmdId \in 0 .. UIntSize - 1
    BY ProtocolAssumption DEF Init, SYS_INVALID_COMMAND
  <2>2. /\ para \in [data : Seq(Token), rd : Nat] /\ para.rd <= Len(para.data)
        /\ Len(para.data) = 0 /\ Len(para.data) <= ParaCapacity
        /\ paraSize = 0
    BY <1>1, ProtocolAssumption DEF Init, ParaOK
  <2>3. executed \in BOOLEAN /\ result \in Seq(Token) /\ Len(result) <= ResultCapacity
    <3>1. executed = FALSE /\ result = <<>>
      BY DEF Init
    <3>2. <<>> \in Seq(Token) /\ Len(<<>>) = 0 /\ 0 <= ResultCapacity
      BY ProtocolAssumption
    <3>3. QED
      BY <3>1, <3>2
  <2>4. /\ override \in Routers \union {0} /\ routing \in [Routers -> BOOLEAN]
        /\ DOMAIN streams = Routers
    BY DEF Init
  <2>5. serial \in Seq((1 .. N) \X Seq(Token))
    BY DEF Init
  <2>6. QED
    BY <1>2, <2>1, <2>2, <2>3, <2>4, <2>5 DEF TypeOK
<1>4. OverrideLive
  BY <1>2 DEF Init, OverrideLive, InnermostBelow
<1>5. RoutingMatchesCalls
  BY <1>2 DEF Init, RoutingMatchesCalls
<1>6. QED
  BY <1>3, <1>4, <1>5 DEF IInv, CallsOK

LEMMA StutterInv ==
  ASSUME IInv, UNCHANGED vars
  PROVE  IInv'
<1> USE DEF vars, context, routers, outputs
<1>1. TypeOK'
  BY DEF IInv, TypeOK
<1>2. paraSize' <= Len(para'.data)
  BY DEF IInv
<1>3. OverrideLive'
  BY DEF IInv, CallsOK, OverrideLive, InnermostBelow, RouterFrames, Depth
<1>4. RoutingMatchesCalls'
  BY DEF IInv, CallsOK, RoutingMatchesCalls, RouterFrames, Depth
<1>5. QED
  BY <1>1, <1>2, <1>3, <1>4 DEF IInv, CallsOK

LEMMA NextInv == IInv /\ [Next]_vars => IInv'
<1> SUFFICES ASSUME IInv, [Next]_vars PROVE IInv'
  OBVIOUS
<1>1. CASE UNCHANGED vars
  BY <1>1, StutterInv
<1>2. CASE RunBegin \/ Populate \/ RunResume
  BY <1>2, RunBeginInv, PopulateInv, RunResumeInv
<1>3. CASE RunEnd \/ ExecuteReturn \/ HandleResultReturn
  BY <1>3, ReturningInv
<1>4. CASE BeginService \/ EndService \/ ExecuteDispatch
  BY <1>4, BeginServiceInv, EndServiceInv, ExecuteDispatchInv
<1>5. CASE ExecutorExecute \/ SystemHelp \/ Ignore \/ HandleResult
  BY <1>5, ExecutorExecuteInv, SystemHelpInv, IgnoreInv, HandleResultInv
<1>6. CASE SystemResult \/ SystemNoResult \/ SystemReturn
  BY <1>6, SystemResultInv, SystemNoResultInv, SystemReturnInv
<1>7. CASE RouterDeliver \/ RouterReturn \/ RouterRelay \/ RouterDiscard
  BY <1>7, RouterDeliverInv, RouterReturnInv, RouterRelayInv, RouterDiscardInv
<1>8. QED
  BY <1>1, <1>2, <1>3, <1>4, <1>5, <1>6, <1>7 DEF Next

LEMMA Invariance == Spec => []IInv
BY InitInv, NextInv, PTL DEF Spec

\* The context, the buffers and the call stack stay well typed, for any list
\* of services and any messages: no parameter or result outgrows its buffer,
\* and no call is ever busy with a service the host does not have.
THEOREM Typing == Spec => []TypeOK
<1>1. IInv => TypeOK
  BY DEF IInv
<1>2. QED
  BY <1>1, Invariance, PTL

\* m_pStreamOverride never outlives the stream it points to, however many
\* routers the host has and however their calls nest.
THEOREM OverrideIsLive == Spec => []OverrideLive
<1>1. IInv => OverrideLive
  BY DEF IInv, CallsOK
<1>2. QED
  BY <1>1, Invariance, PTL

\* bIsRouting of a router is set exactly while its call is active, and no
\* router is inside itself.
THEOREM RoutingFlag == Spec => []RoutingMatchesCalls
<1>1. IInv => RoutingMatchesCalls
  BY DEF IInv, CallsOK
<1>2. QED
  BY <1>1, Invariance, PTL

-----------------------------------------------------------------------------
(* How calls nest.  The host's loop is the outermost call; it is at a      *)
(* command while that is executed.  A router and the system service are    *)
(* called by an execution that goes on with the next service afterwards,   *)
(* and call the host back; a result is dispatched by an execution that has *)
(* nothing else to do, or by the system service.                           *)

\* A call of caller that is at pc may be waiting for a call of callee.
MayCall(caller, pc, callee) ==
  \/ caller = "Run" /\ pc = "executing" /\ callee = "Execute"
  \/ caller = "Execute" /\ pc = "return" /\ callee = "HandleResult"
  \/ caller = "Execute" /\ pc = "end" /\ callee \in {"Router", "System"}
  \/ caller = "Router" /\ callee = "Execute"
  \/ caller = "System" /\ callee = "HandleResult"

CallsNest ==
  /\ stack # <<>> => stack[1].fn = "Run"
  /\ \A j \in 1 .. Depth - 1 :
       MayCall(stack[j].fn, stack[j].pc, stack[j + 1].fn)

\* What becomes of the running call when it goes on at pc.
LEMMA MovedTop ==
  ASSUME IInv, stack # <<>>, NEW pc, MayGoTo(pc)
  PROVE  /\ GoTo(pc) \in Seq(Frame) /\ Len(GoTo(pc)) = Depth
         /\ Depth \in Nat /\ Depth >= 1 /\ Depth = Len(stack)
         /\ Top = stack[Depth] /\ Top \in Frame
         /\ GoTo(pc)[Depth].fn = Top.fn /\ GoTo(pc)[Depth].pc = pc
         /\ GoTo(pc)[Depth].i = Top.i
         /\ Top.fn = "Execute" => GoTo(pc)[Depth].cmd = Top.cmd
         /\ \A j \in 1 .. Depth - 1 : GoTo(pc)[j] = stack[j]
<1>1. /\ Depth \in Nat /\ Depth >= 1 /\ Depth = Len(stack)
      /\ Top = stack[Depth] /\ Top \in Frame
  BY StackTop DEF IInv, Depth, Top
<1>2. /\ [Top EXCEPT !.pc = pc] \in Frame /\ [Top EXCEPT !.pc = pc].fn = Top.fn
      /\ [Top EXCEPT !.pc = pc].i = Top.i
  BY <1>1, FrameMoves DEF MayGoTo
<1>3. [Top EXCEPT !.pc = pc].pc = pc
  BY <1>1 DEF Frame, AnyFrame
<1>4. Top.fn = "Execute" => [Top EXCEPT !.pc = pc].cmd = Top.cmd
  BY <1>1 DEF Frame, AnyFrame
<1>5. /\ GoTo(pc) \in Seq(Frame) /\ Len(GoTo(pc)) = Depth
      /\ GoTo(pc)[Depth] = [Top EXCEPT !.pc = pc]
      /\ \A j \in 1 .. Depth - 1 : GoTo(pc)[j] = stack[j]
  BY <1>2, GoToStack DEF IInv
<1>6. QED
  BY <1>1, <1>2, <1>3, <1>4, <1>5

\* What becomes of it when it goes on with the next service.
LEMMA AdvancedTop ==
  ASSUME IInv, stack # <<>>, Top.fn \in {"Run", "Execute", "HandleResult"},
         Top.i <= N
  PROVE  /\ Advance \in Seq(Frame) /\ Len(Advance) = Depth
         /\ Depth \in Nat /\ Depth >= 1 /\ Depth = Len(stack)
         /\ Top = stack[Depth] /\ Top \in Frame
         /\ Advance[Depth].fn = Top.fn /\ Advance[Depth].pc = "begin"
         /\ Advance[Depth].i = Top.i + 1
         /\ Top.fn = "Execute" => Advance[Depth].cmd = Top.cmd
         /\ \A j \in 1 .. Depth - 1 : Advance[j] = stack[j]
<1>1. /\ Depth \in Nat /\ Depth >= 1 /\ Depth = Len(stack) /\ stack \in Seq(Frame)
      /\ Top = stack[Depth] /\ Top \in Frame
  BY StackTop DEF IInv, Depth, Top
<1> DEFINE f == [Top EXCEPT !.pc = "begin", !.i = @ + 1]
<1>2. Advance[Depth] = f
  <2>1. Advance = [stack EXCEPT ![Depth] = f]
    BY <1>1 DEF Advance, Top, Depth
  <2> HIDE DEF f
  <2>2. QED
    BY <1>1, <2>1
<1>3. [Top EXCEPT !.pc = "begin", !.i = @ + 1].pc = "begin"
  BY <1>1 DEF Frame, AnyFrame
<1>4. [Top EXCEPT !.pc = "begin", !.i = @ + 1].i = Top.i + 1
  BY <1>1 DEF Frame, AnyFrame
<1>5. Top.fn = "Execute" => [Top EXCEPT !.pc = "begin", !.i = @ + 1].cmd = Top.cmd
  BY <1>1 DEF Frame, AnyFrame
<1>6. /\ Advance \in Seq(Frame) /\ Len(Advance) = Depth
      /\ Advance[Depth].fn = Top.fn
      /\ \A j \in 1 .. Depth - 1 : Advance[j] = stack[j]
  BY AdvanceStack DEF IInv
<1>7. QED
  BY <1>1, <1>2, <1>3, <1>4, <1>5, <1>6

\* Two stacks that agree below the running call, whose place is taken by calls
\* that nest.
LEMMA NestAbove ==
  ASSUME IInv, CallsNest, stack # <<>>, NEW n \in Nat, n >= Depth - 1,
         stack' \in Seq(Frame), Len(stack') = n,
         \A j \in 1 .. Depth - 1 : stack'[j] = stack[j],
         n >= Depth => stack'[Depth].fn = Top.fn,
         \A j \in Depth .. n - 1 :
           MayCall(stack'[j].fn, stack'[j].pc, stack'[j + 1].fn)
  PROVE  CallsNest'
<1>1. /\ Depth \in Nat /\ Depth >= 1 /\ Top = stack[Depth]
      /\ Depth' = n
  BY StackTop DEF IInv, Depth, Top
<1>2. stack' # <<>> => stack'[1].fn = "Run"
  <2>1. stack[1].fn = "Run"
    BY DEF CallsNest
  <2>2. CASE Depth = 1
    BY <1>1, <2>1, <2>2
  <2>3. CASE Depth > 1
    BY <1>1, <2>1, <2>3
  <2>4. QED
    BY <1>1, <2>2, <2>3
<1>3. ASSUME NEW j \in 1 .. n - 1
      PROVE  MayCall(stack'[j].fn, stack'[j].pc, stack'[j + 1].fn)
  <2>1. CASE j >= Depth
    BY <1>1, <2>1
  <2>2. CASE j = Depth - 1
    <3>1. /\ stack'[j] = stack[j] /\ stack'[j + 1].fn = stack[j + 1].fn
          /\ j \in 1 .. Depth - 1
      BY <1>1, <2>2
    <3>2. MayCall(stack[j].fn, stack[j].pc, stack[j + 1].fn)
      BY <3>1 DEF CallsNest
    <3>3. QED
      BY <3>1, <3>2
  <2>3. CASE j < Depth - 1
    <3>1. /\ stack'[j] = stack[j] /\ stack'[j + 1] = stack[j + 1]
          /\ j \in 1 .. Depth - 1
      BY <1>1, <2>3
    <3>2. MayCall(stack[j].fn, stack[j].pc, stack[j + 1].fn)
      BY <3>1 DEF CallsNest
    <3>3. QED
      BY <3>1, <3>2
  <2>4. QED
    BY <1>1, <2>1, <2>2, <2>3
<1>4. QED
  BY <1>1, <1>2, <1>3 DEF CallsNest

LEMMA NestMoved ==
  ASSUME IInv, CallsNest, stack # <<>>, NEW pc, MayGoTo(pc), stack' = GoTo(pc)
  PROVE  /\ CallsNest'
         /\ Top'.fn = Top.fn /\ Top'.pc = pc /\ Top'.i = Top.i
         /\ Top.fn = "Execute" => Top'.cmd = Top.cmd
<1>1. /\ stack' \in Seq(Frame) /\ Len(stack') = Depth /\ Depth \in Nat
      /\ stack'[Depth].fn = Top.fn
      /\ \A j \in 1 .. Depth - 1 : stack'[j] = stack[j]
  BY MovedTop
<1>2. \A j \in Depth .. Depth - 1 : FALSE
  BY <1>1
<1>3. CallsNest'
  BY <1>1, <1>2, NestAbove
<1>4. Top' = GoTo(pc)[Depth]
  BY <1>1 DEF Top, Depth
<1>5. QED
  BY <1>3, <1>4, MovedTop

LEMMA NestAdvanced ==
  ASSUME IInv, CallsNest, stack # <<>>, Top.fn \in {"Run", "Execute", "HandleResult"},
         Top.i <= N, stack' = Advance
  PROVE  /\ CallsNest'
         /\ Top'.fn = Top.fn /\ Top'.pc = "begin" /\ Top'.i = Top.i + 1
         /\ Top.fn = "Execute" => Top'.cmd = Top.cmd
<1>1. /\ stack' \in Seq(Frame) /\ Len(stack') = Depth /\ Depth \in Nat
      /\ stack'[Depth].fn = Top.fn
      /\ \A j \in 1 .. Depth - 1 : stack'[j] = stack[j]
  BY AdvancedTop
<1>2. \A j \in Depth .. Depth - 1 : FALSE
  BY <1>1
<1>3. CallsNest'
  BY <1>1, <1>2, NestAbove
<1>4. Top' = Advance[Depth]
  BY <1>1 DEF Top, Depth
<1>5. QED
  BY <1>3, <1>4, AdvancedTop

LEMMA NestReturned ==
  ASSUME IInv, CallsNest, stack # <<>>, stack' = Return
  PROVE  /\ CallsNest'
         /\ stack' # <<>> => MayCall(Top'.fn, Top'.pc, Top.fn)
<1>1. /\ stack' \in Seq(Frame) /\ Len(stack') = Depth - 1 /\ Depth \in Nat /\ Depth >= 1
      /\ \A j \in 1 .. Depth - 1 : stack'[j] = stack[j]
  BY StackTop, ReturnStack DEF IInv
<1>2. /\ \A j \in Depth .. Depth - 1 - 1 : FALSE
      /\ Depth - 1 \in Nat /\ ~(Depth - 1 >= Depth)
  BY <1>1
<1>3. CallsNest'
  BY <1>1, <1>2, NestAbove
<1>4. stack' # <<>> => MayCall(Top'.fn, Top'.pc, Top.fn)
  <2> SUFFICES ASSUME stack' # <<>> PROVE MayCall(Top'.fn, Top'.pc, Top.fn)
    OBVIOUS
  <2>1. Depth - 1 \in 1 .. Depth - 1
    BY <1>1
  <2>2. Top' = stack[Depth - 1]
    BY <1>1, <2>1 DEF Top, Depth
  <2>3. MayCall(stack[Depth - 1].fn, stack[Depth - 1].pc, stack[Depth - 1 + 1].fn)
    BY <2>1 DEF CallsNest
  <2>4. Depth - 1 + 1 = Depth
    BY <1>1
  <2>5. QED
    BY <2>2, <2>3, <2>4 DEF Top
<1>5. QED
  BY <1>3, <1>4

LEMMA NestCalled ==
  ASSUME IInv, CallsNest, stack # <<>>, NEW pc, MayGoTo(pc), NEW f \in Frame,
         MayCall(Top.fn, pc, f.fn), stack' = Append(GoTo(pc), f)
  PROVE  CallsNest' /\ Top' = f
<1>1. /\ GoTo(pc) \in Seq(Frame) /\ Len(GoTo(pc)) = Depth
      /\ Depth \in Nat /\ Depth >= 1
      /\ GoTo(pc)[Depth].fn = Top.fn /\ GoTo(pc)[Depth].pc = pc
      /\ \A j \in 1 .. Depth - 1 : GoTo(pc)[j] = stack[j]
  BY MovedTop
<1>2. /\ stack' \in Seq(Frame) /\ Len(stack') = Depth + 1
      /\ stack'[Depth + 1] = f
      /\ \A j \in 1 .. Depth : stack'[j] = GoTo(pc)[j]
  BY <1>1, PushOne
<1> DEFINE n == Depth + 1
<1>3. \A j \in Depth .. n - 1 :
        MayCall(stack'[j].fn, stack'[j].pc, stack'[j + 1].fn)
  <2>1. MayCall(stack'[Depth].fn, stack'[Depth].pc, stack'[Depth + 1].fn)
    BY <1>1, <1>2
  <2>2. \A j \in Depth .. n - 1 : j = Depth
    BY <1>1
  <2>3. QED
    BY <2>1, <2>2
<1>4. /\ n \in Nat /\ n >= Depth - 1
      /\ stack' \in Seq(Frame) /\ Len(stack') = n
      /\ \A j \in 1 .. Depth - 1 : stack'[j] = stack[j]
      /\ stack'[Depth].fn = Top.fn
  BY <1>1, <1>2
<1>5. Top' = f
  BY <1>2 DEF Top, Depth
<1> HIDE DEF n
<1>6. QED
  BY <1>3, <1>4, <1>5, NestAbove

LEMMA NestCalledTwo ==
  ASSUME IInv, CallsNest, stack # <<>>, Top.fn = "Execute", MayGoTo("end"),
         NEW f \in Frame, NEW g \in Frame,
         MayCall("Execute", "end", f.fn), MayCall(f.fn, f.pc, g.fn),
         stack' = GoTo("end") \o <<f, g>>
  PROVE  CallsNest' /\ Top' = g
<1>1. /\ GoTo("end") \in Seq(Frame) /\ Len(GoTo("end")) = Depth
      /\ Depth \in Nat /\ Depth >= 1
      /\ GoTo("end")[Depth].fn = Top.fn /\ GoTo("end")[Depth].pc = "end"
      /\ \A j \in 1 .. Depth - 1 : GoTo("end")[j] = stack[j]
  BY MovedTop
<1>2. /\ stack' \in Seq(Frame) /\ Len(stack') = Depth + 2
      /\ stack'[Depth + 1] = f /\ stack'[Depth + 2] = g
      /\ \A j \in 1 .. Depth : stack'[j] = GoTo("end")[j]
  BY <1>1, PushTwo
<1> DEFINE n == Depth + 2
<1>3. \A j \in Depth .. n - 1 :
        MayCall(stack'[j].fn, stack'[j].pc, stack'[j + 1].fn)
  <2>1. MayCall(stack'[Depth].fn, stack'[Depth].pc, stack'[Depth + 1].fn)
    BY <1>1, <1>2
  <2>2. ASSUME NEW j, j = Depth + 1
        PROVE  MayCall(stack'[j].fn, stack'[j].pc, stack'[j + 1].fn)
    <3>1. j + 1 = Depth + 2
      BY <1>1, <2>2
    <3>2. QED
      BY <1>2, <2>2, <3>1
  <2>3. \A j \in Depth .. n - 1 : j = Depth \/ j = Depth + 1
    BY <1>1
  <2>4. QED
    BY <2>1, <2>2, <2>3
<1>4. /\ n \in Nat /\ n >= Depth - 1
      /\ stack' \in Seq(Frame) /\ Len(stack') = n
      /\ \A j \in 1 .. Depth - 1 : stack'[j] = stack[j]
      /\ stack'[Depth].fn = Top.fn
  BY <1>1, <1>2
<1>5. Top' = g
  BY <1>2 DEF Top, Depth
<1> HIDE DEF n
<1>6. QED
  BY <1>3, <1>4, <1>5, NestAbove

-----------------------------------------------------------------------------
(* The command an execution is at.                                         *)

\* While no service has handled the command, the context holds what the host
\* was told to execute: the number, and the parameter whole; it is unread and its
\* size is known whenever a service is called.  A command that was offered to
\* every service was executed by none.
CommandKept ==
  stack # <<>> /\ Top.fn = "Execute" =>
    /\ Top.pc \in {"begin", "call"} \/ (Top.pc = "end" /\ ~executed) =>
         cmdId = Top.cmd.id /\ para.data = Top.cmd.data
    /\ Top.pc \in {"begin", "call"} => para.rd = 0
    /\ Top.pc = "call" \/ (Top.pc = "end" /\ ~executed) => paraSize = Len(para.data)
    /\ Top.pc = "begin" /\ Top.i > N => ~executed

NInv == CallsNest /\ CommandKept

\* A step after which another call than an execution runs.
LEMMA OtherTop ==
  ASSUME CallsNest', Top'.fn # "Execute"
  PROVE  NInv'
BY DEF NInv, CommandKept

\* A step after which a service has handled the command.
LEMMA HandledTop ==
  ASSUME CallsNest', Top'.fn = "Execute" => Top'.pc = "end" /\ executed'
  PROVE  NInv'
BY DEF NInv, CommandKept

\* A command that was just stored is executed.
LEMMA FreshTop ==
  ASSUME CallsNest', NEW id, NEW text, NewCommand(id, text),
         Top' = ExecuteCall(cmdId', para'.data)
  PROVE  NInv'
<1>1. /\ Top'.fn = "Execute" /\ Top'.pc = "begin" /\ Top'.i = 1
      /\ Top'.cmd.id = cmdId' /\ Top'.cmd.data = para'.data
  BY DEF ExecuteCall
<1>2. para'.rd = 0
  BY DEF NewCommand, Store, NoPara
<1>3. ~(1 > N)
  BY HostAssumption
<1>4. QED
  BY <1>1, <1>2, <1>3 DEF NInv, CommandKept

LEMMA RunNest ==
  ASSUME IInv, NInv, IInv', RunBegin \/ Populate \/ RunResume
  PROVE  NInv'
<1>0. CallsNest
  BY DEF NInv
<1>1. CASE RunBegin
  <2>1. stack' = <<Call("Run", 1, "begin")>>
    BY <1>1 DEF RunBegin
  <2>2. Depth' = 1 /\ stack'[1].fn = "Run" /\ Top'.fn = "Run"
    BY <2>1 DEF Depth, Top, Call
  <2>3. CallsNest'
    BY <2>2 DEF CallsNest
  <2>4. QED
    BY <2>2, <2>3, OtherTop
<1>2. CASE Populate
  <2>1. stack # <<>> /\ Top.fn = "Run" /\ Top.pc = "begin" /\ Top.i <= N
    BY <1>2 DEF Populate, Running
  <2>2. CASE NoCommand
    <3>1. CallsNest' /\ Top'.fn = Top.fn
      BY <1>0, <2>1, <2>2, NestAdvanced DEF NoCommand
    <3>2. QED
      BY <2>1, <3>1, OtherTop
  <2>3. ASSUME NEW id, NEW text, Command(id, text) PROVE NInv'
    <3> DEFINE f == ExecuteCall(cmdId', para'.data)
    <3>1. f \in Frame /\ f.fn = "Execute"
      <4>1. cmdId' \in 0 .. UIntSize - 1 /\ para'.data \in Seq(Token)
        BY DEF IInv, TypeOK
      <4>2. QED
        BY <4>1, NewFrames DEF ExecuteCall
    <3>2. stack' = Append(GoTo("executing"), f) /\ NewCommand(id, text)
      BY <2>3 DEF Command
    <3> HIDE DEF f
    <3>3. MayGoTo("executing") /\ MayCall(Top.fn, "executing", f.fn)
      BY <2>1, <3>1 DEF MayGoTo, MayCall
    <3>4. CallsNest' /\ Top' = f
      BY <1>0, <2>1, <3>1, <3>2, <3>3, NestCalled
    <3>5. QED
      BY <3>2, <3>4, FreshTop DEF f
  <2>4. \/ NoCommand
        \/ \E id, text : Command(id, text)
    BY <1>2 DEF Populate, UartPopulate, GeneratorPopulate
  <2>5. QED
    BY <2>2, <2>3, <2>4
<1>3. CASE RunResume
  <2>1. stack # <<>> /\ Top.fn = "Run" /\ Top.i <= N
    BY <1>3, InvParts DEF RunResume, Running, Frame
  <2>2. CallsNest' /\ Top'.fn = Top.fn
    BY <1>0, <1>3, <2>1, NestAdvanced DEF RunResume
  <2>3. QED
    BY <2>1, <2>2, OtherTop
<1>4. QED
  BY <1>1, <1>2, <1>3

LEMMA ReturningNest ==
  ASSUME IInv, NInv, RunEnd \/ ExecuteReturn \/ HandleResultReturn
  PROVE  NInv'
<1>1. /\ stack # <<>> /\ stack' = Return
      /\ Top.fn \in {"Run", "Execute", "HandleResult"}
  BY DEF RunEnd, ExecuteReturn, HandleResultReturn, Offered, Running
<1>2. CallsNest' /\ (stack' # <<>> => MayCall(Top'.fn, Top'.pc, Top.fn))
  BY <1>1, NestReturned DEF NInv
<1>3. stack' # <<>> => Top'.fn # "Execute" \/ Top'.pc = "return"
  BY <1>1, <1>2 DEF MayCall
<1>4. QED
  BY <1>2, <1>3 DEF NInv, CommandKept

LEMMA BeginServiceNest ==
  ASSUME IInv, NInv, BeginService
  PROVE  NInv'
<1>1. /\ stack # <<>> /\ Top.fn \in {"Execute", "HandleResult"} /\ Top.pc = "begin"
      /\ stack' = GoTo("call") /\ MayGoTo("call")
  BY DEF BeginService, Running, MayGoTo, ExecutePcs, HandlePcs
<1>2. /\ CallsNest' /\ Top'.fn = Top.fn /\ Top'.pc = "call"
      /\ Top.fn = "Execute" => Top'.cmd = Top.cmd
  BY <1>1, NestMoved DEF NInv
<1>3. CASE Top.fn = "HandleResult"
  BY <1>2, <1>3, OtherTop
<1>4. CASE Top.fn = "Execute"
  <2>1. /\ cmdId = Top.cmd.id /\ para.data = Top.cmd.data /\ para.rd = 0
    BY <1>1, <1>4 DEF NInv, CommandKept
  <2>2. cmdId' = cmdId /\ para' = para /\ paraSize' = Len(para.data) - 0
    BY <2>1 DEF BeginService, Available
  <2>3. Len(para.data) \in Nat
    BY DEF IInv, TypeOK
  <2>4. QED
    BY <1>2, <1>4, <2>1, <2>2, <2>3 DEF NInv, CommandKept
<1>5. QED
  BY <1>1, <1>3, <1>4

LEMMA EndServiceNest ==
  ASSUME IInv, NInv, EndService
  PROVE  NInv'
<1>1. /\ stack # <<>> /\ Top.fn \in {"Execute", "HandleResult"} /\ Top.pc = "end"
      /\ Top.i <= N
  BY InvParts DEF EndService, Running, Frame
<1>2. CASE Top.fn = "Execute" /\ executed
  <2>1. stack' = GoTo("finish") /\ MayGoTo("finish")
    BY <1>2 DEF EndService, MayGoTo, ExecutePcs
  <2>2. CallsNest' /\ Top'.pc = "finish"
    BY <1>1, <2>1, NestMoved DEF NInv
  <2>3. QED
    BY <2>2 DEF NInv, CommandKept
<1>3. CASE ~(Top.fn = "Execute" /\ executed)
  <2>1. stack' = Advance
    BY <1>3 DEF EndService
  <2>2. /\ CallsNest' /\ Top'.fn = Top.fn /\ Top'.pc = "begin"
        /\ Top.fn = "Execute" => Top'.cmd = Top.cmd
    BY <1>1, <2>1, NestAdvanced DEF NInv
  <2>3. CASE Top.fn = "HandleResult"
    BY <2>2, <2>3, OtherTop
  <2>4. CASE Top.fn = "Execute"
    <3>1. /\ ~executed /\ cmdId = Top.cmd.id /\ para.data = Top.cmd.data
          /\ paraSize = Len(para.data)
      BY <1>1, <1>3, <2>4 DEF NInv, CommandKept
    <3>2. SubSeq(para.data, 1, Len(para.data)) = para.data
      BY DEF IInv, TypeOK
    <3>3. para'.data = para.data /\ para'.rd = 0
      BY <3>1, <3>2 DEF EndService, Reset
    <3>4. cmdId' = cmdId /\ executed' = executed
      BY DEF EndService
    <3>5. QED
      BY <2>2, <2>4, <3>1, <3>3, <3>4 DEF NInv, CommandKept
  <2>5. QED
    BY <1>1, <2>3, <2>4
<1>4. QED
  BY <1>2, <1>3

LEMMA ExecuteDispatchNest ==
  ASSUME IInv, NInv, ExecuteDispatch
  PROVE  NInv'
<1>1. stack # <<>> /\ Top.fn = "Execute"
  BY DEF ExecuteDispatch, Offered, Running
<1> DEFINE f == Call("HandleResult", 1, "begin")
<1>2. f \in Frame /\ f.fn = "HandleResult"
  BY NewFrames DEF Call
<1>3. stack' = Append(GoTo("return"), f)
  BY DEF ExecuteDispatch
<1> HIDE DEF f
<1>4. MayGoTo("return") /\ MayCall(Top.fn, "return", f.fn)
  BY <1>1, <1>2 DEF MayGoTo, MayCall, ExecutePcs
<1>5. CallsNest' /\ Top' = f
  BY <1>1, <1>2, <1>3, <1>4, NestCalled DEF NInv
<1>6. QED
  BY <1>2, <1>5, OtherTop

\* A service that was called is done.
LEMMA ServiceDoneNest ==
  ASSUME IInv, NInv, NEW kind, Executing(kind), stack' = GoTo("end"),
         \/ executed'
         \/ UNCHANGED <<cmdId, paraSize, executed>> /\ para'.data = para.data
  PROVE  NInv'
<1>1. stack # <<>> /\ Top.fn = "Execute" /\ Top.pc = "call" /\ MayGoTo("end")
  BY ExecutingService DEF Executing, Running
<1>2. CallsNest' /\ Top'.fn = Top.fn /\ Top'.pc = "end" /\ Top'.cmd = Top.cmd
  BY <1>1, NestMoved DEF NInv
<1>3. QED
  BY <1>1, <1>2 DEF NInv, CommandKept

LEMMA ServicesNest ==
  ASSUME IInv, NInv,
         \/ ExecutorExecute \/ SystemHelp \/ SystemNoResult
         \/ RouterRelay \/ RouterDiscard \/ Ignore
  PROVE  NInv'
<1>1. CASE ExecutorExecute
  BY <1>1, ServiceDoneNest DEF ExecutorExecute
<1>2. CASE SystemHelp
  BY <1>2, ServiceDoneNest DEF SystemHelp
<1>3. CASE SystemNoResult
  <2>1. Parsed(para).data = para.data
    BY ParsedType, InvContext DEF ContextOK
  <2>2. QED
    BY <1>3, <2>1, ServiceDoneNest DEF SystemNoResult
<1>4. CASE RouterRelay
  BY <1>4, ServiceDoneNest DEF RouterRelay, Routes
<1>5. CASE RouterDiscard
  BY <1>5, ServiceDoneNest DEF RouterDiscard, Routes
<1>6. CASE Ignore
  BY <1>6, ServiceDoneNest DEF Ignore, context
<1>7. QED
  BY <1>1, <1>2, <1>3, <1>4, <1>5, <1>6

LEMMA HandleResultNest ==
  ASSUME IInv, NInv, HandleResult
  PROVE  NInv'
<1>1. /\ stack # <<>> /\ Top.fn = "HandleResult" /\ Top.pc = "call" /\ Top \in Frame
      /\ stack' = GoTo("end")
  BY InvParts DEF HandleResult, Running
<1>2. MayGoTo("end")
  BY <1>1 DEF Frame, MayGoTo, HandlePcs
<1>3. CallsNest' /\ Top'.fn = Top.fn
  BY <1>1, <1>2, NestMoved DEF NInv
<1>4. QED
  BY <1>1, <1>3, OtherTop

LEMMA SystemResultNest ==
  ASSUME IInv, NInv, SystemResult
  PROVE  NInv'
<1>1. stack # <<>> /\ Top.fn = "Execute" /\ Top.i \in 1 .. N /\ MayGoTo("end")
  BY ExecutingService DEF SystemResult
<1> DEFINE f == Call("System", Top.i, "call")
           g == Call("HandleResult", 1, "begin")
<1>2. f \in Frame /\ f.fn = "System" /\ g \in Frame /\ g.fn = "HandleResult"
  BY <1>1, NewFrames DEF Call
<1>3. stack' = GoTo("end") \o <<f, g>>
  BY DEF SystemResult
<1> HIDE DEF f, g
<1>4. MayCall("Execute", "end", f.fn) /\ MayCall(f.fn, f.pc, g.fn)
  BY <1>2 DEF MayCall
<1>5. CallsNest' /\ Top' = g
  BY <1>1, <1>2, <1>3, <1>4, NestCalledTwo DEF NInv
<1>6. QED
  BY <1>2, <1>5, OtherTop

LEMMA RouterDeliverNest ==
  ASSUME IInv, NInv, IInv', RouterDeliver
  PROVE  NInv'
<1>1. stack # <<>> /\ Top.fn = "Execute" /\ Top.i \in Routers /\ MayGoTo("end")
  BY ExecutingService DEF RouterDeliver, Routes, Service, Routers
<1> DEFINE f == RouterCall(Top.i)
           g == ExecuteCall(cmdId', para'.data)
<1>2. f \in Frame /\ f.fn = "Router" /\ g \in Frame /\ g.fn = "Execute"
  <2>1. cmdId' \in 0 .. UIntSize - 1 /\ para'.data \in Seq(Token)
        /\ override \in Routers \union {0}
    BY DEF IInv, TypeOK
  <2>2. QED
    BY <1>1, <2>1, NewFrames DEF RouterCall, ExecuteCall
<1>3. stack' = GoTo("end") \o <<f, g>>
  BY DEF RouterDeliver
<1>4. PICK id, text : NewCommand(id, text)
  BY DEF RouterDeliver
<1> HIDE DEF f, g
<1>5. MayCall("Execute", "end", f.fn) /\ MayCall(f.fn, f.pc, g.fn)
  BY <1>2 DEF MayCall
<1>6. CallsNest' /\ Top' = g
  BY <1>1, <1>2, <1>3, <1>5, NestCalledTwo DEF NInv
<1>7. QED
  BY <1>4, <1>6, FreshTop DEF g

\* The execution around the router or the system service knows that its
\* command was executed.
LEMMA CalledBackNest ==
  ASSUME IInv, NInv, SystemReturn \/ RouterReturn
  PROVE  NInv'
<1>1. /\ stack # <<>> /\ stack' = Return /\ executed'
      /\ Top.fn \in {"System", "Router"}
  BY DEF SystemReturn, RouterReturn, Running
<1>2. CallsNest' /\ (stack' # <<>> => MayCall(Top'.fn, Top'.pc, Top.fn))
  BY <1>1, NestReturned DEF NInv
<1>3. stack' # <<>> => Top'.fn = "Execute" /\ Top'.pc = "end"
  BY <1>1, <1>2 DEF MayCall
<1>4. QED
  BY <1>1, <1>2, <1>3 DEF NInv, CommandKept

LEMMA NextNest == IInv /\ NInv /\ [Next]_vars => NInv'
<1> SUFFICES ASSUME IInv, NInv, [Next]_vars PROVE NInv'
  OBVIOUS
<1>0. IInv'
  BY NextInv
<1>1. CASE UNCHANGED vars
  BY <1>1 DEF vars, context, NInv, CallsNest, CommandKept, Depth, Top
<1>2. CASE RunBegin \/ Populate \/ RunResume
  BY <1>0, <1>2, RunNest
<1>3. CASE RunEnd \/ ExecuteReturn \/ HandleResultReturn
  BY <1>3, ReturningNest
<1>4. CASE BeginService \/ EndService \/ ExecuteDispatch
  BY <1>4, BeginServiceNest, EndServiceNest, ExecuteDispatchNest
<1>5. CASE \/ ExecutorExecute \/ SystemHelp \/ SystemNoResult
           \/ RouterRelay \/ RouterDiscard \/ Ignore
  BY <1>5, ServicesNest
<1>6. CASE HandleResult \/ SystemResult \/ SystemReturn
  BY <1>6, HandleResultNest, SystemResultNest, CalledBackNest
<1>7. CASE RouterDeliver \/ RouterReturn
  BY <1>0, <1>7, RouterDeliverNest, CalledBackNest
<1>8. QED
  BY <1>1, <1>2, <1>3, <1>4, <1>5, <1>6, <1>7 DEF Next

LEMMA InitNest == Init => NInv
<1>1. Init => Depth = 0 /\ stack = <<>>
  BY DEF Init, Depth
<1>2. QED
  BY <1>1 DEF NInv, CallsNest, CommandKept

LEMMA Nesting == Spec => [](IInv /\ NInv)
<1>1. IInv /\ NInv /\ [Next]_vars => (IInv /\ NInv)'
  BY NextInv, NextNest
<1>2. QED
  BY <1>1, InitInv, InitNest, PTL DEF Spec

\* Every service is offered the command the host was told to execute, number
\* and parameter, whatever the services before it parsed and whichever calls
\* they made; and the cached size never reaches beyond the parameter.
THEOREM ServicesGetTheCommand == Spec => []ParametersIntact
<1>1. IInv /\ NInv => ParametersIntact
  <2> SUFFICES ASSUME IInv, NInv PROVE ParametersIntact
    OBVIOUS
  <2>1. paraSize <= Len(para.data) /\ para \in [data : Seq(Token), rd : Nat]
    BY DEF IInv, TypeOK
  <2>2. para = [data |-> para.data, rd |-> para.rd]
    BY <2>1
  <2>3. QED
    BY <2>1, <2>2 DEF ParametersIntact, NInv, CommandKept, Running
<1>2. QED
  BY <1>1, Nesting, PTL

-----------------------------------------------------------------------------
(* The host implements the state machine of Dispatcher.                    *)

\* What the first calls of the stack are.
LEMMA Levels ==
  ASSUME IInv, CallsNest
  PROVE  /\ Depth \in Nat /\ Depth = Len(stack) /\ stack \in Seq(Frame)
         /\ N \in Nat
         /\ Depth >= 1 => stack[1].fn = "Run" /\ stack[1].i \in Nat
         /\ Depth >= 2 => /\ stack[1].pc = "executing" /\ stack[2].fn = "Execute"
                          /\ stack[2].i \in Nat
                          /\ stack[2].pc \in ExecutePcs
         /\ Depth >= 3 => /\ stack[3].i \in Nat
                          /\ \/ stack[2].pc = "return" /\ stack[3].fn = "HandleResult"
                             \/ stack[2].pc = "end" /\ stack[3].fn \in {"Router", "System"}
<1>1. Depth \in Nat /\ Depth = Len(stack) /\ stack \in Seq(Frame) /\ N \in Nat
  BY InvParts DEF IInv, TypeOK, Depth
<1>2. \A j \in 1 .. Depth : stack[j] \in Frame
  BY <1>1
<1>3. \A f \in Frame : /\ f.i \in Nat
                       /\ f.fn = "Execute" => f.pc \in ExecutePcs
  BY <1>1 DEF Frame, AnyFrame, Routers, ExecutePcs
<1>4. Depth >= 1 => stack[1].fn = "Run" /\ stack[1].i \in Nat
  <2>1. Depth >= 1 => stack # <<>> /\ 1 \in 1 .. Depth
    BY <1>1
  <2>2. QED
    BY <1>2, <1>3, <2>1 DEF CallsNest
<1>5. Depth >= 2 => /\ MayCall(stack[1].fn, stack[1].pc, stack[2].fn)
                    /\ stack[2] \in Frame
  <2>1. Depth >= 2 => 1 \in 1 .. Depth - 1 /\ 2 \in 1 .. Depth /\ 1 + 1 = 2
    BY <1>1
  <2>2. QED
    BY <1>2, <2>1 DEF CallsNest
<1>6. Depth >= 3 => /\ MayCall(stack[2].fn, stack[2].pc, stack[3].fn)
                    /\ stack[3] \in Frame
  <2>1. Depth >= 3 => 2 \in 1 .. Depth - 1 /\ 3 \in 1 .. Depth /\ 2 + 1 = 3
    BY <1>1
  <2>2. QED
    BY <1>2, <2>1 DEF CallsNest
<1>7. Depth >= 2 => stack[1].pc = "executing" /\ stack[2].fn = "Execute"
  BY <1>1, <1>4, <1>5 DEF MayCall
<1>8. Depth >= 3 => \/ stack[2].pc = "return" /\ stack[3].fn = "HandleResult"
                    \/ stack[2].pc = "end" /\ stack[3].fn \in {"Router", "System"}
  BY <1>1, <1>6, <1>7 DEF MayCall
<1>9. QED
  BY <1>1, <1>3, <1>4, <1>5, <1>6, <1>7, <1>8

\* How deep a call can be.
LEMMA LevelOfTop ==
  ASSUME IInv, CallsNest, stack # <<>>
  PROVE  /\ Depth \in Nat /\ Depth >= 1 /\ Top = stack[Depth]
         /\ Top.fn = "Run" => Depth = 1
         /\ Top.fn = "Execute" => Depth = 2 \/ Depth >= 4
         /\ Top.fn \in {"HandleResult", "Router", "System"} => Depth >= 3
<1>1. Depth \in Nat /\ Depth >= 1 /\ Top = stack[Depth]
  BY StackTop DEF IInv, Top
<1>2. Depth >= 2 => Top.fn # "Run"
  <2> SUFFICES ASSUME Depth >= 2 PROVE Top.fn # "Run"
    OBVIOUS
  <2>1. Depth - 1 \in 1 .. Depth - 1 /\ Depth - 1 + 1 = Depth
    BY <1>1
  <2>2. MayCall(stack[Depth - 1].fn, stack[Depth - 1].pc, stack[Depth - 1 + 1].fn)
    BY <2>1 DEF CallsNest
  <2>3. QED
    BY <1>1, <2>1, <2>2 DEF MayCall
<1>3. Depth = 1 => Top.fn = "Run"
  BY <1>1, Levels
<1>4. Depth = 2 => Top.fn = "Execute"
  BY <1>1, Levels
<1>5. Depth = 3 => Top.fn \in {"HandleResult", "Router", "System"}
  BY <1>1, Levels
<1>6. Depth = 1 \/ Depth = 2 \/ Depth = 3 \/ Depth >= 4
  BY <1>1
<1>7. QED
  BY <1>1, <1>2, <1>3, <1>4, <1>5, <1>6

\* The state of the machine, read off the first calls of the stack.
MachineState ==
  /\ Depth = 0 => Phase = "idle" /\ Cursor = 0 /\ Turn = 0
  /\ Depth = 1 =>
       /\ Phase = "population" /\ Turn = 0
       /\ stack[1].pc = "executing" => Cursor = stack[1].i + 1
       /\ stack[1].pc # "executing" => Cursor = stack[1].i
  /\ Depth >= 2 => Cursor = stack[1].i
  /\ Depth >= 2 /\ stack[2].pc \in {"begin", "call", "end"} =>
       Phase = "execution" /\ Turn = stack[2].i
  /\ Depth >= 2 /\ stack[2].pc = "finish" =>
       Phase = "handled" /\ Turn = stack[2].i
  /\ Depth = 2 /\ stack[2].pc = "return" =>
       Phase = "dispatch" /\ Turn = N + 1
  /\ Depth >= 3 /\ stack[2].pc = "return" =>
       Phase = "dispatch" /\ Turn = stack[3].i

LEMMA StateOfMachine == IInv /\ CallsNest => MachineState
<1> SUFFICES ASSUME IInv, CallsNest PROVE MachineState
  OBVIOUS
<1>1. Depth \in Nat
  BY Levels
<1>2. CASE Depth = 0
  <2>1. Phase = "idle" /\ Cursor = 0 /\ Turn = 0
    BY <1>2 DEF Phase, Cursor, Turn
  <2>2. QED
    BY <1>2, <2>1 DEF MachineState
<1>3. CASE Depth = 1
  <2>1. /\ Phase = "population" /\ Turn = 0
        /\ stack[1].pc = "executing" => Cursor = stack[1].i + 1
        /\ stack[1].pc # "executing" => Cursor = stack[1].i
    BY <1>3 DEF Phase, Cursor, Turn, Resuming
  <2>2. QED
    BY <1>3, <2>1 DEF MachineState
<1>4. CASE Depth = 2
  <2>1. /\ Cursor = stack[1].i /\ stack[2].pc \in ExecutePcs
        /\ ~(Depth = 0) /\ ~(Depth = 1) /\ ~(Depth <= 1)
    BY <1>4, Levels DEF Cursor, Resuming
  <2>2. stack[2].pc \in {"begin", "call", "end"} =>
          Phase = "execution" /\ Turn = stack[2].i
    BY <1>4, <2>1 DEF Phase, Turn
  <2>3. stack[2].pc = "finish" => Phase = "handled" /\ Turn = stack[2].i
    BY <1>4, <2>1 DEF Phase, Turn
  <2>4. stack[2].pc = "return" => Phase = "dispatch" /\ Turn = N + 1
    BY <1>4, <2>1 DEF Phase, Turn
  <2>5. QED
    BY <1>4, <2>1, <2>2, <2>3, <2>4 DEF MachineState
<1>5. CASE Depth >= 3
  <2>1. /\ Cursor = stack[1].i
        /\ ~(Depth = 0) /\ ~(Depth = 1) /\ ~(Depth <= 1) /\ ~(Depth = 2)
    BY <1>1, <1>5 DEF Cursor, Resuming
  <2>2. CASE stack[2].pc = "return" /\ stack[3].fn = "HandleResult"
    <3>1. Phase = "dispatch" /\ Turn = stack[3].i
      BY <2>1, <2>2 DEF Phase, Turn
    <3>2. QED
      BY <1>1, <1>5, <2>1, <2>2, <3>1 DEF MachineState
  <2>3. CASE stack[2].pc = "end" /\ stack[3].fn \in {"Router", "System"}
    <3>1. Phase = "execution" /\ Turn = stack[2].i
      BY <2>1, <2>3 DEF Phase, Turn
    <3>2. QED
      BY <1>1, <1>5, <2>1, <2>3, <3>1 DEF MachineState
  <2>4. QED
    BY <1>1, <1>5, <2>2, <2>3, Levels
<1>6. QED
  BY <1>1, <1>2, <1>3, <1>4, <1>5

LEMMA StateOfMachineNext == IInv' /\ CallsNest' => MachineState'
BY StateOfMachine, PTL

MachineStep == [Machine!Next]_(Machine!vars)

\* What a step finds and leaves.
StepContext == IInv /\ NInv /\ IInv' /\ NInv'

LEMMA StepMachine ==
  ASSUME StepContext
  PROVE  IInv /\ CallsNest /\ CommandKept /\ MachineState /\ MachineState'
BY StateOfMachine, StateOfMachineNext DEF StepContext, NInv

\* A step of a call beyond the third level is none of the machine.
LEMMA DeepStep ==
  ASSUME StepContext, Depth >= 4, stack' \in Seq(Frame), Len(stack') >= Depth - 1,
         \A j \in 1 .. Depth - 1 : stack'[j] = stack[j]
  PROVE  MachineStep
<1>1. Depth \in Nat
  BY Levels, StepMachine
<1>2. Depth' >= 3 /\ Depth' \in Nat
  BY <1>1 DEF Depth
<1>3. stack'[1] = stack[1] /\ stack'[2] = stack[2] /\ stack'[3] = stack[3]
  BY <1>1
<1>4. /\ Resuming' = Resuming
      /\ ~(Depth = 0) /\ ~(Depth' = 0) /\ ~(Depth = 1) /\ ~(Depth' = 1)
      /\ ~(Depth <= 1) /\ ~(Depth' <= 1) /\ ~(Depth = 2) /\ ~(Depth' = 2)
  BY <1>1, <1>2, <1>3 DEF Resuming
<1>5. UNCHANGED <<Phase, Cursor, Turn>>
  BY <1>3, <1>4 DEF Phase, Cursor, Turn
<1>6. QED
  BY <1>5 DEF MachineStep, Machine!vars

\* A call that goes on within one service, or goes on while it calls back.
LEMMA SameStep ==
  ASSUME StepContext, Depth \in {2, 3}, Depth' >= 2,
         stack'[1] = stack[1], stack'[2].i = stack[2].i,
         \/ /\ stack[2].pc \in {"begin", "call", "end"}
            /\ stack'[2].pc \in {"begin", "call", "end"}
         \/ /\ stack[2].pc = "return" /\ stack'[2].pc = "return"
            /\ Depth = 3 /\ Depth' = 3 /\ stack'[3].i = stack[3].i
  PROVE  MachineStep
<1>1. /\ MachineState /\ MachineState'
      /\ Depth >= 2 /\ Depth' >= 2 /\ ~(stack[2].pc = "return" /\ Depth = 2)
      /\ Depth' = 3 => Depth' >= 3
      /\ Depth = 3 => Depth >= 3
  BY StepMachine
<1>2. Cursor' = Cursor
  BY <1>1 DEF MachineState
<1>3. CASE stack[2].pc = "return"
  <2>1. Phase = "dispatch" /\ Turn = stack[3].i
    BY <1>1, <1>3 DEF MachineState
  <2>2. Phase' = "dispatch" /\ Turn' = stack'[3].i
    BY <1>1, <1>3 DEF MachineState
  <2>3. QED
    BY <1>2, <1>3, <2>1, <2>2 DEF MachineStep, Machine!vars
<1>4. CASE stack[2].pc # "return"
  <2>1. Phase = "execution" /\ Turn = stack[2].i
    BY <1>1, <1>4 DEF MachineState
  <2>2. Phase' = "execution" /\ Turn' = stack'[2].i
    BY <1>1, <1>4 DEF MachineState
  <2>3. QED
    BY <1>2, <2>1, <2>2 DEF MachineStep, Machine!vars
<1>5. QED
  BY <1>3, <1>4

LEMMA MovedStep ==
  ASSUME StepContext, stack # <<>>, Top.fn \in {"Execute", "HandleResult"},
         Top.pc \in {"begin", "call"}, NEW pc \in {"call", "end"}, MayGoTo(pc),
         stack' = GoTo(pc)
  PROVE  MachineStep
<1>1. IInv /\ CallsNest
  BY StepMachine
<1>2. /\ stack' \in Seq(Frame) /\ Len(stack') = Depth /\ Depth \in Nat
      /\ Top = stack[Depth]
      /\ stack'[Depth].pc = pc /\ stack'[Depth].i = Top.i
      /\ \A j \in 1 .. Depth - 1 : stack'[j] = stack[j]
  BY <1>1, MovedTop
<1>3. Depth' = Depth
  BY <1>2 DEF Depth
<1>4. CASE Depth >= 4
  BY <1>2, <1>4, DeepStep
<1>5. CASE Depth = 2
  <2>1. /\ stack'[1] = stack[1] /\ stack'[2].i = stack[2].i
        /\ stack[2].pc \in {"begin", "call", "end"}
        /\ stack'[2].pc \in {"begin", "call", "end"}
    BY <1>2, <1>5
  <2>2. QED
    BY <1>3, <1>5, <2>1, SameStep
<1>6. CASE Depth = 3
  <2>1. /\ stack'[1] = stack[1] /\ stack'[2] = stack[2] /\ stack'[3].i = stack[3].i
        /\ Top = stack[3] /\ Top.fn # "Execute"
    BY <1>1, <1>2, <1>6, LevelOfTop
  <2>2. stack[2].pc = "return"
    BY <1>1, <1>6, <2>1, Levels
  <2>3. QED
    BY <1>3, <1>6, <2>1, <2>2, SameStep
<1>7. QED
  BY <1>1, <1>2, <1>4, <1>5, <1>6, LevelOfTop

LEMMA CalledBackStep ==
  ASSUME StepContext, stack # <<>>, Top.fn = "Execute", Top.pc = "call",
         MayGoTo("end"), NEW f \in Frame, NEW g \in Frame,
         stack' = GoTo("end") \o <<f, g>>
  PROVE  MachineStep
<1>1. IInv /\ CallsNest
  BY StepMachine
<1>2. /\ GoTo("end") \in Seq(Frame) /\ Len(GoTo("end")) = Depth /\ Depth \in Nat
      /\ Top = stack[Depth]
      /\ GoTo("end")[Depth].pc = "end" /\ GoTo("end")[Depth].i = Top.i
      /\ \A j \in 1 .. Depth - 1 : GoTo("end")[j] = stack[j]
  BY <1>1, MovedTop
<1>3. /\ stack' \in Seq(Frame) /\ Len(stack') = Depth + 2
      /\ \A j \in 1 .. Depth : stack'[j] = GoTo("end")[j]
  BY <1>2, PushTwo
<1>4. Depth' = Depth + 2
  BY <1>3 DEF Depth
<1>5. CASE Depth >= 4
  BY <1>2, <1>3, <1>5, DeepStep
<1>6. CASE Depth = 2
  <2>1. /\ stack'[1] = stack[1] /\ stack'[2].i = stack[2].i
        /\ stack[2].pc \in {"begin", "call", "end"}
        /\ stack'[2].pc \in {"begin", "call", "end"}
    BY <1>2, <1>3, <1>6
  <2>2. Depth' >= 2
    BY <1>4, <1>6
  <2>3. QED
    BY <1>6, <2>1, <2>2, SameStep
<1>7. QED
  BY <1>1, <1>5, <1>6, LevelOfTop

LEMMA RunBeginStep ==
  ASSUME StepContext, RunBegin
  PROVE  MachineStep
<1>1. stack' = <<Call("Run", 1, "begin")>> /\ Depth = 0
  BY DEF RunBegin, Depth
<1>2. Depth' = 1 /\ stack'[1].i = 1 /\ stack'[1].pc # "executing"
  BY <1>1 DEF Depth, Call
<1>3. /\ Phase = "idle" /\ Cursor = 0 /\ Turn = 0
      /\ Phase' = "population" /\ Cursor' = 1 /\ Turn' = 0
  BY <1>1, <1>2, StepMachine DEF MachineState
<1>4. QED
  BY <1>3 DEF MachineStep, Machine!Next, Machine!Start

LEMMA PopulateStep ==
  ASSUME StepContext, Populate
  PROVE  MachineStep
<1>0. IInv /\ CallsNest /\ MachineState /\ MachineState' /\ IInv'
  BY StepMachine DEF StepContext
<1>1. stack # <<>> /\ Top.fn = "Run" /\ Top.pc = "begin" /\ Top.i <= N
  BY DEF Populate, Running
<1>2. Depth = 1 /\ Top = stack[1]
  BY <1>0, <1>1, LevelOfTop
<1>3. Phase = "population" /\ Turn = 0 /\ Cursor = stack[1].i
  BY <1>0, <1>1, <1>2 DEF MachineState
<1>4. CASE NoCommand
  <2>1. stack' = Advance
    BY <1>4 DEF NoCommand
  <2>2. Len(stack') = 1 /\ stack'[1].pc = "begin" /\ stack'[1].i = stack[1].i + 1
    BY <1>0, <1>1, <1>2, <2>1, AdvancedTop
  <2>3. Phase' = "population" /\ Turn' = 0 /\ Cursor' = stack[1].i + 1
    BY <1>0, <2>2 DEF MachineState, Depth
  <2>4. QED
    BY <1>1, <1>2, <1>3, <2>3 DEF MachineStep, Machine!Next, Machine!Skip
<1>5. ASSUME NEW id, NEW text, Command(id, text) PROVE MachineStep
  <2> DEFINE f == ExecuteCall(cmdId', para'.data)
  <2>1. f \in Frame /\ f.pc = "begin" /\ f.i = 1
    <3>1. cmdId' \in 0 .. UIntSize - 1 /\ para'.data \in Seq(Token)
      BY <1>0 DEF IInv, TypeOK
    <3>2. QED
      BY <3>1, NewFrames DEF ExecuteCall
  <2>2. stack' = Append(GoTo("executing"), f)
    BY <1>5 DEF Command
  <2> HIDE DEF f
  <2>3. MayGoTo("executing")
    BY <1>1 DEF MayGoTo
  <2>4. /\ GoTo("executing") \in Seq(Frame) /\ Len(GoTo("executing")) = 1
        /\ GoTo("executing")[1].i = stack[1].i
    BY <1>0, <1>1, <1>2, <2>3, MovedTop
  <2>5. /\ Len(stack') = 2 /\ stack'[2] = f
        /\ stack'[1].i = stack[1].i
    BY <2>1, <2>2, <2>4, PushOne
  <2>6. Depth' = 2 /\ Depth' >= 2
    BY <2>5 DEF Depth
  <2>7. Phase' = "execution" /\ Turn' = 1 /\ Cursor' = stack[1].i
    BY <1>0, <2>1, <2>5, <2>6 DEF MachineState
  <2>8. QED
    BY <1>1, <1>2, <1>3, <2>7 DEF MachineStep, Machine!Next, Machine!Pause
<1>6. \/ NoCommand
      \/ \E id, text : Command(id, text)
  BY DEF Populate, UartPopulate, GeneratorPopulate
<1>7. QED
  BY <1>4, <1>5, <1>6

LEMMA RunResumeStep ==
  ASSUME StepContext, RunResume
  PROVE  MachineStep
<1>0. IInv /\ CallsNest /\ MachineState /\ MachineState'
  BY StepMachine
<1>1. /\ stack # <<>> /\ Top.fn = "Run" /\ Top.pc = "executing" /\ Top.i <= N
      /\ stack' = Advance
  BY <1>0, InvParts DEF RunResume, Running, Frame
<1>2. Depth = 1 /\ Top = stack[1]
  BY <1>0, <1>1, LevelOfTop
<1>3. Phase = "population" /\ Turn = 0 /\ Cursor = stack[1].i + 1
  BY <1>0, <1>1, <1>2 DEF MachineState
<1>4. Len(stack') = 1 /\ stack'[1].pc = "begin" /\ stack'[1].i = stack[1].i + 1
  BY <1>0, <1>1, <1>2, AdvancedTop
<1>5. Phase' = "population" /\ Turn' = 0 /\ Cursor' = stack[1].i + 1
  BY <1>0, <1>4 DEF MachineState, Depth
<1>6. QED
  BY <1>3, <1>5 DEF MachineStep, Machine!vars

LEMMA RunEndStep ==
  ASSUME StepContext, RunEnd
  PROVE  MachineStep
<1>0. IInv /\ CallsNest /\ MachineState /\ MachineState'
  BY StepMachine
<1>1. /\ stack # <<>> /\ Top.fn = "Run" /\ Top.pc = "begin" /\ Top.i > N
      /\ stack' = Return
  BY DEF RunEnd, Running
<1>2. Depth = 1 /\ Top = stack[1]
  BY <1>0, <1>1, LevelOfTop
<1>3. Phase = "population" /\ Turn = 0 /\ Cursor = stack[1].i
  BY <1>0, <1>1, <1>2 DEF MachineState
<1>4. Len(stack') = 0
  BY <1>0, <1>1, <1>2, ReturnStack DEF IInv
<1>5. Phase' = "idle" /\ Turn' = 0 /\ Cursor' = 0
  BY <1>0, <1>4 DEF MachineState, Depth
<1>6. QED
  BY <1>1, <1>2, <1>3, <1>5 DEF MachineStep, Machine!Next, Machine!Finish

\* One service had the command or the result: the next one is offered it, unless
\* the command was handled.
LEMMA EndServiceStep ==
  ASSUME StepContext, EndService
  PROVE  MachineStep
<1>0. IInv /\ CallsNest /\ MachineState /\ MachineState'
  BY StepMachine
<1>1. /\ stack # <<>> /\ Top.fn \in {"Execute", "HandleResult"} /\ Top.pc = "end"
      /\ Top.i <= N
  BY <1>0, InvParts DEF EndService, Running, Frame
<1>2. Depth \in Nat /\ Depth >= 2 /\ Top = stack[Depth]
  BY <1>0, <1>1, LevelOfTop
<1>3. CASE Top.fn = "Execute" /\ executed
  <2>1. stack' = GoTo("finish") /\ MayGoTo("finish")
    BY <1>3 DEF EndService, MayGoTo, ExecutePcs
  <2>2. /\ stack' \in Seq(Frame) /\ Len(stack') = Depth
        /\ stack'[Depth].pc = "finish" /\ stack'[Depth].i = Top.i
        /\ \A j \in 1 .. Depth - 1 : stack'[j] = stack[j]
    BY <1>0, <1>1, <2>1, MovedTop
  <2>3. CASE Depth >= 4
    BY <1>2, <2>2, <2>3, DeepStep
  <2>4. CASE Depth = 2
    <3>1. /\ Depth' = 2 /\ Depth' >= 2 /\ Depth >= 2
          /\ stack'[1] = stack[1] /\ stack'[2].pc = "finish"
          /\ stack'[2].i = stack[2].i
          /\ stack[2].pc \in {"begin", "call", "end"} /\ stack[2].i <= N
      BY <1>1, <1>2, <2>2, <2>4 DEF Depth
    <3>2. Phase = "execution" /\ Turn = stack[2].i /\ Cursor = stack[1].i
      BY <1>0, <3>1 DEF MachineState
    <3>3. Phase' = "handled" /\ Turn' = stack[2].i /\ Cursor' = stack[1].i
      BY <1>0, <3>1 DEF MachineState
    <3>4. QED
      BY <3>1, <3>2, <3>3 DEF MachineStep, Machine!Next, Machine!Handle
  <2>5. QED
    BY <1>0, <1>1, <1>3, <2>3, <2>4, LevelOfTop
<1>4. CASE ~(Top.fn = "Execute" /\ executed)
  <2>1. stack' = Advance
    BY <1>4 DEF EndService
  <2>2. /\ stack' \in Seq(Frame) /\ Len(stack') = Depth
        /\ stack'[Depth].pc = "begin" /\ stack'[Depth].i = Top.i + 1
        /\ \A j \in 1 .. Depth - 1 : stack'[j] = stack[j]
    BY <1>0, <1>1, <2>1, AdvancedTop
  <2>3. CASE Depth >= 4
    BY <1>2, <2>2, <2>3, DeepStep
  <2>4. CASE Depth = 2
    <3>1. /\ Depth' = 2 /\ Depth' >= 2 /\ Depth >= 2
          /\ stack'[1] = stack[1] /\ stack'[2].pc \in {"begin", "call", "end"}
          /\ stack'[2].i = stack[2].i + 1
          /\ stack[2].pc \in {"begin", "call", "end"} /\ stack[2].i <= N
      BY <1>1, <1>2, <2>2, <2>4 DEF Depth
    <3>2. Phase = "execution" /\ Turn = stack[2].i /\ Cursor = stack[1].i
      BY <1>0, <3>1 DEF MachineState
    <3>3. Phase' = "execution" /\ Turn' = stack[2].i + 1 /\ Cursor' = stack[1].i
      BY <1>0, <3>1 DEF MachineState
    <3>4. QED
      BY <3>1, <3>2, <3>3 DEF MachineStep, Machine!Next, Machine!Offer
  <2>5. CASE Depth = 3
    <3>1. /\ Depth' = 3 /\ Depth' >= 2 /\ Depth >= 2 /\ Depth' >= 3 /\ Depth >= 3
          /\ stack'[1] = stack[1] /\ stack'[2] = stack[2]
          /\ stack'[3].i = stack[3].i + 1 /\ stack[3].i <= N
          /\ Top = stack[3]
      BY <1>1, <1>2, <2>2, <2>5 DEF Depth
    <3>2. stack[2].pc = "return" /\ stack'[2].pc = "return"
      BY <1>0, <1>1, <2>5, <3>1, Levels
    <3>3. Phase = "dispatch" /\ Turn = stack[3].i /\ Cursor = stack[1].i
      BY <1>0, <3>1, <3>2 DEF MachineState
    <3>4. Phase' = "dispatch" /\ Turn' = stack[3].i + 1 /\ Cursor' = stack[1].i
      BY <1>0, <3>1, <3>2 DEF MachineState
    <3>5. QED
      BY <3>1, <3>3, <3>4 DEF MachineStep, Machine!Next, Machine!Offer
  <2>6. QED
    BY <1>2, <2>3, <2>4, <2>5
<1>5. QED
  BY <1>3, <1>4

\* Only a command that a service handled has a result to dispatch.
LEMMA ExecuteDispatchStep ==
  ASSUME StepContext, ExecuteDispatch
  PROVE  MachineStep
<1>0. IInv /\ CallsNest /\ CommandKept /\ MachineState /\ MachineState'
  BY StepMachine
<1>1. stack # <<>> /\ Top.fn = "Execute" /\ executed
  BY DEF ExecuteDispatch, Offered, Running
<1>2. Top.pc = "finish"
  BY <1>0, <1>1 DEF CommandKept, ExecuteDispatch, Offered, Running
<1> DEFINE f == Call("HandleResult", 1, "begin")
<1>3. f \in Frame /\ f.fn = "HandleResult" /\ f.i = 1
  BY NewFrames DEF Call
<1>4. stack' = Append(GoTo("return"), f)
  BY DEF ExecuteDispatch
<1> HIDE DEF f
<1>5. MayGoTo("return")
  BY <1>1 DEF MayGoTo, ExecutePcs
<1>6. /\ GoTo("return") \in Seq(Frame) /\ Len(GoTo("return")) = Depth
      /\ Depth \in Nat /\ Depth >= 1
      /\ Top = stack[Depth] /\ GoTo("return")[Depth].pc = "return"
      /\ \A j \in 1 .. Depth - 1 : GoTo("return")[j] = stack[j]
  BY <1>0, <1>1, <1>5, MovedTop
<1>7. /\ stack' \in Seq(Frame) /\ Len(stack') = Depth + 1
      /\ stack'[Depth + 1] = f
      /\ \A j \in 1 .. Depth : stack'[j] = GoTo("return")[j]
  BY <1>3, <1>4, <1>6, PushOne
<1>8. CASE Depth >= 4
  BY <1>6, <1>7, <1>8, DeepStep
<1>9. CASE Depth = 2
  <2>1. /\ Depth' = 3 /\ Depth' >= 2 /\ Depth >= 2 /\ Depth' >= 3
        /\ stack'[1] = stack[1] /\ stack'[2].pc = "return"
        /\ stack'[3].i = 1 /\ stack[2].pc = "finish"
    BY <1>2, <1>3, <1>6, <1>7, <1>9 DEF Depth
  <2>2. Phase = "handled" /\ Cursor = stack[1].i
    BY <1>0, <2>1 DEF MachineState
  <2>3. Phase' = "dispatch" /\ Turn' = 1 /\ Cursor' = stack[1].i
    BY <1>0, <2>1 DEF MachineState
  <2>4. QED
    BY <2>2, <2>3 DEF MachineStep, Machine!Next, Machine!Dispatch
<1>10. QED
  BY <1>0, <1>1, <1>8, <1>9, LevelOfTop

LEMMA ExecuteReturnStep ==
  ASSUME StepContext, ExecuteReturn
  PROVE  MachineStep
<1>0. IInv /\ CallsNest /\ MachineState /\ MachineState'
  BY StepMachine
<1>1. /\ stack # <<>> /\ Top.fn = "Execute" /\ stack' = Return
      /\ \/ Top.pc \in {"finish", "return"}
         \/ Top.pc = "begin" /\ Top.i > N
  BY DEF ExecuteReturn, Offered, Running
<1>2. /\ stack' \in Seq(Frame) /\ Len(stack') = Depth - 1
      /\ \A j \in 1 .. Depth - 1 : stack'[j] = stack[j]
      /\ Depth \in Nat /\ Top = stack[Depth]
  BY <1>0, <1>1, ReturnStack, StackTop DEF IInv, Top
<1>3. CASE Depth >= 4
  BY <1>2, <1>3, DeepStep
<1>4. CASE Depth = 2
  <2>1. /\ Depth' = 1 /\ Depth >= 2
        /\ stack'[1] = stack[1] /\ stack[1].pc = "executing"
        /\ \/ stack[2].pc \in {"finish", "return"}
           \/ stack[2].pc = "begin" /\ stack[2].i > N
        /\ N \in Nat
    BY <1>0, <1>1, <1>2, <1>4, Levels DEF Depth
  <2>2. /\ Cursor = stack[1].i
        /\ \/ Phase = "handled"
           \/ Phase \in {"execution", "dispatch"} /\ Turn > N
    BY <1>0, <1>4, <2>1 DEF MachineState
  <2>3. Phase' = "population" /\ Turn' = 0 /\ Cursor' = stack[1].i + 1
    BY <1>0, <2>1 DEF MachineState
  <2>4. QED
    BY <2>2, <2>3 DEF MachineStep, Machine!Next, Machine!Resume
<1>5. QED
  BY <1>0, <1>1, <1>3, <1>4, LevelOfTop

LEMMA HandleResultReturnStep ==
  ASSUME StepContext, HandleResultReturn
  PROVE  MachineStep
<1>0. IInv /\ CallsNest /\ MachineState /\ MachineState'
  BY StepMachine
<1>1. /\ stack # <<>> /\ Top.fn = "HandleResult" /\ stack' = Return
      /\ Top.i > N
  BY DEF HandleResultReturn, Running
<1>2. /\ stack' \in Seq(Frame) /\ Len(stack') = Depth - 1
      /\ \A j \in 1 .. Depth - 1 : stack'[j] = stack[j]
      /\ Depth \in Nat /\ Top = stack[Depth] /\ Depth >= 3
  BY <1>0, <1>1, ReturnStack, LevelOfTop DEF IInv
<1>3. Top.i = N + 1
  <2>1. Top \in Frame /\ N \in Nat
    BY <1>0, <1>1, InvParts
  <2>2. QED
    BY <1>1, <2>1 DEF Frame, AnyFrame
<1>4. CASE Depth >= 4
  BY <1>2, <1>4, DeepStep
<1>5. CASE Depth = 3
  <2>1. /\ Depth' = 2 /\ Depth >= 2 /\ Depth >= 3 /\ Depth' >= 2
        /\ stack'[1] = stack[1] /\ stack'[2] = stack[2]
        /\ stack[2].pc = "return" /\ stack[3].i = N + 1
    BY <1>0, <1>1, <1>2, <1>3, <1>5, Levels DEF Depth
  <2>2. Phase = "dispatch" /\ Cursor = stack[1].i /\ Turn = N + 1
    BY <1>0, <2>1 DEF MachineState
  <2>3. Phase' = "dispatch" /\ Turn' = N + 1 /\ Cursor' = stack[1].i
    BY <1>0, <2>1 DEF MachineState
  <2>4. QED
    BY <2>2, <2>3 DEF MachineStep, Machine!vars
<1>6. QED
  BY <1>2, <1>4, <1>5

LEMMA CallBackReturnStep ==
  ASSUME StepContext, SystemReturn \/ RouterReturn
  PROVE  MachineStep
<1>0. IInv /\ CallsNest
  BY StepMachine
<1>1. stack # <<>> /\ Top.fn \in {"System", "Router"} /\ stack' = Return
  BY DEF SystemReturn, RouterReturn, Running
<1>2. /\ stack' \in Seq(Frame) /\ Len(stack') = Depth - 1
      /\ \A j \in 1 .. Depth - 1 : stack'[j] = stack[j]
      /\ Depth \in Nat /\ Top = stack[Depth] /\ Depth >= 3
  BY <1>0, <1>1, ReturnStack, LevelOfTop DEF IInv
<1>3. CASE Depth >= 4
  BY <1>2, <1>3, DeepStep
<1>4. CASE Depth = 3
  <2>1. /\ Depth' >= 2 /\ stack'[1] = stack[1] /\ stack'[2] = stack[2]
        /\ stack[2].pc = "end"
    BY <1>0, <1>1, <1>2, <1>4, Levels DEF Depth
  <2>2. QED
    BY <1>4, <2>1, SameStep
<1>5. QED
  BY <1>2, <1>3, <1>4

LEMMA SameServiceStep ==
  ASSUME StepContext,
         \/ BeginService \/ HandleResult
         \/ ExecutorExecute \/ SystemHelp \/ SystemNoResult
         \/ RouterRelay \/ RouterDiscard \/ Ignore
  PROVE  MachineStep
<1>0. IInv
  BY StepMachine
<1>1. CASE BeginService
  <2>1. /\ stack # <<>> /\ Top.fn \in {"Execute", "HandleResult"} /\ Top.pc = "begin"
        /\ stack' = GoTo("call") /\ MayGoTo("call")
    BY <1>1 DEF BeginService, Running, MayGoTo, ExecutePcs, HandlePcs
  <2>2. QED
    BY <2>1, MovedStep
<1>2. CASE HandleResult
  <2>1. /\ stack # <<>> /\ Top.fn = "HandleResult" /\ Top.pc = "call" /\ Top \in Frame
        /\ stack' = GoTo("end")
    BY <1>0, <1>2, InvParts DEF HandleResult, Running
  <2>2. MayGoTo("end")
    BY <2>1 DEF Frame, MayGoTo, HandlePcs
  <2>3. QED
    BY <2>1, <2>2, MovedStep
<1>3. CASE ~BeginService /\ ~HandleResult
  <2>1. stack' = GoTo("end") /\ \E kind : Executing(kind)
    BY <1>3 DEF ExecutorExecute, SystemHelp, SystemNoResult, RouterRelay,
                RouterDiscard, Ignore, Routes
  <2>2. stack # <<>> /\ Top.fn = "Execute" /\ Top.pc = "call" /\ MayGoTo("end")
    BY <1>0, <2>1, ExecutingService DEF Executing, Running
  <2>3. QED
    BY <2>1, <2>2, MovedStep
<1>4. QED
  BY <1>1, <1>2, <1>3

LEMMA CallBackStep ==
  ASSUME StepContext, SystemResult \/ RouterDeliver
  PROVE  MachineStep
<1>0. IInv /\ IInv'
  BY StepMachine DEF StepContext
<1>1. CASE SystemResult
  <2>1. /\ stack # <<>> /\ Top.fn = "Execute" /\ Top.pc = "call" /\ Top.i \in 1 .. N
        /\ MayGoTo("end")
    BY <1>0, <1>1, ExecutingService DEF SystemResult, Executing, Running
  <2> DEFINE f == Call("System", Top.i, "call")
             g == Call("HandleResult", 1, "begin")
  <2>2. f \in Frame /\ g \in Frame
    BY <2>1, NewFrames
  <2>3. stack' = GoTo("end") \o <<f, g>>
    BY <1>1 DEF SystemResult
  <2> HIDE DEF f, g
  <2>4. QED
    BY <2>1, <2>2, <2>3, CalledBackStep
<1>2. CASE RouterDeliver
  <2>1. /\ stack # <<>> /\ Top.fn = "Execute" /\ Top.pc = "call" /\ Top.i \in Routers
        /\ MayGoTo("end")
    BY <1>0, <1>2, ExecutingService
       DEF RouterDeliver, Routes, Service, Routers, Executing, Running
  <2> DEFINE f == RouterCall(Top.i)
             g == ExecuteCall(cmdId', para'.data)
  <2>2. f \in Frame /\ g \in Frame
    <3>1. cmdId' \in 0 .. UIntSize - 1 /\ para'.data \in Seq(Token)
          /\ override \in Routers \union {0}
      BY <1>0 DEF IInv, TypeOK
    <3>2. QED
      BY <2>1, <3>1, NewFrames
  <2>3. stack' = GoTo("end") \o <<f, g>>
    BY <1>2 DEF RouterDeliver
  <2> HIDE DEF f, g
  <2>4. QED
    BY <2>1, <2>2, <2>3, CalledBackStep
<1>3. QED
  BY <1>1, <1>2

LEMMA NextStep == IInv /\ NInv /\ [Next]_vars => MachineStep
<1> SUFFICES ASSUME IInv, NInv, [Next]_vars PROVE MachineStep
  OBVIOUS
<1>0. StepContext
  BY NextInv, NextNest DEF StepContext
<1>1. CASE UNCHANGED vars
  <2>1. UNCHANGED <<Phase, Cursor, Turn>>
    BY <1>1 DEF vars, Phase, Cursor, Turn, Resuming, Depth
  <2>2. QED
    BY <2>1 DEF MachineStep, Machine!vars
<1>2. CASE RunBegin \/ Populate \/ RunResume \/ RunEnd
  BY <1>0, <1>2, RunBeginStep, PopulateStep, RunResumeStep, RunEndStep
<1>3. CASE EndService \/ ExecuteDispatch \/ ExecuteReturn \/ HandleResultReturn
  BY <1>0, <1>3, EndServiceStep, ExecuteDispatchStep, ExecuteReturnStep,
     HandleResultReturnStep
<1>4. CASE \/ BeginService \/ HandleResult
           \/ ExecutorExecute \/ SystemHelp \/ SystemNoResult
           \/ RouterRelay \/ RouterDiscard \/ Ignore
  BY <1>0, <1>4, SameServiceStep
<1>5. CASE SystemResult \/ RouterDeliver \/ SystemReturn \/ RouterReturn
  BY <1>0, <1>5, CallBackStep, CallBackReturnStep
<1>6. QED
  BY <1>1, <1>2, <1>3, <1>4, <1>5 DEF Next

\* The host is the three-state machine of readme.md ("Framework"): it starts as
\* the machine does, and each of its steps, at whatever depth its services call
\* it back, is a step of the machine or none.  That no call lasts for ever, the
\* rest of ImplementsDispatcher, is left to the run.
THEOREM HostIsTheMachine == Spec => Machine!Init /\ [][Machine!Next]_(Machine!vars)
<1>1. Init => Machine!Init
  BY DEF Init, Machine!Init, Phase, Cursor, Turn, Depth
<1>2. IInv /\ NInv /\ [Next]_vars => [Machine!Next]_(Machine!vars)
  BY NextStep DEF MachineStep
<1>3. QED
  BY <1>1, <1>2, Nesting, PTL DEF Spec

-----------------------------------------------------------------------------
(* Ranks of the routers of a list.                                        *)

\* The elements of a finite set of numbers are told apart by their ranks.
LEMMA Ranks ==
  ASSUME NEW S \in SUBSET Nat, IsFiniteSet(S)
  PROVE  /\ Cardinality(S) \in Nat
         /\ \A x \in Nat : /\ Rank(S, x) \in 0 .. Cardinality(S)
                           /\ IsFiniteSet({y \in S : y <= x})
         /\ \A x \in Nat, y \in S : x < y => Rank(S, x) < Rank(S, y)
         /\ \A x \in S : Rank(S, x) >= 1 /\ Nth(S, Rank(S, x)) = x
<1>1. Cardinality(S) \in Nat
  BY FS_CardinalityType
<1>2. ASSUME NEW x \in Nat
      PROVE  /\ Rank(S, x) \in 0 .. Cardinality(S) /\ Rank(S, x) \in Nat
             /\ IsFiniteSet({y \in S : y <= x})
  <2> DEFINE T == {y \in S : y <= x}
  <2>1. T \in SUBSET S
    OBVIOUS
  <2>2. IsFiniteSet(T) /\ Cardinality(T) <= Cardinality(S)
    BY <2>1, FS_Subset
  <2>3. Cardinality(T) \in Nat
    BY <2>2, FS_CardinalityType
  <2>4. QED
    BY <1>1, <2>2, <2>3 DEF Rank
<1>3. ASSUME NEW x \in Nat, NEW y \in S, x < y PROVE Rank(S, x) < Rank(S, y)
  <2> DEFINE T == {z \in S : z <= x}
             U == {z \in S : z <= y}
  <2>1. IsFiniteSet(T) /\ IsFiniteSet(U) /\ y \notin T /\ y \in Nat
    BY <1>2, <1>3
  <2>2. IsFiniteSet(T \cup {y}) /\ Cardinality(T \cup {y}) = Cardinality(T) + 1
    BY <2>1, FS_AddElement
  <2>3. T \cup {y} \in SUBSET U
    <3>1. \A z \in S : z \in Nat /\ (z <= x => z <= y) /\ (z = y => z <= y)
      BY <1>3, <2>1
    <3>2. QED
      BY <3>1
  <2>4. Cardinality(T \cup {y}) <= Cardinality(U)
    BY <2>1, <2>3, FS_Subset
  <2>5. Rank(S, x) = Cardinality(T) /\ Rank(S, y) = Cardinality(U)
    BY DEF Rank
  <2>6. Cardinality(T) \in Nat /\ Cardinality(U) \in Nat
    BY <2>1, FS_CardinalityType
  <2> HIDE DEF T, U
  <2>7. QED
    BY <2>2, <2>4, <2>5, <2>6
<1>4. ASSUME NEW x \in S PROVE Rank(S, x) >= 1 /\ Nth(S, Rank(S, x)) = x
  <2> DEFINE T == {y \in S : y <= x}
  <2>1. x \in T /\ IsFiniteSet(T) /\ x \in Nat
    BY <1>2
  <2>2. Cardinality(T) # 0 /\ Cardinality(T) \in Nat
    BY <2>1, FS_EmptySet, FS_CardinalityType
  <2>3. Rank(S, x) = Cardinality(T)
    BY DEF Rank
  <2>4. \A y \in S : Rank(S, y) = Rank(S, x) => y = x
    <3>1. SUFFICES ASSUME NEW y \in S, Rank(S, y) = Rank(S, x), y # x PROVE FALSE
      OBVIOUS
    <3>2. x \in Nat /\ y \in Nat /\ (x < y \/ y < x)
      BY <3>1
    <3>3. Rank(S, x) \in Nat
      BY <1>2, <3>2
    <3>4. QED
      BY <1>3, <3>1, <3>2, <3>3
  <2>5. Nth(S, Rank(S, x)) = x
    BY <2>4 DEF Nth
  <2>6. QED
    BY <2>2, <2>3, <2>5
<1>5. QED
  BY <1>1, <1>2, <1>3, <1>4

-----------------------------------------------------------------------------
(* What the functions of Node are.                                         *)

\* The chain of the commands below the prefixes.
LEMMA BelowExists ==
  ASSUME NEW cmd
  PROVE  \E f : f = [k \in Nat |-> IF k = 0 THEN cmd ELSE Wrapped(f[k - 1])]
<1> DEFINE D(f, n) == [k \in 0 .. n |-> IF k = 0 THEN cmd ELSE Wrapped(f[k - 1])]
           Missing == {n \in Nat : ~\E f : f = D(f, n)}
<1>1. \A n \in Nat : \E f : f = D(f, n)
  <2>1. SUFFICES ASSUME Missing # {} PROVE FALSE
    OBVIOUS
  <2>2. PICK n \in Missing : \A m \in Missing : n <= m
    <3>1. Missing \subseteq Nat
      OBVIOUS
    <3> HIDE DEF Missing
    <3>2. QED
      BY <2>1, <3>1, NatMin
  <2>3. n \in Nat /\ ~\E f : f = D(f, n)
    OBVIOUS
  <2>4. n # 0
    <3>1. SUFFICES ASSUME n = 0 PROVE FALSE
      OBVIOUS
    <3> DEFINE g == [k \in 0 .. 0 |-> cmd]
    <3>2. \A k \in 0 .. 0 : k = 0
      OBVIOUS
    <3>3. D(g, 0) = g
      BY <3>2
    <3> HIDE DEF g
    <3>4. QED
      BY <2>3, <3>1, <3>3
  <2>5. n - 1 \in Nat /\ ~(n <= n - 1)
    BY <2>3, <2>4
  <2>6. PICK f : f = D(f, n - 1)
    <3>1. n - 1 \notin Missing
      BY <2>2, <2>5
    <3>2. QED
      BY <2>5, <3>1
  <2> DEFINE g == [k \in 0 .. n |-> IF k = n THEN Wrapped(f[n - 1]) ELSE f[k]]
  <2>7. \A k \in 0 .. n : g[k] = IF k = 0 THEN cmd ELSE Wrapped(g[k - 1])
    <3>1. SUFFICES ASSUME NEW k \in 0 .. n PROVE g[k] = IF k = 0 THEN cmd ELSE Wrapped(g[k - 1])
      OBVIOUS
    <3>2. CASE k = n
      BY <2>3, <2>4, <2>5, <3>2
    <3>3. CASE k # n
      <4>1. k \in 0 .. n - 1 /\ k \in 0 .. n
        BY <2>3, <3>3
      <4>2. k # 0 => k - 1 \in 0 .. n /\ k - 1 # n
        BY <2>3, <4>1
      <4>3. f[k] = IF k = 0 THEN cmd ELSE Wrapped(f[k - 1])
        <5>1. D(f, n - 1)[k] = IF k = 0 THEN cmd ELSE Wrapped(f[k - 1])
          BY <4>1
        <5>2. QED
          BY <2>6, <5>1
      <4>4. QED
        BY <3>3, <4>1, <4>2, <4>3
    <3>4. QED
      BY <3>2, <3>3
  <2>8. g = D(g, n)
    <3>1. g = [k \in 0 .. n |-> g[k]]
      OBVIOUS
    <3> HIDE DEF g
    <3>2. QED
      BY <2>7, <3>1
  <2> HIDE DEF g
  <2>9. QED
    BY <2>3, <2>8
<1> DEFINE F(n) == CHOOSE f : f = D(f, n)
<1>2. \A n \in Nat : F(n) = D(F(n), n)
  BY <1>1
<1>3. \A n \in Nat, k \in Nat : k <= n => F(n)[k] = IF k = 0 THEN cmd ELSE Wrapped(F(n)[k - 1])
  <2>1. SUFFICES ASSUME NEW n \in Nat, NEW k \in Nat, k <= n
                 PROVE  F(n)[k] = IF k = 0 THEN cmd ELSE Wrapped(F(n)[k - 1])
    OBVIOUS
  <2>2. \A f : D(f, n)[k] = IF k = 0 THEN cmd ELSE Wrapped(f[k - 1])
    BY <2>1
  <2> HIDE DEF F
  <2>3. QED
    BY <1>2, <2>2
<1> HIDE DEF F, D
<1>4. \A k \in Nat : \A n \in Nat : k <= n => F(n)[k] = F(k)[k]
  <2> DEFINE Apart == {k \in Nat : \E n \in Nat : k <= n /\ F(n)[k] # F(k)[k]}
  <2>1. SUFFICES ASSUME Apart # {} PROVE FALSE
    OBVIOUS
  <2>2. PICK k \in Apart : \A m \in Apart : k <= m
    <3>1. Apart \subseteq Nat
      OBVIOUS
    <3> HIDE DEF Apart
    <3>2. QED
      BY <2>1, <3>1, NatMin
  <2>3. PICK n \in Nat : k <= n /\ F(n)[k] # F(k)[k]
    OBVIOUS
  <2>4. k \in Nat /\ k <= k
    OBVIOUS
  <2>5. k # 0
    BY <1>3, <2>3, <2>4
  <2>6. k - 1 \in Nat /\ k - 1 <= n /\ k - 1 <= k /\ ~(k <= k - 1)
    BY <2>3, <2>4, <2>5
  <2>7. F(n)[k - 1] = F(k - 1)[k - 1] /\ F(k)[k - 1] = F(k - 1)[k - 1]
    BY <2>2, <2>4, <2>6
  <2>8. QED
    BY <1>3, <2>3, <2>4, <2>5, <2>7
<1> DEFINE g == [k \in Nat |-> F(k)[k]]
<1>5. \A k \in Nat : g[k] = IF k = 0 THEN cmd ELSE Wrapped(g[k - 1])
  <2>1. SUFFICES ASSUME NEW k \in Nat PROVE g[k] = IF k = 0 THEN cmd ELSE Wrapped(g[k - 1])
    OBVIOUS
  <2>2. k # 0 => k - 1 \in Nat /\ k - 1 <= k
    OBVIOUS
  <2>3. k <= k
    OBVIOUS
  <2>4. QED
    BY <1>3, <1>4, <2>2, <2>3
<1>6. g = [k \in Nat |-> g[k]]
  OBVIOUS
<1> HIDE DEF g
<1>7. g = [k \in Nat |-> IF k = 0 THEN cmd ELSE Wrapped(g[k - 1])]
  BY <1>5, <1>6
<1>8. QED
  BY <1>7

LEMMA BelowSteps ==
  ASSUME NEW cmd
  PROVE  /\ Below(cmd)[0] = cmd
         /\ \A k \in Nat : Below(cmd)[k + 1] = Wrapped(Below(cmd)[k])
<1> DEFINE D(f) == [k \in Nat |-> IF k = 0 THEN cmd ELSE Wrapped(f[k - 1])]
           b == Below(cmd)
<1>1. Below(cmd) = CHOOSE f : f = D(f)
  BY DEF Below
<1>2. b = D(b)
  BY <1>1, BelowExists
<1> HIDE DEF b
<1>3. \A k \in Nat : b[k] = IF k = 0 THEN cmd ELSE Wrapped(b[k - 1])
  <2>1. \A f : \A k \in Nat : D(f)[k] = IF k = 0 THEN cmd ELSE Wrapped(f[k - 1])
    OBVIOUS
  <2> HIDE DEF D
  <2>2. QED
    BY <1>2, <2>1
<1>4. \A k \in Nat : k + 1 \in Nat /\ k + 1 # 0 /\ (k + 1) - 1 = k
  OBVIOUS
<1>5. 0 \in Nat
  OBVIOUS
<1>6. QED
  BY <1>3, <1>4, <1>5 DEF b

\* The generators in turn.
Printed(f, k, id, text) ==
  IF k = 0 THEN <<>>
  ELSE IF Prints(Services[k], id) THEN Append(f[k - 1], <<k, text>>)
  ELSE f[k - 1]

ArePrints(f, n, id, text) == f = [k \in 0 .. n |-> Printed(f, k, id, text)]

LEMMA PrintsExists ==
  ASSUME NEW id, NEW text, NEW n \in Nat
  PROVE  \E f : ArePrints(f, n, id, text)
<1> USE DEF ArePrints
<1> DEFINE E(f, k) == Printed(f, k, id, text)
           Missing == {m \in Nat : ~\E f : f = [k \in 0 .. m |-> E(f, k)]}
<1>1. SUFFICES ASSUME Missing # {} PROVE FALSE
  OBVIOUS
<1>2. PICK m \in Missing : \A j \in Missing : m <= j
  <2>1. Missing \subseteq Nat
    OBVIOUS
  <2> HIDE DEF Missing
  <2>2. QED
    BY <1>1, <2>1, NatMin
<1>3. m \in Nat /\ ~\E f : f = [k \in 0 .. m |-> E(f, k)]
  OBVIOUS
<1>4. m # 0
  <2>1. SUFFICES ASSUME m = 0 PROVE FALSE
    OBVIOUS
  <2> DEFINE g == [k \in 0 .. 0 |-> <<>>]
  <2>2. \A k \in 0 .. 0 : k = 0
    OBVIOUS
  <2>3. [k \in 0 .. 0 |-> E(g, k)] = g
    BY <2>2 DEF Printed
  <2> HIDE DEF g, E
  <2>4. QED
    BY <1>3, <2>1, <2>3
<1>5. m - 1 \in Nat /\ ~(m <= m - 1)
  BY <1>3, <1>4
<1>6. PICK f : f = [k \in 0 .. m - 1 |-> E(f, k)]
  <2>1. m - 1 \notin Missing
    BY <1>2, <1>5
  <2>2. QED
    BY <1>5, <2>1
<1> DEFINE g == [k \in 0 .. m |-> IF k = m THEN E(f, m) ELSE f[k]]
<1>71. E(g, m) = E(f, m)
  BY <1>3, <1>5 DEF Printed
<1>7. \A k \in 0 .. m : g[k] = E(g, k)
  <2>1. SUFFICES ASSUME NEW k \in 0 .. m PROVE g[k] = E(g, k)
    OBVIOUS
  <2>2. k # 0 => k - 1 \in 0 .. m /\ k - 1 # m /\ g[k - 1] = f[k - 1]
    BY <1>3
  <2>3. k # m => E(g, k) = E(f, k)
    BY <2>2 DEF Printed
  <2>4. k # m => f[k] = E(f, k)
    <3>1. k # m => k \in 0 .. m - 1
      BY <1>3
    <3>2. \A j \in 0 .. m - 1 : [i \in 0 .. m - 1 |-> E(f, i)][j] = E(f, j)
      OBVIOUS
    <3> HIDE DEF E
    <3>3. QED
      BY <1>6, <3>1, <3>2
  <2> HIDE DEF E
  <2>5. QED
    BY <1>71, <2>3, <2>4
<1>8. g = [k \in 0 .. m |-> E(g, k)]
  <2>1. g = [k \in 0 .. m |-> g[k]]
    OBVIOUS
  <2> HIDE DEF g, E
  <2>2. QED
    BY <1>7, <2>1
<1> HIDE DEF g, E
<1>9. QED
  BY <1>3, <1>8

LEMMA PrintsSteps ==
  ASSUME NEW id, NEW text
  PROVE  LET f == PrintsUpTo(Services, id, text)
         IN  /\ f[0] = <<>>
             /\ \A k \in 1 .. N :
                  f[k] = IF Prints(Services[k], id) THEN Append(f[k - 1], <<k, text>>)
                         ELSE f[k - 1]
<1> DEFINE p == PrintsUpTo(Services, id, text)
<1>1. p = CHOOSE f : ArePrints(f, N, id, text)
  BY DEF PrintsUpTo, ArePrints, Printed, N
<1>2. N \in Nat
  BY HostAssumption
<1>3. ArePrints(p, N, id, text)
  BY <1>1, <1>2, PrintsExists
<1> HIDE DEF p
<1>4. \A k \in 0 .. N : p[k] = Printed(p, k, id, text)
  <2>1. \A f : ArePrints(f, N, id, text) => \A k \in 0 .. N : f[k] = Printed(f, k, id, text)
    BY DEF ArePrints
  <2>2. QED
    BY <1>3, <2>1
<1>5. 0 \in 0 .. N /\ \A k \in 1 .. N : k \in 0 .. N /\ k # 0
  BY <1>2
<1>6. QED
  BY <1>4, <1>5 DEF p, Printed

\* An empty text is written.
LEMMA NothingWritten ==
  ASSUME NEW s
  PROVE  WrittenAll(s, <<>>) = s
<1> DEFINE E(f, k) == IF k = 0 THEN s ELSE Written(f[k - 1], <<>>[k])
           D(f) == [k \in 0 .. Len(<<>>) |-> E(f, k)]
           g == [k \in 0 .. 0 |-> s]
           p == CHOOSE f : f = D(f)
<1>1. WrittenAll(s, <<>>) = p[Len(<<>>)]
  BY DEF WrittenAll
<1>2. Len(<<>>) = 0 /\ \A k \in 0 .. 0 : k = 0
  OBVIOUS
<1>3. g = D(g)
  BY <1>2
<1>4. p = D(p)
  <2> HIDE DEF g, D
  <2>1. QED
    BY <1>3
<1>5. p[0] = s
  <2>1. \A f : D(f)[0] = s
    BY <1>2
  <2> HIDE DEF p, D
  <2>2. QED
    BY <1>4, <2>1
<1> HIDE DEF p
<1>6. QED
  BY <1>1, <1>2, <1>5

\* A parameter stream that was read up to and with its k-th number, or to its end
\* because it has fewer.
Stands(p, k) ==
  /\ ParaOK(p)
  /\ \/ Rank(Places(p.data), p.rd) = k
     \/ NumbersAhead(p) = {} /\ Cardinality(Places(p.data)) <= k

LEMMA PlacesFinite ==
  ASSUME NEW data \in Seq(Token)
  PROVE  Places(data) \in SUBSET Nat /\ IsFiniteSet(Places(data)) /\ Places(data) \subseteq 1 .. Len(data)
<1>1. Len(data) \in Nat /\ DOMAIN data = 1 .. Len(data)
  OBVIOUS
<1>2. IsFiniteSet(1 .. Len(data))
  BY <1>1, FS_Interval
<1>3. Places(data) \in SUBSET (1 .. Len(data))
  BY <1>1 DEF Places
<1>4. QED
  BY <1>2, <1>3, FS_Subset

\* parseULong reads the next number.
LEMMA NextPlace ==
  ASSUME NEW p, NEW k \in Nat, Stands(p, k)
  PROVE  /\ ParseValue(p) = Number(p.data, k + 1)
         /\ Unread(Parsed(p)) = Behind(p.data, k + 1)
         /\ Stands(Parsed(p), k + 1)
         /\ Parsed(p).data = p.data
<1> DEFINE data == p.data
           S == Places(data)
           x == ParsePos(p)
<1>1. /\ data \in Seq(Token) /\ Len(data) \in Nat /\ p.rd \in Nat /\ p.rd <= Len(data)
      /\ DOMAIN data = 1 .. Len(data)
  BY DEF Stands, ParaOK
<1>2. S \in SUBSET Nat /\ IsFiniteSet(S) /\ S \subseteq 1 .. Len(data)
  BY <1>1, PlacesFinite
<1>3. Cardinality(S) \in Nat
  BY <1>2, FS_CardinalityType
<1>4. NumbersAhead(p) = {y \in S : ~(y <= p.rd)}
  <2>1. \A y \in Nat : y \in p.rd + 1 .. Len(data) <=> y \in 1 .. Len(data) /\ ~(y <= p.rd)
    BY <1>1
  <2>2. NumbersAhead(p) \subseteq Nat
    BY <1>1 DEF NumbersAhead
  <2>3. QED
    BY <1>1, <1>2, <2>1, <2>2 DEF NumbersAhead, Places
<1>5. ParaOK(Parsed(p)) /\ Parsed(p).data = data /\ Parsed(p).rd = x
  BY ParsedType DEF Stands, Parsed, ParaOK
<1>6. CASE NumbersAhead(p) = {}
  <2>1. Cardinality(S) <= k
    <3>1. CASE Rank(S, p.rd) = k
      <4>1. {y \in S : y <= p.rd} = S
        BY <1>4, <1>6
      <4>2. QED
        BY <1>3, <3>1, <4>1 DEF Rank
    <3>2. QED
      BY <3>1 DEF Stands
  <2>2. ~(k + 1 <= Cardinality(S)) /\ Cardinality(S) <= k + 1
    BY <1>3, <2>1
  <2>3. x = Len(data)
    BY <1>6 DEF ParsePos
  <2>4. NumbersAhead(Parsed(p)) = {}
    BY <1>1, <1>5, <2>3 DEF NumbersAhead
  <2>5. Unread(Parsed(p)) = <<>>
    BY <1>1, <1>5, <2>3 DEF Unread
  <2> HIDE DEF x
  <2>6. QED
    BY <1>5, <1>6, <2>2, <2>4, <2>5 DEF Stands, Number, Behind, ParseValue
<1>7. CASE NumbersAhead(p) # {}
  <2>1. x \in NumbersAhead(p) /\ \A y \in NumbersAhead(p) : x <= y
    <3>1. NumbersAhead(p) \subseteq Nat
      BY <1>2, <1>4
    <3>2. \E z \in NumbersAhead(p) : \A y \in NumbersAhead(p) : z <= y
      BY <1>7, <3>1, NatMin
    <3>3. QED
      BY <1>7, <3>2 DEF ParsePos
  <2> HIDE DEF x
  <2>2. x \in S /\ x \in Nat /\ ~(x <= p.rd) /\ \A y \in S : ~(y <= p.rd) => x <= y
    BY <1>2, <1>4, <2>1
  <2>3. Rank(S, p.rd) = k
    <3>1. CASE NumbersAhead(p) = {}
      BY <1>7, <3>1
    <3>2. QED
      BY <3>1 DEF Stands
  <2>4. Rank(S, x) = k + 1
    <3> DEFINE T == {y \in S : y <= p.rd}
    <3>1. \A y \in S : y <= x <=> y <= p.rd \/ y = x
      <4>1. SUFFICES ASSUME NEW y \in S PROVE y <= x <=> y <= p.rd \/ y = x
        OBVIOUS
      <4>2. y \in Nat
        BY <1>2
      <4>3. QED
        BY <1>1, <2>2, <4>2
    <3>2. {y \in S : y <= x} = T \cup {x}
      BY <2>2, <3>1
    <3>3. IsFiniteSet(T)
      BY <1>1, <1>2, Ranks
    <3>4. x \notin T
      BY <2>2
    <3>5. Cardinality(T \cup {x}) = Cardinality(T) + 1
      BY <3>3, <3>4, FS_AddElement
    <3>6. QED
      BY <2>3, <3>2, <3>5 DEF Rank
  <2>5. Nth(S, k + 1) = x /\ k + 1 <= Cardinality(S)
    <3>1. Nth(S, Rank(S, x)) = x /\ Rank(S, x) \in 0 .. Cardinality(S)
      BY <1>2, <2>2, Ranks
    <3>2. QED
      BY <1>3, <2>4, <3>1
  <2>6. ParseValue(p) = data[x]
    BY <1>7 DEF ParseValue, x
  <2>7. Unread(Parsed(p)) = SubSeq(data, x + 1, Len(data))
    BY <1>5 DEF Unread
  <2>8. QED
    BY <1>5, <2>4, <2>5, <2>6, <2>7 DEF Stands, Number, Behind
<1>8. QED
  BY <1>6, <1>7

\* What the router and the system service parse.
LEMMA Arguments ==
  ASSUME NEW p, ParaOK(p), p.rd = 0
  PROVE  /\ ParseValue(p) = Number(p.data, 1)
         /\ Unread(Parsed(p)) = Behind(p.data, 1)
         /\ Available(Parsed(p)) > 0 <=> Behind(p.data, 1) # <<>>
         /\ ParseValue(Parsed(p)) = Number(p.data, 2)
         /\ ParseValue(Parsed(Parsed(p))) = Number(p.data, 3)
         /\ Unread(Parsed(Parsed(Parsed(p)))) = Behind(p.data, 3)
         /\ Parsed(p).data = p.data
         /\ Len(Behind(p.data, 1)) <= Len(p.data) /\ Behind(p.data, 1) \in Seq(Token)
         /\ Len(Behind(p.data, 3)) <= Len(p.data) /\ Behind(p.data, 3) \in Seq(Token)
<1>1. Stands(p, 0)
  <2>1. p.data \in Seq(Token)
    BY DEF ParaOK
  <2>2. {y \in Places(p.data) : y <= 0} = {}
    BY <2>1, PlacesFinite
  <2>3. QED
    BY <2>2, FS_EmptySet DEF Stands, Rank
<1> DEFINE q == Parsed(p)
           r == Parsed(q)
           s == Parsed(r)
<1>2. /\ ParseValue(p) = Number(p.data, 1) /\ Unread(q) = Behind(p.data, 1)
      /\ Stands(q, 1) /\ q.data = p.data
  BY <1>1, NextPlace
<1>3. ParseValue(q) = Number(q.data, 2) /\ Stands(r, 2) /\ r.data = q.data
  BY <1>2, NextPlace
<1>4. /\ ParseValue(r) = Number(r.data, 3) /\ Unread(s) = Behind(r.data, 3)
      /\ Stands(s, 3) /\ s.data = r.data
  BY <1>3, NextPlace
<1>5. ASSUME NEW t, ParaOK(t)
      PROVE  /\ Unread(t) \in Seq(Token) /\ Len(Unread(t)) = Available(t)
             /\ Available(t) \in Nat /\ Available(t) <= Len(t.data)
  <2>1. t.data \in Seq(Token) /\ t.rd \in Nat /\ t.rd <= Len(t.data) /\ Len(t.data) \in Nat
    BY <1>5 DEF ParaOK
  <2>2. t.rd + 1 \in Nat /\ t.rd + 1 >= 1
    BY <2>1
  <2>3. /\ SubSeq(t.data, t.rd + 1, Len(t.data)) \in Seq(Token)
        /\ Len(SubSeq(t.data, t.rd + 1, Len(t.data))) =
             IF t.rd + 1 <= Len(t.data) THEN Len(t.data) - (t.rd + 1) + 1 ELSE 0
    BY <2>1, <2>2, SubSeqType
  <2>4. QED
    BY <2>1, <2>3 DEF Unread, Available
<1> HIDE DEF q, r, s
<1>6. Available(q) > 0 <=> Unread(q) # <<>>
  <2>1. ParaOK(q)
    BY <1>2 DEF Stands
  <2>2. Unread(q) \in Seq(Token) /\ Len(Unread(q)) = Available(q)
    BY <1>5, <2>1
  <2>3. QED
    BY <2>2
<1>7. /\ Unread(q) \in Seq(Token) /\ Len(Unread(q)) <= Len(q.data)
      /\ Unread(s) \in Seq(Token) /\ Len(Unread(s)) <= Len(s.data)
  BY <1>2, <1>4, <1>5 DEF Stands
<1>8. QED
  BY <1>2, <1>3, <1>4, <1>6, <1>7 DEF q, r, s

-----------------------------------------------------------------------------
(* What a redirecting stream sends is a sequence of packets.               *)

\* The results of a step repeated n times.
Repeats(f, a, n, step) == f[0] = a /\ \A k \in 1 .. n : f[k] = step[<<f[k - 1], k>>]

LEMMA Recursion ==
  ASSUME NEW S, NEW a \in S, NEW n \in Nat, NEW step \in [S \X (1 .. n) -> S]
  PROVE  \E f \in [0 .. n -> S] : Repeats(f, a, n, step)
<1> DEFINE Missing == {m \in 0 .. n : ~\E f \in [0 .. m -> S] : Repeats(f, a, m, step)}
<1>1. SUFFICES ASSUME Missing # {} PROVE FALSE
  BY <1>1
<1>2. PICK m \in Missing : \A j \in Missing : m <= j
  <2>1. Missing \subseteq Nat
    OBVIOUS
  <2> HIDE DEF Missing
  <2>2. QED
    BY <1>1, <2>1, NatMin
<1>3. m \in 0 .. n /\ m \in Nat /\ ~\E f \in [0 .. m -> S] : Repeats(f, a, m, step)
  OBVIOUS
<1>4. m # 0
  <2>1. SUFFICES ASSUME m = 0 PROVE FALSE
    OBVIOUS
  <2> DEFINE g == [k \in 0 .. 0 |-> a]
  <2>2. g \in [0 .. m -> S] /\ Repeats(g, a, m, step)
    BY <2>1 DEF Repeats
  <2>3. QED
    BY <1>3, <2>2
<1>5. m - 1 \in 0 .. n /\ ~(m <= m - 1)
  BY <1>3, <1>4
<1>6. PICK f \in [0 .. m - 1 -> S] : Repeats(f, a, m - 1, step)
  <2>1. m - 1 \notin Missing
    BY <1>2, <1>5
  <2>2. QED
    BY <1>5, <2>1
<1> DEFINE g == [k \in 0 .. m |-> IF k = m THEN step[<<f[m - 1], m>>] ELSE f[k]]
<1>7. g \in [0 .. m -> S]
  <2>1. f[m - 1] \in S /\ m \in 1 .. n
    BY <1>3, <1>4, <1>6
  <2>2. step[<<f[m - 1], m>>] \in S
    BY <2>1
  <2>3. \A k \in 0 .. m : k # m => k \in 0 .. m - 1
    BY <1>3
  <2>4. QED
    BY <2>2, <2>3
<1>8. Repeats(g, a, m, step)
  <2>1. \A k \in 0 .. m - 1 : k \in 0 .. m /\ k # m /\ g[k] = f[k]
    BY <1>3
  <2>2. g[0] = a
    BY <1>3, <1>4, <1>6, <2>1 DEF Repeats
  <2>3. ASSUME NEW k \in 1 .. m PROVE g[k] = step[<<g[k - 1], k>>]
    <3>1. k - 1 \in 0 .. m - 1 /\ k \in 0 .. m
      BY <1>3
    <3>2. g[k - 1] = f[k - 1]
      BY <2>1, <3>1
    <3>3. CASE k = m
      BY <3>1, <3>2, <3>3
    <3>4. CASE k # m
      <4>1. k \in 1 .. m - 1
        BY <1>3, <3>4
      <4>2. QED
        BY <1>6, <3>1, <3>2, <3>4, <4>1 DEF Repeats
    <3>5. QED
      BY <3>3, <3>4
  <2>4. QED
    BY <2>2, <2>3 DEF Repeats
<1>9. QED
  BY <1>3, <1>7, <1>8

Stream == [cache : Seq(Token), first : BOOLEAN, cr : BOOLEAN, prefix : Seq(Token),
           sent : Seq(Seq(Token))]

LEMMA StreamMoves ==
  ASSUME NEW s \in Stream, NEW c \in Token
  PROVE  /\ Flushed(s) \in Stream /\ MakeRoom(s) \in Stream
         /\ Cached(s, c) \in Stream /\ FrameChecked(s, c) \in Stream
<1>1. ASSUME NEW t \in Stream PROVE Flushed(t) \in Stream
  <2>1. Append(t.sent, t.cache) \in Seq(Seq(Token))
    <3>1. t.sent \in Seq(Seq(Token)) /\ t.cache \in Seq(Token)
      BY DEF Stream
    <3>2. QED
      BY <3>1, AppendProperties
  <2>2. <<>> \in Seq(Token)
    OBVIOUS
  <2>3. QED
    BY <2>1, <2>2 DEF Flushed, Stream
<1>2. MakeRoom(s) \in Stream
  BY <1>1 DEF MakeRoom
<1>3. Cached(s, c) \in Stream
  <2> DEFINE t == MakeRoom(s)
  <2>1. Append(t.cache, c) \in Seq(Token)
    <3>1. t.cache \in Seq(Token)
      BY <1>2 DEF Stream
    <3>2. QED
      BY <3>1, AppendProperties
  <2>2. Cached(s, c) = [t EXCEPT !.cache = Append(t.cache, c)]
    BY DEF Cached
  <2>3. t \in Stream
    BY <1>2
  <2> HIDE DEF t
  <2>4. QED
    BY <2>1, <2>2, <2>3 DEF Stream
<1>4. FrameChecked(s, c) \in Stream
  <2>1. CASE c = LF /\ s.cr
    BY <1>1, <2>1 DEF FrameChecked, Stream
  <2>2. CASE ~(c = LF /\ s.cr)
    BY <2>2 DEF FrameChecked, Stream
  <2>3. QED
    BY <2>1, <2>2
<1>5. QED
  BY <1>1, <1>2, <1>3, <1>4

\* The prefix is put.
PutsPrefix(f, s) ==
  f = [k \in 0 .. Len(s.prefix) |->
         IF k = 0 THEN [s EXCEPT !.first = FALSE] ELSE Cached(f[k - 1], s.prefix[k])]

LEMMA PrefixPutType ==
  ASSUME NEW s \in Stream
  PROVE  PrefixPut(s) \in Stream
<1> DEFINE n == Len(s.prefix)
           a == [s EXCEPT !.first = FALSE]
           step == [x \in Stream \X (1 .. n) |-> Cached(x[1], s.prefix[x[2]])]
<1>1. n \in Nat /\ a \in Stream /\ s.prefix \in Seq(Token)
  <2>1. s.prefix \in Seq(Token)
    BY DEF Stream
  <2>2. [s EXCEPT !.first = FALSE] \in Stream
    BY DEF Stream
  <2>3. QED
    BY <2>1, <2>2
<1>2. \A k \in 1 .. n : s.prefix[k] \in Token
  BY <1>1
<1>3. step \in [Stream \X (1 .. n) -> Stream]
  BY <1>2, StreamMoves
<1>4. \A x \in Stream, k \in 1 .. n : step[<<x, k>>] = Cached(x, s.prefix[k])
  OBVIOUS
<1> HIDE DEF step, a, n
<1>5. PICK f \in [0 .. n -> Stream] : Repeats(f, a, n, step)
  BY <1>1, <1>3, Recursion
<1>6. PutsPrefix(f, s)
  <2>1. \A k \in 0 .. n : f[k] = IF k = 0 THEN a ELSE Cached(f[k - 1], s.prefix[k])
    <3>1. \A k \in 0 .. n : k # 0 => k \in 1 .. n /\ k - 1 \in 0 .. n
      BY <1>1
    <3>2. QED
      BY <1>4, <1>5, <3>1 DEF Repeats
  <2>2. f = [k \in 0 .. n |-> f[k]]
    BY <1>5
  <2>3. QED
    BY <2>1, <2>2 DEF PutsPrefix, n, a
<1> DEFINE g == CHOOSE g : PutsPrefix(g, s)
<1>7. PutsPrefix(g, s) /\ PrefixPut(s) = g[n]
  <2>1. PutsPrefix(g, s)
    BY <1>6
  <2>2. PrefixPut(s) = g[n]
    BY DEF PrefixPut, PutsPrefix, n
  <2>3. QED
    BY <2>1, <2>2
<1> HIDE DEF g
<1>8. /\ \A k \in 0 .. n : g[k] = IF k = 0 THEN a ELSE Cached(g[k - 1], s.prefix[k])
  BY <1>7 DEF PutsPrefix, n, a
<1> DEFINE Bad == {k \in 0 .. n : g[k] \notin Stream}
<1>9. Bad = {}
  <2>1. SUFFICES ASSUME Bad # {} PROVE FALSE
    OBVIOUS
  <2>2. PICK k \in Bad : \A j \in Bad : k <= j
    <3>1. Bad \subseteq Nat
      OBVIOUS
    <3> HIDE DEF Bad
    <3>2. QED
      BY <2>1, <3>1, NatMin
  <2>3. k \in 0 .. n /\ g[k] \notin Stream /\ k # 0
    BY <1>1, <1>8
  <2>4. k - 1 \in 0 .. n /\ ~(k <= k - 1) /\ k \in 1 .. n
    BY <1>1, <2>3
  <2>5. g[k - 1] \in Stream
    BY <2>2, <2>4
  <2>6. QED
    BY <1>2, <1>8, <2>3, <2>4, <2>5, StreamMoves
<1>10. QED
  BY <1>1, <1>7, <1>9

LEMMA WrittenType ==
  ASSUME NEW s \in Stream, NEW c \in Token
  PROVE  Written(s, c) \in Stream
<1> DEFINE m == MakeRoom(s)
           p == Prefixed(m)
           q == Cached(p, c)
<1>1. m \in Stream
  BY StreamMoves
<1> HIDE DEF m
<1>2. p \in Stream
  BY <1>1, PrefixPutType DEF Prefixed
<1> HIDE DEF p
<1>3. q \in Stream
  BY <1>2, StreamMoves
<1> HIDE DEF q
<1>4. FrameChecked(q, c) \in Stream
  BY <1>3, StreamMoves
<1>5. QED
  BY <1>4 DEF Written, m, p, q

Writes(f, s, text) ==
  f = [k \in 0 .. Len(text) |-> IF k = 0 THEN s ELSE Written(f[k - 1], text[k])]

LEMMA WrittenAllType ==
  ASSUME NEW s \in Stream, NEW text \in Seq(Token)
  PROVE  WrittenAll(s, text) \in Stream
<1> DEFINE n == Len(text)
           step == [x \in Stream \X (1 .. n) |-> Written(x[1], text[x[2]])]
<1>1. n \in Nat
  OBVIOUS
<1>2. \A k \in 1 .. n : text[k] \in Token
  BY <1>1
<1>3. step \in [Stream \X (1 .. n) -> Stream]
  BY <1>2, WrittenType
<1>4. \A x \in Stream, k \in 1 .. n : step[<<x, k>>] = Written(x, text[k])
  OBVIOUS
<1> HIDE DEF step, n
<1>5. PICK f \in [0 .. n -> Stream] : Repeats(f, s, n, step)
  BY <1>1, <1>3, Recursion
<1>6. Writes(f, s, text)
  <2>1. \A k \in 0 .. n : f[k] = IF k = 0 THEN s ELSE Written(f[k - 1], text[k])
    <3>1. \A k \in 0 .. n : k # 0 => k \in 1 .. n /\ k - 1 \in 0 .. n
      BY <1>1
    <3>2. QED
      BY <1>4, <1>5, <3>1 DEF Repeats
  <2>2. f = [k \in 0 .. n |-> f[k]]
    BY <1>5
  <2>3. QED
    BY <2>1, <2>2 DEF Writes, n
<1> DEFINE g == CHOOSE g : Writes(g, s, text)
<1>7. Writes(g, s, text) /\ WrittenAll(s, text) = g[n]
  <2>1. Writes(g, s, text)
    BY <1>6
  <2>2. WrittenAll(s, text) = g[n]
    BY DEF WrittenAll, Writes, n
  <2>3. QED
    BY <2>1, <2>2
<1> HIDE DEF g
<1>8. /\ \A k \in 0 .. n : g[k] = IF k = 0 THEN s ELSE Written(g[k - 1], text[k])
  BY <1>7 DEF Writes, n
<1> DEFINE Bad == {k \in 0 .. n : g[k] \notin Stream}
<1>9. Bad = {}
  <2>1. SUFFICES ASSUME Bad # {} PROVE FALSE
    OBVIOUS
  <2>2. PICK k \in Bad : \A j \in Bad : k <= j
    <3>1. Bad \subseteq Nat
      OBVIOUS
    <3> HIDE DEF Bad
    <3>2. QED
      BY <2>1, <3>1, NatMin
  <2>3. k \in 0 .. n /\ g[k] \notin Stream /\ k # 0
    BY <1>1, <1>8
  <2>4. k - 1 \in 0 .. n /\ ~(k <= k - 1) /\ k \in 1 .. n
    BY <1>1, <2>3
  <2>5. g[k - 1] \in Stream
    BY <2>2, <2>4
  <2>6. QED
    BY <1>2, <1>8, <2>3, <2>4, <2>5, WrittenType
<1>10. QED
  BY <1>1, <1>7, <1>9

\* What is sent behind nothing.
LEMMA SentOnly ==
  ASSUME NEW prefix \in Seq(Token), NEW text \in Seq(Token)
  PROVE  <<>> \o WrittenAll(NewStream(prefix), text).sent = WrittenAll(NewStream(prefix), text).sent
<1>1. NewStream(prefix) \in Stream
  BY DEF NewStream, Stream
<1>2. WrittenAll(NewStream(prefix), text).sent \in Seq(Seq(Token))
  BY <1>1, WrittenAllType DEF Stream
<1>3. QED
  BY <1>2

\* The greatest element has the greatest rank.
LEMMA Greatest ==
  ASSUME NEW n \in Nat, NEW S \in SUBSET (0 .. n), S # {}
  PROVE  \E x \in S : Rank(S, x) = Cardinality(S) /\ \A y \in S : y <= x
<1> DEFINE D == {n - y : y \in S}
<1>1. PICK d \in D : \A e \in D : d <= e
  <2>1. D \subseteq Nat /\ D # {}
    <3>1. \A y \in S : n - y \in Nat
      <4>1. \A y \in 0 .. n : n - y \in Nat
        OBVIOUS
      <4>2. QED
        BY <4>1
    <3>2. PICK y \in S : TRUE
      OBVIOUS
    <3>3. n - y \in D
      OBVIOUS
    <3>4. QED
      BY <3>1, <3>3
  <2> HIDE DEF D
  <2>2. QED
    BY <2>1, NatMin
<1>2. PICK x \in S : d = n - x
  OBVIOUS
<1>3. ASSUME NEW y \in S PROVE y <= x
  <2>1. n - x <= n - y /\ x \in 0 .. n /\ y \in 0 .. n
    BY <1>1, <1>2
  <2>2. QED
    BY <2>1
<1>4. {y \in S : y <= x} = S
  BY <1>3
<1>5. QED
  BY <1>3, <1>4 DEF Rank

\* If k is the rank of those before x at most, that of x is the next at most.
LEMMA RankNext ==
  ASSUME NEW n \in Nat, NEW S \in SUBSET (0 .. n), NEW x \in S, NEW k \in Nat,
         \A y \in S : y < x => Rank(S, y) <= k
  PROVE  Rank(S, x) <= k + 1
<1> DEFINE T == {y \in S : y < x}
<1>1. T \in SUBSET (0 .. n) /\ IsFiniteSet(T) /\ x \in Nat /\ x \notin T
  <2>1. IsFiniteSet(0 .. n)
    BY FS_Interval
  <2>2. T \in SUBSET (0 .. n)
    OBVIOUS
  <2>3. QED
    BY <2>1, <2>2, FS_Subset
<1>2. {y \in S : y <= x} = T \cup {x}
  <2>1. \A y \in S : y <= x <=> y < x \/ y = x
    OBVIOUS
  <2>2. QED
    BY <2>1
<1>3. Rank(S, x) = Cardinality(T) + 1 /\ Cardinality(T) \in Nat
  BY <1>1, <1>2, FS_AddElement, FS_CardinalityType DEF Rank
<1>4. Cardinality(T) <= k
  <2>1. CASE T = {}
    BY <2>1, FS_EmptySet
  <2>2. CASE T # {}
    <3>1. PICK y \in T : Rank(T, y) = Cardinality(T)
      <4> HIDE DEF T
      <4>1. QED
        BY <1>1, <2>2, Greatest
    <3>2. {z \in T : z <= y} = {z \in S : z <= y}
      <4>1. y \in 0 .. n /\ y < x /\ \A z \in S : z \in 0 .. n
        OBVIOUS
      <4>2. \A z \in S : z <= y => z < x
        BY <1>1, <4>1
      <4>3. QED
        BY <4>2
    <3>3. Rank(S, y) <= k
      OBVIOUS
    <3>4. QED
      BY <3>1, <3>2, <3>3 DEF Rank
  <2>3. QED
    BY <2>1, <2>2
<1>5. QED
  BY <1>3, <1>4

LEMMA RoutersFinite ==
  /\ N \in Nat /\ Routers \in SUBSET (0 .. N) /\ Routers \in SUBSET Nat /\ IsFiniteSet(Routers)
  /\ Cardinality(Routers) \in Nat
  /\ RoutersOf(Services) = Routers
<1>1. N \in Nat /\ DOMAIN Services = 1 .. N
  <2>1. Services \in Seq({Services[i] : i \in DOMAIN Services})
    BY HostAssumption
  <2>2. QED
    BY <2>1, HostAssumption DEF N
<1>2. Routers \in SUBSET (0 .. N) /\ Routers \in SUBSET Nat
  BY <1>1 DEF Routers
<1>3. IsFiniteSet(0 .. N)
  BY <1>1, FS_Interval
<1>4. IsFiniteSet(Routers)
  BY <1>2, <1>3, FS_Subset
<1>5. QED
  BY <1>1, <1>2, <1>4, FS_CardinalityType DEF Routers, RoutersOf

\* The ranks of the routers, up to their number.
LEMMA RouterRanks ==
  /\ \A i \in Routers : /\ Rank(Routers, i) \in 1 .. Cardinality(Routers)
                        /\ RouterAt(Services, Rank(Routers, i)) = i
  /\ \A i, j \in Routers : Rank(Routers, i) = Rank(Routers, j) => i = j
  /\ \A i, j \in Routers : i < j => Rank(Routers, i) < Rank(Routers, j)
  /\ \A k \in Nat : (\A i \in Routers : Rank(Routers, i) <= k) => Cardinality(Routers) <= k
  /\ \A i \in Routers, k \in Nat :
       (\A j \in Routers : j < i => Rank(Routers, j) <= k) => Rank(Routers, i) <= k + 1
<1>1. /\ \A i \in Routers : /\ Rank(Routers, i) \in 1 .. Cardinality(Routers)
                            /\ RouterAt(Services, Rank(Routers, i)) = i
  <2>1. \A x \in Nat : Rank(Routers, x) \in 0 .. Cardinality(Routers)
    BY RoutersFinite, Ranks
  <2>2. \A x \in Routers : Rank(Routers, x) >= 1 /\ Nth(Routers, Rank(Routers, x)) = x
    BY RoutersFinite, Ranks
  <2>3. \A x \in Routers : x \in Nat
    BY RoutersFinite
  <2>4. RoutersOf(Services) = Routers /\ Cardinality(Routers) \in Nat
    BY RoutersFinite
  <2>5. \A x \in Routers : Rank(Routers, x) \in 1 .. Cardinality(Routers)
    BY <2>1, <2>2, <2>3, <2>4
  <2>6. QED
    BY <2>2, <2>4, <2>5 DEF RouterAt
<1>2. \A i, j \in Routers : i < j => Rank(Routers, i) < Rank(Routers, j)
  BY RoutersFinite, Ranks
<1>3. \A k \in Nat : (\A i \in Routers : Rank(Routers, i) <= k) => Cardinality(Routers) <= k
  <2>1. Routers # {} => \E x \in Routers : Rank(Routers, x) = Cardinality(Routers)
    BY RoutersFinite, Greatest
  <2>2. Cardinality({}) = 0
    BY FS_EmptySet
  <2>3. Routers = {} => Cardinality(Routers) = 0
    BY <2>2
  <2>4. SUFFICES ASSUME NEW k \in Nat, \A i \in Routers : Rank(Routers, i) <= k
                 PROVE  Cardinality(Routers) <= k
    OBVIOUS
  <2>5. QED
    BY <2>1, <2>3, <2>4
<1>4. /\ \A i \in Routers, k \in Nat :
           (\A j \in Routers : j < i => Rank(Routers, j) <= k) => Rank(Routers, i) <= k + 1
  BY RoutersFinite, RankNext
<1>5. QED
  BY <1>1, <1>2, <1>3, <1>4

-----------------------------------------------------------------------------
(* What Answer says, case by case.                                         *)

\* A prefix that is addressed to this node.
ForMe(cmd) == cmd.id = MR_SEND_TO /\ Dest(cmd) = MyAddress

\* k prefixes are taken off so far.
Unwrapped(cmd, k) == \A j \in 0 .. k - 1 : ForMe(Below(cmd)[j])

ReplyTo(cmd) == NewStream(ReplyPrefix(Source(cmd), MyAddress, WrappedId(cmd)))

LEMMA TakenIs ==
  ASSUME NEW cmd, NEW k \in Nat, k <= Cardinality(Routers), Unwrapped(cmd, k),
         k = Cardinality(Routers) \/ ~ForMe(Below(cmd)[k])
  PROVE  Taken(Services, MyAddress, cmd) = k
<1> DEFINE c == Cardinality(Routers)
           S == {h \in 0 .. c : \A j \in 0 .. h - 1 :
                   Below(cmd)[j].id = MR_SEND_TO /\ Dest(Below(cmd)[j]) = MyAddress}
<1>1. Taken(Services, MyAddress, cmd) = Max(S)
  BY RoutersFinite DEF Taken
<1>2. c \in Nat
  BY RoutersFinite
<1>3. k \in S
  BY <1>2 DEF Unwrapped, ForMe
<1>4. ASSUME NEW h \in S, ~(h <= k) PROVE FALSE
  <2>1. h \in 0 .. c /\ k \in 0 .. h - 1 /\ k # c
    BY <1>2, <1>4
  <2>2. ForMe(Below(cmd)[k])
    BY <2>1 DEF ForMe
  <2>3. QED
    BY <2>1, <2>2
<1>5. S \subseteq Nat
  BY <1>2
<1> HIDE DEF S
<1>6. Max(S) = k
  <2>1. \A x \in S : x <= k
    BY <1>4
  <2>2. \A x \in S : (\A y \in S : x >= y) => x = k
    <3>1. \A x \in S : x \in Nat /\ x <= k
      BY <1>5, <2>1
    <3>2. QED
      BY <1>3, <3>1
  <2>3. \A y \in S : k >= y
    BY <1>5, <2>1
  <2>4. QED
    BY <1>3, <2>2, <2>3 DEF Max
<1>7. QED
  BY <1>1, <1>6

LEMMA OutputIs ==
  ASSUME NEW cmd, NEW i \in 1 .. N, Executes(Services[i], cmd),
         \A j \in 1 .. i - 1 : ~Executes(Services[j], cmd)
  PROVE  Output(Services, cmd) = IF Services[i].kind = "executor" THEN Services[i].result
                                 ELSE HelpText(Services)
<1> DEFINE S == {j \in DOMAIN Services : Executes(Services[j], cmd)}
<1>1. N \in Nat /\ DOMAIN Services = 1 .. N
  <2>1. Services \in Seq({Services[j] : j \in DOMAIN Services})
    BY HostAssumption
  <2>2. QED
    BY <2>1, HostAssumption DEF N
<1>2. i \in S /\ S \subseteq Nat /\ \A j \in S : j \in 1 .. N /\ Executes(Services[j], cmd)
  BY <1>1
<1>3. \A j \in S : i <= j
  <2>1. SUFFICES ASSUME NEW j \in S, ~(i <= j) PROVE FALSE
    OBVIOUS
  <2>2. j \in 1 .. i - 1
    BY <1>1, <1>2, <2>1
  <2>3. QED
    BY <1>2, <2>2
<1>4. Output(Services, cmd) =
        IF S = {} THEN <<>>
        ELSE IF Services[Min(S)].kind = "executor" THEN Services[Min(S)].result
        ELSE HelpText(Services)
  BY DEF Output
<1> HIDE DEF S
<1>5. Min(S) = i
  <2>1. \A x \in S : (\A y \in S : x <= y) => x = i
    <3>1. \A x \in S : x \in Nat /\ i <= x
      BY <1>2, <1>3
    <3>2. QED
      BY <1>2, <3>1
  <2>2. QED
    BY <1>2, <1>3, <2>1 DEF Min
<1>6. QED
  BY <1>2, <1>4, <1>5

LEMMA OutputNone ==
  ASSUME NEW cmd, \A j \in 1 .. N : ~Executes(Services[j], cmd)
  PROVE  Output(Services, cmd) = <<>>
<1>1. DOMAIN Services = 1 .. N
  <2>1. Services \in Seq({Services[j] : j \in DOMAIN Services})
    BY HostAssumption
  <2>2. QED
    BY <2>1, HostAssumption DEF N
<1>2. {j \in DOMAIN Services : Executes(Services[j], cmd)} = {}
  BY <1>1
<1>3. QED
  BY <1>2 DEF Output

LEMMA PrintsNothing ==
  ASSUME NEW id
  PROVE  PrintsOf(Services, id, <<>>) = <<>> /\ \A n \in Nat : Truncated(<<>>, n) = <<>>
<1>1. Len(<<>>) = 0
  OBVIOUS
<1>2. QED
  BY <1>1 DEF PrintsOf, Truncated

\* A command that one of the services executes, or none.
LEMMA AnswerOwn ==
  ASSUME NEW cmd, NEW k \in Nat, Taken(Services, MyAddress, cmd) = k,
         \/ Below(cmd)[k].id # MR_SEND_TO
         \/ k >= Cardinality(Routers),
         Below(cmd)[k].id # SYS_RESULT
  PROVE  LET c == Below(cmd)[k]
             text == Output(Services, c)
         IN  Answer(Services, MyAddress, cmd) =
               [packets |-> IF k = 0 THEN <<>> ELSE WrittenAll(ReplyTo(Below(cmd)[k - 1]), text).sent,
                prints |-> IF k = 0
                             THEN PrintsOf(Services, c.id,
                                    Truncated(Truncated(text, ResultCapacity), ParaCapacity))
                             ELSE <<>>]
<1>1. ~(Below(cmd)[k].id = MR_SEND_TO /\ k < Cardinality(RoutersOf(Services)))
  BY RoutersFinite
<1>2. ~\E i \in DOMAIN Services : Dispatches(Services[i], Below(cmd)[k])
  BY DEF Dispatches, HasResult
<1>3. QED
  BY <1>1, <1>2 DEF Answer, ReplyTo

LEMMA AnswerNone ==
  ASSUME NEW cmd, NEW k \in Nat, Taken(Services, MyAddress, cmd) = k,
         \/ Below(cmd)[k].id # MR_SEND_TO
         \/ k >= Cardinality(Routers),
         \A j \in 1 .. N : /\ ~Executes(Services[j], Below(cmd)[k])
                           /\ ~Dispatches(Services[j], Below(cmd)[k])
  PROVE  Answer(Services, MyAddress, cmd) = [packets |-> <<>>, prints |-> <<>>]
<1>1. ~(Below(cmd)[k].id = MR_SEND_TO /\ k < Cardinality(RoutersOf(Services)))
  BY RoutersFinite
<1>2. ~\E i \in DOMAIN Services : Dispatches(Services[i], Below(cmd)[k])
  <2>1. DOMAIN Services = 1 .. N
    <3>1. Services \in Seq({Services[j] : j \in DOMAIN Services})
      BY HostAssumption
    <3>2. QED
      BY <3>1, HostAssumption DEF N
  <2>2. QED
    BY <2>1
<1>3. Output(Services, Below(cmd)[k]) = <<>>
  BY OutputNone
<1>4. Truncated(Truncated(<<>>, ResultCapacity), ParaCapacity) = <<>>
  BY PrintsNothing, ProtocolAssumption
<1>5. \A c : WrittenAll(ReplyTo(c), <<>>).sent = <<>>
  BY NothingWritten DEF ReplyTo, NewStream
<1>6. PrintsOf(Services, Below(cmd)[k].id, <<>>) = <<>>
  BY PrintsNothing
<1>7. QED
  BY <1>1, <1>2, <1>3, <1>4, <1>5, <1>6 DEF Answer, ReplyTo

\* A result is dispatched.
LEMMA AnswerResult ==
  ASSUME NEW cmd, NEW k \in Nat, Taken(Services, MyAddress, cmd) = k,
         NEW i \in 1 .. N, Dispatches(Services[i], Below(cmd)[k]),
         \A j \in 1 .. N : ~Executes(Services[j], Below(cmd)[k])
  PROVE  LET c == Below(cmd)[k]
         IN  Answer(Services, MyAddress, cmd) =
               [packets |-> <<>>, prints |-> PrintsOf(Services, UInt(ResultId(c)), Result(c))]
<1>1. ~(Below(cmd)[k].id = MR_SEND_TO /\ k < Cardinality(RoutersOf(Services)))
  BY DEF Dispatches, HasResult, MR_SEND_TO, SYS_RESULT
<1>2. \E j \in DOMAIN Services : Dispatches(Services[j], Below(cmd)[k])
  <2>1. DOMAIN Services = 1 .. N
    <3>1. Services \in Seq({Services[j] : j \in DOMAIN Services})
      BY HostAssumption
    <3>2. QED
      BY <3>1, HostAssumption DEF N
  <2>2. QED
    BY <2>1
<1>3. Output(Services, Below(cmd)[k]) = <<>>
  BY OutputNone
<1>4. \A c : WrittenAll(ReplyTo(c), <<>>).sent = <<>>
  BY NothingWritten DEF ReplyTo, NewStream
<1>5. QED
  BY <1>1, <1>2, <1>3, <1>4 DEF Answer, ReplyTo

\* A command for another node is passed on by the first router that is free.
LEMMA AnswerForeign ==
  ASSUME NEW cmd, NEW k \in Nat, Taken(Services, MyAddress, cmd) = k,
         Below(cmd)[k].id = MR_SEND_TO, k < Cardinality(Routers),
         \A j \in 1 .. N : ~Executes(Services[j], Below(cmd)[k]),
         NEW i \in Routers, Rank(Routers, i) = k + 1
  PROVE  Answer(Services, MyAddress, cmd) =
           [packets |-> IF Services[i].relay
                          THEN WrittenAll(NewStream(<<>>), <<MR_SEND_TO>> \o Below(cmd)[k].data).sent
                          ELSE <<>>,
            prints |-> <<>>]
<1>1. Below(cmd)[k].id = MR_SEND_TO /\ k < Cardinality(RoutersOf(Services))
  BY RoutersFinite
<1>2. ~\E j \in DOMAIN Services : Dispatches(Services[j], Below(cmd)[k])
  BY DEF Dispatches, HasResult, MR_SEND_TO, SYS_RESULT
<1>3. Output(Services, Below(cmd)[k]) = <<>>
  BY OutputNone
<1>4. Truncated(Truncated(<<>>, ResultCapacity), ParaCapacity) = <<>>
  BY PrintsNothing, ProtocolAssumption
<1>5. PrintsOf(Services, Below(cmd)[k].id, <<>>) = <<>>
  BY PrintsNothing
<1>6. Relays(Services, k + 1) = Services[i].relay
  BY RouterRanks DEF Relays
<1>7. QED
  BY <1>1, <1>2, <1>3, <1>4, <1>5, <1>6 DEF Answer

-----------------------------------------------------------------------------
(* What a command comes to, while the host is at it.                       *)
(*                                                                         *)
(* The answer to a command is a function of the command alone; the host    *)
(* finds it in nested calls that share one context.  Linked ties each call *)
(* to the command that Node takes off as many prefixes, and Course says at *)
(* each point of a call how much of the answer is out: nothing while the   *)
(* services are asked in turn, then all of it, or all but a result that is *)
(* dispatched last.                                                        *)

\* The commands of the nested calls are those below the prefixes of the first, and
\* the routers of the calls are the first ones, in turn.
Linked(s) ==
  \A p \in 1 .. Len(s) :
    /\ s[p].fn = "Execute" =>
         \E k \in Nat :
           /\ p = 2 * k + 2 /\ s[p].cmd = Below(s[2].cmd)[k] /\ Unwrapped(s[2].cmd, k)
           /\ \A r \in Routers : Rank(Routers, r) <= k =>
                \E j \in 1 .. p - 1 : s[j].fn = "Router" /\ s[j].i = r
    /\ s[p].fn = "Router" => 2 * Rank(Routers, s[p].i) = p - 1

\* Two stacks differ in calls that have no part in this.
Similar(s, t) ==
  \A p \in 1 .. Len(t) :
    /\ p <= Len(s) =>
         /\ t[p].fn = s[p].fn
         /\ t[p].fn = "Router" => t[p].i = s[p].i
         /\ t[p].fn = "Execute" => t[p].cmd = s[p].cmd
    /\ ~(p <= Len(s)) => t[p].fn # "Execute" /\ t[p].fn # "Router"

LEMMA LinkedKept ==
  ASSUME NEW s, NEW t, Len(s) \in Nat, Len(t) \in Nat, Len(s) >= 2, Len(t) >= 2,
         s[2].fn = "Execute", Linked(s), Similar(s, t)
  PROVE  Linked(t) /\ t[2].cmd = s[2].cmd
<1>1. t[2].cmd = s[2].cmd
  <2>1. 2 \in 1 .. Len(t) /\ 2 <= Len(s)
    OBVIOUS
  <2>2. QED
    BY <2>1 DEF Similar
<1> DEFINE c == s[2].cmd
<1>2. ASSUME NEW p \in 1 .. Len(t), t[p].fn = "Execute"
      PROVE  \E k \in Nat :
               /\ p = 2 * k + 2 /\ t[p].cmd = Below(c)[k] /\ Unwrapped(c, k)
               /\ \A r \in Routers : Rank(Routers, r) <= k =>
                    \E j \in 1 .. p - 1 : t[j].fn = "Router" /\ t[j].i = r
  <2>1. p \in 1 .. Len(s) /\ s[p].fn = "Execute" /\ t[p].cmd = s[p].cmd
    <3>1. p <= Len(s)
      BY <1>2 DEF Similar
    <3>2. QED
      BY <1>2, <3>1 DEF Similar
  <2>2. PICK k \in Nat :
          /\ p = 2 * k + 2 /\ s[p].cmd = Below(c)[k] /\ Unwrapped(c, k)
          /\ \A r \in Routers : Rank(Routers, r) <= k =>
               \E j \in 1 .. p - 1 : s[j].fn = "Router" /\ s[j].i = r
    BY <2>1 DEF Linked
  <2>3. \A j \in 1 .. p - 1 : s[j].fn = "Router" => t[j].fn = "Router" /\ t[j].i = s[j].i
    <3>1. \A j \in 1 .. p - 1 : j \in 1 .. Len(t) /\ j <= Len(s)
      BY <2>1
    <3>2. QED
      BY <3>1 DEF Similar
  <2>4. ASSUME NEW r \in Routers, Rank(Routers, r) <= k
        PROVE  \E j \in 1 .. p - 1 : t[j].fn = "Router" /\ t[j].i = r
    BY <2>2, <2>3, <2>4
  <2>5. QED
    BY <2>1, <2>2, <2>4
<1>3. ASSUME NEW p \in 1 .. Len(t), t[p].fn = "Router"
      PROVE  2 * Rank(Routers, t[p].i) = p - 1
  <2>1. p \in 1 .. Len(s) /\ s[p].fn = "Router" /\ t[p].i = s[p].i
    <3>1. p <= Len(s)
      BY <1>3 DEF Similar
    <3>2. QED
      BY <1>3, <3>1 DEF Similar
  <2>2. QED
    BY <2>1 DEF Linked
<1>4. QED
  BY <1>1, <1>2, <1>3 DEF Linked

\* What service j does with a command that it is offered.
Handles(j, cmd) ==
  \/ Executes(Services[j], cmd)
  \/ Dispatches(Services[j], cmd)
  \/ j \in Routers /\ cmd.id = MR_SEND_TO /\ ~routing[j]

Asked == stack[2].cmd
TheAnswer == Answer(Services, MyAddress, Asked)

\* The overriding stream has not been written to.
Fresh == override # 0 => \E prefix \in Seq(Token) : streams[override] = NewStream(prefix)

\* The services before n had the command and did nothing about it.
Seeking(n) ==
  /\ radio = <<>> /\ serial = <<>> /\ Fresh
  /\ \A k \in Nat : Depth = 2 * k + 4 => streams[override] = ReplyTo(Below(Asked)[k])
  /\ \A j \in 1 .. n - 1 : ~Handles(j, Top.cmd)

\* The answer is out.
Answered == TheAnswer = [packets |-> radio, prints |-> serial]

\* It is in the context, and is dispatched next.
Pending ==
  /\ Depth = 2 /\ override = 0 /\ result # <<>>
  /\ radio = <<>> /\ serial = <<>>
  /\ TheAnswer = [packets |-> <<>>,
                  prints |-> PrintsOf(Services, cmdId, Truncated(result, ParaCapacity))]

\* The generators have it, up to the one whose turn it is.
Printing ==
  /\ TheAnswer = [packets |-> <<>>, prints |-> PrintsOf(Services, cmdId, para.data)]
  /\ radio = <<>> /\ para.data # <<>>
  /\ Top.pc = "end" => serial = PrintsUpTo(Services, cmdId, para.data)[Top.i]
  /\ Top.pc # "end" => serial = PrintsUpTo(Services, cmdId, para.data)[Top.i - 1] /\ para.rd = 0
  /\ Top.pc # "begin" => paraSize = Len(para.data)
  /\ Top.pc # "begin" \/ Top.i > 1 \/ override # 0 => result = <<>>
  /\ Fresh

Course ==
  /\ Top.fn = "Execute" /\ Top.pc = "begin" =>
       Seeking(Top.i) /\ (Top.i > 1 \/ override # 0 => result = <<>>)
  /\ Top.fn = "Execute" /\ Top.pc = "call" => Seeking(Top.i) /\ result = <<>> /\ ~executed
  /\ Top.fn = "Execute" /\ Top.pc = "end" /\ ~executed => Seeking(Top.i + 1) /\ result = <<>>
  /\ Top.fn = "Execute" /\ (Top.pc = "finish" \/ (Top.pc = "end" /\ executed)) =>
       executed /\ (Pending \/ (Answered /\ result = <<>>))
  /\ (Top.fn = "Execute" /\ Top.pc = "return") \/ Top.fn \in {"Router", "System"} =>
       Answered /\ result = <<>>
  /\ Top.fn = "HandleResult" => Printing

AInv == Depth >= 2 => Linked(stack) /\ Course

\* The commands for results and for routing belong to the system service and the
\* router: each kind of service has a range of numbers of its own (ERxCommandId.h).
Numbered ==
  \A i \in 1 .. N : Services[i].kind = "executor" => Services[i].id \notin {SYS_RESULT, MR_SEND_TO}

LEMMA Kept ==
  ASSUME StepContext, AInv, Depth >= 2, stack' \in Seq(Frame), Len(stack') >= 2,
         Similar(stack, stack')
  PROVE  Linked(stack') /\ Asked' = Asked /\ TheAnswer' = TheAnswer
<1>1. /\ stack[2].fn = "Execute" /\ Len(stack) \in Nat /\ Len(stack) >= 2
      /\ Linked(stack) /\ Len(stack') \in Nat
  BY Levels DEF StepContext, NInv, AInv, Depth
<1>2. Linked(stack') /\ stack'[2].cmd = stack[2].cmd
  BY <1>1, LinkedKept
<1>3. QED
  BY <1>2 DEF Asked, TheAnswer

LEMMA SimilarMoved ==
  ASSUME IInv, stack # <<>>, NEW pc, MayGoTo(pc)
  PROVE  Similar(stack, GoTo(pc)) /\ Len(GoTo(pc)) = Len(stack)
<1>1. /\ GoTo(pc) \in Seq(Frame) /\ Len(GoTo(pc)) = Depth
      /\ Depth = Len(stack) /\ Top = stack[Depth] /\ Depth \in Nat
      /\ GoTo(pc)[Depth].fn = Top.fn /\ GoTo(pc)[Depth].i = Top.i
      /\ Top.fn = "Execute" => GoTo(pc)[Depth].cmd = Top.cmd
      /\ \A j \in 1 .. Depth - 1 : GoTo(pc)[j] = stack[j]
  BY MovedTop
<1>2. SUFFICES ASSUME NEW p \in 1 .. Depth
               PROVE  /\ GoTo(pc)[p].fn = stack[p].fn
                      /\ GoTo(pc)[p].fn = "Router" => GoTo(pc)[p].i = stack[p].i
                      /\ GoTo(pc)[p].fn = "Execute" => GoTo(pc)[p].cmd = stack[p].cmd
  BY <1>1 DEF Similar
<1>3. CASE p = Depth
  BY <1>1, <1>3
<1>4. CASE p # Depth
  <2>1. p \in 1 .. Depth - 1
    BY <1>1, <1>4
  <2>2. QED
    BY <1>1, <2>1
<1>5. QED
  BY <1>3, <1>4

\* The running call goes on at pc.
LEMMA KeptMoved ==
  ASSUME StepContext, AInv, Depth >= 2, NEW pc, MayGoTo(pc), stack' = GoTo(pc)
  PROVE  /\ Linked(stack') /\ Asked' = Asked /\ TheAnswer' = TheAnswer
         /\ Depth' = Depth /\ Depth' >= 2
         /\ Top'.fn = Top.fn /\ Top'.pc = pc /\ Top'.i = Top.i
         /\ Top.fn = "Execute" => Top'.cmd = Top.cmd
<1>1. IInv /\ CallsNest /\ stack # <<>> /\ Depth \in Nat
  BY Levels DEF StepContext, NInv, Depth
<1>2. stack' \in Seq(Frame) /\ Len(stack') = Depth
  BY <1>1, MovedTop
<1>3. Similar(stack, stack')
  BY <1>1, SimilarMoved
<1>4. Linked(stack') /\ Asked' = Asked /\ TheAnswer' = TheAnswer
  BY <1>2, <1>3, Kept
<1>5. Depth' = Depth
  BY <1>2 DEF Depth
<1>6. QED
  BY <1>1, <1>4, <1>5, NestMoved

\* It goes on with the next service.
LEMMA KeptAdvanced ==
  ASSUME StepContext, AInv, Depth >= 2, Top.fn \in {"Execute", "HandleResult"},
         Top.i <= N, stack' = Advance
  PROVE  /\ Linked(stack') /\ Asked' = Asked /\ TheAnswer' = TheAnswer
         /\ Depth' = Depth /\ Depth' >= 2
         /\ Top'.fn = Top.fn /\ Top'.pc = "begin" /\ Top'.i = Top.i + 1
         /\ Top.fn = "Execute" => Top'.cmd = Top.cmd
<1>1. IInv /\ CallsNest /\ stack # <<>> /\ Depth \in Nat
  BY Levels DEF StepContext, NInv, Depth
<1>2. /\ Advance \in Seq(Frame) /\ Len(Advance) = Depth
      /\ Depth = Len(stack) /\ Top = stack[Depth]
      /\ Advance[Depth].fn = Top.fn
      /\ Top.fn = "Execute" => Advance[Depth].cmd = Top.cmd
      /\ \A j \in 1 .. Depth - 1 : Advance[j] = stack[j]
  BY <1>1, AdvancedTop
<1>3. Similar(stack, stack')
  <2>1. SUFFICES ASSUME NEW p \in 1 .. Len(stack')
                 PROVE  /\ p <= Len(stack)
                        /\ stack'[p].fn = stack[p].fn
                        /\ stack'[p].fn = "Router" => stack'[p].i = stack[p].i
                        /\ stack'[p].fn = "Execute" => stack'[p].cmd = stack[p].cmd
    BY DEF Similar
  <2>2. CASE p = Depth
    BY <1>1, <1>2, <2>2
  <2>3. CASE p # Depth
    <3>1. p \in 1 .. Depth - 1
      BY <1>1, <1>2, <2>3
    <3>2. QED
      BY <1>1, <1>2, <3>1
  <2>4. QED
    BY <2>2, <2>3
<1>4. Linked(stack') /\ Asked' = Asked /\ TheAnswer' = TheAnswer
  BY <1>2, <1>3, Kept
<1>5. Depth' = Depth
  BY <1>2 DEF Depth
<1>6. QED
  BY <1>1, <1>4, <1>5, NestAdvanced

\* It returns.
LEMMA KeptReturned ==
  ASSUME StepContext, AInv, Depth >= 3, stack' = Return
  PROVE  /\ Linked(stack') /\ Asked' = Asked /\ TheAnswer' = TheAnswer
         /\ Depth' = Depth - 1 /\ Depth' >= 2
         /\ MayCall(Top'.fn, Top'.pc, Top.fn)
<1>1. IInv /\ CallsNest /\ stack # <<>> /\ Depth \in Nat /\ TypeOK
  BY Levels DEF StepContext, NInv, Depth, IInv
<1>2. /\ Return \in Seq(Frame) /\ Len(Return) = Depth - 1
      /\ \A j \in 1 .. Depth - 1 : Return[j] = stack[j]
  BY <1>1, ReturnStack
<1>3. Similar(stack, stack')
  <2>1. Len(stack') = Len(stack) - 1 /\ Len(stack) \in Nat
    BY <1>1, <1>2 DEF Depth
  <2>2. QED
    BY <1>2, <2>1 DEF Similar, Depth
<1>4. Linked(stack') /\ Asked' = Asked /\ TheAnswer' = TheAnswer
  BY <1>1, <1>2, <1>3, Kept
<1>5. Depth' = Depth - 1 /\ stack' # <<>>
  BY <1>1, <1>2 DEF Depth
<1>6. QED
  BY <1>1, <1>4, <1>5, NestReturned

\* It calls HandleResult, for the result of its command or of another node's.
LEMMA KeptCalled ==
  ASSUME StepContext, AInv, Depth >= 2, NEW f \in Frame, f.fn = "HandleResult",
         NEW pc, MayGoTo(pc),
         \/ stack' = Append(GoTo(pc), f) /\ MayCall(Top.fn, pc, f.fn)
         \/ \E g \in Frame : /\ g.fn = "System" /\ stack' = GoTo(pc) \o <<g, f>>
                             /\ Top.fn = "Execute" /\ pc = "end"
  PROVE  /\ Linked(stack') /\ Asked' = Asked /\ TheAnswer' = TheAnswer
         /\ Depth' >= 2 /\ Top' = f
<1>1. IInv /\ CallsNest /\ stack # <<>> /\ Depth \in Nat
  BY Levels DEF StepContext, NInv, Depth
<1>2. /\ GoTo(pc) \in Seq(Frame) /\ Len(GoTo(pc)) = Depth
      /\ Depth = Len(stack) /\ Top = stack[Depth]
      /\ GoTo(pc)[Depth].fn = Top.fn /\ GoTo(pc)[Depth].i = Top.i
      /\ Top.fn = "Execute" => GoTo(pc)[Depth].cmd = Top.cmd
      /\ \A j \in 1 .. Depth - 1 : GoTo(pc)[j] = stack[j]
  BY <1>1, MovedTop
<1>3. \A p \in 1 .. Depth :
         /\ GoTo(pc)[p].fn = stack[p].fn
         /\ GoTo(pc)[p].fn = "Router" => GoTo(pc)[p].i = stack[p].i
         /\ GoTo(pc)[p].fn = "Execute" => GoTo(pc)[p].cmd = stack[p].cmd
  BY <1>1, <1>2, SimilarMoved DEF Similar
<1>4. CASE stack' = Append(GoTo(pc), f) /\ MayCall(Top.fn, pc, f.fn)
  <2>1. /\ stack' \in Seq(Frame) /\ Len(stack') = Depth + 1 /\ stack'[Depth + 1] = f
        /\ \A j \in 1 .. Depth : stack'[j] = GoTo(pc)[j]
    BY <1>2, <1>4, PushOne
  <2>2. Similar(stack, stack')
    <3>1. SUFFICES ASSUME NEW p \in 1 .. Depth + 1
                   PROVE  /\ p <= Depth =>
                              /\ stack'[p].fn = stack[p].fn
                              /\ stack'[p].fn = "Router" => stack'[p].i = stack[p].i
                              /\ stack'[p].fn = "Execute" => stack'[p].cmd = stack[p].cmd
                          /\ ~(p <= Depth) => stack'[p].fn = "HandleResult"
      BY <1>2, <2>1 DEF Similar
    <3>2. p <= Depth => p \in 1 .. Depth
      BY <1>1
    <3>3. ~(p <= Depth) => p = Depth + 1
      BY <1>1
    <3>4. QED
      BY <1>3, <2>1, <3>2, <3>3
  <2>3. Linked(stack') /\ Asked' = Asked /\ TheAnswer' = TheAnswer
    BY <1>1, <2>1, <2>2, Kept
  <2>4. Depth' >= 2
    BY <1>1, <2>1 DEF Depth
  <2>5. QED
    BY <1>1, <1>4, <2>3, <2>4, NestCalled
<1>5. CASE \E g \in Frame : /\ g.fn = "System" /\ stack' = GoTo(pc) \o <<g, f>>
                            /\ Top.fn = "Execute" /\ pc = "end"
  <2>0. PICK g \in Frame : /\ g.fn = "System" /\ stack' = GoTo(pc) \o <<g, f>>
                           /\ Top.fn = "Execute" /\ pc = "end"
    BY <1>5
  <2>1. /\ stack' \in Seq(Frame) /\ Len(stack') = Depth + 2 /\ stack'[Depth + 1] = g
        /\ stack'[Depth + 2] = f
        /\ \A j \in 1 .. Depth : stack'[j] = GoTo(pc)[j]
    BY <1>2, <2>0, PushTwo
  <2>2. Similar(stack, stack')
    <3>1. SUFFICES ASSUME NEW p \in 1 .. Depth + 2
                   PROVE  /\ p <= Depth =>
                              /\ stack'[p].fn = stack[p].fn
                              /\ stack'[p].fn = "Router" => stack'[p].i = stack[p].i
                              /\ stack'[p].fn = "Execute" => stack'[p].cmd = stack[p].cmd
                          /\ ~(p <= Depth) => stack'[p].fn \in {"System", "HandleResult"}
      BY <1>2, <2>1 DEF Similar
    <3>2. p <= Depth => p \in 1 .. Depth
      BY <1>1
    <3>3. ~(p <= Depth) => p = Depth + 1 \/ p = Depth + 2
      BY <1>1
    <3>4. QED
      BY <1>3, <2>0, <2>1, <3>2, <3>3
  <2>3. Linked(stack') /\ Asked' = Asked /\ TheAnswer' = TheAnswer
    BY <1>1, <2>1, <2>2, Kept
  <2>4. Depth' >= 2
    BY <1>1, <2>1 DEF Depth
  <2>5. MayCall("Execute", "end", g.fn) /\ MayCall(g.fn, g.pc, f.fn)
    BY <2>0 DEF MayCall
  <2>6. QED
    BY <1>1, <2>0, <2>3, <2>4, <2>5, NestCalledTwo
<1>6. QED
  BY <1>4, <1>5

-----------------------------------------------------------------------------

\* Where the host is when it executes a command.
LEMMA AtExecute ==
  ASSUME IInv, NInv, AInv, stack # <<>>, Top.fn = "Execute"
  PROVE  /\ Depth \in Nat /\ Depth >= 2 /\ Top = stack[Depth] /\ Course /\ Linked(stack)
         /\ Top \in Frame /\ Top.i \in Nat /\ Top.i >= 1 /\ N \in Nat
         /\ override \in Routers \union {0}
         /\ \E k \in Nat :
              /\ Depth = 2 * k + 2 /\ k <= Cardinality(Routers)
              /\ Top.cmd = Below(Asked)[k] /\ Unwrapped(Asked, k)
              /\ override = 0 <=> k = 0
              /\ \A r \in Routers : routing[r] <=> Rank(Routers, r) <= k
<1>1. IInv /\ CallsNest /\ override \in Routers \union {0}
  BY DEF NInv, IInv, TypeOK
<1>2. /\ Depth \in Nat /\ Depth >= 2 /\ Top = stack[Depth] /\ Depth = Len(stack)
      /\ stack \in Seq(Frame) /\ N \in Nat
  BY <1>1, LevelOfTop, Levels
<1>3. Course /\ Linked(stack) /\ Top \in Frame /\ Top.i \in Nat /\ Top.i >= 1
  <2>1. Course /\ Linked(stack) /\ Top \in Frame
    BY <1>1, <1>2, InvParts DEF AInv
  <2>2. QED
    BY <2>1 DEF Frame, AnyFrame
<1>4. PICK k \in Nat :
        /\ Depth = 2 * k + 2 /\ Top.cmd = Below(Asked)[k] /\ Unwrapped(Asked, k)
        /\ \A r \in Routers : Rank(Routers, r) <= k =>
             \E j \in 1 .. Depth - 1 : stack[j].fn = "Router" /\ stack[j].i = r
  BY <1>2, <1>3 DEF Linked, Asked
<1>5. k = 0 => override = 0
  <2>1. SUFFICES ASSUME k = 0 PROVE override = 0
    OBVIOUS
  <2>2. Depth = 2 /\ stack[1].fn = "Run"
    BY <1>1, <1>2, <1>4, <2>1, Levels
  <2>3. RouterFrames = {}
    <3>1. \A j \in 1 .. Depth : j = 1 \/ j = 2
      BY <2>2
    <3>2. QED
      BY <1>2, <2>2, <3>1 DEF RouterFrames
  <2>4. QED
    BY <1>1, <2>3 DEF IInv, CallsOK, OverrideLive, InnermostBelow
<1>6. k # 0 => /\ Depth - 1 \in RouterFrames /\ 2 * Rank(Routers, stack[Depth - 1].i) = 2 * k
               /\ stack[Depth - 1].i \in Routers
  <2>1. SUFFICES ASSUME k # 0
                 PROVE  /\ Depth - 1 \in RouterFrames
                        /\ 2 * Rank(Routers, stack[Depth - 1].i) = 2 * k
                        /\ stack[Depth - 1].i \in Routers
    OBVIOUS
  <2>2. Depth >= 4 /\ Depth - 1 \in 1 .. Depth - 1 /\ Depth - 2 \in 1 .. Depth - 1
        /\ Depth - 1 + 1 = Depth /\ Depth - 2 + 1 = Depth - 1 /\ Depth - 1 \in 1 .. Depth
        /\ Depth - 1 \in 1 .. Len(stack) /\ Depth - 1 - 1 = 2 * k
    BY <1>2, <1>4, <2>1
  <2>3. MayCall(stack[Depth - 1].fn, stack[Depth - 1].pc, "Execute")
    BY <1>1, <1>2, <2>2 DEF CallsNest
  <2>4. MayCall(stack[Depth - 2].fn, stack[Depth - 2].pc, stack[Depth - 1].fn)
    BY <1>1, <1>2, <2>2 DEF CallsNest
  <2>5. stack[Depth - 1].fn = "Router"
    BY <2>3, <2>4 DEF MayCall
  <2>6. stack[Depth - 1] \in Frame
    BY <1>2, <2>2
  <2>7. QED
    BY <1>3, <2>2, <2>5, <2>6 DEF RouterFrames, Linked, Frame, AnyFrame
<1>7. k # 0 => override # 0
  <2>1. SUFFICES ASSUME k # 0, override = 0 PROVE FALSE
    OBVIOUS
  <2>2. Depth - 1 \in RouterFrames /\ ~(Depth - 1 >= Depth + 1)
    BY <1>2, <1>6, <2>1
  <2>3. \E j \in RouterFrames : stack[j].i = 0
    BY <1>1, <2>1, <2>2 DEF IInv, CallsOK, OverrideLive, InnermostBelow
  <2>4. \A j \in RouterFrames : stack[j] \in Frame /\ stack[j].fn = "Router"
    BY <1>2 DEF RouterFrames
  <2>5. \A j \in RouterFrames : stack[j].i \in Routers
    BY <2>4 DEF Frame, AnyFrame
  <2>6. 0 \notin Routers
    BY DEF Routers
  <2>7. QED
    BY <2>3, <2>5, <2>6
<1>8. k <= Cardinality(Routers)
  <2>1. CASE k = 0
    BY <2>1, RoutersFinite
  <2>2. CASE k # 0
    <3>1. PICK r \in Routers : 2 * Rank(Routers, r) = 2 * k
      BY <1>6, <2>2
    <3>2. Rank(Routers, r) \in 1 .. Cardinality(Routers) /\ Cardinality(Routers) \in Nat
      BY RouterRanks, RoutersFinite
    <3>3. QED
      BY <3>1, <3>2
  <2>3. QED
    BY <2>1, <2>2
<1>9. ASSUME NEW r \in Routers
      PROVE  routing[r] <=> Rank(Routers, r) <= k
  <2>1. routing[r] <=> \E j \in RouterFrames : stack[j].i = r
    BY <1>1 DEF IInv, CallsOK, RoutingMatchesCalls
  <2>2. Rank(Routers, r) \in Nat
    BY RouterRanks, RoutersFinite
  <2>3. ASSUME NEW j \in RouterFrames, stack[j].i = r PROVE Rank(Routers, r) <= k
    <3>1. j \in 1 .. Depth /\ stack[j].fn = "Router"
      BY DEF RouterFrames
    <3>2. j # Depth
      BY <1>2, <3>1
    <3>3. 2 * Rank(Routers, r) = j - 1
      BY <1>2, <1>3, <2>3, <3>1 DEF Linked
    <3>4. QED
      BY <1>2, <1>4, <2>2, <3>1, <3>2, <3>3
  <2>4. Rank(Routers, r) <= k => \E j \in RouterFrames : stack[j].i = r
    <3>1. \A j \in 1 .. Depth - 1 : j \in 1 .. Depth
      BY <1>2
    <3>2. QED
      BY <1>4, <3>1 DEF RouterFrames
  <2>5. QED
    BY <2>1, <2>3, <2>4
<1>10. QED
  BY <1>1, <1>2, <1>3, <1>4, <1>5, <1>7, <1>8, <1>9

-----------------------------------------------------------------------------
(* One step for each service that does something about a command.         *)

\* The command of the running call is taken off as many prefixes as Node says, unless
\* it is one for a router that is free.
LEMMA LevelTaken ==
  ASSUME IInv, NInv, AInv, stack # <<>>, Top.fn = "Execute", NEW k \in Nat,
         Depth = 2 * k + 2,
         \/ Top.cmd.id # MR_SEND_TO
         \/ Dest(Top.cmd) # MyAddress
         \/ \A r \in Routers : routing[r]
  PROVE  /\ Taken(Services, MyAddress, Asked) = k
         /\ (\A r \in Routers : routing[r]) => k >= Cardinality(Routers)
<1>1. PICK n \in Nat :
         /\ Depth = 2 * n + 2 /\ n <= Cardinality(Routers)
         /\ Top.cmd = Below(Asked)[n] /\ Unwrapped(Asked, n)
         /\ \A r \in Routers : routing[r] <=> Rank(Routers, r) <= n
  BY AtExecute
<1>2. n = k
  BY <1>1
<1>3. (\A r \in Routers : routing[r]) => k >= Cardinality(Routers)
  <2>1. SUFFICES ASSUME \A r \in Routers : routing[r] PROVE Cardinality(Routers) <= k
    BY RoutersFinite
  <2>2. \A r \in Routers : Rank(Routers, r) <= k
    BY <1>1, <1>2, <2>1
  <2>3. QED
    BY <2>2, RouterRanks
<1>4. k = Cardinality(Routers) \/ ~ForMe(Below(Asked)[k])
  <2>1. (\A r \in Routers : routing[r]) => k = Cardinality(Routers)
    BY <1>1, <1>2, <1>3, RoutersFinite
  <2>2. QED
    BY <1>1, <1>2, <2>1 DEF ForMe
<1>5. QED
  BY <1>1, <1>2, <1>3, <1>4, TakenIs

\* No service does anything about the command.
LEMMA Nobody ==
  ASSUME IInv, NInv, AInv, stack # <<>>, Top.fn = "Execute",
         \A j \in 1 .. N : ~Handles(j, Top.cmd)
  PROVE  TheAnswer = [packets |-> <<>>, prints |-> <<>>]
<1>1. PICK k \in Nat : Depth = 2 * k + 2 /\ Top.cmd = Below(Asked)[k]
  BY AtExecute
<1>2. Top.cmd.id # MR_SEND_TO \/ \A r \in Routers : routing[r]
  BY DEF Handles, Routers
<1>3. /\ Taken(Services, MyAddress, Asked) = k
      /\ Below(Asked)[k].id # MR_SEND_TO \/ k >= Cardinality(Routers)
  BY <1>1, <1>2, LevelTaken
<1>4. \A j \in 1 .. N : /\ ~Executes(Services[j], Below(Asked)[k])
                        /\ ~Dispatches(Services[j], Below(Asked)[k])
  BY <1>1 DEF Handles
<1>5. QED
  BY <1>3, <1>4, AnswerNone DEF TheAnswer

\* The first service to execute the command writes the answer.
LEMMA WrittenAnswer ==
  ASSUME StepContext, AInv, stack # <<>>, Top.fn = "Execute", Top.i \in 1 .. N,
         Seeking(Top.i), Executes(Services[Top.i], Top.cmd),
         Top.cmd.id # SYS_RESULT, Top.cmd.id # MR_SEND_TO,
         NEW text,
         text = IF Services[Top.i].kind = "executor" THEN Services[Top.i].result
                ELSE HelpText(Services)
  PROVE  /\ override = 0 =>
              /\ Depth = 2
              /\ TheAnswer =
                   [packets |-> <<>>,
                    prints |-> PrintsOf(Services, Top.cmd.id,
                                 Truncated(Truncated(text, ResultCapacity), ParaCapacity))]
         /\ override # 0 =>
              TheAnswer = [packets |-> WrittenAll(streams[override], text).sent, prints |-> <<>>]
<1>1. PICK k \in Nat : /\ Depth = 2 * k + 2 /\ Top.cmd = Below(Asked)[k]
                       /\ override = 0 <=> k = 0
  BY AtExecute DEF StepContext
<1>2. Taken(Services, MyAddress, Asked) = k
  BY <1>1, LevelTaken DEF StepContext
<1>3. Output(Services, Below(Asked)[k]) = text
  <2>1. \A j \in 1 .. Top.i - 1 : ~Executes(Services[j], Top.cmd)
    BY DEF Seeking, Handles
  <2>2. QED
    BY <1>1, <2>1, OutputIs
<1>4. TheAnswer =
        [packets |-> IF k = 0 THEN <<>> ELSE WrittenAll(ReplyTo(Below(Asked)[k - 1]), text).sent,
         prints |-> IF k = 0
                      THEN PrintsOf(Services, Top.cmd.id,
                             Truncated(Truncated(text, ResultCapacity), ParaCapacity))
                      ELSE <<>>]
  BY <1>1, <1>2, <1>3, AnswerOwn DEF TheAnswer
<1>5. k # 0 => streams[override] = ReplyTo(Below(Asked)[k - 1])
  <2>1. k # 0 => k - 1 \in Nat /\ Depth = 2 * (k - 1) + 4
    BY <1>1
  <2>2. QED
    BY <2>1 DEF Seeking
<1>6. QED
  BY <1>1, <1>4, <1>5

LEMMA AtCall ==
  ASSUME StepContext, AInv, NEW kind, Executing(kind)
  PROVE  /\ stack # <<>> /\ Top.fn = "Execute" /\ Top.pc = "call" /\ Top.i \in 1 .. N
         /\ Services[Top.i].kind = kind /\ Service = Services[Top.i] /\ MayGoTo("end")
         /\ Depth >= 2 /\ Course /\ Seeking(Top.i) /\ result = <<>> /\ ~executed
         /\ cmdId = Top.cmd.id /\ para.data = Top.cmd.data /\ para.rd = 0
         /\ paraSize = Len(para.data) /\ ParaOK(para) /\ Len(para.data) <= ParaCapacity
         /\ DOMAIN streams = Routers /\ override \in Routers \union {0}
<1>1. IInv /\ CommandKept /\ ContextOK /\ TypeOK
  BY InvContext DEF StepContext, NInv, IInv
<1>2. /\ stack # <<>> /\ Top.fn = "Execute" /\ Top.i \in 1 .. N
      /\ Service.kind = kind /\ MayGoTo("end") /\ Top.pc = "call"
  BY <1>1, ExecutingService DEF Executing, Running
<1>3. Depth >= 2 /\ Course
  BY <1>2, AtExecute DEF StepContext
<1>4. QED
  BY <1>1, <1>2, <1>3 DEF Course, CommandKept, ContextOK, TypeOK, Service

LEMMA WriterAnswers ==
  ASSUME StepContext, AInv, NEW kind, Executing(kind), Executes(Service, Top.cmd),
         Top.cmd.id # SYS_RESULT, Top.cmd.id # MR_SEND_TO,
         NEW text \in Seq(Token),
         text = IF Service.kind = "executor" THEN Service.result ELSE HelpText(Services),
         WriteResult(text), executed' = TRUE, stack' = GoTo("end"),
         UNCHANGED <<cmdId, para, paraSize, override, routing, serial>>
  PROVE  AInv'
<1>1. /\ stack # <<>> /\ Top.fn = "Execute" /\ Top.i \in 1 .. N
      /\ Service = Services[Top.i] /\ MayGoTo("end")
      /\ Depth >= 2 /\ Seeking(Top.i) /\ result = <<>>
      /\ cmdId = Top.cmd.id
      /\ DOMAIN streams = Routers /\ override \in Routers \union {0}
  BY AtCall
<1>2. /\ Linked(stack') /\ TheAnswer' = TheAnswer /\ Depth' = Depth
      /\ Top'.fn = "Execute" /\ Top'.pc = "end"
  BY <1>1, KeptMoved
<1>3. radio = <<>> /\ serial = <<>> /\ Fresh
  BY <1>1 DEF Seeking
<1>4. CASE override = 0
  <2>1. /\ Depth = 2
        /\ TheAnswer = [packets |-> <<>>,
                        prints |-> PrintsOf(Services, cmdId,
                                     Truncated(Truncated(text, ResultCapacity), ParaCapacity))]
    BY <1>1, <1>4, WrittenAnswer
  <2>2. result' = Truncated(text, ResultCapacity) /\ radio' = <<>> /\ serial' = <<>>
    <3>1. <<>> \o text = text
      OBVIOUS
    <3>2. QED
      BY <1>1, <1>3, <1>4, <3>1 DEF WriteResult
  <2>3. CASE result' = <<>>
    <3>1. TheAnswer = [packets |-> <<>>, prints |-> <<>>]
      BY <2>1, <2>2, <2>3, PrintsNothing, ProtocolAssumption
    <3>2. Answered'
      BY <1>2, <2>2, <3>1 DEF Answered
    <3>3. QED
      BY <1>2, <2>3, <3>2 DEF AInv, Course
  <2>4. CASE result' # <<>>
    <3>1. Pending'
      BY <1>2, <1>4, <2>1, <2>2, <2>4 DEF Pending
    <3>2. QED
      BY <1>2, <3>1 DEF AInv, Course
  <2>5. QED
    BY <2>3, <2>4
<1>5. CASE override # 0
  <2>1. TheAnswer = [packets |-> WrittenAll(streams[override], text).sent, prints |-> <<>>]
    BY <1>1, <1>5, WrittenAnswer
  <2>2. PICK prefix \in Seq(Token) : streams[override] = NewStream(prefix)
    BY <1>3, <1>5 DEF Fresh
  <2>3. radio' = WrittenAll(streams[override], text).sent /\ result' = <<>> /\ serial' = <<>>
    <3>1. radio' = <<>> \o WrittenAll(streams[override], text).sent
      BY <1>1, <1>3, <1>5 DEF WriteResult, OnOverride
    <3>2. result' = <<>>
      BY <1>1, <1>5 DEF WriteResult, OnOverride
    <3>3. QED
      BY <1>3, <2>2, <3>1, <3>2, SentOnly
  <2>4. Answered'
    BY <1>2, <2>1, <2>3 DEF Answered
  <2>5. QED
    BY <1>2, <2>3, <2>4 DEF AInv, Course
<1>6. QED
  BY <1>4, <1>5

LEMMA ExecutorAnswers ==
  ASSUME StepContext, AInv, Numbered, ExecutorExecute
  PROVE  AInv'
<1>1. Executing("executor") /\ cmdId = Service.id /\ Service.kind = "executor"
  BY AtCall DEF ExecutorExecute
<1>2. /\ cmdId = Top.cmd.id /\ Service = Services[Top.i] /\ Top.i \in 1 .. N
  BY <1>1, AtCall
<1>3. Top.cmd.id # SYS_RESULT /\ Top.cmd.id # MR_SEND_TO
  BY <1>1, <1>2 DEF Numbered
<1>4. Service.result \in Seq(Token)
  BY <1>1, <1>2, ServiceType
<1>5. Executes(Service, Top.cmd)
  BY <1>1, <1>2 DEF Executes
<1>6. QED
  BY <1>1, <1>3, <1>4, <1>5, WriterAnswers DEF ExecutorExecute

LEMMA HelpAnswers ==
  ASSUME StepContext, AInv, SystemHelp
  PROVE  AInv'
<1>1. Executing("system") /\ cmdId = SYS_HELP /\ Service.kind = "system"
  BY AtCall DEF SystemHelp
<1>2. /\ cmdId = Top.cmd.id /\ Service = Services[Top.i] /\ Top.i \in 1 .. N
  BY <1>1, AtCall
<1>3. Top.cmd.id # SYS_RESULT /\ Top.cmd.id # MR_SEND_TO
  BY <1>1, <1>2 DEF SYS_HELP, SYS_RESULT, MR_SEND_TO
<1>4. HelpText(Services) \in Seq(Token)
  BY HelpTextType
<1>5. Executes(Service, Top.cmd)
  BY <1>1, <1>2 DEF Executes
<1>6. QED
  BY <1>1, <1>3, <1>4, <1>5, WriterAnswers DEF SystemHelp

LEMMA Whole ==
  ASSUME NEW t \in Seq(Token)
  PROVE  SubSeq(t, 1, Len(t)) = t
OBVIOUS

\* A service that leaves the command alone.
LEMMA PassedOn ==
  ASSUME StepContext, AInv, NEW kind, Executing(kind), ~Handles(Top.i, Top.cmd),
         stack' = GoTo("end"), UNCHANGED <<executed, result, routers, outputs>>
  PROVE  AInv'
<1>1. /\ stack # <<>> /\ Top.fn = "Execute" /\ Top.i \in 1 .. N /\ MayGoTo("end")
      /\ Depth >= 2 /\ Seeking(Top.i) /\ result = <<>> /\ ~executed
  BY AtCall
<1>2. /\ Linked(stack') /\ Asked' = Asked /\ Depth' = Depth
      /\ Top'.fn = "Execute" /\ Top'.pc = "end" /\ Top'.i = Top.i /\ Top'.cmd = Top.cmd
  BY <1>1, KeptMoved
<1>3. \A j \in 1 .. Top.i : ~Handles(j, Top.cmd)
  <2>1. \A j \in 1 .. Top.i : j \in 1 .. Top.i - 1 \/ j = Top.i
    BY <1>1
  <2>2. QED
    BY <1>1, <2>1 DEF Seeking
<1>4. Top.i + 1 - 1 = Top.i
  BY <1>1
<1>5. (Seeking(Top.i + 1))'
  BY <1>1, <1>2, <1>3, <1>4 DEF Seeking, Fresh, Handles, routers, outputs
<1>6. QED
  BY <1>1, <1>2, <1>5 DEF AInv, Course

LEMMA IgnoreAnswers ==
  ASSUME StepContext, AInv, Ignore
  PROVE  AInv'
<1>1. PICK kind : /\ Executing(kind)
                  /\ \/ kind = "uart" \/ kind = "generator"
                     \/ kind = "executor" /\ cmdId # Service.id
                     \/ kind = "system" /\ cmdId \notin {SYS_HELP, SYS_RESULT}
                     \/ kind = "router" /\ ~Routes
  BY DEF Ignore
<1>2. /\ Services[Top.i].kind = kind /\ Service = Services[Top.i] /\ Top.i \in 1 .. N
      /\ cmdId = Top.cmd.id
  BY <1>1, AtCall
<1>3. ~Handles(Top.i, Top.cmd)
  BY <1>1, <1>2 DEF Handles, Executes, Dispatches, HasResult, Routers, Routes
<1>4. QED
  BY <1>1, <1>3, PassedOn DEF Ignore, context

LEMMA NoResultAnswers ==
  ASSUME StepContext, AInv, SystemNoResult
  PROVE  AInv'
<1>1. /\ Executing("system") /\ cmdId = SYS_RESULT
      /\ ParseValue(para) = SYS_INVALID_COMMAND \/ Available(Parsed(para)) = 0
  BY DEF SystemNoResult
<1>2. /\ Services[Top.i].kind = "system" /\ cmdId = Top.cmd.id
      /\ para.data = Top.cmd.data /\ para.rd = 0 /\ ParaOK(para)
  BY <1>1, AtCall
<1>3. ~HasResult(Top.cmd)
  <2>1. ParseValue(para) = Number(para.data, 1)
    BY <1>2, Arguments
  <2>2. Available(Parsed(para)) > 0 <=> Behind(para.data, 1) # <<>>
    BY <1>2, Arguments
  <2>3. QED
    BY <1>1, <1>2, <2>1, <2>2 DEF HasResult, ResultId, Result
<1>4. ~Handles(Top.i, Top.cmd)
  BY <1>1, <1>2, <1>3 DEF Handles, Executes, Dispatches, Routers, SYS_RESULT, SYS_HELP
<1>5. QED
  BY <1>1, <1>4, PassedOn DEF SystemNoResult

LEMMA NoExecutor ==
  ASSUME Numbered, NEW cmd, cmd.id \in {SYS_RESULT, MR_SEND_TO}, NEW j \in 1 .. N
  PROVE  ~Executes(Services[j], cmd)
BY DEF Numbered, Executes, SYS_HELP, SYS_RESULT, MR_SEND_TO

\* A command for another node meets the first router that is free.
LEMMA Foreign ==
  ASSUME StepContext, AInv, Numbered, Routes, ParseValue(para) # MyAddress
  PROVE  /\ Executing("router")
         /\ TheAnswer =
              [packets |->
                 IF Service.relay
                   THEN WrittenAll(NewStream(<<>>), <<MR_SEND_TO>> \o Top.cmd.data).sent
                   ELSE <<>>,
               prints |-> <<>>]
<1>1. Executing("router") /\ ~routing[Top.i] /\ cmdId = MR_SEND_TO
  BY DEF Routes
<1>2. /\ stack # <<>> /\ Top.fn = "Execute" /\ Top.i \in 1 .. N
      /\ Services[Top.i].kind = "router" /\ Service = Services[Top.i]
      /\ Seeking(Top.i) /\ cmdId = Top.cmd.id
      /\ para.data = Top.cmd.data /\ para.rd = 0 /\ ParaOK(para)
  BY <1>1, AtCall
<1>3. Top.i \in Routers
  BY <1>2 DEF Routers
<1>4. PICK k \in Nat :
         /\ Depth = 2 * k + 2 /\ k <= Cardinality(Routers)
         /\ Top.cmd = Below(Asked)[k]
         /\ \A r \in Routers : routing[r] <=> Rank(Routers, r) <= k
  BY <1>2, AtExecute DEF StepContext
<1>5. Dest(Top.cmd) # MyAddress
  BY <1>2, Arguments DEF Dest
<1>6. Taken(Services, MyAddress, Asked) = k
  BY <1>2, <1>4, <1>5, LevelTaken DEF StepContext
<1>7. Rank(Routers, Top.i) = k + 1
  <2>1. ~(Rank(Routers, Top.i) <= k) /\ Rank(Routers, Top.i) \in Nat
    <3>1. Rank(Routers, Top.i) \in 1 .. Cardinality(Routers) /\ Cardinality(Routers) \in Nat
      BY <1>3, RouterRanks, RoutersFinite
    <3>2. ~(Rank(Routers, Top.i) <= k)
      BY <1>1, <1>3, <1>4
    <3>3. QED
      BY <3>1, <3>2
  <2>2. ASSUME NEW r \in Routers, r < Top.i PROVE Rank(Routers, r) <= k
    <3>1. r \in 1 .. Top.i - 1
      BY <1>2, <2>2 DEF Routers
    <3>2. routing[r]
      BY <1>1, <1>2, <3>1 DEF Seeking, Handles
    <3>3. QED
      BY <1>4, <3>2
  <2>3. Rank(Routers, Top.i) <= k + 1
    BY <1>3, <2>2, RouterRanks
  <2>4. QED
    BY <2>1, <2>3
<1>8. k < Cardinality(Routers)
  <2>1. Rank(Routers, Top.i) \in 1 .. Cardinality(Routers) /\ Cardinality(Routers) \in Nat
    BY <1>3, RouterRanks, RoutersFinite
  <2>2. QED
    BY <1>7, <2>1
<1>9. \A j \in 1 .. N : ~Executes(Services[j], Top.cmd)
  BY <1>1, <1>2, NoExecutor
<1>10. QED
  BY <1>1, <1>2, <1>3, <1>4, <1>6, <1>7, <1>8, <1>9, AnswerForeign DEF TheAnswer

LEMMA RelayAnswers ==
  ASSUME StepContext, AInv, Numbered, RouterRelay \/ RouterDiscard
  PROVE  AInv'
<1>1. /\ Routes /\ ParseValue(para) # MyAddress /\ executed' = TRUE /\ stack' = GoTo("end")
      /\ UNCHANGED <<result, override, routing, streams, serial>>
  BY DEF RouterRelay, RouterDiscard, routers, outputs
<1>2. Executing("router")
  BY <1>1, Foreign
<1>3. TheAnswer =
        [packets |-> IF Service.relay
                       THEN WrittenAll(NewStream(<<>>), <<MR_SEND_TO>> \o Top.cmd.data).sent
                       ELSE <<>>,
         prints |-> <<>>]
  BY <1>1, Foreign
<1>4. /\ stack # <<>> /\ Top.fn = "Execute" /\ MayGoTo("end") /\ Depth >= 2
      /\ Seeking(Top.i) /\ result = <<>>
      /\ para.data = Top.cmd.data /\ paraSize = Len(para.data) /\ ParaOK(para)
  BY <1>2, AtCall
<1>5. radio = <<>> /\ serial = <<>>
  BY <1>4 DEF Seeking
<1>6. /\ Linked(stack') /\ TheAnswer' = TheAnswer /\ Depth' = Depth
      /\ Top'.fn = "Execute" /\ Top'.pc = "end"
  BY <1>1, <1>4, KeptMoved
<1>7. CASE RouterRelay
  <2>1. Service.relay /\ para'.data = Top.cmd.data
        /\ radio' = radio \o WrittenAll(NewStream(<<>>), <<MR_SEND_TO>> \o para'.data).sent
    <3>1. para.data \in Seq(Token)
      BY <1>4 DEF ParaOK
    <3>2. para'.data = SubSeq(para.data, 1, Len(para.data))
      BY <1>4, <1>7 DEF RouterRelay, Reset
    <3>3. QED
      BY <1>4, <1>7, <3>1, <3>2, Whole DEF RouterRelay
  <2> DEFINE text == <<MR_SEND_TO>> \o Top.cmd.data
  <2>2. text \in Seq(Token) /\ <<>> \in Seq(Token)
    <3>1. Top.cmd.data \in Seq(Token)
      BY <1>4 DEF ParaOK
    <3>2. <<MR_SEND_TO>> \in Seq(Token)
      BY DEF MR_SEND_TO, Token
    <3>3. QED
      BY <3>1, <3>2, ConcatProperties
  <2> HIDE DEF text
  <2>3. radio' = WrittenAll(NewStream(<<>>), text).sent
    BY <1>5, <2>1, <2>2, SentOnly DEF text
  <2>4. Answered'
    BY <1>1, <1>3, <1>5, <1>6, <2>1, <2>3 DEF Answered, text
  <2>5. QED
    BY <1>1, <1>4, <1>6, <2>4 DEF AInv, Course
<1>8. CASE RouterDiscard
  <2>1. ~Service.relay /\ radio' = radio
    BY <1>8 DEF RouterDiscard, outputs
  <2>2. Answered'
    BY <1>1, <1>3, <1>5, <1>6, <2>1 DEF Answered
  <2>3. QED
    BY <1>1, <1>4, <1>6, <2>2 DEF AInv, Course
<1>9. QED
  BY <1>7, <1>8

\* A result from another node goes to the generators.
LEMMA ResultAnswers ==
  ASSUME StepContext, AInv, Numbered, SystemResult
  PROVE  AInv'
<1> DEFINE id == ParseValue(para)
           text == Unread(Parsed(para))
<1>1. /\ Executing("system") /\ cmdId = SYS_RESULT
      /\ id # SYS_INVALID_COMMAND /\ Available(Parsed(para)) > 0
      /\ NewCommand(id, text)
      /\ stack' = GoTo("end") \o <<Call("System", Top.i, "call"), Call("HandleResult", 1, "begin")>>
      /\ UNCHANGED <<executed, result, override, routing, streams, radio, serial>>
  BY DEF SystemResult, routers, outputs
<1> HIDE DEF id, text
<1>2. /\ stack # <<>> /\ Top.fn = "Execute" /\ MayGoTo("end") /\ Depth >= 2 /\ Top.i \in 1 .. N
      /\ Services[Top.i].kind = "system" /\ cmdId = Top.cmd.id
      /\ Seeking(Top.i) /\ result = <<>>
      /\ para.data = Top.cmd.data /\ para.rd = 0 /\ ParaOK(para) /\ Len(para.data) <= ParaCapacity
  BY <1>1, AtCall
<1>3. /\ id = ResultId(Top.cmd) /\ text = Result(Top.cmd)
      /\ Available(Parsed(para)) > 0 <=> text # <<>>
      /\ text \in Seq(Token) /\ Len(text) <= Len(para.data)
  <2>1. /\ ParseValue(para) = Number(para.data, 1) /\ Unread(Parsed(para)) = Behind(para.data, 1)
        /\ Available(Parsed(para)) > 0 <=> Behind(para.data, 1) # <<>>
        /\ Len(Behind(para.data, 1)) <= Len(para.data) /\ Behind(para.data, 1) \in Seq(Token)
    BY <1>2, Arguments
  <2>2. QED
    BY <1>2, <2>1 DEF id, text, ResultId, Result
<1>4. PICK k \in Nat : Depth = 2 * k + 2 /\ Top.cmd = Below(Asked)[k]
  BY <1>2, AtExecute DEF StepContext
<1>5. Taken(Services, MyAddress, Asked) = k
  BY <1>1, <1>2, <1>4, LevelTaken DEF SYS_RESULT, MR_SEND_TO, StepContext
<1>6. Dispatches(Services[Top.i], Below(Asked)[k])
  BY <1>1, <1>2, <1>3, <1>4 DEF Dispatches, HasResult
<1>7. \A j \in 1 .. N : ~Executes(Services[j], Below(Asked)[k])
  BY <1>1, <1>2, <1>4, NoExecutor
<1>8. TheAnswer = [packets |-> <<>>, prints |-> PrintsOf(Services, UInt(id), text)]
  BY <1>2, <1>3, <1>4, <1>5, <1>6, <1>7, AnswerResult DEF TheAnswer
<1>9. cmdId' = UInt(id) /\ para'.data = text /\ para'.rd = 0
  <2>1. <<>> \o text = text /\ Len(text) <= ParaCapacity
    <3>1. Len(para.data) \in Nat /\ Len(text) \in Nat /\ ParaCapacity \in Nat
      BY <1>2, <1>3, ProtocolAssumption DEF ParaOK
    <3>2. QED
      BY <1>2, <1>3, <3>1
  <2>2. QED
    BY <1>1, <2>1 DEF NewCommand, Store, NoPara, Truncated
<1> DEFINE f == Call("HandleResult", 1, "begin")
           g == Call("System", Top.i, "call")
<1>10. f \in Frame /\ f.fn = "HandleResult" /\ f.i = 1 /\ f.pc = "begin"
       /\ g \in Frame /\ g.fn = "System"
  BY <1>2, NewFrames DEF Call
<1>11. stack' = GoTo("end") \o <<g, f>>
  BY <1>1
<1> HIDE DEF f, g
<1>12. Linked(stack') /\ TheAnswer' = TheAnswer /\ Depth' >= 2 /\ Top' = f
  BY <1>2, <1>10, <1>11, KeptCalled
<1>13. Printing'
  <2>1. radio' = <<>> /\ serial' = <<>> /\ Fresh'
    BY <1>1, <1>2 DEF Seeking, Fresh
  <2>2. serial' = PrintsUpTo(Services, cmdId', para'.data)[1 - 1]
    BY <2>1, PrintsSteps
  <2>3. para'.data # <<>>
    BY <1>1, <1>3, <1>9
  <2>4. result' = <<>>
    BY <1>1, <1>2
  <2>5. QED
    BY <1>8, <1>9, <1>10, <1>12, <2>1, <2>2, <2>3, <2>4 DEF Printing
<1>14. QED
  BY <1>10, <1>12, <1>13 DEF AInv, Course

\* The node's own result goes to them.
LEMMA DispatchAnswers ==
  ASSUME StepContext, AInv, ExecuteDispatch
  PROVE  AInv'
<1>1. /\ stack # <<>> /\ Top.fn = "Execute" /\ executed /\ ResultSize > 0
      /\ Top.pc = "finish" \/ (Top.pc = "begin" /\ Top.i > N)
      /\ NewCommand(cmdId, result)
      /\ stack' = Append(GoTo("return"), Call("HandleResult", 1, "begin"))
      /\ UNCHANGED <<executed, result, override, routing, streams, radio, serial>>
  BY DEF ExecuteDispatch, Offered, Running, routers, outputs
<1>2. Top.pc = "finish"
  BY <1>1 DEF StepContext, NInv, CommandKept
<1>3. Course /\ Depth >= 2
  BY <1>1, AtExecute DEF StepContext
<1>4. Pending
  <2>1. result # <<>>
    <3>1. CASE override = 0
      BY <1>1, <3>1 DEF ResultSize
    <3>2. CASE override # 0
      BY <1>1, <3>2 DEF ResultSize
    <3>3. QED
      BY <3>1, <3>2
  <2>2. QED
    BY <1>1, <1>2, <1>3, <2>1 DEF Course
<1>5. /\ ContextOK /\ cmdId \in 0 .. UIntSize - 1 /\ result \in Seq(Token)
  BY InvContext DEF StepContext, ContextOK
<1>6. cmdId' = cmdId
  <2>1. cmdId' = cmdId % UIntSize /\ UIntSize \in Nat /\ UIntSize > 0
    BY <1>1, ProtocolAssumption DEF NewCommand, UInt
  <2>2. QED
    BY <1>5, <2>1
<1>7. para'.data = Truncated(result, ParaCapacity) /\ para'.rd = 0
  <2>1. <<>> \o result = result
    BY <1>5
  <2>2. QED
    BY <1>1, <2>1 DEF NewCommand, Store, NoPara
<1>8. para'.data # <<>>
  <2>1. ParaCapacity \in Nat /\ ParaCapacity >= 1
    BY ProtocolAssumption
  <2>2. result # <<>> /\ Len(result) \in Nat
    BY <1>4, <1>5 DEF Pending
  <2>3. CASE Len(result) <= ParaCapacity
    BY <1>7, <2>2, <2>3 DEF Truncated
  <2>4. CASE ~(Len(result) <= ParaCapacity)
    <3>1. Len(SubSeq(result, 1, ParaCapacity)) = ParaCapacity - 1 + 1
      BY <1>5, <2>1, <2>2, <2>4, SubSeqType
    <3>2. QED
      BY <1>7, <2>1, <2>4, <3>1 DEF Truncated
  <2>5. QED
    BY <2>3, <2>4
<1> DEFINE f == Call("HandleResult", 1, "begin")
<1>9. f \in Frame /\ f.fn = "HandleResult" /\ f.i = 1 /\ f.pc = "begin"
  BY NewFrames DEF Call
<1>10. stack' = Append(GoTo("return"), f) /\ MayGoTo("return")
       /\ MayCall(Top.fn, "return", f.fn)
  BY <1>1, <1>9 DEF MayGoTo, ExecutePcs, MayCall
<1> HIDE DEF f
<1>11. Linked(stack') /\ TheAnswer' = TheAnswer /\ Depth' >= 2 /\ Top' = f
  BY <1>3, <1>9, <1>10, KeptCalled
<1>12. Printing'
  <2>1. radio' = <<>> /\ serial' = <<>> /\ override' = 0
    BY <1>1, <1>4 DEF Pending
  <2>2. serial' = PrintsUpTo(Services, cmdId', para'.data)[1 - 1]
    BY <2>1, PrintsSteps
  <2>3. TheAnswer' = [packets |-> <<>>, prints |-> PrintsOf(Services, cmdId', para'.data)]
    BY <1>4, <1>6, <1>7, <1>11 DEF Pending
  <2>4. QED
    BY <1>7, <1>8, <1>9, <1>11, <2>1, <2>2, <2>3 DEF Printing, Fresh
<1>13. QED
  BY <1>9, <1>11, <1>12 DEF AInv, Course

\* A command for this node: the router calls the host with what it wraps.
LEMMA DeliverAnswers ==
  ASSUME StepContext, AInv, RouterDeliver
  PROVE  AInv'
<1> DEFINE dest == Parsed(para)
           source == Parsed(dest)
           id == ParseValue(source)
           text == Unread(Parsed(source))
           f == RouterCall(Top.i)
           g == ExecuteCall(cmdId', para'.data)
           c == Top.cmd
<1>1. /\ Executing("router") /\ ~routing[Top.i] /\ cmdId = MR_SEND_TO
      /\ ParseValue(para) = MyAddress
      /\ NewCommand(id, text)
      /\ streams' = [streams EXCEPT ![Top.i] = ReplyStream(ParseValue(dest), id)]
      /\ override' = Top.i
      /\ stack' = GoTo("end") \o <<f, g>>
      /\ UNCHANGED <<executed, result, radio, serial>>
  BY DEF RouterDeliver, Routes, outputs
<1>2. /\ stack # <<>> /\ Top.fn = "Execute" /\ MayGoTo("end") /\ Depth >= 2 /\ Top.i \in 1 .. N
      /\ Services[Top.i].kind = "router" /\ cmdId = c.id
      /\ Seeking(Top.i) /\ result = <<>>
      /\ para.data = c.data /\ para.rd = 0 /\ ParaOK(para) /\ Len(para.data) <= ParaCapacity
      /\ DOMAIN streams = Routers
  BY <1>1, AtCall
<1>3. Top.i \in Routers
  BY <1>2 DEF Routers
<1>4. IInv /\ IInv' /\ CallsNest
  BY DEF StepContext, NInv
<1>5. PICK k \in Nat :
         /\ Depth = 2 * k + 2 /\ c = Below(Asked)[k] /\ Unwrapped(Asked, k)
         /\ \A r \in Routers : routing[r] <=> Rank(Routers, r) <= k
  BY <1>2, AtExecute DEF StepContext
<1>6. /\ ParseValue(para) = Dest(c) /\ ParseValue(dest) = Source(c) /\ id = WrappedId(c)
      /\ text = Behind(c.data, 3) /\ text \in Seq(Token) /\ Len(text) <= Len(para.data)
  BY <1>2, Arguments DEF Dest, Source, WrappedId
<1>7. Source(c) \in Nat /\ WrappedId(c) \in Nat
  <2>1. ParaOK(dest)
    BY <1>2, ParsedType
  <2> HIDE DEF dest
  <2>2. ParaOK(source) /\ ParseValue(dest) \in Nat
    BY <2>1, ParsedType
  <2> HIDE DEF source
  <2>3. ParseValue(source) \in Nat
    BY <2>2, ParsedType
  <2>4. QED
    BY <1>6, <2>2, <2>3
<1> HIDE DEF dest, source, id, text
<1>8. cmdId' = UInt(WrappedId(c)) /\ para'.data = Behind(c.data, 3)
  <2>1. <<>> \o text = text /\ Len(text) <= ParaCapacity
    <3>1. Len(para.data) \in Nat /\ Len(text) \in Nat /\ ParaCapacity \in Nat
      BY <1>2, <1>6, ProtocolAssumption DEF ParaOK
    <3>2. QED
      BY <1>2, <1>6, <3>1
  <2>2. QED
    BY <1>1, <1>6, <2>1 DEF NewCommand, Store, NoPara, Truncated
<1>9. f \in Frame /\ f.fn = "Router" /\ f.i = Top.i
  BY <1>3, <1>4, NewFrames DEF RouterCall, IInv, TypeOK
<1>10. /\ g \in Frame /\ g.fn = "Execute" /\ g.i = 1 /\ g.pc = "begin"
       /\ g.cmd = Wrapped(c)
  <2>1. cmdId' \in 0 .. UIntSize - 1 /\ para'.data \in Seq(Token)
    BY <1>4 DEF IInv, TypeOK
  <2>2. g \in Frame
    BY <2>1, NewFrames
  <2>3. QED
    BY <1>8, <2>2 DEF ExecuteCall, Wrapped
<1> HIDE DEF f, g
<1>11. /\ stack' \in Seq(Frame) /\ Len(stack') = Depth + 2
       /\ stack'[Depth + 1] = f /\ stack'[Depth + 2] = g
       /\ \A j \in 1 .. Depth : stack'[j] = GoTo("end")[j]
       /\ Len(GoTo("end")) = Depth /\ Depth = Len(stack) /\ Depth \in Nat
  <2>1. GoTo("end") \in Seq(Frame) /\ Len(GoTo("end")) = Depth /\ Depth = Len(stack) /\ Depth \in Nat
    BY <1>2, <1>4, MovedTop
  <2>2. stack' = GoTo("end") \o <<f, g>> /\ f \in Frame /\ g \in Frame
    BY <1>1, <1>9, <1>10
  <2>3. PICK t \in Seq(Frame) : t = GoTo("end")
    BY <2>1
  <2>4. Len(t) = Depth
    BY <2>1, <2>3
  <2>5. /\ stack' \in Seq(Frame) /\ Len(stack') = Len(t) + 2
        /\ stack'[Len(t) + 1] = f /\ stack'[Len(t) + 2] = g
        /\ \A j \in 1 .. Len(t) : stack'[j] = t[j]
    BY <2>2, <2>3, PushTwo
  <2>6. QED
    BY <2>1, <2>3, <2>4, <2>5
<1>12. Linked(GoTo("end")) /\ GoTo("end")[2].cmd = Asked
  <2>1. Similar(stack, GoTo("end"))
    BY <1>2, <1>4, SimilarMoved
  <2>2. stack[2].fn = "Execute" /\ Linked(stack)
    BY <1>2, <1>4, Levels DEF AInv
  <2>3. QED
    BY <1>2, <1>11, <2>1, <2>2, LinkedKept DEF Asked
<1>13. Asked' = Asked
  BY <1>2, <1>11, <1>12 DEF Asked
<1>14. Rank(Routers, Top.i) = k + 1
  <2>1. ~(Rank(Routers, Top.i) <= k) /\ Rank(Routers, Top.i) \in Nat
    <3>1. Rank(Routers, Top.i) \in 1 .. Cardinality(Routers) /\ Cardinality(Routers) \in Nat
      BY <1>3, RouterRanks, RoutersFinite
    <3>2. ~(Rank(Routers, Top.i) <= k)
      BY <1>1, <1>3, <1>5
    <3>3. QED
      BY <3>1, <3>2
  <2>2. ASSUME NEW r \in Routers, r < Top.i PROVE Rank(Routers, r) <= k
    <3>1. r \in 1 .. Top.i - 1
      BY <1>2, <2>2 DEF Routers
    <3>2. routing[r]
      BY <1>1, <1>2, <3>1 DEF Seeking, Handles
    <3>3. QED
      BY <1>5, <3>2
  <2>3. Rank(Routers, Top.i) <= k + 1
    BY <1>3, <2>2, RouterRanks
  <2>4. QED
    BY <2>1, <2>3
<1>15. g.cmd = Below(Asked)[k + 1] /\ Unwrapped(Asked, k + 1)
  <2>1. Below(Asked)[k + 1] = Wrapped(c)
    BY <1>5, BelowSteps
  <2>2. ForMe(Below(Asked)[k])
    BY <1>1, <1>2, <1>5, <1>6 DEF ForMe
  <2>3. \A j \in 0 .. k + 1 - 1 : j \in 0 .. k - 1 \/ j = k
    OBVIOUS
  <2>4. QED
    BY <1>5, <1>10, <2>1, <2>2, <2>3 DEF Unwrapped
<1>16. ASSUME NEW r \in Routers, Rank(Routers, r) <= k + 1
       PROVE  \E j \in 1 .. Depth + 2 - 1 : stack'[j].fn = "Router" /\ stack'[j].i = r
  <2>1. CASE Rank(Routers, r) <= k
    <3>1. routing[r]
      BY <1>5, <2>1
    <3>2. PICK j \in RouterFrames : stack[j].i = r
      BY <1>4, <3>1 DEF IInv, CallsOK, RoutingMatchesCalls
    <3>3. j \in 1 .. Depth /\ stack[j].fn = "Router" /\ j \in 1 .. Depth + 2 - 1
      BY <1>11 DEF RouterFrames
    <3>4. Similar(stack, GoTo("end"))
      BY <1>2, <1>4, SimilarMoved
    <3>5. stack'[j].fn = "Router" /\ stack'[j].i = r
      BY <1>11, <3>2, <3>3, <3>4 DEF Similar
    <3>6. QED
      BY <3>3, <3>5
  <2>2. CASE ~(Rank(Routers, r) <= k)
    <3>1. Rank(Routers, r) = k + 1
      <4>1. Rank(Routers, r) \in 1 .. Cardinality(Routers) /\ Cardinality(Routers) \in Nat
        BY RouterRanks, RoutersFinite
      <4>2. QED
        BY <1>16, <2>2, <4>1
    <3>2. r = Top.i
      BY <1>3, <1>14, <3>1, RouterRanks
    <3>3. Depth + 1 \in 1 .. Depth + 2 - 1
      BY <1>11
    <3>4. QED
      BY <1>9, <1>11, <3>2, <3>3
  <2>3. QED
    BY <2>1, <2>2
<1>17. Linked(stack')
  <2>1. stack'[2].cmd = Asked
    BY <1>13 DEF Asked
  <2>2. ASSUME NEW p \in 1 .. Depth + 2, stack'[p].fn = "Execute"
        PROVE  \E n \in Nat :
                 /\ p = 2 * n + 2 /\ stack'[p].cmd = Below(Asked)[n] /\ Unwrapped(Asked, n)
                 /\ \A r \in Routers : Rank(Routers, r) <= n =>
                      \E j \in 1 .. p - 1 : stack'[j].fn = "Router" /\ stack'[j].i = r
    <3>1. CASE p = Depth + 2
      <4>1. p = 2 * (k + 1) + 2 /\ k + 1 \in Nat
        BY <1>5, <3>1
      <4>2. PICK n \in Nat : n = k + 1
        BY <4>1
      <4>3. p = 2 * n + 2 /\ stack'[p].cmd = Below(Asked)[n] /\ Unwrapped(Asked, n)
        BY <1>11, <1>15, <3>1, <4>1, <4>2
      <4>4. \A r \in Routers : Rank(Routers, r) <= n =>
              \E j \in 1 .. p - 1 : stack'[j].fn = "Router" /\ stack'[j].i = r
        <5>1. SUFFICES ASSUME NEW r \in Routers, Rank(Routers, r) <= n
                       PROVE  \E j \in 1 .. p - 1 : stack'[j].fn = "Router" /\ stack'[j].i = r
          OBVIOUS
        <5>2. PICK j \in 1 .. Depth + 2 - 1 : stack'[j].fn = "Router" /\ stack'[j].i = r
          BY <1>16, <4>2, <5>1
        <5>3. j \in 1 .. p - 1
          BY <1>11, <3>1
        <5>4. QED
          BY <5>2, <5>3
      <4>5. QED
        BY <4>3, <4>4
    <3>2. CASE p = Depth + 1
      BY <1>9, <1>11, <2>2, <3>2
    <3>3. CASE p \in 1 .. Depth
      <4>1. PICK n \in Nat :
              /\ p = 2 * n + 2 /\ GoTo("end")[p].cmd = Below(Asked)[n] /\ Unwrapped(Asked, n)
              /\ \A r \in Routers : Rank(Routers, r) <= n =>
                   \E j \in 1 .. p - 1 : GoTo("end")[j].fn = "Router" /\ GoTo("end")[j].i = r
        BY <1>11, <1>12, <2>2, <3>3 DEF Linked
      <4>2. \A j \in 1 .. p - 1 : j \in 1 .. Depth
        BY <1>11, <3>3
      <4>3. \A j \in 1 .. p - 1 : stack'[j] = GoTo("end")[j]
        BY <1>11, <4>2
      <4>4. stack'[p] = GoTo("end")[p]
        BY <1>11, <3>3
      <4>5. ASSUME NEW r \in Routers, Rank(Routers, r) <= n
            PROVE  \E j \in 1 .. p - 1 : stack'[j].fn = "Router" /\ stack'[j].i = r
        BY <4>1, <4>3, <4>5
      <4>6. /\ n \in Nat /\ p = 2 * n + 2 /\ Unwrapped(Asked, n)
            /\ stack'[p].cmd = Below(Asked)[n]
        BY <4>1, <4>4
      <4>7. \A r \in Routers : Rank(Routers, r) <= n =>
              \E j \in 1 .. p - 1 : stack'[j].fn = "Router" /\ stack'[j].i = r
        BY <4>5
      <4>8. QED
        BY <4>6, <4>7
    <3>4. p = Depth + 2 \/ p = Depth + 1 \/ p \in 1 .. Depth
      BY <1>11
    <3>5. QED
      BY <3>1, <3>2, <3>3, <3>4, Zenon
  <2>3. ASSUME NEW p \in 1 .. Depth + 2, stack'[p].fn = "Router"
        PROVE  2 * Rank(Routers, stack'[p].i) = p - 1
    <3>1. CASE p = Depth + 2
      BY <1>10, <1>11, <2>3, <3>1
    <3>2. CASE p = Depth + 1
      BY <1>5, <1>9, <1>11, <1>14, <3>2
    <3>3. CASE p \in 1 .. Depth
      BY <1>11, <1>12, <2>3, <3>3 DEF Linked
    <3>4. p = Depth + 2 \/ p = Depth + 1 \/ p \in 1 .. Depth
      BY <1>11
    <3>5. QED
      BY <3>1, <3>2, <3>3, <3>4, Zenon
  <2>4. QED
    BY <1>11, <2>1, <2>2, <2>3 DEF Linked
<1>18. Depth' = Depth + 2 /\ Top' = g /\ Depth' >= 2
  <2>1. Depth' = Depth + 2
    BY <1>11 DEF Depth
  <2>2. QED
    BY <1>11, <2>1 DEF Top
<1>19. streams'[override'] = ReplyTo(c)
  BY <1>1, <1>2, <1>3, <1>6 DEF ReplyTo, ReplyStream
<1>20. (Seeking(1))'
  <2>1. radio' = <<>> /\ serial' = <<>>
    BY <1>1, <1>2 DEF Seeking
  <2>2. ReplyPrefix(Source(c), MyAddress, WrappedId(c)) \in Seq(Token)
    <3>1. MyAddress \in Token /\ Source(c) \in Token /\ WrappedId(c) \in Token
          /\ MR_SEND_TO \in Token /\ SYS_RESULT \in Token
      BY <1>7, HostAssumption DEF Token, MR_SEND_TO, SYS_RESULT
    <3>2. QED
      BY <3>1 DEF ReplyPrefix
  <2>3. Fresh'
    BY <1>19, <2>2 DEF Fresh, ReplyTo
  <2>4. ASSUME NEW n \in Nat, Depth' = 2 * n + 4
        PROVE  streams'[override'] = ReplyTo(Below(Asked')[n])
    <3>1. n = k
      BY <1>5, <1>18, <2>4
    <3>2. QED
      BY <1>5, <1>13, <1>19, <3>1
  <2>5. QED
    BY <2>1, <2>3, <2>4 DEF Seeking
<1>21. result' = <<>>
  BY <1>1, <1>2
<1>22. QED
  BY <1>10, <1>17, <1>18, <1>20, <1>21 DEF AInv, Course

\* The overriding stream has nothing to flush.
LEMMA NothingFlushed ==
  ASSUME FlushResult, Fresh, DOMAIN streams = Routers, override \in Routers \union {0},
         radio = <<>>, UNCHANGED override
  PROVE  /\ radio' = <<>> /\ Fresh'
         /\ override = 0 => result' = <<>>
         /\ override # 0 => result' = result /\ streams'[override] = streams[override]
<1>1. CASE override = 0
  BY <1>1 DEF FlushResult, Fresh
<1>2. CASE override # 0
  <2>1. PICK prefix \in Seq(Token) : streams[override] = NewStream(prefix)
    BY <1>2 DEF Fresh
  <2>2. Flushed(streams[override]) = NewStream(prefix)
    BY <2>1 DEF Flushed, NewStream
  <2>3. OnOverride(NewStream(prefix))
    BY <1>2, <2>2 DEF FlushResult
  <2>4. PICK s : s = NewStream(prefix) /\ [s EXCEPT !.sent = <<>>] = s /\ s.sent = <<>>
    <3>1. NewStream(prefix).sent = <<>>
      BY DEF NewStream
    <3>2. PICK s : s = NewStream(prefix)
      OBVIOUS
    <3>3. s = [n \in {"cache", "first", "cr", "prefix", "sent"} |-> s[n]]
      BY <3>2 DEF NewStream
    <3>4. [s EXCEPT !.sent = <<>>] = s
      BY <3>1, <3>2, <3>3
    <3>5. QED
      BY <3>1, <3>2, <3>4
  <2>5. /\ streams' = [streams EXCEPT ![override] = NewStream(prefix)]
        /\ radio' = <<>> /\ result' = result
    <3>1. OnOverride(s)
      BY <2>3, <2>4
    <3>2. /\ streams' = [streams EXCEPT ![override] = s]
          /\ radio' = radio \o <<>> /\ result' = result
      BY <2>4, <3>1 DEF OnOverride
    <3>3. QED
      BY <2>4, <3>2
  <2>6. streams'[override] = NewStream(prefix)
    BY <1>2, <2>5
  <2>7. QED
    BY <1>2, <2>1, <2>5, <2>6 DEF Fresh
<1>3. QED
  BY <1>1, <1>2

LEMMA BeginAnswers ==
  ASSUME StepContext, AInv, BeginService
  PROVE  AInv'
<1>1. /\ stack # <<>> /\ Top.fn \in {"Execute", "HandleResult"} /\ Top.pc = "begin" /\ Top.i <= N
      /\ stack' = GoTo("call") /\ MayGoTo("call")
      /\ executed' = FALSE /\ paraSize' = Available(para) /\ FlushResult
      /\ UNCHANGED <<cmdId, para, override, routing, serial>>
  BY DEF BeginService, Running, MayGoTo, ExecutePcs, HandlePcs
<1>2. IInv /\ CallsNest /\ DOMAIN streams = Routers /\ override \in Routers \union {0}
      /\ Depth >= 2 /\ Depth \in Nat /\ ParaOK(para)
  BY <1>1, LevelOfTop, InvContext DEF StepContext, NInv, IInv, TypeOK, ContextOK
<1>3. /\ Linked(stack') /\ TheAnswer' = TheAnswer /\ Asked' = Asked /\ Depth' = Depth /\ Depth' >= 2
      /\ Top'.fn = Top.fn /\ Top'.pc = "call" /\ Top'.i = Top.i
      /\ Top.fn = "Execute" => Top'.cmd = Top.cmd
  BY <1>1, <1>2, KeptMoved
<1>4. Course /\ Top.i \in Nat /\ Top.i >= 1
  <2>1. Top \in Frame
    BY <1>1, <1>2, InvParts
  <2>2. QED
    BY <1>2, <2>1 DEF AInv, Frame, AnyFrame
<1>5. CASE Top.fn = "Execute"
  <2>1. Seeking(Top.i) /\ (Top.i > 1 \/ override # 0 => result = <<>>)
    BY <1>1, <1>4, <1>5 DEF Course
  <2>2. /\ radio' = <<>> /\ Fresh'
        /\ override = 0 => result' = <<>>
        /\ override # 0 => result' = result /\ streams'[override] = streams[override]
    BY <1>1, <1>2, <2>1, NothingFlushed DEF Seeking
  <2>3. ASSUME NEW k \in Nat, Depth' = 2 * k + 4
        PROVE  streams'[override'] = ReplyTo(Below(Asked')[k])
    <3>1. streams[override] = ReplyTo(Below(Asked)[k])
      BY <1>3, <2>1, <2>3 DEF Seeking
    <3>2. override # 0
      <4>1. PICK n \in Nat : Depth = 2 * n + 2 /\ (override = 0 <=> n = 0)
        BY <1>1, <1>5, AtExecute DEF StepContext
      <4>2. n # 0
        <5>1. PICK d \in Nat : d = Depth
          BY <1>2
        <5>2. d = 2 * k + 4 /\ d = 2 * n + 2
          BY <1>3, <2>3, <4>1, <5>1
        <5>3. QED
          BY <5>2
      <4>3. QED
        BY <4>1, <4>2
    <3>3. QED
      BY <1>1, <1>3, <2>2, <3>1, <3>2
  <2>4. (Seeking(Top.i))'
    BY <1>1, <1>3, <1>5, <2>1, <2>2, <2>3 DEF Seeking, Handles
  <2>5. result' = <<>>
    BY <2>1, <2>2
  <2>6. QED
    BY <1>1, <1>3, <1>5, <2>4, <2>5 DEF AInv, Course
<1>6. CASE Top.fn = "HandleResult"
  <2>1. Printing
    BY <1>4, <1>6 DEF Course
  <2>2. /\ radio' = <<>> /\ Fresh'
        /\ override = 0 => result' = <<>>
        /\ override # 0 => result' = result /\ streams'[override] = streams[override]
    BY <1>1, <1>2, <2>1, NothingFlushed DEF Printing
  <2>3. result' = <<>>
    BY <2>1, <2>2 DEF Printing
  <2>4. paraSize' = Len(para'.data)
    <3>1. Len(para.data) \in Nat
      BY <1>2 DEF ParaOK
    <3>2. QED
      BY <1>1, <2>1, <3>1 DEF Printing, Available
  <2>5. Printing'
    BY <1>1, <1>3, <2>1, <2>2, <2>3, <2>4 DEF Printing
  <2>6. QED
    BY <1>3, <1>6, <2>5 DEF AInv, Course
<1>7. QED
  BY <1>1, <1>5, <1>6

LEMMA EndAnswers ==
  ASSUME StepContext, AInv, EndService
  PROVE  AInv'
<1>1. /\ stack # <<>> /\ Top.fn \in {"Execute", "HandleResult"} /\ Top.pc = "end"
      /\ para' = Reset(para, paraSize)
      /\ stack' = IF Top.fn = "Execute" /\ executed THEN GoTo("finish") ELSE Advance
      /\ UNCHANGED <<cmdId, paraSize, executed, result, override, routing, streams, radio, serial>>
  BY DEF EndService, Running, routers, outputs
<1>2. IInv /\ CallsNest /\ Depth >= 2 /\ Depth \in Nat /\ ParaOK(para)
  BY <1>1, LevelOfTop, InvContext DEF StepContext, NInv, ContextOK
<1>3. Course /\ Top.i \in Nat /\ Top.i >= 1 /\ Top.i <= N
  <2>1. Top \in Frame
    BY <1>1, <1>2, InvParts
  <2>2. QED
    BY <1>1, <1>2, <2>1 DEF AInv, Frame, AnyFrame
<1>4. CASE Top.fn = "Execute" /\ executed
  <2>1. stack' = GoTo("finish") /\ MayGoTo("finish")
    BY <1>1, <1>4 DEF MayGoTo, ExecutePcs
  <2>2. /\ Linked(stack') /\ TheAnswer' = TheAnswer /\ Depth' = Depth /\ Depth' >= 2
        /\ Top'.fn = "Execute" /\ Top'.pc = "finish"
    BY <1>2, <1>4, <2>1, KeptMoved
  <2>3. Pending \/ (Answered /\ result = <<>>)
    BY <1>1, <1>3, <1>4 DEF Course
  <2>4. Pending' \/ (Answered' /\ result' = <<>>)
    BY <1>1, <2>2, <2>3 DEF Pending, Answered
  <2>5. QED
    BY <1>1, <1>4, <2>2, <2>4 DEF AInv, Course
<1>5. CASE ~(Top.fn = "Execute" /\ executed)
  <2>1. stack' = Advance
    BY <1>1, <1>5
  <2>2. /\ Linked(stack') /\ TheAnswer' = TheAnswer /\ Asked' = Asked /\ Depth' = Depth /\ Depth' >= 2
        /\ Top'.fn = Top.fn /\ Top'.pc = "begin" /\ Top'.i = Top.i + 1
        /\ Top.fn = "Execute" => Top'.cmd = Top.cmd
    BY <1>1, <1>2, <1>3, <2>1, KeptAdvanced
  <2>3. CASE Top.fn = "Execute"
    <3>1. Seeking(Top.i + 1) /\ result = <<>>
      BY <1>1, <1>3, <1>5, <2>3 DEF Course
    <3>2. (Seeking(Top.i))'
      BY <1>1, <2>2, <2>3, <3>1 DEF Seeking, Fresh, Handles
    <3>3. QED
      BY <1>1, <2>2, <2>3, <3>1, <3>2 DEF AInv, Course
  <2>4. CASE Top.fn = "HandleResult"
    <3>1. Printing
      BY <1>3, <2>4 DEF Course
    <3>2. para'.data = para.data /\ para'.rd = 0
      <4>1. para.data \in Seq(Token) /\ paraSize = Len(para.data)
        BY <1>1, <1>2, <3>1 DEF ParaOK, Printing
      <4>2. QED
        BY <1>1, <4>1, Whole DEF Reset
    <3>3. serial' = PrintsUpTo(Services, cmdId', para'.data)[Top'.i - 1]
      <4>1. serial = PrintsUpTo(Services, cmdId, para.data)[Top.i]
        BY <1>1, <3>1 DEF Printing
      <4>2. serial' = serial /\ cmdId' = cmdId
        BY <1>1
      <4>3. Top'.i = Top.i + 1
        BY <2>2
      <4>4. PICK n \in Nat : n = Top.i /\ Top'.i = n + 1
        BY <1>3, <4>3
      <4>5. Top'.i - 1 = Top.i
        BY <4>4
      <4>6. QED
        BY <3>2, <4>1, <4>2, <4>5
    <3>4. result' = <<>> /\ radio' = <<>> /\ Fresh'
      BY <1>1, <3>1 DEF Printing, Fresh
    <3>5. Printing'
      BY <1>1, <2>2, <3>1, <3>2, <3>3, <3>4 DEF Printing
    <3>6. QED
      BY <2>2, <2>4, <3>5 DEF AInv, Course
  <2>5. QED
    BY <1>1, <2>3, <2>4
<1>6. QED
  BY <1>4, <1>5

LEMMA HandleAnswers ==
  ASSUME StepContext, AInv, HandleResult
  PROVE  AInv'
<1>1. /\ stack # <<>> /\ Top.fn = "HandleResult" /\ Top.pc = "call"
      /\ IF Interested(Services[Top.i]) /\ Available(para) > 0
           THEN /\ serial' = Append(serial, <<Top.i, Unread(para)>>)
                /\ para' = [para EXCEPT !.rd = Len(para.data)]
           ELSE UNCHANGED <<serial, para>>
      /\ stack' = GoTo("end")
      /\ UNCHANGED <<cmdId, paraSize, executed, result, override, routing, streams, radio>>
  BY DEF HandleResult, Running, routers, Service
<1>2. IInv /\ CallsNest /\ Depth >= 2 /\ Depth \in Nat /\ ParaOK(para)
  BY <1>1, LevelOfTop, InvContext DEF StepContext, NInv, ContextOK
<1>3. Course /\ Top.i \in 1 .. N /\ MayGoTo("end")
  <2>1. Top \in Frame
    BY <1>1, <1>2, InvParts
  <2>2. QED
    BY <1>1, <1>2, <2>1 DEF AInv, Frame, AnyFrame, MayGoTo, HandlePcs
<1>4. Printing
  BY <1>1, <1>3 DEF Course
<1>5. /\ Linked(stack') /\ TheAnswer' = TheAnswer /\ Depth' = Depth /\ Depth' >= 2
      /\ Top'.fn = "HandleResult" /\ Top'.pc = "end" /\ Top'.i = Top.i
  BY <1>1, <1>2, <1>3, KeptMoved
<1>6. Unread(para) = para.data /\ Available(para) > 0
  <2>1. para.data \in Seq(Token) /\ Len(para.data) \in Nat /\ para.data # <<>> /\ para.rd = 0
    BY <1>1, <1>2, <1>4 DEF ParaOK, Printing
  <2>2. QED
    BY <2>1, Whole DEF Unread, Available
<1>7. para'.data = para.data
  BY <1>1, <1>2 DEF ParaOK
<1>8. Interested(Services[Top.i]) <=> Prints(Services[Top.i], cmdId)
  BY DEF Interested, Prints
<1>9. serial' = PrintsUpTo(Services, cmdId', para'.data)[Top'.i]
  <2> DEFINE f == PrintsUpTo(Services, cmdId, para.data)
  <2>1. f[Top.i] = IF Prints(Services[Top.i], cmdId) THEN Append(f[Top.i - 1], <<Top.i, para.data>>)
                   ELSE f[Top.i - 1]
    BY <1>3, PrintsSteps
  <2>2. serial = f[Top.i - 1]
    BY <1>1, <1>4 DEF Printing
  <2> HIDE DEF f
  <2>3. serial' = f[Top.i]
    BY <1>1, <1>6, <1>8, <2>1, <2>2
  <2>4. QED
    BY <1>1, <1>5, <1>7, <2>3 DEF f
<1>10. Printing'
  BY <1>1, <1>4, <1>5, <1>7, <1>9 DEF Printing, Fresh
<1>11. QED
  BY <1>5, <1>10 DEF AInv, Course

LEMMA HandledAnswers ==
  ASSUME StepContext, AInv, HandleResultReturn
  PROVE  AInv'
<1>1. /\ stack # <<>> /\ Top.fn = "HandleResult" /\ Top.pc = "begin" /\ Top.i > N
      /\ stack' = Return
      /\ UNCHANGED <<result, radio, serial, executed>>
  BY DEF HandleResultReturn, Running, context, outputs
<1>2. IInv /\ CallsNest /\ Depth >= 3 /\ Depth \in Nat
  BY <1>1, LevelOfTop DEF StepContext, NInv
<1>3. Course /\ Top.i = N + 1 /\ N \in Nat /\ N >= 1
  <2>1. Top \in Frame /\ N \in Nat /\ N >= 1
    BY <1>1, <1>2, InvParts
  <2>2. QED
    BY <1>1, <1>2, <2>1 DEF AInv, Frame, AnyFrame
<1>4. Printing
  BY <1>1, <1>3 DEF Course
<1>5. result = <<>> /\ serial = PrintsOf(Services, cmdId, para.data)
  <2>1. Top.i > 1 /\ Top.i - 1 = N
    BY <1>3
  <2>2. QED
    BY <1>1, <1>4, <2>1 DEF Printing, PrintsOf, N
<1>6. Answered
  BY <1>4, <1>5 DEF Answered, Printing
<1>7. /\ Linked(stack') /\ TheAnswer' = TheAnswer /\ Depth' >= 2
      /\ MayCall(Top'.fn, Top'.pc, "HandleResult")
  BY <1>1, <1>2, KeptReturned
<1>8. Answered' /\ result' = <<>>
  BY <1>1, <1>5, <1>6, <1>7 DEF Answered
<1>9. Top'.fn = "System" \/ (Top'.fn = "Execute" /\ Top'.pc = "return")
  BY <1>7 DEF MayCall
<1>10. QED
  BY <1>7, <1>8, <1>9 DEF AInv, Course

\* The end of an execution: the answer is out.
LEMMA Finished ==
  ASSUME IInv, NInv, AInv, stack # <<>>, Top.fn = "Execute",
         \/ Top.pc = "return"
         \/ Offered /\ ~(executed /\ ResultSize > 0)
  PROVE  Answered /\ result = <<>>
<1>1. Course /\ Top.i \in Nat /\ N \in Nat /\ CommandKept /\ N >= 1
  <2>1. Course /\ Top.i \in Nat
    BY AtExecute
  <2>2. N \in Nat /\ N >= 1
    BY InvParts
  <2>3. CommandKept
    BY DEF NInv
  <2>4. QED
    BY <2>1, <2>2, <2>3
<1>2. CASE Top.pc = "return"
  BY <1>1, <1>2 DEF Course
<1>3. CASE Top.pc = "finish" /\ ~(executed /\ ResultSize > 0)
  <2>1. executed /\ (Pending \/ (Answered /\ result = <<>>))
    BY <1>1, <1>3 DEF Course
  <2>2. ~Pending
    <3>1. result \in Seq(Token)
      BY InvContext DEF ContextOK
    <3>2. result # <<>> => Len(result) > 0
      BY <3>1
    <3>3. QED
      BY <1>3, <2>1, <3>2 DEF Pending, ResultSize
  <2>3. QED
    BY <2>1, <2>2
<1>4. CASE Top.pc = "begin" /\ Top.i > N
  <2>1. Seeking(Top.i) /\ result = <<>>
    <3>1. Top.i > 1
      BY <1>1, <1>4
    <3>2. QED
      BY <1>1, <1>4, <3>1 DEF Course
  <2>2. \A j \in 1 .. N : ~Handles(j, Top.cmd)
    <3>1. \A j \in 1 .. N : j \in 1 .. Top.i - 1
      BY <1>1, <1>4
    <3>2. QED
      BY <2>1, <3>1 DEF Seeking
  <2>3. TheAnswer = [packets |-> <<>>, prints |-> <<>>]
    BY <2>2, Nobody
  <2>4. QED
    BY <2>1, <2>3 DEF Answered, Seeking
<1>5. QED
  BY <1>2, <1>3, <1>4 DEF Offered, Running

LEMMA ReturnAnswers ==
  ASSUME StepContext, AInv, ExecuteReturn
  PROVE  AInv'
<1>1. /\ stack # <<>> /\ Top.fn = "Execute" /\ stack' = Return
      /\ \/ Top.pc = "return"
         \/ Offered /\ ~(executed /\ ResultSize > 0)
      /\ UNCHANGED <<result, radio, serial>>
  BY DEF ExecuteReturn, Offered, Running, context, outputs
<1>2. Answered /\ result = <<>>
  BY <1>1, Finished DEF StepContext
<1>3. IInv /\ CallsNest /\ Depth \in Nat /\ (Depth = 2 \/ Depth >= 4)
  BY <1>1, LevelOfTop DEF StepContext, NInv
<1>4. CASE Depth = 2
  <2>1. Depth' = 1
    BY <1>1, <1>3, <1>4, ReturnStack DEF IInv, Depth
  <2>2. QED
    BY <2>1 DEF AInv
<1>5. CASE Depth >= 4
  <2>1. /\ Linked(stack') /\ TheAnswer' = TheAnswer
        /\ MayCall(Top'.fn, Top'.pc, "Execute")
    BY <1>1, <1>3, <1>5, KeptReturned
  <2>2. Top'.fn = "Router" \/ Top'.fn = "Run"
    BY <2>1 DEF MayCall
  <2>3. Answered' /\ result' = <<>>
    BY <1>1, <1>2, <2>1 DEF Answered
  <2>4. QED
    BY <2>1, <2>2, <2>3 DEF AInv, Course
<1>6. QED
  BY <1>3, <1>4, <1>5

LEMMA CalledBackAnswers ==
  ASSUME StepContext, AInv, SystemReturn \/ RouterReturn
  PROVE  AInv'
<1>1. /\ stack # <<>> /\ Top.fn \in {"System", "Router"} /\ stack' = Return /\ executed' = TRUE
      /\ UNCHANGED <<result, radio, serial>>
  BY DEF SystemReturn, RouterReturn, Running, outputs
<1>2. IInv /\ CallsNest /\ Depth >= 3 /\ Depth \in Nat
  BY <1>1, LevelOfTop DEF StepContext, NInv
<1>3. Answered /\ result = <<>>
  <2>1. Course
    BY <1>2 DEF AInv
  <2>2. QED
    BY <1>1, <2>1 DEF Course
<1>4. /\ Linked(stack') /\ TheAnswer' = TheAnswer
      /\ MayCall(Top'.fn, Top'.pc, Top.fn)
  BY <1>1, <1>2, KeptReturned
<1>5. Top'.fn = "Execute" /\ Top'.pc = "end"
  BY <1>1, <1>4 DEF MayCall
<1>6. Answered' /\ result' = <<>>
  BY <1>1, <1>3, <1>4 DEF Answered
<1>7. QED
  BY <1>1, <1>4, <1>5, <1>6 DEF AInv, Course

\* The host goes through its services, and begins on a command.
LEMMA RunAnswers ==
  ASSUME StepContext, AInv, RunBegin \/ Populate \/ RunResume \/ RunEnd
  PROVE  AInv'
<1>1. IInv /\ IInv' /\ CallsNest
  BY DEF StepContext, NInv
<1>2. CASE RunBegin
  <2>1. stack' = <<Call("Run", 1, "begin")>>
    BY <1>2 DEF RunBegin
  <2>2. Depth' = 1
    BY <2>1 DEF Depth
  <2>3. QED
    BY <2>2 DEF AInv
<1>3. CASE RunResume
  <2>1. stack # <<>> /\ Top.fn = "Run" /\ Top.pc = "executing" /\ stack' = Advance
    BY <1>3 DEF RunResume, Running
  <2>2. Depth = 1 /\ Top.i <= N
    BY <1>1, <2>1, LevelOfTop, InvParts DEF Frame
  <2>3. Depth' = 1
    BY <1>1, <2>1, <2>2, AdvancedTop DEF Depth
  <2>4. QED
    BY <2>3 DEF AInv
<1>4. CASE RunEnd
  <2>1. stack # <<>> /\ Top.fn = "Run" /\ stack' = Return
    BY <1>4 DEF RunEnd, Running
  <2>2. Depth = 1
    BY <1>1, <2>1, LevelOfTop
  <2>3. Depth' = 0
    BY <1>1, <2>1, <2>2, ReturnStack DEF IInv, Depth
  <2>4. QED
    BY <2>3 DEF AInv
<1>5. CASE Populate
  <2>1. /\ stack # <<>> /\ Top.fn = "Run" /\ Top.pc = "begin" /\ Top.i <= N
        /\ UNCHANGED <<executed, result, override, routing, streams>>
        /\ NoCommand \/ \E id, text : Command(id, text)
    BY <1>5 DEF Populate, Running, UartPopulate, GeneratorPopulate, routers
  <2>2. Depth = 1
    BY <1>1, <2>1, LevelOfTop
  <2>3. CASE NoCommand
    <3>1. stack' = Advance
      BY <2>3 DEF NoCommand
    <3>2. Depth' = 1
      BY <1>1, <2>1, <2>2, <3>1, AdvancedTop DEF Depth
    <3>3. QED
      BY <3>2 DEF AInv
  <2>4. ASSUME NEW id, NEW text, Command(id, text) PROVE AInv'
    <3> DEFINE f == ExecuteCall(cmdId', para'.data)
    <3>1. stack' = Append(GoTo("executing"), f) /\ radio' = <<>> /\ serial' = <<>>
      BY <2>4 DEF Command
    <3>2. f \in Frame /\ f.fn = "Execute" /\ f.i = 1 /\ f.pc = "begin"
      <4>1. cmdId' \in 0 .. UIntSize - 1 /\ para'.data \in Seq(Token)
        BY <1>1 DEF IInv, TypeOK
      <4>2. QED
        BY <4>1, NewFrames DEF ExecuteCall
    <3> HIDE DEF f
    <3>3. MayGoTo("executing")
      BY <2>1 DEF MayGoTo
    <3>4. /\ GoTo("executing") \in Seq(Frame) /\ Len(GoTo("executing")) = 1
          /\ GoTo("executing")[1].fn = "Run"
      BY <1>1, <2>1, <2>2, <3>3, MovedTop
    <3>5. Len(stack') = 2 /\ stack'[2] = f /\ stack'[1].fn = "Run"
      BY <3>1, <3>2, <3>4, PushOne
    <3>6. Depth' = 2 /\ Top' = f /\ Asked' = f.cmd
      BY <3>5 DEF Depth, Top, Asked
    <3>7. override = 0
      <4>1. RouterFrames = {}
        <5>1. \A j \in 1 .. Depth : j = Depth
          BY <2>2
        <5>2. QED
          BY <2>1, <5>1 DEF RouterFrames, Top
      <4>2. QED
        BY <1>1, <4>1 DEF IInv, CallsOK, OverrideLive, InnermostBelow
    <3>8. Linked(stack')
      <4>1. \A p \in 1 .. 2 : p = 1 \/ p = 2
        OBVIOUS
      <4>2. 2 = 2 * 0 + 2 /\ f.cmd = Below(f.cmd)[0] /\ Unwrapped(f.cmd, 0)
        BY BelowSteps DEF Unwrapped
      <4>3. \A r \in Routers : ~(Rank(Routers, r) <= 0)
        <5>1. SUFFICES ASSUME NEW r \in Routers PROVE ~(Rank(Routers, r) <= 0)
          OBVIOUS
        <5>2. Rank(Routers, r) \in 1 .. Cardinality(Routers) /\ Cardinality(Routers) \in Nat
          BY RouterRanks, RoutersFinite
        <5>3. QED
          BY <5>2
      <4>4. QED
        BY <3>2, <3>5, <4>1, <4>2, <4>3 DEF Linked
    <3>9. (Seeking(1))'
      BY <2>1, <3>1, <3>6, <3>7 DEF Seeking, Fresh
    <3>10. QED
      BY <2>1, <3>2, <3>6, <3>7, <3>8, <3>9 DEF AInv, Course
  <2>5. QED
    BY <2>1, <2>3, <2>4
<1>6. QED
  BY <1>2, <1>3, <1>4, <1>5

LEMMA NextAnswers == Numbered /\ IInv /\ NInv /\ AInv /\ [Next]_vars => AInv'
<1> SUFFICES ASSUME Numbered, IInv, NInv, AInv, [Next]_vars PROVE AInv'
  OBVIOUS
<1>0. StepContext
  BY NextInv, NextNest DEF StepContext
<1>1. CASE UNCHANGED vars
  BY <1>1 DEF AInv, Course, Seeking, Fresh, Handles, Pending, Answered, Printing, TheAnswer,
              Asked, Top, Depth, vars, context, routers, outputs
<1>2. CASE RunBegin \/ Populate \/ RunResume \/ RunEnd
  BY <1>0, <1>2, RunAnswers
<1>3. CASE BeginService \/ EndService
  BY <1>0, <1>3, BeginAnswers, EndAnswers
<1>4. CASE ExecuteDispatch \/ ExecuteReturn \/ HandleResultReturn
  BY <1>0, <1>4, DispatchAnswers, ReturnAnswers, HandledAnswers
<1>5. CASE ExecutorExecute \/ SystemHelp \/ SystemResult \/ SystemNoResult
  BY <1>0, <1>5, ExecutorAnswers, HelpAnswers, ResultAnswers, NoResultAnswers
<1>6. CASE SystemReturn \/ RouterReturn
  BY <1>0, <1>6, CalledBackAnswers
<1>7. CASE RouterDeliver \/ RouterRelay \/ RouterDiscard
  BY <1>0, <1>7, DeliverAnswers, RelayAnswers
<1>8. CASE Ignore \/ HandleResult
  BY <1>0, <1>8, IgnoreAnswers, HandleAnswers
<1>9. QED
  BY <1>1, <1>2, <1>3, <1>4, <1>5, <1>6, <1>7, <1>8 DEF Next

\* When a command is done, its node has sent and printed what Node computes from the
\* command alone (ERxMessageRouterService.cpp:33-113, ERxHost.cpp:85-91,
\* ERxSystemService.cpp:34-58), whatever the services, the nesting of routed commands and
\* the messages before it.
THEOREM AnswersAlone == ASSUME Numbered PROVE Spec => []AnswersExactly
<1>1. Init => AInv
  BY DEF Init, AInv, Depth
<1>2. IInv /\ NInv /\ AInv /\ [Next]_vars => AInv'
  BY NextAnswers
<1>3. IInv /\ NInv /\ AInv => AnswersExactly
  <2>1. SUFFICES ASSUME IInv, NInv, AInv, Done PROVE Answered /\ Top.cmd = Asked
    BY DEF AnswersExactly, Answered, TheAnswer
  <2>2. stack # <<>> /\ Top.fn = "Execute" /\ Depth = 2
    BY <2>1 DEF Done, Offered, Running
  <2>3. Top = stack[2]
    BY <2>2 DEF Top
  <2>4. Top.cmd = Asked
    BY <2>3 DEF Asked
  <2>5. Answered
    BY <2>1, <2>2, Finished DEF Done, Running, Offered
  <2>6. QED
    BY <2>4, <2>5
<1>4. QED
  BY <1>1, <1>2, <1>3, Nesting, PTL DEF Spec

\* Each router takes one prefix off, and a command under one prefix more is discarded:
\* nothing is executed, relayed or answered (ERxMessageRouterService.cpp:17-18), for any
\* number of routers.  With one router it is the sentence of ERxMessageRouterService.h:4.
THEOREM PrefixPerRouter == ASSUME Numbered PROVE Spec => []NestedDiscarded
<1>1. AnswersExactly => NestedDiscarded
  <2> DEFINE n == Cardinality(Routers)
  <2>1. SUFFICES ASSUME AnswersExactly, Done, Nested(Top.cmd)
                 PROVE  radio = <<>> /\ serial = <<>>
    BY DEF NestedDiscarded
  <2>2. n \in Nat /\ Below(Top.cmd)[n].id = MR_SEND_TO /\ Unwrapped(Top.cmd, n)
    BY <2>1, RoutersFinite DEF Nested, Unwrapped, ForMe
  <2>3. Taken(Services, MyAddress, Top.cmd) = n
    BY <2>2, TakenIs
  <2>4. ASSUME NEW j \in 1 .. N
        PROVE  /\ ~Executes(Services[j], Below(Top.cmd)[n])
               /\ ~Dispatches(Services[j], Below(Top.cmd)[n])
    BY <2>2, NoExecutor DEF Dispatches, HasResult, MR_SEND_TO, SYS_RESULT
  <2>5. Answer(Services, MyAddress, Top.cmd) = [packets |-> <<>>, prints |-> <<>>]
    BY <2>2, <2>3, <2>4, AnswerNone
  <2>6. QED
    BY <2>1, <2>5 DEF AnswersExactly
<1>2. QED
  BY <1>1, AnswersAlone, PTL
=============================================================================
