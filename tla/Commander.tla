------------------------------ MODULE Commander ------------------------------
(***************************************************************************)
(* ERxCommander (libs/ERxCommander/ERxCommander.cpp) with its receivers:   *)
(* ERxUARTCommandRecv, a queue of the instructions SerialComHelper will    *)
(* return, and ERxIRCommandRecv, one decoded signal at a time.             *)
(*                                                                         *)
(* Commands arrive while GetNextPendingCommand asks the receivers, so each *)
(* question is a step.  A command is a record with the receiver and the    *)
(* number of its arrival, which stand for the address "new" returns, and   *)
(* the id the program sees.  The ring buffer of pointers is the queue of   *)
(* BoundedFifo.                                                            *)
(***************************************************************************)
EXTENDS Integers, Sequences, SequencesExt, FiniteSetsExt

CONSTANTS
  UartReceivers, IrReceivers,
  NoReceiver,    \* NULL in m_CmdRecvList
  Keys,          \* the signals of keys, each with the id of its command
  REPEAT,        \* the NEC signal of a key held down
  FOREIGN,       \* a signal of another protocol
  UartId,        \* the id of the commands that come through a serial port
  ReceiverSlots, \* the length of m_CmdRecvList, 10
  ListCapacity,  \* the slots of m_CommandList, 50
  MaxArrivals    \* a bound on the arrivals at a receiver

Receivers == UartReceivers \union IrReceivers

Signals == DOMAIN Keys \union {REPEAT, FOREIGN}

ASSUME ReceiverAssumption ==
  /\ NoReceiver \notin Receivers /\ UartReceivers \cap IrReceivers = {}
  /\ REPEAT # FOREIGN
  /\ ListCapacity \in Nat \ {0}

VARIABLES
  slots,     \* m_CmdRecvList
  list,      \* m_CommandList
  heap,      \* the commands allocated
  asked,     \* the slot UpdateCmdList is at, 0 when no call is running
  pending,   \* what waits at each receiver
  lastCmd,   \* m_LastCmd of the infrared receivers
  arrived,   \* the signals and instructions that arrived at each receiver
  executed   \* the commands GetNextPendingCommand returned

vars == <<slots, list, heap, asked, pending, lastCmd, arrived, executed>>

Init ==
  /\ slots = [i \in 1 .. ReceiverSlots |-> NoReceiver]
  /\ list = <<>>
  /\ heap = {}
  /\ asked = 0
  /\ pending = [r \in Receivers |-> <<>>]
  /\ lastCmd = [r \in IrReceivers |-> 0]
  /\ arrived = [r \in Receivers |-> <<>>]
  /\ executed = <<>>

-----------------------------------------------------------------------------
(* The receivers *)

\* A serial port queues; the infrared decoder holds one signal until it is
\* resumed and misses the next ones.
Arrive(r, signal) ==
  /\ Len(arrived[r]) < MaxArrivals
  /\ r \in IrReceivers => pending[r] = <<>>
  /\ arrived' = [arrived EXCEPT ![r] = Append(@, signal)]
  /\ pending' = [pending EXCEPT
       ![r] = Append(@, [n |-> Len(arrived'[r]), signal |-> signal])]
  /\ UNCHANGED <<slots, list, heap, asked, lastCmd, executed>>

\* The id ERxIRCommandRecv gives the command of a signal.
IrId(r, signal) ==
  CASE signal = REPEAT  -> lastCmd[r]
    [] signal = FOREIGN -> 0
    [] OTHER            -> Keys[signal]

\* A mutant, for the checks only: a foreign signal leaves m_LastCmd alone.
LastCmdKept(r, signal) ==
  IF signal = FOREIGN THEN lastCmd[r] ELSE IrId(r, signal)

LastCmd(r, signal) == IrId(r, signal)

\* The command a receiver makes of what arrived first.
NewCommand(r, first) ==
  [from |-> r, n |-> first.n,
   id |-> IF r \in IrReceivers THEN IrId(r, first.signal) ELSE UartId]

-----------------------------------------------------------------------------
(* ERxCommander *)

\* A mutant, for the checks only: the last slot is taken.
RegisterLast(r) ==
  LET fits == {i \in 1 .. ReceiverSlots : slots[i] \in {r, NoReceiver}}
  IN  /\ asked = 0
      /\ fits # {}
      /\ slots' = [slots EXCEPT ![Max(fits)] = r]
      /\ UNCHANGED <<list, heap, asked, pending, lastCmd, arrived, executed>>

\* The first slot that holds r or nothing.
RegisterCommandReceiver(r) ==
  LET fits == {i \in 1 .. ReceiverSlots : slots[i] \in {r, NoReceiver}}
  IN  /\ asked = 0
      /\ fits # {}
      /\ slots' = [slots EXCEPT ![Min(fits)] = r]
      /\ UNCHANGED <<list, heap, asked, pending, lastCmd, arrived, executed>>

GetNextPendingCommand ==
  /\ asked = 0
  /\ asked' = 1
  /\ UNCHANGED <<slots, list, heap, pending, lastCmd, arrived, executed>>

Asking == asked \in 1 .. ReceiverSlots /\ slots[asked] # NoReceiver

\* The ring buffer ignores what is appended when it is full.
AppendCommand(c) ==
  list' = IF Len(list) < ListCapacity - 1 THEN Append(list, c) ELSE list

\* An iteration of GetPendingCommands that gets a command.
Receive ==
  /\ Asking
  /\ pending[slots[asked]] # <<>>
  /\ LET r == slots[asked]
         first == Head(pending[r])
         c == NewCommand(r, first)
     IN  /\ pending' = [pending EXCEPT ![r] = Tail(@)]
         /\ lastCmd' = IF r \in IrReceivers
                         THEN [lastCmd EXCEPT ![r] = LastCmd(r, first.signal)]
                         ELSE lastCmd
         /\ heap' = heap \union {c}
         /\ AppendCommand(c)
  /\ UNCHANGED <<slots, asked, arrived, executed>>

\* The receiver has nothing more: the next one is asked.
NextReceiver ==
  /\ Asking
  /\ pending[slots[asked]] = <<>>
  /\ asked' = asked + 1
  /\ UNCHANGED <<slots, list, heap, pending, lastCmd, arrived, executed>>

\* A mutant, for the checks only: the newest command is returned.
ReturnNewest ==
  /\ asked > 0 /\ ~ Asking
  /\ asked' = 0
  /\ IF list = <<>>
       THEN UNCHANGED <<list, heap, executed>>
       ELSE /\ executed' = Append(executed, Last(list))
            /\ list' = Front(list)
            /\ heap' = heap \ {Last(list)}
  /\ UNCHANGED <<slots, pending, lastCmd, arrived>>

\* The rest of GetNextPendingCommand: the oldest command is copied and freed.
Return ==
  /\ asked > 0 /\ ~ Asking
  /\ asked' = 0
  /\ IF list = <<>>
       THEN UNCHANGED <<list, heap, executed>>
       ELSE /\ executed' = Append(executed, Head(list))
            /\ list' = Tail(list)
            /\ heap' = heap \ {Head(list)}
  /\ UNCHANGED <<slots, pending, lastCmd, arrived>>

Call == GetNextPendingCommand \/ Receive \/ NextReceiver \/ Return

Next ==
  \/ \E r \in Receivers : RegisterCommandReceiver(r)
  \/ \E r \in UartReceivers : Arrive(r, UartId)
  \/ \E r \in IrReceivers, signal \in Signals : Arrive(r, signal)
  \/ Call

\* loop() calls for ever, and a call in progress goes on.
Spec == Init /\ [][Next]_vars /\ WF_vars(Call)

-----------------------------------------------------------------------------

\* The commands of a receiver are executed at most once each and in the order
\* in which they arrived, however the receivers' commands mix and whichever are
\* refused by a full list (ERxCommander.cpp:32-72, 97-111).
InOrder ==
  LET log == executed \o list
  IN  \A i, j \in 1 .. Len(log) :
        i < j /\ log[i].from = log[j].from => log[i].n < log[j].n

\* The id of the command of the n-th signal, from all the signals before: that
\* of the key held down, unless another protocol came in between.
Meaning(signals, n) ==
  LET others == {k \in 1 .. n : signals[k] # REPEAT}
  IN  IF others = {} \/ signals[Max(others)] = FOREIGN
        THEN 0 ELSE Keys[signals[Max(others)]]

\* A held key repeats its own command, also when the command itself was refused
\* by a full list, and never one from before a signal of another protocol
\* (ERxIRCommandRecv.cpp:13-75).
RepeatsLastKey ==
  \A c \in heap \union Range(executed) :
    c.from \in IrReceivers => c.id = Meaning(arrived[c.from], c.n)

Waiting ==
  \/ list # <<>>
  \/ \E i \in 1 .. ReceiverSlots :
       slots[i] # NoReceiver /\ pending[slots[i]] # <<>>

\* Every registered receiver is asked and every cached command is executed:
\* nothing waits for ever (ERxCommander.cpp:61-91).
EventuallyExecuted == Waiting ~> ~ Waiting
=============================================================================
