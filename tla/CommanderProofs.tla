---------------------------- MODULE CommanderProofs ----------------------------
(***************************************************************************)
(* Commands are handed out in the order of their arrival, and a held key   *)
(* repeats its own command, for any receivers, keys and capacities.        *)
(*                                                                         *)
(* The invariant numbers a command from its arrival to its execution: what *)
(* waits at a receiver is in order and behind what the commander took from *)
(* it; and m_LastCmd is the meaning of the last signal that was taken.     *)
(***************************************************************************)
EXTENDS Commander, SequenceTheorems, WellFoundedInduction, TLAPS

Ids == {Keys[s] : s \in DOMAIN Keys} \cup {0, UartId}
Items == Signals \cup {UartId}
Commands == [from : Receivers, n : Nat, id : Ids]

Typed ==
  /\ slots \in [1 .. ReceiverSlots -> Receivers \cup {NoReceiver}]
  /\ list \in Seq(Commands)
  /\ executed \in Seq(Commands)
  /\ heap \subseteq Commands
  /\ pending \in [Receivers -> Seq([n : Nat, signal : Items])]
  /\ lastCmd \in [IrReceivers -> Ids]
  /\ arrived \in [Receivers -> Seq(Items)]
  /\ \A r \in IrReceivers :
       pending[r] \in Seq([n : Nat, signal : Signals]) /\ arrived[r] \in Seq(Signals)

Log == executed \o list

\* What waits are arrivals, in their order.
Queued(waiting, signals) ==
  /\ \A i \in 1 .. Len(waiting) :
       /\ waiting[i].n \in 1 .. Len(signals)
       /\ waiting[i].signal = signals[waiting[i].n]
  /\ \A i, j \in 1 .. Len(waiting) : i < j => waiting[i].n < waiting[j].n

Numbered == \A r \in Receivers : Queued(pending[r], arrived[r])

\* The n-th signal is there, and nothing that waits is older.
Taken(n, waiting, signals) ==
  /\ n <= Len(signals)
  /\ \A j \in 1 .. Len(waiting) : n < waiting[j].n

Later(c) == Taken(c.n, pending[c.from], arrived[c.from])

TakenBefore == \A i \in 1 .. Len(Log) : Later(Log[i])

OrderInv == Typed /\ Numbered /\ TakenBefore /\ InOrder

-----------------------------------------------------------------------------

\* A signal that arrives is queued behind the others.
LEMMA QueuedAppend ==
  ASSUME NEW S, NEW signals \in Seq(S), NEW waiting \in Seq([n : Nat, signal : S]),
         NEW x \in S, Queued(waiting, signals)
  PROVE  LET more == Append(waiting, [n |-> Len(signals) + 1, signal |-> x])
         IN  /\ Queued(more, Append(signals, x))
             /\ \A n \in Nat : Taken(n, waiting, signals) => Taken(n, more, Append(signals, x))
<1> DEFINE item == [n |-> Len(signals) + 1, signal |-> x]
           more == Append(waiting, item)
           all == Append(signals, x)
<1>1. Len(signals) \in Nat /\ Len(waiting) \in Nat
  OBVIOUS
<1>2. item.n = Len(signals) + 1 /\ item.signal = x
  OBVIOUS
<1>3. item \in [n : Nat, signal : S]
  BY <1>1
<1>4. Len(all) = Len(signals) + 1 /\ all[Len(signals) + 1] = x
  OBVIOUS
<1>5. \A k \in 1 .. Len(signals) : all[k] = signals[k]
  OBVIOUS
<1> HIDE DEF item, all
<1>6. Len(more) = Len(waiting) + 1 /\ more[Len(waiting) + 1] = item
  BY <1>3
<1>7. \A i \in 1 .. Len(waiting) : more[i] = waiting[i]
  BY <1>3
<1> HIDE DEF more
<1>8. \A i \in 1 .. Len(waiting) : waiting[i].n \in 1 .. Len(signals)
  BY DEF Queued
<1>9. ASSUME NEW i \in 1 .. Len(more)
      PROVE  more[i].n \in 1 .. Len(all) /\ more[i].signal = all[more[i].n]
  <2>1. CASE i = Len(waiting) + 1
    BY <1>1, <1>2, <1>4, <1>6, <2>1
  <2>2. CASE i \in 1 .. Len(waiting)
    <3>1. more[i] = waiting[i] /\ waiting[i].signal = signals[waiting[i].n]
      BY <1>7, <2>2 DEF Queued
    <3>2. waiting[i].n \in 1 .. Len(signals)
      BY <1>8, <2>2
    <3> QED
      BY <1>1, <1>4, <1>5, <3>1, <3>2
  <2> QED
    BY <1>1, <1>6, <2>1, <2>2
<1>10. ASSUME NEW i \in 1 .. Len(more), NEW j \in 1 .. Len(more), i < j
       PROVE  more[i].n < more[j].n
  <2>1. i \in 1 .. Len(waiting) /\ more[i].n \in 1 .. Len(signals) /\ more[i] = waiting[i]
    BY <1>1, <1>6, <1>7, <1>8, <1>10
  <2>2. CASE j = Len(waiting) + 1
    BY <1>1, <1>2, <1>6, <2>1, <2>2
  <2>3. CASE j \in 1 .. Len(waiting)
    <3>1. waiting[i].n < waiting[j].n
      BY <1>10, <2>1, <2>3 DEF Queued
    <3> QED
      BY <1>7, <2>1, <2>3, <3>1
  <2> QED
    BY <1>1, <1>6, <2>2, <2>3
<1>11. ASSUME NEW n \in Nat, Taken(n, waiting, signals) PROVE Taken(n, more, all)
  <2>1. n <= Len(signals) /\ \A j \in 1 .. Len(waiting) : n < waiting[j].n
    BY <1>11 DEF Taken
  <2>2. ASSUME NEW j \in 1 .. Len(more) PROVE n < more[j].n
    <3>1. CASE j = Len(waiting) + 1
      BY <1>1, <1>2, <1>6, <2>1, <3>1
    <3>2. CASE j \in 1 .. Len(waiting)
      BY <1>7, <2>1, <3>2
    <3> QED
      BY <1>1, <1>6, <3>1, <3>2
  <2> QED
    BY <1>1, <1>4, <2>1, <2>2 DEF Taken
<1>12. Queued(more, all)
  BY <1>9, <1>10 DEF Queued
<1> QED
  BY <1>11, <1>12 DEF more, item, all

\* What is taken first is older than what still waits.
LEMMA QueuedTail ==
  ASSUME NEW S, NEW signals \in Seq(S), NEW waiting \in Seq([n : Nat, signal : S]),
         waiting # <<>>, Queued(waiting, signals)
  PROVE  /\ Queued(Tail(waiting), signals)
         /\ Taken(Head(waiting).n, Tail(waiting), signals)
         /\ \A n \in Nat : Taken(n, waiting, signals) => Taken(n, Tail(waiting), signals)
<1> DEFINE rest == Tail(waiting)
<1>1. Len(waiting) \in Nat \ {0} /\ Len(rest) = Len(waiting) - 1
  OBVIOUS
<1>2. \A i \in 1 .. Len(rest) : i + 1 \in 1 .. Len(waiting) /\ rest[i] = waiting[i + 1]
  OBVIOUS
<1>3. Head(waiting) = waiting[1] /\ 1 \in 1 .. Len(waiting)
  OBVIOUS
<1>4. \A i \in 1 .. Len(waiting) : waiting[i].n \in Nat
  <2>1. \A i \in 1 .. Len(waiting) : waiting[i] \in [n : Nat, signal : S]
    BY ElementOfSeq
  <2> QED
    BY <2>1
<1> HIDE DEF rest
<1>5. \A i, j \in 1 .. Len(waiting) : i < j => waiting[i].n < waiting[j].n
  BY DEF Queued
<1>6. ASSUME NEW i \in 1 .. Len(rest), NEW j \in 1 .. Len(rest), i < j
      PROVE  rest[i].n < rest[j].n
  <2>1. i + 1 < j + 1
    BY <1>6
  <2> QED
    BY <1>2, <1>5, <2>1
<1>7. ASSUME NEW i \in 1 .. Len(rest)
      PROVE  rest[i].n \in 1 .. Len(signals) /\ rest[i].signal = signals[rest[i].n]
  BY <1>2 DEF Queued
<1>8. Queued(rest, signals)
  BY <1>6, <1>7 DEF Queued
<1>9. ASSUME NEW j \in 1 .. Len(rest) PROVE waiting[1].n < rest[j].n
  <2>1. 1 < j + 1
    OBVIOUS
  <2> QED
    BY <1>2, <1>3, <1>5, <2>1
<1>10. waiting[1].n <= Len(signals)
  <2>1. waiting[1].n \in 1 .. Len(signals)
    BY <1>3 DEF Queued
  <2> QED
    BY <2>1
<1>11. Taken(waiting[1].n, rest, signals)
  BY <1>9, <1>10 DEF Taken
<1>12. ASSUME NEW n \in Nat, Taken(n, waiting, signals) PROVE Taken(n, rest, signals)
  <2>1. n <= Len(signals) /\ \A j \in 1 .. Len(waiting) : n < waiting[j].n
    BY <1>12 DEF Taken
  <2>2. ASSUME NEW j \in 1 .. Len(rest) PROVE n < rest[j].n
    BY <1>2, <2>1
  <2> QED
    BY <2>1, <2>2 DEF Taken
<1> QED
  BY <1>3, <1>8, <1>11, <1>12 DEF rest

\* Nothing arrived yet.
LEMMA OrderStarts == Init => OrderInv
<1> SUFFICES ASSUME Init PROVE OrderInv
  OBVIOUS
<1> USE DEF Init
<1>1. Typed
  BY EmptySeq DEF Typed, Ids, Receivers
<1>2. Numbered
  BY DEF Numbered, Queued
<1>3. Log = <<>>
  BY DEF Log
<1>4. TakenBefore /\ InOrder
  BY <1>3 DEF TakenBefore, InOrder, Log
<1> QED
  BY <1>1, <1>2, <1>4 DEF OrderInv

\* The log is a sequence of commands.
LEMMA LogTyped == Typed => Log \in Seq(Commands)
BY ConcatProperties DEF Typed, Log

\* The id of a signal.
LEMMA IdTyped ==
  ASSUME Typed, NEW r \in IrReceivers, NEW signal \in Signals
  PROVE  IrId(r, signal) \in Ids
BY DEF Typed, IrId, Ids, Signals

\* What only moves in the list, or changes nothing the order is about.
LEMMA LogKept ==
  ASSUME OrderInv, Typed', Log' = Log, UNCHANGED <<pending, arrived>>
  PROVE  OrderInv'
<1>1. Numbered'
  BY DEF OrderInv, Numbered
<1>2. TakenBefore'
  BY DEF OrderInv, TakenBefore, Later
<1>3. InOrder'
  BY DEF OrderInv, InOrder, Log
<1> QED
  BY <1>1, <1>2, <1>3 DEF OrderInv

\* A registration changes the slots only.
LEMMA OrderRegister ==
  ASSUME OrderInv, NEW r \in Receivers, RegisterCommandReceiver(r)
  PROVE  OrderInv'
<1>1. Typed'
  BY DEF OrderInv, Typed, RegisterCommandReceiver
<1>2. Log' = Log
  BY DEF RegisterCommandReceiver, Log
<1> QED
  BY <1>1, <1>2, LogKept DEF RegisterCommandReceiver

\* Asking the next receiver.
LEMMA OrderAsked ==
  ASSUME OrderInv, UNCHANGED <<slots, list, heap, pending, lastCmd, arrived, executed>>
  PROVE  OrderInv'
<1>1. Typed'
  BY DEF OrderInv, Typed
<1>2. Log' = Log
  BY DEF Log
<1> QED
  BY <1>1, <1>2, LogKept

\* What arrives is newer than all that was taken.
LEMMA OrderArrive ==
  ASSUME OrderInv, NEW r \in Receivers, NEW signal \in Items, Arrive(r, signal),
         r \in IrReceivers => signal \in Signals
  PROVE  OrderInv'
<1> DEFINE item == [n |-> Len(arrived[r]) + 1, signal |-> signal]
<1> USE DEF OrderInv
<1>0. /\ arrived \in [Receivers -> Seq(Items)]
      /\ pending \in [Receivers -> Seq([n : Nat, signal : Items])]
      /\ arrived' = [arrived EXCEPT ![r] = Append(arrived[r], signal)]
  BY DEF Typed, Arrive
<1>1. /\ arrived[r] \in Seq(Items)
      /\ pending[r] \in Seq([n : Nat, signal : Items])
      /\ arrived'[r] = Append(arrived[r], signal)
      /\ Len(arrived'[r]) = Len(arrived[r]) + 1
      /\ arrived' = [arrived EXCEPT ![r] = Append(arrived[r], signal)]
  <2> HIDE DEF OrderInv
  <2> QED
    BY <1>0, AppendProperties
<1>2. item \in [n : Nat, signal : Items]
  BY <1>1
<1>3. pending' = [pending EXCEPT ![r] = Append(pending[r], item)]
  BY <1>1 DEF Arrive, Typed
<1>4. Typed'
  <2> HIDE DEF item, OrderInv
  <2>1. Append(arrived[r], signal) \in Seq(Items)
    BY <1>1, AppendProperties
  <2>2. Append(pending[r], item) \in Seq([n : Nat, signal : Items])
    BY <1>1, <1>2, AppendProperties
  <2>3. arrived' \in [Receivers -> Seq(Items)]
    BY <1>0, <1>1, <2>1
  <2>4. pending' \in [Receivers -> Seq([n : Nat, signal : Items])]
    BY <1>0, <1>3, <2>2
  <2>5. ASSUME NEW q \in IrReceivers
        PROVE  pending'[q] \in Seq([n : Nat, signal : Signals]) /\ arrived'[q] \in Seq(Signals)
    <3>1. q \in Receivers
      BY DEF Receivers
    <3>2. CASE q = r
      <4>1. arrived[r] \in Seq(Signals) /\ pending[r] \in Seq([n : Nat, signal : Signals])
        BY <3>2 DEF OrderInv, Typed
      <4>2. signal \in Signals /\ item \in [n : Nat, signal : Signals]
        BY <1>1, <3>2 DEF item
      <4>3. pending'[r] = Append(pending[r], item) /\ arrived'[r] = Append(arrived[r], signal)
        BY <1>0, <1>3
      <4> QED
        BY <3>2, <4>1, <4>2, <4>3, AppendProperties
    <3>3. CASE q # r
      <4>1. pending'[q] = pending[q] /\ arrived'[q] = arrived[q]
        BY <1>0, <1>3, <3>1, <3>3
      <4> QED
        BY <4>1 DEF OrderInv, Typed
    <3> QED
      BY <3>2, <3>3
  <2> QED
    BY <2>3, <2>4, <2>5 DEF OrderInv, Typed, Arrive
<1>5. pending'[r] = Append(pending[r], item)
  BY <1>3 DEF Typed
<1>6. \A q \in Receivers \ {r} : pending'[q] = pending[q] /\ arrived'[q] = arrived[q]
  BY <1>1, <1>3 DEF Typed
<1> HIDE DEF item, OrderInv
<1>7. /\ Queued(pending'[r], arrived'[r])
      /\ \A n \in Nat : Taken(n, pending[r], arrived[r]) => Taken(n, pending'[r], arrived'[r])
  <2>1. Queued(pending[r], arrived[r])
    BY DEF OrderInv, Numbered
  <2>2. pending'[r] = Append(pending[r], [n |-> Len(arrived[r]) + 1, signal |-> signal])
    BY <1>5 DEF item
  <2> QED
    BY <1>1, <2>1, <2>2, QueuedAppend
<1>8. Numbered'
  BY <1>6, <1>7 DEF Numbered, OrderInv
<1>9. Log' = Log
  BY DEF Arrive, Log
<1>10. TakenBefore'
  <2> SUFFICES ASSUME NEW i \in 1 .. Len(Log)
               PROVE  Taken(Log[i].n, pending'[Log[i].from], arrived'[Log[i].from])
    BY <1>9 DEF TakenBefore, Later
  <2>1. Log[i] \in Commands
    BY LogTyped, ElementOfSeq DEF OrderInv
  <2>2. Log[i].from \in Receivers /\ Log[i].n \in Nat
    BY <2>1 DEF Commands
  <2>3. Taken(Log[i].n, pending[Log[i].from], arrived[Log[i].from])
    BY DEF OrderInv, TakenBefore, Later
  <2> QED
    BY <1>6, <1>7, <2>2, <2>3
<1>11. InOrder'
  BY DEF OrderInv, InOrder, Arrive
<1> QED
  BY <1>4, <1>8, <1>10, <1>11 DEF OrderInv

\* The command taken is the newest of its receiver in the log.
LEMMA OrderReceive ==
  ASSUME OrderInv, Receive
  PROVE  OrderInv'
<1> DEFINE r == slots[asked]
           first == Head(pending[r])
           c == NewCommand(r, first)
<1>1. /\ Typed /\ Numbered /\ TakenBefore /\ InOrder
      /\ r \in Receivers
      /\ pending[r] \in Seq([n : Nat, signal : Items]) /\ pending[r] # <<>>
      /\ arrived[r] \in Seq(Items)
  BY DEF OrderInv, Typed, Receive, Asking
<1>2. first \in [n : Nat, signal : Items]
  BY <1>1, HeadTailProperties
<1>3. /\ pending' = [pending EXCEPT ![r] = Tail(pending[r])]
      /\ list' = IF Len(list) < ListCapacity - 1 THEN Append(list, c) ELSE list
      /\ heap' = heap \union {c}
      /\ UNCHANGED <<slots, asked, arrived, executed>>
  BY DEF Receive, AppendCommand
<1>4. c \in Commands /\ c.from = r /\ c.n = first.n
  <2>1. ASSUME r \in IrReceivers PROVE IrId(r, first.signal) \in Ids
    <3>1. first \in [n : Nat, signal : Signals]
      BY <1>1, <2>1, HeadTailProperties DEF Typed
    <3> QED
      BY <1>1, <2>1, <3>1, IdTyped
  <2>2. UartId \in Ids
    BY DEF Ids
  <2> HIDE DEF first
  <2> QED
    BY <1>1, <1>2, <2>1, <2>2 DEF NewCommand, Commands
<1> HIDE DEF c, first, OrderInv
<1>5. /\ Queued(Tail(pending[r]), arrived[r])
      /\ Taken(c.n, Tail(pending[r]), arrived[r])
      /\ \A n \in Nat : Taken(n, pending[r], arrived[r]) => Taken(n, Tail(pending[r]), arrived[r])
      /\ Tail(pending[r]) \in Seq([n : Nat, signal : Items])
      /\ r \in IrReceivers => Tail(pending[r]) \in Seq([n : Nat, signal : Signals])
  <2>1. Queued(pending[r], arrived[r])
    BY <1>1 DEF Numbered
  <2>2. c.n = Head(pending[r]).n
    BY <1>4 DEF first
  <2>3. Tail(pending[r]) \in Seq([n : Nat, signal : Items])
    BY <1>1
  <2>4. r \in IrReceivers => Tail(pending[r]) \in Seq([n : Nat, signal : Signals])
    BY <1>1, HeadTailProperties DEF Typed
  <2> QED
    BY <1>1, <2>1, <2>2, <2>3, <2>4, QueuedTail
<1>6. /\ pending'[r] = Tail(pending[r])
      /\ \A q \in Receivers \ {r} : pending'[q] = pending[q]
      /\ pending' \in [Receivers -> Seq([n : Nat, signal : Items])]
  <2>1. pending \in [Receivers -> Seq([n : Nat, signal : Items])]
    BY <1>1 DEF Typed
  <2> HIDE DEF r
  <2> QED
    BY <1>1, <1>3, <1>5, <2>1
<1>7. lastCmd' \in [IrReceivers -> Ids]
  <2>1. lastCmd' = IF r \in IrReceivers
                    THEN [lastCmd EXCEPT ![r] = IrId(r, first.signal)] ELSE lastCmd
    BY DEF Receive, LastCmd, first
  <2>2. r \in IrReceivers => IrId(r, first.signal) \in Ids
    <3> SUFFICES ASSUME r \in IrReceivers PROVE IrId(r, first.signal) \in Ids
      OBVIOUS
    <3>1. first \in [n : Nat, signal : Signals]
      BY <1>1, HeadTailProperties DEF Typed, first
    <3> QED
      BY <1>1, <3>1, IdTyped
  <2>3. lastCmd \in [IrReceivers -> Ids]
    BY <1>1 DEF Typed
  <2> HIDE DEF r
  <2> QED
    BY <2>1, <2>2, <2>3
<1>8. Typed'
  <2>1. list' \in Seq(Commands)
    BY <1>1, <1>3, <1>4 DEF Typed
  <2>2. heap' \subseteq Commands
    BY <1>1, <1>3, <1>4 DEF Typed
  <2>3. ASSUME NEW q \in IrReceivers
        PROVE  pending'[q] \in Seq([n : Nat, signal : Signals]) /\ arrived'[q] \in Seq(Signals)
    <3>1. q \in Receivers /\ arrived' = arrived
      BY <1>3 DEF Receivers
    <3>2. pending[q] \in Seq([n : Nat, signal : Signals]) /\ arrived[q] \in Seq(Signals)
      BY <1>1 DEF Typed
    <3> HIDE DEF r
    <3> QED
      BY <1>5, <1>6, <3>1, <3>2
  <2> HIDE DEF r
  <2> QED
    BY <1>1, <1>3, <1>6, <1>7, <2>1, <2>2, <2>3 DEF Typed
<1> HIDE DEF r
<1>9. Numbered'
  BY <1>1, <1>3, <1>5, <1>6 DEF Numbered
<1>10. ASSUME NEW i \in 1 .. Len(Log)
       PROVE  /\ Log[i] \in Commands
              /\ Taken(Log[i].n, pending'[Log[i].from], arrived'[Log[i].from])
              /\ Log[i].from = r => Log[i].n < c.n
  <2>1. Log[i] \in Commands
    BY <1>1, LogTyped, ElementOfSeq
  <2>2. Log[i].from \in Receivers /\ Log[i].n \in Nat
    BY <2>1 DEF Commands
  <2>3. Taken(Log[i].n, pending[Log[i].from], arrived[Log[i].from])
    BY <1>1 DEF TakenBefore, Later
  <2>4. Taken(Log[i].n, pending'[Log[i].from], arrived'[Log[i].from])
    BY <1>3, <1>5, <1>6, <2>2, <2>3
  <2>5. 1 \in 1 .. Len(pending[r]) /\ c.n = pending[r][1].n
    BY <1>1, <1>4 DEF first
  <2> QED
    BY <2>1, <2>3, <2>4, <2>5 DEF Taken
<1>11. c.n \in Nat /\ c.from = r /\ r \in Receivers
  BY <1>1, <1>4 DEF Commands
<1>12. Taken(c.n, pending'[c.from], arrived'[c.from])
  BY <1>3, <1>5, <1>6, <1>11
<1>13. Log \in Seq(Commands) /\ Len(Log) \in Nat
  BY <1>1, LogTyped
<1>14. CASE Log' = Log
  <2>1. TakenBefore'
    BY <1>10, <1>14 DEF TakenBefore, Later
  <2>2. InOrder'
    BY <1>1, <1>14 DEF InOrder, Log
  <2> QED
    BY <1>8, <1>9, <2>1, <2>2 DEF OrderInv
<1>15. CASE Log' = Append(Log, c)
  <2>1. /\ Len(Log') = Len(Log) + 1
        /\ Log'[Len(Log) + 1] = c
        /\ \A i \in 1 .. Len(Log) : Log'[i] = Log[i]
    BY <1>4, <1>13, <1>15, AppendProperties
  <2>2. ASSUME NEW i \in 1 .. Len(Log')
        PROVE  Taken(Log'[i].n, pending'[Log'[i].from], arrived'[Log'[i].from])
    <3>1. CASE i = Len(Log) + 1
      BY <1>12, <2>1, <3>1
    <3>2. CASE i \in 1 .. Len(Log)
      BY <1>10, <2>1, <3>2
    <3> QED
      BY <1>13, <2>1, <3>1, <3>2
  <2>3. ASSUME NEW i \in 1 .. Len(Log'), NEW j \in 1 .. Len(Log'),
               i < j, Log'[i].from = Log'[j].from
        PROVE  Log'[i].n < Log'[j].n
    <3>1. i \in 1 .. Len(Log)
      BY <1>13, <2>1, <2>3
    <3>2. CASE j = Len(Log) + 1
      BY <1>10, <1>11, <2>1, <2>3, <3>1, <3>2
    <3>3. CASE j \in 1 .. Len(Log)
      BY <1>1, <2>1, <2>3, <3>1, <3>3 DEF InOrder, Log
    <3> QED
      BY <1>13, <2>1, <3>2, <3>3
  <2>4. TakenBefore'
    BY <2>2 DEF TakenBefore, Later
  <2>5. InOrder'
    BY <2>3 DEF InOrder, Log
  <2> QED
    BY <1>8, <1>9, <2>4, <2>5 DEF OrderInv
<1>16. Log' = Log \/ Log' = Append(Log, c)
  <2>1. executed \in Seq(Commands) /\ list \in Seq(Commands)
    BY <1>1 DEF Typed
  <2>2. executed \o Append(list, c) = Append(executed \o list, c)
    BY <1>4, <2>1
  <2> QED
    BY <1>3, <2>2 DEF Log
<1> QED
  BY <1>14, <1>15, <1>16

\* The oldest command only changes sides of the log.
LEMMA LogOfReturn ==
  ASSUME Typed, Return
  PROVE  Log' = Log
<1>1. CASE list = <<>>
  BY <1>1 DEF Return, Log
<1>2. CASE list # <<>>
  <2>1. Append(executed, Head(list)) \o Tail(list) = executed \o list
    BY <1>2 DEF Typed
  <2> QED
    BY <1>2, <2>1 DEF Return, Log
<1> QED
  BY <1>1, <1>2

\* The command returned moves from the list to the executed ones.
LEMMA OrderReturn ==
  ASSUME OrderInv, Return
  PROVE  OrderInv'
<1>1. executed \in Seq(Commands) /\ list \in Seq(Commands) /\ Typed
  BY DEF OrderInv, Typed
<1>2. Typed'
  <2>1. list' \in Seq(Commands) /\ executed' \in Seq(Commands) /\ heap' \subseteq heap
    <3>1. CASE list = <<>>
      BY <1>1, <3>1 DEF Return
    <3>2. CASE list # <<>>
      <4>1. Head(list) \in Commands /\ Tail(list) \in Seq(Commands)
        BY <1>1, <3>2, HeadTailProperties
      <4>2. Append(executed, Head(list)) \in Seq(Commands)
        BY <1>1, <4>1, AppendProperties
      <4>3. /\ list' = Tail(list) /\ executed' = Append(executed, Head(list))
            /\ heap' = heap \ {Head(list)}
        BY <3>2 DEF Return
      <4> QED
        BY <4>1, <4>2, <4>3
    <3> QED
      BY <3>1, <3>2
  <2> QED
    BY <1>1, <2>1 DEF Typed, Return
<1>3. Log' = Log
  BY <1>1, LogOfReturn
<1> QED
  BY <1>2, <1>3, LogKept DEF Return

\* Every step keeps the order.
LEMMA OrderStep ==
  ASSUME OrderInv, [Next]_vars
  PROVE  OrderInv'
<1>1. CASE UNCHANGED vars
  BY <1>1, OrderAsked DEF vars
<1>2. ASSUME NEW r \in Receivers, RegisterCommandReceiver(r) PROVE OrderInv'
  BY <1>2, OrderRegister
<1>3. ASSUME NEW r \in UartReceivers, Arrive(r, UartId) PROVE OrderInv'
  BY <1>3, OrderArrive, ReceiverAssumption DEF Receivers, Items
<1>4. ASSUME NEW r \in IrReceivers, NEW signal \in Signals, Arrive(r, signal) PROVE OrderInv'
  BY <1>4, OrderArrive DEF Receivers, Items
<1>5. CASE GetNextPendingCommand
  BY <1>5, OrderAsked DEF GetNextPendingCommand
<1>6. CASE NextReceiver
  BY <1>6, OrderAsked DEF NextReceiver
<1> QED
  BY <1>1, <1>2, <1>3, <1>4, <1>5, <1>6, OrderReceive, OrderReturn DEF Next, Call

\* Commands are executed in the order of their arrival (ERxCommander.cpp:32-72).
THEOREM Order == Spec => []InOrder
<1>1. OrderInv /\ [Next]_vars => OrderInv'
  BY OrderStep
<1>2. OrderInv => InOrder
  BY DEF OrderInv
<1> QED
  BY <1>1, <1>2, OrderStarts, PTL DEF Spec

-----------------------------------------------------------------------------
(* Repeated keys *)

\* A set of natural numbers has a smallest one.
LEMMA Smallest ==
  ASSUME NEW S, S \subseteq Nat, S # {}
  PROVE  \E m \in S : \A s \in S : m <= s
<1>1. \E R : IsWellFoundedOn(R, Nat) /\ \A s, m \in Nat : s < m => <<s, m>> \in R
  <2>1. \A s, m \in Nat : s < m => <<s, m>> \in OpToRel(<, Nat)
    BY DEF OpToRel
  <2> QED
    BY <2>1, NatLessThanWellFounded
<1>2. PICK R : IsWellFoundedOn(R, Nat) /\ \A s, m \in Nat : s < m => <<s, m>> \in R
  BY <1>1
<1>3. IsWellFoundedOn(R, Nat)
  BY <1>2
<1>4. PICK m \in S : \A s \in S : ~ (<<s, m>> \in R)
  BY <1>3, WFMin
<1>5. ASSUME NEW s \in S PROVE m <= s
  <2>1. s \in Nat /\ m \in Nat /\ ~ (<<s, m>> \in R)
    BY <1>4
  <2>2. ~ (s < m)
    BY <1>2, <2>1
  <2> QED
    BY <2>1, <2>2
<1> QED
  BY <1>5

\* A set of numbers up to n has a largest one.
LEMMA Largest ==
  ASSUME NEW n \in Nat, NEW S, S \subseteq 1 .. n, S # {}
  PROVE  \E m \in S : \A s \in S : s <= m
<1> DEFINE T == {i \in 0 .. n : n - i \in S}
<1>1. T \subseteq Nat
  OBVIOUS
<1>2. \A s \in S : n - s \in T
  OBVIOUS
<1>3. T # {}
  BY <1>2
<1> HIDE DEF T
<1>4. PICK i \in T : \A j \in T : i <= j
  BY <1>1, <1>3, Smallest
<1>5. n - i \in S /\ i \in Nat
  BY <1>4 DEF T
<1>6. ASSUME NEW s \in S PROVE s <= n - i
  <2>1. i <= n - s
    BY <1>2, <1>4
  <2> QED
    BY <1>5, <2>1
<1> QED
  BY <1>5, <1>6

\* Max of a bounded set.
LEMMA MaxOf ==
  ASSUME NEW n \in Nat, NEW S, S \subseteq 1 .. n, S # {}
  PROVE  Max(S) \in S /\ \A s \in S : s <= Max(S)
<1>1. PICK m \in S : \A s \in S : s <= m
  BY Largest
<1>2. S \subseteq Nat
  OBVIOUS
<1>3. \A s \in S : m >= s
  BY <1>1, <1>2
<1>4. Max(S) \in S /\ \A s \in S : Max(S) >= s
  BY <1>3 DEF Max
<1> QED
  BY <1>2, <1>4

\* What arrives later does not change what a signal means.
LEMMA MeaningKept ==
  ASSUME NEW S, NEW signals \in Seq(S), NEW x \in S, NEW n \in 0 .. Len(signals)
  PROVE  Meaning(Append(signals, x), n) = Meaning(signals, n)
<1> DEFINE all == Append(signals, x)
           others(sig) == {k \in 1 .. n : sig[k] # REPEAT}
<1>1. \A k \in 1 .. n : all[k] = signals[k]
  OBVIOUS
<1> HIDE DEF all
<1>2. others(all) = others(signals)
  BY <1>1
<1>3. others(signals) # {} => Max(others(signals)) \in 1 .. n
  <2>1. others(signals) \subseteq 1 .. n /\ n \in Nat
    OBVIOUS
  <2> HIDE DEF others
  <2> QED
    BY <2>1, MaxOf
<1>4. others(signals) # {} => all[Max(others(signals))] = signals[Max(others(signals))]
  BY <1>1, <1>3
<1>5. Meaning(all, n) = Meaning(signals, n)
  BY <1>2, <1>4 DEF Meaning
<1> QED
  BY <1>5 DEF all

\* The meaning of a signal, from that of the one before.
LEMMA MeaningNext ==
  ASSUME NEW signals, NEW n \in Nat
  PROVE  /\ signals[n + 1] = REPEAT  => Meaning(signals, n + 1) = Meaning(signals, n)
         /\ signals[n + 1] = FOREIGN => Meaning(signals, n + 1) = 0
         /\ signals[n + 1] \notin {REPEAT, FOREIGN} =>
              Meaning(signals, n + 1) = Keys[signals[n + 1]]
<1> DEFINE others(m) == {k \in 1 .. m : signals[k] # REPEAT}
<1>1. ASSUME signals[n + 1] = REPEAT PROVE Meaning(signals, n + 1) = Meaning(signals, n)
  <2>1. others(n + 1) = others(n)
    BY <1>1
  <2> QED
    BY <2>1 DEF Meaning
<1>2. ASSUME signals[n + 1] # REPEAT PROVE others(n + 1) # {} /\ Max(others(n + 1)) = n + 1
  <2>1. n + 1 \in others(n + 1)
    BY <1>2
  <2>2. others(n + 1) \subseteq 1 .. n + 1
    OBVIOUS
  <2> HIDE DEF others
  <2>3. Max(others(n + 1)) \in 1 .. n + 1 /\ n + 1 <= Max(others(n + 1))
    BY <2>1, <2>2, MaxOf
  <2> QED
    BY <2>1, <2>3
<1>3. ASSUME signals[n + 1] # REPEAT
      PROVE  Meaning(signals, n + 1) = IF signals[n + 1] = FOREIGN THEN 0 ELSE Keys[signals[n + 1]]
  <2> DEFINE last == Max(others(n + 1))
  <2>1. others(n + 1) # {} /\ last = n + 1
    BY <1>2, <1>3
  <2>2. Meaning(signals, n + 1) = IF others(n + 1) = {} \/ signals[last] = FOREIGN
                                   THEN 0 ELSE Keys[signals[last]]
    BY DEF Meaning
  <2> QED
    BY <2>1, <2>2
<1> QED
  BY <1>1, <1>3, ReceiverAssumption

\* The decoder holds at most the last signal, and m_LastCmd means the last one taken.
Decoded ==
  \A r \in IrReceivers :
    /\ Len(pending[r]) \in 0 .. 1 /\ Len(pending[r]) <= Len(arrived[r])
    /\ pending[r] # <<>> => pending[r][1].n = Len(arrived[r])
    /\ lastCmd[r] = Meaning(arrived[r], Len(arrived[r]) - Len(pending[r]))

Meant(c, all) ==
  c.from \in IrReceivers =>
    c.n \in 1 .. Len(all[c.from]) /\ c.id = Meaning(all[c.from], c.n)

AllMeant ==
  /\ \A c \in heap : Meant(c, arrived)
  /\ \A i \in 1 .. Len(Log) : Meant(Log[i], arrived)

RepeatInv == Decoded /\ AllMeant

\* Nothing arrived yet.
LEMMA RepeatStarts == Init => RepeatInv
<1> SUFFICES ASSUME Init PROVE RepeatInv
  OBVIOUS
<1> USE DEF Init
<1>1. Log = <<>>
  BY DEF Log
<1>2. ASSUME NEW r \in IrReceivers PROVE lastCmd[r] = Meaning(<<>>, 0)
  <2>1. {k \in 1 .. 0 : (<<>>)[k] # REPEAT} = {}
    OBVIOUS
  <2> QED
    BY <2>1 DEF Meaning
<1>3. Decoded
  BY <1>2 DEF Decoded, Receivers
<1> QED
  BY <1>1, <1>3 DEF RepeatInv, AllMeant

\* What leaves the log and the signals alone.
LEMMA RepeatKept ==
  ASSUME RepeatInv, Log' = Log, heap' \subseteq heap, UNCHANGED <<pending, arrived, lastCmd>>
  PROVE  RepeatInv'
BY DEF RepeatInv, Decoded, AllMeant, Meant

\* An arriving signal is the last, and the meaning of the others stays.
LEMMA RepeatArrive ==
  ASSUME OrderInv, RepeatInv, NEW r \in Receivers, NEW signal \in Items, Arrive(r, signal)
  PROVE  RepeatInv'
<1>1. /\ Typed
      /\ arrived \in [Receivers -> Seq(Items)]
      /\ pending \in [Receivers -> Seq([n : Nat, signal : Items])]
      /\ arrived' = [arrived EXCEPT ![r] = Append(arrived[r], signal)]
      /\ r \in IrReceivers => pending[r] = <<>>
      /\ UNCHANGED <<heap, list, executed, lastCmd>>
  BY DEF OrderInv, Typed, Arrive
<1>2. /\ arrived[r] \in Seq(Items)
      /\ arrived'[r] = Append(arrived[r], signal)
      /\ Len(arrived'[r]) = Len(arrived[r]) + 1
      /\ Len(arrived[r]) \in Nat
  BY <1>1, AppendProperties, LenProperties
<1>3. pending' = [pending EXCEPT ![r] =
                   Append(pending[r], [n |-> Len(arrived[r]) + 1, signal |-> signal])]
  BY <1>1, <1>2 DEF Arrive
<1>4. \A q \in Receivers \ {r} : arrived'[q] = arrived[q] /\ pending'[q] = pending[q]
  BY <1>1, <1>3
<1>5. \A n \in 0 .. Len(arrived[r]) : Meaning(arrived'[r], n) = Meaning(arrived[r], n)
  BY <1>2, MeaningKept
<1>6. ASSUME NEW c, Meant(c, arrived), c.from \in Receivers PROVE Meant(c, arrived')
  <2> SUFFICES ASSUME c.from \in IrReceivers
               PROVE  /\ c.n \in 1 .. Len(arrived'[c.from])
                      /\ c.id = Meaning(arrived'[c.from], c.n)
    BY DEF Meant
  <2>1. c.n \in 1 .. Len(arrived[c.from]) /\ c.id = Meaning(arrived[c.from], c.n)
    BY <1>6 DEF Meant
  <2>2. CASE c.from = r
    <3>1. c.n \in 1 .. Len(arrived[r]) /\ c.id = Meaning(arrived[r], c.n)
      BY <2>1, <2>2
    <3>2. c.n \in 0 .. Len(arrived[r]) /\ c.n \in 1 .. Len(arrived'[r])
      BY <1>2, <3>1
    <3>3. Meaning(arrived'[r], c.n) = Meaning(arrived[r], c.n)
      BY <1>5, <3>2
    <3> QED
      BY <2>2, <3>1, <3>2, <3>3
  <2>3. CASE c.from # r
    BY <1>4, <1>6, <2>1, <2>3
  <2> QED
    BY <2>2, <2>3
<1>7. AllMeant'
  <2>1. Log' = Log
    BY <1>1 DEF Log
  <2>2. \A c \in heap : c.from \in Receivers /\ Meant(c, arrived)
    BY <1>1 DEF Typed, Commands, RepeatInv, AllMeant
  <2>3. \A i \in 1 .. Len(Log) : Log[i].from \in Receivers /\ Meant(Log[i], arrived)
    <3>1. \A i \in 1 .. Len(Log) : Log[i] \in Commands
      BY <1>1, LogTyped, ElementOfSeq
    <3> QED
      BY <3>1 DEF Commands, RepeatInv, AllMeant
  <2>4. \A c \in heap' : Meant(c, arrived')
    BY <1>1, <1>6, <2>2
  <2>5. \A i \in 1 .. Len(Log) : Meant(Log[i], arrived')
    BY <1>6, <2>3
  <2> QED
    BY <2>1, <2>4, <2>5 DEF AllMeant
<1>8. ASSUME NEW q \in IrReceivers
      PROVE  /\ Len(pending'[q]) \in 0 .. 1 /\ Len(pending'[q]) <= Len(arrived'[q])
             /\ pending'[q] # <<>> => pending'[q][1].n = Len(arrived'[q])
             /\ lastCmd'[q] = Meaning(arrived'[q], Len(arrived'[q]) - Len(pending'[q]))
  <2>1. CASE q = r
    <3> DEFINE item == [n |-> Len(arrived[r]) + 1, signal |-> signal]
    <3>1. pending[r] = <<>> /\ pending'[r] = <<item>>
      BY <1>1, <1>3, <2>1
    <3>2. Len(pending'[r]) = 1 /\ pending'[r][1] = item /\ item.n = Len(arrived[r]) + 1
      BY <3>1
    <3>3. lastCmd[r] = Meaning(arrived[r], Len(arrived[r]) - 0)
      BY <2>1, <3>1 DEF RepeatInv, Decoded
    <3>4. Len(arrived'[r]) - 1 = Len(arrived[r]) /\ Len(arrived[r]) - 0 = Len(arrived[r])
      BY <1>2
    <3>5. lastCmd'[r] = Meaning(arrived'[r], Len(arrived'[r]) - 1)
      BY <1>1, <1>2, <1>5, <3>3, <3>4
    <3> HIDE DEF item
    <3>6. Len(pending'[r]) \in 0 .. 1 /\ Len(pending'[r]) <= Len(arrived'[r])
      BY <1>2, <3>2
    <3>7. pending'[r] # <<>> => pending'[r][1].n = Len(arrived'[r])
      BY <1>2, <3>2
    <3>8. lastCmd'[r] = Meaning(arrived'[r], Len(arrived'[r]) - Len(pending'[r]))
      BY <3>2, <3>5
    <3> QED
      BY <2>1, <3>6, <3>7, <3>8
  <2>2. CASE q # r
    BY <1>1, <1>4, <2>2 DEF RepeatInv, Decoded, Receivers
  <2> QED
    BY <2>1, <2>2
<1> QED
  BY <1>7, <1>8 DEF RepeatInv, Decoded

\* A receiver's signal gives the command of its meaning.
LEMMA RepeatReceive ==
  ASSUME OrderInv, RepeatInv, Receive
  PROVE  RepeatInv'
<1> DEFINE r == slots[asked]
           first == Head(pending[r])
           c == NewCommand(r, first)
<1>1. /\ Typed /\ Numbered
      /\ r \in Receivers
      /\ pending[r] \in Seq([n : Nat, signal : Items]) /\ pending[r] # <<>>
      /\ arrived[r] \in Seq(Items) /\ Len(arrived[r]) \in Nat
      /\ pending \in [Receivers -> Seq([n : Nat, signal : Items])]
  <2>1. /\ Typed /\ Numbered /\ r \in Receivers /\ pending[r] # <<>>
    BY DEF OrderInv, Typed, Receive, Asking
  <2> HIDE DEF r
  <2>2. /\ pending[r] \in Seq([n : Nat, signal : Items])
        /\ arrived[r] \in Seq(Items)
        /\ pending \in [Receivers -> Seq([n : Nat, signal : Items])]
    BY <2>1 DEF Typed
  <2> QED
    BY <2>1, <2>2, LenProperties
<1>2. /\ pending' = [pending EXCEPT ![r] = Tail(pending[r])]
      /\ list' = IF Len(list) < ListCapacity - 1 THEN Append(list, c) ELSE list
      /\ heap' = heap \union {c}
      /\ lastCmd' = IF r \in IrReceivers
                       THEN [lastCmd EXCEPT ![r] = IrId(r, first.signal)] ELSE lastCmd
      /\ UNCHANGED <<slots, asked, arrived, executed>>
  BY DEF Receive, AppendCommand, LastCmd
<1>3. lastCmd \in [IrReceivers -> Ids]
  BY <1>1 DEF Typed
<1>4. ASSUME r \in IrReceivers
      PROVE  /\ Len(pending[r]) = 1
             /\ first.n = Len(arrived[r]) /\ Len(arrived[r]) \in Nat \ {0}
             /\ IrId(r, first.signal) = Meaning(arrived[r], Len(arrived[r]))
  <2> HIDE DEF r
  <2>0. /\ Len(pending[r]) \in 0 .. 1 /\ Len(pending[r]) <= Len(arrived[r])
        /\ pending[r] # <<>> => pending[r][1].n = Len(arrived[r])
        /\ lastCmd[r] = Meaning(arrived[r], Len(arrived[r]) - Len(pending[r]))
    BY <1>4 DEF RepeatInv, Decoded
  <2>1. Len(pending[r]) = 1 /\ first = pending[r][1]
    <3>1. Len(pending[r]) # 0
      BY <1>1, EmptySeq
    <3> QED
      BY <1>1, <2>0, <3>1, HeadTailProperties
  <2> HIDE DEF first
  <2>2. first.n = Len(arrived[r]) /\ Len(arrived[r]) \in Nat \ {0}
    BY <1>1, <2>0, <2>1
  <2>3. first.signal = arrived[r][Len(arrived[r])]
    <3>1. first.signal = arrived[r][first.n]
      BY <1>1, <2>1 DEF Numbered, Queued
    <3> QED
      BY <2>2, <3>1
  <2>4. lastCmd[r] = Meaning(arrived[r], Len(arrived[r]) - 1)
    BY <2>0, <2>1
  <2>5. arrived[r] \in Seq(Signals)
    BY <1>1, <1>4 DEF Typed
  <2> DEFINE n == Len(arrived[r]) - 1
  <2>6. n \in Nat /\ n = Len(arrived[r]) - 1
    BY <2>2
  <2> HIDE DEF n
  <2>7. n + 1 = Len(arrived[r])
    BY <2>2, <2>6
  <2> DEFINE x == arrived[r][n + 1]
  <2>8. x \in Signals /\ first.signal = x
    BY <2>2, <2>3, <2>5, <2>7, ElementOfSeq
  <2>9. lastCmd[r] = Meaning(arrived[r], n)
    BY <2>4, <2>6
  <2>10. /\ x = REPEAT  => Meaning(arrived[r], n + 1) = Meaning(arrived[r], n)
         /\ x = FOREIGN => Meaning(arrived[r], n + 1) = 0
         /\ x \notin {REPEAT, FOREIGN} => Meaning(arrived[r], n + 1) = Keys[x]
    BY <2>6, MeaningNext
  <2> HIDE DEF x
  <2>11. CASE x = REPEAT
    <3>1. IrId(r, x) = lastCmd[r]
      BY <2>11, ReceiverAssumption DEF IrId
    <3> QED
      BY <2>1, <2>2, <2>7, <2>8, <2>9, <2>10, <2>11, <3>1
  <2>12. CASE x = FOREIGN
    <3>1. IrId(r, x) = 0
      BY <2>12, ReceiverAssumption DEF IrId
    <3> QED
      BY <2>1, <2>2, <2>7, <2>8, <2>10, <2>12, <3>1
  <2>13. CASE x \notin {REPEAT, FOREIGN}
    <3>1. IrId(r, x) = Keys[x]
      BY <2>13 DEF IrId
    <3> QED
      BY <2>1, <2>2, <2>7, <2>8, <2>10, <2>13, <3>1
  <2> QED
    BY <2>11, <2>12, <2>13
<1>5. c.from = r /\ c.n = first.n /\ (r \in IrReceivers => c.id = IrId(r, first.signal))
  BY DEF NewCommand
<1>6. Meant(c, arrived')
  <2> HIDE DEF r, first, c
  <2> SUFFICES ASSUME r \in IrReceivers
               PROVE  c.n \in 1 .. Len(arrived[r]) /\ c.id = Meaning(arrived[r], c.n)
    BY <1>2, <1>5 DEF Meant
  <2>1. c.n = Len(arrived[r]) /\ Len(arrived[r]) \in Nat \ {0}
    BY <1>4, <1>5
  <2>2. c.id = Meaning(arrived[r], Len(arrived[r]))
    BY <1>4, <1>5
  <2> QED
    BY <2>1, <2>2
<1>7. ASSUME NEW q \in IrReceivers
      PROVE  /\ Len(pending'[q]) \in 0 .. 1 /\ Len(pending'[q]) <= Len(arrived'[q])
             /\ pending'[q] # <<>> => pending'[q][1].n = Len(arrived'[q])
             /\ lastCmd'[q] = Meaning(arrived'[q], Len(arrived'[q]) - Len(pending'[q]))
  <2> HIDE DEF r, first, c
  <2>1. CASE q = r
    <3>1. Len(pending[r]) = 1
      BY <1>4, <2>1
    <3>2. pending'[r] = Tail(pending[r])
      BY <1>1, <1>2
    <3>3. pending'[r] = <<>> /\ Len(pending'[r]) = 0
      <4>1. Tail(pending[r]) \in Seq([n : Nat, signal : Items]) /\ Len(Tail(pending[r])) = 0
        BY <1>1, <3>1, HeadTailProperties
      <4> QED
        BY <3>2, <4>1, EmptySeq
    <3>4. lastCmd'[r] = Meaning(arrived[r], Len(arrived[r]))
      BY <1>2, <1>3, <1>4, <2>1
    <3>5. Len(arrived[r]) - 0 = Len(arrived[r])
      BY <1>1
    <3> QED
      BY <1>1, <1>2, <2>1, <3>3, <3>4, <3>5
  <2>2. CASE q # r
    <3>1. pending'[q] = pending[q] /\ lastCmd'[q] = lastCmd[q] /\ arrived' = arrived
      BY <1>1, <1>2, <1>3, <2>2 DEF Receivers
    <3> QED
      BY <3>1 DEF RepeatInv, Decoded
  <2> QED
    BY <2>1, <2>2
<1> HIDE DEF r, first, c
<1>8. Log' = Log \/ Log' = Append(Log, c)
  <2>1. executed \in Seq(Commands) /\ list \in Seq(Commands)
    BY <1>1 DEF Typed
  <2>2. executed \o Append(list, c) = Append(executed \o list, c)
    BY <2>1
  <2> QED
    BY <1>2, <2>2 DEF Log
<1>9. Log \in Seq(Commands) /\ Len(Log) \in Nat
  BY <1>1, LogTyped
<1>10. ASSUME NEW i \in 1 .. Len(Log') PROVE Meant(Log'[i], arrived)
  <2>1. \A j \in 1 .. Len(Log) : Meant(Log[j], arrived)
    BY DEF RepeatInv, AllMeant
  <2>2. CASE Log' = Log
    BY <2>1, <2>2
  <2>3. CASE Log' = Append(Log, c)
    <3>1. /\ Len(Log') = Len(Log) + 1 /\ Log'[Len(Log) + 1] = c
          /\ \A j \in 1 .. Len(Log) : Log'[j] = Log[j]
      BY <1>9, <2>3
    <3>2. CASE i = Len(Log) + 1
      BY <1>2, <1>6, <3>1, <3>2
    <3>3. CASE i \in 1 .. Len(Log)
      BY <2>1, <3>1, <3>3
    <3> QED
      BY <1>9, <3>1, <3>2, <3>3
  <2> QED
    BY <1>8, <2>2, <2>3
<1>11. AllMeant'
  <2>1. \A d \in heap' : Meant(d, arrived')
    BY <1>2, <1>6 DEF RepeatInv, AllMeant
  <2>2. \A i \in 1 .. Len(Log') : Meant(Log'[i], arrived')
    BY <1>2, <1>10
  <2> QED
    BY <2>1, <2>2 DEF AllMeant
<1> QED
  BY <1>7, <1>11 DEF RepeatInv, Decoded

\* A held key repeats its own command (ERxIRCommandRecv.cpp:13-75).
THEOREM Repeats == Spec => []RepeatsLastKey
<1>1. OrderInv /\ RepeatInv /\ [Next]_vars => (OrderInv /\ RepeatInv)'
  <2> SUFFICES ASSUME OrderInv, RepeatInv, [Next]_vars PROVE RepeatInv' /\ OrderInv'
    OBVIOUS
  <2>1. OrderInv'
    BY OrderStep
  <2>2. CASE UNCHANGED <<list, heap, executed, pending, lastCmd, arrived>>
    <3>1. Log' = Log
      BY <2>2 DEF Log
    <3>2. heap' \subseteq heap
      BY <2>2
    <3> QED
      BY <2>1, <2>2, <3>1, <3>2, RepeatKept
  <2>3. ASSUME NEW r \in UartReceivers, Arrive(r, UartId) PROVE RepeatInv'
    BY <2>3, RepeatArrive DEF Receivers, Items
  <2>4. ASSUME NEW r \in IrReceivers, NEW signal \in Signals, Arrive(r, signal) PROVE RepeatInv'
    BY <2>4, RepeatArrive DEF Receivers, Items
  <2>5. CASE Return
    <3>1. heap' \subseteq heap
      BY <2>5 DEF Return
    <3> QED
      <4>1. Log' = Log
        BY <2>5, LogOfReturn DEF OrderInv
      <4>2. UNCHANGED <<pending, arrived, lastCmd>>
        BY <2>5 DEF Return
      <4> QED
        BY <2>1, <3>1, <4>1, <4>2, RepeatKept
  <2> QED
    BY <2>1, <2>2, <2>3, <2>4, <2>5, RepeatReceive
    DEF Next, Call, vars, RegisterCommandReceiver, GetNextPendingCommand, NextReceiver
<1>2. OrderInv /\ RepeatInv => RepeatsLastKey
  <2> SUFFICES ASSUME OrderInv, RepeatInv,
                      NEW c \in heap \union Range(executed), c.from \in IrReceivers
               PROVE  c.id = Meaning(arrived[c.from], c.n)
    BY DEF RepeatsLastKey
  <2>1. CASE c \in heap
    BY <2>1 DEF RepeatInv, AllMeant, Meant
  <2>2. CASE c \in Range(executed)
    <3>1. executed \in Seq(Commands) /\ list \in Seq(Commands)
      BY DEF OrderInv, Typed
    <3>2. PICK i \in 1 .. Len(executed) : c = executed[i]
      BY <2>2, <3>1 DEF Range
    <3>3. i \in 1 .. Len(Log) /\ Log[i] = c
      BY <3>1, <3>2 DEF Log
    <3> QED
      BY <3>3 DEF RepeatInv, AllMeant, Meant
  <2> QED
    BY <2>1, <2>2
<1> QED
  BY <1>1, <1>2, OrderStarts, RepeatStarts, PTL DEF Spec
=============================================================================
